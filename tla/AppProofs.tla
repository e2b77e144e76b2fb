------------------------------ MODULE AppProofs ------------------------------
(***************************************************************************)
(* Theorems about the app's life on the device: the native proxy, for      *)
(* every set of callers and every limit on restarts; the supervisor that   *)
(* runs the app, and with it a proxy, again and again; and the updater     *)
(* that replaces them both, over any number of reboots.                    *)
(***************************************************************************)
EXTENDS Supervisor, OtaUpdate, TLAPS
----------------------------------------------------------------------------
(* One run of the proxy.                                                   *)

(* The processes started, by the number of restarts: the monitor is one    *)
(* process ahead of its count, except between the count and the start.     *)
Counted ==
    /\ app # "max restarts" => restarts < MaxRestartAttempts
    /\ gen <= restarts + 1
    /\ pc \in {"spawn", "closing"} \/ app = "max restarts" => gen <= restarts

(* The client is nil when a process is started, and the process is over    *)
(* when the monitor has got past Wait.                                     *)
Closed ==
    /\ pc \in {"spawn", "handshake"} =>
            client = 0 /\ \A c \in Caller : call[c] = 0
    /\ pc \in {"spawn", "closing", "restart"} \/ reaped => child \in {"none", "exited"}

IInv == TypeOK /\ Counted /\ Closed /\ CallsReachTheirProcess

(* The counters are numbers. *)
LEMMA Counts ==
  ASSUME TypeOK
  PROVE  /\ restarts \in Nat /\ gen \in Nat /\ MaxRestartAttempts \in Nat
         /\ gen <= MaxRestartAttempts
<1>1. gen \in 0 .. MaxRestartAttempts /\ restarts \in 0 .. MaxRestartAttempts
  BY DEF TypeOK
<1> QED
  BY <1>1, AttemptsAssumption

LEMMA InitInv == Init => IInv
<1> SUFFICES ASSUME Init PROVE IInv
  OBVIOUS
<1>1. TypeOK
  <2>1. call \in [Caller -> 0 .. gen]
    BY DEF Init
  <2>2. restarts \in 0 .. MaxRestartAttempts /\ gen \in 0 .. MaxRestartAttempts
    BY AttemptsAssumption DEF Init
  <2>3. client \in 0 .. gen
    BY DEF Init
  <2>4. started \in BOOLEAN /\ reaped \in BOOLEAN /\ repaint \in BOOLEAN /\ painted \in BOOLEAN
    BY DEF Init
  <2> QED
    BY <2>1, <2>2, <2>3, <2>4 DEF Init, TypeOK
<1>2. Counted
  BY AttemptsAssumption DEF Init, Counted
<1>3. Closed
  BY DEF Init, Closed
<1>4. CallsReachTheirProcess
  BY DEF Init, CallsReachTheirProcess
<1> QED
  BY <1>1, <1>2, <1>3, <1>4 DEF IInv

(* Every step preserves the invariant: a case for each action. *)
LEMMA StepInv == IInv /\ [Next]_vars => IInv'
<1> SUFFICES ASSUME IInv, [Next]_vars PROVE IInv'
  OBVIOUS
<1> USE AttemptsAssumption DEF At, process, screen
<1>1. CASE Spawn
  <2>1. TypeOK'
    <3>1. gen' \in 0 .. MaxRestartAttempts
      BY <1>1 DEF IInv, TypeOK, Counted, Spawn
    <3>2. call' \in [Caller -> 0 .. gen'] /\ client' \in 0 .. gen'
      <4>1. gen \in Nat /\ gen' = gen + 1
        BY <1>1 DEF IInv, TypeOK, Spawn
      <4>2. 0 .. gen \subseteq 0 .. gen'
        BY <4>1
      <4> QED
        BY <1>1, <4>2 DEF IInv, TypeOK, Spawn
    <3> QED
      BY <1>1, <3>1, <3>2 DEF IInv, TypeOK, Spawn
  <2>2. Counted'
    BY <1>1 DEF IInv, TypeOK, Counted, Spawn
  <2>3. Closed'
    BY <1>1 DEF IInv, TypeOK, Closed, CallsReachTheirProcess, Spawn
  <2>4. CallsReachTheirProcess'
    BY <1>1 DEF IInv, TypeOK, Closed, CallsReachTheirProcess, Spawn
  <2> QED
    BY <2>1, <2>2, <2>3, <2>4 DEF IInv
<1>2. CASE SpawnFails
  <2>1. TypeOK'
    BY <1>2 DEF IInv, TypeOK, Counted, SpawnFails, GiveUpStart
  <2>2. Counted'
    BY <1>2 DEF IInv, TypeOK, Counted, SpawnFails, GiveUpStart
  <2>3. Closed'
    BY <1>2 DEF IInv, TypeOK, Closed, CallsReachTheirProcess, SpawnFails, GiveUpStart
  <2>4. CallsReachTheirProcess'
    BY <1>2 DEF IInv, TypeOK, Closed, CallsReachTheirProcess, SpawnFails, GiveUpStart
  <2> QED
    BY <2>1, <2>2, <2>3, <2>4 DEF IInv
<1>3. CASE HandshakeDone
  <2>1. TypeOK'
    BY <1>3 DEF IInv, TypeOK, Counted, HandshakeDone
  <2>2. Counted'
    BY <1>3 DEF IInv, TypeOK, Counted, HandshakeDone
  <2>3. Closed'
    BY <1>3 DEF IInv, TypeOK, Closed, CallsReachTheirProcess, HandshakeDone
  <2>4. CallsReachTheirProcess'
    BY <1>3 DEF IInv, TypeOK, Closed, CallsReachTheirProcess, HandshakeDone
  <2> QED
    BY <2>1, <2>2, <2>3, <2>4 DEF IInv
<1>4. CASE HandshakeTimeout
  <2>1. TypeOK'
    BY <1>4 DEF IInv, TypeOK, Counted, HandshakeTimeout, GiveUpStart
  <2>2. Counted'
    BY <1>4 DEF IInv, TypeOK, Counted, HandshakeTimeout, GiveUpStart
  <2>3. Closed'
    BY <1>4 DEF IInv, TypeOK, Closed, CallsReachTheirProcess, HandshakeTimeout, GiveUpStart
  <2>4. CallsReachTheirProcess'
    BY <1>4 DEF IInv, TypeOK, Closed, CallsReachTheirProcess, HandshakeTimeout, GiveUpStart
  <2> QED
    BY <2>1, <2>2, <2>3, <2>4 DEF IInv
<1>5. CASE Ready
  <2>1. TypeOK'
    BY <1>5 DEF IInv, TypeOK, Counted, Ready, StartDone
  <2>2. Counted'
    BY <1>5 DEF IInv, TypeOK, Counted, Ready, StartDone
  <2>3. Closed'
    BY <1>5 DEF IInv, TypeOK, Closed, CallsReachTheirProcess, Ready, StartDone
  <2>4. CallsReachTheirProcess'
    BY <1>5 DEF IInv, TypeOK, Closed, CallsReachTheirProcess, Ready, StartDone
  <2> QED
    BY <2>1, <2>2, <2>3, <2>4 DEF IInv
<1>6. CASE ReadyFails
  <2>1. TypeOK'
    BY <1>6 DEF IInv, TypeOK, Counted, ReadyFails, GiveUpStart
  <2>2. Counted'
    BY <1>6 DEF IInv, TypeOK, Counted, ReadyFails, GiveUpStart
  <2>3. Closed'
    BY <1>6 DEF IInv, TypeOK, Closed, CallsReachTheirProcess, ReadyFails, GiveUpStart
  <2>4. CallsReachTheirProcess'
    BY <1>6 DEF IInv, TypeOK, Closed, CallsReachTheirProcess, ReadyFails, GiveUpStart
  <2> QED
    BY <2>1, <2>2, <2>3, <2>4 DEF IInv
<1>7. CASE WaitReturns
  <2>1. TypeOK'
    BY <1>7 DEF IInv, TypeOK, Counted, WaitReturns
  <2>2. Counted'
    BY <1>7 DEF IInv, TypeOK, Counted, WaitReturns
  <2>3. Closed'
    BY <1>7 DEF IInv, TypeOK, Closed, CallsReachTheirProcess, WaitReturns
  <2>4. CallsReachTheirProcess'
    BY <1>7 DEF IInv, TypeOK, Closed, CallsReachTheirProcess, WaitReturns
  <2> QED
    BY <2>1, <2>2, <2>3, <2>4 DEF IInv
<1>8. CASE CountRestart
  <2>1. /\ restarts \in Nat /\ gen \in Nat /\ MaxRestartAttempts \in Nat
        /\ restarts' = restarts + 1 /\ gen' = gen
        /\ restarts < MaxRestartAttempts /\ gen <= restarts + 1
    <3>1. restarts \in Nat /\ gen \in Nat /\ MaxRestartAttempts \in Nat
      BY Counts DEF IInv
    <3>2. restarts' = restarts + 1 /\ gen' = gen /\ app = "up"
      BY <1>8 DEF CountRestart
    <3>3. restarts < MaxRestartAttempts /\ gen <= restarts + 1
      BY <3>2 DEF IInv, Counted
    <3> QED
      BY <3>1, <3>2, <3>3
  <2>2. TypeOK'
    <3>1. restarts' \in 0 .. MaxRestartAttempts
      BY <2>1
    <3> QED
      BY <1>8, <3>1 DEF IInv, TypeOK, CountRestart
  <2>3. Counted'
    <3>1. CASE restarts' >= MaxRestartAttempts
      <4>1. app' = "max restarts"
        BY <1>8, <3>1 DEF CountRestart
      <4>2. gen' <= restarts' /\ gen' <= restarts' + 1
        BY <2>1
      <4> QED
        BY <4>1, <4>2 DEF Counted
    <3>2. CASE ~(restarts' >= MaxRestartAttempts)
      <4>1. restarts' < MaxRestartAttempts /\ gen' <= restarts'
        BY <2>1, <3>2
      <4>2. app' = app /\ pc' = "closing"
        BY <1>8, <3>2 DEF CountRestart
      <4> QED
        BY <1>8, <2>1, <4>1, <4>2 DEF Counted, CountRestart
    <3> QED
      BY <3>1, <3>2
  <2>4. Closed'
    BY <1>8 DEF IInv, TypeOK, Closed, CallsReachTheirProcess, CountRestart
  <2>5. CallsReachTheirProcess'
    BY <1>8 DEF IInv, TypeOK, Closed, CallsReachTheirProcess, CountRestart
  <2> QED
    BY <2>2, <2>3, <2>4, <2>5 DEF IInv
<1>9. CASE CloseClient
  <2>1. TypeOK'
    BY <1>9 DEF IInv, TypeOK, Counted, CloseClient
  <2>2. Counted'
    BY <1>9 DEF IInv, TypeOK, Counted, CloseClient
  <2>3. Closed'
    BY <1>9 DEF IInv, TypeOK, Closed, CallsReachTheirProcess, CloseClient
  <2>4. CallsReachTheirProcess'
    BY <1>9 DEF IInv, TypeOK, Closed, CallsReachTheirProcess, CloseClient
  <2> QED
    BY <2>1, <2>2, <2>3, <2>4 DEF IInv
<1>10. CASE ChildGreets
  <2>1. TypeOK'
    BY <1>10 DEF IInv, TypeOK, Counted, ChildGreets
  <2>2. Counted'
    BY <1>10 DEF IInv, TypeOK, Counted, ChildGreets
  <2>3. Closed'
    BY <1>10 DEF IInv, TypeOK, Closed, CallsReachTheirProcess, ChildGreets
  <2>4. CallsReachTheirProcess'
    BY <1>10 DEF IInv, TypeOK, Closed, CallsReachTheirProcess, ChildGreets
  <2> QED
    BY <2>1, <2>2, <2>3, <2>4 DEF IInv
<1>11. CASE ChildExits
  <2>1. TypeOK'
    BY <1>11 DEF IInv, TypeOK, Counted, ChildExits
  <2>2. Counted'
    BY <1>11 DEF IInv, TypeOK, Counted, ChildExits
  <2>3. Closed'
    BY <1>11 DEF IInv, TypeOK, Closed, CallsReachTheirProcess, ChildExits
  <2>4. CallsReachTheirProcess'
    BY <1>11 DEF IInv, TypeOK, Closed, CallsReachTheirProcess, ChildExits
  <2> QED
    BY <2>1, <2>2, <2>3, <2>4 DEF IInv
<1>12. CASE Repaint
  <2>1. TypeOK'
    BY <1>12 DEF IInv, TypeOK, Counted, Repaint
  <2>2. Counted'
    BY <1>12 DEF IInv, TypeOK, Counted, Repaint
  <2>3. Closed'
    BY <1>12 DEF IInv, TypeOK, Closed, CallsReachTheirProcess, Repaint
  <2>4. CallsReachTheirProcess'
    BY <1>12 DEF IInv, TypeOK, Closed, CallsReachTheirProcess, Repaint
  <2> QED
    BY <2>1, <2>2, <2>3, <2>4 DEF IInv
<1>13. CASE \E c \in Caller : BeginCall(c)
  <2>1. TypeOK'
    BY <1>13 DEF IInv, TypeOK, Counted, BeginCall
  <2>2. Counted'
    BY <1>13 DEF IInv, TypeOK, Counted, BeginCall
  <2>3. Closed'
    BY <1>13 DEF IInv, TypeOK, Closed, CallsReachTheirProcess, BeginCall
  <2>4. CallsReachTheirProcess'
    BY <1>13 DEF IInv, TypeOK, Closed, CallsReachTheirProcess, BeginCall
  <2> QED
    BY <2>1, <2>2, <2>3, <2>4 DEF IInv
<1>14. CASE \E c \in Caller : EndCall(c)
  <2>1. TypeOK'
    BY <1>14 DEF IInv, TypeOK, Counted, EndCall
  <2>2. Counted'
    BY <1>14 DEF IInv, TypeOK, Counted, EndCall
  <2>3. Closed'
    BY <1>14 DEF IInv, TypeOK, Closed, CallsReachTheirProcess, EndCall
  <2>4. CallsReachTheirProcess'
    BY <1>14 DEF IInv, TypeOK, Closed, CallsReachTheirProcess, EndCall
  <2> QED
    BY <2>1, <2>2, <2>3, <2>4 DEF IInv
<1>15. CASE UNCHANGED vars
  <2>1. TypeOK'
    <3>1. UNCHANGED <<app, pc, restarts, gen, child, stdout, client, call>>
      BY <1>15 DEF vars, process
    <3>2. started' \in BOOLEAN /\ reaped' \in BOOLEAN /\ repaint' \in BOOLEAN /\ painted' \in BOOLEAN
      BY <1>15, Zenon DEF IInv, TypeOK, vars, process, screen
    <3>3. QED BY <3>1, <3>2 DEF IInv, TypeOK
  <2>2. Counted'
    BY <1>15 DEF IInv, TypeOK, Counted, vars
  <2>3. Closed'
    BY <1>15 DEF IInv, TypeOK, Closed, CallsReachTheirProcess, vars
  <2>4. CallsReachTheirProcess'
    BY <1>15 DEF IInv, TypeOK, Closed, CallsReachTheirProcess, vars
  <2> QED
    BY <2>1, <2>2, <2>3, <2>4 DEF IInv
<1> QED
  BY <1>1, <1>2, <1>3, <1>4, <1>5, <1>6, <1>7, <1>8, <1>9, <1>10, <1>11, <1>12, <1>13, <1>14, <1>15 DEF Next, Monitor

LEMMA Invariance == Spec => []IInv
  BY InitInv, StepInv, PTL DEF Spec

(* The variables keep their types. *)
THEOREM TypeCorrect == Spec => []TypeOK
<1>1. IInv => TypeOK
  BY DEF IInv
<1> QED
  BY Invariance, <1>1, PTL

(* No more processes than attempts are ever started. *)
THEOREM AttemptsAreBounded == Spec => []BoundedProcesses
<1>1. IInv => BoundedProcesses
  BY Counts DEF IInv, BoundedProcesses
<1> QED
  BY Invariance, <1>1, PTL

(* No call reaches, or is left in, a client of an earlier process. *)
THEOREM CallsAreCurrent == Spec => []CallsReachTheirProcess
<1>1. IInv => CallsReachTheirProcess
  BY DEF IInv
<1> QED
  BY Invariance, <1>1, PTL

(* The step that starts a process finds the one before ended. *)
LEMMA OneStarts == IInv /\ [Next]_vars => [gen' > gen => child \in {"none", "exited"}]_vars
<1> SUFFICES ASSUME IInv, [Next]_vars, gen' > gen
             PROVE  child \in {"none", "exited"}
  OBVIOUS
<1>1. gen' # gen
  BY Counts DEF IInv
<1>2. Next
  BY <1>1 DEF vars, process
<1>3. CASE Spawn
  BY <1>3 DEF Spawn, At, IInv, Closed
<1>4. ~Spawn => gen' = gen
  BY <1>2 DEF Next, Monitor, SpawnFails, HandshakeDone, HandshakeTimeout, Ready, ReadyFails,
         WaitReturns, CountRestart, CloseClient, ChildGreets, ChildExits, BeginCall,
         EndCall, Repaint, process
<1> QED
  BY <1>1, <1>3, <1>4

(* A process is started only when the one before has ended. *)
THEOREM OneAtATime == Spec => OneChildAtATime
  BY Invariance, OneStarts, PTL DEF Spec, OneChildAtATime

(* What callers rely on: types, bounded processes, and calls that reach    *)
(* the process they were made on.                                          *)
THEOREM ProxyIsSound == Spec => []ProxySound
BY TypeCorrect, AttemptsAreBounded, CallsAreCurrent, PTL DEF ProxySound
----------------------------------------------------------------------------
(* The machine over all runs of the app.                                   *)

(* While the app runs in failsafe mode there is nothing the proxy's steps  *)
(* could go on from; while it runs at all, it went up with a started proxy.*)
Quiet ==
    failsafe /\ stage # "off" =>
        /\ cause # "none"
        /\ app = "up" /\ pc = "idle" /\ gen = 0 /\ child = "none" /\ client = 0

Upright ==
    /\ stage = "off" => app = "up"
    /\ stage = "up" => failsafe \/ started

MachineInv ==
    /\ IInv /\ MachineTypeOK /\ FailsafeIsEarned
    /\ Quiet /\ Upright /\ OnlyTheFirstStartIsFatal

(* Whatever a run of the app leaves behind, the next one, and the pause    *)
(* before it, begin with a proxy in order.                                 *)
LEMMA FreshInv ==
  ASSUME NEW where \in {"spawn", "idle"}, FreshProxy(where)
  PROVE  IInv'
<1>1. TypeOK'
  <2>1. call' \in [Caller -> 0 .. gen']
    BY DEF FreshProxy
  <2>2. restarts' \in 0 .. MaxRestartAttempts /\ gen' \in 0 .. MaxRestartAttempts
    BY AttemptsAssumption DEF FreshProxy
  <2>3. client' \in 0 .. gen'
    BY DEF FreshProxy
  <2>4. started' \in BOOLEAN /\ reaped' \in BOOLEAN /\ repaint' \in BOOLEAN /\ painted' \in BOOLEAN
    BY DEF FreshProxy
  <2>5. /\ app' \in {"up", "failed to start", "max restarts"}
        /\ pc' \in {"spawn", "handshake", "ready", "wait", "restart", "closing", "idle"}
        /\ child' \in {"none", "booting", "serving", "exited"}
        /\ stdout' \in {"quiet", "offered", "taken"}
    BY DEF FreshProxy
  <2> QED
    BY <2>1, <2>2, <2>3, <2>4, <2>5 DEF TypeOK
<1>2. Counted'
  BY AttemptsAssumption DEF FreshProxy, Counted
<1>3. Closed'
  BY DEF FreshProxy, Closed
<1>4. CallsReachTheirProcess'
  BY DEF FreshProxy, CallsReachTheirProcess
<1> QED
  BY <1>1, <1>2, <1>3, <1>4 DEF IInv

(* What a step of the proxy does to the few variables the machine looks at:*)
(* started stays, a start fails only before, and what is idle stays idle.  *)
LEMMA ProxySteps ==
  ASSUME TypeOK, Next
  PROVE  /\ started => started'
         /\ app' = "failed to start" => ~started
         /\ app = "up"
         /\ (app = "up" /\ pc = "idle" /\ gen = 0 /\ child = "none" /\ client = 0) =>
              (app' = "up" /\ pc' = "idle" /\ gen' = 0 /\ child' = "none" /\ client' = 0)
<1> USE DEF At, process, screen, GiveUpStart, StartDone
<1>1. CASE Spawn \/ SpawnFails
  BY <1>1 DEF Spawn, SpawnFails, TypeOK
<1>2. CASE HandshakeDone \/ HandshakeTimeout
  BY <1>2 DEF HandshakeDone, HandshakeTimeout, TypeOK
<1>3. CASE Ready \/ ReadyFails
  BY <1>3 DEF Ready, ReadyFails, TypeOK
<1>4. CASE WaitReturns \/ CountRestart \/ CloseClient
  BY <1>4 DEF WaitReturns, CountRestart, CloseClient, TypeOK
<1>5. CASE ChildGreets \/ ChildExits
  BY <1>5 DEF ChildGreets, ChildExits, TypeOK
<1>6. CASE \E c \in Caller : BeginCall(c) \/ EndCall(c)
  <2>1. app = "up" /\ UNCHANGED <<app, pc, started, gen, child, client>>
    BY <1>6 DEF BeginCall, EndCall
  <2> QED
    BY <2>1
<1>7. CASE Repaint
  <2>1. app = "up" /\ UNCHANGED <<app, pc, started, gen, child, client>>
    BY <1>7 DEF Repaint
  <2> QED
    BY <2>1
<1> QED
  BY <1>1, <1>2, <1>3, <1>4, <1>5, <1>6, <1>7 DEF Next, Monitor

LEMMA MachineInitInv == MachineInit => MachineInv
<1> SUFFICES ASSUME MachineInit PROVE MachineInv
  OBVIOUS
<1>1. IInv
  BY InitInv DEF MachineInit
<1>2. MachineTypeOK
  <2>1. TypeOK
    BY <1>1 DEF IInv
  <2>2. /\ ends \in 0 .. MaxEnds /\ ordered \in 0 .. MaxEnds /\ kept \in 0 .. MaxKept
        /\ runs \in Nat
    BY SupervisorAssumption DEF MachineInit
  <2>3. failsafe \in BOOLEAN /\ marker \in BOOLEAN /\ lost \in BOOLEAN
    BY DEF MachineInit
  <2> QED
    BY <2>1, <2>2, <2>3 DEF MachineInit, MachineTypeOK
<1>3. FailsafeIsEarned
  BY DEF MachineInit, FailsafeIsEarned
<1>4. Quiet /\ Upright /\ OnlyTheFirstStartIsFatal
  BY DEF MachineInit, Init, Quiet, Upright, OnlyTheFirstStartIsFatal
<1> QED
  BY <1>1, <1>2, <1>3, <1>4 DEF MachineInv

(* The counters of the machine are numbers. *)
LEMMA MachineCounts ==
  ASSUME MachineTypeOK
  PROVE  ends \in Nat /\ ordered \in Nat /\ kept \in Nat /\ runs \in Nat
         /\ MaxEnds \in Nat /\ MaxKept \in Nat
BY SupervisorAssumption DEF MachineTypeOK

(* A launch keeps the account: the run is paid for by what made it one.    *)
LEMMA LaunchInv == MachineInv /\ Launch => MachineInv'
<1> SUFFICES ASSUME MachineInv, Launch PROVE MachineInv'
  OBVIOUS
<1> USE DEF Launch, LaunchMarked, LaunchAfterCrash, LaunchNormal, EnterFailsafe,
          Removed, Kept
<1>1. IInv'
  BY FreshInv
<1>2. MachineTypeOK'
  <2>1. TypeOK'
    BY <1>1 DEF IInv
  <2>2. runs' \in Nat
    BY MachineCounts DEF MachineInv
  <2>3. cause' \in Endings \cup {"none", "file"} /\ dump' \in Endings \cup {"none"}
    BY DEF MachineInv, MachineTypeOK
  <2>4. kept' \in 0 .. MaxKept
    BY MachineCounts DEF MachineInv, MachineTypeOK
  <2>5. marker' \in BOOLEAN /\ lost' \in BOOLEAN /\ failsafe' \in BOOLEAN
    BY Zenon DEF MachineInv, MachineTypeOK
  <2> QED
    BY <2>1, <2>2, <2>3, <2>4, <2>5 DEF MachineInv, MachineTypeOK
<1>3. FailsafeIsEarned'
  BY MachineCounts DEF MachineInv, FailsafeIsEarned
<1>4. Quiet' /\ Upright' /\ OnlyTheFirstStartIsFatal'
  BY DEF FreshProxy, Quiet, Upright, OnlyTheFirstStartIsFatal
<1> QED
  BY <1>1, <1>2, <1>3, <1>4 DEF MachineInv

(* An abnormal end pays for the dump it may leave. *)
LEMMA EndInv ==
  ASSUME MachineInv, NEW ending \in Endings, EndsBadly(ending)
  PROVE  MachineInv'
<1> USE DEF EndsBadly, Stop, Dumped
<1>1. IInv'
  BY FreshInv
<1>2. ends' \in 0 .. MaxEnds
  BY MachineCounts DEF MachineInv
<1>3. MachineTypeOK'
  BY <1>1, <1>2 DEF MachineInv, MachineTypeOK, IInv
<1>4. FailsafeIsEarned'
  BY MachineCounts DEF MachineInv, FailsafeIsEarned
<1>5. Quiet' /\ Upright' /\ OnlyTheFirstStartIsFatal'
  BY DEF FreshProxy, Quiet, Upright, OnlyTheFirstStartIsFatal
<1> QED
  BY <1>1, <1>3, <1>4, <1>5 DEF MachineInv

LEMMA MachineStepInv == MachineInv /\ [MachineNext]_allVars => MachineInv'
<1> SUFFICES ASSUME MachineInv, [MachineNext]_allVars PROVE MachineInv'
  OBVIOUS
<1>1. CASE Launch
  BY <1>1, LaunchInv
<1>2. CASE MainReady
  <2>1. IInv'
    BY <1>2, StepInv DEF MainReady, MachineInv
  <2>2. MachineTypeOK'
    BY <1>2, <2>1 DEF MainReady, MachineInv, MachineTypeOK, IInv
  <2>3. FailsafeIsEarned'
    BY <1>2 DEF MainReady, MachineInv, FailsafeIsEarned
  <2>4. Quiet' /\ Upright' /\ OnlyTheFirstStartIsFatal'
    BY <1>2 DEF MainReady, MachineInv, Quiet, Upright, OnlyTheFirstStartIsFatal, vars, process
  <2> QED
    BY <2>1, <2>2, <2>3, <2>4 DEF MachineInv
<1>3. CASE MakeMarker
  <2>1. IInv'
    BY <1>3, StepInv DEF MakeMarker, MachineInv
  <2>2. ordered' \in 0 .. MaxEnds
    BY <1>3, MachineCounts DEF MakeMarker, MachineInv
  <2>3. MachineTypeOK'
    BY <1>3, <2>1, <2>2 DEF MakeMarker, MachineInv, MachineTypeOK, IInv
  <2>4. FailsafeIsEarned'
    BY <1>3, MachineCounts DEF MakeMarker, MachineInv, FailsafeIsEarned
  <2>5. Quiet' /\ Upright' /\ OnlyTheFirstStartIsFatal'
    BY <1>3 DEF MakeMarker, MachineInv, Quiet, Upright, OnlyTheFirstStartIsFatal, vars, process
  <2> QED
    BY <2>1, <2>3, <2>4, <2>5 DEF MachineInv
<1>4. CASE ProxyFatal \/ Panic \/ KilledWhileStarting
  BY <1>4, EndInv DEF ProxyFatal, Panic, KilledWhileStarting, Endings
<1>5. CASE ShutDown
  <2>1. IInv'
    BY <1>5, FreshInv DEF ShutDown, Stop
  <2>2. MachineTypeOK'
    BY <1>5, <2>1 DEF ShutDown, Stop, MachineInv, MachineTypeOK, IInv
  <2>3. FailsafeIsEarned'
    BY <1>5 DEF ShutDown, MachineInv, FailsafeIsEarned
  <2>4. Quiet' /\ Upright' /\ OnlyTheFirstStartIsFatal'
    BY <1>5 DEF ShutDown, Stop, FreshProxy, Quiet, Upright, OnlyTheFirstStartIsFatal
  <2> QED
    BY <2>1, <2>2, <2>3, <2>4 DEF MachineInv
<1>6. CASE Proxy
  <2>1. IInv'
    BY <1>6, StepInv DEF Proxy, MachineInv
  <2>2. MachineTypeOK'
    BY <1>6, <2>1 DEF Proxy, machine, MachineInv, MachineTypeOK, IInv
  <2>3. FailsafeIsEarned'
    BY <1>6 DEF Proxy, machine, MachineInv, FailsafeIsEarned
  <2>4. TypeOK /\ Next /\ UNCHANGED machine /\ stage \in {"starting", "up"}
    BY <1>6 DEF Proxy, MachineInv, MachineTypeOK
  <2>5. Quiet'
    BY <2>4, ProxySteps DEF MachineInv, machine, Quiet
  <2>6. Upright'
    BY <2>4, ProxySteps DEF MachineInv, machine, Upright
  <2>7. OnlyTheFirstStartIsFatal'
    BY <2>4, <2>5, ProxySteps DEF MachineInv, machine, Quiet, Upright, OnlyTheFirstStartIsFatal
  <2> QED
    BY <2>1, <2>2, <2>3, <2>5, <2>6, <2>7 DEF MachineInv
<1>7. CASE UNCHANGED allVars
  <2>1. UNCHANGED vars /\ UNCHANGED machine
    BY <1>7 DEF allVars
  <2>2. IInv'
    BY <2>1, StepInv DEF MachineInv
  <2>3. MachineTypeOK'
    BY <2>1, <2>2 DEF machine, MachineInv, MachineTypeOK, IInv
  <2>4. FailsafeIsEarned'
    BY <2>1 DEF machine, MachineInv, FailsafeIsEarned
  <2>5. Quiet' /\ Upright' /\ OnlyTheFirstStartIsFatal'
    BY <2>1 DEF machine, vars, process, MachineInv, Quiet, Upright, OnlyTheFirstStartIsFatal
  <2> QED
    BY <2>2, <2>3, <2>4, <2>5 DEF MachineInv
<1> QED
  BY <1>1, <1>2, <1>3, <1>4, <1>5, <1>6, <1>7 DEF MachineNext

LEMMA MachineInvariance == MachineSpec => []MachineInv
  BY MachineInitInv, MachineStepInv, PTL DEF MachineSpec

(* Over all runs of the app: every failsafe run is paid for by an abnormal *)
(* end, a marker or a removal that failed, each paying once, and starts no *)
(* native process; and an app that is up never ends over a restart that    *)
(* fails.                                                                  *)
THEOREM MachineIsSound == MachineSpec => []MachineSound
<1>1. MachineInv => MachineSound
  BY DEF MachineInv, Quiet, FailsafeIsEmpty, MachineSound
<1> QED
  BY MachineInvariance, <1>1, PTL

(* What callers rely on holds in every run of the app, not in one only.    *)
THEOREM ProxyIsSoundInEveryRun == MachineSpec => []ProxySound
<1>1. MachineInv => ProxySound
  BY Counts DEF MachineInv, IInv, ProxySound, BoundedProcesses
<1> QED
  BY MachineInvariance, <1>1, PTL

(* And in every run a native process is started only when the one before   *)
(* has ended.                                                              *)
THEOREM OneAtATimeInEveryRun == MachineSpec => OneChildAtATime
<1>1. MachineInv /\ [MachineNext]_allVars => [gen' > gen => child \in {"none", "exited"}]_vars
  <2> SUFFICES ASSUME MachineInv, [MachineNext]_allVars, gen' > gen
               PROVE  child \in {"none", "exited"}
    OBVIOUS
  <2>1. gen \in Nat /\ gen' # gen /\ gen' # 0
    <3>1. gen \in Nat
      BY Counts DEF MachineInv, IInv
    <3> QED
      BY <3>1
  <2>2. CASE Next
    BY <2>1, <2>2, OneStarts DEF MachineInv, vars, process
  <2>3. ~Next => gen' = gen \/ gen' = 0
    BY DEF MachineNext, Launch, LaunchMarked, LaunchAfterCrash, LaunchNormal, EnterFailsafe,
           MainReady, MakeMarker, ProxyFatal, Panic, KilledWhileStarting, ShutDown, EndsBadly,
           Stop, FreshProxy, Proxy, allVars, vars, process
  <2> QED
    BY <2>1, <2>2, <2>3
<1> QED
  BY MachineInvariance, <1>1, PTL DEF MachineSpec, OneChildAtATime
----------------------------------------------------------------------------
(* The updater, for every set of versions, of requests and of file         *)
(* contents.                                                               *)

(* What an attempt has behind it at each of its steps: when the system is  *)
(* worked on, the app has either nothing pending or is in place; when rk_ota *)
(* runs, its tar is the announced one; from there on everything pending is *)
(* in place and the reboot is owed.                                        *)
AppInPlace == status["app"].pending => path["app"] = status["app"].version

Progress ==
    /\ at \in {"prepare", "download", "verify"} /\ cur = "system" => AppInPlace
    /\ at = "flash" => /\ cur = "system"
                       /\ AppInPlace
                       /\ path["system"] = status["system"].version
    /\ at \in {"finish", "reset", "reboot", "rebooting"} =>
          /\ rebootNeeded
          /\ \A c \in Components : status[c].pending => Staged[c] = status[c].version

OtaInv == OtaTypeOK /\ BusyWhileAttempting /\ OnlyVerifiedIsStaged /\ Progress

USE DEF Components

(* The starting state satisfies the inductive invariant. *)
LEMMA OtaInitInv == OtaInit => OtaInv
<1> SUFFICES ASSUME OtaInit PROVE OtaInv
    OBVIOUS
<1> USE VersionsAssumption, FilesAssumption
<1>1. status \in [Components -> StatusType] /\ status = FreshStatus
  BY DEF OtaInit, FreshMemory, FreshStatus, StatusType
<1>2. params \in RequestType
  BY DEF OtaInit, FreshMemory, NoRequest, RequestType
<1>3. OtaTypeOK
  BY <1>1, <1>2 DEF OtaInit, FreshMemory, OtaTypeOK, Steps
<1>4. BusyWhileAttempting /\ OnlyVerifiedIsStaged /\ Progress
  BY <1>3 DEF OtaInit, FreshMemory, BusyWhileAttempting, OnlyVerifiedIsStaged, Staged, Progress
<1>5. QED BY <1>3, <1>4 DEF OtaInv

(* What the steps of an attempt and a boot do to types. *)
LEMMA OtaTypeStep == OtaTypeOK /\ [OtaNext]_otaVars => OtaTypeOK'
<1> SUFFICES ASSUME OtaTypeOK, [OtaNext]_otaVars PROVE OtaTypeOK'
    OBVIOUS
<1> USE VersionsAssumption, RequestsAssumption
<1>1. CASE \E p \in Requests : TryUpdate(p)
  BY <1>1 DEF TryUpdate, OtaTypeOK, Steps, RequestType, disk
<1>2. CASE CheckSucceeds
  <2>1. PICK remote \in [Components -> Versions] :
          LET st == MarkPending([c \in Components |-> Checked(c, remote)])
          IN /\ status' = st
             /\ IF \E c \in Components : st[c].pending
                THEN Goto("prepare", FirstPending(st))
                ELSE updating' = FALSE /\ at' = "idle" /\ UNCHANGED <<cur, params>>
    BY <1>2 DEF CheckSucceeds
  <2>2. status' \in [Components -> StatusType]
    <3> DEFINE chk == [c \in Components |-> Checked(c, remote)]
    <3>1. ASSUME NEW c \in Components PROVE Checked(c, remote) \in StatusType
      <4>1. status[c] \in StatusType /\ remote[c] \in Versions /\ local[c] \in Versions
        BY DEF OtaTypeOK
      <4>2. QED BY <4>1 DEF Checked, StatusType
    <3>2. ASSUME NEW c \in Components PROVE MarkPending(chk)[c] \in StatusType
      BY <3>1 DEF MarkPending, StatusType
    <3>3. status' = MarkPending(chk)
      BY <2>1
    <3>4. QED BY <3>2, <3>3 DEF MarkPending
  <2>3. at' \in Steps /\ cur' \in Components /\ params' \in RequestType /\ updating' \in BOOLEAN
    BY <2>1 DEF Goto, FirstPending, Steps, OtaTypeOK
  <2>4. QED BY <1>2, <2>2, <2>3 DEF CheckSucceeds, OtaTypeOK, disk
<1>3. CASE CheckFails \/ DownloadFails \/ FlashFails
  BY <1>3 DEF CheckFails, DownloadFails, FlashFails, Fail, OtaTypeOK, Steps, disk
<1>4. CASE Prepare \/ PrepareFails \/ DownloadSucceeds
  BY <1>4 DEF Prepare, PrepareFails, DownloadSucceeds, Fail, Goto, OtaTypeOK, Steps,
              Content, StatusType
<1>5. CASE VerifySucceeds \/ VerifyFails
  BY <1>5 DEF VerifySucceeds, VerifyFails, HashMatches, Fail, Goto, OtaTypeOK, Steps,
              Content, StatusType
<1>6. CASE FlashSucceeds \/ Finish \/ ResetConfig \/ RequestReboot
  BY <1>6 DEF FlashSucceeds, Finish, ResetConfig, RequestReboot, Fail, Goto, OtaTypeOK,
              Steps, Content, disk
<1>7. CASE Boot
  <2>1. local' \in [Components -> Versions]
    BY <1>7 DEF Boot
  <2>2. status' \in [Components -> StatusType]
    BY <1>7, <2>1 DEF Boot, FreshStatus, StatusType
  <2>3. at' \in Steps /\ cur' \in Components /\ params' \in RequestType
    BY <1>7 DEF Boot, Steps, RequestType, NoRequest
  <2>4. QED BY <1>7, <2>1, <2>2, <2>3 DEF Boot, OtaTypeOK
<1>8. CASE UNCHANGED otaVars
  BY <1>8 DEF otaVars, memory, disk, OtaTypeOK
<1>9. QED BY <1>1, <1>2, <1>3, <1>4, <1>5, <1>6, <1>7, <1>8 DEF OtaNext

(* No step breaks the inductive invariant. *)
LEMMA OtaStepInv == OtaInv /\ [OtaNext]_otaVars => OtaInv'
<1> SUFFICES ASSUME OtaInv, [OtaNext]_otaVars PROVE OtaInv'
    OBVIOUS
<1> USE VersionsAssumption, FilesAssumption DEF OtaInv
<1>0. OtaTypeOK'
  BY OtaTypeStep
<1> USE DEF BusyWhileAttempting, OnlyVerifiedIsStaged, Staged, Progress, AppInPlace
<1>1. CASE \E p \in Requests : TryUpdate(p)
  BY <1>0, <1>1 DEF TryUpdate, disk
<1>2. CASE CheckSucceeds
  <2>1. PICK st : /\ status' = st
                  /\ IF \E c \in Components : st[c].pending
                     THEN Goto("prepare", FirstPending(st))
                     ELSE updating' = FALSE /\ at' = "idle" /\ UNCHANGED <<cur, params>>
    BY <1>2 DEF CheckSucceeds
  <2>2. UNCHANGED <<rebootNeeded, disk>> /\ at = "check"
    BY <1>2 DEF CheckSucceeds
  <2>3. (at' = "prepare" /\ updating' = updating /\ cur' = FirstPending(st))
        \/ (at' = "idle" /\ updating' = FALSE)
    BY <2>1 DEF Goto
  <2>4. cur' = "system" /\ at' = "prepare" => ~status'["app"].pending
    BY <2>1, <2>3 DEF FirstPending
  <2>5. QED BY <1>0, <2>2, <2>3, <2>4 DEF disk
<1>3. CASE CheckFails \/ DownloadFails \/ FlashFails
  BY <1>0, <1>3 DEF CheckFails, DownloadFails, FlashFails, Fail, disk
<1>4. CASE Prepare \/ PrepareFails \/ DownloadSucceeds
  BY <1>0, <1>4 DEF Prepare, PrepareFails, DownloadSucceeds, Fail, Goto, OtaTypeOK
<1>5. CASE VerifySucceeds
  <2>1. path' = [path EXCEPT ![cur] = status[cur].version]
    BY <1>5 DEF VerifySucceeds, HashMatches
  <2>2. status[cur].version \in Versions /\ status' = status /\ slot' = slot
    BY <1>5 DEF VerifySucceeds, OtaTypeOK, StatusType
  <2>3. CASE cur = "app"
    BY <1>0, <1>5, <2>1, <2>2, <2>3 DEF VerifySucceeds, Goto, OtaTypeOK
  <2>4. CASE cur = "system"
    BY <1>0, <1>5, <2>1, <2>2, <2>4 DEF VerifySucceeds, Goto, OtaTypeOK
  <2>5. QED BY <2>3, <2>4 DEF OtaTypeOK
<1>6. CASE VerifyFails
  <2>1. status[cur].version \in Versions
    BY DEF OtaTypeOK, StatusType
  <2>2. QED BY <1>0, <1>6, <2>1 DEF VerifyFails, HashMatches, Fail, OtaTypeOK
<1>7. CASE FlashSucceeds
  <2>1. status["system"].version \in Versions
    BY DEF OtaTypeOK, StatusType
  <2>2. QED BY <1>0, <1>7, <2>1 DEF FlashSucceeds, Goto
<1>8. CASE Finish \/ ResetConfig \/ RequestReboot
  BY <1>0, <1>8 DEF Finish, ResetConfig, RequestReboot, Fail, Goto, disk
<1>9. CASE Boot
  BY <1>0, <1>9 DEF Boot, OtaTypeOK
<1>10. CASE UNCHANGED otaVars
  BY <1>0, <1>10 DEF otaVars, memory, disk
<1>11. QED BY <1>1, <1>2, <1>3, <1>4, <1>5, <1>6, <1>7, <1>8, <1>9, <1>10 DEF OtaNext

(* The inductive invariant holds of every behaviour. *)
THEOREM OtaInvariance == OtaSpec => []OtaInv
  BY OtaInitInv, OtaStepInv, PTL DEF OtaSpec

(* Every variable keeps its type. *)
THEOREM OtaTypeCorrect == OtaSpec => []OtaTypeOK
<1>1. OtaInv => OtaTypeOK
  BY DEF OtaInv
<1>2. QED BY OtaInvariance, <1>1, PTL

(* No way out of doUpdate leaves the updater refusing calls for ever.      *)
THEOREM NeverStuckBusy == OtaSpec => []BusyWhileAttempting
<1>1. OtaInv => BusyWhileAttempting
  BY DEF OtaInv
<1>2. QED BY OtaInvariance, <1>1, PTL

(* The reboot an attempt asks for starts the announced releases.           *)
THEOREM RebootsCorrectly == OtaSpec => []RebootsIntoAnnounced
<1>1. OtaInv => RebootsIntoAnnounced
  BY DEF OtaInv, Progress, RebootsIntoAnnounced
<1>2. QED BY OtaInvariance, <1>1, PTL

(* Nothing unverified is ever where the boot would run it.                 *)
THEOREM StagesOnlyVerified == OtaSpec => []OnlyVerifiedIsStaged
<1>1. OtaInv => OnlyVerifiedIsStaged
  BY DEF OtaInv
<1>2. QED BY OtaInvariance, <1>1, PTL

(* What the run checks together: the updater has its types and is busy     *)
(* exactly while an attempt runs.                                          *)
THEOREM UpdaterIsSound == OtaSpec => []Sound
BY OtaTypeCorrect, NeverStuckBusy, PTL DEF Sound
=============================================================================
