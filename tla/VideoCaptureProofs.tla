------------------------- MODULE VideoCaptureProofs -------------------------
(***************************************************************************)
(* Theorems about VideoCapture, for any set of stream threads, any signals *)
(* and any bound: the memory and what it is lent for, the handle and the   *)
(* flag as long as the callers do not overlap, and what is encoded.        *)
(***************************************************************************)
EXTENDS VideoCapture, TLAPS

\* Where a stream thread is while it has the blocks.
Lent == {"venc", "capture", "cleanup", "join", "release"}

(* A thread has all the blocks or none, at most one has them, and the pool *)
(* has what nobody has and nobody lost.                                    *)
LendingInv ==
    /\ \A t \in Thread : held[t] = IF spc[t] \in Lent THEN Blocks ELSE 0
    /\ \A t, u \in Thread : spc[t] \in Lent /\ spc[u] \in Lent => t = u
    /\ (\E t \in Thread : spc[t] \in Lent) => pool = 0 /\ lost = 0
    /\ (\A t \in Thread : spc[t] \notin Lent) => pool + lost = Blocks

(* The encoder runs for the thread that has them.                          *)
CodingInv ==
    encoding => /\ channel = "receiving" /\ reader # "none"
                /\ \E t \in Thread : spc[t] \in {"capture", "cleanup"}

PcTyped ==
    /\ pc \in [Caller -> {"idle", "wake", "query", "height", "event", "gone",
                          "start", "raise", "create", "assign", "stop", "lower",
                          "join", "joining", "free", "null", "status", "status2",
                          "rewait", "inactive", "doze"}]
    /\ op \in [Caller -> {"none", "start", "stop", "restart", "sleep"}]
    /\ target \in [Caller -> Thread \cup {NoThread}]

ControlTyped ==
    /\ flag \in BOOLEAN /\ stopped \in BOOLEAN /\ dangling \in BOOLEAN
    /\ handle \in Thread \cup {NoThread}
    /\ asleep \in BOOLEAN /\ crashed \in BOOLEAN
    /\ wanted \in BOOLEAN /\ overlapped \in BOOLEAN

SignalTyped ==
    /\ width \in Widths \cup {0} /\ height \in Heights \cup {0} /\ signal \in BOOLEAN
    /\ change \in Mode \cup {NoSignal} /\ hdmi \in Mode \cup {NoSignal}
    /\ quality \in Factor /\ event \in BOOLEAN
    /\ left \in 0 .. MaxEvents /\ failed \in BOOLEAN

CallerTyped == PcTyped /\ ControlTyped /\ SignalTyped

StreamTyped ==
    /\ spc \in [Thread -> {"none", "begin", "loop", "width", "height", "request", "buffers",
                           "venc", "capture", "cleanup", "join", "release", "exited"}]
    /\ held \in [Thread -> 0 .. Blocks]
    /\ size \in [Thread -> (Widths \cup {0}) \X (Heights \cup {0})]
    /\ rate \in [Thread -> Factor \cup {0}]
    /\ pool \in 0 .. Blocks /\ lost \in 0 .. Blocks
    /\ channel \in {"none", "created", "receiving"}
    /\ reader \in {"none", "reading", "exited", "unmade"}
    /\ encoding \in BOOLEAN

IInv == CallerTyped /\ StreamTyped /\ LendingInv /\ CodingInv
----------------------------------------------------------------------------
(* A step spends one of the bound's events and may be a failure, or does not. *)
LEMMA ChanceTyped ==
    ASSUME left \in 0 .. MaxEvents, failed \in BOOLEAN, Fault \/ NoFault
    PROVE  left' \in 0 .. MaxEvents /\ failed' \in BOOLEAN
<1>1. CASE Fault
  <2>1. left' \in 0 .. MaxEvents
    BY <1>1, BoundAssumption DEF Fault, Spend
  <2>2. failed' \in BOOLEAN
    BY <1>1, Zenon DEF Fault
  <2>3. QED BY <2>1, <2>2
<1>2. CASE NoFault
  BY <1>2 DEF NoFault, chance
<1>3. QED BY <1>1, <1>2

LEMMA InitIInv == Init => IInv
<1> SUFFICES ASSUME Init PROVE IInv
    OBVIOUS
<1>1. CallerTyped
  <2>1. PcTyped
    BY DEF Init, PcTyped, Caller
  <2>2. ControlTyped
    BY Zenon DEF Init, ControlTyped
  <2>3. SignalTyped
    <3>1. left \in 0 .. MaxEvents
      BY BoundAssumption DEF Init
    <3>2. QED BY <3>1, Zenon DEF Init, SignalTyped
  <2>4. QED BY <2>1, <2>2, <2>3 DEF CallerTyped
<1>2. StreamTyped
  <2>1. size \in [Thread -> (Widths \cup {0}) \X (Heights \cup {0})]
    BY DEF Init
  <2>2. encoding \in BOOLEAN
    BY Zenon DEF Init
  <2>3. spc \in [Thread -> {"none", "begin", "loop", "width", "height", "request", "buffers",
                           "venc", "capture", "cleanup", "join", "release", "exited"}]
    BY DEF Init
  <2>4. /\ held \in [Thread -> 0 .. Blocks] /\ rate \in [Thread -> Factor \cup {0}]
        /\ pool \in 0 .. Blocks /\ lost \in 0 .. Blocks
    BY DEF Init, Blocks
  <2>5. channel \in {"none", "created", "receiving"} /\ reader \in {"none", "reading", "exited", "unmade"}
    BY DEF Init
  <2>6. QED BY <2>1, <2>2, <2>3, <2>4, <2>5 DEF StreamTyped
<1>3. LendingInv /\ CodingInv
  BY DEF Init, LendingInv, CodingInv, Lent, Blocks
<1>4. QED BY <1>1, <1>2, <1>3 DEF IInv

(* What a step of a caller leaves alone, and how it moves the threads. *)
LEMMA CallerLeavesMemory ==
    ASSUME StreamTyped, LendingInv, CodingInv, UNCHANGED <<memory, encoder, size, rate>>,
           \/ UNCHANGED spc
           \/ \E t \in Thread : spc[t] = "none" /\ spc' = [spc EXCEPT ![t] = "begin"]
           \/ \E t \in Thread : spc[t] = "exited" /\ spc' = [spc EXCEPT ![t] = "none"]
    PROVE  StreamTyped' /\ LendingInv' /\ CodingInv'
<1>1. StreamTyped'
  BY DEF StreamTyped, memory, encoder
<1>2. \A t \in Thread : spc'[t] \in Lent <=> spc[t] \in Lent
  BY DEF StreamTyped, Lent
<1>3. \A t \in Thread : spc[t] \in {"capture", "cleanup"} => spc'[t] \in {"capture", "cleanup"}
  BY DEF StreamTyped
<1>4. LendingInv'
  BY <1>2 DEF LendingInv, memory
<1>5. CodingInv'
  BY <1>3 DEF CodingInv, encoder
<1>6. QED BY <1>1, <1>4, <1>5

(* One step of a caller, whichever it is. *)
LEMMA CallerKeeps ==
    ASSUME IInv, NEW a \in Caller, CallerStep(a)
    PROVE  IInv'
<1> USE DEF At, Goto, Return, CallerRest, control, callers, detected, outside, chance, streams, history
<1>1. CASE Start(a) \/ Raise(a) \/ Assign(a) \/ Stop(a) \/ Lower(a)
  <2>1a. PcTyped'
    BY <1>1 DEF IInv, CallerTyped, PcTyped, Start, Raise, Assign, Stop, Lower, AfterStop
  <2>1b. ControlTyped'
    <3>1. CASE Start(a) \/ Stop(a)
      BY <3>1 DEF IInv, CallerTyped, ControlTyped, Start, Stop
    <3>2. CASE Raise(a)
      BY <3>2 DEF IInv, CallerTyped, ControlTyped, Raise
    <3>3. CASE Lower(a)
      BY <3>3 DEF IInv, CallerTyped, ControlTyped, Lower
    <3>4. CASE Assign(a)
      BY <3>4 DEF IInv, CallerTyped, ControlTyped, PcTyped, Assign
    <3>5. QED BY <1>1, <3>1, <3>2, <3>3, <3>4
  <2>1c. SignalTyped'
    BY <1>1 DEF IInv, CallerTyped, SignalTyped, Start, Raise, Assign, Stop, Lower, AfterStop
  <2>1. CallerTyped'
    BY <2>1a, <2>1b, <2>1c DEF CallerTyped
  <2>2. UNCHANGED <<memory, encoder, size, rate, spc>>
    BY <1>1 DEF Start, Raise, Assign, Stop, Lower
  <2>3. QED BY <2>1, <2>2, CallerLeavesMemory DEF IInv
<1>6. CASE StartFails(a)
  <2>1a. PcTyped'
    BY <1>6 DEF IInv, CallerTyped, PcTyped, StartFails
  <2>1b. ControlTyped'
    BY <1>6 DEF IInv, CallerTyped, ControlTyped, StartFails
  <2>1c. SignalTyped'
    BY <1>6, BoundAssumption DEF IInv, CallerTyped, SignalTyped, StartFails, Fault, Spend
  <2>1. CallerTyped'
    BY <2>1a, <2>1b, <2>1c DEF CallerTyped
  <2>2. UNCHANGED <<memory, encoder, size, rate, spc>>
    BY <1>6 DEF StartFails
  <2>3. QED BY <2>1, <2>2, CallerLeavesMemory DEF IInv
<1>2. CASE Create(a)
  <2>1a. PcTyped'
    BY <1>2 DEF IInv, CallerTyped, PcTyped, Create
  <2>1b. ControlTyped'
    BY <1>2 DEF IInv, CallerTyped, ControlTyped, Create
  <2>1c. SignalTyped'
    BY <1>2 DEF IInv, CallerTyped, SignalTyped, Create
  <2>1. CallerTyped'
    BY <2>1a, <2>1b, <2>1c DEF CallerTyped
  <2>2. UNCHANGED <<memory, encoder, size, rate>>
        /\ \E t \in Thread : spc[t] = "none" /\ spc' = [spc EXCEPT ![t] = "begin"]
    BY <1>2 DEF Create
  <2>3. QED BY <2>1, <2>2, CallerLeavesMemory DEF IInv
<1>3. CASE Join(a) \/ Free(a) \/ Null(a)
  <2>1a. PcTyped'
    <3>1. CASE Join(a)
      <4>1. CASE Crash
        BY <4>1, <3>1 DEF IInv, CallerTyped, PcTyped, Crash, Join
      <4>2. CASE Goto(a, "free") /\ UNCHANGED <<op, target>>
        BY <4>2 DEF IInv, CallerTyped, PcTyped
      <4>3. CASE ~BadHandle /\ target' = [target EXCEPT ![a] = handle] /\ Goto(a, "joining")
                 /\ UNCHANGED op
        BY <4>3 DEF IInv, CallerTyped, PcTyped, ControlTyped
      <4>4. QED BY <3>1, <4>1, <4>2, <4>3 DEF Join
    <3>2. CASE Free(a)
      BY <3>2 DEF IInv, CallerTyped, PcTyped, Free, Crash
    <3>3. CASE Null(a)
      BY <3>3 DEF IInv, CallerTyped, PcTyped, Null, AfterStop
    <3>4. QED BY <1>3, <3>1, <3>2, <3>3
  <2>1b. ControlTyped'
    BY <1>3 DEF IInv, CallerTyped, ControlTyped, Join, Free, Null, AfterStop, Crash
  <2>1c. SignalTyped'
    BY <1>3 DEF IInv, CallerTyped, SignalTyped, Join, Free, Null, AfterStop, Crash
  <2>1. CallerTyped'
    BY <2>1a, <2>1b, <2>1c DEF CallerTyped
  <2>2. UNCHANGED <<memory, encoder, size, rate, spc>>
    BY <1>3 DEF Join, Free, Null
  <2>3. QED BY <2>1, <2>2, CallerLeavesMemory DEF IInv
<1>4. CASE Joined(a)
  <2>1a. PcTyped'
    BY <1>4 DEF IInv, CallerTyped, PcTyped, Joined
  <2>1b. ControlTyped'
    BY <1>4 DEF IInv, CallerTyped, ControlTyped, Joined
  <2>1c. SignalTyped'
    BY <1>4 DEF IInv, CallerTyped, SignalTyped, Joined
  <2>1. CallerTyped'
    BY <2>1a, <2>1b, <2>1c DEF CallerTyped
  <2>2. UNCHANGED <<memory, encoder, size, rate>> /\ spc[target[a]] = "exited"
        /\ spc' = [spc EXCEPT ![target[a]] = "none"]
    BY <1>4 DEF Joined
  <2>3. target[a] \in Thread \/ UNCHANGED spc
    BY <2>2, ThreadAssumption DEF IInv, CallerTyped, PcTyped, StreamTyped
  <2>4. QED BY <2>1, <2>2, <2>3, CallerLeavesMemory DEF IInv
<1>5. CASE StatusFlag(a) \/ StatusStopped(a) \/ Rewait(a)
  <2>1a. PcTyped'
    BY <1>5 DEF IInv, CallerTyped, PcTyped, StatusFlag, StatusStopped, Rewait
  <2>1b. ControlTyped'
    BY <1>5 DEF IInv, CallerTyped, ControlTyped, StatusFlag, StatusStopped, Rewait
  <2>1c. SignalTyped'
    BY <1>5 DEF IInv, CallerTyped, SignalTyped, StatusFlag, StatusStopped, Rewait
  <2>1. CallerTyped'
    BY <2>1a, <2>1b, <2>1c DEF CallerTyped
  <2>2. UNCHANGED <<memory, encoder, size, rate, spc>>
    BY <1>5 DEF StatusFlag, StatusStopped, Rewait
  <2>3. QED BY <2>1, <2>2, CallerLeavesMemory DEF IInv
<1>7. QED BY <1>1, <1>2, <1>3, <1>4, <1>5, <1>6 DEF CallerStep

(* Go's calls and what Go does around them. *)
LEMMA GoKeeps ==
    ASSUME IInv, GoCall \/ Inactive \/ Doze
    PROVE  IInv'
<1> USE DEF At, Goto, Return, CallerRest, control, callers, detected, outside, chance, streams, history
<1>1. CASE GoCall
  <2>1a. PcTyped'
    BY <1>1, BoundAssumption DEF IInv, CallerTyped, PcTyped, GoCall, CallStart, CallStop, CallSleep, CallQuality, Call, Spend
  <2>1b. ControlTyped'
    BY <1>1, BoundAssumption DEF IInv, CallerTyped, ControlTyped, GoCall, CallStart, CallStop, CallSleep, CallQuality, Call, Spend
  <2>1c. SignalTyped'
    BY <1>1, BoundAssumption DEF IInv, CallerTyped, SignalTyped, GoCall, CallStart, CallStop, CallSleep, CallQuality, Call, Spend
  <2>1. CallerTyped'
    BY <2>1a, <2>1b, <2>1c DEF CallerTyped
  <2>2. UNCHANGED <<memory, encoder, size, rate, spc>>
    BY <1>1 DEF GoCall, CallStart, CallStop, CallSleep, CallQuality, Call
  <2>3. QED BY <2>1, <2>2, CallerLeavesMemory DEF IInv
<1>2. CASE Inactive \/ Doze
  <2>1a. PcTyped'
    BY <1>2 DEF IInv, CallerTyped, PcTyped, Inactive, Doze
  <2>1b. ControlTyped'
    BY <1>2 DEF IInv, CallerTyped, ControlTyped, Inactive, Doze
  <2>1c. SignalTyped'
    BY <1>2 DEF IInv, CallerTyped, SignalTyped, Inactive, Doze
  <2>1. CallerTyped'
    BY <2>1a, <2>1b, <2>1c DEF CallerTyped
  <2>2. UNCHANGED <<memory, encoder, size, rate, spc>>
    BY <1>2 DEF Inactive, Doze
  <2>3. QED BY <2>1, <2>2, CallerLeavesMemory DEF IInv
<1>3. QED BY <1>1, <1>2

(* The format thread, and the cable. *)
LEMMA FormatKeeps ==
    ASSUME IInv, Wake \/ Query \/ Height \/ Event \/ Cable
    PROVE  IInv'
<1> USE DEF At, Goto, FormatRest, control, callers, detected, outside, chance, streams, history
<1>1. CallerTyped'
  <2>1. PcTyped'
    BY DEF IInv, CallerTyped, PcTyped, Wake, Query, Height, Event, Cable
  <2>2. ControlTyped'
    BY DEF IInv, CallerTyped, ControlTyped, Wake, Query, Height, Event, Cable
  <2>3. SignalTyped'
    <3>1. CASE Wake \/ Event
      <4>1. Fault \/ NoFault
        BY <3>1 DEF Wake, Event, NoFault
      <4>2. left' \in 0 .. MaxEvents /\ failed' \in BOOLEAN
        BY <4>1, ChanceTyped DEF IInv, CallerTyped, SignalTyped
      <4>3. QED BY <3>1, <4>2 DEF IInv, CallerTyped, SignalTyped, Wake, Event
    <3>2. CASE Query \/ Height
      <4>1. \A m \in Mode : m[1] \in Widths /\ m[2] \in Heights
        BY DEF Widths, Heights
      <4>2. left' \in 0 .. MaxEvents /\ failed' \in BOOLEAN
        <5>1. Fault \/ NoFault
          BY <3>2 DEF Query, Height, NoFault
        <5>2. QED BY <5>1, ChanceTyped DEF IInv, CallerTyped, SignalTyped
      <4>3. CASE Query
        <5>1. width' \in Widths \cup {0} /\ signal' \in BOOLEAN /\ change' \in Mode \cup {NoSignal}
          BY <4>1, <4>3 DEF IInv, CallerTyped, SignalTyped, Query
        <5>2. UNCHANGED <<height, hdmi, quality, event>>
          BY <4>3 DEF Query
        <5>3. QED BY <4>2, <5>1, <5>2 DEF IInv, CallerTyped, SignalTyped
      <4>4. CASE Height
        <5>1. height' \in Heights \cup {0} /\ signal' \in BOOLEAN /\ change' \in Mode \cup {NoSignal}
          BY <4>1, <4>4 DEF IInv, CallerTyped, SignalTyped, Height
        <5>2. UNCHANGED <<width, hdmi, quality, event>>
          BY <4>4 DEF Height
        <5>3. QED BY <4>2, <5>1, <5>2 DEF IInv, CallerTyped, SignalTyped
      <4>5. QED BY <3>2, <4>3, <4>4
    <3>3. CASE Cable
      BY <3>3, BoundAssumption DEF IInv, CallerTyped, SignalTyped, Cable, Spend
    <3>4. QED BY <3>1, <3>2, <3>3
  <2>4. QED BY <2>1, <2>2, <2>3 DEF CallerTyped
<1>2. UNCHANGED <<memory, encoder, size, rate, spc>>
  BY DEF Wake, Query, Height, Event, Cable
<1>3. QED BY <1>1, <1>2, CallerLeavesMemory DEF IInv

(* The steps of a stream thread outside the part where it has the blocks. *)
LEMMA IdleStreamKeeps ==
    ASSUME IInv, NEW t \in Thread,
           Begin(t) \/ Look(t) \/ ReadWidth(t) \/ ReadHeight(t) \/ Request(t)
    PROVE  IInv'
<1> USE DEF In, Move, StreamRest, control, callers, detected, outside, chance, history
<1>1. left' \in 0 .. MaxEvents /\ failed' \in BOOLEAN
  <2>1. Fault \/ NoFault
    BY DEF Begin, Look, ReadWidth, ReadHeight, Request, NoFault
  <2>2. QED BY <2>1, ChanceTyped DEF IInv, CallerTyped, SignalTyped
<1>2. CallerTyped'
  <2>1. PcTyped'
    BY DEF IInv, CallerTyped, PcTyped, Begin, Look, ReadWidth, ReadHeight, Request
  <2>2. ControlTyped'
    BY DEF IInv, CallerTyped, ControlTyped, Begin, set_streaming_stopped, Look, ReadWidth, ReadHeight, Request
  <2>3. SignalTyped'
    BY <1>1 DEF IInv, CallerTyped, SignalTyped, Begin, Look, ReadWidth, ReadHeight, Request
  <2>4. QED BY <2>1, <2>2, <2>3 DEF CallerTyped
<1>3. \E l \in {"loop", "width", "height", "request", "buffers", "exited"} :
         spc' = [spc EXCEPT ![t] = l] /\ spc[t] \notin Lent /\ l \notin Lent
  BY DEF Begin, Look, ReadWidth, ReadHeight, Request, Die, Lent
<1>4. UNCHANGED <<held, pool, lost, encoder>>
  BY DEF IInv, StreamTyped, Begin, set_streaming_stopped, Look, ReadWidth, ReadHeight, Request, Die, memory, Blocks
<1>5. size' \in [Thread -> (Widths \cup {0}) \X (Heights \cup {0})]
  <2>1. CASE Begin(t) \/ Look(t)
    BY <2>1 DEF IInv, StreamTyped, Begin, Look
  <2>2. CASE ReadWidth(t) \/ ReadHeight(t)
    BY <2>2 DEF IInv, StreamTyped, CallerTyped, SignalTyped, ReadWidth, ReadHeight
  <2>3. CASE Request(t)
    BY <2>3 DEF IInv, StreamTyped, Request, Die, Forget
  <2>4. QED BY <2>1, <2>2, <2>3
<1>6. rate' \in [Thread -> Factor \cup {0}]
  BY DEF IInv, StreamTyped, Begin, Look, ReadWidth, ReadHeight, Request, Die, Forget
<1>7. StreamTyped'
  <2>1. spc' \in [Thread -> {"none", "begin", "loop", "width", "height", "request", "buffers",
                             "venc", "capture", "cleanup", "join", "release", "exited"}]
    BY <1>3 DEF IInv, StreamTyped
  <2>2. encoding' \in BOOLEAN
    BY <1>4, Zenon DEF IInv, StreamTyped, encoder
  <2>3. UNCHANGED <<held, pool, lost, channel, reader>>
    BY <1>4 DEF encoder
  <2>4. QED BY <1>5, <1>6, <2>1, <2>2, <2>3 DEF IInv, StreamTyped
<1>8. \A u \in Thread : spc'[u] \in Lent <=> spc[u] \in Lent
  BY <1>3 DEF IInv, StreamTyped
<1>9. LendingInv'
  BY <1>4, <1>8 DEF IInv, LendingInv
<1>10. \A u \in Thread : spc[u] \in {"capture", "cleanup"} => spc'[u] = spc[u]
  BY <1>3 DEF IInv, StreamTyped, Lent
<1>11. CodingInv'
  BY <1>4, <1>10 DEF IInv, CodingInv, encoder
<1>12. QED BY <1>2, <1>7, <1>9, <1>11 DEF IInv

(* A stream thread with the blocks, or taking them: what is not about them. *)
LEMMA BusyStreamTyped ==
    ASSUME IInv, NEW t \in Thread,
           Buffers(t) \/ VencStart(t) \/ Leave(t) \/ Cleanup(t) \/ VencStop(t) \/ Release(t)
    PROVE  /\ CallerTyped'
           /\ size' \in [Thread -> (Widths \cup {0}) \X (Heights \cup {0})]
           /\ rate' \in [Thread -> Factor \cup {0}]
<1> USE DEF In, Move, StreamRest, control, callers, detected, outside, chance, history
<1>1. left' \in 0 .. MaxEvents /\ failed' \in BOOLEAN
  <2>1. Fault \/ NoFault
    BY DEF Buffers, VencStart, Leave, Cleanup, VencStop, Release, NoFault
  <2>2. QED BY <2>1, ChanceTyped DEF IInv, CallerTyped, SignalTyped
<1>2. CallerTyped'
  <2>1. PcTyped'
    BY DEF IInv, CallerTyped, PcTyped, Buffers, VencStart, Leave, Cleanup, VencStop, Release
  <2>2. ControlTyped'
    BY DEF IInv, CallerTyped, ControlTyped, Buffers, VencStart, Leave, Cleanup, VencStop, Release
  <2>3. SignalTyped'
    BY <1>1 DEF IInv, CallerTyped, SignalTyped, Buffers, VencStart, Leave, Cleanup, VencStop, Release
  <2>4. QED BY <2>1, <2>2, <2>3 DEF CallerTyped
<1>3. size' = size \/ size' = [size EXCEPT ![t] = <<0, 0>>]
  BY DEF Buffers, VencStart, Leave, Cleanup, VencStop, Release, Die, Forget
<1>4. rate' = rate \/ \E f \in Factor \cup {0} : rate' = [rate EXCEPT ![t] = f]
  BY DEF IInv, CallerTyped, SignalTyped, Buffers, VencStart, Leave, Cleanup, VencStop, Release, Die, Forget
<1>5. size' \in [Thread -> (Widths \cup {0}) \X (Heights \cup {0})]
  BY <1>3 DEF IInv, StreamTyped
<1>6. rate' \in [Thread -> Factor \cup {0}]
  BY <1>4 DEF IInv, StreamTyped
<1>7. QED BY <1>2, <1>5, <1>6

(* Taking the blocks, or losing some of them. *)
LEMMA BuffersKeeps ==
    ASSUME IInv, NEW t \in Thread, Buffers(t)
    PROVE  IInv'
<1> USE DEF In, Move, Lent
<1>1. UNCHANGED encoder
  BY DEF Buffers
<1>2. spc[t] = "buffers" /\ pool \in 0 .. Blocks /\ lost \in 0 .. Blocks
  BY DEF Buffers, IInv, StreamTyped
<1>3. CASE pool = Blocks /\ held' = [held EXCEPT ![t] = Blocks] /\ pool' = 0 /\ lost' = lost
           /\ spc' = [spc EXCEPT ![t] = "venc"]
  <2>1. \A u \in Thread : spc[u] \notin Lent
    BY <1>3 DEF IInv, LendingInv, Blocks
  <2>2. lost = 0
    BY <1>2, <1>3, <2>1 DEF IInv, LendingInv, Blocks
  <2>3. LendingInv'
    BY <1>2, <1>3, <2>1, <2>2 DEF IInv, LendingInv, StreamTyped, Blocks
  <2>4. CodingInv'
    BY <1>1, <1>2, <1>3 DEF IInv, CodingInv, StreamTyped, encoder
  <2>5. StreamTyped'
    BY <1>1, <1>2, <1>3, BusyStreamTyped DEF IInv, StreamTyped, Blocks, encoder
  <2>6. QED BY <2>3, <2>4, <2>5, BusyStreamTyped DEF IInv
<1>4. CASE \E k \in 0 .. pool : Die(t, k)
  <2>1. PICK k \in 0 .. pool : pool' = pool - k /\ lost' = lost + k
             /\ held' = held /\ spc' = [spc EXCEPT ![t] = "exited"]
    BY <1>4 DEF Die
  <2>2. ASSUME \E u \in Thread : spc[u] \in Lent
        PROVE  LendingInv' /\ pool' \in 0 .. Blocks /\ lost' \in 0 .. Blocks
    <3>1. pool = 0 /\ lost = 0 /\ k = 0
      BY <2>1, <2>2 DEF IInv, LendingInv
    <3>2. LendingInv'
      BY <1>2, <2>1, <2>2, <3>1 DEF IInv, LendingInv, StreamTyped
    <3>3. pool' \in 0 .. Blocks /\ lost' \in 0 .. Blocks
      BY <2>1, <3>1 DEF Blocks
    <3>4. QED BY <3>2, <3>3
  <2>3. ASSUME \A u \in Thread : spc[u] \notin Lent
        PROVE  LendingInv' /\ pool' \in 0 .. Blocks /\ lost' \in 0 .. Blocks
    <3>1. pool + lost = Blocks
      BY <2>3 DEF IInv, LendingInv
    <3>2. pool' + lost' = Blocks /\ pool' \in 0 .. Blocks /\ lost' \in 0 .. Blocks
      BY <1>2, <2>1, <3>1 DEF Blocks
    <3>3. LendingInv'
      BY <1>2, <2>1, <2>3, <3>2 DEF IInv, LendingInv, StreamTyped
    <3>4. QED BY <3>2, <3>3
  <2>4. LendingInv' /\ pool' \in 0 .. Blocks /\ lost' \in 0 .. Blocks
    BY <2>2, <2>3
  <2>5. CodingInv'
    BY <1>1, <1>2, <2>1 DEF IInv, CodingInv, StreamTyped, encoder
  <2>6. StreamTyped'
    BY <1>1, <2>1, <2>4, BusyStreamTyped DEF IInv, StreamTyped, encoder
  <2>7. QED BY <2>4, <2>5, <2>6, BusyStreamTyped DEF IInv
<1>5. QED BY <1>2, <1>3, <1>4 DEF Buffers, Die

(* Working with them. *)
LEMMA WorkKeeps ==
    ASSUME IInv, NEW t \in Thread, VencStart(t) \/ Leave(t) \/ Cleanup(t) \/ VencStop(t)
    PROVE  IInv'
<1> USE DEF In, Move
<1>1. UNCHANGED memory /\ spc[t] \in {"venc", "capture", "cleanup", "join"}
      /\ (UNCHANGED spc \/ \E l \in {"capture", "cleanup", "join", "release"} : spc' = [spc EXCEPT ![t] = l])
  BY DEF VencStart, Leave, Cleanup, VencStop
<1>2. \A u \in Thread : spc'[u] \in Lent <=> spc[u] \in Lent
  BY <1>1 DEF IInv, StreamTyped, Lent
<1>3. LendingInv'
  BY <1>1, <1>2 DEF IInv, LendingInv, memory
<1>4. channel' \in {"none", "created", "receiving"} /\ reader' \in {"none", "reading", "exited", "unmade"}
      /\ encoding' \in BOOLEAN
  BY DEF IInv, StreamTyped, VencStart, Leave, Cleanup, VencStop, encoder
<1>5. StreamTyped'
  BY <1>1, <1>4, BusyStreamTyped DEF IInv, StreamTyped, memory
<1>6. \A u \in Thread : spc[u] \in {"capture", "cleanup"} => u = t
  BY <1>1 DEF IInv, LendingInv, Lent
<1>7. CodingInv'
  <2>1. CASE VencStart(t)
    <3>1. ~encoding
      BY <2>1, <1>6 DEF VencStart, IInv, CodingInv
    <3>2. QED BY <2>1, <3>1 DEF VencStart, IInv, CodingInv, StreamTyped, encoder
  <2>2. CASE Leave(t)
    BY <2>2, <1>6 DEF Leave, IInv, CodingInv, StreamTyped, encoder
  <2>3. CASE Cleanup(t)
    BY <2>3 DEF Cleanup, CodingInv
  <2>4. CASE VencStop(t)
    <3>1. ~encoding
      BY <2>4, <1>6 DEF VencStop, IInv, CodingInv
    <3>2. QED BY <2>4, <3>1 DEF VencStop, CodingInv, encoder
  <2>5. QED BY <2>1, <2>2, <2>3, <2>4
<1>8. QED BY <1>3, <1>5, <1>7, BusyStreamTyped DEF IInv

(* Giving them back. *)
LEMMA ReleaseKeepsIInv ==
    ASSUME IInv, NEW t \in Thread, Release(t)
    PROVE  IInv'
<1> USE DEF In, Move, Lent
<1>1. spc[t] = "release" /\ held[t] = Blocks /\ pool = 0 /\ lost = 0
  BY DEF Release, IInv, LendingInv
<1>2. pool' = Blocks /\ lost' = 0 /\ held' = [held EXCEPT ![t] = 0] /\ spc' = [spc EXCEPT ![t] = "loop"]
      /\ UNCHANGED encoder
  BY <1>1 DEF Release, Blocks
<1>3. \A u \in Thread : spc'[u] \notin Lent
  BY <1>1, <1>2 DEF IInv, LendingInv, StreamTyped
<1>4. LendingInv'
  BY <1>2, <1>3 DEF IInv, LendingInv, StreamTyped, Blocks
<1>5. CodingInv'
  BY <1>1, <1>2, <1>3 DEF IInv, LendingInv, CodingInv, StreamTyped, encoder
<1>6. StreamTyped'
  BY <1>2, BusyStreamTyped DEF IInv, StreamTyped, Blocks, encoder
<1>7. QED BY <1>4, <1>5, <1>6, BusyStreamTyped DEF IInv

(* The encoder's reader. *)
LEMMA ReaderKeeps ==
    ASSUME IInv, ReaderExit
    PROVE  IInv'
<1> USE DEF control, callers, detected, memory, outside, chance, streams, history
<1>1. left' \in 0 .. MaxEvents /\ failed' \in BOOLEAN
  BY ChanceTyped DEF IInv, CallerTyped, SignalTyped, ReaderExit
<1>2. CallerTyped'
  BY <1>1 DEF IInv, CallerTyped, PcTyped, ControlTyped, SignalTyped, ReaderExit
<1>3. StreamTyped' /\ LendingInv' /\ CodingInv'
  BY DEF IInv, StreamTyped, LendingInv, CodingInv, ReaderExit
<1>4. QED BY <1>2, <1>3 DEF IInv

LEMMA StepIInv == IInv /\ [Next]_vars => IInv'
<1> SUFFICES ASSUME IInv, [Next]_vars PROVE IInv'
    OBVIOUS
<1>1. CASE UNCHANGED vars
  BY <1>1 DEF IInv, CallerTyped, PcTyped, ControlTyped, SignalTyped, StreamTyped, LendingInv, CodingInv,
              vars, control, callers, detected, memory, encoder, outside, chance, streams, history
<1>2. CASE GoStep \/ GoCall
  BY <1>2, CallerKeeps, GoKeeps DEF GoStep, Caller
<1>3. CASE FormatStep \/ Cable
  BY <1>3, CallerKeeps, FormatKeeps DEF FormatStep, Caller
<1>4. CASE \E t \in Thread : StreamStep(t)
  BY <1>4, IdleStreamKeeps, BuffersKeeps, WorkKeeps, ReleaseKeepsIInv DEF StreamStep
<1>5. QED BY <1>1, <1>2, <1>3, <1>4, ReaderKeeps DEF Next
----------------------------------------------------------------------------
(* The inductive invariant holds of every behaviour. *)
THEOREM Inductive == Spec => []IInv
  BY InitIInv, StepIInv, PTL DEF Spec

(* Every variable keeps its type. *)
THEOREM TypeCorrect == Spec => []TypeOK
<1>1. IInv => TypeOK
  BY DEF IInv, CallerTyped, PcTyped, ControlTyped, SignalTyped, StreamTyped, TypeOK
<1>2. QED BY Inductive, <1>1, PTL

(* However many stream threads the races leave behind, one has all the     *)
(* blocks or they are in the pool, apart from those that were lost.        *)
THEOREM BlocksAreAccounted == Spec => []BlocksAccounted
<1>1. IInv => BlocksAccounted
  <2> SUFFICES ASSUME IInv PROVE BlocksAccounted
      OBVIOUS
  <2>1. \A t \in Thread : held[t] # 0 <=> spc[t] \in Lent
    BY DEF IInv, LendingInv, Blocks
  <2>2. QED BY <2>1 DEF IInv, LendingInv, BlocksAccounted
<1>2. QED BY Inductive, <1>1, PTL

(* The encoder never runs without a thread that feeds it. *)
THEOREM EncoderIsFed == Spec => []EncoderFed
<1>1. IInv => EncoderFed
  BY DEF IInv, LendingInv, CodingInv, EncoderFed, Lent
<1>2. QED BY Inductive, <1>1, PTL
----------------------------------------------------------------------------
(* The refinement: who holds the blocks. *)
LEMMA HolderIs ==
    ASSUME LendingInv
    PROVE  /\ \A t \in Thread : spc[t] \in Lent => Holder = t
           /\ (\A t \in Thread : spc[t] \notin Lent) => Holder = NoThread
<1>1. \A t \in Thread : held[t] # 0 <=> spc[t] \in Lent
  BY DEF LendingInv, Blocks
<1>2. ASSUME NEW t \in Thread, spc[t] \in Lent PROVE Holder = t
  <2>1. \A u \in Thread : held[u] # 0 <=> u = t
    BY <1>1, <1>2 DEF LendingInv
  <2>2. QED BY <2>1 DEF Holder
<1>3. ASSUME \A t \in Thread : spc[t] \notin Lent PROVE Holder = NoThread
  BY <1>1, <1>3 DEF Holder
<1>4. QED BY <1>2, <1>3

(* The same of the next state. *)
LEMMA HolderBecomes ==
    ASSUME LendingInv'
    PROVE  /\ \A t \in Thread : spc'[t] \in Lent => Holder' = t
           /\ (\A t \in Thread : spc'[t] \notin Lent) => Holder' = NoThread
<1>1. \A t \in Thread : held'[t] # 0 <=> spc'[t] \in Lent
  BY DEF LendingInv, Blocks
<1>2. ASSUME NEW t \in Thread, spc'[t] \in Lent PROVE Holder' = t
  <2>1. \A u \in Thread : held'[u] # 0 <=> u = t
    BY <1>1, <1>2 DEF LendingInv
  <2>2. QED BY <2>1 DEF Holder
<1>3. ASSUME \A t \in Thread : spc'[t] \notin Lent PROVE Holder' = NoThread
  BY <1>1, <1>3 DEF Holder
<1>4. QED BY <1>2, <1>3

(* Nobody holds the blocks exactly when no thread is where it has them. *)
LEMMA HolderFree ==
    ASSUME LendingInv
    PROVE  /\ Holder \in Thread \cup {NoThread}
           /\ Holder = NoThread <=> \A t \in Thread : spc[t] \notin Lent
  BY HolderIs, ThreadAssumption

(* Each step lends, takes back, loses, starts or stops the encoder, or is  *)
(* invisible.                                                              *)
LEMMA StepLends == IInv /\ IInv' /\ [Next]_vars => [Memory!Next]_(Memory!vars)
<1> SUFFICES ASSUME IInv, IInv', [Next]_vars PROVE [Memory!Next]_(Memory!vars)
    OBVIOUS
<1> USE DEF IInv
<1>1. ASSUME UNCHANGED <<held, lost, encoding>> PROVE UNCHANGED Memory!vars
  BY <1>1 DEF Memory!vars, Holder
<1>2. CASE UNCHANGED vars \/ GoStep \/ GoCall \/ FormatStep \/ Cable \/ ReaderExit
  <2>1. UNCHANGED <<held, lost, encoding>>
    BY <1>2 DEF vars, memory, encoder, GoStep, GoCall, FormatStep, CallerStep, Start, Raise, Create, StartFails, Assign,
       Stop, Lower, Join, Joined, Free, Null, StatusFlag, StatusStopped, Rewait, Inactive, Doze,
       CallStart, CallStop, CallSleep, CallQuality, Call, Wake, Query, Height, Event, Cable, ReaderExit,
       CallerRest, FormatRest
  <2>2. QED BY <1>1, <2>1
<1>3. ASSUME NEW t \in Thread, StreamStep(t) PROVE [Memory!Next]_(Memory!vars)
  <2>1. CASE Begin(t) \/ Look(t) \/ ReadWidth(t) \/ ReadHeight(t) \/ Request(t) \/ Leave(t)
    <3>1. UNCHANGED <<held, lost, encoding>>
      BY <2>1 DEF Begin, set_streaming_stopped, Look, ReadWidth, ReadHeight, Request, Leave, Die, memory, encoder, StreamTyped, Blocks
    <3>2. QED BY <1>1, <3>1
  <2>2. CASE Buffers(t)
    <3>1. encoding' = encoding /\ spc[t] = "buffers"
      BY <2>2 DEF Buffers, In, encoder
    <3>2. CASE spc' = [spc EXCEPT ![t] = "venc"] /\ pool = Blocks /\ lost' = lost
      <4>1. Holder = NoThread /\ lost = 0
        BY <3>2, HolderFree DEF LendingInv, Blocks, StreamTyped
      <4>2. Holder' = t
        <5>1. spc'[t] \in Lent
          BY <3>2 DEF StreamTyped, Lent
        <5>2. QED BY <5>1, HolderBecomes
      <4>3. Memory!Lend(t)
        BY <3>1, <3>2, <4>1, <4>2 DEF Memory!Lend
      <4>4. QED BY <4>3 DEF Memory!Next
    <3>3. CASE \E k \in 0 .. pool : Die(t, k)
      <4>1. PICK k \in 0 .. pool : lost' = lost + k /\ held' = held
        BY <3>3 DEF Die
      <4>2. Holder' = Holder
        BY <4>1 DEF Holder
      <4>3. CASE k = 0
        BY <1>1, <3>1, <4>1, <4>3 DEF StreamTyped, Blocks
      <4>4. CASE k # 0
        <5>1. Holder = NoThread
          BY <4>1, <4>4, HolderFree DEF LendingInv, StreamTyped, Blocks
        <5>2. (lost' = 0) = FALSE
          BY <4>1, <4>4 DEF StreamTyped, Blocks
        <5>3. Memory!Lose
          BY <3>1, <4>2, <5>1, <5>2 DEF Memory!Lose
        <5>4. QED BY <5>3 DEF Memory!Next
      <4>5. QED BY <4>3, <4>4
    <3>4. pool \in 0 .. Blocks
      BY DEF StreamTyped
    <3>5. QED BY <2>2, <3>2, <3>3, <3>4 DEF Buffers, Move
  <2>3. CASE VencStart(t) \/ Cleanup(t) \/ VencStop(t)
    <3>1. UNCHANGED <<held, lost>> /\ Holder' = Holder
      BY <2>3 DEF VencStart, Cleanup, VencStop, memory, Holder
    <3>2. spc[t] \in Lent
      BY <2>3 DEF VencStart, Cleanup, VencStop, In, Lent
    <3>3. Holder # NoThread
      BY <3>2, HolderFree
    <3>4. encoding' = encoding \/ encoding' = TRUE \/ encoding' = FALSE
      BY <2>3 DEF VencStart, Cleanup, VencStop, encoder
    <3>5. CASE encoding' = encoding
      BY <1>1, <3>1, <3>5
    <3>6. CASE encoding' = TRUE
      BY <3>1, <3>3, <3>6 DEF Memory!Encode, Memory!Next
    <3>7. CASE encoding' = FALSE
      BY <3>1, <3>7 DEF Memory!Halt, Memory!Next
    <3>8. QED BY <3>4, <3>5, <3>6, <3>7
  <2>4. CASE Release(t)
    <3>1. spc[t] = "release" /\ encoding' = encoding /\ lost' = lost
          /\ spc' = [spc EXCEPT ![t] = "loop"]
      BY <2>4 DEF Release, In, Move, encoder
    <3>2. Holder = t /\ t # NoThread
      BY <3>1, HolderIs, ThreadAssumption DEF Lent
    <3>3. \A u \in Thread : spc'[u] \notin Lent
      BY <3>1 DEF LendingInv, StreamTyped, Lent
    <3>4. Holder' = NoThread
      BY <3>3, HolderBecomes
    <3>5. encoding = FALSE
      <4>1. \A u \in Thread : spc[u] \notin {"capture", "cleanup"}
        BY <3>1 DEF LendingInv, Lent
      <4>2. QED BY <4>1 DEF CodingInv, StreamTyped
    <3>6. Memory!TakeBack
      BY <3>1, <3>2, <3>4, <3>5 DEF Memory!TakeBack
    <3>7. QED BY <3>6 DEF Memory!Next
  <2>5. QED BY <1>3, <2>1, <2>2, <2>3, <2>4 DEF StreamStep
<1>4. QED BY <1>2, <1>3 DEF Next

(* VideoCapture implements FrameMemory: whatever the two callers do to     *)
(* each other's handle, the frames' memory is lent to one thread at a time *)
(* and taken back only when the encoder has been told to stop.             *)
THEOREM MemoryRefines == Spec => MemoryIsLent
<1>1. Init => Memory!Init
  <2> SUFFICES ASSUME Init PROVE Memory!Init
      OBVIOUS
  <2>1. Holder = NoThread
    BY DEF Init, Holder
  <2>2. QED BY <2>1 DEF Init, Memory!Init
<1>2. QED BY <1>1, Inductive, StepLends, PTL DEF Spec, MemoryIsLent, Memory!Spec

\* What the run checks together of the memory and the encoder.
THEOREM CaptureIsSound == Spec => []Sound
BY TypeCorrect, BlocksAreAccounted, EncoderIsFed, PTL DEF Sound
----------------------------------------------------------------------------
(* The callers, as long as their calls do not overlap.                     *)

\* Where a caller is outside video.c, and where it can be in which call.
Outside == {"idle", "wake", "query", "height", "event", "gone"}
Ending == {"stop", "lower", "join", "joining", "free", "null"}
Starting == {"start", "raise", "create", "assign"}
Asking == {"status", "status2"}

PlacedInv ==
    /\ op["fmt"] \in {"none", "restart"}
    /\ pc["go"] \in Outside <=> op["go"] = "none"
    /\ pc["fmt"] \in Outside <=> op["fmt"] = "none"
    /\ pc["go"] \in Outside => pc["go"] = "idle"
    /\ pc["fmt"] # "idle"
    /\ op["go"] = "start" => pc["go"] \in Starting
    /\ op["go"] = "stop" => pc["go"] \in Ending
    /\ op["go"] = "sleep" => pc["go"] \in Asking \cup Ending \cup {"inactive", "doze"}
    /\ \A a \in Caller :
          op[a] = "restart" => pc[a] \in Asking \cup Ending \cup {"rewait"} \cup Starting

OneCalls == op["go"] = "none" \/ op["fmt"] = "none"

\* The handle is there from the assignment to its end, and the flag is up from a step before the
\* thread is made to the one before it is waited for.
HandleInv ==
    /\ \A a \in Caller :
          /\ pc[a] \in {"raise", "create", "assign"} => handle = NoThread
          /\ pc[a] \in {"lower", "join", "joining", "free", "null"} => handle # NoThread
    /\ dangling <=> \E a \in Caller : pc[a] = "null"
    /\ flag <=> \/ \E a \in Caller : pc[a] \in {"create", "assign"}
                \/ /\ handle # NoThread
                   /\ \A a \in Caller : pc[a] \notin {"join", "joining", "free", "null"}

\* There is no thread but the one of the handle, or the one that is about to get it.
ThreadInv ==
    /\ \A a \in Caller :
          /\ pc[a] = "assign" => target[a] \in Thread /\ spc[target[a]] # "none"
          /\ pc[a] = "joining" => target[a] = handle
    /\ \A t \in Thread :
          spc[t] # "none" =>
              \/ handle = t /\ \A a \in Caller : pc[a] \notin {"free", "null"}
              \/ \E a \in Caller : pc[a] = "assign" /\ target[a] = t
    /\ handle # NoThread /\ (\A a \in Caller : pc[a] \notin {"free", "null"})
          => spc[handle] # "none"

\* What a stop of Go's is still to take away, nobody makes again.
WantedInv ==
    /\ op["go"] = "start" => wanted
    /\ op["go"] \in {"stop", "sleep"} => ~wanted
    /\ pc["go"] \in {"inactive", "doze"} \/ (pc["go"] = "status2" /\ op["go"] = "sleep")
          => handle = NoThread
    /\ ~wanted =>
          \/ /\ handle = NoThread
             /\ \A a \in Caller :
                   /\ pc[a] \notin Starting
                   /\ op[a] = "restart" /\ pc[a] \in {"stop", "rewait"} => ~stopped
          \/ op["go"] \in {"stop", "sleep"} /\ pc["go"] \in {"status"} \cup Ending

SleepInv == asleep => ~wanted /\ handle = NoThread

\* A thread has the size that was detected, unless the format thread is on its way to end it.
Sized(t) ==
    /\ spc[t] = "height" => size[t][1] = width
    /\ spc[t] \in {"request", "buffers", "venc", "capture"} => size[t] = <<width, height>>

SizeInv ==
    \/ pc["fmt"] = "height" /\ change # NoSignal
    \/ pc["fmt"] \in {"status", "stop", "lower", "join", "joining"}
    \/ \A t \in Thread : Sized(t)

\* ... and the rate of the quality that was asked for, unless Go is.
RateInv ==
    \/ op["go"] = "restart" /\ pc["go"] \in {"status", "stop", "lower", "join", "joining"}
    \/ \A t \in Thread : spc[t] = "capture" => rate[t] = quality

HandlesInv == OneCalls /\ HandleInv /\ ThreadInv
FollowsInv == WantedInv /\ SleepInv /\ SizeInv /\ RateInv

AloneInv ==
    /\ PlacedInv
    /\ crashed => overlapped \/ reader = "unmade"
    /\ ~overlapped => HandlesInv /\ FollowsInv

LEMMA InitAlone == Init => AloneInv
<1> SUFFICES ASSUME Init PROVE AloneInv
    OBVIOUS
<1>1. PlacedInv /\ OneCalls
  BY DEF Init, PlacedInv, OneCalls, Outside, Caller
<1>2. HandleInv /\ ThreadInv
  BY DEF Init, HandleInv, ThreadInv, Caller
<1>3. WantedInv /\ SleepInv /\ SizeInv /\ RateInv
  BY DEF Init, WantedInv, SleepInv, SizeInv, RateInv, Sized, Starting, Caller
<1>4. ~crashed
  BY DEF Init
<1>5. QED BY <1>1, <1>2, <1>3, <1>4 DEF AloneInv, HandlesInv, FollowsInv

\* A caller that is inside is alone there.
LEMMA OthersOutside ==
    ASSUME PlacedInv, OneCalls, NEW a \in Caller, pc[a] \notin Outside
    PROVE  \A b \in Caller \ {a} : pc[b] \in Outside /\ op[b] = "none"
BY DEF PlacedInv, OneCalls, Caller

\* A step of a caller is its own.
LEMMA CallerMoves ==
    ASSUME PcTyped, PlacedInv, NEW a \in Caller, CallerStep(a)
    PROVE  /\ ~crashed
           /\ pc[a] \notin Outside
           /\ \A b \in Caller \ {a} : pc'[b] = pc[b] /\ op'[b] = op[b] /\ target'[b] = target[b]
           /\ op'[a] \in {op[a], "none"}
           /\ pc'[a] # pc[a] \/ crashed'
           /\ UNCHANGED <<wanted, overlapped, quality, width, height, change, asleep, reader>>
<1> USE DEF At, Goto, Return, CallerRest, detected, history, encoder, callers, PcTyped, Outside
<1>1. CASE Start(a) \/ Raise(a) \/ Create(a) \/ StartFails(a) \/ Assign(a)
  BY <1>1 DEF Start, Raise, Create, StartFails, Assign
<1>2. CASE Stop(a) \/ Lower(a) \/ Joined(a)
  BY <1>2 DEF Stop, Lower, Joined, AfterStop
<1>3. CASE Join(a)
  BY <1>3 DEF Join, Crash
<1>4. CASE Free(a) \/ Null(a)
  BY <1>4 DEF Free, Null, AfterStop, Crash
<1>5. CASE StatusFlag(a) \/ StatusStopped(a) \/ Rewait(a)
  BY <1>5 DEF StatusFlag, StatusStopped, Rewait
<1>6. QED BY <1>1, <1>2, <1>3, <1>4, <1>5 DEF CallerStep

\* Each step takes a caller where its call has it next.
LEMMA CallerPlaced ==
    ASSUME PcTyped, PlacedInv, NEW a \in Caller, CallerStep(a)
    PROVE  PlacedInv'
<1> USE DEF At, Goto, Return, PcTyped, PlacedInv, Outside, Ending, Starting, Asking, Caller
<1>1. CASE Start(a) \/ Raise(a)
  BY <1>1 DEF Start, Raise
<1>2. CASE Create(a) \/ StartFails(a) \/ Assign(a)
  BY <1>2 DEF Create, StartFails, Assign
<1>3. CASE Stop(a) \/ Null(a)
  BY <1>3 DEF Stop, Null, AfterStop
<1>4. CASE Lower(a) \/ Joined(a)
  BY <1>4 DEF Lower, Joined
<1>5. CASE Join(a) \/ Free(a)
  BY <1>5 DEF Join, Free, Crash, callers
<1>6. CASE StatusFlag(a) \/ StatusStopped(a) \/ Rewait(a)
  BY <1>6 DEF StatusFlag, StatusStopped, Rewait
<1>7. QED BY <1>1, <1>2, <1>3, <1>4, <1>5, <1>6 DEF CallerStep

\* The handle and the threads, by where the one caller is that is inside.
HandleOf(a) ==
    /\ pc[a] \in {"raise", "create", "assign"} => handle = NoThread
    /\ pc[a] \in {"lower", "join", "joining", "free", "null"} => handle # NoThread
    /\ dangling <=> pc[a] = "null"
    /\ flag <=> \/ pc[a] \in {"create", "assign"}
                \/ handle # NoThread /\ pc[a] \notin {"join", "joining", "free", "null"}

ThreadOf(a) ==
    /\ pc[a] = "assign" => target[a] \in Thread /\ spc[target[a]] # "none"
    /\ pc[a] = "joining" => target[a] = handle
    /\ \A t \in Thread :
          spc[t] # "none" => \/ handle = t /\ pc[a] \notin {"free", "null"}
                             \/ pc[a] = "assign" /\ target[a] = t
    /\ handle # NoThread /\ pc[a] \notin {"free", "null"} => spc[handle] # "none"

LEMMA OneInside ==
    ASSUME NEW a \in Caller, \A b \in Caller \ {a} : pc[b] \in Outside
    PROVE  (HandleInv <=> HandleOf(a)) /\ (ThreadInv <=> ThreadOf(a))
<1>1. HandleInv <=> HandleOf(a)
  BY DEF HandleInv, HandleOf, Outside
<1>2. ThreadInv <=> ThreadOf(a)
  BY DEF ThreadInv, ThreadOf, Outside
<1>3. QED BY <1>1, <1>2

LEMMA OneInsideNext ==
    ASSUME NEW a \in Caller, \A b \in Caller \ {a} : pc'[b] \in Outside
    PROVE  (HandleInv' <=> HandleOf(a)') /\ (ThreadInv' <=> ThreadOf(a)')
<1>1. HandleInv' <=> HandleOf(a)'
  BY DEF HandleInv, HandleOf, Outside
<1>2. ThreadInv' <=> ThreadOf(a)'
  BY DEF ThreadInv, ThreadOf, Outside
<1>3. QED BY <1>1, <1>2

\* A step of the caller inside keeps the handle in order, and never misuses it.
LEMMA CallerHandles ==
    ASSUME IInv, PlacedInv, HandlesInv, NEW a \in Caller, CallerStep(a)
    PROVE  HandlesInv' /\ ~crashed'
<1>1. /\ pc[a] \notin Outside /\ PcTyped /\ ControlTyped /\ StreamTyped /\ ~crashed
      /\ op'[a] \in {op[a], "none"}
      /\ \A b \in Caller \ {a} : pc[b] \in Outside /\ op[b] = "none" /\ pc'[b] = pc[b] /\ op'[b] = op[b]
  BY CallerMoves, OthersOutside DEF IInv, CallerTyped, HandlesInv
<1>2. HandleOf(a) /\ ThreadOf(a)
  BY <1>1, OneInside DEF HandlesInv
<1>3. OneCalls'
  BY <1>1 DEF OneCalls, Caller
<1>q. ASSUME HandleOf(a)', ThreadOf(a)', ~crashed' PROVE HandlesInv' /\ ~crashed'
  BY <1>1, <1>3, <1>q, OneInsideNext DEF HandlesInv
<1> USE <1>1, <1>2, ThreadAssumption
    DEF At, Goto, Return, control, callers, streams, PcTyped, ControlTyped, HandleOf, ThreadOf
<1>4. CASE Start(a) \/ Raise(a)
  BY <1>4, <1>q DEF Start, Raise
<1>5. CASE Create(a)
  <2>1. PICK t \in Thread : /\ spc[t] = "none" /\ spc' = [spc EXCEPT ![t] = "begin"]
                            /\ target' = [target EXCEPT ![a] = t]
    BY <1>5 DEF Create
  <2>2. /\ pc[a] = "create" /\ pc'[a] = "assign" /\ target'[a] = t
        /\ UNCHANGED <<control, crashed>>
    BY <1>5, <2>1 DEF Create
  <2>3. spc'[t] = "begin" /\ \A u \in Thread \ {t} : spc'[u] = spc[u]
    BY <2>1 DEF StreamTyped
  <2>4. QED BY <2>2, <2>3, <1>q
<1>6. CASE Assign(a)
  <2>1. /\ pc[a] = "assign" /\ pc'[a] \in {"idle", "event"} /\ flag' = flag
        /\ handle' = target[a] /\ ~dangling' /\ UNCHANGED <<spc, crashed>>
    BY <1>6 DEF Assign
  <2>2. QED BY <2>1, <1>q
<1>7. CASE Stop(a)
  <2>1. /\ pc[a] = "stop" /\ UNCHANGED <<control, spc, target, crashed>>
        /\ IF handle = NoThread THEN pc'[a] \in {"rewait", "inactive", "idle", "event"}
                                ELSE pc'[a] = "lower"
    BY <1>7 DEF Stop, AfterStop
  <2>2. QED BY <2>1, <1>q
<1>8. CASE Lower(a)
  <2>1. /\ pc[a] = "lower" /\ pc'[a] = "join" /\ ~flag'
        /\ UNCHANGED <<handle, dangling, spc, target, crashed>>
    BY <1>8 DEF Lower
  <2>2. QED BY <2>1, <1>q
<1>9. CASE Join(a)
  <2>1. pc[a] = "join" /\ ~BadHandle /\ spc[handle] # "none"
    BY <1>9 DEF Join, BadHandle
  <2>2. \A b \in Caller : ~Joins(b, handle)
    BY <2>1 DEF Joins, Outside
  <2>3. /\ pc'[a] = "joining" /\ target'[a] = handle
        /\ UNCHANGED <<control, spc, crashed>>
    BY <1>9, <2>1, <2>2 DEF Join
  <2>4. QED BY <2>1, <2>3, <1>q
<1>10. CASE Joined(a)
  <2>1. /\ pc[a] = "joining" /\ target[a] = handle /\ pc'[a] = "free"
        /\ spc' = [spc EXCEPT ![handle] = "none"]
        /\ UNCHANGED <<control, crashed>>
    BY <1>10 DEF Joined
  <2>2. \A t \in Thread : spc'[t] = "none"
    BY <2>1 DEF StreamTyped
  <2>3. QED BY <2>1, <2>2, <1>q
<1>11. CASE Free(a)
  <2>1. /\ pc[a] = "free" /\ pc'[a] = "null" /\ dangling'
        /\ UNCHANGED <<flag, handle, spc, crashed>>
    BY <1>11 DEF Free
  <2>2. QED BY <2>1, <1>q
<1>12. CASE Null(a)
  <2>1. /\ pc[a] = "null" /\ pc'[a] \in {"rewait", "inactive", "idle", "event"}
        /\ handle' = NoThread /\ ~dangling' /\ UNCHANGED <<flag, spc, crashed>>
    BY <1>12 DEF Null, AfterStop
  <2>2. QED BY <2>1, <1>q
<1>13. CASE StatusFlag(a) \/ StatusStopped(a) \/ Rewait(a)
  <2>1. /\ pc[a] \in {"status", "status2", "rewait"}
        /\ pc'[a] \in {"status2", "stop", "doze", "inactive", "start", "idle", "event"}
        /\ UNCHANGED <<control, spc, target, crashed>>
    BY <1>13 DEF StatusFlag, StatusStopped, Rewait
  <2>2. QED BY <2>1, <1>q
<1>14. CASE StartFails(a)
  <2>1. /\ pc[a] \in {"raise", "create"} /\ pc'[a] \in {"idle", "event"}
        /\ flag' = (IF pc[a] = "create" THEN FALSE ELSE flag)
        /\ UNCHANGED <<handle, dangling, spc, target, crashed>>
    BY <1>14 DEF StartFails
  <2>2. QED BY <2>1, <1>q
<1>15. QED BY <1>4, <1>5, <1>6, <1>7, <1>8, <1>9, <1>10, <1>11, <1>12, <1>13, <1>14 DEF CallerStep

\* Nor does it make again what Go has stopped, or leave a thread with an old size or rate.
LEMMA CallerFollows ==
    ASSUME IInv, PlacedInv, HandlesInv, FollowsInv, NEW a \in Caller, CallerStep(a)
    PROVE  FollowsInv'
<1>1. /\ pc[a] \notin Outside /\ PcTyped /\ StreamTyped /\ ~crashed'
      /\ \A b \in Caller \ {a} : pc[b] \in Outside /\ op[b] = "none" /\ pc'[b] = pc[b] /\ op'[b] = op[b]
      /\ UNCHANGED <<wanted, quality, width, height, change, asleep>>
  BY CallerMoves, CallerHandles, OthersOutside DEF IInv, CallerTyped, HandlesInv
<1>2. HandleOf(a) /\ ThreadOf(a) /\ WantedInv /\ SleepInv /\ SizeInv /\ RateInv
  BY <1>1, OneInside DEF HandlesInv, FollowsInv
<1>3. PlacedInv'
  BY <1>1, CallerPlaced
\* Without a handle, and but for the step before the assignment, there is no thread.
<1>4. ASSUME handle = NoThread, pc[a] # "assign" PROVE \A t \in Thread : spc[t] = "none"
  BY <1>2, <1>4, ThreadAssumption DEF ThreadOf
<1>5. UNCHANGED <<size, rate>>
  BY DEF CallerStep, Start, Raise, Create, StartFails, Assign, Stop, Lower, Join, Joined, Free, Null,
         StatusFlag, StatusStopped, Rewait, streams
\* The steps that start a stream are not taken when Go has stopped it.
<1>6. pc[a] \in Starting => wanted /\ ~asleep
  BY <1>1, <1>2 DEF WantedInv, SleepInv, PlacedInv, Starting, Ending, Caller, Outside
<1>7. CASE Start(a) \/ Raise(a) \/ Create(a) \/ StartFails(a) \/ Assign(a)
  <2>1. /\ pc[a] \in Starting
        /\ IF Assign(a) \/ StartFails(a) \/ (Start(a) /\ handle # NoThread)
           THEN pc'[a] \in {"idle", "event"} /\ op'[a] = "none"
           ELSE pc'[a] \in Starting /\ op'[a] = op[a]
    BY <1>1, <1>7 DEF Start, Raise, Create, StartFails, Assign, At, Goto, Return, Starting, PcTyped
  <2>2. WantedInv' /\ SleepInv'
    BY <1>1, <1>2, <1>6, <2>1 DEF WantedInv, SleepInv, PlacedInv, Starting, Outside, Caller
  <2>3. \A t \in Thread : spc'[t] = spc[t] \/ spc'[t] = "begin"
    BY <1>1, <1>7 DEF Start, Raise, Create, StartFails, Assign, streams, StreamTyped
  <2>4. SizeInv' /\ RateInv'
    BY <1>1, <1>2, <1>5, <2>1, <2>3 DEF SizeInv, RateInv, Sized, Starting, Outside, Caller
  <2>5. QED BY <2>2, <2>4 DEF FollowsInv
<1>8. CASE Stop(a) \/ Lower(a) \/ Join(a) \/ Joined(a) \/ Free(a) \/ Null(a)
  <2>1. /\ pc[a] \in Ending /\ UNCHANGED stopped
        /\ handle' = IF Null(a) THEN NoThread ELSE handle
    BY <1>1, <1>8 DEF Stop, Lower, Join, Joined, Free, Null, At, Crash, control, Ending
  <2>2. CASE (Stop(a) /\ handle = NoThread) \/ Null(a)
    <3>1. /\ handle' = NoThread /\ pc[a] \in {"stop", "null"}
          /\ CASE op[a] = "restart" -> pc'[a] = "rewait" /\ op'[a] = "restart"
               [] op[a] = "sleep" -> pc'[a] = "inactive" /\ op'[a] = "sleep"
               [] OTHER -> pc'[a] \in {"idle", "event"} /\ op'[a] = "none"
      BY <1>1, <2>1, <2>2 DEF Stop, Null, AfterStop, At, Goto, Return, control, PcTyped
    <3>2. UNCHANGED spc /\ \A t \in Thread : spc[t] = "none"
      BY <1>2, <1>4, <2>2, <3>1 DEF ThreadOf, Stop, Null, At, streams
    <3>3. WantedInv'
      BY <1>1, <1>2, <2>1, <3>1 DEF WantedInv, HandleOf, PlacedInv, Starting, Ending, Outside, Caller
    <3>4. SleepInv'
      BY <1>1, <1>2, <2>1 DEF SleepInv
    <3>5. SizeInv' /\ RateInv'
      BY <3>2 DEF SizeInv, RateInv, Sized
    <3>6. QED BY <3>3, <3>4, <3>5 DEF FollowsInv
  <2>3. CASE ~((Stop(a) /\ handle = NoThread) \/ Null(a))
    <3>1. pc'[a] \in Ending \ {"stop"} /\ op'[a] = op[a] /\ handle' = handle /\ handle # NoThread
      BY <1>1, <1>2, <1>8, <2>1, <2>3
         DEF Stop, Lower, Join, Joined, Free, At, Goto, Crash, HandleOf, Ending, PcTyped, callers
    <3>2. WantedInv' /\ SleepInv'
      BY <1>1, <1>2, <2>1, <3>1
         DEF WantedInv, SleepInv, PlacedInv, Starting, Ending, Outside, Caller
    <3>3. CASE Joined(a)
      <4>1. \A t \in Thread : spc'[t] = "none"
        BY <1>1, <1>2, <3>3 DEF Joined, At, StreamTyped, ThreadOf
      <4>2. QED BY <3>2, <4>1 DEF FollowsInv, SizeInv, RateInv, Sized
    <3>4. CASE Free(a)
      <4>1. UNCHANGED spc /\ \A t \in Thread : spc[t] = "none"
        BY <1>2, <3>4 DEF Free, At, streams, ThreadOf
      <4>2. QED BY <3>2, <4>1 DEF FollowsInv, SizeInv, RateInv, Sized
    <3>5. CASE Stop(a) \/ Lower(a) \/ Join(a)
      <4>1. UNCHANGED spc /\ pc[a] \in {"stop", "lower", "join"}
        BY <3>5 DEF Stop, Lower, Join, At, streams
      <4>2. pc'[a] \in {"lower", "join", "joining"}
        <5>1. ASSUME Join(a) PROVE pc'[a] = "joining"
          <6>1. spc[handle] # "none" /\ \A b \in Caller : ~Joins(b, handle)
            BY <1>1, <1>2, <5>1 DEF Join, At, Joins, HandleOf, ThreadOf, Outside
          <6>2. QED BY <1>1, <5>1, <6>1 DEF Join, Goto, Crash, PcTyped
        <5>2. QED BY <1>1, <2>3, <3>5, <5>1 DEF Stop, Lower, At, Goto, PcTyped
      <4>3. SizeInv'
        BY <1>1, <1>2, <1>5, <4>1, <4>2 DEF SizeInv, Sized, Outside, Caller
      <4>4. RateInv'
        BY <1>1, <1>2, <1>5, <3>1, <4>1, <4>2 DEF RateInv, Outside, Caller
      <4>5. QED BY <3>2, <4>3, <4>4 DEF FollowsInv
    <3>6. QED BY <1>8, <2>3, <3>3, <3>4, <3>5
  <2>4. QED BY <2>2, <2>3
<1>9. CASE StatusFlag(a) \/ StatusStopped(a) \/ Rewait(a)
  <2>1. UNCHANGED <<flag, stopped, handle, spc>>
    BY <1>9 DEF StatusFlag, StatusStopped, Rewait, control, streams
  <2>2. CASE StatusFlag(a)
    <3>1. /\ pc[a] = "status" /\ pc'[a] = (IF flag THEN "stop" ELSE "status2") /\ op'[a] = op[a]
      BY <1>1, <2>2 DEF StatusFlag, At, Goto, PcTyped
    <3>2. flag <=> handle # NoThread
      BY <1>2, <3>1 DEF HandleOf
    <3>3. WantedInv' /\ SleepInv'
      BY <1>1, <1>2, <2>1, <3>1, <3>2
         DEF WantedInv, SleepInv, PlacedInv, Starting, Ending, Asking, Outside, Caller
    <3>4. ~flag => \A t \in Thread : spc[t] = "none"
      BY <1>4, <3>1, <3>2
    <3>5. SizeInv' /\ RateInv'
      BY <1>1, <1>2, <1>5, <2>1, <3>1, <3>4 DEF SizeInv, RateInv, Sized, Outside, Caller
    <3>6. QED BY <3>3, <3>5 DEF FollowsInv
  <2>3. CASE StatusStopped(a)
    <3>1. /\ pc[a] = "status2"
          /\ \/ op[a] = "sleep" /\ pc'[a] \in {"doze", "inactive"} /\ op'[a] = "sleep"
             \/ op[a] # "sleep" /\ stopped /\ pc'[a] \in {"idle", "event"} /\ op'[a] = "none"
             \/ op[a] # "sleep" /\ ~stopped /\ pc'[a] = "stop" /\ op'[a] = op[a]
      BY <1>1, <2>3 DEF StatusStopped, At, Goto, Return, PcTyped
    <3>2. WantedInv' /\ SleepInv'
      BY <1>1, <1>2, <2>1, <3>1
         DEF WantedInv, SleepInv, PlacedInv, Starting, Ending, Asking, Outside, Caller
    <3>3. SizeInv' /\ RateInv'
      BY <1>1, <1>2, <1>5, <2>1, <3>1 DEF SizeInv, RateInv, Sized, PlacedInv, Outside, Caller
    <3>4. QED BY <3>2, <3>3 DEF FollowsInv
  <2>4. CASE Rewait(a)
    <3>1. /\ pc[a] = "rewait"
          /\ IF stopped THEN pc'[a] = "start" /\ op'[a] = op[a]
                        ELSE pc'[a] \in {"idle", "event"} /\ op'[a] = "none"
      BY <1>1, <2>4 DEF Rewait, At, Goto, Return, PcTyped
    <3>2. op[a] = "restart"
      BY <1>1, <3>1 DEF PlacedInv, PcTyped, Starting, Ending, Asking, Outside, Caller
    <3>3. WantedInv' /\ SleepInv'
      BY <1>1, <1>2, <2>1, <3>1, <3>2
         DEF WantedInv, SleepInv, PlacedInv, Starting, Ending, Asking, Outside, Caller
    <3>4. SizeInv' /\ RateInv'
      BY <1>1, <1>2, <1>5, <2>1, <3>1 DEF SizeInv, RateInv, Sized, Outside, Caller
    <3>5. QED BY <3>3, <3>4 DEF FollowsInv
  <2>5. QED BY <1>9, <2>2, <2>3, <2>4
<1>10. QED BY <1>7, <1>8, <1>9 DEF CallerStep

LEMMA CallerAlone ==
    ASSUME IInv, AloneInv, NEW a \in Caller, CallerStep(a)
    PROVE  AloneInv'
<1>1. PcTyped /\ PlacedInv
  BY DEF IInv, CallerTyped, AloneInv
<1>2. PlacedInv'
  BY <1>1, CallerPlaced
<1>3. UNCHANGED <<overlapped, reader>>
  BY <1>1, CallerMoves
<1>4. CASE overlapped
  BY <1>2, <1>3, <1>4 DEF AloneInv
<1>5. CASE ~overlapped
  BY <1>1, <1>2, <1>3, <1>5, CallerHandles, CallerFollows DEF AloneInv
<1>6. QED BY <1>4, <1>5

\* Go calls when it is outside; if the format thread is inside, the calls overlap.
LEMMA GoAlone ==
    ASSUME IInv, AloneInv, GoCall \/ Inactive \/ Doze
    PROVE  AloneInv'
<1>1. PcTyped /\ ControlTyped /\ PlacedInv /\ ~crashed
  BY DEF IInv, CallerTyped, AloneInv, GoCall, CallStart, CallStop, CallSleep, CallQuality, Call,
         Inactive, Doze, At
<1>2. /\ UNCHANGED <<control, target, streams, width, height, change, crashed>>
      /\ pc'["fmt"] = pc["fmt"] /\ op'["fmt"] = op["fmt"]
  BY <1>1 DEF GoCall, CallStart, CallStop, CallSleep, CallQuality, Call, Inactive, Doze, Goto,
              Return, CallerRest, detected, PcTyped, Caller
<1>3. CASE GoCall
  <2>1. PICK o \in {"start", "stop", "sleep", "restart"}, l \in {"start", "stop", "status"} :
           /\ Call(o, l)
           /\ \/ o = "start" /\ l = "start" /\ ~asleep' /\ wanted' /\ quality' = quality
              \/ o = "stop" /\ l = "stop" /\ ~wanted' /\ asleep' = asleep /\ quality' = quality
              \/ o = "sleep" /\ l = "status" /\ ~wanted' /\ asleep' = asleep /\ quality' = quality
              \/ o = "restart" /\ l = "status" /\ wanted' = wanted /\ asleep' = asleep
    BY <1>3 DEF GoCall, CallStart, CallStop, CallSleep, CallQuality
  <2>2. /\ pc["go"] = "idle" /\ pc'["go"] = l /\ op'["go"] = o
        /\ overlapped' = (overlapped \/ op["fmt"] # "none")
    BY <1>1, <2>1 DEF Call, At, Goto, PcTyped, Caller
  <2>3. PlacedInv'
    BY <1>1, <1>2, <2>1, <2>2
       DEF PlacedInv, Outside, Ending, Starting, Asking, Caller
  <2>4. ASSUME ~overlapped' PROVE HandlesInv' /\ FollowsInv'
    <3>1. op["fmt"] = "none" /\ op["go"] = "none" /\ HandlesInv /\ FollowsInv
      BY <1>1, <2>2, <2>4 DEF AloneInv, PlacedInv, Outside
    <3>2. OneCalls'
      BY <1>2, <3>1 DEF OneCalls
    <3>3. pc'["fmt"] \in Outside /\ pc["fmt"] \in Outside
      BY <1>1, <1>2, <3>1 DEF PlacedInv
    <3>4. HandleInv' /\ ThreadInv'
      BY <1>2, <2>1, <2>2, <3>1, <3>3
         DEF HandlesInv, HandleInv, ThreadInv, control, streams, Caller, Outside
    <3>5. WantedInv' /\ SleepInv'
      BY <1>2, <2>1, <2>2, <3>1, <3>3
         DEF FollowsInv, WantedInv, SleepInv, control, Caller, Outside, Starting, Ending
    <3>6. SizeInv'
      BY <1>2, <3>1 DEF FollowsInv, SizeInv, Sized, streams
    <3>7. RateInv'
      BY <1>2, <2>1, <2>2, <3>1 DEF FollowsInv, RateInv, streams
    <3>8. QED BY <3>2, <3>4, <3>5, <3>6, <3>7 DEF HandlesInv, FollowsInv
  <2>5. QED BY <1>1, <1>2, <2>3, <2>4 DEF AloneInv
<1>4. CASE Inactive \/ Doze
  <2>1. /\ pc["go"] \in {"inactive", "doze"} /\ UNCHANGED <<wanted, overlapped, quality>>
        /\ \/ pc'["go"] = "doze" /\ op'["go"] = op["go"]
           \/ pc'["go"] = "idle" /\ op'["go"] = "none"
        /\ asleep' => asleep \/ pc["go"] = "doze"
    BY <1>1, <1>4 DEF Inactive, Doze, At, Goto, Return, CallerRest, history, PcTyped, Caller
  <2>2. op["go"] = "sleep"
    BY <1>1, <2>1 DEF PlacedInv, PcTyped, Outside, Ending, Starting, Asking, Caller
  <2>3. PlacedInv'
    BY <1>1, <1>2, <2>1, <2>2 DEF PlacedInv, Outside, Ending, Starting, Asking, Caller
  <2>4. ASSUME ~overlapped' PROVE HandlesInv' /\ FollowsInv'
    <3>1. HandlesInv /\ FollowsInv /\ op["fmt"] = "none"
      BY <2>1, <2>2, <2>4 DEF AloneInv, HandlesInv, OneCalls
    <3>2. OneCalls' /\ pc["fmt"] \in Outside
      BY <1>1, <1>2, <3>1 DEF OneCalls, PlacedInv
    <3>3. HandleInv' /\ ThreadInv'
      BY <1>2, <2>1, <3>1 DEF HandlesInv, HandleInv, ThreadInv, control, streams, Caller
    <3>4. handle = NoThread /\ ~wanted
      BY <2>1, <2>2, <3>1 DEF FollowsInv, WantedInv
    <3>5. WantedInv' /\ SleepInv'
      BY <1>2, <2>1, <2>2, <3>1, <3>2, <3>4
         DEF FollowsInv, WantedInv, SleepInv, control, Caller, Outside, Starting
    <3>6. SizeInv' /\ RateInv'
      BY <1>2, <2>1, <2>2, <3>1 DEF FollowsInv, SizeInv, RateInv, Sized, streams
    <3>7. QED BY <3>1, <3>2, <3>3, <3>5, <3>6 DEF HandlesInv, FollowsInv
  <2>5. QED BY <1>1, <1>2, <2>3, <2>4 DEF AloneInv
<1>5. QED BY <1>3, <1>4

\* The format thread outside, and the cable.
LEMMA FormatAlone ==
    ASSUME IInv, AloneInv, Wake \/ Query \/ Height \/ Event \/ Cable
    PROVE  AloneInv'
<1>1. PcTyped /\ ControlTyped /\ SignalTyped /\ PlacedInv /\ ~crashed
  BY DEF IInv, CallerTyped, AloneInv, Wake, Query, Height, Event, Cable, At
<1>2. /\ UNCHANGED <<control, target, streams, quality, wanted, crashed>>
      /\ pc'["go"] = pc["go"] /\ op'["go"] = op["go"]
      /\ asleep' => asleep
  BY <1>1 DEF Wake, Query, Height, Event, Cable, Goto, FormatRest, callers, history, PcTyped, Caller
<1>3. CASE Wake \/ Query \/ Event \/ Cable \/ (Height /\ change = NoSignal)
  <2>1. /\ UNCHANGED <<op, overlapped, height>>
        /\ pc'["fmt"] = pc["fmt"] \/ (pc["fmt"] \in Outside /\ pc'["fmt"] \in Outside \ {"idle"})
    BY <1>1, <1>3 DEF Wake, Query, Height, Event, Cable, At, Goto, FormatRest, callers, history,
                      detected, PcTyped, Outside, Caller
  <2>2. PlacedInv'
    BY <1>1, <1>2, <2>1 DEF PlacedInv, Outside, Caller
  <2>3. ASSUME ~overlapped' PROVE HandlesInv' /\ FollowsInv'
    <3>1. HandlesInv /\ FollowsInv
      BY <2>1, <2>3 DEF AloneInv
    <3>2. OneCalls'
      BY <2>1, <3>1 DEF HandlesInv, OneCalls
    <3>3. HandleInv' /\ ThreadInv'
      BY <1>2, <2>1, <3>1 DEF HandlesInv, HandleInv, ThreadInv, control, streams, Caller, Outside
    <3>4. WantedInv' /\ SleepInv'
      BY <1>2, <2>1, <3>1
         DEF FollowsInv, WantedInv, SleepInv, control, Caller, Outside, Starting
    <3>5. RateInv'
      BY <1>2, <2>1, <3>1 DEF FollowsInv, RateInv, streams
    <3>6. SizeInv'
      <4>1. CASE Wake \/ Event \/ Cable \/ (Height /\ change = NoSignal)
        <5>1. /\ UNCHANGED <<width, change>>
              /\ pc'["fmt"] = pc["fmt"] \/ pc["fmt"] \in {"wake", "event"}
                   \/ (pc["fmt"] = "height" /\ change = NoSignal)
          BY <1>1, <4>1 DEF Wake, Event, Cable, Height, At, Goto, FormatRest, callers, detected
        <5>2. QED BY <1>2, <2>1, <3>1, <5>1 DEF FollowsInv, SizeInv, Sized, streams
      <4>2. CASE Query
        <5>1. pc["fmt"] = "query"
          BY <4>2 DEF Query, At
        <5>2. \A t \in Thread : Sized(t)
          BY <3>1, <5>1 DEF FollowsInv, SizeInv
        <5>3. CASE pc'["fmt"] = "height" /\ change' # NoSignal
          BY <5>3 DEF SizeInv
        <5>4. CASE ~(pc'["fmt"] = "height" /\ change' # NoSignal)
          <6>1. width' = width
            BY <1>1, <4>2, <5>4, ModeAssumption
               DEF Query, Goto, PcTyped, SignalTyped, Caller
          <6>2. QED BY <1>2, <2>1, <5>2, <6>1 DEF SizeInv, Sized, streams
        <5>5. QED BY <5>3, <5>4
      <4>3. QED BY <1>3, <4>1, <4>2
    <3>7. QED BY <3>2, <3>3, <3>4, <3>5, <3>6 DEF HandlesInv, FollowsInv
  <2>4. QED BY <1>1, <1>2, <2>2, <2>3 DEF AloneInv
<1>4. CASE Height /\ change # NoSignal
  <2>1. /\ pc["fmt"] = "height" /\ pc'["fmt"] = "status" /\ op'["fmt"] = "restart"
        /\ overlapped' = (overlapped \/ op["go"] # "none")
    BY <1>1, <1>4 DEF Height, At, Goto, PcTyped, Caller
  <2>2. PlacedInv'
    BY <1>1, <1>2, <2>1 DEF PlacedInv, Outside, Asking, Caller
  <2>3. ASSUME ~overlapped' PROVE HandlesInv' /\ FollowsInv'
    <3>1. HandlesInv /\ FollowsInv /\ op["go"] = "none" /\ op["fmt"] = "none"
      BY <1>1, <2>1, <2>3 DEF AloneInv, PlacedInv, Outside
    <3>2. OneCalls'
      BY <1>2, <3>1 DEF OneCalls
    <3>3. HandleInv' /\ ThreadInv'
      BY <1>2, <2>1, <3>1 DEF HandlesInv, HandleInv, ThreadInv, control, streams, Caller
    <3>4. WantedInv' /\ SleepInv'
      BY <1>2, <2>1, <3>1
         DEF FollowsInv, WantedInv, SleepInv, control, Caller, Starting
    <3>5. SizeInv'
      BY <2>1 DEF SizeInv
    <3>6. RateInv'
      BY <1>2, <2>1, <3>1 DEF FollowsInv, RateInv, streams
    <3>7. QED BY <3>2, <3>3, <3>4, <3>5, <3>6 DEF HandlesInv, FollowsInv
  <2>4. QED BY <1>1, <1>2, <2>2, <2>3 DEF AloneInv
<1>5. QED BY <1>3, <1>4

\* What a stream thread's step leaves alone: the callers, the handle, and whether there is a thread.
LEMMA StreamMoves ==
    ASSUME StreamTyped, NEW t \in Thread, StreamStep(t)
    PROVE  /\ ~crashed /\ spc[t] \notin {"none", "exited"}
           /\ UNCHANGED <<flag, handle, dangling, callers, width, height, change, quality, history>>
           /\ spc'[t] # "none"
           /\ \A u \in Thread \ {t} : spc'[u] = spc[u] /\ size'[u] = size[u] /\ rate'[u] = rate[u]
           /\ asleep' => asleep
           /\ stopped' => stopped \/ Look(t)
           /\ crashed' => reader' = "unmade"
<1> USE DEF In, Move, StreamRest, Forget, Die, control, detected, encoder, StreamTyped
<1>1. CASE Begin(t) \/ Look(t) \/ ReadWidth(t) \/ ReadHeight(t)
  BY <1>1 DEF Begin, set_streaming_stopped, Look, ReadWidth, ReadHeight
<1>2. CASE Request(t) \/ Buffers(t)
  BY <1>2 DEF Request, Buffers
<1>3. CASE VencStart(t) \/ Leave(t)
  BY <1>3 DEF VencStart, Leave
<1>4. CASE Cleanup(t) \/ VencStop(t) \/ Release(t)
  BY <1>4 DEF Cleanup, VencStop, Release
<1>5. QED BY <1>1, <1>2, <1>3, <1>4 DEF StreamStep

\* What the thread has of the size and the rate: it reads each where they are, or forgets them.
LEMMA StreamReads ==
    ASSUME StreamTyped, NEW t \in Thread, StreamStep(t)
    PROVE  /\ Sized(t) => Sized(t)'
           /\ spc'[t] = "capture" => rate'[t] = quality
<1>1. UNCHANGED <<width, height, quality>>
  BY StreamMoves
<1> USE <1>1 DEF In, Move, Forget, Die, Sized, StreamTyped
<1>2. CASE Begin(t) \/ Look(t)
  BY <1>2 DEF Begin, Look
<1>3. CASE ReadWidth(t)
  BY <1>3 DEF ReadWidth
<1>4. CASE ReadHeight(t)
  <2>1. ASSUME Sized(t), spc'[t] = "request" PROVE size'[t] = <<width, height>>
    <3>1. spc[t] = "height" /\ size' = [size EXCEPT ![t][2] = height]
      BY <1>4, <2>1 DEF ReadHeight
    <3>2. size[t][1] = width
      BY <2>1, <3>1
    <3>3. size[t] \in (Widths \cup {0}) \X (Heights \cup {0})
      OBVIOUS
    <3>4. size'[t] = [size[t] EXCEPT ![2] = height]
      BY <3>1
    <3>5. QED BY <3>2, <3>3, <3>4
  <2>2. spc'[t] \in {"request", "loop"}
    BY <1>4 DEF ReadHeight
  <2>3. QED BY <2>1, <2>2
<1>5. CASE Request(t) \/ Buffers(t)
  BY <1>5 DEF Request, Buffers
<1>6. CASE VencStart(t) \/ Leave(t)
  BY <1>6 DEF VencStart, Leave
<1>7. CASE Cleanup(t) \/ VencStop(t) \/ Release(t)
  BY <1>7 DEF Cleanup, VencStop, Release
<1>8. QED BY <1>2, <1>3, <1>4, <1>5, <1>6, <1>7 DEF StreamStep

LEMMA StreamAlone ==
    ASSUME IInv, AloneInv, NEW t \in Thread, StreamStep(t)
    PROVE  AloneInv'
<1>1. StreamTyped /\ PlacedInv
  BY DEF IInv, AloneInv
<1>2. /\ ~crashed /\ spc[t] \notin {"none", "exited"} /\ spc'[t] # "none"
      /\ UNCHANGED <<flag, handle, dangling, pc, op, target, width, height, change, quality,
                     wanted, overlapped>>
      /\ \A u \in Thread \ {t} : spc'[u] = spc[u] /\ size'[u] = size[u] /\ rate'[u] = rate[u]
      /\ asleep' => asleep
      /\ stopped' => stopped \/ Look(t)
      /\ crashed' => reader' = "unmade"
  BY <1>1, StreamMoves DEF callers, history
<1>3. PlacedInv'
  BY <1>1, <1>2 DEF PlacedInv
<1>4. ASSUME ~overlapped' PROVE HandlesInv' /\ FollowsInv'
  <2>1. HandlesInv /\ FollowsInv
    BY <1>2, <1>4 DEF AloneInv
  <2>2. OneCalls' /\ HandleInv'
    BY <1>2, <2>1 DEF HandlesInv, OneCalls, HandleInv
  <2>3. ThreadInv'
    <3>1. \A u \in Thread : spc'[u] = "none" <=> spc[u] = "none"
      BY <1>2
    <3>2. handle # NoThread => handle \in Thread
      BY DEF IInv, CallerTyped, ControlTyped
    <3>3. QED BY <1>2, <2>1, <3>1, <3>2 DEF HandlesInv, ThreadInv
  <2>4. WantedInv'
    <3>1. handle # NoThread \/ \E a \in Caller : pc[a] \in Starting
      BY <1>2, <2>1, ThreadAssumption DEF HandlesInv, ThreadInv, Starting
    <3>2. QED BY <1>2, <2>1, <3>1 DEF FollowsInv, WantedInv
  <2>5. SleepInv'
    BY <1>2, <2>1 DEF FollowsInv, SleepInv
  <2>6. SizeInv'
    <3>1. (\A u \in Thread : Sized(u)) => \A u \in Thread : Sized(u)'
      BY <1>1, <1>2, StreamReads DEF Sized
    <3>2. QED BY <1>2, <2>1, <3>1 DEF FollowsInv, SizeInv
  <2>7. RateInv'
    BY <1>1, <1>2, <2>1, StreamReads DEF FollowsInv, RateInv
  <2>8. QED BY <2>2, <2>3, <2>4, <2>5, <2>6, <2>7 DEF HandlesInv, FollowsInv
<1>5. QED BY <1>2, <1>3, <1>4 DEF AloneInv

LEMMA StepAlone == IInv /\ AloneInv /\ [Next]_vars => AloneInv'
<1> SUFFICES ASSUME IInv, AloneInv, [Next]_vars PROVE AloneInv'
    OBVIOUS
<1>1. CASE UNCHANGED vars \/ ReaderExit
  <2>1. /\ UNCHANGED <<flag, stopped, handle, dangling, pc, op, target, width, height, change,
                       quality, wanted, overlapped, asleep, spc, size, rate, crashed>>
        /\ crashed => reader' = reader
    BY <1>1 DEF vars, control, callers, detected, streams, history, encoder, ReaderExit
  <2>2. QED BY <2>1 DEF AloneInv, PlacedInv, HandlesInv, FollowsInv, OneCalls, HandleInv, ThreadInv,
                        WantedInv, SleepInv, SizeInv, RateInv, Sized
<1>2. CASE GoStep \/ GoCall
  BY <1>2, CallerAlone, GoAlone DEF GoStep, Caller
<1>3. CASE FormatStep \/ Cable
  BY <1>3, CallerAlone, FormatAlone DEF FormatStep, Caller
<1>4. CASE \E t \in Thread : StreamStep(t)
  BY <1>4, StreamAlone
<1>5. QED BY <1>1, <1>2, <1>3, <1>4 DEF Next

LEMMA Alone == Spec => [](IInv /\ AloneInv)
  BY InitIInv, StepIInv, InitAlone, StepAlone, PTL DEF Spec

-----------------------------------------------------------------------------
(* The rates, for every size with an area between Least and 1080p, and     *)
(* every quality factor; of the sizes and factors TLC enumerates only that *)
(* they are among them is used.                                            *)

Least == 16667
Full == 2073600
Sixteenths == 129600    \* of the 1080p picture
Rate(f, w, h) == (BaseRate(f) * Pixels16(w, h)) \div Pixels16(1920, 1080)

LEMMA DivGrows ==
    ASSUME NEW a \in Nat, NEW b \in Nat, NEW k \in Nat \ {0}, a <= b
    PROVE  a \div k \in Nat /\ a \div k <= b \div k
BY SMT

LEMMA ProductGrows ==
    ASSUME NEW a \in Nat, NEW b \in Nat, NEW c \in Nat, NEW d \in Nat, a <= b, c <= d
    PROVE  a * c \in Nat /\ a * c <= b * d
BY SMT

LEMMA BaseBounds ==
    ASSUME NEW f \in 0 .. 100
    PROVE  BaseRate(f) \in Nat /\ BaseRate(f) <= HighRate
BY SMT DEF BaseRate, LowRate, HighRate

LEMMA BaseGrows ==
    ASSUME NEW f \in 0 .. 100, NEW g \in 0 .. 100, f <= g
    PROVE  BaseRate(f) <= BaseRate(g)
BY SMT DEF BaseRate, LowRate, HighRate

LEMMA FullPixels == Pixels16(1920, 1080) = Sixteenths
BY SMT DEF Pixels16, Sixteenths

LEMMA PixelBounds ==
    ASSUME NEW w \in Nat, NEW h \in Nat, Least <= w * h, w * h <= Full
    PROVE  /\ Pixels16(w, h) \in Nat /\ Pixels16(w, h) <= Sixteenths
           /\ 16 * Pixels16(w, h) <= w * h
BY SMT DEF Pixels16, Least, Full, Sixteenths

LEMMA RateBounds ==
    ASSUME NEW f \in 0 .. 100, NEW w \in Nat, NEW h \in Nat, Least <= w * h, w * h <= Full
    PROVE  /\ Rate(f, w, h) \in Nat /\ Rate(f, w, h) <= HighRate
           /\ 64 * Rate(f, w, h) <= Pixels16(w, h)
<1>1. /\ BaseRate(f) \in Nat /\ BaseRate(f) <= HighRate
      /\ Pixels16(w, h) \in Nat /\ Pixels16(w, h) <= Sixteenths
  <2>1. BaseRate(f) \in Nat /\ BaseRate(f) <= HighRate
    BY BaseBounds
  <2>2. Pixels16(w, h) \in Nat /\ Pixels16(w, h) <= Sixteenths
    BY PixelBounds
  <2>3. QED BY <2>1, <2>2
<1>2. Rate(f, w, h) = (BaseRate(f) * Pixels16(w, h)) \div Sixteenths
  BY FullPixels DEF Rate
<1>3. /\ BaseRate(f) * Pixels16(w, h) \in Nat
      /\ BaseRate(f) * Pixels16(w, h) <= HighRate * Pixels16(w, h)
  BY <1>1, SMT DEF HighRate
<1>4. Rate(f, w, h) \in Nat /\ Sixteenths * Rate(f, w, h) <= BaseRate(f) * Pixels16(w, h)
  BY <1>2, <1>3, SMT DEF Sixteenths
<1>5. QED BY <1>1, <1>3, <1>4, SMT DEF HighRate, Sixteenths

LEMMA RateGrows ==
    ASSUME NEW f \in 0 .. 100, NEW g \in 0 .. 100, f <= g,
           NEW w \in Nat, NEW h \in Nat, NEW x \in Nat, NEW y \in Nat,
           Least <= w * h, w * h <= x * y, x * y <= Full
    PROVE  Rate(f, w, h) <= Rate(g, x, y)
<1>1. Pixels16(w, h) <= Pixels16(x, y)
  BY SMT DEF Pixels16, Least, Full
<1>2. BaseRate(f) \in Nat /\ BaseRate(g) \in Nat
  BY BaseBounds
<1>3. BaseRate(f) <= BaseRate(g)
  BY BaseGrows
<1>4. Pixels16(w, h) \in Nat /\ Pixels16(x, y) \in Nat
  BY SMT DEF Pixels16
<1>5. /\ BaseRate(f) * Pixels16(w, h) \in Nat
      /\ BaseRate(f) * Pixels16(w, h) <= BaseRate(g) * Pixels16(x, y)
  BY <1>1, <1>2, <1>3, <1>4, ProductGrows
<1>6. BaseRate(g) * Pixels16(x, y) \in Nat
  BY <1>2, <1>4
<1>7. Sixteenths \in Nat \ {0}
  BY SMT DEF Sixteenths
<1>8. QED BY <1>5, <1>6, <1>7, FullPixels, DivGrows DEF Rate

LEMMA BitrateIs ==
    ASSUME NEW f, NEW w, NEW h
    PROVE  EncoderAttributes(f, w, h).bitrate = IF Rate(f, w, h) < MinRate THEN MinRate ELSE Rate(f, w, h)
BY SMT DEF EncoderAttributes, populate_venc_attr, calculate_bitrate, Rate

LEMMA Aligned == ASSUME NEW n \in Nat PROVE RK_ALIGN_2(n) \in n .. n + 1
BY SMT DEF RK_ALIGN_2

\* For every size and quality: the bit rate is in its limits, a second at the highest rate fits the
\* buffer, and the aligned size is at most one more.
THEOREM RatesFitTheEncoder ==
    ASSUME NEW f \in 0 .. 100, NEW w \in Nat, NEW h \in Nat, Least <= w * h, w * h <= Full
    PROVE  LET a == EncoderAttributes(f, w, h)
           IN  /\ a.bitrate \in MinRate .. HighRate
               /\ a.max * 125 <= a.buffer
               /\ a.virWidth \in a.width .. a.width + 1 /\ a.virHeight \in a.height .. a.height + 1
<1> DEFINE a == EncoderAttributes(f, w, h)
<1>1. /\ a.bitrate = IF Rate(f, w, h) < MinRate THEN MinRate ELSE Rate(f, w, h)
      /\ a.max = 2 * a.bitrate /\ a.buffer = (w * h * 3) \div 2
      /\ a.width = w /\ a.virWidth = RK_ALIGN_2(w)
      /\ a.height = h /\ a.virHeight = RK_ALIGN_2(h)
  BY SMT DEF EncoderAttributes, populate_venc_attr, calculate_bitrate, Rate
<1>2. /\ Rate(f, w, h) \in Nat /\ Rate(f, w, h) <= HighRate
      /\ 64 * Rate(f, w, h) <= Pixels16(w, h)
  BY RateBounds
<1>3. Pixels16(w, h) \in Nat /\ 16 * Pixels16(w, h) <= w * h
  BY PixelBounds
<1>4. a.virWidth \in a.width .. a.width + 1 /\ a.virHeight \in a.height .. a.height + 1
  BY <1>1, Aligned
<1> HIDE DEF a
<1>5. a.bitrate \in MinRate .. HighRate
  <2>1. a.bitrate = MinRate \/ (MinRate <= Rate(f, w, h) /\ a.bitrate = Rate(f, w, h))
    BY <1>1, <1>2, SMT DEF MinRate
  <2>2. MinRate \in MinRate .. HighRate
    BY SMT DEF MinRate, HighRate
  <2>3. ASSUME NEW r \in Nat, MinRate <= r, r <= HighRate PROVE r \in MinRate .. HighRate
    BY <2>3, SMT DEF MinRate, HighRate
  <2>4. QED BY <1>2, <2>1, <2>2, <2>3
<1>6. a.max * 125 <= a.buffer
  BY <1>1, <1>2, <1>3, SMT DEF MinRate, Least
<1>7. QED BY <1>4, <1>5, <1>6 DEF a

\* ... and more pixels or more quality never get less.
THEOREM MoreGetsNoLess ==
    ASSUME NEW f \in 0 .. 100, NEW g \in 0 .. 100, f <= g,
           NEW w \in Nat, NEW h \in Nat, NEW x \in Nat, NEW y \in Nat,
           Least <= w * h, w * h <= x * y, x * y <= Full
    PROVE  EncoderAttributes(f, w, h).bitrate <= EncoderAttributes(g, x, y).bitrate
<1>1. Rate(f, w, h) <= Rate(g, x, y)
  BY RateGrows
<1>2. Rate(f, w, h) \in Nat /\ Rate(g, x, y) \in Nat
  BY SMT DEF Rate, BaseRate, Pixels16, LowRate, HighRate
<1>3. EncoderAttributes(f, w, h).bitrate = IF Rate(f, w, h) < MinRate THEN MinRate ELSE Rate(f, w, h)
  BY BitrateIs
<1>4. EncoderAttributes(g, x, y).bitrate = IF Rate(g, x, y) < MinRate THEN MinRate ELSE Rate(g, x, y)
  BY BitrateIs
<1>5. QED BY <1>1, <1>2, <1>3, <1>4, SMT DEF MinRate

LEMMA SizesFit ==
    ASSUME NEW s \in Sizes
    PROVE  s[1] \in Nat /\ s[2] \in Nat /\ Least <= s[1] * s[2] /\ s[1] * s[2] <= Full
BY SMT DEF Sizes, Least, Full

LEMMA RatesAlwaysFit == EveryRateFits
<1>1. Attributes(<<1920, 1080>>, 100).bitrate = HighRate
  BY SMT DEF Attributes, EncoderAttributes, populate_venc_attr, calculate_bitrate, BaseRate, Pixels16,
             LowRate, HighRate, MinRate
<1>2. \A f \in Factors : f \in 0 .. 100
  BY SMT DEF Factors
<1>3. ASSUME NEW s \in Sizes, NEW f \in Factors
      PROVE  LET a == Attributes(s, f)
             IN  /\ a.bitrate \in MinRate .. HighRate
                 /\ a.max * 125 <= a.buffer
                 /\ a.virWidth \in a.width .. a.width + 1 /\ a.virHeight \in a.height .. a.height + 1
  <2>1. f \in 0 .. 100
    BY <1>2
  <2>2. s[1] \in Nat /\ s[2] \in Nat /\ Least <= s[1] * s[2] /\ s[1] * s[2] <= Full
    BY SizesFit
  <2>3. QED BY <2>1, <2>2, RatesFitTheEncoder DEF Attributes
<1>4. ASSUME NEW s \in Sizes, NEW f \in Factors, NEW t \in Sizes, NEW g \in Factors,
             f <= g, s[1] * s[2] <= t[1] * t[2]
      PROVE  Attributes(s, f).bitrate <= Attributes(t, g).bitrate
  <2>1. f \in 0 .. 100 /\ g \in 0 .. 100
    BY <1>2
  <2>2. s[1] \in Nat /\ s[2] \in Nat /\ Least <= s[1] * s[2]
    BY SizesFit
  <2>3. t[1] \in Nat /\ t[2] \in Nat /\ t[1] * t[2] <= Full
    BY SizesFit
  <2>4. QED BY <1>4, <2>1, <2>2, <2>3, MoreGetsNoLess DEF Attributes
<1>5. QED BY <1>1, <1>3, <1>4 DEF EveryRateFits

-----------------------------------------------------------------------------
(* What the callers' invariant gives.                                      *)

LEMMA AloneIsReachable == IInv /\ AloneInv => OneStream
BY DEF AloneInv, HandlesInv, ThreadInv, OneStream, Live

LEMMA AloneIsQuiet == IInv /\ AloneInv => NobodyStreams
<1> SUFFICES ASSUME IInv, AloneInv, ~overlapped, Quiet, ~wanted PROVE ~flag /\ Live = {}
    BY DEF NobodyStreams
<1>1. pc["go"] = "idle" /\ pc["fmt"] = "event" /\ op["go"] = "none"
  BY DEF Quiet, AloneInv, PlacedInv, Outside
<1>2. handle = NoThread
  BY <1>1 DEF AloneInv, FollowsInv, WantedInv
<1>3. ~flag
  BY <1>1, <1>2 DEF AloneInv, HandlesInv, HandleInv, Caller
<1>4. \A t \in Thread : spc[t] = "none"
  BY <1>1, <1>2, ThreadAssumption DEF AloneInv, HandlesInv, ThreadInv, Caller
<1>5. QED BY <1>3, <1>4 DEF Live

LEMMA AloneSleeps == IInv /\ AloneInv => SleepsAlone
<1> SUFFICES ASSUME IInv, AloneInv, ~overlapped, asleep PROVE Live = {}
    BY DEF SleepsAlone
<1>1. handle = NoThread /\ ~wanted
  BY DEF AloneInv, FollowsInv, SleepInv
<1>2. \A a \in Caller : pc[a] # "assign"
  <2>1. CASE \A a \in Caller : pc[a] \notin Starting
    BY <2>1 DEF Starting
  <2>2. CASE op["go"] \in {"stop", "sleep"} /\ pc["go"] \in {"status"} \cup Ending
    <3>1. op["fmt"] = "none"
      BY <2>2 DEF AloneInv, HandlesInv, OneCalls
    <3>2. pc["fmt"] \in Outside
      BY <3>1 DEF AloneInv, PlacedInv
    <3>3. QED BY <2>2, <3>2 DEF Caller, Outside, Ending
  <2>3. QED BY <1>1, <2>1, <2>2 DEF AloneInv, FollowsInv, WantedInv
<1>3. \A t \in Thread : spc[t] = "none"
  BY <1>1, <1>2, ThreadAssumption DEF AloneInv, HandlesInv, ThreadInv
<1>4. QED BY <1>3 DEF Live

\* Whatever the two callers do, as long as their calls do not overlap nothing is misused, and no
\* stream is out of reach of the handle, revived after a stop, or running while the receiver sleeps.
THEOREM CallersAloneAreSafe == Spec => []AloneIsSafe
<1>1. IInv /\ AloneInv => AloneIsSafe
  BY AloneIsReachable, AloneIsQuiet, AloneSleeps DEF AloneInv, MisuseNeedsOverlap, AloneIsSafe
<1>2. QED BY Alone, <1>1, PTL

\* What is captured has the size that was detected and the rate of the quality that was asked for,
\* and the rates fit the encoder.
THEOREM EncodingIsFollowed == Spec => []EncodingFollows
<1>1. IInv /\ AloneInv => FormatFollowed
  BY DEF AloneInv, FollowsInv, SizeInv, Sized, FormatFollowed
<1>2. IInv /\ AloneInv => RateFollowed
  BY DEF AloneInv, FollowsInv, RateInv, RateFollowed, Quiet
<1>3. RatesFit
  BY RatesAlwaysFit DEF RatesFit
<1>4. IInv /\ AloneInv => EncodingFollows
  BY <1>1, <1>2, <1>3 DEF EncodingFollows
<1>5. QED BY Alone, <1>4, PTL
=============================================================================
