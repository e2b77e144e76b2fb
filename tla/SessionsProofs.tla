--------------------------- MODULE SessionsProofs ---------------------------
(***************************************************************************)
(* Theorems about Sessions, for any finite set of sessions and any         *)
(* handlers.                                                               *)
(***************************************************************************)
EXTENDS Sessions, FiniteSetTheorems, TLAPS

(* Types, apart from the sign of the counter: a decrement needs the count  *)
(* to be exact.                                                            *)
Typed ==
    /\ current \in Session \cup {None}
    /\ peer \in [Session -> {"none", "new", "leaked", "open", "closed"}]
    /\ taking \in [Handler -> [pc : {"idle", "check", "grab", "accept"},
                               s : Session \cup {None}]]
    /\ closing \subseteq Session
    /\ cb \in [Session -> {"idle", "starting", "disarming", "clearing", "counting",
                           "stopping", "arming", "gone"}]
    /\ isConnected \in [Session -> BOOLEAN]
    /\ active \in Int
    /\ video \in BOOLEAN /\ asleep \in BOOLEAN /\ armed \in BOOLEAN
    /\ dozing \in BOOLEAN /\ crashed \in BOOLEAN /\ enabled \in BOOLEAN
    /\ excuse \in {"none", "declined", "refused"}

Counted == {s \in Session : isConnected[s]}

(* A session made for an offer belongs to one handler and is untouched     *)
(* until it is accepted; only accepted sessions become current or are due  *)
(* to be closed.                                                           *)
TakingInv ==
    /\ \A h \in Handler : taking[h].pc # "idle" =>
          taking[h].s \in Session /\ peer[taking[h].s] = "new"
    /\ \A g, h \in Handler : taking[g].pc # "idle" /\ taking[h].pc # "idle"
                             /\ taking[g].s = taking[h].s => g = h
    /\ \A s \in Session : s \in closing \/ s = current \/ cb[s] # "idle" =>
          peer[s] \in {"open", "closed"}

(* A session that starts the video counts, and no state handler is ahead   *)
(* of a session that has not been accepted.                                *)
HandlerInv ==
    \A s \in Session :
        /\ cb[s] \in {"starting", "disarming"} => isConnected[s]
        /\ isConnected[s] => cb[s] \notin {"stopping", "arming", "gone"}

IInv ==
    /\ Typed /\ TakingInv /\ HandlerInv
    /\ ActiveCountExact /\ NoIdleStreaming /\ NoDeadCurrent
----------------------------------------------------------------------------
(* A counted session makes the count positive. *)
LEMMA CountedPositive ==
    ASSUME Typed, ActiveCountExact, NEW s \in Session, isConnected[s]
    PROVE  active \in Nat /\ active > 0
<1>1. IsFiniteSet(Counted)
  BY SessionAssumption, FS_Subset DEF Counted
<1>2. s \in Counted
  BY DEF Counted
<1>3. Cardinality(Counted) \in Nat /\ Cardinality(Counted) # 0
  BY <1>1, <1>2, FS_CardinalityType, FS_EmptySet
<1>4. QED BY <1>3 DEF ActiveCountExact, Counted

(* Counting one more session adds one. *)
LEMMA CountOneMore ==
    ASSUME Typed, ActiveCountExact, NEW s \in Session, ~isConnected[s],
           isConnected' = [isConnected EXCEPT ![s] = TRUE], active' = active + 1
    PROVE  ActiveCountExact'
<1>1. IsFiniteSet(Counted) /\ s \notin Counted
  BY SessionAssumption, FS_Subset DEF Counted
<1>2. Counted' = Counted \cup {s}
  BY DEF Counted, Typed
<1>3. Cardinality(Counted \cup {s}) = Cardinality(Counted) + 1
  BY <1>1, FS_AddElement
<1>4. QED BY <1>2, <1>3 DEF ActiveCountExact, Counted

(* Discounting a counted session takes one off. *)
LEMMA CountOneLess ==
    ASSUME Typed, ActiveCountExact, NEW s \in Session, isConnected[s],
           isConnected' = [isConnected EXCEPT ![s] = FALSE], active' = active - 1
    PROVE  ActiveCountExact'
<1>1. IsFiniteSet(Counted) /\ s \in Counted
  BY SessionAssumption, FS_Subset DEF Counted
<1>2. Counted' = Counted \ {s}
  BY DEF Counted, Typed
<1>3. Cardinality(Counted \ {s}) = Cardinality(Counted) - 1
  BY <1>1, FS_RemoveElement
<1>4. QED BY <1>2, <1>3 DEF ActiveCountExact, Counted

LEMMA InitIInv == Init => IInv
<1> SUFFICES ASSUME Init PROVE IInv
    OBVIOUS
<1>0. Typed
  <2>1. taking \in [Handler -> [pc : {"idle", "check", "grab", "accept"},
                                s : Session \cup {None}]]
    BY DEF Init, Idle
  <2>2. peer \in [Session -> {"none", "new", "leaked", "open", "closed"}]
        /\ isConnected \in [Session -> BOOLEAN]
    BY DEF Init
  <2>3. cb \in [Session -> {"idle", "starting", "disarming", "clearing", "counting",
                            "stopping", "arming", "gone"}]
    BY DEF Init
  <2>4. current \in Session \cup {None} /\ closing \subseteq Session /\ active \in Int
    BY DEF Init
  <2>5. /\ video \in BOOLEAN /\ asleep \in BOOLEAN /\ armed \in BOOLEAN
        /\ dozing \in BOOLEAN /\ crashed \in BOOLEAN /\ enabled \in BOOLEAN
        /\ excuse \in {"none", "declined", "refused"}
    BY Zenon DEF Init
  <2>6. QED BY <2>1, <2>2, <2>3, <2>4, <2>5 DEF Typed
<1>1. TakingInv /\ HandlerInv /\ NoIdleStreaming /\ NoDeadCurrent
  BY NoneAssumption DEF Init, Idle, TakingInv, HandlerInv, NoIdleStreaming, NoDeadCurrent
<1>2. {s \in Session : isConnected[s]} = {}
  BY DEF Init
<1>3. ActiveCountExact
  BY <1>2, FS_EmptySet DEF Init, ActiveCountExact
<1>4. QED BY <1>0, <1>1, <1>3 DEF IInv
----------------------------------------------------------------------------
(* The steps of taking an offer. *)
LEMMA TakeStep ==
    ASSUME IInv, NEW h \in Handler, Take(h)
    PROVE  IInv'
<1> USE NoneAssumption DEF IInv, Idle
<1>1. ASSUME NEW s \in Session, Offer(h, s) PROVE IInv'
  <2>1. Typed'
    BY <1>1 DEF Offer, Typed, power
  <2>2. TakingInv'
    BY <1>1 DEF Offer, Typed, TakingInv
  <2>3. HandlerInv' /\ ActiveCountExact' /\ NoIdleStreaming' /\ NoDeadCurrent'
    BY <1>1 DEF Offer, power, HandlerInv, ActiveCountExact, NoIdleStreaming, NoDeadCurrent
  <2>4. QED BY <2>1, <2>2, <2>3
<1>2. CASE CheckCurrent(h)
  <2>1. Typed'
    BY <1>2 DEF CheckCurrent, Typed, power
  <2>2. TakingInv'
    BY <1>2 DEF CheckCurrent, Typed, TakingInv
  <2>3. HandlerInv' /\ ActiveCountExact' /\ NoIdleStreaming' /\ NoDeadCurrent'
    BY <1>2 DEF CheckCurrent, power, HandlerInv, ActiveCountExact, NoIdleStreaming,
                NoDeadCurrent
  <2>4. QED BY <2>1, <2>2, <2>3
<1>3. CASE GrabCurrent(h)
  <2>1. CASE current = None
    BY <1>3, <2>1 DEF GrabCurrent, Typed, TakingInv, HandlerInv, ActiveCountExact,
                      NoIdleStreaming, NoDeadCurrent, power
  <2>2. CASE current # None
    <3>1. Typed'
      BY <1>3, <2>2 DEF GrabCurrent, Typed, power
    <3>2. TakingInv'
      BY <1>3, <2>2 DEF GrabCurrent, Typed, TakingInv
    <3>3. QED BY <1>3, <2>2, <3>1, <3>2 DEF GrabCurrent, power, HandlerInv, ActiveCountExact,
                      NoIdleStreaming, NoDeadCurrent
  <2>3. QED BY <2>1, <2>2
<1>4. CASE Accept(h)
  <2>1. taking[h].s \in Session /\ peer[taking[h].s] = "new" /\ cb[taking[h].s] = "idle"
    BY <1>4 DEF Accept, Typed, TakingInv
  <2>2. Typed'
    BY <1>4, <2>1 DEF Accept, Typed, power
  <2>3. TakingInv'
    BY <1>4, <2>1 DEF Accept, Typed, TakingInv
  <2>4. HandlerInv' /\ ActiveCountExact' /\ NoIdleStreaming'
    BY <1>4 DEF Accept, power, HandlerInv, ActiveCountExact, NoIdleStreaming
  <2>5. NoDeadCurrent'
    BY <1>4, <2>1 DEF Accept, NoDeadCurrent
  <2>6. QED BY <2>2, <2>3, <2>4, <2>5
<1>5. QED BY <1>1, <1>2, <1>3, <1>4 DEF Take

(* Connecting, failing and the delayed close. *)
LEMMA EventStep ==
    ASSUME IInv, NEW s \in Session, IceEvent(s) \/ DelayedClose(s)
    PROVE  IInv'
<1> USE DEF IInv
<1>1. CASE Connected(s)
  <2>1. Typed'
    BY <1>1 DEF Connected, At, AfterIncrement, Typed, takeover, power
  <2>2. TakingInv' /\ NoDeadCurrent'
    BY <1>1 DEF Connected, At, AfterIncrement, Typed, TakingInv, NoDeadCurrent, takeover
  <2>3. HandlerInv'
    BY <1>1 DEF Connected, At, AfterIncrement, Typed, HandlerInv
  <2>4. ActiveCountExact'
    BY <1>1, CountOneMore DEF Connected
  <2>5. isConnected'[s]
    BY <1>1 DEF Connected, Typed
  <2>6. active' > 0
    <3>1. CASE \E t \in Session : isConnected[t]
      BY <1>1, <3>1, CountedPositive DEF Connected
    <3>2. CASE \A t \in Session : ~isConnected[t]
      <4>1. {t \in Session : isConnected[t]} = {}
        BY <3>2
      <4>2. QED BY <1>1, <4>1, FS_EmptySet DEF Connected, ActiveCountExact
    <3>3. QED BY <3>1, <3>2
  <2>7. QED BY <2>1, <2>2, <2>3, <2>4, <2>6 DEF NoIdleStreaming
<1>2. CASE Failed(s)
  <2>1. Typed' /\ TakingInv'
    BY <1>2 DEF Failed, Typed, TakingInv, power
  <2>2. HandlerInv' /\ ActiveCountExact' /\ NoIdleStreaming' /\ NoDeadCurrent'
    BY <1>2 DEF Failed, power, HandlerInv, ActiveCountExact, NoIdleStreaming, NoDeadCurrent
  <2>3. QED BY <2>1, <2>2
<1>3. CASE DelayedClose(s)
  <2>1. Typed' /\ TakingInv'
    BY <1>3 DEF DelayedClose, Typed, TakingInv, power
  <2>2. HandlerInv' /\ ActiveCountExact' /\ NoIdleStreaming' /\ NoDeadCurrent'
    BY <1>3 DEF DelayedClose, power, HandlerInv, ActiveCountExact, NoIdleStreaming,
                NoDeadCurrent
  <2>3. QED BY <2>1, <2>2
<1>4. QED BY <1>1, <1>2, <1>3 DEF IceEvent

(* The steps of the ICE state handler. *)
LEMMA CallbackStep ==
    ASSUME IInv, NEW s \in Session, HandlerStep(s)
    PROVE  IInv'
<1> USE DEF IInv
<1>1. CASE Closed(s)
  <2>1. Typed' /\ TakingInv'
    BY <1>1 DEF Closed, At, Typed, TakingInv, takeover, power
  <2>2. HandlerInv' /\ ActiveCountExact' /\ NoIdleStreaming' /\ NoDeadCurrent'
    BY <1>1 DEF Closed, At, Typed, HandlerInv, ActiveCountExact, NoIdleStreaming,
                NoDeadCurrent, takeover, power
  <2>3. QED BY <2>1, <2>2
<1>2. CASE ClearCurrent(s)
  <2>1. Typed' /\ TakingInv'
    BY <1>2, NoneAssumption DEF ClearCurrent, At, Typed, TakingInv, power
  <2>2. HandlerInv' /\ ActiveCountExact' /\ NoIdleStreaming' /\ NoDeadCurrent'
    BY <1>2 DEF ClearCurrent, At, Typed, HandlerInv, ActiveCountExact, NoIdleStreaming,
                NoDeadCurrent, power
  <2>3. QED BY <2>1, <2>2
<1>3. CASE Discount(s)
  <2>1. Typed'
    <3>1. AfterDecrement(active') \in {"stopping", "gone"}
      BY DEF AfterDecrement
    <3>2. CASE isConnected[s]
      <4>1. cb' = [cb EXCEPT ![s] = AfterDecrement(active')]
        BY <1>3, <3>2 DEF Discount, At
      <4>2. cb' \in [Session -> {"idle", "starting", "disarming", "clearing", "counting",
                                 "stopping", "arming", "gone"}]
        BY <3>1, <4>1 DEF Typed
      <4>3. isConnected' = [isConnected EXCEPT ![s] = FALSE] /\ active' = active - 1
        BY <1>3, <3>2 DEF Discount
      <4>4. isConnected' \in [Session -> BOOLEAN]
        BY <4>3 DEF Typed
      <4>5. active' \in Int
        BY <4>3 DEF Typed
      <4>6. QED BY <1>3, <4>2, <4>4, <4>5 DEF Discount, Typed, takeover, power
    <3>3. CASE ~isConnected[s]
      BY <1>3, <3>3 DEF Discount, At, Typed, takeover, power
    <3>4. QED BY <3>2, <3>3
  <2>2. TakingInv' /\ NoDeadCurrent'
    BY <1>3 DEF Discount, At, AfterDecrement, Typed, TakingInv, NoDeadCurrent, takeover
  <2>3. HandlerInv'
    BY <1>3 DEF Discount, At, AfterDecrement, Typed, HandlerInv
  <2>4. CASE isConnected[s]
    <3>1. active \in Nat /\ active > 0
      BY <2>4, CountedPositive
    <3>2. ActiveCountExact'
      BY <1>3, <2>4, CountOneLess DEF Discount
    <3>3. NoIdleStreaming'
      BY <1>3, <2>4, <3>1 DEF Discount, At, AfterDecrement, Typed, NoIdleStreaming, power
    <3>4. QED BY <2>1, <2>2, <2>3, <3>2, <3>3
  <2>5. CASE ~isConnected[s]
    <3>1. ActiveCountExact' /\ NoIdleStreaming'
      BY <1>3, <2>5 DEF Discount, At, Typed, ActiveCountExact, NoIdleStreaming, power
    <3>2. QED BY <2>1, <2>2, <2>3, <3>1
  <2>6. QED BY <2>4, <2>5
<1>4. CASE VideoStart(s)
  <2>1. Typed' /\ TakingInv'
    BY <1>4 DEF VideoStart, At, Typed, TakingInv, takeover
  <2>2. HandlerInv' /\ ActiveCountExact' /\ NoDeadCurrent'
    BY <1>4 DEF VideoStart, At, Typed, HandlerInv, ActiveCountExact, NoDeadCurrent, takeover
  <2>3. isConnected[s]
    BY <1>4 DEF VideoStart, At, HandlerInv
  <2>4. active' > 0
    BY <1>4, <2>3, CountedPositive DEF VideoStart
  <2>5. QED BY <2>1, <2>2, <2>4 DEF NoIdleStreaming
<1>5. CASE StopTicker(s)
  <2>1. Typed'
    BY <1>5 DEF StopTicker, At, Typed, takeover
  <2>2. TakingInv'
    BY <1>5 DEF StopTicker, At, Typed, TakingInv, takeover
  <2>3. HandlerInv' /\ ActiveCountExact' /\ NoIdleStreaming' /\ NoDeadCurrent'
    BY <1>5 DEF StopTicker, At, Typed, HandlerInv, ActiveCountExact,
                NoIdleStreaming, NoDeadCurrent, takeover
  <2>4. QED BY <2>1, <2>2, <2>3
<1>7. CASE StartTicker(s)
  <2>1. Typed'
    BY <1>7 DEF StartTicker, At, Typed, takeover
  <2>2. TakingInv'
    BY <1>7 DEF StartTicker, At, Typed, TakingInv, takeover
  <2>3. HandlerInv' /\ ActiveCountExact' /\ NoIdleStreaming' /\ NoDeadCurrent'
    BY <1>7 DEF StartTicker, At, Typed, HandlerInv, ActiveCountExact,
                NoIdleStreaming, NoDeadCurrent, takeover
  <2>4. QED BY <2>1, <2>2, <2>3
<1>6. CASE VideoStop(s)
  <2>1. Typed' /\ TakingInv'
    BY <1>6 DEF VideoStop, At, Typed, TakingInv, takeover
  <2>2. HandlerInv' /\ ActiveCountExact' /\ NoIdleStreaming' /\ NoDeadCurrent'
    BY <1>6 DEF VideoStop, At, Typed, HandlerInv, ActiveCountExact, NoIdleStreaming,
                NoDeadCurrent, takeover
  <2>3. QED BY <2>1, <2>2
<1>8. QED BY <1>1, <1>2, <1>3, <1>4, <1>5, <1>6, <1>7 DEF HandlerStep

LEMMA StepIInv == IInv /\ [Next]_vars => IInv'
<1> SUFFICES ASSUME IInv, [Next]_vars PROVE IInv'
    OBVIOUS
<1>1. CASE SetSleepMode \/ TimerFires \/ EnterSleep \/ UNCHANGED vars
  <2>1. UNCHANGED <<takeover, cb, isConnected, active, crashed>> /\ (video' => video)
    <3>1. CASE EnterSleep
      <4>1. video' = FALSE \/ video' = video
        BY <3>1 DEF EnterSleep
      <4>2. video' => video
        BY <4>1, Zenon
      <4>3. QED BY <3>1, <4>2 DEF EnterSleep
    <3>2. CASE SetSleepMode \/ TimerFires \/ UNCHANGED vars
      BY <3>2 DEF SetSleepMode, TimerFires, vars, power
    <3>3. QED BY <1>1, <3>1, <3>2
  <2>2. Typed'
    <3>1. CASE EnterSleep
      <4>1. video' \in BOOLEAN /\ asleep' \in BOOLEAN
        <5>1. video \in BOOLEAN /\ asleep \in BOOLEAN
          BY DEF IInv, Typed
        <5>2. video' = FALSE \/ video' = video
          BY <3>1 DEF EnterSleep
        <5>3. asleep' = TRUE \/ asleep' = asleep
          BY <3>1 DEF EnterSleep
        <5>4. QED BY <5>1, <5>2, <5>3, Zenon
      <4>2. excuse' \in {"none", "declined", "refused"}
        BY <3>1 DEF IInv, EnterSleep, Typed
      <4>3. UNCHANGED <<armed, enabled>> /\ dozing' = FALSE
        BY <3>1 DEF EnterSleep
      <4>4. QED BY <2>1, <4>1, <4>2, <4>3 DEF IInv, takeover, Typed
    <3>2. CASE SetSleepMode \/ TimerFires \/ UNCHANGED vars
      BY <2>1, <3>2 DEF IInv, SetSleepMode, TimerFires, vars, power, takeover, Typed
    <3>3. QED BY <1>1, <3>1, <3>2
  <2>3. QED BY <2>1, <2>2 DEF IInv, takeover, TakingInv, HandlerInv, ActiveCountExact,
                             NoIdleStreaming, NoDeadCurrent
<1>2. QED BY <1>1, TakeStep, EventStep, CallbackStep DEF Next
----------------------------------------------------------------------------
(* The inductive invariant holds of every behaviour. *)
THEOREM Inductive == Spec => []IInv
  BY InitIInv, StepIInv, PTL DEF Spec

(* Every variable keeps its type; in particular the counter is never       *)
(* negative.                                                               *)
THEOREM TypeCorrect == Spec => []TypeOK
<1>1. IInv => TypeOK
  <2> SUFFICES ASSUME IInv PROVE TypeOK
      OBVIOUS
  <2>1. IsFiniteSet(Counted)
    BY SessionAssumption, FS_Subset DEF Counted
  <2>2. active \in Nat
    BY <2>1, FS_CardinalityType DEF IInv, ActiveCountExact, Counted
  <2>3. QED BY <2>2 DEF IInv, Typed, TypeOK
<1>2. QED BY Inductive, <1>1, PTL

(* The counter counts the connected sessions. *)
THEOREM CountIsExact == Spec => []ActiveCountExact
<1>1. IInv => ActiveCountExact
  BY DEF IInv
<1>2. QED BY Inductive, <1>1, PTL

(* The encoder never streams for nobody. *)
THEOREM StopsWithTheLast == Spec => []NoIdleStreaming
<1>1. IInv => NoIdleStreaming
  BY DEF IInv
<1>2. QED BY Inductive, <1>1, PTL

(* A closed session never stays the current one. *)
THEOREM CurrentIsAlive == Spec => []NoDeadCurrent
<1>1. IInv => NoDeadCurrent
  BY DEF IInv
<1>2. QED BY Inductive, <1>1, PTL

(* What the run checks together: types, and a session counter that is      *)
(* exact.                                                                  *)
THEOREM CounterIsSound == Spec => []Sound
BY TypeCorrect, CountIsExact, PTL DEF Sound
=============================================================================
