------------------------------ MODULE Sessions ------------------------------
(***************************************************************************)
(* WebRTC sessions, the one that is current, and the video power they      *)
(* drive: webrtc.go, handleSessionRequest and handleWebRTCSession, and     *)
(* video.go.  Websocket loops accept offers, the WebRTC library calls each *)
(* session's ICE state handler in a goroutine of that session, delayed     *)
(* closes and the sleep timer run in goroutines of their own; all of them  *)
(* share currentSession, the active-session counter and the native video,  *)
(* and only the counter has a lock.                                        *)
(***************************************************************************)
EXTENDS Integers, FiniteSets

CONSTANTS Session,     \* the sessions ever offered; each is offered once
          Handler,     \* the websocket loops and HTTP handlers taking offers
          None

ASSUME SessionAssumption == IsFiniteSet(Session)
ASSUME NoneAssumption == None \notin Session

VARIABLES
    current,       \* currentSession
    peer,          \* each session's peer connection
    taking,        \* where each handler is, and the session it made
    closing,       \* sessions whose peer a goroutine closes in a second
    cb,            \* where each session's ICE state handler is
    isConnected,   \* the local variable the state handler keeps
    active,        \* actionSessions
    video,         \* the encoder is streaming
    asleep,        \* the HDMI receiver is in sleep mode
    armed,         \* the sleep ticker's timer is running
    dozing,        \* a ticker saw no active session and is about to sleep
    enabled,       \* VideoSleepAfterSec is not negative
    excuse,        \* history: why no timer runs since one was last armed
    crashed        \* a nil dereference ended the process

takeover == <<current, peer, taking, closing>>
power == <<video, asleep, armed, dozing, enabled, excuse>>
vars == <<takeover, cb, isConnected, active, power, crashed>>

Idle == [pc |-> "idle", s |-> None]

TypeOK ==
    /\ current \in Session \cup {None}
    /\ peer \in [Session -> {"none", "new", "leaked", "open", "closed"}]
    /\ taking \in [Handler -> [pc : {"idle", "check", "grab", "accept"},
                               s : Session \cup {None}]]
    /\ closing \subseteq Session
    /\ cb \in [Session -> {"idle", "starting", "disarming", "clearing", "counting",
                           "stopping", "arming", "gone"}]
    /\ isConnected \in [Session -> BOOLEAN]
    /\ active \in Nat
    /\ video \in BOOLEAN /\ asleep \in BOOLEAN /\ armed \in BOOLEAN
    /\ dozing \in BOOLEAN /\ crashed \in BOOLEAN /\ enabled \in BOOLEAN
    /\ excuse \in {"none", "declined", "refused"}

Init ==
    /\ current = None
    /\ peer = [s \in Session |-> "none"]
    /\ taking = [h \in Handler |-> Idle]
    /\ closing = {}
    /\ cb = [s \in Session |-> "idle"]
    /\ isConnected = [s \in Session |-> FALSE]
    /\ active = 0
    /\ video = FALSE /\ asleep = FALSE
    /\ dozing = FALSE /\ crashed = FALSE
    /\ enabled \in BOOLEAN
    /\ \/ enabled /\ armed = TRUE /\ excuse = "none"   \* main started the ticker
       \/ armed = FALSE /\ excuse = "declined"
----------------------------------------------------------------------------
(* Taking an offer.                                                        *)

(* newSession and ExchangeOffer: the peer connection exists; if the offer  *)
(* cannot be answered it is dropped without being closed.                  *)
Offer(h, s) ==
    /\ ~crashed /\ taking[h] = Idle /\ peer[s] = "none"
    /\ \/ /\ peer' = [peer EXCEPT ![s] = "new"]
          /\ taking' = [taking EXCEPT ![h] = [pc |-> "check", s |-> s]]
       \/ /\ peer' = [peer EXCEPT ![s] = "leaked"]
          /\ UNCHANGED taking
    /\ UNCHANGED <<current, closing, cb, isConnected, active, power, crashed>>

(* `if currentSession != nil', read without a lock. *)
CheckCurrent(h) ==
    /\ ~crashed /\ taking[h].pc = "check"
    /\ taking' = [taking EXCEPT ![h].pc = IF current = None THEN "accept" ELSE "grab"]
    /\ UNCHANGED <<current, peer, closing, cb, isConnected, active, power, crashed>>

(* The session is read again to be told and to be closed in a second; if a *)
(* state handler cleared it meanwhile, the read goes through nil.          *)
GrabCurrent(h) ==
    /\ ~crashed /\ taking[h].pc = "grab"
    /\ IF current = None
       THEN crashed' = TRUE /\ UNCHANGED <<taking, closing>>
       ELSE /\ closing' = closing \cup {current}
            /\ taking' = [taking EXCEPT ![h].pc = "accept"]
            /\ UNCHANGED crashed
    /\ UNCHANGED <<current, peer, cb, isConnected, active, power>>

(* The new session becomes the current one and the answer is sent. *)
Accept(h) ==
    /\ ~crashed /\ taking[h].pc = "accept"
    /\ current' = taking[h].s
    /\ peer' = [peer EXCEPT ![taking[h].s] = "open"]
    /\ taking' = [taking EXCEPT ![h] = Idle]
    /\ UNCHANGED <<closing, cb, isConnected, active, power, crashed>>

(* The second is over. *)
DelayedClose(s) ==
    /\ ~crashed /\ s \in closing
    /\ closing' = closing \ {s}
    /\ peer' = [peer EXCEPT ![s] = "closed"]
    /\ UNCHANGED <<current, taking, cb, isConnected, active, power, crashed>>
----------------------------------------------------------------------------
(* The ICE state handler, called for one event of a session at a time.     *)

At(s, from, to) == ~crashed /\ cb[s] = from /\ cb' = [cb EXCEPT ![s] = to]

(* What a session does when the counter says it is the first one. *)
AfterIncrement(n) == IF n = 1 THEN "starting" ELSE "idle"
(* A wrong version of the next definition, for a mutation run. *)
AfterDecrement_OffByOne(n) == IF n = 1 THEN "stopping" ELSE "gone"

(* What it does when the counter says it was the last one. *)
AfterDecrement(n) == IF n = 0 THEN "stopping" ELSE "gone"

(* Wrong versions of definitions below, for the mutation runs. *)
Connected_Again(s) ==
    /\ peer[s] = "open"
    /\ isConnected' = [isConnected EXCEPT ![s] = TRUE]
    /\ active' = active + 1
    /\ At(s, "idle", AfterIncrement(active'))
    /\ UNCHANGED <<takeover, power, crashed>>

Closed_KeepsCurrent(s) ==
    /\ peer[s] = "closed"
    /\ At(s, "idle", "counting")
    /\ UNCHANGED <<takeover, isConnected, active, power, crashed>>

Discount_Always(s) ==
    /\ isConnected' = [isConnected EXCEPT ![s] = FALSE]
    /\ active' = active - 1
    /\ At(s, "counting", AfterDecrement(active'))
    /\ UNCHANGED <<takeover, power, crashed>>

StartTicker_Missing(s) ==
    /\ At(s, "arming", "gone")
    /\ UNCHANGED <<takeover, isConnected, active, power, crashed>>

(* Connected; a later reconnection finds isConnected set and does nothing. *)
Connected(s) ==
    /\ peer[s] = "open" /\ ~isConnected[s]
    /\ isConnected' = [isConnected EXCEPT ![s] = TRUE]
    /\ active' = active + 1
    /\ At(s, "idle", AfterIncrement(active'))
    /\ UNCHANGED <<takeover, power, crashed>>

(* onFirstSessionConnected: VideoStart, which leaves sleep mode first; the *)
(* errors of both are dropped.                                             *)
VideoStart(s) ==
    /\ At(s, "starting", "disarming")
    /\ video' \in {TRUE, video} /\ asleep' \in {FALSE, asleep}
    /\ UNCHANGED <<takeover, isConnected, active, armed, dozing, enabled, excuse, crashed>>

StopTicker(s) ==
    /\ At(s, "disarming", "idle")
    /\ armed' = FALSE
    /\ UNCHANGED <<takeover, isConnected, active, video, asleep, dozing, enabled, excuse,
                   crashed>>

(* Failed: the handler closes the peer connection, connected or not. *)
Failed(s) ==
    /\ ~crashed /\ peer[s] = "open" /\ cb[s] = "idle"
    /\ peer' = [peer EXCEPT ![s] = "closed"]
    /\ UNCHANGED <<current, taking, closing, cb, isConnected, active, power, crashed>>

(* Closed, first part: is this the current session? *)
Closed(s) ==
    /\ peer[s] = "closed"
    /\ At(s, "idle", IF current = s THEN "clearing" ELSE "counting")
    /\ UNCHANGED <<takeover, isConnected, active, power, crashed>>

ClearCurrent(s) ==
    /\ At(s, "clearing", "counting")
    /\ current' = None
    /\ UNCHANGED <<peer, taking, closing, isConnected, active, power, crashed>>

(* Closed, last part: the RPC queue is closed and a session that counted   *)
(* is discounted.                                                          *)
Discount(s) ==
    /\ \/ /\ isConnected[s]
          /\ isConnected' = [isConnected EXCEPT ![s] = FALSE]
          /\ active' = active - 1
          /\ At(s, "counting", AfterDecrement(active'))
       \/ /\ ~isConnected[s]
          /\ At(s, "counting", "gone")
          /\ UNCHANGED <<isConnected, active>>
    /\ UNCHANGED <<takeover, power, crashed>>

(* onLastSessionDisconnected: VideoStop, which fails only when there is no *)
(* native process, nor then a stream.                                      *)
VideoStop(s) ==
    /\ At(s, "stopping", "arming")
    /\ video' = FALSE
    /\ UNCHANGED <<takeover, isConnected, active, asleep, armed, dozing, enabled, excuse,
                   crashed>>

(* startVideoSleepModeTicker: told that sleep mode is not supported, which *)
(* a native process that does not answer tells too, it leaves everything   *)
(* as it was; told by the configuration not to sleep, it stops the timer.  *)
StartTicker(s) ==
    /\ At(s, "arming", "gone")
    /\ \/ armed' = enabled
       \/ UNCHANGED armed
    /\ excuse' = IF armed' THEN "none" ELSE "declined"
    /\ UNCHANGED <<takeover, isConnected, active, video, asleep, dozing, enabled, crashed>>
----------------------------------------------------------------------------
(* rpcSetVideoSleepMode, called by a session that may be gone when it runs;*)
(* the timer is left alone.                                                *)
SetSleepMode ==
    /\ ~crashed /\ \E s \in Session : peer[s] \in {"open", "closed"}
    /\ enabled' \in BOOLEAN
    /\ UNCHANGED <<takeover, cb, isConnected, active, video, asleep, armed, dozing, excuse,
                   crashed>>

(* doVideoSleepModeTicker: a timer that fires once.                        *)

TimerFires ==
    /\ ~crashed /\ armed
    /\ armed' = FALSE
    /\ dozing' = (dozing \/ active = 0)
    /\ UNCHANGED <<takeover, cb, isConnected, active, video, asleep, enabled, excuse, crashed>>

(* VideoSetSleepMode(true) stops a stream that runs, waits for its end and *)
(* puts the receiver to sleep.  The ticker drops its error: no native      *)
(* process, the wait's timeout or the write's failure leave the device     *)
(* awake, and the timer has fired.                                         *)
EnterSleep ==
    /\ ~crashed /\ dozing
    /\ dozing' = FALSE
    /\ \/ video' = FALSE /\ asleep' = TRUE /\ UNCHANGED excuse
       \/ /\ video' \in {FALSE, video} /\ UNCHANGED asleep
          /\ excuse' = IF armed THEN excuse ELSE "refused"
    /\ UNCHANGED <<takeover, cb, isConnected, active, armed, enabled, crashed>>
----------------------------------------------------------------------------
Take(h) ==
    (\E s \in Session : Offer(h, s)) \/ CheckCurrent(h) \/ GrabCurrent(h) \/ Accept(h)

IceEvent(s) == Connected(s) \/ Failed(s)

(* What goes on by itself once begun. *)
HandlerStep(s) ==
    \/ Closed(s) \/ ClearCurrent(s) \/ Discount(s)
    \/ VideoStart(s) \/ StopTicker(s) \/ VideoStop(s) \/ StartTicker(s)

Next ==
    \/ \E h \in Handler : Take(h)
    \/ \E s \in Session : IceEvent(s) \/ HandlerStep(s) \/ DelayedClose(s)
    \/ SetSleepMode \/ TimerFires \/ EnterSleep

(* A goroutine that is in the middle of a handler goes on; clients owe us  *)
(* nothing: they need not offer, connect or go away.                       *)
Fairness ==
    /\ \A s \in Session : WF_vars(HandlerStep(s))
    /\ WF_vars(TimerFires) /\ WF_vars(EnterSleep)

Spec == Init /\ [][Next]_vars
FairSpec == Spec /\ Fairness
----------------------------------------------------------------------------
(* The counter is exactly the number of sessions that connected and have   *)
(* not been discounted, whatever order states come in: a session that      *)
(* never connected, or connects twice, does not disturb it.                *)
ActiveCountExact == active = Cardinality({s \in Session : isConnected[s]})

(* The encoder never streams for nobody: if it runs while no session is    *)
(* active, the session that was the last is on its way to stop it.         *)
NoIdleStreaming ==
    video => active > 0 \/ \E s \in Session : cb[s] = "stopping"

(* currentSession never stays behind: once a session's state handler has   *)
(* been through the closed state it is not the current session, so events  *)
(* are not sent into it and the auto-updater does not wait for it.         *)
NoDeadCurrent ==
    current # None => cb[current] \notin {"counting", "stopping", "arming", "gone"}

(* A device nobody watches goes to sleep, or there is a reason: since a    *)
(* timer was last armed the start of one was declined, or the receiver     *)
(* refused to sleep.  In particular the timer that a session used up or    *)
(* cancelled is armed again after the last of them, and no late stop of a  *)
(* session that came and went cancels it.                                  *)
IdleEventuallySleeps == []<>(asleep \/ active > 0 \/ crashed \/ excuse # "none")

(* The session counter can be relied on: types, and the exact count.       *)
Sound == TypeOK /\ ActiveCountExact
=============================================================================
