---------------------------- MODULE FrameMemory -----------------------------
(***************************************************************************)
(* What the video capture promises about the memory its frames are in: the *)
(* blocks are lent as a whole, to one stream thread at a time; the encoder *)
(* runs only while they are lent, and is told to stop before they come     *)
(* back; once a block is lost they are lent no more.                       *)
(***************************************************************************)
CONSTANTS Thread, NoThread

VARIABLES holder,  \* the thread the blocks are lent to
          whole,   \* none is lost
          coding   \* the encoder is told to run

vars == <<holder, whole, coding>>

Init == holder = NoThread /\ whole = TRUE /\ coding = FALSE

Lend(t) ==
    /\ holder = NoThread /\ whole = TRUE
    /\ holder' = t /\ UNCHANGED <<whole, coding>>

Encode ==
    /\ holder # NoThread
    /\ coding' = TRUE /\ UNCHANGED <<holder, whole>>

Halt == coding' = FALSE /\ UNCHANGED <<holder, whole>>

TakeBack ==
    /\ holder # NoThread /\ coding = FALSE
    /\ holder' = NoThread /\ UNCHANGED <<whole, coding>>

Lose ==
    /\ holder = NoThread
    /\ whole' = FALSE /\ UNCHANGED <<holder, coding>>

Next == (\E t \in Thread : Lend(t)) \/ Encode \/ Halt \/ TakeBack \/ Lose

Spec == Init /\ [][Next]_vars
=============================================================================
