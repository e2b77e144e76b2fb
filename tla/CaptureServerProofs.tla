------------------------ MODULE CaptureServerProofs -------------------------
(***************************************************************************)
(* CaptureServer, for any clients: its select loop has at most two         *)
(* descriptors open between two passes, and three while it accepts, so     *)
(* that there is always a free one; a descriptor it reads from is one that *)
(* select reported and nobody has closed or given out again since.         *)
(***************************************************************************)
EXTENDS CaptureServer, FiniteSetTheorems, TLAPS

\* The socket has the descriptor 1, and nothing but the client another.
Layout ==
    /\ pc \in {"down", "init"} => \A f \in Fd : open[f] = "free"
    /\ pc \notin {"down", "init"} =>
          /\ open[1] = "server"
          /\ \A f \in Fd \ {1} : IF f = client_fd THEN open[f] \in Client ELSE open[f] = "free"
    /\ client_fd # 1
    /\ client_fd # NoFd => pc \in Loop \cup {"end"}

\* What select reported is still so where it is used.
Reported ==
    /\ pc \in {"select", "accept", "read"} => current = client_fd
    /\ pc = "accept" => \A f \in ready : Readable(f)
    /\ pc = "check" /\ client_fd \in ready => Readable(client_fd)
    /\ pc = "read" => client_fd # NoFd /\ Readable(current)

VideoStopped == (pc = "down" => video # "streaming") /\ (pc = "init" => video = "off")

IInv == TypeOK /\ Layout /\ Reported /\ VideoStopped

-----------------------------------------------------------------------------
(* There are three descriptors at least: one more client may be accepted.  *)
LEMMA Descriptors == {1, 2, 3} \subseteq Fd /\ Fd \subseteq Nat
<1>1. Cardinality(Client) \in Nat
  BY ClientAssumption, FS_CardinalityType
<1>2. Cardinality(Client) # 0
  BY ClientAssumption, FS_EmptySet
<1>3. QED BY <1>1, <1>2 DEF Fd

LEMMA NoDescriptor == NoFd \notin Fd
BY Descriptors DEF NoFd

LEMMA Names == \A c \in Client : c # "free" /\ c # "server"
BY ClientAssumption

(* The least of a set of numbers is found by looking.                      *)
LEMMA Least ==
    ASSUME NEW S \in SUBSET Nat, NEW n \in S, \A m \in S : n <= m
    PROVE  Min(S) = n
<1>1. \A x \in S : (\A m \in S : x <= m) => x = n
  OBVIOUS
<1>2. QED BY <1>1 DEF Min

LEMMA FirstIsOne == Min(Fd) = 1
<1>1. \A m \in Fd : 1 <= m
  BY Descriptors DEF Fd
<1>2. QED BY <1>1, Descriptors, Least

(* Once it listens, the socket is the server.                              *)
LEMMA ServerIsOne ==
    ASSUME TypeOK, Layout, pc \notin {"down", "init"}
    PROVE  Server = 1
<1>1. \A f \in Fd : open[f] = "server" <=> f = 1
  BY Descriptors, Names DEF Layout
<1>2. QED BY <1>1, Descriptors DEF Server

(* While it accepts there is a free descriptor, which is not the socket's, *)
(* nor the client's.                                                       *)
LEMMA FreeOne ==
    ASSUME TypeOK, Layout, pc \notin {"down", "init"}
    PROVE  Min(Free) \in Fd \ {1, client_fd} /\ open[Min(Free)] = "free"
<1>1. Free = Fd \ {1, client_fd}
  BY Names DEF Free, Layout
<1>2. CASE client_fd # 2
  <2>1. 2 \in Free /\ \A m \in Free : 2 <= m
    BY <1>1, <1>2, Descriptors DEF Fd
  <2>2. Min(Free) = 2
    BY <1>1, <2>1, Descriptors, Least
  <2>3. QED BY <1>1, <2>1, <2>2 DEF Free
<1>3. CASE client_fd = 2
  <2>1. 3 \in Free /\ \A m \in Free : 3 <= m
    BY <1>1, <1>3, Descriptors DEF Fd
  <2>2. Min(Free) = 3
    BY <1>1, <2>1, Descriptors, Least
  <2>3. QED BY <1>1, <2>1, <2>2 DEF Free
<1>4. QED BY <1>2, <1>3
-----------------------------------------------------------------------------
LEMMA InitIInv == Init => IInv
<1> SUFFICES ASSUME Init PROVE IInv
  OBVIOUS
<1>1. TypeOK
  <2>1. <<>> \in Seq(Client) /\ Len(<<>>) <= 2
    OBVIOUS
  <2>2. MaxEvents \in 0 .. MaxEvents
    BY BoundAssumption
  <2>3. QED BY <2>1, <2>2 DEF Init, TypeOK
<1>2. Layout /\ Reported /\ VideoStopped
  BY Descriptors DEF Init, Layout, Reported, VideoStopped, NoFd
<1>3. QED BY <1>1, <1>2 DEF IInv

(* What a step spends of the bound.                                        *)
LEMMA ChanceTyped ==
    ASSUME TypeOK, Fault \/ NoFault
    PROVE  left' \in 0 .. MaxEvents /\ failed' \in BOOLEAN
<1>1. CASE Fault
  <2>1. left' \in 0 .. MaxEvents
    BY <1>1, BoundAssumption DEF Fault, Spend, TypeOK
  <2>2. failed' \in BOOLEAN
    BY <1>1, Zenon DEF Fault
  <2>3. QED BY <2>1, <2>2
<1>2. CASE NoFault
  BY <1>2 DEF NoFault, TypeOK
<1>3. QED BY <1>1, <1>2

(* Up to the loop.                                                         *)
LEMMA SetupKeeps ==
    ASSUME IInv, Start \/ VideoInit \/ SetupFails \/ Bind \/ Listen
    PROVE  IInv'
<1> USE DEF Goto, Before
<1>1. CASE Start
  <2>1. left' \in 0 .. MaxEvents
    BY <1>1, BoundAssumption DEF Start, Spend, IInv, TypeOK
  <2>2. TypeOK'
    BY <1>1, <2>1 DEF Start, Unlink, IInv, TypeOK, clients
  <2>3. Layout' /\ Reported' /\ VideoStopped'
    BY <1>1 DEF Start, IInv, Layout, Reported, VideoStopped, Loop
  <2>4. QED BY <2>2, <2>3 DEF IInv
<1>2. CASE VideoInit
  <2>1. Free = Fd
    BY <1>2 DEF VideoInit, IInv, Layout, Free
  <2>2. open' = [open EXCEPT ![1] = "server"]
    BY <1>2, <2>1, FirstIsOne DEF VideoInit
  <2>3. left' \in 0 .. MaxEvents /\ failed' \in BOOLEAN
    BY <1>2, ChanceTyped DEF VideoInit, IInv
  <2>4. TypeOK'
    BY <1>2, <2>2, <2>3, Descriptors DEF VideoInit, IInv, TypeOK, clients
  <2>5. client_fd = NoFd /\ client_fd' = NoFd
    BY <1>2 DEF VideoInit, IInv, Layout, Loop
  <2>6. Layout'
    BY <1>2, <2>2, <2>5, Descriptors, NoDescriptor DEF VideoInit, IInv, Layout, TypeOK
  <2>7. Reported' /\ VideoStopped'
    BY <1>2 DEF VideoInit, Reported, VideoStopped
  <2>8. QED BY <2>4, <2>6, <2>7 DEF IInv
<1>3. CASE SetupFails
  <2>1. left' \in 0 .. MaxEvents /\ failed' \in BOOLEAN
    BY <1>3, ChanceTyped DEF SetupFails, IInv
  <2>2. TypeOK'
    BY <1>3, <2>1 DEF SetupFails, EndVideo, IInv, TypeOK, clients
  <2>3. Layout' /\ Reported'
    BY <1>3 DEF SetupFails, IInv, Layout, Reported, Loop
  <2>4. VideoStopped'
    BY <1>3 DEF SetupFails, EndVideo, IInv, VideoStopped
  <2>5. QED BY <2>2, <2>3, <2>4 DEF IInv
<1>4. CASE Bind \/ Listen
  <2>1. left' \in 0 .. MaxEvents /\ failed' \in BOOLEAN
    BY <1>4, ChanceTyped DEF Bind, Listen, IInv
  <2>2. TypeOK'
    BY <1>4, <2>1 DEF Bind, Listen, IInv, TypeOK, clients, Loop
  <2>3. Layout' /\ Reported' /\ VideoStopped'
    BY <1>4 DEF Bind, Listen, IInv, Layout, Reported, VideoStopped, Loop
  <2>4. QED BY <2>2, <2>3 DEF IInv
<1>5. QED BY <1>1, <1>2, <1>3, <1>4

(* The passes of the loop that leave the descriptors alone. *)
LEMMA LookKeeps ==
    ASSUME IInv, Watch \/ Select \/ Check
    PROVE  IInv'
<1> USE DEF Goto
<1>1. left' \in 0 .. MaxEvents /\ failed' \in BOOLEAN
  BY ChanceTyped DEF Watch, Select, Check, IInv
<1>2. CASE Watch
  <2>1. TypeOK'
    BY <1>1, <1>2 DEF Watch, IInv, TypeOK, descriptors, clients, Loop
  <2>2. Layout' /\ Reported' /\ VideoStopped'
    BY <1>2 DEF Watch, IInv, Layout, Reported, VideoStopped, descriptors, Loop
  <2>3. QED BY <2>1, <2>2 DEF IInv
<1>3. CASE Select
  <2>1. ready' \subseteq Fd
    BY <1>3 DEF Select, IInv, TypeOK
  <2>2. TypeOK'
    BY <1>1, <1>3, <2>1 DEF Select, IInv, TypeOK, descriptors, clients, Loop
  <2>3. Layout' /\ VideoStopped'
    BY <1>3 DEF Select, IInv, Layout, VideoStopped, descriptors, Loop
  <2>4. \A f \in Fd : Readable(f)' = Readable(f)
    BY <1>3 DEF Select, Readable, descriptors, clients
  <2>5. Reported'
    BY <1>3, <2>4 DEF Select, IInv, Reported, descriptors
  <2>6. QED BY <2>2, <2>3, <2>5 DEF IInv
<1>4. CASE Check
  <2>1. TypeOK'
    BY <1>1, <1>4 DEF Check, IInv, TypeOK, descriptors, clients, Loop
  <2>2. Layout' /\ VideoStopped'
    BY <1>4 DEF Check, IInv, Layout, VideoStopped, descriptors, Loop
  <2>3. \A f \in Fd : Readable(f)' = Readable(f)
    BY <1>4 DEF Check, Readable, descriptors, clients
  <2>4. client_fd \in ready => client_fd \in Fd
    BY DEF IInv, TypeOK
  <2>5. Reported'
    BY <1>4, <2>3, <2>4, NoDescriptor DEF Check, IInv, Reported, descriptors
  <2>6. QED BY <2>1, <2>2, <2>5 DEF IInv
<1>5. QED BY <1>2, <1>3, <1>4

(* What closing does to the connections. *)
LEMMA ClosedTyped ==
    ASSUME TypeOK, NEW c \in Client, Closed(c)
    PROVE  conn' \in [Client -> {"none", "open", "closed"}] /\ unread' \subseteq Client
BY DEF Closed, TypeOK

(* The new client's descriptor is none that select reported. *)
LEMMA AcceptKeeps ==
    ASSUME IInv, Accept
    PROVE  IInv'
<1> USE DEF Goto, Rest
<1>0. pc = "accept" /\ left' \in 0 .. MaxEvents /\ failed' \in BOOLEAN
  BY ChanceTyped DEF Accept, IInv
<1>1. CASE UNCHANGED <<descriptors, clients>>
  <2>1. TypeOK'
    BY <1>0, <1>1 DEF Accept, IInv, TypeOK, descriptors, clients, Loop
  <2>2. Layout' /\ VideoStopped'
    BY <1>0, <1>1 DEF Accept, IInv, Layout, VideoStopped, descriptors, Loop
  <2>3. \A f \in Fd : Readable(f)' = Readable(f)
    BY <1>1 DEF Readable, descriptors, clients
  <2>4. Reported'
    BY <1>0, <1>1, <2>3 DEF Accept, IInv, Reported, TypeOK, descriptors
  <2>5. QED BY <2>1, <2>2, <2>4 DEF IInv
<1>2. CASE Accepts /\ Replace /\ queue' = Tail(queue)
  <2> DEFINE n == Min(Free)
  <2>1. n \in Fd \ {1, client_fd} /\ open[n] = "free"
    BY <1>0, FreeOne DEF IInv
  <2>2. Readable(1)
    BY <1>0, <1>2, ServerIsOne DEF Accepts, IInv, Reported
  <2>3. queue # <<>>
    BY <1>0, <2>2, Names DEF Readable, IInv, Layout
  <2>4. Head(queue) \in Client /\ Tail(queue) \in Seq(Client) /\ Len(Tail(queue)) <= 2
    BY <2>3 DEF IInv, TypeOK
  <2>5. client_fd # NoFd => client_fd \in Fd \ {1} /\ open[client_fd] \in Client
    BY <1>0 DEF IInv, Layout, TypeOK
  <2>6. conn' \in [Client -> {"none", "open", "closed"}] /\ unread' \subseteq Client
    BY <1>2, <2>5, ClosedTyped DEF Replace, IInv, TypeOK
  <2>7. client_fd' = n
        /\ open' = [f \in Fd |-> IF f = n THEN Head(queue)
                                 ELSE IF f = client_fd THEN "free" ELSE open[f]]
    BY <1>2 DEF Replace
  <2> HIDE DEF n
  <2>8. open' \in [Fd -> {"free", "server"} \cup Client]
    BY <2>4, <2>7 DEF IInv, TypeOK
  <2>9. TypeOK'
    BY <1>0, <1>2, <2>1, <2>4, <2>6, <2>7, <2>8 DEF Accept, IInv, TypeOK, Loop
  <2>10. Layout'
    <3>1. open'[1] = "server"
      BY <1>0, <2>1, <2>7, Descriptors DEF IInv, Layout
    <3>2. \A f \in Fd \ {1} : IF f = n THEN open'[f] \in Client ELSE open'[f] = "free"
      BY <1>0, <2>1, <2>4, <2>7 DEF IInv, Layout
    <3>3. QED BY <1>0, <2>1, <2>7, <3>1, <3>2 DEF Accept, Layout, Loop
  <2>11. n \notin ready
    BY <1>0, <2>1, Names DEF IInv, Reported, Readable
  <2>12. Reported' /\ VideoStopped'
    BY <1>0, <2>7, <2>11 DEF Accept, Reported, VideoStopped
  <2>13. QED BY <2>9, <2>10, <2>12 DEF IInv
<1>3. QED BY <1>1, <1>2 DEF Accept

LEMMA ReadKeeps ==
    ASSUME IInv, Read
    PROVE  IInv'
<1> USE DEF Goto, Rest
<1> DEFINE c == open[current]
<1>0. pc = "read" /\ pc' = "watch" /\ left' \in 0 .. MaxEvents /\ failed' \in BOOLEAN
  BY ChanceTyped DEF Read, IInv
<1>1. current = client_fd /\ client_fd \in Fd \ {1} /\ c \in Client
  BY <1>0 DEF IInv, Reported, Layout, TypeOK
<1>2. UNCHANGED <<video, path, current, ready, queue>>
  BY DEF Read
<1>3. CASE AtEnd(c)
  <2>1. open' = [open EXCEPT ![client_fd] = "free"] /\ client_fd' = NoFd /\ Closed(c)
    BY <1>3 DEF Read
  <2>2. conn' \in [Client -> {"none", "open", "closed"}] /\ unread' \subseteq Client
    BY <1>1, <2>1, ClosedTyped DEF IInv
  <2> HIDE DEF c
  <2>3. TypeOK'
    BY <1>0, <1>1, <1>2, <2>1, <2>2 DEF IInv, TypeOK, Loop
  <2>4. Layout'
    BY <1>0, <1>1, <2>1, NoDescriptor, Descriptors DEF IInv, Layout, TypeOK, NoFd
  <2>5. QED BY <1>0, <2>3, <2>4 DEF IInv, Reported, VideoStopped
<1>4. CASE ~AtEnd(c)
  <2>1. unread' = unread \ {c} /\ UNCHANGED <<open, client_fd, conn>>
    BY <1>4 DEF Read, descriptors
  <2> HIDE DEF c
  <2>2. TypeOK'
    BY <1>0, <1>2, <2>1 DEF IInv, TypeOK, Loop
  <2>3. Layout'
    BY <1>0, <2>1 DEF IInv, Layout, Loop
  <2>4. QED BY <1>0, <2>2, <2>3 DEF IInv, Reported, VideoStopped
<1>5. QED BY <1>3, <1>4

(* The end of the program, and a signal. *)
LEMMA EndKeeps ==
    ASSUME IInv, End \/ Kill
    PROVE  IInv'
<1> USE DEF Goto
<1>1. left' \in 0 .. MaxEvents /\ failed' \in BOOLEAN
  BY ChanceTyped DEF End, Kill, IInv
<1>2. CloseAll /\ video' \in {"shut", "off"} /\ path' \in BOOLEAN
  BY DEF End, EndVideo, Kill, IInv, TypeOK
<1>3. <<>> \in Seq(Client) /\ Len(<<>>) <= 2
  OBVIOUS
<1>4. TypeOK'
  BY <1>1, <1>2, <1>3 DEF CloseAll, IInv, TypeOK
<1>5. Layout' /\ Reported' /\ VideoStopped'
  BY <1>2 DEF CloseAll, Layout, Reported, VideoStopped, NoFd
<1>6. QED BY <1>4, <1>5 DEF IInv

(* Clients only add to what is readable. *)
LEMMA ClientKeeps ==
    ASSUME IInv, NEW c \in Client, Connect(c) \/ Send(c) \/ Close(c)
    PROVE  IInv'
<1> USE DEF Program, descriptors
<1>1. failed' \in BOOLEAN
  BY DEF Connect, Send, Close, IInv, TypeOK
<1>2. left' \in 0 .. MaxEvents
  BY BoundAssumption DEF Connect, Send, Close, Spend, IInv, TypeOK
<1>3. CASE Connect(c)
  <2>1. queue' \in Seq(Client) /\ Len(queue') <= 2 /\ queue' # <<>>
    BY <1>3 DEF Connect, Backlog, IInv, TypeOK
  <2>2. TypeOK'
    BY <1>1, <1>2, <1>3, <2>1 DEF Connect, IInv, TypeOK
  <2>3. \A f \in Fd : Readable(f) => Readable(f)'
    BY <1>3, <2>1 DEF Connect, Readable, IInv, TypeOK
  <2>4. QED BY <1>3, <2>2, <2>3, NoDescriptor DEF Connect, IInv, Layout, Reported, VideoStopped, TypeOK
<1>4. CASE Send(c) \/ Close(c)
  <2>1. TypeOK'
    BY <1>1, <1>2, <1>4 DEF Send, Close, IInv, TypeOK
  <2>2. \A f \in Fd : Readable(f) => Readable(f)'
    BY <1>4 DEF Send, Close, Readable, IInv, TypeOK
  <2>3. QED BY <1>4, <2>1, <2>2, NoDescriptor DEF Send, Close, IInv, Layout, Reported, VideoStopped, TypeOK
<1>5. QED BY <1>3, <1>4

LEMMA StepIInv == IInv /\ [Next]_vars => IInv'
<1> SUFFICES ASSUME IInv, [Next]_vars PROVE IInv'
  OBVIOUS
<1>1. CASE UNCHANGED vars
  BY <1>1 DEF IInv, TypeOK, Layout, Reported, Readable, VideoStopped, vars, descriptors, clients
<1>2. CASE Start \/ Main \/ Kill
  BY <1>2, SetupKeeps, LookKeeps, AcceptKeeps, ReadKeeps, EndKeeps DEF Main
<1>3. CASE \E c \in Client : Connect(c) \/ Send(c) \/ Close(c)
  BY <1>3, ClientKeeps
<1>4. QED BY <1>1, <1>2, <1>3 DEF Next
-----------------------------------------------------------------------------
(* The inductive invariant holds of every behaviour. *)
THEOREM Inductive == Spec => []IInv
BY InitIInv, StepIInv, PTL DEF Spec

(* The loop never blocks in a read: what it reads from was reported, and   *)
(* is still the client's (main.c:202).                                     *)
THEOREM ReadsDoNotBlock == Spec => []ReadDoesNotBlock
<1>1. IInv => ReadDoesNotBlock
  BY DEF IInv, Reported, ReadDoesNotBlock
<1>2. QED BY Inductive, <1>1, PTL

(* Between two passes the socket and one client are open, nothing else.    *)
THEOREM OneIsOpen == Spec => []OneClientOpen
<1>1. IInv => OneClientOpen
  <2> SUFFICES ASSUME IInv, pc = "watch" PROVE Fd \ Free = {Server} \cup ({client_fd} \ {NoFd})
    BY DEF OneClientOpen
  <2>1. Server = 1
    BY ServerIsOne DEF IInv
  <2>2. \A f \in Fd : f \notin Free <=> f = 1 \/ f = client_fd
    BY Names DEF IInv, Layout, Free
  <2>3. QED BY <2>1, <2>2, Descriptors, NoDescriptor DEF IInv, TypeOK
<1>2. QED BY Inductive, <1>1, PTL

(* Wherever the program ends, nothing of it is left open or streaming.     *)
THEOREM EndIsClean == Spec => []EndsClean
<1>1. IInv => EndsClean
  BY DEF IInv, Layout, VideoStopped, EndsClean, Free
<1>2. QED BY Inductive, <1>1, PTL

(* The loop serves one client: types and the three theorems before.        *)
THEOREM LoopServesOne == Spec => []ServesOne
<1>1. IInv => TypeOK
  BY DEF IInv
<1>2. QED BY Inductive, <1>1, ReadsDoNotBlock, OneIsOpen, EndIsClean, PTL DEF ServesOne
=============================================================================
