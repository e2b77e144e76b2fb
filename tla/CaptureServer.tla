---------------------------- MODULE CaptureServer ----------------------------
(***************************************************************************)
(* jknative-bin, the capture as a program of its own for debugging:        *)
(* cgo/main.c.  One thread sets the video and a Unix socket up and then    *)
(* waits in select for clients, of which it keeps the last; the others are *)
(* closed.  (What it would send them, the frames, is commented out.)  The  *)
(* kernel is external: it gives the lowest free descriptor, queues         *)
(* connections, closes everything of a process that ends, and keeps the    *)
(* socket's file.                                                          *)
(***************************************************************************)
EXTENDS Integers, SequencesExt

CONSTANTS Client,
          MaxEvents    \* bound: connections, bytes sent, starts, kills and failures, together

ASSUME ClientAssumption ==
    IsFiniteSet(Client) /\ Client # {} /\ Client \cap {"free", "server"} = {}
ASSUME BoundAssumption == MaxEvents \in Nat

NoFd == -1
Fd == 1 .. Cardinality(Client) + 2

\* Mutant: longer.
Backlog_Long == 4
Backlog == 1     \* of listen(); Linux lets one more wait

VARIABLES
    pc,          \* where main is
    video,       \* "off", "streaming", "shut"
    path,        \* the socket's file is there
    open,        \* what each descriptor is: "free", "server" or a client's connection
    client_fd, current,   \* client_fd, current_client_fd
    ready,       \* read_fds, as select left it
    queue,       \* connections to accept
    conn,        \* each client's end of its connection
    unread,      \* clients that sent a byte that was not read
    left,        \* what is left of the bound
    failed       \* history: something has failed in this run, or it was killed

descriptors == <<open, client_fd>>
clients == <<queue, conn, unread>>
vars == <<pc, video, path, descriptors, current, ready, clients, left, failed>>

Loop == {"watch", "select", "accept", "check", "read"}

TypeOK ==
    /\ pc \in {"down", "init", "bind", "listen", "end"} \cup Loop
    /\ video \in {"off", "streaming", "shut"} /\ path \in BOOLEAN
    /\ open \in [Fd -> {"free", "server"} \cup Client]
    /\ client_fd \in Fd \cup {NoFd} /\ current \in Fd \cup {NoFd} /\ ready \subseteq Fd
    /\ queue \in Seq(Client) /\ Len(queue) <= 2
    /\ conn \in [Client -> {"none", "open", "closed"}] /\ unread \subseteq Client
    /\ left \in 0 .. MaxEvents /\ failed \in BOOLEAN

Init ==
    /\ pc = "down" /\ video = "off" /\ path \in BOOLEAN
    /\ open = [f \in Fd |-> "free"] /\ client_fd = NoFd /\ current = NoFd /\ ready = {}
    /\ queue = <<>> /\ conn = [c \in Client |-> "none"] /\ unread = {}
    /\ left = MaxEvents /\ failed = FALSE

Spend == left > 0 /\ left' = left - 1
NoFault == UNCHANGED <<left, failed>>
Fault == Spend /\ failed' = TRUE
Goto(l) == pc' = l

Free == {f \in Fd : open[f] = "free"}
Server == CHOOSE f \in Fd : open[f] = "server"
Rest == UNCHANGED <<video, path, current, ready>>
Before == UNCHANGED <<client_fd, current, ready, clients>>

-----------------------------------------------------------------------------
(* main, up to its loop.                                                   *)

\* Mutant: the file of an earlier run is left where it is.
UnlinkNot == UNCHANGED path

Unlink == path' = FALSE

Start ==
    /\ pc = "down" /\ Spend /\ Goto("init") /\ Unlink
    /\ video' = "off" /\ failed' = FALSE
    /\ UNCHANGED open /\ Before

\* jetkvm_video_init, jetkvm_video_start, and the socket, which does not block.
VideoInit ==
    /\ pc = "init" /\ NoFault
    /\ video' = "streaming" /\ open' = [open EXCEPT ![Min(Free)] = "server"] /\ Goto("bind")
    /\ UNCHANGED path /\ Before

\* Mutant: the video goes on.
EndVideoNot == UNCHANGED video

\* jetkvm_video_stop and jetkvm_video_shutdown.
EndVideo == video' = "shut"

\* The error returns of main: the video does not start, or one of socket, fcntl, bind and listen
\* fails, bind also when the file is there.
SetupFails ==
    /\ pc \in {"init", "bind", "listen"}
    /\ \/ Fault
       \/ pc = "bind" /\ path /\ NoFault
    /\ IF pc = "init" THEN UNCHANGED video \/ EndVideo ELSE EndVideo
    /\ open' = [f \in Fd |-> "free"] /\ Goto("down")
    /\ UNCHANGED path /\ Before

Bind ==
    /\ pc = "bind" /\ ~path /\ NoFault
    /\ path' = TRUE /\ Goto("listen")
    /\ UNCHANGED <<video, open>> /\ Before

Listen ==
    /\ pc = "listen" /\ NoFault /\ Goto("watch")
    /\ UNCHANGED <<video, path, open>> /\ Before

-----------------------------------------------------------------------------
(* The loop.                                                               *)

\* The read end of a descriptor has something: a connection, a byte or the end.
Readable(f) ==
    \/ open[f] = "server" /\ queue # <<>>
    \/ open[f] \in Client /\ (open[f] \in unread \/ conn[open[f]] = "closed")

Watch ==
    /\ pc = "watch" /\ NoFault
    /\ current' = client_fd /\ Goto("select")
    /\ UNCHANGED <<video, path, descriptors, ready, clients>>

\* Something is readable, or nothing for a second; an interrupted call is made again, any other
\* error ends the loop.
Select ==
    /\ pc = "select"
    /\ \/ /\ NoFault /\ Goto("accept")
          /\ ready' = {f \in {Server, current} \cap Fd : Readable(f)}
       \/ NoFault /\ Goto("watch") /\ UNCHANGED ready
       \/ Fault /\ Goto("end") /\ UNCHANGED ready
    /\ UNCHANGED <<video, path, descriptors, current, clients>>

\* close(): the client at the other end notices, and has no connection any more.
Closed(c) ==
    /\ conn' = [conn EXCEPT ![c] = "none"]
    /\ unread' = unread \ {c}

\* Mutants: the previous client stays open; it is closed before the next is accepted.
ReplaceNot ==
    /\ client_fd' = Min(Free)
    /\ open' = [open EXCEPT ![Min(Free)] = Head(queue)]
    /\ UNCHANGED <<conn, unread>>
ReplaceFirst ==
    LET free == IF client_fd = NoFd THEN Free ELSE Free \cup {client_fd}
    IN  /\ client_fd' = Min(free)
        /\ open' = [f \in Fd |-> IF f = Min(free) THEN Head(queue)
                                 ELSE IF f = client_fd THEN "free" ELSE open[f]]
        /\ IF client_fd = NoFd THEN UNCHANGED <<conn, unread>> ELSE Closed(open[client_fd])

\* The connection gets the lowest free descriptor while the previous client still has its own.
Replace ==
    /\ client_fd' = Min(Free)
    /\ open' = [f \in Fd |-> IF f = Min(Free) THEN Head(queue)
                             ELSE IF f = client_fd THEN "free" ELSE open[f]]
    /\ IF client_fd = NoFd THEN UNCHANGED <<conn, unread>> ELSE Closed(open[client_fd])

\* Mutant: a client is served until it goes.
AcceptsIdle == Server \in ready /\ client_fd = NoFd

Accepts == Server \in ready

Accept ==
    /\ pc = "accept" /\ Goto("check")
    /\ \/ Accepts /\ Replace /\ queue' = Tail(queue) /\ NoFault
       \/ Accepts /\ Fault /\ UNCHANGED <<descriptors, clients>>
       \/ ~Accepts /\ NoFault /\ UNCHANGED <<descriptors, clients>>
    /\ Rest

\* current_client_fd is read again; what select said is of the descriptors before accept.
Check ==
    /\ pc = "check" /\ NoFault
    /\ current' = client_fd /\ Goto(IF client_fd \in ready THEN "read" ELSE "watch")
    /\ UNCHANGED <<video, path, descriptors, ready, clients>>

\* Mutant: only an error closes the client.
AtEndNot(c) == FALSE

\* read() returns 0.
AtEnd(c) == c \notin unread /\ conn[c] = "closed"

\* A byte is thrown away; at the end the client is closed.  With neither the call blocks.
Read ==
    LET c == open[current]
    IN
    /\ pc = "read" /\ Readable(current) /\ NoFault /\ Goto("watch")
    /\ IF AtEnd(c)
       THEN /\ open' = [open EXCEPT ![client_fd] = "free"] /\ client_fd' = NoFd
            /\ Closed(c)
       ELSE unread' = unread \ {c} /\ UNCHANGED <<descriptors, conn>>
    /\ UNCHANGED queue /\ Rest

\* The end of the program closes every descriptor and connection.
CloseAll ==
    /\ open' = [f \in Fd |-> "free"] /\ client_fd' = NoFd
    /\ queue' = <<>> /\ conn' = [c \in Client |-> "none"] /\ unread' = {}
    /\ Goto("down")
    /\ UNCHANGED <<current, ready>>

End == pc = "end" /\ EndVideo /\ path' = FALSE /\ CloseAll /\ NoFault

\* A signal: main catches none.
Kill == pc # "down" /\ Fault /\ CloseAll /\ video' = "off" /\ UNCHANGED path

-----------------------------------------------------------------------------
(* The clients.                                                            *)

Program == UNCHANGED <<pc, video, path, descriptors, current, ready, failed>>

Connect(c) ==
    /\ pc \in Loop \cup {"end"} /\ path /\ conn[c] = "none" /\ Len(queue) <= Backlog /\ Spend
    /\ queue' = Append(queue, c) /\ conn' = [conn EXCEPT ![c] = "open"]
    /\ UNCHANGED unread /\ Program

Send(c) ==
    /\ conn[c] = "open" /\ c \notin unread /\ Spend
    /\ unread' = unread \cup {c}
    /\ UNCHANGED <<queue, conn>> /\ Program

Close(c) ==
    /\ conn[c] = "open"
    /\ conn' = [conn EXCEPT ![c] = "closed"]
    /\ UNCHANGED <<queue, unread, left>> /\ Program

Main ==
    \/ VideoInit \/ SetupFails \/ Bind \/ Listen
    \/ Watch \/ Select \/ Accept \/ Check \/ Read \/ End

Next == Start \/ Main \/ Kill \/ \E c \in Client : Connect(c) \/ Send(c) \/ Close(c)

\* The program runs, and select is not interrupted for ever.
Fairness == WF_vars(Main) /\ SF_vars(Select /\ pc' = "accept")

Spec == Init /\ [][Next]_vars /\ Fairness

-----------------------------------------------------------------------------
(* Properties.                                                             *)

\* read never blocks the loop: the descriptor it is called on is readable, though select reported
\* on the descriptors of before accept, and the kernel gives numbers out again.
ReadDoesNotBlock == pc = "read" => Readable(current)

\* At the top of the loop nothing is open but the socket and the one client, so that the program never
\* runs out of descriptors, however many clients come and go.
OneClientOpen ==
    pc = "watch" => Fd \ Free = {Server} \cup ({client_fd} \ {NoFd})

\* When the program has ended and was not killed, it has closed what it opened and the video is stopped
\* or was never started, wherever it failed.
EndsClean == pc = "down" => Free = Fd /\ video # "streaming"

\* A start gets to the loop when nothing fails in it, though an earlier run was killed and left its
\* socket's file behind.
GetsToLoop == pc = "init" ~> pc = "watch" \/ failed

\* A client that connects is accepted, whoever is connected already, or the program ends.
EveryoneIsAccepted == \A c \in Client : c \in ToSet(queue) ~> c \notin ToSet(queue)

\* A client that has closed its end is closed by the program, after the bytes it left.
GoneAreClosed == \A c \in Client : conn[c] = "closed" ~> conn[c] # "closed"

\* The loop serves one client at a time: it never blocks in a read, has one client open, and leaves
\* nothing behind; types.
ServesOne == TypeOK /\ ReadDoesNotBlock /\ OneClientOpen /\ EndsClean

\* ... and everyone in the end: it gets to its loop, accepts who connects and closes who left.
ServesEveryone == GetsToLoop /\ EveryoneIsAccepted /\ GoneAreClosed
=============================================================================
