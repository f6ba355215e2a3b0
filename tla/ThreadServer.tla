------------------------------ MODULE ThreadServer ------------------------------
(***************************************************************************)
(* TCP3pthread/tcp_server.cpp: the main thread accepts and starts one      *)
(* detached thread per connection, which takes its descriptor from a heap  *)
(* cell, answers one message and closes.  A client connects at most once,  *)
(* so it names its connection, its cell and its thread.                    *)
(***************************************************************************)
EXTENDS Integers, Sequences, FiniteSets

CONSTANTS
    Clients,
    NoClient,
    MaxFd           \* descriptors left for connections under the process limit

ASSUME ThreadAssumption == NoClient \notin Clients /\ MaxFd \in Nat \ {0}

Fds == 1..MaxFd

VARIABLES
    peer,           \* peer[k]: the client's end of the connection
    inbox,          \* clients whose message is in the kernel, not yet received
    got,            \* got[k]: answers written to k's socket
    backlog,        \* the listen queue
    fdTable,        \* fdTable[f]: whose socket the descriptor f denotes
    mainPc,         \* "start", "accept", "create" or "exited"
    conn_fd,        \* main's conn_fd
    cell,           \* cell[k]: the int on the heap for k's thread, 0 if there is none;
                    \* the cell of a thread that could not be created stays
    pc,             \* pc[k]: the thread that serves k
    fd,             \* fd[k]: that thread's conn_fd
    proc            \* "running" or "killed"

vars == <<peer, inbox, got, backlog, fdTable, mainPc, conn_fd, cell, pc, fd,
          proc>>
network == <<peer, inbox, backlog>>

Init ==
    /\ peer = [k \in Clients |-> "idle"]
    /\ inbox = {}
    /\ got = [k \in Clients |-> 0]
    /\ backlog = <<>>
    /\ fdTable = [f \in Fds |-> NoClient]
    /\ mainPc = "start"
    /\ conn_fd = 0
    /\ cell = [k \in Clients |-> 0]
    /\ pc = [k \in Clients |-> "none"]
    /\ fd = [k \in Clients |-> 0]
    /\ proc = "running"

-----------------------------------------------------------------------------
(* The clients.                                                            *)

\* Refused before main listens.
Connect(k) ==
    /\ peer[k] = "idle"
    /\ mainPc \notin {"start", "exited"}
    /\ peer' = [peer EXCEPT ![k] = "connected"]
    /\ backlog' = Append(backlog, k)
    /\ UNCHANGED inbox

Send(k) ==
    /\ peer[k] = "connected"
    /\ peer' = [peer EXCEPT ![k] = "sent"]
    /\ inbox' = inbox \cup {k}
    /\ UNCHANGED backlog

\* The client closes its end (FIN, "left"), and a RST may follow it ("broken"), or it
\* resets the connection at once ("reset"); what it sent can still be received.
Leave(k) ==
    /\ \/ /\ peer[k] \in {"connected", "sent"}
          /\ peer' \in {[peer EXCEPT ![k] = "left"], [peer EXCEPT ![k] = "reset"]}
       \/ /\ peer[k] = "left"
          /\ peer' = [peer EXCEPT ![k] = "broken"]
    /\ UNCHANGED <<inbox, backlog>>

ClientStep ==
    /\ \E k \in Clients : Connect(k) \/ Send(k) \/ Leave(k)
    /\ UNCHANGED <<got, fdTable, mainPc, conn_fd, cell, pc, fd, proc>>

-----------------------------------------------------------------------------
(* The main thread.                                                        *)

\* TCPServer(): socket, setsockopt, bind and listen, or the end if one of them fails.
Listen ==
    /\ mainPc = "start"
    /\ mainPc' \in {"accept", "exited"}
    /\ UNCHANGED <<network, got, fdTable, conn_fd, cell, pc, fd, proc>>

\* accept() gives the lowest free descriptor (with none it fails and the loop
\* tries again); its number goes into a new heap cell.
Accept ==
    /\ mainPc = "accept"
    /\ backlog # <<>>
    /\ \E f \in Fds :
          /\ fdTable[f] = NoClient
          /\ \A g \in Fds : g < f => fdTable[g] # NoClient
          /\ fdTable' = [fdTable EXCEPT ![f] = Head(backlog)]
          /\ conn_fd' = f
          /\ cell' = [cell EXCEPT ![Head(backlog)] = f]
    /\ backlog' = Tail(backlog)
    /\ mainPc' = "create"
    /\ UNCHANGED <<peer, inbox, got, pc, fd, proc>>

\* pthread_create and pthread_detach.
CreateThread ==
    /\ mainPc = "create"
    /\ pc' = [pc EXCEPT ![fdTable[conn_fd]] = "start"]
    /\ mainPc' = "accept"
    /\ UNCHANGED <<network, got, fdTable, conn_fd, cell, fd, proc>>

\* Fault: the connection stays open.
CreateFails_KeepsFd ==
    /\ mainPc = "create"
    /\ mainPc' = "accept"
    /\ UNCHANGED <<network, got, fdTable, conn_fd, cell, pc, fd, proc>>

\* pthread_create fails: the descriptor is closed, the released cell is lost.
CreateFails ==
    /\ mainPc = "create"
    /\ fdTable' = [fdTable EXCEPT ![conn_fd] = NoClient]
    /\ mainPc' = "accept"
    /\ UNCHANGED <<network, got, conn_fd, cell, pc, fd, proc>>

MainStep == proc = "running" /\ (Listen \/ Accept \/ CreateThread \/ CreateFails)

-----------------------------------------------------------------------------
(* handle_client, in the thread that serves k.                             *)

Goto(k, from, to) ==
    /\ pc[k] = from
    /\ pc' = [pc EXCEPT ![k] = to]

\* Fault: the threads are given the address of main's conn_fd.
TakeCell_Shared(k) ==
    /\ Goto(k, "start", "recv")
    /\ fd' = [fd EXCEPT ![k] = conn_fd]
    /\ cell' = [cell EXCEPT ![k] = 0]
    /\ UNCHANGED <<network, got, fdTable, mainPc, conn_fd, proc>>

\* Take the descriptor out of the cell and delete the cell.
TakeCell(k) ==
    /\ Goto(k, "start", "recv")
    /\ fd' = [fd EXCEPT ![k] = cell[k]]
    /\ cell' = [cell EXCEPT ![k] = 0]
    /\ UNCHANGED <<network, got, fdTable, mainPc, conn_fd, proc>>

\* recv() on whatever the descriptor denotes.  The end of the connection counts
\* as a message: both tests on valread ask for < 0.  Only a reset makes it -1.
Recv(k) ==
    /\ pc[k] = "recv"
    /\ LET j == fdTable[fd[k]] IN
          /\ j \in Clients
          /\ \/ /\ j \in inbox
                /\ inbox' = inbox \ {j}
                /\ Goto(k, "recv", "send")
             \/ /\ j \notin inbox /\ UNCHANGED inbox
                /\ \/ peer[j] \in {"left", "broken"} /\ Goto(k, "recv", "send")
                   \/ peer[j] = "reset" /\ Goto(k, "recv", "close")
    /\ UNCHANGED <<peer, backlog, got, fdTable, mainPc, conn_fd, cell, fd, proc>>

\* send(), its result ignored: it fails on a reset connection, and after a FIN and a
\* RST it raises SIGPIPE, which ends the process.
SendAnswer(k) ==
    /\ pc[k] = "send"
    /\ LET j == fdTable[fd[k]] IN
          /\ j \in Clients
          /\ \/ /\ peer[j] \notin {"reset", "broken"}
                /\ got' = [got EXCEPT ![j] = @ + 1]
                /\ Goto(k, "send", "close")
                /\ UNCHANGED proc
             \/ /\ peer[j] = "reset"
                /\ Goto(k, "send", "close")
                /\ UNCHANGED <<got, proc>>
             \/ /\ peer[j] = "broken"
                /\ proc' = "killed"
                /\ UNCHANGED <<got, pc>>
    /\ UNCHANGED <<network, fdTable, mainPc, conn_fd, cell, fd>>

Close(k) ==
    /\ Goto(k, "close", "exited")
    /\ fdTable' = [fdTable EXCEPT ![fd[k]] = NoClient]
    /\ UNCHANGED <<network, got, mainPc, conn_fd, cell, fd, proc>>

ThreadStep(k) ==
    /\ proc = "running"
    /\ TakeCell(k) \/ Recv(k) \/ SendAnswer(k) \/ Close(k)

Next ==
    \/ ClientStep
    \/ MainStep
    \/ \E k \in Clients : ThreadStep(k)

Spec == Init /\ [][Next]_vars

\* Every thread runs; threads are created again at some time.  Nothing is
\* assumed of the clients.
FairSpec ==
    /\ Spec
    /\ WF_vars(MainStep)
    /\ \A k \in Clients : WF_vars(ThreadStep(k))

-----------------------------------------------------------------------------
TypeOK ==
    /\ peer \in [Clients -> {"idle", "connected", "sent", "left", "broken", "reset"}]
    /\ inbox \subseteq Clients
    /\ got \in [Clients -> Nat]
    /\ backlog \in Seq(Clients)
    /\ fdTable \in [Fds -> Clients \cup {NoClient}]
    /\ mainPc \in {"start", "accept", "create", "exited"}
    /\ conn_fd \in 0..MaxFd
    /\ cell \in [Clients -> 0..MaxFd]
    /\ pc \in [Clients -> {"none", "start", "recv", "send", "close", "exited"}]
    /\ fd \in [Clients -> 0..MaxFd]
    /\ proc \in {"running", "killed"}

\* Every thread works on the descriptor of its own client until it has closed it,
\* although main overwrites conn_fd before the thread has looked and descriptors
\* are reused (tcp_server.cpp:23-26, 116, 128-131).
OwnDescriptor ==
    \A k \in Clients :
       /\ pc[k] = "start" => cell[k] # 0 /\ fdTable[cell[k]] = k
       /\ pc[k] \in {"recv", "send", "close"} => fd[k] # 0 /\ fdTable[fd[k]] = k

\* An open descriptor belongs to a connection some thread, or main, will still
\* close (tcp_server.cpp:46, 134): none is lost when a thread cannot be created.
NoDescriptorLost ==
    \A f \in Fds : fdTable[f] # NoClient =>
       \/ pc[fdTable[f]] \in {"start", "recv", "send", "close"}
       \/ mainPc = "create" /\ conn_fd = f

\* A message that arrives, before its thread has taken the cell or while the thread
\* waits in recv(), is answered, also if its client has closed its end meanwhile;
\* unless the client resets the connection or the process is killed
\* (tcp_server.cpp:21-48).
Answered ==
    \A k \in Clients :
       k \in inbox /\ pc[k] \in {"start", "recv"}
          ~> got[k] = 1 \/ peer[k] = "reset" \/ proc = "killed"

Open(k) == \E f \in Fds : fdTable[f] = k

Queued(k) == \E i \in DOMAIN backlog : backlog[i] = k

\* A client that stays is queued, in main's hands or in its thread's, which will find
\* its message; once heard it is answered, once, before its connection is closed.
\* Only a failed pthread_create leaves it alone (tcp_server.cpp:21-48, 116-136).
NobodyForgotten ==
    \A k \in Clients : peer[k] \in {"connected", "sent"} =>
       \/ /\ \/ Queued(k)
             \/ mainPc = "create" /\ fdTable[conn_fd] = k
             \/ pc[k] \in {"start", "recv"}
          /\ peer[k] = "sent" => k \in inbox
       \/ peer[k] = "sent" /\ pc[k] = "send"
       \/ peer[k] = "sent" /\ pc[k] \in {"close", "exited"} /\ got[k] = 1
       \/ pc[k] = "none" /\ cell[k] # 0 /\ ~Open(k)

\* How far the server is with k; a connection that is not open any more is over,
\* whoever closed it.
Stage(k) ==
    IF Open(k)
    THEN CASE pc[k] = "none" -> "taken"
           [] pc[k] \in {"start", "recv"} -> "served"
           [] pc[k] = "send" -> "heard"
           [] OTHER -> "done"
    ELSE IF pc[k] = "none" /\ cell[k] = 0 THEN "away" ELSE "over"

Service == INSTANCE OneAnswer WITH
    unread <- inbox,
    gone <- {k \in Clients : peer[k] \in {"left", "broken", "reset"}},
    stage <- [k \in Clients |-> Stage(k)],
    answers <- got

\* Through the cells, the threads that start late and the reuse of descriptors every
\* client is heard, answered and closed by its own thread, once and in this order
\* (tcp_server.cpp:21-48, 104-140).
ImplementsOneAnswer == Service!Spec

-----------------------------------------------------------------------------
(* The facts that make the invariants above inductive.                     *)

\* accept() gives every connection one descriptor and no second one.
OneDescriptor ==
    \A f, g \in Fds : fdTable[f] = fdTable[g] /\ fdTable[f] # NoClient => f = g

\* Between accept() and pthread_create main holds a connection nobody serves.
MainHolds ==
    mainPc = "create" =>
       /\ conn_fd \in Fds
       /\ fdTable[conn_fd] \in Clients
       /\ pc[fdTable[conn_fd]] = "none"
       /\ cell[fdTable[conn_fd]] = conn_fd

\* A client that has not been accepted is queued once at most and has neither a
\* descriptor nor a cell nor a thread.
NotYetAccepted ==
    /\ \A i, j \in DOMAIN backlog : backlog[i] = backlog[j] => i = j
    /\ \A i \in DOMAIN backlog :
          /\ peer[backlog[i]] # "idle"
          /\ pc[backlog[i]] = "none" /\ cell[backlog[i]] = 0
          /\ ~Open(backlog[i])
    /\ \A k \in Clients : peer[k] = "idle" =>
          pc[k] = "none" /\ cell[k] = 0 /\ ~Open(k)

\* A message in the kernel was sent, and an answer comes just before the close.
SentBefore ==
    /\ \A k \in inbox : peer[k] \notin {"idle", "connected"}
    /\ \A k \in Clients : got[k] # 0 => pc[k] \in {"close", "exited"}

IInv ==
    /\ TypeOK
    /\ OwnDescriptor
    /\ NoDescriptorLost
    /\ OneDescriptor
    /\ MainHolds
    /\ NotYetAccepted
=============================================================================
