------------------------------ MODULE ConnServer ------------------------------
(***************************************************************************)
(* The part of Project_TCPServer_Plus that does not depend on the reactor: *)
(* the main thread (accept, register, sweep), the Connection object with   *)
(* its read / reply / close sequence run by the loop thread, and the kernel*)
(* state both share.  EpollServer, PollServer and SelectServer each add    *)
(* one reactor: how a connection is registered and how the loop thread     *)
(* finds the connection an event belongs to.                               *)
(*                                                                         *)
(* A client connects at most once, so a client names its connection, its   *)
(* server-side socket and the Connection object that wraps it.             *)
(***************************************************************************)
EXTENDS Integers, FiniteSets, Sequences

CONSTANTS
    Clients,        \* the clients that may connect
    NoClient,       \* "no connection": the null pointer, an unused descriptor
    MaxFd,          \* descriptors left for clients under the process limit
    MaxRequests     \* bound: segments one client sends

ASSUME ConnAssumption ==
    /\ NoClient \notin Clients
    /\ MaxFd \in Nat \ {0}
    /\ MaxRequests \in Nat

Fds == 1..MaxFd

VARIABLES
    sock,           \* sock[k]: state of the server end of k's TCP connection
    backlog,        \* clients in the listen queue
    inbox,          \* inbox[k]: segments received by the kernel that nobody has read
    sent,           \* sent[k]: segments k has sent so far
    replies,        \* replies[k]: replies handed to the kernel for k
    fdTable,        \* fdTable[f]: whose socket the descriptor f denotes
    m_status,       \* m_status[k]: Connection::m_status, "none" before accept
    m_clientfd,     \* m_clientfd[k]: Connection::m_clientfd, 0 before accept
    freed,          \* Connection objects whose destructor has run
    g_connections,  \* the shared_ptr list of main.cpp
    unvisited,      \* what the sweep over g_connections has still to visit
    mainPc,         \* the main thread: "start", "create", "accept", "add", "sweep", or
                    \* "deaf" if nobody can connect
    mainCur,        \* the connection the main thread has just accepted
    m_connections,  \* the reactor's m_connections, filled by the main thread
    loopPc,         \* the loop thread
    loopCur,        \* the connection the loop thread is working on
    proc            \* "running", "killed" by a signal, or "undefined"

netVars  == <<sock, backlog, inbox, sent>>
connVars == <<m_status, m_clientfd, freed>>
mainVars == <<g_connections, unvisited, mainPc, mainCur, m_connections>>
connServerVars == <<netVars, replies, fdTable, connVars, mainVars,
                    loopPc, loopCur, proc>>

SockStates == {"idle", "established", "closeWait", "reset", "broken", "closed"}

ConnInit ==
    /\ sock = [k \in Clients |-> "idle"]
    /\ backlog = {}
    /\ inbox = [k \in Clients |-> 0]
    /\ sent = [k \in Clients |-> 0]
    /\ replies = [k \in Clients |-> 0]
    /\ fdTable = [f \in Fds |-> NoClient]
    /\ m_status = [k \in Clients |-> "none"]
    /\ m_clientfd = [k \in Clients |-> 0]
    /\ freed = {}
    /\ g_connections = {}
    /\ unvisited = {}
    /\ mainPc = "start"
    /\ mainCur = NoClient
    /\ m_connections = <<>>
    /\ loopPc = "wait"
    /\ loopCur = NoClient
    /\ proc = "running"

-----------------------------------------------------------------------------
(* The clients and the kernel's TCP.  A segment may hold part of a request *)
(* or several of them: requests have no framing.                           *)

\* Refused before listen() and for ever if it fails.
Connect(k) ==
    /\ sock[k] = "idle"
    /\ mainPc \notin {"start", "deaf"}
    /\ sock' = [sock EXCEPT ![k] = "established"]
    /\ backlog' = backlog \cup {k}
    /\ UNCHANGED <<inbox, sent>>

SendRequest(k) ==
    /\ sock[k] = "established"
    /\ sent[k] < MaxRequests
    /\ sent' = [sent EXCEPT ![k] = @ + 1]
    /\ inbox' = [inbox EXCEPT ![k] = @ + 1]
    /\ UNCHANGED <<sock, backlog>>

\* The client closes its end: a FIN follows everything it sent.
Disconnect(k) ==
    /\ sock[k] = "established"
    /\ sock' = [sock EXCEPT ![k] = "closeWait"]
    /\ UNCHANGED <<backlog, inbox, sent>>

\* A RST arrives.  Before the FIN the error left on the socket is ECONNRESET,
\* after it the error is EPIPE; data already queued stays readable.
PeerReset(k) ==
    /\ \/ /\ sock[k] = "established"
          /\ sock' = [sock EXCEPT ![k] = "reset"]
       \/ /\ sock[k] = "closeWait"
          /\ sock' = [sock EXCEPT ![k] = "broken"]
    /\ UNCHANGED <<backlog, inbox, sent>>

ClientStep ==
    /\ proc = "running"
    /\ \E k \in Clients :
          Connect(k) \/ SendRequest(k) \/ Disconnect(k) \/ PeerReset(k)
    /\ UNCHANGED <<replies, fdTable, connVars, mainVars, loopPc, loopCur, proc>>

\* Does the kernel report the socket of k as readable (data, FIN or error)?
Readable(k) == inbox[k] > 0 \/ sock[k] \in {"closeWait", "reset", "broken"}

-----------------------------------------------------------------------------
(* The main thread.                                                        *)

\* create(), serveReuseAddr(), bind(), listen().  main looks at no result: if one
\* of them has failed nobody ever connects, and main spins on an accept() that
\* fails or waits in one, with nothing to sweep.
Listen ==
    /\ mainPc = "start"
    /\ mainPc' \in {"create", "deaf"}
    /\ UNCHANGED <<netVars, replies, fdTable, connVars, g_connections, unvisited,
                   mainCur, m_connections, loopPc, loopCur, proc>>

\* createDetach() starts the loop thread, or throws what nobody catches.
CreateLoopThread ==
    /\ mainPc = "create"
    /\ \/ mainPc' = "accept" /\ UNCHANGED proc
       \/ proc' = "killed" /\ UNCHANGED mainPc
    /\ UNCHANGED <<netVars, replies, fdTable, connVars, g_connections, unvisited,
                   mainCur, m_connections, loopPc, loopCur>>

\* The descriptor accept() hands out: the lowest unused one.
LowestFree(f) ==
    /\ fdTable[f] = NoClient
    /\ \A g \in Fds : g < f => fdTable[g] # NoClient

\* accept(), the Connection and its entry in g_connections.  No other thread
\* can reach the new object before addConnection, so this is one step.
Accept ==
    /\ mainPc = "accept"
    /\ \E k \in backlog, f \in Fds :
          /\ LowestFree(f)
          /\ backlog' = backlog \ {k}
          /\ fdTable' = [fdTable EXCEPT ![f] = k]
          /\ m_status' = [m_status EXCEPT ![k] = "CONNECTED"]
          /\ m_clientfd' = [m_clientfd EXCEPT ![k] = f]
          /\ g_connections' = g_connections \cup {k}
          /\ mainCur' = k
    /\ mainPc' = "add"
    /\ UNCHANGED <<sock, inbox, sent, replies, freed, unvisited, m_connections,
                   loopPc, loopCur, proc>>

\* accept() returns -1, for want of a descriptor (then also with nothing to
\* accept) or because the connection was aborted: the loop body goes straight to
\* the sweep.
AcceptFails ==
    /\ mainPc = "accept"
    /\ backlog # {} \/ \A f \in Fds : fdTable[f] # NoClient
    /\ mainPc' = "sweep"
    /\ unvisited' = g_connections
    /\ UNCHANGED <<netVars, replies, fdTable, connVars, g_connections, mainCur,
                   m_connections, loopPc, loopCur, proc>>

\* What every addConnection leaves to the main thread; m_connections is the
\* reactor's.
AfterAdd ==
    /\ mainPc = "add"
    /\ mainPc' = "sweep"
    /\ unvisited' = g_connections
    /\ UNCHANGED <<netVars, replies, fdTable, connVars, g_connections, mainCur,
                   loopPc, loopCur, proc>>

\* Fault: the first connection that is kept ends the sweep.
SweepVisit_StopsAtKept ==
    /\ mainPc = "sweep"
    /\ \E k \in unvisited :
          \/ /\ m_status[k] = "CLOSED"
             /\ unvisited' = unvisited \ {k}
             /\ g_connections' = g_connections \ {k}
             /\ freed' = freed \cup {k}
          \/ /\ m_status[k] # "CLOSED"
             /\ unvisited' = {}
             /\ UNCHANGED <<g_connections, freed>>
    /\ UNCHANGED <<netVars, replies, fdTable, m_status, m_clientfd, mainPc,
                   mainCur, m_connections, loopPc, loopCur, proc>>

\* One iteration of the sweep.  Erasing the last shared_ptr destroys the
\* object; the destructor's closeConnection() returns at once on CLOSED.
SweepVisit ==
    /\ mainPc = "sweep"
    /\ \E k \in unvisited :
          /\ unvisited' = unvisited \ {k}
          /\ \/ /\ m_status[k] = "CLOSED"
                /\ g_connections' = g_connections \ {k}
                /\ freed' = freed \cup {k}
             \/ /\ m_status[k] # "CLOSED"
                /\ UNCHANGED <<g_connections, freed>>
    /\ UNCHANGED <<netVars, replies, fdTable, m_status, m_clientfd, mainPc,
                   mainCur, m_connections, loopPc, loopCur, proc>>

SweepEnd ==
    /\ mainPc = "sweep"
    /\ unvisited = {}
    /\ mainPc' = "accept"
    /\ UNCHANGED <<netVars, replies, fdTable, connVars, g_connections,
                   unvisited, mainCur, m_connections, loopPc, loopCur, proc>>

MainCommon ==
    \/ Listen \/ CreateLoopThread
    \/ Accept \/ AcceptFails \/ SweepVisit \/ SweepEnd

-----------------------------------------------------------------------------
(* Connection, run by the loop thread on loopCur.                          *)

\* The loop thread touches a destroyed object: from here on anything may
\* happen, and the model says nothing more.
Dangling ==
    /\ proc' = "undefined"
    /\ UNCHANGED <<netVars, replies, fdTable, connVars, mainVars,
                   loopPc, loopCur>>

\* Whose socket the calls of k's Connection act on: they name a descriptor.
Peer(k) == fdTable[m_clientfd[k]]

\* Has the loop thread been created?
LoopRuns == proc = "running" /\ mainPc \notin {"start", "create"}

\* recv() on k's descriptor has something to return.
HasData(k) == Peer(k) \in Clients /\ inbox[Peer(k)] > 0

\* Fault: the end of the connection is taken for "nothing to read".
ReadData_IgnoresEof(k) ==
    /\ loopCur' = k
    /\ \/ /\ m_status[k] # "CLOSED" /\ HasData(k)
          /\ inbox' = [inbox EXCEPT ![Peer(k)] = 0]
          /\ loopPc' = "send"
       \/ /\ m_status[k] = "CLOSED" \/ ~HasData(k)
          /\ loopPc' = "dispatch"
          /\ UNCHANGED inbox
    /\ UNCHANGED <<sock, backlog, sent, replies, fdTable, connVars, mainVars, proc>>

\* Fault: the end of the connection is looked at before what was sent ahead of it.
ReadData_HangupFirst(k) ==
    /\ loopCur' = k
    /\ LET hungUp == /\ Peer(k) \in Clients
                     /\ sock[Peer(k)] \in {"closeWait", "reset", "broken"} IN
          \/ /\ m_status[k] = "CLOSED"
             /\ loopPc' = "dispatch"
             /\ UNCHANGED inbox
          \/ /\ m_status[k] # "CLOSED" /\ HasData(k) /\ ~hungUp
             /\ inbox' = [inbox EXCEPT ![Peer(k)] = 0]
             /\ loopPc' = "send"
          \/ /\ m_status[k] # "CLOSED" /\ (hungUp \/ ~HasData(k))
             /\ loopPc' = "setClosed"
             /\ UNCHANGED inbox
    /\ UNCHANGED <<sock, backlog, sent, replies, fdTable, connVars, mainVars, proc>>

\* Fault: the early return on CLOSED is missing.
ReadData_NoStatusTest(k) ==
    /\ loopCur' = k
    /\ \/ /\ HasData(k)
          /\ inbox' = [inbox EXCEPT ![Peer(k)] = 0]
          /\ loopPc' = "send"
       \/ /\ ~HasData(k)
          /\ loopPc' = "setClosed"
          /\ UNCHANGED inbox
    /\ UNCHANGED <<sock, backlog, sent, replies, fdTable, connVars, mainVars, proc>>

\* readData() up to its recv(): return on CLOSED, close on 0 or -1, else reply.
\* recv() takes what fits into the buffer, be it half a request or several.
ReadData(k) ==
    /\ loopCur' = k
    /\ \/ /\ m_status[k] = "CLOSED"
          /\ loopPc' = "dispatch"
          /\ UNCHANGED inbox
       \/ /\ m_status[k] # "CLOSED"
          /\ HasData(k)
          /\ \E left \in 0..(inbox[Peer(k)] - 1) : inbox' = [inbox EXCEPT ![Peer(k)] = left]
          /\ loopPc' = "send"
       \/ /\ m_status[k] # "CLOSED"
          /\ ~HasData(k)
          /\ loopPc' = "setClosed"
          /\ UNCHANGED inbox
    /\ UNCHANGED <<sock, backlog, sent, replies, fdTable, connVars, mainVars,
                   proc>>

\* sendData(): a full socket buffer, a reset peer or a closed descriptor makes
\* send() return -1, which closes the connection; after FIN and RST send() raises
\* SIGPIPE.
SendData ==
    /\ loopPc = "send"
    /\ LET j == Peer(loopCur) IN
          \/ /\ j \in Clients
             /\ sock[j] \in {"established", "closeWait"}
             /\ replies' = [replies EXCEPT ![j] = @ + 1]
             /\ loopPc' = "dispatch"
             /\ UNCHANGED proc
          \/ /\ j \in Clients => sock[j] # "broken"
             /\ loopPc' = "sendFailed"
             /\ UNCHANGED <<replies, proc>>
          \/ /\ j \in Clients
             /\ sock[j] = "broken"
             /\ proc' = "killed"
             /\ UNCHANGED <<replies, loopPc>>
    /\ UNCHANGED <<netVars, fdTable, connVars, mainVars, loopCur>>

\* closeConnection(), called by readData() or sendData(), first statement: main's
\* sweep may free the object now.
SetClosed ==
    /\ loopPc \in {"setClosed", "sendFailed"}
    /\ m_status' = [m_status EXCEPT ![loopCur] = "CLOSED"]
    /\ loopPc' = "closeFd"
    /\ UNCHANGED <<netVars, replies, fdTable, m_clientfd, freed, mainVars,
                   loopCur, proc>>

\* Fault: the descriptor is never closed.
CloseFd_Skipped ==
    /\ loopPc = "closeFd"
    /\ loopCur \notin freed
    /\ loopPc' = "logClosed"
    /\ UNCHANGED <<netVars, replies, fdTable, connVars, mainVars, loopCur, proc>>

\* closeConnection(), second statement: reads m_clientfd and closes whatever
\* that descriptor denotes.  What was not read by now nobody will read.
CloseFd ==
    /\ loopPc = "closeFd"
    /\ loopCur \notin freed
    /\ LET f == m_clientfd[loopCur] IN
          /\ sock' = [k \in Clients |->
                         IF k = fdTable[f] THEN "closed" ELSE sock[k]]
          /\ fdTable' = [fdTable EXCEPT ![f] = NoClient]
    /\ loopPc' = "logClosed"
    /\ UNCHANGED <<backlog, inbox, sent, replies, connVars, mainVars, loopCur, proc>>

\* Fault: the descriptor is closed a second time.
LogClosed_ClosesAgain ==
    /\ loopPc = "logClosed"
    /\ loopCur \notin freed
    /\ LET f == m_clientfd[loopCur] IN
          /\ sock' = [k \in Clients |->
                         IF k = fdTable[f] THEN "closed" ELSE sock[k]]
          /\ fdTable' = [fdTable EXCEPT ![f] = NoClient]
    /\ loopPc' = "dispatch"
    /\ UNCHANGED <<backlog, inbox, sent, replies, connVars, mainVars, loopCur, proc>>

\* closeConnection(), last statement: reads m_clientfd once more for the log.
LogClosed ==
    /\ loopPc = "logClosed"
    /\ loopCur \notin freed
    /\ loopPc' = "dispatch"
    /\ UNCHANGED <<netVars, replies, fdTable, connVars, mainVars, loopCur, proc>>

CloseDangling ==
    /\ loopPc \in {"closeFd", "logClosed"}
    /\ loopCur \in freed
    /\ Dangling

\* The loop thread's steps that are the same under every reactor.
LoopCommon == SendData \/ SetClosed \/ LogClosed \/ CloseDangling

-----------------------------------------------------------------------------
(* State shared by the reactors' properties.                               *)

ConnTypeOK ==
    /\ sock \in [Clients -> SockStates]
    /\ backlog \subseteq Clients
    /\ inbox \in [Clients -> Nat]
    /\ sent \in [Clients -> 0..MaxRequests]
    /\ replies \in [Clients -> Nat]
    /\ fdTable \in [Fds -> Clients \cup {NoClient}]
    /\ m_status \in [Clients -> {"none", "CONNECTED", "CLOSED"}]
    /\ m_clientfd \in [Clients -> 0..MaxFd]
    /\ freed \subseteq Clients
    /\ g_connections \subseteq Clients
    /\ unvisited \subseteq Clients
    /\ mainPc \in {"start", "deaf", "create", "accept", "add", "sweep"}
    /\ mainCur \in Clients \cup {NoClient}
    /\ m_connections \in Seq(Clients)
    /\ loopCur \in Clients \cup {NoClient}
    /\ proc \in {"running", "killed", "undefined"}

\* Descriptor ownership (Connection.cpp:78-84 against accept's reuse of the
\* lowest descriptor): a CONNECTED connection owns the open descriptor it
\* names, and an open descriptor belongs to a connection that is CONNECTED or
\* that the loop thread is about to close.  Neither leaks nor is stolen.
FdOwnership ==
    /\ \A k \in Clients :
          m_status[k] = "CONNECTED" =>
             /\ m_clientfd[k] \in Fds
             /\ fdTable[m_clientfd[k]] = k
    /\ \A f \in Fds : fdTable[f] # NoClient =>
          /\ m_clientfd[fdTable[f]] = f
          /\ \/ m_status[fdTable[f]] = "CONNECTED"
             \/ loopPc = "closeFd" /\ loopCur = fdTable[f]

\* What the reader of main.cpp relies on (main.cpp:84-90): a connection that is
\* still CONNECTED is never destroyed, and one in g_connections is alive.
SweepSound ==
    /\ \A k \in freed : m_status[k] = "CLOSED"
    /\ g_connections \cap freed = {}

\* The connection in the loop thread's hands: still CONNECTED up to SetClosed,
\* then CLOSED but owner of its descriptor up to CloseFd.
LoopHolds ==
    /\ loopPc \in {"send", "sendFailed", "setClosed"} =>
          /\ loopCur \in Clients
          /\ m_status[loopCur] = "CONNECTED"
    /\ loopPc = "closeFd" =>
          /\ loopCur \in Clients
          /\ m_status[loopCur] = "CLOSED"
          /\ m_clientfd[loopCur] \in Fds
          /\ fdTable[m_clientfd[loopCur]] = loopCur

\* Between accept and addConnection only the main thread knows the connection.
MainHolds ==
    mainPc = "add" =>
       /\ mainCur \in Clients
       /\ m_status[mainCur] = "CONNECTED"
       /\ \A i \in DOMAIN m_connections : m_connections[i] # mainCur
       /\ loopPc \in {"send", "sendFailed", "setClosed"} => loopCur # mainCur

\* A connection is listed once, after it was accepted.
ListedOnce ==
    /\ \A i \in DOMAIN m_connections : m_status[m_connections[i]] # "none"
    /\ \A i, j \in DOMAIN m_connections :
          m_connections[i] = m_connections[j] => i = j

\* A client that is not accepted yet has no connection.
NotYetAccepted ==
    \A k \in Clients :
       /\ sock[k] = "idle" => m_status[k] = "none"
       /\ k \in backlog => m_status[k] = "none" /\ sock[k] # "idle"

\* What every reactor's inductive invariant contains.
ConnInv ==
    /\ ConnTypeOK
    /\ FdOwnership
    /\ SweepSound
    /\ LoopHolds
    /\ MainHolds
    /\ ListedOnce
    /\ NotYetAccepted

\* send() to k has failed: sendData() is about to close the connection, with
\* whatever k has sent and nobody has read (Connection.cpp:70-74).
SendFailed(k) == loopPc = "sendFailed" /\ loopCur = k

\* What the server does, seen by its clients: the loop thread attends to a client
\* from its recv() to the reply or the close().
Service == INSTANCE RequestService WITH
    link <- sock,
    duty <- CASE loopPc = "send" -> "answer"
              [] loopPc \in {"sendFailed", "setClosed", "closeFd"} -> "end"
              [] OTHER -> "none",
    whom <- IF loopPc \in {"send", "sendFailed", "setClosed", "closeFd"}
            THEN loopCur ELSE NoClient

\* Whatever descriptors are reused for and whatever main accepts and frees, no
\* client is read, answered or closed in another one's place, no answer answers
\* nothing, and nobody is closed who is still there, but for a failed send()
\* (Connection.cpp:22-84).
ImplementsService == Service!Spec

\* A CLOSED connection still in the list is destroyed once another client knocks:
\* the sweep of that round reaches it (main.cpp:66-97).
Swept ==
    \A k \in Clients :
       (m_status[k] = "CLOSED" /\ mainPc = "accept" /\ backlog # {})
          ~> (k \in freed \/ proc # "running")
=============================================================================
