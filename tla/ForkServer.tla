------------------------------- MODULE ForkServer -------------------------------
(***************************************************************************)
(* TCP2fork/tcp_server.cpp: the parent accepts and forks, a child answers  *)
(* one message and exits, and the SIGCHLD handler reaps.  A client connects*)
(* at most once, so it names its connection and the child that serves it.  *)
(***************************************************************************)
EXTENDS Integers, Sequences, FiniteSets

CONSTANTS
    Clients,
    Parent,         \* the parent as a holder of descriptors
    NoClient,
    ForksMayFail    \* may fork() run out of processes?

ASSUME ForkAssumption ==
    /\ Parent \notin Clients /\ NoClient \notin Clients
    /\ ForksMayFail \in BOOLEAN

VARIABLES
    peer,           \* peer[k]: the client's end of the connection
    inbox,          \* clients whose message is in the kernel, not yet received
    answered,       \* clients to whose socket the answer was written
    backlog,        \* the listen queue
    listeners,      \* processes that have the listening socket open
    holders,        \* holders[k]: processes that have k's connection open
    parentPc,       \* "start", "accept", "fork", "close" (conn_fd) or "exited"
    conn,           \* the connection the parent is at
    child,          \* child[k]: the state of the process that serves k
    sigchld,        \* is a SIGCHLD pending for the parent?
    reaping         \* is sig_child running?

vars == <<peer, inbox, answered, backlog, listeners, holders, parentPc, conn,
          child, sigchld, reaping>>
network == <<peer, inbox, answered, backlog>>
parent == <<parentPc, conn, sigchld, reaping>>

ChildStates == {"none", "forked", "recv", "send", "close", "exit", "zombie", "reaped"}

Zombies == {k \in Clients : child[k] = "zombie"}

Init ==
    /\ peer = [k \in Clients |-> "idle"]
    /\ inbox = {}
    /\ answered = {}
    /\ backlog = <<>>
    /\ listeners = {}
    /\ holders = [k \in Clients |-> {}]
    /\ parentPc = "start"
    /\ conn = NoClient
    /\ child = [k \in Clients |-> "none"]
    /\ sigchld = FALSE
    /\ reaping = FALSE

-----------------------------------------------------------------------------
(* The clients.                                                            *)

\* Refused before the parent listens and once nobody listens any more.
Connect(k) ==
    /\ peer[k] = "idle"
    /\ \/ /\ listeners # {}
          /\ peer' = [peer EXCEPT ![k] = "connected"]
          /\ backlog' = Append(backlog, k)
       \/ /\ listeners = {}
          /\ peer' = [peer EXCEPT ![k] = "refused"]
          /\ UNCHANGED backlog
    /\ UNCHANGED <<inbox, answered>>

Send(k) ==
    /\ peer[k] = "connected"
    /\ peer' = [peer EXCEPT ![k] = "sent"]
    /\ inbox' = inbox \cup {k}
    /\ UNCHANGED <<answered, backlog>>

\* The client closes; what it sent can still be received, and a late answer may
\* end the child by SIGPIPE, which closes and exits as well.
Leave(k) ==
    /\ peer[k] \in {"connected", "sent"}
    /\ peer' = [peer EXCEPT ![k] = "left"]
    /\ UNCHANGED <<inbox, answered, backlog>>

ClientStep ==
    /\ \E k \in Clients : Connect(k) \/ Send(k) \/ Leave(k)
    /\ UNCHANGED <<listeners, holders, child, parent>>

\* The connections of the listen queue are reset when the last listener closes.
CloseListening(process) ==
    /\ listeners' = listeners \ {process}
    /\ \/ /\ listeners' # {}
          /\ UNCHANGED <<backlog, peer>>
       \/ /\ listeners' = {}
          /\ backlog' = <<>>
          /\ peer' = [k \in Clients |->
                         IF (\E i \in DOMAIN backlog : backlog[i] = k) /\ peer[k] # "left"
                         THEN "refused" ELSE peer[k]]

-----------------------------------------------------------------------------
(* The parent.  Its own steps wait while the signal handler runs.          *)

\* TCPServer(): socket, setsockopt, bind and listen, or the end if one of them fails.
Listen ==
    /\ parentPc = "start"
    /\ \/ listeners' = {Parent} /\ parentPc' = "accept"
       \/ parentPc' = "exited" /\ UNCHANGED listeners
    /\ UNCHANGED <<network, holders, conn, child, sigchld, reaping>>

\* On a closed listen_fd accept() fails at once and the loop spins: no step.
Accept ==
    /\ parentPc = "accept"
    /\ Parent \in listeners
    /\ backlog # <<>>
    /\ conn' = Head(backlog)
    /\ backlog' = Tail(backlog)
    /\ holders' = [holders EXCEPT ![Head(backlog)] = {Parent}]
    /\ parentPc' = "fork"
    /\ UNCHANGED <<peer, inbox, answered, listeners, child, sigchld, reaping>>

\* The child inherits both sockets.
Fork ==
    /\ parentPc = "fork"
    /\ child' = [child EXCEPT ![conn] = "forked"]
    /\ holders' = [holders EXCEPT ![conn] = @ \cup {conn}]
    /\ listeners' = listeners \cup {conn}
    /\ parentPc' = "close"
    /\ UNCHANGED <<network, conn, sigchld, reaping>>

\* fork() fails: the parent closes listen_fd, keeps conn_fd and goes on.
ForkFails ==
    /\ parentPc = "fork"
    /\ ForksMayFail
    /\ CloseListening(Parent)
    /\ parentPc' = "accept"
    /\ conn' = NoClient
    /\ UNCHANGED <<inbox, answered, holders, child, sigchld, reaping>>

\* Fault: the parent keeps the child's connection open.
CloseConn_Skipped ==
    /\ parentPc = "close"
    /\ parentPc' = "accept"
    /\ conn' = NoClient
    /\ UNCHANGED <<network, listeners, holders, child, sigchld, reaping>>

\* Fault: the parent shuts the connection down instead of closing its descriptor.
CloseConn_Shutdown ==
    /\ parentPc = "close"
    /\ holders' = [holders EXCEPT ![conn] = {}]
    /\ parentPc' = "accept"
    /\ conn' = NoClient
    /\ UNCHANGED <<network, listeners, child, sigchld, reaping>>

CloseConn ==
    /\ parentPc = "close"
    /\ holders' = [holders EXCEPT ![conn] = @ \ {Parent}]
    /\ parentPc' = "accept"
    /\ conn' = NoClient
    /\ UNCHANGED <<network, listeners, child, sigchld, reaping>>

ParentStep == ~reaping /\ (Listen \/ Accept \/ Fork \/ ForkFails \/ CloseConn)

\* SIGCHLD is delivered; it stays blocked until sig_child returns.
Deliver ==
    /\ sigchld /\ ~reaping
    /\ sigchld' = FALSE
    /\ reaping' = TRUE
    /\ UNCHANGED <<network, listeners, holders, parentPc, conn, child>>

\* Fault: one waitpid for every signal.
Reap_Once ==
    /\ reaping
    /\ \/ \E k \in Zombies : child' = [child EXCEPT ![k] = "reaped"]
       \/ Zombies = {} /\ UNCHANGED child
    /\ reaping' = FALSE
    /\ UNCHANGED <<network, listeners, holders, parentPc, conn, sigchld>>

\* One round of the waitpid loop.
Reap ==
    /\ reaping
    /\ \/ \E k \in Zombies : child' = [child EXCEPT ![k] = "reaped"] /\ UNCHANGED reaping
       \/ Zombies = {} /\ reaping' = FALSE /\ UNCHANGED child
    /\ UNCHANGED <<network, listeners, holders, parentPc, conn, sigchld>>

-----------------------------------------------------------------------------
(* The child that serves k.                                                *)

ChildGoto(k, from, to) ==
    /\ child[k] = from
    /\ child' = [child EXCEPT ![k] = to]

CloseListenFd(k) ==
    /\ ChildGoto(k, "forked", "recv")
    /\ CloseListening(k)
    /\ UNCHANGED <<inbox, answered, holders, parent>>

\* A message, or the end of the connection.
Recv(k) ==
    /\ \/ /\ k \in inbox
          /\ ChildGoto(k, "recv", "send")
          /\ inbox' = inbox \ {k}
       \/ /\ k \notin inbox /\ peer[k] = "left"
          /\ ChildGoto(k, "recv", "close")
          /\ UNCHANGED inbox
    /\ UNCHANGED <<peer, answered, backlog, listeners, holders, parent>>

Answer(k) ==
    /\ ChildGoto(k, "send", "close")
    /\ \/ answered' = answered \cup {k}
       \/ peer[k] = "left" /\ UNCHANGED answered
    /\ UNCHANGED <<peer, inbox, backlog, listeners, holders, parent>>

CloseConnFd(k) ==
    /\ ChildGoto(k, "close", "exit")
    /\ holders' = [holders EXCEPT ![k] = @ \ {k}]
    /\ UNCHANGED <<network, listeners, parent>>

Exit(k) ==
    /\ ChildGoto(k, "exit", "zombie")
    /\ sigchld' = TRUE
    /\ UNCHANGED <<network, listeners, holders, parentPc, conn, reaping>>

ChildStep(k) == CloseListenFd(k) \/ Recv(k) \/ Answer(k) \/ CloseConnFd(k) \/ Exit(k)

Next ==
    \/ ClientStep
    \/ ParentStep
    \/ Deliver
    \/ Reap
    \/ \E k \in Clients : ChildStep(k)

Spec == Init /\ [][Next]_vars

\* Parent and children run whenever they can, and a pending signal is delivered.
\* Nothing is assumed of the clients.
FairSpec ==
    /\ Spec
    /\ WF_vars(ParentStep) /\ WF_vars(Deliver) /\ WF_vars(Reap)
    /\ \A k \in Clients : WF_vars(ChildStep(k))

-----------------------------------------------------------------------------
TypeOK ==
    /\ peer \in [Clients -> {"idle", "connected", "sent", "left", "refused"}]
    /\ inbox \subseteq Clients
    /\ answered \subseteq Clients
    /\ backlog \in Seq(Clients)
    /\ listeners \subseteq Clients \cup {Parent}
    /\ holders \in [Clients -> SUBSET (Clients \cup {Parent})]
    /\ parentPc \in {"start", "accept", "fork", "close", "exited"}
    /\ conn \in Clients \cup {NoClient}
    /\ child \in [Clients -> ChildStates]
    /\ sigchld \in BOOLEAN
    /\ reaping \in BOOLEAN

\* A zombie is never forgotten, although any number of exits raise one pending
\* SIGCHLD (tcp_server.cpp:18-23): a signal is pending or the loop still runs.
NoZombieForgotten == Zombies # {} => sigchld \/ reaping

\* The connection fork() failed for: the parent has closed its listening socket and
\* holds this one for ever (tcp_server.cpp:105-110).
Abandoned(k) ==
    child[k] = "none" /\ Parent \in holders[k] /\ Parent \notin listeners

\* A connection is open in the child that serves it until that child closes it, and
\* in the parent only while the parent is between its accept() and its close(): what
\* the parent keeps beyond that is the connection its fork() failed for, one in a
\* lifetime, since the parent accepts no other.  A child that exits has closed all
\* it inherited (tcp_server.cpp:91-144).
DescriptorsPaired ==
    /\ \A k \in Clients :
          /\ holders[k] \subseteq {k, Parent}
          /\ k \in holders[k] <=> child[k] \in {"forked", "recv", "send", "close"}
          /\ Parent \in holders[k] => (parentPc \in {"fork", "close"} /\ conn = k) \/ Abandoned(k)
          /\ k \in listeners <=> child[k] = "forked"
    /\ \A j, k \in Clients : Abandoned(j) /\ Abandoned(k) => j = k

\* A client that has sent its message and waits is answered, sees the connection
\* end and leaves no process behind; or fork() failed for it or before it
\* (tcp_server.cpp:111-146).
ServedAndGone ==
    \A k \in Clients :
       peer[k] = "sent" ~>
          \/ k \in answered /\ holders[k] = {} /\ child[k] = "reaped"
          \/ peer[k] \in {"left", "refused"}
          \/ Parent \notin listeners

Queued(k) == \E i \in DOMAIN backlog : backlog[i] = k

\* A client that stays is queued, in the parent's hands or in its child's, which will
\* find its message; once heard it is answered before anybody closes.  Only a fork()
\* that failed for it or before it leaves it alone (tcp_server.cpp:104-146).
NobodyForgotten ==
    \A k \in Clients : peer[k] \in {"connected", "sent"} =>
       \/ /\ \/ Queued(k)
             \/ parentPc = "fork" /\ conn = k
             \/ child[k] \in {"forked", "recv"}
          /\ peer[k] = "sent" => k \in inbox
       \/ peer[k] = "sent" /\ child[k] = "send"
       \/ /\ peer[k] = "sent" /\ k \in answered
          /\ child[k] \in {"close", "exit", "zombie", "reaped"}
       \/ child[k] = "none" /\ Parent \notin listeners

\* How far the server is with k: its connection ends when the last process that has
\* it open closes it.
Stage(k) ==
    IF holders[k] # {}
    THEN CASE child[k] = "none" -> "taken"
           [] child[k] \in {"forked", "recv"} -> "served"
           [] child[k] = "send" -> "heard"
           [] OTHER -> "done"
    ELSE IF child[k] = "none" THEN "away" ELSE "over"

Service == INSTANCE OneAnswer WITH
    unread <- inbox,
    gone <- {k \in Clients : peer[k] = "left"},
    stage <- [k \in Clients |-> Stage(k)],
    answers <- [k \in Clients |-> IF k \in answered THEN 1 ELSE 0]

\* In whatever order parent and child close what both inherited, every client is
\* heard and answered once and its connection ends after that
\* (tcp_server.cpp:79-148).
ImplementsOneAnswer == Service!Spec

-----------------------------------------------------------------------------
(* The facts that make the invariants above inductive.                     *)

\* What the parent has in hand between accept() and its close(); it still listens.
\* Before that nobody has reached it.
ParentHolds ==
    /\ parentPc \in {"start", "exited"} =>
          /\ listeners = {}
          /\ \A k \in Clients : peer[k] \in {"idle", "refused"} /\ holders[k] = {}
    /\ parentPc \in {"fork", "close"} => Parent \in listeners
    /\ parentPc = "fork" =>
          conn \in Clients /\ child[conn] = "none" /\ holders[conn] = {Parent}
    /\ parentPc = "close" =>
          conn \in Clients /\ child[conn] # "none" /\ Parent \in holders[conn]

\* A client that has not been accepted is queued once at most, has no child and is
\* open nowhere.
NotYetAccepted ==
    /\ \A i, j \in DOMAIN backlog : backlog[i] = backlog[j] => i = j
    /\ \A i \in DOMAIN backlog :
          /\ peer[backlog[i]] # "idle"
          /\ child[backlog[i]] = "none" /\ holders[backlog[i]] = {}
    /\ \A k \in Clients :
          peer[k] = "idle" => child[k] = "none" /\ holders[k] = {}

\* A child answers before it closes, and no other process does.
AnsweredByChild ==
    \A k \in answered : child[k] \in {"close", "exit", "zombie", "reaped"}

\* A message in the kernel was sent.
SentBefore == \A k \in inbox : peer[k] \notin {"idle", "connected"}

IInv ==
    /\ TypeOK
    /\ NoZombieForgotten
    /\ DescriptorsPaired
    /\ ParentHolds
    /\ NotYetAccepted
    /\ AnsweredByChild
=============================================================================
