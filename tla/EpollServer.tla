------------------------------ MODULE EpollServer ------------------------------
(***************************************************************************)
(* The server as main.cpp builds it: the main thread, the Connection       *)
(* objects and EpollLoop's thread.  The kernel binds each registered       *)
(* descriptor to the Connection pointer given at EPOLL_CTL_ADD and forgets *)
(* it when the descriptor is closed.                                       *)
(***************************************************************************)
EXTENDS ConnServer

CONSTANT MaxEvents      \* MAX_EVENTS: the longest batch epoll_wait returns

ASSUME EpollAssumption == MaxEvents \in Nat \ {0}

VARIABLES
    epollPtr,       \* epollPtr[f]: ev.data.ptr registered for descriptor f
    events          \* connections of the batch not yet dispatched

epollVars == <<epollPtr, events>>
epollServerVars == <<connServerVars, epollVars>>

EpollInit ==
    /\ ConnInit
    /\ epollPtr = [f \in Fds |-> NoClient]
    /\ events = {}

\* addConnection(): epoll_ctl may fail, and its caller ignores the result.
EpollAddConnection ==
    /\ AfterAdd
    /\ \/ /\ epollPtr' = [epollPtr EXCEPT ![m_clientfd[mainCur]] = mainCur]
          /\ m_connections' = Append(m_connections, mainCur)
       \/ UNCHANGED <<epollPtr, m_connections>>
    /\ UNCHANGED events

\* Connections whose registered descriptor is readable.
Ready == {k \in Clients :
             \E f \in Fds : /\ epollPtr[f] = k
                            /\ fdTable[f] # NoClient
                            /\ Readable(fdTable[f])}

\* epoll_wait returns a batch; a timeout changes nothing and is a stutter.
EpollWait ==
    /\ loopPc = "wait"
    /\ \E batch \in SUBSET Ready :
          /\ batch # {}
          /\ Cardinality(batch) <= MaxEvents
          /\ batch # Ready => Cardinality(batch) = MaxEvents
          /\ events' = batch
    /\ loopPc' = "dispatch"
    /\ UNCHANGED <<netVars, replies, fdTable, connVars, mainVars, loopCur, proc,
                   epollPtr>>

\* One event of the batch: getStatus(), then readData().
Dispatch ==
    /\ loopPc = "dispatch"
    /\ \E k \in events :
          /\ events' = events \ {k}
          /\ IF k \in freed THEN Dangling ELSE ReadData(k)
    /\ UNCHANGED epollPtr

BatchDone ==
    /\ loopPc = "dispatch"
    /\ events = {}
    /\ loopPc' = "wait"
    /\ UNCHANGED <<netVars, replies, fdTable, connVars, mainVars, loopCur, proc,
                   epollVars>>

\* Fault: the registration outlives the descriptor (as with a duplicated one).
EpollCloseFd_KeepsRegistration ==
    /\ CloseFd
    /\ UNCHANGED epollVars

\* close() also removes the descriptor from the epoll set.
EpollCloseFd ==
    /\ CloseFd
    /\ epollPtr' = [epollPtr EXCEPT ![m_clientfd[loopCur]] = NoClient]
    /\ UNCHANGED events

EpollMainStep ==
    /\ proc = "running"
    /\ \/ MainCommon /\ UNCHANGED epollVars
       \/ EpollAddConnection

EpollLoopStep ==
    /\ LoopRuns
    /\ \/ EpollWait
       \/ Dispatch
       \/ BatchDone
       \/ EpollCloseFd
       \/ LoopCommon /\ UNCHANGED epollVars

EpollNext ==
    \/ ClientStep /\ UNCHANGED epollVars
    \/ EpollMainStep
    \/ EpollLoopStep

EpollSpec == EpollInit /\ [][EpollNext]_epollServerVars

\* Neither thread stops: each is a loop around calls that return as soon as
\* there is work.  Nothing is assumed of the clients.
EpollFairSpec ==
    EpollSpec /\ WF_epollServerVars(EpollMainStep) /\ WF_epollServerVars(EpollLoopStep)

-----------------------------------------------------------------------------
EpollLoopPcs ==
    {"wait", "dispatch", "send", "sendFailed", "setClosed", "closeFd", "logClosed"}

EpollTypeOK ==
    /\ ConnTypeOK
    /\ loopPc \in EpollLoopPcs
    /\ epollPtr \in [Fds -> Clients \cup {NoClient}]
    /\ events \subseteq Clients

\* The pointer the kernel keeps for a descriptor is the connection that owns
\* the descriptor now (EpollLoop.cpp:44, 101): an event for a reused descriptor
\* never carries the previous connection.
EpollPointerCurrent ==
    \A f \in Fds : epollPtr[f] # NoClient => epollPtr[f] = fdTable[f]

\* Every event still to be dispatched points to a live, CONNECTED object that
\* is registered (EpollLoop.cpp:98-115), whatever main accepts and frees
\* meanwhile.
BatchFresh ==
    \A k \in events : /\ k \notin freed
                      /\ m_status[k] = "CONNECTED"
                      /\ epollPtr[m_clientfd[k]] = k

Registered(k) == \E f \in Fds : epollPtr[f] = k

\* A segment that reaches a registered connection is read (EpollLoop.cpp:67-116),
\* even if its client is gone by then; it is only given up unread if an answer to
\* the same client could not be sent, or if the process dies.
Served ==
    \A k \in Clients :
       (Registered(k) /\ m_status[k] = "CONNECTED" /\ inbox[k] > 0)
          ~> (inbox[k] = 0 \/ SendFailed(k) \/ proc # "running")

\* The descriptor of a registered connection whose client went away is given
\* back (Connection.cpp:35-39, 82), unless the process dies.
FdReleased ==
    \A k \in Clients :
       (Registered(k) /\ sock[k] \in {"closeWait", "reset", "broken"})
          ~> (sock[k] = "closed" \/ proc # "running")

-----------------------------------------------------------------------------
(* The facts that make the invariants above inductive, beside ConnInv.     *)

\* What the kernel reported stays true until the loop thread gets there: nobody
\* else reads or closes the socket of an event still to be dispatched.
EventsReadable == \A k \in events : Readable(k)

\* The batch is gone before the next epoll_wait, and the connection the loop
\* thread works on has left it.
BatchApart ==
    /\ loopPc = "wait" => events = {}
    /\ loopPc \in {"send", "sendFailed", "setClosed"} => loopCur \notin events

\* Between accept and addConnection no pointer to the connection is registered.
NotYetRegistered == mainPc = "add" => \A f \in Fds : epollPtr[f] # mainCur

EpollInv ==
    /\ EpollTypeOK
    /\ ConnInv
    /\ EpollPointerCurrent
    /\ BatchFresh
    /\ EventsReadable
    /\ BatchApart
    /\ NotYetRegistered

-----------------------------------------------------------------------------
(* A statement of the sources that the code does not keep.                 *)

\* EpollLoop.cpp:104: skipping CLOSED connections avoids wild pointers.  The
\* loop thread never touches a destroyed object.
NoWildPointer == proc # "undefined"
=============================================================================
