------------------------------ MODULE SelectServer ------------------------------
(***************************************************************************)
(* The same server built on SelectLoop.  The loop copies the descriptor    *)
(* set and the vector under the lock, but then walks the shared vector,    *)
(* which the main thread may be growing.  No descriptor is ever removed    *)
(* from the set.                                                           *)
(***************************************************************************)
EXTENDS ConnServer

VARIABLES
    m_readFds,      \* SelectLoop::m_readFds
    m_maxFd,        \* SelectLoop::m_maxFd
    tempFds,        \* the loop thread's copy, then select()'s result
    pos,            \* the range-for's position in m_connections
    last            \* and its end, taken when the for began

selectVars == <<m_readFds, m_maxFd, tempFds, pos, last>>
selectServerVars == <<connServerVars, selectVars>>

SelectInit ==
    /\ ConnInit
    /\ m_readFds = {}
    /\ m_maxFd = 0
    /\ tempFds = {}
    /\ pos = 1
    /\ last = 0

\* Fault: m_maxFd is only set by the first connection.
SelectAddConnection_FirstFd ==
    /\ AfterAdd
    /\ m_readFds' = m_readFds \cup {m_clientfd[mainCur]}
    /\ m_maxFd' = IF m_maxFd = 0 THEN m_clientfd[mainCur] ELSE m_maxFd
    /\ m_connections' = Append(m_connections, mainCur)
    /\ UNCHANGED <<tempFds, pos, last>>

SelectAddConnection ==
    /\ AfterAdd
    /\ LET fd == m_clientfd[mainCur] IN
          /\ m_readFds' = m_readFds \cup {fd}
          /\ m_maxFd' = IF fd > m_maxFd THEN fd ELSE m_maxFd
    /\ m_connections' = Append(m_connections, mainCur)
    /\ UNCHANGED <<tempFds, pos, last>>

\* The copy under the lock.  currentMaxfd and tempConns are never used.
CopySet ==
    /\ loopPc = "wait"
    /\ tempFds' = m_readFds
    /\ loopPc' = "select"
    /\ UNCHANGED <<netVars, replies, fdTable, connVars, mainVars, loopCur, proc,
                   m_readFds, m_maxFd, pos, last>>

\* What select() looks at; its first argument is read without the lock.
Watched == {f \in tempFds : f <= m_maxFd}

ReadyFds == {f \in Watched : fdTable[f] # NoClient /\ Readable(fdTable[f])}

\* A closed descriptor in the set: EBADF, and the loop starts over.
SelectFails ==
    /\ loopPc = "select"
    /\ \E f \in Watched : fdTable[f] = NoClient
    /\ loopPc' = "wait"
    /\ UNCHANGED <<netVars, replies, fdTable, connVars, mainVars, loopCur, proc,
                   selectVars>>

SelectTimeout ==
    /\ loopPc = "select"
    /\ \A f \in Watched : fdTable[f] # NoClient
    /\ ReadyFds = {}
    /\ loopPc' = "wait"
    /\ UNCHANGED <<netVars, replies, fdTable, connVars, mainVars, loopCur, proc,
                   selectVars>>

\* Fault: select() is given m_readFds instead of a copy.
SelectReturns_NoCopy ==
    /\ loopPc = "select"
    /\ \A f \in Watched : fdTable[f] # NoClient
    /\ ReadyFds # {}
    /\ tempFds' = ReadyFds
    /\ m_readFds' = ReadyFds
    /\ pos' = 1
    /\ last' = Len(m_connections)
    /\ loopPc' = "dispatch"
    /\ UNCHANGED <<netVars, replies, fdTable, connVars, mainVars, loopCur, proc,
                   m_maxFd>>

SelectReturns ==
    /\ loopPc = "select"
    /\ \A f \in Watched : fdTable[f] # NoClient
    /\ ReadyFds # {}
    /\ tempFds' = ReadyFds
    /\ pos' = 1
    /\ last' = Len(m_connections)
    /\ loopPc' = "dispatch"
    /\ UNCHANGED <<netVars, replies, fdTable, connVars, mainVars, loopCur, proc,
                   m_readFds, m_maxFd>>

\* libstdc++ doubles a vector's capacity: the smallest power of two that holds
\* n elements.
CapacityFor(n) == CHOOSE c \in {0} \cup {2^e : e \in 0..n} :
                     /\ c >= n
                     /\ \A d \in {0} \cup {2^e : e \in 0..n} : d >= n => c <= d

\* push_back moved the elements since the for began: its iterators dangle.
Reallocated == CapacityFor(Len(m_connections)) # CapacityFor(last)

\* Fault: every connection is read, ready or not.
Visit_All ==
    /\ loopPc = "dispatch"
    /\ pos <= last
    /\ pos' = pos + 1
    /\ LET k == m_connections[pos] IN
          \/ /\ Reallocated \/ k \in freed
             /\ Dangling
          \/ /\ ~Reallocated /\ k \notin freed
             /\ ReadData(k)
    /\ UNCHANGED <<m_readFds, m_maxFd, tempFds, last>>

\* One element of the walk: getStatus(), getFd() and, if ready, readData().
Visit ==
    /\ loopPc = "dispatch"
    /\ pos <= last
    /\ pos' = pos + 1
    /\ LET k == m_connections[pos] IN
          \/ /\ Reallocated \/ k \in freed
             /\ Dangling
          \/ /\ ~Reallocated /\ k \notin freed
             /\ m_status[k] # "CLOSED" /\ m_clientfd[k] \in tempFds
             /\ ReadData(k)
          \/ /\ ~Reallocated /\ k \notin freed
             /\ m_status[k] = "CLOSED" \/ m_clientfd[k] \notin tempFds
             /\ UNCHANGED connServerVars
    /\ UNCHANGED <<m_readFds, m_maxFd, tempFds, last>>

WalkDone ==
    /\ loopPc = "dispatch"
    /\ pos > last
    /\ loopPc' = "wait"
    /\ UNCHANGED <<netVars, replies, fdTable, connVars, mainVars, loopCur, proc,
                   selectVars>>

SelectMainStep ==
    /\ proc = "running"
    /\ \/ MainCommon /\ UNCHANGED selectVars
       \/ SelectAddConnection

SelectLoopStep ==
    /\ LoopRuns
    /\ \/ CopySet
       \/ SelectFails
       \/ SelectTimeout
       \/ SelectReturns
       \/ Visit
       \/ WalkDone
       \/ (LoopCommon \/ CloseFd) /\ UNCHANGED selectVars

SelectNext ==
    \/ ClientStep /\ UNCHANGED selectVars
    \/ SelectMainStep
    \/ SelectLoopStep

SelectSpec == SelectInit /\ [][SelectNext]_selectServerVars

SelectFairSpec ==
    SelectSpec /\ WF_selectServerVars(SelectMainStep) /\ WF_selectServerVars(SelectLoopStep)

-----------------------------------------------------------------------------
SelectLoopPcs == {"wait", "select", "dispatch",
                  "send", "sendFailed", "setClosed", "closeFd", "logClosed"}

SelectTypeOK ==
    /\ ConnTypeOK
    /\ loopPc \in SelectLoopPcs
    /\ m_readFds \subseteq Fds
    /\ m_maxFd \in 0..MaxFd
    /\ tempFds \subseteq Fds
    /\ pos \in 1..(last + 1)
    /\ last \in 0..Len(m_connections)

\* select() is always told of every registered descriptor, although m_maxFd is
\* read after the lock is released (SelectLoop.cpp:85-102), and every CONNECTED
\* connection in the vector is in the set.
AllWatched ==
    /\ loopPc = "select" => Watched = tempFds
    /\ \A i \in DOMAIN m_connections :
          m_status[m_connections[i]] = "CONNECTED"
             => m_clientfd[m_connections[i]] \in m_readFds

\* m_maxFd bounds the set, and the copy is a part of it: nothing leaves either.
SetBounded ==
    /\ tempFds \subseteq m_readFds
    /\ \A f \in m_readFds : f <= m_maxFd

\* What select() reported stays true for the rest of the walk: nobody else reads
\* or closes the socket of a connection the walk has still to reach.
WalkReadable ==
    loopPc \notin {"wait", "select"} =>
       \A p \in pos..last :
          (/\ m_status[m_connections[p]] = "CONNECTED"
           /\ m_clientfd[m_connections[p]] \in tempFds)
             => Readable(m_connections[p])

SelectInv ==
    /\ SelectTypeOK
    /\ ConnInv
    /\ AllWatched
    /\ SetBounded
    /\ WalkReadable

Received(k) == inbox[k] > 0 /\ \E i \in DOMAIN m_connections : m_connections[i] = k

\* What SelectLoop provides while no connection ends: every segment of a watched
\* connection is read, unless the process dies first.
ServedIfNobodyLeaves ==
    [](\A k \in Clients : sock[k] \in {"idle", "established"})
       => \A k \in Clients : Received(k) ~> (inbox[k] = 0 \/ proc # "running")
=============================================================================
