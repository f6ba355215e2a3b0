------------------------------- MODULE PollServer -------------------------------
(***************************************************************************)
(* The same server built on PollLoop.  The reactor keeps two parallel      *)
(* vectors that only ever grow; poll() works on a copy taken under the     *)
(* lock, and the connection of a ready descriptor is found by a search.    *)
(***************************************************************************)
EXTENDS ConnServer

VARIABLES
    m_pollFds,      \* PollLoop::m_pollFds, the descriptors
    tmpPollFds,     \* the loop thread's copies of m_pollFds
    tmpConns,       \* and of m_connections
    revents         \* indices of the copy with POLLIN, not yet scanned

pollVars == <<m_pollFds, tmpPollFds, tmpConns, revents>>
pollServerVars == <<connServerVars, pollVars>>

PollInit ==
    /\ ConnInit
    /\ m_pollFds = <<>>
    /\ tmpPollFds = <<>>
    /\ tmpConns = <<>>
    /\ revents = {}

\* Fault: a descriptor that is listed already is not listed again.
PollAddConnection_NoDuplicates ==
    /\ AfterAdd
    /\ m_pollFds' = IF \E i \in DOMAIN m_pollFds : m_pollFds[i] = m_clientfd[mainCur]
                    THEN m_pollFds
                    ELSE Append(m_pollFds, m_clientfd[mainCur])
    /\ m_connections' = Append(m_connections, mainCur)
    /\ UNCHANGED <<tmpPollFds, tmpConns, revents>>

PollAddConnection ==
    /\ AfterAdd
    /\ m_pollFds' = Append(m_pollFds, m_clientfd[mainCur])
    /\ m_connections' = Append(m_connections, mainCur)
    /\ UNCHANGED <<tmpPollFds, tmpConns, revents>>

\* The copy under the lock.
CopyLists ==
    /\ loopPc = "wait"
    /\ tmpPollFds' = m_pollFds
    /\ tmpConns' = m_connections
    /\ loopPc' = "poll"
    /\ UNCHANGED <<netVars, replies, fdTable, connVars, mainVars, loopCur, proc,
                   m_pollFds, revents>>

\* POLLNVAL: the descriptor is closed.
Invalid == {i \in DOMAIN tmpPollFds : fdTable[tmpPollFds[i]] = NoClient}

PollIn == {i \in DOMAIN tmpPollFds \ Invalid : Readable(fdTable[tmpPollFds[i]])}

\* Fault: a closed descriptor among those polled voids the whole call, as it does
\* for select().
PollReturns_VoidOnInvalid ==
    /\ loopPc = "poll"
    /\ PollIn \cup Invalid # {}
    /\ revents' = IF Invalid = {} THEN PollIn ELSE {}
    /\ loopPc' = "dispatch"
    /\ UNCHANGED <<netVars, replies, fdTable, connVars, mainVars, loopCur, proc,
                   m_pollFds, tmpPollFds, tmpConns>>

\* poll() counts every entry with an event, but only POLLIN is looked at.
PollReturns ==
    /\ loopPc = "poll"
    /\ PollIn \cup Invalid # {}
    /\ revents' = PollIn
    /\ loopPc' = "dispatch"
    /\ UNCHANGED <<netVars, replies, fdTable, connVars, mainVars, loopCur, proc,
                   m_pollFds, tmpPollFds, tmpConns>>

\* Five seconds without an event: only now is a new connection picked up.
PollTimeout ==
    /\ loopPc = "poll"
    /\ PollIn \cup Invalid = {}
    /\ loopPc' = "wait"
    /\ UNCHANGED <<netVars, replies, fdTable, connVars, mainVars, loopCur, proc,
                   pollVars>>

\* The search for the next ready descriptor calls getFd() on the connections in
\* order, up to the first with that descriptor.
Find ==
    /\ loopPc = "dispatch"
    /\ \E i \in revents :
          /\ \A h \in revents : i <= h
          /\ revents' = revents \ {i}
          /\ \E j \in DOMAIN tmpConns :
                /\ m_clientfd[tmpConns[j]] = tmpPollFds[i]
                /\ \A h \in 1..(j - 1) : m_clientfd[tmpConns[h]] # tmpPollFds[i]
                /\ IF \E h \in 1..j : tmpConns[h] \in freed
                   THEN Dangling
                   ELSE /\ loopCur' = tmpConns[j]
                        /\ loopPc' = "read"
                        /\ UNCHANGED <<netVars, replies, fdTable, connVars,
                                       mainVars, proc>>
    /\ UNCHANGED <<m_pollFds, tmpPollFds, tmpConns>>

\* readData() on the connection found; main may have freed it in between.
ReadFound ==
    /\ loopPc = "read"
    /\ IF loopCur \in freed THEN Dangling ELSE ReadData(loopCur)
    /\ UNCHANGED pollVars

ScanDone ==
    /\ loopPc = "dispatch"
    /\ revents = {}
    /\ loopPc' = "wait"
    /\ UNCHANGED <<netVars, replies, fdTable, connVars, mainVars, loopCur, proc,
                   pollVars>>

PollMainStep ==
    /\ proc = "running"
    /\ \/ MainCommon /\ UNCHANGED pollVars
       \/ PollAddConnection

PollLoopStep ==
    /\ LoopRuns
    /\ \/ CopyLists
       \/ PollReturns
       \/ PollTimeout
       \/ Find
       \/ ReadFound
       \/ ScanDone
       \/ (LoopCommon \/ CloseFd) /\ UNCHANGED pollVars

PollNext ==
    \/ ClientStep /\ UNCHANGED pollVars
    \/ PollMainStep
    \/ PollLoopStep

PollSpec == PollInit /\ [][PollNext]_pollServerVars

PollFairSpec ==
    PollSpec /\ WF_pollServerVars(PollMainStep) /\ WF_pollServerVars(PollLoopStep)

-----------------------------------------------------------------------------
PollLoopPcs == {"wait", "poll", "dispatch", "read",
                "send", "sendFailed", "setClosed", "closeFd", "logClosed"}

IsPrefixOf(s, t) == Len(s) <= Len(t) /\ s = SubSeq(t, 1, Len(s))

PollTypeOK ==
    /\ ConnTypeOK
    /\ loopPc \in PollLoopPcs
    /\ m_pollFds \in Seq(Fds)
    /\ tmpPollFds \in Seq(Fds)
    /\ tmpConns \in Seq(Clients)
    /\ revents \subseteq DOMAIN tmpPollFds

\* The two vectors stay parallel, for the loop's copy too, and hold a connection
\* at most once (PollLoop.cpp:39-40, 58-62): the search of a ready descriptor
\* always ends at some connection.
ListsParallel ==
    /\ Len(m_pollFds) = Len(m_connections)
    /\ \A i \in DOMAIN m_connections : m_pollFds[i] = m_clientfd[m_connections[i]]
    /\ \A i, j \in DOMAIN m_connections :
          m_connections[i] = m_connections[j] => i = j
    /\ IsPrefixOf(tmpPollFds, m_pollFds)
    /\ IsPrefixOf(tmpConns, m_connections)
    /\ Len(tmpPollFds) = Len(tmpConns)

\* Of two connections listed with one number the earlier is closed: the number
\* was free again when the later one was accepted.
EarlierClosed ==
    \A i, j \in DOMAIN m_connections :
       i < j /\ m_pollFds[i] = m_pollFds[j] => m_status[m_connections[i]] = "CLOSED"

\* What poll() reported stays true until the scan gets there: nobody else reads
\* or closes the socket of an entry still to be scanned.
ReventsReadable ==
    /\ loopPc \in {"wait", "poll"} => revents = {}
    /\ \A i \in revents :
          m_status[tmpConns[i]] = "CONNECTED" => Readable(tmpConns[i])

\* What the search has found is listed; if it is alive it is the readable one,
\* and the rest of the scan will not find it again.
FoundReadable ==
    loopPc = "read" =>
       /\ \E j \in DOMAIN tmpConns : tmpConns[j] = loopCur
       /\ m_status[loopCur] = "CONNECTED" =>
             /\ Readable(loopCur)
             /\ \A i \in revents : tmpConns[i] # loopCur

PollInv ==
    /\ PollTypeOK
    /\ ConnInv
    /\ ListsParallel
    /\ EarlierClosed
    /\ ReventsReadable
    /\ FoundReadable

\* The first entry for its descriptor: no earlier connection had it.
FirstUseOfFd(k) ==
    \E i \in DOMAIN m_connections :
       /\ m_connections[i] = k
       /\ \A h \in 1..(i - 1) : m_pollFds[h] # m_pollFds[i]

\* What PollLoop still provides: a segment that reaches a connection whose
\* descriptor is not a reused one is read (PollLoop.cpp:52-98), even if its client
\* is gone by then; it is only given up unread if an answer to the same client
\* could not be sent, or if the process dies.
FirstUseServed ==
    \A k \in Clients :
       (FirstUseOfFd(k) /\ m_status[k] = "CONNECTED" /\ inbox[k] > 0)
          ~> (inbox[k] = 0 \/ SendFailed(k) \/ proc # "running")
=============================================================================
