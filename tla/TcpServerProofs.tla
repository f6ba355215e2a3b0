---------------------------- MODULE TcpServerProofs ----------------------------
(***************************************************************************)
(* Safety of Project_TCPServer_Plus under each of its three reactors, for  *)
(* any set of clients, any number of descriptors and any batch size.  What *)
(* the main thread and the Connection do is the same under all three, so   *)
(* their lemmas come first and are stated about ConnServer alone; then     *)
(* each reactor adds its own part of the inductive invariant.              *)
(***************************************************************************)
EXTENDS EpollServer, PollServer, SelectServer, SequenceTheorems, TLAPS

USE ConnAssumption

-----------------------------------------------------------------------------
(* The main thread, the clients and the Connection, whatever the reactor.  *)

\* The elements of the reactor's vector are connections.
LEMMA ListedClients ==
    ConnTypeOK => \A i \in DOMAIN m_connections : m_connections[i] \in Clients
BY DEF ConnTypeOK

\* Everything that holds at the start of the program.
LEMMA ConnInitInductive == ConnInit => ConnInv
BY DEF ConnInit, ConnInv, ConnTypeOK, FdOwnership, SweepSound, LoopHolds,
       MainHolds, ListedOnce, NotYetAccepted, SockStates, Fds

\* The clients and the network disturb no fact the server relies on.
LEMMA ClientConn ==
    ASSUME ConnInv, ClientStep
    PROVE  ConnInv'
<1>1. PICK k \in Clients :
         Connect(k) \/ SendRequest(k) \/ Disconnect(k) \/ PeerReset(k)
  BY DEF ClientStep
<1> USE DEF ClientStep, connVars, mainVars, ConnInv
<1>2. ConnTypeOK'
  <2>1. CASE Connect(k) \/ Disconnect(k) \/ PeerReset(k)
    BY <2>1 DEF ConnTypeOK, SockStates, Connect, Disconnect, PeerReset
  <2>2. CASE SendRequest(k)
    <3>1. inbox \in [Clients -> Nat] /\ sent \in [Clients -> 0..MaxRequests]
      BY DEF ConnTypeOK
    <3>2. inbox' \in [Clients -> Nat] /\ sent' \in [Clients -> 0..MaxRequests]
      BY <2>2, <3>1 DEF SendRequest
    <3> QED BY <2>2, <3>2 DEF ConnTypeOK, SendRequest
  <2> QED BY <1>1, <2>1, <2>2
<1>3. FdOwnership' /\ SweepSound' /\ LoopHolds' /\ MainHolds' /\ ListedOnce'
  BY DEF FdOwnership, SweepSound, LoopHolds, MainHolds, ListedOnce
<1>4. NotYetAccepted'
  BY <1>1 DEF NotYetAccepted, ConnTypeOK, Connect, SendRequest, Disconnect,
              PeerReset
<1> QED BY <1>2, <1>3, <1>4

\* What a client does takes nothing from what the kernel has to report.
LEMMA ClientReadable ==
    ASSUME ConnInv, ClientStep, NEW j \in Clients, Readable(j)
    PROVE  Readable(j)'
<1>1. PICK k \in Clients :
         Connect(k) \/ SendRequest(k) \/ Disconnect(k) \/ PeerReset(k)
  BY DEF ClientStep
<1>2. inbox \in [Clients -> Nat] /\ sock \in [Clients -> SockStates]
  BY DEF ConnInv, ConnTypeOK
<1>3. \/ inbox' = inbox
      \/ sock' = sock /\ inbox' = [inbox EXCEPT ![k] = @ + 1]
  BY <1>1 DEF Connect, SendRequest, Disconnect, PeerReset
<1>4. inbox[j] > 0 => inbox'[j] > 0
  BY <1>2, <1>3
<1>5. sock[j] \in {"closeWait", "reset", "broken"} =>
         sock'[j] \in {"closeWait", "reset", "broken"}
  BY <1>1, <1>2 DEF Connect, SendRequest, Disconnect, PeerReset
<1> QED BY <1>4, <1>5 DEF Readable

\* accept() binds a new connection, of which nothing in the server knows, to a
\* descriptor that nobody has.
LEMMA AcceptsNew ==
    ASSUME ConnInv, Accept
    PROVE  \E k \in backlog, f \in Fds :
              /\ k \in Clients /\ m_status[k] = "none" /\ k \notin freed
              /\ \A i \in DOMAIN m_connections : m_connections[i] # k
              /\ \A g \in Fds : fdTable[g] # k
              /\ fdTable[f] = NoClient
              /\ fdTable' = [fdTable EXCEPT ![f] = k]
              /\ m_status' = [m_status EXCEPT ![k] = "CONNECTED"]
              /\ m_clientfd' = [m_clientfd EXCEPT ![k] = f]
              /\ g_connections' = g_connections \cup {k}
              /\ backlog' = backlog \ {k}
              /\ mainCur' = k
<1>1. PICK k \in backlog, f \in Fds :
         /\ fdTable[f] = NoClient
         /\ backlog' = backlog \ {k}
         /\ fdTable' = [fdTable EXCEPT ![f] = k]
         /\ m_status' = [m_status EXCEPT ![k] = "CONNECTED"]
         /\ m_clientfd' = [m_clientfd EXCEPT ![k] = f]
         /\ g_connections' = g_connections \cup {k}
         /\ mainCur' = k
  BY DEF Accept, LowestFree
<1> USE DEF ConnInv
<1>2. k \in Clients /\ m_status[k] = "none"
  BY DEF ConnTypeOK, NotYetAccepted
<1>3. k \notin freed
  BY <1>2 DEF SweepSound
<1>4. \A i \in DOMAIN m_connections : m_connections[i] # k
  BY <1>2 DEF ListedOnce
<1>5. \A g \in Fds : fdTable[g] # k
  BY <1>2 DEF FdOwnership, LoopHolds
<1> QED BY <1>1, <1>2, <1>3, <1>4, <1>5

\* accept() keeps every fact.
LEMMA AcceptConn ==
    ASSUME ConnInv, Accept
    PROVE  ConnInv'
<1>1. PICK k \in backlog, f \in Fds :
         /\ k \in Clients /\ m_status[k] = "none" /\ k \notin freed
         /\ \A i \in DOMAIN m_connections : m_connections[i] # k
         /\ \A g \in Fds : fdTable[g] # k
         /\ fdTable[f] = NoClient
         /\ fdTable' = [fdTable EXCEPT ![f] = k]
         /\ m_status' = [m_status EXCEPT ![k] = "CONNECTED"]
         /\ m_clientfd' = [m_clientfd EXCEPT ![k] = f]
         /\ g_connections' = g_connections \cup {k}
         /\ backlog' = backlog \ {k}
         /\ mainCur' = k
  BY AcceptsNew
<1>2. /\ mainPc' = "add" /\ k # NoClient
      /\ UNCHANGED <<sock, inbox, sent, replies, freed, unvisited, m_connections,
                     loopPc, loopCur, proc>>
  BY <1>1 DEF Accept
<1> USE DEF ConnInv
<1>3. ConnTypeOK'
  BY <1>1, <1>2 DEF ConnTypeOK, Fds
<1>4. FdOwnership'
  <2>1. ASSUME NEW j \in Clients, m_status'[j] = "CONNECTED"
        PROVE  m_clientfd'[j] \in Fds /\ fdTable'[m_clientfd'[j]] = j
    <3>1. CASE j = k
      BY <1>1, <3>1 DEF ConnTypeOK
    <3>2. CASE j # k
      BY <1>1, <1>2, <2>1, <3>2 DEF ConnTypeOK, FdOwnership
    <3> QED BY <3>1, <3>2
  <2>2. ASSUME NEW g \in Fds, fdTable'[g] # NoClient
        PROVE  /\ m_clientfd'[fdTable'[g]] = g
               /\ \/ m_status'[fdTable'[g]] = "CONNECTED"
                  \/ loopPc' = "closeFd" /\ loopCur' = fdTable'[g]
    BY <1>1, <1>2, <2>2 DEF ConnTypeOK, FdOwnership
  <2> QED BY <2>1, <2>2 DEF FdOwnership
<1>5. SweepSound' /\ LoopHolds'
  BY <1>1, <1>2 DEF ConnTypeOK, SweepSound, LoopHolds
<1>6. MainHolds'
  BY <1>1, <1>2 DEF ConnTypeOK, MainHolds, LoopHolds
<1>7. ListedOnce'
  BY <1>1, <1>2 DEF ConnTypeOK, ListedOnce
<1>8. NotYetAccepted'
  BY <1>1, <1>2 DEF ConnTypeOK, NotYetAccepted
<1> QED BY <1>3, <1>4, <1>5, <1>6, <1>7, <1>8

\* addConnection() lists the connection just accepted, or fails to.
LEMMA AddConn ==
    ASSUME ConnInv, AfterAdd,
           \/ m_connections' = Append(m_connections, mainCur)
           \/ UNCHANGED m_connections
    PROVE  ConnInv'
<1> USE DEF AfterAdd, netVars, connVars, ConnInv
<1>1. ConnTypeOK' /\ ListedOnce'
  <2>1. CASE m_connections' = Append(m_connections, mainCur)
    <3>1. mainCur \in Clients /\ m_connections \in Seq(Clients)
      BY DEF MainHolds, ConnTypeOK
    <3>2. /\ m_connections' \in Seq(Clients)
          /\ Len(m_connections') = Len(m_connections) + 1
          /\ \A i \in 1..Len(m_connections) : m_connections'[i] = m_connections[i]
          /\ m_connections'[Len(m_connections) + 1] = mainCur
      BY <2>1, <3>1, AppendProperties
    <3>3. ConnTypeOK'
      BY <3>2 DEF ConnTypeOK
    <3>4. \A i \in DOMAIN m_connections' :
             \/ i \in DOMAIN m_connections /\ m_connections'[i] = m_connections[i]
             \/ i = Len(m_connections) + 1 /\ m_connections'[i] = mainCur
      BY <3>1, <3>2
    <3>5. ListedOnce'
      BY <3>4 DEF ListedOnce, MainHolds
    <3> QED BY <3>3, <3>5
  <2>2. CASE UNCHANGED m_connections
    BY <2>2 DEF ConnTypeOK, ListedOnce
  <2> QED BY <2>1, <2>2
<1>2. FdOwnership' /\ SweepSound' /\ LoopHolds' /\ MainHolds' /\ NotYetAccepted'
  BY DEF FdOwnership, SweepSound, LoopHolds, MainHolds, NotYetAccepted
<1> QED BY <1>1, <1>2

\* The sweep frees CLOSED connections only, and the other steps of the main
\* thread move its program counter.
LEMMA SweepConn ==
    ASSUME ConnInv,
           Listen \/ CreateLoopThread \/ AcceptFails \/ SweepVisit \/ SweepEnd
    PROVE  ConnInv'
<1> USE DEF Listen, CreateLoopThread, AcceptFails, SweepVisit, SweepEnd, netVars,
            connVars, ConnInv
<1>1. ConnTypeOK'
  BY DEF ConnTypeOK
<1>2. FdOwnership' /\ LoopHolds' /\ MainHolds' /\ ListedOnce' /\ NotYetAccepted'
  BY DEF FdOwnership, LoopHolds, MainHolds, ListedOnce, NotYetAccepted
<1>3. SweepSound'
  BY DEF SweepSound, ConnTypeOK
<1> QED BY <1>1, <1>2, <1>3

\* readData() of a connection that main has handed over takes it into the loop
\* thread's hands if it is alive, and lets go of it if it is closed.
LEMMA ReadDataConn ==
    ASSUME ConnInv, NEW k \in Clients, ReadData(k), m_status[k] # "none",
           loopPc # "closeFd", mainPc = "add" => k # mainCur
    PROVE  ConnInv'
<1> USE DEF ReadData, connVars, mainVars, ConnInv
<1>1. ConnTypeOK'
  <2>1. inbox \in [Clients -> Nat]
    BY DEF ConnTypeOK
  <2>2. CASE HasData(k)
    <3>1. inbox[Peer(k)] \in Nat /\ inbox[Peer(k)] > 0
      BY <2>1, <2>2 DEF HasData
    <3>2. \A left \in 0..(inbox[Peer(k)] - 1) : left \in Nat
      BY <3>1
    <3> QED BY <2>1, <3>2 DEF ConnTypeOK
  <2>3. CASE ~HasData(k)
    BY <2>3 DEF ConnTypeOK
  <2> QED BY <2>2, <2>3
<1>2. FdOwnership' /\ SweepSound' /\ ListedOnce' /\ NotYetAccepted'
  BY DEF FdOwnership, SweepSound, ListedOnce, NotYetAccepted
<1>3. LoopHolds' /\ MainHolds'
  BY DEF ConnTypeOK, LoopHolds, MainHolds
<1> QED BY <1>1, <1>2, <1>3

\* readData() of a live connection reads that connection's socket only.
LEMMA ReadDataReadable ==
    ASSUME ConnInv, NEW k \in Clients, ReadData(k), m_status[k] # "none",
           NEW j \in Clients, Readable(j), j # k
    PROVE  Readable(j)'
<1>1. CASE m_status[k] = "CLOSED"
  BY <1>1 DEF ReadData, Readable
<1>2. CASE m_status[k] = "CONNECTED"
  <2>1. Peer(k) = k
    BY <1>2 DEF Peer, ConnInv, FdOwnership
  <2> QED BY <1>2, <2>1 DEF ReadData, Readable, ConnInv, ConnTypeOK
<1> QED BY <1>1, <1>2 DEF ConnInv, ConnTypeOK

\* A step in which the loop thread only moves on, holding nothing.
LEMMA LoopMovesConn ==
    ASSUME ConnInv, UNCHANGED <<netVars, replies, fdTable, connVars, mainVars>>,
           loopPc # "closeFd",
           loopPc' \notin {"send", "sendFailed", "setClosed", "closeFd"},
           loopCur' \in Clients \cup {NoClient}, proc' \in {proc, "undefined"}
    PROVE  ConnInv'
<1> USE DEF netVars, connVars, mainVars, ConnInv
<1>1. ConnTypeOK'
  BY DEF ConnTypeOK
<1>2. FdOwnership' /\ SweepSound' /\ LoopHolds' /\ MainHolds' /\ ListedOnce'
         /\ NotYetAccepted'
  BY DEF FdOwnership, SweepSound, LoopHolds, MainHolds, ListedOnce, NotYetAccepted
<1> QED BY <1>1, <1>2

\* Marking a connection CLOSED leaves its descriptor to the CloseFd that follows.
LEMMA SetClosedConn ==
    ASSUME ConnInv, SetClosed
    PROVE  ConnInv'
<1> USE DEF SetClosed, netVars, mainVars, ConnInv
<1>1. loopCur \in Clients /\ m_status[loopCur] = "CONNECTED"
  BY DEF LoopHolds
<1>2. ConnTypeOK' /\ SweepSound'
  BY <1>1 DEF ConnTypeOK, SweepSound
<1>3. FdOwnership'
  BY <1>1 DEF ConnTypeOK, FdOwnership
<1>4. LoopHolds' /\ MainHolds'
  BY <1>1 DEF ConnTypeOK, LoopHolds, MainHolds, FdOwnership
<1>5. ListedOnce' /\ NotYetAccepted'
  BY <1>1 DEF ConnTypeOK, ListedOnce, NotYetAccepted
<1> QED BY <1>2, <1>3, <1>4, <1>5

\* close() ends exactly the connection it was called for.
LEMMA CloseFdConn ==
    ASSUME ConnInv, CloseFd
    PROVE  ConnInv'
<1> USE DEF CloseFd, connVars, mainVars, ConnInv
<1>1. /\ loopCur \in Clients /\ loopCur # NoClient
      /\ m_status[loopCur] = "CLOSED"
      /\ m_clientfd[loopCur] \in Fds /\ fdTable[m_clientfd[loopCur]] = loopCur
  BY DEF LoopHolds
<1>2. ConnTypeOK'
  BY <1>1 DEF ConnTypeOK, SockStates
<1>3. FdOwnership'
  BY <1>1 DEF ConnTypeOK, FdOwnership
<1>4. SweepSound' /\ LoopHolds' /\ MainHolds' /\ ListedOnce'
  BY <1>1 DEF SweepSound, LoopHolds, MainHolds, ListedOnce
<1>5. NotYetAccepted'
  BY <1>1 DEF ConnTypeOK, NotYetAccepted
<1> QED BY <1>2, <1>3, <1>4, <1>5

\* close() leaves every other client's socket as it is.
LEMMA CloseFdReadable ==
    ASSUME ConnInv, CloseFd, NEW j \in Clients, Readable(j), m_status[j] = "CONNECTED"
    PROVE  Readable(j)'
BY DEF CloseFd, Readable, ConnInv, ConnTypeOK, LoopHolds

\* The loop thread's other steps change no connection.
LEMMA LoopRestConn ==
    ASSUME ConnInv, SendData \/ LogClosed \/ CloseDangling
    PROVE  ConnInv'
<1> USE DEF SendData, LogClosed, CloseDangling, Dangling, netVars, connVars,
            mainVars, ConnInv
<1>1. ConnTypeOK'
  <2>1. replies \in [Clients -> Nat] /\ proc \in {"running", "killed", "undefined"}
    BY DEF ConnTypeOK
  <2>2. replies' \in [Clients -> Nat]
    BY <2>1
  <2>3. proc' \in {"running", "killed", "undefined"}
    BY <2>1
  <2> QED BY <2>2, <2>3 DEF ConnTypeOK
<1>2. FdOwnership' /\ SweepSound' /\ LoopHolds' /\ MainHolds' /\ ListedOnce'
         /\ NotYetAccepted'
  BY DEF FdOwnership, SweepSound, LoopHolds, MainHolds, ListedOnce, NotYetAccepted
<1> QED BY <1>1, <1>2

\* A step that changes nothing keeps every fact.
LEMMA StutterConn ==
    ASSUME ConnInv, UNCHANGED connServerVars
    PROVE  ConnInv'
<1> USE DEF connServerVars, netVars, connVars, mainVars, ConnInv
<1>1. ConnTypeOK'
  BY DEF ConnTypeOK
<1>2. FdOwnership' /\ SweepSound' /\ LoopHolds' /\ MainHolds' /\ ListedOnce'
         /\ NotYetAccepted'
  BY DEF FdOwnership, SweepSound, LoopHolds, MainHolds, ListedOnce, NotYetAccepted
<1> QED BY <1>1, <1>2

\* Every step of the loop thread that is the same under each reactor.
LEMMA LoopCommonConn ==
    ASSUME ConnInv, LoopCommon \/ CloseFd
    PROVE  ConnInv'
BY SetClosedConn, CloseFdConn, LoopRestConn DEF LoopCommon

-----------------------------------------------------------------------------
(* The same steps as steps of RequestService.                              *)

\* The program starts as the service does.
LEMMA ConnInitRefines == ConnInit => Service!Init
BY DEF ConnInit, Service!Init

\* What a client does is a move of that client in the service too.
LEMMA ClientRefines ==
    ASSUME ClientStep
    PROVE  [Service!Next]_Service!serviceVars
<1>1. PICK k \in Clients :
         Connect(k) \/ SendRequest(k) \/ Disconnect(k) \/ PeerReset(k)
  BY DEF ClientStep
<1>2. Service!ClientMoves(k)
  BY <1>1 DEF ClientStep, Connect, SendRequest, Disconnect, PeerReset,
              Service!ClientMoves
<1> QED BY <1>2 DEF Service!Next

\* Nothing the main thread does shows.
LEMMA MainRefines ==
    ASSUME MainCommon \/ AfterAdd
    PROVE  UNCHANGED Service!serviceVars
BY DEF MainCommon, Listen, CreateLoopThread, Accept, AcceptFails, SweepVisit,
       SweepEnd, AfterAdd, netVars, Service!serviceVars

\* The loop thread moving on with nothing in its hands does not show either.
LEMMA LoopMovesRefines ==
    ASSUME UNCHANGED <<sock, inbox, replies>>,
           loopPc \notin {"send", "sendFailed", "setClosed", "closeFd"},
           loopPc' \notin {"send", "sendFailed", "setClosed", "closeFd"}
    PROVE  UNCHANGED Service!serviceVars
BY DEF Service!serviceVars

\* readData() of a connection that is closed, or about which the kernel has
\* something to report, reads that client, finds it gone, or does nothing.
LEMMA ReadDataRefines ==
    ASSUME ConnInv, NEW k \in Clients, ReadData(k), m_status[k] # "none",
           loopPc \notin {"send", "sendFailed", "setClosed", "closeFd"},
           m_status[k] = "CONNECTED" => Readable(k)
    PROVE  [Service!Next]_Service!serviceVars
<1>1. CASE m_status[k] = "CLOSED"
  BY <1>1, LoopMovesRefines DEF ReadData
<1>2. CASE m_status[k] = "CONNECTED"
  <2>1. Peer(k) = k /\ Readable(k) /\ inbox[k] \in Nat
    BY <1>2 DEF Peer, ConnInv, FdOwnership, ConnTypeOK
  <2>2. CASE HasData(k)
    <3>1. Service!Read(k)
      BY <1>2, <2>1, <2>2 DEF ReadData, HasData, Service!Read
    <3> QED BY <3>1 DEF Service!Next
  <2>3. CASE ~HasData(k)
    <3>1. Service!NoticeEnd(k)
      BY <1>2, <2>1, <2>3 DEF ReadData, HasData, Readable, Service!NoticeEnd,
                              Service!Gone
    <3> QED BY <3>1 DEF Service!Next
  <2> QED BY <2>2, <2>3
<1> QED BY <1>1, <1>2 DEF ConnInv, ConnTypeOK

\* sendData() answers the client that was read, or gives it up.
LEMMA SendRefines ==
    ASSUME ConnInv, SendData
    PROVE  [Service!Next]_Service!serviceVars
<1>1. /\ loopPc = "send" /\ loopCur \in Clients /\ Peer(loopCur) = loopCur
  BY DEF SendData, ConnInv, LoopHolds, FdOwnership, Peer
<1>2. CASE Service!Answer(loopCur) \/ Service!AnswerFails(loopCur)
  BY <1>1, <1>2 DEF Service!Next
<1>3. CASE UNCHANGED Service!serviceVars
  BY <1>3
<1>4. \/ Service!Answer(loopCur) \/ Service!AnswerFails(loopCur)
      \/ UNCHANGED Service!serviceVars
  BY <1>1 DEF SendData, netVars, Service!Answer, Service!AnswerFails,
              Service!serviceVars
<1> QED BY <1>2, <1>3, <1>4

\* close() ends the client it is meant for.
LEMMA CloseRefines ==
    ASSUME ConnInv, CloseFd
    PROVE  [Service!Next]_Service!serviceVars
<1>1. /\ loopPc = "closeFd" /\ loopCur \in Clients
      /\ fdTable[m_clientfd[loopCur]] = loopCur
  BY DEF CloseFd, ConnInv, LoopHolds
<1>2. Service!End(loopCur)
  BY <1>1 DEF CloseFd, ConnInv, ConnTypeOK, Service!End
<1> QED BY <1>1, <1>2 DEF Service!Next

\* Every step of the loop thread that is the same under each reactor.
LEMMA LoopCommonRefines ==
    ASSUME ConnInv, LoopCommon \/ CloseFd
    PROVE  [Service!Next]_Service!serviceVars
<1>1. CASE SetClosed \/ LogClosed \/ CloseDangling
  BY <1>1 DEF SetClosed, LogClosed, CloseDangling, Dangling, netVars,
              Service!serviceVars
<1> QED BY <1>1, SendRefines, CloseRefines DEF LoopCommon

-----------------------------------------------------------------------------
(* EpollServer.                                                            *)

\* Everything that holds at the start of the program.
LEMMA EpollInitInductive == EpollInit => EpollInv
BY ConnInitInductive
   DEF EpollInit, ConnInit, EpollInv, EpollTypeOK, ConnInv, EpollLoopPcs,
       EpollPointerCurrent, BatchFresh, EventsReadable, BatchApart,
       NotYetRegistered

\* The clients and the network disturb no fact the server relies on.
LEMMA EpollClientInductive ==
    ASSUME EpollInv, ClientStep, UNCHANGED epollVars
    PROVE  EpollInv'
<1> USE DEF ClientStep, epollVars, connVars, mainVars, EpollInv
<1>1. ConnInv' /\ EpollTypeOK'
  BY ClientConn DEF EpollTypeOK, ConnInv
<1>2. EpollPointerCurrent' /\ BatchFresh' /\ BatchApart' /\ NotYetRegistered'
  BY DEF EpollPointerCurrent, BatchFresh, BatchApart, NotYetRegistered
<1>3. EventsReadable'
  BY ClientReadable DEF EventsReadable, EpollTypeOK
<1> QED BY <1>1, <1>2, <1>3

\* accept(): the lowest free descriptor is nobody's, so it is registered for
\* nobody, and the new connection is known to the main thread only.
LEMMA EpollAcceptInductive ==
    ASSUME EpollInv, Accept, UNCHANGED epollVars
    PROVE  EpollInv'
<1> USE DEF EpollInv, epollVars
<1>1. PICK k \in backlog, f \in Fds :
         /\ k \in Clients /\ m_status[k] = "none" /\ k \notin freed
         /\ \A g \in Fds : fdTable[g] # k
         /\ fdTable[f] = NoClient
         /\ fdTable' = [fdTable EXCEPT ![f] = k]
         /\ m_status' = [m_status EXCEPT ![k] = "CONNECTED"]
         /\ m_clientfd' = [m_clientfd EXCEPT ![k] = f]
         /\ mainCur' = k
  BY AcceptsNew
<1>2. UNCHANGED <<sock, inbox, freed, loopPc, loopCur, epollPtr, events>> /\ k # NoClient
  BY <1>1 DEF Accept
<1>3. ConnInv' /\ EpollTypeOK'
  BY <1>2, AcceptConn DEF EpollTypeOK, ConnInv
<1>4. EpollPointerCurrent' /\ BatchFresh'
  BY <1>1, <1>2 DEF EpollTypeOK, ConnTypeOK, EpollPointerCurrent, BatchFresh
<1>5. EventsReadable' /\ BatchApart'
  BY <1>2 DEF EventsReadable, Readable, BatchApart
<1>6. NotYetRegistered'
  BY <1>1, <1>2 DEF EpollPointerCurrent, NotYetRegistered
<1> QED BY <1>3, <1>4, <1>5, <1>6

\* Registering the connection just accepted, or failing to.
LEMMA EpollAddInductive ==
    ASSUME EpollInv, EpollAddConnection
    PROVE  EpollInv'
<1> USE DEF EpollAddConnection, AfterAdd, netVars, connVars, EpollInv
<1>1. /\ mainCur \in Clients /\ mainCur # NoClient
      /\ m_status[mainCur] = "CONNECTED"
      /\ m_clientfd[mainCur] \in Fds
      /\ fdTable[m_clientfd[mainCur]] = mainCur
  BY DEF ConnInv, MainHolds, FdOwnership
<1>2. ConnInv' /\ EpollTypeOK'
  BY <1>1, AddConn DEF EpollTypeOK, ConnInv
<1>3. EpollPointerCurrent'
  BY <1>1 DEF EpollTypeOK, EpollPointerCurrent
<1>4. BatchFresh' /\ EventsReadable' /\ BatchApart' /\ NotYetRegistered'
  BY <1>1 DEF EpollTypeOK, ConnInv, BatchFresh, FdOwnership, NotYetRegistered,
              EventsReadable, Readable, BatchApart
<1> QED BY <1>2, <1>3, <1>4

\* The sweep and the failing accept touch nothing of a live connection.
LEMMA EpollSweepInductive ==
    ASSUME EpollInv, UNCHANGED epollVars,
           Listen \/ CreateLoopThread \/ AcceptFails \/ SweepVisit \/ SweepEnd
    PROVE  EpollInv'
<1> USE DEF Listen, CreateLoopThread, AcceptFails, SweepVisit, SweepEnd, netVars,
            connVars, epollVars, EpollInv
<1>1. ConnInv' /\ EpollTypeOK'
  BY SweepConn DEF EpollTypeOK, ConnInv
<1>2. EpollPointerCurrent' /\ EventsReadable' /\ BatchApart' /\ NotYetRegistered'
  BY DEF EpollPointerCurrent, EventsReadable, Readable, BatchApart, NotYetRegistered
<1>3. BatchFresh'
  BY DEF BatchFresh
<1> QED BY <1>1, <1>2, <1>3

\* epoll_wait takes its batch from registered descriptors, and what is
\* registered is connected while no close is under way.
LEMMA EpollWaitInductive ==
    ASSUME EpollInv, EpollWait
    PROVE  EpollInv'
<1> USE DEF EpollWait, netVars, connVars, mainVars, EpollInv
<1>1. events' \subseteq Ready
  OBVIOUS
<1>2. \A k \in Ready : /\ k \in Clients
                       /\ m_status[k] = "CONNECTED"
                       /\ epollPtr[m_clientfd[k]] = k
                       /\ Readable(k)
  BY DEF Ready, EpollPointerCurrent, ConnInv, FdOwnership
<1>3. ConnInv'
  BY LoopMovesConn DEF ConnInv, ConnTypeOK
<1>4. EpollTypeOK' /\ EpollPointerCurrent' /\ BatchApart' /\ NotYetRegistered'
  BY <1>1, <1>2, <1>3 DEF EpollTypeOK, ConnInv, EpollLoopPcs, EpollPointerCurrent,
                          BatchApart, NotYetRegistered
<1>5. BatchFresh' /\ EventsReadable'
  BY <1>1, <1>2 DEF BatchFresh, ConnInv, SweepSound, EventsReadable, Readable
<1> QED BY <1>3, <1>4, <1>5

\* An event that is dispatched hands a connected connection to the loop thread.
LEMMA DispatchesLive ==
    ASSUME EpollInv, Dispatch
    PROVE  \E k \in events : /\ events' = events \ {k}
                             /\ k \in Clients
                             /\ k \notin freed
                             /\ m_status[k] = "CONNECTED"
                             /\ epollPtr[m_clientfd[k]] = k
                             /\ m_clientfd[k] \in Fds
                             /\ Readable(k)
                             /\ ReadData(k)
BY DEF Dispatch, EpollInv, EpollTypeOK, BatchFresh, EventsReadable, ConnInv, FdOwnership

\* readData() of one event leaves the rest of the batch as it was.
LEMMA EpollDispatchInductive ==
    ASSUME EpollInv, Dispatch
    PROVE  EpollInv'
<1>1. PICK k \in events : /\ events' = events \ {k}
                         /\ k \in Clients
                         /\ k \notin freed
                         /\ m_status[k] = "CONNECTED"
                         /\ epollPtr[m_clientfd[k]] = k
                         /\ m_clientfd[k] \in Fds
                         /\ Readable(k)
                         /\ ReadData(k)
  BY DispatchesLive
<1>2. loopPc = "dispatch" /\ UNCHANGED epollPtr
  BY DEF Dispatch
<1>3. loopCur' = k /\ loopPc' \in {"dispatch", "send", "setClosed"}
      /\ UNCHANGED <<sock, fdTable, connVars, mainVars>>
  BY <1>1 DEF ReadData
<1> USE DEF EpollInv
<1>4. ConnInv'
  BY <1>1, <1>2, ReadDataConn DEF NotYetRegistered
<1>5. EpollTypeOK' /\ EpollPointerCurrent' /\ BatchFresh'
  BY <1>1, <1>2, <1>3, <1>4 DEF EpollTypeOK, ConnInv, EpollLoopPcs,
                                EpollPointerCurrent, BatchFresh, connVars
<1>6. BatchApart' /\ NotYetRegistered'
  BY <1>1, <1>2, <1>3 DEF BatchApart, NotYetRegistered, mainVars
<1>7. EventsReadable'
  BY <1>1, ReadDataReadable DEF EventsReadable, EpollTypeOK
<1> QED BY <1>4, <1>5, <1>6, <1>7

\* close() takes the registration of the descriptor with it.
LEMMA EpollCloseFdInductive ==
    ASSUME EpollInv, EpollCloseFd
    PROVE  EpollInv'
<1> USE DEF EpollCloseFd, EpollInv
<1>1. /\ loopCur \in Clients /\ loopCur # NoClient
      /\ m_status[loopCur] = "CLOSED"
      /\ m_clientfd[loopCur] \in Fds /\ fdTable[m_clientfd[loopCur]] = loopCur
  BY DEF CloseFd, ConnInv, LoopHolds
<1>2. ConnInv' /\ EpollTypeOK'
  BY <1>1, CloseFdConn DEF CloseFd, EpollTypeOK, ConnInv, EpollLoopPcs
<1>3. EpollPointerCurrent'
  BY <1>1 DEF CloseFd, EpollTypeOK, ConnInv, ConnTypeOK, EpollPointerCurrent
<1>4. BatchApart' /\ NotYetRegistered'
  BY <1>1 DEF CloseFd, mainVars, EpollTypeOK, ConnInv, MainHolds, BatchApart,
              NotYetRegistered
<1>5. BatchFresh'
  BY <1>1 DEF CloseFd, connVars, EpollTypeOK, ConnInv, BatchFresh, FdOwnership
<1>6. EventsReadable'
  BY CloseFdReadable DEF EventsReadable, BatchFresh, EpollTypeOK
<1> QED BY <1>2, <1>3, <1>4, <1>5, <1>6

\* The loop thread's other steps change no connection but the one in its hands.
LEMMA EpollLoopInductive ==
    ASSUME EpollInv, LoopCommon \/ BatchDone, UNCHANGED epollVars
    PROVE  EpollInv'
<1> USE DEF EpollInv, epollVars, netVars, connVars, mainVars
<1>1. CASE SetClosed
  <2>1. loopCur \in Clients \ events
    BY <1>1 DEF SetClosed, ConnInv, LoopHolds, BatchApart
  <2>2. ConnInv' /\ EpollTypeOK'
    BY <1>1, SetClosedConn DEF SetClosed, EpollTypeOK, ConnInv, EpollLoopPcs
  <2>3. EpollPointerCurrent' /\ EventsReadable' /\ BatchApart' /\ NotYetRegistered'
    BY <1>1 DEF SetClosed, EpollPointerCurrent, EventsReadable, Readable,
                BatchApart, NotYetRegistered
  <2>4. BatchFresh'
    BY <1>1, <2>1 DEF SetClosed, BatchFresh, EpollTypeOK, ConnInv, ConnTypeOK
  <2> QED BY <2>2, <2>3, <2>4
<1>2. CASE SendData \/ LogClosed \/ CloseDangling \/ BatchDone
  <2>1. ConnInv'
    BY <1>2, LoopRestConn, LoopMovesConn DEF BatchDone, ConnInv, ConnTypeOK
  <2>2. EpollTypeOK'
    BY <1>2, <2>1 DEF SendData, LogClosed, CloseDangling, Dangling, BatchDone,
                      EpollTypeOK, ConnInv, EpollLoopPcs
  <2>3. EpollPointerCurrent' /\ BatchFresh' /\ EventsReadable' /\ NotYetRegistered'
    BY <1>2 DEF SendData, LogClosed, CloseDangling, Dangling, BatchDone,
                EpollPointerCurrent, BatchFresh, EventsReadable, Readable,
                NotYetRegistered
  <2>4. BatchApart'
    BY <1>2 DEF SendData, LogClosed, CloseDangling, Dangling, BatchDone, BatchApart
  <2> QED BY <2>1, <2>2, <2>3, <2>4
<1> QED BY <1>1, <1>2 DEF LoopCommon

\* Every step of the program keeps the inductive invariant.
LEMMA EpollNextInductive ==
    ASSUME EpollInv, [EpollNext]_epollServerVars
    PROVE  EpollInv'
<1>1. CASE UNCHANGED epollServerVars
  <2>1. UNCHANGED connServerVars /\ UNCHANGED epollVars
    BY <1>1 DEF epollServerVars
  <2>2. ConnInv'
    BY <2>1, StutterConn DEF EpollInv
  <2>3. EpollTypeOK' /\ EpollPointerCurrent' /\ BatchFresh' /\ EventsReadable'
           /\ BatchApart' /\ NotYetRegistered'
    BY <2>1, <2>2 DEF connServerVars, netVars, connVars, mainVars, epollVars,
       EpollInv, EpollTypeOK, ConnInv, EpollPointerCurrent, BatchFresh,
       EventsReadable, Readable, BatchApart, NotYetRegistered
  <2> QED BY <2>2, <2>3 DEF EpollInv
<1>2. CASE ClientStep /\ UNCHANGED epollVars
  BY <1>2, EpollClientInductive
<1>3. CASE EpollMainStep
  BY <1>3, EpollAcceptInductive, EpollAddInductive, EpollSweepInductive
  DEF EpollMainStep, MainCommon
<1>4. CASE EpollLoopStep
  BY <1>4, EpollWaitInductive, EpollDispatchInductive, EpollCloseFdInductive,
     EpollLoopInductive
  DEF EpollLoopStep, BatchDone
<1> QED BY <1>1, <1>2, <1>3, <1>4 DEF EpollNext

\* The inductive invariant holds throughout.
THEOREM EpollInvariance == EpollSpec => []EpollInv
<1>1. EpollInit => EpollInv
  BY EpollInitInductive
<1>2. EpollInv /\ [EpollNext]_epollServerVars => EpollInv'
  BY EpollNextInductive
<1> QED BY <1>1, <1>2, PTL DEF EpollSpec

\* Every variable keeps its type, for any number of clients.
THEOREM EpollTypeCorrect == EpollSpec => []EpollTypeOK
BY EpollInvariance, PTL DEF EpollInv

\* Descriptors are neither leaked nor stolen while accept reuses what the loop
\* thread closes.
THEOREM EpollOwnership == EpollSpec => []FdOwnership
BY EpollInvariance, PTL DEF EpollInv, ConnInv

\* An event always carries the connection that owns the descriptor now, and the
\* undelivered part of a batch stays live whatever the main thread does.
THEOREM EventsCurrent == EpollSpec => [](EpollPointerCurrent /\ BatchFresh)
BY EpollInvariance, PTL DEF EpollInv

\* The sweep destroys only CLOSED connections, and g_connections holds none of
\* the destroyed ones.
THEOREM EpollSweepCorrect == EpollSpec => []SweepSound
BY EpollInvariance, PTL DEF EpollInv, ConnInv

\* Every step of the program is a step of the service or shows nothing of itself.
LEMMA EpollStepRefines ==
    ASSUME EpollInv, [EpollNext]_epollServerVars
    PROVE  [Service!Next]_Service!serviceVars
<1> USE DEF EpollInv
<1>1. CASE ClientStep
  BY <1>1, ClientRefines
<1>2. CASE EpollMainStep
  BY <1>2, MainRefines DEF EpollMainStep, EpollAddConnection
<1>3. CASE EpollLoopStep
  <2>1. CASE Dispatch
    <3>1. loopPc = "dispatch"
      BY <2>1 DEF Dispatch
    <3>2. \E k \in Clients : m_status[k] = "CONNECTED" /\ Readable(k) /\ ReadData(k)
      BY <2>1, DispatchesLive
    <3> QED BY <3>1, <3>2, ReadDataRefines
  <2>2. CASE LoopCommon \/ EpollCloseFd
    BY <2>2, LoopCommonRefines DEF EpollCloseFd
  <2>3. CASE EpollWait \/ BatchDone
    BY <2>3, LoopMovesRefines DEF EpollWait, BatchDone, netVars
  <2> QED BY <1>3, <2>1, <2>2, <2>3 DEF EpollLoopStep
<1>4. CASE UNCHANGED epollServerVars
  BY <1>4 DEF epollServerVars, connServerVars, netVars, Service!serviceVars
<1> QED BY <1>1, <1>2, <1>3, <1>4 DEF EpollNext

\* The server implements the service for any number of clients and descriptors:
\* no client is read, answered or closed in another one's place, and no
\* connection ends while its client is there and answers get through.
THEOREM EpollRefinement == EpollSpec => ImplementsService
<1>1. EpollInit => Service!Init
  BY ConnInitRefines DEF EpollInit
<1>2. EpollInv /\ [EpollNext]_epollServerVars => [Service!Next]_Service!serviceVars
  BY EpollStepRefines
<1> QED BY <1>1, <1>2, EpollInvariance, PTL
        DEF EpollSpec, ImplementsService, Service!Spec

\* Why NoWildPointer fails, and how far: a destroyed object is only ever touched
\* by closeConnection() after it has set CLOSED (Connection.cpp:82-83), never by
\* the dispatch of an event (EpollLoop.cpp:98-115).
THEOREM WildPointerOnlyInClose ==
    EpollSpec => [][proc' = "undefined" /\ proc # "undefined" =>
                       /\ loopPc \in {"closeFd", "logClosed"}
                       /\ loopCur \in freed
                       /\ m_status[loopCur] = "CLOSED"]_epollServerVars
<1> DEFINE Wild == proc' = "undefined" /\ proc # "undefined" =>
                      /\ loopPc \in {"closeFd", "logClosed"}
                      /\ loopCur \in freed
                      /\ m_status[loopCur] = "CLOSED"
<1>1. ASSUME EpollInv, [EpollNext]_epollServerVars
      PROVE  [Wild]_epollServerVars
  <2>1. CASE CloseDangling
    BY <1>1, <2>1 DEF CloseDangling, EpollInv, ConnInv, SweepSound
  <2>2. CASE Dispatch
    <3>1. proc' = proc
      BY <1>1, <2>2, DispatchesLive DEF ReadData
    <3> QED BY <3>1
  <2>3. CASE ClientStep \/ EpollMainStep
    BY <2>3 DEF ClientStep, EpollMainStep, MainCommon, Listen, CreateLoopThread,
                Accept, AcceptFails, SweepVisit, SweepEnd, EpollAddConnection, AfterAdd
  <2>4. CASE EpollWait \/ BatchDone \/ EpollCloseFd \/ SendData \/ SetClosed \/ LogClosed
    BY <2>4 DEF EpollWait, BatchDone, EpollCloseFd, CloseFd, SendData, SetClosed,
                LogClosed
  <2> QED BY <1>1, <2>1, <2>2, <2>3, <2>4 DEF EpollNext, EpollLoopStep, LoopCommon
<1> QED BY <1>1, EpollInvariance, PTL DEF EpollSpec

-----------------------------------------------------------------------------
(* PollServer.                                                             *)

\* A prefix, element by element.
LEMMA PrefixElements ==
    ASSUME NEW S, NEW s \in Seq(S), NEW t \in Seq(S)
    PROVE  IsPrefixOf(s, t) <=> /\ Len(s) <= Len(t)
                                /\ \A i \in 1..Len(s) : s[i] = t[i]
<1>1. CASE Len(s) <= Len(t)
  <2>1. \A i \in 1..Len(s) : t[i] \in S
    BY <1>1, ElementOfSeq
  <2>2. /\ SubSeq(t, 1, Len(s)) \in Seq(S)
        /\ Len(SubSeq(t, 1, Len(s))) = Len(s)
        /\ \A i \in 1..Len(s) : SubSeq(t, 1, Len(s))[i] = t[i]
    BY <2>1, SubSeqProperties, Z3
  <2>3. (\A i \in 1..Len(s) : s[i] = t[i]) <=> s = SubSeq(t, 1, Len(s))
    BY <2>2, SeqEqual
  <2> QED BY <1>1, <2>3 DEF IsPrefixOf
<1>2. CASE ~(Len(s) <= Len(t))
  BY <1>2 DEF IsPrefixOf
<1> QED BY <1>1, <1>2

\* What ListsParallel says of the positions of the four vectors.
LEMMA PollPositions ==
    ASSUME PollTypeOK
    PROVE  ListsParallel <=>
              /\ Len(m_pollFds) = Len(m_connections)
              /\ Len(tmpPollFds) = Len(tmpConns)
              /\ Len(tmpConns) <= Len(m_connections)
              /\ \A i \in 1..Len(m_connections) :
                    m_pollFds[i] = m_clientfd[m_connections[i]]
              /\ \A i, j \in 1..Len(m_connections) :
                    m_connections[i] = m_connections[j] => i = j
              /\ \A i \in 1..Len(tmpConns) : /\ tmpConns[i] = m_connections[i]
                                             /\ tmpPollFds[i] = m_pollFds[i]
<1>1. /\ m_pollFds \in Seq(Fds) /\ m_connections \in Seq(Clients)
      /\ tmpPollFds \in Seq(Fds) /\ tmpConns \in Seq(Clients)
  BY DEF PollTypeOK, ConnTypeOK
<1>2. IsPrefixOf(tmpPollFds, m_pollFds) <=>
         /\ Len(tmpPollFds) <= Len(m_pollFds)
         /\ \A i \in 1..Len(tmpPollFds) : tmpPollFds[i] = m_pollFds[i]
  BY <1>1, PrefixElements
<1>3. IsPrefixOf(tmpConns, m_connections) <=>
         /\ Len(tmpConns) <= Len(m_connections)
         /\ \A i \in 1..Len(tmpConns) : tmpConns[i] = m_connections[i]
  BY <1>1, PrefixElements
<1>4. DOMAIN m_connections = 1..Len(m_connections)
  BY <1>1
<1> QED BY <1>2, <1>3, <1>4 DEF ListsParallel

\* Everything that holds at the start of the program.
LEMMA PollInitInductive == PollInit => PollInv
<1> SUFFICES ASSUME PollInit PROVE PollInv
  OBVIOUS
<1> USE DEF PollInit
<1>1. ConnInv
  BY ConnInitInductive
<1>2. PollTypeOK
  BY <1>1 DEF PollTypeOK, ConnInv, ConnInit, PollLoopPcs
<1>3. ListsParallel
  BY <1>2, PollPositions DEF ConnInit
<1>4. EarlierClosed /\ ReventsReadable /\ FoundReadable
  BY DEF ConnInit, EarlierClosed, ReventsReadable, FoundReadable
<1> QED BY <1>1, <1>2, <1>3, <1>4 DEF PollInv

\* What the proofs below use of the loop thread's copies: they name connections
\* that were accepted, each once, with their descriptors.
LEMMA CopyNames ==
    ASSUME PollInv
    PROVE  /\ DOMAIN tmpPollFds = 1..Len(tmpConns)
           /\ DOMAIN tmpConns = 1..Len(tmpConns)
           /\ Len(tmpConns) \in 0..Len(m_connections)
           /\ Len(m_connections) \in Nat
           /\ \A i \in 1..Len(tmpConns) :
                 /\ tmpConns[i] \in Clients
                 /\ tmpConns[i] = m_connections[i]
                 /\ m_status[tmpConns[i]] # "none"
                 /\ tmpPollFds[i] = m_clientfd[tmpConns[i]]
                 /\ tmpPollFds[i] = m_pollFds[i]
                 /\ tmpPollFds[i] \in Fds
           /\ \A i, j \in 1..Len(tmpConns) : tmpConns[i] = tmpConns[j] => i = j
<1>1. /\ m_connections \in Seq(Clients) /\ tmpConns \in Seq(Clients)
      /\ tmpPollFds \in Seq(Fds)
  BY DEF PollInv, PollTypeOK, ConnTypeOK
<1>2. /\ Len(tmpPollFds) = Len(tmpConns)
      /\ Len(tmpConns) <= Len(m_connections)
      /\ \A i \in 1..Len(m_connections) :
            m_pollFds[i] = m_clientfd[m_connections[i]]
      /\ \A i, j \in 1..Len(m_connections) :
            m_connections[i] = m_connections[j] => i = j
      /\ \A i \in 1..Len(tmpConns) : /\ tmpConns[i] = m_connections[i]
                                     /\ tmpPollFds[i] = m_pollFds[i]
  BY PollPositions DEF PollInv
<1>3. /\ DOMAIN tmpPollFds = 1..Len(tmpConns)
      /\ DOMAIN tmpConns = 1..Len(tmpConns)
      /\ DOMAIN m_connections = 1..Len(m_connections)
      /\ Len(m_connections) \in Nat /\ Len(tmpConns) \in Nat
  BY <1>1, <1>2
<1>4. \A i \in 1..Len(tmpConns) : /\ i \in 1..Len(m_connections)
                                  /\ tmpConns[i] \in Clients
                                  /\ tmpPollFds[i] \in Fds
  BY <1>1, <1>2, <1>3, ElementOfSeq
<1>5. \A i \in 1..Len(m_connections) : m_status[m_connections[i]] # "none"
  BY <1>3 DEF PollInv, ConnInv, ListedOnce
<1> QED BY <1>2, <1>3, <1>4, <1>5

\* The clients and the network disturb no fact the server relies on.
LEMMA PollClientInductive ==
    ASSUME PollInv, ClientStep, UNCHANGED pollVars
    PROVE  PollInv'
<1>1. /\ UNCHANGED <<fdTable, m_status, m_clientfd, m_connections, loopPc, loopCur,
                     m_pollFds, tmpPollFds, tmpConns, revents>>
  BY DEF ClientStep, connVars, mainVars, pollVars
<1>2. ConnInv'
  BY ClientConn DEF PollInv
<1>3. PollTypeOK' /\ ListsParallel' /\ EarlierClosed'
  BY <1>1, <1>2 DEF PollInv, PollTypeOK, ConnInv, ListsParallel, EarlierClosed
<1>4. ReventsReadable'
  <2>1. \A i \in revents : tmpConns[i] \in Clients
    BY CopyNames DEF PollInv, PollTypeOK
  <2> QED BY <1>1, <2>1, ClientReadable DEF PollInv, ReventsReadable
<1>5. FoundReadable'
  <2>1. \A j \in DOMAIN tmpConns : tmpConns[j] \in Clients
    BY CopyNames
  <2> QED BY <1>1, <2>1, ClientReadable DEF PollInv, FoundReadable
<1> QED BY <1>2, <1>3, <1>4, <1>5 DEF PollInv

\* accept(): the new connection is not listed yet.
LEMMA PollAcceptInductive ==
    ASSUME PollInv, Accept, UNCHANGED pollVars
    PROVE  PollInv'
<1>1. PICK k \in backlog, f \in Fds :
         /\ k \in Clients
         /\ \A i \in DOMAIN m_connections : m_connections[i] # k
         /\ m_status' = [m_status EXCEPT ![k] = "CONNECTED"]
         /\ m_clientfd' = [m_clientfd EXCEPT ![k] = f]
  BY AcceptsNew DEF PollInv
<1>2. UNCHANGED <<sock, inbox, m_connections, loopPc, loopCur,
                  m_pollFds, tmpPollFds, tmpConns, revents>>
  BY DEF Accept, pollVars
<1>3. ConnInv'
  BY AcceptConn DEF PollInv
<1>4. PollTypeOK'
  BY <1>2, <1>3 DEF PollInv, PollTypeOK, ConnInv
<1>5. \A i \in DOMAIN m_connections :
         /\ m_connections[i] \in Clients
         /\ m_status'[m_connections[i]] = m_status[m_connections[i]]
         /\ m_clientfd'[m_connections[i]] = m_clientfd[m_connections[i]]
  BY <1>1, ListedClients DEF PollInv, ConnInv, ConnTypeOK
<1>6. ListsParallel' /\ EarlierClosed'
  BY <1>2, <1>5 DEF PollInv, ListsParallel, EarlierClosed
<1>7. /\ \A i \in DOMAIN tmpConns : m_status'[tmpConns[i]] = m_status[tmpConns[i]]
      /\ revents \subseteq DOMAIN tmpConns
  <2>1. DOMAIN m_connections = 1..Len(m_connections)
    BY DEF PollInv, ConnInv, ConnTypeOK
  <2> QED BY <1>5, <2>1, CopyNames DEF PollInv, PollTypeOK
<1>8. ReventsReadable'
  BY <1>2, <1>7 DEF PollInv, ReventsReadable, Readable
<1>9. FoundReadable'
  BY <1>2, <1>7 DEF PollInv, FoundReadable, Readable
<1> QED BY <1>3, <1>4, <1>6, <1>8, <1>9 DEF PollInv

\* Listing the connection just accepted: whoever had its number before is closed.
LEMMA PollAddInductive ==
    ASSUME PollInv, PollAddConnection
    PROVE  PollInv'
<1> DEFINE n == Len(m_connections)
<1>1. /\ mainCur \in Clients /\ m_status[mainCur] = "CONNECTED"
      /\ \A i \in DOMAIN m_connections : m_connections[i] # mainCur
      /\ m_clientfd[mainCur] \in Fds
      /\ fdTable[m_clientfd[mainCur]] = mainCur
  BY DEF PollAddConnection, AfterAdd, PollInv, ConnInv, MainHolds, FdOwnership
<1>2. /\ m_pollFds' = Append(m_pollFds, m_clientfd[mainCur])
      /\ m_connections' = Append(m_connections, mainCur)
      /\ UNCHANGED <<sock, inbox, fdTable, m_status, m_clientfd, loopPc, loopCur,
                     tmpPollFds, tmpConns, revents>>
  BY DEF PollAddConnection, AfterAdd, netVars, connVars
<1>3. /\ m_pollFds \in Seq(Fds) /\ m_connections \in Seq(Clients)
      /\ DOMAIN m_connections = 1..n /\ n \in Nat /\ Len(m_pollFds) = n
      /\ \A i \in 1..n : m_pollFds[i] = m_clientfd[m_connections[i]]
  BY PollPositions DEF PollInv, PollTypeOK, ConnTypeOK
<1>4. /\ m_connections' \in Seq(Clients) /\ Len(m_connections') = n + 1
      /\ \A i \in 1..n : m_connections'[i] = m_connections[i]
      /\ m_connections'[n + 1] = mainCur
  BY <1>1, <1>2, <1>3, AppendProperties
<1>5. /\ m_pollFds' \in Seq(Fds) /\ Len(m_pollFds') = n + 1
      /\ \A i \in 1..n : m_pollFds'[i] = m_pollFds[i]
      /\ m_pollFds'[n + 1] = m_clientfd[mainCur]
  BY <1>1, <1>2, <1>3, AppendProperties
<1>6. ConnInv'
  BY <1>2, AddConn DEF PollInv, PollAddConnection
<1>7. PollTypeOK'
  BY <1>2, <1>5, <1>6 DEF PollInv, PollTypeOK, ConnInv
<1>8. /\ tmpPollFds \in Seq(Fds) /\ tmpConns \in Seq(Clients)
      /\ Len(tmpPollFds) = Len(tmpConns) /\ Len(tmpConns) \in 0..n
      /\ \A i \in 1..Len(tmpConns) : /\ i \in 1..n
                                     /\ tmpConns[i] = m_connections[i]
                                     /\ tmpPollFds[i] = m_pollFds[i]
  BY <1>3, PollPositions DEF PollInv, PollTypeOK
<1>9. ListsParallel'
  <2>1. IsPrefixOf(tmpPollFds', m_pollFds')
    <3>1. /\ tmpPollFds' \in Seq(Fds) /\ m_pollFds' \in Seq(Fds)
          /\ Len(tmpPollFds') <= Len(m_pollFds')
          /\ \A i \in 1..Len(tmpPollFds') : tmpPollFds'[i] = m_pollFds'[i]
      BY <1>2, <1>3, <1>5, <1>8
    <3> QED BY <3>1, PrefixElements
  <2>2. IsPrefixOf(tmpConns', m_connections')
    <3>1. /\ tmpConns' \in Seq(Clients) /\ m_connections' \in Seq(Clients)
          /\ Len(tmpConns') <= Len(m_connections')
          /\ \A i \in 1..Len(tmpConns') : tmpConns'[i] = m_connections'[i]
      BY <1>2, <1>3, <1>4, <1>8
    <3> QED BY <3>1, PrefixElements
  <2>3. DOMAIN m_connections' = 1..(n + 1)
    BY <1>4
  <2>4. \A i \in 1..(n + 1) : i \in 1..n \/ i = n + 1
    BY <1>3
  <2>5. \A i \in DOMAIN m_connections' : m_pollFds'[i] = m_clientfd'[m_connections'[i]]
    BY <1>2, <1>3, <1>4, <1>5, <2>3, <2>4
  <2>6. \A i, j \in DOMAIN m_connections' :
           m_connections'[i] = m_connections'[j] => i = j
    BY <1>1, <1>3, <1>4, <2>3, <2>4 DEF PollInv, ConnInv, ListedOnce
  <2> QED BY <1>2, <1>4, <1>5, <1>8, <2>1, <2>2, <2>5, <2>6 DEF ListsParallel
<1>10. EarlierClosed'
  <2>1. ASSUME NEW i \in 1..(n + 1), NEW j \in 1..(n + 1),
               i < j, m_pollFds'[i] = m_pollFds'[j]
        PROVE  m_status[m_connections'[i]] = "CLOSED"
    <3>1. i \in 1..n
      BY <1>3, <2>1
    <3>2. CASE j \in 1..n
      BY <1>3, <1>4, <1>5, <2>1, <3>1, <3>2 DEF PollInv, EarlierClosed
    <3>3. CASE j = n + 1
      <4>1. m_connections[i] \in Clients /\ m_connections[i] # mainCur
        BY <1>1, <1>3, <3>1, ListedClients DEF PollInv, PollTypeOK
      <4>2. m_clientfd[m_connections[i]] = m_clientfd[mainCur]
        BY <1>3, <1>5, <2>1, <3>1, <3>3
      <4>3. m_status[m_connections[i]] # "CONNECTED"
        BY <1>1, <4>1, <4>2 DEF PollInv, ConnInv, FdOwnership
      <4>4. m_status[m_connections[i]] # "none"
        BY <1>3, <3>1 DEF PollInv, ConnInv, ListedOnce
      <4>5. \A k \in Clients : m_status[k] \in {"none", "CONNECTED", "CLOSED"}
        BY DEF PollInv, ConnInv, ConnTypeOK
      <4> QED BY <1>4, <3>1, <4>1, <4>3, <4>4, <4>5
    <3>4. j \in 1..n \/ j = n + 1
      BY <1>3
    <3> QED BY <3>2, <3>3, <3>4
  <2>2. DOMAIN m_connections' = 1..(n + 1)
    BY <1>4
  <2> QED BY <1>2, <2>1, <2>2 DEF EarlierClosed
<1>11. ReventsReadable' /\ FoundReadable'
  BY <1>2 DEF PollInv, ReventsReadable, FoundReadable, Readable
<1> QED BY <1>6, <1>7, <1>9, <1>10, <1>11 DEF PollInv

\* The sweep and the failing accept touch nothing of the lists.
LEMMA PollSweepInductive ==
    ASSUME PollInv, UNCHANGED pollVars,
           Listen \/ CreateLoopThread \/ AcceptFails \/ SweepVisit \/ SweepEnd
    PROVE  PollInv'
<1>1. /\ UNCHANGED <<sock, inbox, fdTable, m_status, m_clientfd, m_connections,
                     loopPc, loopCur, m_pollFds, tmpPollFds, tmpConns, revents>>
  BY DEF Listen, CreateLoopThread, AcceptFails, SweepVisit, SweepEnd, netVars,
         connVars, pollVars
<1>2. ConnInv'
  BY SweepConn DEF PollInv
<1> QED BY <1>1, <1>2 DEF PollInv, PollTypeOK, ConnInv, ListsParallel,
        EarlierClosed, ReventsReadable, FoundReadable, Readable

\* The loop thread takes its copy.
LEMMA CopyListsInductive ==
    ASSUME PollInv, CopyLists
    PROVE  PollInv'
<1>1. /\ tmpPollFds' = m_pollFds /\ tmpConns' = m_connections /\ loopPc' = "poll"
      /\ UNCHANGED <<sock, inbox, fdTable, m_status, m_clientfd, m_connections,
                     loopCur, m_pollFds, revents>>
      /\ revents = {}
  BY DEF CopyLists, netVars, connVars, mainVars, PollInv, ReventsReadable
<1>2. ConnInv'
  BY LoopMovesConn DEF CopyLists, PollInv, ConnInv, ConnTypeOK
<1>3. m_pollFds \in Seq(Fds) /\ m_connections \in Seq(Clients)
         /\ Len(m_pollFds) = Len(m_connections)
  BY PollPositions DEF PollInv, PollTypeOK, ConnTypeOK
<1>4. PollTypeOK'
  BY <1>1, <1>2, <1>3 DEF PollInv, PollTypeOK, ConnInv, PollLoopPcs
<1>5. ListsParallel'
  <2>1. IsPrefixOf(m_pollFds, m_pollFds) /\ IsPrefixOf(m_connections, m_connections)
    BY <1>3, PrefixElements
  <2> QED BY <1>1, <1>3, <2>1 DEF PollInv, ListsParallel
<1>6. EarlierClosed' /\ ReventsReadable' /\ FoundReadable'
  BY <1>1 DEF PollInv, EarlierClosed, ReventsReadable, FoundReadable
<1> QED BY <1>2, <1>4, <1>5, <1>6 DEF PollInv

\* poll() reports readable sockets, and a connection that is alive is the one
\* behind its descriptor.
LEMMA PollReturnsInductive ==
    ASSUME PollInv, PollReturns
    PROVE  PollInv'
<1>1. /\ revents' = PollIn /\ loopPc' = "dispatch"
      /\ UNCHANGED <<sock, inbox, fdTable, m_status, m_clientfd, m_connections,
                     loopCur, m_pollFds, tmpPollFds, tmpConns>>
  BY DEF PollReturns, netVars, connVars, mainVars
<1>2. ConnInv'
  BY LoopMovesConn DEF PollReturns, PollInv, ConnInv, ConnTypeOK
<1>3. PollTypeOK' /\ ListsParallel' /\ EarlierClosed' /\ FoundReadable'
  BY <1>1, <1>2 DEF PollInv, PollTypeOK, ConnInv, PollLoopPcs, PollIn,
                    ListsParallel, EarlierClosed, FoundReadable
<1>4. ASSUME NEW i \in PollIn, m_status[tmpConns[i]] = "CONNECTED"
      PROVE  Readable(tmpConns[i])
  <2>1. /\ tmpConns[i] \in Clients /\ tmpPollFds[i] = m_clientfd[tmpConns[i]]
        /\ Readable(fdTable[tmpPollFds[i]])
    BY CopyNames DEF PollIn
  <2> QED BY <1>4, <2>1 DEF PollInv, ConnInv, FdOwnership
<1>5. ReventsReadable'
  BY <1>1, <1>4 DEF ReventsReadable, Readable
<1> QED BY <1>2, <1>3, <1>5 DEF PollInv

\* The search finds nobody, or the connection of the entry, or a closed one that
\* had the number before.
LEMMA FindsOwner ==
    ASSUME PollInv, Find
    PROVE  \E i \in revents, j \in 1..Len(tmpConns) :
              /\ revents' = revents \ {i}
              /\ m_status[tmpConns[j]] = "CONNECTED" => i = j
              /\ \/ Dangling
                 \/ /\ loopCur' = tmpConns[j]
                    /\ loopPc' = "read"
                    /\ UNCHANGED <<netVars, replies, fdTable, connVars, mainVars, proc>>
<1>1. PICK i \in revents :
         /\ revents' = revents \ {i}
         /\ \E j \in DOMAIN tmpConns :
               /\ m_clientfd[tmpConns[j]] = tmpPollFds[i]
               /\ \A h \in 1..(j - 1) : m_clientfd[tmpConns[h]] # tmpPollFds[i]
               /\ IF \E h \in 1..j : tmpConns[h] \in freed
                  THEN Dangling
                  ELSE /\ loopCur' = tmpConns[j]
                       /\ loopPc' = "read"
                       /\ UNCHANGED <<netVars, replies, fdTable, connVars,
                                      mainVars, proc>>
  BY DEF Find
<1>2. PICK j \in DOMAIN tmpConns :
         /\ m_clientfd[tmpConns[j]] = tmpPollFds[i]
         /\ \A h \in 1..(j - 1) : m_clientfd[tmpConns[h]] # tmpPollFds[i]
         /\ \/ Dangling
            \/ /\ loopCur' = tmpConns[j]
               /\ loopPc' = "read"
               /\ UNCHANGED <<netVars, replies, fdTable, connVars, mainVars, proc>>
  BY <1>1
<1>3. /\ i \in 1..Len(tmpConns) /\ j \in 1..Len(tmpConns)
      /\ Len(tmpConns) \in 0..Len(m_connections) /\ Len(m_connections) \in Nat
      /\ tmpConns[j] = m_connections[j]
      /\ tmpPollFds[i] = m_pollFds[i] /\ tmpPollFds[j] = m_pollFds[j]
      /\ tmpPollFds[i] = m_clientfd[tmpConns[i]]
      /\ tmpPollFds[j] = m_clientfd[tmpConns[j]]
  BY CopyNames DEF PollInv, PollTypeOK
<1>4. j <= i
  BY <1>2, <1>3
<1>5. j < i => m_status[tmpConns[j]] = "CLOSED"
  <2>1. DOMAIN m_connections = 1..Len(m_connections)
    BY DEF PollInv, ConnInv, ConnTypeOK
  <2>2. i \in DOMAIN m_connections /\ j \in DOMAIN m_connections
    BY <1>3, <2>1
  <2>3. m_pollFds[i] = m_pollFds[j]
    BY <1>2, <1>3
  <2> QED BY <1>3, <2>2, <2>3 DEF PollInv, EarlierClosed
<1>6. m_status[tmpConns[j]] = "CONNECTED" => i = j
  BY <1>3, <1>4, <1>5
<1> QED BY <1>1, <1>2, <1>3, <1>6

\* The search leaves the entries still to be scanned as they are.
LEMMA FindInductive ==
    ASSUME PollInv, Find
    PROVE  PollInv'
<1>1. PICK i \in revents, j \in 1..Len(tmpConns) :
         /\ revents' = revents \ {i}
         /\ m_status[tmpConns[j]] = "CONNECTED" => i = j
         /\ \/ Dangling
            \/ /\ loopCur' = tmpConns[j]
               /\ loopPc' = "read"
               /\ UNCHANGED <<netVars, replies, fdTable, connVars, mainVars, proc>>
  BY FindsOwner
<1>2. /\ loopPc = "dispatch" /\ loopPc' \in {"dispatch", "read"}
      /\ UNCHANGED <<netVars, replies, fdTable, connVars, mainVars>>
      /\ UNCHANGED <<sock, inbox, fdTable, m_status, m_clientfd, m_connections,
                     m_pollFds, tmpPollFds, tmpConns>>
  BY <1>1 DEF Find, Dangling, netVars, connVars, mainVars
<1>3. tmpConns[j] \in Clients /\ j \in DOMAIN tmpConns
  BY CopyNames
<1>4. ConnInv'
  BY <1>1, <1>2, <1>3, LoopMovesConn DEF PollInv, ConnInv, ConnTypeOK, Dangling
<1>5. PollTypeOK' /\ ListsParallel' /\ EarlierClosed'
  BY <1>1, <1>2, <1>4 DEF PollInv, PollTypeOK, ConnInv, PollLoopPcs, ListsParallel,
                          EarlierClosed
<1>6. ReventsReadable'
  BY <1>1, <1>2 DEF PollInv, ReventsReadable, Readable
<1>7. FoundReadable'
  <2>1. CASE Dangling
    BY <1>2, <2>1 DEF Dangling, FoundReadable
  <2>2. CASE loopCur' = tmpConns[j]
    <3>1. ASSUME m_status[tmpConns[j]] = "CONNECTED"
          PROVE  /\ Readable(tmpConns[j])
                 /\ \A h \in revents \ {i} : tmpConns[h] # tmpConns[j]
      <4>1. i = j
        BY <1>1, <3>1
      <4>2. \A h \in revents : h \in 1..Len(tmpConns)
        BY CopyNames DEF PollInv, PollTypeOK
      <4>3. \A h \in 1..Len(tmpConns) : tmpConns[h] = tmpConns[j] => h = j
        BY CopyNames
      <4> QED BY <3>1, <4>1, <4>2, <4>3 DEF PollInv, ReventsReadable
    <3> QED BY <1>1, <1>2, <1>3, <2>2, <3>1 DEF FoundReadable, Readable
  <2> QED BY <1>1, <2>1, <2>2
<1> QED BY <1>4, <1>5, <1>6, <1>7 DEF PollInv

\* readData() of the connection found: it is known, and the loop thread reads
\* nobody else's socket.
LEMMA ReadFoundInductive ==
    ASSUME PollInv, ReadFound
    PROVE  PollInv'
<1>1. /\ loopPc = "read" /\ UNCHANGED pollVars
      /\ Dangling \/ ReadData(loopCur)
  BY DEF ReadFound
<1>2. PICK j \in 1..Len(tmpConns) : tmpConns[j] = loopCur
  BY <1>1, CopyNames DEF PollInv, FoundReadable
<1>3. /\ loopCur \in Clients /\ m_status[loopCur] # "none"
      /\ mainPc = "add" => loopCur # mainCur
  <2>1. tmpConns[j] = m_connections[j] /\ j \in DOMAIN m_connections
    <3>1. DOMAIN m_connections = 1..Len(m_connections)
      BY DEF PollInv, ConnInv, ConnTypeOK
    <3> QED BY <3>1, CopyNames
  <2> QED BY <1>2, <2>1, CopyNames DEF PollInv, ConnInv, MainHolds
<1>4. /\ loopPc' \in {"read", "dispatch", "send", "setClosed"} /\ loopCur' = loopCur
      /\ UNCHANGED <<sock, fdTable, m_status, m_clientfd, m_connections,
                     m_pollFds, tmpPollFds, tmpConns, revents>>
  BY <1>1 DEF Dangling, ReadData, netVars, connVars, mainVars, pollVars
<1>5. ConnInv'
  BY <1>1, <1>3, ReadDataConn, LoopMovesConn DEF PollInv, ConnInv, ConnTypeOK, Dangling
<1>6. PollTypeOK' /\ ListsParallel' /\ EarlierClosed'
  BY <1>4, <1>5 DEF PollInv, PollTypeOK, ConnInv, PollLoopPcs, ListsParallel,
                    EarlierClosed
<1>7. ReventsReadable' /\ FoundReadable'
  <2>1. CASE Dangling
    BY <1>1, <2>1 DEF Dangling, netVars, connVars, pollVars, PollInv,
                      ReventsReadable, FoundReadable, Readable
  <2>2. CASE ReadData(loopCur)
    <3>1. ASSUME NEW i \in revents, m_status[tmpConns[i]] = "CONNECTED"
          PROVE  Readable(tmpConns[i])'
      <4>1. tmpConns[i] \in Clients /\ Readable(tmpConns[i])
        BY <3>1, CopyNames DEF PollInv, PollTypeOK, ReventsReadable
      <4>2. tmpConns[i] # loopCur
        BY <1>1, <3>1 DEF PollInv, FoundReadable
      <4>3. \A k \in Clients : Readable(k) /\ k # loopCur => Readable(k)'
        BY <1>3, <2>2, ReadDataReadable DEF PollInv
      <4> QED BY <1>4, <4>1, <4>2, <4>3 DEF Readable
    <3>2. loopPc' # "read"
      BY <2>2 DEF ReadData
    <3> QED BY <1>1, <1>4, <3>1, <3>2 DEF PollInv, ReadData, ReventsReadable,
                                          FoundReadable
  <2> QED BY <1>1, <2>1, <2>2
<1> QED BY <1>5, <1>6, <1>7 DEF PollInv

\* A timeout and the end of the scan.
LEMMA PollRoundInductive ==
    ASSUME PollInv, PollTimeout \/ ScanDone
    PROVE  PollInv'
<1>1. /\ loopPc \in {"poll", "dispatch"} /\ loopPc' = "wait"
      /\ UNCHANGED <<netVars, replies, fdTable, connVars, mainVars, loopCur, proc>>
      /\ UNCHANGED <<sock, inbox, fdTable, m_status, m_clientfd, m_connections,
                     m_pollFds, tmpPollFds, tmpConns, revents>>
      /\ revents = {}
  BY DEF PollTimeout, ScanDone, netVars, connVars, mainVars, pollVars, PollInv,
         ReventsReadable
<1>2. ConnInv'
  BY <1>1, LoopMovesConn DEF PollInv, ConnInv, ConnTypeOK
<1> QED BY <1>1, <1>2 DEF PollInv, PollTypeOK, ConnInv, PollLoopPcs, ListsParallel,
        EarlierClosed, ReventsReadable, FoundReadable

\* close() leaves the sockets of the entries still to be scanned as they are.
LEMMA PollCloseFdInductive ==
    ASSUME PollInv, CloseFd, UNCHANGED pollVars
    PROVE  PollInv'
<1>1. /\ loopPc' = "logClosed" /\ loopPc = "closeFd"
      /\ UNCHANGED <<m_status, m_clientfd, m_connections, loopCur,
                     m_pollFds, tmpPollFds, tmpConns, revents>>
  BY DEF CloseFd, connVars, mainVars, pollVars
<1>2. ConnInv'
  BY CloseFdConn DEF PollInv
<1>3. PollTypeOK' /\ ListsParallel' /\ EarlierClosed' /\ FoundReadable'
  BY <1>1, <1>2 DEF PollInv, PollTypeOK, ConnInv, PollLoopPcs, ListsParallel,
                    EarlierClosed, FoundReadable
<1>4. ReventsReadable'
  <2>1. \A i \in revents : tmpConns[i] \in Clients
    BY CopyNames DEF PollInv, PollTypeOK
  <2>2. \A k \in Clients : Readable(k) /\ m_status[k] = "CONNECTED" => Readable(k)'
    BY CloseFdReadable DEF PollInv
  <2> QED BY <1>1, <2>1, <2>2 DEF PollInv, ReventsReadable, Readable
<1> QED BY <1>2, <1>3, <1>4 DEF PollInv

\* The loop thread's other steps change no connection but the one in its hands.
LEMMA PollLoopCommonInductive ==
    ASSUME PollInv, LoopCommon, UNCHANGED pollVars
    PROVE  PollInv'
<1>1. /\ loopPc \in {"send", "sendFailed", "setClosed", "closeFd", "logClosed"}
      /\ loopPc' \in {"dispatch", "send", "sendFailed", "setClosed", "closeFd",
                     "logClosed"}
      /\ UNCHANGED <<sock, inbox, m_clientfd, m_connections,
                     m_pollFds, tmpPollFds, tmpConns, revents>>
  BY DEF LoopCommon, SendData, SetClosed, LogClosed, CloseDangling, Dangling,
         netVars, connVars, mainVars, pollVars
<1>2. m_status' = m_status \/ m_status' = [m_status EXCEPT ![loopCur] = "CLOSED"]
  BY DEF LoopCommon, SendData, SetClosed, LogClosed, CloseDangling, Dangling, connVars
<1>3. ConnInv'
  BY LoopCommonConn DEF PollInv
<1>4. PollTypeOK' /\ ListsParallel' /\ FoundReadable'
  BY <1>1, <1>3 DEF PollInv, PollTypeOK, ConnInv, PollLoopPcs, ListsParallel,
                    FoundReadable
<1>5. \A k \in Clients : m_status[k] = "CLOSED" => m_status'[k] = "CLOSED"
  BY <1>2 DEF PollInv, ConnInv, ConnTypeOK
<1>6. \A k \in Clients : m_status'[k] = "CONNECTED" => m_status[k] = "CONNECTED"
  BY <1>2 DEF PollInv, ConnInv, ConnTypeOK
<1>7. EarlierClosed'
  <2>1. \A i \in DOMAIN m_connections : m_connections[i] \in Clients
    BY ListedClients DEF PollInv, ConnInv
  <2> QED BY <1>1, <1>5, <2>1 DEF PollInv, EarlierClosed
<1>8. ReventsReadable'
  <2>1. \A i \in revents : tmpConns[i] \in Clients
    BY CopyNames DEF PollInv, PollTypeOK
  <2> QED BY <1>1, <1>6, <2>1 DEF PollInv, ReventsReadable, Readable
<1> QED BY <1>3, <1>4, <1>7, <1>8 DEF PollInv

\* Every step of the program keeps the inductive invariant.
LEMMA PollNextInductive ==
    ASSUME PollInv, [PollNext]_pollServerVars
    PROVE  PollInv'
<1>1. CASE UNCHANGED pollServerVars
  <2>1. UNCHANGED connServerVars /\ UNCHANGED pollVars
    BY <1>1 DEF pollServerVars
  <2>2. ConnInv'
    BY <2>1, StutterConn DEF PollInv
  <2> QED BY <2>1, <2>2 DEF connServerVars, netVars, connVars, mainVars, pollVars,
          PollInv, PollTypeOK, ConnInv, ListsParallel, EarlierClosed,
          ReventsReadable, FoundReadable, Readable
<1>2. CASE ClientStep /\ UNCHANGED pollVars
  BY <1>2, PollClientInductive
<1>3. CASE PollMainStep
  BY <1>3, PollAcceptInductive, PollAddInductive, PollSweepInductive
  DEF PollMainStep, MainCommon
<1>4. CASE PollLoopStep
  BY <1>4, CopyListsInductive, PollReturnsInductive, PollRoundInductive,
     FindInductive, ReadFoundInductive, PollCloseFdInductive,
     PollLoopCommonInductive
  DEF PollLoopStep
<1> QED BY <1>1, <1>2, <1>3, <1>4 DEF PollNext

\* The inductive invariant holds throughout.
THEOREM PollInvariance == PollSpec => []PollInv
<1>1. PollInit => PollInv
  BY PollInitInductive
<1>2. PollInv /\ [PollNext]_pollServerVars => PollInv'
  BY PollNextInductive
<1> QED BY <1>1, <1>2, PTL DEF PollSpec

\* Every variable keeps its type, for any number of clients.
THEOREM PollTypeCorrect == PollSpec => []PollTypeOK
BY PollInvariance, PTL DEF PollInv

\* The two vectors and the loop's copies of them stay parallel, and hold a
\* connection at most once, however often numbers are reused.
THEOREM PollListsParallel == PollSpec => []ListsParallel
BY PollInvariance, PTL DEF PollInv

\* Descriptors are neither leaked nor stolen, and the sweep destroys only CLOSED
\* connections, under PollLoop too.
THEOREM PollOwnership == PollSpec => [](FdOwnership /\ SweepSound)
BY PollInvariance, PTL DEF PollInv, ConnInv

\* Every step of the program is a step of the service or shows nothing of itself.
LEMMA PollStepRefines ==
    ASSUME PollInv, [PollNext]_pollServerVars
    PROVE  [Service!Next]_Service!serviceVars
<1>1. ConnInv
  BY DEF PollInv
<1>2. CASE ClientStep
  BY <1>2, ClientRefines
<1>3. CASE PollMainStep
  BY <1>3, MainRefines DEF PollMainStep, PollAddConnection
<1>4. CASE PollLoopStep
  <2>1. CASE ReadFound
    <3>1. loopPc = "read" /\ (Dangling \/ ReadData(loopCur))
      BY <2>1 DEF ReadFound
    <3>2. /\ loopCur \in Clients /\ m_status[loopCur] # "none"
          /\ m_status[loopCur] = "CONNECTED" => Readable(loopCur)
      BY <3>1, CopyNames DEF PollInv, FoundReadable
    <3>3. CASE Dangling
      BY <3>1, <3>3, LoopMovesRefines DEF Dangling, netVars
    <3>4. CASE ReadData(loopCur)
      BY <1>1, <3>1, <3>2, <3>4, ReadDataRefines
    <3> QED BY <3>1, <3>3, <3>4
  <2>2. CASE LoopCommon \/ CloseFd
    BY <1>1, <2>2, LoopCommonRefines
  <2>3. CASE Find
    BY <2>3, FindsOwner, LoopMovesRefines DEF Find, Dangling, netVars
  <2>4. CASE CopyLists \/ PollReturns \/ PollTimeout \/ ScanDone
    BY <2>4, LoopMovesRefines DEF CopyLists, PollReturns, PollTimeout, ScanDone, netVars
  <2> QED BY <1>4, <2>1, <2>2, <2>3, <2>4 DEF PollLoopStep
<1>5. CASE UNCHANGED pollServerVars
  BY <1>5 DEF pollServerVars, connServerVars, netVars, Service!serviceVars
<1> QED BY <1>2, <1>3, <1>4, <1>5 DEF PollNext

\* The server on PollLoop implements the service as well: a search that lands on
\* a closed connection reads nobody, and one that lands on a live connection has
\* found the very client poll() reported.
THEOREM PollRefinement == PollSpec => ImplementsService
<1>1. PollInit => Service!Init
  BY ConnInitRefines DEF PollInit
<1>2. PollInv /\ [PollNext]_pollServerVars => [Service!Next]_Service!serviceVars
  BY PollStepRefines
<1> QED BY <1>1, <1>2, PollInvariance, PTL DEF PollSpec, ImplementsService, Service!Spec

-----------------------------------------------------------------------------
(* SelectServer.                                                           *)

\* Everything that holds at the start of the program.
LEMMA SelectInitInductive == SelectInit => SelectInv
<1> SUFFICES ASSUME SelectInit PROVE SelectInv
  OBVIOUS
<1>1. ConnInv
  BY ConnInitInductive DEF SelectInit
<1> QED BY <1>1 DEF SelectInit, ConnInit, SelectInv, SelectTypeOK, ConnInv,
        SelectLoopPcs, AllWatched, SetBounded, WalkReadable

\* What the proofs below use of the walk: it stays inside the vector, whose
\* elements are accepted connections, each once.
LEMMA WalkNames ==
    ASSUME SelectInv
    PROVE  /\ DOMAIN m_connections = 1..Len(m_connections)
           /\ Len(m_connections) \in Nat
           /\ last \in 0..Len(m_connections) /\ pos \in 1..(last + 1)
           /\ \A p \in pos..last : p \in DOMAIN m_connections
           /\ \A p \in DOMAIN m_connections :
                 /\ m_connections[p] \in Clients
                 /\ m_status[m_connections[p]] # "none"
                 /\ mainPc = "add" => m_connections[p] # mainCur
           /\ \A p, q \in DOMAIN m_connections :
                 m_connections[p] = m_connections[q] => p = q
<1>1. m_connections \in Seq(Clients)
  BY DEF SelectInv, SelectTypeOK, ConnTypeOK
<1>2. /\ DOMAIN m_connections = 1..Len(m_connections) /\ Len(m_connections) \in Nat
      /\ last \in 0..Len(m_connections) /\ pos \in 1..(last + 1)
  BY <1>1 DEF SelectInv, SelectTypeOK
<1>3. \A p \in pos..last : p \in DOMAIN m_connections
  BY <1>2
<1>4. \A p \in DOMAIN m_connections : m_connections[p] \in Clients
  BY ListedClients DEF SelectInv, ConnInv
<1> QED BY <1>2, <1>3, <1>4 DEF SelectInv, ConnInv, ListedOnce, MainHolds

\* The clients and the network disturb no fact the server relies on.
LEMMA SelectClientInductive ==
    ASSUME SelectInv, ClientStep, UNCHANGED selectVars
    PROVE  SelectInv'
<1>1. /\ UNCHANGED <<m_status, m_clientfd, m_connections, loopPc, m_readFds, m_maxFd,
                     tempFds, pos, last>>
  BY DEF ClientStep, connVars, mainVars, selectVars
<1>2. ConnInv'
  BY ClientConn DEF SelectInv
<1>3. SelectTypeOK' /\ AllWatched' /\ SetBounded'
  BY <1>1, <1>2 DEF SelectInv, SelectTypeOK, ConnInv, AllWatched, Watched, SetBounded
<1>4. WalkReadable'
  <2>1. \A p \in pos..last : m_connections[p] \in Clients
    BY WalkNames
  <2> QED BY <1>1, <2>1, ClientReadable DEF SelectInv, WalkReadable
<1> QED BY <1>2, <1>3, <1>4 DEF SelectInv

\* accept(): the new connection is not in the vector yet.
LEMMA SelectAcceptInductive ==
    ASSUME SelectInv, Accept, UNCHANGED selectVars
    PROVE  SelectInv'
<1>1. PICK k \in backlog, f \in Fds :
         /\ k \in Clients
         /\ \A i \in DOMAIN m_connections : m_connections[i] # k
         /\ m_status' = [m_status EXCEPT ![k] = "CONNECTED"]
         /\ m_clientfd' = [m_clientfd EXCEPT ![k] = f]
  BY AcceptsNew DEF SelectInv
<1>2. UNCHANGED <<sock, inbox, m_connections, loopPc, m_readFds, m_maxFd, tempFds,
                  pos, last>>
  BY DEF Accept, selectVars
<1>3. ConnInv'
  BY AcceptConn DEF SelectInv
<1>4. \A p \in DOMAIN m_connections :
         /\ m_status'[m_connections[p]] = m_status[m_connections[p]]
         /\ m_clientfd'[m_connections[p]] = m_clientfd[m_connections[p]]
  BY <1>1, WalkNames DEF SelectInv, ConnInv, ConnTypeOK
<1>5. SelectTypeOK' /\ AllWatched' /\ SetBounded'
  BY <1>2, <1>3, <1>4 DEF SelectInv, SelectTypeOK, ConnInv, AllWatched, Watched,
                          SetBounded
<1>6. WalkReadable'
  BY <1>2, <1>4, WalkNames DEF SelectInv, WalkReadable, Readable
<1> QED BY <1>3, <1>5, <1>6 DEF SelectInv

\* Registering the connection just accepted widens the set and its bound together.
LEMMA SelectAddInductive ==
    ASSUME SelectInv, SelectAddConnection
    PROVE  SelectInv'
<1> DEFINE n == Len(m_connections)
           fd == m_clientfd[mainCur]
<1>1. /\ mainCur \in Clients /\ m_status[mainCur] = "CONNECTED" /\ fd \in Fds
      /\ fd \in 1..MaxFd /\ MaxFd \in Nat
  BY DEF SelectAddConnection, AfterAdd, SelectInv, ConnInv, MainHolds, FdOwnership, Fds
<1>2. /\ m_readFds' = m_readFds \cup {fd}
      /\ m_maxFd' = IF fd > m_maxFd THEN fd ELSE m_maxFd
      /\ m_connections' = Append(m_connections, mainCur)
      /\ UNCHANGED <<sock, inbox, m_status, m_clientfd, loopPc, tempFds, pos, last>>
  BY DEF SelectAddConnection, AfterAdd, netVars, connVars
<1>3. m_connections \in Seq(Clients) /\ DOMAIN m_connections = 1..n /\ n \in Nat
         /\ last \in 0..n /\ pos \in 1..(last + 1)
  BY WalkNames DEF SelectInv, SelectTypeOK, ConnTypeOK
<1>4. /\ Len(m_connections') = n + 1 /\ m_connections' \in Seq(Clients)
      /\ \A i \in 1..n : m_connections'[i] = m_connections[i]
      /\ m_connections'[n + 1] = mainCur
  BY <1>1, <1>2, <1>3, AppendProperties
<1>5. ConnInv'
  BY <1>2, AddConn DEF SelectInv, SelectAddConnection
<1>6. m_maxFd \in 0..MaxFd /\ m_readFds \subseteq 1..MaxFd /\ tempFds \subseteq m_readFds
         /\ \A f \in m_readFds : f <= m_maxFd
  BY DEF SelectInv, SelectTypeOK, SetBounded, Fds
<1>7. /\ m_maxFd' \in 0..MaxFd /\ m_readFds' \subseteq 1..MaxFd
      /\ \A f \in m_readFds' : f <= m_maxFd'
      /\ m_maxFd <= m_maxFd'
  <2>1. m_maxFd' \in 0..MaxFd /\ m_maxFd <= m_maxFd' /\ fd <= m_maxFd'
    BY <1>1, <1>2, <1>6
  <2>2. ASSUME NEW f \in m_readFds' PROVE f \in 1..MaxFd /\ f <= m_maxFd'
    <3>1. CASE f = fd
      BY <1>1, <2>1, <3>1
    <3>2. CASE f \in m_readFds
      BY <1>1, <1>6, <2>1, <3>2
    <3> QED BY <1>2, <2>2, <3>1, <3>2
  <2> QED BY <2>1, <2>2
<1>8. SelectTypeOK'
  BY <1>2, <1>3, <1>4, <1>5, <1>7 DEF SelectInv, SelectTypeOK, ConnInv, Fds
<1>9. SetBounded'
  BY <1>2, <1>6, <1>7 DEF SetBounded
<1>10. AllWatched'
  <2>1. Watched' = tempFds'
    BY <1>2, <1>6, <1>7 DEF Watched
  <2>2. ASSUME NEW i \in DOMAIN m_connections',
               m_status'[m_connections'[i]] = "CONNECTED"
        PROVE  m_clientfd'[m_connections'[i]] \in m_readFds'
    <3>1. i \in 1..n \/ i = n + 1
      BY <1>3, <1>4
    <3> QED BY <1>2, <1>3, <1>4, <2>2, <3>1 DEF SelectInv, AllWatched
  <2> QED BY <2>1, <2>2 DEF AllWatched
<1>11. WalkReadable'
  <2>1. \A p \in pos..last : m_connections'[p] = m_connections[p]
    BY <1>3, <1>4
  <2> QED BY <1>2, <2>1 DEF SelectInv, WalkReadable, Readable
<1> QED BY <1>5, <1>8, <1>9, <1>10, <1>11 DEF SelectInv

\* The sweep and the failing accept touch nothing of the set or the vector.
LEMMA SelectSweepInductive ==
    ASSUME SelectInv, UNCHANGED selectVars,
           Listen \/ CreateLoopThread \/ AcceptFails \/ SweepVisit \/ SweepEnd
    PROVE  SelectInv'
<1>1. UNCHANGED <<sock, inbox, m_status, m_clientfd, m_connections, loopPc,
                  m_readFds, m_maxFd, tempFds, pos, last>>
  BY DEF Listen, CreateLoopThread, AcceptFails, SweepVisit, SweepEnd, netVars,
         connVars, selectVars
<1>2. ConnInv'
  BY SweepConn DEF SelectInv
<1> QED BY <1>1, <1>2 DEF SelectInv, SelectTypeOK, ConnInv, AllWatched, Watched,
        SetBounded, WalkReadable, Readable

\* The copy of the set, and select() failing, timing out or being called again
\* after the walk.
LEMMA SelectRoundInductive ==
    ASSUME SelectInv, CopySet \/ SelectFails \/ SelectTimeout \/ WalkDone
    PROVE  SelectInv'
<1>1. /\ loopPc \in {"wait", "select", "dispatch"} /\ loopPc' \in {"wait", "select"}
      /\ UNCHANGED <<netVars, replies, fdTable, connVars, mainVars, loopCur, proc>>
      /\ UNCHANGED <<m_status, m_clientfd, m_connections, m_readFds, m_maxFd, pos, last>>
      /\ tempFds' \in {tempFds, m_readFds}
  BY DEF CopySet, SelectFails, SelectTimeout, WalkDone, connVars, mainVars, selectVars
<1>2. ConnInv'
  BY <1>1, LoopMovesConn DEF SelectInv, ConnInv, ConnTypeOK
<1>3. SelectTypeOK'
  BY <1>1, <1>2 DEF SelectInv, SelectTypeOK, ConnInv, SelectLoopPcs
<1>4. SetBounded' /\ AllWatched'
  BY <1>1 DEF SelectInv, SetBounded, AllWatched, Watched
<1>5. WalkReadable'
  BY <1>1 DEF WalkReadable
<1> QED BY <1>2, <1>3, <1>4, <1>5 DEF SelectInv

\* select() reports readable sockets, and a connection that is alive is the one
\* behind its descriptor.
LEMMA SelectReturnsInductive ==
    ASSUME SelectInv, SelectReturns
    PROVE  SelectInv'
<1>1. /\ tempFds' = ReadyFds /\ pos' = 1 /\ last' = Len(m_connections)
      /\ loopPc = "select" /\ loopPc' = "dispatch"
      /\ UNCHANGED <<netVars, replies, fdTable, connVars, mainVars, loopCur, proc>>
      /\ UNCHANGED <<sock, inbox, fdTable, m_status, m_clientfd, m_connections,
                     m_readFds, m_maxFd>>
  BY DEF SelectReturns, netVars, connVars, mainVars
<1>2. ConnInv'
  BY <1>1, LoopMovesConn DEF SelectInv, ConnInv, ConnTypeOK
<1>3. ReadyFds \subseteq tempFds
  BY DEF ReadyFds, Watched
<1>4. SelectTypeOK'
  BY <1>1, <1>2, <1>3, WalkNames DEF SelectInv, SelectTypeOK, ConnInv, SelectLoopPcs
<1>5. SetBounded' /\ AllWatched'
  BY <1>1, <1>3 DEF SelectInv, SetBounded, AllWatched
<1>6. ASSUME NEW k \in Clients, m_status[k] = "CONNECTED", m_clientfd[k] \in ReadyFds
      PROVE  Readable(k)
  BY <1>6 DEF ReadyFds, SelectInv, ConnInv, FdOwnership
<1>7. WalkReadable'
  BY <1>1, <1>6, WalkNames DEF WalkReadable, Readable
<1> QED BY <1>2, <1>4, <1>5, <1>7 DEF SelectInv

\* What one element of the walk comes to: the object is gone or the iterators
\* dangle, or a live connection that select() reported is read, or nothing.
LEMMA VisitsReported ==
    ASSUME SelectInv, Visit
    PROVE  LET k == m_connections[pos] IN
           /\ loopPc = "dispatch" /\ pos \in DOMAIN m_connections /\ pos <= last
           /\ pos' = pos + 1
           /\ UNCHANGED <<m_readFds, m_maxFd, tempFds, last>>
           /\ \/ Dangling
              \/ UNCHANGED connServerVars
              \/ /\ k \in Clients
                 /\ m_status[k] = "CONNECTED"
                 /\ mainPc = "add" => k # mainCur
                 /\ Readable(k)
                 /\ ReadData(k)
<1> DEFINE k == m_connections[pos]
<1>1. /\ loopPc = "dispatch" /\ pos <= last /\ pos' = pos + 1
      /\ UNCHANGED <<m_readFds, m_maxFd, tempFds, last>>
      /\ \/ Dangling
         \/ m_status[k] # "CLOSED" /\ m_clientfd[k] \in tempFds /\ ReadData(k)
         \/ UNCHANGED connServerVars
  BY DEF Visit
<1>2. pos \in pos..last /\ pos \in DOMAIN m_connections
  BY <1>1, WalkNames
<1>3. k \in Clients /\ m_status[k] # "none" /\ (mainPc = "add" => k # mainCur)
  BY <1>2, WalkNames
<1>4. m_status[k] # "CLOSED" => m_status[k] = "CONNECTED"
  BY <1>3 DEF SelectInv, ConnInv, ConnTypeOK
<1>5. m_status[k] = "CONNECTED" /\ m_clientfd[k] \in tempFds => Readable(k)
  BY <1>1, <1>2 DEF SelectInv, WalkReadable
<1> QED BY <1>1, <1>2, <1>3, <1>4, <1>5

\* One element of the walk leaves the rest of it as it was.
LEMMA VisitInductive ==
    ASSUME SelectInv, Visit
    PROVE  SelectInv'
<1> DEFINE k == m_connections[pos]
<1>1. /\ loopPc = "dispatch" /\ pos \in DOMAIN m_connections /\ pos <= last
      /\ pos' = pos + 1
      /\ UNCHANGED <<m_readFds, m_maxFd, tempFds, last>>
      /\ \/ Dangling
         \/ UNCHANGED connServerVars
         \/ /\ k \in Clients
            /\ m_status[k] = "CONNECTED"
            /\ mainPc = "add" => k # mainCur
            /\ Readable(k)
            /\ ReadData(k)
  BY VisitsReported
<1>2. /\ UNCHANGED <<sock, m_status, m_clientfd, m_connections>>
      /\ loopPc' \in {"dispatch", "send", "setClosed"}
  BY <1>1 DEF Dangling, ReadData, connServerVars, netVars, connVars, mainVars
<1>3. ConnInv'
  BY <1>1, ReadDataConn, LoopMovesConn, StutterConn
  DEF SelectInv, ConnInv, ConnTypeOK, Dangling
<1>4. SelectTypeOK'
  BY <1>1, <1>2, <1>3, WalkNames DEF SelectInv, SelectTypeOK, ConnInv, SelectLoopPcs
<1>5. SetBounded' /\ AllWatched'
  BY <1>1, <1>2 DEF SelectInv, SetBounded, AllWatched
<1>6. WalkReadable'
  <2>1. ASSUME NEW p \in (pos + 1)..last, Readable(m_connections[p])
        PROVE  Readable(m_connections[p])'
    <3>1. /\ p \in DOMAIN m_connections /\ p # pos
          /\ m_connections[p] \in Clients /\ m_connections[p] # k
      BY <1>1, WalkNames
    <3>2. CASE ReadData(k) /\ k \in Clients /\ m_status[k] = "CONNECTED"
      <4>1. \A j \in Clients : Readable(j) /\ j # k => Readable(j)'
        BY <3>2, ReadDataReadable DEF SelectInv
      <4> QED BY <1>2, <2>1, <3>1, <4>1 DEF Readable
    <3>3. CASE Dangling \/ UNCHANGED connServerVars
      BY <1>2, <2>1, <3>3 DEF Dangling, connServerVars, netVars, Readable
    <3> QED BY <1>1, <3>2, <3>3
  <2>2. \A p \in (pos + 1)..last : p \in pos..last
    BY <1>1, WalkNames
  <2> QED BY <1>1, <1>2, <2>1, <2>2 DEF SelectInv, WalkReadable, Readable
<1> QED BY <1>3, <1>4, <1>5, <1>6 DEF SelectInv

\* close() leaves the sockets the walk has still to reach as they are.
LEMMA SelectCloseFdInductive ==
    ASSUME SelectInv, CloseFd, UNCHANGED selectVars
    PROVE  SelectInv'
<1>1. /\ loopPc' = "logClosed" /\ loopPc = "closeFd"
      /\ UNCHANGED <<m_status, m_clientfd, m_connections, m_readFds, m_maxFd,
                     tempFds, pos, last>>
  BY DEF CloseFd, connVars, mainVars, selectVars
<1>2. ConnInv'
  BY CloseFdConn DEF SelectInv
<1>3. SelectTypeOK' /\ AllWatched' /\ SetBounded'
  BY <1>1, <1>2 DEF SelectInv, SelectTypeOK, ConnInv, SelectLoopPcs, AllWatched,
                    SetBounded
<1>4. WalkReadable'
  <2>1. \A p \in pos..last : m_connections[p] \in Clients
    BY WalkNames
  <2>2. \A j \in Clients : Readable(j) /\ m_status[j] = "CONNECTED" => Readable(j)'
    BY CloseFdReadable DEF SelectInv
  <2> QED BY <1>1, <2>1, <2>2 DEF SelectInv, WalkReadable, Readable
<1> QED BY <1>2, <1>3, <1>4 DEF SelectInv

\* The loop thread's other steps change no connection but the one in its hands.
LEMMA SelectLoopCommonInductive ==
    ASSUME SelectInv, LoopCommon, UNCHANGED selectVars
    PROVE  SelectInv'
<1>1. /\ loopPc \in {"send", "sendFailed", "setClosed", "closeFd", "logClosed"}
      /\ loopPc' \in {"dispatch", "send", "sendFailed", "setClosed", "closeFd",
                     "logClosed"}
      /\ UNCHANGED <<sock, inbox, m_clientfd, m_connections, m_readFds, m_maxFd,
                     tempFds, pos, last>>
  BY DEF LoopCommon, SendData, SetClosed, LogClosed, CloseDangling, Dangling,
         netVars, connVars, mainVars, selectVars
<1>2. m_status' = m_status \/ m_status' = [m_status EXCEPT ![loopCur] = "CLOSED"]
  BY DEF LoopCommon, SendData, SetClosed, LogClosed, CloseDangling, Dangling, connVars
<1>3. ConnInv'
  BY LoopCommonConn DEF SelectInv
<1>4. \A p \in DOMAIN m_connections :
         m_status'[m_connections[p]] = "CONNECTED" =>
            m_status[m_connections[p]] = "CONNECTED"
  BY <1>2, WalkNames DEF SelectInv, ConnInv, ConnTypeOK
<1>5. SelectTypeOK' /\ AllWatched' /\ SetBounded'
  BY <1>1, <1>3, <1>4 DEF SelectInv, SelectTypeOK, ConnInv, SelectLoopPcs,
                          AllWatched, SetBounded
<1>6. WalkReadable'
  BY <1>1, <1>4, WalkNames DEF SelectInv, WalkReadable, Readable
<1> QED BY <1>3, <1>5, <1>6 DEF SelectInv

\* Every step of the program keeps the inductive invariant.
LEMMA SelectNextInductive ==
    ASSUME SelectInv, [SelectNext]_selectServerVars
    PROVE  SelectInv'
<1>1. CASE UNCHANGED selectServerVars
  <2>1. UNCHANGED connServerVars /\ UNCHANGED selectVars
    BY <1>1 DEF selectServerVars
  <2>2. ConnInv'
    BY <2>1, StutterConn DEF SelectInv
  <2> QED BY <2>1, <2>2 DEF connServerVars, netVars, connVars, mainVars, selectVars,
          SelectInv, SelectTypeOK, ConnInv, AllWatched, Watched, SetBounded,
          WalkReadable, Readable
<1>2. CASE ClientStep /\ UNCHANGED selectVars
  BY <1>2, SelectClientInductive
<1>3. CASE SelectMainStep
  BY <1>3, SelectAcceptInductive, SelectAddInductive, SelectSweepInductive
  DEF SelectMainStep, MainCommon
<1>4. CASE SelectLoopStep
  BY <1>4, SelectRoundInductive, SelectReturnsInductive, VisitInductive,
     SelectCloseFdInductive, SelectLoopCommonInductive
  DEF SelectLoopStep
<1> QED BY <1>1, <1>2, <1>3, <1>4 DEF SelectNext

\* The inductive invariant holds throughout.
THEOREM SelectInvariance == SelectSpec => []SelectInv
<1>1. SelectInit => SelectInv
  BY SelectInitInductive
<1>2. SelectInv /\ [SelectNext]_selectServerVars => SelectInv'
  BY SelectNextInductive
<1> QED BY <1>1, <1>2, PTL DEF SelectSpec

\* Every variable keeps its type; in particular the walk stays inside the vector,
\* for any number of clients.
THEOREM SelectTypeCorrect == SelectSpec => []SelectTypeOK
BY SelectInvariance, PTL DEF SelectInv

\* Reading m_maxFd after the unlock hides no descriptor of the copy from select(),
\* and no connection that is alive is missing from the set.
THEOREM SelectAllWatched == SelectSpec => []AllWatched
BY SelectInvariance, PTL DEF SelectInv

\* Descriptors are neither leaked nor stolen, and the sweep destroys only CLOSED
\* connections, under SelectLoop too.
THEOREM SelectOwnership == SelectSpec => [](FdOwnership /\ SweepSound)
BY SelectInvariance, PTL DEF SelectInv, ConnInv

\* Every step of the program is a step of the service or shows nothing of itself.
LEMMA SelectStepRefines ==
    ASSUME SelectInv, [SelectNext]_selectServerVars
    PROVE  [Service!Next]_Service!serviceVars
<1>1. ConnInv
  BY DEF SelectInv
<1>2. CASE ClientStep
  BY <1>2, ClientRefines
<1>3. CASE SelectMainStep
  BY <1>3, MainRefines DEF SelectMainStep, SelectAddConnection
<1>4. CASE SelectLoopStep
  <2>1. CASE Visit
    <3>1. loopPc = "dispatch"
      BY <2>1 DEF Visit
    <3>2. CASE Dangling
      BY <3>1, <3>2, LoopMovesRefines DEF Dangling, netVars
    <3>3. CASE UNCHANGED connServerVars
      BY <3>3 DEF connServerVars, netVars, Service!serviceVars
    <3>4. CASE \E k \in Clients :
                  m_status[k] = "CONNECTED" /\ Readable(k) /\ ReadData(k)
      BY <1>1, <3>1, <3>4, ReadDataRefines
    <3> QED BY <2>1, <3>2, <3>3, <3>4, VisitsReported
  <2>2. CASE LoopCommon \/ CloseFd
    BY <1>1, <2>2, LoopCommonRefines
  <2>3. CASE CopySet \/ SelectFails \/ SelectTimeout \/ SelectReturns \/ WalkDone
    BY <2>3, LoopMovesRefines DEF CopySet, SelectFails, SelectTimeout, SelectReturns,
                                  WalkDone, netVars
  <2> QED BY <1>4, <2>1, <2>2, <2>3 DEF SelectLoopStep
<1>5. CASE UNCHANGED selectServerVars
  BY <1>5 DEF selectServerVars, connServerVars, netVars, Service!serviceVars
<1> QED BY <1>2, <1>3, <1>4, <1>5 DEF SelectNext

\* The server on SelectLoop implements the service as well: the walk calls
\* readData() only on clients select() reported, so no idle client is taken for
\* one that has gone.
THEOREM SelectRefinement == SelectSpec => ImplementsService
<1>1. SelectInit => Service!Init
  BY ConnInitRefines DEF SelectInit
<1>2. SelectInv /\ [SelectNext]_selectServerVars => [Service!Next]_Service!serviceVars
  BY SelectStepRefines
<1> QED BY <1>1, <1>2, SelectInvariance, PTL
        DEF SelectSpec, ImplementsService, Service!Spec
=============================================================================
