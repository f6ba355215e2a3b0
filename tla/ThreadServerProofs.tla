--------------------------- MODULE ThreadServerProofs ---------------------------
(***************************************************************************)
(* Safety of the threaded server for any number of clients and of          *)
(* descriptors, and the proof that it implements OneAnswer.                *)
(***************************************************************************)
EXTENDS ThreadServer, TLAPS

USE ThreadAssumption

\* Before the first connection there is nothing to mix up.
LEMMA InitInductive == Init => IInv
BY DEF Init, IInv, TypeOK, OwnDescriptor, NoDescriptorLost, OneDescriptor,
       MainHolds, NotYetAccepted, Fds, Open

\* A client that connects joins the end of the queue, where it is not yet.
LEMMA ConnectInductive ==
    ASSUME IInv, ClientStep, NEW k \in Clients, Connect(k)
    PROVE  IInv'
<1> USE DEF ClientStep, Connect, IInv
<1>1. /\ backlog \in Seq(Clients) /\ backlog' \in Seq(Clients)
      /\ Len(backlog') = Len(backlog) + 1 /\ Len(backlog) \in Nat
      /\ DOMAIN backlog = 1..Len(backlog) /\ DOMAIN backlog' = 1..(Len(backlog) + 1)
      /\ \A i \in DOMAIN backlog : backlog'[i] = backlog[i] /\ backlog[i] \in Clients
      /\ backlog'[Len(backlog) + 1] = k
  BY DEF TypeOK
<1>2. TypeOK'
  BY <1>1 DEF TypeOK
<1>3. OwnDescriptor' /\ NoDescriptorLost' /\ OneDescriptor' /\ MainHolds'
  BY DEF OwnDescriptor, NoDescriptorLost, OneDescriptor, MainHolds
<1>4. \A j \in Clients : Open(j)' = Open(j)
  BY DEF Open
<1>5. /\ peer[k] = "idle" /\ pc[k] = "none" /\ cell[k] = 0 /\ ~Open(k)
      /\ \A i \in DOMAIN backlog : backlog[i] # k
  BY <1>1 DEF NotYetAccepted
<1>6. \A i, j \in DOMAIN backlog' : backlog'[i] = backlog'[j] => i = j
  BY <1>1, <1>5 DEF NotYetAccepted
<1>7. \A j \in Clients : peer'[j] = "idle" => peer[j] = "idle" /\ j # k
  BY DEF TypeOK
<1>8. \A i \in DOMAIN backlog' :
         /\ peer'[backlog'[i]] # "idle"
         /\ pc[backlog'[i]] = "none" /\ cell[backlog'[i]] = 0 /\ ~Open(backlog'[i])
  BY <1>1, <1>5, <1>7 DEF NotYetAccepted
<1>9. NotYetAccepted'
  BY <1>1, <1>4, <1>6, <1>7, <1>8 DEF NotYetAccepted, Open
<1> QED BY <1>2, <1>3, <1>9

\* A message or the end of a connection disturbs nothing the server relies on.
LEMMA SendLeaveInductive ==
    ASSUME IInv, ClientStep, NEW k \in Clients, Send(k) \/ Leave(k)
    PROVE  IInv'
<1> USE DEF ClientStep, Send, Leave, IInv
<1>1. TypeOK'
  BY DEF TypeOK
<1>2. OwnDescriptor' /\ NoDescriptorLost' /\ OneDescriptor' /\ MainHolds'
  BY DEF OwnDescriptor, NoDescriptorLost, OneDescriptor, MainHolds
<1>3. \A j \in Clients : peer'[j] = "idle" <=> peer[j] = "idle"
  BY DEF TypeOK
<1>4. NotYetAccepted'
  BY <1>3 DEF NotYetAccepted, Open, TypeOK
<1> QED BY <1>1, <1>2, <1>4

\* Listening, or the end for want of a socket, touches no connection.
LEMMA ListenInductive ==
    ASSUME IInv, Listen
    PROVE  IInv'
BY DEF Listen, network, IInv, TypeOK, OwnDescriptor, NoDescriptorLost, OneDescriptor,
       MainHolds, NotYetAccepted, Open

\* accept() takes the first of the queue and gives it a descriptor nobody has.
LEMMA AcceptInductive ==
    ASSUME IInv, Accept
    PROVE  IInv'
<1> DEFINE k == Head(backlog)
<1>1. PICK f \in Fds :
         /\ fdTable[f] = NoClient
         /\ fdTable' = [fdTable EXCEPT ![f] = k]
         /\ conn_fd' = f
         /\ cell' = [cell EXCEPT ![k] = f]
  BY DEF Accept
<1>2. /\ backlog # <<>> /\ backlog' = Tail(backlog) /\ mainPc' = "create"
      /\ mainPc = "accept" /\ UNCHANGED <<peer, inbox, got, pc, fd, proc>>
  BY DEF Accept
<1>3. /\ backlog \in Seq(Clients) /\ backlog' \in Seq(Clients)
      /\ DOMAIN backlog = 1..Len(backlog) /\ Len(backlog) \in Nat \ {0}
      /\ DOMAIN backlog' = 1..(Len(backlog) - 1)
      /\ \A i \in DOMAIN backlog' : backlog'[i] = backlog[i + 1] /\ i + 1 \in DOMAIN backlog
      /\ \A i \in DOMAIN backlog : backlog[i] \in Clients
      /\ k = backlog[1] /\ 1 \in DOMAIN backlog /\ k \in Clients
  BY <1>2 DEF IInv, TypeOK
<1>4. /\ peer[k] # "idle" /\ pc[k] = "none" /\ cell[k] = 0 /\ ~Open(k) /\ k # NoClient
      /\ \A i \in DOMAIN backlog' : backlog'[i] # k
  BY <1>3 DEF IInv, NotYetAccepted
<1>5. TypeOK'
  BY <1>1, <1>2, <1>3 DEF IInv, TypeOK, Fds
<1> HIDE DEF k
<1>6. /\ fdTable'[f] = k /\ cell'[k] = f
      /\ \A g \in Fds \ {f} : fdTable'[g] = fdTable[g] /\ fdTable[g] # k
      /\ \A j \in Clients \ {k} : cell'[j] = cell[j]
  BY <1>1, <1>3, <1>4 DEF IInv, TypeOK, Open
<1>7. OwnDescriptor'
  BY <1>1, <1>2, <1>4, <1>6 DEF IInv, OwnDescriptor, TypeOK, Fds
<1>8. NoDescriptorLost' /\ OneDescriptor'
  BY <1>1, <1>2, <1>6 DEF IInv, NoDescriptorLost, OneDescriptor
<1>9. MainHolds'
  BY <1>1, <1>2, <1>3, <1>4, <1>6 DEF MainHolds
<1>10. \A j \in Clients \ {k} : ~Open(j) => ~Open(j)'
  BY <1>6 DEF Open
<1>11. NotYetAccepted'
  <2>1. \A i, j \in DOMAIN backlog' : backlog'[i] = backlog'[j] => i = j
    BY <1>3 DEF IInv, NotYetAccepted
  <2>2. \A i \in DOMAIN backlog' :
           /\ peer'[backlog'[i]] # "idle"
           /\ pc'[backlog'[i]] = "none" /\ cell'[backlog'[i]] = 0
           /\ ~Open(backlog'[i]) /\ backlog'[i] \in Clients \ {k}
    BY <1>2, <1>3, <1>4, <1>6 DEF IInv, NotYetAccepted
  <2>3. \A j \in Clients : peer'[j] = "idle" =>
           pc'[j] = "none" /\ cell'[j] = 0 /\ ~Open(j)' /\ j # k
    BY <1>2, <1>4, <1>6, <1>10 DEF IInv, NotYetAccepted
  <2> QED BY <2>1, <2>2, <2>3, <1>10 DEF NotYetAccepted, Open
<1> QED BY <1>5, <1>7, <1>8, <1>9, <1>11 DEF IInv

\* The thread that is created finds its descriptor in its own cell.
LEMMA CreateThreadInductive ==
    ASSUME IInv, CreateThread
    PROVE  IInv'
<1> DEFINE k == fdTable[conn_fd]
<1> USE DEF CreateThread, network, IInv
<1>1. /\ k \in Clients /\ pc[k] = "none" /\ cell[k] = conn_fd /\ conn_fd \in Fds
      /\ peer[k] # "idle" /\ \A i \in DOMAIN backlog : backlog[i] # k
      /\ conn_fd # 0
  BY DEF MainHolds, NotYetAccepted, Open, Fds
<1>2. /\ pc'[k] = "start" /\ pc' \in [Clients -> {"none", "start", "recv", "send", "close", "exited"}]
      /\ \A j \in Clients \ {k} : pc'[j] = pc[j]
  BY <1>1 DEF TypeOK
<1>3. TypeOK'
  BY <1>2 DEF TypeOK
<1>4. OwnDescriptor' /\ OneDescriptor' /\ MainHolds'
  BY <1>1, <1>2 DEF OwnDescriptor, OneDescriptor, MainHolds
<1>5. NoDescriptorLost'
  BY <1>1, <1>2 DEF NoDescriptorLost, TypeOK
<1>6. \A i \in DOMAIN backlog : backlog[i] \in Clients
  BY DEF TypeOK
<1>7. NotYetAccepted'
  BY <1>1, <1>2, <1>6 DEF NotYetAccepted, Open
<1> QED BY <1>3, <1>4, <1>5, <1>7

\* A connection for which there is no thread is closed by main.
LEMMA CreateFailsInductive ==
    ASSUME IInv, CreateFails
    PROVE  IInv'
<1> USE DEF CreateFails, network, IInv
<1>1. conn_fd \in Fds /\ pc[fdTable[conn_fd]] = "none" /\ fdTable[conn_fd] \in Clients
  BY DEF MainHolds
<1>2. /\ fdTable'[conn_fd] = NoClient
      /\ \A g \in Fds \ {conn_fd} : fdTable'[g] = fdTable[g]
      /\ fdTable' \in [Fds -> Clients \cup {NoClient}]
  BY <1>1 DEF TypeOK
<1>3. TypeOK'
  BY <1>2 DEF TypeOK
<1>4. OwnDescriptor'
  BY <1>1, <1>2 DEF OwnDescriptor, TypeOK, Fds
<1>5. NoDescriptorLost' /\ OneDescriptor' /\ MainHolds'
  BY <1>2 DEF NoDescriptorLost, OneDescriptor, MainHolds
<1>6. \A j \in Clients : Open(j)' => Open(j)
  BY <1>2 DEF Open
<1>7. \A i \in DOMAIN backlog : backlog[i] \in Clients
  BY DEF TypeOK
<1>8. NotYetAccepted'
  BY <1>2, <1>6, <1>7 DEF NotYetAccepted, Open
<1> QED BY <1>3, <1>4, <1>5, <1>8

\* A thread that takes its cell, receives or answers keeps its descriptor.
LEMMA ThreadMoveInductive ==
    ASSUME IInv, NEW k \in Clients, TakeCell(k) \/ Recv(k) \/ SendAnswer(k)
    PROVE  IInv'
<1> USE DEF TakeCell, Recv, SendAnswer, Goto, network, IInv
<1>1. /\ pc[k] \in {"start", "recv", "send"}
      /\ UNCHANGED <<peer, backlog, fdTable, mainPc, conn_fd>>
      /\ \A j \in Clients \ {k} : cell'[j] = cell[j] /\ fd'[j] = fd[j]
  BY DEF TypeOK
<1>2. /\ pc'[k] \in {"recv", "send", "close"}
      /\ \A j \in Clients \ {k} : pc'[j] = pc[j]
  BY DEF TypeOK
<1>3. fd'[k] # 0 /\ fdTable[fd'[k]] = k
  BY DEF OwnDescriptor, TypeOK
<1>4. TypeOK'
  <2>1. UNCHANGED pc \/ \E s \in {"recv", "send", "close"} : pc' = [pc EXCEPT ![k] = s]
    OBVIOUS
  <2>2. pc' \in [Clients -> {"none", "start", "recv", "send", "close", "exited"}]
    BY <2>1 DEF TypeOK
  <2>3. cell' \in [Clients -> 0..MaxFd] /\ fd' \in [Clients -> 0..MaxFd]
    <3>1. /\ UNCHANGED cell \/ cell' = [cell EXCEPT ![k] = 0]
          /\ UNCHANGED fd \/ fd' = [fd EXCEPT ![k] = cell[k]]
      OBVIOUS
    <3>2. /\ cell \in [Clients -> 0..MaxFd] /\ fd \in [Clients -> 0..MaxFd]
          /\ 0 \in 0..MaxFd
      BY DEF TypeOK
    <3> HIDE DEF TakeCell, Recv, SendAnswer, IInv
    <3> QED BY <3>1, <3>2
  <2>6. inbox' \subseteq Clients
    BY DEF TypeOK
  <2>4. got' \in [Clients -> Nat]
    <3>1. UNCHANGED got \/ \E j \in Clients : got' = [got EXCEPT ![j] = @ + 1]
      OBVIOUS
    <3>2. got \in [Clients -> Nat]
      BY DEF TypeOK
    <3>3. ASSUME NEW j \in Clients, got' = [got EXCEPT ![j] = @ + 1]
          PROVE  got' \in [Clients -> Nat]
      <4> HIDE DEF TakeCell, Recv, SendAnswer, IInv
      <4> QED BY <3>2, <3>3
    <3> QED BY <3>1, <3>2, <3>3
  <2>5. proc' \in {"running", "killed"}
    BY DEF TypeOK
  <2> QED BY <1>1, <2>2, <2>3, <2>4, <2>5, <2>6 DEF TypeOK
<1>5. OwnDescriptor'
  BY <1>1, <1>2, <1>3 DEF OwnDescriptor
<1>6. NoDescriptorLost' /\ OneDescriptor'
  BY <1>1, <1>2 DEF NoDescriptorLost, OneDescriptor, TypeOK
<1>7. MainHolds'
  BY <1>1, <1>2 DEF MainHolds
<1>8. NotYetAccepted'
  <2>1. \A i \in DOMAIN backlog : backlog[i] \in Clients \ {k}
    BY <1>1 DEF NotYetAccepted, TypeOK
  <2> QED BY <1>1, <1>2, <2>1 DEF NotYetAccepted, Open
<1> QED BY <1>4, <1>5, <1>6, <1>7, <1>8

\* A thread closes the descriptor of its own client, the only one it has.
LEMMA CloseInductive ==
    ASSUME IInv, NEW k \in Clients, Close(k)
    PROVE  IInv'
<1> USE DEF Close, Goto, network, IInv
<1>1. pc[k] = "close" /\ fd[k] \in Fds /\ fdTable[fd[k]] = k
  BY DEF OwnDescriptor, TypeOK, Fds
<1>2. /\ fdTable'[fd[k]] = NoClient
      /\ \A g \in Fds \ {fd[k]} : fdTable'[g] = fdTable[g] /\ fdTable[g] # k
      /\ fdTable' \in [Fds -> Clients \cup {NoClient}]
  BY <1>1 DEF TypeOK, OneDescriptor
<1>3. /\ pc'[k] = "exited" /\ \A j \in Clients \ {k} : pc'[j] = pc[j]
      /\ pc' \in [Clients -> {"none", "start", "recv", "send", "close", "exited"}]
  BY DEF TypeOK
<1>4. TypeOK'
  BY <1>2, <1>3 DEF TypeOK
<1>5. OwnDescriptor'
  BY <1>1, <1>2, <1>3 DEF OwnDescriptor, TypeOK, Fds
<1>6. NoDescriptorLost' /\ OneDescriptor' /\ MainHolds'
  BY <1>1, <1>2, <1>3 DEF NoDescriptorLost, OneDescriptor, MainHolds, TypeOK
<1>7. \A j \in Clients : Open(j)' => Open(j)
  BY <1>2 DEF Open
<1>8. \A i \in DOMAIN backlog : backlog[i] \in Clients \ {k}
  BY <1>1 DEF NotYetAccepted, TypeOK
<1>9. NotYetAccepted'
  BY <1>1, <1>3, <1>7, <1>8 DEF NotYetAccepted, Open
<1> QED BY <1>4, <1>5, <1>6, <1>9

\* Every step of the program keeps the inductive invariant.
LEMMA NextInductive ==
    ASSUME IInv, [Next]_vars
    PROVE  IInv'
<1>1. CASE UNCHANGED vars
  BY <1>1 DEF vars, IInv, TypeOK, OwnDescriptor, NoDescriptorLost, OneDescriptor,
              MainHolds, NotYetAccepted, Open
<1>2. CASE ClientStep
  BY <1>2, ConnectInductive, SendLeaveInductive DEF ClientStep
<1>3. CASE MainStep
  BY <1>3, ListenInductive, AcceptInductive, CreateThreadInductive, CreateFailsInductive
     DEF MainStep
<1>4. ASSUME NEW k \in Clients, ThreadStep(k)
      PROVE  IInv'
  BY <1>4, ThreadMoveInductive, CloseInductive DEF ThreadStep
<1> QED BY <1>1, <1>2, <1>3, <1>4 DEF Next

\* The inductive invariant holds throughout.
THEOREM Invariance == Spec => []IInv
<1>1. Init => IInv
  BY InitInductive
<1>2. IInv /\ [Next]_vars => IInv'
  BY NextInductive
<1> QED BY <1>1, <1>2, PTL DEF Spec

\* Every variable keeps its type, for any number of clients.
THEOREM TypeCorrect == Spec => []TypeOK
BY Invariance, PTL DEF IInv

\* However late a thread starts and however descriptors are reused, it works on
\* the descriptor of its own client.
THEOREM DescriptorsOwned == Spec => []OwnDescriptor
BY Invariance, PTL DEF IInv

\* No descriptor is left behind that nobody is going to close.
THEOREM DescriptorsKept == Spec => []NoDescriptorLost
BY Invariance, PTL DEF IInv

-----------------------------------------------------------------------------
(* No client that stays is forgotten.                                      *)

\* What NobodyForgotten says of one client that stays.
Handled(k) ==
    \/ /\ \/ Queued(k)
          \/ mainPc = "create" /\ fdTable[conn_fd] = k
          \/ pc[k] \in {"start", "recv"}
       /\ peer[k] = "sent" => k \in inbox
    \/ peer[k] = "sent" /\ pc[k] = "send"
    \/ peer[k] = "sent" /\ pc[k] \in {"close", "exited"} /\ got[k] = 1
    \/ pc[k] = "none" /\ cell[k] # 0 /\ ~Open(k)

\* A client in main's hands or in the queue has no thread and no answer yet.
LEMMA BeforeItsThread ==
    ASSUME IInv, NEW k \in Clients,
           Queued(k) \/ (mainPc = "create" /\ fdTable[conn_fd] = k)
    PROVE  pc[k] = "none" /\ (Queued(k) => cell[k] = 0 /\ ~Open(k))
<1>1. CASE Queued(k)
  BY <1>1 DEF IInv, NotYetAccepted, Queued
<1>2. CASE mainPc = "create" /\ fdTable[conn_fd] = k /\ ~Queued(k)
  BY <1>2 DEF IInv, MainHolds
<1> QED BY <1>1, <1>2

\* Clients send what they send once connected, and only their thread answers.
LEMMA SentBeforeInductive ==
    ASSUME IInv, SentBefore, [Next]_vars
    PROVE  SentBefore'
<1> USE DEF SentBefore
<1>1. /\ peer \in [Clients -> {"idle", "connected", "sent", "left", "broken", "reset"}]
      /\ pc \in [Clients -> {"none", "start", "recv", "send", "close", "exited"}]
      /\ got \in [Clients -> Nat] /\ inbox \subseteq Clients
  BY DEF IInv, TypeOK
<1>2. CASE UNCHANGED vars
  BY <1>2 DEF vars
<1>3. CASE ClientStep
  BY <1>1, <1>3 DEF ClientStep, Connect, Send, Leave
<1>4. CASE MainStep
  <2>1. UNCHANGED <<peer, inbox, got>>
    BY <1>4 DEF MainStep, Listen, Accept, CreateThread, CreateFails, network
  <2>2. \A k \in Clients : pc'[k] = pc[k] \/ pc[k] = "none"
    BY <1>1, <1>4 DEF MainStep, Listen, Accept, CreateThread, CreateFails, network, IInv,
                      MainHolds
  <2> QED BY <2>1, <2>2
<1>5. ASSUME NEW k \in Clients, ThreadStep(k)
      PROVE  SentBefore'
  <2>1. CASE SendAnswer(k)
    <3>1. fdTable[fd[k]] = k
      BY <2>1 DEF SendAnswer, IInv, OwnDescriptor
    <3>2. /\ UNCHANGED <<peer, inbox>>
          /\ \/ UNCHANGED <<got, pc>>
             \/ /\ got' = [got EXCEPT ![k] = @ + 1] \/ UNCHANGED got
                /\ pc' = [pc EXCEPT ![k] = "close"]
      BY <2>1, <3>1 DEF SendAnswer, Goto, network
    <3> QED BY <1>1, <3>2
  <2>2. CASE TakeCell(k) \/ Recv(k) \/ Close(k)
    <3>1. /\ UNCHANGED <<peer, got>> /\ inbox' \subseteq inbox
          /\ \A j \in Clients : \/ pc'[j] = pc[j]
                                \/ pc[j] \in {"start", "recv"}
                                \/ pc'[j] = "exited"
      BY <1>1, <2>2 DEF TakeCell, Recv, Close, Goto, network
    <3> QED BY <1>1, <3>1
  <2> QED BY <1>5, <2>1, <2>2 DEF ThreadStep
<1> QED BY <1>2, <1>3, <1>4, <1>5 DEF Next

\* What a client does leaves it handled.
LEMMA ClientHandled ==
    ASSUME IInv, NobodyForgotten, ClientStep, NEW k \in Clients,
           peer'[k] \in {"connected", "sent"}
    PROVE  Handled(k)'
<1> USE DEF NobodyForgotten
<1>1. /\ peer \in [Clients -> {"idle", "connected", "sent", "left", "broken", "reset"}]
      /\ backlog \in Seq(Clients) /\ inbox \subseteq Clients
      /\ UNCHANGED <<got, fdTable, mainPc, conn_fd, cell, pc>>
      /\ Open(k)' = Open(k)
  BY DEF IInv, TypeOK, ClientStep, Connect, Send, Leave, Open
<1>2. PICK j \in Clients : Connect(j) \/ Send(j) \/ Leave(j)
  BY DEF ClientStep
<1>3. CASE Connect(j)
  <2>1. Queued(j)' /\ (Queued(k) => Queued(k)')
    <3>1. /\ DOMAIN backlog = 1..Len(backlog) /\ Len(backlog) \in Nat
          /\ DOMAIN backlog' = 1..(Len(backlog) + 1)
          /\ \A i \in DOMAIN backlog : backlog'[i] = backlog[i]
          /\ backlog'[Len(backlog) + 1] = j
      BY <1>1, <1>3 DEF Connect
    <3> QED BY <3>1 DEF Queued
  <2>2. CASE k = j
    <3>1. peer'[k] = "connected"
      BY <1>1, <1>3, <2>2 DEF Connect
    <3> QED BY <2>1, <2>2, <3>1 DEF Handled
  <2>3. CASE k # j
    <3>1. peer'[k] = peer[k] /\ UNCHANGED inbox
      BY <1>1, <1>3, <2>3 DEF Connect
    <3>2. Handled(k)
      BY <3>1 DEF Handled
    <3> QED BY <1>1, <2>1, <3>1, <3>2 DEF Handled
  <2> QED BY <2>2, <2>3
<1>4. CASE Send(j) \/ Leave(j)
  <2>1. /\ UNCHANGED backlog
        /\ k \in inbox => k \in inbox'
        /\ peer[k] \in {"connected", "sent"}
        /\ peer'[k] # peer[k] => peer[k] = "connected" /\ k \in inbox'
    BY <1>1, <1>4 DEF Send, Leave
  <2>2. Handled(k)
    BY <2>1 DEF Handled
  <2> QED BY <1>1, <2>1, <2>2 DEF Handled, Queued
<1> QED BY <1>2, <1>3, <1>4

\* Main hands a client on; one that it turns away it closes.
LEMMA MainHandles ==
    ASSUME IInv, NobodyForgotten, MainStep, NEW k \in Clients,
           peer'[k] \in {"connected", "sent"}
    PROVE  Handled(k)'
<1> USE DEF NobodyForgotten
<1>1. UNCHANGED <<peer, inbox, got>> /\ Handled(k)
  BY DEF MainStep, Listen, Accept, CreateThread, CreateFails, network, Handled
<1>2. CASE Accept
  <2>1. /\ backlog \in Seq(Clients) /\ backlog # <<>> /\ mainPc' = "create" /\ UNCHANGED pc
        /\ mainPc = "accept" /\ backlog' = Tail(backlog)
    BY <1>2 DEF Accept, IInv, TypeOK
  <2>2. /\ fdTable'[conn_fd'] = Head(backlog)
        /\ \A f \in Fds : fdTable'[f] # Head(backlog) => fdTable'[f] = fdTable[f]
        /\ \A j \in Clients : j # Head(backlog) => cell'[j] = cell[j]
    BY <1>2, <2>1 DEF Accept, IInv, TypeOK
  <2>3. CASE k = Head(backlog)
    <3>1. Queued(k)
      BY <2>1, <2>3 DEF Queued
    <3>2. k \in inbox \/ peer[k] # "sent"
      BY <1>1, <3>1, BeforeItsThread DEF Handled
    <3> QED BY <1>1, <2>1, <2>2, <2>3, <3>2 DEF Handled
  <2>4. CASE k # Head(backlog)
    <3>1. Queued(k) => Queued(k)'
      <4> SUFFICES ASSUME NEW i \in DOMAIN backlog, backlog[i] = k
                   PROVE  Queued(k)'
        BY DEF Queued
      <4>1. i - 1 \in DOMAIN backlog' /\ backlog'[i - 1] = k
        BY <2>1, <2>4
      <4> QED BY <4>1 DEF Queued
    <3>2. ~Open(k) => ~Open(k)'
      BY <2>2, <2>4 DEF Open
    <3>3. cell'[k] = cell[k]
      BY <2>2, <2>4
    <3> QED BY <1>1, <2>1, <3>1, <3>2, <3>3 DEF Handled
  <2> QED BY <2>3, <2>4
<1>3. CASE CreateThread
  <2>1. /\ UNCHANGED <<backlog, fdTable, conn_fd, cell>> /\ mainPc = "create"
        /\ pc' = [pc EXCEPT ![fdTable[conn_fd]] = "start"]
        /\ conn_fd \in Fds
    BY <1>3 DEF CreateThread, network, IInv, MainHolds
  <2>2. Open(k)' = Open(k) /\ Queued(k)' = Queued(k)
    BY <2>1 DEF Open, Queued
  <2>3. CASE k = fdTable[conn_fd]
    <3>1. pc'[k] = "start" /\ pc[k] = "none" /\ Open(k)
      BY <2>1, <2>3, BeforeItsThread DEF IInv, TypeOK, Open
    <3> QED BY <1>1, <3>1 DEF Handled
  <2>4. CASE k # fdTable[conn_fd]
    <3>1. pc'[k] = pc[k]
      BY <2>1, <2>4 DEF IInv, TypeOK
    <3> QED BY <1>1, <2>1, <2>2, <2>4, <3>1 DEF Handled
  <2> QED BY <2>3, <2>4
<1>4. CASE CreateFails
  <2>1. /\ UNCHANGED <<backlog, conn_fd, cell, pc>> /\ mainPc = "create"
        /\ conn_fd \in Fds /\ fdTable[conn_fd] \in Clients
        /\ fdTable'[conn_fd] = NoClient
        /\ \A f \in Fds \ {conn_fd} : fdTable'[f] = fdTable[f]
        /\ cell[fdTable[conn_fd]] = conn_fd /\ conn_fd # 0
        /\ pc[fdTable[conn_fd]] = "none"
    BY <1>4 DEF CreateFails, network, IInv, MainHolds, TypeOK, Fds
  <2>2. ~Open(k) => ~Open(k)'
    BY <2>1 DEF Open
  <2>3. CASE k = fdTable[conn_fd]
    <3>1. ~Open(k)'
      BY <2>1, <2>3 DEF Open, IInv, OneDescriptor
    <3> QED BY <2>1, <2>3, <3>1 DEF Handled
  <2>4. CASE k # fdTable[conn_fd]
    BY <1>1, <2>1, <2>2, <2>4 DEF Handled, Queued
  <2> QED BY <2>3, <2>4
<1>5. CASE Listen
  BY <1>1, <1>5 DEF Listen, network, Handled, Queued, Open
<1> QED BY <1>2, <1>3, <1>4, <1>5 DEF MainStep

\* The thread that serves k finds its message, answers it and only then closes.
LEMMA ThreadHandles ==
    ASSUME IInv, SentBefore, NobodyForgotten, NEW j \in Clients, ThreadStep(j),
           NEW k \in Clients, peer'[k] \in {"connected", "sent"}
    PROVE  Handled(k)'
<1> USE DEF NobodyForgotten
<1>1. /\ UNCHANGED <<peer, backlog, mainPc, conn_fd>> /\ Handled(k)
      /\ pc \in [Clients -> {"none", "start", "recv", "send", "close", "exited"}]
      /\ Queued(k)' = Queued(k)
  BY DEF ThreadStep, TakeCell, Recv, SendAnswer, Close, network, Handled, Queued, IInv, TypeOK
<1>2. pc[j] \in {"recv", "send", "close"} => fd[j] \in Fds /\ fdTable[fd[j]] = j
  BY DEF IInv, OwnDescriptor, TypeOK, Fds
<1>3. pc[k] # "none" => ~Queued(k) /\ ~(mainPc = "create" /\ fdTable[conn_fd] = k)
  BY BeforeItsThread
<1>4. CASE TakeCell(j)
  <2>1. /\ UNCHANGED <<inbox, got, fdTable>> /\ Open(k)' = Open(k)
        /\ pc[j] = "start" /\ pc' = [pc EXCEPT ![j] = "recv"]
        /\ k # j => cell'[k] = cell[k]
    BY <1>4 DEF TakeCell, Goto, Open, network, IInv, TypeOK
  <2>2. CASE j = k
    BY <1>1, <2>1, <2>2 DEF Handled
  <2>3. CASE j # k
    BY <1>1, <2>1, <2>3 DEF Handled
  <2> QED BY <2>2, <2>3
<1>5. CASE Recv(j)
  <2>1. /\ UNCHANGED <<got, fdTable, cell>> /\ Open(k)' = Open(k) /\ pc[j] = "recv"
        /\ \/ j \in inbox /\ inbox' = inbox \ {j} /\ pc' = [pc EXCEPT ![j] = "send"]
           \/ j \notin inbox /\ peer[j] \in {"left", "broken", "reset"} /\ UNCHANGED inbox
              /\ \E s \in {"send", "close"} : pc' = [pc EXCEPT ![j] = s]
    BY <1>2, <1>5 DEF Recv, Goto, Open
  <2>2. CASE j = k
    <3>1. k \in inbox <=> peer[k] = "sent"
      BY <1>1, <2>1, <2>2 DEF Handled, SentBefore
    <3>2. peer[k] = "sent" /\ pc'[k] = "send"
      BY <1>1, <2>1, <2>2, <3>1
    <3> QED BY <1>1, <3>2 DEF Handled
  <2>3. CASE j # k
    <3>1. pc'[k] = pc[k] /\ (k \in inbox => k \in inbox')
      BY <1>1, <2>1, <2>3
    <3> QED BY <1>1, <2>1, <3>1 DEF Handled
  <2> QED BY <2>2, <2>3
<1>6. CASE SendAnswer(j)
  <2>1. /\ UNCHANGED <<inbox, fdTable, cell>> /\ Open(k)' = Open(k) /\ pc[j] = "send"
        /\ \/ /\ got' = [got EXCEPT ![j] = @ + 1]
              /\ pc' = [pc EXCEPT ![j] = "close"]
           \/ /\ peer[j] = "reset" /\ UNCHANGED got
              /\ pc' = [pc EXCEPT ![j] = "close"]
           \/ peer[j] = "broken" /\ UNCHANGED <<got, pc>>
    BY <1>2, <1>6 DEF SendAnswer, Goto, Open, network
  <2>2. CASE j = k
    <3>1. peer[k] = "sent"
      BY <1>1, <1>3, <2>1, <2>2 DEF Handled
    <3>2. got[k] = 0 /\ got \in [Clients -> Nat]
      BY <2>1, <2>2 DEF SentBefore, IInv, TypeOK
    <3>3. pc'[k] = "close" /\ got'[k] = 1
      BY <1>1, <2>1, <2>2, <3>1, <3>2
    <3> QED BY <1>1, <3>1, <3>3 DEF Handled
  <2>3. CASE j # k
    <3>1. pc'[k] = pc[k] /\ got'[k] = got[k]
      BY <1>1, <2>1, <2>3 DEF IInv, TypeOK
    <3> QED BY <1>1, <2>1, <3>1 DEF Handled
  <2> QED BY <2>2, <2>3
<1>7. CASE Close(j)
  <2>1. /\ UNCHANGED <<inbox, got, cell>> /\ pc[j] = "close"
        /\ pc' = [pc EXCEPT ![j] = "exited"]
        /\ fdTable' = [fdTable EXCEPT ![fd[j]] = NoClient]
    BY <1>7 DEF Close, Goto, network
  <2>2. ~Open(k) => ~Open(k)'
    BY <2>1 DEF Open, IInv, TypeOK
  <2>3. CASE j = k
    BY <1>1, <1>3, <2>1, <2>3 DEF Handled
  <2>4. CASE j # k
    <3>1. mainPc = "create" /\ fdTable[conn_fd] = k => fdTable'[conn_fd] = k
      BY <1>2, <2>1, <2>4 DEF IInv, TypeOK, MainHolds
    <3> QED BY <1>1, <2>1, <2>2, <2>4, <3>1 DEF Handled
  <2> QED BY <2>3, <2>4
<1> QED BY <1>4, <1>5, <1>6, <1>7 DEF ThreadStep

\* A client that stays is never lost between queue, main and thread, and no thread
\* closes on one that it has heard and not answered.
THEOREM EverybodyHandled == Spec => []NobodyForgotten
<1>1. Init => SentBefore /\ NobodyForgotten
  BY DEF Init, SentBefore, NobodyForgotten
<1>2. IInv /\ SentBefore /\ [Next]_vars => SentBefore'
  BY SentBeforeInductive
<1>3. ASSUME IInv, SentBefore, NobodyForgotten, [Next]_vars
      PROVE  NobodyForgotten'
  <2> SUFFICES ASSUME NEW k \in Clients, peer'[k] \in {"connected", "sent"}
               PROVE  Handled(k)'
    BY DEF NobodyForgotten, Handled
  <2>1. CASE UNCHANGED vars
    BY <1>3, <2>1 DEF vars, NobodyForgotten, Handled, Queued, Open
  <2> QED BY <1>3, <2>1, ClientHandled, MainHandles, ThreadHandles DEF Next
<1>4. IInv /\ SentBefore /\ NobodyForgotten /\ [Next]_vars => NobodyForgotten'
  BY <1>3
<1> QED BY <1>1, <1>2, <1>4, Invariance, PTL DEF Spec

-----------------------------------------------------------------------------
(* The server implements OneAnswer.                                        *)

\* Initially every client is away.
LEMMA InitRefines == Init => Service!Init
BY DEF Init, Service!Init, Stage, Open, Fds

\* The stage of one client moves, as Service!Advance says.
LEMMA Advances ==
    ASSUME NEW k \in Clients, NEW from, NEW to, Stage(k) = from, Stage(k)' = to,
           \A j \in Clients \ {k} : Stage(j)' = Stage(j)
    PROVE  Service!Advance(k, from, to)
BY DEF Service!Advance

\* What a client does is its move in OneAnswer.
LEMMA ClientRefines ==
    ASSUME IInv, ClientStep
    PROVE  [Service!Next]_Service!oneAnswerVars
<1> USE DEF ClientStep, IInv
<1>1. PICK k \in Clients : Connect(k) \/ Send(k) \/ Leave(k)
  OBVIOUS
<1>2. \A j \in Clients : Stage(j)' = Stage(j)
  BY DEF Stage, Open
<1>3. CASE Connect(k)
  <2>1. UNCHANGED Service!oneAnswerVars
    BY <1>2, <1>3 DEF Connect, TypeOK, Service!oneAnswerVars
  <2> QED BY <2>1
<1>4. CASE Send(k)
  <2>1. Service!ClientMoves(k)
    BY <1>2, <1>4 DEF Send, TypeOK, Service!ClientMoves
  <2> QED BY <2>1 DEF Service!Next
<1>5. CASE Leave(k)
  <2>1. Service!ClientMoves(k)
    BY <1>2, <1>5 DEF Leave, TypeOK, Service!ClientMoves
  <2> QED BY <2>1 DEF Service!Next
<1> QED BY <1>1, <1>3, <1>4, <1>5

\* Accepting a connection takes its client.
LEMMA AcceptRefines ==
    ASSUME IInv, Accept
    PROVE  [Service!Next]_Service!oneAnswerVars
<1>0. PICK k \in Clients : k = Head(backlog) /\ 1 \in DOMAIN backlog /\ k = backlog[1]
  BY DEF Accept, IInv, TypeOK
<1>1. PICK f \in Fds :
         /\ fdTable[f] = NoClient
         /\ fdTable' = [fdTable EXCEPT ![f] = k]
         /\ cell' = [cell EXCEPT ![k] = f]
  BY <1>0 DEF Accept
<1>2. k # NoClient /\ pc[k] = "none" /\ cell[k] = 0 /\ ~Open(k)
  BY <1>0 DEF IInv, NotYetAccepted
<1>3. UNCHANGED <<peer, inbox, got, pc>>
  BY DEF Accept
<1>4. fdTable'[f] = k /\ \A g \in Fds \ {f} : fdTable'[g] = fdTable[g]
  BY <1>1 DEF IInv, TypeOK
<1>5. Stage(k) = "away" /\ Stage(k)' = "taken"
  BY <1>2, <1>3, <1>4 DEF Stage, Open
<1>6. ASSUME NEW j \in Clients \ {k}
      PROVE  Stage(j)' = Stage(j)
  <2>1. Open(j)' = Open(j)
    BY <1>1, <1>4 DEF Open
  <2>2. cell'[j] = cell[j] /\ pc'[j] = pc[j]
    BY <1>1, <1>3 DEF IInv, TypeOK
  <2> QED BY <2>1, <2>2 DEF Stage
<1>7. Service!Take(k)
  BY <1>2, <1>3, <1>5, <1>6, Advances DEF Service!Take
<1> QED BY <1>2, <1>7 DEF Service!Next

\* Creating the thread serves the client, failing to turns it away.
LEMMA CreateRefines ==
    ASSUME IInv, CreateThread \/ CreateFails
    PROVE  [Service!Next]_Service!oneAnswerVars
<1>0. PICK k \in Clients : k = fdTable[conn_fd] /\ conn_fd \in Fds
  BY DEF CreateThread, CreateFails, IInv, MainHolds
<1>1. /\ k # NoClient /\ pc[k] = "none" /\ cell[k] = conn_fd
      /\ conn_fd # 0 /\ Open(k)
      /\ \A g \in Fds \ {conn_fd} : fdTable[g] # k
  BY <1>0 DEF CreateThread, CreateFails, IInv, MainHolds, OneDescriptor, Open, Fds
<1>2. UNCHANGED <<peer, inbox, got, cell>>
  BY DEF CreateThread, CreateFails, network
<1>3. Stage(k) = "taken"
  BY <1>1 DEF Stage
<1>4. CASE CreateThread
  <2>1. /\ UNCHANGED fdTable /\ pc'[k] = "start"
        /\ \A j \in Clients \ {k} : pc'[j] = pc[j]
    BY <1>0, <1>4 DEF CreateThread, IInv, TypeOK
  <2>2. Stage(k)' = "served" /\ \A j \in Clients \ {k} : Stage(j)' = Stage(j)
    BY <1>1, <1>2, <2>1 DEF Stage, Open
  <2>3. Service!Serve(k)
    BY <1>1, <1>2, <1>3, <2>2, Advances DEF Service!Serve
  <2> QED BY <1>1, <2>3 DEF Service!Next
<1>5. CASE CreateFails
  <2>1. /\ UNCHANGED pc /\ fdTable'[conn_fd] = NoClient
        /\ \A g \in Fds \ {conn_fd} : fdTable'[g] = fdTable[g]
    BY <1>0, <1>5 DEF CreateFails, IInv, TypeOK
  <2>2. ~Open(k)' /\ \A j \in Clients \ {k} : Open(j)' = Open(j)
    BY <1>0, <1>1, <2>1 DEF Open
  <2>3. Stage(k)' = "over" /\ \A j \in Clients \ {k} : Stage(j)' = Stage(j)
    BY <1>1, <1>2, <2>1, <2>2 DEF Stage
  <2>4. Service!TurnAway(k)
    BY <1>1, <1>2, <1>3, <2>3, Advances DEF Service!TurnAway
  <2> QED BY <1>1, <2>4 DEF Service!Next
<1> QED BY <1>4, <1>5

\* A thread hears and answers its own client.
LEMMA ThreadMoveRefines ==
    ASSUME IInv, NEW k \in Clients, TakeCell(k) \/ Recv(k) \/ SendAnswer(k)
    PROVE  [Service!Next]_Service!oneAnswerVars
<1> USE DEF network
<1>1. UNCHANGED <<peer, fdTable>> /\ Open(k) /\ pc[k] # "none" /\ got[k] \in Nat
      /\ (pc[k] # "start" => fdTable[fd[k]] = k)
  BY DEF TakeCell, Recv, SendAnswer, Goto, IInv, OwnDescriptor, TypeOK, Open, Fds
<1>2. /\ \A j \in Clients : Open(j)' = Open(j)
      /\ \A j \in Clients \ {k} : pc'[j] = pc[j] /\ cell'[j] = cell[j]
  BY <1>1 DEF TakeCell, Recv, SendAnswer, Goto, IInv, TypeOK, Open
<1>3. \A j \in Clients \ {k} : Stage(j)' = Stage(j)
  BY <1>2 DEF Stage
<1>4. CASE TakeCell(k)
  <2>1. Stage(k)' = Stage(k)
    BY <1>1, <1>2, <1>4 DEF TakeCell, Goto, Stage, IInv, TypeOK
  <2>2. UNCHANGED Service!oneAnswerVars
    BY <1>1, <1>3, <1>4, <2>1 DEF TakeCell, Service!oneAnswerVars
  <2> QED BY <2>2
<1>5. CASE Recv(k)
  <2>1. Stage(k) = "served"
    BY <1>1, <1>5 DEF Recv, Stage
  <2>2. CASE k \in inbox
    <3>1. Stage(k)' = "heard" /\ inbox' = inbox \ {k} /\ UNCHANGED <<peer, got>>
      BY <1>1, <1>2, <1>5, <2>2 DEF Recv, Goto, Stage, IInv, TypeOK
    <3>2. Service!Hear(k)
      BY <1>3, <2>1, <2>2, <3>1, Advances DEF Service!Hear
    <3> QED BY <3>2 DEF Service!Next
  <2>3. CASE k \notin inbox
    <3>1. /\ peer[k] \in {"left", "broken", "reset"} /\ UNCHANGED <<peer, inbox, got>>
          /\ Stage(k)' \in {"heard", "done"}
      BY <1>1, <1>2, <1>5, <2>3 DEF Recv, Goto, Stage, IInv, TypeOK
    <3>2. Service!HearEnd(k)
      BY <1>3, <2>1, <2>3, <3>1, Advances DEF Service!HearEnd
    <3> QED BY <3>2 DEF Service!Next
  <2> QED BY <2>2, <2>3
<1>6. CASE SendAnswer(k)
  <2>1. CASE peer[k] # "broken"
    <3>1. /\ Stage(k) = "heard" /\ Stage(k)' = "done"
          /\ UNCHANGED <<peer, inbox>>
          /\ \/ got' = [got EXCEPT ![k] = @ + 1]
             \/ peer[k] = "reset" /\ UNCHANGED got
      BY <1>1, <1>2, <1>6, <2>1 DEF SendAnswer, Goto, Stage, IInv, TypeOK
    <3>2. Service!Answer(k)
      BY <1>3, <3>1, Advances DEF Service!Answer
    <3> QED BY <3>2 DEF Service!Next
  <2>2. CASE peer[k] = "broken"
    <3>1. UNCHANGED <<pc, got, inbox, peer, cell>>
      BY <1>1, <1>6, <2>2 DEF SendAnswer, Goto
    <3>2. UNCHANGED Service!oneAnswerVars
      BY <1>2, <3>1 DEF Stage, Service!oneAnswerVars
    <3> QED BY <3>2
  <2> QED BY <2>1, <2>2
<1> QED BY <1>4, <1>5, <1>6

\* A thread ends its own client.
LEMMA CloseRefines ==
    ASSUME IInv, NEW k \in Clients, Close(k)
    PROVE  [Service!Next]_Service!oneAnswerVars
<1>1. /\ pc[k] = "close" /\ fd[k] \in Fds /\ fdTable[fd[k]] = k /\ k # NoClient
      /\ UNCHANGED <<peer, inbox, got, cell>>
  BY DEF Close, Goto, network, IInv, OwnDescriptor, TypeOK, Fds
<1>2. /\ fdTable'[fd[k]] = NoClient
      /\ \A g \in Fds \ {fd[k]} : fdTable'[g] = fdTable[g] /\ fdTable[g] # k
  BY <1>1 DEF Close, IInv, TypeOK, OneDescriptor
<1>3. pc'[k] = "exited" /\ \A j \in Clients \ {k} : pc'[j] = pc[j]
  BY DEF Close, Goto, IInv, TypeOK
<1>4. Open(k) /\ ~Open(k)' /\ \A j \in Clients \ {k} : Open(j)' = Open(j)
  BY <1>1, <1>2 DEF Open
<1>5. /\ Stage(k) = "done" /\ Stage(k)' = "over"
      /\ \A j \in Clients \ {k} : Stage(j)' = Stage(j)
  BY <1>1, <1>3, <1>4 DEF Stage
<1>6. Service!End(k)
  BY <1>1, <1>5, Advances DEF Service!End
<1> QED BY <1>6 DEF Service!Next

\* Every step of the program is a step of OneAnswer or shows nothing of itself.
LEMMA StepRefines ==
    ASSUME IInv, [Next]_vars
    PROVE  [Service!Next]_Service!oneAnswerVars
<1>1. CASE UNCHANGED vars
  BY <1>1 DEF vars, Stage, Open, Service!oneAnswerVars
<1>2. CASE ClientStep
  BY <1>2, ClientRefines
<1>3. CASE MainStep
  <2>1. CASE Listen
    BY <2>1 DEF Listen, network, Stage, Open, Service!oneAnswerVars
  <2> QED BY <1>3, <2>1, AcceptRefines, CreateRefines DEF MainStep
<1>4. ASSUME NEW k \in Clients, ThreadStep(k)
      PROVE  [Service!Next]_Service!oneAnswerVars
  BY <1>4, ThreadMoveRefines, CloseRefines DEF ThreadStep
<1> QED BY <1>1, <1>2, <1>3, <1>4 DEF Next

\* The threaded server implements OneAnswer for any number of clients: each is heard
\* and answered once by its own thread, and ended after that.
THEOREM Refinement == Spec => ImplementsOneAnswer
<1>1. Init => Service!Init
  BY InitRefines
<1>2. IInv /\ [Next]_vars => [Service!Next]_Service!oneAnswerVars
  BY StepRefines
<1> QED BY <1>1, <1>2, Invariance, PTL DEF Spec, ImplementsOneAnswer, Service!Spec
=============================================================================
