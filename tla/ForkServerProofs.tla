---------------------------- MODULE ForkServerProofs ----------------------------
(***************************************************************************)
(* Safety of the forking server for any number of clients, and the proof   *)
(* that it implements OneAnswer.                                           *)
(***************************************************************************)
EXTENDS ForkServer, TLAPS

USE ForkAssumption

\* At the start there are no children and nobody listens.
LEMMA InitInductive == Init => IInv
<1> SUFFICES ASSUME Init PROVE IInv
  OBVIOUS
<1>1. TypeOK
  <2>1. <<>> \in Seq(Clients)
    OBVIOUS
  <2>2. /\ [k \in Clients |-> {}] \in [Clients -> SUBSET (Clients \cup {Parent})]
        /\ [k \in Clients |-> "none"] \in [Clients -> ChildStates]
    BY DEF ChildStates
  <2> QED BY <2>1, <2>2 DEF Init, TypeOK
<1>2. NoZombieForgotten /\ AnsweredByChild /\ ParentHolds
  BY DEF Init, NoZombieForgotten, Zombies, AnsweredByChild, ParentHolds
<1>3. DescriptorsPaired
  BY DEF Init, DescriptorsPaired, Abandoned
<1>4. NotYetAccepted
  BY DEF Init, NotYetAccepted
<1> QED BY <1>1, <1>2, <1>3, <1>4 DEF IInv

\* A client that connects joins the end of the queue, where it is not yet.
LEMMA ConnectInductive ==
    ASSUME IInv, ClientStep, NEW k \in Clients, Connect(k), listeners # {}
    PROVE  IInv'
<1>0. backlog \in Seq(Clients) /\ backlog' = Append(backlog, k)
  BY DEF Connect, IInv, TypeOK
<1>1. /\ backlog \in Seq(Clients) /\ backlog' \in Seq(Clients)
      /\ Len(backlog') = Len(backlog) + 1 /\ Len(backlog) \in Nat
      /\ DOMAIN backlog = 1..Len(backlog) /\ DOMAIN backlog' = 1..(Len(backlog) + 1)
      /\ \A i \in DOMAIN backlog : backlog'[i] = backlog[i] /\ backlog[i] \in Clients
      /\ backlog'[Len(backlog) + 1] = k
  BY <1>0
<1> USE DEF ClientStep, Connect, parent, IInv
<1>2. TypeOK'
  BY <1>1 DEF TypeOK
<1>3. NoZombieForgotten' /\ DescriptorsPaired' /\ ParentHolds' /\ AnsweredByChild'
  BY DEF NoZombieForgotten, Zombies, DescriptorsPaired, Abandoned, ParentHolds,
         AnsweredByChild
<1>4. /\ peer[k] = "idle" /\ child[k] = "none" /\ holders[k] = {}
      /\ \A i \in DOMAIN backlog : backlog[i] # k
  BY <1>1 DEF NotYetAccepted
<1>5. \A i, j \in DOMAIN backlog' : backlog'[i] = backlog'[j] => i = j
  BY <1>1, <1>4 DEF NotYetAccepted
<1>6. \A j \in Clients : peer'[j] = "idle" => peer[j] = "idle" /\ j # k
  BY DEF TypeOK
<1>7. \A i \in DOMAIN backlog' :
         /\ peer'[backlog'[i]] # "idle"
         /\ child[backlog'[i]] = "none" /\ holders[backlog'[i]] = {}
  BY <1>1, <1>4, <1>6 DEF NotYetAccepted
<1>8. NotYetAccepted'
  BY <1>1, <1>5, <1>6, <1>7 DEF NotYetAccepted
<1> QED BY <1>2, <1>3, <1>8

\* The other things a client does disturb nothing the server relies on.
LEMMA ClientRestInductive ==
    ASSUME IInv, ClientStep, NEW k \in Clients,
           Send(k) \/ Leave(k) \/ (Connect(k) /\ listeners = {})
    PROVE  IInv'
<1> USE DEF ClientStep, Connect, Send, Leave, parent, IInv
<1>1. TypeOK'
  BY DEF TypeOK
<1>2. NoZombieForgotten' /\ DescriptorsPaired' /\ AnsweredByChild'
  BY DEF NoZombieForgotten, Zombies, DescriptorsPaired, Abandoned, AnsweredByChild
<1>3. /\ \A j \in Clients : peer'[j] = "idle" => peer[j] = "idle"
      /\ UNCHANGED <<listeners, parentPc, conn, child, holders>>
      /\ peer[k] \in {"idle", "refused"} =>
            \A j \in Clients : peer'[j] = peer[j] \/ peer'[j] = "refused"
  BY DEF TypeOK
<1>4. NotYetAccepted'
  BY <1>3 DEF NotYetAccepted, TypeOK
<1>5. ParentHolds'
  <2>1. parentPc \in {"start", "exited"} => \A j \in Clients : peer'[j] \in {"idle", "refused"}
    BY <1>3 DEF ParentHolds
  <2> QED BY <1>3, <2>1 DEF ParentHolds
<1> QED BY <1>1, <1>2, <1>4, <1>5

\* What closing a listening socket does to the queue.
LEMMA Closing ==
    ASSUME IInv, NEW process, CloseListening(process)
    PROVE  /\ backlog' = backlog \/ backlog' = <<>>
           /\ backlog' \in Seq(Clients)
           /\ peer' \in [Clients -> {"idle", "connected", "sent", "left", "refused"}]
           /\ \A k \in Clients : /\ peer'[k] = "idle" => peer[k] = "idle"
                                 /\ peer'[k] = "left" <=> peer[k] = "left"
           /\ backlog' = backlog => \A k \in Clients : peer[k] = "idle" <=> peer'[k] = "idle"
           /\ listeners' = listeners \ {process}
<1>1. \A i \in DOMAIN backlog : peer[backlog[i]] # "idle"
  BY DEF IInv, NotYetAccepted
<1>2. CASE UNCHANGED <<backlog, peer>>
  BY <1>2 DEF CloseListening, IInv, TypeOK
<1>3. CASE /\ backlog' = <<>>
           /\ peer' = [k \in Clients |->
                         IF (\E i \in DOMAIN backlog : backlog[i] = k) /\ peer[k] # "left"
                         THEN "refused" ELSE peer[k]]
  BY <1>1, <1>3 DEF CloseListening, IInv, TypeOK
<1> QED BY <1>2, <1>3 DEF CloseListening

\* Until the parent listens no client has got through.
LEMMA ListenInductive ==
    ASSUME IInv, Listen
    PROVE  IInv'
<1> USE DEF Listen, network, IInv
<1>1. listeners = {} /\ \A k \in Clients : k \notin listeners' /\ holders[k] = {}
  BY DEF ParentHolds, TypeOK
<1>2. TypeOK'
  BY <1>1 DEF TypeOK
<1>3. NoZombieForgotten' /\ NotYetAccepted' /\ AnsweredByChild'
  BY DEF NoZombieForgotten, Zombies, NotYetAccepted, AnsweredByChild
<1>4. ParentHolds'
  BY <1>1 DEF ParentHolds
<1>5. DescriptorsPaired'
  BY <1>1 DEF DescriptorsPaired, Abandoned
<1> QED BY <1>2, <1>3, <1>4, <1>5

\* accept() takes the first of the queue, which is open nowhere.
LEMMA AcceptInductive ==
    ASSUME IInv, Accept
    PROVE  IInv'
<1>0. PICK k \in Clients :
         /\ k = Head(backlog) /\ 1 \in DOMAIN backlog /\ k = backlog[1]
         /\ DOMAIN backlog = 1..Len(backlog) /\ Len(backlog) \in Nat \ {0}
  BY DEF Accept, IInv, TypeOK
<1> USE DEF Accept, IInv
<1>1. /\ backlog' \in Seq(Clients) /\ DOMAIN backlog' = 1..(Len(backlog) - 1)
      /\ \A i \in DOMAIN backlog' : backlog'[i] = backlog[i + 1] /\ i + 1 \in DOMAIN backlog
      /\ \A i \in DOMAIN backlog : backlog[i] \in Clients
  BY <1>0 DEF TypeOK
<1>2. /\ peer[k] # "idle" /\ child[k] = "none" /\ holders[k] = {}
      /\ \A i \in DOMAIN backlog' : backlog'[i] # k
  BY <1>0, <1>1 DEF NotYetAccepted
<1>3. /\ holders'[k] = {Parent} /\ \A j \in Clients \ {k} : holders'[j] = holders[j]
      /\ holders' \in [Clients -> SUBSET (Clients \cup {Parent})]
  BY <1>0 DEF TypeOK
<1>4. TypeOK'
  BY <1>0, <1>1, <1>3 DEF TypeOK
<1>5. NoZombieForgotten' /\ AnsweredByChild'
  BY DEF NoZombieForgotten, Zombies, AnsweredByChild
<1>6. DescriptorsPaired' /\ ParentHolds'
  BY <1>0, <1>2, <1>3 DEF DescriptorsPaired, Abandoned, ParentHolds
<1>7. NotYetAccepted'
  <2>1. \A i, j \in DOMAIN backlog' : backlog'[i] = backlog'[j] => i = j
    BY <1>1 DEF NotYetAccepted
  <2>2. \A i \in DOMAIN backlog' :
           /\ peer'[backlog'[i]] # "idle"
           /\ child'[backlog'[i]] = "none" /\ holders'[backlog'[i]] = {}
    BY <1>1, <1>2, <1>3 DEF NotYetAccepted
  <2>3. \A j \in Clients : peer'[j] = "idle" => child'[j] = "none" /\ holders'[j] = {}
    BY <1>2, <1>3 DEF NotYetAccepted
  <2> QED BY <2>1, <2>2, <2>3 DEF NotYetAccepted
<1> QED BY <1>4, <1>5, <1>6, <1>7

\* fork() makes the child a holder of both sockets, or makes the parent deaf.
LEMMA ForkInductive ==
    ASSUME IInv, Fork
    PROVE  IInv'
<1>0. PICK k \in Clients :
         k = conn /\ child[k] = "none" /\ holders[k] = {Parent} /\ parentPc = "fork"
  BY DEF Fork, IInv, ParentHolds
<1> USE DEF Fork, network, IInv
<1>1. /\ child'[k] = "forked" /\ \A j \in Clients \ {k} : child'[j] = child[j]
      /\ child' \in [Clients -> ChildStates]
      /\ holders'[k] = {Parent, k} /\ \A j \in Clients \ {k} : holders'[j] = holders[j]
      /\ holders' \in [Clients -> SUBSET (Clients \cup {Parent})]
      /\ listeners' = listeners \cup {k}
  BY <1>0 DEF TypeOK, ChildStates
<1>2. TypeOK'
  BY <1>1 DEF TypeOK
<1>3. NoZombieForgotten' /\ AnsweredByChild'
  BY <1>0, <1>1 DEF NoZombieForgotten, Zombies, AnsweredByChild, TypeOK
<1>4. DescriptorsPaired' /\ ParentHolds'
  BY <1>0, <1>1 DEF DescriptorsPaired, Abandoned, ParentHolds
<1>5. /\ peer[k] # "idle" /\ \A i \in DOMAIN backlog : backlog[i] # k /\ backlog[i] \in Clients
  BY <1>0 DEF NotYetAccepted, TypeOK
<1>6. NotYetAccepted'
  BY <1>1, <1>5 DEF NotYetAccepted
<1> QED BY <1>2, <1>3, <1>4, <1>6

LEMMA ForkFailsInductive ==
    ASSUME IInv, ForkFails
    PROVE  IInv'
<1>1. /\ backlog' = backlog \/ backlog' = <<>>
      /\ backlog' \in Seq(Clients)
      /\ peer' \in [Clients -> {"idle", "connected", "sent", "left", "refused"}]
      /\ \A k \in Clients : peer'[k] = "idle" => peer[k] = "idle"
      /\ listeners' = listeners \ {Parent}
  BY Closing DEF ForkFails
<1>2. /\ parentPc = "fork" /\ parentPc' = "accept" /\ conn' = NoClient
      /\ UNCHANGED <<inbox, answered, holders, child, sigchld, reaping>>
  BY DEF ForkFails
<1> USE DEF IInv
<1>3. TypeOK'
  BY <1>1, <1>2 DEF TypeOK
<1>4. NoZombieForgotten' /\ AnsweredByChild' /\ DescriptorsPaired' /\ ParentHolds'
  BY <1>1, <1>2 DEF NoZombieForgotten, Zombies, AnsweredByChild, DescriptorsPaired,
                    Abandoned,
                    ParentHolds
<1>5. NotYetAccepted'
  BY <1>1, <1>2 DEF NotYetAccepted, TypeOK
<1> QED BY <1>3, <1>4, <1>5

\* The parent closes its copy of the connection the child serves.
LEMMA CloseConnInductive ==
    ASSUME IInv, CloseConn
    PROVE  IInv'
<1>0. PICK k \in Clients :
         k = conn /\ child[k] # "none" /\ Parent \in holders[k] /\ parentPc = "close"
  BY DEF CloseConn, IInv, ParentHolds
<1> USE DEF CloseConn, network, IInv
<1>1. /\ holders'[k] = holders[k] \ {Parent}
      /\ \A j \in Clients \ {k} : holders'[j] = holders[j]
      /\ holders' \in [Clients -> SUBSET (Clients \cup {Parent})]
  BY <1>0 DEF TypeOK
<1>2. TypeOK'
  BY <1>1 DEF TypeOK
<1>3. NoZombieForgotten' /\ AnsweredByChild' /\ ParentHolds'
  BY DEF NoZombieForgotten, Zombies, AnsweredByChild, ParentHolds
<1>4. DescriptorsPaired'
  BY <1>0, <1>1 DEF DescriptorsPaired, Abandoned
<1>5. NotYetAccepted'
  BY <1>0, <1>1 DEF NotYetAccepted, TypeOK
<1> QED BY <1>2, <1>3, <1>4, <1>5

\* The handler starts, reaps one zombie, or finds none and returns.
LEMMA HandlerInductive ==
    ASSUME IInv, Deliver \/ Reap
    PROVE  IInv'
<1> USE DEF Deliver, Reap, network, IInv
<1>1. CASE UNCHANGED child
  <2>1. TypeOK' /\ NoZombieForgotten'
    BY <1>1 DEF TypeOK, NoZombieForgotten, Zombies
  <2>2. AnsweredByChild' /\ DescriptorsPaired' /\ ParentHolds' /\ NotYetAccepted'
    BY <1>1 DEF AnsweredByChild, DescriptorsPaired, Abandoned, ParentHolds,
                NotYetAccepted
  <2> QED BY <2>1, <2>2
<1>2. ASSUME Reap, NEW k \in Zombies, child' = [child EXCEPT ![k] = "reaped"],
             UNCHANGED reaping
      PROVE  IInv'
  <2>1. /\ k \in Clients /\ child[k] = "zombie" /\ child'[k] = "reaped" /\ reaping
        /\ \A j \in Clients \ {k} : child'[j] = child[j]
        /\ child' \in [Clients -> ChildStates]
    BY <1>2 DEF Zombies, TypeOK, ChildStates
  <2>2. TypeOK' /\ NoZombieForgotten'
    BY <1>2, <2>1 DEF TypeOK, NoZombieForgotten
  <2>3. AnsweredByChild' /\ DescriptorsPaired' /\ ParentHolds'
    BY <1>2, <2>1 DEF AnsweredByChild, DescriptorsPaired, Abandoned, ParentHolds,
                      TypeOK
  <2>4. NotYetAccepted'
    BY <1>2, <2>1 DEF NotYetAccepted, TypeOK
  <2> QED BY <2>2, <2>3, <2>4
<1> QED BY <1>1, <1>2

\* A child that moves on keeps what it holds, until it closes it.
LEMMA ChildInductive ==
    ASSUME IInv, NEW k \in Clients, ChildStep(k)
    PROVE  IInv'
<1> DEFINE States == [Clients -> ChildStates]
<1>1. PICK to \in {"recv", "send", "close", "exit", "zombie"} :
         child[k] \in {"forked", "recv", "send", "close", "exit"}
         /\ child' = [child EXCEPT ![k] = to]
  BY DEF ChildStep, CloseListenFd, Recv, Answer, CloseConnFd, Exit, ChildGoto
<1>2. /\ child'[k] = to /\ \A j \in Clients \ {k} : child'[j] = child[j]
      /\ child' \in States
  BY <1>1 DEF IInv, TypeOK, ChildStates
<1>3. UNCHANGED <<parentPc, conn, reaping>> /\ (sigchld => sigchld')
  BY DEF ChildStep, CloseListenFd, Recv, Answer, CloseConnFd, Exit, parent
<1>4. /\ backlog' = backlog \/ backlog' = <<>>
      /\ backlog' \in Seq(Clients)
      /\ peer' \in [Clients -> {"idle", "connected", "sent", "left", "refused"}]
      /\ \A j \in Clients : peer'[j] = "idle" => peer[j] = "idle"
  BY Closing DEF ChildStep, CloseListenFd, Recv, Answer, CloseConnFd, Exit, network,
                 IInv, TypeOK
<1>5. /\ holders'[k] = IF child[k] = "close" THEN holders[k] \ {k} ELSE holders[k]
      /\ \A j \in Clients \ {k} : holders'[j] = holders[j]
      /\ holders' \in [Clients -> SUBSET (Clients \cup {Parent})]
      /\ child[k] = "close" <=> to = "exit"
  <2>1. holders \in [Clients -> SUBSET (Clients \cup {Parent})]
    BY DEF IInv, TypeOK
  <2>2. CASE CloseConnFd(k)
    <3>1. /\ child[k] = "close" /\ to = "exit"
          /\ holders' = [holders EXCEPT ![k] = @ \ {k}]
      BY <1>2, <2>2 DEF CloseConnFd, ChildGoto, IInv, TypeOK
    <3> QED BY <2>1, <3>1
  <2>3. CASE CloseListenFd(k) \/ Recv(k) \/ Answer(k) \/ Exit(k)
    <3>1. child[k] # "close" /\ to # "exit" /\ UNCHANGED holders
      BY <1>2, <2>3 DEF CloseListenFd, Recv, Answer, Exit, ChildGoto, IInv, TypeOK
    <3> QED BY <2>1, <3>1
  <2> QED BY <2>2, <2>3 DEF ChildStep
<1>6. /\ listeners' = IF child[k] = "forked" THEN listeners \ {k} ELSE listeners
      /\ child[k] = "forked" => to = "recv"
  <2>1. CASE CloseListenFd(k)
    BY <1>2, <2>1, Closing DEF CloseListenFd, ChildGoto, IInv, TypeOK
  <2>2. CASE Recv(k) \/ Answer(k) \/ CloseConnFd(k) \/ Exit(k)
    BY <2>2 DEF Recv, Answer, CloseConnFd, Exit, ChildGoto
  <2> QED BY <2>1, <2>2 DEF ChildStep
<1>7. /\ inbox' \subseteq Clients /\ answered' \subseteq Clients /\ sigchld' \in BOOLEAN
      /\ to = "zombie" => sigchld'
      /\ to = "zombie" <=> child[k] = "exit"
      /\ answered' \subseteq answered \cup {k}
      /\ to \notin {"close", "exit", "zombie"} => answered' = answered
  BY <1>1, <1>2 DEF ChildStep, CloseListenFd, Recv, Answer, CloseConnFd, Exit,
                    ChildGoto, network, parent, IInv, TypeOK
<1> USE DEF IInv
<1>8. TypeOK'
  BY <1>2, <1>3, <1>4, <1>5, <1>6, <1>7 DEF TypeOK
<1>9. NoZombieForgotten'
  BY <1>2, <1>3, <1>7 DEF NoZombieForgotten, Zombies
<1>10. DescriptorsPaired' /\ ParentHolds'
  <2>1. DescriptorsPaired'
    <3>1. \A j \in Clients : Abandoned(j)' <=> Abandoned(j)
      BY <1>1, <1>2, <1>5, <1>6 DEF Abandoned
    <3>2. \A j \in Clients : /\ holders'[j] \subseteq {j, Parent}
                             /\ j \in holders'[j] <=>
                                   child'[j] \in {"forked", "recv", "send", "close"}
                             /\ Parent \in holders'[j] <=> Parent \in holders[j]
                             /\ j \in listeners' <=> child'[j] = "forked"
      BY <1>1, <1>2, <1>5, <1>6, <1>7 DEF DescriptorsPaired
    <3> QED BY <1>3, <3>1, <3>2 DEF DescriptorsPaired
  <2>2. parentPc \in {"start", "exited"} =>
           /\ listeners' = {}
           /\ \A j \in Clients : peer'[j] \in {"idle", "refused"} /\ holders'[j] = {}
    <3>1. listeners # {} \/ UNCHANGED <<listeners, peer>>
      BY DEF ChildStep, CloseListenFd, ChildGoto, Recv, Answer, CloseConnFd, Exit, network,
             DescriptorsPaired
    <3> QED BY <1>2, <1>5, <3>1 DEF ParentHolds
  <2>3. parentPc \in {"fork", "close"} => Parent \in listeners'
    BY <1>6 DEF ParentHolds
  <2>4. parentPc = "fork" => conn \in Clients /\ child'[conn] = "none" /\ holders'[conn] = {Parent}
    BY <1>1, <1>2, <1>5 DEF ParentHolds
  <2>5. parentPc = "close" => conn \in Clients /\ child'[conn] # "none" /\ Parent \in holders'[conn]
    BY <1>1, <1>2, <1>5 DEF ParentHolds
  <2> QED BY <1>3, <2>1, <2>2, <2>3, <2>4, <2>5 DEF ParentHolds
<1>11. NotYetAccepted'
  BY <1>1, <1>2, <1>4, <1>5 DEF NotYetAccepted, TypeOK
<1>12. AnsweredByChild'
  BY <1>1, <1>2, <1>5, <1>7 DEF AnsweredByChild, TypeOK
<1> QED BY <1>8, <1>9, <1>10, <1>11, <1>12

\* Every step of the program keeps the inductive invariant.
LEMMA NextInductive ==
    ASSUME IInv, [Next]_vars
    PROVE  IInv'
<1>1. CASE UNCHANGED vars
  BY <1>1 DEF vars, IInv, TypeOK, NoZombieForgotten, Zombies, DescriptorsPaired,
              Abandoned,
              ParentHolds, NotYetAccepted, AnsweredByChild
<1>2. CASE ClientStep
  BY <1>2, ConnectInductive, ClientRestInductive DEF ClientStep
<1>3. CASE ParentStep
  BY <1>3, ListenInductive, AcceptInductive, ForkInductive, ForkFailsInductive,
     CloseConnInductive
     DEF ParentStep
<1>4. CASE Deliver \/ Reap
  BY <1>4, HandlerInductive
<1>5. ASSUME NEW k \in Clients, ChildStep(k)
      PROVE  IInv'
  BY <1>5, ChildInductive
<1> QED BY <1>1, <1>2, <1>3, <1>4, <1>5 DEF Next

\* The inductive invariant holds throughout.
THEOREM Invariance == Spec => []IInv
<1>1. Init => IInv
  BY InitInductive
<1>2. IInv /\ [Next]_vars => IInv'
  BY NextInductive
<1> QED BY <1>1, <1>2, PTL DEF Spec

\* Every variable keeps its type, for any number of clients.
THEOREM TypeCorrect == Spec => []TypeOK
BY Invariance, PTL DEF IInv

\* However exits and signals interleave, a zombie has a signal or the handler ahead.
THEOREM ZombiesRemembered == Spec => []NoZombieForgotten
BY Invariance, PTL DEF IInv

\* A connection is open in its child and, until it closes it, in the parent, for any
\* number of clients; the parent keeps the one its fork() failed for, and no second.
THEOREM DescriptorsAccounted == Spec => []DescriptorsPaired
BY Invariance, PTL DEF IInv

-----------------------------------------------------------------------------
(* Nobody who waits is forgotten.                                          *)

Handled(k) ==
    \/ /\ \/ Queued(k)
          \/ parentPc = "fork" /\ conn = k
          \/ child[k] \in {"forked", "recv"}
       /\ peer[k] = "sent" => k \in inbox
    \/ peer[k] = "sent" /\ child[k] = "send"
    \/ /\ peer[k] = "sent" /\ k \in answered
       /\ child[k] \in {"close", "exit", "zombie", "reaped"}
    \/ child[k] = "none" /\ Parent \notin listeners

\* A listening socket that closes spares the clients that are in service, and the
\* queue too as long as the parent listens.
LEMMA ClosingSpares ==
    ASSUME IInv, NEW process, CloseListening(process), NEW k \in Clients,
           peer'[k] \in {"connected", "sent"}
    PROVE  /\ peer'[k] = peer[k]
           /\ Parent \in listeners' => Queued(k)' = Queued(k)
           /\ Queued(k) => child[k] = "none"
           /\ listeners' = listeners \ {process}
<1>1. peer \in [Clients -> {"idle", "connected", "sent", "left", "refused"}]
  BY DEF IInv, TypeOK
<1>2. Queued(k) => child[k] = "none"
  BY DEF IInv, NotYetAccepted, Queued
<1>3. peer'[k] = peer[k] /\ (Parent \in listeners' => UNCHANGED backlog)
  BY <1>1 DEF CloseListening
<1> QED BY <1>2, <1>3 DEF CloseListening, Queued

\* Clients send what they send once connected.
LEMMA SentBeforeInductive ==
    ASSUME IInv, SentBefore, [Next]_vars
    PROVE  SentBefore'
<1> USE DEF SentBefore
<1>1. /\ peer \in [Clients -> {"idle", "connected", "sent", "left", "refused"}]
      /\ inbox \subseteq Clients /\ Parent \notin Clients /\ conn \in Clients \cup {NoClient}
  BY DEF IInv, TypeOK
<1>2. CASE UNCHANGED vars
  BY <1>2 DEF vars
<1>3. CASE ClientStep
  BY <1>1, <1>3 DEF ClientStep, Connect, Send, Leave, parent
<1>4. CASE ParentStep
  <2>1. CASE ForkFails
    <3>1. /\ UNCHANGED inbox /\ parentPc' = "accept"
          /\ \A k \in Clients : peer'[k] = peer[k] \/ peer'[k] = "refused"
      BY <1>1, <2>1 DEF ForkFails, CloseListening
    <3> QED BY <1>1, <3>1
  <2>2. CASE Listen \/ Accept \/ Fork \/ CloseConn
    BY <2>2 DEF Listen, Accept, Fork, CloseConn, network
  <2> QED BY <1>4, <2>1, <2>2 DEF ParentStep
<1>5. CASE Deliver \/ Reap
  BY <1>5 DEF Deliver, Reap, network
<1>6. ASSUME NEW k \in Clients, ChildStep(k)
      PROVE  SentBefore'
  <2>1. CASE CloseListenFd(k)
    <3>1. /\ UNCHANGED <<inbox, parentPc>> /\ listeners' = listeners \ {k}
          /\ \A j \in Clients : peer'[j] = peer[j] \/ peer'[j] = "refused"
      BY <1>1, <2>1 DEF CloseListenFd, CloseListening, parent
    <3> QED BY <1>1, <3>1
  <2>2. CASE Recv(k) \/ Answer(k) \/ CloseConnFd(k) \/ Exit(k)
    BY <2>2 DEF Recv, Answer, CloseConnFd, Exit, network, parent
  <2> QED BY <1>6, <2>1, <2>2 DEF ChildStep
<1> QED BY <1>2, <1>3, <1>4, <1>5, <1>6 DEF Next

\* What a client does leaves it handled.
LEMMA ClientHandled ==
    ASSUME IInv, SentBefore, NobodyForgotten, ClientStep, NEW k \in Clients,
           peer'[k] \in {"connected", "sent"}
    PROVE  Handled(k)'
<1> USE DEF NobodyForgotten
<1>1. /\ peer \in [Clients -> {"idle", "connected", "sent", "left", "refused"}]
      /\ backlog \in Seq(Clients) /\ inbox \subseteq Clients
      /\ UNCHANGED <<listeners, child, parentPc, conn, answered>>
  BY DEF IInv, TypeOK, ClientStep, Connect, Send, Leave, parent
<1>2. PICK j \in Clients : Connect(j) \/ Send(j) \/ Leave(j)
  BY DEF ClientStep
<1>3. CASE Connect(j)
  <2>1. CASE listeners = {}
    BY <1>1, <1>3, <2>1 DEF Connect, Handled, Queued
  <2>2. CASE backlog' = Append(backlog, j) /\ peer' = [peer EXCEPT ![j] = "connected"]
    <3>1. Queued(j)' /\ (Queued(k) => Queued(k)')
      <4>1. /\ DOMAIN backlog = 1..Len(backlog) /\ Len(backlog) \in Nat
            /\ DOMAIN backlog' = 1..(Len(backlog) + 1)
            /\ \A i \in DOMAIN backlog : backlog'[i] = backlog[i]
            /\ backlog'[Len(backlog) + 1] = j
        BY <1>1, <2>2
      <4> QED BY <4>1 DEF Queued
    <3>2. UNCHANGED inbox
      BY <1>3 DEF Connect
    <3>3. CASE k = j
      BY <1>1, <2>2, <3>1, <3>3 DEF Handled
    <3>4. CASE k # j
      <4>1. peer'[k] = peer[k] /\ Handled(k)
        BY <1>1, <2>2, <3>4 DEF Handled
      <4> QED BY <1>1, <3>1, <3>2, <4>1 DEF Handled
    <3> QED BY <3>3, <3>4
  <2> QED BY <1>3, <2>1, <2>2 DEF Connect
<1>4. CASE Send(j) \/ Leave(j)
  <2>1. /\ UNCHANGED backlog
        /\ k \in inbox => k \in inbox'
        /\ peer[k] \in {"connected", "sent"}
        /\ peer'[k] # peer[k] => peer[k] = "connected" /\ k \in inbox'
    BY <1>1, <1>4 DEF Send, Leave
  <2>2. Handled(k)
    BY <2>1 DEF Handled
  <2> QED BY <1>1, <2>1, <2>2 DEF Handled, Queued
<1> QED BY <1>2, <1>3, <1>4

\* The parent hands a client on, and a child hands it from one point to the next.
LEMMA ParentHandles ==
    ASSUME IInv, SentBefore, NobodyForgotten, ParentStep, NEW k \in Clients,
           peer'[k] \in {"connected", "sent"}
    PROVE  Handled(k)'
<1> USE DEF NobodyForgotten
<1>1. CASE Accept
  <2>1. peer'[k] = peer[k] /\ Handled(k) /\ backlog \in Seq(Clients) /\ backlog # <<>>
    BY <1>1 DEF Accept, Handled, IInv, TypeOK
  <2>2. Queued(k) => Queued(k)' \/ conn' = k
    <3> SUFFICES ASSUME NEW i \in DOMAIN backlog, backlog[i] = k
                 PROVE  Queued(k)' \/ conn' = k
      BY DEF Queued
    <3>1. CASE i = 1
      BY <1>1, <2>1, <3>1 DEF Accept
    <3>2. CASE i # 1
      <4>1. i - 1 \in DOMAIN backlog' /\ backlog'[i - 1] = k
        BY <1>1, <2>1, <3>2 DEF Accept
      <4> QED BY <4>1 DEF Queued
    <3> QED BY <3>1, <3>2
  <2> QED BY <1>1, <2>1, <2>2 DEF Accept, Handled
<1>2. CASE Fork
  <2>1. /\ peer'[k] = peer[k] /\ Handled(k) /\ UNCHANGED <<inbox, answered, backlog>>
        /\ child' = [child EXCEPT ![conn] = "forked"] /\ parentPc = "fork"
        /\ child \in [Clients -> ChildStates]
        /\ conn \in Clients /\ child[conn] = "none"
        /\ Parent \notin listeners => Parent \notin listeners'
        /\ Parent \in listeners
    BY <1>2 DEF Fork, network, Handled, IInv, TypeOK, ParentHolds, SentBefore
  <2>2. CASE k = conn
    BY <2>1, <2>2 DEF Handled
  <2>3. CASE k # conn
    BY <2>1, <2>3 DEF Handled, Queued
  <2> QED BY <2>2, <2>3
<1>3. CASE ForkFails
  <2>1. /\ peer'[k] = peer[k] /\ Queued(k) => child[k] = "none"
        /\ Parent \notin listeners'
    BY <1>3, ClosingSpares DEF ForkFails
  <2>2. peer'[k] = peer[k]
    BY <1>3, ClosingSpares DEF ForkFails
  <2>3. Handled(k) /\ UNCHANGED <<inbox, answered, child>>
    BY <1>3, <2>2 DEF ForkFails, Handled
  <2>4. Queued(k) \/ (parentPc = "fork" /\ conn = k) => child[k] = "none"
    BY <2>1, <2>2 DEF IInv, ParentHolds
  <2> QED BY <2>1, <2>2, <2>3, <2>4 DEF Handled
<1>4. CASE CloseConn
  BY <1>4 DEF CloseConn, network, Handled, Queued
<1>5. CASE Listen
  BY <1>5 DEF Listen, network, IInv, ParentHolds
<1> QED BY <1>1, <1>2, <1>3, <1>4, <1>5 DEF ParentStep

\* The child that serves k finds its message, answers it and only then closes.
LEMMA ChildHandles ==
    ASSUME IInv, SentBefore, NobodyForgotten, NEW j \in Clients, ChildStep(j),
           NEW k \in Clients, peer'[k] \in {"connected", "sent"}
    PROVE  Handled(k)'
<1> USE DEF NobodyForgotten
<1>1. child \in [Clients -> ChildStates] /\ inbox \subseteq Clients
  BY DEF IInv, TypeOK
<1>2. CASE CloseListenFd(j)
  <2>1. /\ peer'[k] = peer[k]
        /\ Parent \in listeners' => Queued(k)' = Queued(k)
        /\ Queued(k) => child[k] = "none"
        /\ Parent \in listeners' <=> Parent \in listeners
    BY <1>2, ClosingSpares DEF CloseListenFd
  <2>2. /\ Handled(k) /\ UNCHANGED <<inbox, answered, parentPc, conn>>
        /\ child[j] = "forked" /\ child' = [child EXCEPT ![j] = "recv"]
    BY <1>2, <2>1 DEF CloseListenFd, ChildGoto, parent, Handled
  <2>3. child[k] = "none" <=> child'[k] = "none"
    BY <1>1, <2>2
  <2> QED BY <1>1, <2>1, <2>2, <2>3 DEF Handled
<1>3. CASE Recv(j)
  <2>1. /\ UNCHANGED <<peer, answered, backlog, listeners, parentPc, conn>>
        /\ child[j] = "recv" /\ Handled(k)
    BY <1>3 DEF Recv, ChildGoto, parent, Handled
  <2>2. CASE j = k
    <3>1. k \in inbox <=> peer[k] = "sent"
      BY <2>1, <2>2 DEF Handled, SentBefore, IInv, NotYetAccepted, Queued, ParentHolds
    <3>2. k \in inbox /\ child'[k] = "send"
      BY <1>1, <1>3, <2>1, <2>2, <3>1 DEF Recv, ChildGoto
    <3> QED BY <2>1, <3>1, <3>2 DEF Handled
  <2>3. CASE j # k
    <3>1. child'[k] = child[k] /\ (k \in inbox => k \in inbox')
      BY <1>1, <1>3, <2>3 DEF Recv, ChildGoto
    <3> QED BY <2>1, <3>1 DEF Handled, Queued
  <2> QED BY <2>2, <2>3
<1>4. CASE Answer(j)
  <2>1. /\ UNCHANGED <<peer, inbox, backlog, listeners, parentPc, conn>>
        /\ child[j] = "send" /\ child' = [child EXCEPT ![j] = "close"]
        /\ Handled(k) /\ answered \subseteq answered'
        /\ j = k => k \in answered'
    BY <1>4 DEF Answer, ChildGoto, parent, Handled
  <2>2. CASE j = k
    <3>1. peer[k] = "sent"
      BY <2>1, <2>2 DEF Handled, IInv, NotYetAccepted, Queued, ParentHolds
    <3> QED BY <1>1, <2>1, <2>2, <3>1 DEF Handled
  <2>3. CASE j # k
    BY <1>1, <2>1, <2>3 DEF Handled, Queued
  <2> QED BY <2>2, <2>3
<1>5. CASE CloseConnFd(j) \/ Exit(j)
  <2>1. /\ UNCHANGED <<peer, inbox, answered, backlog, listeners, parentPc, conn>>
        /\ Handled(k)
        /\ \/ child' = [child EXCEPT ![j] = "exit"] /\ child[j] = "close"
           \/ child' = [child EXCEPT ![j] = "zombie"] /\ child[j] = "exit"
    BY <1>5 DEF CloseConnFd, Exit, ChildGoto, network, parent, Handled
  <2>2. \/ child'[k] = child[k]
        \/ child[k] \in {"close", "exit"} /\ child'[k] \in {"exit", "zombie"}
    BY <1>1, <2>1
  <2>3. child[k] \in {"close", "exit"} => ~Queued(k) /\ ~(parentPc = "fork" /\ conn = k)
    BY DEF IInv, NotYetAccepted, Queued, ParentHolds
  <2> QED BY <2>1, <2>2, <2>3 DEF Handled, Queued
<1> QED BY <1>2, <1>3, <1>4, <1>5 DEF ChildStep

\* A client that stays is never lost between queue, parent and child, and no child
\* closes on one that it has heard and not answered.
THEOREM EverybodyHandled == Spec => []NobodyForgotten
<1>1. Init => SentBefore /\ NobodyForgotten
  BY DEF Init, SentBefore, NobodyForgotten
<1>2. IInv /\ SentBefore /\ [Next]_vars => SentBefore'
  BY SentBeforeInductive
<1>3. ASSUME IInv, SentBefore, NobodyForgotten, [Next]_vars
      PROVE  NobodyForgotten'
  <2> SUFFICES ASSUME NEW k \in Clients, peer'[k] \in {"connected", "sent"}
               PROVE  Handled(k)'
    BY DEF NobodyForgotten, Handled
  <2>1. CASE UNCHANGED vars
    BY <1>3, <2>1 DEF vars, NobodyForgotten, Handled, Queued
  <2>2. CASE Deliver \/ Reap
    <3>1. /\ UNCHANGED <<peer, inbox, answered, backlog, listeners, parentPc, conn>>
          /\ \/ child'[k] = child[k]
             \/ child[k] = "zombie" /\ child'[k] = "reaped"
      BY <2>2, <1>3 DEF Deliver, Reap, network, Zombies, IInv, TypeOK
    <3>2. Handled(k)
      BY <1>3, <3>1 DEF NobodyForgotten, Handled
    <3>3. child[k] = "zombie" => ~Queued(k) /\ ~(parentPc = "fork" /\ conn = k)
      BY <1>3 DEF IInv, NotYetAccepted, Queued, ParentHolds
    <3> QED BY <3>1, <3>2, <3>3 DEF Handled, Queued
  <2> QED BY <1>3, <2>1, <2>2, ClientHandled, ParentHandles, ChildHandles DEF Next
<1>4. IInv /\ SentBefore /\ NobodyForgotten /\ [Next]_vars => NobodyForgotten'
  BY <1>3
<1> QED BY <1>1, <1>2, <1>4, Invariance, PTL DEF Spec

-----------------------------------------------------------------------------
(* The server implements OneAnswer.                                        *)

\* Initially every client is away.
LEMMA InitRefines == Init => Service!Init
BY DEF Init, Service!Init, Stage

\* The stage of one client moves, as Service!Advance says.
LEMMA Advances ==
    ASSUME NEW k \in Clients, NEW from, NEW to, Stage(k) = from, Stage(k)' = to,
           \A j \in Clients \ {k} : Stage(j)' = Stage(j)
    PROVE  Service!Advance(k, from, to)
BY DEF Service!Advance

\* Counting one member more.
LEMMA OneMore ==
    ASSUME NEW k \in Clients, NEW A, NEW B, B = A \cup {k}, k \notin A
    PROVE  [j \in Clients |-> IF j \in B THEN 1 ELSE 0]
             = [[j \in Clients |-> IF j \in A THEN 1 ELSE 0] EXCEPT
                  ![k] = [j \in Clients |-> IF j \in A THEN 1 ELSE 0][k] + 1]
<1> DEFINE count(X) == [j \in Clients |-> IF j \in X THEN 1 ELSE 0]
<1>1. count(A)[k] = 0 /\ count(B)[k] = 1 /\ 0 + 1 = 1
  OBVIOUS
<1>2. \A j \in Clients : j # k => count(B)[j] = count(A)[j]
  OBVIOUS
<1>3. DOMAIN count(B) = Clients /\ count(B) = [j \in Clients |-> count(B)[j]]
  OBVIOUS
<1>4. DOMAIN count(A) = Clients
  OBVIOUS
<1> HIDE DEF count
<1>5. count(B) = [count(A) EXCEPT ![k] = count(A)[k] + 1]
  BY <1>1, <1>2, <1>3, <1>4
<1> QED BY <1>5 DEF count

\* What a client does is its move in OneAnswer.
LEMMA ClientRefines ==
    ASSUME IInv, ClientStep
    PROVE  [Service!Next]_Service!oneAnswerVars
<1> USE DEF ClientStep, IInv
<1>1. PICK k \in Clients : Connect(k) \/ Send(k) \/ Leave(k)
  OBVIOUS
<1>2. \A j \in Clients : Stage(j)' = Stage(j)
  BY DEF Stage
<1>3. CASE Connect(k)
  <2>1. \A j \in Clients : peer'[j] = "left" <=> peer[j] = "left"
    BY <1>3 DEF Connect, TypeOK
  <2>2. UNCHANGED Service!oneAnswerVars
    BY <1>2, <1>3, <2>1 DEF Connect, Service!oneAnswerVars
  <2> QED BY <2>2
<1>4. CASE Send(k)
  <2>1. Service!ClientMoves(k)
    BY <1>2, <1>4 DEF Send, TypeOK, Service!ClientMoves
  <2> QED BY <2>1 DEF Service!Next
<1>5. CASE Leave(k)
  <2>1. Service!ClientMoves(k)
    BY <1>2, <1>5 DEF Leave, TypeOK, Service!ClientMoves
  <2> QED BY <2>1 DEF Service!Next
<1> QED BY <1>1, <1>3, <1>4, <1>5

\* accept() takes the first of the queue.
LEMMA AcceptRefines ==
    ASSUME IInv, Accept
    PROVE  [Service!Next]_Service!oneAnswerVars
<1>0. PICK k \in Clients :
         k = Head(backlog) /\ 1 \in DOMAIN backlog /\ k = backlog[1]
  BY DEF Accept, IInv, TypeOK
<1>1. child[k] = "none" /\ holders[k] = {}
  BY <1>0 DEF IInv, NotYetAccepted
<1>2. holders'[k] = {Parent} /\ \A j \in Clients \ {k} : holders'[j] = holders[j]
  BY <1>0 DEF Accept, IInv, TypeOK
<1>3. UNCHANGED <<peer, inbox, answered, child>>
  BY DEF Accept
<1>4. /\ Stage(k) = "away" /\ Stage(k)' = "taken"
      /\ \A j \in Clients \ {k} : Stage(j)' = Stage(j)
  BY <1>1, <1>2, <1>3 DEF Stage
<1>5. Service!Take(k)
  BY <1>3, <1>4, Advances DEF Service!Take
<1> QED BY <1>5 DEF Service!Next

\* fork() has the client served by its child.
LEMMA ForkRefines ==
    ASSUME IInv, Fork
    PROVE  [Service!Next]_Service!oneAnswerVars
<1>0. PICK k \in Clients :
         k = conn /\ child[k] = "none" /\ holders[k] = {Parent} /\ parentPc = "fork"
  BY DEF Fork, IInv, ParentHolds
<1>1. /\ child'[k] = "forked" /\ \A j \in Clients \ {k} : child'[j] = child[j]
      /\ holders'[k] = {Parent, k} /\ \A j \in Clients \ {k} : holders'[j] = holders[j]
  BY <1>0 DEF Fork, IInv, TypeOK
<1>2. UNCHANGED <<peer, inbox, answered>>
  BY DEF Fork, network
<1>3. /\ Stage(k) = "taken" /\ Stage(k)' = "served"
      /\ \A j \in Clients \ {k} : Stage(j)' = Stage(j)
  BY <1>0, <1>1 DEF Stage
<1>4. Service!Serve(k)
  BY <1>2, <1>3, Advances DEF Service!Serve
<1> QED BY <1>4 DEF Service!Next

\* Whoever closes a listening socket changes nothing for the clients taken from it.
LEMMA ListenerRefines ==
    ASSUME IInv, NEW process, CloseListening(process),
           UNCHANGED <<inbox, answered>>,
           \A j \in Clients : Stage(j)' = Stage(j)
    PROVE  [Service!Next]_Service!oneAnswerVars
<1>1. \A j \in Clients : peer'[j] = "left" <=> peer[j] = "left"
  BY Closing
<1>2. UNCHANGED Service!oneAnswerVars
  BY <1>1 DEF Service!oneAnswerVars
<1> QED BY <1>2

\* The connection ends with the last process that closes it.
LEMMA CloseConnectionRefines ==
    ASSUME IInv, NEW k \in Clients, UNCHANGED <<peer, inbox, answered>>,
           child[k] \notin {"none", "forked", "recv", "send"} \/ holders'[k] # {},
           child[k] # "none", holders[k] # {},
           \/ child'[k] = child[k]
           \/ child[k] = "close" /\ child'[k] = "exit",
           \A j \in Clients \ {k} : child'[j] = child[j] /\ holders'[j] = holders[j]
    PROVE  [Service!Next]_Service!oneAnswerVars
<1>1. \A j \in Clients \ {k} : Stage(j)' = Stage(j)
  BY DEF Stage
<1>2. CASE holders'[k] # {}
  <2>1. Stage(k)' = Stage(k)
    BY <1>2 DEF Stage
  <2>2. UNCHANGED Service!oneAnswerVars
    BY <1>1, <2>1 DEF Service!oneAnswerVars
  <2> QED BY <2>2
<1>3. CASE holders'[k] = {}
  <2>1. Stage(k) = "done" /\ Stage(k)' = "over"
    BY <1>3 DEF Stage
  <2>2. Service!End(k)
    BY <1>1, <2>1, Advances DEF Service!End
  <2> QED BY <2>2 DEF Service!Next
<1> QED BY <1>2, <1>3

\* The parent's close() leaves the connection to the child, or ends it.
LEMMA CloseConnRefines ==
    ASSUME IInv, CloseConn
    PROVE  [Service!Next]_Service!oneAnswerVars
<1>0. PICK k \in Clients :
         k = conn /\ child[k] # "none" /\ Parent \in holders[k]
  BY DEF CloseConn, IInv, ParentHolds
<1>1. /\ holders'[k] = holders[k] \ {Parent}
      /\ \A j \in Clients \ {k} : holders'[j] = holders[j]
      /\ UNCHANGED <<peer, inbox, answered, child>>
  BY <1>0 DEF CloseConn, network, IInv, TypeOK
<1>2. child[k] \in {"forked", "recv", "send", "close"} => k \in holders'[k]
  BY <1>0, <1>1 DEF IInv, DescriptorsPaired, Abandoned
<1> QED BY <1>0, <1>1, <1>2, CloseConnectionRefines

\* The handler and an exit show nothing of themselves.
LEMMA ProcessRefines ==
    ASSUME IInv, Deliver \/ Reap \/ \E k \in Clients : Exit(k)
    PROVE  [Service!Next]_Service!oneAnswerVars
<1>1. UNCHANGED <<peer, inbox, answered, holders>>
  BY DEF Deliver, Reap, Exit, network
<1>2. \A j \in Clients :
         \/ child'[j] = child[j]
         \/ child[j] \in {"exit", "zombie"} /\ child'[j] \in {"zombie", "reaped"}
  BY DEF Deliver, Reap, Exit, Zombies, ChildGoto, IInv, TypeOK
<1>3. \A j \in Clients : Stage(j)' = Stage(j)
  BY <1>1, <1>2 DEF Stage
<1>4. UNCHANGED Service!oneAnswerVars
  BY <1>1, <1>3 DEF Service!oneAnswerVars
<1> QED BY <1>4

\* A child hears and answers its own client, and closes.
LEMMA ChildRefines ==
    ASSUME IInv, NEW k \in Clients, ChildStep(k)
    PROVE  [Service!Next]_Service!oneAnswerVars
<1>1. CASE CloseListenFd(k)
  <2>1. /\ child[k] = "forked" /\ child'[k] = "recv"
        /\ \A j \in Clients \ {k} : child'[j] = child[j]
        /\ UNCHANGED <<inbox, answered, holders>>
    BY <1>1 DEF CloseListenFd, ChildGoto, IInv, TypeOK
  <2>2. k \in holders[k]
    BY <2>1 DEF IInv, DescriptorsPaired, Abandoned
  <2>3. \A j \in Clients : Stage(j)' = Stage(j)
    BY <2>1, <2>2 DEF Stage
  <2>4. CloseListening(k)
    BY <1>1 DEF CloseListenFd
  <2> QED BY <2>1, <2>3, <2>4, ListenerRefines
<1>2. CASE Recv(k)
  <2>1. /\ child[k] = "recv" /\ UNCHANGED <<peer, answered, holders>>
        /\ \A j \in Clients \ {k} : child'[j] = child[j]
        /\ \/ k \in inbox /\ child'[k] = "send" /\ inbox' = inbox \ {k}
           \/ k \notin inbox /\ peer[k] = "left" /\ child'[k] = "close" /\ UNCHANGED inbox
    BY <1>2 DEF Recv, ChildGoto, IInv, TypeOK
  <2>2. k \in holders[k]
    BY <2>1 DEF IInv, DescriptorsPaired, Abandoned
  <2>3. Stage(k) = "served" /\ \A j \in Clients \ {k} : Stage(j)' = Stage(j)
    BY <2>1, <2>2 DEF Stage
  <2>4. CASE k \in inbox
    <3>1. Stage(k)' = "heard"
      BY <2>1, <2>2, <2>4 DEF Stage
    <3>2. Service!Hear(k)
      BY <2>1, <2>3, <2>4, <3>1, Advances DEF Service!Hear
    <3> QED BY <3>2 DEF Service!Next
  <2>5. CASE k \notin inbox
    <3>1. Stage(k)' = "done"
      BY <2>1, <2>2, <2>5 DEF Stage
    <3>2. Service!HearEnd(k)
      BY <2>1, <2>3, <2>5, <3>1, Advances DEF Service!HearEnd
    <3> QED BY <3>2 DEF Service!Next
  <2> QED BY <2>4, <2>5
<1>3. CASE Answer(k)
  <2>1. /\ child[k] = "send" /\ child'[k] = "close" /\ UNCHANGED <<peer, inbox, holders>>
        /\ \A j \in Clients \ {k} : child'[j] = child[j]
        /\ answered' = answered \cup {k} \/ (peer[k] = "left" /\ UNCHANGED answered)
    BY <1>3 DEF Answer, ChildGoto, IInv, TypeOK
  <2>2. k \in holders[k] /\ k \notin answered
    BY <2>1 DEF IInv, DescriptorsPaired, Abandoned, AnsweredByChild
  <2>3. /\ Stage(k) = "heard" /\ Stage(k)' = "done"
        /\ \A j \in Clients \ {k} : Stage(j)' = Stage(j)
    BY <2>1, <2>2 DEF Stage
  <2>4. Service!Advance(k, "heard", "done")
    BY <2>3, Advances
  <2>5. Service!Answer(k)
    <3>1. CASE answered' = answered \cup {k}
      BY <2>1, <2>2, <2>4, <3>1, OneMore DEF Service!Answer
    <3>2. CASE peer[k] = "left" /\ UNCHANGED answered
      BY <2>1, <2>4, <3>2 DEF Service!Answer
    <3> QED BY <2>1, <3>1, <3>2
  <2> QED BY <2>5 DEF Service!Next
<1>4. CASE CloseConnFd(k)
  <2>1. /\ child[k] = "close" /\ child'[k] = "exit"
        /\ UNCHANGED <<peer, inbox, answered>>
        /\ \A j \in Clients \ {k} : child'[j] = child[j] /\ holders'[j] = holders[j]
    BY <1>4 DEF CloseConnFd, ChildGoto, network, IInv, TypeOK
  <2>2. holders[k] # {}
    BY <2>1 DEF IInv, DescriptorsPaired, Abandoned
  <2> QED BY <2>1, <2>2, CloseConnectionRefines
<1>5. CASE Exit(k)
  BY <1>5, ProcessRefines
<1> QED BY <1>1, <1>2, <1>3, <1>4, <1>5 DEF ChildStep

\* Every step of the program is a step of OneAnswer or shows nothing of itself.
LEMMA StepRefines ==
    ASSUME IInv, [Next]_vars
    PROVE  [Service!Next]_Service!oneAnswerVars
<1>1. CASE UNCHANGED vars
  BY <1>1 DEF vars, Stage, Service!oneAnswerVars
<1>2. CASE ClientStep
  BY <1>2, ClientRefines
<1>3. CASE ForkFails
  <2>1. CloseListening(Parent) /\ UNCHANGED <<inbox, answered, holders, child>>
    BY <1>3 DEF ForkFails
  <2>2. \A j \in Clients : Stage(j)' = Stage(j)
    BY <2>1 DEF Stage
  <2> QED BY <2>1, <2>2, ListenerRefines
<1>4. CASE ParentStep /\ ~ForkFails
  <2>1. CASE Listen
    BY <2>1 DEF Listen, network, Stage, Service!oneAnswerVars
  <2> QED BY <1>4, <2>1, AcceptRefines, ForkRefines, CloseConnRefines DEF ParentStep
<1>5. CASE Deliver \/ Reap
  BY <1>5, ProcessRefines
<1>6. ASSUME NEW k \in Clients, ChildStep(k)
      PROVE  [Service!Next]_Service!oneAnswerVars
  BY <1>6, ChildRefines
<1> QED BY <1>1, <1>2, <1>3, <1>4, <1>5, <1>6 DEF Next, ParentStep

\* The forking server implements OneAnswer for any number of clients: each is heard
\* and answered once by its own child, and its connection ends after that.
THEOREM Refinement == Spec => ImplementsOneAnswer
<1>1. Init => Service!Init
  BY InitRefines
<1>2. IInv /\ [Next]_vars => [Service!Next]_Service!oneAnswerVars
  BY StepRefines
<1> QED BY <1>1, <1>2, Invariance, PTL DEF Spec, ImplementsOneAnswer, Service!Spec
=============================================================================
