------------------------------ MODULE UdpEchoProofs ------------------------------
(***************************************************************************)
(* The clients of echo_server stay in step with their echoes, for any      *)
(* number of clients, lines, losses and crashes.                           *)
(***************************************************************************)
EXTENDS UdpEcho, TLAPS

USE UdpAssumption

\* What is read of a datagram has a length, which is zero for an empty one only.
LEMMA CutType == ASSUME NEW size \in Nat PROVE Cut(size) \in Nat
BY DEF Cut

\* At the start nothing is under way.
LEMMA InitInductive == Init => IInv
<1> SUFFICES ASSUME Init PROVE IInv
  OBVIOUS
<1>1. <<>> \in Seq(Nat) /\ Nothing \in [no : 0..MaxLines, size : Nat]
  BY DEF Nothing
<1>2. TypeOK
  BY <1>1 DEF Init, TypeOK
<1>3. InStep /\ AboutALine /\ OneUnderWay
  BY DEF Init, InStep, AboutALine, OneUnderWay, Questions
<1> QED BY <1>2, <1>3 DEF IInv

\* A line that is waited for is the only one of its client under way.
LEMMA AskInductive ==
    ASSUME IInv, NEW c \in Clients, NEW size \in Sizes, size > 0,
           client[c] = "enter", Len(asked[c]) < MaxLines,
           requests' = requests \cup {Datagram(c, Len(asked[c]) + 1, size, 0)},
           asked' = [asked EXCEPT ![c] = Append(@, size)],
           client' = [client EXCEPT ![c] = "wait"],
           UNCHANGED <<shown, server, inbuffer, echoes, faults>>
    PROVE  IInv'
<1>1. /\ Len(asked'[c]) = Len(asked[c]) + 1 /\ asked'[c] \in Seq(Nat)
      /\ asked'[c][Len(asked[c]) + 1] = size
      /\ \A i \in 1..Len(asked[c]) : asked'[c][i] = asked[c][i]
      /\ Len(asked[c]) \in Nat /\ size \in Nat
      /\ \A b \in Clients \ {c} : asked'[b] = asked[b]
  BY DEF IInv, TypeOK
<1>2. PICK q : q = Datagram(c, Len(asked[c]) + 1, size, 0)
  OBVIOUS
<1>3. /\ q \in Datagrams /\ q.client = c /\ q.no = Len(asked[c]) + 1 /\ q.size = size
      /\ requests' = requests \cup {q}
  BY <1>1, <1>2 DEF Datagram, Datagrams
<1>4. /\ client'[c] = "wait" /\ \A b \in Clients \ {c} : client'[b] = client[b]
      /\ client' \in [Clients -> {"enter", "wait"}]
  BY DEF IInv, TypeOK
<1>5. TypeOK'
  BY <1>1, <1>3, <1>4 DEF IInv, TypeOK, faults
<1>6. Questions' = Questions \cup {q}
  BY <1>3 DEF Questions
<1>7. /\ \A b \in Clients : \A i \in 1..Len(asked[b]) :
            i \in 1..Len(asked'[b]) /\ asked'[b][i] = asked[b][i]
      /\ \A d \in Questions \cup echoes : d.client \in Clients
  <2>1. ASSUME NEW b \in Clients, NEW i \in 1..Len(asked[b])
        PROVE  i \in 1..Len(asked'[b]) /\ asked'[b][i] = asked[b][i]
    <3>1. CASE b = c
      BY <1>1, <3>1
    <3>2. CASE b # c
      BY <1>1, <3>2
    <3> QED BY <3>1, <3>2
  <2>2. \A d \in Questions \cup echoes : d.client \in Clients
    BY DEF IInv, TypeOK, Questions, Datagrams
  <2> QED BY <2>1, <2>2
<1>8. InStep'
  <2>1. \A b \in Clients : \A i \in 1..Len(asked[b]) : EchoOf(b, i)' = EchoOf(b, i)
    BY <1>7 DEF EchoOf
  <2>2. \A b \in Clients : shown[b] # Nothing =>
           \E no \in 1..Len(asked'[b]) : shown[b] = EchoOf(b, no)'
    BY <1>7, <2>1 DEF IInv, InStep
  <2>4. ASSUME NEW b \in Clients, copies = 0, client'[b] = "enter", asked'[b] # <<>>
        PROVE  shown[b] = EchoOf(b, Len(asked[b]))'
    <3>1. b # c /\ asked'[b] = asked[b] /\ client[b] = "enter"
      BY <1>1, <1>4, <2>4
    <3>2. shown[b] = EchoOf(b, Len(asked[b]))
      BY <2>4, <3>1 DEF IInv, InStep
    <3> QED BY <3>1, <3>2 DEF EchoOf
  <2> QED BY <2>2, <2>4 DEF InStep, faults
<1>9. AboutALine'
  BY <1>1, <1>3, <1>6, <1>7 DEF IInv, AboutALine
<1>10. OneUnderWay'
  <2> SUFFICES ASSUME copies = 0 PROVE OneUnderWay'
    BY DEF OneUnderWay, faults
  <2>1. /\ \A d \in Questions \cup echoes : d.client # c
        /\ server = "send" => inbuffer.client # c
    BY DEF IInv, OneUnderWay, Current
  <2>2. /\ \A d \in Questions \cup echoes : Current(d)'
        /\ server = "send" => Current(inbuffer)'
    BY <1>1, <1>4, <1>7, <2>1 DEF IInv, OneUnderWay, AboutALine, Current
  <2>3. Current(q)'
    BY <1>1, <1>3, <1>4 DEF Current
  <2> QED BY <1>3, <1>6, <2>1, <2>2, <2>3 DEF IInv, OneUnderWay, Current
<1> QED BY <1>5, <1>8, <1>9, <1>10 DEF IInv

\* A step that takes requests and echoes away, changes neither dialogs nor what the
\* server has in hand, keeps the invariant.
LEMMA FewerDatagrams ==
    ASSUME IInv, requests' \subseteq requests, echoes' \subseteq echoes,
           UNCHANGED clients, UNCHANGED copies,
           \/ UNCHANGED <<server, inbuffer>>
           \/ server' # "send" /\ server' \in {"recv", "down"}
              /\ inbuffer' \in {inbuffer, NoDatagram},
           lost' \in 0..MaxLost, crashes' \in 0..MaxCrashes
    PROVE  IInv'
<1> USE DEF clients
<1>1. TypeOK'
  BY DEF IInv, TypeOK
<1>2. InStep'
  BY DEF IInv, InStep, EchoOf
<1>3. Questions' \subseteq Questions
  BY DEF Questions
<1>4. AboutALine'
  BY <1>3 DEF IInv, AboutALine
<1>5. OneUnderWay'
  BY <1>3 DEF IInv, OneUnderWay, Current
<1> QED BY <1>1, <1>2, <1>4, <1>5 DEF IInv

\* An empty line adds a datagram nobody answers.
LEMMA EmptyLineInductive ==
    ASSUME IInv, NEW c \in Clients,
           requests' = requests \cup {Datagram(c, 0, 0, 0)},
           UNCHANGED <<client, asked>>,
           UNCHANGED <<shown, server, inbuffer, echoes, faults>>
    PROVE  IInv'
<1> USE DEF faults
<1>1. Datagram(c, 0, 0, 0) \in Datagrams /\ Datagram(c, 0, 0, 0).size = 0
  BY DEF Datagram, Datagrams
<1>2. TypeOK'
  BY <1>1 DEF IInv, TypeOK
<1>3. InStep'
  BY DEF IInv, InStep, EchoOf
<1>4. Questions' = Questions
  BY <1>1 DEF Questions
<1>5. AboutALine'
  BY <1>4 DEF IInv, AboutALine
<1>6. OneUnderWay'
  BY <1>4 DEF IInv, OneUnderWay, Current
<1> QED BY <1>2, <1>3, <1>5, <1>6 DEF IInv

\* The echo a client takes is that of a line of its own and, without copies, of the
\* last one, after which nothing is under way for it.
LEMMA TakeInductive ==
    ASSUME IInv, NEW c \in Clients, Take(c)
    PROVE  IInv'
<1>1. PICK d \in echoes :
         /\ d.client = c
         /\ shown' = [shown EXCEPT ![c] = [no |-> d.no, size |-> Cut(d.size)]]
         /\ echoes' = echoes \ {d}
  BY DEF Take
<1>2. /\ client[c] = "wait" /\ client' = [client EXCEPT ![c] = "enter"]
      /\ UNCHANGED <<asked, requests, server, inbuffer, lost, copies, crashes>>
  BY DEF Take, faults
<1>3. /\ client'[c] = "enter" /\ \A b \in Clients \ {c} : client'[b] = client[b]
      /\ client' \in [Clients -> {"enter", "wait"}]
  BY <1>2 DEF IInv, TypeOK
<1>4. /\ d \in Datagrams /\ d.no \in 0..MaxLines /\ d.size \in Nat
      /\ d.no \in 1..Len(asked[c]) /\ d.size = Prefix + Cut(asked[c][d.no])
  BY <1>1 DEF IInv, TypeOK, AboutALine, Datagrams
<1>5. Cut(d.size) \in Nat
  BY <1>4, CutType
<1>6. /\ shown'[c] = EchoOf(c, d.no)
      /\ \A b \in Clients \ {c} : shown'[b] = shown[b]
      /\ shown' \in [Clients -> [no : 0..MaxLines, size : Nat]]
  BY <1>1, <1>4, <1>5 DEF IInv, TypeOK, EchoOf
<1>7. TypeOK'
  BY <1>1, <1>2, <1>3, <1>6 DEF IInv, TypeOK
<1>8. InStep'
  <2>1. \A b \in Clients : \A no : EchoOf(b, no)' = EchoOf(b, no)
    BY <1>2 DEF EchoOf
  <2>2. copies = 0 => d.no = Len(asked[c])
    BY <1>1 DEF IInv, OneUnderWay, Current
  <2> QED BY <1>2, <1>3, <1>4, <1>6, <2>1, <2>2 DEF IInv, InStep
<1>9. AboutALine'
  BY <1>1, <1>2 DEF IInv, AboutALine, Questions
<1>10. OneUnderWay'
  <2> SUFFICES ASSUME copies = 0 PROVE OneUnderWay'
    BY <1>2 DEF OneUnderWay
  <2>1. /\ \A e \in Questions \cup echoes' : e.client # c /\ e.client \in Clients
        /\ server = "send" => inbuffer.client # c /\ inbuffer.client \in Clients
    BY <1>1 DEF IInv, OneUnderWay, AboutALine, TypeOK, Questions, Datagrams
  <2>2. /\ \A e \in Questions \cup echoes' : Current(e)'
        /\ server = "send" => Current(inbuffer)'
    BY <1>1, <1>2, <1>3, <2>1 DEF IInv, OneUnderWay, Current
  <2>3. Questions' = Questions
    BY <1>2 DEF Questions
  <2> QED BY <1>1, <1>2, <2>2, <2>3 DEF IInv, OneUnderWay, Current
<1> QED BY <1>7, <1>8, <1>9, <1>10 DEF IInv

\* The server takes a request in hand ...
LEMMA RecvInductive ==
    ASSUME IInv, NEW c \in Clients, Recv(c)
    PROVE  IInv'
<1>1. PICK d \in requests :
         /\ requests' = requests \ {d} /\ server = "recv"
         /\ \/ /\ d.size > 0 /\ inbuffer' = [d EXCEPT !.size = Cut(d.size)]
               /\ server' = "send"
            \/ UNCHANGED <<inbuffer, server>>
  BY DEF Recv
<1>2. UNCHANGED <<client, asked, shown, echoes, lost, copies, crashes>>
  BY DEF Recv, clients, faults
<1>3. CASE UNCHANGED <<inbuffer, server>>
  BY <1>1, <1>2, <1>3, FewerDatagrams DEF clients, IInv, TypeOK
<1>4. CASE /\ d.size > 0 /\ inbuffer' = [d EXCEPT !.size = Cut(d.size)]
           /\ server' = "send"
  <2>1. /\ d \in Questions /\ d \in Datagrams /\ d.client \in Clients
        /\ d.no \in 1..Len(asked[d.client]) /\ d.size = asked[d.client][d.no]
        /\ d.size \in Nat /\ Cut(d.size) \in Nat
    BY <1>1, <1>4, CutType DEF Questions, IInv, TypeOK, Datagrams, AboutALine
  <2>2. /\ inbuffer' \in Datagrams /\ inbuffer'.client = d.client /\ inbuffer'.no = d.no
        /\ inbuffer'.size = Cut(d.size)
    BY <1>4, <2>1 DEF Datagrams
  <2>3. TypeOK'
    BY <1>1, <1>2, <1>4, <2>2 DEF IInv, TypeOK
  <2>4. InStep'
    BY <1>2 DEF IInv, InStep, EchoOf
  <2>5. Questions' = Questions \ {d}
    BY <1>1 DEF Questions
  <2>6. AboutALine'
    BY <1>2, <2>1, <2>2, <2>5 DEF IInv, AboutALine
  <2>7. OneUnderWay'
    <3> SUFFICES ASSUME copies = 0 PROVE OneUnderWay'
      BY <1>2 DEF OneUnderWay
    <3>1. /\ Current(d) /\ \A e \in Questions \ {d} : e.client # d.client
          /\ \A e \in echoes : e.client # d.client
      BY <2>1 DEF IInv, OneUnderWay
    <3>2. Current(inbuffer)'
      BY <1>2, <2>2, <3>1 DEF Current
    <3> QED BY <1>2, <2>2, <2>5, <3>1, <3>2 DEF IInv, OneUnderWay, Current
  <2> QED BY <2>3, <2>4, <2>6, <2>7 DEF IInv
<1> QED BY <1>1, <1>3, <1>4

\* ... and turns it into an echo.
LEMMA SendEchoInductive ==
    ASSUME IInv, SendEcho
    PROVE  IInv'
<1>1. PICK e : e = [inbuffer EXCEPT !.size = Prefix + @]
  OBVIOUS
<1>2. /\ server = "send" /\ server' = "recv" /\ inbuffer' = NoDatagram
      /\ echoes' = echoes \cup {e}
      /\ UNCHANGED <<client, asked, shown, requests, lost, copies, crashes>>
  BY <1>1 DEF SendEcho, clients, faults
<1>3. /\ inbuffer.client \in Clients /\ inbuffer.no \in 1..Len(asked[inbuffer.client])
      /\ inbuffer.size = Cut(asked[inbuffer.client][inbuffer.no])
  BY <1>2 DEF IInv, AboutALine
<1>4. inbuffer \in Datagrams
  <2>1. NoDatagram.no = 0
    BY DEF NoDatagram
  <2>2. inbuffer # NoDatagram
    BY <1>3, <2>1
  <2> QED BY <2>2 DEF IInv, TypeOK
<1>5. /\ e \in Datagrams /\ e.client = inbuffer.client /\ e.no = inbuffer.no
      /\ e.size = Prefix + inbuffer.size
  BY <1>1, <1>4 DEF Datagrams
<1>6. TypeOK'
  BY <1>2, <1>5 DEF IInv, TypeOK
<1>7. InStep'
  BY <1>2 DEF IInv, InStep, EchoOf
<1>8. Questions' = Questions
  BY <1>2 DEF Questions
<1>9. AboutALine'
  BY <1>2, <1>3, <1>5, <1>8 DEF IInv, AboutALine
<1>10. OneUnderWay'
  <2> SUFFICES ASSUME copies = 0 PROVE OneUnderWay'
    BY <1>2 DEF OneUnderWay
  <2>1. /\ Current(inbuffer)
        /\ \A d \in Questions \cup echoes : d.client # e.client
    BY <1>2, <1>5 DEF IInv, OneUnderWay
  <2>2. Current(e)'
    BY <1>2, <1>5, <2>1 DEF Current
  <2> QED BY <1>2, <1>8, <2>1, <2>2 DEF IInv, OneUnderWay, Current
<1> QED BY <1>6, <1>7, <1>9, <1>10 DEF IInv

\* A crash, a restart and a loss leave fewer datagrams.
LEMMA FaultInductive ==
    ASSUME IInv, Crash \/ Unreachable \/ Restart \/ Lose
    PROVE  IInv'
<1>1. UNCHANGED clients /\ UNCHANGED copies
  BY DEF Crash, Unreachable, Restart, Lose, faults
<1>2. requests' \subseteq requests /\ echoes' \subseteq echoes
  BY DEF Crash, Unreachable, Restart, Lose
<1>3. \/ UNCHANGED <<server, inbuffer>>
      \/ server' # "send" /\ server' \in {"recv", "down"}
         /\ inbuffer' \in {inbuffer, NoDatagram}
  BY DEF Crash, Unreachable, Restart, Lose
<1>4. lost' \in 0..MaxLost /\ crashes' \in 0..MaxCrashes
  BY DEF Crash, Unreachable, Restart, Lose, faults, IInv, TypeOK
<1> QED BY <1>1, <1>2, <1>3, <1>4, FewerDatagrams

\* The datagrams of T are about lines that those of S are about.
SameLines(S, T) ==
    /\ T \subseteq Datagrams
    /\ \A q \in T : \E d \in S : q.client = d.client /\ q.no = d.no /\ q.size = d.size

\* A copy is about the line of its original.
LEMMA CopySameLine ==
    ASSUME NEW S \in SUBSET Datagrams, NEW d \in S, NEW n \in 0..MaxCopies, NEW T,
           T = S \cup {[d EXCEPT !.copy = n]}
    PROVE  SameLines(S, T)
<1>1. PICK e : e = [d EXCEPT !.copy = n]
  OBVIOUS
<1>2. e \in Datagrams /\ e.client = d.client /\ e.no = d.no /\ e.size = d.size
  BY <1>1 DEF Datagrams
<1>3. T = S \cup {e}
  BY <1>1
<1> QED BY <1>2, <1>3 DEF SameLines

\* More datagrams about the same lines disturb nothing, once there is a copy.
LEMMA MoreOfTheSame ==
    ASSUME IInv, SameLines(requests, requests'), SameLines(echoes, echoes'),
           copies' \in 1..MaxCopies,
           UNCHANGED <<client, asked, shown, server, inbuffer, lost, crashes>>
    PROVE  IInv'
<1>1. TypeOK'
  BY DEF IInv, TypeOK, SameLines
<1>2. InStep'
  BY DEF IInv, InStep, EchoOf
<1>3. AboutALine'
  BY DEF IInv, AboutALine, Questions, SameLines
<1>4. OneUnderWay'
  BY DEF OneUnderWay
<1> QED BY <1>1, <1>2, <1>3, <1>4 DEF IInv

\* A copy is about the same line as its original; from then on clients may be shown
\* the echo of an earlier line.
LEMMA DuplicateInductive ==
    ASSUME IInv, Duplicate
    PROVE  IInv'
<1>1. /\ copies' = copies + 1 /\ copies' \in 1..MaxCopies /\ copies' \in 0..MaxCopies
      /\ UNCHANGED <<client, asked, shown, server, inbuffer, lost, crashes>>
  BY DEF Duplicate, clients, IInv, TypeOK
<1>2. requests \in SUBSET Datagrams /\ echoes \in SUBSET Datagrams
  BY DEF IInv, TypeOK
<1>3. CASE /\ \E d \in requests : requests' = requests \cup {[d EXCEPT !.copy = copies']}
           /\ UNCHANGED echoes
  <2>1. PICK d \in requests : requests' = requests \cup {[d EXCEPT !.copy = copies']}
    BY <1>3
  <2>2. SameLines(requests, requests')
    BY <1>1, <1>2, <2>1, CopySameLine
  <2>3. SameLines(echoes, echoes')
    BY <1>2, <1>3 DEF SameLines
  <2> QED BY <1>1, <2>2, <2>3, MoreOfTheSame
<1>4. CASE /\ \E d \in echoes : echoes' = echoes \cup {[d EXCEPT !.copy = copies']}
           /\ UNCHANGED requests
  <2>1. PICK d \in echoes : echoes' = echoes \cup {[d EXCEPT !.copy = copies']}
    BY <1>4
  <2>2. SameLines(echoes, echoes')
    BY <1>1, <1>2, <2>1, CopySameLine
  <2>3. SameLines(requests, requests')
    BY <1>2, <1>4 DEF SameLines
  <2> QED BY <1>1, <2>2, <2>3, MoreOfTheSame
<1> QED BY <1>3, <1>4 DEF Duplicate

\* Every step of the programs and of the network keeps the inductive invariant.
LEMMA NextInductive ==
    ASSUME IInv, [Next]_vars
    PROVE  IInv'
<1>1. CASE UNCHANGED vars
  BY <1>1, FewerDatagrams DEF vars, clients, IInv, TypeOK
<1>2. ASSUME NEW c \in Clients, Enter(c)
      PROVE  IInv'
  BY <1>2, AskInductive, EmptyLineInductive DEF Enter
<1>3. ASSUME NEW c \in Clients, Take(c) \/ Recv(c)
      PROVE  IInv'
  BY <1>3, TakeInductive, RecvInductive
<1>4. CASE SendEcho \/ Duplicate
  BY <1>4, SendEchoInductive, DuplicateInductive
<1>5. CASE Crash \/ Unreachable \/ Restart \/ Lose
  BY <1>5, FaultInductive
<1> QED BY <1>1, <1>2, <1>3, <1>4, <1>5 DEF Next

\* The inductive invariant holds throughout.
THEOREM Invariance == Spec => []IInv
<1>1. Init => IInv
  BY InitInductive
<1>2. IInv /\ [Next]_vars => IInv'
  BY NextInductive
<1> QED BY <1>1, <1>2, PTL DEF Spec

\* Every variable keeps its type, whatever the network does.
THEOREM TypeCorrect == Spec => []TypeOK
BY Invariance, PTL DEF IInv

\* However datagrams are lost and reordered and the server dies and comes back, a
\* client that goes on has been shown the echo of its last line.
THEOREM EchoesInStep == Spec => []InStep
BY Invariance, PTL DEF IInv

\* A client that waits stays as long as what it waits for is under way.
StillUnderWay(c) == \E d \in UnderWay : d.client = c /\ d.no = Len(asked[c])

\* The steps that are no fault leave what is waited for under way.
LEMMA WaitedForStays ==
    ASSUME IInv, [Next]_vars, lost' = 0, crashes' = 0, server # "down",
           lost = 0 /\ crashes = 0 => NothingVanishes,
           NEW c \in Clients, client'[c] = "wait"
    PROVE  StillUnderWay(c)' /\ server' # "down"
<1>1. lost \in Nat /\ crashes \in Nat /\ client \in [Clients -> {"enter", "wait"}]
  BY DEF IInv, TypeOK
<1>2. CASE UNCHANGED vars
  BY <1>1, <1>2 DEF vars, NothingVanishes, StillUnderWay, UnderWay, Questions
<1>3. ASSUME NEW b \in Clients, Enter(b)
      PROVE  StillUnderWay(c)' /\ server' # "down"
  <2>1. /\ lost = 0 /\ crashes = 0 /\ UNCHANGED <<server, inbuffer, echoes>>
        /\ requests \subseteq requests'
    BY <1>3 DEF Enter, faults
  <2>2. UnderWay \subseteq UnderWay'
    BY <2>1 DEF UnderWay, Questions
  <2>3. CASE client[c] = "wait"
    <3>1. StillUnderWay(c)
      BY <2>1, <2>3 DEF NothingVanishes, StillUnderWay
    <3>2. asked'[c] = asked[c]
      BY <1>3, <2>3 DEF Enter, IInv, TypeOK
    <3> QED BY <2>1, <2>2, <3>1, <3>2 DEF StillUnderWay
  <2>4. CASE client[c] # "wait"
    <3>1. b = c /\ client' # client
      BY <1>1, <1>3, <2>4 DEF Enter
    <3>2. PICK size \in Sizes :
             /\ size > 0
             /\ requests' = requests \cup {Datagram(c, Len(asked[c]) + 1, size, 0)}
             /\ asked' = [asked EXCEPT ![c] = Append(@, size)]
      BY <1>3, <3>1 DEF Enter
    <3>3. Len(asked'[c]) = Len(asked[c]) + 1
      BY <3>2 DEF IInv, TypeOK
    <3>4. PICK q : q = Datagram(c, Len(asked[c]) + 1, size, 0)
      OBVIOUS
    <3>5. q \in requests' /\ q.client = c /\ q.no = Len(asked[c]) + 1 /\ q.size > 0
      BY <3>2, <3>4 DEF Datagram
    <3> QED BY <2>1, <3>3, <3>5 DEF StillUnderWay, UnderWay, Questions
  <2> QED BY <2>3, <2>4
<1>4. ASSUME NEW b \in Clients, Take(b)
      PROVE  StillUnderWay(c)' /\ server' # "down"
  <2>1. b # c /\ client[c] = "wait"
    BY <1>1, <1>4 DEF Take
  <2>2. /\ lost = 0 /\ crashes = 0 /\ UNCHANGED <<asked, requests, server, inbuffer>>
        /\ \A d \in echoes : d.client # b => d \in echoes'
    BY <1>4 DEF Take, faults
  <2>3. StillUnderWay(c)
    BY <2>1, <2>2 DEF NothingVanishes, StillUnderWay
  <2> QED BY <2>1, <2>2, <2>3 DEF StillUnderWay, UnderWay, Questions
<1>5. ASSUME NEW b \in Clients, Recv(b)
      PROVE  StillUnderWay(c)' /\ server' # "down"
  <2>1. PICK d \in requests :
           /\ requests' = requests \ {d} /\ server = "recv"
           /\ \/ /\ d.size > 0 /\ inbuffer' = [d EXCEPT !.size = Cut(d.size)]
                 /\ server' = "send"
              \/ d.size = 0 /\ UNCHANGED <<inbuffer, server>>
    BY <1>5 DEF Recv
  <2>2. lost = 0 /\ crashes = 0 /\ UNCHANGED <<client, asked, echoes>>
    BY <1>5 DEF Recv, clients, faults
  <2>3. d \in Datagrams
    BY DEF IInv, TypeOK
  <2>4. PICK e \in UnderWay : e.client = c /\ e.no = Len(asked[c])
    BY <2>2 DEF NothingVanishes
  <2>5. CASE e # d
    BY <2>1, <2>2, <2>4, <2>5 DEF StillUnderWay, UnderWay, Questions
  <2>6. CASE e = d /\ d.size > 0
    <3>1. inbuffer' = [d EXCEPT !.size = Cut(d.size)] /\ server' = "send"
      BY <2>1, <2>6
    <3>2. inbuffer'.client = c /\ inbuffer'.no = Len(asked[c])
      BY <2>3, <2>4, <2>6, <3>1 DEF Datagrams
    <3> QED BY <2>2, <3>1, <3>2 DEF StillUnderWay, UnderWay, Questions
  <2>7. CASE e = d /\ d.size = 0
    BY <2>1, <2>2, <2>4, <2>7 DEF StillUnderWay, UnderWay, Questions
  <2> QED BY <2>1, <2>5, <2>6, <2>7
<1>6. CASE SendEcho
  <2>1. PICK e : e = [inbuffer EXCEPT !.size = Prefix + @]
    OBVIOUS
  <2>2. /\ server = "send" /\ server' = "recv" /\ echoes' = echoes \cup {e}
        /\ UNCHANGED <<client, asked, requests, lost, crashes>>
    BY <1>6, <2>1 DEF SendEcho, clients, faults
  <2>3. e.client = inbuffer.client /\ e.no = inbuffer.no
    <3>1. inbuffer \in Datagrams \/ inbuffer = NoDatagram
      BY DEF IInv, TypeOK
    <3> QED BY <2>1, <3>1 DEF Datagrams, NoDatagram
  <2>4. StillUnderWay(c)
    BY <2>2 DEF NothingVanishes, StillUnderWay
  <2> QED BY <2>2, <2>3, <2>4 DEF StillUnderWay, UnderWay, Questions
<1>7. CASE Duplicate
  <2>1. /\ requests \subseteq requests' /\ echoes \subseteq echoes'
        /\ UNCHANGED <<client, asked, server, inbuffer, lost, crashes>>
    BY <1>7 DEF Duplicate, clients
  <2>2. StillUnderWay(c)
    BY <2>1 DEF NothingVanishes, StillUnderWay
  <2> QED BY <2>1, <2>2 DEF StillUnderWay, UnderWay, Questions
<1>8. CASE Crash \/ Unreachable \/ Restart \/ Lose
  <2>1. ~Crash /\ ~Lose
    BY <1>1 DEF Crash, Lose
  <2> QED BY <1>8, <2>1 DEF Unreachable, Restart
<1> QED BY <1>2, <1>3, <1>4, <1>5, <1>6, <1>7, <1>8 DEF Next

\* The line a client waits for is under way until a datagram is lost or the server
\* dies: a client that waits for ever does so for one of these reasons.
THEOREM WaitingInVain == Spec => []NothingVanishes
<1> DEFINE Up == crashes = 0 => server # "down"
<1>1. Init => Up /\ NothingVanishes
  BY DEF Init, NothingVanishes
<1>2. IInv /\ Up /\ [Next]_vars => Up'
  <2> SUFFICES ASSUME IInv, Up, [Next]_vars, crashes' = 0
               PROVE  server' # "down"
    OBVIOUS
  <2>1. ~Crash
    BY DEF Crash, IInv, TypeOK
  <2>2. CASE UNCHANGED vars
    BY <2>2 DEF vars
  <2>3. CASE Unreachable \/ Restart \/ Lose \/ Duplicate \/ SendEcho
    BY <2>3 DEF Unreachable, Restart, Lose, Duplicate, SendEcho, faults
  <2>4. CASE \E c \in Clients : Enter(c) \/ Take(c) \/ Recv(c)
    BY <2>4 DEF Enter, Take, Recv, faults
  <2> QED BY <2>1, <2>2, <2>3, <2>4 DEF Next
<1>3. lost' = 0 /\ crashes' = 0 /\ IInv /\ [Next]_vars => lost = 0 /\ crashes = 0
  <2> SUFFICES ASSUME lost' = 0, crashes' = 0, IInv, [Next]_vars
               PROVE  lost = 0 /\ crashes = 0
    OBVIOUS
  <2>1. ~Crash /\ ~Lose
    BY DEF Crash, Lose, IInv, TypeOK
  <2>2. CASE UNCHANGED vars
    BY <2>2 DEF vars
  <2>3. CASE Unreachable \/ Restart \/ Duplicate \/ SendEcho
    BY <2>3 DEF Unreachable, Restart, Duplicate, SendEcho, faults
  <2>4. CASE \E c \in Clients : Enter(c) \/ Take(c) \/ Recv(c)
    BY <2>4 DEF Enter, Take, Recv, faults
  <2> QED BY <2>1, <2>2, <2>3, <2>4 DEF Next
<1>4. IInv /\ Up /\ NothingVanishes /\ [Next]_vars => NothingVanishes'
  <2> SUFFICES ASSUME IInv, Up, NothingVanishes, [Next]_vars, lost' = 0, crashes' = 0,
                      NEW c \in Clients, client'[c] = "wait"
               PROVE  StillUnderWay(c)'
    BY DEF NothingVanishes, StillUnderWay
  <2>1. server # "down"
    BY <1>3
  <2> QED BY <2>1, WaitedForStays
<1> QED BY <1>1, <1>2, <1>4, Invariance, PTL DEF Spec
=============================================================================
