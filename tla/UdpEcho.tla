--------------------------------- MODULE UdpEcho ---------------------------------
(***************************************************************************)
(* echo_server: the UDP server that sends each datagram back with a prefix *)
(* and the clients that send a line and wait for the echo.  Requests and   *)
(* echoes carry no number, neither side has a timeout, and the network     *)
(* loses, reorders and duplicates datagrams.                               *)
(***************************************************************************)
EXTENDS Integers, Sequences

CONSTANTS
    Clients,
    Sizes,          \* the lengths of the lines that are typed
    Room,           \* sizeof(inbuffer) - 1, of the server and of the clients
    Prefix,         \* the length of "server echo#"
    MaxLines,       \* bound on the lines a client sends and waits for
    MaxLost,        \* bound on the datagrams the network loses
    MaxCopies,      \* bound on the datagrams it duplicates
    MaxCrashes      \* bound on the deaths of the server

ASSUME UdpAssumption ==
    /\ Sizes \subseteq Nat /\ Room \in Nat /\ Prefix \in Nat
    /\ Room > 0 /\ Prefix > 0
    /\ MaxLines \in Nat /\ MaxLost \in Nat /\ MaxCopies \in Nat /\ MaxCrashes \in Nat

VARIABLES
    client,         \* client[c]: "enter" (getline) or "wait" (recvfrom)
    asked,          \* asked[c]: the lengths of the lines c has waited for
    shown,          \* shown[c]: the echo c printed last
    requests,       \* datagrams on the way to the server or in its socket
    server,         \* "recv", "send" or "down"
    inbuffer,       \* what the server has read, and from whom
    echoes,         \* datagrams on the way to the clients or in their sockets
    lost, copies, crashes

vars == <<client, asked, shown, requests, server, inbuffer, echoes, lost, copies,
          crashes>>
clients == <<client, asked, shown>>
faults == <<lost, copies, crashes>>

\* A datagram of c's dialog about line no; copies of a datagram are told apart.
Datagram(c, no, size, copy) == [client |-> c, no |-> no, size |-> size, copy |-> copy]

Nothing == [no |-> 0, size |-> 0]
NoDatagram == [client |-> "nobody", no |-> 0, size |-> 0, copy |-> 0]

\* What recvfrom() leaves of a datagram.
Cut(size) == IF size > Room THEN Room ELSE size

\* What c is shown of the echo of its line no.
EchoOf(c, no) == [no |-> no, size |-> Cut(Prefix + Cut(asked[c][no]))]

Init ==
    /\ client = [c \in Clients |-> "enter"]
    /\ asked = [c \in Clients |-> <<>>]
    /\ shown = [c \in Clients |-> Nothing]
    /\ requests = {}
    /\ server = "recv"
    /\ inbuffer = NoDatagram
    /\ echoes = {}
    /\ lost = 0
    /\ copies = 0
    /\ crashes = 0

-----------------------------------------------------------------------------
(* The clients.                                                            *)

\* Fault: n >= 0 instead of n > 0 after sendto().
Enter_WaitsForEmpty(c) ==
    /\ client[c] = "enter"
    /\ Len(asked[c]) < MaxLines
    /\ \E size \in Sizes :
          /\ requests' = requests \cup {Datagram(c, Len(asked[c]) + 1, size, 0)}
          /\ asked' = [asked EXCEPT ![c] = Append(@, size)]
    /\ client' = [client EXCEPT ![c] = "wait"]
    /\ UNCHANGED <<shown, server, inbuffer, echoes, faults>>

\* A line is sent, and if sendto() has sent something the client waits.  For an
\* empty line, which is sent too, and after a failure it asks for the next one.
Enter(c) ==
    /\ client[c] = "enter"
    /\ \E size \in Sizes :
          \/ /\ size > 0
             /\ Len(asked[c]) < MaxLines
             /\ requests' = requests \cup {Datagram(c, Len(asked[c]) + 1, size, 0)}
             /\ asked' = [asked EXCEPT ![c] = Append(@, size)]
             /\ client' = [client EXCEPT ![c] = "wait"]
          \/ /\ size = 0
             /\ requests' = requests \cup {Datagram(c, 0, 0, 0)}
             /\ UNCHANGED <<client, asked>>
    /\ UNCHANGED <<shown, server, inbuffer, echoes, faults>>

\* Fault: recvfrom() does not wait.
Take_DontWait(c) ==
    /\ client[c] = "wait"
    /\ \/ \E d \in echoes :
             /\ d.client = c
             /\ shown' = [shown EXCEPT ![c] = [no |-> d.no, size |-> Cut(d.size)]]
             /\ echoes' = echoes \ {d}
       \/ UNCHANGED <<shown, echoes>>
    /\ client' = [client EXCEPT ![c] = "enter"]
    /\ UNCHANGED <<asked, requests, server, inbuffer, faults>>

\* The client prints whatever its socket has.
Take(c) ==
    /\ client[c] = "wait"
    /\ \E d \in echoes :
          /\ d.client = c
          /\ shown' = [shown EXCEPT ![c] = [no |-> d.no, size |-> Cut(d.size)]]
          /\ echoes' = echoes \ {d}
    /\ client' = [client EXCEPT ![c] = "enter"]
    /\ UNCHANGED <<asked, requests, server, inbuffer, faults>>

-----------------------------------------------------------------------------
(* The server.                                                             *)

\* An empty datagram is an error for the server, which goes on.
Recv(c) ==
    /\ server = "recv"
    /\ \E d \in requests :
          /\ d.client = c
          /\ requests' = requests \ {d}
          /\ \/ /\ d.size > 0
                /\ inbuffer' = [d EXCEPT !.size = Cut(d.size)]
                /\ server' = "send"
             \/ /\ d.size = 0
                /\ UNCHANGED <<inbuffer, server>>
    /\ UNCHANGED <<clients, echoes, faults>>

SendEcho ==
    /\ server = "send"
    /\ echoes' = echoes \cup {[inbuffer EXCEPT !.size = Prefix + @]}
    /\ inbuffer' = NoDatagram
    /\ server' = "recv"
    /\ UNCHANGED <<clients, requests, faults>>

\* The server dies, and with it what its socket holds.
Crash ==
    /\ server # "down"
    /\ crashes < MaxCrashes
    /\ crashes' = crashes + 1
    /\ server' = "down"
    /\ inbuffer' = NoDatagram
    /\ \E kept \in SUBSET requests : requests' = kept
    /\ UNCHANGED <<clients, echoes, lost, copies>>

\* What arrives while nobody has the port is dropped.
Unreachable ==
    /\ server = "down"
    /\ \E d \in requests : requests' = requests \ {d}
    /\ UNCHANGED <<clients, server, inbuffer, echoes, faults>>

\* Init(): the port is bound again.
Restart ==
    /\ server = "down"
    /\ server' = "recv"
    /\ UNCHANGED <<clients, requests, inbuffer, echoes, faults>>

-----------------------------------------------------------------------------
(* The network, which delivers in any order.                               *)

Lose ==
    /\ lost < MaxLost
    /\ lost' = lost + 1
    /\ \/ /\ \E d \in requests : requests' = requests \ {d}
          /\ UNCHANGED echoes
       \/ /\ \E d \in echoes : echoes' = echoes \ {d}
          /\ UNCHANGED requests
    /\ UNCHANGED <<clients, server, inbuffer, copies, crashes>>

Duplicate ==
    /\ copies < MaxCopies
    /\ copies' = copies + 1
    /\ \/ /\ \E d \in requests : requests' = requests \cup {[d EXCEPT !.copy = copies']}
          /\ UNCHANGED echoes
       \/ /\ \E d \in echoes : echoes' = echoes \cup {[d EXCEPT !.copy = copies']}
          /\ UNCHANGED requests
    /\ UNCHANGED <<clients, server, inbuffer, lost, crashes>>

Next ==
    \/ \E c \in Clients : Enter(c) \/ Take(c) \/ Recv(c)
    \/ SendEcho \/ Crash \/ Unreachable \/ Restart \/ Lose \/ Duplicate

Spec == Init /\ [][Next]_vars

\* Clients that wait and the server take what has arrived; the server's socket is a
\* queue, in which nobody is passed over for ever.  Nothing is assumed of whoever
\* types the lines or restarts the server.
FairSpec ==
    /\ Spec
    /\ WF_vars(SendEcho)
    /\ \A c \in Clients : WF_vars(Take(c)) /\ SF_vars(Recv(c))

-----------------------------------------------------------------------------
Datagrams == [client : Clients, no : 0..MaxLines, size : Nat, copy : 0..MaxCopies]

TypeOK ==
    /\ client \in [Clients -> {"enter", "wait"}]
    /\ asked \in [Clients -> Seq(Nat)]
    /\ shown \in [Clients -> [no : 0..MaxLines, size : Nat]]
    /\ requests \subseteq Datagrams
    /\ server \in {"recv", "send", "down"}
    /\ inbuffer \in Datagrams \cup {NoDatagram}
    /\ echoes \subseteq Datagrams
    /\ lost \in 0..MaxLost
    /\ copies \in 0..MaxCopies
    /\ crashes \in 0..MaxCrashes

\* Although nothing says which line an echo answers, a client that goes on to its
\* next line has been shown the echo of the last one, whatever was lost, overtaken
\* or wiped out by a restart, as long as no datagram was duplicated; and even then
\* what it is shown is the echo of a line of its own (EchoClient.cc:38-56).
InStep ==
    \A c \in Clients :
       /\ shown[c] # Nothing =>
             \E no \in 1..Len(asked[c]) : shown[c] = EchoOf(c, no)
       /\ copies = 0 /\ client[c] = "enter" /\ asked[c] # <<>> =>
             shown[c] = EchoOf(c, Len(asked[c]))

\* A client that waits is answered, unless a datagram was lost or the server died
\* (EchoClient.cc:49 waits without a timeout and sends nothing again).
AnsweredUnlessLost ==
    \A c \in Clients :
       client[c] = "wait" ~> client[c] = "enter" \/ lost > 0 \/ crashes > 0

\* Requests that will be answered.
Questions == {d \in requests : d.size > 0}

\* What is under way for a line that is waited for: a request, what the server has
\* in hand, or an echo.
UnderWay ==
    Questions \cup echoes \cup (IF server = "send" THEN {inbuffer} ELSE {})

\* The line a client waits for is always under way, unless a datagram was lost or the
\* server died: neither copies, nor late echoes of earlier lines, nor the requests of
\* other clients make the server or the client drop it (EchoServer.hpp:70-92,
\* EchoClient.cc:38-56).
NothingVanishes ==
    lost = 0 /\ crashes = 0 =>
       \A c \in Clients : client[c] = "wait" =>
          \E d \in UnderWay : d.client = c /\ d.no = Len(asked[c])

-----------------------------------------------------------------------------
(* The facts that make InStep inductive.                                   *)

\* Every datagram on the way is about a line its client waited for.
AboutALine ==
    /\ \A d \in Questions :
          d.no \in 1..Len(asked[d.client]) /\ d.size = asked[d.client][d.no]
    /\ server = "send" =>
          /\ inbuffer.client \in Clients
          /\ inbuffer.no \in 1..Len(asked[inbuffer.client])
          /\ inbuffer.size = Cut(asked[inbuffer.client][inbuffer.no])
    /\ \A d \in echoes :
          /\ d.no \in 1..Len(asked[d.client])
          /\ d.size = Prefix + Cut(asked[d.client][d.no])

\* A datagram about the line its client waits for at present.
Current(d) == client[d.client] = "wait" /\ d.no = Len(asked[d.client])

\* Without copies there is one datagram under way for a client that waits, and none
\* for the others.
OneUnderWay ==
    copies = 0 =>
       /\ \A d \in Questions : Current(d)
       /\ \A d \in echoes : Current(d)
       /\ server = "send" => Current(inbuffer)
       /\ \A d, e \in Questions : d.client = e.client => d = e
       /\ \A d, e \in echoes : d.client = e.client => d = e
       /\ \A d \in Questions, e \in echoes : d.client # e.client
       /\ server = "send" =>
             \A d \in Questions \cup echoes : d.client # inbuffer.client

IInv ==
    /\ TypeOK
    /\ InStep
    /\ AboutALine
    /\ OneUnderWay
=============================================================================
