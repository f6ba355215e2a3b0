----------------------------- MODULE RequestService -----------------------------
(***************************************************************************)
(* What Project_TCPServer_Plus promises its clients, whatever the reactor: *)
(* the server attends to one client at a time; what it reads it answers    *)
(* once, to the client it came from; and it ends a connection only when    *)
(* that client has gone and everything it sent was read, or when an answer *)
(* could not be delivered.  There are no descriptors, objects or threads.  *)
(***************************************************************************)
EXTENDS Integers

CONSTANTS Clients, NoClient

VARIABLES
    link,           \* link[k]: the server end of k's connection
    inbox,          \* inbox[k]: segments received and not read
    replies,        \* replies[k]: answers given to k
    duty,           \* "none", "answer" or "end"
    whom            \* the client the duty is about

serviceVars == <<link, inbox, replies, duty, whom>>

Gone == {"closeWait", "reset", "broken"}

Init ==
    /\ link = [k \in Clients |-> "idle"]
    /\ inbox = [k \in Clients |-> 0]
    /\ replies = [k \in Clients |-> 0]
    /\ duty = "none"
    /\ whom = NoClient

\* The client connects, sends, leaves, or resets the connection.
ClientMoves(k) ==
    /\ \/ /\ link[k] = "idle"
          /\ link' = [link EXCEPT ![k] = "established"]
          /\ UNCHANGED inbox
       \/ /\ link[k] = "established"
          /\ inbox' = [inbox EXCEPT ![k] = @ + 1]
          /\ UNCHANGED link
       \/ /\ link[k] = "established"
          /\ \E s \in {"closeWait", "reset"} : link' = [link EXCEPT ![k] = s]
          /\ UNCHANGED inbox
       \/ /\ link[k] = "closeWait"
          /\ link' = [link EXCEPT ![k] = "broken"]
          /\ UNCHANGED inbox
    /\ UNCHANGED <<replies, duty, whom>>

\* What is read at once calls for one answer.
Read(k) ==
    /\ duty = "none"
    /\ \E left \in 0..(inbox[k] - 1) : inbox' = [inbox EXCEPT ![k] = left]
    /\ duty' = "answer"
    /\ whom' = k
    /\ UNCHANGED <<link, replies>>

NoticeEnd(k) ==
    /\ duty = "none"
    /\ inbox[k] = 0
    /\ link[k] \in Gone
    /\ duty' = "end"
    /\ whom' = k
    /\ UNCHANGED <<link, inbox, replies>>

Answer(k) ==
    /\ duty = "answer" /\ whom = k
    /\ link[k] \in {"established", "closeWait"}
    /\ replies' = [replies EXCEPT ![k] = @ + 1]
    /\ duty' = "none"
    /\ whom' = NoClient
    /\ UNCHANGED <<link, inbox>>

AnswerFails(k) ==
    /\ duty = "answer" /\ whom = k
    /\ link[k] # "broken"
    /\ duty' = "end"
    /\ UNCHANGED <<link, inbox, replies, whom>>

End(k) ==
    /\ duty = "end" /\ whom = k
    /\ link' = [link EXCEPT ![k] = "closed"]
    /\ duty' = "none"
    /\ whom' = NoClient
    /\ UNCHANGED <<inbox, replies>>

Next ==
    \E k \in Clients :
       ClientMoves(k) \/ Read(k) \/ NoticeEnd(k) \/ Answer(k) \/ AnswerFails(k) \/ End(k)

Spec == Init /\ [][Next]_serviceVars
=============================================================================
