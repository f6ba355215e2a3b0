-------------------------------- MODULE OneAnswer --------------------------------
(***************************************************************************)
(* What the forking and the threaded server promise a client: it is taken, *)
(* served, heard once, answered once, and its connection ends, in that     *)
(* order and whatever becomes of the others.  Nobody is ended who is being *)
(* served and waits for his answer.  There are no descriptors, cells,      *)
(* processes or threads.                                                   *)
(***************************************************************************)
EXTENDS Integers

CONSTANT Clients

VARIABLES
    unread,         \* clients whose message was not received yet
    gone,           \* clients that closed their end
    stage,          \* stage[k]: "away", "taken" from the queue, "served" by
                    \* somebody, "heard", "done" or "over"
    answers         \* answers[k]: answers given to k

oneAnswerVars == <<unread, gone, stage, answers>>

Init ==
    /\ unread = {}
    /\ gone = {}
    /\ stage = [k \in Clients |-> "away"]
    /\ answers = [k \in Clients |-> 0]

ClientMoves(k) ==
    /\ \/ unread' = unread \cup {k} /\ k \notin gone /\ UNCHANGED gone
       \/ gone' = gone \cup {k} /\ UNCHANGED unread
    /\ UNCHANGED <<stage, answers>>

Advance(k, from, to) ==
    /\ stage[k] = from
    /\ stage' = [stage EXCEPT ![k] = to]

Take(k) ==
    /\ Advance(k, "away", "taken")
    /\ UNCHANGED <<unread, gone, answers>>

Serve(k) ==
    /\ Advance(k, "taken", "served")
    /\ UNCHANGED <<unread, gone, answers>>

\* There is nobody to serve this client.
TurnAway(k) ==
    /\ Advance(k, "taken", "over")
    /\ UNCHANGED <<unread, gone, answers>>

Hear(k) ==
    /\ k \in unread
    /\ Advance(k, "served", "heard")
    /\ unread' = unread \ {k}
    /\ UNCHANGED <<gone, answers>>

\* The server may take the end of the connection for a message.
HearEnd(k) ==
    /\ k \in gone \ unread
    /\ \E to \in {"heard", "done"} : Advance(k, "served", to)
    /\ UNCHANGED <<unread, gone, answers>>

Answer(k) ==
    /\ Advance(k, "heard", "done")
    /\ \/ answers' = [answers EXCEPT ![k] = @ + 1]
       \/ k \in gone /\ UNCHANGED answers
    /\ UNCHANGED <<unread, gone>>

End(k) ==
    /\ Advance(k, "done", "over")
    /\ UNCHANGED <<unread, gone, answers>>

Next ==
    \E k \in Clients :
       \/ ClientMoves(k) \/ Take(k) \/ Serve(k) \/ TurnAway(k)
       \/ Hear(k) \/ HearEnd(k) \/ Answer(k) \/ End(k)

Spec == Init /\ [][Next]_oneAnswerVars
=============================================================================
