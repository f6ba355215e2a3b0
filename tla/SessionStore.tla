------------------------------ MODULE SessionStore ------------------------------
(***************************************************************************)
(* What the session pool of http-server-cpp promises: a login opens a      *)
(* session, which lives until its logout, until it has been open for       *)
(* Timeout, or until the server restarts; and nothing else ends or opens   *)
(* one.                                                                    *)
(***************************************************************************)
EXTENDS Integers

CONSTANTS Timeout, Ids

VARIABLES
    live,       \* live[id]: the end of session id, for the sessions that live
    now

Init ==
    /\ live = [id \in {} |-> 0]
    /\ now = 0

Without(id) == [i \in DOMAIN live \ {id} |-> live[i]]

Login(id) ==
    /\ id \notin DOMAIN live
    /\ live' = [i \in DOMAIN live \cup {id} |->
                   IF i = id THEN now + Timeout ELSE live[i]]
    /\ UNCHANGED now

Logout(id) ==
    /\ id \in DOMAIN live
    /\ live' = Without(id)
    /\ UNCHANGED now

\* Time passes, and takes with it the sessions that end.
Tick ==
    /\ now' = now + 1
    /\ live' = [id \in {i \in DOMAIN live : live[i] >= now'} |-> live[id]]

Restart ==
    /\ live' = [id \in {} |-> 0]
    /\ UNCHANGED now

Next ==
    \/ Tick
    \/ Restart
    \/ \E id \in Ids : Login(id)
    \/ \E id \in DOMAIN live : Logout(id)

Spec == Init /\ [][Next]_<<live, now>>
=============================================================================
