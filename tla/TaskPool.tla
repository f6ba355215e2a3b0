-------------------------------- MODULE TaskPool --------------------------------
(***************************************************************************)
(* What a user of thread5's ThreadPool relies on: submitted tasks are      *)
(* started in order, each is executed once, and the pool only reports that *)
(* it has finished when it was closed and nothing is left.                 *)
(***************************************************************************)
EXTENDS Integers, Sequences

VARIABLES
    submitted,      \* tasks submitted so far; task i is the i-th
    queue,          \* tasks not started
    executing,      \* tasks being executed
    done,           \* tasks executed
    state           \* "open", "closed" or "finished"

poolVars == <<submitted, queue, executing, done, state>>

Init ==
    /\ submitted = 0
    /\ queue = <<>>
    /\ executing = {}
    /\ done = {}
    /\ state = "open"

Submit ==
    /\ state = "open"
    /\ submitted' = submitted + 1
    /\ queue' = Append(queue, submitted + 1)
    /\ UNCHANGED <<executing, done, state>>

Begin ==
    /\ queue # <<>>
    /\ Head(queue) \notin executing \cup done
    /\ executing' = executing \cup {Head(queue)}
    /\ queue' = Tail(queue)
    /\ UNCHANGED <<submitted, done, state>>

Complete ==
    \E t \in executing :
       /\ executing' = executing \ {t}
       /\ done' = done \cup {t}
       /\ UNCHANGED <<submitted, queue, state>>

Close ==
    /\ state = "open"
    /\ state' = "closed"
    /\ UNCHANGED <<submitted, queue, executing, done>>

ReportFinished ==
    /\ state = "closed"
    /\ queue = <<>>
    /\ executing = {}
    /\ done = 1..submitted
    /\ state' = "finished"
    /\ UNCHANGED <<submitted, queue, executing, done>>

Next == Submit \/ Begin \/ Complete \/ Close \/ ReportFinished

Spec == Init /\ [][Next]_poolVars
=============================================================================
