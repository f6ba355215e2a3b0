------------------------------- MODULE BoundedFifo -------------------------------
(***************************************************************************)
(* What the ring queue of thread4 promises, and the blocking queue of      *)
(* thread3 to a single producer: at most Cap items, taken in the order in  *)
(* which they were put, each by one consumer.                              *)
(***************************************************************************)
EXTENDS Integers, Sequences

CONSTANTS Cap, Values, Consumers, Nothing

VARIABLES
    items,      \* the items put and not taken
    out         \* out[c]: the item consumer c took last

fifoVars == <<items, out>>

Init ==
    /\ items = <<>>
    /\ out = [c \in Consumers |-> Nothing]

Put ==
    /\ Len(items) < Cap
    /\ \E v \in Values : items' = Append(items, v)
    /\ UNCHANGED out

Take(c) ==
    /\ items # <<>>
    /\ out' = [out EXCEPT ![c] = Head(items)]
    /\ items' = Tail(items)

Next == Put \/ \E c \in Consumers : Take(c)

Spec == Init /\ [][Next]_fifoVars
=============================================================================
