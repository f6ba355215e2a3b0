------------------------------- MODULE BlockQueue -------------------------------
(***************************************************************************)
(* thread3: the blocking queue with one mutex and one condition variable   *)
(* per side.  What a thread does while it holds the mutex is one step: from*)
(* the lock to the unlock, or to the wait, or from the wait to the unlock. *)
(* A thread that is back from pthread_cond_wait does not look at the queue *)
(* again.                                                                  *)
(***************************************************************************)
EXTENDS Integers, Sequences, FiniteSets

CONSTANTS
    Cap,                \* _cap
    Producers,
    Consumers,
    Values,
    Nothing,            \* what out[c] holds before the first pop
    SpuriousWakeups,    \* may pthread_cond_wait return without a signal?
    MaxLen              \* bound on the queue, which may outgrow Cap

ASSUME BlockQueueAssumption ==
    /\ Cap \in Nat \ {0}
    /\ IsFiniteSet(Producers) /\ IsFiniteSet(Consumers)
    /\ Producers \cap Consumers = {}
    /\ Nothing \notin Values
    /\ SpuriousWakeups \in BOOLEAN
    /\ MaxLen \in Nat

VARIABLES
    _dp,                        \* the queue
    sleep_productor_num,
    sleep_consumer_num,
    pc,                         \* "idle", "waiting" (unsignalled) or "woken"
    in,                         \* in[p]: the item producer p is enqueuing
    out,                        \* out[c]: the item consumer c popped last
    proc                        \* "running", "undefined" after pop() on empty

vars == <<_dp, sleep_productor_num, sleep_consumer_num, pc, in, out, proc>>

Threads == Producers \cup Consumers

Waiting(side) == {t \in side : pc[t] = "waiting"}
Woken(side) == {t \in side : pc[t] = "woken"}

Init ==
    /\ _dp = <<>>
    /\ sleep_productor_num = 0
    /\ sleep_consumer_num = 0
    /\ pc = [t \in Threads |-> "idle"]
    /\ in = [p \in Producers |-> Nothing]
    /\ out = [c \in Consumers |-> Nothing]
    /\ proc = "running"

\* Fault: nobody is signalled.
LeaveAndSignal_Silent(t, side, n) ==
    pc' = [pc EXCEPT ![t] = "idle"]

\* The thread t leaves its operation and signals one thread of the other side,
\* whose sleep counter is n; a signal nobody waits for is lost.
LeaveAndSignal(t, side, n) ==
    \/ /\ n > 0
       /\ \E u \in Waiting(side) : pc' = [pc EXCEPT ![t] = "idle", ![u] = "woken"]
    \/ /\ n = 0 \/ Waiting(side) = {}
       /\ pc' = [pc EXCEPT ![t] = "idle"]

-----------------------------------------------------------------------------
(* Enqueue.                                                                *)

\* Full: count the sleeper and wait.
WaitNotFull(p) ==
    /\ pc[p] = "idle"
    /\ Len(_dp) = Cap
    /\ \E v \in Values : in' = [in EXCEPT ![p] = v]
    /\ sleep_productor_num' = sleep_productor_num + 1
    /\ pc' = [pc EXCEPT ![p] = "waiting"]
    /\ UNCHANGED <<_dp, sleep_consumer_num, out, proc>>

\* Fault: consumers are only signalled above the high-water mark that
\* BlockQueue.hpp:23, 42 has in a comment.
PushAtOnce_HighWater(p) ==
    /\ pc[p] = "idle"
    /\ Len(_dp) # Cap
    /\ Len(_dp) < MaxLen
    /\ \E v \in Values : _dp' = Append(_dp, v)
    /\ IF Len(_dp') > (Cap * 2) \div 3
       THEN LeaveAndSignal(p, Consumers, sleep_consumer_num)
       ELSE pc' = pc
    /\ UNCHANGED <<sleep_productor_num, sleep_consumer_num, in, out, proc>>

\* Not full.
PushAtOnce(p) ==
    /\ pc[p] = "idle"
    /\ Len(_dp) # Cap
    /\ Len(_dp) < MaxLen
    /\ \E v \in Values : _dp' = Append(_dp, v)
    /\ LeaveAndSignal(p, Consumers, sleep_consumer_num)
    /\ UNCHANGED <<sleep_productor_num, sleep_consumer_num, in, out, proc>>

\* Back from pthread_cond_wait.
PushWoken(p) ==
    /\ pc[p] = "woken"
    /\ Len(_dp) < MaxLen
    /\ sleep_productor_num' = sleep_productor_num - 1
    /\ _dp' = Append(_dp, in[p])
    /\ in' = [in EXCEPT ![p] = Nothing]
    /\ LeaveAndSignal(p, Consumers, sleep_consumer_num)
    /\ UNCHANGED <<sleep_consumer_num, out, proc>>

Enqueue(p) == WaitNotFull(p) \/ PushAtOnce(p) \/ PushWoken(p)

-----------------------------------------------------------------------------
(* pop.                                                                    *)

\* Empty: count the sleeper and wait.
WaitNotEmpty(c) ==
    /\ pc[c] = "idle"
    /\ _dp = <<>>
    /\ sleep_consumer_num' = sleep_consumer_num + 1
    /\ pc' = [pc EXCEPT ![c] = "waiting"]
    /\ UNCHANGED <<_dp, sleep_productor_num, in, out, proc>>

\* Fault: front() without pop().
TakeFront_KeepsFront(c) ==
    \/ /\ _dp # <<>>
       /\ out' = [out EXCEPT ![c] = Head(_dp)]
       /\ LeaveAndSignal(c, Producers, sleep_productor_num)
       /\ UNCHANGED <<_dp, proc>>
    \/ /\ _dp = <<>>
       /\ proc' = "undefined"
       /\ UNCHANGED <<_dp, out, pc>>

\* front() and pop(); on an empty queue they are undefined behaviour.
TakeFront(c) ==
    \/ /\ _dp # <<>>
       /\ out' = [out EXCEPT ![c] = Head(_dp)]
       /\ _dp' = Tail(_dp)
       /\ LeaveAndSignal(c, Producers, sleep_productor_num)
       /\ UNCHANGED proc
    \/ /\ _dp = <<>>
       /\ proc' = "undefined"
       /\ UNCHANGED <<_dp, out, pc>>

PopAtOnce(c) ==
    /\ pc[c] = "idle"
    /\ _dp # <<>>
    /\ TakeFront(c)
    /\ UNCHANGED <<sleep_productor_num, sleep_consumer_num, in>>

\* Back from pthread_cond_wait.
PopWoken(c) ==
    /\ pc[c] = "woken"
    /\ sleep_consumer_num' = sleep_consumer_num - 1
    /\ TakeFront(c)
    /\ UNCHANGED <<sleep_productor_num, in>>

Pop(c) == WaitNotEmpty(c) \/ PopAtOnce(c) \/ PopWoken(c)

-----------------------------------------------------------------------------
SpuriousWakeup(t) ==
    /\ SpuriousWakeups
    /\ pc[t] = "waiting"
    /\ pc' = [pc EXCEPT ![t] = "woken"]
    /\ UNCHANGED <<_dp, sleep_productor_num, sleep_consumer_num, in, out, proc>>

Next ==
    /\ proc = "running"
    /\ \/ \E p \in Producers : Enqueue(p)
       \/ \E c \in Consumers : Pop(c)
       \/ \E t \in Threads : SpuriousWakeup(t)

Spec == Init /\ [][Next]_vars

\* Every thread runs its loop for ever (Main.cc:30-69); who gets the mutex, and
\* which sleeper a signal wakes, is open.
FairSpec ==
    /\ Spec
    /\ \A p \in Producers : WF_vars(proc = "running" /\ Enqueue(p))
    /\ \A c \in Consumers : WF_vars(proc = "running" /\ Pop(c))

-----------------------------------------------------------------------------
TypeOK ==
    /\ _dp \in Seq(Values)
    /\ Len(_dp) <= MaxLen
    /\ sleep_productor_num \in Nat
    /\ sleep_consumer_num \in Nat
    /\ pc \in [Threads -> {"idle", "waiting", "woken"}]
    /\ in \in [Producers -> Values \cup {Nothing}]
    /\ out \in [Consumers -> Values \cup {Nothing}]
    /\ proc \in {"running", "undefined"}

\* While a consumer stays asleep every item has a consumer on its way to it, and
\* while a producer stays asleep every free place has a producer on its way
\* (BlockQueue.hpp:43-44, 60-61), although threads that never slept may overtake.
NoLostWakeup ==
    /\ Waiting(Consumers) # {} => Len(_dp) <= Cardinality(Woken(Consumers))
    /\ Waiting(Producers) # {} => Cap - Len(_dp) <= Cardinality(Woken(Producers))

\* Producers and consumers are never all asleep (BlockQueue.hpp:34-39, 51-56).
NotAllAsleep ==
    Producers # {} /\ Consumers # {} => \E t \in Threads : pc[t] # "waiting"

\* Items keep coming out, as long as nobody pops from the empty queue: no order of
\* signals, waits and overtakings ends with one side waiting for the other
\* (BlockQueue.hpp:34-45, 51-62).
KeepsFlowing ==
    \/ []<><<\E c \in Consumers : PopAtOnce(c) \/ PopWoken(c)>>_vars
    \/ <>(proc = "undefined")

-----------------------------------------------------------------------------
(* What makes NoLostWakeup inductive.                                      *)

Asleep(side) == {t \in side : pc[t] # "idle"}

\* A thread counts as asleep from its wait until it has the mutex again, so the
\* test before a signal (BlockQueue.hpp:43, 60) never skips one that is needed.
SleepCountsExact ==
    proc = "running" =>
       /\ sleep_productor_num = Cardinality(Asleep(Producers))
       /\ sleep_consumer_num = Cardinality(Asleep(Consumers))

ItemInHand == \A p \in Asleep(Producers) : in[p] \in Values

IInv == TypeOK /\ SleepCountsExact /\ NoLostWakeup /\ ItemInHand

-----------------------------------------------------------------------------
(* What the queue promises of the items, its capacity aside.               *)

Queue == INSTANCE BoundedFifo WITH items <- _dp, Cap <- MaxLen

\* Items come out in the order in which they went in, each to one consumer, although
\* woken threads are overtaken by others (BlockQueue.hpp:42, 57-58); only the bound
\* of the model limits their number.
ImplementsQueue == Queue!Spec

(* A statement of the sources that the code does not keep.                 *)

Fifo == INSTANCE BoundedFifo WITH items <- _dp

\* The queue never holds more than its capacity (Main.cc:73).
CapacityKept == Len(_dp) <= Cap

\* The same of every step: the queue is a FIFO of capacity _cap (Main.cc:73).
ImplementsFifo == Fifo!Spec
=============================================================================
