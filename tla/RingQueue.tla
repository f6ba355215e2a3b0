-------------------------------- MODULE RingQueue --------------------------------
(***************************************************************************)
(* thread4: the ring buffer with one mutex per side and two semaphores.    *)
(* Each lock, semaphore operation and slot access is a step; a step counter*)
(* is only touched under the mutex of its side and moves with the slot     *)
(* access.                                                                 *)
(***************************************************************************)
EXTENDS Integers, Sequences, FiniteSets

CONSTANTS
    Cap,            \* _cap
    Producers,
    Consumers,
    Values,         \* what producers put
    Nothing,        \* the initial content of a slot
    NoThread

ASSUME RingAssumption ==
    /\ Cap \in Nat \ {0}
    /\ NoThread \notin Producers \cup Consumers
    /\ Producers \cap Consumers = {}
    /\ Nothing \notin Values

VARIABLES
    _rq,                \* the slots
    _productor_step,
    _consumer_step,
    _blank_sem,         \* semaphore values
    _data_sem,
    _pmutex,            \* holder of each mutex
    _cmutex,
    pc,                 \* where each thread is in Enqueue or Pop
    in,                 \* in[p]: the item producer p is enqueuing
    out                 \* out[c]: the item consumer c popped last

vars == <<_rq, _productor_step, _consumer_step, _blank_sem, _data_sem,
          _pmutex, _cmutex, pc, in, out>>

Threads == Producers \cup Consumers
Slots == 0..(Cap - 1)

Init ==
    /\ _rq = [i \in Slots |-> Nothing]
    /\ _productor_step = 0
    /\ _consumer_step = 0
    /\ _blank_sem = Cap
    /\ _data_sem = 0
    /\ _pmutex = NoThread
    /\ _cmutex = NoThread
    /\ pc = [t \in Threads |-> "idle"]
    /\ in = [p \in Producers |-> Nothing]
    /\ out = [c \in Consumers |-> Nothing]

Goto(t, from, to) ==
    /\ pc[t] = from
    /\ pc' = [pc EXCEPT ![t] = to]

-----------------------------------------------------------------------------
(* Enqueue, called in a loop by every producer.                            *)

LockP(p) ==
    /\ Goto(p, "idle", "P")
    /\ _pmutex = NoThread
    /\ _pmutex' = p
    /\ \E v \in Values : in' = [in EXCEPT ![p] = v]
    /\ UNCHANGED <<_rq, _productor_step, _consumer_step, _blank_sem, _data_sem,
                   _cmutex, out>>

\* Fault: a producer does not wait for a blank slot.
BlankP_NoWait(p) ==
    /\ Goto(p, "P", "slot")
    /\ _blank_sem' = _blank_sem - 1
    /\ UNCHANGED <<_rq, _productor_step, _consumer_step, _data_sem, _pmutex,
                   _cmutex, in, out>>

BlankP(p) ==
    /\ Goto(p, "P", "slot")
    /\ _blank_sem > 0
    /\ _blank_sem' = _blank_sem - 1
    /\ UNCHANGED <<_rq, _productor_step, _consumer_step, _data_sem, _pmutex,
                   _cmutex, in, out>>

\* Fault: the position does not wrap.
WriteSlot_NoWrap(p) ==
    /\ Goto(p, "slot", "V")
    /\ _rq' = [_rq EXCEPT ![_productor_step] = in[p]]
    /\ _productor_step' = _productor_step + 1
    /\ UNCHANGED <<_consumer_step, _blank_sem, _data_sem, _pmutex, _cmutex, in, out>>

WriteSlot(p) ==
    /\ Goto(p, "slot", "V")
    /\ _rq' = [_rq EXCEPT ![_productor_step] = in[p]]
    /\ _productor_step' = (_productor_step + 1) % Cap
    /\ UNCHANGED <<_consumer_step, _blank_sem, _data_sem, _pmutex, _cmutex, in, out>>

\* Fault: the producer posts the wrong semaphore.
DataV_Swapped(p) ==
    /\ Goto(p, "V", "unlock")
    /\ _blank_sem' = _blank_sem + 1
    /\ UNCHANGED <<_rq, _productor_step, _consumer_step, _data_sem, _pmutex,
                   _cmutex, in, out>>

DataV(p) ==
    /\ Goto(p, "V", "unlock")
    /\ _data_sem' = _data_sem + 1
    /\ UNCHANGED <<_rq, _productor_step, _consumer_step, _blank_sem, _pmutex,
                   _cmutex, in, out>>

UnlockP(p) ==
    /\ Goto(p, "unlock", "idle")
    /\ _pmutex' = NoThread
    /\ UNCHANGED <<_rq, _productor_step, _consumer_step, _blank_sem, _data_sem,
                   _cmutex, in, out>>

Enqueue(p) == LockP(p) \/ BlankP(p) \/ WriteSlot(p) \/ DataV(p) \/ UnlockP(p)

-----------------------------------------------------------------------------
(* Pop, called in a loop by every consumer.                                *)

LockC(c) ==
    /\ Goto(c, "idle", "P")
    /\ _cmutex = NoThread
    /\ _cmutex' = c
    /\ UNCHANGED <<_rq, _productor_step, _consumer_step, _blank_sem, _data_sem,
                   _pmutex, in, out>>

DataP(c) ==
    /\ Goto(c, "P", "slot")
    /\ _data_sem > 0
    /\ _data_sem' = _data_sem - 1
    /\ UNCHANGED <<_rq, _productor_step, _consumer_step, _blank_sem, _pmutex,
                   _cmutex, in, out>>

\* Fault: the consumers' position does not move.
ReadSlot_KeepsStep(c) ==
    /\ Goto(c, "slot", "V")
    /\ out' = [out EXCEPT ![c] = _rq[_consumer_step]]
    /\ UNCHANGED <<_rq, _productor_step, _consumer_step, _blank_sem, _data_sem,
                   _pmutex, _cmutex, in>>

ReadSlot(c) ==
    /\ Goto(c, "slot", "V")
    /\ out' = [out EXCEPT ![c] = _rq[_consumer_step]]
    /\ _consumer_step' = (_consumer_step + 1) % Cap
    /\ UNCHANGED <<_rq, _productor_step, _blank_sem, _data_sem, _pmutex, _cmutex, in>>

\* Fault: the slot is not given back.
BlankV_Skipped(c) ==
    /\ Goto(c, "V", "unlock")
    /\ UNCHANGED <<_rq, _productor_step, _consumer_step, _blank_sem, _data_sem,
                   _pmutex, _cmutex, in, out>>

BlankV(c) ==
    /\ Goto(c, "V", "unlock")
    /\ _blank_sem' = _blank_sem + 1
    /\ UNCHANGED <<_rq, _productor_step, _consumer_step, _data_sem, _pmutex,
                   _cmutex, in, out>>

UnlockC(c) ==
    /\ Goto(c, "unlock", "idle")
    /\ _cmutex' = NoThread
    /\ UNCHANGED <<_rq, _productor_step, _consumer_step, _blank_sem, _data_sem,
                   _pmutex, in, out>>

Pop(c) == LockC(c) \/ DataP(c) \/ ReadSlot(c) \/ BlankV(c) \/ UnlockC(c)

-----------------------------------------------------------------------------
Next ==
    \/ \E p \in Producers : Enqueue(p)
    \/ \E c \in Consumers : Pop(c)

Spec == Init /\ [][Next]_vars

\* Every thread loops for ever and is scheduled; who gets a mutex is open.
FairSpec ==
    /\ Spec
    /\ \A p \in Producers : WF_vars(Enqueue(p))
    /\ \A c \in Consumers : WF_vars(Pop(c))

-----------------------------------------------------------------------------
PcStates == {"idle", "P", "slot", "V", "unlock"}

TypeOK ==
    /\ _rq \in [Slots -> Values \cup {Nothing}]
    /\ _productor_step \in Slots
    /\ _consumer_step \in Slots
    /\ _blank_sem \in 0..Cap
    /\ _data_sem \in 0..Cap
    /\ _pmutex \in Producers \cup {NoThread}
    /\ _cmutex \in Consumers \cup {NoThread}
    /\ pc \in [Threads -> PcStates]
    /\ in \in [Producers -> Values \cup {Nothing}]
    /\ out \in [Consumers -> Values \cup {Nothing}]

\* Does the thread that holds the mutex m stand at point q?
HolderAt(m, q) == m # NoThread /\ pc[m] = q

One(b) == IF b THEN 1 ELSE 0

\* Slots between the consumers' and the producers' position that hold an item:
\* posted, claimed by a consumer that has not read yet, or written and not posted.
Filled == _data_sem + One(HolderAt(_cmutex, "slot")) + One(HolderAt(_pmutex, "V"))

\* The two semaphores account for every slot, whatever the threads in between
\* have claimed (RingQueue.hpp:26-45), and the two positions are that far apart.
SlotsAccounted ==
    /\ _blank_sem + One(HolderAt(_pmutex, "slot")) + One(HolderAt(_cmutex, "V"))
          + Filled = Cap
    /\ _productor_step - _consumer_step \in {Filled, Filled - Cap}

\* A slot is never written and read at the same time (RingQueue.hpp:30, 40),
\* although producers and consumers hold different mutexes.
SlotExclusive ==
    \A p \in Producers, c \in Consumers :
       pc[p] = "slot" /\ pc[c] = "slot" => _productor_step # _consumer_step

\* Can the thread t, whose side's mutex is m and who waits for sem, take its next step?
CanGo(t, m, sem) ==
    \/ pc[t] = "idle" /\ m = NoThread
    \/ pc[t] = "P" /\ sem > 0
    \/ pc[t] \in {"slot", "V", "unlock"}

\* Producers and consumers never all wait, for a mutex or for a semaphore, although
\* each waits for its semaphore with its mutex in hand (RingQueue.hpp:28-29, 38-39).
NoDeadlock ==
    Producers # {} /\ Consumers # {} =>
       \/ \E p \in Producers : CanGo(p, _pmutex, _blank_sem)
       \/ \E c \in Consumers : CanGo(c, _cmutex, _data_sem)

\* Items a consumer may still read.
Posted == _data_sem + One(HolderAt(_cmutex, "slot"))

Buffered == [i \in 1..Posted |-> _rq[(_consumer_step + i - 1) % Cap]]

Fifo == INSTANCE BoundedFifo WITH items <- Buffered

\* What consumers pop is what producers put, in order, each item once, and never
\* more than Cap items are in between (RingQueue.hpp:26-45).
ImplementsFifo == Fifo!Spec

\* Producers and consumers never block each other for good: items keep being
\* put and popped.
KeepsFlowing ==
    /\ []<>(\E p \in Producers : pc[p] = "V")
    /\ []<>(\E c \in Consumers : pc[c] = "V")

-----------------------------------------------------------------------------
(* The facts that make the invariants above inductive.                     *)

\* A thread is inside its operation exactly while it holds its side's mutex.
MutexHeld ==
    /\ \A p \in Producers : pc[p] # "idle" <=> _pmutex = p
    /\ \A c \in Consumers : pc[c] # "idle" <=> _cmutex = c

IInv == TypeOK /\ MutexHeld /\ SlotsAccounted

\* The item on its way into the buffer, and the slot it has been written to.
ItemReady ==
    /\ \A p \in Producers : pc[p] \in {"P", "slot"} => in[p] \in Values
    /\ HolderAt(_pmutex, "V") => _rq[(_consumer_step + Posted) % Cap] \in Values
=============================================================================
