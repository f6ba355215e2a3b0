----------------------------- MODULE RingQueueProofs -----------------------------
(***************************************************************************)
(* RingQueue for any capacity and any number of producers and consumers.   *)
(***************************************************************************)
EXTENDS RingQueue, SequenceTheorems, TLAPS

USE RingAssumption

\* The step counters wrap to 0 after the last slot.
LEMMA StepWraps ==
    ASSUME NEW a \in Slots
    PROVE  /\ (a + 1) % Cap \in Slots
           /\ (a + 1) % Cap = IF a = Cap - 1 THEN 0 ELSE a + 1
BY SMT DEF Slots

\* A condition counts for 0 or 1.
LEMMA OneBit == \A b : One(b) \in {0, 1}
BY DEF One

\* The empty buffer with all its slots blank.
LEMMA InitInductive == Init => IInv
<1> SUFFICES ASSUME Init PROVE IInv
  OBVIOUS
<1> USE DEF Init
<1>1. TypeOK
  BY DEF TypeOK, Slots, PcStates
<1>2. MutexHeld
  BY DEF MutexHeld, Threads
<1>3. SlotsAccounted
  BY DEF SlotsAccounted, Filled, HolderAt, One
<1> QED BY <1>1, <1>2, <1>3 DEF IInv

\* Only the holder's own steps move it: what a thread of the other side, or one
\* that waits for the mutex, does leaves HolderAt alone.
LEMMA ProducerMoves ==
    ASSUME IInv, NEW p \in Producers, NEW to \in PcStates,
           pc' = [pc EXCEPT ![p] = to]
    PROVE  /\ \A q : HolderAt(_cmutex, q) <=> (_cmutex # NoThread /\ pc'[_cmutex] = q)
           /\ \A c \in Consumers : pc'[c] = pc[c]
           /\ pc'[p] = to /\ pc' \in [Threads -> PcStates]
BY DEF IInv, TypeOK, HolderAt, Threads

\* The same on the consumers' side.
LEMMA ConsumerMoves ==
    ASSUME IInv, NEW c \in Consumers, NEW to \in PcStates,
           pc' = [pc EXCEPT ![c] = to]
    PROVE  /\ \A q : HolderAt(_pmutex, q) <=> (_pmutex # NoThread /\ pc'[_pmutex] = q)
           /\ \A p \in Producers : pc'[p] = pc[p]
           /\ pc'[c] = to /\ pc' \in [Threads -> PcStates]
BY DEF IInv, TypeOK, HolderAt, Threads

\* Each step of Enqueue moves a slot from one account to the next.
LEMMA EnqueueInductive ==
    ASSUME IInv, NEW p \in Producers, Enqueue(p)
    PROVE  IInv'
<1> USE DEF IInv, Goto
<1>0. p # NoThread
  OBVIOUS
<1>1. CASE LockP(p)
  <2>1. /\ \A q : HolderAt(_cmutex, q)' <=> HolderAt(_cmutex, q)
        /\ \A c \in Consumers : pc'[c] = pc[c]
        /\ pc'[p] = "P" /\ pc' \in [Threads -> PcStates]
    BY <1>1, ProducerMoves DEF LockP, PcStates, HolderAt
  <2>2. \A q : HolderAt(_pmutex, q)' <=> q = "P"
    BY <1>0, <1>1, <2>1 DEF LockP, HolderAt
  <2>3. \A q : ~HolderAt(_pmutex, q)
    BY <1>1 DEF LockP, HolderAt
  <2>4. TypeOK'
    BY <1>1, <2>1 DEF LockP, TypeOK
  <2>5. MutexHeld'
    BY <1>0, <1>1, <2>1 DEF LockP, MutexHeld, TypeOK, Threads
  <2>6. SlotsAccounted'
    BY <1>1, <2>1, <2>2, <2>3 DEF LockP, SlotsAccounted, Filled, One
  <2> QED BY <2>4, <2>5, <2>6
<1>2. CASE UnlockP(p)
  <2>1. /\ \A q : HolderAt(_cmutex, q)' <=> HolderAt(_cmutex, q)
        /\ \A c \in Consumers : pc'[c] = pc[c]
        /\ pc'[p] = "idle" /\ pc' \in [Threads -> PcStates]
    BY <1>2, ProducerMoves DEF UnlockP, PcStates, HolderAt
  <2>2. \A q : ~HolderAt(_pmutex, q)'
    BY <1>2 DEF UnlockP, HolderAt
  <2>3. \A q : HolderAt(_pmutex, q) <=> q = "unlock"
    BY <1>0, <1>2 DEF UnlockP, HolderAt, MutexHeld
  <2>4. TypeOK'
    BY <1>2, <2>1 DEF UnlockP, TypeOK
  <2>5. MutexHeld'
    BY <1>2, <2>1 DEF UnlockP, MutexHeld, TypeOK, Threads
  <2>6. SlotsAccounted'
    BY <1>2, <2>1, <2>2, <2>3 DEF UnlockP, SlotsAccounted, Filled, One
  <2> QED BY <2>4, <2>5, <2>6
<1>3. CASE BlankP(p) \/ WriteSlot(p) \/ DataV(p)
  <2>1. _pmutex = p /\ UNCHANGED <<_pmutex, _cmutex>>
    BY <1>3 DEF BlankP, WriteSlot, DataV, MutexHeld
  <2>2. /\ \A q : HolderAt(_cmutex, q)' <=> HolderAt(_cmutex, q)
        /\ \A c \in Consumers : pc'[c] = pc[c]
        /\ pc' \in [Threads -> PcStates]
        /\ pc'[p] # "idle"
    BY <1>3, <2>1, ProducerMoves DEF BlankP, WriteSlot, DataV, PcStates, HolderAt
  <2>3. /\ \A q : HolderAt(_pmutex, q) <=> pc[p] = q
        /\ \A q : HolderAt(_pmutex, q)' <=> pc'[p] = q
    BY <1>0, <2>1 DEF HolderAt
  <2>4. MutexHeld'
    BY <1>3, <2>1, <2>2 DEF BlankP, WriteSlot, DataV, MutexHeld, TypeOK, Threads
  <2>5. SlotsAccounted'
    <3>1. CASE BlankP(p)
      BY <2>2, <2>3, <3>1, ProducerMoves
         DEF BlankP, PcStates, SlotsAccounted, Filled, One, TypeOK
    <3>2. CASE WriteSlot(p)
      <4>1. pc[p] = "slot" /\ pc'[p] = "V"
        BY <3>2, ProducerMoves DEF WriteSlot, PcStates
      <4>2. /\ Filled \in Nat /\ Filled + 1 <= Cap
            /\ Filled' = Filled + 1
        BY <2>2, <2>3, <3>2, <4>1
           DEF WriteSlot, Filled, SlotsAccounted, One, TypeOK
      <4>3. _productor_step' = IF _productor_step = Cap - 1 THEN 0
                               ELSE _productor_step + 1
        BY <3>2, StepWraps DEF WriteSlot, TypeOK
      <4>4. _productor_step - _consumer_step \in {Filled, Filled - Cap}
        BY DEF SlotsAccounted
      <4>5. _productor_step' - _consumer_step' \in {Filled', Filled' - Cap}
        BY <3>2, <4>2, <4>3, <4>4 DEF WriteSlot, TypeOK, Slots
      <4>6. /\ _blank_sem' = _blank_sem
            /\ One(HolderAt(_pmutex, "slot")) = 1
            /\ One(HolderAt(_pmutex, "slot")') = 0
            /\ One(HolderAt(_cmutex, "V")') = One(HolderAt(_cmutex, "V"))
        BY <2>2, <2>3, <3>2, <4>1 DEF WriteSlot, One
      <4>7. _blank_sem' + One(HolderAt(_pmutex, "slot")') + One(HolderAt(_cmutex, "V")')
               + Filled' = Cap
        BY <4>2, <4>6 DEF SlotsAccounted, TypeOK, One
      <4> QED BY <4>5, <4>7 DEF SlotsAccounted, One
    <3>3. CASE DataV(p)
      BY <2>2, <2>3, <3>3, ProducerMoves
         DEF DataV, PcStates, SlotsAccounted, Filled, One, TypeOK
    <3> QED BY <1>3, <3>1, <3>2, <3>3
  <2>6. TypeOK'
    <3>0. _blank_sem' \in Nat /\ _data_sem' \in Nat
      BY <1>3 DEF BlankP, WriteSlot, DataV, TypeOK
    <3>1. _blank_sem' \in 0..Cap /\ _data_sem' \in 0..Cap
      BY <2>5, <3>0, OneBit DEF SlotsAccounted, Filled
    <3> QED BY <1>3, <2>2, <3>1, StepWraps
            DEF BlankP, WriteSlot, DataV, TypeOK
  <2> QED BY <2>4, <2>5, <2>6
<1> QED BY <1>1, <1>2, <1>3 DEF Enqueue

\* So does each step of Pop.
LEMMA PopInductive ==
    ASSUME IInv, NEW c \in Consumers, Pop(c)
    PROVE  IInv'
<1> USE DEF IInv, Goto
<1>0. c # NoThread
  OBVIOUS
<1>1. CASE LockC(c)
  <2>1. /\ \A q : HolderAt(_pmutex, q)' <=> HolderAt(_pmutex, q)
        /\ \A p \in Producers : pc'[p] = pc[p]
        /\ pc'[c] = "P" /\ pc' \in [Threads -> PcStates]
    BY <1>1, ConsumerMoves DEF LockC, PcStates, HolderAt
  <2>2. \A q : HolderAt(_cmutex, q)' <=> q = "P"
    BY <1>0, <1>1, <2>1 DEF LockC, HolderAt
  <2>3. \A q : ~HolderAt(_cmutex, q)
    BY <1>1 DEF LockC, HolderAt
  <2>4. TypeOK'
    BY <1>1, <2>1 DEF LockC, TypeOK
  <2>5. MutexHeld'
    BY <1>0, <1>1, <2>1 DEF LockC, MutexHeld, TypeOK, Threads
  <2>6. SlotsAccounted'
    BY <1>1, <2>1, <2>2, <2>3 DEF LockC, SlotsAccounted, Filled, One
  <2> QED BY <2>4, <2>5, <2>6
<1>2. CASE UnlockC(c)
  <2>1. /\ \A q : HolderAt(_pmutex, q)' <=> HolderAt(_pmutex, q)
        /\ \A p \in Producers : pc'[p] = pc[p]
        /\ pc'[c] = "idle" /\ pc' \in [Threads -> PcStates]
    BY <1>2, ConsumerMoves DEF UnlockC, PcStates, HolderAt
  <2>2. \A q : ~HolderAt(_cmutex, q)'
    BY <1>2 DEF UnlockC, HolderAt
  <2>3. \A q : HolderAt(_cmutex, q) <=> q = "unlock"
    BY <1>0, <1>2 DEF UnlockC, HolderAt, MutexHeld
  <2>4. TypeOK'
    BY <1>2, <2>1 DEF UnlockC, TypeOK
  <2>5. MutexHeld'
    BY <1>2, <2>1 DEF UnlockC, MutexHeld, TypeOK, Threads
  <2>6. SlotsAccounted'
    BY <1>2, <2>1, <2>2, <2>3 DEF UnlockC, SlotsAccounted, Filled, One
  <2> QED BY <2>4, <2>5, <2>6
<1>3. CASE DataP(c) \/ ReadSlot(c) \/ BlankV(c)
  <2>1. _cmutex = c /\ UNCHANGED <<_pmutex, _cmutex>>
    BY <1>3 DEF DataP, ReadSlot, BlankV, MutexHeld
  <2>2. /\ \A q : HolderAt(_pmutex, q)' <=> HolderAt(_pmutex, q)
        /\ \A p \in Producers : pc'[p] = pc[p]
        /\ pc' \in [Threads -> PcStates]
        /\ pc'[c] # "idle"
    BY <1>3, <2>1, ConsumerMoves DEF DataP, ReadSlot, BlankV, PcStates, HolderAt
  <2>3. /\ \A q : HolderAt(_cmutex, q) <=> pc[c] = q
        /\ \A q : HolderAt(_cmutex, q)' <=> pc'[c] = q
    BY <1>0, <2>1 DEF HolderAt
  <2>4. MutexHeld'
    BY <1>3, <2>1, <2>2 DEF DataP, ReadSlot, BlankV, MutexHeld, TypeOK, Threads
  <2>5. SlotsAccounted'
    <3>1. CASE DataP(c)
      BY <2>2, <2>3, <3>1, ConsumerMoves
         DEF DataP, PcStates, SlotsAccounted, Filled, One, TypeOK
    <3>2. CASE ReadSlot(c)
      <4>1. pc[c] = "slot" /\ pc'[c] = "V"
        BY <3>2, ConsumerMoves DEF ReadSlot, PcStates
      <4>2. /\ Filled \in Nat /\ Filled >= 1 /\ Filled <= Cap
            /\ Filled' = Filled - 1
        BY <2>2, <2>3, <3>2, <4>1
           DEF ReadSlot, Filled, SlotsAccounted, One, TypeOK
      <4>3. _consumer_step' = IF _consumer_step = Cap - 1 THEN 0
                              ELSE _consumer_step + 1
        BY <3>2, StepWraps DEF ReadSlot, TypeOK
      <4>4. _productor_step - _consumer_step \in {Filled, Filled - Cap}
        BY DEF SlotsAccounted
      <4>5. _productor_step' - _consumer_step' \in {Filled', Filled' - Cap}
        BY <3>2, <4>2, <4>3, <4>4 DEF ReadSlot, TypeOK, Slots
      <4>6. /\ _blank_sem' = _blank_sem
            /\ One(HolderAt(_cmutex, "V")) = 0
            /\ One(HolderAt(_cmutex, "V")') = 1
            /\ One(HolderAt(_pmutex, "slot")') = One(HolderAt(_pmutex, "slot"))
        BY <2>2, <2>3, <3>2, <4>1 DEF ReadSlot, One
      <4>7. _blank_sem' + One(HolderAt(_pmutex, "slot")') + One(HolderAt(_cmutex, "V")')
               + Filled' = Cap
        BY <4>2, <4>6 DEF SlotsAccounted, TypeOK, One
      <4> QED BY <4>5, <4>7 DEF SlotsAccounted, One
    <3>3. CASE BlankV(c)
      <4>1. pc[c] = "V" /\ pc'[c] = "unlock"
        BY <3>3, ConsumerMoves DEF BlankV, PcStates
      <4>2. /\ Filled \in Nat /\ Filled' = Filled
            /\ One(HolderAt(_cmutex, "V")) = 1 /\ One(HolderAt(_cmutex, "V")') = 0
            /\ One(HolderAt(_pmutex, "slot")') = One(HolderAt(_pmutex, "slot"))
        BY <2>2, <2>3, <3>3, <4>1 DEF BlankV, Filled, One, TypeOK
      <4>3. _blank_sem' + One(HolderAt(_pmutex, "slot")') + One(HolderAt(_cmutex, "V")')
               + Filled' = Cap
        BY <3>3, <4>2 DEF BlankV, SlotsAccounted, TypeOK, One
      <4>4. _productor_step' - _consumer_step' \in {Filled', Filled' - Cap}
        BY <3>3, <4>2 DEF BlankV, SlotsAccounted
      <4> QED BY <4>3, <4>4 DEF SlotsAccounted
    <3> QED BY <1>3, <3>1, <3>2, <3>3
  <2>6. TypeOK'
    <3>0. _blank_sem' \in Nat /\ _data_sem' \in Nat
      BY <1>3 DEF DataP, ReadSlot, BlankV, TypeOK
    <3>1. _blank_sem' \in 0..Cap /\ _data_sem' \in 0..Cap
      BY <2>5, <3>0, OneBit DEF SlotsAccounted, Filled
    <3>2. _rq[_consumer_step] \in Values \cup {Nothing}
      BY DEF TypeOK
    <3> QED BY <1>3, <2>2, <3>1, <3>2, StepWraps
            DEF DataP, ReadSlot, BlankV, TypeOK
  <2> QED BY <2>4, <2>5, <2>6
<1> QED BY <1>1, <1>2, <1>3 DEF Pop

\* The inductive invariant holds throughout.
THEOREM Invariance == Spec => []IInv
<1>1. Init => IInv
  BY InitInductive
<1>2. IInv /\ [Next]_vars => IInv'
  <2> SUFFICES ASSUME IInv, [Next]_vars PROVE IInv'
    OBVIOUS
  <2>1. CASE UNCHANGED vars
    BY <2>1 DEF vars, IInv, TypeOK, MutexHeld, SlotsAccounted, Filled, HolderAt, One
  <2>2. CASE Next
    BY <2>2, EnqueueInductive, PopInductive DEF Next
  <2> QED BY <2>1, <2>2
<1> QED BY <1>1, <1>2, PTL DEF Spec

\* Every variable keeps its type; the semaphores stay within 0..Cap.
THEOREM TypeCorrect == Spec => []TypeOK
BY Invariance, PTL DEF IInv

\* The semaphores and the two positions account for every slot.
THEOREM SlotsNeverLost == Spec => []SlotsAccounted
BY Invariance, PTL DEF IInv

\* If both sides waited no slot would be blank, none filled and none under way.
THEOREM SomebodyCanGo == Spec => []NoDeadlock
<1>1. IInv => NoDeadlock
  <2> SUFFICES ASSUME IInv, NEW p \in Producers, NEW c \in Consumers,
                      \A q \in Producers : ~CanGo(q, _pmutex, _blank_sem),
                      \A d \in Consumers : ~CanGo(d, _cmutex, _data_sem)
               PROVE  FALSE
    BY DEF NoDeadlock
  <2> USE DEF IInv, CanGo
  <2>1. _pmutex \in Producers /\ pc[_pmutex] = "P" /\ ~(_blank_sem > 0)
    <3>1. _pmutex # NoThread
      BY DEF MutexHeld
    <3>2. _pmutex \in Producers /\ pc[_pmutex] # "idle" /\ pc[_pmutex] \in PcStates
      BY <3>1 DEF TypeOK, MutexHeld, Threads
    <3> QED BY <3>2 DEF PcStates
  <2>2. _cmutex \in Consumers /\ pc[_cmutex] = "P" /\ ~(_data_sem > 0)
    <3>1. _cmutex # NoThread
      BY DEF MutexHeld
    <3>2. _cmutex \in Consumers /\ pc[_cmutex] # "idle" /\ pc[_cmutex] \in PcStates
      BY <3>1 DEF TypeOK, MutexHeld, Threads
    <3> QED BY <3>2 DEF PcStates
  <2>3. /\ ~HolderAt(_pmutex, "slot") /\ ~HolderAt(_pmutex, "V")
        /\ ~HolderAt(_cmutex, "slot") /\ ~HolderAt(_cmutex, "V")
    BY <2>1, <2>2 DEF HolderAt
  <2>4. _blank_sem = 0 /\ _data_sem = 0
    BY <2>1, <2>2 DEF TypeOK
  <2>5. 0 = Cap
    BY <2>3, <2>4 DEF SlotsAccounted, Filled, One
  <2> QED BY <2>5
<1> QED BY <1>1, Invariance, PTL

\* No slot is read while it is written.
THEOREM NoTornSlot == Spec => []SlotExclusive
<1>1. IInv => SlotExclusive
  <2> SUFFICES ASSUME IInv, NEW p \in Producers, NEW c \in Consumers,
                      pc[p] = "slot", pc[c] = "slot"
               PROVE  _productor_step # _consumer_step
    BY DEF SlotExclusive
  <2>1. HolderAt(_pmutex, "slot") /\ HolderAt(_cmutex, "slot")
    BY DEF IInv, MutexHeld, HolderAt
  <2>2. Filled >= 1 /\ Filled + 1 <= Cap /\ Filled \in Nat
    BY <2>1 DEF IInv, SlotsAccounted, Filled, One, TypeOK
  <2> QED BY <2>2 DEF IInv, SlotsAccounted, TypeOK, Slots
<1> QED BY <1>1, Invariance, PTL

-----------------------------------------------------------------------------
(* Refinement.                                                             *)

\* Position k places after slot a.
LEMMA SlotAfter ==
    ASSUME NEW a \in Slots, NEW k \in 0..Cap
    PROVE  /\ (a + k) % Cap \in Slots
           /\ (a + k) % Cap = IF a + k < Cap THEN a + k ELSE a + k - Cap
BY SMT DEF Slots

\* One step on and k places from there is k + 1 places on.
LEMMA StepThenRest ==
    ASSUME NEW a \in Slots, NEW k \in 1..Cap
    PROVE  (((a + 1) % Cap) + (k - 1)) % Cap = (a + k) % Cap
<1> DEFINE b == (a + 1) % Cap
<1>1. b \in Slots /\ b = IF a = Cap - 1 THEN 0 ELSE a + 1
  BY StepWraps
<1>2. k - 1 \in 0..Cap /\ k \in 0..Cap
  OBVIOUS
<1> HIDE DEF b
<1>3. (b + (k - 1)) % Cap = IF b + (k - 1) < Cap THEN b + (k - 1)
                             ELSE b + (k - 1) - Cap
  BY <1>1, <1>2, SlotAfter
<1>4. (a + k) % Cap = IF a + k < Cap THEN a + k ELSE a + k - Cap
  BY <1>2, SlotAfter
<1>5. (b + (k - 1)) % Cap = (a + k) % Cap
  BY <1>1, <1>3, <1>4 DEF Slots
<1> QED BY <1>5 DEF b

\* The buffered items as a sequence.
BufferIsSeq ==
    /\ Posted \in 0..Cap
    /\ Buffered \in Seq(Values \cup {Nothing})
    /\ Len(Buffered) = Posted
    /\ \A i \in 1..Posted : Buffered[i] = _rq[(_consumer_step + (i - 1)) % Cap]

\* The abstract buffer is a sequence of at most Cap items.
LEMMA BufferedSeq == IInv => BufferIsSeq
<1> SUFFICES ASSUME IInv PROVE BufferIsSeq
  OBVIOUS
<1>1. Posted \in 0..Cap
  <2>1. _blank_sem \in Nat /\ _data_sem \in Nat
    BY DEF IInv, TypeOK
  <2> QED BY <2>1, OneBit DEF IInv, SlotsAccounted, Filled, Posted
<1>2. ASSUME NEW i \in 1..Posted
      PROVE  /\ (_consumer_step + i - 1) % Cap = (_consumer_step + (i - 1)) % Cap
             /\ _rq[(_consumer_step + i - 1) % Cap] \in Values \cup {Nothing}
  <2>1. i - 1 \in 0..Cap /\ _consumer_step \in Slots /\ _consumer_step \in Int
    BY <1>1, <1>2 DEF IInv, TypeOK, Slots
  <2>2. _consumer_step + i - 1 = _consumer_step + (i - 1)
    BY <2>1
  <2> QED BY <2>1, <2>2, SlotAfter DEF IInv, TypeOK
<1> QED BY <1>1, <1>2 DEF Buffered, BufferIsSeq

\* ... in the next state as well.
LEMMA BufferedSeqNext == IInv' => BufferIsSeq'
BY BufferedSeq, PTL

\* The same buffer described twice is the same sequence.
LEMMA SameBuffer ==
    ASSUME IInv, IInv', Posted' = Posted, UNCHANGED <<_rq, _consumer_step>>
    PROVE  Buffered' = Buffered
BY DEF Buffered

\* Writing the producers' slot leaves every posted item alone.
LEMMA WriteBeyondPosted ==
    ASSUME IInv, IInv', NEW p \in Producers, WriteSlot(p)
    PROVE  /\ Buffered' = Buffered
           /\ _productor_step = (_consumer_step + Posted) % Cap
           /\ Posted' = Posted
<1>1. /\ _pmutex = p /\ p # NoThread /\ pc[p] = "slot"
      /\ HolderAt(_pmutex, "slot") /\ ~HolderAt(_pmutex, "V")
  BY DEF WriteSlot, Goto, IInv, MutexHeld, HolderAt
<1>2. Filled = Posted /\ Posted + 1 <= Cap /\ Posted \in Nat
  <2>1. _blank_sem \in Nat /\ _data_sem \in Nat
    BY DEF IInv, TypeOK
  <2> QED BY <1>1, <2>1 DEF Filled, Posted, One, IInv, SlotsAccounted
<1>3. _productor_step = (_consumer_step + Posted) % Cap
  <2>1. /\ _productor_step \in Slots /\ _consumer_step \in Slots
        /\ _productor_step - _consumer_step \in {Posted, Posted - Cap}
        /\ Posted \in 0..Cap
    BY <1>2 DEF IInv, TypeOK, SlotsAccounted
  <2>2. (_consumer_step + Posted) % Cap
          = IF _consumer_step + Posted < Cap THEN _consumer_step + Posted
            ELSE _consumer_step + Posted - Cap
    BY <2>1, SlotAfter
  <2> QED BY <2>1, <2>2 DEF Slots
<1>4. Posted' = Posted /\ _consumer_step' = _consumer_step
  <2>1. \A q : HolderAt(_cmutex, q)' <=> HolderAt(_cmutex, q)
    BY ProducerMoves DEF WriteSlot, Goto, PcStates, HolderAt
  <2> QED BY <2>1 DEF WriteSlot, Posted, One
<1>5. ASSUME NEW i \in 1..Posted
      PROVE  _rq'[(_consumer_step + (i - 1)) % Cap] = _rq[(_consumer_step + (i - 1)) % Cap]
  <2>1. (_consumer_step + (i - 1)) % Cap # _productor_step
    <3>1. /\ _consumer_step \in Slots /\ i - 1 \in 0..Cap /\ Posted \in 0..Cap
          /\ i - 1 < Posted /\ Posted < Cap
      BY <1>2 DEF IInv, TypeOK
    <3>2. (_consumer_step + (i - 1)) % Cap
            = IF _consumer_step + (i - 1) < Cap THEN _consumer_step + (i - 1)
              ELSE _consumer_step + (i - 1) - Cap
      BY <3>1, SlotAfter
    <3>3. (_consumer_step + Posted) % Cap
            = IF _consumer_step + Posted < Cap THEN _consumer_step + Posted
              ELSE _consumer_step + Posted - Cap
      BY <3>1, SlotAfter
    <3> QED BY <1>3, <3>1, <3>2, <3>3 DEF Slots
  <2> QED BY <2>1 DEF WriteSlot, IInv, TypeOK
<1>6. Buffered' = Buffered
  <2>1. \A i \in 1..Posted : Buffered'[i] = Buffered[i]
    BY <1>4, <1>5, BufferedSeq, BufferedSeqNext DEF BufferIsSeq
  <2>2. /\ Buffered' \in Seq(Values \cup {Nothing}) /\ Len(Buffered') = Posted
        /\ Buffered \in Seq(Values \cup {Nothing}) /\ Len(Buffered) = Posted
    BY <1>4, BufferedSeq, BufferedSeqNext DEF BufferIsSeq
  <2> QED BY <2>1, <2>2, SeqEqual
<1> QED BY <1>3, <1>4, <1>6

\* Posting the semaphore appends the slot written before.
LEMMA PostAppends ==
    ASSUME IInv, IInv', ItemReady, NEW p \in Producers, DataV(p)
    PROVE  Fifo!Put
<1>1. /\ HolderAt(_pmutex, "V")
      /\ Posted' = Posted + 1 /\ Posted \in Nat
      /\ UNCHANGED <<_rq, _consumer_step, out>>
  <2>1. \A q : HolderAt(_cmutex, q)' <=> HolderAt(_cmutex, q)
    BY ProducerMoves DEF DataV, Goto, PcStates, HolderAt
  <2>2. _data_sem \in Nat
    BY DEF IInv, TypeOK
  <2> QED BY <2>1, <2>2 DEF DataV, Goto, IInv, MutexHeld, HolderAt, Posted, One
<1>2. Posted' \in 0..Cap
  BY BufferedSeqNext DEF BufferIsSeq
<1> DEFINE v == _rq[(_consumer_step + Posted) % Cap]
<1>3. v \in Values
  BY <1>1 DEF ItemReady
<1>4. Buffered' = Append(Buffered, v)
  <2>1. /\ Append(Buffered, v) \in Seq(Values \cup {Nothing})
        /\ Len(Append(Buffered, v)) = Posted + 1
        /\ \A i \in 1..Posted : Append(Buffered, v)[i] = Buffered[i]
        /\ Append(Buffered, v)[Posted + 1] = v
    BY <1>1, <1>3, BufferedSeq DEF BufferIsSeq
  <2>2. /\ Buffered' \in Seq(Values \cup {Nothing}) /\ Len(Buffered') = Posted + 1
        /\ \A i \in 1..(Posted + 1) :
              Buffered'[i] = _rq[(_consumer_step + (i - 1)) % Cap]
    BY <1>1, BufferedSeqNext DEF BufferIsSeq
  <2>3. \A i \in 1..(Posted + 1) : Buffered'[i] = Append(Buffered, v)[i]
    <3> SUFFICES ASSUME NEW i \in 1..(Posted + 1)
                 PROVE  Buffered'[i] = Append(Buffered, v)[i]
      OBVIOUS
    <3>1. CASE i \in 1..Posted
      BY <2>1, <2>2, <3>1, BufferedSeq DEF BufferIsSeq
    <3>2. CASE i = Posted + 1
      <4>1. i - 1 = Posted
        BY <1>1, <3>2
      <4>2. Buffered'[i] = _rq[(_consumer_step + (i - 1)) % Cap]
        BY <2>2
      <4>3. Buffered'[i] = v
        BY <4>1, <4>2
      <4> HIDE DEF v
      <4> QED BY <2>1, <3>2, <4>3
    <3>3. i \in 1..Posted \/ i = Posted + 1
      BY <1>1
    <3> QED BY <3>1, <3>2, <3>3, Zenon
  <2> HIDE DEF v
  <2> QED BY <2>1, <2>2, <2>3, SeqEqual
<1>5. Len(Buffered) < Cap
  BY <1>1, <1>2, BufferedSeq DEF BufferIsSeq
<1> QED BY <1>1, <1>3, <1>4, <1>5 DEF Fifo!Put

\* Reading a slot takes the oldest item.
LEMMA ReadTakes ==
    ASSUME IInv, IInv', NEW c \in Consumers, ReadSlot(c)
    PROVE  Fifo!Take(c)
<1>1. /\ Posted' = Posted - 1 /\ Posted \in 1..Cap
      /\ UNCHANGED _rq
      /\ _consumer_step' = (_consumer_step + 1) % Cap
      /\ out' = [out EXCEPT ![c] = _rq[_consumer_step]]
      /\ _consumer_step \in Slots
  <2>1. _cmutex = c /\ _cmutex' = c /\ c # NoThread /\ pc[c] = "slot" /\ pc'[c] = "V"
    BY ConsumerMoves DEF ReadSlot, Goto, IInv, MutexHeld, PcStates
  <2>2. HolderAt(_cmutex, "slot") /\ ~HolderAt(_cmutex, "slot")'
    BY <2>1 DEF HolderAt
  <2>3. _data_sem \in Nat
    BY DEF IInv, TypeOK
  <2> QED BY <2>2, <2>3, BufferedSeq DEF BufferIsSeq, ReadSlot, Posted, One, IInv, TypeOK
<1>2. Buffered # <<>> /\ Head(Buffered) = _rq[_consumer_step]
  <2>1. Buffered[1] = _rq[(_consumer_step + 0) % Cap]
    BY <1>1, BufferedSeq DEF BufferIsSeq
  <2>2. (_consumer_step + 0) % Cap = _consumer_step
    BY <1>1, SMT DEF Slots
  <2> QED BY <1>1, <2>1, <2>2, BufferedSeq DEF BufferIsSeq
<1>3. Buffered' = Tail(Buffered)
  <2>1. /\ Tail(Buffered) \in Seq(Values \cup {Nothing})
        /\ Len(Tail(Buffered)) = Posted - 1
        /\ \A i \in 1..(Posted - 1) : Tail(Buffered)[i] = Buffered[i + 1]
    BY <1>1, <1>2, BufferedSeq, HeadTailProperties DEF BufferIsSeq
  <2>2. /\ Buffered' \in Seq(Values \cup {Nothing}) /\ Len(Buffered') = Posted - 1
        /\ \A i \in 1..(Posted - 1) :
              Buffered'[i] = _rq[(_consumer_step' + (i - 1)) % Cap]
    BY <1>1, BufferedSeqNext DEF BufferIsSeq
  <2>3. ASSUME NEW i \in 1..(Posted - 1)
        PROVE  Buffered'[i] = Tail(Buffered)[i]
    <3>1. i + 1 \in 1..Posted /\ i \in 0..Cap /\ i - 1 \in 0..Cap
      BY <1>1
    <3>2. Buffered[i + 1] = _rq[(_consumer_step + i) % Cap]
      <4>1. (i + 1) - 1 = i
        BY <3>1
      <4> QED BY <3>1, <4>1, BufferedSeq DEF BufferIsSeq
    <3>3. (_consumer_step' + (i - 1)) % Cap = (_consumer_step + i) % Cap
      <4>1. _consumer_step' = IF _consumer_step = Cap - 1 THEN 0 ELSE _consumer_step + 1
        BY <1>1, StepWraps
      <4>2. _consumer_step' \in Slots
        BY DEF IInv, TypeOK
      <4>3. (_consumer_step' + (i - 1)) % Cap
              = IF _consumer_step' + (i - 1) < Cap THEN _consumer_step' + (i - 1)
                ELSE _consumer_step' + (i - 1) - Cap
        BY <3>1, <4>2, SlotAfter
      <4>4. (_consumer_step + i) % Cap
              = IF _consumer_step + i < Cap THEN _consumer_step + i
                ELSE _consumer_step + i - Cap
        BY <1>1, <3>1, SlotAfter
      <4> QED BY <1>1, <3>1, <4>1, <4>3, <4>4 DEF Slots
    <3> QED BY <2>1, <2>2, <3>2, <3>3
  <2> QED BY <2>1, <2>2, <2>3, SeqEqual
<1> QED BY <1>1, <1>2, <1>3 DEF Fifo!Take
-----------------------------------------------------------------------------
\* What a producer carries, and what is written and not yet posted, are items.
LEMMA ItemReadyInit == Init => ItemReady
BY DEF Init, ItemReady, HolderAt, Threads

\* A producer puts into the buffer what it was given.
LEMMA ItemReadyEnqueue ==
    ASSUME IInv, IInv', ItemReady, NEW p \in Producers, Enqueue(p)
    PROVE  ItemReady'
<1> USE DEF Goto, PcStates
<1>1. CASE LockP(p)
  <2>1. ~HolderAt(_pmutex, "V")'
    BY <1>1, ProducerMoves DEF LockP, HolderAt
  <2>2. \A q \in Producers : pc'[q] \in {"P", "slot"} => in'[q] \in Values
    BY <1>1 DEF LockP, IInv, TypeOK, ItemReady, Threads
  <2> QED BY <2>1, <2>2 DEF ItemReady
<1>2. CASE BlankP(p)
  <2>1. ~HolderAt(_pmutex, "V")'
    BY <1>2, ProducerMoves DEF BlankP, HolderAt, IInv, MutexHeld
  <2>2. \A q \in Producers : pc'[q] \in {"P", "slot"} => in'[q] \in Values
    BY <1>2 DEF BlankP, IInv, TypeOK, ItemReady, Threads
  <2> QED BY <2>1, <2>2 DEF ItemReady
<1>3. CASE WriteSlot(p)
  <2>1. \A q \in Producers : pc'[q] \in {"P", "slot"} => in'[q] \in Values
    BY <1>3 DEF WriteSlot, IInv, TypeOK, ItemReady, Threads
  <2>2. _rq'[_productor_step] \in Values
    BY <1>3 DEF WriteSlot, IInv, TypeOK, ItemReady
  <2>3. (_consumer_step' + Posted') % Cap = _productor_step
    BY <1>3, WriteBeyondPosted DEF WriteSlot
  <2> QED BY <2>1, <2>2, <2>3 DEF ItemReady
<1>4. CASE DataV(p)
  <2>1. ~HolderAt(_pmutex, "V")'
    BY <1>4, ProducerMoves DEF DataV, HolderAt, IInv, MutexHeld
  <2>2. \A q \in Producers : pc'[q] \in {"P", "slot"} => in'[q] \in Values
    BY <1>4 DEF DataV, IInv, TypeOK, ItemReady, Threads
  <2> QED BY <2>1, <2>2 DEF ItemReady
<1>5. CASE UnlockP(p)
  <2>1. ~HolderAt(_pmutex, "V")'
    BY <1>5 DEF UnlockP, HolderAt
  <2>2. \A q \in Producers : pc'[q] \in {"P", "slot"} => in'[q] \in Values
    BY <1>5 DEF UnlockP, IInv, TypeOK, ItemReady, Threads
  <2> QED BY <2>1, <2>2 DEF ItemReady
<1> QED BY <1>1, <1>2, <1>3, <1>4, <1>5 DEF Enqueue

\* Consumers leave what a producer has written and not posted alone.
LEMMA ItemReadyPop ==
    ASSUME IInv, IInv', ItemReady, NEW c \in Consumers, Pop(c)
    PROVE  ItemReady'
<1> USE DEF Goto, PcStates
<1>1. /\ UNCHANGED <<_rq, _pmutex, in>>
      /\ \A p \in Producers : pc'[p] = pc[p]
      /\ HolderAt(_pmutex, "V")' <=> HolderAt(_pmutex, "V")
  BY ConsumerMoves DEF Pop, LockC, DataP, ReadSlot, BlankV, UnlockC, HolderAt
<1>2. (_consumer_step' + Posted') % Cap = (_consumer_step + Posted) % Cap
  <2>1. CASE LockC(c) \/ BlankV(c) \/ UnlockC(c)
    <3>1. HolderAt(_cmutex, "slot")' <=> HolderAt(_cmutex, "slot")
      BY <2>1, ConsumerMoves DEF LockC, BlankV, UnlockC, HolderAt, IInv, MutexHeld
    <3> QED BY <2>1, <3>1 DEF LockC, BlankV, UnlockC, Posted, One
  <2>2. CASE DataP(c)
    <3>1. ~HolderAt(_cmutex, "slot") /\ HolderAt(_cmutex, "slot")'
      BY <2>2, ConsumerMoves DEF DataP, HolderAt, IInv, MutexHeld
    <3>2. Posted' = Posted
      BY <2>2, <3>1 DEF DataP, Posted, One, IInv, TypeOK
    <3> QED BY <2>2, <3>2 DEF DataP
  <2>3. CASE ReadSlot(c)
    <3>1. HolderAt(_cmutex, "slot") /\ ~HolderAt(_cmutex, "slot")'
      BY <2>3, ConsumerMoves DEF ReadSlot, HolderAt, IInv, MutexHeld
    <3>2. Posted' = Posted - 1 /\ Posted \in 1..Cap
      BY <2>3, <3>1, BufferedSeq DEF BufferIsSeq, ReadSlot, Posted, One, IInv, TypeOK
    <3>3. _consumer_step' = (_consumer_step + 1) % Cap /\ _consumer_step \in Slots
      BY <2>3 DEF ReadSlot, IInv, TypeOK
    <3> QED BY <3>2, <3>3, StepThenRest
  <2> QED BY <2>1, <2>2, <2>3 DEF Pop
<1> QED BY <1>1, <1>2 DEF ItemReady

\* The ring starts as the empty abstract buffer.
LEMMA SimInit == Init => Fifo!Init
<1> SUFFICES ASSUME Init PROVE Fifo!Init
  OBVIOUS
<1>1. Posted = 0
  BY DEF Init, Posted, HolderAt, One
<1>2. BufferIsSeq
  BY InitInductive, BufferedSeq
<1>3. Buffered = <<>>
  BY <1>1, <1>2 DEF BufferIsSeq
<1> QED BY <1>3 DEF Init, Fifo!Init

\* Only DataV and ReadSlot are steps of the abstract buffer.
LEMMA StepSimulation ==
    ASSUME IInv, IInv', ItemReady, [Next]_vars
    PROVE  [Fifo!Next]_Fifo!fifoVars
<1> USE DEF Goto, PcStates, Fifo!fifoVars
<1>1. ASSUME NEW p \in Producers, Enqueue(p)
      PROVE  Fifo!Put \/ UNCHANGED <<Buffered, out>>
  <2>1. CASE LockP(p) \/ BlankP(p) \/ UnlockP(p)
    <3>1. HolderAt(_cmutex, "slot")' <=> HolderAt(_cmutex, "slot")
      BY <2>1, ProducerMoves DEF LockP, BlankP, UnlockP, HolderAt
    <3> QED BY <2>1, <3>1, SameBuffer DEF LockP, BlankP, UnlockP, Posted, One
  <2>2. CASE WriteSlot(p)
    BY <2>2, WriteBeyondPosted DEF WriteSlot
  <2>3. CASE DataV(p)
    BY <2>3, PostAppends
  <2> QED BY <1>1, <2>1, <2>2, <2>3 DEF Enqueue
<1>2. ASSUME NEW c \in Consumers, Pop(c)
      PROVE  Fifo!Take(c) \/ UNCHANGED <<Buffered, out>>
  <2>1. CASE LockC(c) \/ BlankV(c) \/ UnlockC(c)
    <3>1. HolderAt(_cmutex, "slot")' <=> HolderAt(_cmutex, "slot")
      BY <2>1, ConsumerMoves DEF LockC, BlankV, UnlockC, HolderAt, IInv, MutexHeld
    <3> QED BY <2>1, <3>1, SameBuffer DEF LockC, BlankV, UnlockC, Posted, One
  <2>2. CASE DataP(c)
    <3>1. ~HolderAt(_cmutex, "slot") /\ HolderAt(_cmutex, "slot")'
      BY <2>2, ConsumerMoves DEF DataP, HolderAt, IInv, MutexHeld
    <3>2. Posted' = Posted
      BY <2>2, <3>1 DEF DataP, Posted, One, IInv, TypeOK
    <3> QED BY <2>2, <3>2, SameBuffer DEF DataP
  <2>3. CASE ReadSlot(c)
    BY <2>3, ReadTakes
  <2> QED BY <1>2, <2>1, <2>2, <2>3 DEF Pop
<1>3. CASE UNCHANGED vars
  BY <1>3, SameBuffer DEF vars, Posted, HolderAt
<1> QED BY <1>1, <1>2, <1>3 DEF Next, Fifo!Next

\* RingQueue implements the abstract buffer: what is popped is what was put, in
\* order, each item once (RingQueue.hpp:26-45).
THEOREM Refinement == Spec => ImplementsFifo
<1>1. IInv /\ IInv' /\ ItemReady /\ [Next]_vars => ItemReady'
  <2> SUFFICES ASSUME IInv, IInv', ItemReady, [Next]_vars PROVE ItemReady'
    OBVIOUS
  <2>1. CASE UNCHANGED vars
    BY <2>1 DEF vars, ItemReady, HolderAt, Posted
  <2> QED BY <2>1, ItemReadyEnqueue, ItemReadyPop DEF Next
<1>2. Spec => []ItemReady
  BY <1>1, ItemReadyInit, Invariance, PTL DEF Spec
<1>3. IInv /\ IInv' /\ ItemReady /\ [Next]_vars => [Fifo!Next]_Fifo!fifoVars
  BY StepSimulation
<1> QED BY <1>2, <1>3, SimInit, Invariance, PTL DEF Spec, ImplementsFifo, Fifo!Spec
=============================================================================
