---------------------------- MODULE BlockQueueProofs ----------------------------
(***************************************************************************)
(* No lost wakeup in BlockQueue, for any number of threads and any         *)
(* capacity, and the one case in which waiting with an if is enough.       *)
(***************************************************************************)
EXTENDS BlockQueue, FiniteSetTheorems, TLAPS

USE BlockQueueAssumption

PcStates == {"idle", "waiting", "woken"}

Sides == {Producers, Consumers}

\* A set of threads of one side can be counted.
LEMMA SideFinite ==
    ASSUME NEW side \in Sides, NEW T \in SUBSET side
    PROVE  IsFiniteSet(T) /\ Cardinality(T) \in Nat
BY FS_Subset, FS_CardinalityType DEF Sides

\* Nobody is asleep exactly when the count is zero.
LEMMA CountZero ==
    ASSUME NEW side \in Sides
    PROVE  /\ Cardinality(Asleep(side)) \in Nat
           /\ Cardinality(Woken(side)) \in Nat
           /\ Cardinality(Asleep(side)) = 0 <=> Asleep(side) = {}
BY SideFinite, FS_EmptySet DEF Asleep, Woken

\* What a thread that goes, or stays, idle changes on its own side.
LEMMA Leave ==
    ASSUME NEW side \in Sides, NEW t \in side,
           pc \in [Threads -> PcStates], pc[t] # "waiting",
           pc'[t] = "idle", \A u \in side \ {t} : pc'[u] = pc[u]
    PROVE  /\ Waiting(side)' = Waiting(side)
           /\ Woken(side)' = Woken(side) \ {t}
           /\ Asleep(side)' = Asleep(side) \ {t}
           /\ t \in Woken(side) =>
                 /\ Cardinality(Woken(side)') = Cardinality(Woken(side)) - 1
                 /\ Cardinality(Asleep(side)') = Cardinality(Asleep(side)) - 1
           /\ t \notin Woken(side) =>
                 /\ Woken(side)' = Woken(side)
                 /\ Asleep(side)' = Asleep(side)
<1>1. /\ Waiting(side)' = Waiting(side)
      /\ Woken(side)' = Woken(side) \ {t}
      /\ Asleep(side)' = Asleep(side) \ {t}
  BY DEF Waiting, Woken, Asleep
<1>2. /\ IsFiniteSet(Woken(side)) /\ IsFiniteSet(Asleep(side))
      /\ t \in Woken(side) <=> t \in Asleep(side)
  BY SideFinite DEF Woken, Asleep, Sides, Threads, PcStates
<1>3. CASE t \in Woken(side)
  BY <1>1, <1>2, <1>3, FS_RemoveElement
<1>4. CASE t \notin Woken(side)
  BY <1>1, <1>2, <1>4
<1> QED BY <1>3, <1>4

\* A signal moves one sleeper of the other side, if there is one.
LEMMA Signal ==
    ASSUME NEW side \in Sides, NEW t \in Threads \ side,
           pc \in [Threads -> PcStates],
           LeaveAndSignal(t, side, Cardinality(Asleep(side)))
    PROVE  /\ pc' \in [Threads -> PcStates]
           /\ pc'[t] = "idle"
           /\ \A u \in Threads \ (side \cup {t}) : pc'[u] = pc[u]
           /\ Asleep(side)' = Asleep(side)
           /\ Waiting(side)' \subseteq Waiting(side)
           /\ Waiting(side)' # {} =>
                 Cardinality(Woken(side)') = Cardinality(Woken(side)) + 1
<1>1. side \subseteq Threads
  BY DEF Sides, Threads
<1>2. CASE \E u \in Waiting(side) : pc' = [pc EXCEPT ![t] = "idle", ![u] = "woken"]
  <2>1. PICK u \in Waiting(side) : pc' = [pc EXCEPT ![t] = "idle", ![u] = "woken"]
    BY <1>2
  <2>2. /\ u \in side /\ u # t /\ pc[u] = "waiting"
        /\ pc'[u] = "woken" /\ pc'[t] = "idle"
        /\ \A v \in Threads \ {u, t} : pc'[v] = pc[v]
        /\ pc' \in [Threads -> PcStates]
    BY <1>1, <2>1 DEF Waiting, PcStates
  <2>3. Asleep(side)' = Asleep(side)
    BY <1>1, <2>2 DEF Asleep
  <2>4. /\ Woken(side)' = Woken(side) \cup {u} /\ u \notin Woken(side)
        /\ Waiting(side)' \subseteq Waiting(side)
    BY <1>1, <2>2 DEF Woken, Waiting
  <2>5. Cardinality(Woken(side)') = Cardinality(Woken(side)) + 1
    BY <2>4, SideFinite, FS_AddElement DEF Woken
  <2> QED BY <2>2, <2>3, <2>4, <2>5
<1>3. CASE /\ Cardinality(Asleep(side)) = 0 \/ Waiting(side) = {}
           /\ pc' = [pc EXCEPT ![t] = "idle"]
  <2>1. Waiting(side) = {}
    BY <1>3, CountZero DEF Waiting, Asleep
  <2>2. /\ pc' \in [Threads -> PcStates] /\ pc'[t] = "idle"
        /\ \A v \in Threads \ {t} : pc'[v] = pc[v]
    BY <1>3 DEF PcStates
  <2>3. Asleep(side)' = Asleep(side) /\ Waiting(side)' = {}
    BY <1>1, <2>1, <2>2 DEF Asleep, Waiting
  <2> QED BY <2>2, <2>3
<1> QED BY <1>2, <1>3 DEF LeaveAndSignal

\* A side nobody of which moves looks the same.
LEMMA Untouched ==
    ASSUME NEW side \in Sides, \A u \in side : pc'[u] = pc[u]
    PROVE  /\ Waiting(side)' = Waiting(side)
           /\ Woken(side)' = Woken(side)
           /\ Asleep(side)' = Asleep(side)
BY DEF Waiting, Woken, Asleep

\* At the start everybody is awake.
LEMMA InitInductive == Init => IInv
<1> SUFFICES ASSUME Init PROVE IInv
  OBVIOUS
<1>1. \A t \in Threads : pc[t] = "idle"
  BY DEF Init
<1>2. /\ Asleep(Producers) = {} /\ Asleep(Consumers) = {}
      /\ Waiting(Producers) = {} /\ Waiting(Consumers) = {}
  BY <1>1 DEF Asleep, Waiting, Threads
<1>3. TypeOK
  BY DEF Init, TypeOK
<1> QED BY <1>2, <1>3, FS_EmptySet
        DEF Init, IInv, SleepCountsExact, NoLostWakeup, ItemInHand

\* A producer that finds the queue full leaves no free place behind.
LEMMA WaitNotFullInductive ==
    ASSUME IInv, proc = "running", NEW p \in Producers, WaitNotFull(p)
    PROVE  IInv'
<1> USE DEF WaitNotFull, IInv
<1>1. /\ p \in Threads /\ p \notin Consumers /\ pc[p] = "idle"
      /\ pc' \in [Threads -> PcStates] /\ pc'[p] = "waiting"
      /\ \A u \in Threads \ {p} : pc'[u] = pc[u]
  BY DEF TypeOK, Threads, PcStates
<1>2. /\ Waiting(Consumers)' = Waiting(Consumers)
      /\ Woken(Consumers)' = Woken(Consumers)
      /\ Asleep(Consumers)' = Asleep(Consumers)
  BY <1>1, Untouched DEF Sides, Threads
<1>3. /\ Woken(Producers)' = Woken(Producers)
      /\ Asleep(Producers)' = Asleep(Producers) \cup {p}
      /\ p \notin Asleep(Producers)
  BY <1>1 DEF Woken, Asleep, Threads
<1>4. Cardinality(Asleep(Producers)') = Cardinality(Asleep(Producers)) + 1
  BY <1>3, SideFinite, FS_AddElement DEF Sides, Asleep
<1>5. TypeOK'
  BY <1>1 DEF TypeOK, PcStates
<1>6. SleepCountsExact'
  BY <1>2, <1>4 DEF SleepCountsExact
<1>7. Cardinality(Woken(Producers)) \in Nat
  BY CountZero DEF Sides
<1>8. NoLostWakeup'
  BY <1>2, <1>3, <1>7 DEF NoLostWakeup, TypeOK
<1>9. ItemInHand'
  BY <1>3 DEF ItemInHand, TypeOK, Asleep
<1> QED BY <1>5, <1>6, <1>8, <1>9

\* A consumer that finds the queue empty leaves no item behind.
LEMMA WaitNotEmptyInductive ==
    ASSUME IInv, proc = "running", NEW c \in Consumers, WaitNotEmpty(c)
    PROVE  IInv'
<1> USE DEF WaitNotEmpty, IInv
<1>1. /\ c \in Threads /\ c \notin Producers /\ pc[c] = "idle"
      /\ pc' \in [Threads -> PcStates] /\ pc'[c] = "waiting"
      /\ \A u \in Threads \ {c} : pc'[u] = pc[u]
  BY DEF TypeOK, Threads, PcStates
<1>2. /\ Waiting(Producers)' = Waiting(Producers)
      /\ Woken(Producers)' = Woken(Producers)
      /\ Asleep(Producers)' = Asleep(Producers)
  BY <1>1, Untouched DEF Sides, Threads
<1>3. /\ Woken(Consumers)' = Woken(Consumers)
      /\ Asleep(Consumers)' = Asleep(Consumers) \cup {c}
      /\ c \notin Asleep(Consumers)
  BY <1>1 DEF Woken, Asleep, Threads
<1>4. Cardinality(Asleep(Consumers)') = Cardinality(Asleep(Consumers)) + 1
  BY <1>3, SideFinite, FS_AddElement DEF Sides, Asleep
<1>5. TypeOK'
  BY <1>1 DEF TypeOK, PcStates
<1>6. SleepCountsExact'
  BY <1>2, <1>4 DEF SleepCountsExact
<1>7. Cardinality(Woken(Consumers)) \in Nat /\ Len(_dp) = 0
  BY CountZero DEF Sides
<1>8. NoLostWakeup'
  BY <1>2, <1>3, <1>7 DEF NoLostWakeup
<1>9. ItemInHand'
  BY <1>2 DEF ItemInHand
<1> QED BY <1>5, <1>6, <1>8, <1>9

\* A pushed item has a consumer coming for it: one is woken, or none sleeps.
LEMMA PushInductive ==
    ASSUME IInv, proc = "running", NEW p \in Producers,
           PushAtOnce(p) \/ PushWoken(p)
    PROVE  IInv'
<1> USE DEF IInv
<1>1. PICK v \in Values :
         /\ _dp' = Append(_dp, v)
         /\ LeaveAndSignal(p, Consumers, sleep_consumer_num)
         /\ UNCHANGED <<sleep_consumer_num, out, proc>>
         /\ Len(_dp) < MaxLen
         /\ pc[p] \in {"idle", "woken"}
         /\ pc[p] = "idle" => UNCHANGED <<sleep_productor_num, in>>
         /\ pc[p] = "woken" => /\ sleep_productor_num' = sleep_productor_num - 1
                               /\ in' = [in EXCEPT ![p] = Nothing]
  BY DEF PushAtOnce, PushWoken, ItemInHand, Asleep
<1>2. /\ p \in Threads \ Consumers /\ Consumers \in Sides /\ Producers \in Sides
      /\ pc \in [Threads -> PcStates]
      /\ sleep_consumer_num = Cardinality(Asleep(Consumers))
      /\ sleep_productor_num = Cardinality(Asleep(Producers))
      /\ _dp \in Seq(Values) /\ Len(_dp) \in Nat /\ Len(_dp') = Len(_dp) + 1
  BY <1>1 DEF TypeOK, Threads, Sides, PcStates, SleepCountsExact
<1>3. /\ pc' \in [Threads -> PcStates] /\ pc'[p] = "idle"
      /\ \A u \in Threads \ (Consumers \cup {p}) : pc'[u] = pc[u]
      /\ Asleep(Consumers)' = Asleep(Consumers)
      /\ Waiting(Consumers)' \subseteq Waiting(Consumers)
      /\ Waiting(Consumers)' # {} =>
            Cardinality(Woken(Consumers)') = Cardinality(Woken(Consumers)) + 1
  BY <1>1, <1>2, Signal
<1>4. \A u \in Producers \ {p} : pc'[u] = pc[u]
  BY <1>3 DEF Threads
<1>5. /\ Waiting(Producers)' = Waiting(Producers)
      /\ Asleep(Producers)' = Asleep(Producers) \ {p}
      /\ p \in Woken(Producers) =>
            /\ Cardinality(Woken(Producers)') = Cardinality(Woken(Producers)) - 1
            /\ Cardinality(Asleep(Producers)') = Cardinality(Asleep(Producers)) - 1
      /\ p \notin Woken(Producers) =>
            /\ Woken(Producers)' = Woken(Producers)
            /\ Asleep(Producers)' = Asleep(Producers)
  BY <1>1, <1>2, <1>3, <1>4, Leave
<1>6. /\ Cardinality(Woken(Consumers)) \in Nat /\ Cardinality(Woken(Producers)) \in Nat
      /\ Cardinality(Asleep(Producers)) \in Nat
      /\ p \in Woken(Producers) <=> pc[p] = "woken"
      /\ p \in Woken(Producers) => Cardinality(Asleep(Producers)) # 0
  BY <1>2, CountZero DEF Woken, Asleep
<1>7. TypeOK'
  <2>1. _dp' \in Seq(Values) /\ Len(_dp') <= MaxLen
    BY <1>1, <1>2
  <2>2. sleep_productor_num' \in Nat /\ sleep_consumer_num' \in Nat
    BY <1>1, <1>2, <1>6 DEF TypeOK
  <2>3. in' \in [Producers -> Values \cup {Nothing}]
    BY <1>1 DEF TypeOK
  <2> QED BY <1>1, <1>3, <2>1, <2>2, <2>3 DEF TypeOK, PcStates
<1>8. SleepCountsExact'
  BY <1>1, <1>2, <1>3, <1>5, <1>6 DEF SleepCountsExact
<1>9. Waiting(Consumers)' # {} => Len(_dp') <= Cardinality(Woken(Consumers)')
  BY <1>2, <1>3, <1>6 DEF NoLostWakeup
<1>10. Waiting(Producers)' # {} => Cap - Len(_dp') <= Cardinality(Woken(Producers)')
  BY <1>2, <1>5, <1>6 DEF NoLostWakeup
<1>11. ItemInHand'
  BY <1>1, <1>2, <1>5 DEF ItemInHand, TypeOK, Asleep
<1> QED BY <1>7, <1>8, <1>9, <1>10, <1>11 DEF NoLostWakeup

\* A place that is freed has a producer coming for it: one is woken, or none sleeps.
LEMMA TakeInductive ==
    ASSUME IInv, proc = "running", NEW c \in Consumers,
           PopAtOnce(c) \/ PopWoken(c), _dp # <<>>
    PROVE  IInv'
<1> USE DEF IInv
<1>1. /\ _dp' = Tail(_dp)
      /\ out' = [out EXCEPT ![c] = Head(_dp)]
      /\ LeaveAndSignal(c, Producers, sleep_productor_num)
      /\ UNCHANGED <<sleep_productor_num, in, proc>>
      /\ pc[c] \in {"idle", "woken"}
      /\ pc[c] = "idle" => UNCHANGED sleep_consumer_num
      /\ pc[c] = "woken" => sleep_consumer_num' = sleep_consumer_num - 1
  BY DEF PopAtOnce, PopWoken, TakeFront
<1>2. /\ c \in Threads \ Producers /\ Consumers \in Sides /\ Producers \in Sides
      /\ pc \in [Threads -> PcStates]
      /\ sleep_consumer_num = Cardinality(Asleep(Consumers))
      /\ sleep_productor_num = Cardinality(Asleep(Producers))
      /\ _dp \in Seq(Values) /\ Len(_dp) \in Nat /\ Len(_dp) <= MaxLen
      /\ Head(_dp) \in Values /\ _dp' \in Seq(Values) /\ Len(_dp') = Len(_dp) - 1
  BY <1>1 DEF TypeOK, Threads, Sides, PcStates, SleepCountsExact
<1>3. /\ pc' \in [Threads -> PcStates] /\ pc'[c] = "idle"
      /\ \A u \in Threads \ (Producers \cup {c}) : pc'[u] = pc[u]
      /\ Asleep(Producers)' = Asleep(Producers)
      /\ Waiting(Producers)' \subseteq Waiting(Producers)
      /\ Waiting(Producers)' # {} =>
            Cardinality(Woken(Producers)') = Cardinality(Woken(Producers)) + 1
  BY <1>1, <1>2, Signal
<1>4. \A u \in Consumers \ {c} : pc'[u] = pc[u]
  BY <1>3 DEF Threads
<1>5. /\ Waiting(Consumers)' = Waiting(Consumers)
      /\ c \in Woken(Consumers) =>
            /\ Cardinality(Woken(Consumers)') = Cardinality(Woken(Consumers)) - 1
            /\ Cardinality(Asleep(Consumers)') = Cardinality(Asleep(Consumers)) - 1
      /\ c \notin Woken(Consumers) =>
            /\ Woken(Consumers)' = Woken(Consumers)
            /\ Asleep(Consumers)' = Asleep(Consumers)
  BY <1>1, <1>2, <1>3, <1>4, Leave
<1>6. /\ Cardinality(Woken(Consumers)) \in Nat /\ Cardinality(Woken(Producers)) \in Nat
      /\ Cardinality(Asleep(Consumers)) \in Nat
      /\ c \in Woken(Consumers) <=> pc[c] = "woken"
      /\ c \in Woken(Consumers) => Cardinality(Asleep(Consumers)) # 0
  BY <1>2, CountZero DEF Woken, Asleep
<1>7. TypeOK'
  BY <1>1, <1>2, <1>3, <1>6 DEF TypeOK, PcStates
<1>8. SleepCountsExact'
  BY <1>1, <1>2, <1>3, <1>5, <1>6 DEF SleepCountsExact
<1>9. Waiting(Producers)' # {} => Cap - Len(_dp') <= Cardinality(Woken(Producers)')
  BY <1>2, <1>3, <1>6 DEF NoLostWakeup
<1>10. Waiting(Consumers)' # {} => Len(_dp') <= Cardinality(Woken(Consumers)')
  BY <1>2, <1>5, <1>6 DEF NoLostWakeup
<1>11. ItemInHand'
  BY <1>1, <1>3 DEF ItemInHand
<1> QED BY <1>7, <1>8, <1>9, <1>10, <1>11 DEF NoLostWakeup

\* pop() on the empty queue is the end of what can be said.
LEMMA PopEmptyInductive ==
    ASSUME IInv, proc = "running", NEW c \in Consumers,
           PopAtOnce(c) \/ PopWoken(c), _dp = <<>>
    PROVE  IInv'
<1> USE DEF IInv, PopAtOnce, PopWoken, TakeFront
<1>1. /\ pc[c] = "woken" /\ proc' = "undefined"
      /\ sleep_consumer_num' = sleep_consumer_num - 1
      /\ UNCHANGED <<_dp, out, pc, sleep_productor_num, in>>
  OBVIOUS
<1>2. c \in Asleep(Consumers) /\ sleep_consumer_num = Cardinality(Asleep(Consumers))
  BY <1>1 DEF Asleep, SleepCountsExact
<1>3. sleep_consumer_num' \in Nat
  BY <1>1, <1>2, CountZero DEF Sides
<1>4. TypeOK' /\ SleepCountsExact'
  BY <1>1, <1>3 DEF TypeOK, SleepCountsExact
<1>5. NoLostWakeup' /\ ItemInHand'
  BY <1>1 DEF NoLostWakeup, ItemInHand, Waiting, Woken, Asleep
<1> QED BY <1>4, <1>5

\* A wakeup without a signal makes one sleeper fewer wait for one.
LEMMA SpuriousInductive ==
    ASSUME IInv, proc = "running", NEW t \in Threads, SpuriousWakeup(t)
    PROVE  IInv'
<1> USE DEF SpuriousWakeup, IInv
<1>1. /\ pc[t] = "waiting" /\ pc' \in [Threads -> PcStates] /\ pc'[t] = "woken"
      /\ \A u \in Threads \ {t} : pc'[u] = pc[u]
  BY DEF TypeOK, PcStates
<1>2. ASSUME NEW side \in Sides
      PROVE  /\ Asleep(side)' = Asleep(side)
             /\ Waiting(side)' \subseteq Waiting(side)
             /\ Cardinality(Woken(side)) \in Nat
             /\ Cardinality(Woken(side)') \in Nat
             /\ Cardinality(Woken(side)') >= Cardinality(Woken(side))
  <2>1. side \subseteq Threads
    BY DEF Sides, Threads
  <2>2. Asleep(side)' = Asleep(side) /\ Waiting(side)' \subseteq Waiting(side)
    BY <1>1, <2>1 DEF Asleep, Waiting
  <2>3. Cardinality(Woken(side)) \in Nat /\ IsFiniteSet(Woken(side))
    BY SideFinite DEF Woken
  <2>4. CASE t \in side
    <3>1. Woken(side)' = Woken(side) \cup {t} /\ t \notin Woken(side)
      BY <1>1, <2>1, <2>4 DEF Woken
    <3>2. Cardinality(Woken(side)') = Cardinality(Woken(side)) + 1
      BY <2>3, <3>1, FS_AddElement
    <3> QED BY <2>2, <2>3, <3>2
  <2>5. CASE t \notin side
    BY <1>1, <2>1, <2>2, <2>3, <2>5, Untouched
  <2> QED BY <2>4, <2>5
<1>3. TypeOK'
  BY <1>1 DEF TypeOK, PcStates
<1>4. SleepCountsExact' /\ ItemInHand'
  BY <1>2 DEF SleepCountsExact, ItemInHand, Sides
<1>5. NoLostWakeup'
  <2>1. Len(_dp) \in Nat
    BY DEF TypeOK
  <2> QED BY <1>2, <2>1 DEF NoLostWakeup, Sides
<1> QED BY <1>3, <1>4, <1>5

\* Every step of the program keeps the inductive invariant.
LEMMA NextInductive ==
    ASSUME IInv, [Next]_vars
    PROVE  IInv'
<1>1. CASE UNCHANGED vars
  BY <1>1 DEF vars, IInv, TypeOK, SleepCountsExact, NoLostWakeup, ItemInHand,
              Waiting, Woken, Asleep
<1>2. ASSUME proc = "running", NEW p \in Producers, Enqueue(p)
      PROVE  IInv'
  BY <1>2, WaitNotFullInductive, PushInductive DEF Enqueue
<1>3. ASSUME proc = "running", NEW c \in Consumers, Pop(c)
      PROVE  IInv'
  BY <1>3, WaitNotEmptyInductive, TakeInductive, PopEmptyInductive DEF Pop
<1>4. ASSUME proc = "running", NEW t \in Threads, SpuriousWakeup(t)
      PROVE  IInv'
  BY <1>4, SpuriousInductive
<1> QED BY <1>1, <1>2, <1>3, <1>4 DEF Next

\* The inductive invariant holds throughout.
THEOREM Invariance == Spec => []IInv
<1>1. Init => IInv
  BY InitInductive
<1>2. IInv /\ [Next]_vars => IInv'
  BY NextInductive
<1> QED BY <1>1, <1>2, PTL DEF Spec

\* Every variable keeps its type, for any number of threads.
THEOREM TypeCorrect == Spec => []TypeOK
BY Invariance, PTL DEF IInv

\* No wakeup is lost: while somebody sleeps, what he sleeps for is spoken for, by
\* threads that are already awake.
THEOREM WakeupsKept == Spec => []NoLostWakeup
BY Invariance, PTL DEF IInv

\* Producers and consumers never all sleep, whatever the capacity.
THEOREM SomebodyAwake == Spec => []NotAllAsleep
<1>1. IInv => NotAllAsleep
  <2>1. SUFFICES ASSUME IInv, Producers # {}, Consumers # {},
                        \A t \in Threads : pc[t] = "waiting"
                 PROVE  FALSE
    BY DEF NotAllAsleep
  <2>2. /\ Waiting(Producers) # {} /\ Woken(Producers) = {}
        /\ Waiting(Consumers) # {} /\ Woken(Consumers) = {}
    BY <2>1 DEF Waiting, Woken, Threads
  <2>3. Len(_dp) <= 0 /\ Cap - Len(_dp) <= 0 /\ Len(_dp) \in Nat
    BY <2>1, <2>2, FS_EmptySet DEF IInv, NoLostWakeup, TypeOK
  <2> QED BY <2>3
<1> QED BY <1>1, Invariance, PTL

\* What a lone producer that was signalled, and only one, can rely on.
PlaceKept ==
    /\ CapacityKept
    /\ \A p \in Producers : pc[p] = "woken" => Len(_dp) < Cap

\* No step of a lone producer, or of the consumers, takes that place away.
LEMMA PlaceKeptInductive ==
    ASSUME ~SpuriousWakeups, \A p, q \in Producers : p = q,
           IInv, PlaceKept, [Next]_vars
    PROVE  PlaceKept'
<1> USE DEF PlaceKept, CapacityKept
<1>1. /\ Len(_dp) \in Nat /\ _dp \in Seq(Values)
      /\ pc \in [Threads -> PcStates]
      /\ \A p \in Producers : p \in Threads /\ p \notin Consumers
  BY DEF IInv, TypeOK, PcStates, Threads
<1>2. CASE UNCHANGED vars
  BY <1>2 DEF vars
<1>3. ASSUME proc = "running", NEW p \in Producers, Enqueue(p)
      PROVE  PlaceKept'
  <2>1. CASE WaitNotFull(p)
    BY <1>1, <2>1 DEF WaitNotFull
  <2>2. CASE PushAtOnce(p) \/ PushWoken(p)
    <3>1. Len(_dp') = Len(_dp) + 1 /\ Len(_dp) < Cap
      BY <1>1, <2>2 DEF PushAtOnce, PushWoken, IInv, TypeOK
    <3>2. pc'[p] = "idle"
      BY <1>1, <2>2 DEF PushAtOnce, PushWoken, LeaveAndSignal, Waiting
    <3> QED BY <3>1, <3>2
  <2> QED BY <1>3, <2>1, <2>2 DEF Enqueue
<1>4. ASSUME proc = "running", NEW c \in Consumers, Pop(c)
      PROVE  PlaceKept'
  <2>1. CASE WaitNotEmpty(c)
    BY <1>1, <2>1 DEF WaitNotEmpty
  <2>2. CASE TakeFront(c) /\ _dp # <<>>
    <3>1. Len(_dp') = Len(_dp) - 1
      BY <1>1, <2>2 DEF TakeFront
    <3> QED BY <1>1, <3>1
  <2>3. CASE TakeFront(c) /\ _dp = <<>>
    BY <2>3 DEF TakeFront
  <2> QED BY <1>4, <2>1, <2>2, <2>3 DEF Pop, PopAtOnce, PopWoken
<1>5. ASSUME NEW t \in Threads, SpuriousWakeup(t)
      PROVE  FALSE
  BY <1>5 DEF SpuriousWakeup
<1> QED BY <1>2, <1>3, <1>4, <1>5 DEF Next

\* Waiting with an if is enough for one producer when pthread_cond_wait never
\* returns by itself: the place it was woken for is still there when it pushes.
THEOREM OneProducerKeepsCapacity ==
    ASSUME ~SpuriousWakeups, \A p, q \in Producers : p = q
    PROVE  Spec => []CapacityKept
<1>1. Init => PlaceKept
  BY DEF Init, PlaceKept, CapacityKept, Threads
<1>2. IInv /\ PlaceKept /\ [Next]_vars => PlaceKept'
  BY PlaceKeptInductive
<1>3. PlaceKept => CapacityKept
  BY DEF PlaceKept
<1> QED BY <1>1, <1>2, <1>3, Invariance, PTL DEF Spec

\* What one step does to the items: it puts one, takes the first, or leaves them.
LEMMA ItemStep ==
    ASSUME IInv, [Next]_vars
    PROVE  \/ /\ \E p \in Producers : PushAtOnce(p) \/ PushWoken(p)
              /\ \E v \in Values : _dp' = Append(_dp, v)
              /\ Len(_dp) < MaxLen
              /\ UNCHANGED out
           \/ \E c \in Consumers : /\ _dp # <<>>
                                   /\ out' = [out EXCEPT ![c] = Head(_dp)]
                                   /\ _dp' = Tail(_dp)
           \/ UNCHANGED <<_dp, out>>
<1>1. CASE UNCHANGED vars
  BY <1>1 DEF vars
<1>2. ASSUME NEW p \in Producers, PushAtOnce(p) \/ PushWoken(p)
      PROVE  /\ \E v \in Values : _dp' = Append(_dp, v)
             /\ Len(_dp) < MaxLen
             /\ UNCHANGED out
  BY <1>2 DEF PushAtOnce, PushWoken, IInv, ItemInHand, Asleep
<1>3. ASSUME NEW p \in Producers, WaitNotFull(p)
      PROVE  UNCHANGED <<_dp, out>>
  BY <1>3 DEF WaitNotFull
<1>4. ASSUME NEW c \in Consumers, Pop(c)
      PROVE  \/ /\ _dp # <<>>
                /\ out' = [out EXCEPT ![c] = Head(_dp)]
                /\ _dp' = Tail(_dp)
             \/ UNCHANGED <<_dp, out>>
  BY <1>4 DEF Pop, WaitNotEmpty, PopAtOnce, PopWoken, TakeFront
<1>5. ASSUME NEW t \in Threads, SpuriousWakeup(t)
      PROVE  UNCHANGED <<_dp, out>>
  BY <1>5 DEF SpuriousWakeup
<1> QED BY <1>1, <1>2, <1>3, <1>4, <1>5 DEF Next, Enqueue

\* Whoever overtakes whom, items come out in order and each goes to one consumer.
THEOREM QueueRefinement == Spec => ImplementsQueue
<1>1. Init => Queue!Init
  BY DEF Init, Queue!Init
<1>2. IInv /\ [Next]_vars => [Queue!Next]_Queue!fifoVars
  BY ItemStep DEF Queue!Next, Queue!Put, Queue!Take, Queue!fifoVars
<1> QED BY <1>1, <1>2, Invariance, PTL DEF Spec, ImplementsQueue, Queue!Spec

\* For one producer, without spurious wakeups, the queue is what Main.cc:73 calls it:
\* a FIFO of capacity _cap.
THEOREM OneProducerRefinement ==
    ASSUME ~SpuriousWakeups, \A p, q \in Producers : p = q
    PROVE  Spec => ImplementsFifo
<1>1. Init => PlaceKept /\ Fifo!Init
  BY DEF Init, PlaceKept, CapacityKept, Threads, Fifo!Init
<1>2. IInv /\ PlaceKept /\ [Next]_vars => PlaceKept'
  BY PlaceKeptInductive
<1>3. ASSUME IInv, PlaceKept, NEW p \in Producers, PushAtOnce(p) \/ PushWoken(p)
      PROVE  Len(_dp) < Cap
  BY <1>3 DEF PlaceKept, CapacityKept, PushAtOnce, PushWoken, IInv, TypeOK
<1>4. IInv /\ PlaceKept /\ [Next]_vars => [Fifo!Next]_Fifo!fifoVars
  BY <1>3, ItemStep DEF Fifo!Next, Fifo!Put, Fifo!Take, Fifo!fifoVars
<1> QED BY <1>1, <1>2, <1>4, Invariance, PTL DEF Spec, ImplementsFifo, Fifo!Spec

\* The same for a lone consumer and the item it was woken for.
ItemKept ==
    /\ proc = "running"
    /\ \A c \in Consumers : pc[c] = "woken" => _dp # <<>>

\* With one consumer and no spurious wakeups nobody ever pops from the empty queue,
\* however many producers overtake one another.
THEOREM OneConsumerNeverPopsEmpty ==
    ASSUME ~SpuriousWakeups, \A c, d \in Consumers : c = d
    PROVE  Spec => [](proc = "running")
<1>1. Init => ItemKept
  BY DEF Init, ItemKept, Threads
<1>2. ASSUME IInv, ItemKept, [Next]_vars
      PROVE  ItemKept'
  <2> USE DEF ItemKept
  <2>1. /\ _dp \in Seq(Values) /\ pc \in [Threads -> PcStates]
        /\ \A c \in Consumers : c \in Threads /\ c \notin Producers
    BY <1>2 DEF IInv, TypeOK, PcStates, Threads
  <2>2. CASE UNCHANGED vars
    BY <1>2, <2>2 DEF vars
  <2>3. ASSUME NEW p \in Producers, Enqueue(p)
        PROVE  ItemKept'
    <3>1. CASE WaitNotFull(p)
      BY <1>2, <2>1, <3>1 DEF WaitNotFull
    <3>2. CASE PushAtOnce(p) \/ PushWoken(p)
      <4>1. PICK v : _dp' = Append(_dp, v) /\ UNCHANGED proc
        BY <3>2 DEF PushAtOnce, PushWoken
      <4>2. _dp' # <<>>
        BY <2>1, <4>1
      <4> QED BY <1>2, <4>1, <4>2
    <3> QED BY <2>3, <3>1, <3>2 DEF Enqueue
  <2>4. ASSUME NEW c \in Consumers, Pop(c)
        PROVE  ItemKept'
    <3>1. CASE WaitNotEmpty(c)
      BY <1>2, <2>1, <3>1 DEF WaitNotEmpty
    <3>2. CASE TakeFront(c) /\ _dp # <<>>
      <4>1. pc'[c] = "idle" /\ UNCHANGED proc
        BY <2>1, <3>2 DEF TakeFront, LeaveAndSignal, Waiting
      <4> QED BY <1>2, <4>1
    <3>3. PopAtOnce(c) \/ PopWoken(c) => TakeFront(c) /\ _dp # <<>>
      BY <1>2 DEF PopAtOnce, PopWoken
    <3> QED BY <2>4, <3>1, <3>2, <3>3 DEF Pop
  <2>5. ASSUME NEW t \in Threads, SpuriousWakeup(t)
        PROVE  FALSE
    BY <2>5 DEF SpuriousWakeup
  <2> QED BY <1>2, <2>2, <2>3, <2>4, <2>5 DEF Next
<1>3. IInv /\ ItemKept /\ [Next]_vars => ItemKept'
  BY <1>2
<1>4. ItemKept => proc = "running"
  BY DEF ItemKept
<1> QED BY <1>1, <1>3, <1>4, Invariance, PTL DEF Spec
=============================================================================
