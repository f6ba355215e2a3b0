---------------------------- MODULE ThreadPoolProofs ----------------------------
(***************************************************************************)
(* Safety of ThreadPool for any number of workers and of tasks, and the    *)
(* proof that it implements TaskPool.                                      *)
(***************************************************************************)
EXTENDS ThreadPool, FiniteSetTheorems, TLAPS

USE PoolAssumption

\* A set of workers is finite and no larger than the pool.
LEMMA WorkerSet ==
    ASSUME NEW T \in SUBSET Slavers
    PROVE  IsFiniteSet(T) /\ Cardinality(T) \in 0..SlaverNum
<1>1. IsFiniteSet(Slavers) /\ Cardinality(Slavers) = SlaverNum
  BY FS_Interval DEF Slavers
<1>2. IsFiniteSet(T) /\ Cardinality(T) <= SlaverNum
  BY <1>1, FS_Subset
<1> QED BY <1>2, FS_CardinalityType

\* One worker more.
LEMMA OneMore ==
    ASSUME NEW T \in SUBSET Slavers, NEW s \in Slavers, s \notin T
    PROVE  Cardinality(T \cup {s}) = Cardinality(T) + 1
BY WorkerSet, FS_AddElement

\* One worker fewer.
LEMMA OneFewer ==
    ASSUME NEW T \in SUBSET Slavers, NEW s \in T
    PROVE  Cardinality(T \ {s}) = Cardinality(T) - 1
BY WorkerSet, FS_RemoveElement

\* The workers inside Wait.
Asleep == In("waiting") \cup In("woken")

\* The numbers of waiting and woken workers are naturals that the pool bounds.
LEMMA CountsTyped ==
    /\ IsFiniteSet(In("waiting")) /\ IsFiniteSet(In("woken"))
    /\ Cardinality(In("woken")) \in Nat
    /\ Cardinality(In("waiting")) \in Nat
    /\ Cardinality(Asleep) \in 0..SlaverNum
    /\ Cardinality(Asleep) = 0 => In("waiting") = {} /\ In("woken") = {}
<1>1. /\ In("waiting") \in SUBSET Slavers
      /\ In("woken") \in SUBSET Slavers
      /\ Asleep \in SUBSET Slavers
  BY DEF In, Asleep
<1>2. IsFiniteSet(Asleep) /\ (Cardinality(Asleep) = 0 => Asleep = {})
  BY <1>1, WorkerSet, FS_EmptySet
<1> QED BY <1>1, <1>2, WorkerSet DEF Asleep

\* What a step does to the sets of workers when it moves only worker s.
LEMMA MoveWorker ==
    ASSUME pc \in [Slavers -> PcStates], NEW s \in Slavers, NEW p \in PcStates,
           pc' = [pc EXCEPT ![s] = p], NEW q
    PROVE  In(q)' = IF q = p THEN In(q) \cup {s} ELSE In(q) \ {s}
BY DEF In

\* What the workers execute depends on who is busy with what.
LEMMA BusyUnchanged ==
    ASSUME UNCHANGED task, In("busy")' = In("busy")
    PROVE  Executing' = Executing
BY DEF Executing

\* Before Start there is neither a task nor a thread.
LEMMA InitInductive == Init => IInv
<1> SUFFICES ASSUME Init PROVE IInv
  OBVIOUS
<1> USE DEF Init
<1>1. \A q \in PcStates : q # "new" => In(q) = {}
  BY DEF In
<1>2. /\ In("waiting") = {} /\ In("woken") = {} /\ In("busy") = {}
      /\ In("exited") = {}
  BY <1>1 DEF PcStates
<1>3. TypeOK
  <2>1. /\ _slavers_sleep_count \in 0..SlaverNum /\ enqueued \in 0..NTasks
        /\ joinIdx \in 1..(SlaverNum + 1) /\ task \in [Slavers -> 0..NTasks]
    OBVIOUS
  <2>2. _tasks \in Seq(1..NTasks) /\ done \subseteq 1..NTasks
    OBVIOUS
  <2>3. pc \in [Slavers -> PcStates] /\ _isrunning \in BOOLEAN
    BY DEF PcStates
  <2> QED BY <2>1, <2>2, <2>3 DEF TypeOK
<1>4. SleepCountExact /\ NoLostWakeup
  BY <1>2, FS_EmptySet DEF SleepCountExact, NoLostWakeup
<1>5. TasksConserved
  BY <1>2 DEF TasksConserved, Executing
<1>6. MainPhase
  BY DEF MainPhase
<1>7. ExitedAfterDrain
  BY <1>2 DEF ExitedAfterDrain
<1> QED BY <1>7, <1>3, <1>4, <1>5, <1>6 DEF IInv

\* Main before and after the tasks: the pool's queue is not touched, and no
\* thread that exists is disturbed.
LEMMA StartInductive ==
    ASSUME IInv, Start
    PROVE  IInv'
<1> USE DEF IInv, Start
<1>1. TypeOK' /\ SleepCountExact' /\ NoLostWakeup' /\ TasksConserved'
  BY DEF TypeOK, SleepCountExact, NoLostWakeup, TasksConserved, In, Executing
<1>2. MainPhase' /\ ExitedAfterDrain'
  BY DEF MainPhase, ExitedAfterDrain, In, TypeOK
<1> QED BY <1>1, <1>2

\* A thread created, or not created, is the next one in order.
LEMMA CreateInductive ==
    ASSUME IInv, CreateSlaver
    PROVE  IInv'
<1> USE DEF IInv, CreateSlaver
<1>1. CASE joinIdx > SlaverNum /\ mainPc' = "enqueue" /\ UNCHANGED pc /\ joinIdx' = 1
  <2>1. TypeOK' /\ SleepCountExact' /\ NoLostWakeup' /\ TasksConserved'
    BY <1>1 DEF TypeOK, SleepCountExact, NoLostWakeup, TasksConserved, In, Executing
  <2>2. MainPhase' /\ ExitedAfterDrain'
    BY <1>1 DEF MainPhase, ExitedAfterDrain, In
  <2> QED BY <2>1, <2>2
<1>2. CASE joinIdx <= SlaverNum
  <2>1. /\ joinIdx \in Slavers /\ pc[joinIdx] = "new"
        /\ joinIdx' = joinIdx + 1 /\ UNCHANGED mainPc
    BY <1>2 DEF TypeOK, MainPhase, Slavers
  <2>2. PICK p \in {"ready", "failed"} : pc' = [pc EXCEPT ![joinIdx] = p]
    <3>1. ~(joinIdx > SlaverNum)
      BY <1>2 DEF TypeOK
    <3> QED BY <3>1
  <2>3. TypeOK'
    BY <2>1, <2>2 DEF TypeOK, PcStates, Slavers
  <2>4. \A q \in {"waiting", "woken", "busy", "exited"} : In(q)' = In(q)
    BY <2>1, <2>2 DEF TypeOK, In
  <2>5. SleepCountExact' /\ NoLostWakeup'
    BY <2>1, <2>4 DEF SleepCountExact, NoLostWakeup
  <2>6. TasksConserved'
    BY <2>4 DEF TasksConserved, Executing
  <2>7. MainPhase' /\ ExitedAfterDrain'
    BY <2>1, <2>2, <2>4 DEF MainPhase, ExitedAfterDrain, TypeOK, Slavers
  <2> QED BY <2>3, <2>5, <2>6, <2>7
<1> QED BY <1>1, <1>2 DEF TypeOK

\* A new task comes with a wakeup if anybody is left sleeping.
LEMMA EnqueueInductive ==
    ASSUME IInv, Enqueue
    PROVE  IInv'
<1> USE DEF IInv, Enqueue
<1>1. \/ UNCHANGED pc /\ In("waiting") = {}
      \/ \E s \in In("waiting") : pc' = [pc EXCEPT ![s] = "woken"]
  BY CountsTyped DEF Signal, SleepCountExact, Asleep
<1>2. /\ In("busy")' = In("busy") /\ In("exited")' = In("exited")
      /\ Asleep' = Asleep
      /\ pc' \in [Slavers -> PcStates]
  BY <1>1 DEF In, Asleep, TypeOK, PcStates
<1>3. TypeOK'
  <2>1. _tasks' \in Seq(1..NTasks)
    BY DEF TypeOK
  <2> QED BY <1>2, <2>1 DEF TypeOK
<1>4. SleepCountExact'
  BY <1>2 DEF SleepCountExact, Asleep
<1>5. NoLostWakeup'
  <2>1. CASE UNCHANGED pc /\ In("waiting") = {}
    BY <2>1 DEF NoLostWakeup, In
  <2>2. CASE \E s \in In("waiting") : pc' = [pc EXCEPT ![s] = "woken"]
    <3>1. PICK s \in In("waiting") : pc' = [pc EXCEPT ![s] = "woken"]
      BY <2>2
    <3>2. s \in Slavers /\ s \notin In("woken") /\ In("woken") \in SUBSET Slavers
      BY DEF In
    <3>3. In("woken")' = In("woken") \cup {s}
      BY <3>1, <3>2, MoveWorker DEF TypeOK, PcStates
    <3>4. Cardinality(In("woken")') = Cardinality(In("woken")) + 1
      BY <3>2, <3>3, OneMore
    <3>5. Len(_tasks') = Len(_tasks) + 1
      BY DEF TypeOK
    <3>6. Len(_tasks) <= Cardinality(In("woken"))
      BY <3>1 DEF NoLostWakeup
    <3>7. Len(_tasks') <= Cardinality(In("woken")')
      BY <3>4, <3>5, <3>6, CountsTyped DEF TypeOK
    <3> QED BY <3>7 DEF NoLostWakeup
  <2> QED BY <1>1, <2>1, <2>2
<1>6. TasksConserved'
  <2>1. Executing' = Executing
    BY <1>2 DEF Executing
  <2>2. \A i \in 1..Len(_tasks') : _tasks'[i] = enqueued' - Len(_tasks') + i
    BY DEF TypeOK, TasksConserved
  <2>3. enqueued' - Len(_tasks') = enqueued - Len(_tasks)
    BY DEF TypeOK
  <2> QED BY <1>2, <2>1, <2>2, <2>3 DEF TasksConserved
<1>7. MainPhase' /\ ExitedAfterDrain'
  BY <1>2 DEF MainPhase, ExitedAfterDrain
<1> QED BY <1>3, <1>4, <1>5, <1>6, <1>7

\* After the broadcast nobody sleeps, and a skipped broadcast means nobody did.
LEMMA StopInductive ==
    ASSUME IInv, Stop
    PROVE  IInv'
<1> USE DEF IInv, Stop
<1>1. \/ UNCHANGED pc /\ In("waiting") = {}
      \/ Broadcast
  BY CountsTyped DEF SleepCountExact, Asleep
<1>2. /\ In("busy")' = In("busy") /\ In("exited")' = In("exited")
      /\ Asleep' = Asleep /\ In("waiting")' = {}
      /\ pc' \in [Slavers -> PcStates]
  BY <1>1 DEF In, Asleep, TypeOK, PcStates, Broadcast
<1>3. TypeOK'
  BY <1>2 DEF TypeOK
<1>4. SleepCountExact' /\ NoLostWakeup'
  BY <1>2 DEF SleepCountExact, NoLostWakeup, Asleep
<1>5. TasksConserved'
  BY <1>2 DEF TasksConserved, Executing
<1>6. In("exited") = {}
  BY DEF ExitedAfterDrain
<1>7. \A s \in Slavers : ~(s < joinIdx')
  BY DEF MainPhase, Slavers
<1>8. MainPhase'
  BY DEF MainPhase
<1>9. ExitedAfterDrain'
  BY <1>2, <1>6, <1>7 DEF ExitedAfterDrain
<1> QED BY <1>3, <1>4, <1>5, <1>8, <1>9

\* Wait passes a worker only when it has exited.
LEMMA JoinInductive ==
    ASSUME IInv, Join
    PROVE  IInv'
<1> USE DEF IInv, Join
<1>1. /\ mainPc = "join" /\ mainPc' \in {"join", "done", "undefined"}
      /\ joinIdx' \in 1..(SlaverNum + 1)
      /\ UNCHANGED <<_isrunning, _tasks, _slavers_sleep_count, pc, task, done,
                     enqueued>>
  BY DEF TypeOK
<1>2. TypeOK' /\ SleepCountExact' /\ TasksConserved'
  BY <1>1 DEF TypeOK, SleepCountExact, TasksConserved, In, Executing
<1>3. NoLostWakeup' /\ MainPhase'
  BY <1>1 DEF NoLostWakeup, MainPhase, In
<1>4. ExitedAfterDrain'
  <2>1. In("exited")' # {} => _tasks' = <<>>
    BY <1>1 DEF ExitedAfterDrain, In
  <2>2. mainPc' = "join" => \A s \in Slavers : s < joinIdx' => pc'[s] = "exited"
    BY <1>1 DEF ExitedAfterDrain, TypeOK, Slavers
  <2>3. mainPc' = "done" => \A s \in Slavers : pc'[s] = "exited"
    BY <1>1 DEF ExitedAfterDrain, TypeOK, Slavers
  <2> QED BY <1>1, <2>1, <2>2, <2>3 DEF ExitedAfterDrain
<1> QED BY <1>2, <1>3, <1>4

\* A worker that finds nothing to do sleeps only while the pool runs.
LEMMA SleepInductive ==
    ASSUME IInv, NEW s \in Slavers, Sleep(s)
    PROVE  IInv'
<1> USE DEF IInv, Sleep
<1>1. /\ In("busy")' = In("busy") /\ In("exited")' = In("exited")
      /\ Asleep' = Asleep \cup {s}
      /\ s \in Asleep <=> pc[s] = "woken"
      /\ pc' \in [Slavers -> PcStates]
  BY DEF In, Asleep, TypeOK, PcStates
<1>2. Asleep \in SUBSET Slavers
  BY DEF In, Asleep
<1>3. _slavers_sleep_count' = Cardinality(Asleep')
  <2>1. _slavers_sleep_count = Cardinality(Asleep)
    BY DEF SleepCountExact, Asleep
  <2>2. CASE pc[s] = "woken"
    <3>1. Asleep' = Asleep
      BY <1>1, <2>2
    <3> QED BY <2>1, <2>2, <3>1, CountsTyped DEF AwakeCount
  <2>3. CASE pc[s] = "ready"
    <3>1. Cardinality(Asleep') = Cardinality(Asleep) + 1
      BY <1>1, <1>2, <2>3, OneMore
    <3> QED BY <2>1, <2>3, <3>1, CountsTyped DEF AwakeCount
  <2> QED BY <2>2, <2>3
<1>4. TypeOK'
  <2>1. Asleep' \in SUBSET Slavers
    BY <1>1, <1>2
  <2>2. Cardinality(Asleep') \in 0..SlaverNum
    BY <2>1, WorkerSet
  <2> QED BY <1>1, <1>3, <2>2 DEF TypeOK
<1>5. SleepCountExact'
  BY <1>3 DEF SleepCountExact, Asleep
<1>6. NoLostWakeup'
  <2>1. In("woken")' \in SUBSET Slavers
    BY DEF In
  <2>2. Len(_tasks') = 0 /\ Cardinality(In("woken")') \in Nat
    BY <2>1, WorkerSet
  <2>3. mainPc' \notin {"join", "done"}
    BY DEF MainPhase
  <2> QED BY <2>2, <2>3 DEF NoLostWakeup
<1>7. TasksConserved'
  BY <1>1 DEF TasksConserved, Executing
<1>8. MainPhase' /\ ExitedAfterDrain'
  BY <1>1 DEF MainPhase, ExitedAfterDrain
<1> QED BY <1>4, <1>5, <1>6, <1>7, <1>8

\* Leaving the wait loop: the number of sleepers follows, and the others' wakeups
\* are not disturbed.
LEMMA AwakeAfterwards ==
    ASSUME IInv, NEW s \in Slavers, pc[s] \in {"ready", "woken"},
           NEW p \in {"busy", "exited"}, pc' = [pc EXCEPT ![s] = p],
           _slavers_sleep_count' = AwakeCount(s)
    PROVE  /\ _slavers_sleep_count' \in 0..SlaverNum
           /\ SleepCountExact'
           /\ In("waiting")' = In("waiting")
           /\ In("woken")' = In("woken") \ {s}
<1> USE DEF IInv
<1>1. /\ Asleep \in SUBSET Slavers
      /\ Asleep' = Asleep \ {s}
      /\ s \in Asleep <=> pc[s] = "woken"
      /\ In("waiting")' = In("waiting") /\ In("woken")' = In("woken") \ {s}
  BY DEF In, Asleep, TypeOK, PcStates
<1>2. _slavers_sleep_count' = Cardinality(Asleep')
  <2>1. _slavers_sleep_count = Cardinality(Asleep)
    BY DEF SleepCountExact, Asleep
  <2>2. CASE pc[s] = "woken"
    <3>1. Cardinality(Asleep') = Cardinality(Asleep) - 1
      BY <1>1, <2>2, OneFewer
    <3> QED BY <2>1, <2>2, <3>1, CountsTyped DEF AwakeCount
  <2>3. CASE pc[s] = "ready"
    <3>1. Asleep' = Asleep
      BY <1>1, <2>3
    <3> QED BY <2>1, <2>3, <3>1, CountsTyped DEF AwakeCount
  <2> QED BY <2>2, <2>3
<1>3. Cardinality(Asleep') \in 0..SlaverNum
  <2>1. Asleep' \in SUBSET Slavers
    BY <1>1
  <2> QED BY <2>1, WorkerSet
<1> QED BY <1>1, <1>2, <1>3 DEF SleepCountExact, Asleep

\* A thread that runs exists, so main is past its creation, and Wait has not
\* passed it unless it has exited.
LEMMA WorkerPhase ==
    ASSUME IInv, NEW s \in Slavers, pc[s] \in {"ready", "woken", "waiting", "busy"},
           NEW p \in PcStates, pc' = [pc EXCEPT ![s] = p],
           UNCHANGED <<_isrunning, enqueued, mainPc, joinIdx>>
    PROVE  /\ MainPhase' /\ mainPc \notin {"start", "done"}
           /\ mainPc' = "join" =>
                 \A r \in Slavers : r < joinIdx' => pc'[r] = "exited"
BY DEF IInv, MainPhase, ExitedAfterDrain, TypeOK, PcStates

\* A worker leaves only a stopped pool with nothing queued.
LEMMA ExitInductive ==
    ASSUME IInv, NEW s \in Slavers, Exit(s)
    PROVE  IInv'
<1> USE DEF Exit
<1>1. In("busy")' = In("busy") /\ pc' \in [Slavers -> PcStates]
  BY DEF IInv, TypeOK, PcStates, In
<1>2. /\ _slavers_sleep_count' \in 0..SlaverNum
      /\ SleepCountExact' /\ In("waiting")' = In("waiting")
  BY AwakeAfterwards
<1>3. /\ MainPhase' /\ mainPc \notin {"start", "done"}
      /\ mainPc' = "join" =>
            \A r \in Slavers : r < joinIdx' => pc'[r] = "exited"
  BY WorkerPhase DEF PcStates
<1>4. TypeOK'
  BY <1>1, <1>2 DEF IInv, TypeOK
<1>5. NoLostWakeup'
  <2>1. In("woken")' \in SUBSET Slavers
    BY DEF In
  <2>2. Len(_tasks') = 0 /\ Cardinality(In("woken")') \in Nat
    BY <2>1, WorkerSet
  <2>3. mainPc' \in {"join", "done"} => In("waiting")' = {}
    BY <1>2 DEF IInv, NoLostWakeup
  <2> QED BY <2>2, <2>3 DEF NoLostWakeup
<1>6. TasksConserved'
  BY <1>1 DEF IInv, TasksConserved, Executing
<1>7. mainPc' \in {"join", "undefined"}
  BY <1>3 DEF IInv, MainPhase, TypeOK
<1>8. ExitedAfterDrain'
  BY <1>3, <1>7 DEF ExitedAfterDrain
<1> QED BY <1>2, <1>3, <1>4, <1>5, <1>6, <1>8 DEF IInv

\* Taking the head of the queue moves it from the queue to one worker.
LEMMA TakeConserves ==
    ASSUME IInv, NEW s \in Slavers, Take(s)
    PROVE  /\ _tasks' \in Seq(1..NTasks)
           /\ Len(_tasks') = Len(_tasks) - 1 /\ Len(_tasks) \in Nat \ {0}
           /\ Head(_tasks) = enqueued - Len(_tasks) + 1
           /\ In("busy")' = In("busy") \cup {s} /\ s \notin In("busy")
           /\ Executing' = Executing \cup {Head(_tasks)}
           /\ TasksConserved'
<1> USE DEF Take
<1>1. /\ _tasks' \in Seq(1..NTasks) /\ Head(_tasks) \in 1..NTasks
      /\ Len(_tasks') = Len(_tasks) - 1 /\ Len(_tasks) \in Nat \ {0}
      /\ \A i \in 1..Len(_tasks') : _tasks'[i] = _tasks[i + 1]
      /\ Head(_tasks) = _tasks[1]
  BY DEF IInv, TypeOK
<1>2. Head(_tasks) = enqueued - Len(_tasks) + 1
  BY <1>1 DEF IInv, TasksConserved
<1>3. In("busy")' = In("busy") \cup {s} /\ s \notin In("busy")
  BY DEF IInv, TypeOK, In
<1>4. /\ task'[s] = Head(_tasks)
      /\ \A r \in In("busy") : task'[r] = task[r]
  BY <1>3 DEF IInv, TypeOK, In
<1>5. Executing' = Executing \cup {Head(_tasks)}
  BY <1>3, <1>4 DEF Executing
<1>6. enqueued \in Nat /\ enqueued' = enqueued /\ done' = done
  BY DEF IInv, TypeOK
<1>7. enqueued - Len(_tasks) \in Nat
  BY <1>1, <1>2, <1>6
<1>8. \A i \in 1..Len(_tasks') : _tasks'[i] = enqueued' - Len(_tasks') + i
  <2>1. TAKE i \in 1..Len(_tasks')
  <2>2. i + 1 \in 1..Len(_tasks) /\ _tasks'[i] = _tasks[i + 1]
    BY <1>1
  <2>3. _tasks[i + 1] = enqueued - Len(_tasks) + (i + 1)
    BY <2>2 DEF IInv, TasksConserved
  <2> QED BY <1>1, <1>6, <2>2, <2>3
<1>9. Executing \cup done = 1..(enqueued - Len(_tasks))
  BY DEF IInv, TasksConserved
<1>10. Executing' \cup done' = 1..(enqueued' - Len(_tasks'))
  <2>1. 1..(enqueued' - Len(_tasks'))
           = 1..(enqueued - Len(_tasks)) \cup {enqueued - Len(_tasks) + 1}
    BY <1>1, <1>6, <1>7
  <2> QED BY <1>2, <1>5, <1>6, <1>9, <2>1
<1>11. Head(_tasks) \notin Executing \cup done
  BY <1>2, <1>7, <1>9
<1>12. Executing' \cap done' = {}
  BY <1>5, <1>6, <1>11 DEF IInv, TasksConserved
<1>13. ASSUME NEW r \in In("busy")', NEW t \in In("busy")', task'[r] = task'[t]
       PROVE  r = t
  <2>1. \A q \in In("busy") : task[q] # Head(_tasks)
    BY <1>11 DEF Executing
  <2> QED BY <1>3, <1>4, <1>13, <2>1 DEF IInv, TasksConserved
<1> QED BY <1>1, <1>2, <1>3, <1>5, <1>8, <1>10, <1>12, <1>13 DEF TasksConserved

\* A worker that takes a task goes off the sleep count if it slept.
LEMMA TakeInductive ==
    ASSUME IInv, NEW s \in Slavers, Take(s)
    PROVE  IInv'
<1> USE DEF Take
<1>1. /\ _tasks' \in Seq(1..NTasks)
      /\ Len(_tasks') = Len(_tasks) - 1 /\ Len(_tasks) \in Nat \ {0}
      /\ TasksConserved'
  BY TakeConserves
<1>2. /\ pc' \in [Slavers -> PcStates] /\ In("exited")' = In("exited")
      /\ Head(_tasks) \in 0..NTasks
  BY DEF IInv, TypeOK, PcStates, In
<1>3. /\ _slavers_sleep_count' \in 0..SlaverNum
      /\ SleepCountExact' /\ In("waiting")' = In("waiting")
      /\ In("woken")' = In("woken") \ {s}
  BY AwakeAfterwards
<1>4. /\ MainPhase' /\ mainPc \notin {"start", "done"}
      /\ mainPc' = "join" =>
            \A r \in Slavers : r < joinIdx' => pc'[r] = "exited"
  BY WorkerPhase DEF PcStates
<1>5. TypeOK'
  BY <1>1, <1>2, <1>3 DEF IInv, TypeOK
<1>6. NoLostWakeup'
  <2>1. ASSUME In("waiting")' # {}
        PROVE  Len(_tasks') <= Cardinality(In("woken")')
    <3>1. Len(_tasks) <= Cardinality(In("woken"))
      BY <1>3, <2>1 DEF IInv, NoLostWakeup
    <3>2. CASE s \in In("woken")
      <4>1. Cardinality(In("woken") \ {s}) = Cardinality(In("woken")) - 1
        <5>1. In("woken") \in SUBSET Slavers
          BY DEF In
        <5> QED BY <3>2, <5>1, OneFewer
      <4>2. Cardinality(In("woken")') = Cardinality(In("woken")) - 1
        BY <1>3, <4>1
      <4> QED BY <1>1, <3>1, <4>2, CountsTyped
    <3>3. CASE s \notin In("woken")
      <4>1. In("woken")' = In("woken")
        BY <1>3, <3>3
      <4> QED BY <1>1, <3>1, <4>1, CountsTyped
    <3> QED BY <3>2, <3>3
  <2>2. mainPc' \in {"join", "done"} => In("waiting")' = {}
    BY <1>3 DEF IInv, NoLostWakeup
  <2> QED BY <2>1, <2>2 DEF NoLostWakeup
<1>7. In("exited") = {}
  BY <1>1 DEF IInv, ExitedAfterDrain
<1>8. ExitedAfterDrain'
  BY <1>2, <1>4, <1>7 DEF ExitedAfterDrain
<1> QED BY <1>1, <1>3, <1>4, <1>5, <1>6, <1>8 DEF IInv

\* A task that has been executed goes from its worker to done.
LEMMA ExecuteInductive ==
    ASSUME IInv, NEW s \in Slavers, Execute(s)
    PROVE  /\ IInv'
           /\ task[s] \in Executing
           /\ Executing' = Executing \ {task[s]}
<1> USE DEF Execute
<1>1. /\ pc' \in [Slavers -> PcStates]
      /\ In("waiting")' = In("waiting") /\ In("woken")' = In("woken")
      /\ In("exited")' = In("exited")
      /\ In("busy")' = In("busy") \ {s} /\ s \in In("busy")
      /\ \A r \in In("busy")' : task'[r] = task[r]
      /\ task' \in [Slavers -> 0..NTasks]
  BY DEF IInv, TypeOK, PcStates, In
<1>2. task[s] \in Executing /\ Executing \cup done = 1..(enqueued - Len(_tasks))
  BY <1>1 DEF Executing, IInv, TasksConserved
<1>3. enqueued - Len(_tasks) <= NTasks /\ enqueued - Len(_tasks) \in Int
  BY DEF IInv, TypeOK
<1>4. TypeOK'
  <2>1. task[s] \in 1..NTasks
    BY <1>2, <1>3
  <2> QED BY <1>1, <2>1 DEF IInv, TypeOK
<1>5. \A r, t \in In("busy") : task[r] = task[t] => r = t
  BY DEF IInv, TasksConserved
<1>6. Executing' = Executing \ {task[s]}
  BY <1>1, <1>5 DEF Executing
<1>7. SleepCountExact' /\ NoLostWakeup'
  BY <1>1 DEF IInv, SleepCountExact, NoLostWakeup
<1>8. TasksConserved'
  <2>1. Executing' \cup done' = Executing \cup done /\ Executing' \cap done' = {}
    BY <1>2, <1>6 DEF IInv, TasksConserved
  <2>2. \A r, t \in In("busy")' : task'[r] = task'[t] => r = t
    BY <1>1, <1>5
  <2> QED BY <2>1, <2>2 DEF IInv, TasksConserved
<1>9. /\ MainPhase' /\ mainPc \notin {"start", "done"}
      /\ mainPc' = "join" =>
            \A r \in Slavers : r < joinIdx' => pc'[r] = "exited"
  BY WorkerPhase DEF PcStates
<1>10. ExitedAfterDrain'
  BY <1>1, <1>9 DEF IInv, ExitedAfterDrain
<1> QED BY <1>2, <1>4, <1>6, <1>7, <1>8, <1>9, <1>10 DEF IInv

\* A spurious wakeup only adds a worker that will look at the queue.
LEMMA SpuriousInductive ==
    ASSUME IInv, NEW s \in Slavers, SpuriousWakeup(s)
    PROVE  IInv'
<1> USE DEF SpuriousWakeup
<1>1. /\ pc' \in [Slavers -> PcStates]
      /\ In("exited")' = In("exited") /\ In("busy")' = In("busy")
      /\ Asleep' = Asleep
      /\ In("woken")' = In("woken") \cup {s} /\ s \notin In("woken")
      /\ s \in In("waiting") /\ In("woken") \in SUBSET Slavers
  BY DEF IInv, TypeOK, PcStates, In, Asleep
<1>2. TypeOK' /\ SleepCountExact' /\ TasksConserved'
  <2>1. TypeOK'
    BY <1>1 DEF IInv, TypeOK
  <2>2. SleepCountExact'
    BY <1>1 DEF IInv, SleepCountExact, Asleep
  <2>3. TasksConserved'
    BY <1>1, BusyUnchanged DEF IInv, TasksConserved
  <2> QED BY <2>1, <2>2, <2>3
<1>3. NoLostWakeup'
  <2>1. Cardinality(In("woken")') = Cardinality(In("woken")) + 1
    BY <1>1, OneMore
  <2>2. Len(_tasks') <= Cardinality(In("woken"))
    BY <1>1 DEF IInv, NoLostWakeup
  <2>3. mainPc' \notin {"join", "done"}
    BY <1>1 DEF IInv, NoLostWakeup
  <2>4. Len(_tasks') <= Cardinality(In("woken")')
    BY <2>1, <2>2, CountsTyped DEF IInv, TypeOK
  <2> QED BY <2>3, <2>4 DEF NoLostWakeup
<1>4. /\ MainPhase' /\ mainPc \notin {"start", "done"}
      /\ mainPc' = "join" =>
            \A r \in Slavers : r < joinIdx' => pc'[r] = "exited"
  BY WorkerPhase DEF PcStates
<1>5. ExitedAfterDrain'
  BY <1>1, <1>4 DEF IInv, ExitedAfterDrain
<1> QED BY <1>2, <1>3, <1>4, <1>5 DEF IInv

\* Every step of main and of the workers keeps the inductive invariant.
LEMMA NextInductive ==
    ASSUME IInv, [Next]_vars
    PROVE  IInv'
<1>1. CASE UNCHANGED vars
  BY <1>1 DEF vars, IInv, TypeOK, SleepCountExact, NoLostWakeup, TasksConserved,
      MainPhase, ExitedAfterDrain, In, Executing
<1>2. CASE MainStep
  BY <1>2, StartInductive, CreateInductive, EnqueueInductive, StopInductive,
     JoinInductive DEF MainStep
<1>3. CASE \E s \in Slavers : WorkerStep(s) \/ SpuriousWakeup(s)
  BY <1>3, SleepInductive, ExitInductive, TakeInductive, ExecuteInductive,
     SpuriousInductive DEF WorkerStep
<1> QED BY <1>1, <1>2, <1>3 DEF Next

\* The inductive invariant holds throughout.
THEOREM Invariance == Spec => []IInv
<1>1. Init => IInv
  BY InitInductive
<1>2. IInv /\ [Next]_vars => IInv'
  BY NextInductive
<1> QED BY <1>1, <1>2, PTL DEF Spec

\* Every variable keeps its type, whatever the size of the pool.
THEOREM TypeCorrect == Spec => []TypeOK
BY Invariance, PTL DEF IInv

\* Enqueue and Stop wake a sleeper whenever one is needed.
THEOREM WakeupsKept == Spec => []NoLostWakeup
BY Invariance, PTL DEF IInv

\* The count that decides whether to signal is exact.
THEOREM SleepersCounted == Spec => []SleepCountExact
BY Invariance, PTL DEF IInv

\* Each enqueued task is in the queue, in one worker's hands, or done.
THEOREM NoTaskLost == Spec => []TasksConserved
BY Invariance, PTL DEF IInv

\* When Wait returns, every worker has left, and none leaves tasks behind.
LEMMA DrainedWhenDone ==
    ASSUME IInv, \A s \in Slavers : pc[s] = "exited", mainPc \in {"join", "done"}
    PROVE  _tasks = <<>> /\ Executing = {} /\ done = 1..enqueued /\ enqueued = NTasks
<1>1. In("exited") # {} /\ In("busy") = {}
  BY DEF In, Slavers
<1>2. _tasks = <<>> /\ enqueued = NTasks
  BY <1>1 DEF IInv, ExitedAfterDrain, MainPhase
<1>3. Executing = {}
  BY <1>1 DEF Executing
<1>4. Executing \cup done = 1..(enqueued - Len(_tasks))
  BY DEF IInv, TasksConserved
<1> QED BY <1>2, <1>3, <1>4

\* When Wait returns, every enqueued task has been executed.
THEOREM WaitComplete == Spec => []WaitDrains
<1>1. IInv => WaitDrains
  <2> SUFFICES ASSUME IInv, mainPc = "done" PROVE done = 1..NTasks
    BY DEF WaitDrains
  <2>1. \A s \in Slavers : pc[s] = "exited"
    BY DEF IInv, ExitedAfterDrain
  <2> QED BY <2>1, DrainedWhenDone
<1> QED BY <1>1, Invariance, PTL

-----------------------------------------------------------------------------
(* What the return of Wait needs besides fairness.                         *)

\* Every worker gets its attempt at a thread before main goes on.
LEMMA AllCreatedInductive ==
    ASSUME IInv, AllCreated, [Next]_vars
    PROVE  AllCreated'
<1> USE DEF AllCreated
<1>1. /\ pc \in [Slavers -> PcStates] /\ joinIdx \in 1..(SlaverNum + 1)
      /\ mainPc = "create" => \A s \in Slavers : s < joinIdx => pc[s] # "new"
  BY DEF IInv, TypeOK
<1>2. CASE UNCHANGED vars
  BY <1>2 DEF vars
<1>3. CASE Start
  BY <1>3 DEF Start, IInv, MainPhase, TypeOK, Slavers
<1>4. CASE CreateSlaver
  BY <1>1, <1>4 DEF CreateSlaver, Slavers
<1>5. CASE Enqueue
  BY <1>1, <1>5 DEF Enqueue, Signal, In
<1>6. CASE Stop
  BY <1>1, <1>6 DEF Stop, Broadcast
<1>7. CASE Join
  BY <1>7 DEF Join
<1>8. ASSUME NEW s \in Slavers, WorkerStep(s) \/ SpuriousWakeup(s)
      PROVE  AllCreated'
  BY <1>1, <1>8 DEF WorkerStep, Sleep, Exit, Take, Execute, SpuriousWakeup
<1> QED BY <1>2, <1>3, <1>4, <1>5, <1>6, <1>7, <1>8 DEF Next, MainStep

\* Wait never joins a worker that cannot move.
THEOREM WaitersCanGo == Spec => []WaitNotStuck
<1>1. Init => AllCreated
  BY DEF Init, AllCreated
<1>2. IInv /\ AllCreated /\ [Next]_vars => AllCreated'
  BY AllCreatedInductive
<1>3. IInv /\ AllCreated => WaitNotStuck
  <2> SUFFICES ASSUME IInv, AllCreated, mainPc = "join", joinIdx <= SlaverNum
               PROVE  /\ ~_isrunning
                      /\ pc[joinIdx] \in PcStates \ {"new", "waiting"}
    BY DEF WaitNotStuck, PcStates
  <2>1. joinIdx \in Slavers /\ pc[joinIdx] \in PcStates /\ In("waiting") = {}
    BY DEF IInv, TypeOK, NoLostWakeup, Slavers
  <2> QED BY <2>1 DEF AllCreated, IInv, MainPhase, In
<1> QED BY <1>1, <1>2, <1>3, Invariance, PTL DEF Spec

\* The parts of WorkLeft are natural numbers.
WorkIsNatural ==
    /\ Len(_tasks) \in Nat
    /\ Cardinality(In("busy")) \in Nat
    /\ Cardinality(Slavers \ In("exited")) \in Nat
    /\ SlaverNum + 1 - joinIdx \in Nat
    /\ joinIdx \in Nat
    /\ WorkLeft \in Nat

LEMMA WorkTyped == IInv => WorkIsNatural
<1> SUFFICES ASSUME IInv PROVE WorkIsNatural
  OBVIOUS
<1>1. In("busy") \in SUBSET Slavers /\ Slavers \ In("exited") \in SUBSET Slavers
  BY DEF In
<1>2. /\ Len(_tasks) \in Nat
      /\ Cardinality(In("busy")) \in Nat
      /\ Cardinality(Slavers \ In("exited")) \in Nat
      /\ SlaverNum + 1 - joinIdx \in Nat
      /\ joinIdx \in Nat
  BY <1>1, WorkerSet DEF IInv, TypeOK
<1> QED BY <1>2 DEF WorkIsNatural, WorkLeft

\* The same of the next state.
LEMMA WorkTypedNext == IInv' => WorkIsNatural'
BY WorkTyped, PTL

\* A worker's step does some of the work: a task is taken or executed, or the worker
\* leaves.
LEMMA WorkDone ==
    ASSUME IInv, IInv', mainPc = "join", NEW s \in Slavers, WorkerStep(s)
    PROVE  WorkLeft' < WorkLeft
<1> DEFINE busy == Cardinality(In("busy"))
           present == Cardinality(Slavers \ In("exited"))
           rest == SlaverNum + 1 - joinIdx
<1>1. pc \in [Slavers -> PcStates] /\ ~_isrunning /\ In("busy") \in SUBSET Slavers
  BY DEF IInv, TypeOK, MainPhase, In
<1>2. /\ Len(_tasks) \in Nat /\ busy \in Nat /\ present \in Nat /\ rest \in Nat
      /\ WorkLeft = 2 * Len(_tasks) + busy + present + rest
      /\ WorkLeft' = 2 * Len(_tasks)' + busy' + present' + rest'
  BY WorkTyped DEF WorkIsNatural, WorkLeft
<1>3. rest' = rest
  BY DEF WorkerStep, Sleep, Exit, Take, Execute
<1>4. CASE Exit(s)
  <2>1. In("busy")' = In("busy") /\ UNCHANGED _tasks
    BY <1>1, <1>4 DEF Exit, In
  <2>2. /\ (Slavers \ In("exited"))' = (Slavers \ In("exited")) \ {s}
        /\ s \in Slavers \ In("exited")
    BY <1>1, <1>4 DEF Exit, In
  <2>3. present' = present - 1 /\ busy' = busy /\ Len(_tasks)' = Len(_tasks)
    BY <2>1, <2>2, OneFewer
  <2> QED BY <1>2, <1>3, <2>3
<1>5. CASE Take(s)
  <2>1. /\ Len(_tasks)' = Len(_tasks) - 1
        /\ In("busy")' = In("busy") \cup {s} /\ s \notin In("busy")
    BY <1>5, TakeConserves
  <2>2. In("exited")' = In("exited")
    BY <1>1, <1>5 DEF Take, In
  <2>3. busy' = busy + 1 /\ present' = present
    BY <1>1, <2>1, <2>2, OneMore
  <2> QED BY <1>2, <1>3, <2>1, <2>3
<1>6. CASE Execute(s)
  <2>1. /\ In("busy")' = In("busy") \ {s} /\ s \in In("busy")
        /\ In("exited")' = In("exited") /\ UNCHANGED _tasks
    BY <1>1, <1>6 DEF Execute, In
  <2>2. busy' = busy - 1 /\ present' = present /\ Len(_tasks)' = Len(_tasks)
    BY <1>1, <2>1, OneFewer
  <2> QED BY <1>2, <1>3, <2>2
<1>7. ~Sleep(s)
  BY <1>1 DEF Sleep
<1> QED BY <1>4, <1>5, <1>6, <1>7 DEF WorkerStep

\* Wait passes a worker: one worker fewer is left.
LEMMA JoinDone ==
    ASSUME IInv, IInv', Join, mainPc' = "join"
    PROVE  WorkLeft' < WorkLeft
<1> DEFINE work == 2 * Len(_tasks) + Cardinality(In("busy"))
                     + Cardinality(Slavers \ In("exited"))
<1>1. joinIdx' = joinIdx + 1 /\ UNCHANGED <<_tasks, pc>>
  BY DEF Join
<1>2. work' = work
  BY <1>1 DEF In
<1>3. work \in Nat /\ joinIdx \in Nat
  BY WorkTyped DEF WorkIsNatural
<1>4. /\ WorkLeft = work + (SlaverNum + 1 - joinIdx)
      /\ WorkLeft' = work' + (SlaverNum + 1 - joinIdx')
  BY DEF WorkLeft
<1> HIDE DEF work
<1> QED BY <1>1, <1>2, <1>3, <1>4

\* While Wait joins, no step is idle: the work left shrinks until it returns.
THEOREM WaitTerminates == Spec => WaitGetsCloser
<1>1. ASSUME IInv, IInv', [Next]_vars
      PROVE  [mainPc = "join" /\ mainPc' = "join" =>
                 WorkLeft' \in Nat /\ WorkLeft' < WorkLeft]_vars
  <2> SUFFICES ASSUME Next, mainPc = "join", mainPc' = "join"
               PROVE  WorkLeft' < WorkLeft
    BY <1>1, WorkTypedNext DEF WorkIsNatural
  <2>1. MainStep => Join
    BY DEF MainStep, Start, CreateSlaver, Enqueue, Stop
  <2>2. ASSUME NEW s \in Slavers
        PROVE  ~SpuriousWakeup(s)
    BY <1>1 DEF IInv, NoLostWakeup, SpuriousWakeup, In
  <2> QED BY <1>1, <2>1, <2>2, WorkDone, JoinDone DEF Next
<1> QED BY <1>1, Invariance, PTL DEF Spec, WaitGetsCloser

-----------------------------------------------------------------------------
(* Refinement.                                                             *)

\* The state of TaskPool that main's progress stands for.
PoolState == CASE mainPc = "join" \/ mainPc = "undefined" -> "closed"
               [] mainPc = "done" -> "finished"
               [] OTHER -> "open"

\* Every step of the thread pool is a step of TaskPool or none at all.
LEMMA StepSimulation ==
    ASSUME IInv, IInv', [Next]_vars
    PROVE  [Pool!Next]_(Pool!poolVars)
<1> DEFINE Same == UNCHANGED <<enqueued, _tasks, Executing, done, PoolState>>
<1> USE DEF Pool!poolVars, PoolState
<1>1. CASE UNCHANGED vars
  BY <1>1 DEF vars, Executing, In
<1>2. CASE Start
  BY <1>2 DEF Start, Executing, In
<1>3. CASE CreateSlaver
  <2>1. In("busy")' = In("busy")
    BY <1>3 DEF CreateSlaver, In, IInv, TypeOK, MainPhase, Slavers
  <2> QED BY <1>3, <2>1, BusyUnchanged DEF CreateSlaver
<1>4. CASE Enqueue
  <2>1. In("busy")' = In("busy")
    BY <1>4 DEF Enqueue, Signal, In, IInv, TypeOK
  <2> QED BY <1>4, <2>1, BusyUnchanged DEF Enqueue, Pool!Next, Pool!Submit
<1>5. CASE Stop
  <2>1. In("busy")' = In("busy")
    BY <1>5 DEF Stop, Broadcast, In, IInv, TypeOK
  <2> QED BY <1>5, <2>1, BusyUnchanged DEF Stop, Pool!Next, Pool!Close
<1>6. CASE Join
  <2>1. Executing' = Executing
    BY <1>6 DEF Join, Executing, In
  <2>2. CASE mainPc' = "done"
    <3>1. \A s \in Slavers : pc[s] = "exited"
      BY <1>6, <2>2 DEF Join, IInv, ExitedAfterDrain
    <3>2. _tasks = <<>> /\ Executing = {} /\ done = 1..enqueued
      BY <1>6, <3>1, DrainedWhenDone DEF Join
    <3> QED BY <1>6, <2>1, <2>2, <3>2 DEF Join, Pool!Next, Pool!ReportFinished
  <2>3. CASE mainPc' # "done"
    BY <1>6, <2>1, <2>3 DEF Join
  <2> QED BY <2>2, <2>3
<1>7. ASSUME NEW s \in Slavers, Sleep(s) \/ Exit(s) \/ SpuriousWakeup(s)
      PROVE  Same
  <2>1. In("busy")' = In("busy")
    BY <1>7 DEF Sleep, Exit, SpuriousWakeup, In, IInv, TypeOK
  <2> QED BY <1>7, <2>1, BusyUnchanged DEF Sleep, Exit, SpuriousWakeup
<1>8. ASSUME NEW s \in Slavers, Take(s)
      PROVE  Pool!Begin
  <2>1. /\ Executing' = Executing \cup {Head(_tasks)}
        /\ Head(_tasks) = enqueued - Len(_tasks) + 1
    BY <1>8, TakeConserves
  <2>2. Head(_tasks) \notin Executing \cup done
    BY <2>1 DEF IInv, TasksConserved, TypeOK
  <2> QED BY <1>8, <2>1, <2>2 DEF Take, Pool!Begin
<1>9. ASSUME NEW s \in Slavers, Execute(s)
      PROVE  Pool!Complete
  <2>1. task[s] \in Executing /\ Executing' = Executing \ {task[s]}
    BY <1>9, ExecuteInductive
  <2> QED BY <1>9, <2>1 DEF Execute, Pool!Complete
<1> QED BY <1>1, <1>2, <1>3, <1>4, <1>5, <1>6, <1>7, <1>8, <1>9
        DEF Next, MainStep, WorkerStep, Pool!Next

\* The thread pool implements the abstract task pool.
THEOREM Refinement == Spec => ImplementsTaskPool
<1>1. Init => Pool!Init
  <2>1. Init => Executing = {}
    BY DEF Init, Executing, In
  <2> QED BY <2>1 DEF Init, Pool!Init
<1>2. IInv /\ IInv' /\ [Next]_vars => [Pool!Next]_(Pool!poolVars)
  BY StepSimulation
<1> QED BY <1>1, <1>2, Invariance, PTL DEF Spec, ImplementsTaskPool, Pool!Spec
=============================================================================
