------------------------------- MODULE ThreadPool -------------------------------
(***************************************************************************)
(* thread5: the pool of worker threads around one mutex and one condition  *)
(* variable, driven by Main.cc (Start, NTasks times Enqueue, Stop, Wait).  *)
(* A critical section is one step: nothing else reads or writes what it    *)
(* touches while the mutex is held.  A worker in pthread_cond_wait is      *)
(* "waiting" until a signal, a broadcast or a spurious wakeup makes it     *)
(* "woken", and then needs the mutex again.                                *)
(***************************************************************************)
EXTENDS Integers, Sequences, FiniteSets

CONSTANTS
    SlaverNum,      \* _slaver_num
    NTasks          \* how many tasks main enqueues

ASSUME PoolAssumption == SlaverNum \in Nat \ {0} /\ NTasks \in Nat

Slavers == 1..SlaverNum

VARIABLES
    _isrunning,
    _tasks,                 \* task i is the i-th enqueued
    _slavers_sleep_count,
    pc,                     \* pc[s]: where worker s is in HandlerTask
    task,                   \* task[s]: the task worker s has taken, 0 if none
    done,                   \* tasks executed
    enqueued,               \* calls of Enqueue so far
    mainPc,
    joinIdx                 \* the slave Start or Wait is at

vars == <<_isrunning, _tasks, _slavers_sleep_count, pc, task, done, enqueued,
          mainPc, joinIdx>>

PcStates == {"new", "failed", "ready", "waiting", "woken", "busy", "exited"}

In(state) == {s \in Slavers : pc[s] = state}

\* ThreadPool(): the Thread objects exist, no thread runs.
Init ==
    /\ _isrunning = FALSE
    /\ _tasks = <<>>
    /\ _slavers_sleep_count = 0
    /\ pc = [s \in Slavers |-> "new"]
    /\ task = [s \in Slavers |-> 0]
    /\ done = {}
    /\ enqueued = 0
    /\ mainPc = "start"
    /\ joinIdx = 1

-----------------------------------------------------------------------------
(* The main thread.                                                        *)

Start ==
    /\ mainPc = "start"
    /\ _isrunning' = TRUE
    /\ mainPc' = "create"
    /\ UNCHANGED <<_tasks, _slavers_sleep_count, pc, task, done, enqueued, joinIdx>>

\* Thread::Start(): pthread_create may fail, and Start() ignores that.
CreateSlaver ==
    /\ mainPc = "create"
    /\ \/ /\ joinIdx <= SlaverNum
          /\ \E p \in {"ready", "failed"} : pc' = [pc EXCEPT ![joinIdx] = p]
          /\ joinIdx' = joinIdx + 1
          /\ UNCHANGED mainPc
       \/ /\ joinIdx > SlaverNum
          /\ mainPc' = "enqueue"
          /\ joinIdx' = 1
          /\ UNCHANGED pc
    /\ UNCHANGED <<_isrunning, _tasks, _slavers_sleep_count, task, done, enqueued>>

\* pthread_cond_signal: one waiting thread, if there is one.
Signal ==
    \/ /\ In("waiting") = {}
       /\ UNCHANGED pc
    \/ \E s \in In("waiting") : pc' = [pc EXCEPT ![s] = "woken"]

Broadcast == pc' = [s \in Slavers |-> IF pc[s] = "waiting" THEN "woken" ELSE pc[s]]

Enqueue ==
    /\ mainPc = "enqueue"
    /\ enqueued < NTasks
    /\ enqueued' = enqueued + 1
    /\ _tasks' = Append(_tasks, enqueued + 1)
    /\ \/ _slavers_sleep_count > 0 /\ Signal
       \/ _slavers_sleep_count <= 0 /\ UNCHANGED pc
    /\ UNCHANGED <<_isrunning, _slavers_sleep_count, task, done, mainPc, joinIdx>>

\* Fault: Stop wakes one worker instead of all.
Stop_SignalsOne ==
    /\ mainPc = "enqueue"
    /\ enqueued = NTasks
    /\ _isrunning' = FALSE
    /\ Signal
    /\ mainPc' = "join"
    /\ UNCHANGED <<_tasks, _slavers_sleep_count, task, done, enqueued, joinIdx>>

\* Fault: Stop wakes nobody.
Stop_Silent ==
    /\ mainPc = "enqueue"
    /\ enqueued = NTasks
    /\ _isrunning' = FALSE
    /\ mainPc' = "join"
    /\ UNCHANGED <<_tasks, _slavers_sleep_count, pc, task, done, enqueued, joinIdx>>

Stop ==
    /\ mainPc = "enqueue"
    /\ enqueued = NTasks
    /\ _isrunning' = FALSE
    /\ \/ _slavers_sleep_count > 0 /\ Broadcast
       \/ _slavers_sleep_count <= 0 /\ UNCHANGED pc
    /\ mainPc' = "join"
    /\ UNCHANGED <<_tasks, _slavers_sleep_count, task, done, enqueued, joinIdx>>

\* Wait(): Thread::Join() on each slave in order.  Joining a thread that was
\* never created uses an invalid pthread_t, which is undefined behaviour.
Join ==
    /\ mainPc = "join"
    /\ \/ /\ joinIdx <= SlaverNum
          /\ pc[joinIdx] = "exited"
          /\ joinIdx' = joinIdx + 1
          /\ UNCHANGED mainPc
       \/ /\ joinIdx <= SlaverNum
          /\ pc[joinIdx] = "failed"
          /\ mainPc' = "undefined"
          /\ UNCHANGED joinIdx
       \/ /\ joinIdx > SlaverNum
          /\ mainPc' = "done"
          /\ UNCHANGED joinIdx
    /\ UNCHANGED <<_isrunning, _tasks, _slavers_sleep_count, pc, task, done, enqueued>>

MainStep == Start \/ CreateSlaver \/ Enqueue \/ Stop \/ Join

-----------------------------------------------------------------------------
(* A worker: HandlerTask.                                                  *)

\* _slavers_sleep_count once s holds the mutex: a thread back from Wait takes
\* itself off the count first.
AwakeCount(s) ==
    _slavers_sleep_count - (IF pc[s] = "woken" THEN 1 ELSE 0)

\* The wait loop: no task and the pool runs.
Sleep(s) ==
    /\ pc[s] \in {"ready", "woken"}
    /\ _tasks = <<>> /\ _isrunning
    /\ pc' = [pc EXCEPT ![s] = "waiting"]
    /\ _slavers_sleep_count' = AwakeCount(s) + 1
    /\ UNCHANGED <<_isrunning, _tasks, task, done, enqueued, mainPc, joinIdx>>

\* The break: no task and the pool has been stopped.
Exit(s) ==
    /\ pc[s] \in {"ready", "woken"}
    /\ ~_isrunning /\ _tasks = <<>>
    /\ pc' = [pc EXCEPT ![s] = "exited"]
    /\ _slavers_sleep_count' = AwakeCount(s)
    /\ UNCHANGED <<_isrunning, _tasks, task, done, enqueued, mainPc, joinIdx>>

\* Fault: the pop after front() is missing.
Take_NoPop(s) ==
    /\ pc[s] \in {"ready", "woken"}
    /\ _tasks # <<>>
    /\ task' = [task EXCEPT ![s] = Head(_tasks)]
    /\ pc' = [pc EXCEPT ![s] = "busy"]
    /\ _slavers_sleep_count' = AwakeCount(s)
    /\ UNCHANGED <<_isrunning, _tasks, done, enqueued, mainPc, joinIdx>>

\* Fault: the newest task is taken first.
Take_Newest(s) ==
    /\ pc[s] \in {"ready", "woken"}
    /\ _tasks # <<>>
    /\ task' = [task EXCEPT ![s] = _tasks[Len(_tasks)]]
    /\ _tasks' = SubSeq(_tasks, 1, Len(_tasks) - 1)
    /\ pc' = [pc EXCEPT ![s] = "busy"]
    /\ _slavers_sleep_count' = AwakeCount(s)
    /\ UNCHANGED <<_isrunning, done, enqueued, mainPc, joinIdx>>

Take(s) ==
    /\ pc[s] \in {"ready", "woken"}
    /\ _tasks # <<>>
    /\ task' = [task EXCEPT ![s] = Head(_tasks)]
    /\ _tasks' = Tail(_tasks)
    /\ pc' = [pc EXCEPT ![s] = "busy"]
    /\ _slavers_sleep_count' = AwakeCount(s)
    /\ UNCHANGED <<_isrunning, done, enqueued, mainPc, joinIdx>>

\* task() outside the lock.
Execute(s) ==
    /\ pc[s] = "busy"
    /\ done' = done \cup {task[s]}
    /\ task' = [task EXCEPT ![s] = 0]
    /\ pc' = [pc EXCEPT ![s] = "ready"]
    /\ UNCHANGED <<_isrunning, _tasks, _slavers_sleep_count, enqueued, mainPc, joinIdx>>

WorkerStep(s) == Sleep(s) \/ Exit(s) \/ Take(s) \/ Execute(s)

\* pthread_cond_wait may return without a signal.
SpuriousWakeup(s) ==
    /\ pc[s] = "waiting"
    /\ pc' = [pc EXCEPT ![s] = "woken"]
    /\ UNCHANGED <<_isrunning, _tasks, _slavers_sleep_count, task, done,
                   enqueued, mainPc, joinIdx>>

Next ==
    /\ mainPc # "undefined"
    /\ \/ MainStep
       \/ \E s \in Slavers : WorkerStep(s) \/ SpuriousWakeup(s)

Spec == Init /\ [][Next]_vars

\* Main and every worker keep running: main's loop is bounded, the tasks
\* terminate, and the mutex is always released.
FairSpec ==
    /\ Spec
    /\ WF_vars(MainStep)
    /\ \A s \in Slavers : WF_vars(mainPc # "undefined" /\ WorkerStep(s))

-----------------------------------------------------------------------------
TypeOK ==
    /\ _isrunning \in BOOLEAN
    /\ _tasks \in Seq(1..NTasks)
    /\ _slavers_sleep_count \in 0..SlaverNum
    /\ pc \in [Slavers -> PcStates]
    /\ task \in [Slavers -> 0..NTasks]
    /\ done \subseteq 1..NTasks
    /\ enqueued \in 0..NTasks
    /\ mainPc \in {"start", "create", "enqueue", "join", "done", "undefined"}
    /\ joinIdx \in 1..(SlaverNum + 1)

\* The sleep count is the number of workers inside Wait, woken ones included
\* (ThreadPool.hpp:32-34): a signal is never skipped while somebody sleeps.
SleepCountExact ==
    _slavers_sleep_count = Cardinality(In("waiting") \cup In("woken"))

\* While a worker stays asleep, every queued task has a worker that was woken and
\* has not looked at the queue yet (ThreadPool.hpp:30-35, 100-104); once the pool
\* is stopped nobody stays asleep (80-87).
NoLostWakeup ==
    /\ In("waiting") # {} => Len(_tasks) <= Cardinality(In("woken"))
    /\ mainPc \in {"join", "done"} => In("waiting") = {}

Executing == {task[s] : s \in In("busy")}

\* No task is lost or executed twice (ThreadPool.hpp:43-48, 97-106): what left the
\* queue is in the hands of exactly one worker or done, and the queue is the
\* uninterrupted rest, in order.
TasksConserved ==
    /\ \A i \in 1..Len(_tasks) : _tasks[i] = enqueued - Len(_tasks) + i
    /\ Executing \cup done = 1..(enqueued - Len(_tasks))
    /\ Executing \cap done = {}
    /\ \A s, t \in In("busy") : task[s] = task[t] => s = t

\* When Wait() returns, everything that was enqueued has been executed
\* (ThreadPool.hpp:38-41, 80-95).
WaitDrains == mainPc = "done" => done = 1..NTasks

\* Unless a thread could not be created, Wait() returns (ThreadPool.hpp:89-95).
WaitReturns ==
    (mainPc = "join" /\ In("failed") = {}) ~> mainPc = "done"

\* What Wait() joins has exited or failed, or can move: nobody it waits for sleeps,
\* and a worker that is awake finds a task or the way out (ThreadPool.hpp:36-45).
WaitNotStuck ==
    mainPc = "join" /\ joinIdx <= SlaverNum =>
       \/ pc[joinIdx] \in {"exited", "failed", "busy"}
       \/ pc[joinIdx] \in {"ready", "woken"} /\ (_tasks # <<>> \/ ~_isrunning)

\* The steps between here and the return of Wait(), at most.
WorkLeft ==
    2 * Len(_tasks) + Cardinality(In("busy")) + Cardinality(Slavers \ In("exited"))
      + (SlaverNum + 1 - joinIdx)

\* While Wait() joins, every step of any thread brings its return closer: nobody goes
\* back to sleep and no task comes in (ThreadPool.hpp:80-95).
WaitGetsCloser ==
    [][mainPc = "join" /\ mainPc' = "join" =>
          WorkLeft' \in Nat /\ WorkLeft' < WorkLeft]_vars

\* The pool seen as TaskPool.
Pool == INSTANCE TaskPool WITH
    submitted <- enqueued,
    queue <- _tasks,
    executing <- Executing,
    state <- CASE mainPc = "join" \/ mainPc = "undefined" -> "closed"
               [] mainPc = "done" -> "finished"
               [] OTHER -> "open"

ImplementsTaskPool == Pool!Spec

-----------------------------------------------------------------------------
(* The facts that make the invariants above inductive.                     *)

\* How far main is tells the flag, the number of tasks and which threads exist.
MainPhase ==
    /\ _isrunning <=> mainPc \in {"create", "enqueue"}
    /\ mainPc \in {"join", "done", "undefined"} => enqueued = NTasks
    /\ mainPc = "enqueue" => joinIdx = 1
    /\ mainPc = "start" => \A s \in Slavers : pc[s] = "new"
    /\ mainPc = "create" => \A s \in Slavers : s >= joinIdx => pc[s] = "new"

\* A worker only exits from an empty, stopped pool, and Wait has seen every
\* worker before joinIdx exit.
ExitedAfterDrain ==
    /\ In("exited") # {} =>
          _tasks = <<>> /\ mainPc \in {"join", "done", "undefined"}
    /\ mainPc = "join" => \A s \in Slavers : s < joinIdx => pc[s] = "exited"
    /\ mainPc = "done" => \A s \in Slavers : pc[s] = "exited"

\* Start() leaves no worker without its attempt at a thread.
AllCreated ==
    /\ mainPc = "start" => joinIdx = 1
    /\ mainPc = "create" => \A s \in Slavers : s < joinIdx => pc[s] # "new"
    /\ mainPc \in {"enqueue", "join"} => \A s \in Slavers : pc[s] # "new"

IInv ==
    /\ TypeOK
    /\ SleepCountExact
    /\ NoLostWakeup
    /\ TasksConserved
    /\ MainPhase
    /\ ExitedAfterDrain
=============================================================================
