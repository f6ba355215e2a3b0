# A TLA+ model of study-code

`study-code` is a collection of C++ programs for Linux: an epoll/poll/select TCP
server, a small HTTP server with sessions, forking and threading TCP servers, a UDP
echo server, a thread pool, a ring queue, a blocking queue, and shorter exercises. The programs
share no code at run time. Each one with a protocol of its own is modelled here by
its own module; this file says what the parts are, how the modules correspond to
them, what TLC checks on small instances and what TLAPS proves for all sizes.

Paths below are relative to `src/`.

## 1. Inventory

### 1.1 Project_TCPServer_Plus: the multiplexing TCP server

| Part | State | Operations |
|---|---|---|
| main thread (`main.cpp`) | `g_connections`, a list of `shared_ptr<Connection>` | accept, make the Connection, `addConnection`, then a sweep that erases CLOSED connections |
| `Connection` | `m_status`, `m_clientfd` | `readData`, `sendData`, `closeConnection`, destructor |
| `EpollLoop` | the kernel's epoll set, `m_connections`, the batch of events | `addConnection`, `run` |
| `PollLoop` | `m_pollFds`, `m_connections`, a copy of both | `addConnection`, `run` |
| `SelectLoop` | `m_readFds`, `m_maxFd`, `m_connections` | `addConnection`, `run` |
| `TcpSocket`, `Utils`, `Thread`, `Logger` | none that another part reads | socket calls, detached thread, log lines |

Two threads share the Connection objects: main creates and destroys them, the loop
thread reads, replies and closes. The reactors' containers are guarded by a mutex;
`m_status`, `m_clientfd` and `g_connections` are not. Three things make this hard:

* **Descriptor reuse.** `close()` frees a number that the next `accept()`, in the
  other thread, hands out again. Whatever still names the old number, a registered
  pointer, a vector entry, a second `close()`, then names another client.
* **Object lifetime.** The loop thread works with raw pointers taken in a batch;
  main frees an object as soon as it reads CLOSED.
* **The network.** Data, FIN and RST arrive at any point; `send()` may fail or
  raise SIGPIPE; `accept()` may fail; `epoll_ctl()` may fail and nobody looks.

Correct means: every descriptor has one owner and is given back; no client is closed
or answered in another one's place; no event reaches a destroyed or foreign
connection; what a served client sends is read, unless an answer to it cannot be sent.

### 1.2 thread5: the thread pool

One mutex, one condition variable, a task queue, `_isrunning` and
`_slavers_sleep_count`. `Start` creates the workers, `Enqueue` pushes a task and
signals if somebody sleeps, `Stop` clears the flag and broadcasts, `Wait` joins.
A worker (`HandlerTask`) waits while there is no task and the pool runs, exits when
there is none and it does not, and otherwise takes a task and executes it unlocked.
Hard: the signal is skipped according to a counter; a stop races sleeping workers;
waits may return without a signal; a thread may fail to start. Correct means: no
wakeup is lost, every task is executed once, and `Wait` returns, with nothing left.

### 1.3 thread4: the ring queue

A vector, two positions, two semaphores and *two* mutexes, one per side. A producer
and a consumer are inside at the same time, and a thread waits on a semaphore while
it holds its mutex. Correct means: no slot is overwritten before it is read or read
while it is written, order is kept, and the two sides never block each other for good.

### 1.4 thread3: the blocking queue

One mutex, two condition variables, two counts of sleepers. The wait stands in an
`if`, not in a `while`: a woken thread does not look again. Correct would mean: never
more than `_cap` items, never a `pop()` from the empty queue, no lost wakeup.

### 1.5 http-server-cpp: pages, sessions, cookies

One thread accepts, reads one request, answers and closes. `SessionManager` keeps
`sessions_` (id, user, `expireTime`); the id, made of the second and of digits seeded by
`random_device`, travels in a cookie with Max-Age. Hard: the clock moves between the check and the use of a session; an answer that carries a
new id may be lost; a request may be cut; the pool does not survive a restart, the browsers' cookies do.
Correct means: two browsers never share a session, a cookie is not dropped before its
session ends, a session ends for its stated reasons only, and whoever asks is answered.

### 1.6 TCP2fork and TCP3pthread: one process, one thread per client

*TCP2fork*: the parent accepts and forks, both close what is not theirs, and a SIGCHLD
handler reaps in a loop. Hard: SIGCHLD does not queue; each socket is open in two
processes; `fork()` may fail. Correct means: no zombie is forgotten, every inherited descriptor is
closed, a client that waits is answered and sees the end of the connection.

*TCP3pthread*: main accepts, copies the descriptor into a heap cell and starts a
detached thread that reads it. Hard: the thread may look long after main has accepted
others; numbers are reused; `pthread_create` may fail. Correct means: every thread
serves its own client and no descriptor is lost.

Both promise the same to a client: it is heard and answered once, and its connection
ends after that.

### 1.7 echo_server: UDP request and echo

The server reads a datagram, puts a prefix before it and sends it back; the client
sends a line and waits for a datagram, any datagram, then asks for the next line.
Neither keeps a number, a timeout or a retry. Hard: datagrams are lost, overtake one
another and come twice; the server may die with requests in its socket; an empty line
is sent but not waited for. Correct means: a client is shown the echo of the line it
waits for, and is answered if nothing was lost.

### 1.8 The rest

| Part | Why it is not modelled |
|---|---|
| `UDP1`, `echo_server2` | `UDP1` is one request with a fixed answer, a special case of `echo_server`; the server of `echo_server2` is unfinished and never answers |
| `thread1` | two printers alternating on one condition variable, with a `while` around the wait; the pattern is the pool's and the queues' |
| `thread2` | one counter under one mutex |
| `TCP1` | one client, one message, then exit |
| `EchoTcpServer`, `NetCal` | unfinished; the first does not compile (`EchoTcpServer.hpp:127`) |
| `pipe`, `pipe2`, `11_17` | the process pool has no dispatch loop; of the named pipe, one writer and one reader that open, copy and close, all that is left is the kernel's own protocol |
| `shm`, `11_18` | two processes on one segment without any synchronisation |
| `signal`, `pid`, `process`, `IO`, `pthread`, `thread`, `11_20`, `11_21`, `11_24`, `11_26` | single library calls tried out |
| `Logger` (five copies and one of the TCP server) | formatting and output |

## 2. The modules and the code

| Module | Models | With |
|---|---|---|
| `ConnServer` | main thread, `Connection`, kernel sockets and descriptors | extended by the three reactors; `RequestService` (abstract) |
| `EpollServer`, `PollServer`, `SelectServer` | `ConnServer` composed with one reactor each | `TcpServerProofs` |
| `ThreadPool` | thread5 | `TaskPool` (abstract), `ThreadPoolProofs` |
| `RingQueue` | thread4 | `BoundedFifo` (abstract), `RingQueueProofs` |
| `BlockQueue` | thread3 | `BoundedFifo` (abstract), `BlockQueueProofs` |
| `SessionServer` | http-server-cpp | `SessionStore` (abstract), `SessionServerProofs` |
| `ForkServer`, `ThreadServer` | TCP2fork, TCP3pthread | `OneAnswer` (abstract), `ForkServerProofs`, `ThreadServerProofs` |
| `UdpEcho` | echo_server | `UdpEchoProofs` |

Variables carry the names of the code where there is one (`m_status`, `_tasks`,
`sessions_`). A definition whose comment begins with **Fault:** is not part of any
specification: it is the form the definition after it would have with a plausible bug
in it, and is kept to test that the properties can fail.

**Grain.** A step ends where another thread, process or machine can see or change
what comes next. Under a mutex that is the whole critical section (`ThreadPool`,
`BlockQueue`; a `pthread_cond_wait` splits it into before and after). `RingQueue`,
whose sides share memory without a common lock, has one step for each lock, semaphore
operation and slot access. `closeConnection()` is three steps (the status, the
`close()`, the read of `m_clientfd` for the log), because main may act on the status
between any two of them.

**ConnServer.** A client connects at most once, so the client names its socket and
its Connection object. `fdTable` says whose socket a descriptor number denotes, and
`accept()` takes the lowest free number. `sock` tells apart what the code's calls
tell apart: an open connection, a FIN (`closeWait`), a RST before the FIN (`reset`:
`send()` returns -1) and a RST after it (`broken`: `send()` raises SIGPIPE).

`recv()`, `send()` and `close()` act on whatever socket the object's descriptor number
denotes at that moment (`Peer`), so a wrong number reads, answers or ends somebody
else; one `recv()` may leave part of what has arrived. `m_connections`, which every
reactor has and main fills, is declared here, so that what holds of it in all three is
stated and proved once (`ListedOnce`, `MainHolds`).

| Code | Action |
|---|---|
| `socket()`, `bind()`, `listen()`, whose results main does not look at | `Listen` (`deaf` if one failed) |
| `createDetach()`, which may fail, and `runloop` | `CreateLoopThread`, `LoopRuns` |
| `accept()`, `make_shared`, `push_back` | `Accept`, `AcceptFails` |
| the sweep, one list element at a time | `SweepVisit`, `SweepEnd` |
| `readData()` up to its `recv()` | `ReadData` |
| `sendData()` | `SendData` |
| `closeConnection()` | `SetClosed`, `CloseFd`, `LogClosed` |
| any access to a destroyed object | `Dangling`, `CloseDangling`: `proc = "undefined"`, and the model says nothing more |

**Reactors.** The definitions of a reactor that all three have (`EpollInit`,
`PollAddConnection`, `SelectLoopStep`) carry its name, so one module of proofs can
extend all three; all other names are the ones of `ConnServer`. `EpollServer` keeps the pointer the kernel holds for each registered
descriptor (`epollPtr`) and forgets it at `close()`, as the kernel does for a
descriptor that was never duplicated; `epoll_wait` returns at most `MaxEvents` ready
connections, dispatched in any order. `PollServer` has the two parallel vectors that
only grow, POLLNVAL for closed numbers, and the search for the first connection
with the ready number. `SelectServer` has the set nothing is removed from, EBADF,
`m_maxFd` read after the unlock, and the walk over the shared vector, whose iterators
dangle when `push_back` reallocates it (`CapacityFor`).

**RequestService** is what the server promises whatever its reactor: it attends to one
client at a time; what it reads from a client it answers once, to that client; and it
ends a connection only when the client has gone and all it sent was read, or when an
answer could not be delivered. It knows neither descriptors nor objects nor threads.
The mapping reads the duty off `loopPc`: `send` is an answer owed, `sendFailed`,
`setClosed` and `closeFd` an end owed, to `loopCur`. Main's steps, the dispatch of events and the
log line after `close()` are stutters.

**ThreadPool.** `pc[s]` says where worker `s` is: not created, failed to start, ready
for the mutex, waiting, woken (signalled or spuriously), busy, exited. `Enqueue`,
`Stop`, `Sleep`, `Take` and `Exit` are critical sections; `Execute` is the task.

**RingQueue.** `pc[t]` walks through lock, P, slot, V, unlock. The slot access and
the position move together: the position is only touched under that side's mutex.

**BlockQueue.** `WaitNotFull`/`WaitNotEmpty` end in the wait, `PushWoken`/`PopWoken`
go on from there without a second test, `PushAtOnce`/`PopAtOnce` need no wait. It is
compared with `BoundedFifo` twice: with the capacity of the code's constructor
(`ImplementsFifo`, which holds with one producer only) and with `MaxLen`, the model's
own bound (`ImplementsQueue`).

**SessionServer.** The routes are `LoginPage`, `Login`, `Logout`, `Home` (with `Greet`
for its second lookup) and `NotFound`. `generateSessionId` puts the second before digits
that follow from one value of `random_device`, so an id is a pair `[time, seed]`, where
the n-th different seed of a second is the number n, and `SeedsRepeat` says whether a
second may see one seed twice. The two clock reads of one `createSession` (the id's and
the expiry's) are one step. The pool keeps nothing but the expiry, as the user name is
the same for all. A request carries a `Cookie:` line, a set of pairs: the browser's
session id and, for the browsers in `Named`, a second cookie. `Read` is one `read()`: it
gives the request, or what comes before some place in the `Cookie:` line, or less than the
path; `parseCookies` finds nothing in a line whose end is missing (`CookieUtil.cpp:25-28`).
A request for a page the server does not have is answered like one whose path was cut, so
browsers need not send any. `Tick` is the clock: browsers drop cookies by it, the server
only compares. Cookies hold Max-Age from the moment the answer arrives. Every step
of the pool is a step of `SessionStore`, in which a session is opened, ends with its
time, with its logout or with the server, and in no other way.

**ForkServer.** `holders[k]` are the processes that have the connection open,
`listeners` those that have the listening socket open; a child inherits both.
`Deliver` starts the SIGCHLD handler, `Reap` is one round of its loop, and the
parent's own steps wait for its end. `Listen` is the constructor, which may end the
process. After `ForkFails` the parent has closed its listening socket and keeps the
connection (`Abandoned`).

**ThreadServer.** `cell[k]` is the heap cell, `fd[k]` the thread's copy. `Recv` and
`SendAnswer` act on whatever the number denotes at that moment. A client may close
(`left`: the answer is still written), close and then reset (`broken`: `send()` raises
SIGPIPE), or reset at once (`reset`: `recv()` and `send()` return -1).

**OneAnswer** takes a client through six stages, in one direction: away, taken from the
listen queue, served by somebody, heard, done, over. In `ForkServer` a connection is
over when the last process that has it open closes it, which may be the parent or the
child; in `ThreadServer` when its number is closed, whoever closes it. `HearEnd` is the
code's own: `valread < 0` is asked twice, so the end of a connection may be answered.

**UdpEcho.** A datagram carries the number of the line it is about, which the code does
not see: `Take` takes any datagram addressed to the client, and only the properties
look at the number. `Cut` is `recvfrom` with a buffer, so a long line comes back
shorter. `Enter` sends an empty line without waiting for it, `Recv` drops it. `Crash`
loses what the server had read and any part of what its socket held, `Unreachable`
what arrives while nobody has the port, `Restart` binds it again.

## 3. What TLC checks

| Run | Configuration | Shows |
|---|---|---|
| `epoll` | `epoll.cfg` | ownership of descriptors (`FdOwnership`), freshness of every undispatched event (`BatchFresh`), the refinement of `RequestService` (`ImplementsService`); what reaches a registered connection is read, unless `send()` to the same client fails first (`Served`), a departed client's descriptor is given back (`FdReleased`), a closed connection is destroyed once the next client comes (`Swept`) |
| `poll` | `poll.cfg` | the vectors stay parallel (`ListsParallel`); `ImplementsService`, although a search may land on a dead, not yet freed connection; the same of a connection on a number used for the first time (`FirstUseServed`) |
| `select` | `select.cfg` | no registered number escapes `select()` (`AllWatched`); `ImplementsService`, so an idle client is never closed; everybody is served as long as nobody leaves (`ServedIfNobodyLeaves`) |
| `pool` | `pool.cfg` | `NoLostWakeup`, `TasksConserved`; the pool implements `TaskPool`; `WaitReturns` |
| `ring` | `ring.cfg` | `SlotsAccounted`, `SlotExclusive`; the ring implements `BoundedFifo`; items keep flowing (`KeepsFlowing`) |
| `block` | `block.cfg` | `NoLostWakeup` and `KeepsFlowing`, in spite of overtaking and spurious wakeups; every item leaves once and in its order (`ImplementsQueue`) |
| `session` | `session.cfg` | two browsers never hold or send one id (`SessionsNotShared`); a browser loses the cookie of a session that goes on only by an answer of the server (`CookieOutlivesSession`, an action property); the lazily cleaned pool behaves as `SessionStore` (`ImplementsStore`); a request is answered unless its browser goes or the server dies (`RequestsAnswered`) |
| `fork` | `fork.cfg` | `NoZombieForgotten`; who has which socket open: the child until it closes, the parent between `accept()` and `close()`, and beyond that only the connection of a failed `fork()`, one at most (`DescriptorsPaired`); the server implements `OneAnswer` (`ImplementsOneAnswer`); a client that waits is answered and leaves nothing behind (`ServedAndGone`) |
| `threads` | `threads.cfg` | every thread has its own client's descriptor (`OwnDescriptor`), none is lost (`NoDescriptorLost`); a client that stays is queued, in main's or in its thread's hands, answered, or turned away and closed (`NobodyForgotten`); `ImplementsOneAnswer`; a message that is there before its thread has looked or while it waits in `recv()` is answered, unless its client resets the connection or the process is killed (`Answered`) |
| `udp` | `udp.cfg` | a client that goes on has been shown the echo of its last line unless a datagram was duplicated, and then still one of its own (`InStep`); the line it waits for is under way (`NothingVanishes`) and it is answered unless a datagram was lost or the server died (`AnsweredUnlessLost`) |
| `epoll_wild_pointer` | | **violated**: `NoWildPointer` |
| `block_capacity` | | **violated**: `CapacityKept` |

Each module also has one type invariant, `TypeOK` (`EpollTypeOK`, `PollTypeOK`,
`SelectTypeOK` for the reactors); all are part of a proved inductive invariant
(section 5), and TLC checks the one of `ring`, where the wrap-around of the positions
is in it.

### The two that are violated

* `EpollLoop.cpp:104` says that skipping CLOSED connections avoids wild pointers.
  `closeConnection()` sets CLOSED (`Connection.cpp:81`) before its last two uses of
  the object (82, 83). If another client is accepted just then, main's sweep destroys
  the object under the loop thread.
* `thread3/Main.cc:73` calls the queue one of capacity 5. A producer that arrives
  while another one is between its wakeup and the mutex takes the free place; the woken one
  pushes without looking (`BlockQueue.hpp:34`). No spurious wakeup is needed. After
  that `size() == _cap` is false for everybody and the queue is unbounded until it
  drains; the model caps it at `MaxLen`.

### Seen on the way, without a run

No line of the repository promises the contrary of these, or no checked property
depends on them. `Connection.cpp:69`: `send()` after FIN and RST raises SIGPIPE and
ends the server. `EpollLoop::m_connections` never shrinks, though `main.cpp:82-83` says
connections are removed from the loop; nothing dereferences it.
`Project_TCPServer_Plus/README.md:43` has the deletion follow the disconnect; it
follows the next accept (`Swept` says that then it does). `PollLoop.cpp:91`: for a
reused number the search finds the first, dead connection, and the new client is never
read. `SelectLoop.cpp:111`: after
the first disconnect `select()` fails with EBADF until the number is reused; `:113`:
the walk is not safe against `push_back`. `BlockQueue.hpp:51`: a woken consumer may
pop from an empty queue. `TCP2fork/tcp_server.cpp:108`: a failed `fork()` closes the
listening socket instead of the connection, which stays open for ever.
`Connection.cpp:69-73`: when `send()` fails, what the client sent since is thrown away
unread. `TCP3pthread/tcp_server.cpp:35`: both
tests ask `valread < 0`, so the end of a connection is answered like a message. The
HTTP server is blocked by a browser that connects and says nothing. `SessionManager.cpp:60`
and `:109` say that checking a session cleans up the expired ones; only the session asked
for is erased (`:74-78`), a browser that has dropped its cookie never asks, and nothing
calls `clearExpiredsession`: the pool grows for good, though it behaves as if it did
not (`ImplementsStore`). An echo that comes twice puts a UDP client one line behind for
good; `InStep` says so by its exception.

### Bounds, and why they are enough

* **Reactors:** two clients, two descriptors, two segments per client, batches of up
  to two. With two clients a number is reused as soon as one leaves before the other
  is accepted, and both are in one batch otherwise; with two segments a reply can be
  followed by more data before, between or after the close. That nothing hides behind
  larger numbers is proved for all three servers (section 5).
* **pool:** three workers, so that one can be asleep, one woken and one busy at the
  same time, and four tasks, more than workers.
* **ring:** two slots, two threads per side, two values: full, empty and wrap-around
  are all one step apart, and two values show a swapped order.
* **block:** capacity two, three producers and two consumers as in `Main.cc`; `MaxLen`
  is four, twice the capacity, so the queue is free to outgrow it.
* **session:** two browsers, one of them with a second cookie, two logins, a clock of
  three seconds with sessions of one, one restart, no repeated seed: a session can be
  opened, expire, be replaced, and survive in a cookie over a restart. The proofs have no
  such bound; with a repeated seed two browsers that log in within one second share a
  session, which the code makes unlikely and not impossible.
* **fork, threads:** three clients, so that three children can exit under one pending
  signal, and on two descriptors a number is reused while two threads have yet to look.
* **udp:** two clients with two lines each, so a copy of the first echo can be taken for
  the second; lines that are empty, fit, and are cut; one datagram lost, one duplicated,
  one death of the server, in any combination.

No run uses symmetry: the passing ones check liveness, where it would not be sound.

### Deadlock

Only `ring` checks for deadlock: its threads loop for ever. Everywhere else the
system may rightly stop: a server whose clients have come and gone waits in
`accept()`, the pool's main returns, the HTTP server's restarts and clock are
bounded, and a process that was killed or ran into undefined behaviour does nothing
more. There, liveness properties say what must still happen.

## 4. Fairness

`FairSpec` gives weak fairness to each thread's or process's own loop (`MainStep`,
`EpollMainStep`, `EpollLoopStep` and their poll and select twins, `WorkerStep(s)`,
`Enqueue(p)`, `Pop(c)`, `ThreadStep(k)`, `ParentStep`, `ChildStep(k)`, `ServerStep`,
`SendEcho`, `Take(c)`) and to the delivery of a pending signal: the scheduler runs a
thread that can run. Nothing is assumed of the network, of mutexes (who gets one is
open), of which branch a thread takes, of failing calls, of whoever restarts a server,
or, with one exception, of clients: in `session` a browser that has connected sends its
request or goes (`SpeakUp`), because `read()` has no timeout (`HttpServer.cpp:132`) and
one silent browser would stop the service for all. Weak fairness is enough where no
thread takes the step of another away for ever. In `ring` and `block` a particular
thread may starve, and `KeepsFlowing` speaks of some consumer; with too few signals a
sleeping side would not be woken by any fairness. In `udp` the requests of one client
could keep the server busy for ever, so `Recv(c)` has strong fairness: the server's
socket is a queue, and a datagram in it is not overtaken for ever. In `pool` a critical
section is one step, so fairness to a worker includes that it gets the mutex some time;
its tasks are finitely many, so the contention for it ends.

The epoll batch with two clients holds all that is ready, so no assumption about the
kernel's rotation of its ready list is needed at this size; with more clients than
`MaxEvents` `Served` would need one. The antecedents and exceptions of the liveness
properties name what the code does not provide: a registered connection (`addConnection`
may fail), a `send()` that does not fail, a descriptor used for the first time (poll),
nobody leaving (select), threads that could be created (pool, threads), a parent that
still listens (fork), nothing lost (udp), and a process that lives (SIGPIPE, undefined
behaviour).

## 5. What TLAPS proves

Every theorem holds for all values of the constants that satisfy the named
assumptions: `ConnAssumption` and `EpollAssumption` (at least one descriptor and one
event per batch, `NoClient` is no client), `PoolAssumption` (at least one worker),
`RingAssumption` (at least one slot, producers and consumers are different threads),
`BlockQueueAssumption` (the same for thread3, with finitely many threads, which the
sleep counters count), `SessionAssumption` (finitely many browsers), `ForkAssumption`,
`ThreadAssumption` and `UdpAssumption` (positive buffer and prefix). Where nothing else
is said sets of clients, threads and values may be any sets, infinite ones too.

**TcpServerProofs.** The three servers, in four parts. The first is about
`ConnServer`: `ConnInv`, what every reactor's inductive invariant contains, is kept by
every action they share, so that a reactor has only its own variables to answer for.
`ConnInv` is `FdOwnership` and `SweepSound` with
* `LoopHolds`: what the loop thread has in hand is CONNECTED up to `SetClosed` and owns
  its number up to `CloseFd`, without which `CloseFd` could close a reused number;
* `MainHolds`: between `accept()` and `addConnection` nobody else knows the new
  connection, without which the loop thread could close what main is about to register;
* `ListedOnce`: a vector has a connection once, without which a scan could meet one
  again that it has closed;
* `NotYetAccepted`: a waiting client has no Connection, without which `Accept` could
  overwrite one.

It also has the lemmas by which the shared steps refine `RequestService`: `SendData` is an
`Answer` or an `AnswerFails`, `CloseFd` an `End`, for the client that owns the
connection, because of `LoopHolds` and `FdOwnership`; main's steps stutter. The step
that differs is the `readData()` of an event, a `Read` or a `NoticeEnd`: it
is one only if the connection really is readable, since a `readData()` that finds
nothing to read ends the connection. Each reactor's invariant says why it is:

* `EpollInv`: `EpollPointerCurrent` (a registered pointer is the number's present
  owner) gives `BatchFresh`; `EventsReadable` (what was reported stays readable until it
  is dispatched), `BatchApart` (the batch does not hold what the loop thread works on)
  and `NotYetRegistered` carry it through a batch of any length.
* `PollInv`: `ListsParallel`, `EarlierClosed` (an earlier owner of a number in the
  vectors is CLOSED, so if the search lands on a connection that lives it is the one that
  was ready: `FindsOwner`), `ReventsReadable` and `FoundReadable`.
* `SelectInv`: `AllWatched` needs `SetBounded` (`m_maxFd` is at least every number in the
  set and in the copy, whenever it is read); `WalkReadable` says that what `select()`
  reported is readable until the walk gets there, also while main appends to the vector.

Proved for each: the invariant, its type invariant, `FdOwnership`, `SweepSound`, what is
its own (`BatchFresh`, `ListsParallel`, `AllWatched`) and `ImplementsService`.
`WildPointerOnlyInClose` says how far `NoWildPointer`, which a run refutes, is wrong:
on epoll a destroyed object is only ever touched in `closeConnection()` after it has set CLOSED,
so moving line 81 behind line 83 would be enough.

**ThreadPoolProofs.** `NoLostWakeup`, `TasksConserved`, `SleepCountExact`, `WaitDrains`
and the refinement of `TaskPool`. `IInv` adds `SleepCountExact` (the counter is the
number of workers inside Wait, woken ones included; with a counter that lags, a skipped
signal would lose a wakeup), `MainPhase` (flag, tasks and threads go with main's
position) and `ExitedAfterDrain` (a worker only exits from an empty, stopped pool;
joined workers have exited). The counting is done by four small lemmas on
cardinalities. Every step of the pool is one step of `TaskPool` or a stutter:
`Enqueue` submits, `Take` begins, `Execute` completes, `Stop` closes, and the last `Join` reports.
Of `WaitReturns` everything but fairness is proved: while `Wait()` joins, the worker it
waits for can take a step, or has ended (`WaitNotStuck`), and every step of any thread
makes a natural number smaller (`WaitGetsCloser`): the tasks left, twice, the workers at
work, the workers not exited, the threads not joined. `AllCreated` is needed for the first: a
worker without its attempt at a thread would be joined for ever.

**RingQueueProofs.** `SlotsAccounted`, `SlotExclusive` and the refinement of
`BoundedFifo`. `IInv` adds `MutexHeld` (a thread is inside exactly while it holds its
mutex), which makes the `pc` of the two mutex holders all there is to know about the
threads; for the refinement `ItemReady` says that the item under way is a value and is
in the slot where it will be counted. An item enters the abstract queue when it is posted
(`DataV`) and leaves it when it is read (`ReadSlot`); the arithmetic modulo
`Cap` is in `StepWraps`, `SlotAfter` and `StepThenRest`. `SomebodyCanGo` proves
`NoDeadlock`: when both semaphores are down to zero, `SlotsAccounted` puts a thread
between its P and its V, and that one goes on.

**BlockQueueProofs.** `NoLostWakeup` and, from it, `NotAllAsleep`. `IInv` adds
`SleepCountsExact` (the counters are the threads between their wait and their next
hold of the mutex, woken ones included) and `ItemInHand`. `Signal` is the lemma about
cardinalities that a leaving thread's signal keeps the balance for the side it wakes,
`Leave` that it keeps the one of its own. Two theorems more tell when the `if` around
the wait is harmless: with one producer and no spurious wakeups the capacity is kept
(`OneProducerKeepsCapacity`), with one consumer nobody pops from the empty queue
(`OneConsumerNeverPopsEmpty`). `block_capacity` shows that the first needs its
assumption. The same division holds of the order of the items: a FIFO that may outgrow its
capacity is implemented by any threads (`QueueRefinement`), the bounded one by a single
producer without spurious wakeups (`OneProducerRefinement`).

**SessionServerProofs.** `SessionsNotShared` and the refinement of `SessionStore`, both
under `~SeedsRepeat`, and `CookieOutlivesSession`, with or without. `IInv` adds
`OneAtATime` (the connection served, those that wait and the closed ones are disjoint, so
an id under way is on one page for one browser), `IdsGivenOut` (every id in circulation
is of an earlier second or has one of the seeds drawn, so the next one is new, across
restarts too), `EndsInTime` (a session ends `Timeout` after the second in its id, a cookie
with that id not before) and `IdsLeft` (the model's bound on logins). What `RequestsAnswered` needs besides
fairness is proved too: while the server lives, whoever is connected is queued or being
served (`NobodyForgotten`), and the queue only moves up (`ServedInTurn`); both follow
from one lemma about a step of the queue, `StepMoves`.

**ForkServerProofs.** `NoZombieForgotten`, `DescriptorsPaired` and the refinement of
`OneAnswer`. `DescriptorsPaired` has the parent's leak in it: what it holds beyond its
`close()` is the connection `fork()` failed for, and since it accepts no other after that
there is one at most. `IInv` adds `ParentHolds` (nobody has got through before the parent
listens; what it has between `accept()` and its `close()`, while it still listens), `NotYetAccepted` and `AnsweredByChild`. The refinement has two lemmas about
who closes last: `CloseConnectionRefines` for the child, which ends the connection
if the parent has closed already, and `CloseConnRefines` for the parent. `EverybodyHandled`
proves `NobodyForgotten`, the part of `ServedAndGone` that is about the code: a client
that stays is queued, in the parent's hands or in its child's, which will find its
message, and which closes only after it has answered. It is inductive with `SentBefore`
(what is in the kernel was sent), without which a child could end a client that has
not spoken.

**ThreadServerProofs.** `OwnDescriptor`, `NoDescriptorLost` and the refinement of
`OneAnswer`. `IInv` adds `OneDescriptor` (no connection has two numbers), `MainHolds`
(what main has between `accept()` and `pthread_create`) and `NotYetAccepted`.
`EverybodyHandled` proves `NobodyForgotten` here; `OwnDescriptor` is what makes it hold, since
the message and the answer of a client go over the number its own thread has.

**UdpEchoProofs.** `InStep`, for any number of clients, lines, losses, copies and
crashes. `IInv` adds `AboutALine` (every datagram under way is about a line its client
waited for, with the right length) and `OneUnderWay` (without copies there is one
datagram under way for a client that waits and none for the others, without which a
late echo could be taken for the next one). `WaitingInVain` proves `NothingVanishes`: a
client that waits for ever does so because a datagram was lost or the server died. It
needs no assumption on copies: a copy is taken for the echo of a later line at worst,
and that line's own request is under way then.

**Model-checked only.** The liveness properties: fairness and `ENABLED` are out of the
prover's reach. Every safety invariant and every refinement a passing run checks is proved.
Of five liveness properties (`WaitReturns`, `ServedAndGone`, `Answered`, `RequestsAnswered`,
`AnsweredUnlessLost`) and of the two `KeepsFlowing` the part that does not need fairness
is proved as said above: nothing that waits is forgotten, and somebody can go on.
`NobodyForgotten` of `ForkServer` and `SessionServer`, `ServedInTurn`, `NoDeadlock`,
`WaitNotStuck` and `WaitGetsCloser` are proved without a run of their own. For `Served`,
`FdReleased`, `Swept`, `FirstUseServed` and `ServedIfNobodyLeaves` there is no such theorem beyond the
invariants: that a registered connection is watched is in `AllWatched` and `ListsParallel`.

## 6. What the models leave out

The dictionary and the text of replies, log lines, addresses, the text of HTTP requests
(what `parseCookies` makes of it is modelled, not its search for separators), and the
buffer without a terminator after a `read()` of 4096 bytes (`HttpServer.cpp:133`); a segment stands for whatever bytes
came together, a request gets one reply. `Thread::Stop`, `Thread::Detach` and
`clearExpiredsession` are never called. Memory is sequentially consistent: the
unsynchronised `m_status` is read and written as one value, and what a weaker memory
model would add to `NoWildPointer` is not explored. Each program is modelled alone with its clients: they share no state.

## 7. Plan

Order: the concurrent server first, then the queues and the pool the rest is learnt
from, then the other servers. Done: everything in sections 2 to 5. What could follow:

1. A measure for the reactors as `WorkLeft` is one for the pool: between two waits of the
   loop thread every step of it leaves less of the batch.
2. `WildPointerOnlyInClose` for poll and select, where the scan itself reads objects that
   main may have destroyed: what is true there is a longer list of places.
3. The rest of a cut request in `SessionServer`, once the code reads more than once.

### Not modelled

Section 1.8 names the programs without a module. Those that are finished are single
library calls, straight lines, or (`thread1`, `thread2`) a waiting pattern that another
module has; `shm` and `11_18` share memory without any synchronisation to state a
property of; the others
(`EchoTcpServer`, `NetCal`, `ProcessPool`, `echo_server2`) are unfinished, and a model of
them would be of a program that does not exist yet.

## 8. Running

    tlc -workers 2 -config epoll.cfg EpollServer      # and the other runs alike
    tlc -workers 2 -config udp.cfg UdpEcho
    tlapm TcpServerProofs.tla                         # and the others alike

The longest runs, `session` and `threads`, take two to three minutes with two workers.
