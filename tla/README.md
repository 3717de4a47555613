# A TLA+ model of skynetCpp

skynetCpp is a C++ port of the skynet actor framework: one process runs many
*services*, each with a handle and a message queue, on a fixed pool of worker
threads; a timer thread and a socket thread feed messages in. This directory
holds TLA+ modules translated from that code, the TLC runs that check them on
small instances, and TLAPS proofs for every value of the constants.

There are no tests in the repository and its README is one line; what the code
promises is taken from its comments and assertions.

## 1. Inventory

| component | state | operations | what makes it correct |
|---|---|---|---|
| reader/writer lock (`rwlock.h`) | `read`, `write` | `rwlock_rlock/runlock/wlock/wunlock` | a writer is alone, the count is exact, nobody waits for ever |
| spinlock (`spinlock.h`) | one flag | lock, trylock, unlock | mutual exclusion |
| handle table: names (`handle.cpp`) | sorted vector, its capacity | `HandleFindname`, `HandleNamehandle`, the name part of `HandleRetire` | stays sorted, answers like a map, no index outside the vector |
| handle table: slots (`handle.cpp`) | slot vector, `handle_index` | `HandleRegister`, `HandleRetire`, `HandleRetireall`, `HandleGrab` | handles unique, growth keeps every handle, a grabbed context stays |
| message queues (`mq.cpp`) | per queue: messages, `in_global_`, `release_`, overload fields; globally `head_`, `tail_`, `next_` | `Push`, `Pop`, `MarkRelease`, `Release`, `Length`, `Overload`, `GlobalQueue::Push/Pop` | a queue is in one place, none is forgotten, none is used after its deletion |
| contexts and dispatch (`service.cpp`) | reference count, handle, queue, sessions, the count of contexts | `NewContext`, `Grab`, `Release`, `ContextPush`, `MessageDispatch`, `DispatchAll`, `ServiceSend`, `Reserve` | the count is exact, one worker per service, a failed init leaves nothing behind |
| threads and start-up (`start.cpp`) | `sleep`, `quit`, mutex, condition variable | `ThreadWorker`, `ThreadTimer`, `ThreadSocket`, `ThreadMonitor`, `WakeUp`, `Start` | sleepers are counted and woken, everybody leaves after quit |
| timer (`timer.cpp`) | a near wheel and four levels, `time_` | `AddNode`, `MoveList`, `TimerShift`, `Execute`, `Update`, `Timeout`, `Updatetime` | a node fires at its time, once |
| socket server (`socket_server.cpp`, `socket.cpp`) | 2^16 slots, two send lists each, control pipe, counters | control commands, direct send, poll, forward, close, shutdown | bytes of a socket leave in order, an id is closed once, slots are reused safely |
| harbor (`harbor.cpp`, `service_harbor.cpp`) | per remote node: status, fd, pending queue; names | handshake, forward, queue, down | messages queued for a node leave in order or are answered |
| gate (`service_gate.cpp`, `databuffer.h`, `hashid.h`) | connection table, message buffers, id hash | connect, data, close | packets are cut where the length says |
| monitor, module loader, commands, logger, log, env, error, signals, Lua service, socket info | small or none | | see `PROJECT.json` for why they are left out |

How they interact: a service sends by `HandleGrab` (handle table, read lock),
`MessageQueue::Push` (queue lock) and, when the queue is not flagged,
`GlobalQueue::Push` (global lock), then gives its reference back. A worker takes
a queue from the global list, grabs the context, delivers messages, and puts the
queue back or lets it go. The timer thread and the socket thread send the same way
and then call `WakeUp`. `HandleRetire` removes a service: its slot's reference
goes, and the last reference marks the queue for release; whichever worker takes
the marked queue next drains and deletes it.

What is hard here: the ownership of a queue passes between the global list, a
worker and nobody through a flag and two locks; the life of a context ends at a
count that four kinds of threads change; the locks are hand-written from atomics;
workers sleep with a counter that is read outside the mutex; the timer drops its
lock while it delivers; other threads write to sockets directly beside the socket
thread. Several values have no defined result (an uninitialised return value,
contexts deleted while in use). `PROJECT.json` lists each hazard at its line.

## 2. Modules

| module | models | composed of |
|---|---|---|
| `RWLockSpec` | what a reader/writer lock promises | |
| `RWLock` | `rwlock.h`, one action per atomic instruction | implements `RWLockSpec` |
| `RWLockProofs` | theorems about `RWLock` | |
| `NameDirectory` | what the name table promises: a map from names to handles | |
| `HandleNames` | the name table of `handle.cpp` under its lock | implements `NameDirectory` |
| `HandleNamesProofs` | theorems about `HandleNames` | |
| `Dispatch` | queues, the global list, contexts, `NewContext`, `ContextPush`, `HandleRetire`, `MessageDispatch` | |
| `DispatchProofs`, `DispatchListProofs` | theorems about `Dispatch`: types and reference counts; the global list and who has a queue | |
| `WorkerPool` | the threads of `start.cpp` | sees of `Dispatch` whether a queue is returned |
| `WorkerPoolProofs` | theorems about `WorkerPool` | |
| `Timer` | the wheels of `timer.cpp`, `Timeout` and the timer thread | |
| `TimerProofs` | theorems about `Timer` | |
| `SocketServer` | the TCP side of `socket_server.cpp` with what `socket_epoll.h` reports | |
| `SocketServerProofs` | theorems about `SocketServer` | |
| `Harbor` | `service_harbor.cpp`, with what its peers and the socket server do to it | |
| `HarborProofs` | theorems about `Harbor` | |
| `MC...` | instances for TLC | |

### RWLock

`read` and `write` are the two integers; `val` is `rwlock_wlock`'s local
variable, which the compare and exchange overwrites when it fails. That is the
reason for the one surprise: after a failed attempt `val` is 1, so the next
attempt compares `write` with 1, succeeds, and a second writer enters. The
auxiliary variable `overlapped` says that two calls of the write side have
overlapped; exclusion and the refinement are stated until then. `WriterGetsIn`
says a lone writer gets in although readers keep coming, because a reader that
sees `write` does not count itself in, or takes its count back.

### HandleNames

The table is a function from indices to records, under the lock at the level of
`RWLockSpec`: readers share it, and calls of the write side do not overlap, the
proviso under which `RWLockProofs` proves exclusion (what happens without it is the
run `rwlock_two_writers`). `OtherWriter` stands for the writers that leave the names
alone. One action per loop iteration of a search, so searches
of several threads interleave. `FindnameLoop` and `NamehandleLoop` are the binary
searches, `NamehandleInsert` shifts and inserts, `RetireLoop` compacts in place.
`NamehandleTaken` returns without `rwlock_wunlock`, as the code does
(`handle.cpp:160`); from then on readers spin for ever. `FindnameAnswers` states
that a look-up returns; it does not hold and no run checks it.

### Dispatch

A service is named by its queue. A section under a spinlock or under the table's
lock is one action; the list is the linked list itself. Every thread that can be
inside `MessageQueue::Release` has a drain state, since draining answers each
message's source with an error through `ContextPush`.

Where the code has no defined result:

* `MessageQueue::Pop` returns an uninitialised pointer for an empty queue.
  `EmptyPop` gives the outcomes by caller; the run `dispatch` allows null and
  non-null for both callers. What follows from a null that `MessageDispatch`
  receives is recorded in the auxiliary variable `nulled`, and five of the
  properties are stated for behaviours without it: after it, a queue has been
  let go by the dispatcher and delivered from at once, and two workers may run it.
  The run `dispatch_flag` uses what builds of this code do (`MCMeasuredPop`).
* `NewContext` and `ContextPush` delete a context whose count is not zero. In the
  model a deleted context goes on answering with what it held, and a second delete
  goes unnoticed. An allocator that stops the process there cuts the behaviour
  short, which no safety property notices. `freed` records the deletions, for
  `FreedWhenUnreferenced`.

`Pop` does not remove the message it returns (`mq.cpp:64-81`), so a queue only
grows and `MessageQueue::Release` of a queue with messages never ends; both are in
the model as they are in the code.

Not in this module: the window in `NewContext` between the registration of the
handle and the assignment of `queue_`; two writers at once in the table's lock
(`RWLock` has it); the data race on the overload field; the arguments of
`ServiceSend`; sessions; the callback's own sends (senders stand for them).

### WorkerPool

The global list is abstracted to its length. The mutex, the condition variable,
the counter read by `WakeUp` without the mutex, and the predicate `thread_unlock`
are as in the code. A worker that waits may wake up at any time (`WorkerWakes`),
notified or not; the fairness (`Scheduled`) owes it a wake-up only when it was
notified. Either way it finds the predicate false and blocks again, after quit too:
`NoSleepAfterQuit` is about workers that enter `cond_var.wait`. `ContextTotal() == 0` is an
input (`MayStop`): in the code a context is counted twice (`service.cpp:180` and
`284`) and discounted once, so that the total never returns to zero, and shutting
down could not be examined at all without this input. The `workers_wakeup` run
has `MayStop = FALSE`.

### Timer

`near` and `t` are the lists of the two arrays, `time` is `time_`, and the shifts
are constants, so that the code's own arithmetic runs on a wheel that is small
enough to turn round. Times are numbers modulo 2^`Width`, as the code's are modulo
2^32. A call of `Timeout` computes `expire` without the lock (action `Timeout`)
and files the node later (`AddNode`); between the two the timer thread may move
the time on, and a node filed after its tick is in the auxiliary set `late`. The
timer thread takes the lock in `Update`, gives it up for `DispatchList` and takes
it again (`Relock`). `TimerShift` moves the lists that are due; if one of them
holds a node, `AddNode` takes the lock that the thread holds already
(`timer.cpp:58`), and the thread spins (`Stuck`). So a node that is not due within
the current turn of the near wheel is never delivered; `Fires` says that
everything else is. `LinkedOnce` is about the places of the wheels (`Slots`), not
about the contents of their lists: a node alone in two lists is in both.

A node lives in the stack frame of `Timeout`. The model follows a behaviour as
long as that frame is intact; `delete` of it may stop the process (`aborted`).
Calls with `time <= 0` send at once and leave no trace in the wheel. A clock that
goes backwards (`Updatetime`'s error branch) is not modelled.

### SocketServer

A slot is a record of the fields that decide anything: its type, id, the tag and
the count in `sending`, `closing`, `reading`, `writing`, the lengths of the two
lists and whether `dw_buffer` is set. Buffers are counted, their bytes left out.
The pipe holds requests (type, id, and the auxiliary `counted`: whether
`IncSendingRef` counted the package). A client is a thread that calls the server:
`Ask` is `Close`, `Shutdown`, `Start` and `Pause`; `Reserve`, `Assign` and
`AskOpen` are `Connect` and `Listen`, with the window between the two writes of
`ReserveId`; `Send` goes through `Check`, `Trylock`, the reads of the second
`CanDirectWrite` (`ReadId`, `ReadLists`, `ReadSending`, `ReadHalf`, `ReadType`, a step
each), `DirectWrite` and `Trigger`, or through `IncSendingRef` and `Queue`. The socket
thread is `CtrlCmd` (one disjunct per request), `NextEvent` and `EpollWait` with one
handler per kind of event; `FinishClose`, the second half of `ForceClose` after it has
got the slot's lock; and `ClearClosedEvent`, which looks at the slot again after that.
`force` is the handler that is between these steps. What the operating system answers (a connect that fails, a short
write, the end of a stream) is a disjunct each. `told` is what the services know
of an id, from the messages that the server raises.

Where the code has no defined result: the handlers assign null to the
`std::string` of a message (line 166 and others) and use pointers that were never
set (603, 1063); the process may end there, which cuts a behaviour short and hides
nothing from a safety property. `SendRequest` computes the address of the bytes it
writes in units of whole packages (1302); the model takes the request its caller
has filled in. The four kinds of failing assertions are in the model (`aborted`)
and end it; the properties are stated until then. The one on `sending` holds when
services wait until they are told that a socket is open (`CountedIsDiscounted`; with
`EarlySend` it fails). The others are reachable: `SendUncomplete`, because
`ListUncomplete` compares the address of a `std::string` with that of its
characters, and, in the window of `ReserveId`, those of `ForceClose` and `NewFd`.

Not in this module: UDP, `Bind`, `Nodelay`, `Exit`, `Info` and the destructor; the
wrap of `alloc_id_` and the ids that a failed `ReserveId` consumes; the failure of
`EPOLL_CTL_MOD` on a descriptor that was just added; a stale descriptor number
that the operating system has given to another socket; the sizes for
`kSocketWarning`. The handler of a package appends it and discounts it in one step
(`SendSocket`, 1035 and 1036): no step of a client reads both the lists and the count,
so one that reads the lists before and the count after still finds both empty. A
direct write may overtake the package in this way, in the model as in the code;
nothing is stated about the order of the two.

`ReserveId` changes the type of a slot (line 97) before it stores the new id (line
98). In between, what is left for the slot's last socket still finds its id there and
may change the type back: a late request to close with data left (`CloseLater`, 812
to 822) or a write that fails (`CloseWrite`, 348 to 369). The slot is then free although a client is about to open a
socket in it, a second client may reserve it as well, and two sockets share it. The
auxiliary set `taken` holds the slots to which this has happened; the five properties
about slots leave these out, and so do the proofs. The exception was found by
proving: `WritesToItsSocket` is false without it, with more ids than the run has.

The lock of a slot keeps the socket thread from closing it, and nothing else:
`ReserveId` and `NewFd` do not take it. Three things follow, all of them in the model.

* If the socket was open when a client got the lock (auxiliary `pinned`), the slot
  stays that socket's until the client has written. If it was closed already, the
  client may read the old id, then the slot is reserved and opened for another socket,
  then the client reads the new socket's lists, count and type and writes the package
  to it. `WritesToItsSocket` says the first and that in either case the slot is open
  and locked. What such a client leaves in `dw_buffer` it announces under the old id,
  and the thread does not listen; `stray` holds these slots, for `NoLostWrite`.
* `FinishClose` gives the slot free before `ClearClosedEvent` looks for the socket's
  event in the batch. If the slot is reserved in between, the test at line 1290 fails
  and the event reaches the next socket.
* An event also stays when the handler of an event has closed the socket
  (`ClearClosedEvent` is called after requests only), and when a request has closed
  one that was half read (line 810 returns -1).

No property is stated of the events of a closed socket: with these three exceptions
it would only repeat the test at line 1290. What makes the reuse of a slot safe at its
other end is stated: from `ReserveId` until the thread takes the request to open it, a
slot is reserved for one id (`ReservedForOne`), with several threads that connect and
listen and a socket thread that accepts, closes and opens.

### Harbor

`slave` is `h->s`, one record per harbor id (fd, status, queue, and the reader's
`read`, `length` and `size`); `names` is the hash map as a function. A queue is the
circular buffer itself, with `head`, `tail` and its growth (`push_queue_msg`,
`Expand`); `Contents` is what a loop over `pop_queue` takes out of it. One action is
one message of the service's own queue: `SendHandle` and `SendName` (messages out),
`update_name`, `Connect` and `Accept` (the commands N, S and A), `Data` and
`SocketClosed` (socket events), and `harbor_release`. `Data` hands a piece of a
stream to the loop of `push_socket_data`, whose iterations are `ReadHandshake`,
`ReadHeader` and `ReadContent`; no other handler runs until it returns. Socket
events are keyed by fd, so that data and close events of a connection that the
service has given up arrive after it, and after the harbor's next connection has
begun. A byte is known by its place in its frame and by the frame's length, a
message by its number. What a complete frame says is left out.

`sent` is the history of the calls of `send_remote`, of the handshake bytes, and of
the deliveries to services of this node. It holds the calls, not the bytes: the code
makes a `std::string` out of a buffer that begins with a zero byte (lines 333, 473,
477 and 579), so what really goes out or comes in is cut off at the first zero.

`h->slave` is assumed to name other harbors only and to hand over an fd once, and a
peer to send frames that are not empty (its shortest has 12 bytes). A harbor with
id 0 gets no message, because `HarborSend` asserts against it, and is not modelled.
`memset` over the records with their strings (line 246) has no defined result; the
library in use then has empty strings, which is what the model starts from.

What the code does that a reader may not expect, all of it in the model:

* messages that waited for a name are sent at once when the name becomes known and
  the harbor has an fd, even before the handshake is over (line 379), ahead of those
  in the harbor's queue. `SentRight` therefore compares messages given with the same
  destination only;
* messages that go from a name's queue into a harbor's queue never get the handle
  into their header (lines 356 to 364), so the peer cannot deliver them. `dest` is
  `None` for them, and `SentRight` demands the right handle of all others;
* `close_harbor` leaves `s->read` as it is. After a refused frame whose length came
  in pieces, the next connection of that harbor is read out of step (`torn`);
  `InStep` is about all other harbors, and fails without that exception;
* a close event does not touch the slave: it keeps its fd, takes no new connection
  (line 614), and messages for it are handed to a dead fd (comment at line 337). After a
  connection that ended in the handshake, the messages in the harbor's queue stay
  there until the service is released. `NothingStranded` does not call that moving: it
  says that the bytes of a handshake are still to be read or the end was reported to
  `h->slave` or will be, and that no queue is left anywhere else but before a
  connection and behind an unknown name that was asked for;
* a connection that the service itself closes is not reported;
* a message that waited for a name of a dead harbor is dropped silently; one with a
  known handle is answered.

## 3. Runs

| run | instance | shows |
|---|---|---|
| `rwlock` | 4 threads, 2 of which write | exact count, a writer alone, a lone writer gets in, refinement of `RWLockSpec` |
| `rwlock_two_writers` | the same lock, 2 threads | violation: two writers inside |
| `handle_names` | 2 threads, 5 names, 2 handles, capacity from 2 to 4 | sorted table, every loop ends, refinement of `NameDirectory` |
| `dispatch` | 2 services, 2 workers (weights -1 and 0), 1 sender, at most 2 and 1 messages | reference count, ownership, no lost queue, no use of a deleted queue, list well formed and first-in first-out, assertions, calls return |
| `dispatch_flag` | the same | violation of what `mq.h:19` says of `in_global_` |
| `dispatch_freed` | the same | violation of what `service.cpp:186` says of `Release` |
| `workers` | 3 workers, at most 2 queues | sleep counter exact, nobody enters `cond_var.wait` after quit, workers that are awake leave |
| `workers_wakeup` | 2 workers, no shutdown | violation of what `start.cpp:114` says of `WakeUp` |
| `timer` | 2 nodes, 2 near ticks, 4 levels of 2 lists, 5-bit times, delays to 3 | a node is where its expiry puts it, fires in its tick, is linked once; `Now` agrees with the wheel; what is filed in time fires |
| `socket` | 2 clients, 2 slots, ids to 4, 1 request in the pipe, 1 event per batch | the count of `sending` is exact and its assertion holds, nothing left to send is forgotten, a direct write has an open slot locked and reaches its own socket if that was open when the lock was got, a slot is reserved for one id at a time |
| `socket_close` | 2 clients, 1 slot used twice, 2 requests in the pipe | violation of what `socket_server.cpp:790` says of `kSocketClose` |
| `harbor` | this harbor and 2 others, 1 name, 1 remote and 1 local service, 4 inputs (messages, connections, frames), queues of 2 slots, lengths of 2 bytes | each message is in one place, leaves in order and with the right handle, and waits only for a name, a connection or a handshake whose end is reported; the reader keeps in step with any cutting of the stream; lost connections are reported |

Why the bounds are enough. *RWLock*: two writers overlap and two more threads read
around them; the proofs cover every number. *HandleNames*: five names over a
capacity of 2 that doubles to 4 make the vector full, make it grow, and make it
hit the assertion on its largest size; one handle has several names, so that
compaction removes from the middle. *Dispatch*: the shortest list in which head,
tail and next differ has two queues; two workers are needed for a race for a
queue; weight -1 delivers one message per turn and weight 0 the whole queue; one
service has a callback, one has none; a threshold of 1 is crossed by two messages.
A third service or a second sender adds interleavings of the same pairs and puts
the run beyond its time. *WorkerPool*: `WakeUp` compares the number of sleepers
with all and with all but one of the workers, which three workers tell apart from
none. *Timer*: the widths are those of a wheel with every level, and time turns
round completely, so that each border of a block and the wrap at the end is met
with nodes on both sides of it; a node comes one tick late at most (`MaxLag`), which is enough
to miss its list. *SocketServer*: two slots make a listening socket and one that is
connected or accepted, closed, and opened again under id 4 while requests, events
and writes meant for id 2 are on their way; both clients send to 2, one uses it in
every other way, the other opens its slot again, and the first sends with low priority
to 4, so that a direct write, read by read, meets every handler and a slot that is given
away, and both lists fill (1.1 million states). The pipe is short because a
client that waits to write into it stands for a further request. A batch of one event still has the
second half of a read and write event. `View` in
`MCSocketServer` drops from the fingerprint what no action and no checked property
reads; each part is listed there. *Harbor*: a queue of 2 slots grows with its second
message, by `push_queue` or in the middle of a merge; three messages and a
connection are what it takes for a later message to overtake an earlier one through
another queue; two connections and two frames are what it takes to refuse one
connection and to read the next, while events of the first are still to come. The
three kinds of input share the bound `MaxInput`, since messages out and bytes in
meet only in the status of a harbor. Lengths 1 and 2 and a header of 2 bytes are cut
in every place. With a second remote service, or a further input, the same cases
come again and the run takes more than its time.

Deadlock is not checked in `handle_names`, `dispatch`, `workers`, `timer`, `harbor`
and the socket runs: a process
that has aborted has no further step, a table whose lock has leaked stops everyone
who wants it, threads end when the process quits, a released service does nothing more, and the
bounds on ids and calls run out.

Fairness. Weak fairness of a thread's steps says that the operating system goes
on scheduling a thread that can run; a worker inside `cond_var.wait` is owed a step
only when it was notified. Strong fairness is used only for taking the
mutex of the worker pool and the spinlock of the timer, which a thread gets if it
keeps becoming free. In
`RWLock` a caller of the lock is not obliged to call, but a thread that has the lock gives it back.
In `Dispatch` only worker threads are fair: nothing obliges anyone to send, create
or retire. In `Timer` the timer thread and its clock go on, and nobody is obliged to
call `Timeout`. Nothing is assumed of the socket thread, which waits for the network;
`SocketServer` has safety properties only. In `Harbor` a read loop that has begun goes
on and a close event in the service's queue is handled, since the workers dispatch a
queue that holds messages (in the code as `dispatch_flag` shows it, they may stop
doing so; `DisconnectReported` is about the service, not about the scheduler).
Nothing obliges peers, senders or `h->slave` to do anything.

## 4. Proofs

TLAPS checks the theorems below for every value of the constants that the named
assumptions allow (`ThreadAssumption`, `NameAssumption`, `CapAssumption`,
`DispatchAssumption`, `PoolAssumption`, `TimerAssumption`, `SocketAssumption`,
`HarborAssumption`, `NullAssumption`; the last says that `None` is neither the record
of a read loop nor a queue). TLC evaluates each assumption on the runs of its module. Together the
theorems state every safety property that a passing run checks.

* `RWLockProofs`: `ReadCountIsExact`, `TypeCorrect`, `WriterExclusion`,
  `LockRefinesSpec`. The count by itself is inductive once stated over the set of
  threads between increment and decrement, with the cardinality lemmas for adding
  and removing one element; that `read` never becomes negative follows from it.
  Exclusion needs, beside the count, until two writers overlap, that one thread at
  most is on the write side, that a writer waiting or inside has `write` at 1, and that no reader is inside with a writer: a reader enters only
  after it has seen `write` at 0 with its own count already added.
* `HandleNamesProofs`: `TypeCorrect`, `TableSorted`, `TableIsDirectory`. The
  invariant holds for each search the interval it still has to look at: names
  before `begin` are smaller than the one sought and names after `end` larger,
  and for a compaction that nothing it has kept so far belongs to the retired handle.
  The refinement reads the directory off the table, in the middle of a compaction too.
* `WorkerPoolProofs`: `SleepIsExact`, `TypeCorrect`, `NobodySleepsAfterQuit`. The
  last one, that no worker enters `cond_var.wait` once `quit` is set, needs that a worker
  between its test of `quit` and its wait holds the mutex, and that `quit` is then still
  false.
* `DispatchProofs`: `TypeCorrect`, `ReferencesCounted`. `Shape` adds to the types where
  a thread is when it holds a queue or a context. `RefExact` counts the holders of a
  context by cardinalities; a step moves one thread in or out of one of the sets, and a
  service that does not exist yet has no holder (`Unborn`).
* `DispatchListProofs`: `QueueHasOneOwner`, `NoPushIsLost`, `DeletedIsUnreachable`,
  `ListIsWellFormed`, `NoAssertionFails`, `ListIsFifo`. The global list is described by
  a sequence without repetitions (`IsList`); `GlobalQueue::Push` appends to it and
  `GlobalQueue::Pop` takes its head. The rest of `ListAndOwners` is about who has a queue:
  a queue is linked, or held by one worker, or being created (`Exclusive`), a queue
  whose flag is clear is nowhere (`Idle`), a marked one is still in somebody's hands
  or deleted (`Flagged`), a deleted one is out of reach (`Deleted`). These hold until a
  null is returned to `MessageDispatch`; `NoLostPush`, the list's shape and `Flagged`
  hold beyond it. `Chain`, which walks the pointers, is shown to be that sequence.
* `TimerProofs`: `TimerTypeCorrect`, `ClockAgrees`, `NodesLinkedOnce`, `NodesInPlace`,
  `NodesFireOnTime`. `left` counts the ticks until a node is due; `Homes` says that a node
  filed in time is in the list that `HomeOf` gives for its expiry and the present time.
  A tick keeps the home of a node unless the time enters a new block of a level, and
  then the list that `TimerShift` moves is the one with the nodes that change
  (`ShiftKeepsHome`). The argument is about quotients and remainders of powers of two
  and holds for all shifts and any width, the wrap at the end included. That a moved
  node ends in its new place is not needed, since the thread is stuck there
  (section 2).
* `SocketServerProofs`: `SocketTypeCorrect`, `WritesToTheRightSocket`,
  `SlotsAreReservedOnce`, `NoWriteIsLost`, and, for services that wait until they are
  told (`~EarlySend`), `SendingIsExact` and `CountsAreDiscounted`. A step of the socket
  thread changes one slot, in one of six ways (`Quiet`, `Shuts`, `Fails`, `Succeeds`,
  `Accepts`, `Discounts`), which is shown once per handler (`Move`); the invariant is
  preserved by each way and by each step of a client. `SocketInv` says that an id is
  unopened in one place only (`OpenedOnce`), that a slot is reserved for one id at a time
  (`ReservedForOne`), that the slot a close waits for is open (`Closing`), and that a slot
  keeps its id and its descriptor while it is locked by a client that found it open, and
  its descriptor while it is written to (`Locked`, `Connected`). `NoLostWrite` follows from what a step does to the lists and to the
  interest in writing (`Cares`). `CountInv` adds that what is not counted is for an id
  that has left its slot (`Told`), and the count itself as a sum of two cardinalities.
* `HarborProofs`: `HarborTypeCorrect`, `NoMessageStranded`, `ReaderInStep`,
  `EveryMessageAccounted`, `MessagesSentRight`. The queue is
  the circular buffer; since the service empties a queue as a whole, every queue begins
  in slot 0, and `PushIs`, `ExpandIs`, `MergeIs` and `ContentsIs` say what the operations
  do to its contents. `ReaderInStep` needs that an fd belongs to one harbor (`Owners`)
  and that the bytes in the loop's hands and on the wire go on, frame by frame, where the
  reader's status, `read` and `length` say it is (`Streams`). The last two theorems
  rest on `Books`, which sees each queue as the sequence of its messages. `Whole` says
  that every number given is in one place and no other number is in any, and that no
  queue holds one twice; it also bounds the length of a queue by the messages given,
  which is what makes a queue distinguishable from `None` (`NotNull`). `InOrder` says
  what waits in a queue and in which order: what was sent to a harbor comes before
  what waits for it (`Ahead`), and as long as a name is unknown nothing that was given
  with it is anywhere but in its queue (`Unknown`), so that a merge at the end of a
  harbor's queue overtakes nothing. Each kind of step has one lemma over any such
  books (`GivenToSlave`, `NamedQueued`, `Flushed`, `Released`, ...), and each handler is
  shown to be one of these kinds, `Accept` two of them.

Where a fact about all numbers had to be shown by induction (the walk along the list, the
fold of a merge), the proof takes the least counterexample, which exists because `<` is
well founded on the naturals.

Only model-checked: every liveness property (`WriterGetsIn`, `LoopsEnd`,
`DispatchReturns`, `AwakeWorkersExit`, `Fires`, `DisconnectReported`), which is beyond
this prover, and the five violations, which are behaviours and not theorems.

## 5. Findings

1. `rwlock.h:30`: two writers can hold the write side (`rwlock_two_writers`).
2. `service.cpp:364`: the result of `Pop` is tested the wrong way round; a queue
   with messages leaves the scheduler with `in_global_ = 1` (`dispatch_flag`).
3. `service.cpp:288` and `315`: contexts are deleted when a reference is left
   (`dispatch_freed`).
4. `start.cpp:104`: the predicate the workers wait for is never true, so a worker
   that has slept never works again (`workers_wakeup`).
5. `socket_server.cpp:97`: a slot is taken before it has its new id; a `Close` of
   the old socket that is handled in between raises `kSocketClose` a second time
   (`socket_close`).

Met on the way and without a line of the repository that says otherwise: the timer
thread stops at the first node it has to move down a level (`timer.cpp:58`); a
socket that is closed while its only data is in the pipe keeps its slot for ever
(`socket_server.cpp:812`); a package sent before its socket is open is discounted
but was not counted (`socket_server.cpp:994`); the events of opening, accepting and
failing never reach a service, because `ForwardMessage` assigns a null pointer to a
`std::string` (`socket.cpp:49`); a package may be written
to the next socket of its slot, and an event may reach it (`socket_server.cpp:1588` and
`1290`, section 2); and what section 2 lists for the harbor service. The
models of the socket server and of the harbor service are those of the two sides of
that call.

## 6. Plan

1. Locks and the name table with their abstract specifications and proofs: done.
2. Queues, dispatch, contexts and the worker pool: done and proved.
3. Timer: done and proved.
4. Socket server, TCP: done and proved; `Bind` and UDP are left.
5. Harbor: done and proved.
6. Handle slots and context life: registration, growth, wrap of `handle_index`,
   `HandleRetireall`, the count of contexts, `Reserve`; to be taken into `Dispatch`, with
   the slots' uniqueness of handles as its theorem.

### Not modelled

* Gate (`service_gate.cpp`, `hashid.h`, `databuffer.h`): `hashid_lookup` and
  `hashid_insert` return -1 whatever they are given (the lines that return an index
  are commented out), so the first connection is written in front of the table.
  There is no defined behaviour after that to state properties of.
* Lua service: not part of the build. Logger, log, error, environment, socket info:
  output and formatting. Module loader: `dlopen` and a map, its lock listed as a
  hazard. Text commands: a table from words to operations of other components.
