# Verification of zbluenet

zbluenet is an asynchronous, multi-threaded network library for game servers.
This directory holds TLA+ specifications of its server, the TLC configurations
that check them, and proofs checked by TLAPS. Paths below are relative to
`src/zbluenet/zbluenet/src/zbluenet/`. Everything here is about the Linux build
(`#ifndef _WIN32`) unless it says otherwise.

## 1. Inventory

| Component | State | Operations | Talks to | What is hard |
|---|---|---|---|---|
| **MessageQueue** (`net/message_queue.h`, `net/self_pipe.cc`) | a mutex-protected deque, a non-blocking pipe | push, pop, drain callback | any pushing thread -> the thread polling the pipe | push is two steps; the pipe may be full; an owner may stop before the queue is empty |
| **Acceptor** (`net/epoll_acceptor.cc`) | listening socket, id counter | accept loop -> `TcpService::onNewConnCallback` | reads the connection counts of the net threads, writes the maps of the chosen reactor, pushes NEW | all of that happens on its own thread, without locks |
| **NetThread + EpollReactor** (`net/net_thread.cc`, `net/reactor.cc`, `net/epoll_reactor.cc`, `net/epoller.cc`) | `sockets_`, `connections_` with status and buffers, the epoll set, timers, `broadcast_list_`, `command_queue_` | read, error, write and timer handlers; the commands of the main thread | pushes MESSAGE/CLOSE up, pops CLOSE/MESSAGE/BROADCAST/... | several paths end a connection; errors are deferred to a timer; events of one batch outlive a socket |
| **TcpService/GameService** (`server/`) | `connection_infos_`, handlers, main queue | NEW/CLOSE/MESSAGE processing, disconnect, send, broadcast, request limit | main thread, all queues | what it knows lags behind the reactors in both directions |
| **GameServer** (`server/game_server.cc`) | message factory table | decode loop | runs on the net threads | may close the socket inside a read handler |
| **NetProtocol** (`protocol/net_protocol.cc`) | none | recvMessage, writeMessage | DynamicBuffer | packets cut anywhere, lengths at the limits |
| **DynamicBuffer** | vector, two indices | read, write, reserve, peek/read/write integers | everywhere | unsigned size arithmetic |
| **ConcurrentQueue** | deque, mutex, two condition variables | push, pop (blocking or not) | MessageQueue, log sink | blocking on full and empty |
| **Thread / Semaphore** | `is_run_`, two counters | start, close, onRun | all threads | shutdown hand-shake, uninitialised flag, shadowed `quit_` |
| **TimerHeap** | array heap with positions, id map | add, remove, checkTimeout | every loop | callbacks that change the heap; erasing inner nodes |
| **LoggerAsyncSink / ObjectPool** | bounded queue, buffer pool | log, log thread, destructor | every thread | full queue, shutdown |
| **Client** (`client/`) | `connected_`, `socket_id_`, reconnect timer | connect, reconnect, send, stop | its net thread and a main thread | retries, commands for a lost connection, stop beside connect and disconnect without a lock |
| **Select backend** (Windows) | fd sets, the same maps | select loop | as the epoll one | sockets closed during a pass over them, more sockets than a set takes |
| **Logger** (`log.cc`, `logger*.cc`) | table of loggers, a file per day | init, log, rotation | log thread | failed opens, repeated inits |
| **TcpSocket / SocketAddress** (`net/tcp_socket.cc`, `net/socket_address.cc`) | descriptor; two cached forms of an address | open, accept, connect, close; set, get, copy | kernel | calls failing half-way; stale caches |
| **exchange** (`exchange/macro.h`) | none | READ and WRITE macros | NetProtocol | lengths at the limits of their class, cut input |

Correctness, component by component: a queue delivers every command once, in
order, and does not forget to wake its owner; a reactor's maps describe the
same sockets, a connection ends once and is then gone from all of them; the
main thread's table follows the reactors' without losing or keeping an entry;
messages of a connection are handled in order; written bytes arrive in order
and are flushed; loads are balanced.

Correctness of these: a buffer is a queue of bytes; what is encoded is read
back and nothing cut is accepted; packets are found however the stream is cut;
the earliest timer fires first and none is slept past; a thread that was
stopped does not run, and stopping ends; a log line is written once, to its own
file; a client that lost its server comes back; no descriptor leaks.

`PROJECT.json` lists every component with what is left out of it and why, and
the hazards found while reading, each at its line.

## 2. Modules

| Module | Role |
|---|---|
| `Mailbox` | abstract: what a user of a queue relies on, FIFO delivery, nothing stays for ever |
| `MessageQueue` | the self-pipe protocol, one action per atomic step of push, drain and pop |
| `NetServer`, `MCNetServer` | acceptor, net threads and main thread, composed through queues of commands; symmetry for two connections |
| `ReactorWrite` | the write path of one connection, byte by byte |
| `CountingSemaphore`, `Semaphore` | abstract semaphore; the two counters and the condition variable |
| `ThreadLife` | Thread and Acceptor: start, stop, destruction, the thread's own end |
| `Lifecycle` | createService, init, start, stop of the service with its acceptor and net threads |
| `BoundedLog`, `AsyncSink` | abstract bounded log; callers, ConcurrentQueue, ObjectPool, log thread and destructor |
| `Logging` | logger table, filters, routing, a file per day, failing opens |
| `ByteQueue`, `DynamicBuffer` | abstract queue of bytes; vector, indices, unsigned sizes |
| `Exchange`, `MCExchange` | READ and WRITE macros as operators; values, rooms and cuts to try them on |
| `Framing` | NetProtocol and onRecvMessage over a stream cut anywhere |
| `TimerTable`, `TimerHeap`, `MCTimerHeap` | abstract table of timers; array heap, positions, id wrap, timestamps; the heap with and without removals |
| `NetClient` | connect, reconnect timer, socket callbacks, sending, stop |
| `SelectReactor` | the Windows loop: fd sets, maps, `new_sockets_`, commands, closes |
| `Epoller` | one batch of epoll events against devices that are closed and allocated meanwhile |
| `Descriptors` | who holds which descriptor while calls fail: TcpSocket, SelfPipe, Epoller, init, accept, connect |
| `SocketAddress` | the two cached forms of an address, setters and copies |
| `FrequencyLimit` | the request limit of onMessage |
| `MCThreads`, `MCData`, `MCServices` | instances for TLC, several components each |
| `QueueFacts` | lemmas that several proofs need: sequences and sets, the least element of a set of numbers, loops written as recursive functions, quotients and remainders |
| `MessageQueueProofs`, `NetServerProofs`, `ThreadsProofs`, `SelectReactorProofs`, `EpollerProofs`, `ServicesProofs`, `TimerHeapProofs` | theorems about `MessageQueue`, `NetServer`, the parts of `MCThreads`, `SelectReactor`, `Epoller`, the parts of `MCServices`, and `TimerHeap` |

Definitions introduced by the word *Slip* are plausible mistakes; none is part
of a specification. Each can be substituted for the operation that follows it to
see a property fail; `PROJECT.json` (`mutants`) pairs one with every property.

The three `MC` modules with several components do not compose them: the parts
share no variable, so a behaviour of one says nothing about another, and
interleaving them would only multiply states. `part` is chosen in the initial
state and only that component moves; the others rest. Fairness is required of
the part that was chosen, exactly the one its own `Spec` states. The sizes of
the parts of `MCThreads` and `MCServices` are constants of those modules with
named assumptions, so that the theorems of `ThreadsProofs` and `ServicesProofs`
are about every instance and the configuration names the one TLC explores.

### MessageQueue

`queue` is `queue_`, `pipe` the number of bytes in the self-pipe. `Push` is the
insertion under the mutex, `Notify` the write of a byte, which does nothing
when the pipe is full because the result of `write` is ignored. `Wake`,
`DrainRead`, `DrainDone` are `pipeReadCallback`; `Pop` and `PopEmpty` are the
loop of the callback it calls. `BatchLimit = 0` is `NetThread::onNetCommand`,
which pops until the queue is empty; a positive limit is
`TcpService::onClientNetCommandQueueRead` (and `TcpClient`'s), where it is 100.
Commands are `<<pusher, number>>`, so that loss and reordering show.

### NetServer

State and code: `acc` is the program counter and the locals of
`onNewConnCallback`; `registered`, `sockets` and `status` are the epoll set and
the two maps of the reactors (a socket id belongs to one reactor, `owner`, so
one function covers them all); `timers` holds the connections with a pending
`onSendMessageError`; `outbox[t]` holds the commands that the handler running on
net thread `t` has yet to push; `command[t]` and `client` are the queues;
`infos` is the key set of `connection_infos_`. `closes` and `orphans` are
history.

Grain of atomicity. A queue operation is atomic because of its mutex. The
acceptor's scan and `attachSocket` are split at each access to state of a net
thread: a count, the epoll set, `sockets_`, `connections_`, the push of NEW. A
handler of a net thread changes only state of its own thread, except for the
commands it pushes, so it runs in one step and then empties its outbox command
by command; nothing else starts on that thread before the outbox is empty. A
pushed CLOSE and the removal of the socket after it are one step: the only
thing another thread reads of the maps is their size, and a read between the
two sees what a read before them sees. The main thread runs one command, or one
call of the application, per step. Lookups and insertions in the unlocked hash
maps are taken as atomic; what a torn `std::unordered_map` does is not modelled.

Data. A packet is a number (its position in the client's stream), 0 for one
`recvMessage` rejects; read buffer sizes count packets. Whether a message
encodes, a send succeeds, or the request limit strikes is a free choice.

An *orphan* is a connection announced to the main thread when it is already
gone: `attachSocket` failed and `attach` ignored it, or the connection ended
between its attachment and the push of NEW, so that its CLOSE overtook its NEW.
The entry the main thread then makes is never removed. The properties say
exactly this: every other entry is live or about to be removed.

### ReactorWrite

`stream` numbers the bytes of all messages; `buffer` is `write_buffer_`,
`kernel` the socket's send buffer, `wire` what the peer has read. `mask` is the
interest set of the socket in epoll, computed once by `Epoller::add`.
`OnSocketWrite` is part of `WriteSpec` only, since it needs `"OUT" \in mask`,
which no reachable state has.

### The other modules, in short

*Semaphore* keeps `wait_count_` and `wakeup_count_` apart, as the code does, and
lets a sleeping thread wake for no reason. *ThreadLife* splits `close` at its
lock, its test of `is_run_` and its wait, because the thread's own end (wakeup,
then `is_run_ = false`) falls between them. `FirstIsRun` is the set of values
the uninitialised `is_run_` may have.

*Lifecycle* follows `init` statement by statement: the acceptor's thread starts
before `net_threads_` is filled, so an early client finds no thread (the
acceptor is then "crashed") or one that does not run yet. It keeps the two flags
named `quit_` apart: the null command sets `io_quit`, the loop tests
`quit_flag`. `EpollFails` is the other way out of the loop.

*AsyncSink* has the mutex-protected steps of `ConcurrentQueue::push` and `pop`
with both condition variables, the pool, and the destructor that pushes NULL.

*DynamicBuffer* computes with a size_t of `Word` values, so that the
subtraction in `reserveWritableBytes` wraps; integers are read and written byte
by byte, as the loops do. *Exchange* has bytes of `Byte`
values, so that all length classes are reached with short values. *Framing* is
built on it.

*TimerHeap* models timestamps as seconds and nanoseconds with small units; a
negative timeout counts as 0, as in `addTimer`. The loops of `minHeapInsert` and
`minHeapErase` are recursive functions (`SiftUp`, `SiftDown`) of the array, the
positions and `cur_index`. The reactors of the server never
remove a timer (`removeSocketTimer` has no caller), `NetClientThread` and
applications do: `MCTimerHeap` chooses at the start (`removes`) whether timers
are removed, and `MCData` and the proofs are about both.

*NetClient* counts time in ticks of the reconnect timer; the reactor may refuse
a socket, and an arriving message calls the callback that was never set
("crashed"). `stop` runs on the main thread, without a lock, while the net
thread goes on: nothing ends that thread's loop, so `Stop` and
`MainDisconnects` interleave with everything else. `disconnect`
(`Test`, `Tell`, `CloseSocket`, `Clear`, `Forget`, one instance for each
thread) and `connect` (`Named`, `Connected`, `Attach`, `SendNetCommandNew`) are
split at every access of what both threads share; `at` and `thread` say where
they are and `mine` which socket each has at hand. So both threads may pass
`if (connected_)` and push a CLOSE each, a CLOSE may come before its NEW, a
socket may be named -1, and the net thread may connect again after `stop`.
`OneAttempt` and `Paired` say what is left of one attempt and of NEW and CLOSE
by turns: before `stop` everything, beside it one timer at most, and a count
that is at most one CLOSE too low. A race in the reactor's containers may also
crash the program (`Stop` and the closing step of `MainDisconnects`).

*Logging* lets each init be called again whether or not it succeeded before.
`inits` counts the successes: the second one of `initMainLogger` takes the net
log's id, and from then on every line is the main log's (`Target`).

*SelectReactor* splits the loop where it takes `new_sockets_`'s lock. When
`client_change_` is set the sets are made anew with as many of the sockets held
as there is room for (`Selections`), and `fd_read_back_` is used until the next
change; `LeftOut` are the sockets held that did not fit. `capacity` is
`FD_SETSIZE`, which is 2048 and drawn from `Capacities` to be small.
`PopCommand` drops a command unless the connection is there and not in
`PENDING_ERROR`. *Epoller* splits the batch between callbacks and lets the allocator reuse
an address at once. *Descriptors* lets any call fail, a bounded number of times
or because the table is full, and gives out the lowest free descriptor.

## 3. Runs

| Run | Instance | Shows |
|---|---|---|
| `threads` | queues: 2 pushers x 3 pushes, pipe of 2 bytes, batches of 2 (main) or none (net); 3 waiters, 5 wakeups; 3 callers, 1 start; 2 net threads, 2 connections, 2 commands; 2 logging threads x 2 lines, queue of 1 | `NoLostWakeup`, `InOrder`; `NetImplementsMailbox`, `ImplementsSemaphore`, `ImplementsLog` (refinements with liveness); `StopIsSafe`, `StopReturns`, `EarlyServed`, `LinesKept`, `LoggingEnds` |
| `data` | encodings and packets with bytes of 8 values, 3 packets; 4 timers, none removed; 3 at a time that callbacks add and remove, ids wrapping; timers without a timeout called once and timers called every millisecond; a second of 2 ms of 2 ns | `EncodingSound`, `FramingSound`, `PollInTime`, `ImplementsTimerTable`, `PosAgrees`, `CheckReturns` |
| `services` | client: interval 2, queue of 2; 2 clients, limit 2, 3 seconds; 2 logs, 3 days, 2 inits each; 9 descriptors, 1 peer, 1 fault; write path: 8 bytes, messages up to 3, kernel room 2, limit 4; buffer of 2 growing to 7, bytes of 2 values; 2 address objects, 2 ports | `ClientSound`, `ComesBack`, `RequestsLimited`, `LinesRouted`, `Owned`, `BacklogDrains`, `WriteOrder`, `BufferSound`, `BufferImplementsQueue`, `AddressCurrent` |
| `select_loop` | 3 connections, 2 descriptors, sets of 1 or of 2, 2 packets or commands | `SetsAgree`, `Heard` |
| `epoller` | 3 sockets, 2 addresses | `NoStaleEvent`, `Served`, no deadlock |
| `server_one` | 1 connection, 1 net thread, 3 packets, read buffer of 2, 2 application calls | `CloseReportedOnce`, `PendingErrorHasTimer`, `HandledInOrder`, `Released`, `Forgotten` |
| `server_two` | 2 connections (symmetric), 2 net threads, 1 packet each, 1 application call | `TypeOK`, `MapsAgree`, `LiveIsKnown`, `EntryIsLive`, `Balanced` |
| `queue_stranded` | as in `threads`, batches of 2 | **violated** `EventuallyPopped` |
| `server_dropped` | 1 connection, 2 packets | **violated** `NoMessageDropped` |
| `write_rest`, `write_flush` | as in `services` | **violated** `RestIsBuffered`, `Flushed` |
| `lifecycle_stop` | as in `threads` | **violated** `StopEnds` |

Bounds. Two pushers and a pipe of two bytes let the pipe fill, let a push fall
between any two steps of drain and pop, and let a batch of two end with
commands left. Three packets against a read buffer of two give overflow, a
packet accepted before a rejected one, and packets after the connection ended.
Two connections and two threads are the least with a choice of thread and with
two threads pushing to the main queue; the invariants checked there are proved
for any number (section 4). The kernel room is smaller than
a message, so sends are partial, and the buffer limit is reachable. Three
waiters are one more than a wakeup can confuse; a log queue of one is full with
each line. A buffer of 2 to 7 bytes and requests of up to 5 reach every case of
`reserveWritableBytes`, the wrapped one included; bytes of 8 values reach each
length class and its limits. Four timers are three levels of the heap, so
that both sifts take several turns and have two children to choose from; with
four ids and timers that are called for ever, ids wrap to ones in use. Nine descriptors are one fewer
than server, peer and client need together, so the table is full at any point
after start-up. Three sockets at two addresses let a new device take the
address of one whose event waits in the batch while another device lives.
Three connections on two descriptors let select report a descriptor that is
already a new, not yet taken over connection's while another one is held; a
set of one then leaves one of two sockets out, a set of two none; and two
commands let one find its connection in `PENDING_ERROR`. The client has four
names for sockets that are not closed yet: after a stop one may be left in the
reactor beside the one the client believes in, the one `stop` is closing and
the one being connected. Two inits of each log are enough for one that fails or
succeeds after one that succeeded.
`CHECK_DEADLOCK FALSE` wherever a bound or a silent environment lets the system
stop; `epoller` never stops.

Fairness. `MessageQueue`: a thread inside `push` finishes it and the owner's
poll loop runs. `NetServer`: each loop of the server runs and epoll is
level-triggered, so that a ready socket is reported until handled; a queued
command is popped, which `threads` shows for the net threads and which
holds for the main thread as long as fewer than 100 commands wait -- the runs
have at most a handful (`queue_stranded` is about the other case). `ReactorWrite`:
the reactor polls and the peer reads. `Semaphore`, `ThreadLife`, `AsyncSink`: a
thread that can take a step takes it, and a mutex is given to who keeps asking;
nobody has to call. `Lifecycle`: main thread and net threads run. `NetClient`:
the thread runs, time passes, the server is brought up again once. `TimerHeap`:
the thread runs and callbacks return. `SelectReactor`, `Epoller` and `Descriptors` need strong
fairness for one step each: the acceptor's lock is free again and again, a
poll is not interrupted for ever, and a call that can work infinitely often
works at last. Clients and the application are never obliged to act.
`PollInTime` is about heaps no timer is removed from, so no run is about
`timer_heap.cc:176`; and `SetsAgree` allows the sets to name closed descriptors,
so none is about the failing select (`SelectReactor!KeepsServing` below): after
it the loop has ended, which `Heard` excepts.

### Disagreements found

With a run each:

* **`queue_stranded`** (`server/tcp_service.cc:194`): the main thread stops after
  100 commands when the pipe is already drained. The rest wait for the next push.
* **`server_dropped`** (`net/net_thread.cc:111`): the socket is live before NEW is
  pushed; a MESSAGE that enters the main queue first is dropped.
* **`write_rest`** (`net/reactor.cc:382`): after a partial send the copy starts at
  the beginning of the message.
* **`write_flush`** (`net/reactor.cc:385`): the socket is never registered for
  write events, so the write buffer is never flushed.
* **`lifecycle_stop`** (`net/net_thread.cc:172`): the null command sets
  `IOService::quit_`; the loop tests the `quit_` of `Reactor` that hides it.

The modules also state the following, which TLC refutes in the instance given;
no run is kept for them.

| Statement | Where | What happens |
|---|---|---|
| `TimerHeap!MinHeap` under `Spec` (ids to 6, removal) | `timer_heap.cc:176` | erasing an inner timer only sifts down; an earlier timer stays below a later one |
| `ThreadLife!Started`, `FirstIsRun = {TRUE, FALSE}` | `thread.cc:29` | `is_run_` is uninitialised, start may do nothing |
| `Lifecycle!AcceptorFindsThreads`, `EarlyClients = TRUE` | `server/tcp_service.cc:109` | the acceptor indexes an empty `net_threads_` |
| `Logging!NotInOlderFile`, `OpenFails = TRUE` | `logger_file_sink.cc:55` | after a failed open the day's lines go to the former day's file |
| `Logging!NetLinesInNetLog` | `log.cc:124` | a second `initMainLogger` takes the net log's id: lines of the net log go to the main log's file |
| `Logging!MainLogInits`, `MainFirst = FALSE` | `log.cc:89` | with the net log first the main log cannot be initialised |
| `NetClient!CallbackIsSet`, `PeerTalks = TRUE` | `client/net_client_thread.cc:121` | the first message calls an empty callback: a member hides the one init sets |
| `NetClient!TriesAgain` | `client/net_client_thread.cc:165` | each failed send restarts the reconnect timer; frequent sending postpones the attempt for ever |
| `NetClient!ByTurns` | `client/net_client_thread.cc:71` | `stop` and the net thread both pass `if (connected_)`: CLOSE twice; or `stop` comes between `connected_ = true` and NEW |
| `NetClient!StaysClosed` | `client/net_client_thread.cc:39` | after `stop` has disconnected, the net thread connects |
| `SelectReactor!Watched` | `net/fd_set.cc:46` | nothing limits the sockets accepted; beyond `FD_SETSIZE` a socket is not selected |
| `SelectReactor!KeepsServing` | `net/select_reactor.cc:94` | a closed socket stays in `fd_read_back_`, select fails, the loop ends |
| `SelectReactor!DisconnectCloses` (`FairSpec`) | `net/net_thread.cc:202` | a CLOSE for a socket still in `new_sockets_` is dropped |
| `Descriptors!InitReportsFailure` | `server/tcp_service.cc:72` | init returns true with the acceptor's epoll or the main queue's pipe missing |
| `FrequencyLimit!LimitAsLogged` | `server/tcp_service.cc:325` | one request more than the logged limit is handled |

## 4. Proofs

Every theorem holds for every value of the constants that satisfies the named
assumptions of the modules: bounds and sizes are natural numbers; a pipe, a
chunk, a kernel buffer, a number of days and of net threads is at least one;
sets of connections, waiters, stoppers, logging threads and sockets are finite;
a set takes at least one descriptor; a marker (`None`, `Nothing`, `NoCaller`, `Invalid`, `Pipe`) is none of the
values it stands beside; a port has two bytes; a byte has at least two values,
buffers expand by at least one, and the largest buffer with one request and one
expansion is below the largest size_t; a second has at least one millisecond and
that at least one nanosecond. TLC evaluates each of them on a
run. Each proof starts from an inductive invariant, one lemma per action, and
the last step reads the property off the invariant.

**`MessageQueueProofs`.** The inductive invariant adds to `TypeOK` and
`NoLostWakeup` that the batch counter is below its limit while popping, and what
the queue contains: the commands of each pusher in it are exactly those between
`last` and `pushed`, in order. `InOrder` needs that: the head of the queue is
the next command of its pusher. From it follow `WakeupNotLost`,
`DeliveredInOrder`, `TypeCorrect`, and `RefinesMailbox`: every step is a `Send`,
a `Deliver` or leaves `queue`, `pushed` and `last` alone.

**`NetServerProofs`.** None of the safety properties is inductive. The
strengthening has layers, each proved with the help of those below it, with one
lemma per actor (acceptor, net threads, main thread):

1. *Routes* (`RouteInv`): a connection being accepted has no net thread;
   the main thread cannot have heard of a connection before the acceptor
   announces it; commands are in the queue of the owner; only the acceptor says
   NEW.
2. *Reactors* (`ReactorInv`): where the socket being attached is at each point
   of `attachSocket`; `MapsAgree`, `CloseReportedOnce`, `PendingErrorHasTimer`;
   and `RunningHandler`: the outbox of a handler is about a live connection of
   its own thread, with CLOSE last if at all. That is why no second path can
   close the same connection.
3. *Main thread* (`MainInv`): NEW is heard once; a CLOSE on its way up was
   counted; a CLOSE on its way down was asked for by `disconnect`; a queued NEW
   is about a live connection, or has its CLOSE behind it, or is an orphan's;
   `LiveIsKnown`, `EntryIsLive`.
4. *Spread* (`SpreadInv`), for `Balanced`: as long as nothing has ended, the
   numbers of connections *assigned* to two threads differ by at most one, and
   the scan knows the least of the threads it has passed. `Balanced` counts
   connections in the maps, which the acceptor reads one thread at a time while
   they change; assigned connections do not change under the scan, and a
   connection that ended never comes back, so that one which ended at any time
   makes the premise of `Balanced` false for good.
5. *Order* (`OrderInv`), for `HandledInOrder` (`PacketsInTurn`): a packet in the
   kernel carries its own number; the packets of a connection are in order in
   the main queue, in an outbox, and from the one to the other; and
   `NothingSkipped`: what is on its way starts after the last packet handled
   and has no gap, up to the last packet read as long as more may be read. The
   entry of the connection in `infos` matters here: before it exists packets
   are dropped, and the count starts with the first one that is not.

**`ThreadsProofs`** (`StopSafe`, `NoLineLost`, `RefinesSemaphore`, `RefinesLog`,
`NetRefinesMailbox`). The parts share no variable, so `ThreadsInv` is the
conjunction of an invariant per part and a step is a step of each part or none
(`PartsStep`).

* *Semaphore*: no thread is both asleep and notified, and the two counters
  agree with the threads inside `wait`; the abstract value is read off them.
* *ThreadLife*: who holds the mutex, and `RunFlag`: what `is_run_` and the
  permits say of the thread, in particular that a permit is owed to whoever
  waits. With it a `close` that has returned finds no thread running.
* *Lifecycle*: nullptr is the last command of a queue and pushed only by stop;
  threads that were waited for are gone.
* *AsyncSink*: a buffer is in one place (the pool, a caller's hand, the queue,
  the log thread's hand), all buffers ever made are somewhere, a buffer on its
  way holds its caller's line, and NULL is the last entry. `RefinesLog` maps the
  accepted and written lines to `BoundedLog`.
* `NetRefinesMailbox` is the theorem of `MessageQueueProofs` for the net
  threads' queue (no batch limit).

**`SelectReactorProofs`** (`SetsAlwaysAgree`). The invariant adds to `MapAgrees`
that a socket that is held or waits in `new_sockets_` is open and none is both,
which is why `insert` finds no old entry under a reused descriptor. From it
follows the second half, a property of steps: a socket held is newly left out
of the sets only in a step that makes them anew with more sockets held than
they have room for. The number of connections is any, also beyond `FD_SETSIZE`.

**`EpollerProofs`** (`EventsNeverStale`). Added: an event of the batch names the
address its device is still at, unless that address is in
`removed_io_devices_`; what is watched is allocated; and outside the batch there
are no events, so that clearing the set at its end forgets nothing.

**`ServicesProofs`** (`ClientAlwaysSound`, `RequestsAlwaysLimited`,
`LinesAlwaysRouted`, `DescriptorsOwned`, `WriteAlwaysInOrder`,
`AddressAlwaysCurrent`, `BufferAlwaysSound`, `BufferAlwaysQueue`). Again one invariant per part:

* *Client*: the only timer that runs is the one the thread knows, and none runs
  beside a connection or an attempt (`TimerInv`); until `stop` is called only the
  net thread disconnects, and the reactor has no socket but the client's
  (`AloneInv`); and NEW less CLOSE is bounded by where each thread is in connect
  and disconnect (`TallyInv`): what `stop` may add is the one CLOSE it sends.
* *Request limit*: in the present second the counter is one less than what was
  handled and below what came.
* *Logs*: `logger_id_` leads the main log to the net log's id only after its own
  init has succeeded, and when it has succeeded twice both ids are taken; a
  logger with a file has the filter and the file of the log its lines are for,
  and a log whose id the main log takes had no lines before; the date in the file's name is ahead
  of the number of dropped lines, which bounds them by the days.
* *Descriptors*: objects that are yet to be created, and peers that wait in the
  backlog, hold nothing, so that giving them a descriptor loses none.
* *Write path*: the bytes of wire and kernel are numbered consecutively, which
  is `WireIsPrefix` written without concatenation.
* *Address*: the form an object was given is there, and the other form is its
  translation if it is there at all; swapping the bytes of a port twice gives
  the port.
* *Buffer*: the type invariant is inductive. Its hard step is
  `reserveWritableBytes`: when the discarded bytes alone suffice, `size -
  free_bytes` wraps to a number near `Word`; the product and the sum wrap too,
  and what comes out is the present size, less the spare room, plus at most one
  expansion: a smaller vector with the room asked for and less than two expansions
  more. That an integer's digits, written and read in the same byte order, give
  the bytes back is an induction over the width (`ValueSteps` and what follows
  it).

**`TimerHeapProofs`** (`TypeCorrect`, `PositionsAgree`, `PollAlwaysInTime`,
`RefinesTimerTable`; the last two as long as no timer is removed). The
inductive invariant `HeapInv` says that the timers are well formed, that array
and positions are inverse to each other on the timers of the map (`Placed`), and
that a timer outside the map has no position. A swap keeps `Placed`; that the
whole loop does is an induction over `cur_index`, which halves or doubles. For
the order, two loop invariants: while a timer goes up (`OrderedBelow`) only it
may be earlier than its parent, while one goes down (`OrderedAbove`) only its
children may be earlier than it, and in both its children are not earlier than
its parent. Erasing an inner timer need not establish the second, since the
timer that takes its place may be earlier than the parent: the proof, like the
property, is about erasing the top only. In a min
heap the first timer is the earliest (induction over the index); the poll and
the table follow with the arithmetic of timestamps.

*Induction.* The library's induction theorems take a predicate, which the
installed provers cannot instantiate. `QueueFacts` states the principle for a set
instead (a non-empty set of naturals has a least element): the proof by
induction over the loop considers the set of counterexamples. With it
`QueueFacts` also shows that a recursive function over a bounded counter is
defined and equals its body.

Only model-checked, and why:

* liveness (`Released`, `Forgotten`, `ComesBack`, `BacklogDrains`,
  `CheckReturns`, `Heard`, `Served`, `StopReturns`, `EarlyServed`,
  `LoggingEnds`, and the fairness in `NetImplementsMailbox`,
  `ImplementsSemaphore`, `ImplementsLog`): the prover has no rule for fairness;
* `EncodingSound` and `FramingSound`: what the nested readers compute for every
  value is an induction over the structure of values; `Exchange`, `Framing` and
  `MCExchange` use recursive operators and are for TLC alone.

## 5. Plan

Proofs still worth having: of `Framing`, that packets are found in order however
the stream is cut, with the encoding of a packet abstracted to its length; and
of `TimerHeap`, what order remains after removals.

## 6. Not modelled

* `net/io_service_select.cc`: no class derives from it or creates it, and it
  calls members `IODevice` does not have.
* The task classes are empty; `LoggerBase` is compiled out.
* Formatting of log lines and `dumpBytes`; `getAddressByDomain` and the
  ipV4/ipV6 helpers, which keep no state; `Epoller::update`,
  `sendMessageThenClose`, `DynamicBuffer::swap`, `Thread::exit`,
  `ConcurrentQueue::peek` and `pushIfNotFull`, which have no caller.
* The demo and its generated protobuf code.
* What a concurrent rehash of the unlocked maps of a reactor
  (`net/epoll_reactor.cc:61`) does: it is undefined in C++ and has no set of
  outcomes to choose from.
* The same for the maps and timers of a client's reactor while `stop` runs beside
  the net thread: `NetClient` lets the program crash there, but not go on with
  maps that are torn.
* A select set with fewer slots allocated than `FD_SETSIZE`, for a
  `max_connection_num` per thread below 2048 (`net/fd_set.cc:20`): `FD_SET` tests
  `FD_SETSIZE` and would write behind the allocation once more sockets are held.
* `epoll_wait` failing in a client's loop, which would end it (`Lifecycle` has
  it for the server).
* Freed memory: the order in which destructors delete `reactor_`,
  `epoll_service_` and the queues when the process ends.
* Winsock's answer to a negative timeout (`net/select_acceptor.cc:32`).
