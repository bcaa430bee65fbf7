# Verification of kv-webserver

TLA+ specifications of kv-webserver: a key-value store behind an HTTP server, one
reactor thread with `epoll`, a pool of worker threads, and three storage engines.
The modules are model-checked with TLC on small instances; each component also has
proofs, checked with TLAPS, for every value of its constants. `PROJECT.json` maps
every definition to the lines it translates; this file says what the models are,
what the checks and proofs show and what they leave out. Paths are relative to
`src/backend/src` (`.cpp`) and `src/backend/include` (`.h`).

## 1. The system

### Components

| component | state | operations | model |
|---|---|---|---|
| reactor thread, `main()` in `main.cpp` | `users[]` and `lst_users[]` indexed by descriptor, the epoll object, the signal pipe, `timeout`, `stop_server` | the event loop: accept, hang-up, read, write, signals, the timers after each batch; teardown | `Reactor` |
| connections, `HttpConnection` and `HttpKvsConnection` | `m_sockfd`, read and write buffers, the static `m_user_count` | `init`, `closeConnection`, `read`, `write` (reactor); `process` (workers) | `Reactor` |
| HTTP parser and buffers, `http_connection.cpp`, `http_kvs_connection.cpp` | two state machines, indices into two fixed buffers, an `iovec` | `read`, `processRead`, `process`, `write` | `HttpConnection`, `HttpExchange` |
| thread pool, `threadpool.cpp`, `BlockingQueuePro` | two queues, two mutexes, a condition variable, `m_nonblock` | `Post`, `Worker`, destructor; `Push`, `Pop`, `SwapQueue`, `Cancel` | `ThreadPool`, `TaskQueue` |
| timer list, `lst_timer.cpp` | `head`, `tail`, and `expire`, `prev`, `next` of each timer | `addTimer`, `adjustTimer`, `delTimer`, `tick` | `SortTimerLst`, `TimerSet`; as a sequence in `Reactor` |
| array engine, `kvs_array.cpp` | a table of pointers to key and value, `total` | set, get, mod, del, exist | `KvsArray` |
| hash engine, `kvs_hash.cpp` | chains, `count` | the same | `KvsHash` |
| tree engine, `kvs_rbtree.cpp` | a red-black tree with a sentinel, `count` | the same | `KvsRbtree` |
| command handler, `kvs_handler.cpp` | a rwlock for each engine | `kvs_handle_command`, `kvs_get_stats` | `KvHandler`, `KvService` |
| `locker.h`, `BlockingQueue` in `blockingqueue.h` | - | never instantiated | left out |
| front end, deployment | none the server depends on | - | left out |

### How they interact

`main()` owns everything. It accepts a connection, initialises `users[fd]`,
registers `fd` with `EPOLLONESHOT` and adds a timer. On a readable event it
reads into the object's buffer, posts the closure "`users[fd].process()`" to the
pool and pushes the timer back. A worker parses, calls `kvs_protocol`, fills the
write buffer and arms the descriptor again (`EPOLLOUT` with an answer, `EPOLLIN`
without), or closes the connection. On a writable event the reactor sends the
answer. `SIGALRM` and `SIGTERM` go through a pipe; the first makes the reactor
run `tick()` after the batch, whose callback closes the connections that have
been idle, and sets the alarm again. `users[fd]` and `m_user_count` are shared
by the reactor and the workers **without any lock**: what keeps them apart is
meant to be `EPOLLONESHOT`.

### What is hard, and what makes each part correct

- *Thread pool.* A worker keeps the consumer mutex while it sleeps on the
  condition variable, and a push notifies one thread only. Correct: a FIFO that
  loses and repeats nothing, no lost wakeup, a destructor that drains and returns.
- *Connections.* An object outlives its connection and the kernel reuses its number
  at once; the thread that closes may be a worker, the reactor, or the reactor's
  timer, and an answer may be half sent then. Correct: one thread at a time has
  `users[fd]`, an answer goes to the client that asked, nothing leaks, every request
  is answered or its connection closed, the counter is right, and no call keeps the
  reactor thread.
- *HTTP.* A request arrives in pieces of any size and the socket takes the answer
  in pieces; the parser keeps three indices into a fixed buffer that it also edits,
  and `init()` must put all of it back between two requests. Correct: the indices
  stay inside, a request is served once and whole, its answer leaves in order and
  complete, only what does not fit is refused, and nobody waits for ever.
- *Commands.* A command is atomic under its engine's rwlock, but what the handler
  does next is not: `GET` reads through a pointer after the unlock, the statistics
  take three locks in turn. Correct: a command takes effect and is answered at one
  instant, and the statistics are current where nobody else has interfered.
- *Timers.* Hand-written links in a list whose order `tick()` relies on.
  Correct: the links form one sorted list; a tick removes the expired timers, all
  and no others; a connection is closed by its own timer.
- *Engines.* Slots reused after deletions, two ways to unlink from a chain, the
  fixups of a red-black tree, failing allocations in the middle of an update.
  Correct: each is a map with the documented return codes, and its count is exact.
  (Some return codes are not the documented ones, section 3.)
- *Shutdown.* `SIGTERM` with tasks queued. Correct: the server ends, and what
  the workers use outlives them.

The full list, at the lines where each hazard bites and with the properties that
cover it, is under `hazards` in `PROJECT.json`.

## 2. The modules

```
TaskQueue     <--implements--  ThreadPool      ThreadPoolProofs
    ^
    '-- used by -- Reactor     ReactorInvariant    ReactorOrderProofs, ReactorProofs
HttpExchange  <--implements--  HttpConnection  HttpConnectionProofs
KvService     <--implements--  KvHandler       KvHandlerProofs
KvMap         <--implements--  KvsArray, KvsHash, KvsRbtree (EXTEND Kvstore)
                               KvEngines composes them;   KvTablesProofs (array
                                                          and hash), KvsRbtreeProofs
TimerSet      <--implements--  SortTimerLst    SortTimerLstProofs
MCThreadPool, MCReactor, MCHttpConnection, MCKvHandler, MCSortTimerLst,
MCKvEngines: the instances for TLC
```

`Reactor` takes a request as one piece and a command as one step, which
`HttpConnection` and `KvHandler` open up; `KvHandler` takes an engine as a map
with an exact count, which the engines' modules justify.

Definitions marked `Mutant` are plausible bugs in the definition that follows
them. They are not part of any specification: replacing the definition by one of
them must break a property, which is how the properties themselves are tested.

### ThreadPool (and TaskQueue)

`Push`, `Cancel`, and `SwapQueue` between two sleeps run wholly under
`m_producer_mtx`, so each critical section is one action and that mutex needs no
variable. `m_consumer_mtx` is held across a sleep; `consumer_mtx` is its owner.
`pc[w]` is the worker's place: `LockConsumer` enters `Pop`, `Sleep` and `Swap`
are `SwapQueue`, `Take` takes the front, `Finish` ends the task. Notifying with
nobody asleep does nothing, and `SpuriousWakeup` lets a wait return unasked. The
owner posts until it runs `~ThreadPool` (`DestroyPool`, `JoinAll`). `posted` and
`dispatched` are history variables. `TaskQueue` is what users of the pool see:
post, dispatch in order, finish, cancel, leave when cancelled and empty.

### Reactor

One module for the server, because its properties are about threads, kernel
and clients together.

- *Reactor thread.* `EpollWait` takes a batch (events are then handled in any
  order, `Takes`), and each handler is one action up to the point where another
  thread could see it half done: `Accept`/`AcceptInit` are split at the load and
  the store of `++m_user_count`; `closeConnection`, run by any thread, is
  `CloseCheck` (the test of `m_sockfd`), `CloseShut` (`EPOLL_CTL_DEL`, `close`),
  `CloseClear` (`m_sockfd = -1` and the load of the counter), `CloseCount`.
  `HandleWrite` enters the loop of `write()`, of which a turn is one action:
  `WritePart(n)` when `writev()` takes `n` bytes and more are left, `WriteRest`,
  `WriteBlocks` for `EAGAIN`, `WriteFails`. `reply` keeps `bytes_have_send`,
  `bytes_to_send` and `iov_len` with the arithmetic of the code. When that leaves
  `iov_len` 0 with bytes to send, `writev()` returns 0 and the loop goes round
  without end: no step of the thread is enabled then.
  `EndOfBatch`, `TickExpires`, `TickPops`, `TickEnds` are the timers after the
  batch; `DeleteUsers`, `DeletePool`, `JoinThenDestroyEngines` the teardown.
- *Workers.* `Start`, `Parse`, `Command`, `RearmOneShot` or the close, `Leave`.
  The pool is used through `TaskQueue`, justified by the refinement above.
- *Kernel and clients.* `sock` says which connection a descriptor stands for,
  `armed` what epoll will report; `accept()` returns the lowest free descriptor.
  A connection is a number, so that two clients of one descriptor are told apart.
  A client sends part of a request, a whole one, or one the server answers by
  closing, then waits; it may hang up at any time. A partial `writev()` means that
  its send buffer is full (`full`); only its reading (`Drain`) makes room again.
  `read()` may be false for a client that is still there, since what it sends may
  not fit the buffer (`HandleReadFails`; the sizes are in `HttpConnection`).
- *Timers* are named by their connection and kept as a sequence: a new or a
  pushed-back timer has the latest deadline. `due` counts the expired ones.
- `overtaken`, `reused`, `raced`, `wrong` are history variables: a timeout closed a
  connection the pool was working on; `accept()` returned a descriptor whose
  closing worker had not yet cleared `m_sockfd`; a thread loaded `m_user_count`
  while another was updating it; an answer reached another client.

Abstractions: a request is incomplete, complete or bad; data races on a word choose
between the values it can have (the argument of `removeFDEpoll` may be read before
or after another thread clears it); a timer used after it was deleted does nothing
(`TimerPointerLive` says when that does not happen); workers that run after
`users[]` was deleted go on as if the memory were there (section 3). The descriptors
of the process itself (stdio, listening socket, epoll, pipe) are left out.

`ReactorInvariant` states what is true of the server at any moment, as named parts:
where the threads are (`ThreadsOK`, `PoolOK`), what a batch holds (`BatchOK`), the
numbering of connections (`InOrder`) and the timers (`TimersOK`) without condition;
`Registered` and `Timed` while `~reused`; `Held`, `ClosesAlone`, `ClosedOnce`,
`OpensArmed` and `OwnData` while `~overtaken` as well; `Counted` while `~raced` too.

### HttpConnection (and HttpExchange)

One connection. `EPOLLONESHOT` lets one thread at a time work on it, which
`Reactor` checks, so its steps are those of one process, and `pc` says where it is:
armed for input or output, in `process()`, in the loop of `write()`, closed. A
request is a sequence of tokens, and the buffers count tokens as they count bytes:
`\r` and `\n` are tokens of their own because a request may be cut between them.
`Arrive` brings any number of tokens, `Read` and `ReadFails` are `recv()` until it
would block, with the `0` it returns when the buffer has no room left.

`parseLineData` is `LineOpenAt` and `LineOKAt` (neither: `LINE_BAD`); one turn of
the loop of `processRead` is one action: `LineOpen`, `LineBad`, `RequestLine`,
`HeaderLine`, `BlankLine`, `ContentAtHead`, `ContentAfterLine`. `process()` is
`processKvsRequest`, `BadJson` or `StatsOrNotFound`: it routes by the method and
the url that were kept, whatever code `processRead` returned. `write()` is one
`writev` at a time, `WritePart` and `WriteRest`, with the arithmetic on `iov` of the
code, `WriteBlocks` for `EAGAIN` and `WriteFails`.

`HttpExchange` is what a client can count on: ask, be served once with an answer
the request has a right to, receive its bytes in order to the end, or be closed.

What an answer must be is read off the whole request, not off the parse: where its
lines end (`LineEnds`), its head (`HeadEnd`), the last length it declares
(`Declared`) and whether it keeps the connection (`Keeps`). `json_body` is the text
from `m_checked_index` to the NUL that `parseRequestContent` writes (`nul`, a place
in the buffer, or the one behind it), whatever tokens are in it. The clients tell
the truth (`ClientAssumption`): a request begins with a request line, and one that
declares a length, or keeps the connection, ends with its body. Without it the
connection would read the rest as the next request (section 5).

`Inductive` says where the connection is in the request: what has been read, what is
in the socket and what is to be sent are the request in this order (`InTransit`); the
fields hold what the lines before `m_start_line` say, and what `parseLineData` has
stepped over since contains no end of line (`ParserAt`); what is about to be answered
is what was asked (`AsAsked`).

### KvHandler (and KvService)

Several workers, three engines, each a map. `Changes`, `ChangesNothing` and `Looks`
are a command's critical section with the code it returns and the status it becomes,
`ReadCount` one of the three critical sections of `kvs_get_stats`, `Answer` the
`sprintf` at the end. `result` is the pointer a `GET` keeps. `Frees` says which
commands free what it points to: every MOD, a DEL in the array, and a DEL in the hash
when the key is not the head of its chain; a DEL in the tree and one of the head of a
chain free the node alone and leak its key and value (`kvs_rbtree.cpp:479-480`,
`kvs_hash.cpp:246`). Reading freed memory gives any text.
`disturbed` is a history variable: the engines whose count others have changed since
the command's effect. `KvService` is atomic commands: call, effect, answer.

### SortTimerLst (and TimerSet)

The list at the level of pointers; deleted timers' fields are cleared. Only the
reactor thread calls it, so an operation is one action, and `tick()` is one
action for each turn of its loop because the clock moves meanwhile. `Place` is
the loop of the private `addTimer(timer, head)`. The clock may be set back, as
the code reads wall-clock `time(NULL)`. `TimerSet` is what `main()` expects: a
set of deadlines, and a sweep of those that have passed when it starts.

`WellLinked` follows the pointers from the head; `OneThread` says the same without
the walk, that some numbering of the live timers is what `next` and `prev` step
through. `DeadlinesNear` is why the list stays sorted: a new deadline is a whole
timeout from now and none is further away, so it belongs at the tail. `TickAtHead`
is why `tick()` may keep a pointer while the callback deletes the timer before it.

### KvsArray, KvsHash, KvsRbtree (and KvMap, KvEngines)

Every function runs under its engine's rwlock in `kvs_handler.cpp`, so a call is one
action, with a disjunct for each outcome, failed allocations included. `Freed` is
what a pointer to freed memory shows. The last call and its answer are state
(`array_ret` and so on), which is what lets `KvMap` check the return codes. It is
the map and the codes the comments on the functions document, but for the two
answers where an engine departs from its comment, which are parameters: what a full
engine says to a SET (`Capacity`, `FullCode`), and what a DEL may say of a missing
key (`MissCodes`). The array is `KvMap` with -1 for full, the hash with {1, -1} for
missing; neither is what is documented (section 3).

- `KvsArray`: a table searched from the front. The `2` at the end of `kvs_array_set` is
  never reached, because a full table is answered -1 before.
  `kvs_array_create` does not clear its table, which has 1024 * 512 slots
  (`kvstore.h`); an allocation that large comes zeroed from the kernel, and that
  is what the initial state says.
- `KvsHash`: chains with the newest node first. `KeySum` is the sum of a key's
  signed characters and `Rem` is C's `%`, so a slot may be negative; such a call,
  and the use of a node that could not be allocated, ends the behaviour
  (`hash_down`).
- `KvsRbtree`: a node is named by its key, the mirrored halves of the code are one
  operator with a side. The sentinel is a node of its own: its parent is written
  by a transplant and read by the fixup, its children are never initialised. A
  search from the root, the rotations and both fixups follow the loops. The loops of
  the fixups climb, so they are written with as many turns as there are keys; the
  proofs show that they never need more (after the last turn the loop's condition is
  false), so nothing is cut off.
- `KvEngines` has all three and lets a behaviour use one: no call touches two.

## 3. The runs

All bounds are constants of the models, named in the `.cfg` files.

### Runs that pass

| run | instance | question |
|---|---|---|
| `pool` | 3 workers, 2 tasks, 4 posts | no task lost, repeated or overtaken; no lost wakeup; drained destructor; the FIFO is implemented; every task is dispatched, the destructor returns; the inductive invariant of the proof |
| `reactor` | 1 descriptor, 3 connections, 2 workers, 2 messages of every kind, an answer of 3 bytes | who holds a connection, who gets an answer, leaks, timers, the counter of connections; the inductive invariant of the proofs |
| `reactor_live` | 1 descriptor, 2 connections, 1 worker, 2 messages, an answer of 3 bytes, `SIGTERM` | unless `write()` hangs: every request of a client that reads is answered, idle connections are closed, the server ends; the engines last |
| `http` | 12 requests, 2 on a connection, a buffer of 13 tokens, an answer of 3 bytes | the exchange is implemented; a request is refused for its length only when it is too long; it is answered except in three named cases; the inductive invariant of the proofs |
| `handler` | 2 workers, all commands, 2 keys, 2 values, an array of 1 slot | commands are atomic and answered by their effect; the statistics; the inductive invariant of the proofs |
| `timers` | 4 timers, timeout 2, clock 0..5, steps +1 and -1 | one list; sorted; a tick removes what has expired; the inductive invariant of the proofs |
| `engines` | array of 2 slots and 3 keys; hash of 2 slots and 3 keys, one with a negative sum; tree of 6 keys | each structure is sound, its count exact, and it implements the map with the codes it really has |

Why these bounds suffice. The pool's cases are "nobody asleep / one asleep / others
behind it on the mutex", which three workers give, and a swap that moves more than
one task while more are pushed, which four posts give; the proofs cover the rest. On
the reactor every hazard is about one descriptor reused while its previous use is
not over: three connections allow a reuse whose own predecessor was a reuse, and two
workers plus the reactor are the threads that can meet on one object. Two
descriptors are left to the proofs, which hold for any number, and to the runs below
that need them. The buffer of 13 tokens is what the longest of the requests it must
hold fills exactly, one of the twelve exceeds it, and two requests show what the
first leaves behind; three bytes are the smallest answer that can need more than two
`writev` calls, here and in `reactor`. Two workers are the one that reads and the
one that frees; the proofs cover any number, and more. Four timers are a head, a
tail and two in the middle, so an insertion can land between two nodes. Six keys are
the smallest tree where a deletion meets a red sibling and runs the fixup twice;
with one value for each key the swap of key and value in a deletion is still visible
because neighbours have different values. Two array slots for three keys fill the
table; two of the hash keys share a chain, so head and later nodes are both
unlinked.

Deadlock is not checked: the models stop where the program does (a pool that is
destroyed, a server that has exited, a crash) or where clients, who are bounded,
have nothing left to send. That the waiting threads do go on is stated by the
liveness properties instead (`DestructorReturns`, `EveryTaskDispatched`,
`Answered`, `Terminates`).

`handler` never stops, so there deadlock is checked.

`Released`, `Answered` (of `Reactor`) and `Terminates` except `WriteSpins`, the reactor
thread in the loop of `write()` with an empty `iov`: it does not come back then, as
`reactor_write_spins` shows, and none of the three holds. With the exception they say
that nothing else keeps a client, a connection or the end of the server waiting. They
are stated for the client of a descriptor, since a connection ends when its descriptor
is free. `reactor_live` leaves out requests that close after the answer, which are in
`reactor`; there the reactor thread closes as it does for one that hangs up.

`OneOwner` and `RightClient` hold unless `overtaken` or `reused`, `NoLeak`,
`TimerPointerLive` and `OwnTimer` unless `reused`, and `CountExact` unless any of
them or `raced`. The run `reactor_two_threads` shows that the condition is needed
(`OneHolder` is `OneOwner` without it; `UserCount` in place of `CountExact` shows the
same of `raced`); the run `reactor` and the proofs show that these events are the
*only* ways the discipline of ownership breaks.

### Runs that disagree with the documentation

| run | what is documented | what happens |
|---|---|---|
| `reactor_early_close` | the timer restarts with every request (`lst_timer.h:20-25`) | a close by `EPOLLRDHUP` or after an answer leaves its timer in the list; it later closes the next connection on that descriptor, active or not |
| `reactor_two_threads` | `EPOLLONESHOT` leaves one thread at a time on a socket (`README.md:351`) | `closeConnection` closes the descriptor before it clears `m_sockfd`; the reactor can reuse it in between, and then two threads handle one connection |
| `reactor_write_spins` | what finds no room waits for the next `EPOLLOUT`, so that the main thread is back in `epoll_wait` (`http_connection.cpp:383-387`) | after a second partial `writev()` the length of what is left is 0 (`399`), `writev()` returns 0, and the loop of `write()` never ends: the reactor thread, and with it the whole server, hangs |
| `handler_get` | the rwlocks keep the data consistent (`README.md:36`) | `GET` prints its value after the unlock, and a MOD of another worker, or a DEL that frees the value, has freed it (`kvs_handler.cpp:201`) |
| `http_split_body` | `parseRequestContent` judges whether the whole body has been read (`http_connection.cpp:299`) | the part of a body that is parsed before the rest arrives is stepped over (`349`), and the complete request then waits for ever |

The instances are `reactor` with two descriptors and whole requests only
(`reactor_write_spins`: one descriptor, one connection, under fairness), `handler` as
it is, and `http` with one POST and a larger buffer.

Seen while reading, without a run of their own:

- *Return codes.* SET in a full array answers -1 (`kvs_array.cpp:67`), for a key that
  exists too, so that the client reads `ERROR`; the comment says 2 (`56`), for which
  the handler would say `FULL` (`kvs_handler.cpp:185-188`), and the `2` at the end of
  `kvs_array_set` is never reached. DEL of a missing key in the hash answers -1 when
  its chain holds other keys (`kvs_hash.cpp:262`), 1 when it is empty; the comment
  says 1 (`225`). `kvs_array_mod` returns -2, which its comment does not list
  (`kvs_array.cpp:119-122`).
- *Shutdown.* `main()` deletes `users[]` before the pool (`main.cpp:262`, `268`), while
  queued tasks still run when the pool is cancelled (`blockingqueue.h:36`): they run on
  deleted objects. Only the engines outlive them (`EnginesOutliveCommands`).
- *Counter.* `m_user_count` is the number of clients (`http_connection.h:28`), by which
  `accept()` is limited, and a plain `int`: when a worker and the reactor update it at
  once (`http_connection.cpp:78`, `93`) one update is lost for good.
- *Connections.* The leftover timer also means two timers in the list for one
  connection (`lst_timer.h:16`). The largest descriptor may exceed `MAX_FD`, which
  bounds connections, and `users[]` with it (`main.cpp:15`, `174`).
- *HTTP.* `process()` does not look at `BAD_REQUEST`: an `HTTP/1.0` request is served
  as far as it was parsed and the connection closed. After `LINE_BAD` the server says
  nothing and waits. A POST without `Content-Length` is served with the part of its
  body that has arrived. A request that fills the buffer exactly is served, but when
  anything follows it `recv()` is called with no room, returns 0 and closes. Its body's
  NUL is put one byte behind `m_read_buf` (`302`), into the low byte of
  `m_read_index`; that is 4096 then, so the byte is 0 already.
- *Commands.* `parseJsonField` cuts a key to 255 characters and a value to 511
  without a word (`http_kvs_connection.cpp:49-53`), so two long keys may be one. DEL
  in the tree, and of the head of a chain, leaks the key and the value. A key whose
  characters are negative as `char` gets a negative slot (`kvs_hash.cpp:10-13`),
  used as an index; the model stops there (`hash_down`).
- *Statistics* are three counts of three moments, not a snapshot; `CountsCurrent` says
  what they are. `remaining` is negative when an engine holds more than it was made for.

### Fairness

`ThreadPool!Fairness`: weak fairness of each worker's step and of the join. A
thread that can run does eventually; a task ends, because `process()` waits for
nobody. Nothing is assumed of the reactor posting, of notifications choosing a
particular sleeper, or of spurious wakeups. Weak fairness is enough for the mutex
as well: a worker in line at `m_consumer_mtx` may be passed by, but the one that
gets it makes the progress the properties ask for.

`HttpConnection!Fairness`: weak fairness of the server's step, of the arrival of
what the client has sent, and of the socket's room. The client owes nothing more: it
need not send another request nor hang up. That is what TCP and the event loop give,
and without either side of it nothing is ever answered. `Answered` names its three
exceptions. `BodySkipped`, a body of which a part was parsed alone, is
`http_split_body`. `WriteStuck`, an answer that took more than two `writev()` calls, is
not one stuck answer but the endless loop of `reactor_write_spins`. The third is a
request that is not `WellFormed`: it has an `\n` without its `\r`, which
`parseLineData` never gets past.

`Reactor!ThreadFairness`: weak fairness of the reactor thread's step and of each
worker's. Clients owe nothing: `Answered` is about a server that answers, not
about clients that ask; that a client reads what it is sent (`Reads`) is a premise of
`Answered` for this client alone. `ClockFairness` (the alarm goes off, time passes) is
a premise of `Released` alone. `Answered` excludes the two events above, and
`Released` the second, since a request or a descriptor can then really be lost.

## 4. The proofs

### ThreadPoolProofs

For every non-empty set of workers, every set of tasks and every bound on the
posts (`WorkersAssumption`, `MaxPostsAssumption`, `NoTaskAssumption`):
`PoolInvariant` (`Spec => []Inductive`), and from it `PoolTypes`, `PoolIsFifo`,
`PoolLosesNoWakeup`, `PoolDrainsBeforeLeaving`, `PoolDestructorDrains`, and
`PoolImplementsTaskQueue`, that the two-lock queue is the plain FIFO.

None of the properties is inductive alone. `FifoNoLoss` breaks in `Swap` unless
`m_consumer_q` is empty there, since exchanging two non-empty queues reorders
tasks; it is empty because the worker saw it so *and* nobody can have refilled it
since, which needs the consumer mutex. `Inductive` therefore adds `ConsumerLockHeld`
(whoever is past the first line of `Pop` owns the mutex) and `LooksStillTrue`
(there is one such worker; in `SwapQueue` the queue it looked at is still empty, at
`Take` still non-empty). `NoLostWakeup` and `LeaveOnlyWhenDrained` need each other
through `nonblock`, and `OwnerView` ties `nonblock` and the workers' tasks to what
the owner has done. The proof takes one step for each action, with lemmas for the
notifications and for the sequences, and the refinement has again one step for
each action, with the invariant as its assumption: `Swap` and `Sleep` are
stutters of the FIFO, or `Leave` when the worker goes.

### KvTablesProofs: the array

For every table size, every set of keys and values that does not contain `NULL`
or `Freed` (`ArrayAssumption`, `ValuesAssumption`): `ArrayIsConsistent`
(`ArraySpec => []ArrayInvariant`), its parts `ArrayTypes`, `ArrayCounts`,
`ArrayKeysUnique`, `ArraySlotsWhole`, and `ArrayIsMap`, that the array implements
`KvMap`. `ArrayInvariant` is inductive as a whole: that a key is stored once
needs SET's search to be exact, which takes a non-NULL value for the presence of
the key and so needs `ArrayNoHalfSlot`; that the value of a failed MOD is the only
dangling one needs the history variable; the count needs the table to be finite.
The lemmas are about the search (the loops' "first slot that holds k" exists
when any does, by the least element of a set of numbers) and about what one
store, replacement or removal does to every key's search (`SearchAfterStore`,
`SearchAfterFree`, `SearchUnchanged`), from which each step of the map follows.
`ArrayInvariant` and `ArrayImplementsMap` speak of the array's own variables; in
`KvEngines` they are checked by TLC within the composition.

### KvTablesProofs: the hash

For every size of the table, every finite set of keys with any sums of their
characters, and every set of values (`HashAssumption`, `ValuesAssumption`):
`HashIsConsistent` (`HashSpec => []HashInvariant`), its parts `HashTypes`,
`HashCounts`, `HashKeysUnique`, and `HashIsMap`. That a key has one node and sits in
its slot (`HashUniqueKeys`) is stated with the code's search, which finds the first
match; the lemmas first turn it into a fact about the chains alone (`Placed`, `Once`)
and back. A chain changes in three ways, a new head, another value, a node unlinked,
and for each a lemma says that the chains stay sound and that no other key is found
elsewhere or with another value (`ChainsAfterStore`, `ChainsAfterReplace`,
`ChainsAfterUnlink`); the invariant and the refinement both follow from these. The
count is the cardinality of the keys that can be found, so it is exact only because
of uniqueness.

### KvsRbtreeProofs

For every finite set of integers as keys and every set of values (`TreeAssumption`,
`ValuesAssumption`): `TreeTypes`, `TreeSearchOrder`, `TreeRules`, `TreeCounts`, and
`TreeIsMap`, that the tree implements `KvMap`.

`TreeOrdered`, `TreeRedBlack` and `TreeCountExact` speak of what hangs below a node and
of its black height, which are walks down the tree: no single update of a pointer
visibly preserves them. The invariant, `TreeSound`, names their results instead: there are
a set `L` of keys, a function `b` (what hangs below each node) and a function `h` (its
black height) for which the links (`Tied`), the heights (`Even`), what is outside the
tree (`Rest`) and the colours fit (`Balanced`), `count` is the size of `L`, and the keys of
`L` have values. An update of the tree is then an update of `b` and `h`. The existential
witnesses are too many for TLC to try; `BelowIs` and `HeightIs` show that the walks
compute them, so that the four properties checked by `engines` follow.

Every step of the fixups is a lemma about `Balanced` with one place excepted. A rotation
keeps the tree `Tied` and changes `b` in two nodes (`RotateTied`). The insert loop
keeps `Rising`: one red node may be below a red one; a turn moves it two levels up or
repairs it, and what hangs below it grows, which bounds the turns
(`InsertFixupBalances`). The delete loop keeps `Sinking`: one edge owes a black node,
and the parent and side of `x` are right *even when `x` is nil*, whose parent only the
transplant wrote; a red sibling is lifted once and then the turn recolours or ends
(`DeleteTurnSinks`, `DeleteFixupBalances`). A deletion with two children renames the
node: the new name is the next key, so the renaming keeps the order of the others
(`Orderly`, `RenameTied`). `WalkExists` says that the walks of the search, of
`rbtree_mini` and of an insertion exist in a tied tree, and `SearchFinds`, `MiniFinds` and
`AboveFinds` what they return. The refinement has a step for each outcome of each call.

### ReactorOrderProofs, ReactorProofs

For every finite set of descriptors (positive numbers, `NoFD` not among them), every
non-empty set of workers without `Main`, and every bound on the connections and the
messages (`FDsAssumption`, `WorkersAssumption`, `MainAssumption`,
`BoundsAssumption`, `KindsAssumption`) and every size of an answer
(`AnswerAssumption`): `ReactorInvariant` (`Spec => []Inductive`), and from it
`OneOwnerHolds`, `RightClientHolds`, `NoLeakHolds`, `TimerPointerLiveHolds`,
`OwnTimerHolds`, `CountExactHolds` and `EnginesOutliveCommandsHolds`. The bounds cap
what clients do, so the theorems are about a server of any life.

The invariant is built in layers, and a layer may use the ones below it. Its later
layers hold only while a history variable is false; as these only ever rise, a step
that keeps one false started with it false, and the layer was there to use.

- `ReactorOrderProofs` proves the types, the layers about single threads and the
  pool, then the batch, the numbering and the timers; `ReactorProofs` the conditional
  layers and the theorems.
- `NoLeak` is a part of `Registered`, which also needs that a thread about to clear
  `m_sockfd` has closed the socket: otherwise the store would hit the next connection.
  That is what `reused` excludes. `OwnTimer` is `Timed` except at the two places where
  the reactor has a connection in hand, and `Timed` needs `InOrder`: a new connection's
  number is in no list yet.
- `OneOwner` is not inductive: a descriptor is in at most one of five places (armed,
  in the batch, queued, with a worker, in `write()`), and every transfer between
  them must find the next place empty. `Exclusive` says so pairwise; `HoldsOpen`
  keeps a closed socket's number out of all of them, so that `accept()` finds them
  empty; `ClosesAlone` is what `~overtaken` gives to the closes of the reactor
  thread; `ClosedOnce` says who is between `close` and `m_sockfd = -1`, the only
  thread that may be. `BatchOK` makes two events of one descriptor the same event.
- `RightClient` needs `OwnData`: what is in the buffers belongs to the open
  connection once `init()` has run, and until then `OpensArmed` says that no worker
  has it.
- `CountExact` needs `Counted`, the count in terms of what the one updating thread
  has loaded, and `ClosedOnce`, so that a connection is subtracted once.

Each layer has one step for each action; actions that do not touch what a layer
speaks of share a lemma (`RegisteredKept` and its like).

### HttpConnectionProofs

For every set of requests of truthful clients, every size of the buffer and of the
answer and any number of requests (`SizesAssumption`, `RequestsAssumption`,
`ClientAssumption`, `NoneAssumption`): `HttpInvariant` (`Spec => []Inductive`), and
from it `IndicesInBuffer` (`m_start_line <= m_checked_index <= m_read_index <=
READ_BUFFER_SIZE`), `AnswersInOrder` (what was sent is a prefix of the answer, and
`iov` starts where it ends), `RefusedOnlyTooLong` and `HttpImplementsExchange`, that
the connection implements `HttpExchange` through every cut of a request and of its
answer.

The proof has two halves. The first is about the buffers alone (`BuffersHold`).
`AnswerInOrder` is not inductive by itself: after the first `writev` the code
recomputes `iov` from `bytes_have_send`, after the second it compares it with a
length that has shrunk, so the invariant must say that `iov` is either the rest of
the answer or empty. The NUL behind a body is at most at `READ_BUFFER_SIZE`
(`NulWithin`), which is one byte behind the buffer.

The second half relates the parser to the request (`Tracks`). The parser sees a
prefix, so the lemmas first say what one more line does to what a request says
(`NextLine`; `HeadersGrow`, `DeclaredGrows`, `KeepsGrows`, `BlankLineEndsHead`) and
that a line taken from the buffer is the next line of the request (`LineTaken`): this
needs `LineClean`, because a `\r` at the end of what has arrived may or may not turn
out to end the line. Then there is a lemma for each step. Why a request is served
whole is in `ContentTracks`: a body judged from its start is complete exactly when
everything has been read, since nothing is left in the socket or with the client; a
body judged from further on (`BodySkipped`) is never complete, which is safe, and is
what the run `http_split_body` shows to be a hang. Why a request is not refused for
the length of an earlier one is `InTransit` between two requests: a connection is
kept only after all of its request was read, so `init()` drops nothing.
The refinement has a step for each action under the invariant: `Ask`, the two ways
to serve, `WritePart` and `WriteRest` deliver, the closes close, the rest stutter.

### SortTimerLstProofs

For every finite set of timers, every timeout and every bound on the clock
(`TimersAssumption`): `TimersConsistent` (`Spec => []Inductive`), `TimersSorted`,
`TimersWellLinked` and `TimersAreDeadlines`, that the list implements `TimerSet`.

`WellLinked` speaks of a walk from the head, which no single update of a pointer
visibly preserves; `OneThread` names the walk as a sequence, and an update of the
links is an update of the sequence: a node taken out (`Unlinked`) or put in
(`Linked`), wherever it is. `Place`, the loop of the private `addTimer`, is a
recursive function: `PlaceFound` gives a solution of its equation outright, so that
the function exists, and reads off the place where any solution stops by taking the
last node that contradicts it. `adjustTimer` is a removal and an insertion; while
the deadlines are near and the list is sorted the place found keeps it sorted. In a
sorted thread a head that has not expired means that nothing has (`NoneExpired`), so
`tick()` stops where nothing expired is left, which is the step the refinement turns
on.

### Only model-checked

All liveness: the prover has no support for it under fairness. In `KvEngines` the
three engines are checked by TLC within the composition and proved each by itself. The
properties of the runs that disagree are refuted, not proved.

## 5. What is not modelled

- *Code that never runs*: `processWrite`, its helpers and the `process()` of the base
  class (`http_connection.cpp:530-604`), which `HttpKvsConnection` overrides;
  `locker.h` and `BlockingQueue`, never instantiated; the tree's traversal and
  maximum; the loop of `kvs_rbtree_destroy`, since the root is never `NULL`.
- *Wording*: the text of answers and headers. They fit the write buffer: the longest
  answer is a GET's, whose value was cut to 511 characters when it was set
  (`http_kvs_connection.cpp:77`).
- *Destruction* of engines and of the timer list: once, in one thread, after the
  server has stopped. `kvs_array_destroy` and `kvs_hash_destroy` free the tables and
  not the keys and values in them, as the process ends.
- *Start-up*: a failing `socket`, `bind` or `epoll_create` ends the process.
- *Persistence*: there is none; a restart begins with empty engines.
- *Clients that send a second request before the first is answered*: `init()` drops
  what has been read of it. `HttpConnection` has clients that wait.
- *Front end and deployment*: a page that fetches, and container files.

## 6. Plan

Done: `TaskQueue`, `ThreadPool`; `Reactor` and `ReactorInvariant`; `HttpExchange`,
`HttpConnection`; `KvService`, `KvHandler`; `TimerSet`, `SortTimerLst`; `KvMap` and
the three engines; the proofs of section 4.

Left: clients that send a second request before the first is answered.
