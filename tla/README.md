# DBwrapper: TLA+ models, model checking and proofs

DBwrapper is a C++11 layer over Redis. An application calls
`redis_async_client`; the calls become messages to a *task* that runs its own
libevent loop in its own thread and drives one asynchronous hiredis context.
A *manager task* watches the others with heartbeats. This directory holds
TLA+ modules of those parts, the TLC configurations that check them on small
instances, and TLAPS proofs.

## 1. Inventory

| Part | Code | State it keeps | Operations | Talks to |
|---|---|---|---|---|
| task queues | `include/task_base/task_base.hpp`, `src/task_base/task_base.cpp` | two queues, mutex, eventfd, loop | `init`, `in_queue`, `evfdCallback`, `process_msg` | senders through the mutex and the eventfd |
| task manager | `include/task_base/task_manager.hpp`, `src/task_base/task_manager.cpp` | `task_map`, `hb_map`, `_seq_id`, heartbeat timer | `send2task`, `add_tasks`, `del_tasks`, `set_hb_interval`, `start_hb`, `send_hb_all` | every task, by messages |
| worker task | `src/adapter/redis/worker_task.cpp`, `include/adapter/redis/worker_task.hpp` | `_conn_stat`, `_context`, `_detail_info`, reconnect timers | `on_message`, `process_add_conn`, connect/disconnect callbacks, `redisAsyncReconnect` | hiredis (calls and callbacks), task manager (lookup) |
| asynchronous context | `src/adapter/redis/hiredis/async.c`, `adapters/libevent.h` | flags, three callback containers, buffers, two events | commands, read/write handlers, `redisProcessCallbacks`, disconnect, free | libevent, the server, user callbacks |
| Loop | `src/translib/loop.cpp`, `include/translib/loop.h` | `_status`, `_thread`, `event_base` | `start`, `stop`, `wait`, destructor | the thread it creates |
| Timer, TimerManager | `src/translib/timer.cpp`, `timerManager.cpp` | event, rounds; map of timers, mutex, id counter | `startRounds`, `reset`, `getTimer`, `killTimer`, `auditTimer` | a Loop |
| TCP client/server, dispatcher, sessions, TPKT, HTTP | `src/translib/tcp*.cpp`, `http*.cpp` and headers | sockets, session lists, partial frames | connect, accept, dispatch, send, close | loops, libevent |
| connection manager, message bus, service discovery | `include/connManager/*.h` | list of infos, pools with their lists of connections, handlers by topic and id, infos found | add, delete and get connections and pools, `call`, `getConnInfo` | connections (callbacks), a timer; no target instantiates these templates |
| heartbeat | `include/heartbeat/heartbeat.h` | the flag `success`, a timer | `start`, the timer's handler, destructor | the ping function, two callbacks |
| hiredis context, net, formatting | `src/adapter/redis/hiredis/hiredis.c`, `net.c` | descriptor, error, output buffer, reader | connect, reconnect, append, get reply, free | sockets, the reader |
| reply reader | `src/adapter/redis/hiredis/read.c` | buffer, stack of tasks, reply under construction | feed, get reply | the context |
| dict | `src/adapter/redis/hiredis/dict.c` | table of chains, iterator | add, replace, delete, find, iterate | the asynchronous context |
| sds | `src/adapter/redis/hiredis/sds.c`, `sds.h` | header, bytes | append, copy, cut, format, split, quote | everything in hiredis |
| logger, examples, tests | `src/logger`, `example`, `test` | - | - | - |

What is hard here:

* **Two locks that are not one** - a sender queues under the mutex and wakes the
  task after it; the task resets the wake-up and takes the queue after that.
* **Order as the only key** - replies are matched to callbacks by their position
  in a list that is chosen by flags at the time of the call.
* **Callbacks that call back** - reply callbacks issue commands, disconnect and
  free the context they are called from.
* **Events that are not persistent** - a handler that forgets to add its event
  again leaves the context deaf.
* **Pointers that outlive what they point to** - the reconnect timer and
  `_context` keep contexts that hiredis frees on its own.
* **Test, then act** - `Loop` tests an atomic status and acts on it later, while
  the loop's thread moves on.
* **Bytes in pieces** - replies, commands and TPKT frames are cut anywhere by the
  sockets and must come out whole, also after errors, timeouts and reconnects.
* **Many ways to fail halfway** - connecting makes a descriptor and then does five
  more things that can fail; each has to give it back once.
* **Freeing what is in use** - a timer is freed by one thread while the other runs
  its callback, which may free or restart it.
* **Objects that end in their own handler** - a pool that loses its last connection is
  destroyed by the call that told it so.
* **Heartbeats** - late answers, tasks that come and go between the check and
  the next request, tasks that hang.

`PROJECT.json` lists these as hazards, each at its line, with the properties
that watch it.

## 2. Modules

| Module | Models | Role |
|---|---|---|
| `Mailboxes` | what the task layer promises | abstract specification |
| `TaskBase` | queues, eventfd, `process_msg`, `send2task`, thread by thread | implements `Mailboxes` |
| `TaskManager` | heartbeat, intervals, adding and deleting tasks | builds on FIFO mailboxes |
| `RedisAsync` | one asynchronous context, its events, user code, the server | |
| `WorkerTask` | contexts of the Redis workers, lookup, reconnect | uses contexts as `RedisAsync` shows them |
| `KeyMap` | what `async.c` expects of its dictionary: a finite map | abstract specification |
| `Dict` | hash table and iterator of `dict.c` | implements `KeyMap` |
| `SdsText` | numbers, quoting, splitting and joining in `sds.c` | operators |
| `Sds` | headers and blocks of `sds.c`/`sds.h`, operation by operation | uses `SdsText` |
| `ReplyReader` | `read.c` and the reply objects of `hiredis.c` | operators on a reader |
| `RedisContext` | `hiredis.c` and `net.c`: connecting, formatting, writing, reading | composes `ReplyReader`, `SdsText` and a server |
| `Loop` | the thread of an event loop and those who use it | |
| `Timers` | `Timer` and `TimerManager`, a user thread against the loop's thread | |
| `Tcp` | TCP client, server, dispatchers, sessions and TPKT frames | |
| `ConnManager` | connection manager, pools, message bus, service discovery | |
| `*_proofs` | - | theorems about `TaskBase`, `TaskManager`, `RedisAsync`, `WorkerTask`, `Dict`, `Loop`, `Timers`, `ConnManager`, and their proofs |
| `MC*` | the same for TLC: small inputs and symmetry sets | |

Operators called `Mutant: ...` in a comment are not part of any specification.
Each is a plausible bug, put in place of a definition to see that a property
notices.

### TaskBase and Mailboxes

`task_queue` and `tmp_task_queue` are the two queues, `evfd` the counter of the
eventfd (-1 before `init`), `pc` the place of a task's thread in
`evfdCallback`/`process_msg`, `writing` the gap in `send2task` between `in_queue`
and `write`. A message's payload is its sender and a number. `init` can fail twice:
`eventfd()` gives no descriptor, and no thread is started (`InitTaskFails`), or the
constructor of the event server throws, which leaves the descriptor and no loop
(`InitServerFails`): a send to such a task succeeds and nobody handles the message.
Writes fail for want of a descriptor (`WriteEvfdFails`) or at the counter's limit
(`WriteEvfdFull`); in the second case the task is awake and the message is handled
although `send2task` returns false. `handled` and `promised` are histories; `promised`
counts both the sends that succeed and those refused at the limit.

The refinement mapping takes the log of a mailbox to be
`handled \o tmp_task_queue \o task_queue`. A swap changes no log, since the
private queue is empty then; a pop moves the border between handled and not
handled; a heartbeat answered is one abstract step although it pops from one task
and queues for another.

The initial state lies inside `task_manager::init`, when the task map is
complete; the comments in `send2task` and `add_tasks` ask callers not to change it
later without a lock.

### TaskManager

One FIFO per task, as `Mailboxes` promises, with a flag for "has been woken".
The timer's handler is two steps, the check with the new `hb_map`, and
`send_hb_all`: between them other threads may add or delete tasks.
`TickGivesUp` is the early return in the check. `hung` workers sit in a job
that never returns. `del_tasks` and the end of the task's thread are separate.
`add_tasks` and `del_tasks` are atomic.

### RedisAsync

`pc` says whether the thread is in libevent, in `redisProcessCallbacks`, in a
reply callback, in `__redisAsyncFree` or in a callback called from there; user
calls are possible in the loop and in callbacks. `replies`, `invalid` and `sub`
are the three containers of callbacks; a command's number stands for its
callback. One read takes any number of complete replies or only the beginning of
one; one write takes any non-empty prefix. The server (external) answers in order,
knows subscribed mode, publishes, turns a connection away, closes it at any time.
The first event of a connection may come while `connect(2)` is in progress
(`HandleConnectAgain`, with `ReadAgain` and `WriteAgain` for the early returns of the two
handlers): the event is gone, and `redisCheckSocketError` has left an error in the context.
The next handler finds the socket connected, reports that, and then fails on the old error.
`onConnect` and `onDisconnect` get a const context and make no calls in the model; a
command issued in `onConnect` is like one issued in the loop just before, one in
`onDisconnect` is refused, and to free the context in either is a use after free. The
callbacks of the worker task make no such calls.
Abstractions: one channel per (UN)SUBSCRIBE, channels and patterns in one
dictionary, `malloc` succeeds.

### WorkerTask

A context is its address. `heap` says what is at an address; a freed address may be
handed out again. The lookup `get_task_ptr_p_with_detail_info` returns after the
first entry of the map, hence `First`. Using freed memory may kill the process
(`fault = "dangling"`) or go unnoticed; calling a method of the null pointer kills
it (`"null"`). Uninitialized `_detail_info` starts with any value. `Workers` are
numbered in the order of their names; "task0" sorts behind "WORKER001".

### Dict and KeyMap

`table` is a function from slots to chains (newest entry first), `size` and `used`
are the fields of that name, `copies` counts the values `callbackValDup` made and
`callbackValDestructor` did not free. The hash is the code's, with the modulus of its
unsigned arithmetic as the constant `HashMod`: 2^32 in the code, 2^16 in the run, which is
enough for its slots; the theorems hold for any. `dictExpand` is two nested loops, and each
is a recursive function: `Moved` puts the entries of one chain in front of their new chains,
`Spread` does so for every chain of the old table. `hash & sizemask` is a remainder, which it
is for powers of two. The iterator has the saved successor of `dictNext`; while it is
out, only the entry that it returned last may be deleted (`MayDelete`), the use that
the comment in `dictNext` provides for. The refinement mapping `Stores` forgets slots,
order and size.

### Sds and SdsText

A string is a record: type of header, `len` and `alloc` (reduced to the width of the
type's fields whenever they are stored), size of the block, bytes with their
terminator. The widths are a constant, so that three types are passed through with
strings of five bytes. `str` is a history: what the calls should have made of the
string, by definitions that know nothing of headers. The text functions are pure and
are checked in every state on that string, also with its bytes replaced by ones that
need quoting.

### ReplyReader and RedisContext

The reader is a record with the code's buffer, position, error and stack of tasks; a
reply is the set of its objects, each with its path. `Depth` (9 tasks in the code) and
`Discard` (1024 bytes) are constants.

`RedisContext` puts it into a context: `pc` is the place inside `redisConnect` or
`redisReconnect` (`resolve`, `socket`, `bind`, `connect`, `finish`) or inside
`redisGetReply` (`writing`, `reading`). All ways to connect are one action with
options; `socket` and `unixSocket` are the loops over TCP addresses and the Unix
variant, `connect` and `finish` serve both. Every system call can fail, and a read or
write moves any number of bytes from a small set. `open` is the set of descriptors
that are open; the commands, the server's replies and the replies returned are
histories of the current connection. A format string is a sequence of characters and
conversions, a conversion the bytes that it stands for. The server (external) answers
in order with well-formed replies, one of them nested more deeply than the reader
allows, and closes at any time.

### Loop

Clients call `start`, `stop`, `wait`; one of them calls the destructor when no
other call is in progress and none follows (as C++ demands). Each execution of
`_run` is a process of its own. libevent: `event_base_loopexit` leaves an event in the base,
`event_base_loopbreak` a flag that `event_base_loop` clears on entry, a base is
run by one thread at a time.

### Timers

A timer is a record of the fields of `Timer` and who refers to it (`inMap`, `held`).
`startRounds` is two steps, since the event is added before the fields are assigned;
`event_free` in the user thread is a step of its own that waits for a running callback
(`freed`), with the manager's mutex held if `killTimer` got there. Handlers do nothing
of interest, call the manager, stop their timer (`startCB`) or start it again
(`startAfter`). The user thread may stop, kill or forget any timer at any moment, and a
timer may expire inside `startRounds`, between `event_add` and the assignments to `_round`,
`_curRound` and `_handler`; the loop's thread then runs with what the start before has left.
`startForever` runs to its end: the last of its rounds is reached.

Three marks follow the two threads where they meet in one timer:

* `stale` (of the user thread's call): the event that `event_free` was called with has been
  freed by the loop's thread, in its last round or by a handler that stops the timer. When
  the call goes on it frees the event again, which is a fault.
* `mixed` (of a timer): it expired, or was stopped by its handler, inside `startRounds`. Its
  counters and its handler belong to different starts.
* `raced` (history): one of three overlaps has happened. The timer expired inside
  `startRounds`; its last round began while the user was ending it; or a handler that stops
  or restarts it overlapped a call that ends it.

A fault is an event freed twice, a timer used after its end, or an empty handler called.

### Tcp

Each client is a user thread (`connect`, `sendHeader`, `sendData`, `close`,
`setClosing`) and a loop thread (`Connected`, `Write`, `writeCallback`,
`Disconnected`). `sendWithTPKT` is two sends; `close` looks at the output in one step
and sets `_isClosing` in the next. The server's accepting thread gives each connection
an id and queues an action for the dispatcher that `id % slavers` picks; `onFrame`
works off the queue. `Base` is the number of values of a byte: with 2, the lengths of
small frames use all three bytes of the header. Whether a client counts as connected
depends on the `errno` that an earlier call left (`tcpClient.cpp:95-104`); nothing in the
repository asks. A lost connection's descriptor is closed twice, in `handleEvent`
(`tcpClient.cpp:85`) and with the bufferevent (line 88, `BEV_OPT_CLOSE_ON_FREE`); the
model has no numbers of descriptors, so a socket of another thread that is closed by the
second one is outside it.

### ConnManager

`m` holds the objects: the counter of ids, the bus of the pools (`invokers`), `infoList`,
`poolList`, and every pool and connection made. The operators that take a state `s` are the
methods; a message over the bus is a call, so that a connection's report, the pool's
handler and the manager's handler are one step. `held` are the pools that the user keeps
from `get_pool`: such a pool outlives its place in `poolList`. The connection is the
template in the comment of `connInterface.h`: `connect` ends later, as with hiredis; a
connection lives on when it is lost, may come back ("heartbeat success after heartbeat
fail") and reports each change once. `_id` of a new pool is any value of `Junk`.
Everything runs in one thread: the `lock_guard`s of the bus end with the `if` around
them and protect nothing. The constructor of the manager is in `Init`; its destructor
calls a `remove_handler` with two arguments, which does not exist, so that a program
that compiles never destroys a manager.

## 3. Runs

| Run | Shows | Bounds |
|---|---|---|
| `task_queues` | no lost wake-up, `Mailboxes` (a FIFO per task) implemented, everything promised is handled by a task whose `init` succeeded | 2 tasks, 2 clients, 2 messages, eventfd limit 1 (reached) |
| `heartbeat` | a worker is held silent only for a cause, a hung one is restarted, the heartbeat goes on if deleted workers come back | 2 workers, 1 job that may hang, 1 deletion, sequence numbers wrap |
| `redis` | own reply, exactly once; own channel; no assertion; paired notifications; never deaf but after EINPROGRESS | 3 commands of every kind, 2 channels, 1 message of the server's own |
| `redis_live` | disconnecting completes, callbacks run | 3 regular commands |
| `worker` | reconnecting does not multiply connections; the lookup works for a single connection | 2 workers, 3 addresses, 3 ADD_CONN |
| `dict` | the table keeps its shape over resizes, iterations with deletions are complete, `KeyMap` implemented | tables of 2 to 8 slots, keys that collide, 2 values |
| `sds` | bytes stay inside their block, the string holds what it should, quoting and splitting can be undone | strings of up to 5 bytes, 3 bytes, headers of several widths |
| `context` | replies in order and complete, commands intact, no descriptor leaks, `redisGetReply` returns | 2 connects, 2 addresses, 2 retries, 2 commands, nesting limit 3, a discard after 6 bytes |
| `loop` | the base is freed after the thread has ended, `stop(true)` ends the loop at any time | 2 clients, 2 calls of start |
| `timers` | memory is misused only where the two threads met in one timer, rounds counted right, silence after the end, `stop` and `killTimer` return, finished timers leave the map | 2 timers, 2 starts, 1, 2 or "forever" (3) rounds |
| `tcp` | messages whole and in order, `close(true)` sends and then closes | 1 client that reconnects, 2 dispatchers, 2 messages (one of them empty) |
| `pools` | the lists hold exactly the connections that are up and know their pool, no handler of a pool that is gone, connections that stay are handed out again and again | 2 pools, 2 connections, a local and a remote info |

The bounds are the smallest that let every action happen in every order that
matters: two senders race with one receiver, counters reach their limits, a freed
address is used again, a callback issues a command while replies wait, a string
changes its header twice in both directions, a reply is cut behind every byte and
discarded halfway, an old connection's answer is on its way when a new one starts, a
user thread waits for a callback that uses the same timer, a pool that the manager gave
up gets its connection back and another one is made.
Deadlock checking is off where the system may come to rest (bounded senders, a freed
context, a destroyed loop, a lost connection) and on for the heartbeat, the dictionary,
the strings and the pools, which never rest.

Several properties carry a condition, and the condition is part of the result:
outside it the code does not keep the promise.

* `Plain` (`RedisAsync`): no UNSUBSCRIBE and no MONITOR was issued. A command behind
  an UNSUBSCRIBE is filed under the mode at the time of the call and answered in
  another one; then an assertion may fail (with `NoAbort` for an invariant, TLC shows
  it in the bounds of the run `redis`), and a regular
  callback may be handed the reply to a SUBSCRIBE. In monitor mode a read that
  completes no reply puts an empty callback on the list.
* `PromisedIsHandled` (`TaskBase`): the task's `init` succeeded. If the event server could not
  be made, sends succeed and nobody handles the messages.
* `Stalled` (`RedisAsync`): the connection's first event came too early. The event that was
  used up is not added again, so a context that waits for the other one may hear nothing;
  and the error stays, so the connection ends at its next event.
* `NamesReturn` (`TaskManager`): deleted workers come back.
* `OneStart` (`Loop`): `start` is not called again before the new thread has set the
  status; a second thread would be created. `StopEndsLoop` is about `stop(true)`:
  `stop(false)` before the thread has entered the loop is forgotten by libevent.
* `LookupSucceeds` (`WorkerTask`): one ADD_CONN. After a second one, a clean
  disconnect of the first context calls a method of `nullptr`.
* `lost` (`RedisContext`): `redisReconnect` closes the descriptor and leaves its number
  in `c->fd`; if the name is not resolved or no socket is made, the context keeps it,
  and `redisFree` closes that number a second time.
* `raced`, `mixed` (`Timers`): the overlaps listed under Timers. For each of the three in
  `raced`, leaving it out makes TLC find a fault. `Silent` promises nothing after a fault.
* `Embrace` (`Timers`): `killTimer` holds the mutex and waits for a handler that waits
  for the mutex. And the loop of the singleton may end before its audit timer is
  added.
* `Missed` (`Tcp`): a write callback between the look at the output and the assignment
  to `_isClosing`; nothing closes the connection then.
* `ListsExact` (`ConnManager`): the connection knows its pool, which one made by
  `add_pool` does only by chance: it gets `_id` before that is set. `NoStarvation` is about local
  connections; remote ones wait as long as their pool has a local one. An empty pool makes
  `get_conn` return null although others have connections.

### Where the code departs from its comments

These were met while modelling; the models contain the behaviour, and no property claims the contrary:

| Code | Comment | What happens |
|---|---|---|
| `task_manager.cpp:56` | "send hb to all the tasks" | a worker deleted before it answered ends the heartbeat for all, until one of its name comes back |
| `task_manager.hpp:27` | "if hb tid is 0, that means this is the first time" | the heartbeat timer's id is 0: a new interval has no effect |
| `async.c:456` | an error reply "needs to be received and passed to the callback" | in subscribed mode it closes the connection instead |
| `loop.cpp:122` | "this class is thread safe" | the destructor may delete a thread that it did not join |
| `worker_task.cpp:19` | "remember the context" | after a reconnect commands go to the freed context |
| `async.c:464` | "If callback list is empty, the context *must* be subscribed or monitoring" | a command behind the UNSUBSCRIBE of the last channel is answered when the mode has ended, and the assertion fails |
| `async.c:499` | "Try again later when connect(2) is still in progress" | the event is not added again, and the error set by the check makes the next read or write fail |
| `connManager.h:171` | "tell pool that there is a new connection" (`connInterface.h:47`) | `add_pool` makes connections before it sets `_id`; they come up and the pool ignores them |
| `connManager.h:284` | "this should not happen, when the size is 0" | it does with the first connection of every pool, without harm |
| `connManager.h:271` | `on_unavaliable`, `on_avaliable` | once the last pool is given up, connections that come back are not heard and nothing makes a pool |
| `timerManager.cpp:90` | "pass in the ID and we will kill the timer" | only the map's reference goes: a timer that the user has a pointer to runs on |
| `net.c:385`, `net.c:457` | "On error the field error in the returned context will be set" (`hiredis.c:671`) | not after the last retry for EADDRNOTAVAIL, a refused SO_REUSEADDR, or an invalid timeout for a Unix socket |
| `hiredis.c:657` | "re-uses the exact same connect options" (`hiredis.h:178`) | a Unix context whose first socket could not be made reconnects over TCP |
| `tcpSocket.cpp:80` | "close after sending the data" | see `Missed`; and `_isClosing` survives a disconnect, so that a reconnected client refuses to send |

### Fairness

* `TaskBase`: a task whose eventfd is readable is dispatched and its handlers
  return; a thread inside `send2task` gets on. Clients need not send.
* `TaskManager`: TASK0's timer expires and its loop runs; workers that do not hang
  process messages. Nothing is assumed of add, delete and set.
* `RedisAsync`: the thread runs, libevent serves both events, `connect` has a result
  (the early event of EINPROGRESS may come, but need not) and the server answers what it received. The user need not do anything.
* `RedisContext`: the thread runs on inside `redisGetReply`, the server answers what it
  received.
* `Loop`: threads get on; nobody needs to call anything.
* `Timers`: the loop's thread runs what is due (libevent serves each event), handlers
  return, the user thread gets on inside a call.
* `Tcp`: the same for each client's two threads; the frame timers of the dispatchers
  expire. The network takes what is written; nothing is assumed of a session's reads.
* `ConnManager`: the application calls `get_conn` again and again.

## 4. Proofs

The theorems hold for all values of the constants that satisfy the named assumption of
the component's module: any number of tasks, threads, commands, channels, timers, pools
and calls. They are proved without fairness. Each `*_proofs` module has an inductive
invariant `Inv` (`WakeInv` for `TaskBase`), made of named parts, one lemma or step per
action, and short theorems that derive the properties from it. Each `Inv` was checked by
TLC on the instance of the component's run before it was proved.

| Theorem | Module | States |
|---|---|---|
| `TypeCorrect`, `NoLostWakeup`, `Refinement` | `TaskBase_proofs` | `TypeOK`, `PromisedIsAwake`, `MailSpec` |
| `RestartHasCause` | `TaskManager_proofs` | `SilentHasCause` |
| `ReplyMatching`, `TopicMatching`, `CallbackOnceProved`, `AssertionsHold` | `RedisAsync_proofs` | `OwnReply`, `OwnTopic`, `CallbackOnce`, `NoAbortIfPlain` |
| `Paired`, `Listens` | `RedisAsync_proofs` | `ConnectDisconnectPaired`, `NeverDeaf` |
| `ConnectionsBounded`, `LookupProved` | `WorkerTask_proofs` | `NoExtraConnections`, `LookupSucceeds` |
| `WellFormedProved`, `IterationProved`, `MapRefinement` | `Dict_proofs` | `WellFormed`, `IterationIsComplete`, `MapSpec` |
| `FreedAfterRun` | `Loop_proofs` | `JoinedBeforeFree` |
| `RoundsProved`, `NoFaultProved`, `SilentProved` | `Timers_proofs` | `RoundsKept`, `NoFault`, `Silent` |
| `ListsProved`, `HandlersProved` | `ConnManager_proofs` | `ListsExact`, `HandlersLive` |

### The arguments

**TaskBase.** `PromisedIsAwake` is not inductive: the swap keeps it only because the
private queue is empty at that point, and a message that is appended keeps it only because
nothing beyond the end of the log has been promised. `WakeInv` adds these facts and that a
task whose `init` was not called has no eventfd. For `Refinement`, the lemmas `ConcatSwap`,
`ConcatAppend` and `ConcatPop` say what happens to a log of three concatenated pieces;
`PopRefines` and `AppendRefines` lift them to all tasks; every action is then a `Post`, a
`Handle` or a stutter. Assumed: TASK0 is a task, tasks are not clients, the counter's limit
is positive.

**RedisAsync.** The invariant follows a command from `redisAsyncCommand` to its callback.
Commands are numbered as they are accepted, and output buffer and wire hold consecutive
numbers (`Pipeline`), so the server answers them in order. The replies on their way are one
stream, `reader \o inbuf`; its answers have increasing numbers and are interrupted only by
what the server sends of its own accord (`StreamOK`). Under `Plain` a command is `Early` if it
was issued before the first subscription. `replies` lists the callbacks of early commands,
and `MatchOK` says that the answers to these, in the stream or still to come, are exactly what
the list waits for; later commands wait in `invalid` until the context ends. What makes
this hard is that the flag which chooses the list belongs to the client and the mode in
which the server answers belongs to the server; `ModesOK` ties both to the first subscription.
`FiredOK` counts: a callback
waits in a list or has run once. `FlagsOK`, `ToldOK`, `FreedOK` and `EventsOK` hold without
`Plain` and give `Paired` and `Listens` for every kind of command; `EventsOK` says that an
event is missing only with an error in a context that is not connected. `Plain` is the condition
of the properties themselves, not an assumption on a constant.

**WorkerTask.** Counting: an address leaves `Live` when a timer enters `Pending` and the
reverse, so that the sum grows with `adds` only (`CountOK`, with the finiteness that
cardinalities need). `SingleOK` says for one connection that there is one context or one
timer, never both, and that `_detail_info` names it; `BeforeOK` is the state before the first ADD_CONN.

**TaskManager.** `SilentHasCause` speaks of the time between two expiries only; the invariant
adds that mailboxes hold nothing but jobs and the worker's own requests (`BoxOK`), that the
bound of a mailbox never turns a request away (`JobsOK`: behind the last request there are at
most `MaxApp` jobs, and `MaxApp < MaxBox`), and that `hb_map` has entries only of workers that are
there or were deleted (`ListedOK`).

**Dict.** The recursive functions come first. `Recursion` shows that a primitive recursion
within a set has a function, `InductionTo` is induction up to a bound; from these come
`HashType` (a hash is a number, so a key has a slot), `NextPower` (`_dictNextPower` leaves
the initial size and its doubles as they are, so the number of its rounds is enough),
`MovedFacts` and `SpreadFacts`. The last two say all that is needed of a resize: the new
table has its entries in the right slots, and its `Content`, the set of entries, is the old
one. Chains are left behind at this point. `Pushed`, `Removed` and `Revalued` say what the
other operations do to the content, and `Shape` follows: `used` is the number of keys, and
there are as many places as keys (`PlacesCount`, a bijection), which is what `_dictClear`
frees.

`IterationIsComplete` is not inductive; `WalkOK` is. It says that an entry in the table was
returned if and only if it is behind the iterator (`Passed`): in a slot before its own, or in
its own slot before the successor that it saved. What was returned and is not in the table
was deleted, so `todo` is what is stored together with what was returned. A deletion moves
the entries behind the deleted one forward, and the saved successor with them
(`DeletedStep`); it is never the successor that is deleted, since the entry that may be
deleted was returned and the successor was not.

For `MapRefinement`, the map is a matter of the content (`MapOfContent`), and each action is
a step of `KeyMap` on it; resizes and iterators are stutters. `Inv` was checked by TLC with
`size = _dictNextPower(size)` in place of `Power(size)`, which quantifies over functions.
Assumed: keys are byte strings, the initial size and `HashMod` are positive, the null pointer
is not a key.

**Loop.** `JoinedBeforeFree` needs to know who is responsible for a run that has not ended:
`_thread` holds it, or the call of `start` that made it is still inside (`OwnedOK`). The
destructor is called by one client when nobody else is in the object (`DestroyOK`).

**Timers.** Nothing is assumed of the users. `LifeOK`, `UserOK` and `CallbackOK` say who may
refer to what. `RoundsOK`: the event of a timer that nobody stopped is there as long as calls
are fewer than rounds, unless it is `mixed` or being started, and one that is being started has its
event. `EventOK` carries `Silent`: `event_free` waits, so that a timer has its event while its
handler runs, but in its last round, and only a fault gives a dead timer an event. `RacedOK`
traces a fault back: to a `stale` event, to a handler that outlived its timer (`Meets`), or to
a `mixed` timer with an event; each of these implies `raced`, which was set when the second
thread came, often several steps before the fault.

**ConnManager.** The methods are operators on the record of all objects, and the invariant is
a predicate on such records, `Good(s, h, x)`, so that the lemma for a method can be used
wherever the method is called: `onConnected` goes through `poolAddConn` and perhaps
`add_pool`, `onDisconnected` through `poolDelConn` and perhaps `del_pool`. In the middle of
`onConnected` one connection `x` is up and not yet listed. The proof needs that ids are
unique (`IdsOK`), that a connection reports to one pool under both ids (`HomesOK`), that
each list holds connections of its side only (`SidesOK`, since `del_conn` looks in one
list), that the handlers on the bus are those of the living pools (`BusOK`) and the contents
of the lists (`ExactOK`). `Junk` may be any set of integers.

`Without`, which stands for `list::remove_if`, is a recursive function. That it exists, and
that it removes exactly the given elements and keeps the rest apart, is shown by induction:
the lemma `Induction` derives induction for sets of natural numbers from the
well-foundedness of `<`, and `FilterExists` builds the function.

### Only model-checked

* All liveness properties: fairness is beyond the prover.
* `SdsText`, `ReplyReader`, and with them `Sds`, `RedisContext`, and `Tcp`, use recursive operators:
  `BlockSafe`, `HoldsTheString`, `TextRoundTrips`, `RepliesInOrder`, `CommandsIntact`,
  `DescriptorsOwned`, `MessagesIntact`. What a parser or a formatter computes for every
  input is out of reach.

## 5. Not modelled

See the components in `PROJECT.json`. Left out on purpose:

* data races that the code's comments exclude (`add_tasks` at run time), memory
  exhaustion, logging;
* in `include/connManager`: data races between the discovery's timer and the user, the
  manager's destructor, and the loop of `getConnInfo` that removes infos while it walks
  over them (the manager's callback always returns the same list);
* `include/heartbeat`: one timer handler that tests, clears and pings, which nothing uses;
* HTTP: wrappers around evhttp without state of their own; the adapters to other event
  libraries: nothing includes them;
* TPKT from the server to the client: `TcpClientTPKT::onRead` dereferences a null view
  when a header arrives in two pieces (line 75) and reads a frame into four bytes
  (line 96), so that it has no behaviour to model for bytes in pieces;
* `listen`, `stop`, `wait` and the destructors of the TCP server (the destructor frees
  the master loop before its listener, `tcpServer.cpp:47`), the destructor of
  `TimerManager`, sending and closing by a session;
* lengths that do not fit a TPKT header or are below four: neither side checks them;
* numbers of descriptors in `Tcp`, and with them the second close at `tcpClient.cpp:88`;
* calls of `sdsIncrLen` that its assertions refuse (no change to a string of type 5);
* `sdscatvprintf`, comparing and case in `sds.c`; 64-bit overflow in `readLongLong`.

## 6. Plan

1. Done: all of the above.
2. Sessions that send and close, and the shutdown of the TCP server.
3. Theorems: `MessagesIntact` of `Tcp`, after `onSessionRead` has been written as a recursive
   function like `Spread` in `Dict`. It needs that the bytes between sender and receiver are
   the frames of the messages that are still to be found, and the arithmetic of a length in
   three digits to any base.
