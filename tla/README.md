# pi-io: TLA+ models and proofs

pi-io is a small libuv-like library (`src/io`) and the hub built on it
(`src/reactive.c`): one thread, one epoll instance, callbacks. The hub forwards
data between TCP clients, a Bluetooth (RFCOMM) peer and a serial device. This
directory models the library's control flow, checks it with TLC and proves with TLAPS
every invariant and action property the runs check.

```
tlc -workers 2 -config LoopAnyClient.cfg MCLoop    # one run; PROJECT.json lists all
tlapm LoopProofs.tla                               # one module of proofs
```

`PROJECT.json` lists the runs, the lines each definition models, a mutated
definition for every checked property, the hazards of the code, what the runs
found, and the theorems.

## 1. The system

| component | code | state | operations | interacts with |
|---|---|---|---|---|
| handles and requests | `io/handle.c` | per handle: `events`, `task`, `req`; per request: `next`, `done`; per loop: `handle_count`, the list of open handles | `io__handle_init/start/stop/req/done/giveup/close` | epoll through `epoll_ctl`; called by everything below |
| event loop | `io/loop.c` | the batch `epoll_wait` filled, the local `task` and `req` pointers, `running` | `io_loop_run`, `_break`, `_close`, `_foreach` | calls `progress_cb` of tasks and requests, which call the user |
| streams | `io/operation.c:15-64, 86-213, 245-268` | `progress`, `offset` of a request | read, write, send, listen, watch | a request is made when the first `write(2)` does not take everything |
| splice | `io/operation.c:66-84, 215-243` | a pipe per task | start, stop, drain | `from` handle, `to` handle; the callback may drain or close |
| publish and channels | `io/operation.c:103-129, 270-329` | a pipe per task and per subscriber, the list of subscribers | start, stop, join, close | one published handle, many subscribers |
| constructors | `io/tcp.c rfcomm.c serial.c file.c inotify.c` | the file descriptor | open, accept, close | `io__handle_init`, `io__handle_close` |
| storage | `utils/storage.c` | a free list threaded through the blocks | segregate, alloc, free, collapse | the hub's read buffers |
| list | `utils/list.h` | links of a ring | add, del, foreach, foreach_safe | open handles, subscribers |
| hub | `reactive.c` | the handles `tcp1..3`, `rfcm`, `serl`, `backup`, whose `fd` is -1 when closed | callbacks | all of the above |

`io/mdp.c`, `channel-test.c` and the `*-test.c` programs are other clients of
the library; `build/` and `utils/build/` are generated.

### What is hard

Nothing runs in parallel (signals apart), so the hazards are of one kind: state
read before a callback, or kept in the kernel, and used after something else has
changed. `PROJECT.json` lists them line by line, with the properties that watch each.

* **The batch.** `epoll_wait` fills an array; a callback for one entry may close
  the handle of a later entry (`loop.c:25-31`).
* **The local pointer.** `req` is read before the task's callback and used after it
  (`loop.c:28-42`).
* **Two copies of a mask.** `handle->events` and epoll's own are kept equal by
  hand in five places.
* **Pointers that are not cleared.** `io__handle_giveup` frees requests and leaves
  `handle->req`; `io__handle_req` overwrites `next`.
* **Partial transfers.** `splice`, `tee` and `write` may move less than they were
  asked to, or nothing; pipes are finite.
* **Client data over the free list.** The free list is in memory that clients write to.
* **Failures half way.** `accept` fails after the old connection has been closed;
  `pipe` fails after `accept`.
* **Names of closed files.** A descriptor is the lowest free number, so the number a
  handle kept after its file was closed is soon another connection's.
* **Signals.** SIGINT closes every handle at any point of the loop; another thread may break it.

### What makes each component correct

* Handles: epoll watches an open handle for exactly the work it has, and a closed
  one for nothing; the count is the number of open handles; the request list of
  a handle is a queue.
* Loop: nothing freed or NULL is read unless a callback has taken away what the loop was
  about to look at; the request retired is the request run; every request is served.
* Splice and channels: order, no duplicates, no loss beyond what the code
  discards on purpose; nobody is stuck for ever; descriptors are given back.
* Storage: no block is handed out twice, none is lost.
* Streams: each byte of a write is taken once and in order, and the callback is told the truth.
* The end of a loop: a loop that is told to end ends, every handle is closed, nothing is torn.
* Hub: bytes go to the connection they were meant for; a block is free or in use,
  never both; `fd` says whether a handle is open.

## 2. Modules

| module | models | kind |
|---|---|---|
| `Handle` | `handle.c`, with epoll's interest list | actions over handles; no Next of its own |
| `Loop` | `loop.c` with an arbitrary client; EXTENDS `Handle` | specification and properties |
| `RequestQueue` | what the request list promises | abstract specification |
| `Ring` | `utils/list.h` | operators, no state of its own |
| `Shutdown` | `io_loop_break`, `io_loop_close`, `io_loop_foreach`, the SIGINT handler; EXTENDS `Ring` | specification and properties |
| `Stream` | writes and sends, byte by byte | specification and properties |
| `Splice` | `splice_progress`, `io_splice_start`, `io_splice_drain`, with the reconnects and the accept failures of `reactive.c` | specification and properties |
| `Channel` | `publish_progress`, joining and closing a channel | specification and properties |
| `Storage` | `storage.c` with clients that write into their blocks | specification and properties |
| `BlockPool` | what the storage promises | abstract specification |
| `Hub` | `reactive.c` | specification and properties |
| `LoopProofs`, `QueueProofs`, `StorageProofs`, `SpliceProofs`, `ChannelProofs`, `StreamProofs`, `HubProofs`, `ShutdownProofs` | | proofs |
| `MCLoop`, `MCShutdown`, `MCStorage`, `MCChannel`, `MCHub` | | instances for TLC |

An operator called a slip in its comment is a plausible mistake in the code next
to it; the mutants of `PROJECT.json` put it in place of the real one, and the run must fail.

### Handle and Loop

The state is the code's: `events`, `task` (only whether there is one: every task
waits for `EV_READ`), `req`, `next`, the list of open handles as a set, and the
count. `interest` is the mask the kernel holds, and `epoll_ctl` fails as the
kernel makes it fail: ADD for a registered descriptor, MOD and DEL for an
unregistered one. `heap` says which request blocks are allocated, so that a use
after free can be seen. Request blocks are reused.

`Loop` is `io_loop_run` with one action for each stretch between two callbacks:
`EpollWait` (any array of up to `MaxEvent` reports on distinct handles),
`Dispatch`, `TaskReturns`, `SkipRequest`, `PartialProgress`, `FinalProgress`,
`RequestReturns`, `NoMoreRequests`. While `pc` is a callback (or `main`, before the loop
runs), the client may call any library function on any handle, any number of
times. Reading `task->event` through NULL, or `req` after its block was freed,
leads to a fault state; nothing is claimed after it. `EPOLLHUP` is left out: no
line tests it, and the files used here report `EPOLLIN` with it.

The client may be restricted by `Rules`:

| rule | the client | broken by |
|---|---|---|
| `own` | stops or closes a handle only from a callback about it | `reactive.c:149` |
| `idle` | does not stop or close a handle that has a request | `io-tcp-test.c:28`, `reactive.c:50` |
| `tasked` | makes requests only on a handle that has a task | a connection whose task could not be started (`Hub`) |
| `two` | never has more than two requests on a handle | `io-tcp-test.c:36`, `reactive.c:104` |
| `calm` | makes no request on a handle from the callback of one of its requests | none seen |

The programs of the repository break rules, so the restricted runs show what
the library needs from a client, not that the programs are safe. The
properties split accordingly: what holds for every client, and what needs rules.
`Hub` says what becomes of the program that breaks them.

`NoFault` needs three rules. `FaultsExplained` says what is left without any: the history variables
`closed` and `stopped` keep the handles that callbacks closed or stopped since `epoll_wait` filled
the batch, and a fault is always about one of those, or about a handle with requests and no task. That
is a claim about `handle.c`: a mask that stayed armed after the last request, or a callback
that emptied the list of another handle, would make the loop fail on a handle nobody touched.

`calm` is there because of `loop.c:33-42`: once a request has completed, the loop goes
on with the next request of the same handle without asking epoll. A `write_cb` that
writes again finds its new request run at once, for ever if the peer keeps
taking data (or if the connection is broken: an error counts as a completed write), and
no other handle is served. Without the rule TLC refutes `RequestServed` with three
requests; with two, one of each handle, the rule makes no difference.

### Ring and Shutdown

`Ring` gives every function of `list.h` as an operator on the memory of the links,
and the stores of `list_add` and `list_del` one by one. A walk (`list_for_each`) is not a
recursive function but a predicate: `Meets` says that going along the links from the head meets the
entries of a given sequence and is then back at the head, and `IsRing` that both directions do so.
`Shutdown` uses it for the loop's list of handles, and for how a loop ends:

* SIGINT (`reactive.c:202`, and every test server) runs `io_loop_foreach` over the list and
  closes each handle. It may arrive between any two stores of `io__handle_init`
  or `io__handle_close` and any two steps of `io_loop_run`. The handler runs to its end before
  the interrupted code goes on. The stores are in the order of the source; a compiler may
  choose another, which the model does not have.
* `io_loop_break`, from another thread: `running = 0`, then SIGUSR1. No program here
  installs a handler for SIGUSR1, so both cases are in `Init`: without one, the process
  is killed.
* `io_loop_close` in a callback.

The history variable `untimely` names the moments at which nothing can be
promised: `torn` (in the middle of a list operation), `stale` (in the middle of a batch),
`missed` (after the loop's condition, before `epoll_wait`: nothing wakes it),
`early` (`io_loop_run` then sets `running` again), `reopened` (a callback opens another
handle). Each property excuses exactly the moments it has to: `ClosesAll` and `RingWhole`
only `torn`, `NoCrash` only `stale`, `Stops` the other four. Leaving any of them out of the
excuse makes TLC find the behaviour.

### Stream

One open handle, and the writes and sends made on it. A byte is identified by its write
and its index, so `file` tells which bytes the handle took and in which
order. `io_write` and `io_sendall` try at once, even while requests wait; the rest is left to
`write_progress` and `send_progress`, which the loop of module `Loop` runs. What the code
does is in the actions, and where a caller would not expect it, the property says for whom it holds:

* after EWOULDBLOCK `progress` goes down by one (`operation.c:37`), and the byte before is sent
  again, for the first byte one in front of the buffer: `InOrderOnce` holds for writes
  that never met it;
* a failed write completes with the full length: `TakenWhenTold` claims nothing on a broken connection;
* a request of a send cannot succeed (`operation.c:50`): it takes no byte, and completes with the full
  length or, as `errno` happens to be, is tried again;
* new writes overtake waiting ones (`overtook`): `InTurn` needs that not to happen.

### Splice and Channel

Data are numbered units; a unit stands for any number of bytes the kernel moves
together. A call moves up to `SpliceSize` units, limited by the room in the
pipe. A destination whose fd is -1 refuses everything; an open one takes
any part of what it is given, or nothing. The code loses and keeps different
things depending on whether that has happened, so `Splice` remembers it in a
history variable, `faltered`, and its properties say which of them need it to
be false. (In `Channel` it is a constant, `Falters`.) `Splice` also counts
descriptors: `leaked` is the number of pipes whose task is gone.

`Splice` models the hub's `new_tcp1_conn` whole, so its outcomes are there:
accepted and forwarded, accepted without a pipe (`NewConnection`), accept
failed with or without a previous connection to close (`AcceptFails`). After
a failed accept that had one to close, `tcp1.fd` still names it (`conn` is
"stale"), and the next connection closes the handle a second time
(`ClosesAgain`), after which its links are NULL; the model stops there. What
the whole program does from there is in `Hub`.

In `Channel` the client acts only between two calls of `publish_progress` and in
`pub_cb`, where `EndsItself` says whether it closes the published handle at its end
(`reactive.c:177-181`). The hub's channel callbacks only print, so joining or
closing from inside one is not modelled.

### Storage

A block is its index. `word` is the first word of each block: a link while the
block is free, the client's data while it is held, and `Store` writes anything into
it, even something that looks like a link. `Overruns` lets a client write
one byte past its block, as `reactive.c:103` does when a read filled it.
The loop of `segregate` is modelled step by step. A `malloc` that fails, and
`pcount` 0, are outside the assumptions: the code checks neither.

### Hub

The program itself: four listeners, the watch of `/dev`, the connections they accept,
the serial line, and the pool. A step serves one event with every callback it
runs; operators are named after the C functions and map a state of the program to the
states it may leave. What is kept is what decides where bytes go: the `fd` of each handle, which
connection a descriptor really is (`owner`, the lowest free number is given out),
the list of handles, tasks, requests, the free list, and the first byte of each block.

The free list is a sequence of blocks. A free block begins with a link, whose first byte is
`LowByte`: on a little-endian machine, the lowest byte of an address; blocks are 512 bytes apart
in what `malloc` returns, a multiple of 8, so it is the same for all of them and neither
`L` nor `C` (`HubAssumption` says so). The newline of `reactive.c:103` is stored where the code stores it: at
the start of a block when nothing was read, and, behind a full block, in the first byte of the
next one. If that block is free its link is damaged: what comes after it in the list is lost, and the list
is `torn`, since it ends in an address that is no block and not NULL. When `storage_alloc` gives that
address out, the next access is to memory that is not the program's.

`batch` holds what `epoll_wait` saw, and `left` how many events it may still have; events are
chosen as they are served, which gives every subset in every order. Later in a batch
only events of links matter (a listener's are the same in the next batch). A link
served late may have been closed or replaced since: then the event is
stale, and a read that would block waits for the bytes.

What may go wrong: an accept after the old connection was closed (`stale`), the start of a
task (`mishaps`), both bounded by `MaxMishaps`; running out of descriptors,
unbounded; the peer ends the connection before the program writes to it: SIGPIPE, which
nothing ignores, ends the process.

`pc` is "crashed" from the moment the program uses memory that is not its own: a task or a link read through
NULL, a request or a task read after it was freed, a damaged link followed. The code may well run
on for a while after such an access; nothing is said of it then.

The properties excuse the failures by name. `FdTells` exempts the links whose accept
failed; `RightConnection` says misdirected bytes happen to those links only;
`NoCrash` names what must have happened before a crash: an accept or a start failed, a link was closed in
its own callback with requests waiting ("busy"), the serial line was closed in `data_published`, after which
`publish_progress` reads the freed task ("freed", `operation.c:120`), or the free list was torn.
`CommandsWereSent` excuses the torn list only. `BlocksKept` names the ways a block is
lost while the program runs: `tcp2` is closed with requests, a third request replaces the second, `tcp2.fd` is the number
of a closed file, or the newline cuts the list.

## 3. Runs

| run | instance | states | shows |
|---|---|---|---|
| `loop_any` | 2 handles, 3 requests, batches of 2, no rules | 771 805 | the invariants of `handle.c` and `loop.c` for any client; only the second request can be dropped; what a fault needs |
| `loop_careful` | 2 handles, 2 requests, batches of 2, all rules, fairness | 24 613 | no fault, no request lost, lists implement `RequestQueue`, every request is served |
| `storage` | 4 blocks | 27 607 | free list sound, implements `BlockPool` |
| `splice` | pipe of 3, calls of 2, 5 units, 9 descriptors | 12 862 | order and no duplicates always; nothing left over and nothing lost until the destination falters; a full pipe stays full |
| `channel` | 2 subscribers, pipes of 2, calls of 2, 4 units, falters | 41 371 | bounds of the pipes, order, who keeps up gets everything, who does not is cut off |
| `stream` | 3 writes or sends of up to 2 bytes, 1 EWOULDBLOCK each | 237 264 | bytes in order and once, callbacks told the truth while the connection is whole, nothing after the callback |
| `shutdown` | 3 handles, 3 opened, 2 signals, fairness | 827 748 | list whole, functions of `list.h` agree, walk closes all, loop ends |
| `hub` | 3 blocks, 3 descriptors, batches of 2, 1 mishap | 1 181 967 | where bytes go, what `fd` says, where blocks are |

Runs that TLC must find violated; each is a finding in `PROJECT.json`:

| run | what happens |
|---|---|
| `loop_close_busy` | a callback closes its handle while a request is pending; the loop reads the freed request |
| `storage_overrun` | the newline written past a full block breaks the free list |
| `splice_fds` | each reconnect leaks a pipe, until a connection is accepted and never served |
| `channel_ends` | the published handle ends, its callback closes it, the freed task is read |

Some properties hold and are bad news. `StuckWhenFull` (`splice`) and `CutOffWhenFull`
(`channel`): data that fill a pipe stay there although the destination is writable again.
`DropsOnlyTheSecond`: a third pending request makes the second unreachable, and nothing else does.
They state the behaviour because it is what a client must know and no line of the code says it.

**Bounds.** Two handles are what it takes for one callback to disturb another
handle's event or list; three requests are one more than a list can hold, so the
overwrite of `next` occurs. A batch of two is the smallest in which
an event can be about a handle that is closed meanwhile, and a handle appears in a batch once. The invariants of the loop are also proved
without bounds. Four blocks give free lists of every
length up to 4 in every order. `SpliceSize` 2 and a pipe of 3 leave room for a
call that is cut short, in `Channel` a pipe of 2 one that does not fit;
5 and 4 units are enough to fill a pipe, take from it and fill it again. Nine
descriptors allow four leaked pipes. In `Stream` three writes are one running, one waiting and
one that replaces it, and two bytes can be cut in two. Three handles make a walk that can
miss a middle, a first or a last entry; the second signal finds what the first left.
In `Hub` three descriptors are fewer than the five links, so a number is reused
and they run out; three blocks are two requests and one for the next read, the
least for which `AlwaysABlock` holds (`HubAssumption`; `reactive.c:221` makes twelve);
`LowByte` is 16, one of the values the assumption allows;
one mishap is what every excuse of a property is about, and a second would
only weaken the ground the first prepared.
`CHECK_DEADLOCK FALSE` because the programs
may stop: when the last handle is closed, at a fault, at the bound on units or writes, or
when the storage is gone.

**Symmetry** is used in `loop_any`, `loop_close_busy` and both `channel` runs, whose
properties are invariants and action properties; the runs with liveness have none.

**Fairness.** `Loop!FairSpec` (`loop_careful`). Weak fairness of the loop's steps:
the thread runs and callbacks return. Strong fairness that a handle that stays
writable is reported writable: epoll hands out its ready list in rotation, so when
more handles are ready than the array holds, each gets its turn. Strong fairness of
`FinalProgress` per handle: a peer that goes on reading lets a write that is
tried again and again finish. The client has no fairness: it need never act.
`Shutdown!FairSpec`: weak fairness of the main thread, of the handler, and of the second half of
`io_loop_break`. Events and signals need never come; that is why a signal just before
`epoll_wait` can go unnoticed.

## 4. Proofs

For any finite set of handles, any set of requests, any `MaxEvent` and any `Rules`; any number of
blocks (in `Hub`, more than two); any sizes of calls and pipes, units and descriptors; any set of subscribers;
any number of writes, lengths and refusals, of signals and mishaps. The eight modules of
proofs rest on the assumptions named in the modules they are about, and on nothing else.

| theorem | statement |
|---|---|
| `LoopProofs!TypeCorrect` | `Spec => []TypeOK` |
| `LoopProofs!WatchedForWork` | `Spec => []ArmedForWork` |
| `LoopProofs!ListsSound` | `Spec => []QueuesSound` |
| `LoopProofs!CountsOpen` | `Spec => []CountsOpenHandles` |
| `LoopProofs!CompletesFirst` | `Spec => []CompletesTheFirst` |
| `LoopProofs!NoneLost` | with `two`, `Spec => []NoRequestLost` |
| `LoopProofs!CarefulClientSafe` | with `own`, `idle` and `tasked`, `Spec => []NoFault` |
| `LoopProofs!FaultsAreExplained` | `Spec => []FaultsExplained`, for any client |
| `QueueProofs!QueueImplemented` | with `two`, `Spec => ImplementsQueue` |
| `QueueProofs!OnlyTheSecondIsDropped` | `Spec => DropsOnlyTheSecond` |
| `StorageProofs!TypeCorrect` | `Spec => []TypeOK`, overruns or not |
| `StorageProofs!FreeListIsSound` | without overruns, `Spec => []FreeListSound` |
| `StorageProofs!PoolImplemented` | without overruns, `Spec => ImplementsPool` |
| `SpliceProofs!TypeCorrect` | `Spec => []TypeOK` |
| `SpliceProofs!DeliveredInOrder` | `Spec => []InOrder` |
| `SpliceProofs!NoneLeftBehind` | `Spec => []NothingLost` |
| `SpliceProofs!StaysStuck` | `Spec => StuckWhenFull` |
| `ChannelProofs!TypeCorrect` | `Spec => []TypeOK` |
| `ChannelProofs!SubscribersInOrder` | `Spec => []InOrder` |
| `ChannelProofs!KeptUpMissesNothing` | `Spec => []KeptUpGotAll` |
| `ChannelProofs!FullIsForGood` | `Spec => CutOffWhenFull` |
| `StreamProofs!TypeCorrect` | `Spec => []TypeOK` |
| `StreamProofs!BytesInOrderOnce` | `Spec => []InOrderOnce` |
| `StreamProofs!ToldIsTaken` | `Spec => []TakenWhenTold` |
| `StreamProofs!WritesInTurn` | `Spec => []InTurn` |
| `StreamProofs!BufferIsClients` | `Spec => NothingAfterTold` |
| `HubProofs!TypeCorrect` | `Spec => []TypeOK` |
| `HubProofs!FdIsTrue` | `Spec => []FdTells` |
| `HubProofs!BytesGoWhereMeant` | `Spec => []RightConnection` |
| `HubProofs!OnlySentCommands` | `Spec => []CommandsWereSent` |
| `HubProofs!CrashesAreExcused` | `Spec => []NoCrash` |
| `HubProofs!BlockForTheNext` | `Spec => []AlwaysABlock` |
| `HubProofs!BlocksAreKept` | `Spec => BlocksKept` |
| `ShutdownProofs!TypeCorrect` | `Spec => []TypeOK` |
| `ShutdownProofs!ListStaysWhole` | `Spec => []RingWhole` |
| `ShutdownProofs!ListFunctions` | `Spec => []ListFunctionsAgree` |
| `ShutdownProofs!NothingThroughNull` | `Spec => []NoCrash` |
| `ShutdownProofs!WalkClosesAll` | `Spec => ClosesAll` |

**Argument for the loop.** None of the invariants is inductive alone. That epoll's
mask mirrors the work of a handle is preserved by `io__handle_req` only if the
list is really empty when `req` is NULL; that a list is sound is preserved by
`io__handle_done` only if what it frees is what the loop ran; and that depends on
what the loop knows of its local pointer. `IInv` therefore adds to the
properties: `Links` (a list is at most two long, without a loop, in allocated
blocks), `Disjoint` (two open handles share no request), `ClosedIdle` (a closed
handle has no task) and `LocalReq` (while the loop holds a request, it is on the
list of the current handle, which is open; it is the first one when the event
is writable; a request is marked done only while its callback runs). `Chain`, the transitive
closure of `next`, is shown equal to the two-element set `Listed` under `Links`, so
the induction reasons about two pointers. There is one lemma per action.

`NoneLost` is inductive on top of `IInv`: a request leaves a list only when it is
freed (`io__handle_done`, `io__handle_giveup`) or overwritten (`io__handle_req` on a list of
two), and the rule excludes the last. `RequestLists` and `RequestReturnsLists` say what
the two ways to change a list leave on it.

For `FaultsAreExplained` the invariant `Explained` says of the rest of the batch that each handle still has a task or a
request (`BatchBusy`), unless it is in `closed` or `stopped`: true when the batch is filled, because epoll
reports only handles with work (`Watched`); kept by the client's calls (`ClientLeavesBusy`), and by
`io__handle_done` because the handles of a batch are distinct. That a dangling pointer means the current
handle was closed uses `Disjoint`. For `CarefulClientSafe` the three rules add that every watched handle, and
every handle of the rest of the batch, has a task, and that nothing is dangling.

**Argument for the queue.** Under `IInv` the two pointers of an open handle give `QueueOf`
its at most two elements, so each step of `Loop` is a step of `RequestQueue` or a
stutter: `Request` appends (to a list of one, which is what `two` says), `RequestReturns`
takes the first away, closing gives up the whole list, and everything else leaves it alone. One
lemma per kind of step. `OnlyTheSecondIsDropped` follows the same steps without the rule.

**Argument for the storage.** `FreeListSound` says there is a sequence that walks
the list; each step exhibits the next one: its tail after `storage_alloc`, a block in
front after `storage_free`, the same one after a client's write, because the
blocks of the list are exactly those nobody holds. `Linking` says what `segregate` has linked so far.

**Argument for the splice.** `InOrder` is about what has been delivered followed by what
is in the pipe, so moving units from one to the other changes nothing (`MovedOver`) and
draining cuts a piece out of an increasing sequence (`CutIncreasing`). What is missing is that new
units are larger than all of these: `Bounded`. That every unit is accounted for needs `PipeEmptyBetween`, since
what a call leaves in the pipe would be neither delivered nor discarded; then what a call reads is
exactly what it delivers or drains, because a call reads at most
`SpliceSize` and a drain takes that much. `IdleEmpty` (no task, no pipe) is needed for `StuckWhenFull`:
a full pipe has a task, so a new connection makes one more pipe leak. The
lemmas `Arrived`, `DeliveredKeeps`, `FailedKeeps` and `Emptied` are the four things that can
happen to the pipe.

**Argument for the channel.** `Served` says of one subscriber what `InOrder` and `KeptUpGotAll` say of it, in
terms of the units offered to it since it joined; `Offered` is that number in the middle of
`publish_progress`, when some subscribers have been visited and others not. The
pipe of the task holds exactly the units the first `splice` moved (`PipeIsNews`), so what the
`tee` of the next subscriber copies is the next piece of the numbers (`TeedIs`, `NumbersJoined`).
`ServedAtFirst` and `ServedLater` are the two ways in which a subscriber's share may grow.

**Argument for the streams.** What a request still has to write is named by its `progress`, so the invariant says
how that is related to the bytes taken: it lies between what the refusals have subtracted and the length, and what
it counts has been taken (`ProgressTrue`). `InOrderOnce` then needs that the next
bytes go on where the last ones stopped (`GoesOn`). `TurnSoFar` (nothing newer than the first request was taken)
is what makes `InTurn` inductive, and `Waiting` (requests are in order, their callbacks have not run)
survives the request that is dropped when a third one is made. `Fresh`: a write not made yet has left no trace.

**Argument for the hub.** A step of `Hub` is a composition of operators on whole states, so the
invariant is a predicate of such a state, `Good`, and there is one lemma per operator: from a good state
it leaves good ones, and takes nothing back that a caller counts on (`Later`). In a
callback the link it is about may be half way between closed and opened; `Good(H, X)` allows that for the
links in `X`. The core is `Named`: a handle of the list and its descriptor name each other, and every open
descriptor has such a handle. That gives `FdTells`, and that bytes go wrong only where an accept has failed.
`CommandsWereSent` follows from what the pool keeps: each free block begins
with a link, or with a link the newline has damaged (`Pool`): the low byte of an address, 0, or a newline. So the block
read at the end of a connection cannot begin with a command, unless it is no block at all. For `BlocksKept`, what a cut takes
from the list are the blocks behind the one the newline hit, which is next in memory to the block just read into (`BehindNext`). `BlockForTheNext` counts: at most two
blocks wait, and a third one is free unless blocks were lost.

**Argument for the end of a loop.** The list is shown to be a ring by its links as functions: a `Circle` is a ring given by
a sequence of all its nodes, and `AddCircle`, `DelCircle` say what the stores of `list_add` and
`list_del` make of it. `RingAdd`, `RingDel` and `RingSplice` say the same of `IsRing`, and give
`ListFunctions` for lists of any length. The interleaved part needs the middle of an operation: `ListSound`
relates the links there to the whole list before it (`Adding`, `Deleting`: which stores have been made,
`AddedUpTo`, `DeletedUpTo`). While the handler walks, the list is whole and the walk is at its first entry
(`WalkIsAtFirst`: each entry is closed when it is reached), so the walk ends when the list is empty, which is
`ClosesAll`. After a signal in the middle of a batch the loop may close a handle a second time (`DeletingAgain`);
its links are NULL. `Moments` and `BatchOpen` say
that these states follow only from the moments `untimely` names.

**Model-checked only.** `RequestServed` and `Stops`: liveness under fairness, which also needs
ENABLED, is out of reach of the provers at hand. Every other property of a passing run is a theorem. What the
four runs with a violation show is a counterexample, and needs no proof.

## 5. What is not modelled, and the plan

All the modules planned are written, and what they check without liveness is proved. To come:

| content | hazards |
|---|---|
| the descriptors of channels and the failure of `io_publish_start` | `operation.c:285`, `:309` |

Left out for good:

* name resolution, termios, socket options, SDP, the set-up in `main` and the opening of
  servers, files and inotify: calls of the kernel before the loop runs, whose only
  effect on the state modelled is `io__handle_init`;
* `io_watch_stop` and `io_splice_stop`, which no program calls; the other stop functions are `io__handle_stop`;
* `io/mdp.c`, `channel-test.c` and the tests: clients of the library, whose calls are among
  those the client of `Loop` may make;
* an `epoll_ctl` that fails for want of memory, except where `Hub` starts a task; logging; the contents of
  the log file; `RET_IF_ERR` and its siblings except where they decide the next step.

Hazards without a property, each with its reason in `PROJECT.json`: a failing
`io_publish_start` (`operation.c:285`), the pipes of closed channels (`operation.c:309`), SIGPIPE (`operation.c:150`), and
the two ways in which a send goes wrong (`operation.c:50`, `:52`): `Stream` does what the code does there, and a
property could only repeat it.

Abstractions a reader should know of: every task waits for `EV_READ` and every
request for `EV_WRITE`, as all the code does, so the branch of `io__handle_done` for
requests with different events (`handle.c:92-98`) is never taken and is not in the
model; an unsuccessful `epoll_ctl` in `io__handle_start` is a step that changes nothing.
In `Stream` a handle is never closed with bytes waiting; that is `Loop`'s subject.
