# A TLA+ verification of zcm

This directory models the parts of zcm in which threads, processes, messages and
crashes meet: the lock-free shared memory queue, the threads of the blocking
layer, UDP reassembly, the serial framing under the nonblocking layer, the log
files and the logger. TLC checks each model on small instances. TLAPS proves
the safety of the lock-free code, of opening shared memory, of the ring buffer, of
the blocking layer and of the logger for every instance.

## The system and its modules

A program publishes and subscribes through `zcm.c`. Below it, either the
*blocking layer* (threads and queues) or the *nonblocking layer* (a poll loop, no
threads, for embedded targets) drives a *transport*: shared memory, UDP, a serial
line, a log file. The logger is a program on top.

| code | modules |
|---|---|
| `lockfree/lf_pool.c` | `PoolSpec` (promise), `LfPool`; `LfPoolProofs` |
| `lockfree/lf_bcast.c`, sending and receiving in `transport_ipcshm.cpp` | `BcastLog` (promise), `LfBcast`; `LfBcastProofs`, `LfBcastSafety` |
| `lockfree/lf_shm.c`, `mem_init` and `mem_join`, constructor in `transport_ipcshm.cpp` | `ShmOpen`; `ShmOpenProofs` |
| `util/queue.hpp` | `Fifo` (promise), `RingQueue`; `RingQueueProofs` |
| `blocking.cpp`, `util/threadsafe_queue.hpp` | `Blocking`; `BlockingProofs`, `BlockingFlush` |
| `transport/udp/` | `Udp` |
| `generic_serial_circ_buff.c`, `generic_serial_transport.c`, `nonblocking.c` | `CircBuff`, `GenericSerial`, `Nonblocking`, each extending the one before |
| `eventlog.c`, `transport_file.cpp` | `EventLog` |
| `tools/cpp/logger/main.cpp` | `Logger`; `LoggerProofs` |

`MC*` modules instantiate a specification for TLC. `PROJECT.json` maps every
definition that models code to its lines, and lists runs, mutants, hazards and
theorems.

**LfPool.** A step is one access to shared memory. `head`, `link` and `tag_next`
are the pool's memory; `cur`, `nxt`, `elt`, `pc` the locals of a call. The build
loads a 128-bit reference as two 64-bit halves, so each such load is two steps,
either half first. `Scribble` is a caller that overwrites the link of an element
it holds. Loads and stores of different objects keep program order.

**LfBcast.** The same grain, for `sendmsg` (acquire a buffer or take the oldest
queued one, fill it, publish, wake) and `recvmsg` (read the slot, copy, ask
afterwards whether the copy is good). The pool is used through the atomic
operations of `PoolSpec`, which `LfPool` is shown to implement. `LoadOrders` says
which of `head_idx` and `tail_idx` the build loads first. A publisher may crash at
any access; `leaked` holds what it had acquired. The futex compares indices modulo
`FutexMod` (2^32).

**ShmOpen.** Processes whose urls ask for different layouts run the constructor
at once, die anywhere, and may find the system refusing a call; somebody may
`rm` the file. A region is zeros until `mem_init` writes it. The stores of one
function may become visible in any order.

**RingQueue.** `queue`, `front`, `back` and `capacity` are those of the class; a
cell without a constructed element holds `Garbage`.

**Blocking.** User threads call the API while the send, receive and handle threads
run. Sending and receiving are two sides that work alike. A critical section that
touches only what its mutex protects is one step; the waits on the pause
conditions are two, because `flush` and `setQueueSize` notify without the mutex of
the predicate. One subscription takes every message.

**Udp.** Packets stay on the network for ever, so they can be lost, doubled and
reordered. A payload byte is a pair of message and place, so a byte of another
message or of a recycled block shows. `inuse` counts the blocks of each free list.

**CircBuff, GenericSerial, Nonblocking.** Rings of bytes with their indices;
frames with escapes and checksum; the table of subscriptions and the loop of
`dispatch_message`, during which a callback may subscribe and unsubscribe. The
device moves any number of bytes at a time, and may lose some. The length of the
data is one byte of the header instead of four. A regex is its prefix.

**EventLog.** A file is a sequence of four-byte words; a writer with a stdio
buffer dies and appends again, while the file is read by calls or by the file
transport. Reading backwards and seeking are operators, evaluated on every file
the actions reach.

**Logger.** Two shards queue events, the main thread writes, splits, rotates and
cycles files, a controller repeats its requests, and signals run their handlers on
any thread. An event takes one unit of memory and of file.

## Runs

| run | shows | bounds, and why they are enough |
|---|---|---|
| `pool` | the inductive invariant of the pool (one owner per element, the free list intact), `NULL` only if the pool was empty during the call, `PoolSpec` implemented, every call returns | 2 threads, 2 elements, 6 operations: an ABA needs two elements and one thread that pops and pushes both while the other is between load and swap |
| `bcast` | every queued message in its slot, nothing published twice; no wakeup lost; `sendmsg` starves only if the queue is too small for publishers and leaks; `BcastLog` implemented | 2 publishers, 1 subscriber, depth 2, 4 messages, 1 crash: the third message reuses a slot and rolls off a message that is being read, with the fourth two publishers race to roll off the same one. After a crash or with the fourth message only the publishers go on (`OneAtATime`); `bcast_live` and `MCLfBcastMore` have a subscriber that goes on after a crash |
| `bcast_live` | a subscriber catches up although the publisher dies before it wakes anybody and the futex word wraps; messages are kept as long as they can be | 4 messages, `FutexMod` 2: the word wraps twice |
| `ring` | the ring is a FIFO and touches only live cells | capacities 1 to 6, wrap-around and growth from every position |
| `blocking` | messages in order and once; pause holds; `flush` sends everything; no thread overwritten or joined twice | 2 users with 3 calls or 2, queue of size 2 so that it fills and blocks |
| `blocking_live` | calls return, `run` gets out of its waits, what is published is sent | three programs of up to 3 calls per user, among them every call but `handle` |
| `udp` | only whole messages; no block lost or freed twice; an undisturbed message is delivered | 2 senders, 3 messages of 1 to 3 fragments, sequence numbers modulo 2, 2 assemblies |
| `logger` | events in order across splits, cycles and rotation; one cycle per request, truly reported; SIGINT and requests served | 2 shards, 3 arrivals, 1 mishap (a signal or a failing call), all three naming modes |
| `eventlog` | reading while the file grows, resynchronising after a tear, seeking by time | up to 4 events, payloads that look like a magic or are as long as a record (`MCEventLogMore` also has events without data), 1 crash, 1 end of file met |
| `nonblocking` | frames sent whole, delivered in order and in the end; the ring never wedges; each subscription called once | a ring of 13 for frames of 6 to 12 bytes, so that they wrap in every place; 1 lost byte; table of 3 |
| `shm_open` | a region is joined only with its indices and layout written, and a finished one refuses no fitting url | 3 processes, 3 layouts, 2 files, 1 crash, 1 refused call |
| `eventlog_play` | *violated*, see below | |

Seven companion configurations check, on the same instances, the inductive
invariants of the proofs, type invariants and properties of less weight:
`MCLfBcastMore` (the invariants of the queue's proofs, with 3 messages and without
the constraint of `bcast`), `MCBlockingMore` (`FlowOrDied`, `ThreadInv`
and `FlushInv`),
`MCUdpMore` (assemblies consistent, memory within budget), `MCLoggerMore`
(`LoggerInv`, cycles refused only while one is pending, rotation in order, the queue
drained), `MCEventLogMore` (reading back events that contain a magic, stepping back,
pacing), `MCNonblockingMore` (no read behind the ring's contents, the table tight,
the enabled channels exact) and `MCShmOpenMore` (`ShmInv`, and a region is
initialised once). TLC finds no error in any of them.

Every property of a passing run has a mutant in `PROJECT.json`: a plausible bug in
one definition with which TLC finds the property violated. The mutants are the
definitions with a suffix (`PubCas_Store`, `Plausible_Any`).

Deadlock is checked in `ring`, `udp` and `nonblocking`, whose behaviours never
end. In the others the bounds on operations, messages or calls run out, and the
model stops there as the program would wait for more.

## Fairness

* `LfPool`, `LfBcast`: some thread that can run does, and every subscriber does. A
  timeout that was set runs out. No publisher is favoured: the code is lock-free
  and not wait-free.
* `Blocking`: the scheduler runs every thread that can run. Condition variables
  may wake up for no reason, but not for ever. Nobody has to make a call.
* `Nonblocking`: both programs poll in a loop, and the device takes bytes and
  hands them on; a poll may come too early for a byte, but not always. Fairness is
  stated on the part of each action that decides whether it can happen.
* `Logger`: the scheduler runs the main thread and the shards. Messages, requests
  and signals need never come.

## Proofs

`tlapm` checks all of the following for every value of the constants, from the
named assumptions on them only. These say that sizes and bounds are natural
numbers and not 0 where the code divides by them or needs room, that threads and
users have different names, that publishers are finitely many, that a resize of the blocking layer's queue does not
shrink it, and that one of the logger's shards gets the requests. Bounds on
messages, crashes, calls and failures are constants as well, so each theorem holds
for behaviours of any length.

*The pool* (`LfPoolProofs`). `OneOwner` and `ChainIntact` are not inductive: they do
not say why a compare-and-swap with an old head cannot succeed. `PoolInv` adds that
a tag is never used twice, by a free element, a pending release or a head somebody
has loaded (`TagsFresh`); that what an acquirer has loaded of the next link is right
whenever its head is that of a free element (`SnapshotCurrent`); that a releaser
owns what it is about to install (`ReleaseLocals`); and that a half-loaded `NULL`
was seen (`EmptySeen`). From it follow `PoolOwners`, `PoolChain`, `NullOnlyIfEmpty`
and the refinement `PoolRefinement`. Tags are unbounded: the code's 64-bit tag would
have to wrap during one call.

*The queue.* `QueueInv` adds to `Window`, `SlotsIntact`, `OneOwner` and
`QueuedDataWhole` what publishers and subscribers know: that their indices are old
values of `head_idx` and `tail_idx`, that a slot a publisher has found old belongs
to a message that has been rolled off (`PubLocal`), and that what a subscriber has
loaded is right as long as its message is queued (`SubLocal`). `LfBcastProofs` proves
first the arithmetic of slots and indices, types and what a step leaves alone; then that
every step keeps `QueueInv`, and that each is a step of `BcastLog` or a stutter
(`QueueRefinement`). `LfBcastSafety` builds on it. `QueueOnce` needs that a message
is one publisher's until it is committed (`MsgsApart`). `QueueWakes` needs that a
tail that is behind the log is its committer's to advance (`TailOwed`).
`QueueNeverDrops` is about remainders: the message `lf_bcast_pub` would drop shares
its slot with the one to be published, so it is a whole turn behind (`DropsBehind`).
`QueueStarves` and `QueueRetains` count: every element is in the pool, queued, with
a publisher or lost in a crash (`Accounted`), and there are as many elements as
slots.

*Shared memory* (`ShmOpenProofs`). `ShmInv` says that one process at most is setting
up the file that has the name (`Creating`), that nobody else writes to it meanwhile
(`CreatorLocal`), that the stores in a region are those of one layout and come in the
order of the functions that make them (`RegionSound`), and what the first half of a
join has established when the second begins (`JoinerLocal`).

*The ring* (`RingQueueProofs`). The invariant says which cells are live without
counting through them (`LiveUsed`). `RingRefinement` supposes `Shrink = FALSE`: a
resize leaves room for what is stored.

*The blocking layer* (`BlockingProofs`, `BlockingFlush`). Three inductive invariants. `FlowInv` is
about the queues: who is inside a side's critical section holds its mutex (`Mutex`),
an element somebody has looked at stays at the head (`HeadStays`), and what is out
and what is queued are the messages in order, with one in both while it is being
used (`InOrder`). It holds until a thread object that has a thread is assigned to
(`FlowOrDied`), whatever the programs call. `ThreadInv` is about the threads: for
each mode it says which of the receive and handle threads run, are joinable and have
ended (`RecvLife`), and how far a `stop()` has come (`Stage`). It supposes programs
that call neither `run` nor `try_stop` (`Orderly`); without that, `NoTerminate` is
false, see below. `FifoWhenOrderly` puts the two together. `FlushInv` is about
`flush()`: the number it has counted under the mutex of a side and not yet handled
makes up for what is missing of the messages taken before the call, and the send side
is done when it is at the receive side (`FlushPlace`). It supposes programs in which,
next to a user that may flush, nobody else flushes or resizes and nobody stops
(`FlushesAlone`): whoever disables a queue under `flush()` makes it count messages that
were not handled. `FlushIsComplete` is the action property `FlushSendsAll`.

*The logger* (`LoggerProofs`). `LogOrder` relates files, the event in hand and the
queue to the order in which events were queued, pair by pair instead of by
concatenating files. `LoggerInv` adds why repeated requests do no harm: the numbers of
requests on their way, in a handler, pending and done never decrease in that order
(`RequestsInv`, `JobsInv`, `AcceptedInv`), the one barrier in the queue is that of the
pending cycle (`PendingInv`), and frames kept to be sent are true (`NamesInv`).

Only model-checked:

* liveness (`AllCallsReturn`, `CatchUp`, `CallsReturn`, `RunReturns`,
  `SentUnlessDisabled`, `StopsWhenAsked`, `RequestAnswered`, `Arrives`), since it needs
  fairness and ENABLED, which the prover does not handle;
* `Nonblocking` and `EventLog`: parsing, checksums and searches are recursive, and
  what a recursive definition computes for every input needs an induction over data
  that the prover cannot do;
* `Udp`: `BlocksConserved` and the evictions sum over sets of assemblies, which is an
  induction over the set;
* the properties of the companion configurations that are not inductive invariants.

## Where the code disagrees with its documentation

* **`eventlog_play`.** `recvmsg` of the file transport reads the next event,
  sleeps at most the timeout, and returns `ZCM_EAGAIN` if the event is not due
  (`transport_file.cpp:156`). The next call reads the next event. `transport.h:82`
  says that enabled messages *must* be received; with the 100 ms of the blocking
  layer, every event after a longer gap is lost.

Five further configurations are kept to show the following; each ends with the
violation of the one property it checks.

* `MCLfBcastAssert.cfg`: with `head_idx` loaded before `tail_idx`, the assertion
  at `lf_bcast.c:191` fails, although `lf_bcast.h:36` says of `lf_bcast_pub` "This call cannot fail".
* `MCRingQueueShrink.cfg`: `setCapacity` below what is stored leaves `back`
  outside the array.
* `MCBlockingAgain.cfg`: `stop` disables the send queue and nothing enables it
  again, so what is published later is not sent.
* `MCBlockingTwoFlushes.cfg`: of two concurrent calls of `flush`, one can return
  before everything was sent.
* `MCBlockingStopHang.cfg`: a `flush` that enables the send queue while `stop`
  waits for the send thread leaves `stop` waiting.

Met while modelling or proving, and part of the models:

* `try_stop()` that returns `ZCM_EAGAIN`, followed by `stop()`, restores the
  "non-running" state without joining the threads, and `stop()` does not wait for a
  `run()` in another thread (`blocking.cpp:282` to `368`). The next `start()` or
  `handle()` then assigns to a thread object that still has a thread, which ends the
  process. `MCBlockingTryStop.cfg` ends with this violation of `NoTerminate`; the run
  `blocking` and the theorem suppose programs without `run` and `try_stop`
  (`Orderly`).

* The logger's signal handlers lock a mutex their own thread may hold
  (`main.cpp:1155`); `Stuck` names these states and the liveness properties except
  them. After a barrier that could not be written, every other cycle is refused
  (`:1004`). The memory limit has no effect without plugins (`:936`).
* `zcm_eventlog_seek_to_timestamp` may fail for an event that exists
  (`eventlog.c:105`). A reader at the end of a growing file loses the event that
  was incomplete. A torn event can swallow the next.
* `zcm_nonblocking_subscribe` leaves a channel enabled when it fails
  (`nonblocking.c:100`).
* `zcm_trans_generic_serial_create` accepts buffers in which the longest escaped
  frame does not fit (`:294`); `NotWedged` supposes the larger buffers its users
  ask for.
* A process that joins a shared memory region whose free list is still being
  filled can abort in its first `sendmsg`. A creator that dies midway leaves a
  region everybody refuses until it is removed.

## Not modelled, and why

* Weakly ordered memory. `LfPool` and `LfBcast` are sequentially consistent, so the
  missing barrier before the check in `lf_bcast_sub_consume_end` is not examined.
* Subscriptions, regexes and the topology of the blocking layer. Its threads and
  queues fill the state space; the table and its callbacks are modelled for the
  nonblocking layer.
* Sockets, devices, urls, command lines: I/O and parsing.
* UDP packets that no `sendmsg` made, and the self test.
* `lockfile.cpp`, which rests on what the file system does with an unlinked name.
* The logger's plugins, statistics and failing `fopen` at start.
* `message_tracker.hpp`, a buffer with a callback thread of its own that programs put
  on top of a subscription. It could be modelled like the others and is the next
  candidate, with the inproc transport, a locked deque.
* Filters, the C++ wrapper and the language bindings, the other tools: they sit on
  the public interface and share no state with it.
* `zcm-gen`, a compiler. The compiler, the tools other than the logger and the
  bindings are more than half of the repository's lines, so the share of lines
  modelled is small.
* Reading a log at an offset, which is a seek followed by reading the next event.
