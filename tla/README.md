# A TLA+ model of excom

excom is a small chat library in C99: a growable byte buffer, a packet
protocol with optional encryption, an event loop with several backends, a
threaded server and a client. This directory models the parts of it in which
threads, partial writes, failing allocations and the order of packets meet,
checks the models with TLC and proves the central facts with TLAPS.

Source paths are given as in the repository (`src/excom/buffer.c`,
`inc/excom/buffer.h`, ...); `PROJECT.json` maps every definition to its lines.

## 1. Inventory

| Component | State | Operations | Who uses it |
| --- | --- | --- | --- |
| Buffer (`src/excom/buffer.c`) | `buf`, `max`, `used`, `pos`, `unmutable`, `freeable`, `mutex` | init, reset, resize, cappend, sappend, bappend family, format, write, destroy | protocol, encryption, client, server connection |
| Server connection (`src/excom-server/client.c`) | per client: protocol state, keys, packet list `packets`/`last`, `mutex`, `cond`, worker thread, `disconnected`, three buffers | connect, read, write, close (event thread); check_packet; worker | event loop calls it; worker runs the handlers |
| Packet handlers (`handle_packets.ci`, server and client) | protocol state, `keys.remote` | one handler per packet type | worker, client loop |
| Client (`src/excom/client.c`, `src/excom-client/client.c`) | socket, state, keys, buffers, packet list | init, connect, read, write, close, destroy | application |
| Packet format (`src/excom/protocol.c`, `protocol/pack.c`) | none | read_packet, write_packet, prefill, write, pack/unpack | both ends |
| Encryption (`src/excom/encryption.c`) | local, remote and common key, `active` flags | init, prep, pencrypt, pdecrypt | packet format |
| Event loop (`src/excom/event*`) | registered events, `loop` flag | add, update, remove, loop, loop_end for epoll, kqueue, poll, select | server, client |
| Server (`src/excom/server.c`) | listening socket, doubly linked client list | bind, accept, disconnect, run, destroy | command line |
| Factory (`src/excom/factory.c`) | job list, workers, `mutex`, `cond` | init, add_job, work, destroy | applications |
| Threads (`src/excom/thread.c`) | thread status, thread-local data | init, exit, join, mutex, cond, tls | everything |
| Strings (`src/excom/string.c`) | body, size, `freeable` | init, fill, dup, copy, destroy | packets |
| Command line, generated packet tables, scripts | - | - | - |

How they interact. One *event thread* runs the event loop for all
connections. On a READ event it reads the socket into `buf.in`, cuts packets
out of it, decodes them with the connection's keys and links them into the
connection's list; on a WRITE event it writes `buf.out`; on the end of the
stream it frees the list and joins the worker. Each connection has a *worker
thread* which takes packets off the list, runs their handlers, which append
replies to `buf.out` and change state and keys, and asks for a WRITE event by
changing the event's flags and calling `epoll_ctl`. Shared between the two
threads: the list (partly under `client_data->mutex`), `buf.out` (under the
buffer's mutex), the keys (no lock) and the event flags (no lock). The client
is single-threaded unless the application appends to its buffers itself.

An application may also run a *factory*: a pool of workers that take jobs off a
list under one mutex, started with `excom_thread_init` and joined when the
factory is destroyed. The event loop calls a runner for every event, and the
runner may add and remove events in the table that the loop is going through.

Hard behaviours: the unlocked half of the packet list; lost wakeups and the
join in the close; a buffer destroyed between an unlock and a lock; read,
modify and write of the event flags by two threads; partial writes and EAGAIN;
failed allocations in the middle of an append; packets decoded before the
packets in front of them have changed the keys; a client that does not wait;
packets cut into read events at any byte; a table changed while it is scanned;
jobs signalled while nobody waits, and a destroy that waits for workers who
missed its broadcast.

What makes each part correct: a buffer is a byte stream that loses, repeats
and reorders nothing and touches only its own memory; every packet is handled
once and in order, and no thread outlives its data; every reply is eventually
written and the loop becomes quiet; the protocol state moves forward one step
at a time, the ends agree on the mode of every packet, and a compatible pair
completes the handshake; the packets read are the packets sent, wherever the
bytes are cut, until the reader loses its place, and it is known when it does; a job is run once, by one worker, and a thread never outlives the
memory it uses; the table of events is the set of registered events, and every
event reported is run.

## 2. Modules

| Module | Models |
| --- | --- |
| `ByteStream` | abstract: bytes accepted and bytes delivered |
| `Buffer` | one `excom_buffer_t` and the threads that use it; implements `ByteStream` |
| `ServerClient` | the packet list of a connection, its event thread, its worker and the close |
| `WriteInterest` | the WRITE flag, epoll's interest and `buf.out`'s byte count, for the two threads |
| `Server` | the list of clients, accept, epoll's events and batches, disconnect, destroy |
| `Handshake` | protocol states, keys and modes at both ends, with the server's two threads |
| `Framing` | packets as bytes: write_packet, pack, the read events and check_packet of both ends |
| `Thread` | thread init, the wrapper around the procedure, exit, join, thread-local data |
| `Factory` | the jobs, workers, init and destroy of a factory; extends `Thread` |
| `PollTable` | the poll backend: its table and the loop that scans it |
| `MCBuffer`, `MCServerClient`, `MCWriteInterest`, `MCServer`, `MCHandshake`, `MCFraming`, `MCFactory`, `MCPollTable` | small instances |
| `BufferProofs`, `ServerClientProofs`, `WriteInterestProofs`, `ServerProofs`, `HandshakeProofs`, `FramingProofs`, `FactoryProofs`, `PollTableProofs` | theorems |

Operators named `Mut...` are deliberately faulty versions of the definition
that follows them, one for every property of a passing run: with the faulty
version in its place, TLC finds the property violated. They are not used by
any specification.

**Buffer.** `data` is the first `used` bytes of the allocation and `pos` the
offset of the pointer `pos`. A call is a sequence of steps: the tests before
the lock (`AppendCall`, `WriteCall`), `Lock`, `Fit` (does it fit?), `Grow` (one
turn of the resize loop), `Allocate` or `AllocateFails`, `Copy`, `Unlock`; a
write is `Write` or `WriteFails`, and for a drained freeable buffer `Release`,
`Free`, `Clear`, `Relock`, which is `excom_buffer_destroy` without the mutex.
The three appends share their steps and differ where the code differs: bappend
returns early with nothing to append, and sappend ignores a failed resize.
`Ops` says which operations a thread performs, so the same module serves the
server's roles and a single owner. `write(2)` may take any part of what it is
given or fail. `fault` records a memcpy, free or write of freed memory or NULL;
nothing is modelled after it. `appended` and `sent` are history variables. A
capacity is a natural number: wrap-around of `size_t` is left out.

**ServerClient.** Every load and store of `packets`, `last` and `_next` is a
step, in source order, because the two threads do not exclude each other there.
A packet is its number of arrival. A fresh packet's `_next` is `Wild`, which a
load may also see as NULL. Mutex and condition variable have POSIX semantics,
spurious wakeups included. `Take` leaves with the mutex held when the
connection is gone, as the code does. Actions state what they leave alone
within their group (`Check`, `Link`, `Closing`, `Waiting`, `Walk`), and the
group states the rest. A `patient` peer sends, and closes, only while the worker
waits with everything handled (`Quiet`): it shows what the unlocked list is good
for. A packet that `read_packet` refuses, as one of type INVALID, ends the look
at `buf.in` (`ReadFails`). Left out: bytes and lengths of packets (`Framing`),
`buf.in` and `buf.out`, which the close destroys (module `Buffer` has that
hazard), and the unlock of `buf.in.mutex` at the end of `check_packet`, which is
a second one when the loop ended without the lock (`client.c:224`): what POSIX
leaves undefined there no property is about.

**WriteInterest.** `flags ^= WRITE` is a load and a store, `flags |= WRITE` a
store (a load that is thrown away), `excom_event_epoll_update` a load and the
system call. `ReadEvent` stands for reading a packet and queueing it.
`peer` says what kind of peer is at the other end: one in `lockstep` sends its
next packet when it has its reply, and the socket of a `whole` one takes all it
is given or nothing. A `Patient` peer is both.

**Server.** The event thread's place is between two events, within `_accept` or
within `excom_server_destroy`; peers connect, close and reset in between.
`EpollWait` fetches a batch: every ended connection and a waiting peer are
reported, data from others may be. `Accept` is one turn of `_accept`, with the
first read; `ReadEvent` and `CloseEvent` are `on_event` for a client. An event
reports CLOSE only if the peer had ended when the batch was fetched, so a read
may find the end of the stream without it. Every client is a fresh address, and
following a link to a freed one is a `fault`, after which nothing is modelled. An
uninitialised `event.root` crashes or has no effect. A close blocks the event
thread in the join of that client's worker (`BeginClose`, `Joined`), and the
function that called it goes on when the join returns (`AcceptJoined`,
`ReadJoined`, `CloseJoined`, `DestroyJoined`). The event thread joins one worker
at a time, so `worker` is the one it waits for, with what `ServerClient` shows of
it: one that waits hears the broadcast, one that is busy exits if it finds more
packets and else waits for a broadcast that has passed, until it wakes
spuriously, if it does. Left out: failing malloc, fcntl and epoll registration in
`_accept`, which the code does not handle, and WRITE events (`WriteInterest`).

**Handshake.** A packet is its type and whether its body was encrypted. The
server's event thread decodes with the keys of that moment (`ServerReads`);
the worker replies first and changes keys and state afterwards (`Activate`,
`AdvanceToBody`). `keys.remote.pkey` is never filled, since both `memcpy` calls
have their arguments the other way round; as both ends then use the zero key
they still understand each other. After an encrypted or misread body
`buf.in.pos` is not at the start of a packet, and the server may take what
follows for any packet or none (`Garbage`). `bundled` tells the bundled client
from one that sends what it likes, a key of the wrong size included, which the
server answers with an error.

**Framing.** Offsets are counted from the first byte of the connection, so
`buf.in` is the bytes from `pos` to `used`. `Send` writes header and body as
`excom_protocol_write_packet` does, integers byte by byte as `pack.c` does on a
little- or a big-endian host. `ReadEvent` ends at any byte that has arrived,
`Take` is one turn of `check_packet` (the server takes packets until none is
complete, the client one per event), `ReadEnd` the end of the stream. The bytes
of a box mean nothing and are 0; opening one gives what was sealed. `taken` is
every packet that `read_packet` has returned. A packet that lacks its last bytes
is read with whatever lies behind those that have arrived (`TakeShort`): the
packet taken is any of `Strange`, or none where the type itself is missing. From
then on, or once `pos` was left inside a box, the reader has lost its place
(`lost`). It goes on, as the code does: the bytes it looks at may pass for a
complete packet, which is any of `Strange` (`TakeAstray`), or not (`CheckEnds`).
As either may happen whatever `pos` is, `pos` is not followed any further. `sound`
counts the packets taken before that. Ids are left out.

**Thread and Factory.** `Thread` has the struct, the data that thread-local
storage refers to and the place of each thread; the wrapper's store of the
result, the clearing of the local data and the free are steps of their own.
`Factory` runs workers and the application's producers as such threads. Whoever
holds `job.mutex` never blocks, so a section from lock to unlock or wait is one
step; the workers' statuses are read and written outside it. `PUSH` and `POP`
are modelled link by link, with the wrong `prev` that `PUSH` stores. `jobs` is
not set by `excom_factory_init`: it is NULL, or a job the application has put
there. A worker may fail to start, and the condition wakes spuriously. The
application joins its producers before it destroys the factory. Left out: a
failing malloc of a job (`factory.c:136`) or of a thread's data (`thread.c:42`),
whose NULL the code dereferences in the next line.

**PollTable.** `fds` and `events` are one table, since every operation treats
slot k of both alike. `Add`, `Update` and `Remove` are called before the loop and
by the runner (`Update` at any time, by a server's workers); `Poll` is one call
of `poll(2)`, then `Skip`, `Run` and `RunnerReturns` are the turns of the scan.
After a remove that moved part of the table (`moved`) nothing is added or
removed, because the table is then wrong. Failing allocations are left out.

## 3. Runs

Bounds are constants of the configurations. `MaxAppended` (3 to 5 bytes, with
strings of no, one and three bytes and initial sizes 1 and 2) lets appends that
fit exactly, need one doubling and need two meet with partial writes between
them. `MaxPackets` 4 in `ServerClient` lets two packets be linked behind one
being taken, twice; in `WriteInterest` it lets replies pile up in `buf.out`
while the flags are changed, and a `ReplySize` of 2 lets a write be partial.
Three clients are enough for a list with a head, a middle and an end.
`MaxSent` 4 is the length of the shortest way to an accepted command, so every
state of the protocol is reached by packets in every order. The client versions
are the server's own, the furthest compatible one and the nearest incompatible
one in each component. In `Framing`, three packets of five kinds (empty, with
strings, the empty string and numbers, in clear and sealed) put every kind behind
and in front of every other; a nonce of one byte and a zero area of two keep the
box longer than its body, which is all that matters of 24 and 32. Once its place
is lost the reader takes up to two packets more (`MaxAstray`), of no known type
(`Strange`): enough to have strange packets behind the sound ones while others
are sent. In `Factory`,
two workers and four jobs let a job be pushed in front of two others while one is
run and one worker is on its way back; one thread adds them, because the mutex
makes two no different. In `PollTable`, three events in a table of two slots make
it grow, be full and shrink.

| Run | Checks | Result |
| --- | --- | --- |
| `buffer_shared` | `SharedInv`, `ImplementsStream` | passes: worker and owner append, event thread writes, owner freezes; malloc may fail; buffer not freeable. `SharedInv` contains the type invariant, `UsedWithinMax`, `NoFault`, `StreamIntact` and the mutual exclusion |
| `buffer_owner` | `UsedWithinMax`, `StreamIntact`, `FaultNeedsFailedReset` | passes: one thread, every operation but sappend, freeable buffer, failing malloc; the only crash is an append after a failed reset |
| `buffer_drains` | `Drains` | passes: every byte the worker appends, with any append, is sent |
| `client_queue` | `TypeOK`, `HandledInOrder`, `WakeupInv`, `PatientSafe`, `PatientHandled`, `CloseOfWaitingEnds` | passes: order and uniqueness of handling; worker gone before the free and no lost wakeup (both in `WakeupInv`); with a patient peer no bad link is followed and every packet is handled; a close that finds the worker waiting ends |
| `client_handled` | `EveryPacketHandled` | violated, see findings |
| `client_join` | `CloseEnds` | violated, see findings |
| `write_replies` | `PatientInv`, `LoopQuiets`, `PatientPeerServed` | passes: the loop becomes quiet with any peer; with a patient one the flags are never changed by both threads at once and every reply is sent |
| `server_clients` | `EventsAreLive`, `ServerInv`, `EndedIsClosed` | passes: three peers that connect, close and reset at any moment, batches of events, SIGINT, workers that miss the broadcast of a close; an ended connection is closed unless the event thread hangs in such a join. `ServerInv` contains the type invariant, `AllOrNothing` and `AloneListed` |
| `handshake_all` | `TypeOK`, `KeySentInClear`, `OpenMeansEncrypting`, `ServerForwardOnly`; for the bundled client `ModeAgreement`, `InStep`, `HandshakeCompletes` | passes |
| `factory_jobs` | `TypeOK`, `ThreadInv`, `ListIsQueue`, `JobsRunOnce`, `SignalledJobsTaken`, `DestroyOfWaitingEnds` | passes: the links are the list of waiting jobs, each is run at most once, a signalled job is taken, a destroy all workers hear ends; a thread's memory outlives it and a join gets its result (`ThreadInv`) |
| `poll_table` | `TypeOK`, `TableExact`, `SafeRun`, `ReadyIsRun` | passes: the table always has room; while events are removed last first it is exact, and every event reported is run |
| `framing_reads` | `TypeOK`, `TakenIsPrefix`, `LostOnlyBy`, `ServerTakesAll`, `SentIsTaken` | passes: the packets read before the reader loses its place are those sent, however their bytes are cut; it loses it only in the two ways `LostOnlyBy` names; until then the server leaves no whole packet unread |

Deadlock is checked in the buffer runs except `buffer_owner` (a crash is an
end). In the others it is off: a connection ends when the peer has closed, a
handshake when its packets are spent, a factory and an event loop when they have
been destroyed.

**Fairness.** Weak fairness of every thread is the scheduler. The event thread
calls a write again and again because the event loop does. Strong fairness of a
successful `write(2)` is a peer that reads: the socket is writable again and
again, though a particular write may fail. The peer itself is never obliged to
send. No fairness of the mutex is assumed. In `Factory` every worker is fair, and
main finishes a destroy that has reached its broadcast; producers and spurious
wakeups are not. In `PollTable` the thread of the loop is fair and the runner
returns; in `Framing` what was sent arrives and the event thread runs. In
`Server` the event thread is fair where it is not blocked, and so is the worker
it joins, which finishes the packet it is busy with; that a worker wakes
spuriously is not assumed, so a join may never return.

## 4. Findings

Each is a run that TLC violates; `PROJECT.json` quotes the line that the code
disagrees with.

* `client_handled`: the worker takes packets off the list without the mutex, and
  a packet linked at that moment is lost.
* `client_join`: a close while the worker is handling its last packet is missed
  by the worker, and the event loop hangs in the join. `Server` has what follows:
  one event thread serves all connections, so none of them is read or closed any
  more (`Hung`, the exception of `EndedIsClosed`).

Further observations, which the models reproduce and no run asserts:

* A drained freeable buffer, as the server's `buf.out` is, is destroyed outside
  the mutex (`buffer.c:376`), although `buffer.h:72` has it locked while a
  buffer is read or written: an append in between copies into freed memory.
* The flags of an event are changed by two threads without a lock (`client.c:122`
  and `:281`): with a peer that does not wait a reply may be left in `buf.out`.
* The remote keys are never stored (`handle_packets.ci:57` of the server, `:64`
  of the client), although `protocol.h:43` has both ends exchange them.
* `sappend` copies after a failed resize, so `used` passes `max`; `cappend` and
  the others report such a failure as 0, because errno has been cleared
  (`buffer.c:107`, `:133`).
* After a full buffer has been written `pos` is one past the last byte; `resize`
  doubles a buffer that is large enough; `reset` and `destroy` empty an
  unmutable buffer.
* A capacity above half of SIZE_MAX would make the doubling in `resize` wrap to 0
  and never end; and the packets that the worker has handled are never freed
  (`client.c:284`). Neither is part of a model.
* A partial write ends the interest in writing too, and leaves the rest of the
  reply in `buf.out` (`client.c:119`).
* With two clients on it the server's list is a cycle (`server.c:119-136`), and
  disconnects lead to links to freed clients, which the next accept or
  disconnect follows. A client whose stream ends in an event without CLOSE is
  closed but stays on the list. A peer that has closed before it is accepted
  makes the server follow an uninitialised `event.root`, and destroying a server
  with an open connection a NULL one (`client.c:169`).
* In the race of `client_handled` the event thread may also follow a NULL `last`
  (`client.c:217`), or the worker an uninitialised `_next` (`client.c:213`).
* A rejected client does not become INVALID. A command sent in clear behind a
  version, a key and a ping is accepted in BODY when it is read before the worker
  has handled them.
* A peer that waits for its reply is not patient enough for the packet list: the
  worker, on its way back from the handler, may load the new packet before
  `check_packet` has set its `_next`.
* A factory worker that is not waiting when `excom_factory_destroy` broadcasts
  waits for ever, and so does the destroy, which promises to terminate the workers
  (`factory.h:163`). A job added while no worker waits is not run before another
  one is signalled.
* `factory->jobs` is never initialised, and the first `PUSH` on an empty list
  follows NULL (`factory.c:16`). A destroy leaks the jobs it drops, although
  `factory.h:167` has it free the remaining memory, and joins workers that were
  never created.
* A thread whose procedure returns keeps the status RUNNING, which `thread.h:79`
  says is for one still running; `excom_thread_exit` leaks the thread's data; and
  `excom_thread_current` returns that data, not the thread (`thread.h:213`).
* The remove of the poll backend moves slots up where it should move them down,
  and leaves `_bdata` of the others (`poll.c:96`), although `event.h:194` lets
  events be removed during the loop. When the table is full it moves the last
  slot past its end. A runner that removes two events makes the loop write
  outside the table that was halved (`poll.c:143`).
* A packet is taken when four bytes of its header are counted, not eight
  (`client.c:193`), so a read event that ends in the last four bytes of a packet
  breaks what `protocol.c:28` takes for guaranteed: a packet that was not sent is
  handed to the worker, and `pos` moves past `used`. The packet behind a sealed one
  is read from the middle of the box. What arrives together with the end of the
  stream is not looked at.
* A big-endian sender packs integers in reverse, and packing writes one byte more
  than the integer has (`pack.c:33`, `:77`).

## 5. Proofs

TLAPS checks these for every value of the constants. Every safety property that
a passing run checks is also a theorem, two of `Framing` for little-endian senders
only; the inductive invariants behind the theorems were checked by TLC on the
instances of the runs before they were proved.

The assumptions are named in the modules and evaluated by every run. Bounds and
sizes are naturals (`SizeAssumption`, `PacketsAssumption`, `BoundAssumption`,
`PollAssumption`, `ClientAssumption`); NULL is no job, client, event or packet
(`FactoryAssumption`, `NullAssumption`, `PointerAssumption`, ...); threads do
operations of the interface (`OpsAssumption`); versions are versions
(`VersionAssumption`); a packet has the fields its type has, and its length fits
the `uint32_t` it is sent in (`FramingAssumption`, `LengthAssumption`).

**Buffer** (`BufferProofs`)

* `TypeCorrect`. The type invariant alone is not inductive: `Entry` and `Clear`
  are CASEs over the operation, so a thread must be known to be only at the steps
  of its operation (`PlaceOK`).
* `MutualExclusion`. `Exclusive` says that the thread in a critical section holds
  the mutex; the critical section of a resize depends on whether it was called by
  an append, which is again `PlaceOK`.
* `SharedUseIsSafe` and `SharedUseImplementsStream`, for buffers used as
  `SharedUse` describes: not freeable; append, write and freeze only; no sappend
  where malloc may fail. The inductive invariant `SharedInv` adds to the goals
  that a resize in progress is for the bytes of the append that holds the mutex
  and allocates enough for them (`RoomOK`), which needs that no other thread
  changes `used` meanwhile (`Exclusive`), and that nobody is destroying the buffer
  (`Undisturbed`). `SharedInvariant`, `AppendsFit` and `SharedUseNeverFaults`
  state its parts by name. Each step then maps to a step or a stutter of
  `ByteStream`: `Copy` to `Accept`, `Write` to `Deliver`.
* `OwnerIsSafe` and `OwnerImplementsStream`, for one owner that uses any of the
  operations on a buffer that may be freeable, again without sappend where malloc
  may fail (`OwnerUse`). The mutex plays no part; what matters is where a reset or
  destroy leaves the memory. `OwnerInv` adds that freed memory is forgotten by the
  very next step, that a buffer without memory is empty and has no capacity unless
  a reset failed (`OwnerMemory`), and that a write destroys only what it has
  drained (`Drained`), so that no unsent byte is lost. A reset or destroy is the
  `Wipe` of the stream.

**Server connection** (`ServerClientProofs`, `WriteInterestProofs`)

* `WakeupsReachTheWorker`. `WakeupInv` adds who holds the mutex at which step; the
  essential facts are that the event thread links only with the mutex held and
  signals after giving it up, and that the worker starts to wait only with the
  mutex held and an empty list. `WakeupInvariant` states the invariant,
  `WorkerOutlivedByData` that the free comes after the exit.
* `ServerClientProofs!TypeCorrect`. That `handled` is a sequence of packets is not
  a matter of types: the worker must have a packet once it is past the load of
  `_next` (`HasPacket`), every pointer must be to a packet that was received
  (`Bounded`), and nothing may refer to the packet that is being linked (`Fresh`).
* `PacketsHandledInOrder`, with any peer, so with the race that loses packets. The
  inductive invariant `Ascending` says that links lead to later packets and that
  what the worker has in hand, and what is on the list, is newer than what has been
  handled, step by step along the unlocked walk.
* `PatientPeerIsSafe`. `PatientInv` says what each step of the two threads knows
  while the peer is patient (`LoneInv`): there is one packet at a time, it is
  linked while the worker is at rest, and taken off while `check_packet` is not
  running.
* `WriteInterestProofs!TypeCorrect`, and `PatientPeerNeverStranded`. The inductive
  invariant `PatientInv` adds `LockStepInv`, which states what each step of either
  thread knows about the flag, the interest and `buf.out` while the peer is
  patient. `PatientInvariant` states it, `FlagsChangedAlone` that the unlocked
  updates do not overlap.

**Server** (`ServerProofs`)

* `ServerSafe`, for any set of clients. `ServerInv` adds that an event waiting in
  the batch is about a client that is still watched and is the only one about it,
  so that no handler frees the client of another event, that the client being
  closed stays open until the join returns and no other event is about it, so that
  what follows the join is still right, that a client waiting to be accepted is
  not watched, and that a destroy starts at the head of the list. `ServerInvariant`, `TypeCorrect`, `EndsTogether` and
  `OneClientListed` state its parts by name.

**Handshake** (`HandshakeProofs`)

* `TypeCorrect`, `KeyNeverEncrypted`, `CommandsNeedEncryption` and the action
  property `ServerNeverGoesBack`, whatever a client sends. `ServerInv` ties the
  keys to the protocol state (active from ENCRYPT on), says that the worker
  activates them in PREENCRYPT only, and that the packet it handles is still at the
  head of the list.
* `ModesAgree` and `StayInStep`, for the bundled client. Neither is inductive
  without the whole course of the exchange: `TurnsInv` lists it. Until the command
  is read at most one packet is on its way, and who has asked or answered what
  determines both states (`Early`); from then on the server may be astray in the
  ciphertext, but the client answers none of its replies (`Late`).

**Framing** (`FramingProofs`)

* `TakenArePrefix`, `NoneLeftBehind`, and for a little-endian sender
  `OnlyCutsAndBoxesLose` and `TypeCorrect`, for any packets, texts and numbers and
  any cuts. The inductive invariant `FramingInv` adds that the wire is the encoding
  of the packets sent, one behind the other (`WireInv`), from which a lemma gives
  what one turn of `check_packet` finds at the start of a packet of each kind, and
  that a cut within the last four bytes of a packet is on record. `TakenArePrefix`
  is about the packets taken before the reader loses its place; those taken later
  are in `taken` too and may be anything. `UncutClearIsFaithful` combines it with
  `OnlyCutsAndBoxesLose`: on a connection in clear without such a cut every packet
  ever taken is the one sent in its place. The lemmas about
  `Pack32` and `Unpack32` (one undoes the other on every number that fits) and
  about sealing and opening a body carry the conversion. From a big-endian sender
  a reversed length may pass for any other, and what is then taken is no packet of
  the set: there `TypeOK` and `LostOnlyBy` are checked for the packets of the run
  only.

**Factory and threads** (`FactoryProofs`)

* `ThreadsKeepTheirPromise` and `TypeCorrect`, for any number of workers and
  producers. `PlacesInv` says what a thread may use at each of its places
  (`ThreadPlaces`) and that the loop of destroy has joined the workers it is past
  (`JoinedSoFar`), without which the final free would be of a live worker's struct.
* `ListIsTheQueue` and `EachJobRunOnce`. The two need each other: `POP` follows
  `next`, so the links must be the queue, and they stay so only because no job is
  on the list twice or in a worker's hands. `ListInv` adds which steps hold a job,
  and that what waits has not been run (`JobsHeld`).

**Poll backend** (`PollTableProofs`)

* `TableStaysExact`, `LoopStaysInside` and `TypeCorrect`, for any events and
  initial size. `TableInv` adds that the slot the loop will write to when the
  runner returns is in the table after at most one remove (`SlotStays`), which
  needs that a halving leaves one slot more than the events that remain, and that a
  destroyed table is empty (`Gone`).

Only model-checked: liveness (`Drains`, `PatientHandled`, `CloseOfWaitingEnds`,
`LoopQuiets`, `PatientPeerServed`, `EndedIsClosed`, `HandshakeCompletes`,
`SignalledJobsTaken`, `DestroyOfWaitingEnds`, `ReadyIsRun`, `SentIsTaken`), which
is out of the proof system's reach, and what was said about big-endian senders.

## 6. Plan

1. The bundled client's lifecycle: its destroy closes the socket and joins a loop
   that does not end, its mutex is initialised again after the thread has started
   (`src/excom-client/client.c:34`), and its close leaves `packets` dangling.
2. The lazy preparation of the common key by two threads (`encryption.c:27`), and
   the composition of `Buffer`, `ServerClient` and `WriteInterest` for the close.

## 7. Not modelled

`excom_buffer_format` (a sequence of appends whose text no property is about) and
`excom_buffer_inspect`; strings and the command line (sequential glue);
`excom_protocol_prefill`, which fills a struct, and `excom_protocol_write`, which
nothing calls; the select backend, which its authors mark as not working
(`select.c:97`), and kqueue, which hands its table to the kernel as epoll does;
`trylock` and `islocked`, which nothing calls; the Windows variants; the empty
server callbacks of `src/excom/server/client.c`; the cryptography itself
(libsodium); scripts and build.
