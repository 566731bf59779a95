# Verification of rs-modbus

TLA+ models of rs-modbus, the TLC runs that check them on small instances, and
TLAPS proofs that hold for every instance. File names below are those of the
repository; the lines each definition models are in `PROJECT.json` under `map`.

The library is a Modbus master and slave over TCP, UDP and serial lines, written
on tokio. Nearly every operation is an `async fn` behind `&self`, so callers,
receive loops, timers and the administrator's open/close/destroy interleave at
every lock, channel operation and await. That is what most of the models are
about; the others are about the arithmetic of lengths and addresses that requests,
responses and their checks have to agree on.

## 1. Inventory

### Master (`src/master.rs`, `src/master_session.rs`)
- **State**: `next_tid`, `clean_level` (0 open, 1 closed, 2 destroyed),
  `queue_lock`, the handles of two receive tasks; in the session the table of
  waiters, one one-shot sender and a list of pre-checks per key. The key is the
  transaction id over TCP and the single key `Fifo` otherwise.
- **Operations**: `wait_response` (behind every function code), `open`, `close`,
  `destroy`; the framing task (`handle_frame`), the error task (`handle_error`); for
  each function code a method that builds the request, its pre-checks and a parser.
- **Interactions**: encodes and writes to the physical layer; hears complete
  frames and framing errors over two broadcast channels of the application layer.
- **Hard**: late and lost responses, writes that block, dropped futures, timeouts racing
  with dispatch, close between two steps of a call, ids that are handed out again,
  lengths computed in `u8` and `u16`.
- **Correct when**: each call whose write ends returns, with its own response or an
  error; no call takes another one's waiter or response; a closed master begins no write;
  the checks accept what a slave rightly answers and nothing the parser cannot take.

### Slave (`src/slave.rs`)
- **Queues**. State: `is_open`, `clean_level`, per-connection queue entries with
  their `processing` flag, the handles of three receive tasks per `open`.
  Operations: `open`, `close`, `destroy`, `enqueue_and_drain`, `drain_loop`, the
  handlers of connection_close and close events. Hard: drains, receive tasks and
  clears interleave; events of the port come late. Correct when every connection
  is served in order, one request at a time, each request once, and no queue is
  left without a drain.
- **Address locks**. State: the table from address to a reference-counted mutex.
  Operation: `with_address_lock` around FC22 and the write of FC23; `clean`
  empties the table. Correct when overlapping requests exclude each other, without
  deadlock, and the table shrinks again.
- **Request handlers**. `process_frame` asks one model, or all for a broadcast; each
  handler checks shape, quantity and range, locks, reads and writes element by
  element, and answers. Hard: handlers await between any two accesses; some writes
  take no lock; ends of blocks overflow. Correct when success means that the write
  was made, nothing outside the range is written, and locked updates do not tear.
- **Device identification**. FC43/14 pages objects over responses of bounded length;
  the master asks again from the id it is told. Correct when a master that follows
  the ids misses nothing and comes to an end.

### Application layers (`src/layers/application/`)
`tcp.rs` (MBAP, one buffer per connection), `rtu.rs` (a bounded pool per
connection, t1.5 and t3.5 timers, prediction of the length, CRC
resynchronisation), `ascii.rs` (a character state machine with LRC). State: the
buffers. Operations: bytes in, a timer, `flush`, `destroy`, `encode`. Correct when
any split of a stream into reads gives the same frames, nothing grows without
bound, and garbage is followed by recovery.

### Physical layers (`src/layers/physical/`)
`tcp_client.rs`, `tcp_server.rs`, `udp.rs` (a socket, a map of peers, an idle timer
per peer), `serial.rs` (a blocking reader thread). State: `is_open`, `is_opening`,
`is_destroyed`, the stored half or handle, id and task, or a map of clients.
Operations: `open`, `write`, `close`, `destroy`, the read, receive or accept task,
timers, events. Hard: every field has a lock of its own, so open, close and the
read task interleave statement by statement. Correct when each connection is
announced closed once and nothing outlives a close: no task, no entry, no handle
of the device, no bound port.

### Utilities, errors, types
`utils.rs`: CRC, LRC, packing, range checks, length prediction (pure functions);
`error.rs`, `types.rs`, `vars.rs`: data types and constants.

## 2. Modules

| module | models | run by | proofs |
|---|---|---|---|
| `ModbusMaster` | master, session, and the link as they see it | `MCMaster` | `ModbusMasterProofs` |
| `RequestResponse` | what `wait_response` promises (abstract) | implemented by `ModbusMaster` | |
| `AddressLocks` | `with_address_lock`, its callers, `clean` | `MCLocks` | `AddressLocksProofs` |
| `AtomicLocks` | locks taken and given back at once (abstract) | implemented by `AddressLocks`, used by `SlaveRequests` | |
| `SlaveQueues` | queues, drains, the slave's lifecycle, the server port's events | `MCQueues` | `SlaveQueuesProofs` |
| `FunctionCodes` | requests, checks, responses and lengths of every function code | through `SlaveRequests` | |
| `SlaveRequests` | a call from the master's method to its result | `MCRequests` | `SlaveRequestsProofs` |
| `DeviceIdentification` | FC43/14, handler, master and receiver | `MCDevice` | `RtuFramerProofs` |
| `RtuFramer` | the RTU pool, its data task and its timers | `MCRtu` | `RtuFramerProofs` |
| `TcpClientPort` | open, close, destroy and read task of the TCP client | `MCPort` | `TcpClientPortProofs` |
| `UdpPort` | open, write, close, destroy, receive task and idle timers | `MCUdp` | `UdpPortProofs` |
| `SerialPort` | open, write, close, destroy and reader thread | `MCSerial` | `SerialPortProofs` |

The MC modules add symmetry sets and the values of structured constants. Operators
whose comment says *Fault* are wrong versions of a definition; `PROJECT.json`
names, for every property, the one that must break it. No specification uses them.

How they compose: `ModbusMaster` implements `RequestResponse`, and `AddressLocks`
implements `AtomicLocks`, both by a refinement mapping at the end of the module.
`SlaveRequests` extends `FunctionCodes` and takes its locks from an instance of
`AtomicLocks`: what it relies on is what `AddressLocks` is shown to give.
`ModbusMaster` and `SlaveQueues` each contain their port and application layer as
the source of the events they react to; the ports and the RTU framer are also
modelled by themselves, statement by statement.

### ModbusMaster
An action is what one task does between two points where another may observe it: a
lock section, an atomic access, an await. `pc[c]` walks a caller through
`wait_response`: the early check of `clean_level` (`Call`), the queue lock
(`Acquire`, FIFO only), the second check (`Recheck`), flush and choice of the key
(`Prepare`), `session.start` (`Arm`), the check of `is_open` in the port's `write`
(`Write`), the bytes themselves (`Send`), the wait, and `session.stop` on a failed
write, a broadcast or a timeout. `Receive` comes before `Timeout` when the
receiver is ready, since `tokio::time::timeout` polls its future before its timer.
`Cancel` drops the future at an await: guards and receiver are released, the
waiter is not. `queue_lock` is tokio's fair mutex: callers get it in the order of
their calls, which are numbered as they begin.

Between `Write` and `Send` the port may be lost, closed or opened again. `writer` is
the stored write half, socket or serial handle. Over TCP and serial a write holds
the lock of that handle while it sends, and `close()` needs the lock to drop it: what
happens in between amounts to the one or the other first, so `Send` needs `writer`.
UDP's `write` takes a clone of the socket first, and may send on it after `close()`;
if the stored one is gone when it looks, it panics (`Panic`). A serial write runs in
a thread of its own, which goes on when its call is dropped: `detached` holds what
such threads have yet to write. `ClosePort` leaves `writer` when the port has ended by
itself, since `close()` returns at its gate. What leaves with a write that fails
halfway is not modelled.

`mode` and `link` are rigid variables, chosen in `Init` from the constant `Masters`:
FIFO (TCP framing), concurrent (TCP framing), RTU or ASCII; over TCP, UDP or serial. (A
concurrent master on RTU or ASCII does not exist: its constructor panics.) The rest of
the link is a set of requests at the slave, a set of
responses on the wire (reordered at will), the response that is half received, and
two bounded broadcast channels that forget their oldest element. A message carries
the number of the call it belongs to, which only the properties read. The
pre-checks are one comparison of `kind` here, and spelled out in `FunctionCodes`.
A lost connection or socket takes its traffic with it; a serial bus does not. A
broadcast stays on the wire until a slave takes it, and is not answered. UDP does
not duplicate or corrupt datagrams here.

`RequestResponse` is the service: calls begin, are sent at most once, get one
outcome, and return. With transaction ids a call's response is its own; without
them it may be that of a call that was given up, never that of one in progress.
The mapping reads who is in which call, whose request may still go out, what is
under way anywhere between the two ends, what each receiver holds, and the requests
of calls that have returned with their write still under way.

### AddressLocks
Handlers collect references under the table's lock, lock in ascending order, read
and write the registers, unlock, drop the references and clean up: the seven
statements of `with_address_lock`. `Clean` empties the table at any point.
`PlainWrite` is FC6 and FC16, which take no lock. Two ghosts: `orphans` are
handlers that referred to mutexes when `Clean` forgot them, `writers[h]` says who
wrote one of `h`'s addresses since `h` read it (a handler under the locks in force,
an orphan, a plain write).

### SlaveQueues
`r` is one call of `open()`: the code spawns three tasks each time and `close()`
stops none, so `alive` grows. `hand[r]` is the frame between the framing task's
check of `is_open` and the lock of the queues. A drain is named by the frame that
spawned it. `Settle` is the second lock section of `drain_loop`. The branch of the
connection_close handler that removes an entry that is not `processing` cannot be
reached with an entry present (`EntryIsDrained`), but it is modelled. In concurrent
mode the framing task spawns a task per frame (`Take`, to "spawned"), and the runtime
starts them in any order (`Start`). A task may panic in `process_frame` (`Panic`,
section 6): the ghost `stuck` holds the connections whose entry then stays marked as
processing, until the entry is removed. Connection
ids are generated, hence a connection goes `new`, `up`, `down` once.

### FunctionCodes and SlaveRequests
A request is its numbers (unit, addresses, counts, the length of its data) and a
sequence of one-bit values; no operation mixes the bits of a register, so a bit
stands for any of them. The word sizes, the coils in a byte and the protocol's
limits are constants: an overflow needs ten addresses here and 65536 in the code.
`debug` is the build profile: overflow panics, or wraps. A method is the request it
builds and the pre-checks it sets; a handler is a verdict: ignored, an exception,
a panic, or run. `SlaveRequests` walks a request through the models
`process_frame` asks (`todo`, in any order, as a `HashMap` gives them), through the
lock, the reads and the single writes of the trait's default methods (`done` counts
them), to the response and the master's outcome. An `Odd` client sends what no
method of this master builds, and hears responses that no handler makes.

### DeviceIdentification
An object is its id and the length of its value, with the code's own limits. The
walk of the handler over the objects is a recursive function over the ids there may
be, in the order in which the handler sorts them; its values are records of the code's
loop variables. The model's objects may change between two pages.

### RtuFramer
Bytes are positions on a line that is fixed from the start; a line says how many
bytes a prediction takes, what it predicts and where checksums match, which is all
the framer asks of them. The pool holds the positions from `lo` to the last one
copied. A lock section of one statement is one action; the loop of `flush_pool`,
which runs under one lock, is one action per iteration, with `lock` naming who is
in it. A timer sleeps, or has woken: `abort()` stops the one and not the other.

### TcpClientPort, UdpPort, SerialPort
Each statement of `open` and `close` locks one field and is one action. `abort()`
only marks a task: one that is being polled goes on to its next await. The code has
no lock around a whole call, and promises nothing for overlapping openings: the
properties that need it are stated for behaviours in which a ghost, `orderly`, has
stayed true, the others for all. It becomes false when an `open()` overlaps with
another call of open(), close() or destroy() (closes and destroys may overlap, and in
`UdpPort` writes may overlap with all of them) or with the end of a session, or when
a task told to stop ends a later session than its own. Nothing else that such a task
does late is excluded: over TCP it may deliver data after the close, and over UDP it
may enter a connection into the map of a closed port (the ghost `late`), and
`NoDataAfterClose`, `PortIsWhole`, `ReleaseIsNear` and `EvictedAtLast` say what holds
then.

In `UdpPort` an entry is named for the datagram that made it and a timer for the
one that armed it; whoever takes an entry out of the map announces its end. `writing`
are the calls of `write` that have found the port open; `TakeSocket` clones the socket,
or unwraps one that is gone, which ends the task. `lent` are the sessions whose socket
a write under way, or the response closure of a data event, keeps alive; `LetGo` is
the end of the last of them, and nothing says that it comes. In
`SerialPort` the thread cannot be aborted: it reads with a timeout and looks at
`is_open` in between, and `close()` joins it.

## 3. Runs

| run | instance | shows |
|---|---|---|
| `MasterCalls` | 2 callers, 3 calls, 3 ids, channels of 1; FIFO over UDP, concurrent over TCP, RTU or ASCII over serial; close and destroy | a waiting call is armed; over TCP a response is the call's own; no call takes another's waiter; `RequestResponse` is implemented |
| `MasterLive` | 2 callers, 2 calls, 1 id, dropped futures, 1 reopening; concurrent over TCP, RTU or ASCII over serial | every call returns that a write does not hold up; a closed master begins no write, and none of TCP or serial goes out |
| `LocksHandlers` | 2 handlers, 2 addresses, 2 mutexes, clean at any point | exclusion, atomic updates, bounded table, every request finishes; `AtomicLocks` is implemented |
| `QueuesFifo` | 2 connections, 3 requests each, channel of 2, no close | one at a time and in order |
| `QueuesClosing` | 1 connection, 3 requests, closes and destroys, both modes | no stranded queue but after a panic, nothing served twice, nothing forgotten |
| `Requests` | `u16` of 10 values, `u8` of 8, 2 coils a byte, limits 6/3/4/3/3, two models, two clients, both profiles | writes that succeed were made, in one range; checks, predictors and responses agree; locked updates do not tear |
| `DevicePages` | ids 0, 9, 128, 255; values of 118, 241, 243, 246 bytes; codes 1, 3, 4, 5; one change | nothing is skipped, pages have the predicted length, paging ends |
| `RtuChunks` | frames of 2 to 4 bytes, a pool of 8, three lines of 11 bytes, 3 chunks, 1 flush or disconnect, three transports | the pool has room, clean lines are framed, no byte strands, bursts do not mix |
| `PortCalls` | 2 users, 2 connections, 1 read each | a session is whole, ends once, leaves no reader |
| `UdpPort` | 1 user, 1 writer, 1 peer, 2 sockets, 2 datagrams; client (configured for the peer by a wildcard, or for another host) and server (with and without timers) | connections end once, have one timer, are evicted at last; the port is whole, and released once nothing it was lent to holds it |
| `SerialCalls` | 2 users, 2 openings | a session ends once; close() returns, with the device free |
| `SerialUnread` | 2 users, 2 openings; violation | an open port without a reader (section 6) |

**Bounds.** Counters are capped by `MaxCalls`, `MaxOpens`, `MaxTid`, `ChanCap`,
`MaxFrames`, `MaxConns`, `MaxReads`, `MaxSessions`, `MaxDatagrams`, `MaxEvents`,
`MaxForgets`, `MaxChanges`, and by the sizes of the sets.
- *Master.* Two callers and three calls give a late response, the call that gave
  up on it, the call that might receive it, and a third in flight. With three ids
  each call has one of its own: none is used again, as in the code none is within 65535
  calls, after which no response of the first survives. What happens when ids do come
  back is not checked (`OwnResponse` and `NotDropped` would be false). In `MasterLive` a single id makes waiters overwrite each other all the
  time, which in the code happens after a reset of `next_tid`: properties about ids
  are left out there. A channel of one element lags at the second.
- *Locks.* Two handlers that share two addresses are the smallest deadlock of locks
  taken in different orders, and the smallest race between one that cleans up an
  entry and one that takes it.
- *Queues.* Three requests on a connection let one arrive at each of a drain's
  three points; two connections show that they do not touch each other.
- *Requests.* The constants keep the order and the slack of the code's: limits below
  the word sizes, so that wraps happen just where the code's arithmetic wraps. The
  calls have each quantity at zero, at the limit, above it, and blocks that end at,
  past and beyond the last address. One client makes all calls; the second the two
  that lock, which is what can interfere. Unit 1 has no range, unit 2 two of them,
  unit 3 no model, unit 0 is the broadcast.
- *Pages.* 241 bytes is the longest value that fits a page of its own, 243 and 246
  lie just between and above the code's two limits, two values of 118 share a page.
- *RTU.* The lines have frames back to back, noise, a wrong checksum, a frame cut
  off at the end, and bytes that predict more than the pool holds. Eleven bytes are
  more than the pool's eight; three chunks, cut at every place, put a cut into every
  part of a frame and let two timers of earlier chunks be late.
- *Ports.* Two sessions are the one that ends and the one a reopening makes; two
  datagrams renew an entry, or make one after the other; two users overlap calls. One
  user and one writer are enough for `UdpPort`, whose race is between close(), write(),
  the receive task and the timers; with one peer the connections of its address follow
  one another. Its safety properties are theorems for any number of each.

**Deadlock** is checked for the locks and the ports, but there somebody can nearly
always take some step (a plain write, a `clean()`, a new call). That nobody waits for
ever is shown by `Finishes` and `CloseReturns`, and that handlers never all wait for
each other by the theorem `NoCircularWait`. Deadlock is not checked for the master,
the queues, the requests, the pages and the framer: once the bounded calls, frames or
bytes are used up, or the master is destroyed, these models stop.

**Fairness.** The runtime polls every task that is ready, timers fire, threads run:
weak fairness of each caller's, handler's, drain's, receive task's and timer's
steps. A serial read returns, since it has a timeout. The methods of the user's
model return, or panic. Acquiring an address lock has strong fairness, since tokio's
mutex queues its waiters. Nothing is assumed of slaves, links, peers, administrators
or of the master's receive loops.

A master's calls are fair only in `Prompt`: the steps that neither wait for a peer nor
are the caller's choice. That a write ends is not assumed, because the code gives it no
timeout: a peer that stops reading blocks the call, the queue lock it holds and
`close()` (section 6). `CallReturns` therefore has the premise that, again and again,
no write stands in the way of the call (`HeldUp`: its own, or in FIFO mode anybody's);
given that, it rests on the timeout. The UDP port is fair as a whole (`Progress`): the
closing users, running tasks and timers have finitely many steps, so it does not matter
which goes first. Opening, writing and `LetGo` are not in it, and `PortReleased` has the
premise that the writes and closures that keep a closed session's socket do let go of
it. The properties checked without fairness are safety properties.

## 4. Proofs

The theorems hold for every set of callers, handlers, connections, models and
addresses and for every bound. They assume what the modules assume of their
constants (`...Assumption`, evaluated by TLC), and where a theorem has a hypothesis
of its own it is told here.

- **`ModbusMasterProofs`.** `TypeCorrect`: `TypeOK` with `Numbering` (a caller is in a
  call exactly when it is not idle, and calls are numbered apart).
  `NobodyWaitsUnarmed`: an action that takes a waiter away resolves its receiver in
  the same step, and arming under a key in use resolves the caller it overwrites.
  `ClosedMasterIsQuiet`: a master that is closed has no open port until `open()` has
  lifted the mark, so that no call begins a write; and one that had begun over TCP or
  serial, its call dropped or not, finds no handle once `close()` has dropped it. Its
  second half says nothing of UDP, where a datagram under way may follow the close, nor
  of a handle that a port which ended by itself has left. The rest is under `FewCalls` (fewer calls than ids, and no
  `open()` after the first): `ServiceInv` adds that a waiter is that of a caller
  past `Arm` (`WaiterInv`), that each call has at most one message anywhere between
  the two ends, and none before its write (`TransitInv`), that one caller at a time
  is past the queue lock (`TurnInv`, FIFO), and that ids of calls, waiters and
  messages are pairwise different (`IdInv`, TCP). The last needs a count: the calls
  that have not taken their id yet, plus the ids given, are no more than the calls
  begun; so the counter does not come round. `ResponsesAreOwn`, `NobodyIsDropped`
  and `MasterRefinement` follow. Without the hypothesis they are false (section 6).
  `OneCallAtATime` does without it: a master that is not concurrent makes its calls one
  at a time and in the order they began, through cancellations and reopenings,
  because whoever is past the queue lock began before all that wait for it.
- **`AddressLocksProofs`.** `LockInvariant` is inductive: references are to the mutex
  that is in the table, what is held belongs to a request at the right step, and no
  address is held twice, handlers whose locks were forgotten excepted. Exclusion
  alone is not inductive: it needs that two holders of an address refer to the
  same mutex, hence that an entry in use is never removed. `MutualExclusion`,
  `AtomicUpdate`, `BoundedTable` and the refinement `LocksRefinement` follow, with
  `Clean` at any point. `NoCircularWait`: while there is a handler that has begun, one
  can go on. What a handler holds is below what it awaits (`Ascending`); so among the
  handlers that wait take one that waits at the highest address: who holds a mutex of
  that address does not wait. This covers the handlers whose locks `clean()` has
  forgotten. It uses that addresses are bounded (`MaxAddress`).
- **`SlaveQueuesProofs`.** `QueueTypes`. `QueuesAreDrained`: every entry has a drain
  under way, from an invariant that ties entries, the processing flag and drains; but
  the entry of a connection whose drain has panicked (`stuck`).
  `ConnectionsAreSerialized`: a slave opened once and not closed has at most one
  drain per connection. `RequestsAreInOrder` and `RequestsAreServedOnce`, for a slave
  opened once and closed at will: `OrderInv` says that what was served is before
  what is queued, which is before what the framing task has in hand, which is
  before what is in the channel, and that queues and channel are in order. The order is
  that of the queues, hence claimed for FIFO mode only: concurrent tasks start as the
  runtime likes. That a request is served once holds in both modes; a spawned task has a
  frame that nobody else has (`Spawned`).
- **`SlaveRequestsProofs`.** Every safety invariant of `SlaveRequests`. `TypeCorrect`;
  `LockedUpdatesAreAtomic`, from an invariant that says what a request holds at each
  step, how far it has written, and that no other FC23 has since written what it has
  (`ProgressInv`, `ReadInv`, `PairInv`); `WritesAreInRange`. `ExchangesReadBack` adds
  that an element holds what its last writer sent (`ValueInv`), for which the elements
  of a block must be different addresses although `address + i` wraps: a block the
  master built is shorter than a word. `SuccessIsTrue`, `ChecksFit` and
  `LengthsArePredicted` share `StepInv`: with which model a request is and which it
  has passed, what it has written there, which broadcasts were made, and which
  replies and results a step can leave. What the checks compute is arithmetic,
  proved apart from the steps: the bytes of bits and registers (`ReadBytes`,
  `RegisterBytes`), what the master's methods build (`MethodForms`), that an answer
  passes the checks (`GoodRepliesPass`), and that the parser's index can only leave
  the data when the byte count wraps (`OnlyOverflowPanics`).
- **`RtuFramerProofs`.** `TypeCorrect` with the size of the pool under each step of the
  data task; `PoolNeverOverflows` (a flush that leaves a full pool would have had at
  least a frame's worth of bytes, which it skips); `BytesNeverStrand`;
  `BurstsAreSeparate`. `CleanLinesAreFramed` is about a whole line of frames, cut
  anywhere: by `NetInv` the pool begins where a frame begins, no frame lies across its
  beginning, and those before it are the ones published, so that a flush finds a frame
  whole, or a part of one that it waits for (`NextFrame`, `NetFlush`).

  *Paging* is in the same module: its page is the frame whose length is hardest to
  predict. The walk over the objects is first shown to be well defined
  (`WalkIsDefined`), then to keep at each object (`WalkInv`) that the bytes add up to no
  more than a page, and that every object passed is on the page, or is left for a later
  one, or is the object 0 and too long for any. With it `PagesAreWaitedFor` is
  arithmetic, `PagesSkipNothing` follows from an invariant on what the master was given
  (`GivenInv`: every object that was there all along and is below the next page's first
  id), and `PagesLeadOn` says that the next page starts behind this one's first object,
  but for the case of section 6, item 8.

  Frames and objects are of any number, so these proofs go by induction over a set of
  numbers. The library's induction theorems take an operator, which the provers cannot
  instantiate; that each set of naturals has a least element needs none (`LeastElement`,
  from the well-foundedness of `<`), and the induction leads the least counterexample
  to a contradiction.
- **`TcpClientPortProofs`.** `TypeCorrect`. `SessionIsWhole` speaks of the port between
  calls, so the invariant follows open() and close() through their statements: an
  open() has the port to itself, what it has stored so far belongs to its
  connection, and while `isOpen` holds the three agree. With the ends of sessions
  counted: `WholeSessions`, `ReadersEnd`, `EndsOnce`. `NoDataAfterClose`: data follows
  the announcement of a connection's end only from a read task that was told to stop
  while it was being polled, and had its bytes in hand.
- **`UdpPortProofs`.** `TypeCorrect`; `AnnouncedOnce`: a connection is in one place
  (the map, one task's hands, or one timer's), it was made by a datagram of its own,
  and a timer is aimed at the connection it was armed for. `TimersAreReplaced`: a
  connection in the map has a timer that sleeps or has woken, aimed at it under its
  address, and no other one sleeps for it (`TimerInv`: the timers of the datagrams to
  come are unused, the one kept for a connection is aimed at it, and is about to
  evict it while it is in the map).
  `QuietPortIsWhole`, from what holds between any two statements of open() and
  close() while the calls are in order: an open() has the port to itself, a receive
  task that runs is the stored one or was told to stop, and the map is empty unless
  the port is open, somebody is about to empty it, or a task told to stop has entered
  what is in it (`late`). `SocketIsReleased`, from the same
  invariant with `StoppedInv`: no open() holds the socket of a task that was told to
  stop, only a close() about to drop it still stores it, and no such task is ending
  the session itself; what is left are the writes and closures it was lent to.
- **`SerialPortProofs`.** `TypeCorrect`; `ClosedIsReleased` and `SessionsEndOnce`, by an
  invariant on who owns the session at each statement of open() and close(). `JoinEnds`,
  from it: while close() waits for the thread, the port stays closed and that thread is
  the only one, so that it ends at its next look at the flag.

**Only model-checked.** Liveness (`CallReturns`, `Finishes`, `TakenIsServed`,
`PagingEnds`, `EvictedAtLast`, `PortReleased`, `CloseReturns`): TLAPS does not reason
about fairness and ENABLED. Every other property that a passing run checks is a
theorem. Of the liveness properties all but `CallReturns` have a safety half, on which
they rest and which is proved: somebody can go on (`NoCircularWait`, for `Finishes`), a
queue has its drain (`QueuesAreDrained`, for `TakenIsServed`), a page leads on
(`PagesLeadOn`, for `PagingEnds`), a connection has its timer (`TimersAreReplaced`, for
`EvictedAtLast`), nothing else holds the socket (`SocketIsReleased`, for
`PortReleased`), and the thread has nothing to wait for (`JoinEnds`, for
`CloseReturns`). Left to the runs is that what can be done is done: the fairness of
section 3. `SomebodyGoes`, `CallsTakeTurns`, `PagesAdvance`, `JoinIsShort` and
`ReleaseIsNear`, which five of these theorems state, are in no run.

## 5. Not modelled

- **ASCII layer.** A character state machine per connection, run over each chunk
  under one lock: it is sequential, and its tests enumerate its states. (One case is
  shared with MBAP: a data event that is handled after the connection_close event
  makes a buffer entry that nobody removes.)
- **MBAP framing** (`tcp.rs`): abstracted, in `ModbusMaster`, to the two halves of a
  response and the two channels. An invalid header discards the rest of its chunk.
- **TCP server port**: its connections and events are part of `SlaveQueues`; its own
  map of clients is not modelled.
- **Half-written requests**: a `write_all` that fails, or is dropped, after some of its
  bytes. The TCP client's `write` is otherwise seen by `ModbusMaster`; its response
  closure, and responses that cannot be sent, are not modelled.
- **UDP beyond loss and reordering**: duplicated datagrams; which socket an answer to a
  datagram sent late comes back to; a client with a fixed local address (the model's
  clients are given a port of their own, so reopening one does not wait for the last).
- **The traits and constants** (`application/mod.rs`, `physical/mod.rs`, `error.rs`,
  `types.rs`, `vars.rs`): no behaviour of their own.
- **Checksums and conversions**: a checksum matches or does not; baud rates, hex
  digits and byte order are data the properties do not tell apart.
- **`add` and `remove`** of models while requests run (`process_frame` takes a snapshot
  of the map under its lock), logging, error texts, and `is_open()` of the ports, a
  `try_lock` that may answer false under contention.
- **Several administrators** of one master or slave: `clean_level` is loaded and
  stored separately, so two tasks that close and destroy at once may undo each
  other; the models have one.

## 6. Where the code departs from its docs, comments or tests

`SerialUnread` shows one of them: `open()` starts the reader thread (`serial.rs:157`)
before it stores `is_open = true` (`:220`); a thread that looks at `is_open` in
between takes the port for closed and ends. The port is then open, and silent,
without an error or a close event. The others were met while modelling; where a
property or a theorem would meet one, it leaves that case out, as told in brackets.

1. `master.rs:139`: `open()` on a master that is open resets the ids and keeps the
   connection; a late response then answers another call, which
   `tests/master_concurrent_test.rs:197` says cannot be. (`FewCalls`.)
2. `master.rs:226`: a call past the recheck survives `close()` until its timeout,
   though the test at `tests/master_concurrent_test.rs:242` expects calls in flight to
   be rejected.
3. `slave.rs:315`: closing forgets locks that are held, against `slave.rs:131-133`.
   (`orphans`.)
4. `slave.rs:314`: closing forgets queues that are being drained; a frame already
   taken starts a second drain, against `slave.rs:110-112`. (`AllowClose`.)
5. `slave.rs:203`: the tasks of an earlier `open()` survive `close()`, and every
   request is processed twice after a reopening. (`MaxOpens = 1`.)
6. `slave.rs:470`: a panic in `process_frame` leaves the entry marked as processing:
   the connection is never served again. FC1 at address 65535 panics in a debug
   build. (`stuck`.)
7. `slave.rs:701`: a range must hold `address + length`, one past the block: its last
   element is refused to FC1-4, 15, 16 and 23 and allowed to FC5, 6 and 22.
8. `slave.rs:1348`: FC43/14 allows values of 245 bytes where a page has room for 241: a
   longer one is asked for for ever, or, as object 0, silently left out. A page of
   code 1 or 2 goes on to objects the next request may not start at (`slave.rs:1256`;
   and one of code 3 to ids 7 to 127): the master is sent back to object 0, for ever.
   (`Pageable`.)
9. `rtu.rs:317`: a t3.5 timer that has woken cannot be cancelled ("Cancel pending
   timers"); it flushes a pool in which the next frame has begun, which is lost.
10. `tcp_client.rs:155`: a connection lost during `open()` is never announced: the
    port is open on a dead connection. After the peer has closed, close() returns at
    its gate and the half-open socket stays.
11. `udp.rs:325`: after a failure of the socket the stored socket keeps the port
    bound, and close() returns at its gate, although `:325` wants it dropped
    promptly. `udp.rs:296`: a `write()` that meets a `close()` unwraps a socket that is
    gone, and panics; or it has its clone already, and sends after the close, while the
    port stays bound. So it does for as long as a response closure is kept (`:238`).
    (`lent`; `ClosedIsQuiet` for TCP and serial.)
12. `serial.rs:212`: after the thread has ended by itself the write handle stays stored
    and close() returns at its gate: the device stays busy.
13. `tcp_server.rs:171`: a client that leaves before it is entered in the map stays there.
14. `master.rs:279`: the write has no timeout; a peer that stops reading blocks the call,
    in FIFO mode every call behind it, and `close()`, which waits for the write half.
    (`HeldUp`.)
15. `serial.rs:232`: a call that is dropped while it writes releases the queue lock, and
    its request still goes out, perhaps between those of later calls. (`detached`.)
16. `slave.rs:938`: FC6 and FC16 take no address lock: a write between FC22's read and
    its write is lost. (`UpdateIsAtomic` and `UpdatesDontTear` speak of locked requests.)
17. `master.rs:697`: byte counts are truncated to `u8`: a list that needs more than 255
    bytes panics in the method that builds the request (as at `:633` and `:873`), and a
    read of very many registers wraps the count its response is checked against, on
    which the parser panics. (`ChecksFitResponses`.)
18. `udp.rs:230`: a receive task told to stop may still enter a connection after
    `close()` has emptied the map. A server's idle timer evicts it; without timers it
    stays until the next `open()` clears the map, without an event. (`late`.)

## 7. What is left

In this order: `TcpServerPort` (accept task against client tasks, close after a
failing listener); the MBAP and ASCII framers against any split of a stream; several
administrators of one master.
