----------------------------- MODULE SlaveQueues -----------------------------
(***************************************************************************)
(* The server side of the library: how `ModbusSlave` (slave.rs) queues the *)
(* requests of each connection, hands them to `process_frame`, and what    *)
(* `open`, `close`, `destroy`, a lost connection or a lost listener do to  *)
(* the queues.                                                             *)
(*                                                                         *)
(* Every open() subscribes three tasks to the broadcast channels of the    *)
(* layers below: one takes frames, one hears of closed connections, one of *)
(* the closed port.  They are named by the open() that spawned them, their *)
(* receiver.  A frame opens a queue for its connection if there is none,   *)
(* and a drain task with it; the drain serves the queue until it is empty. *)
(* A drain is named by the frame and the receiver that spawned it.         *)
(***************************************************************************)
EXTENDS Integers, Sequences

CONSTANTS
  Conns,       \* connections, each with an id of its own
  Modes,       \* the slaves modelled: "fifo" or "concurrent" (ModbusSlaveOptions)
  ChanCap,     \* capacity of the framing broadcast channel
  AllowClose,  \* TRUE: the slave may be closed or destroyed, its listener may fail
  MaxFrames,   \* bound: requests sent on a connection
  MaxOpens,    \* bound: calls of open(), the first included
  NoFrame      \* the absence of a frame

Frames == [conn : Conns, seq : 1 .. MaxFrames]   \* seq: the order of arrival on conn
Receivers == 1 .. MaxOpens
Drains == [spawner : Frames, receiver : Receivers]

ASSUME QueuesAssumption ==
  /\ Modes \subseteq {"fifo", "concurrent"} /\ AllowClose \in BOOLEAN
  /\ ChanCap \in Nat \ {0} /\ MaxFrames \in Nat /\ MaxOpens \in Nat \ {0}
  /\ NoFrame \notin Frames

VARIABLES
  mode,        \* ModbusSlave.concurrent
  isOpen,      \* ModbusSlave.is_open
  level,       \* ModbusSlave.clean_level
  adm,         \* where the task that opens and closes the slave stands
  opens,       \* calls of open() so far
  alive,       \* the receivers whose three tasks run
  port,        \* the physical layer: "closed", "open" or "destroyed"
  conns,       \* each connection: "new", "up" or "down"
  sent,        \* requests each connection has sent
  inbox,       \* what each receiver has not yet taken from the framing channel
  hand,        \* the frame its task has taken but not yet enqueued
  closedConns, \* the connection_close events each receiver has not handled
  closedPort,  \* the close events each receiver has not handled (their number)
  entries,     \* the keys of ModbusSlave.queues
  items,       \* QueueEntry.items
  processing,  \* the entries whose QueueEntry.processing is set
  stuck,       \* ghost: the entries whose drain has panicked
  drain,       \* where each drain stands
  job,         \* the frame each drain processes
  served       \* the frames process_frame was started for

adminVars == <<isOpen, level, adm, opens, alive>>
linkVars == <<port, conns, sent>>
eventVars == <<inbox, closedConns, closedPort>>
queueVars == <<entries, items, processing, stuck>>
drainVars == <<drain, job, served>>
vars == <<mode, adminVars, linkVars, eventVars, hand, queueVars, drainVars>>

Concurrent == mode = "concurrent"

AdmSteps == {"idle", "close_clear", "close_port", "destroy_clear", "abort", "destroy_port",
             "open_clear", "subscribe", "open_port"}
DrainSteps == {"none", "spawned", "pop", "process", "settle", "done"}

TypeOK ==
  /\ mode \in Modes
  /\ isOpen \in BOOLEAN /\ level \in 0 .. 2 /\ adm \in AdmSteps /\ opens \in Receivers
  /\ alive \subseteq Receivers
  /\ port \in {"closed", "open", "destroyed"} /\ conns \in [Conns -> {"new", "up", "down"}]
  /\ sent \in [Conns -> 0 .. MaxFrames]
  /\ inbox \in [Receivers -> Seq(Frames)] /\ hand \in [Receivers -> Frames \cup {NoFrame}]
  /\ closedConns \in [Receivers -> SUBSET Conns] /\ closedPort \in [Receivers -> Nat]
  /\ entries \subseteq Conns /\ items \in [Conns -> Seq(Frames)] /\ processing \subseteq Conns
  /\ stuck \subseteq Conns
  /\ drain \in [Drains -> DrainSteps] /\ job \in [Drains -> Frames \cup {NoFrame}]
  /\ served \subseteq Frames

\* After the first open() has returned Ok.
Init ==
  /\ mode \in Modes
  /\ isOpen = TRUE /\ level = 0 /\ adm = "idle" /\ opens = 1 /\ alive = {1}
  /\ port = "open" /\ conns = [c \in Conns |-> "new"] /\ sent = [c \in Conns |-> 0]
  /\ inbox = [r \in Receivers |-> <<>>] /\ hand = [r \in Receivers |-> NoFrame]
  /\ closedConns = [r \in Receivers |-> {}] /\ closedPort = [r \in Receivers |-> 0]
  /\ entries = {} /\ items = [c \in Conns |-> <<>>] /\ processing = {} /\ stuck = {}
  /\ drain = [d \in Drains |-> "none"] /\ job = [d \in Drains |-> NoFrame] /\ served = {}

-----------------------------------------------------------------------------
(* The queues *)

\* push_back, pop_front, and the condition under which a frame needs a new drain.
\* Faults: push_front, a peek in place of a pop, a drain for every frame.
PushFront(q, f) == <<f>> \o q
PushBack(q, f) == Append(q, f)
Peek(q) == q
PopFront(q) == Tail(q)
AlwaysDrain(c) == TRUE
NeedsDrain(c) == c \notin processing

\* HashMap::remove of the connections C; clear() when C is all of them.
Remove(C) ==
  /\ entries' = entries \ C
  /\ items' = [c \in Conns |-> IF c \in C THEN <<>> ELSE items[c]]
  /\ processing' = processing \ C
  /\ stuck' = stuck \ C

Spawn(d, step) == drain' = [drain EXCEPT ![d] = step]

\* process_frame begins for frame f.
Serve(d, f) == job' = [job EXCEPT ![d] = f] /\ served' = served \cup {f}

\* The framing task takes a frame; a closed slave ignores it, a concurrent one
\* gives it a task of its own.
Take(r) ==
  /\ r \in alive /\ hand[r] = NoFrame /\ inbox[r] # <<>>
  /\ inbox' = [inbox EXCEPT ![r] = Tail(@)]
  /\ LET f == Head(inbox[r])
         d == [spawner |-> f, receiver |-> r] IN
     \/ ~isOpen /\ UNCHANGED <<hand, drainVars>>
     \/ isOpen /\ Concurrent /\ Spawn(d, "spawned") /\ UNCHANGED <<hand, job, served>>
     \/ isOpen /\ ~Concurrent /\ hand' = [hand EXCEPT ![r] = f] /\ UNCHANGED drainVars
  /\ UNCHANGED <<adminVars, linkVars, closedConns, closedPort, queueVars>>

\* enqueue_and_drain, under the lock of the queues.
Enqueue(r) ==
  /\ r \in alive /\ hand[r] # NoFrame
  /\ hand' = [hand EXCEPT ![r] = NoFrame]
  /\ LET f == hand[r]  c == f.conn IN
     /\ entries' = entries \cup {c}
     /\ items' = [items EXCEPT ![c] = PushBack(@, f)]
     /\ processing' = processing \cup {c}
     /\ IF NeedsDrain(c)
        THEN Spawn([spawner |-> f, receiver |-> r], "pop")
        ELSE UNCHANGED drain
  /\ UNCHANGED <<adminVars, linkVars, eventVars, stuck, job, served>>

\* The task of one frame of a concurrent slave: the runtime starts them in any order.
Start(d) ==
  /\ Concurrent /\ drain[d] = "spawned"
  /\ Spawn(d, "process") /\ Serve(d, d.spawner)
  /\ UNCHANGED <<adminVars, linkVars, eventVars, hand, queueVars>>

\* drain_loop: pop the next item; without an entry return, without an item settle.
Pop(d) ==
  LET c == d.spawner.conn IN
  /\ drain[d] = "pop"
  /\ \/ c \notin entries /\ Spawn(d, "done") /\ UNCHANGED <<items, job, served>>
     \/ c \in entries /\ items[c] = <<>> /\ Spawn(d, "settle") /\ UNCHANGED <<items, job, served>>
     \/ /\ c \in entries /\ items[c] # <<>>
        /\ items' = [items EXCEPT ![c] = PopFront(@)]
        /\ Serve(d, Head(items[c]))
        /\ Spawn(d, "process")
  /\ UNCHANGED <<adminVars, linkVars, eventVars, hand, entries, processing, stuck>>

\* process_frame has returned.
Finish(d) ==
  /\ drain[d] = "process"
  /\ Spawn(d, IF Concurrent THEN "done" ELSE "pop")
  /\ job' = [job EXCEPT ![d] = NoFrame]
  /\ UNCHANGED <<adminVars, linkVars, eventVars, hand, queueVars, served>>

\* process_frame panics and takes its task along; a drain's entry stays as it is.
Panic(d) ==
  /\ drain[d] = "process"
  /\ Spawn(d, "done")
  /\ job' = [job EXCEPT ![d] = NoFrame]
  /\ stuck' = stuck \cup ({d.spawner.conn} \cap entries)
  /\ UNCHANGED <<adminVars, linkVars, eventVars, hand, entries, items, processing, served>>

\* Faults: a drain returns without removing its entry; it does not look again.
SettleLeavingEntry(d) ==
  /\ drain[d] = "settle"
  /\ Spawn(d, "done")
  /\ UNCHANGED <<adminVars, linkVars, eventVars, hand, queueVars, job, served>>

SettleBlindly(d) ==
  /\ drain[d] = "settle"
  /\ Spawn(d, "done")
  /\ Remove({d.spawner.conn})
  /\ UNCHANGED <<adminVars, linkVars, eventVars, hand, job, served>>

\* drain_loop, under the lock again: an item may have snuck in, the entry may be gone.
Settle(d) ==
  LET c == d.spawner.conn IN
  /\ drain[d] = "settle"
  /\ \/ c \notin entries /\ Spawn(d, "done") /\ UNCHANGED queueVars
     \/ c \in entries /\ items[c] = <<>> /\ Spawn(d, "done") /\ Remove({c})
     \/ c \in entries /\ items[c] # <<>> /\ Spawn(d, "pop") /\ UNCHANGED queueVars
  /\ UNCHANGED <<adminVars, linkVars, eventVars, hand, job, served>>

\* The task that hears of closed connections drops their items, and the entry
\* unless a drain will.
ConnectionClosed(r, c) ==
  /\ r \in alive /\ c \in closedConns[r]
  /\ closedConns' = [closedConns EXCEPT ![r] = @ \ {c}]
  /\ IF c \in entries \cap processing
     THEN items' = [items EXCEPT ![c] = <<>>] /\ UNCHANGED <<entries, processing, stuck>>
     ELSE Remove({c})
  /\ UNCHANGED <<adminVars, linkVars, inbox, closedPort, hand, drainVars>>

\* The task that hears of the closed port drops everything.
PortClosed(r) ==
  /\ r \in alive /\ closedPort[r] > 0
  /\ closedPort' = [closedPort EXCEPT ![r] = @ - 1]
  /\ Remove(Conns)
  /\ UNCHANGED <<adminVars, linkVars, inbox, closedConns, hand, drainVars>>

-----------------------------------------------------------------------------
(* open, close, destroy *)

\* Events reach the receivers subscribed when they are sent.
EmitConnectionClose(C) ==
  closedConns' = [r \in Receivers |-> IF r \in alive THEN closedConns[r] \cup C ELSE closedConns[r]]
EmitClose == closedPort' = [r \in Receivers |-> closedPort[r] + IF r \in alive THEN 1 ELSE 0]

\* close() and destroy() clear is_open first; clean() is skipped by a second close().
Close ==
  /\ AllowClose /\ adm = "idle" /\ level # 2
  /\ \/ level = 1 /\ adm' = "close_port" /\ UNCHANGED isOpen
     \/ level = 0 /\ adm' = "close_clear" /\ isOpen' = FALSE
  /\ UNCHANGED <<level, opens, alive, linkVars, eventVars, hand, queueVars, drainVars>>

Destroy ==
  /\ AllowClose /\ adm = "idle" /\ level # 2
  /\ adm' = "destroy_clear" /\ isOpen' = FALSE
  /\ UNCHANGED <<level, opens, alive, linkVars, eventVars, hand, queueVars, drainVars>>

\* clean(): the queues, then clean_level (which no other task looks at).
Clear ==
  /\ \/ adm = "close_clear" /\ adm' = "close_port" /\ level' = 1
     \/ adm = "destroy_clear" /\ adm' = "abort" /\ level' = 2
  /\ Remove(Conns)
  /\ UNCHANGED <<isOpen, opens, alive, linkVars, eventVars, hand, drainVars>>

\* destroy() aborts the receivers' tasks, never the drains.
Abort ==
  /\ adm = "abort" /\ adm' = "destroy_port"
  /\ alive' = {}
  /\ UNCHANGED <<isOpen, level, opens, linkVars, eventVars, hand, queueVars, drainVars>>

\* The physical layer's close(): nothing if it is not open, else every client is
\* dropped, and then the port is reported closed.
ClosePort ==
  /\ adm \in {"close_port", "destroy_port"} /\ adm' = "idle"
  /\ IF port = "open"
     THEN /\ conns' = [c \in Conns |-> IF conns[c] = "up" THEN "down" ELSE conns[c]]
          /\ EmitConnectionClose({c \in Conns : conns[c] = "up"})
          /\ EmitClose
     ELSE UNCHANGED <<conns, closedConns, closedPort>>
  /\ port' = IF adm = "destroy_port" THEN "destroyed"
             ELSE IF port = "open" THEN "closed"
             ELSE port
  /\ UNCHANGED <<isOpen, level, opens, alive, sent, inbox, hand, queueVars, drainVars>>

\* open() refuses nothing: it opens the slave, whatever the port will say.
Open ==
  /\ adm = "idle" /\ opens < MaxOpens
  /\ opens' = opens + 1
  /\ isOpen' = TRUE /\ level' = 0 /\ adm' = "open_clear"
  /\ UNCHANGED <<alive, linkVars, eventVars, hand, queueVars, drainVars>>

OpenClear ==
  /\ adm = "open_clear" /\ adm' = "subscribe"
  /\ Remove(Conns)
  /\ UNCHANGED <<isOpen, level, opens, alive, linkVars, eventVars, hand, drainVars>>

\* The three new tasks; those of an earlier open() stay.
Subscribe ==
  /\ adm = "subscribe" /\ adm' = "open_port"
  /\ alive' = alive \cup {opens}
  /\ UNCHANGED <<isOpen, level, opens, linkVars, eventVars, hand, queueVars, drainVars>>

\* PortAlreadyOpen, PortDestroyed, a failed bind, or an open port.
OpenPort ==
  /\ adm = "open_port" /\ adm' = "idle"
  /\ port' \in IF port = "closed" THEN {"closed", "open"} ELSE {port}
  /\ UNCHANGED <<isOpen, level, opens, alive, conns, sent, eventVars, hand, queueVars, drainVars>>

-----------------------------------------------------------------------------
(* The physical and application layers *)

Connect(c) ==
  /\ port = "open" /\ conns[c] = "new"
  /\ conns' = [conns EXCEPT ![c] = "up"]
  /\ UNCHANGED <<adminVars, port, sent, eventVars, hand, queueVars, drainVars>>

Disconnect(c) ==
  /\ conns[c] = "up"
  /\ conns' = [conns EXCEPT ![c] = "down"]
  /\ EmitConnectionClose({c})
  /\ UNCHANGED <<adminVars, port, sent, inbox, closedPort, hand, queueVars, drainVars>>

\* accept() fails: the port reports itself closed, but its clients stay.
ListenerFails ==
  /\ AllowClose /\ port = "open"
  /\ port' = "closed"
  /\ EmitClose
  /\ UNCHANGED <<adminVars, conns, sent, inbox, closedConns, hand, queueVars, drainVars>>

\* A request is framed, perhaps after its connection went down, and broadcast;
\* a receiver that is ChanCap frames behind loses the oldest one.
Arrive(c) ==
  /\ conns[c] # "new" /\ sent[c] < MaxFrames
  /\ sent' = [sent EXCEPT ![c] = @ + 1]
  /\ LET f == [conn |-> c, seq |-> sent[c] + 1] IN
     inbox' = [r \in Receivers |->
       IF r \notin alive THEN inbox[r]
       ELSE Append(IF Len(inbox[r]) = ChanCap THEN Tail(inbox[r]) ELSE inbox[r], f)]
  /\ UNCHANGED <<adminVars, port, conns, closedConns, closedPort, hand, queueVars, drainVars>>

-----------------------------------------------------------------------------
Drain(d) == Start(d) \/ Pop(d) \/ Finish(d) \/ Panic(d) \/ Settle(d)

Administrator ==
  \/ Close \/ Destroy \/ Clear \/ Abort \/ ClosePort
  \/ Open \/ OpenClear \/ Subscribe \/ OpenPort

Step ==
  \/ \E r \in Receivers : Take(r) \/ Enqueue(r) \/ PortClosed(r)
                          \/ \E c \in Conns : ConnectionClosed(r, c)
  \/ \E d \in Drains : Drain(d)
  \/ Administrator
  \/ \E c \in Conns : Connect(c) \/ Disconnect(c) \/ Arrive(c)
  \/ ListenerFails

Next == Step /\ UNCHANGED mode

Spec == Init /\ [][Next]_vars

\* The runtime polls every task that is ready, and the model's methods return or panic.
\* Nothing is assumed of the clients, the administrator or the events.
FairSpec ==
  /\ Spec
  /\ \A r \in Receivers : WF_vars(Enqueue(r) /\ UNCHANGED mode)
  /\ \A d \in Drains : WF_vars(Drain(d) /\ UNCHANGED mode)

-----------------------------------------------------------------------------
(* Properties *)

Active(d) == drain[d] \in {"pop", "process", "settle"}
DrainsOf(c) == {d \in Drains : d.spawner.conn = c}

\* No queue is forgotten: every entry of the map is marked as being processed and
\* has a drain that will empty and remove it, however closes and reopenings
\* interleave with drains, unless a request has made its drain panic.  (So the map
\* grows by such entries alone, and the removal of an idle entry by the
\* connection_close task is never needed.)
EntryIsDrained ==
  \A c \in entries : c \in processing /\ (c \in stuck \/ \E d \in DrainsOf(c) : Active(d))

\* The requests of one connection are processed one at a time, unless the slave
\* is a concurrent one.
OneAtATime ==
  ~Concurrent => \A c \in Conns : \A d, e \in DrainsOf(c) :
    drain[d] = "process" /\ drain[e] = "process" => d = e

\* A request is processed at most once.
ServedOnce == [][\A d \in Drains : job'[d] # job[d] /\ job'[d] # NoFrame => job'[d] \notin served]_vars

\* The requests of one connection are started in the order they arrived, unless the
\* slave is a concurrent one.
InOrder ==
  [][~Concurrent => \A d \in Drains : job'[d] # job[d] /\ job'[d] # NoFrame =>
       \A f \in served : f.conn = job'[d].conn => f.seq <= job'[d].seq]_vars

\* A request that was taken while the slave was open is processed, unless its
\* connection or the port is closed first or one before it panics: none is stranded
\* when it arrives while the drain of its connection is settling.
Taken(f) ==
  \/ \E i \in DOMAIN items[f.conn] : items[f.conn][i] = f
  \/ \E r \in alive : hand[r] = f

TakenIsServed ==
  \A f \in Frames : Taken(f) ~> \/ f \in served \/ f.conn \in stuck
                               \/ conns[f.conn] = "down" \/ ~isOpen \/ port # "open"

-----------------------------------------------------------------------------
(* The invariants behind them *)

\* Whatever is closed meanwhile: the flag says what it means to, and a concurrent
\* slave never queues.
DrainInv ==
  /\ processing = entries
  /\ EntryIsDrained
  /\ Concurrent => entries = {} /\ \A r \in Receivers : hand[r] = NoFrame

\* As long as nothing is closed or opened again: a connection with an active drain
\* has an entry, and no second drain.
QuietInv ==
  /\ adm = "idle" /\ opens = 1 /\ \A r \in Receivers : closedPort[r] = 0
  /\ \A d \in Drains : Active(d) => d.spawner.conn \in entries
  /\ \A d, e \in Drains : Active(d) /\ Active(e) /\ d.spawner.conn = e.spawner.conn => d = e
=============================================================================
