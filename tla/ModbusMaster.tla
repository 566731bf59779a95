---------------------------- MODULE ModbusMaster ----------------------------
(***************************************************************************)
(* The client side of the library: `ModbusMaster::wait_response`, `open`,  *)
(* `close` and `destroy` (master.rs) together with the table of pending    *)
(* requests, `MasterSession` (master_session.rs).                          *)
(*                                                                         *)
(* Several tasks (Callers) issue requests through one master.  A request   *)
(* arms a waiter under a key, writes to the port and waits for the         *)
(* one-shot channel of that waiter.  Two further tasks drain the           *)
(* application layer's broadcast channels of frames and of framing errors  *)
(* and resolve waiters.  One more task, the administrator, opens, closes   *)
(* and destroys the master.  An action is what one task does between two   *)
(* points where another one may observe it: one lock section, one atomic   *)
(* access, one await.  The physical layer is seen from its write(): the    *)
(* check of is_open is one step, the bytes go out in a later one, and in   *)
(* between the port may be lost, closed or opened again.                   *)
(***************************************************************************)
EXTENDS Integers, Sequences, FiniteSets

CONSTANTS
  Callers,      \* the tasks that issue requests
  Kinds,        \* unit, function code and shape of a unicast request: what the pre-checks compare
  Masters,      \* the masters modelled, each a mode and a link
  MaxTid,       \* the last transaction id before the counter wraps (65535 in the code)
  ChanCap,      \* capacity of the framing and framing_error broadcast channels
  StartOpen,    \* TRUE: behaviours start after a first successful open()
  AllowCancel,  \* TRUE: callers may drop the future of a call at an await
  MaxCalls,     \* bound: calls made by all callers together
  MaxOpens      \* bound: calls of open()

\* What the library is for: frames of Modbus TCP over a network, those of RTU and ASCII
\* over any link.  There is no concurrent master on RTU or ASCII: its constructor panics.
Modes == {"tcp", "tcp_concurrent", "rtu_ascii"}
Links == {"tcp", "udp", "serial"}

ASSUME MasterAssumption ==
  /\ Masters \subseteq {m \in (Modes \X Links) : m[2] = "serial" => m[1] = "rtu_ascii"}
  /\ StartOpen \in BOOLEAN /\ AllowCancel \in BOOLEAN
  /\ MaxTid \in Nat \ {0} /\ ChanCap \in Nat \ {0}
  /\ MaxCalls \in Nat /\ MaxOpens \in Nat
  /\ \A k \in Kinds : k \notin {"broadcast", "exception"}

Fifo == 0                       \* WaiterKey::Fifo; transaction id 0 is never allocated
Keys == 0 .. MaxTid             \* every WaiterKey
Calls == 1 .. MaxCalls          \* calls of wait_response, numbered as they begin
NoCall == 0
Requests == Kinds \cup {"broadcast"}

\* A frame on its way, request or response: the call it belongs to (known to no
\* one but the reader of the model), its transaction id, and its contents.
Messages == [call : Calls, key : Keys, kind : Requests \cup {"exception"}]
Responses == {m \in Messages : m.kind # "broadcast"}

\* What the application layer's buffer holds when it is not part of a response.
NoBytes == [call |-> NoCall, key |-> Fifo, kind |-> "none"]
Orphan == [call |-> NoCall, key |-> Fifo, kind |-> "orphan"]    \* the rest of a flushed one

\* What a one-shot channel holds; a frame carries the call it answers.
Pending == [tag |-> "pending", call |-> NoCall]
Rejected(why) == [tag |-> why, call |-> NoCall]
Frame(m) == [tag |-> "frame", call |-> m.call]
Reasons == {"closed", "framing", "precheck", "dropped"}
Results == [tag : {"pending", "frame"} \cup Reasons, call : Calls \cup {NoCall}]

VARIABLES
  mode,      \* the application layer's protocol and ModbusMasterOptions.concurrent
  link,      \* the physical layer
  pc,        \* where each caller stands in wait_response
  begun,     \* the number of calls begun so far
  cur,       \* the call each caller is in
  kind,      \* the request each caller is making
  key,       \* the WaiterKey each caller's request uses
  rx,        \* the receiver of each caller's one-shot channel
  waiters,   \* MasterSession.waiters: the call armed under each key
  nextTid,   \* ModbusMaster.next_tid
  level,     \* ModbusMaster.clean_level
  tasks,     \* whether the framing and error tasks still run
  adm,       \* where the administrator stands
  opens,     \* calls of open() so far
  port,      \* PhysicalLayer::is_open
  writer,    \* whether the physical layer stores a write half, socket or port to write to
  detached,  \* requests of dropped calls that a blocking thread has yet to write (serial)
  atSlave,   \* requests on the wire that no slave has answered or carried out yet
  wire,      \* responses not received yet
  framer,    \* the application layer's buffer: the response received in part
  frames,    \* broadcast channel of complete frames
  errors     \* broadcast channel of framing errors (their number)

callerVars == <<pc, begun, cur, kind, key, rx>>
sessionVars == <<waiters, nextTid>>
adminVars == <<level, tasks, adm, opens>>
portVars == <<port, writer, detached>>
linkVars == <<portVars, atSlave, wire, framer>>
chanVars == <<frames, errors>>
vars == <<mode, link, callerVars, sessionVars, adminVars, linkVars, chanVars>>

Tcp == mode # "rtu_ascii"
Concurrent == mode = "tcp_concurrent"

Steps == {"idle", "queued", "recheck", "prepare", "arm", "write", "sending", "wait", "stop"}
AdmSteps == {"idle", "close_store", "destroy_store", "abort", "port_close", "reset_tid", "port_open"}
Buffers == Responses \cup {NoBytes, Orphan}

TypeOK ==
  /\ <<mode, link>> \in Masters
  /\ pc \in [Callers -> Steps] /\ begun \in 0 .. MaxCalls /\ cur \in [Callers -> Calls \cup {NoCall}]
  /\ kind \in [Callers -> Requests] /\ key \in [Callers -> Keys]
  /\ rx \in [Callers -> Results]
  /\ waiters \in [Keys -> Calls \cup {NoCall}] /\ nextTid \in 1 .. MaxTid
  /\ level \in 0 .. 2 /\ tasks \in BOOLEAN /\ adm \in AdmSteps /\ opens \in 0 .. MaxOpens
  /\ port \in BOOLEAN /\ writer \in BOOLEAN /\ detached \subseteq Messages
  /\ atSlave \subseteq Messages /\ wire \subseteq Responses
  /\ framer \in Buffers /\ frames \in Seq(Responses) /\ errors \in 0 .. ChanCap

Init ==
  /\ \E m \in Masters : mode = m[1] /\ link = m[2]
  /\ pc = [c \in Callers |-> "idle"] /\ begun = 0 /\ cur = [c \in Callers |-> NoCall]
  /\ kind = [c \in Callers |-> "broadcast"] /\ key = [c \in Callers |-> Fifo]
  /\ rx = [c \in Callers |-> Pending]
  /\ waiters = [k \in Keys |-> NoCall] /\ nextTid = 1
  /\ level = 0 /\ tasks = TRUE /\ adm = "idle" /\ opens = 0
  /\ port = StartOpen /\ writer = StartOpen /\ detached = {} /\ atSlave = {} /\ wire = {}
  /\ framer = NoBytes /\ frames = <<>> /\ errors = 0

-----------------------------------------------------------------------------
(* MasterSession *)

\* c still holds the receiver of its call and nothing was sent on it.
Listening(c) == rx[c] = Pending /\ pc[c] \in {"write", "sending", "wait"}

\* Send, or drop the sender, for the calls in W: seen by those still listening.
Resolved(W, result) ==
  [c \in Callers |-> IF cur[c] \in W /\ Listening(c) THEN result ELSE rx[c]]

\* Fault: the table is drained and nobody is told.
StopAllQuietly(why) ==
  /\ waiters' = [k \in Keys |-> NoCall]
  /\ rx' = rx

\* MasterSession::stop_all
StopAll(why) ==
  /\ waiters' = [k \in Keys |-> NoCall]
  /\ rx' = Resolved({waiters[k] : k \in Keys}, Rejected(why))

\* run_pre_checks: unit, function code, length, byte count or echo of the request.
PreChecks(m, w) == \A c \in Callers : w = cur[c] => m.kind = kind[c]

\* MasterSession::handle_frame
Dispatch(m) ==
  LET w == waiters[m.key] IN
  /\ waiters' = [waiters EXCEPT ![m.key] = NoCall]
  /\ rx' = Resolved({w}, IF PreChecks(m, w) THEN Frame(m) ELSE Rejected("precheck"))

\* The framing task: one iteration of its receive loop.
HandleFrame ==
  /\ tasks /\ frames # <<>>
  /\ frames' = Tail(frames)
  /\ Dispatch(Head(frames))
  /\ UNCHANGED <<pc, begun, cur, kind, key, nextTid, adminVars, linkVars, errors>>

\* The error task: a framing error carries no id, so it rejects every waiter.
HandleError ==
  /\ tasks /\ errors > 0
  /\ errors' = errors - 1
  /\ StopAll("framing")
  /\ UNCHANGED <<pc, begun, cur, kind, key, nextTid, adminVars, linkVars, frames>>

-----------------------------------------------------------------------------
(* wait_response *)

Goto(c, step) == pc' = [pc EXCEPT ![c] = step]

\* The call returns: its locals end and the queue lock is released.
Return(c) ==
  /\ Goto(c, "idle")
  /\ cur' = [cur EXCEPT ![c] = NoCall]
  /\ kind' = [kind EXCEPT ![c] = "broadcast"] /\ key' = [key EXCEPT ![c] = Fifo]

\* A call made after close() or destroy() returns at once and changes nothing;
\* any other goes on, in FIFO mode by queueing for queue_lock.
Call(c, k) ==
  /\ pc[c] = "idle" /\ level = 0 /\ begun < MaxCalls
  /\ begun' = begun + 1
  /\ cur' = [cur EXCEPT ![c] = begun + 1]
  /\ kind' = [kind EXCEPT ![c] = k]
  /\ Goto(c, IF Concurrent THEN "recheck" ELSE "queued")
  /\ UNCHANGED <<key, rx, sessionVars, adminVars, linkVars, chanVars>>

\* Fault: no queue lock.
AcquireUnlocked(c) ==
  /\ pc[c] = "queued"
  /\ Goto(c, "recheck")
  /\ UNCHANGED <<begun, cur, kind, key, rx, sessionVars, adminVars, linkVars, chanVars>>

\* queue_lock is tokio's mutex: free when no other call is past it, and granted
\* in the order of arrival, which is the order of the calls' numbers.
Acquire(c) ==
  /\ pc[c] = "queued"
  /\ \A d \in Callers : d # c /\ pc[d] # "idle" => cur[c] < cur[d]
  /\ Goto(c, "recheck")
  /\ UNCHANGED <<begun, cur, kind, key, rx, sessionVars, adminVars, linkVars, chanVars>>

\* close() may have landed while the caller queued.
Recheck(c) ==
  /\ pc[c] = "recheck"
  /\ \/ level >= 1 /\ Return(c)
     \/ level = 0 /\ Goto(c, "prepare") /\ UNCHANGED <<cur, kind, key>>
  /\ UNCHANGED <<begun, rx, sessionVars, adminVars, linkVars, chanVars>>

\* ApplicationLayer::flush: what was received of a frame is forgotten, and the
\* rest of it will arrive without a head.
Flush == framer' = IF framer = NoBytes THEN NoBytes ELSE Orphan

\* Fault: the counter stays where it is.
SameTid(t) == t

NextTidAfter(t) == IF t = MaxTid THEN 1 ELSE t + 1

\* Flush (FIFO mode only) and choose the key; the two touch nothing in common.
Prepare(c) ==
  /\ pc[c] = "prepare"
  /\ IF Concurrent THEN UNCHANGED framer ELSE Flush
  /\ IF Tcp /\ kind[c] # "broadcast"
     THEN /\ key' = [key EXCEPT ![c] = nextTid]
          /\ nextTid' = NextTidAfter(nextTid)
     ELSE /\ key' = [key EXCEPT ![c] = Fifo]
          /\ UNCHANGED nextTid
  /\ Goto(c, "arm")
  /\ UNCHANGED <<begun, cur, kind, rx, waiters, adminVars, portVars, atSlave, wire, chanVars>>

\* MasterSession::start: a waiter already under the key is dropped.
Arm(c) ==
  /\ pc[c] = "arm"
  /\ waiters' = [waiters EXCEPT ![key[c]] = cur[c]]
  /\ rx' = Resolved({waiters[key[c]]}, Rejected("dropped"))
  /\ Goto(c, "write")
  /\ UNCHANGED <<begun, cur, kind, key, nextTid, adminVars, linkVars, chanVars>>

\* PhysicalLayer::write begins: is the port open?
Write(c) ==
  /\ pc[c] = "write"
  /\ Goto(c, IF port THEN "sending" ELSE "stop")
  /\ UNCHANGED <<begun, cur, kind, key, rx, sessionVars, adminVars, linkVars, chanVars>>

Request(c) == [call |-> cur[c], key |-> key[c], kind |-> kind[c]]

\* The request goes out and write() returns, or it returns with an error; an error,
\* or a broadcast, goes straight to session.stop.  Over TCP and serial this happens
\* under the lock of the stored handle, which close() takes to drop it: afterwards
\* there is nothing to write to.  Over UDP write() may have its own clone of the socket.
Send(c) ==
  /\ pc[c] = "sending"
  /\ \/ UNCHANGED atSlave /\ Goto(c, "stop")
     \/ /\ writer \/ link = "udp"
        /\ atSlave' = atSlave \cup {Request(c)}
        /\ Goto(c, IF kind[c] = "broadcast" THEN "stop" ELSE "wait")
  /\ UNCHANGED <<begun, cur, kind, key, rx, sessionVars, adminVars, portVars, wire, framer, chanVars>>

\* UDP's write() unwraps the stored socket, which close() may have taken away since
\* the check: the caller's task panics, and its waiter stays.
Panic(c) ==
  /\ pc[c] = "sending" /\ link = "udp" /\ ~writer
  /\ Return(c)
  /\ rx' = [rx EXCEPT ![c] = Pending]
  /\ UNCHANGED <<begun, sessionVars, adminVars, linkVars, chanVars>>

\* The receiver is ready: tokio::time::timeout polls it before its timer.
Receive(c) ==
  /\ pc[c] = "wait" /\ rx[c] # Pending
  /\ Return(c)
  /\ rx' = [rx EXCEPT ![c] = Pending]
  /\ UNCHANGED <<begun, sessionVars, adminVars, linkVars, chanVars>>

\* Fault: the timer needs an open port.
TimeoutWhileOpen(c) ==
  /\ pc[c] = "wait" /\ rx[c] = Pending /\ port
  /\ Goto(c, "stop")
  /\ UNCHANGED <<begun, cur, kind, key, rx, sessionVars, adminVars, linkVars, chanVars>>

Timeout(c) ==
  /\ pc[c] = "wait" /\ rx[c] = Pending
  /\ Goto(c, "stop")
  /\ UNCHANGED <<begun, cur, kind, key, rx, sessionVars, adminVars, linkVars, chanVars>>

\* session.stop(key), on a write error, after a broadcast and on a timeout:
\* whoever is armed under the key loses its sender.
Stop(c) ==
  /\ pc[c] = "stop"
  /\ waiters' = [waiters EXCEPT ![key[c]] = NoCall]
  /\ rx' = [Resolved({waiters[key[c]]}, Rejected("dropped")) EXCEPT ![c] = Pending]
  /\ Return(c)
  /\ UNCHANGED <<begun, nextTid, adminVars, linkVars, chanVars>>

\* The caller drops the future at an await: guards and receiver are released,
\* the waiter is not, and the blocking thread that writes to a serial port goes on.
Cancel(c) ==
  /\ AllowCancel /\ pc[c] \in {"queued", "write", "sending", "wait"}
  /\ Return(c)
  /\ rx' = [rx EXCEPT ![c] = Pending]
  /\ detached' =
       IF link = "serial" /\ pc[c] = "sending" THEN detached \cup {Request(c)} ELSE detached
  /\ UNCHANGED <<begun, sessionVars, adminVars, port, writer, atSlave, wire, framer, chanVars>>

\* spawn_blocking's thread, whose call was dropped, gets the lock of the serial port.
DetachedWrite(m) ==
  /\ m \in detached
  /\ detached' = detached \ {m}
  /\ \/ UNCHANGED atSlave
     \/ writer /\ atSlave' = atSlave \cup {m}
  /\ UNCHANGED <<callerVars, sessionVars, adminVars, port, writer, wire, framer, chanVars>>

-----------------------------------------------------------------------------
(* open, close, destroy *)

Admin(step) == adm' = step

\* close(): stop_all first, clean_level after.  A second close skips both.
Close ==
  /\ adm = "idle" /\ level # 2
  /\ \/ level = 1 /\ Admin("port_close") /\ UNCHANGED <<rx, waiters>>
     \/ level = 0 /\ Admin("close_store") /\ StopAll("closed")
  /\ UNCHANGED <<pc, begun, cur, kind, key, nextTid, level, tasks, opens, linkVars, chanVars>>

Destroy ==
  /\ adm = "idle" /\ level # 2
  /\ Admin("destroy_store") /\ StopAll("closed")
  /\ UNCHANGED <<pc, begun, cur, kind, key, nextTid, level, tasks, opens, linkVars, chanVars>>

\* Fault: close() forgets the physical layer.
StoreLevelOnly ==
  /\ \/ adm = "close_store" /\ level' = 1 /\ Admin("idle")
     \/ adm = "destroy_store" /\ level' = 2 /\ Admin("abort")
  /\ UNCHANGED <<callerVars, sessionVars, tasks, opens, linkVars, chanVars>>

StoreLevel ==
  /\ \/ adm = "close_store" /\ level' = 1 /\ Admin("port_close")
     \/ adm = "destroy_store" /\ level' = 2 /\ Admin("abort")
  /\ UNCHANGED <<callerVars, sessionVars, tasks, opens, linkVars, chanVars>>

AbortTasks ==
  /\ adm = "abort"
  /\ tasks' = FALSE
  /\ Admin("port_close")
  /\ UNCHANGED <<callerVars, sessionVars, level, opens, linkVars, chanVars>>

\* What was under way goes with the connection or the socket; a serial bus still
\* carries the slave's late answers.
ClearLink == IF link = "serial" THEN UNCHANGED <<atSlave, wire>> ELSE atSlave' = {} /\ wire' = {}

\* The connection is gone and the application layer's buffer with it.
Disconnect ==
  /\ port' = FALSE
  /\ framer' = NoBytes
  /\ ClearLink
  /\ UNCHANGED detached

\* close() of a port that is not open returns at its gate, and leaves the write half
\* of a port that ended by itself where it is.
ClosePort ==
  /\ adm = "port_close"
  /\ Admin("idle")
  /\ \/ port /\ Disconnect /\ writer' = FALSE
     \/ ~port /\ UNCHANGED linkVars
  /\ UNCHANGED <<callerVars, sessionVars, level, tasks, opens, chanVars>>

\* The peer or the device goes away; the master is not told.
PortLost ==
  /\ port
  /\ Disconnect
  /\ UNCHANGED <<writer, callerVars, sessionVars, adminVars, chanVars>>

\* open(): clean_level, then next_tid, then the port.
Open ==
  /\ adm = "idle" /\ level # 2 /\ opens < MaxOpens
  /\ opens' = opens + 1
  /\ level' = 0
  /\ Admin("reset_tid")
  /\ UNCHANGED <<callerVars, sessionVars, tasks, linkVars, chanVars>>

ResetTid ==
  /\ adm = "reset_tid"
  /\ nextTid' = 1
  /\ Admin("port_open")
  /\ UNCHANGED <<callerVars, waiters, level, tasks, opens, linkVars, chanVars>>

\* PortAlreadyOpen, a failed connect, or an open port, which knows nothing of what
\* was sent through the last one.
OpenPort ==
  /\ adm = "port_open"
  /\ Admin("idle")
  /\ \/ UNCHANGED <<port, writer, atSlave, wire>>
     \/ ~port /\ port' = TRUE /\ writer' = TRUE /\ ClearLink
  /\ UNCHANGED <<callerVars, sessionVars, level, tasks, opens, detached, framer, chanVars>>

-----------------------------------------------------------------------------
(* The slave, the link, and the application layer's two channels *)

\* A full broadcast channel forgets its oldest message (RecvError::Lagged).
Publish(m) == frames' = Append(IF Len(frames) = ChanCap THEN Tail(frames) ELSE frames, m)
PublishError == errors' = IF errors = ChanCap THEN ChanCap ELSE errors + 1

\* A slave answers, in any order, as asked or with an exception, and broadcasts not at all.
Answer(m) ==
  /\ m \in atSlave
  /\ atSlave' = atSlave \ {m}
  /\ IF m.kind = "broadcast" THEN UNCHANGED wire
     ELSE \E k \in {m.kind, "exception"} : wire' = wire \cup {[m EXCEPT !.kind = k]}
  /\ UNCHANGED <<callerVars, sessionVars, adminVars, portVars, framer, chanVars>>

\* The first bytes of a response reach the application layer's buffer.
ReceiveHead(m) ==
  /\ port /\ framer = NoBytes /\ m \in wire
  /\ wire' = wire \ {m}
  /\ framer' = m
  /\ UNCHANGED <<callerVars, sessionVars, adminVars, portVars, atSlave, chanVars>>

\* The last bytes complete the frame; after a flush, or corrupted, they are a
\* framing error.
ReceiveTail ==
  /\ port /\ framer # NoBytes
  /\ \/ framer # Orphan /\ Publish(framer) /\ UNCHANGED errors
     \/ PublishError /\ UNCHANGED frames
  /\ framer' = NoBytes
  /\ UNCHANGED <<callerVars, sessionVars, adminVars, portVars, atSlave, wire>>

\* What a bus carries while no port is open is lost.
Lose(m) ==
  /\ ~port /\ m \in wire
  /\ wire' = wire \ {m}
  /\ UNCHANGED <<callerVars, sessionVars, adminVars, portVars, atSlave, framer, chanVars>>

-----------------------------------------------------------------------------
\* What a call does by itself; it depends on others for the queue lock and the write.
Prompt(c) ==
  \/ Acquire(c) \/ Recheck(c) \/ Prepare(c) \/ Arm(c) \/ Write(c)
  \/ Receive(c) \/ Timeout(c) \/ Stop(c)

Caller(c) == Prompt(c) \/ Send(c) \/ Panic(c) \/ Cancel(c)

Administrator ==
  \/ Close \/ Destroy \/ StoreLevel \/ AbortTasks \/ ClosePort
  \/ Open \/ ResetTid \/ OpenPort

Environment ==
  \/ PortLost \/ ReceiveTail
  \/ \E m \in detached : DetachedWrite(m)
  \/ \E m \in atSlave : Answer(m)
  \/ \E m \in wire : ReceiveHead(m) \/ Lose(m)

Step ==
  \/ \E c \in Callers : Caller(c) \/ \E k \in Requests : Call(c, k)
  \/ HandleFrame \/ HandleError
  \/ Administrator
  \/ Environment

Next == Step /\ UNCHANGED <<mode, link>>

Spec == Init /\ [][Next]_vars

\* The runtime polls every task that is ready, and timers fire.  Nothing is assumed
\* of the slave, the link, the administrator or the two receive loops, nor that a
\* write ends: it has no timeout, and a peer that stops reading may block it for ever.
FairSpec == Spec /\ \A c \in Callers : WF_vars(Prompt(c) /\ UNCHANGED <<mode, link>>)

-----------------------------------------------------------------------------
(* Properties *)

\* The numbering of the calls: a caller is in a call exactly when it is not idle,
\* and no two callers are in the same one.  (What the proofs build on.)
Numbering ==
  /\ \A c \in Callers : cur[c] <= begun /\ (pc[c] = "idle" <=> cur[c] = NoCall)
  /\ \A c, d \in Callers : cur[c] = cur[d] /\ cur[c] # NoCall => c = d

Awaiting(c) == pc[c] = "wait" /\ rx[c] = Pending

\* No call waits for nothing: while wait_response holds an unresolved receiver
\* its own call is armed under its own key, so a response can still reach it.
\* Neither start, stop, stop_all nor handle_frame takes a waiter away silently.
AwaitingIsArmed == \A c \in Callers : Listening(c) => waiters[key[c]] = cur[c]

\* Over TCP every response handed to a caller answers the very call it is handed to:
\* late answers to calls that were given up are told apart by transaction id.
OwnResponse == Tcp => \A c \in Callers : rx[c].tag = "frame" => rx[c].call = cur[c]

\* No call is ended by another one taking its waiter away: callers that are in
\* flight together never share a key.  (Broadcasts share one, and await nothing.)
NotDropped == \A c \in Callers : rx[c].tag = "dropped" => kind[c] = "broadcast"

\* Past the queue lock.
Inside(c) == pc[c] \notin {"idle", "queued"}

\* A master that is not concurrent makes its calls one at a time and in the order they
\* began, whichever of them fail, time out or are dropped.
CallsTakeTurns ==
  ~Concurrent => \A c, d \in Callers :
    /\ Inside(c) /\ Inside(d) => c = d
    /\ Inside(c) /\ pc[d] = "queued" => cur[c] < cur[d]

\* Once close() or destroy() has returned, and until open() is called, no call, new
\* or old, begins to write; and where close() had a handle to drop, which TCP and serial
\* writes need, no request reaches the wire any more, not even one whose call had begun
\* to write or was dropped while it wrote.  A UDP datagram under way still may.
ClosedIsQuiet ==
  [][adm = "idle" /\ level >= 1 =>
       /\ \A c \in Callers : pc'[c] = "sending" => pc[c] = "sending"
       /\ link # "udp" /\ ~writer => atSlave' \subseteq atSlave]_vars

\* A write that c's call cannot do without is under way.
HeldUp(c) == \E d \in Callers : pc[d] = "sending" /\ (d = c \/ ~Concurrent)

\* Every call returns, whatever the slave and the administrator do and whatever the link
\* loses, if its own writes end, and where calls take turns those of the others.
CallReturns == \A c \in Callers : []<>~HeldUp(c) => ((pc[c] # "idle") ~> (pc[c] = "idle"))

-----------------------------------------------------------------------------
(* What all this is for *)

Unsent == {"queued", "recheck", "prepare", "arm", "write", "sending"}

\* Requests, responses and frames alike, by the call they belong to.
Underway ==
  {m.call : m \in detached \cup atSlave \cup wire \cup {frames[i] : i \in DOMAIN frames} \cup {framer}} \ {NoCall}

Outcome(c) ==
  CASE rx[c] = Pending -> 0 [] rx[c].tag = "frame" -> rx[c].call [] OTHER -> -1

\* The master, with its keys, its queue lock, its table of waiters and its two tasks,
\* is a request-response service: every step of it is one of the service's.
Service == INSTANCE RequestResponse WITH
  exact <- Tcp,
  call <- cur,
  unsent <- {cur[c] : c \in {d \in Callers : pc[d] \in Unsent}},
  underway <- Underway,
  outcome <- [c \in Callers |-> Outcome(c)]

ImplementsService == Service!Spec
=============================================================================
