------------------------------ MODULE UdpPort -------------------------------
(***************************************************************************)
(* UdpPhysicalLayer (udp.rs): open, close and destroy, called by several   *)
(* tasks, and write, called by others; the receive task of each socket;    *)
(* the response closures it hands out; and, in a server, the idle timer of *)
(* each remote address, which evicts its connection.                       *)
(*                                                                         *)
(* Every field is behind a mutex of its own that is locked for one         *)
(* statement at a time, so each statement is a step.  close(), the receive *)
(* task and the idle timers all end connections: whoever takes an entry    *)
(* out of the map announces its end.                                       *)
(***************************************************************************)
EXTENDS Integers, FiniteSets

CONSTANTS
  Users,         \* tasks that open, close and destroy the port
  Writers,       \* tasks that write to it
  Addrs,         \* source addresses of datagrams, [ip, port]
  Remotes,       \* what a client may be configured with, as parse_remote reads it
  MaxSessions,   \* bound: sockets bound, numbered in order
  MaxDatagrams   \* bound: datagrams received, numbered in order

ASSUME UdpAssumption == MaxSessions \in Nat /\ MaxDatagrams \in Nat

Sessions == 1 .. MaxSessions
Datagrams == 1 .. MaxDatagrams
Conns == Datagrams    \* a connection is named for the datagram that made it,
Timers == Datagrams   \* and a timer for the one that armed it
None == 0
NoTarget == [conn |-> None]
Unresolved == [ip |-> "none", port |-> 0]   \* a remote that is not an address

\* client_accepts: the port must match, and the host unless the remote names none; a remote
\* that is not an address, and a server, filter nothing.
Accepts(r, a) == r = Unresolved \/ (r.port = a.port /\ r.ip \in {"any", a.ip})

VARIABLES
  kind,         \* "client", "server", or "quiet": a server that never evicts
  remote,       \* the filter of a client
  pc,           \* the statement each user is at
  mine,         \* the socket each open() has bound
  isOpen, isOpening, isDestroyed,
  socket, recvTask,      \* whose socket and task are stored
  reader,       \* of each session: the receive task
  aborted,      \* the sessions whose receive task was told to stop
  writing,      \* the writers that have found the port open and not yet taken its socket
  lent,         \* the sessions whose socket a write() under way or a response closure keeps
  conns,        \* of each address: the connection in the map
  idleTimer,    \* of each connection: the timer whose handle is kept
  timer,        \* of each timer: its state
  target,       \* and the address and connection it is to evict
  drained,      \* of each task that ends a session: the connections it has taken
  received,     \* the number of datagrams received
  announced,    \* connection_close events of each connection
  closings,     \* close events
  late,         \* ghost: the connections a task already told to stop has entered
  orderly       \* ghost: no open() overlapped a call but write(), and no task ended a later session

portVars == <<kind, remote, pc, mine, isOpen, isOpening, isDestroyed, socket, recvTask>>
mapVars == <<conns, idleTimer, timer, target, received>>
lentVars == <<writing, lent>>
eventVars == <<announced, closings, late>>
vars == <<portVars, reader, aborted, lentVars, mapVars, drained, eventVars, orderly>>

Statements == {"idle", "flags", "mark", "bind", "store", "clear", "spawn", "task", "open", "unmark",
               "close", "abort", "drop", "drain", "announce"}
Tasks == Users \cup Sessions
ReaderStates ==
  [at : {"none", "reading", "failed", "drain", "announce", "exited", "stopped"}]
    \cup [at : {"holding"}, addr : Addrs, datagram : Datagrams] \cup [at : {"sending"}, conn : Conns]

TypeOK ==
  /\ kind \in {"client", "server", "quiet"}
  /\ remote \in Remotes \cup {Unresolved}
  /\ pc \in [Users -> Statements]
  /\ mine \in [Users -> Sessions \cup {None}]
  /\ isOpen \in BOOLEAN /\ isOpening \in BOOLEAN /\ isDestroyed \in BOOLEAN
  /\ socket \in Sessions \cup {None} /\ recvTask \in Sessions \cup {None}
  /\ reader \in [Sessions -> ReaderStates]
  /\ aborted \subseteq Sessions
  /\ writing \subseteq Writers
  /\ lent \subseteq Sessions
  /\ conns \in [Addrs -> Conns \cup {None}]
  /\ idleTimer \in [Conns -> Timers \cup {None}]
  /\ timer \in [Timers -> {"none", "sleeping", "woken", "sending", "ended", "stopped"}]
  /\ target \in [Timers -> {NoTarget} \cup [addr : Addrs, conn : Conns]]
  /\ drained \in [Tasks -> SUBSET Conns]
  /\ received \in 0 .. MaxDatagrams
  /\ announced \in [Conns -> Nat]
  /\ closings \in Nat
  /\ late \subseteq Conns
  /\ orderly \in BOOLEAN

At(step) == [at |-> step]

Init ==
  /\ kind \in {"client", "server", "quiet"}
  /\ remote \in IF kind = "client" THEN Remotes ELSE {Unresolved}
  /\ pc = [u \in Users |-> "idle"]
  /\ mine = [u \in Users |-> None]
  /\ isOpen = FALSE /\ isOpening = FALSE /\ isDestroyed = FALSE
  /\ socket = None /\ recvTask = None
  /\ reader = [s \in Sessions |-> At("none")]
  /\ aborted = {}
  /\ writing = {} /\ lent = {}
  /\ conns = [a \in Addrs |-> None]
  /\ idleTimer = [c \in Conns |-> None]
  /\ timer = [t \in Timers |-> "none"]
  /\ target = [t \in Timers |-> NoTarget]
  /\ drained = [p \in Tasks |-> {}]
  /\ received = 0
  /\ announced = [c \in Conns |-> 0]
  /\ closings = 0
  /\ late = {}
  /\ orderly = TRUE

Step(u, from, to) == pc[u] = from /\ pc' = [pc EXCEPT ![u] = to]

\* A call begins while others may be under way: closes may overlap in order, and with
\* writes; an open() may overlap with writes only, not with the end of an earlier session.
Ending == {"idle", "close", "abort", "drop", "drain", "announce"}
Quiet(u, step) ==
  /\ \A v \in Users \ {u} : pc[v] = "idle" \/ {pc[v], step} \subseteq Ending
  /\ step \in Ending \/ \A s \in Sessions : reader[s].at \notin {"drain", "announce"}

Begin(u, step) == Step(u, "idle", step) /\ orderly' = (orderly /\ Quiet(u, step))

\* The end of the connections in the map, for whoever takes them out of it.
Drain(p) ==
  /\ drained' = [drained EXCEPT ![p] = {conns[a] : a \in Addrs} \ {None}]
  /\ conns' = [a \in Addrs |-> None]
  /\ UNCHANGED <<idleTimer, timer, target, received>>

\* abort(): a timer that sleeps is stopped; one that is being polled goes on unless it has to wait.
Stopped(t) ==
  IF t = None \/ timer[t] \notin {"sleeping", "woken"} THEN {timer}
  ELSE {[timer EXCEPT ![t] = x] : x \in {"stopped"} \cup ({timer[t]} \ {"sleeping"})}

Announce(p, c) ==
  /\ c \in drained[p]
  /\ drained' = [drained EXCEPT ![p] = @ \ {c}]
  /\ timer' \in Stopped(idleTimer[c])
  /\ announced' = [announced EXCEPT ![c] = @ + 1]
  /\ UNCHANGED <<conns, idleTimer, target, received, closings, late, orderly>>

-----------------------------------------------------------------------------
(* open *)

Open(u) ==
  /\ ~isDestroyed
  /\ Begin(u, "flags")
  /\ UNCHANGED <<kind, remote, mine, isOpen, isOpening, isDestroyed, socket, recvTask, reader,
                 aborted, lentVars, mapVars, drained, eventVars>>

Others == <<reader, aborted, lentVars, mapVars, drained, eventVars, orderly>>

CheckFlags(u) ==
  /\ Step(u, "flags", IF isOpen \/ isOpening THEN "idle" ELSE "mark")
  /\ UNCHANGED <<kind, remote, mine, isOpen, isOpening, isDestroyed, socket, recvTask, Others>>

MarkOpening(u) ==
  /\ Step(u, "mark", "bind")
  /\ isOpening' = TRUE
  /\ UNCHANGED <<kind, remote, mine, isOpen, isDestroyed, socket, recvTask, Others>>

\* A socket lives until the port, its receive task, the call that made it and all those it
\* was lent to let go of it.
Held(s) ==
  \/ socket = s
  \/ reader[s].at \notin {"none", "exited", "stopped"}
  \/ \E u \in Users : mine[u] = s /\ pc[u] \in {"store", "clear", "spawn", "task", "open", "unmark"}
  \/ s \in lent

\* A server's address can be bound once; a client is given a port of its own.
Bind(u) ==
  /\ Step(u, "bind", "store")
  /\ \E s \in Sessions :
       /\ \A v \in Users : mine[v] # s
       /\ \A r \in Sessions : r < s <=> reader[r].at # "none" \/ \E v \in Users : mine[v] = r
       /\ kind # "client" => \A r \in Sessions : ~Held(r)
       /\ mine' = [mine EXCEPT ![u] = s]
  /\ UNCHANGED <<kind, remote, isOpen, isOpening, isDestroyed, socket, recvTask, Others>>

BindFails(u) ==
  /\ Step(u, "bind", "idle")
  /\ isOpening' = FALSE
  /\ UNCHANGED <<kind, remote, mine, isOpen, isDestroyed, socket, recvTask, Others>>

StoreSocket(u) ==
  /\ Step(u, "store", "clear")
  /\ socket' = mine[u]
  /\ UNCHANGED <<kind, remote, mine, isOpen, isOpening, isDestroyed, recvTask, Others>>

\* The entries of an earlier session go without an event, and their timers sleep on.
ClearMap(u) ==
  /\ Step(u, "clear", "spawn")
  /\ conns' = [a \in Addrs |-> None]
  /\ UNCHANGED <<kind, remote, mine, isOpen, isOpening, isDestroyed, socket, recvTask, reader,
                 aborted, lentVars, idleTimer, timer, target, received, drained, eventVars,
                 orderly>>

SpawnReader(u) ==
  /\ Step(u, "spawn", "task")
  /\ reader' = [reader EXCEPT ![mine[u]] = At("reading")]
  /\ UNCHANGED <<kind, remote, mine, isOpen, isOpening, isDestroyed, socket, recvTask, aborted,
                 lentVars, mapVars, drained, eventVars, orderly>>

StoreTask(u) ==
  /\ Step(u, "task", "open")
  /\ recvTask' = mine[u]
  /\ UNCHANGED <<kind, remote, mine, isOpen, isOpening, isDestroyed, socket, Others>>

StoreOpen(u) ==
  /\ Step(u, "open", "unmark")
  /\ isOpen' = TRUE
  /\ UNCHANGED <<kind, remote, mine, isOpening, isDestroyed, socket, recvTask, Others>>

UnmarkOpening(u) ==
  /\ Step(u, "unmark", "idle")
  /\ isOpening' = FALSE
  /\ UNCHANGED <<kind, remote, mine, isOpen, isDestroyed, socket, recvTask, Others>>

-----------------------------------------------------------------------------
(* write *)

WriteOnly == UNCHANGED <<portVars, reader, aborted, mapVars, drained, eventVars, orderly>>

\* PortNotOpen, or on to the socket.
Write(w) ==
  /\ w \notin writing /\ isOpen
  /\ writing' = writing \cup {w}
  /\ UNCHANGED lent /\ WriteOnly

\* The Arc of the socket is cloned, and kept while remote_addr is waited for, the name resolved
\* and the datagram sent.  A socket that has gone since is unwrapped, which ends the task.
TakeSocket(w) ==
  /\ w \in writing
  /\ writing' = writing \ {w}
  /\ lent' = lent \cup ({socket} \ {None})
  /\ WriteOnly

\* The last write() on the socket has sent or returns an error (a server's always does: it has
\* no remote), and the last of its data events, in a channel, a queue or a handler, is dropped.
LetGo(s) ==
  /\ s \in lent
  /\ lent' = lent \ {s}
  /\ UNCHANGED writing /\ WriteOnly

-----------------------------------------------------------------------------
(* close and destroy *)

\* The gate: a close() that finds the port closed has nothing to do.
Gate ==
  /\ isOpen' = FALSE
  /\ UNCHANGED <<kind, remote, mine, isOpening, isDestroyed, socket, recvTask, reader, aborted,
                 lentVars, mapVars, drained, eventVars>>

Close(u) ==
  /\ Begin(u, IF isOpen THEN "abort" ELSE "idle")
  /\ Gate

CloseDestroyed(u) ==
  /\ Step(u, "close", IF isOpen THEN "abort" ELSE "idle")
  /\ Gate
  /\ UNCHANGED orderly

Destroy(u) ==
  /\ ~isDestroyed
  /\ Begin(u, "close")
  /\ isDestroyed' = TRUE
  /\ UNCHANGED <<kind, remote, mine, isOpen, isOpening, socket, recvTask, reader, aborted,
                 lentVars, mapVars, drained, eventVars>>

\* Fault: the handle goes, its task runs on.
DetachReader(u) ==
  /\ Step(u, "abort", "drop")
  /\ recvTask' = None
  /\ UNCHANGED <<kind, remote, mine, isOpen, isOpening, isDestroyed, socket, Others>>

AbortReader(u) ==
  /\ Step(u, "abort", "drop")
  /\ aborted' = aborted \cup ({recvTask} \ {None})
  /\ recvTask' = None
  /\ UNCHANGED <<kind, remote, mine, isOpen, isOpening, isDestroyed, socket, reader, lentVars,
                 mapVars, drained, eventVars, orderly>>

\* Fault: the socket stays.
KeepSocket(u) ==
  /\ Step(u, "drop", "drain")
  /\ UNCHANGED <<kind, remote, mine, isOpen, isOpening, isDestroyed, socket, recvTask, Others>>

DropSocket(u) ==
  /\ Step(u, "drop", "drain")
  /\ socket' = None
  /\ UNCHANGED <<kind, remote, mine, isOpen, isOpening, isDestroyed, recvTask, Others>>

DrainMap(u) ==
  /\ Step(u, "drain", "announce")
  /\ Drain(u)
  /\ UNCHANGED <<kind, remote, mine, isOpen, isOpening, isDestroyed, socket, recvTask, reader,
                 aborted, lentVars, eventVars, orderly>>

AnnounceConn(u) ==
  /\ pc[u] = "announce"
  /\ \E c \in drained[u] : Announce(u, c)
  /\ UNCHANGED <<portVars, reader, aborted, lentVars>>

AnnounceClose(u) ==
  /\ Step(u, "announce", "idle")
  /\ drained[u] = {}
  /\ closings' = closings + 1
  /\ UNCHANGED <<kind, remote, mine, isOpen, isOpening, isDestroyed, socket, recvTask, reader,
                 aborted, lentVars, mapVars, drained, announced, late, orderly>>

-----------------------------------------------------------------------------
(* The receive task of a session *)

Read(s, from, to) == reader[s].at = from /\ reader' = [reader EXCEPT ![s] = to]

\* An aborted task that is being polled goes on until it next has to wait: all that the task
\* of a session in aborted does from here on, it does late.
Arrive(s) ==
  /\ received < MaxDatagrams
  /\ received' = received + 1
  /\ \E a \in Addrs :
       /\ Accepts(remote, a)
       /\ Read(s, "reading", [at |-> "holding", addr |-> a, datagram |-> received'])
  /\ UNCHANGED <<portVars, aborted, lentVars, conns, idleTimer, timer, target, drained, eventVars,
                 orderly>>

\* A connection entered by a task already told to stop.
EnteredLate(s, c) == late' = IF s \in aborted THEN late \cup {c} ELSE late

\* Fault: the timer that the new one replaces is left to run.
EnsureEntryKeepsTimer(s) ==
  LET a == reader[s].addr
      n == reader[s].datagram
      c == IF conns[a] = None THEN n ELSE conns[a] IN
  /\ Read(s, "holding", [at |-> "sending", conn |-> c])
  /\ conns' = [conns EXCEPT ![a] = c]
  /\ timer' = IF kind = "server" THEN [timer EXCEPT ![n] = "sleeping"] ELSE timer
  /\ target' = IF kind = "server" THEN [target EXCEPT ![n] = [addr |-> a, conn |-> c]] ELSE target
  /\ idleTimer' = IF kind = "server" THEN [idleTimer EXCEPT ![c] = n] ELSE idleTimer
  /\ EnteredLate(s, c)
  /\ UNCHANGED <<portVars, aborted, lentVars, received, drained, announced, closings, orderly>>

\* Fault: the timer is stopped, and a new one armed for a new entry only.
EnsureEntryArmsOnce(s) ==
  LET a == reader[s].addr
      n == reader[s].datagram
      c == IF conns[a] = None THEN n ELSE conns[a] IN
  /\ Read(s, "holding", [at |-> "sending", conn |-> c])
  /\ conns' = [conns EXCEPT ![a] = c]
  /\ IF kind = "server" /\ c = n
     THEN /\ timer' = [timer EXCEPT ![n] = "sleeping"]
          /\ idleTimer' = [idleTimer EXCEPT ![c] = n]
          /\ target' = [target EXCEPT ![n] = [addr |-> a, conn |-> c]]
     ELSE timer' \in Stopped(idleTimer[c]) /\ UNCHANGED <<idleTimer, target>>
  /\ EnteredLate(s, c)
  /\ UNCHANGED <<portVars, aborted, lentVars, received, drained, announced, closings, orderly>>

\* ensure_entry: the entry of the address, made if there is none; the idle timer of a
\* server is replaced.
EnsureEntry(s) ==
  LET a == reader[s].addr
      n == reader[s].datagram
      c == IF conns[a] = None THEN n ELSE conns[a] IN
  /\ Read(s, "holding", [at |-> "sending", conn |-> c])
  /\ conns' = [conns EXCEPT ![a] = c]
  /\ IF kind = "server"
     THEN /\ \E stopped \in Stopped(idleTimer[c]) : timer' = [stopped EXCEPT ![n] = "sleeping"]
          /\ idleTimer' = [idleTimer EXCEPT ![c] = n]
          /\ target' = [target EXCEPT ![n] = [addr |-> a, conn |-> c]]
     ELSE UNCHANGED <<timer, idleTimer, target>>
  /\ EnteredLate(s, c)
  /\ UNCHANGED <<portVars, aborted, lentVars, received, drained, announced, closings, orderly>>

\* The data event, with a closure that keeps the socket to answer on.
Deliver(s) ==
  /\ Read(s, "sending", At("reading"))
  /\ lent' = lent \cup {s}
  /\ UNCHANGED <<portVars, aborted, writing, mapVars, drained, eventVars, orderly>>

SocketFails(s) ==
  /\ Read(s, "reading", At("failed"))
  /\ UNCHANGED <<portVars, aborted, lentVars, mapVars, drained, eventVars, orderly>>

\* Whoever finds is_open true ends the session, be it one opened since the task was aborted.
Exit(s) ==
  /\ Read(s, "failed", At(IF isOpen THEN "drain" ELSE "exited"))
  /\ isOpen' = FALSE
  /\ orderly' = (orderly /\ ~(isOpen /\ s \in aborted) /\ \A u \in Users : pc[u] # "flags")
  /\ UNCHANGED <<kind, remote, pc, mine, isOpening, isDestroyed, socket, recvTask, aborted,
                 lentVars, mapVars, drained, eventVars>>

DrainExited(s) ==
  /\ Read(s, "drain", At("announce"))
  /\ Drain(s)
  /\ UNCHANGED <<portVars, aborted, lentVars, eventVars, orderly>>

AnnounceExited(s) ==
  /\ reader[s].at = "announce"
  /\ \E c \in drained[s] : Announce(s, c)
  /\ UNCHANGED <<portVars, reader, aborted, lentVars>>

Finish(s) ==
  /\ Read(s, "announce", At("exited"))
  /\ drained[s] = {}
  /\ closings' = closings + 1
  /\ UNCHANGED <<portVars, aborted, lentVars, mapVars, drained, announced, late, orderly>>

\* An aborted task stops where it waits: for a datagram or for a lock.
Stop(s) ==
  /\ s \in aborted /\ reader[s].at \in {"reading", "holding", "failed", "drain"}
  /\ reader' = [reader EXCEPT ![s] = At("stopped")]
  /\ UNCHANGED <<portVars, aborted, lentVars, mapVars, drained, eventVars, orderly>>

-----------------------------------------------------------------------------
(* The idle timer of a connection *)

TimerOnly ==
  UNCHANGED <<portVars, reader, aborted, lentVars, idleTimer, target, received, drained, closings,
              late, orderly>>

Wake(t) ==
  /\ timer[t] = "sleeping"
  /\ timer' = [timer EXCEPT ![t] = "woken"]
  /\ UNCHANGED <<conns, announced>>
  /\ TimerOnly

\* Fault: whatever connection the address has now is removed.
RemoveAny(t) ==
  /\ timer[t] = "woken"
  /\ LET a == target[t].addr
         found == conns[a] # None IN
     /\ timer' = [timer EXCEPT ![t] = IF found THEN "sending" ELSE "ended"]
     /\ conns' = [conns EXCEPT ![a] = None]
  /\ UNCHANGED announced
  /\ TimerOnly

\* The entry is removed if it is still that of the connection the timer was armed for.
Remove(t) ==
  /\ timer[t] = "woken"
  /\ LET a == target[t].addr
         found == conns[a] = target[t].conn IN
     /\ timer' = [timer EXCEPT ![t] = IF found THEN "sending" ELSE "ended"]
     /\ conns' = IF found THEN [conns EXCEPT ![a] = None] ELSE conns
  /\ UNCHANGED announced
  /\ TimerOnly

Evict(t) ==
  /\ timer[t] = "sending"
  /\ timer' = [timer EXCEPT ![t] = "ended"]
  /\ announced' = [announced EXCEPT ![target[t].conn] = @ + 1]
  /\ UNCHANGED conns
  /\ TimerOnly

-----------------------------------------------------------------------------
Opening(u) ==
  \/ CheckFlags(u) \/ MarkOpening(u) \/ Bind(u) \/ BindFails(u) \/ StoreSocket(u) \/ ClearMap(u)
  \/ SpawnReader(u) \/ StoreTask(u) \/ StoreOpen(u) \/ UnmarkOpening(u)

Closing(u) ==
  \/ CloseDestroyed(u) \/ AbortReader(u) \/ DropSocket(u) \/ DrainMap(u) \/ AnnounceConn(u)
  \/ AnnounceClose(u)

Running(s) ==
  \/ EnsureEntry(s) \/ Deliver(s) \/ Exit(s) \/ DrainExited(s) \/ AnnounceExited(s) \/ Finish(s)
  \/ Stop(s)

Timing(t) == Wake(t) \/ Remove(t) \/ Evict(t)

Next ==
  \/ \E u \in Users : Open(u) \/ Close(u) \/ Destroy(u) \/ Opening(u) \/ Closing(u)
  \/ \E w \in Writers : Write(w) \/ TakeSocket(w)
  \/ \E s \in Sessions : Arrive(s) \/ SocketFails(s) \/ LetGo(s) \/ Running(s)
  \/ \E t \in Timers : Timing(t)

Spec == Init /\ [][Next]_vars

\* The runtime does not idle while a task can run or a timer sleeps; which of them it runs is
\* left open, since each has finitely many steps to take.  Nothing is assumed of open() and
\* write(), which wait for the network, or of whoever keeps a response closure.
Progress ==
  \/ \E u \in Users : Closing(u)
  \/ \E s \in Sessions : Running(s)
  \/ \E t \in Timers : Timing(t)

FairSpec == Spec /\ WF_vars(Progress)

-----------------------------------------------------------------------------
(* Properties *)

InMap(c) == \E a \in Addrs : conns[a] = c
Taken(c) ==
  \/ \E p \in Tasks : c \in drained[p]
  \/ \E t \in Timers : timer[t] = "sending" /\ target[t].conn = c

\* "eviction must emit connection_close exactly-once", and so must close() and the
\* receive task: however their steps interleave, no connection is announced closed
\* twice, and none that is in the map, or that somebody is about to announce, has been.
ConnectionsEndOnce == \A c \in Conns : announced[c] <= 1 /\ (InMap(c) \/ Taken(c) => announced[c] = 0)

\* t is about to evict c from the map: it need only wake, or be polled.
Evicts(t, c) == timer[t] \in {"sleeping", "woken"} /\ target[t].conn = c /\ conns[target[t].addr] = c

\* A connection in the map has a timer that will evict it, whatever the timers of others,
\* close() and the receive tasks do, and no other one sleeps for it: an earlier one that
\* slept would evict a connection that is in use.
OneTimer ==
  kind = "server" =>
    \A c \in Conns : InMap(c) =>
      /\ idleTimer[c] # None /\ Evicts(idleTimer[c], c)
      /\ \A t \in Timers : timer[t] = "sleeping" /\ target[t].conn = c => t = idleTimer[c]

Idle == (\A u \in Users : pc[u] = "idle") /\ \A s \in Sessions : reader[s].at \notin {"drain", "announce"}

\* A closed port that nobody opens or closes has no connection, but those a receive task has
\* entered after it was told to stop, and no receive task but such a one; an open one has a
\* socket for write() to use.
PortIsWhole ==
  orderly /\ Idle =>
    IF isOpen THEN socket # None
    ELSE /\ \A c \in Conns : InMap(c) => c \in late
         /\ \A s \in Sessions : reader[s].at \in {"reading", "holding", "sending"} => s \in aborted

\* A receive task that was told to stop goes no further than the end of its loop, and nothing
\* but it, a close() under way, and the writes and closures it was lent to keep its socket.
ReleaseIsNear ==
  orderly => \A s \in aborted : Held(s) =>
    \/ reader[s].at \in {"reading", "holding", "failed", "sending"}
    \/ socket = s /\ \E u \in Users : pc[u] = "drop"
    \/ s \in lent

\* A connection nobody writes to any more is evicted, unless it was entered by a task told to
\* stop: open() clears such an entry from the map, and nobody hears of its end.
EvictedAtLast ==
  kind = "server" =>
    \A c \in Conns : InMap(c) ~> (announced[c] = 1 \/ ~orderly \/ (c \in late /\ ~InMap(c)))

\* "Abort the recv task so the socket Arc drops promptly and the bound port is released": the
\* sockets of all sessions that were closed are let go of, again and again, if the write()s under
\* way on them return and their data events are dropped.
PortReleased ==
  []<>(aborted \cap lent = {}) => []<>(~orderly \/ \A s \in aborted : ~Held(s))
=============================================================================
