--------------------------- MODULE TcpClientPort ----------------------------
(***************************************************************************)
(* TcpClientPhysicalLayer (tcp_client.rs): open, close and destroy, called *)
(* by several tasks, and the read task that open spawns for the connection *)
(* it makes.                                                               *)
(*                                                                         *)
(* Every field is behind a mutex of its own that is locked for one         *)
(* statement at a time, so each statement is a step, and steps of          *)
(* different tasks interleave.  The only gate between close() and the read *)
(* task is the step of is_open from true to false.                         *)
(***************************************************************************)
EXTENDS Integers, FiniteSets

CONSTANTS
  Users,      \* tasks that open, close and destroy the port
  MaxConns,   \* bound: connections made, numbered in order
  MaxReads    \* bound: reads of each connection

ASSUME PortAssumption == MaxConns \in Nat /\ MaxReads \in Nat

Conns == 1 .. MaxConns
None == 0   \* the absence of a connection, of its half and of its task

VARIABLES
  pc,           \* the statement each user is at
  conn,         \* the connection each open() has made
  isOpen, isOpening, isDestroyed,
  writeHalf, connectionId, readTask,   \* whose half, id and task are stored
  peer,         \* of each connection: "none", "up" or "gone"
  reader,       \* of each connection: "none", "reading", "exited" or "stopped"
  aborted,      \* the connections whose read task was told to stop
  received,     \* data events of each connection
  announced,    \* connection_close events of each connection
  closings,     \* close events
  orderly       \* ghost: no open() overlapped a call, and no aborted task closed a later session

storedVars == <<writeHalf, connectionId, readTask>>
eventVars == <<received, announced, closings>>
vars == <<pc, conn, isOpen, isOpening, isDestroyed, storedVars, peer, reader, aborted,
          eventVars, orderly>>

Statements == {"idle", "flags", "mark", "connect", "half", "id", "spawn", "task", "open", "unmark",
               "close", "abort", "drop", "announce"}

TypeOK ==
  /\ pc \in [Users -> Statements]
  /\ conn \in [Users -> Conns \cup {None}]
  /\ isOpen \in BOOLEAN /\ isOpening \in BOOLEAN /\ isDestroyed \in BOOLEAN
  /\ writeHalf \in Conns \cup {None}
  /\ connectionId \in Conns \cup {None}
  /\ readTask \in Conns \cup {None}
  /\ peer \in [Conns -> {"none", "up", "gone"}]
  /\ reader \in [Conns -> {"none", "reading", "exited", "stopped"}]
  /\ aborted \subseteq Conns
  /\ received \in [Conns -> 0 .. MaxReads]
  /\ announced \in [Conns -> Nat]
  /\ closings \in Nat
  /\ orderly \in BOOLEAN

Init ==
  /\ pc = [u \in Users |-> "idle"]
  /\ conn = [u \in Users |-> None]
  /\ isOpen = FALSE /\ isOpening = FALSE /\ isDestroyed = FALSE
  /\ writeHalf = None /\ connectionId = None /\ readTask = None
  /\ peer = [c \in Conns |-> "none"]
  /\ reader = [c \in Conns |-> "none"]
  /\ aborted = {}
  /\ received = [c \in Conns |-> 0]
  /\ announced = [c \in Conns |-> 0]
  /\ closings = 0
  /\ orderly = TRUE

Goto(u, step) == pc' = [pc EXCEPT ![u] = step]
At(u, step, next) == pc[u] = step /\ Goto(u, next)

Ending == {"idle", "close", "abort", "drop", "announce"}

\* A call begins while others may be under way: closes may overlap in order, an
\* open may not overlap with anything.
Begin(u, step) ==
  /\ At(u, "idle", step)
  /\ orderly' = (orderly /\ \A v \in Users \ {u} : pc[v] = "idle" \/ {pc[v], step} \subseteq Ending)

-----------------------------------------------------------------------------
(* open *)

Open(u) ==
  /\ ~isDestroyed
  /\ Begin(u, "flags")
  /\ UNCHANGED <<conn, isOpen, isOpening, isDestroyed, storedVars, peer, reader, aborted, eventVars>>

\* PortAlreadyOpen
CheckFlags(u) ==
  /\ At(u, "flags", IF isOpen \/ isOpening THEN "idle" ELSE "mark")
  /\ UNCHANGED <<conn, isOpen, isOpening, isDestroyed, storedVars, peer, reader, aborted, eventVars,
                 orderly>>

MarkOpening(u) ==
  /\ At(u, "mark", "connect")
  /\ isOpening' = TRUE
  /\ UNCHANGED <<conn, isOpen, isDestroyed, storedVars, peer, reader, aborted, eventVars, orderly>>

Connect(u) ==
  /\ At(u, "connect", "half")
  /\ \E c \in Conns :
       /\ peer[c] = "none" /\ \A b \in Conns : b < c => peer[b] # "none"
       /\ peer' = [peer EXCEPT ![c] = "up"]
       /\ conn' = [conn EXCEPT ![u] = c]
  /\ UNCHANGED <<isOpen, isOpening, isDestroyed, storedVars, reader, aborted, eventVars, orderly>>

ConnectFails(u) ==
  /\ At(u, "connect", "idle")
  /\ isOpening' = FALSE
  /\ UNCHANGED <<conn, isOpen, isDestroyed, storedVars, peer, reader, aborted, eventVars, orderly>>

StoreHalf(u) ==
  /\ At(u, "half", "id")
  /\ writeHalf' = conn[u]
  /\ UNCHANGED <<conn, isOpen, isOpening, isDestroyed, connectionId, readTask, peer, reader, aborted,
                 eventVars, orderly>>

StoreId(u) ==
  /\ At(u, "id", "spawn")
  /\ connectionId' = conn[u]
  /\ UNCHANGED <<conn, isOpen, isOpening, isDestroyed, writeHalf, readTask, peer, reader, aborted,
                 eventVars, orderly>>

SpawnReader(u) ==
  /\ At(u, "spawn", "task")
  /\ reader' = [reader EXCEPT ![conn[u]] = "reading"]
  /\ UNCHANGED <<conn, isOpen, isOpening, isDestroyed, storedVars, peer, aborted, eventVars, orderly>>

\* Fault: the handle is not kept.
ForgetTask(u) ==
  /\ At(u, "task", "open")
  /\ UNCHANGED <<conn, isOpen, isOpening, isDestroyed, storedVars, peer, reader, aborted, eventVars,
                 orderly>>

StoreTask(u) ==
  /\ At(u, "task", "open")
  /\ readTask' = conn[u]
  /\ UNCHANGED <<conn, isOpen, isOpening, isDestroyed, writeHalf, connectionId, peer, reader, aborted,
                 eventVars, orderly>>

StoreOpen(u) ==
  /\ At(u, "open", "unmark")
  /\ isOpen' = TRUE
  /\ UNCHANGED <<conn, isOpening, isDestroyed, storedVars, peer, reader, aborted, eventVars, orderly>>

UnmarkOpening(u) ==
  /\ At(u, "unmark", "idle")
  /\ isOpening' = FALSE
  /\ UNCHANGED <<conn, isOpen, isDestroyed, storedVars, peer, reader, aborted, eventVars, orderly>>

-----------------------------------------------------------------------------
(* close and destroy *)

\* The gate: a close() that finds the port closed has nothing to do.
Gate(u) ==
  /\ isOpen' = FALSE
  /\ UNCHANGED <<conn, isOpening, isDestroyed, storedVars, peer, reader, aborted, eventVars>>

Close(u) ==
  /\ Begin(u, IF isOpen THEN "abort" ELSE "idle")
  /\ Gate(u)

CloseDestroyed(u) ==
  /\ At(u, "close", IF isOpen THEN "abort" ELSE "idle")
  /\ Gate(u)
  /\ UNCHANGED orderly

\* close() called by destroy(), which marks the port first.
Destroy(u) ==
  /\ ~isDestroyed
  /\ Begin(u, "close")
  /\ isDestroyed' = TRUE
  /\ UNCHANGED <<conn, isOpen, isOpening, storedVars, peer, reader, aborted, eventVars>>

\* Fault: the handle goes, its task runs on.
DetachReader(u) ==
  /\ At(u, "abort", "drop")
  /\ readTask' = None
  /\ UNCHANGED <<conn, isOpen, isOpening, isDestroyed, writeHalf, connectionId, peer, reader, aborted,
                 eventVars, orderly>>

\* The handle is taken and its task told to stop.
AbortReader(u) ==
  /\ At(u, "abort", "drop")
  /\ aborted' = aborted \cup ({readTask} \ {None})
  /\ readTask' = None
  /\ UNCHANGED <<conn, isOpen, isOpening, isDestroyed, writeHalf, connectionId, peer, reader, eventVars,
                 orderly>>

DropHalf(u) ==
  /\ At(u, "drop", "announce")
  /\ writeHalf' = None
  /\ UNCHANGED <<conn, isOpen, isOpening, isDestroyed, connectionId, readTask, peer, reader, aborted,
                 eventVars, orderly>>

Emit(c) ==
  /\ announced' = [d \in Conns |-> IF d = c THEN announced[d] + 1 ELSE announced[d]]
  /\ closings' = closings + 1
  /\ UNCHANGED received

\* connection_close for the id that is stored, if any, and close.
Announce(u) ==
  /\ At(u, "announce", "idle")
  /\ Emit(connectionId)
  /\ connectionId' = None
  /\ UNCHANGED <<conn, isOpen, isOpening, isDestroyed, writeHalf, readTask, peer, reader, aborted, orderly>>

-----------------------------------------------------------------------------
(* The read task and its peer *)

\* An aborted task that is being polled goes on until it next has to wait.
Receive(c) ==
  /\ reader[c] = "reading" /\ peer[c] = "up" /\ received[c] < MaxReads
  /\ received' = [received EXCEPT ![c] = @ + 1]
  /\ UNCHANGED <<pc, conn, isOpen, isOpening, isDestroyed, storedVars, peer, reader, aborted, announced,
                 closings, orderly>>

\* A task told to stop that gets as far as the gate closes whatever session is open.
ClosesLater(c) == isOpen /\ c \in aborted

\* Fault: the read task announces the end of its connection without the gate.
ExitUngated(c) ==
  /\ reader[c] = "reading" /\ peer[c] = "gone"
  /\ reader' = [reader EXCEPT ![c] = "exited"]
  /\ Emit(c)
  /\ isOpen' = FALSE
  /\ orderly' = (orderly /\ ~ClosesLater(c))
  /\ UNCHANGED <<pc, conn, isOpening, isDestroyed, storedVars, peer, aborted>>

\* End of stream or a read error: whoever finds is_open true announces the end.
Exit(c) ==
  /\ reader[c] = "reading" /\ peer[c] = "gone"
  /\ reader' = [reader EXCEPT ![c] = "exited"]
  /\ IF isOpen THEN Emit(c) ELSE UNCHANGED eventVars
  /\ isOpen' = FALSE
  /\ orderly' = (orderly /\ ~ClosesLater(c))
  /\ UNCHANGED <<pc, conn, isOpening, isDestroyed, storedVars, peer, aborted>>

Stop(c) ==
  /\ reader[c] = "reading" /\ c \in aborted
  /\ reader' = [reader EXCEPT ![c] = "stopped"]
  /\ UNCHANGED <<pc, conn, isOpen, isOpening, isDestroyed, storedVars, peer, aborted, eventVars, orderly>>

PeerCloses(c) ==
  /\ peer[c] = "up"
  /\ peer' = [peer EXCEPT ![c] = "gone"]
  /\ UNCHANGED <<pc, conn, isOpen, isOpening, isDestroyed, storedVars, reader, aborted, eventVars, orderly>>

-----------------------------------------------------------------------------
Opening(u) ==
  \/ CheckFlags(u) \/ MarkOpening(u) \/ Connect(u) \/ ConnectFails(u) \/ StoreHalf(u) \/ StoreId(u)
  \/ SpawnReader(u) \/ StoreTask(u) \/ StoreOpen(u) \/ UnmarkOpening(u)

Closing(u) == CloseDestroyed(u) \/ AbortReader(u) \/ DropHalf(u) \/ Announce(u)

Reading(c) == Receive(c) \/ Exit(c) \/ Stop(c)

Next ==
  \/ \E u \in Users : Open(u) \/ Close(u) \/ Destroy(u) \/ Opening(u) \/ Closing(u)
  \/ \E c \in Conns : Reading(c) \/ PeerCloses(c)

Spec == Init /\ [][Next]_vars

-----------------------------------------------------------------------------
(* Properties *)

Idle == \A u \in Users : pc[u] = "idle"

\* An open port between calls has the half, the id and the task of one connection.
SessionIsWhole ==
  orderly /\ Idle /\ isOpen =>
    writeHalf # None /\ connectionId = writeHalf /\ readTask = writeHalf

\* Between close() and the read task, one of them announces the end of a session
\* and the other does not.
SessionsEndOnce ==
  orderly => /\ \A c \in Conns : announced[c] <= 1
             /\ closings = Cardinality({c \in Conns : announced[c] = 1})

\* A closed port has no read task left that nobody has told to stop.
NoReaderLeft ==
  orderly /\ Idle /\ ~isOpen => \A c \in Conns : reader[c] = "reading" => c \in aborted

\* Data of a connection whose end has been announced comes only from a read task
\* that close() told to stop: one that announces the end itself sends nothing more.
DataBeforeClose ==
  [][orderly' => \A c \in Conns : received'[c] # received[c] => announced[c] = 0 \/ c \in aborted]_vars
=============================================================================
