----------------------------- MODULE SerialPort -----------------------------
(***************************************************************************)
(* SerialPhysicalLayer (serial.rs): open, write, close and destroy, called *)
(* by several tasks, and the blocking thread that open() starts to read    *)
(* the device.  A thread cannot be aborted: it looks at is_open between    *)
(* two reads, which a timeout keeps short, and close() waits for its end.  *)
(*                                                                         *)
(* Every field is an atomic or behind a mutex of its own, so each          *)
(* statement is a step.                                                    *)
(***************************************************************************)
EXTENDS Integers, FiniteSets

CONSTANTS
  Users,         \* tasks that call the port
  MaxSessions    \* bound: openings of the device, numbered in order

ASSUME SerialAssumption == MaxSessions \in Nat

Sessions == 1 .. MaxSessions
None == 0

VARIABLES
  pc,           \* the statement each user is at
  mine,         \* the session each open() has made
  awaited,      \* the session whose thread each close() waits for
  isOpen, isOpening, isDestroyed,
  writePort, connectionId, readTask,   \* whose write handle, id and task are stored
  thread,       \* of each session: its reader thread
  announced,    \* connection_close events of each session
  closings,     \* close events
  orderly       \* ghost: no open() overlapped another call

callVars == <<pc, mine, awaited>>
flagVars == <<isOpen, isOpening, isDestroyed>>
storedVars == <<writePort, connectionId, readTask>>
eventVars == <<announced, closings>>
vars == <<callVars, flagVars, storedVars, thread, eventVars, orderly>>

Opened == {"write", "id", "spawn"}    \* open() still owns the read handle
Ending == {"idle", "send", "close", "drop", "take", "join", "announce"}
Statements == Opened \cup Ending \cup {"mark", "check", "device", "task", "open", "unmark"}

TypeOK ==
  /\ pc \in [Users -> Statements]
  /\ mine \in [Users -> Sessions \cup {None}]
  /\ awaited \in [Users -> Sessions \cup {None}]
  /\ isOpen \in BOOLEAN /\ isOpening \in BOOLEAN /\ isDestroyed \in BOOLEAN
  /\ writePort \in Sessions \cup {None}
  /\ connectionId \in Sessions \cup {None}
  /\ readTask \in Sessions \cup {None}
  /\ thread \in [Sessions -> {"none", "checking", "reading", "leaving", "announcing", "ended"}]
  /\ announced \in [Sessions -> Nat]
  /\ closings \in Nat
  /\ orderly \in BOOLEAN

Init ==
  /\ pc = [u \in Users |-> "idle"]
  /\ mine = [u \in Users |-> None]
  /\ awaited = [u \in Users |-> None]
  /\ isOpen = FALSE /\ isOpening = FALSE /\ isDestroyed = FALSE
  /\ writePort = None /\ connectionId = None /\ readTask = None
  /\ thread = [s \in Sessions |-> "none"]
  /\ announced = [s \in Sessions |-> 0]
  /\ closings = 0
  /\ orderly = TRUE

At(u, step, next) == pc[u] = step /\ pc' = [pc EXCEPT ![u] = next]
Step(u, step, next) == At(u, step, next) /\ UNCHANGED orderly

Begin(u, step) ==
  /\ At(u, "idle", step)
  /\ orderly' = (orderly /\ \A v \in Users \ {u} : pc[v] = "idle" \/ {pc[v], step} \subseteq Ending)

Emit(s) ==
  /\ announced' = [t \in Sessions |-> IF t = s THEN announced[t] + 1 ELSE announced[t]]
  /\ closings' = closings + 1

-----------------------------------------------------------------------------
(* open *)

Alive(s) == thread[s] \notin {"none", "ended"}

\* A handle of the device is open: the system gives it to one opener at a time.
Busy == writePort # None \/ (\E s \in Sessions : Alive(s)) \/ \E u \in Users : pc[u] \in Opened

\* PortDestroyed, or on.
Open(u) ==
  /\ ~isDestroyed
  /\ Begin(u, "mark")
  /\ UNCHANGED <<mine, awaited, flagVars, storedVars, thread, eventVars>>

\* compare_exchange: PortAlreadyOpen for all but one.
MarkOpening(u) ==
  /\ Step(u, "mark", IF isOpening THEN "idle" ELSE "check")
  /\ isOpening' = TRUE
  /\ UNCHANGED <<mine, awaited, isOpen, isDestroyed, storedVars, thread, eventVars>>

CheckOpen(u) ==
  /\ Step(u, "check", IF isOpen THEN "idle" ELSE "device")
  /\ isOpening' = (isOpening /\ ~isOpen)
  /\ UNCHANGED <<mine, awaited, isOpen, isDestroyed, storedVars, thread, eventVars>>

\* The device is opened and its handle cloned.
OpenDevice(u) ==
  /\ ~Busy
  /\ Step(u, "device", "write")
  /\ \E s \in Sessions :
       /\ thread[s] = "none" /\ \A r \in Sessions : r < s => thread[r] # "none"
       /\ mine' = [mine EXCEPT ![u] = s]
  /\ UNCHANGED <<awaited, flagVars, storedVars, thread, eventVars>>

\* It is busy or missing, or cannot be cloned.
DeviceFails(u) ==
  /\ Step(u, "device", "idle")
  /\ isOpening' = FALSE
  /\ UNCHANGED <<mine, awaited, isOpen, isDestroyed, storedVars, thread, eventVars>>

StoreWritePort(u) ==
  /\ Step(u, "write", "id")
  /\ writePort' = mine[u]
  /\ UNCHANGED <<mine, awaited, flagVars, connectionId, readTask, thread, eventVars>>

StoreId(u) ==
  /\ Step(u, "id", "spawn")
  /\ connectionId' = mine[u]
  /\ UNCHANGED <<mine, awaited, flagVars, writePort, readTask, thread, eventVars>>

SpawnReader(u) ==
  /\ Step(u, "spawn", "task")
  /\ thread' = [thread EXCEPT ![mine[u]] = "checking"]
  /\ UNCHANGED <<mine, awaited, flagVars, storedVars, eventVars>>

StoreTask(u) ==
  /\ Step(u, "task", "open")
  /\ readTask' = mine[u]
  /\ UNCHANGED <<mine, awaited, flagVars, writePort, connectionId, thread, eventVars>>

StoreOpen(u) ==
  /\ Step(u, "open", "unmark")
  /\ isOpen' = TRUE
  /\ UNCHANGED <<mine, awaited, isOpening, isDestroyed, storedVars, thread, eventVars>>

UnmarkOpening(u) ==
  /\ Step(u, "unmark", "idle")
  /\ isOpening' = FALSE
  /\ UNCHANGED <<mine, awaited, isOpen, isDestroyed, storedVars, thread, eventVars>>

-----------------------------------------------------------------------------
(* write, close and destroy *)

Write(u) ==
  /\ isOpen
  /\ Begin(u, "send")
  /\ UNCHANGED <<mine, awaited, flagVars, storedVars, thread, eventVars>>

\* The bytes go to the handle that is stored now, if there is one.
Send(u) ==
  /\ Step(u, "send", "idle")
  /\ UNCHANGED <<mine, awaited, flagVars, storedVars, thread, eventVars>>

\* The gate: a close() that finds the port closed has nothing to do.
Gate ==
  /\ isOpen' = FALSE
  /\ UNCHANGED <<mine, awaited, isOpening, storedVars, thread, eventVars>>

Close(u) ==
  /\ Begin(u, IF isOpen THEN "drop" ELSE "idle")
  /\ Gate
  /\ UNCHANGED isDestroyed

CloseDestroyed(u) ==
  /\ Step(u, "close", IF isOpen THEN "drop" ELSE "idle")
  /\ Gate
  /\ UNCHANGED isDestroyed

Destroy(u) ==
  /\ ~isDestroyed
  /\ Begin(u, "close")
  /\ isDestroyed' = TRUE
  /\ UNCHANGED <<mine, awaited, isOpen, isOpening, storedVars, thread, eventVars>>

DropWritePort(u) ==
  /\ Step(u, "drop", "take")
  /\ writePort' = None
  /\ UNCHANGED <<mine, awaited, flagVars, connectionId, readTask, thread, eventVars>>

TakeTask(u) ==
  /\ Step(u, "take", "join")
  /\ awaited' = [awaited EXCEPT ![u] = readTask]
  /\ readTask' = None
  /\ UNCHANGED <<mine, flagVars, writePort, connectionId, thread, eventVars>>

\* Fault: the thread is left to end when it will.
JoinLater(u) ==
  /\ Step(u, "join", "announce")
  /\ UNCHANGED <<mine, awaited, flagVars, storedVars, thread, eventVars>>

Join(u) ==
  /\ \A s \in Sessions : s = awaited[u] => thread[s] = "ended"
  /\ Step(u, "join", "announce")
  /\ UNCHANGED <<mine, awaited, flagVars, storedVars, thread, eventVars>>

\* connection_close for the id that is stored, if any, and close.
Announce(u) ==
  /\ Step(u, "announce", "idle")
  /\ Emit(connectionId)
  /\ connectionId' = None
  /\ UNCHANGED <<mine, awaited, flagVars, writePort, readTask, thread>>

-----------------------------------------------------------------------------
(* The reader thread *)

Run(s, from, to) ==
  /\ thread[s] = from
  /\ thread' = [thread EXCEPT ![s] = to]
  /\ UNCHANGED <<callVars, isOpening, isDestroyed, storedVars, orderly>>

Check(s) ==
  /\ Run(s, "checking", IF isOpen THEN "reading" ELSE "leaving")
  /\ UNCHANGED <<isOpen, eventVars>>

\* Fault: a read waits for as long as the line is silent.
ReadOn(s) == thread[s] = "reading" /\ UNCHANGED vars

\* The read times out, or finds nothing.
ReadTimesOut(s) ==
  /\ Run(s, "reading", "checking")
  /\ UNCHANGED <<isOpen, eventVars>>

\* A data event.
ReadData(s) ==
  /\ Run(s, "reading", "checking")
  /\ UNCHANGED <<isOpen, eventVars>>

\* An error event.
ReadFails(s) ==
  /\ Run(s, "reading", "leaving")
  /\ UNCHANGED <<isOpen, eventVars>>

\* Fault: the thread announces the end of its session without the gate.
LeaveUngated(s) ==
  /\ Run(s, "leaving", "announcing")
  /\ isOpen' = FALSE
  /\ UNCHANGED eventVars

\* Whoever finds is_open true announces the end.
Leave(s) ==
  /\ Run(s, "leaving", IF isOpen THEN "announcing" ELSE "ended")
  /\ isOpen' = FALSE
  /\ UNCHANGED eventVars

AnnounceEnd(s) ==
  /\ Run(s, "announcing", "ended")
  /\ Emit(s)
  /\ UNCHANGED isOpen

-----------------------------------------------------------------------------
Opening(u) ==
  \/ MarkOpening(u) \/ CheckOpen(u) \/ OpenDevice(u) \/ DeviceFails(u) \/ StoreWritePort(u) \/ StoreId(u)
  \/ SpawnReader(u) \/ StoreTask(u) \/ StoreOpen(u) \/ UnmarkOpening(u)

Closing(u) ==
  \/ Send(u) \/ CloseDestroyed(u) \/ DropWritePort(u) \/ TakeTask(u) \/ Join(u) \/ Announce(u)

Running(s) == Check(s) \/ ReadTimesOut(s) \/ Leave(s) \/ AnnounceEnd(s)

Next ==
  \/ \E u \in Users : Open(u) \/ Write(u) \/ Close(u) \/ Destroy(u) \/ Opening(u) \/ Closing(u)
  \/ \E s \in Sessions : Running(s) \/ ReadData(s) \/ ReadFails(s)

Spec == Init /\ [][Next]_vars

\* A task that can run is polled, a thread runs, and its reads return.
FairSpec ==
  /\ Spec
  /\ \A u \in Users : WF_vars(Opening(u) \/ Closing(u))
  /\ \A s \in Sessions : WF_vars(Running(s))

-----------------------------------------------------------------------------
(* Properties *)

\* Between the threads and close(), one announces the end of a session and the
\* others do not, however often and from however many tasks close() is called.
EndsOnce ==
  orderly => /\ \A s \in Sessions : announced[s] <= 1
             /\ closings = Cardinality({s \in Sessions : announced[s] = 1})

\* "Joined by close() so the OS port is fully released before returning": no close()
\* that had a session to end reports it while a handle of the device is open.
ReleasedByClose == orderly => \A u \in Users : pc[u] = "announce" => ~Busy

\* "Short read timeout so the background loop wakes regularly": a close() that waits
\* for the thread returns, though nothing can interrupt a read.
CloseReturns == \A u \in Users : pc[u] = "join" ~> (pc[u] = "idle" \/ ~orderly)

\* What close() waits for takes no longer than a read: the port stays closed while it
\* waits, the one thread there is will find it so, and it ends without an event of its own.
JoinIsShort ==
  orderly => \A u \in Users : pc[u] = "join" =>
    ~isOpen /\ \A s \in Sessions : Alive(s) => s = awaited[u] /\ thread[s] # "announcing"

Idle == \A u \in Users : pc[u] = "idle"

\* "Natural exit (read error or close() flipped is_open)": an open port between calls
\* has a thread that reads it.
OpenIsRead == orderly /\ Idle /\ isOpen => \E s \in Sessions : s = connectionId /\ Alive(s)
=============================================================================
