-------------------------- MODULE SerialPortProofs --------------------------
(***************************************************************************)
(* For any number of users and openings of the device, as long as no       *)
(* open() overlaps with another call: a close() that had a session to end  *)
(* returns when every handle of the device is closed, and the end of a     *)
(* session is announced once.                                              *)
(***************************************************************************)
EXTENDS SerialPort, FiniteSetTheorems, TLAPS

\* Every variable keeps its type, however the calls overlap.
LEMMA TypeStep == TypeOK /\ [Next]_vars => TypeOK'
<1> SUFFICES ASSUME TypeOK, [Next]_vars PROVE TypeOK'  OBVIOUS
<1> USE DEF TypeOK, Statements, Opened, Ending, None, At, Step, Begin, callVars, flagVars, storedVars,
            eventVars
<1>1. ASSUME NEW u \in Users, Open(u) \/ Write(u) \/ Close(u) \/ Destroy(u)  PROVE TypeOK'
  BY <1>1 DEF Open, Write, Close, Destroy, Gate
<1>2. ASSUME NEW u \in Users, Opening(u)  PROVE TypeOK'
  <2>1. CASE MarkOpening(u) \/ CheckOpen(u)  BY <2>1 DEF MarkOpening, CheckOpen
  <2>2. CASE OpenDevice(u)  BY <2>2 DEF OpenDevice
  <2>3. CASE DeviceFails(u) \/ StoreWritePort(u)  BY <2>3 DEF DeviceFails, StoreWritePort
  <2>4. CASE StoreId(u) \/ SpawnReader(u)  BY <2>4 DEF StoreId, SpawnReader
  <2>5. CASE StoreTask(u) \/ StoreOpen(u)  BY <2>5 DEF StoreTask, StoreOpen
  <2>6. CASE UnmarkOpening(u)  BY <2>6 DEF UnmarkOpening
  <2> QED  BY <1>2, <2>1, <2>2, <2>3, <2>4, <2>5, <2>6 DEF Opening
<1>3. ASSUME NEW u \in Users, Closing(u)  PROVE TypeOK'
  <2>1. CASE Send(u) \/ CloseDestroyed(u)  BY <2>1 DEF Send, CloseDestroyed, Gate
  <2>2. CASE DropWritePort(u) \/ TakeTask(u)  BY <2>2 DEF DropWritePort, TakeTask
  <2>3. CASE Join(u)  BY <2>3 DEF Join
  <2>4. CASE Announce(u)
    <3>1. announced' \in [Sessions -> Nat] /\ closings' \in Nat  BY <2>4 DEF Announce, Emit
    <3> QED  BY <2>4, <3>1 DEF Announce
  <2> QED  BY <1>3, <2>1, <2>2, <2>3, <2>4 DEF Closing
<1>4. ASSUME NEW s \in Sessions, Running(s) \/ ReadData(s) \/ ReadFails(s)  PROVE TypeOK'
  <2>1. CASE Check(s) \/ ReadTimesOut(s) \/ ReadData(s) \/ ReadFails(s) \/ Leave(s)
    BY <2>1 DEF Check, ReadTimesOut, ReadData, ReadFails, Leave, Run
  <2>2. CASE AnnounceEnd(s)
    <3>1. announced' \in [Sessions -> Nat] /\ closings' \in Nat  BY <2>2 DEF AnnounceEnd, Emit
    <3> QED  BY <2>2, <3>1 DEF AnnounceEnd, Run
  <2> QED  BY <1>4, <2>1, <2>2 DEF Running
<1>5. CASE UNCHANGED vars  BY <1>5 DEF vars
<1> QED  BY <1>1, <1>2, <1>3, <1>4, <1>5 DEF Next

THEOREM TypeCorrect == Spec => []TypeOK
<1>1. Init => TypeOK
  <2> SUFFICES ASSUME Init PROVE TypeOK  OBVIOUS
  <2>1. "idle" \in Statements  BY DEF Statements, Ending
  <2> QED  BY <2>1 DEF Init, TypeOK, None
<1> QED BY <1>1, TypeStep, PTL DEF Spec

-----------------------------------------------------------------------------
(* The inductive invariant *)

Staging == {"write", "id", "spawn", "task", "open"}   \* open() has the device
Opens == {"mark", "check", "device", "unmark"} \cup Staging
Past == {"drop", "take", "join", "announce"}          \* close() has found the port open

\* An open() under way has the port to itself, and close() is past the gate once.
Alone ==
  \A u \in Users :
    /\ pc[u] \in Opens => \A v \in Users \ {u} : pc[v] = "idle"
    /\ pc[u] \in Past => ~isOpen /\ \A v \in Users \ {u} : pc[v] \notin Past
    /\ pc[u] \in Staging \cup {"device"} => ~isOpen

\* Every thread that runs is stored, or in the hands of the open() or close() under way.
Owned ==
  \A s \in Sessions : Alive(s) =>
    \/ s = readTask
    \/ \E u \in Users : pc[u] = "join" /\ awaited[u] = s
    \/ \E u \in Users : pc[u] = "task" /\ mine[u] = s

\* What is left of a session at each step of open() and of close().
Staged ==
  \A u \in Users :
    /\ pc[u] \in Staging => mine[u] # None
    /\ pc[u] \in {"write", "id", "spawn"} => thread[mine[u]] = "none" /\ \A s \in Sessions : ~Alive(s)
    /\ pc[u] \in {"spawn", "task", "open"} => connectionId = mine[u]
    /\ pc[u] = "task" => \A s \in Sessions : Alive(s) => s = mine[u]
    /\ pc[u] = "open" => readTask = mine[u] /\ \A s \in Sessions : Alive(s) => s = mine[u]
    /\ pc[u] \in {"task", "open"} => thread[mine[u]] # "none" /\ announced[mine[u]] = 0
    /\ pc[u] \in {"take", "join", "announce"} => writePort = None
    /\ pc[u] \in {"join", "announce"} => readTask = None

\* The stored id is that of a session whose end is still to be announced.
Pending == connectionId # None /\ thread[connectionId] # "none" /\ announced[connectionId] = 0

\* One party has the announcement of a session's end to make: close() past the gate, or
\* the thread that leaves an open port.
Announcing ==
  /\ isOpen => Pending /\ readTask = connectionId
  /\ \A u \in Users : pc[u] \in Past => Pending
  /\ \A s \in Sessions :
       /\ thread[s] = "none" => announced[s] = 0
       /\ thread[s] = "announcing" =>
            ~isOpen /\ announced[s] = 0 /\ \A u \in Users : pc[u] \notin Past \cup Staging

PortInv == orderly => Alone /\ Owned /\ Staged /\ Announcing

Parts == TypeOK /\ orderly /\ Alone /\ Owned /\ Staged /\ Announcing

LEMMA OpeningStep ==
  ASSUME Parts, NEW u \in Users, orderly', Open(u) \/ Opening(u)
  PROVE  Alone' /\ Owned' /\ Staged' /\ Announcing'
<1> USE DEF Parts, TypeOK, Statements, Opened, Ending, Staging, Opens, Past, At, Step, callVars, flagVars,
            storedVars, eventVars, None, Alive, Alone, Owned, Staged, Pending, Announcing
<1>1. CASE Open(u)  BY <1>1 DEF Open, Begin
<1>2. CASE MarkOpening(u)  BY <1>2 DEF MarkOpening
<1>3. CASE CheckOpen(u)  BY <1>3 DEF CheckOpen
<1>4. CASE OpenDevice(u)
  <2>1. Alone'  BY <1>4 DEF OpenDevice, Busy, Sessions
  <2>2. Owned'  BY <1>4 DEF OpenDevice, Busy, Sessions
  <2>3. Staged'  BY <1>4 DEF OpenDevice, Busy, Sessions
  <2>4. Announcing'  BY <1>4 DEF OpenDevice, Busy, Sessions
  <2> QED  BY <2>1, <2>2, <2>3, <2>4
<1>5. CASE DeviceFails(u)  BY <1>5 DEF DeviceFails
<1>6. CASE StoreWritePort(u)  BY <1>6 DEF StoreWritePort
<1>7. CASE StoreId(u)  BY <1>7 DEF StoreId
<1>8. CASE SpawnReader(u)  BY <1>8 DEF SpawnReader
<1>9. CASE StoreTask(u)  BY <1>9 DEF StoreTask
<1>10. CASE StoreOpen(u)  BY <1>10 DEF StoreOpen
<1>11. CASE UnmarkOpening(u)  BY <1>11 DEF UnmarkOpening
<1> QED  BY <1>1, <1>2, <1>3, <1>4, <1>5, <1>6, <1>7, <1>8, <1>9, <1>10, <1>11 DEF Opening

LEMMA ClosingStep ==
  ASSUME Parts, NEW u \in Users, orderly', Write(u) \/ Close(u) \/ Destroy(u) \/ Closing(u)
  PROVE  Alone' /\ Owned' /\ Staged' /\ Announcing'
<1> USE DEF Parts, TypeOK, Statements, Opened, Ending, Staging, Opens, Past, At, Step, callVars, flagVars,
            storedVars, eventVars, None, Alive, Alone, Owned, Staged, Pending, Announcing
<1>1. CASE Write(u)
  <2>1. \A v \in Users : pc[v] \in Ending  BY <1>1 DEF Write, Begin
  <2> QED  BY <1>1, <2>1 DEF Write, Begin
<1>2. CASE Close(u)
  <2>1. \A v \in Users : pc[v] \in Ending  BY <1>2 DEF Close, Begin
  <2>2. pc[u] = "idle" /\ pc' = [pc EXCEPT ![u] = IF isOpen THEN "drop" ELSE "idle"]  BY <1>2 DEF Close, Begin
  <2>3. isOpen' = FALSE /\ UNCHANGED <<mine, awaited, storedVars, thread, eventVars>>  BY <1>2 DEF Close, Gate
  <2>4. Alone'  BY <2>1, <2>2, <2>3
  <2>5. Owned'  BY <2>1, <2>2, <2>3
  <2>6. Staged'  BY <2>1, <2>2, <2>3
  <2>7. Announcing'  BY <2>1, <2>2, <2>3
  <2> QED  BY <2>4, <2>5, <2>6, <2>7
<1>3. CASE Destroy(u)  BY <1>3 DEF Destroy, Begin
<1>4. CASE Send(u)  BY <1>4 DEF Send
<1>5. CASE CloseDestroyed(u)  BY <1>5 DEF CloseDestroyed, Gate
<1>6. CASE DropWritePort(u)  BY <1>6 DEF DropWritePort
<1>7. CASE TakeTask(u)
  <2>1. Alone'  BY <1>7 DEF TakeTask
  <2>2. Owned'  BY <1>7 DEF TakeTask
  <2>3. Staged'  BY <1>7 DEF TakeTask
  <2>4. Announcing'  BY <1>7 DEF TakeTask
  <2> QED  BY <2>1, <2>2, <2>3, <2>4
<1>8. CASE Join(u)
  <2>1. Alone'  BY <1>8 DEF Join
  <2>2. Owned'  BY <1>8 DEF Join
  <2>3. Staged'  BY <1>8 DEF Join
  <2>4. Announcing'  BY <1>8 DEF Join
  <2> QED  BY <2>1, <2>2, <2>3, <2>4
<1>9. CASE Announce(u)  BY <1>9 DEF Announce, Emit
<1> QED  BY <1>1, <1>2, <1>3, <1>4, <1>5, <1>6, <1>7, <1>8, <1>9 DEF Closing

LEMMA RunningStep ==
  ASSUME Parts, NEW s \in Sessions, orderly', Running(s) \/ ReadData(s) \/ ReadFails(s)
  PROVE  Alone' /\ Owned' /\ Staged' /\ Announcing'
<1> USE DEF Parts, TypeOK, Statements, Opened, Ending, Staging, Opens, Past, Run, callVars, storedVars,
            eventVars, None, Alive, Alone, Owned, Staged, Pending, Announcing
<1>1. CASE Check(s)  BY <1>1 DEF Check
<1>2. CASE ReadTimesOut(s)  BY <1>2 DEF ReadTimesOut
<1>3. CASE ReadData(s)  BY <1>3 DEF ReadData
<1>4. CASE ReadFails(s)  BY <1>4 DEF ReadFails
<1>5. CASE Leave(s)  BY <1>5 DEF Leave
<1>6. CASE AnnounceEnd(s)  BY <1>6 DEF AnnounceEnd, Emit
<1> QED  BY <1>1, <1>2, <1>3, <1>4, <1>5, <1>6 DEF Running

LEMMA StaysOrderly == [Next]_vars /\ orderly' => orderly
BY DEF Next, vars, Opening, Closing, Running, Open, MarkOpening, CheckOpen, OpenDevice, DeviceFails,
       StoreWritePort, StoreId, SpawnReader, StoreTask, StoreOpen, UnmarkOpening, Write, Send, Close,
       CloseDestroyed, Destroy, DropWritePort, TakeTask, Join, Announce, Check, ReadTimesOut, ReadData,
       ReadFails, Leave, AnnounceEnd, Run, Step, Begin

LEMMA PortStep == TypeOK /\ PortInv /\ [Next]_vars => PortInv'
<1> SUFFICES ASSUME TypeOK, PortInv, [Next]_vars, orderly'
             PROVE  Alone' /\ Owned' /\ Staged' /\ Announcing'
  BY DEF PortInv
<1>1. Parts  BY StaysOrderly DEF Parts, PortInv
<1>2. CASE UNCHANGED vars
  BY <1>1, <1>2 DEF vars, callVars, flagVars, storedVars, eventVars, Parts, Alone, Owned, Staged, Alive,
                    Pending, Announcing
<1> QED  BY <1>1, <1>2, OpeningStep, ClosingStep, RunningStep DEF Next

LEMMA PortInvariant == Spec => [](TypeOK /\ PortInv)
<1>1. Init => PortInv
  BY DEF Init, PortInv, Alone, Owned, Staged, Announcing, Alive, Staging, Opens, Past
<1> QED  BY <1>1, PortStep, TypeCorrect, PTL DEF Spec

\* No close() that had a session to end reports it while a handle of the device is open.
THEOREM ClosedIsReleased == Spec => []ReleasedByClose
<1>1. TypeOK /\ PortInv => ReleasedByClose
  <2> SUFFICES ASSUME TypeOK, PortInv, orderly, NEW u \in Users, pc[u] = "announce"  PROVE ~Busy
    BY DEF ReleasedByClose
  <2>1. writePort = None  BY DEF PortInv, Staged
  <2>2. \A s \in Sessions : ~Alive(s)
    BY DEF PortInv, TypeOK, Alone, Owned, Staged, Past, Opens, Staging, Sessions, None
  <2>3. \A v \in Users : pc[v] \notin Opened  BY DEF PortInv, Alone, Opens, Staging, Opened
  <2> QED  BY <2>1, <2>2, <2>3 DEF Busy
<1> QED  BY <1>1, PortInvariant, PTL

\* A close() that waits for the reader thread has nothing else to wait for.
THEOREM JoinEnds == Spec => []JoinIsShort
<1>1. TypeOK /\ PortInv => JoinIsShort
  <2> SUFFICES ASSUME TypeOK, PortInv, orderly, NEW u \in Users, pc[u] = "join"
               PROVE  ~isOpen /\ \A s \in Sessions : Alive(s) => s = awaited[u] /\ thread[s] # "announcing"
    BY DEF JoinIsShort
  <2>1. ~isOpen /\ \A v \in Users \ {u} : pc[v] \notin Past \cup Opens
    BY DEF PortInv, Alone, Past, Opens, Staging
  <2>2. ASSUME NEW s \in Sessions, Alive(s)  PROVE s = awaited[u]
    <3>1. readTask # s  BY DEF PortInv, Staged, Sessions, None
    <3> QED  BY <2>1, <2>2, <3>1 DEF PortInv, Owned, Past, Opens, Staging
  <2>3. \A s \in Sessions : thread[s] # "announcing"  BY DEF PortInv, Announcing, Past
  <2> QED  BY <2>1, <2>2, <2>3
<1> QED  BY <1>1, PortInvariant, PTL

-----------------------------------------------------------------------------
Ended == {s \in Sessions : announced[s] = 1}

Counted == (\A s \in Sessions : announced[s] <= 1) /\ closings = Cardinality(Ended)

\* An event for a session that has had none counts one more.
LEMMA CountOne ==
  ASSUME TypeOK, Counted, NEW s \in Sessions, announced[s] = 0, Emit(s)
  PROVE  Counted'
<1> USE DEF TypeOK
<1>1. IsFiniteSet(Ended)
  <2>1. IsFiniteSet(Sessions)  BY FS_Interval, SerialAssumption DEF Sessions
  <2> QED  BY <2>1, FS_Subset DEF Ended
<1>2. Ended' = Ended \cup {s} /\ s \notin Ended  BY DEF Emit, Ended
<1>3. Cardinality(Ended') = Cardinality(Ended) + 1  BY <1>1, <1>2, FS_AddElement
<1>4. \A r \in Sessions : announced'[r] <= 1  BY DEF Emit, Counted
<1>5. closings' = closings + 1  BY DEF Emit
<1> QED  BY <1>3, <1>4, <1>5 DEF Counted

\* Every end of a session is announced once, with one connection_close and one close event.
THEOREM SessionsEndOnce == Spec => []EndsOnce
<1> DEFINE Inv == orderly => Counted
<1>1. Init => Inv
  <2> SUFFICES ASSUME Init PROVE Counted  OBVIOUS
  <2>1. Ended = {}  BY DEF Init, Ended
  <2> QED  BY <2>1, FS_EmptySet DEF Init, Counted
<1>2. TypeOK /\ PortInv /\ Inv /\ [Next]_vars => Inv'
  <2> SUFFICES ASSUME TypeOK, PortInv, Inv, [Next]_vars, orderly'  PROVE Counted'
    OBVIOUS
  <2>0. orderly /\ Counted  BY StaysOrderly
  <2>1. ASSUME NEW u \in Users, Announce(u)  PROVE Counted'
    <3>1. connectionId \in Sessions /\ announced[connectionId] = 0
      BY <2>0, <2>1 DEF Announce, Step, At, PortInv, Announcing, Pending, Past, TypeOK
    <3> QED  BY <2>0, <2>1, <3>1, CountOne DEF Announce
  <2>2. ASSUME NEW s \in Sessions, AnnounceEnd(s)  PROVE Counted'
    <3>1. announced[s] = 0  BY <2>0, <2>2 DEF AnnounceEnd, Run, PortInv, Announcing
    <3> QED  BY <2>0, <2>2, <3>1, CountOne DEF AnnounceEnd
  <2>3. CASE /\ \A u \in Users : ~Announce(u)
             /\ \A s \in Sessions : ~AnnounceEnd(s)
    <3>1. UNCHANGED eventVars
      BY <2>3 DEF Next, vars, eventVars, Opening, Closing, Running, Open, MarkOpening, CheckOpen, OpenDevice,
           DeviceFails, StoreWritePort, StoreId, SpawnReader, StoreTask, StoreOpen, UnmarkOpening, Write,
           Send, Close, CloseDestroyed, Destroy, DropWritePort, TakeTask, Join, Check, ReadTimesOut,
           ReadData, ReadFails, Leave, Gate
    <3> QED  BY <2>0, <3>1 DEF eventVars, Counted, Ended
  <2> QED  BY <2>1, <2>2, <2>3
<1>3. Inv => EndsOnce  BY DEF Counted, Ended, EndsOnce
<1> QED  BY <1>1, <1>2, <1>3, PortInvariant, PTL DEF Spec
=============================================================================
