------------------------ MODULE TcpClientPortProofs -------------------------
(***************************************************************************)
(* For any number of users, connections and lost peers, as long as no      *)
(* open() overlaps with another call and no read task told to stop closes  *)
(* a session opened since: an open TCP client port has the write half, the *)
(* id and the read task of one and the same connection, a closed one has   *)
(* no read task left that nobody told to stop, the end of a connection is  *)
(* announced once, and data after it comes only from a task told to stop.  *)
(***************************************************************************)
EXTENDS TcpClientPort, FiniteSetTheorems, TLAPS

Connected == {"half", "id", "spawn", "task", "open", "unmark"}
Opens == {"flags", "mark", "connect"} \cup Connected

\* An open() under way has the port to itself, and nobody closes an open port twice.
Alone ==
  \A u \in Users :
    /\ pc[u] \in Opens => \A v \in Users \ {u} : pc[v] = "idle"
    /\ pc[u] \in Statements \ {"idle", "flags", "unmark", "close"} => ~isOpen

\* What open() has stored so far belongs to the connection it has made.
Staged ==
  \A u \in Users :
    /\ pc[u] \in Connected => conn[u] # None
    /\ pc[u] \in Connected \ {"half"} => writeHalf = conn[u]
    /\ pc[u] \in Connected \ {"half", "id"} => connectionId = conn[u]
    /\ pc[u] \in {"open", "unmark"} => readTask = conn[u]

Whole == isOpen => writeHalf # None /\ connectionId = writeHalf /\ readTask = writeHalf

SessionInv == orderly => Alone /\ Staged /\ Whole

\* Every variable keeps its type, however the calls overlap.
LEMMA TypeStep == TypeOK /\ [Next]_vars => TypeOK'
<1> SUFFICES ASSUME TypeOK, [Next]_vars PROVE TypeOK'  OBVIOUS
<1> USE DEF TypeOK, Statements, None, At, Goto, Begin, storedVars, eventVars
<1>1. ASSUME NEW u \in Users, Open(u)  PROVE TypeOK'
  BY <1>1 DEF Open
<1>2. ASSUME NEW u \in Users, CheckFlags(u)  PROVE TypeOK'
  BY <1>2 DEF CheckFlags
<1>3. ASSUME NEW u \in Users, MarkOpening(u)  PROVE TypeOK'
  BY <1>3 DEF MarkOpening
<1>4. ASSUME NEW u \in Users, Connect(u)  PROVE TypeOK'
  BY <1>4 DEF Connect
<1>5. ASSUME NEW u \in Users, ConnectFails(u)  PROVE TypeOK'
  BY <1>5 DEF ConnectFails
<1>6. ASSUME NEW u \in Users, StoreHalf(u)  PROVE TypeOK'
  BY <1>6 DEF StoreHalf
<1>7. ASSUME NEW u \in Users, StoreId(u)  PROVE TypeOK'
  BY <1>7 DEF StoreId
<1>8. ASSUME NEW u \in Users, SpawnReader(u)  PROVE TypeOK'
  BY <1>8 DEF SpawnReader
<1>9. ASSUME NEW u \in Users, StoreTask(u)  PROVE TypeOK'
  BY <1>9 DEF StoreTask
<1>10. ASSUME NEW u \in Users, StoreOpen(u)  PROVE TypeOK'
  BY <1>10 DEF StoreOpen
<1>11. ASSUME NEW u \in Users, UnmarkOpening(u)  PROVE TypeOK'
  BY <1>11 DEF UnmarkOpening
<1>12. ASSUME NEW u \in Users, Close(u)  PROVE TypeOK'
  BY <1>12 DEF Close, Gate
<1>13. ASSUME NEW u \in Users, CloseDestroyed(u)  PROVE TypeOK'
  BY <1>13 DEF CloseDestroyed, Gate
<1>14. ASSUME NEW u \in Users, Destroy(u)  PROVE TypeOK'
  BY <1>14 DEF Destroy
<1>15. ASSUME NEW u \in Users, AbortReader(u)  PROVE TypeOK'
  BY <1>15 DEF AbortReader
<1>16. ASSUME NEW u \in Users, DropHalf(u)  PROVE TypeOK'
  BY <1>16 DEF DropHalf
<1>17. ASSUME NEW u \in Users, Announce(u)  PROVE TypeOK'
  <2>1. announced' \in [Conns -> Nat] /\ closings' \in Nat  BY <1>17 DEF Announce, Emit
  <2> QED BY <1>17, <2>1 DEF Announce, Emit
<1>18. ASSUME NEW c \in Conns, Receive(c)  PROVE TypeOK'
  <2>1. received[c] + 1 \in 0 .. MaxReads  BY <1>18, PortAssumption DEF Receive
  <2> QED BY <1>18, <2>1 DEF Receive
<1>19. ASSUME NEW c \in Conns, Exit(c)  PROVE TypeOK'
  <2>1. announced' \in [Conns -> Nat] /\ closings' \in Nat  BY <1>19 DEF Exit, Emit
  <2> QED BY <1>19, <2>1 DEF Exit, Emit
<1>20. ASSUME NEW c \in Conns, Stop(c)  PROVE TypeOK'
  BY <1>20 DEF Stop
<1>21. ASSUME NEW c \in Conns, PeerCloses(c)  PROVE TypeOK'
  BY <1>21 DEF PeerCloses
<1>22. CASE UNCHANGED vars  BY <1>22 DEF vars
<1> QED
  BY <1>1, <1>2, <1>3, <1>4, <1>5, <1>6, <1>7, <1>8, <1>9, <1>10, <1>11, <1>12, <1>13,
     <1>14, <1>15, <1>16, <1>17, <1>18, <1>19, <1>20, <1>21, <1>22
  DEF Next, Opening, Closing, Reading

THEOREM TypeCorrect == Spec => []TypeOK
<1>1. Init => TypeOK
  <2> SUFFICES ASSUME Init PROVE TypeOK  OBVIOUS
  <2>1. 0 \in 0 .. MaxReads  BY PortAssumption
  <2> QED BY <2>1 DEF Init, TypeOK, Statements, None
<1> QED BY <1>1, TypeStep, PTL DEF Spec

-----------------------------------------------------------------------------
\* open() has the port to itself; what it stores agrees; close() takes it away
\* only after the gate.
LEMMA SessionStep == TypeOK /\ SessionInv /\ [Next]_vars => SessionInv'
<1> DEFINE Inv == Alone /\ Staged /\ Whole
<1> SUFFICES ASSUME TypeOK, SessionInv, [Next]_vars, orderly'  PROVE Inv'
  BY DEF SessionInv
<1>0. orderly
  BY DEF Next, vars, Opening, Closing, Reading, Open, CheckFlags, MarkOpening, Connect, ConnectFails,
         StoreHalf, StoreId, SpawnReader, StoreTask, StoreOpen, UnmarkOpening, Close, CloseDestroyed,
         Destroy, AbortReader, DropHalf, Announce, Receive, Exit, Stop, PeerCloses, Begin
<1> Alone /\ Staged /\ Whole  BY <1>0 DEF SessionInv
<1> USE DEF TypeOK, Statements, Connected, Opens, At, Goto, storedVars, eventVars, None,
            Alone, Staged, Whole
<1>1. ASSUME NEW u \in Users, Open(u)  PROVE Inv'
  <2>1. \A v \in Users \ {u} : pc[v] = "idle" 
    BY <1>1 DEF Open, Begin, Ending
  <2> QED BY <1>1, <2>1 DEF Open, Begin
<1>2. ASSUME NEW u \in Users, CheckFlags(u)  PROVE Inv'
  BY <1>2 DEF CheckFlags
<1>3. ASSUME NEW u \in Users, MarkOpening(u)  PROVE Inv'
  BY <1>3 DEF MarkOpening
<1>4. ASSUME NEW u \in Users, Connect(u)  PROVE Inv'
  BY <1>4 DEF Connect, Conns
<1>5. ASSUME NEW u \in Users, ConnectFails(u)  PROVE Inv'
  BY <1>5 DEF ConnectFails
<1>6. ASSUME NEW u \in Users, StoreHalf(u)  PROVE Inv'
  BY <1>6 DEF StoreHalf
<1>7. ASSUME NEW u \in Users, StoreId(u)  PROVE Inv'
  BY <1>7 DEF StoreId
<1>8. ASSUME NEW u \in Users, SpawnReader(u)  PROVE Inv'
  BY <1>8 DEF SpawnReader
<1>9. ASSUME NEW u \in Users, StoreTask(u)  PROVE Inv'
  BY <1>9 DEF StoreTask
<1>10. ASSUME NEW u \in Users, StoreOpen(u)  PROVE Inv'
  BY <1>10 DEF StoreOpen
<1>11. ASSUME NEW u \in Users, UnmarkOpening(u)  PROVE Inv'
  BY <1>11 DEF UnmarkOpening
<1>12. ASSUME NEW u \in Users, Close(u)  PROVE Inv'
  <2>1. \A v \in Users \ {u} : pc[v] = "idle" \/ pc[v] \in Ending
    BY <1>12 DEF Close, Begin, Ending
  <2> QED BY <1>12, <2>1 DEF Close, Begin, Gate, Ending
<1>13. ASSUME NEW u \in Users, Destroy(u)  PROVE Inv'
  <2>1. \A v \in Users \ {u} : pc[v] = "idle" \/ pc[v] \in Ending
    BY <1>13 DEF Destroy, Begin, Ending
  <2> QED BY <1>13, <2>1 DEF Destroy, Begin, Ending
<1>14. ASSUME NEW u \in Users, CloseDestroyed(u)  PROVE Inv'
  BY <1>14 DEF CloseDestroyed, Gate
<1>15. ASSUME NEW u \in Users, AbortReader(u)  PROVE Inv'
  BY <1>15 DEF AbortReader
<1>16. ASSUME NEW u \in Users, DropHalf(u)  PROVE Inv'
  BY <1>16 DEF DropHalf
<1>17. ASSUME NEW u \in Users, Announce(u)  PROVE Inv'
  BY <1>17 DEF Announce
<1>18. ASSUME NEW c \in Conns, Receive(c)  PROVE Inv'
  BY <1>18 DEF Receive
<1>19. ASSUME NEW c \in Conns, Exit(c)  PROVE Inv'
  BY <1>19 DEF Exit
<1>20. ASSUME NEW c \in Conns, Stop(c)  PROVE Inv'
  BY <1>20 DEF Stop
<1>21. ASSUME NEW c \in Conns, PeerCloses(c)  PROVE Inv'
  BY <1>21 DEF PeerCloses
<1>22. CASE UNCHANGED vars  BY <1>22 DEF vars
<1> QED
  BY <1>1, <1>2, <1>3, <1>4, <1>5, <1>6, <1>7, <1>8, <1>9, <1>10, <1>11, <1>12, <1>13,
     <1>14, <1>15, <1>16, <1>17, <1>18, <1>19, <1>20, <1>21, <1>22
  DEF Next, Opening, Closing, Reading

\* Between calls, an open port has the half, the id and the task of one connection.
THEOREM WholeSessions == Spec => []SessionIsWhole
<1>1. Init => SessionInv
  BY DEF Init, SessionInv, Alone, Staged, Whole, Connected, Opens, Statements
<1>2. SessionInv => SessionIsWhole
  BY DEF SessionInv, SessionIsWhole, Whole
<1> QED BY <1>1, <1>2, SessionStep, TypeCorrect, PTL DEF Spec

-----------------------------------------------------------------------------
Past == {"abort", "drop", "announce"}   \* close() has found the port open

OneCloser == \A u, v \in Users : pc[u] \in Past /\ pc[v] \in Past => u = v

\* A connection that has just been made has neither read task nor events.
Fresh ==
  /\ \A c \in Conns : /\ peer[c] = "none" => reader[c] = "none"
                      /\ reader[c] = "none" => announced[c] = 0
  /\ \A u \in Users : /\ pc[u] \in {"half", "id", "spawn"} => peer[conn[u]] # "none" /\ reader[conn[u]] = "none"
                      /\ pc[u] \in {"task", "open"} => reader[conn[u]] # "none" /\ announced[conn[u]] = 0

\* The stored id is that of a session whose end is still to be announced.
Pending == connectionId # None /\ reader[connectionId] # "none" /\ announced[connectionId] = 0

Announcing ==
  /\ isOpen => Pending
  /\ \A u \in Users : /\ pc[u] \in Past => Pending
                      /\ pc[u] = "abort" => readTask = connectionId
                      /\ pc[u] \in {"drop", "announce"} => connectionId \in aborted

\* A read task that nobody has told to stop is the stored one, or is about to be.
Owned ==
  \A c \in Conns : reader[c] = "reading" /\ c \notin aborted =>
    \/ c = readTask /\ (isOpen \/ \E u \in Users : pc[u] \in {"open", "abort"})
    \/ \E u \in Users : pc[u] = "task" /\ conn[u] = c

EndInv == orderly => OneCloser /\ Fresh /\ Announcing /\ Owned

Parts == TypeOK /\ orderly /\ Alone /\ Staged /\ Whole /\ OneCloser /\ Fresh /\ Announcing /\ Owned

\* What holds of one action of open() or of the read task: one conjunct at a time.
LEMMA OpeningEnds ==
  ASSUME Parts, NEW u \in Users, orderly', Open(u) \/ Opening(u)
  PROVE  OneCloser' /\ Fresh' /\ Announcing' /\ Owned'
<1> USE DEF Parts, TypeOK, Statements, Connected, Opens, Past, At, Goto, storedVars, eventVars, None,
            Alone, Staged, Whole, OneCloser, Fresh, Pending, Announcing, Owned
<1>1. CASE Open(u)  BY <1>1 DEF Open, Begin
<1>2. CASE CheckFlags(u)  BY <1>2 DEF CheckFlags
<1>3. CASE MarkOpening(u)  BY <1>3 DEF MarkOpening
<1>4. CASE Connect(u)  BY <1>4 DEF Connect, Conns
<1>5. CASE ConnectFails(u)  BY <1>5 DEF ConnectFails
<1>6. CASE StoreHalf(u)  BY <1>6 DEF StoreHalf
<1>7. CASE StoreId(u)  BY <1>7 DEF StoreId
<1>8. CASE SpawnReader(u)  BY <1>8 DEF SpawnReader
<1>9. CASE StoreTask(u)  BY <1>9 DEF StoreTask
<1>10. CASE StoreOpen(u)  BY <1>10 DEF StoreOpen
<1>11. CASE UnmarkOpening(u)  BY <1>11 DEF UnmarkOpening
<1> QED  BY <1>1, <1>2, <1>3, <1>4, <1>5, <1>6, <1>7, <1>8, <1>9, <1>10, <1>11 DEF Opening

LEMMA ClosingEnds ==
  ASSUME Parts, NEW u \in Users, orderly', Close(u) \/ Destroy(u) \/ Closing(u)
  PROVE  OneCloser' /\ Fresh' /\ Announcing' /\ Owned'
<1> USE DEF Parts, TypeOK, Statements, Connected, Opens, Past, At, Goto, storedVars, eventVars, None,
            Alone, Staged, Whole, OneCloser, Fresh, Pending, Announcing, Owned
<1>1. CASE Close(u)
  <2>1. \A v \in Users : pc[v] # "task" /\ pc[v] # "open" /\ pc[v] # "half" /\ pc[v] # "id" /\ pc[v] # "spawn"
    BY <1>1 DEF Close, Begin, Ending
  <2> QED  BY <1>1, <2>1 DEF Close, Begin, Gate
<1>2. CASE Destroy(u)  BY <1>2 DEF Destroy, Begin
<1>3. CASE CloseDestroyed(u)  BY <1>3 DEF CloseDestroyed, Gate
<1>4. CASE AbortReader(u)  BY <1>4 DEF AbortReader
<1>5. CASE DropHalf(u)  BY <1>5 DEF DropHalf
<1>6. CASE Announce(u)  BY <1>6 DEF Announce, Emit
<1> QED  BY <1>1, <1>2, <1>3, <1>4, <1>5, <1>6 DEF Closing

LEMMA ReadingEnds ==
  ASSUME Parts, NEW c \in Conns, orderly', Reading(c) \/ PeerCloses(c)
  PROVE  OneCloser' /\ Fresh' /\ Announcing' /\ Owned'
<1> USE DEF Parts, TypeOK, Statements, Connected, Opens, Past, At, Goto, storedVars, eventVars, None,
            Alone, Staged, Whole, OneCloser, Fresh, Pending, Announcing, Owned
<1>1. CASE Receive(c)  BY <1>1 DEF Receive
<1>2. CASE Exit(c)
  <2>1. isOpen => c \notin aborted  BY <1>2 DEF Exit, ClosesLater
  <2> QED  BY <1>2, <2>1 DEF Exit, Emit
<1>3. CASE Stop(c)  BY <1>3 DEF Stop
<1>4. CASE PeerCloses(c)  BY <1>4 DEF PeerCloses
<1> QED  BY <1>1, <1>2, <1>3, <1>4 DEF Reading

LEMMA StaysOrderly == [Next]_vars /\ orderly' => orderly
BY DEF Next, vars, Opening, Closing, Reading, Open, CheckFlags, MarkOpening, Connect, ConnectFails,
       StoreHalf, StoreId, SpawnReader, StoreTask, StoreOpen, UnmarkOpening, Close, CloseDestroyed,
       Destroy, AbortReader, DropHalf, Announce, Receive, Exit, Stop, PeerCloses, Begin

LEMMA EndStep == TypeOK /\ SessionInv /\ EndInv /\ [Next]_vars => EndInv'
<1> SUFFICES ASSUME TypeOK, SessionInv, EndInv, [Next]_vars, orderly'
             PROVE  OneCloser' /\ Fresh' /\ Announcing' /\ Owned'
  BY DEF EndInv
<1>1. Parts  BY StaysOrderly DEF Parts, SessionInv, EndInv
<1>2. CASE UNCHANGED vars
  BY <1>1, <1>2 DEF vars, storedVars, eventVars, Parts, OneCloser, Fresh, Pending, Announcing, Owned
<1> QED  BY <1>1, <1>2, OpeningEnds, ClosingEnds, ReadingEnds DEF Next

LEMMA EndInvariant == Spec => [](TypeOK /\ SessionInv /\ EndInv)
<1>1. Init => SessionInv /\ EndInv
  BY DEF Init, SessionInv, Alone, Staged, Whole, Connected, Opens, Statements, EndInv, OneCloser, Fresh,
         Announcing, Owned, Past
<1> QED  BY <1>1, SessionStep, EndStep, TypeCorrect, PTL DEF Spec

\* A closed port has no read task left that nobody has told to stop.
THEOREM ReadersEnd == Spec => []NoReaderLeft
<1>1. TypeOK /\ EndInv => NoReaderLeft
  BY DEF TypeOK, EndInv, Owned, NoReaderLeft, Idle
<1> QED  BY <1>1, EndInvariant, PTL

\* Data of a connection that comes after its connection_close event comes from a read
\* task that close() has told to stop and that has not stopped yet.
THEOREM NoDataAfterClose == Spec => DataBeforeClose
<1> DEFINE Ordered(c) == received'[c] # received[c] => announced[c] = 0 \/ c \in aborted
<1>1. ASSUME TypeOK, SessionInv, EndInv, [Next]_vars, orderly', NEW c \in Conns  PROVE Ordered(c)
  <2> USE <1>1 DEF TypeOK
  <2>0. orderly  BY StaysOrderly
  <2>1. CASE Receive(c)
    <3>1. reader[c] = "reading"  BY <2>1 DEF Receive
    <3> QED  BY <3>1, <2>0 DEF EndInv, SessionInv, Owned, Fresh, Announcing, Pending, Past, Whole, Staged, Connected
  <2>2. ASSUME NEW d \in Conns, d # c, Receive(d)  PROVE received'[c] = received[c]
    BY <2>2 DEF Receive
  <2>3. ASSUME \A d \in Conns : ~Receive(d)  PROVE received' = received
    BY <2>3 DEF Next, vars, Opening, Closing, Reading, Open, CheckFlags, MarkOpening, Connect, ConnectFails,
           StoreHalf, StoreId, SpawnReader, StoreTask, StoreOpen, UnmarkOpening, Close, CloseDestroyed,
           Destroy, AbortReader, DropHalf, Announce, Exit, Stop, PeerCloses, Emit, Gate, eventVars
  <2> QED  BY <2>1, <2>2, <2>3
<1>2. TypeOK /\ SessionInv /\ EndInv /\ [Next]_vars =>
        [orderly' => \A c \in Conns : received'[c] # received[c] => announced[c] = 0 \/ c \in aborted]_vars
  BY <1>1
<1> QED  BY <1>2, EndInvariant, PTL DEF Spec, DataBeforeClose

-----------------------------------------------------------------------------
Ended == {c \in Conns : announced[c] = 1}

Counted == (\A c \in Conns : announced[c] <= 1) /\ closings = Cardinality(Ended)

\* An event for a connection that has had none counts one more.
LEMMA CountOne ==
  ASSUME TypeOK, Counted, NEW c \in Conns, announced[c] = 0, Emit(c)
  PROVE  Counted'
<1> USE DEF TypeOK
<1>1. IsFiniteSet(Ended)
  <2>1. IsFiniteSet(Conns)  BY FS_Interval, PortAssumption DEF Conns
  <2> QED  BY <2>1, FS_Subset DEF Ended
<1>2. Ended' = Ended \cup {c} /\ c \notin Ended  BY DEF Emit, Ended
<1>3. Cardinality(Ended') = Cardinality(Ended) + 1  BY <1>1, <1>2, FS_AddElement
<1>4. \A d \in Conns : announced'[d] <= 1  BY DEF Emit, Counted
<1>5. closings' = closings + 1  BY DEF Emit
<1> QED  BY <1>3, <1>4, <1>5 DEF Counted

\* Every end of a session is announced once, with one connection_close and one close event.
THEOREM EndsOnce == Spec => []SessionsEndOnce
<1> DEFINE Inv == orderly => Counted
<1>1. Init => Inv
  <2> SUFFICES ASSUME Init PROVE Counted  OBVIOUS
  <2>1. Ended = {}  BY DEF Init, Ended
  <2> QED  BY <2>1, FS_EmptySet DEF Init, Counted
<1>2. TypeOK /\ SessionInv /\ EndInv /\ Inv /\ [Next]_vars => Inv'
  <2> SUFFICES ASSUME TypeOK, SessionInv, EndInv, Inv, [Next]_vars, orderly'  PROVE Counted'
    OBVIOUS
  <2>0. orderly /\ Counted  BY StaysOrderly
  <2>1. ASSUME NEW u \in Users, Announce(u)  PROVE Counted'
    <3>1. connectionId \in Conns /\ announced[connectionId] = 0
      BY <2>0, <2>1 DEF Announce, At, EndInv, Announcing, Pending, Past, TypeOK
    <3> QED  BY <2>0, <2>1, <3>1, CountOne DEF Announce
  <2>2. ASSUME NEW c \in Conns, Exit(c), isOpen  PROVE Counted'
    <3>1. c = readTask
      <4>1. reader[c] = "reading" /\ c \notin aborted  BY <2>2 DEF Exit, ClosesLater
      <4> QED  BY <2>0, <2>2, <4>1 DEF EndInv, SessionInv, Owned, Alone, Statements
    <3>2. announced[c] = 0  BY <2>0, <2>2, <3>1 DEF EndInv, SessionInv, Announcing, Pending, Whole
    <3> QED  BY <2>0, <2>2, <3>2, CountOne DEF Exit
  <2>3. ASSUME UNCHANGED <<announced, closings>>  PROVE Counted'
    BY <2>0, <2>3 DEF Counted, Ended
  <2>4. CASE \/ \E u \in Users : Announce(u)
             \/ isOpen /\ \E c \in Conns : Exit(c)
    BY <2>1, <2>2, <2>4
  <2>5. CASE /\ \A u \in Users : ~Announce(u)
             /\ ~isOpen \/ \A c \in Conns : ~Exit(c)
    BY <2>3, <2>5 DEF Next, vars, Opening, Closing, Reading, Open, CheckFlags, MarkOpening, Connect,
         ConnectFails, StoreHalf, StoreId, SpawnReader, StoreTask, StoreOpen, UnmarkOpening, Close,
         CloseDestroyed, Destroy, AbortReader, DropHalf, Receive, Exit, Stop, PeerCloses, Gate, eventVars
  <2> QED  BY <2>4, <2>5
<1>3. Inv => SessionsEndOnce  BY DEF Counted, Ended, SessionsEndOnce
<1> QED  BY <1>1, <1>2, <1>3, EndInvariant, PTL DEF Spec
=============================================================================
