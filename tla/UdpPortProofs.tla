--------------------------- MODULE UdpPortProofs ----------------------------
(***************************************************************************)
(* For any number of users, sockets, addresses and datagrams, and however  *)
(* open(), close(), the receive tasks and the idle timers interleave: no   *)
(* connection is announced closed twice, each one in the map of a server   *)
(* has a timer that will evict it and no other that sleeps for it; a port  *)
(* that is closed and quiet has no connection and no receive task but      *)
(* those that an aborted task left; and nothing takes up the socket of a   *)
(* receive task again that close() has told to stop, but the writes and    *)
(* response closures it was lent to.                                       *)
(***************************************************************************)
EXTENDS UdpPort, TLAPS

TimerStates == {"none", "sleeping", "woken", "sending", "ended", "stopped"}

\* What a receive task holds in its states.
LEMMA ReaderKinds ==
  ASSUME TypeOK, NEW s \in Sessions
  PROVE  /\ reader[s].at = "holding" => reader[s].addr \in Addrs /\ reader[s].datagram \in Datagrams
         /\ reader[s].at = "sending" => reader[s].conn \in Conns
<1>1. reader[s] \in ReaderStates  BY DEF TypeOK
<1>2. CASE reader[s] \in [at : {"none", "reading", "failed", "drain", "announce", "exited", "stopped"}]
  BY <1>2
<1>3. CASE reader[s] \in [at : {"holding"}, addr : Addrs, datagram : Datagrams]
  BY <1>3
<1>4. CASE reader[s] \in [at : {"sending"}, conn : Conns]
  BY <1>4
<1> QED  BY <1>1, <1>2, <1>3, <1>4 DEF ReaderStates

\* abort() makes no timer sleep, wake or send.
LEMMA StopsOnly ==
  ASSUME NEW t \in Timers \cup {None}, timer \in [Timers -> TimerStates], NEW after \in Stopped(t)
  PROVE  /\ after \in [Timers -> TimerStates]
         /\ \A u \in Timers : /\ after[u] = "sending" <=> timer[u] = "sending"
                              /\ after[u] \in {"sleeping", "woken"} => timer[u] = after[u]
         /\ t # None => after[t] # "sleeping"
         /\ \A u \in Timers : u # t => after[u] = timer[u]
BY DEF Stopped, TimerStates

LEMMA AtTypes ==
  /\ \A step \in {"none", "reading", "failed", "drain", "announce", "exited", "stopped"} : At(step) \in ReaderStates
  /\ \A c \in Conns : [at |-> "sending", conn |-> c] \in ReaderStates
  /\ \A a \in Addrs, d \in Datagrams : [at |-> "holding", addr |-> a, datagram |-> d] \in ReaderStates
BY DEF At, ReaderStates

-----------------------------------------------------------------------------
(* Types *)

LEMMA UserTypes ==
  ASSUME TypeOK, NEW u \in Users,
         Open(u) \/ Close(u) \/ Destroy(u) \/ Opening(u)
  PROVE  TypeOK'
<1> USE DEF TypeOK, Statements, Step, Begin, Others, lentVars, mapVars, eventVars
<1>1. CASE Open(u)  BY <1>1 DEF Open
<1>3. CASE Close(u)  BY <1>3 DEF Close, Gate
<1>4. CASE Destroy(u)  BY <1>4 DEF Destroy
<1>5. CASE CheckFlags(u)  BY <1>5 DEF CheckFlags
<1>6. CASE MarkOpening(u)  BY <1>6 DEF MarkOpening
<1>7. CASE Bind(u)  BY <1>7 DEF Bind
<1>8. CASE BindFails(u)  BY <1>8 DEF BindFails
<1>9. CASE StoreSocket(u)  BY <1>9 DEF StoreSocket
<1>10. CASE ClearMap(u)  BY <1>10 DEF ClearMap
<1>11. CASE SpawnReader(u)
  <2>1. At("reading") \in ReaderStates  BY AtTypes
  <2> QED  BY <1>11, <2>1 DEF SpawnReader
<1>12. CASE StoreTask(u)  BY <1>12 DEF StoreTask
<1>13. CASE StoreOpen(u)  BY <1>13 DEF StoreOpen
<1>14. CASE UnmarkOpening(u)  BY <1>14 DEF UnmarkOpening
<1> QED  BY <1>1, <1>3, <1>4, <1>5, <1>6, <1>7, <1>8, <1>9, <1>10, <1>11, <1>12, <1>13, <1>14
         DEF Opening

LEMMA DrainTypes ==
  ASSUME TypeOK, NEW p \in Tasks, Drain(p)
  PROVE  /\ drained' \in [Tasks -> SUBSET Conns] /\ conns' \in [Addrs -> Conns \cup {None}]
         /\ UNCHANGED <<idleTimer, timer, target, received>>
<1>1. {conns[a] : a \in Addrs} \ {None} \in SUBSET Conns  BY DEF TypeOK
<1> QED  BY <1>1 DEF TypeOK, Drain

LEMMA AnnounceTypes ==
  ASSUME TypeOK, NEW p \in Tasks, NEW c \in Conns, Announce(p, c)
  PROVE  /\ drained' \in [Tasks -> SUBSET Conns] /\ timer' \in [Timers -> TimerStates]
         /\ announced' \in [Conns -> Nat]
         /\ UNCHANGED <<conns, idleTimer, target, received, closings, late, orderly>>
<1>1. idleTimer[c] \in Timers \cup {None}  BY DEF TypeOK
<1>2. timer' \in [Timers -> TimerStates]  BY <1>1, StopsOnly DEF TypeOK, TimerStates, Announce
<1> QED  BY <1>2 DEF TypeOK, Announce

LEMMA CloserTypes ==
  ASSUME TypeOK, NEW u \in Users, Closing(u)
  PROVE  TypeOK'
<1> USE DEF TypeOK, Statements, Step, Others, lentVars, mapVars, eventVars
<1>0. u \in Tasks  BY DEF Tasks
<1>2. CASE CloseDestroyed(u)  BY <1>2 DEF CloseDestroyed, Gate
<1>3. CASE AbortReader(u)  BY <1>3 DEF AbortReader
<1>4. CASE DropSocket(u)  BY <1>4 DEF DropSocket
<1>5. CASE DrainMap(u)  BY <1>0, <1>5, DrainTypes DEF DrainMap
<1>6. CASE AnnounceConn(u)
  <2>1. PICK c \in drained[u] : Announce(u, c)  BY <1>6 DEF AnnounceConn
  <2>2. c \in Conns  BY <1>0, <2>1
  <2> QED  BY <1>0, <1>6, <2>1, <2>2, AnnounceTypes DEF AnnounceConn, portVars, TimerStates
<1>7. CASE AnnounceClose(u)  BY <1>7 DEF AnnounceClose
<1> QED  BY <1>2, <1>3, <1>4, <1>5, <1>6, <1>7 DEF Closing

LEMMA EnsureEntryTypes ==
  ASSUME TypeOK, NEW s \in Sessions, EnsureEntry(s)
  PROVE  TypeOK'
<1> DEFINE a == reader[s].addr
           n == reader[s].datagram
           c == IF conns[a] = None THEN n ELSE conns[a]
<1>1. a \in Addrs /\ n \in Datagrams  BY ReaderKinds DEF EnsureEntry, Read
<1>2. c \in Conns /\ n \in Timers  BY <1>1 DEF TypeOK, Conns, Timers
<1>3. reader' \in [Sessions -> ReaderStates]
  <2>1. reader' = [reader EXCEPT ![s] = [at |-> "sending", conn |-> c]]  BY DEF EnsureEntry, Read
  <2> QED  BY <1>2, <2>1, AtTypes DEF TypeOK
<1>4. conns' \in [Addrs -> Conns \cup {None}]
  <2>1. conns' = [conns EXCEPT ![a] = c]  BY DEF EnsureEntry
  <2> QED  BY <1>2, <2>1 DEF TypeOK
<1>5. /\ timer' \in [Timers -> TimerStates]
      /\ idleTimer' \in [Conns -> Timers \cup {None}]
      /\ target' \in [Timers -> {NoTarget} \cup [addr : Addrs, conn : Conns]]
      /\ late' \subseteq Conns
  <2>0. late' \subseteq Conns
    <3>1. late' = IF s \in aborted THEN late \cup {c} ELSE late  BY DEF EnsureEntry, EnteredLate
    <3> QED  BY <1>2, <3>1 DEF TypeOK
  <2>1. CASE kind = "server"
    <3>1. PICK stopped \in Stopped(idleTimer[c]) : timer' = [stopped EXCEPT ![n] = "sleeping"]
      BY <2>1 DEF EnsureEntry
    <3>2. stopped \in [Timers -> TimerStates]  BY <1>2, <3>1, StopsOnly DEF TypeOK, TimerStates
    <3>3. timer' \in [Timers -> TimerStates]  BY <1>2, <3>1, <3>2 DEF TimerStates
    <3>4. idleTimer' = [idleTimer EXCEPT ![c] = n]  BY <2>1 DEF EnsureEntry
    <3>5. target' = [target EXCEPT ![n] = [addr |-> a, conn |-> c]]  BY <2>1 DEF EnsureEntry
    <3> HIDE DEF a, n, c
    <3> QED  BY <1>1, <1>2, <2>0, <3>3, <3>4, <3>5 DEF TypeOK
  <2>2. CASE kind # "server"  BY <2>0, <2>2 DEF EnsureEntry, TypeOK, TimerStates
  <2> QED  BY <2>1, <2>2
<1> QED  BY <1>3, <1>4, <1>5 DEF EnsureEntry, TypeOK, TimerStates, portVars, lentVars

LEMMA ReaderTypes ==
  ASSUME TypeOK, NEW s \in Sessions, Arrive(s) \/ SocketFails(s) \/ Running(s)
  PROVE  TypeOK'
<1> USE AtTypes DEF TypeOK, Read, portVars, lentVars, mapVars, eventVars
<1>0. s \in Tasks  BY DEF Tasks
<1>1. CASE Arrive(s)
  <2>1. received' \in 0 .. MaxDatagrams /\ received' \in Datagrams
    BY <1>1, UdpAssumption DEF Arrive, Datagrams
  <2> QED  BY <1>1, <2>1 DEF Arrive
<1>2. CASE SocketFails(s)  BY <1>2 DEF SocketFails
<1>3. CASE EnsureEntry(s)  BY <1>3, EnsureEntryTypes
<1>4. CASE Deliver(s)  BY <1>4 DEF Deliver
<1>5. CASE Exit(s)
  <2>1. reader' \in [Sessions -> ReaderStates]  BY <1>5 DEF Exit
  <2>2. isOpen' \in BOOLEAN /\ orderly' \in BOOLEAN  BY <1>5 DEF Exit
  <2> QED  BY <1>5, <2>1, <2>2 DEF Exit
<1>6. CASE DrainExited(s)  BY <1>0, <1>6, DrainTypes DEF DrainExited
<1>7. CASE AnnounceExited(s)
  <2>1. PICK c \in drained[s] : Announce(s, c)  BY <1>7 DEF AnnounceExited
  <2>2. c \in Conns  BY <1>0, <2>1
  <2> QED  BY <1>0, <1>7, <2>1, <2>2, AnnounceTypes DEF AnnounceExited, TimerStates
<1>8. CASE Finish(s)
  <2>1. reader' \in [Sessions -> ReaderStates]  BY <1>8 DEF Finish
  <2>2. closings' \in Nat  BY <1>8 DEF Finish
  <2> QED  BY <1>8, <2>1, <2>2 DEF Finish
<1>9. CASE Stop(s)  BY <1>9 DEF Stop
<1> QED  BY <1>1, <1>2, <1>3, <1>4, <1>5, <1>6, <1>7, <1>8, <1>9 DEF Running

LEMMA TimerTypes ==
  ASSUME TypeOK, NEW t \in Timers, Timing(t)
  PROVE  TypeOK'
<1> USE DEF TypeOK, TimerOnly, portVars, lentVars
<1>1. CASE Wake(t)  BY <1>1 DEF Wake
<1>2. CASE Remove(t)  BY <1>2 DEF Remove
<1>3. CASE Evict(t)
  <2>1. ASSUME NEW k  PROVE [announced EXCEPT ![k] = @ + 1] \in [Conns -> Nat]
    <3>1. CASE k \in Conns  BY <3>1
    <3>2. CASE k \notin Conns
      <4>1. [announced EXCEPT ![k] = @ + 1] = announced  BY <3>2
      <4> QED  BY <4>1
    <3> QED  BY <3>1, <3>2
  <2>2. announced' \in [Conns -> Nat]  BY <1>3, <2>1 DEF Evict
  <2>3. timer' \in [Timers -> {"none", "sleeping", "woken", "sending", "ended", "stopped"}]  BY <1>3 DEF Evict
  <2> QED  BY <1>3, <2>2, <2>3 DEF Evict
<1> QED  BY <1>1, <1>2, <1>3 DEF Timing

LEMMA WriteTypes ==
  ASSUME TypeOK, (\E w \in Writers : Write(w) \/ TakeSocket(w)) \/ \E s \in Sessions : LetGo(s)
  PROVE  TypeOK'
<1> USE DEF TypeOK, WriteOnly, portVars, mapVars, eventVars
<1>1. ASSUME NEW w \in Writers, Write(w) \/ TakeSocket(w)  PROVE TypeOK'  BY <1>1 DEF Write, TakeSocket
<1>2. ASSUME NEW s \in Sessions, LetGo(s)  PROVE TypeOK'  BY <1>2 DEF LetGo
<1> QED  BY <1>1, <1>2

\* write() and what is lent have no part in the rest of the port.
LEMMA WriteChanges ==
  ASSUME (\E w \in Writers : Write(w) \/ TakeSocket(w)) \/ \E s \in Sessions : LetGo(s)
  PROVE  WriteOnly
BY DEF Write, TakeSocket, LetGo

LEMMA TypeStep == TypeOK /\ [Next]_vars => TypeOK'
<1> SUFFICES ASSUME TypeOK, [Next]_vars PROVE TypeOK'  OBVIOUS
<1>1. CASE UNCHANGED vars  BY <1>1 DEF vars, portVars, lentVars, mapVars, eventVars, TypeOK
<1> QED  BY <1>1, UserTypes, CloserTypes, WriteTypes, ReaderTypes, TimerTypes DEF Next

\* Every variable keeps its type, however the calls, the receive tasks and the timers interleave.
THEOREM TypeCorrect == Spec => []TypeOK
<1>1. Init => TypeOK
  <2> SUFFICES ASSUME Init PROVE TypeOK  OBVIOUS
  <2>1. reader \in [Sessions -> ReaderStates]  BY AtTypes DEF Init
  <2>2. 0 \in 0 .. MaxDatagrams  BY UdpAssumption
  <2> QED  BY <2>1, <2>2 DEF Init, TypeOK, Statements, NoTarget, None
<1> QED  BY <1>1, TypeStep, PTL DEF Spec

-----------------------------------------------------------------------------
(* A connection is in one place: in the map, drained by one task, or with one timer *)

\* Nobody has, or has had, a connection of that name.
New(c) == announced[c] = 0 /\ ~InMap(c) /\ ~Taken(c) /\ \A t \in Timers : target[t].conn # c

FreshNames ==
  /\ \A c \in Conns : c > received => New(c)
  /\ \A s \in Sessions : reader[s].at = "holding" =>
       /\ reader[s].datagram <= received
       /\ New(reader[s].datagram)
       /\ \A r \in Sessions : reader[r].at = "holding" /\ reader[r].datagram = reader[s].datagram => r = s

OnePlace ==
  /\ \A a, b \in Addrs : conns[a] = conns[b] /\ conns[a] # None => a = b
  /\ \A c \in Conns : InMap(c) => ~Taken(c)
  /\ \A p, q \in Tasks : \A c \in Conns : c \in drained[p] /\ c \in drained[q] => p = q
  /\ \A p \in Tasks, t \in Timers : timer[t] = "sending" => target[t].conn \notin drained[p]
  /\ \A t, u \in Timers : timer[t] = "sending" /\ timer[u] = "sending" /\ target[t].conn = target[u].conn => t = u

\* A timer that runs has a connection to evict.
Aimed == \A t \in Timers : timer[t] \in {"sleeping", "woken", "sending"} => target[t] \in [addr : Addrs, conn : Conns]

MapInv == FreshNames /\ OnePlace /\ Aimed /\ ConnectionsEndOnce

\* What the connections depend on.
LEMMA MapFrame ==
  ASSUME TypeOK, MapInv, UNCHANGED <<conns, target, timer, received, drained, announced>>,
         \A s \in Sessions : reader'[s].at = "holding" => reader'[s] = reader[s]
  PROVE  MapInv'
BY DEF MapInv, FreshNames, OnePlace, Aimed, ConnectionsEndOnce, New, InMap, Taken

LEMMA DrainMoves ==
  ASSUME TypeOK, MapInv, NEW p \in Tasks, Drain(p), UNCHANGED announced,
         \A s \in Sessions : reader'[s].at = "holding" => reader'[s] = reader[s]
  PROVE  MapInv'
<1>1. drained' = [drained EXCEPT ![p] = {conns[a] : a \in Addrs} \ {None}]
  BY DEF Drain
<1>2. \A c \in Conns : ~InMap(c)'  BY DEF Drain, InMap, Conns, Datagrams, None
<1>3. \A c \in Conns : Taken(c)' => Taken(c) \/ InMap(c)  BY <1>1 DEF Drain, Taken, InMap, TypeOK
<1>4. \A c \in Conns : New(c) => New(c)'  BY <1>2, <1>3 DEF New, Drain
<1>5. FreshNames'
  <2>1. \A c \in Conns : c > received' => New(c)'  BY <1>4 DEF Drain, MapInv, FreshNames
  <2>2. \A s \in Sessions : reader[s].at = "holding" => reader[s].datagram \in Conns
    BY ReaderKinds DEF Conns
  <2> QED  BY <1>4, <2>1, <2>2 DEF Drain, MapInv, FreshNames
<1>6. OnePlace'
  <2>1. \A a \in Addrs : conns'[a] = None  BY DEF Drain
  <2>2. \A q \in Tasks : q # p => drained'[q] = drained[q]  BY <1>1 DEF TypeOK
  <2>3. \A c \in Conns : c \in drained'[p] => InMap(c)  BY <1>1 DEF TypeOK, InMap
  <2>4. \A c \in Conns : InMap(c) => ~Taken(c)  BY DEF MapInv, OnePlace
  <2>5. UNCHANGED <<timer, target>>  BY DEF Drain
  <2>6. \A q, r \in Tasks : \A c \in Conns : c \in drained'[q] /\ c \in drained'[r] => q = r
    BY <2>2, <2>3, <2>4 DEF MapInv, OnePlace, Taken
  <2>7. \A q \in Tasks, t \in Timers : timer'[t] = "sending" => target'[t].conn \notin drained'[q]
    <3> SUFFICES ASSUME NEW q \in Tasks, NEW t \in Timers, timer[t] = "sending"
                 PROVE target[t].conn \notin drained'[q]
      BY <2>5
    <3>1. target[t].conn \in Conns  BY DEF MapInv, Aimed
    <3> QED  BY <2>2, <2>3, <2>4, <3>1 DEF MapInv, OnePlace, Taken
  <2> QED  BY <1>2, <2>1, <2>5, <2>6, <2>7 DEF OnePlace, MapInv
<1>7. Aimed'  BY DEF Drain, Aimed, MapInv
<1>8. ConnectionsEndOnce'  BY <1>2, <1>3 DEF ConnectionsEndOnce, MapInv
<1> QED  BY <1>5, <1>6, <1>7, <1>8 DEF MapInv

LEMMA AnnounceMoves ==
  ASSUME TypeOK, MapInv, NEW p \in Tasks, NEW c \in Conns, Announce(p, c), UNCHANGED reader
  PROVE  MapInv'
<1>1. idleTimer[c] \in Timers \cup {None}  BY DEF TypeOK
<1>2. \A u \in Timers : /\ timer'[u] = "sending" <=> timer[u] = "sending"
                        /\ timer'[u] \in {"sleeping", "woken"} => timer[u] = timer'[u]
  BY <1>1, StopsOnly DEF TypeOK, TimerStates, Announce
<1>3. UNCHANGED <<conns, target, received>>  BY DEF Announce
<1>4. drained' = [drained EXCEPT ![p] = @ \ {c}] /\ c \in drained[p]  BY DEF Announce
<1>5. announced' = [announced EXCEPT ![c] = @ + 1]  BY DEF Announce
<1>6. Taken(c) /\ ~InMap(c)  BY <1>4 DEF Taken, MapInv, OnePlace
<1>7. ~Taken(c)' /\ ~InMap(c)'
  <2>1. ~InMap(c)'  BY <1>3, <1>6 DEF InMap
  <2>2. \A q \in Tasks : c \notin drained'[q]  BY <1>4 DEF TypeOK, MapInv, OnePlace
  <2>3. \A t \in Timers : timer[t] = "sending" => target[t].conn # c  BY <1>4 DEF MapInv, OnePlace
  <2> QED  BY <1>2, <1>3, <2>1, <2>2, <2>3 DEF Taken
<1>8. \A d \in Conns : d # c => (Taken(d)' <=> Taken(d)) /\ (InMap(d)' <=> InMap(d)) /\ announced'[d] = announced[d]
  BY <1>2, <1>3, <1>4, <1>5 DEF Taken, InMap, TypeOK
<1>9. \A d \in Conns : New(d) => New(d)'
  <2>1. \A d \in Conns : New(d) => d # c  BY <1>6 DEF New
  <2> QED  BY <1>3, <1>8, <2>1 DEF New
<1>10. FreshNames'
  <2>1. \A s \in Sessions : reader[s].at = "holding" => reader[s].datagram \in Conns
    BY ReaderKinds DEF Conns
  <2> QED  BY <1>3, <1>9, <2>1 DEF FreshNames, MapInv
<1>11. OnePlace'
  <2>1. \A q \in Tasks : drained'[q] \subseteq drained[q]  BY <1>4 DEF TypeOK
  <2>2. \A d \in Conns : InMap(d)' => ~Taken(d)'  BY <1>7, <1>8 DEF MapInv, OnePlace
  <2> QED  BY <1>2, <1>3, <2>1, <2>2 DEF OnePlace, MapInv
<1>12. Aimed'  BY <1>2, <1>3 DEF Aimed, MapInv
<1>13. ConnectionsEndOnce'
  <2>1. announced[c] = 0  BY <1>6 DEF MapInv, ConnectionsEndOnce
  <2>2. announced'[c] = 1  BY <1>5, <2>1 DEF TypeOK
  <2> QED  BY <1>7, <1>8, <2>2 DEF ConnectionsEndOnce, MapInv
<1> QED  BY <1>10, <1>11, <1>12, <1>13 DEF MapInv

LEMMA ArriveMoves ==
  ASSUME TypeOK, MapInv, NEW s \in Sessions, Arrive(s)
  PROVE  MapInv'
<1>1. received' = received + 1 /\ received' \in Conns /\ received \in Nat
  BY UdpAssumption DEF Arrive, TypeOK, Conns, Datagrams
<1>2. UNCHANGED <<conns, target, timer, drained, announced>>  BY DEF Arrive, eventVars
<1>3. PICK a \in Addrs : Read(s, "reading", [at |-> "holding", addr |-> a, datagram |-> received'])
  BY DEF Arrive
<1>4. /\ reader'[s].datagram = received'
      /\ \A r \in Sessions : r # s => reader'[r] = reader[r]
  BY <1>3 DEF Read, TypeOK
<1>5. \A c \in Conns : New(c) => New(c)'  BY <1>2 DEF New, InMap, Taken
<1>6. New(received')  BY <1>1 DEF MapInv, FreshNames
<1>7. FreshNames'
  <2>1. \A c \in Conns : c > received' => New(c)'
    BY <1>1, <1>5 DEF MapInv, FreshNames, Conns, Datagrams
  <2>2. \A r \in Sessions : reader[r].at = "holding" => reader[r].datagram \in Conns /\ reader[r].datagram <= received
    BY ReaderKinds DEF Conns, MapInv, FreshNames
  <2>3. \A r \in Sessions : reader[r].at = "holding" => reader[r].datagram # received'
    BY <1>1, <2>2 DEF Conns, Datagrams
  <2>4. \A r \in Sessions : reader'[r].at = "holding" =>
           reader'[r].datagram <= received' /\ reader'[r].datagram \in Conns /\ New(reader'[r].datagram)
    BY <1>1, <1>4, <1>6, <2>2 DEF MapInv, FreshNames, Conns, Datagrams
  <2> QED  BY <1>4, <1>5, <2>1, <2>3, <2>4 DEF FreshNames, MapInv
<1> QED  BY <1>2, <1>7 DEF MapInv, OnePlace, Aimed, ConnectionsEndOnce, InMap, Taken

\* The entry that ensure_entry finds or makes.
EntryOf(s) == IF conns[reader[s].addr] = None THEN reader[s].datagram ELSE conns[reader[s].addr]

\* The timer of the entry is replaced, and no other one is touched.
LEMMA EnsureEntryTimers ==
  ASSUME TypeOK, NEW s \in Sessions, EnsureEntry(s)
  PROVE  /\ EntryOf(s) \in Conns
         /\ \A t \in Timers : timer'[t] = "sending" => timer[t] = "sending" /\ target'[t] = target[t]
         /\ \A t \in Timers : \/ target'[t] = target[t]
                              \/ target'[t] = [addr |-> reader[s].addr, conn |-> EntryOf(s)]
         /\ \A t \in Timers : timer'[t] \in {"sleeping", "woken"} =>
              \/ timer[t] = timer'[t] /\ target'[t] = target[t]
              \/ target'[t] = [addr |-> reader[s].addr, conn |-> EntryOf(s)]
         /\ kind = "server" =>
              /\ idleTimer' = [idleTimer EXCEPT ![EntryOf(s)] = reader[s].datagram]
              /\ reader[s].datagram \in Timers
              /\ \A t \in Timers : timer'[t] = "sleeping" /\ t # reader[s].datagram =>
                   timer[t] = "sleeping" /\ target'[t] = target[t] /\ t # idleTimer[EntryOf(s)]
              /\ timer'[reader[s].datagram] = "sleeping"
              /\ target'[reader[s].datagram] = [addr |-> reader[s].addr, conn |-> EntryOf(s)]
              /\ \A t \in Timers : t # reader[s].datagram => target'[t] = target[t]
              /\ \A t \in Timers : t # reader[s].datagram /\ t # idleTimer[EntryOf(s)] => timer'[t] = timer[t]
<1> DEFINE a == reader[s].addr
           n == reader[s].datagram
           c == EntryOf(s)
<1>1. a \in Addrs /\ n \in Timers  BY ReaderKinds DEF EnsureEntry, Read, Timers
<1>2. c \in Conns  BY <1>1 DEF TypeOK, EntryOf, Conns, Timers
<1>3. CASE kind = "server"
  <2>1. PICK stopped \in Stopped(idleTimer[c]) : timer' = [stopped EXCEPT ![n] = "sleeping"]
    BY <1>3 DEF EnsureEntry, EntryOf
  <2>2. idleTimer' = [idleTimer EXCEPT ![c] = n] /\ target' = [target EXCEPT ![n] = [addr |-> a, conn |-> c]]
    BY <1>3 DEF EnsureEntry, EntryOf
  <2>3. idleTimer[c] \in Timers \cup {None}  BY <1>2 DEF TypeOK
  <2>4. /\ stopped \in [Timers -> TimerStates]
        /\ \A u \in Timers : /\ stopped[u] = "sending" <=> timer[u] = "sending"
                             /\ stopped[u] \in {"sleeping", "woken"} => timer[u] = stopped[u]
        /\ idleTimer[c] # None => stopped[idleTimer[c]] # "sleeping"
        /\ \A u \in Timers : u # idleTimer[c] => stopped[u] = timer[u]
    BY <2>1, <2>3, StopsOnly DEF TypeOK, TimerStates
  <2>5. \A t \in Timers : t # n => timer'[t] = stopped[t] /\ target'[t] = target[t]
    BY <2>1, <2>2, <2>4 DEF TypeOK
  <2>6. timer'[n] = "sleeping" /\ target'[n] = [addr |-> a, conn |-> c]
    BY <1>1, <2>1, <2>2, <2>4 DEF TypeOK
  <2>7. None \notin Timers  BY DEF None, Timers, Datagrams
  <2> HIDE DEF a, n, c
  <2>8. \A t \in Timers : timer'[t] = "sleeping" /\ t # n =>
           timer[t] = "sleeping" /\ target'[t] = target[t] /\ t # idleTimer[c]
    BY <2>4, <2>5, <2>7
  <2> QED  BY <1>1, <1>2, <2>2, <2>4, <2>5, <2>6, <2>8 DEF a, n, c
<1>4. CASE kind # "server"  BY <1>2, <1>4 DEF EnsureEntry
<1> QED  BY <1>3, <1>4

LEMMA EnsureEntryMoves ==
  ASSUME TypeOK, MapInv, NEW s \in Sessions, EnsureEntry(s)
  PROVE  MapInv'
<1> DEFINE a == reader[s].addr
           n == reader[s].datagram
           c == EntryOf(s)
<1>1. a \in Addrs /\ n \in Conns  BY ReaderKinds DEF EnsureEntry, Read, Conns
<1>2. c \in Conns  BY EnsureEntryTimers
<1>3. New(n) /\ n <= received  BY DEF EnsureEntry, Read, MapInv, FreshNames
<1>4. c = n \/ (conns[a] = c /\ InMap(c))
  <2>1. CASE conns[a] = None  BY <2>1 DEF EntryOf
  <2>2. CASE conns[a] # None
    <3>1. c = conns[a]  BY <2>2 DEF EntryOf
    <3> HIDE DEF a, c
    <3> QED  BY <1>1, <3>1 DEF InMap
  <2> QED  BY <2>1, <2>2
<1>5. conns' = [conns EXCEPT ![a] = c]  BY DEF EnsureEntry, EntryOf
<1>6. UNCHANGED <<received, drained, announced>>  BY DEF EnsureEntry
<1>7. /\ reader'[s].at = "sending"
      /\ \A r \in Sessions : r # s => reader'[r] = reader[r]
  BY DEF EnsureEntry, Read, TypeOK
<1>8. \A d \in Conns : Taken(d)' => Taken(d)  BY <1>6, EnsureEntryTimers DEF Taken
<1>9. \A d \in Conns : InMap(d)' => InMap(d) \/ d = c  BY <1>1, <1>5 DEF InMap, TypeOK
<1>10. ~Taken(c) /\ announced[c] = 0
  BY <1>2, <1>3, <1>4 DEF New, MapInv, OnePlace, ConnectionsEndOnce
<1>11. \A d \in Conns : New(d) /\ d # c => New(d)'
  <2>1. \A t \in Timers : target'[t].conn = target[t].conn \/ target'[t].conn = c
    <3>1. \A t \in Timers : target'[t] = target[t] \/ target'[t] = [addr |-> a, conn |-> c]
      BY EnsureEntryTimers
    <3> QED  BY <3>1
  <2> QED  BY <1>6, <1>8, <1>9, <2>1 DEF New
<1>12. FreshNames'
  <2>1. \A d \in Conns : d > received => d # c
    <3>1. \A d \in Conns : d > received => d # n  BY <1>1, <1>3, UdpAssumption DEF TypeOK, Conns, Datagrams
    <3> QED  BY <1>4, <3>1 DEF MapInv, FreshNames, New
  <2>2. ASSUME NEW r \in Sessions, reader[r].at = "holding", r # s
        PROVE  reader[r].datagram \in Conns /\ reader[r].datagram # c
    <3>1. reader[r].datagram # n  BY <2>2 DEF EnsureEntry, Read, MapInv, FreshNames
    <3> QED  BY <1>4, <2>2, <3>1, ReaderKinds DEF MapInv, FreshNames, New, Conns
  <2> QED  BY <1>6, <1>7, <1>11, <2>1, <2>2 DEF FreshNames, MapInv
<1>13. OnePlace'
  <2>1. \A x, y \in Addrs : conns'[x] = conns'[y] /\ conns'[x] # None => x = y
    BY <1>1, <1>3, <1>4, <1>5 DEF TypeOK, New, InMap, MapInv, OnePlace
  <2>2. \A d \in Conns : InMap(d)' => ~Taken(d)'  BY <1>8, <1>9, <1>10 DEF MapInv, OnePlace
  <2>0. \A t \in Timers : timer'[t] = "sending" => timer[t] = "sending" /\ target'[t] = target[t]
    BY EnsureEntryTimers
  <2>3. \A p \in Tasks, t \in Timers : timer'[t] = "sending" => target'[t].conn \notin drained'[p]
    BY <1>6, <2>0 DEF MapInv, OnePlace
  <2>4. \A t, u \in Timers :
          timer'[t] = "sending" /\ timer'[u] = "sending" /\ target'[t].conn = target'[u].conn => t = u
    BY <2>0 DEF MapInv, OnePlace
  <2> QED  BY <1>6, <2>1, <2>2, <2>3, <2>4 DEF OnePlace, MapInv
<1>14. Aimed'
  <2>1. [addr |-> a, conn |-> c] \in [addr : Addrs, conn : Conns]  BY <1>1, <1>2
  <2>2. \A t \in Timers : timer'[t] = "sending" => timer[t] = "sending" /\ target'[t] = target[t]
    BY EnsureEntryTimers
  <2>3. \A t \in Timers : timer'[t] \in {"sleeping", "woken"} =>
          (timer[t] = timer'[t] /\ target'[t] = target[t]) \/ target'[t] = [addr |-> a, conn |-> c]
    BY EnsureEntryTimers
  <2> QED  BY <2>1, <2>2, <2>3 DEF Aimed, MapInv
<1>15. ConnectionsEndOnce'  BY <1>6, <1>8, <1>9, <1>10 DEF ConnectionsEndOnce, MapInv
<1> QED  BY <1>12, <1>13, <1>14, <1>15 DEF MapInv

LEMMA TimerMoves ==
  ASSUME TypeOK, MapInv, NEW t \in Timers, Timing(t)
  PROVE  MapInv'
<1> USE DEF TimerOnly, portVars
<1>1. CASE Wake(t)
  <2>1. \A d \in Conns : (Taken(d)' <=> Taken(d)) /\ (InMap(d)' <=> InMap(d))
    BY <1>1 DEF Wake, Taken, InMap, TypeOK
  <2>2. \A d \in Conns : New(d)' <=> New(d)  BY <1>1, <2>1 DEF New, Wake
  <2>3. \A s \in Sessions : reader[s].at = "holding" => reader[s].datagram \in Conns
    BY ReaderKinds DEF Conns
  <2>4. FreshNames'  BY <1>1, <2>2, <2>3 DEF FreshNames, Wake, MapInv
  <2>5. OnePlace'  BY <1>1, <2>1 DEF OnePlace, Wake, MapInv, TypeOK
  <2>6. Aimed'  BY <1>1 DEF Aimed, Wake, MapInv, TypeOK
  <2> QED  BY <1>1, <2>1, <2>4, <2>5, <2>6 DEF MapInv, ConnectionsEndOnce, Wake
<1>2. CASE Remove(t)
  <2>1. PICK a \in Addrs, c \in Conns : target[t].addr = a /\ target[t].conn = c
    BY <1>2 DEF Remove, MapInv, Aimed
  <2>2. CASE conns[a] = c
    <3>1. conns' = [conns EXCEPT ![a] = None] /\ timer' = [timer EXCEPT ![t] = "sending"]
      BY <1>2, <2>1, <2>2 DEF Remove
    <3>2. UNCHANGED <<target, received, drained, announced, reader>>  BY <1>2 DEF Remove
    <3>3. None \notin Conns  BY DEF None, Conns, Datagrams
    <3>0. \A x \in Addrs : conns'[x] = IF x = a THEN None ELSE conns[x]  BY <3>1 DEF TypeOK
    <3>4. InMap(c) /\ ~InMap(c)'
      <4>1. \A x \in Addrs : conns[x] = c => x = a  BY <2>1, <2>2, <3>3 DEF MapInv, OnePlace
      <4> QED  BY <2>1, <2>2, <3>0, <3>3, <4>1 DEF InMap
    <3>5. \A d \in Conns : d # c => (Taken(d)' <=> Taken(d)) /\ (InMap(d)' <=> InMap(d))
      BY <2>1, <2>2, <3>1, <3>2, <3>3, <1>2 DEF Taken, InMap, TypeOK, Remove
    <3>6. \A d \in Conns : New(d) => New(d)'  BY <3>2, <3>4, <3>5 DEF New
    <3>7. \A s \in Sessions : reader[s].at = "holding" => reader[s].datagram \in Conns
      BY ReaderKinds DEF Conns
    <3>8. FreshNames'  BY <3>2, <3>6, <3>7 DEF FreshNames, MapInv
    <3>9. ~Taken(c)  BY <3>4 DEF MapInv, OnePlace
    <3>10. OnePlace'
      <4>1. \A x, y \in Addrs : conns'[x] = conns'[y] /\ conns'[x] # None => x = y
        BY <3>0 DEF MapInv, OnePlace
      <4>2. \A d \in Conns : InMap(d)' => ~Taken(d)'  BY <3>4, <3>5 DEF MapInv, OnePlace
      <4>3. \A p \in Tasks, u \in Timers : timer'[u] = "sending" => target'[u].conn \notin drained'[p]
        BY <2>1, <3>1, <3>2, <3>9 DEF MapInv, OnePlace, Taken, TypeOK
      <4>4. \A u, v \in Timers :
              timer'[u] = "sending" /\ timer'[v] = "sending" /\ target'[u].conn = target'[v].conn => u = v
        BY <2>1, <3>1, <3>2, <3>9 DEF MapInv, OnePlace, Taken, TypeOK
      <4> QED  BY <3>2, <4>1, <4>2, <4>3, <4>4 DEF OnePlace, MapInv
    <3>11. Aimed'  BY <1>2, <3>1, <3>2 DEF Aimed, MapInv, TypeOK, Remove
    <3>12. announced[c] = 0  BY <2>1, <3>4 DEF MapInv, ConnectionsEndOnce
    <3> QED  BY <3>2, <3>5, <3>8, <3>10, <3>11, <3>12 DEF MapInv, ConnectionsEndOnce
  <2>3. CASE conns[a] # c
    <3>1. timer' = [timer EXCEPT ![t] = "ended"] /\ timer[t] = "woken"  BY <1>2, <2>1, <2>3 DEF Remove
    <3>2. UNCHANGED <<conns, target, received, drained, announced, reader>>  BY <1>2, <2>1, <2>3 DEF Remove
    <3>3. \A d \in Conns : (Taken(d)' <=> Taken(d)) /\ (InMap(d)' <=> InMap(d))
      BY <3>1, <3>2 DEF Taken, InMap, TypeOK
    <3>4. \A d \in Conns : New(d)' <=> New(d)  BY <3>2, <3>3 DEF New
    <3>5. \A s \in Sessions : reader[s].at = "holding" => reader[s].datagram \in Conns
      BY ReaderKinds DEF Conns
    <3>6. FreshNames'  BY <3>2, <3>4, <3>5 DEF FreshNames, MapInv
    <3>7. OnePlace'  BY <3>1, <3>2, <3>3 DEF OnePlace, MapInv, TypeOK
    <3>8. Aimed'  BY <3>1, <3>2 DEF Aimed, MapInv, TypeOK
    <3> QED  BY <3>2, <3>3, <3>6, <3>7, <3>8 DEF MapInv, ConnectionsEndOnce
  <2> QED  BY <2>2, <2>3
<1>3. CASE Evict(t)
  <2>0. timer[t] = "sending"  BY <1>3 DEF Evict
  <2>1. PICK c \in Conns : target[t].conn = c  BY <2>0 DEF MapInv, Aimed
  <2>2. timer' = [timer EXCEPT ![t] = "ended"] /\ announced' = [announced EXCEPT ![c] = @ + 1]
    BY <1>3, <2>1 DEF Evict
  <2>3. UNCHANGED <<conns, target, received, drained, reader>>  BY <1>3 DEF Evict
  <2>4. Taken(c) /\ ~InMap(c)  BY <2>0, <2>1 DEF Taken, MapInv, OnePlace
  <2>5. ~Taken(c)' /\ ~InMap(c)'
    BY <2>0, <2>1, <2>2, <2>3, <2>4 DEF Taken, InMap, TypeOK, MapInv, OnePlace
  <2>6. \A d \in Conns : d # c => (Taken(d)' <=> Taken(d)) /\ (InMap(d)' <=> InMap(d)) /\ announced'[d] = announced[d]
    BY <2>1, <2>2, <2>3 DEF Taken, InMap, TypeOK
  <2>7. \A d \in Conns : New(d) => New(d)'
    <3>1. \A d \in Conns : New(d) => d # c  BY <2>4 DEF New
    <3> QED  BY <2>3, <2>6, <3>1 DEF New
  <2>8. \A s \in Sessions : reader[s].at = "holding" => reader[s].datagram \in Conns
    BY ReaderKinds DEF Conns
  <2>9. FreshNames'  BY <2>3, <2>7, <2>8 DEF FreshNames, MapInv
  <2>10. OnePlace'
    <3>1. \A d \in Conns : InMap(d)' => ~Taken(d)'  BY <2>5, <2>6 DEF MapInv, OnePlace
    <3>2. \A u \in Timers : timer'[u] = "sending" => timer[u] = "sending"  BY <2>2 DEF TypeOK
    <3> QED  BY <2>3, <3>1, <3>2 DEF OnePlace, MapInv
  <2>11. Aimed'  BY <2>2, <2>3 DEF Aimed, MapInv, TypeOK
  <2>12. ConnectionsEndOnce'
    <3>1. announced[c] = 0  BY <2>1, <2>4 DEF MapInv, ConnectionsEndOnce
    <3>2. announced'[c] = 1  BY <2>1, <2>2, <3>1 DEF TypeOK
    <3> QED  BY <2>5, <2>6, <3>2 DEF ConnectionsEndOnce, MapInv
  <2> QED  BY <2>9, <2>10, <2>11, <2>12 DEF MapInv
<1> QED  BY <1>1, <1>2, <1>3 DEF Timing

LEMMA MapStep == TypeOK /\ MapInv /\ [Next]_vars => MapInv'
<1> SUFFICES ASSUME TypeOK, MapInv, [Next]_vars  PROVE MapInv'  OBVIOUS
<1>1. ASSUME NEW u \in Users, Open(u) \/ Close(u) \/ Destroy(u)  PROVE MapInv'
  BY <1>1, MapFrame DEF Open, Close, Destroy, Gate, mapVars, eventVars
<1>2. ASSUME NEW u \in Users, Opening(u)  PROVE MapInv'
  <2>1. CASE ClearMap(u)
    <3>1. \A a \in Addrs : conns'[a] = None  BY <2>1 DEF ClearMap
    <3>2. UNCHANGED <<target, timer, received, drained, announced, reader>>  BY <2>1 DEF ClearMap, eventVars
    <3>3. \A c \in Conns : ~InMap(c)'  BY <3>1 DEF InMap, Conns, Datagrams, None
    <3>4. \A c \in Conns : Taken(c)' <=> Taken(c)  BY <3>2 DEF Taken
    <3>5. \A c \in Conns : New(c) => New(c)'  BY <3>2, <3>3, <3>4 DEF New
    <3>6. \A s \in Sessions : reader[s].at = "holding" => reader[s].datagram \in Conns
      BY ReaderKinds DEF Conns
    <3>7. FreshNames'  BY <3>2, <3>5, <3>6 DEF MapInv, FreshNames
    <3>8. OnePlace'  BY <3>1, <3>2, <3>3 DEF MapInv, OnePlace
    <3> QED  BY <3>2, <3>3, <3>4, <3>7, <3>8 DEF MapInv, Aimed, ConnectionsEndOnce
  <2>2. CASE SpawnReader(u)
    <3>1. \A s \in Sessions : reader'[s].at = "holding" => reader'[s] = reader[s]
      BY <2>2 DEF SpawnReader, At, TypeOK
    <3> QED  BY <2>2, <3>1, MapFrame DEF SpawnReader, mapVars, eventVars
  <2>3. CASE CheckFlags(u) \/ MarkOpening(u) \/ Bind(u) \/ BindFails(u) \/ StoreSocket(u) \/ StoreTask(u)
               \/ StoreOpen(u) \/ UnmarkOpening(u)
    BY <2>3, MapFrame DEF CheckFlags, MarkOpening, Bind, BindFails, StoreSocket, StoreTask, StoreOpen,
         UnmarkOpening, Others, mapVars, eventVars
  <2> QED  BY <1>2, <2>1, <2>2, <2>3 DEF Opening
<1>3. ASSUME NEW u \in Users, Closing(u)  PROVE MapInv'
  <2>0. u \in Tasks  BY DEF Tasks
  <2>1. CASE CloseDestroyed(u) \/ AbortReader(u) \/ DropSocket(u) \/ AnnounceClose(u)
    BY <2>1, MapFrame DEF CloseDestroyed, Gate, AbortReader, DropSocket, AnnounceClose, Others,
         mapVars, eventVars
  <2>2. CASE DrainMap(u)  BY <2>0, <2>2, DrainMoves DEF DrainMap, eventVars
  <2>3. CASE AnnounceConn(u)
    <3>1. PICK c \in drained[u] : Announce(u, c)  BY <2>3 DEF AnnounceConn
    <3>2. c \in Conns  BY <2>0, <3>1 DEF TypeOK
    <3> QED  BY <2>0, <2>3, <3>1, <3>2, AnnounceMoves DEF AnnounceConn
  <2> QED  BY <1>3, <2>1, <2>2, <2>3 DEF Closing
<1>4. ASSUME NEW s \in Sessions, Arrive(s) \/ SocketFails(s) \/ Running(s)  PROVE MapInv'
  <2>0. s \in Tasks  BY DEF Tasks
  <2>1. CASE Arrive(s)  BY <2>1, ArriveMoves
  <2>2. CASE EnsureEntry(s)  BY <2>2, EnsureEntryMoves
  <2>3. CASE DrainExited(s)
    <3>1. \A r \in Sessions : reader'[r].at = "holding" => reader'[r] = reader[r]
      BY <2>3 DEF DrainExited, Read, At, TypeOK
    <3> QED  BY <2>0, <2>3, <3>1, DrainMoves DEF DrainExited, eventVars
  <2>4. CASE AnnounceExited(s)
    <3>1. PICK c \in drained[s] : Announce(s, c)  BY <2>4 DEF AnnounceExited
    <3>2. c \in Conns  BY <2>0, <3>1 DEF TypeOK
    <3> QED  BY <2>0, <2>4, <3>1, <3>2, AnnounceMoves DEF AnnounceExited
  <2>5. CASE SocketFails(s) \/ Deliver(s) \/ Exit(s) \/ Finish(s) \/ Stop(s)
    <3>1. \A r \in Sessions : reader'[r].at = "holding" => reader'[r] = reader[r]
      BY <2>5 DEF SocketFails, Deliver, Exit, Finish, Stop, Read, At, TypeOK
    <3> QED  BY <2>5, <3>1, MapFrame DEF SocketFails, Deliver, Exit, Finish, Stop, mapVars, eventVars
  <2> QED  BY <1>4, <2>1, <2>2, <2>3, <2>4, <2>5 DEF Running
<1>5. ASSUME NEW t \in Timers, Timing(t)  PROVE MapInv'  BY <1>5, TimerMoves
<1>6. CASE UNCHANGED vars \/ WriteOnly  BY <1>6, MapFrame DEF vars, WriteOnly, mapVars, eventVars
<1> QED  BY <1>1, <1>2, <1>3, <1>4, <1>5, <1>6, WriteChanges DEF Next

LEMMA MapInvariant == Spec => [](TypeOK /\ MapInv)
<1>1. Init => MapInv
  <2> SUFFICES ASSUME Init  PROVE MapInv  OBVIOUS
  <2>1. \A c \in Conns : ~InMap(c) /\ ~Taken(c) /\ announced[c] = 0 /\ \A t \in Timers : target[t].conn # c
    BY DEF Init, InMap, Taken, Conns, Datagrams, None, NoTarget
  <2>2. FreshNames  BY <2>1 DEF Init, FreshNames, New, At
  <2>3. OnePlace /\ Aimed  BY DEF Init, OnePlace, Aimed, InMap, Taken, None
  <2> QED  BY <2>1, <2>2, <2>3 DEF MapInv, ConnectionsEndOnce
<1> QED  BY <1>1, MapStep, TypeCorrect, PTL DEF Spec

\* However close(), the receive tasks and the idle timers race, each connection is
\* announced closed at most once, and never while it is in the map.
THEOREM AnnouncedOnce == Spec => []ConnectionsEndOnce
<1>1. MapInv => ConnectionsEndOnce  BY DEF MapInv
<1> QED  BY <1>1, MapInvariant, PTL

-----------------------------------------------------------------------------
(* A connection has one timer that sleeps *)

OneSleeps ==
  kind = "server" =>
    \A c \in Conns : InMap(c) =>
      /\ idleTimer[c] # None
      /\ \A t \in Timers : timer[t] = "sleeping" /\ target[t].conn = c => t = idleTimer[c]

LEMMA TimerFrame ==
  ASSUME OneSleeps, UNCHANGED <<kind, idleTimer, target>>,
         \A c \in Conns : InMap(c)' => InMap(c),
         \A t \in Timers : timer'[t] = "sleeping" => timer[t] = "sleeping"
  PROVE  OneSleeps'
BY DEF OneSleeps

LEMMA EnsureEntryArms ==
  ASSUME TypeOK, MapInv, OneSleeps, NEW s \in Sessions, EnsureEntry(s)
  PROVE  OneSleeps'
<1> DEFINE n == reader[s].datagram
<1>1. PICK a \in Addrs, c \in Conns : a = reader[s].addr /\ c = EntryOf(s)
  BY ReaderKinds, EnsureEntryTimers DEF EnsureEntry, Read
<1>2. kind' = kind  BY DEF EnsureEntry, portVars
<1>3. SUFFICES ASSUME kind = "server", NEW d \in Conns, InMap(d)'
               PROVE  /\ idleTimer'[d] # None
                      /\ \A t \in Timers : timer'[t] = "sleeping" /\ target'[t].conn = d => t = idleTimer'[d]
  BY <1>2 DEF OneSleeps
<1>4. idleTimer' = [idleTimer EXCEPT ![c] = n] /\ n \in Timers  BY <1>1, <1>3, EnsureEntryTimers
<1>5. None \notin Timers  BY DEF None, Timers, Datagrams
<1>6. CASE d = c
  <2>1. idleTimer'[d] = n  BY <1>4, <1>6 DEF TypeOK
  <2>2. ASSUME NEW t \in Timers, timer'[t] = "sleeping", target'[t].conn = d, t # n  PROVE FALSE
    <3>1. timer[t] = "sleeping" /\ target[t].conn = c /\ t # idleTimer[c]
      BY <1>1, <1>3, <1>6, <2>2, EnsureEntryTimers
    <3>2. CASE c = n
      <4>1. New(n)  BY DEF EnsureEntry, Read, MapInv, FreshNames
      <4> QED  BY <3>1, <3>2, <4>1 DEF New
    <3>3. CASE conns[a] = c
      <4>1. InMap(c)  BY <3>3 DEF InMap
      <4> QED  BY <1>3, <3>1, <4>1 DEF OneSleeps
    <3>4. c = n \/ conns[a] = c  BY <1>1 DEF EntryOf
    <3> QED  BY <3>2, <3>3, <3>4
  <2> QED  BY <1>4, <1>5, <2>1, <2>2
<1>7. CASE d # c
  <2>1. idleTimer'[d] = idleTimer[d]  BY <1>4, <1>7 DEF TypeOK
  <2>2. InMap(d)
    <3>1. conns' = [conns EXCEPT ![a] = c]  BY <1>1 DEF EnsureEntry, EntryOf
    <3> QED  BY <1>3, <1>7, <3>1 DEF InMap, TypeOK
  <2>3. \A t \in Timers : timer'[t] = "sleeping" /\ target'[t].conn = d =>
          timer[t] = "sleeping" /\ target[t].conn = d
    <3>1. \A t \in Timers : timer'[t] = "sleeping" =>
            (timer[t] = "sleeping" /\ target'[t] = target[t]) \/ target'[t] = [addr |-> a, conn |-> c]
      BY <1>1, EnsureEntryTimers
    <3> QED  BY <1>7, <3>1
  <2> QED  BY <1>3, <2>1, <2>2, <2>3 DEF OneSleeps
<1> QED  BY <1>6, <1>7

LEMMA AnnounceStops ==
  ASSUME TypeOK, OneSleeps, NEW p \in Tasks, NEW c \in Conns, Announce(p, c), UNCHANGED kind
  PROVE  OneSleeps'
<1>1. idleTimer[c] \in Timers \cup {None}  BY DEF TypeOK
<1>2. \A t \in Timers : timer'[t] = "sleeping" => timer[t] = "sleeping"
  BY <1>1, StopsOnly DEF TypeOK, TimerStates, Announce
<1>3. \A d \in Conns : InMap(d)' => InMap(d)  BY DEF Announce, InMap
<1> QED  BY <1>2, <1>3, TimerFrame DEF Announce

LEMMA OneSleepsStep == TypeOK /\ MapInv /\ OneSleeps /\ [Next]_vars => OneSleeps'
<1> SUFFICES ASSUME TypeOK, MapInv, OneSleeps, [Next]_vars  PROVE OneSleeps'  OBVIOUS
<1> DEFINE Frame == UNCHANGED <<kind, idleTimer, target, timer, conns>>
<1>1. ASSUME Frame  PROVE OneSleeps'
  BY <1>1, TimerFrame DEF InMap
<1>2. ASSUME NEW p \in Tasks, Drain(p), UNCHANGED kind  PROVE OneSleeps'
  <2>1. \A c \in Conns : ~InMap(c)'  BY <1>2 DEF Drain, InMap, Conns, Datagrams, None
  <2> QED  BY <2>1 DEF OneSleeps
<1>3. ASSUME NEW u \in Users, Open(u) \/ Close(u) \/ Destroy(u)  PROVE OneSleeps'
  <2>1. Frame  BY <1>3 DEF Open, Close, Destroy, Gate, mapVars
  <2> QED  BY <1>1, <2>1
<1>4. ASSUME NEW u \in Users, Opening(u)  PROVE OneSleeps'
  <2>1. CASE ClearMap(u)
    <3>1. \A c \in Conns : ~InMap(c)'  BY <2>1 DEF ClearMap, InMap, Conns, Datagrams, None
    <3> QED  BY <3>1 DEF OneSleeps
  <2>2. CASE ~ClearMap(u)
    <3>1. Frame
      BY <1>4, <2>2 DEF Opening, SpawnReader, CheckFlags, MarkOpening, Bind, BindFails, StoreSocket, StoreTask,
           StoreOpen, UnmarkOpening, Others, mapVars
    <3> QED  BY <1>1, <3>1
  <2> QED  BY <2>1, <2>2
<1>5. ASSUME NEW u \in Users, Closing(u)  PROVE OneSleeps'
  <2>0. u \in Tasks  BY DEF Tasks
  <2>1. CASE CloseDestroyed(u) \/ AbortReader(u) \/ DropSocket(u) \/ AnnounceClose(u)
    <3>1. Frame
      BY <2>1 DEF CloseDestroyed, Gate, AbortReader, DropSocket, AnnounceClose, Others, mapVars
    <3> QED  BY <1>1, <3>1
  <2>2. CASE DrainMap(u)  BY <1>2, <2>0, <2>2 DEF DrainMap
  <2>3. CASE AnnounceConn(u)
    <3>1. PICK c \in drained[u] : Announce(u, c)  BY <2>3 DEF AnnounceConn
    <3>2. c \in Conns  BY <2>0, <3>1 DEF TypeOK
    <3> QED  BY <2>0, <2>3, <3>1, <3>2, AnnounceStops DEF AnnounceConn, portVars
  <2> QED  BY <1>5, <2>1, <2>2, <2>3 DEF Closing
<1>6. ASSUME NEW s \in Sessions, Arrive(s) \/ SocketFails(s) \/ Running(s)  PROVE OneSleeps'
  <2>0. s \in Tasks  BY DEF Tasks
  <2>1. CASE EnsureEntry(s)  BY <2>1, EnsureEntryArms
  <2>2. CASE DrainExited(s)  BY <1>2, <2>0, <2>2 DEF DrainExited, portVars
  <2>3. CASE AnnounceExited(s)
    <3>1. PICK c \in drained[s] : Announce(s, c)  BY <2>3 DEF AnnounceExited
    <3>2. c \in Conns  BY <2>0, <3>1 DEF TypeOK
    <3> QED  BY <2>0, <2>3, <3>1, <3>2, AnnounceStops DEF AnnounceExited, portVars
  <2>4. CASE Arrive(s) \/ SocketFails(s) \/ Deliver(s) \/ Exit(s) \/ Finish(s) \/ Stop(s)
    <3>1. Frame  BY <2>4 DEF Arrive, SocketFails, Deliver, Exit, Finish, Stop, mapVars, portVars
    <3> QED  BY <1>1, <3>1
  <2> QED  BY <1>6, <2>1, <2>2, <2>3, <2>4 DEF Running
<1>7. ASSUME NEW t \in Timers, Timing(t)  PROVE OneSleeps'
  <2>1. UNCHANGED <<kind, idleTimer, target>>
    BY <1>7 DEF Timing, Wake, Remove, Evict, TimerOnly, portVars
  <2>2. \A c \in Conns : InMap(c)' => InMap(c)
    <3>1. \A a \in Addrs : conns'[a] = conns[a] \/ conns'[a] = None
      BY <1>7 DEF Timing, Wake, Remove, Evict, TypeOK
    <3> QED  BY <3>1 DEF InMap, Conns, Datagrams, None
  <2>3. \A u \in Timers : timer'[u] = "sleeping" => timer[u] = "sleeping"
    BY <1>7 DEF Timing, Wake, Remove, Evict, TypeOK
  <2> QED  BY <2>1, <2>2, <2>3, TimerFrame
<1>8. CASE UNCHANGED vars \/ WriteOnly
  <2>1. Frame  BY <1>8 DEF vars, WriteOnly, mapVars, portVars
  <2> QED  BY <1>1, <2>1
<1> QED  BY <1>3, <1>4, <1>5, <1>6, <1>7, <1>8, WriteChanges DEF Next

-----------------------------------------------------------------------------
(* The timer of a connection in the map is going to evict it *)

\* A timer is named for the datagram that armed it: nobody has the next datagrams' yet,
\* nor that of one still in hand.  A connection's timer is aimed at that connection.
Unused(n) == \A c \in Conns : idleTimer[c] # n
TimerNames ==
  /\ \A n \in Timers : n > received => Unused(n)
  /\ \A s \in Sessions : reader[s].at = "holding" => Unused(reader[s].datagram)
OwnTimers == \A c \in Conns : idleTimer[c] # None => target[idleTimer[c]].conn = c
Evicted == kind = "server" => \A c \in Conns : InMap(c) => idleTimer[c] # None /\ Evicts(idleTimer[c], c)

TimerInv == TimerNames /\ OwnTimers /\ Evicted

LEMMA TimerInvFrame ==
  ASSUME TypeOK, TimerInv, UNCHANGED <<kind, idleTimer, target, received>>,
         \A s \in Sessions : reader'[s].at = "holding" => reader'[s] = reader[s],
         kind = "server" => \A c \in Conns : InMap(c)' =>
           InMap(c) /\ (Evicts(idleTimer[c], c) => Evicts(idleTimer[c], c)')
  PROVE  TimerInv'
<1>1. TimerNames' /\ OwnTimers'  BY DEF TimerInv, TimerNames, OwnTimers, Unused
<1>2. Evicted'
  <2> SUFFICES ASSUME kind = "server", NEW c \in Conns, InMap(c)'
               PROVE  idleTimer[c] # None /\ Evicts(idleTimer[c], c)'
    BY DEF Evicted
  <2>1. InMap(c) /\ (Evicts(idleTimer[c], c) => Evicts(idleTimer[c], c)')  OBVIOUS
  <2>2. idleTimer[c] # None /\ Evicts(idleTimer[c], c)  BY <2>1 DEF TimerInv, Evicted
  <2> QED  BY <2>1, <2>2
<1> QED  BY <1>1, <1>2 DEF TimerInv

\* A timer that evicts goes on to, when neither it nor its entry is touched.
LEMMA EvictsFrame ==
  ASSUME TypeOK, MapInv, TimerInv, kind = "server", UNCHANGED <<target, idleTimer>>,
         NEW c \in Conns, InMap(c),
         timer'[idleTimer[c]] \in {"sleeping", "woken"},
         \A a \in Addrs : conns[a] = c => conns'[a] = c
  PROVE  Evicts(idleTimer[c], c)'
<1> DEFINE t == idleTimer[c]
<1>1. t \in Timers /\ Evicts(t, c)  BY DEF TimerInv, Evicted, TypeOK
<1>2. target[t].addr \in Addrs  BY <1>1 DEF MapInv, Aimed, Evicts
<1>3. target'[t].conn = c /\ conns'[target'[t].addr] = c  BY <1>1, <1>2 DEF Evicts
<1> QED  BY <1>3 DEF Evicts

LEMMA EnsureEntryEvicts ==
  ASSUME TypeOK, MapInv, TimerInv, NEW s \in Sessions, EnsureEntry(s)
  PROVE  TimerInv'
<1> DEFINE n == reader[s].datagram
<1>1. PICK a \in Addrs, c \in Conns : a = reader[s].addr /\ c = EntryOf(s)
  BY ReaderKinds, EnsureEntryTimers DEF EnsureEntry, Read
<1>2. n \in Timers /\ n <= received /\ Unused(n) /\ reader[s].at = "holding"
  BY ReaderKinds DEF EnsureEntry, Read, Timers, MapInv, FreshNames, TimerInv, TimerNames
<1>3. /\ UNCHANGED <<kind, received>>  /\ conns' = [conns EXCEPT ![a] = c]
      /\ reader'[s].at = "sending" /\ \A r \in Sessions : r # s => reader'[r] = reader[r]
  BY <1>1 DEF EnsureEntry, Read, EntryOf, portVars, TypeOK
<1>4. None \notin Timers  BY DEF None, Timers, Datagrams
<1>5. c = n \/ conns[a] = c  BY <1>1 DEF EntryOf
<1>6. CASE kind # "server"
  <2>1. UNCHANGED <<idleTimer, target>>  BY <1>6 DEF EnsureEntry
  <2>2. \A r \in Sessions : reader'[r].at = "holding" => reader'[r] = reader[r]  BY <1>3
  <2> QED  BY <1>3, <1>6, <2>1, <2>2, TimerInvFrame
<1>7. CASE kind = "server"
  <2>1. /\ idleTimer' = [idleTimer EXCEPT ![c] = n]
        /\ timer'[n] = "sleeping" /\ target'[n] = [addr |-> a, conn |-> c]
        /\ \A t \in Timers : t # n => target'[t] = target[t]
        /\ \A t \in Timers : t # n /\ t # idleTimer[c] => timer'[t] = timer[t]
    BY <1>1, <1>7, EnsureEntryTimers
  <2>2. \A d \in Conns : idleTimer'[d] = IF d = c THEN n ELSE idleTimer[d]  BY <2>1 DEF TypeOK
  <2>3. \A m \in Timers : Unused(m) /\ m # n => Unused(m)'  BY <2>2 DEF Unused
  <2>4. TimerNames'
    <3>1. \A m \in Timers : m > received => m # n  BY <1>2, UdpAssumption DEF TypeOK, Timers, Datagrams
    <3>2. \A r \in Sessions : reader[r].at = "holding" => reader[r].datagram \in Timers
      BY ReaderKinds DEF Timers
    <3>3. \A r \in Sessions : reader[r].at = "holding" /\ r # s => reader[r].datagram # n
      BY <1>2 DEF MapInv, FreshNames
    <3> QED  BY <1>3, <2>3, <3>1, <3>2, <3>3 DEF TimerInv, TimerNames
  <2>5. OwnTimers'
    <3> SUFFICES ASSUME NEW d \in Conns, idleTimer'[d] # None  PROVE target'[idleTimer'[d]].conn = d
      BY DEF OwnTimers
    <3>1. CASE d = c  BY <2>1, <2>2, <3>1
    <3>2. CASE d # c
      <4>1. idleTimer'[d] = idleTimer[d] /\ idleTimer[d] # n  BY <1>2, <2>2, <3>2 DEF Unused
      <4>2. idleTimer[d] \in Timers  BY <4>1 DEF TypeOK
      <4> QED  BY <2>1, <4>1, <4>2 DEF TimerInv, OwnTimers
    <3> QED  BY <3>1, <3>2
  <2>6. Evicted'
    <3> SUFFICES ASSUME NEW d \in Conns, InMap(d)'
                 PROVE  idleTimer'[d] # None /\ Evicts(idleTimer[d], d)'
      BY DEF Evicted
    <3>1. CASE d = c
      <4>1. idleTimer'[d] = n /\ conns'[a] = c  BY <1>1, <1>3, <2>2, <3>1, ReaderKinds DEF TypeOK, EnsureEntry, Read
      <4> QED  BY <1>2, <1>4, <2>1, <3>1, <4>1 DEF Evicts
    <3>2. CASE d # c
      <4> DEFINE t == idleTimer[d]
      <4>1. InMap(d)  BY <1>3, <3>2 DEF InMap, TypeOK
      <4>2. t # None /\ Evicts(t, d)  BY <1>7, <4>1 DEF TimerInv, Evicted
      <4>3. t \in Timers /\ t # n /\ idleTimer'[d] = t  BY <1>2, <2>2, <3>2, <4>2 DEF TypeOK, Unused
      <4>4. t # idleTimer[c]
        <5>1. target[t].conn = d  BY <4>2 DEF Evicts
        <5> QED  BY <3>2, <4>2, <5>1 DEF TimerInv, OwnTimers
      <4>5. timer'[t] = timer[t] /\ target'[t] = target[t]  BY <2>1, <4>3, <4>4
      <4>6. target[t].addr \in Addrs  BY <4>2, <4>3 DEF MapInv, Aimed, Evicts
      <4>7. conns'[target[t].addr] = d
        <5>1. CASE target[t].addr = a
          <6>1. conns[a] = d  BY <4>2, <5>1 DEF Evicts
          <6>2. d # None  BY DEF Conns, Datagrams, None
          <6> QED  BY <1>1, <3>2, <6>1, <6>2 DEF EntryOf
        <5>2. CASE target[t].addr # a  BY <1>3, <4>2, <4>6, <5>2 DEF Evicts, TypeOK
        <5> QED  BY <5>1, <5>2
      <4> QED  BY <4>2, <4>3, <4>5, <4>7 DEF Evicts
    <3> QED  BY <3>1, <3>2
  <2> QED  BY <2>4, <2>5, <2>6 DEF TimerInv
<1> QED  BY <1>6, <1>7

LEMMA ArriveNames ==
  ASSUME TypeOK, MapInv, TimerInv, NEW s \in Sessions, Arrive(s)
  PROVE  TimerInv'
<1>1. received' = received + 1 /\ received' \in Timers /\ received \in Nat
  BY UdpAssumption DEF Arrive, TypeOK, Timers, Datagrams
<1>2. UNCHANGED <<kind, conns, target, timer, idleTimer>>  BY DEF Arrive, portVars
<1>3. PICK a \in Addrs : Read(s, "reading", [at |-> "holding", addr |-> a, datagram |-> received'])
  BY DEF Arrive
<1>4. /\ reader'[s].datagram = received'
      /\ \A r \in Sessions : r # s => reader'[r] = reader[r]
  BY <1>3 DEF Read, TypeOK
<1>5. Unused(received')  BY <1>1 DEF TimerInv, TimerNames
<1>6. \A m \in Timers : m > received' => m > received  BY <1>1 DEF Timers, Datagrams
<1>7. TimerNames'  BY <1>2, <1>4, <1>5, <1>6 DEF TimerInv, TimerNames, Unused
<1> QED  BY <1>2, <1>7 DEF TimerInv, OwnTimers, Evicted, Evicts, InMap

\* abort() of the timer of a connection that has left the map stops no other one's.
LEMMA AnnounceEvicts ==
  ASSUME TypeOK, MapInv, TimerInv, NEW p \in Tasks, NEW c \in Conns, Announce(p, c),
         UNCHANGED <<kind, reader>>
  PROVE  TimerInv'
<1>1. UNCHANGED <<conns, idleTimer, target, received>>  BY DEF Announce
<1>2. idleTimer[c] \in Timers \cup {None}  BY DEF TypeOK
<1>3. \A t \in Timers : t # idleTimer[c] => timer'[t] = timer[t]
  BY <1>2, StopsOnly DEF TypeOK, TimerStates, Announce
<1>4. ASSUME kind = "server", NEW d \in Conns, InMap(d)'  PROVE InMap(d) /\ Evicts(idleTimer[d], d)'
  <2>1. InMap(d)  BY <1>1, <1>4 DEF InMap
  <2>2. Taken(c)  BY DEF Announce, Taken
  <2>3. d # c  BY <2>1, <2>2 DEF MapInv, OnePlace
  <2>4. idleTimer[d] # None /\ Evicts(idleTimer[d], d)  BY <1>4, <2>1 DEF TimerInv, Evicted
  <2>5. idleTimer[d] \in Timers /\ idleTimer[d] # idleTimer[c]
    BY <2>3, <2>4 DEF TypeOK, TimerInv, OwnTimers
  <2>6. timer'[idleTimer[d]] \in {"sleeping", "woken"}  BY <1>3, <2>4, <2>5 DEF Evicts
  <2> QED  BY <1>1, <1>4, <2>1, <2>6, EvictsFrame
<1> QED  BY <1>1, <1>4, TimerInvFrame

LEMMA TimingEvicts ==
  ASSUME TypeOK, MapInv, TimerInv, NEW t \in Timers, Timing(t)
  PROVE  TimerInv'
<1>1. UNCHANGED <<kind, reader, idleTimer, target, received>>
  BY DEF Timing, Wake, Remove, Evict, TimerOnly, portVars
<1>2. ASSUME kind = "server", NEW c \in Conns, InMap(c)'  PROVE InMap(c) /\ Evicts(idleTimer[c], c)'
  <2>1. \A a \in Addrs : conns'[a] = conns[a] \/ conns'[a] = None
    BY DEF Timing, Wake, Remove, Evict, TypeOK
  <2>2. InMap(c)  BY <1>2, <2>1 DEF InMap, Conns, Datagrams, None
  <2>3. \A a \in Addrs : conns[a] = c => conns'[a] = c
    BY <1>2, <2>1 DEF InMap, MapInv, OnePlace, Conns, Datagrams, None
  <2>4. idleTimer[c] \in Timers /\ Evicts(idleTimer[c], c)  BY <1>2, <2>2 DEF TimerInv, Evicted, TypeOK
  <2>5. timer'[idleTimer[c]] \in {"sleeping", "woken"}
    <3>1. CASE Wake(t)  BY <2>4, <3>1 DEF Wake, Evicts, TypeOK
    <3>2. CASE Remove(t)
      <4>1. CASE t = idleTimer[c]
        <5>1. target[t].addr \in Addrs /\ conns[target[t].addr] = c /\ target[t].conn = c
          BY <2>4, <4>1 DEF Evicts, MapInv, Aimed
        <5>2. conns' = [conns EXCEPT ![target[t].addr] = None]  BY <3>2, <5>1 DEF Remove
        <5>3. conns'[target[t].addr] = None  BY <5>1, <5>2 DEF TypeOK
        <5> QED  BY <2>3, <5>1, <5>3 DEF Conns, Datagrams, None
      <4>2. CASE t # idleTimer[c]  BY <2>4, <3>2, <4>2 DEF Remove, Evicts, TypeOK
      <4> QED  BY <4>1, <4>2
    <3>3. CASE Evict(t)  BY <2>4, <3>3 DEF Evict, Evicts, TypeOK
    <3> QED  BY <3>1, <3>2, <3>3 DEF Timing
  <2> QED  BY <1>1, <1>2, <2>2, <2>3, <2>5, EvictsFrame
<1> QED  BY <1>1, <1>2, TimerInvFrame

LEMMA TimerInvStep == TypeOK /\ MapInv /\ TimerInv /\ [Next]_vars => TimerInv'
<1> SUFFICES ASSUME TypeOK, MapInv, TimerInv, [Next]_vars  PROVE TimerInv'  OBVIOUS
<1> DEFINE Rest == /\ UNCHANGED <<kind, idleTimer, target, received>>
                      /\ \A s \in Sessions : reader'[s].at = "holding" => reader'[s] = reader[s]
<1>1. ASSUME Rest, UNCHANGED <<timer, conns>>  PROVE TimerInv'
  BY <1>1, TimerInvFrame DEF InMap, Evicts
<1>2. ASSUME Rest, \A a \in Addrs : conns'[a] = None  PROVE TimerInv'
  <2>1. \A c \in Conns : ~InMap(c)'  BY <1>2 DEF InMap, Conns, Datagrams, None
  <2> QED  BY <1>2, <2>1, TimerInvFrame
<1>3. ASSUME NEW u \in Users, Open(u) \/ Close(u) \/ Destroy(u)  PROVE TimerInv'
  <2>1. Rest /\ UNCHANGED <<timer, conns>>  BY <1>3 DEF Open, Close, Destroy, Gate, mapVars
  <2> QED  BY <1>1, <2>1
<1>4. ASSUME NEW u \in Users, Opening(u)  PROVE TimerInv'
  <2>1. CASE ClearMap(u)
    <3>1. Rest /\ \A a \in Addrs : conns'[a] = None  BY <2>1 DEF ClearMap
    <3> QED  BY <1>2, <3>1
  <2>2. CASE ~ClearMap(u)
    <3>1. Rest /\ UNCHANGED <<timer, conns>>
      BY <1>4, <2>2 DEF Opening, SpawnReader, At, CheckFlags, MarkOpening, Bind, BindFails, StoreSocket,
           StoreTask, StoreOpen, UnmarkOpening, Others, mapVars, TypeOK
    <3> QED  BY <1>1, <3>1
  <2> QED  BY <2>1, <2>2
<1>5. ASSUME NEW u \in Users, Closing(u)  PROVE TimerInv'
  <2>0. u \in Tasks  BY DEF Tasks
  <2>1. CASE CloseDestroyed(u) \/ AbortReader(u) \/ DropSocket(u) \/ AnnounceClose(u)
    <3>1. Rest /\ UNCHANGED <<timer, conns>>
      BY <2>1 DEF CloseDestroyed, Gate, AbortReader, DropSocket, AnnounceClose, Others, mapVars
    <3> QED  BY <1>1, <3>1
  <2>2. CASE DrainMap(u)
    <3>1. Rest /\ \A a \in Addrs : conns'[a] = None  BY <2>2 DEF DrainMap, Drain
    <3> QED  BY <1>2, <3>1
  <2>3. CASE AnnounceConn(u)
    <3>1. PICK c \in drained[u] : Announce(u, c)  BY <2>3 DEF AnnounceConn
    <3>2. c \in Conns  BY <2>0, <3>1 DEF TypeOK
    <3> QED  BY <2>0, <2>3, <3>1, <3>2, AnnounceEvicts DEF AnnounceConn, portVars
  <2> QED  BY <1>5, <2>1, <2>2, <2>3 DEF Closing
<1>6. ASSUME NEW s \in Sessions, Arrive(s) \/ SocketFails(s) \/ Running(s)  PROVE TimerInv'
  <2>0. s \in Tasks  BY DEF Tasks
  <2>1. CASE Arrive(s)  BY <2>1, ArriveNames
  <2>2. CASE EnsureEntry(s)  BY <2>2, EnsureEntryEvicts
  <2>3. CASE DrainExited(s)
    <3>1. Rest /\ \A a \in Addrs : conns'[a] = None
      BY <2>3 DEF DrainExited, Drain, Read, At, portVars, TypeOK
    <3> QED  BY <1>2, <3>1
  <2>4. CASE AnnounceExited(s)
    <3>1. PICK c \in drained[s] : Announce(s, c)  BY <2>4 DEF AnnounceExited
    <3>2. c \in Conns  BY <2>0, <3>1 DEF TypeOK
    <3> QED  BY <2>0, <2>4, <3>1, <3>2, AnnounceEvicts DEF AnnounceExited, portVars
  <2>5. CASE SocketFails(s) \/ Deliver(s) \/ Exit(s) \/ Finish(s) \/ Stop(s)
    <3>1. Rest /\ UNCHANGED <<timer, conns>>
      BY <2>5 DEF SocketFails, Deliver, Exit, Finish, Stop, Read, At, mapVars, portVars, TypeOK
    <3> QED  BY <1>1, <3>1
  <2> QED  BY <1>6, <2>1, <2>2, <2>3, <2>4, <2>5 DEF Running
<1>7. ASSUME NEW t \in Timers, Timing(t)  PROVE TimerInv'  BY <1>7, TimingEvicts
<1>8. CASE UNCHANGED vars \/ WriteOnly
  <2>1. Rest /\ UNCHANGED <<timer, conns>>  BY <1>8 DEF vars, WriteOnly, mapVars, portVars
  <2> QED  BY <1>1, <2>1
<1> QED  BY <1>3, <1>4, <1>5, <1>6, <1>7, <1>8, WriteChanges DEF Next

\* Each connection in the map of a server that evicts has a timer that will evict it,
\* whatever the other timers, close() and the receive tasks do, and no other timer sleeps
\* for it.
THEOREM TimersAreReplaced == Spec => []OneTimer
<1>1. Init => OneSleeps /\ TimerInv
  <2> SUFFICES ASSUME Init  PROVE OneSleeps /\ TimerInv  OBVIOUS
  <2>1. \A c \in Conns : ~InMap(c) /\ idleTimer[c] = None  BY DEF Init, InMap, Conns, Datagrams, None
  <2>2. \A s \in Sessions : reader[s].at # "holding"  BY DEF Init, At
  <2>3. \A n \in Timers : Unused(n)  BY <2>1 DEF Unused, Timers, Datagrams, None
  <2> QED  BY <2>1, <2>2, <2>3 DEF OneSleeps, TimerInv, TimerNames, OwnTimers, Evicted
<1>2. OneSleeps /\ TimerInv => OneTimer  BY DEF OneSleeps, TimerInv, Evicted, OneTimer
<1> QED  BY <1>1, <1>2, OneSleepsStep, TimerInvStep, MapInvariant, PTL DEF Spec

-----------------------------------------------------------------------------
(* What the port holds between the statements of open() and close() *)

OpenSteps == {"flags", "mark", "bind", "store", "clear", "spawn", "task", "open", "unmark"}
Live == {"reading", "holding", "sending", "failed"}

\* An open() has the port to itself.
Alone == \A u, v \in Users : u # v /\ pc[u] \in OpenSteps => pc[v] = "idle"

\* While the port is set up or taken down it says that it is closed.
ClosedAt ==
  \A u \in Users : pc[u] \in (OpenSteps \ {"flags", "unmark"}) \cup {"abort", "drop"} => ~isOpen

\* From the bind on there is a socket, and the port has one as long as it is open.
SocketAt ==
  /\ \A u \in Users : pc[u] \in {"store", "clear", "spawn", "task", "open"} => mine[u] # None
  /\ \A u \in Users : pc[u] \in {"clear", "spawn", "task", "open"} => socket # None
  /\ isOpen => socket # None

\* A receive task that runs was told to stop, or is the one of the session that is open,
\* about to be, or about to be told.
Current(s) ==
  \/ isOpen /\ recvTask = s
  \/ \E u \in Users : \/ pc[u] = "task" /\ mine[u] = s
                      \/ pc[u] \in {"open", "abort"} /\ recvTask = s
ReaderAt == \A s \in Sessions : reader[s].at \in Live => s \in aborted \/ Current(s)

\* One that ends the session itself is not stopped before it has emptied the map.
DrainAt ==
  \A s \in Sessions : reader[s].at = "drain" =>
    s \notin aborted /\ ~isOpen /\ \A u \in Users : pc[u] \notin (OpenSteps \ {"unmark"}) \cup {"abort"}

\* Nothing is in the map unless the port is open, or somebody is to empty it, or a task that
\* was told to stop has entered it.
MapAt ==
  \/ isOpen
  \/ \E u \in Users : pc[u] \in {"spawn", "task", "open", "abort", "drop", "drain"}
  \/ \E s \in Sessions : reader[s].at = "drain"
  \/ \A a \in Addrs : conns[a] \in {None} \cup late

PortInv == orderly => Alone /\ ClosedAt /\ SocketAt /\ ReaderAt /\ DrainAt /\ MapAt

\* What happens to a receive task, the map and the timers between these statements.
LEMMA PortFrame ==
  ASSUME PortInv, orderly' => orderly, UNCHANGED <<pc, mine, isOpen, socket, recvTask, aborted, late>>,
         \A s \in Sessions : /\ reader'[s].at \in Live => reader[s].at \in Live
                             /\ reader'[s].at = "drain" <=> reader[s].at = "drain",
         \A a \in Addrs : conns'[a] \in {conns[a], None}
  PROVE  PortInv'
<1> SUFFICES ASSUME orderly  PROVE (Alone /\ ClosedAt /\ SocketAt /\ ReaderAt /\ DrainAt /\ MapAt)'
  BY DEF PortInv
<1>1. (Alone /\ ClosedAt /\ SocketAt)'  BY DEF PortInv, Alone, ClosedAt, SocketAt
<1>2. ReaderAt'  BY DEF PortInv, ReaderAt, Current
<1>3. DrainAt'  BY DEF PortInv, DrainAt
<1>4. MapAt'
  <2>1. (\A a \in Addrs : conns[a] \in {None} \cup late) => \A a \in Addrs : conns'[a] \in {None} \cup late'  OBVIOUS
  <2> QED  BY <2>1 DEF PortInv, MapAt
<1> QED  BY <1>1, <1>2, <1>3, <1>4

\* A call begins.
LEMMA PortBegin ==
  ASSUME TypeOK, PortInv, NEW u \in Users,
         Open(u) \/ Close(u) \/ Destroy(u)
  PROVE  PortInv'
<1> USE DEF TypeOK
<1> SUFFICES ASSUME orderly'  PROVE (Alone /\ ClosedAt /\ SocketAt /\ ReaderAt /\ DrainAt /\ MapAt)'
  BY DEF PortInv
<1>1. PICK step \in {"flags", "close", "abort", "idle"} :
        /\ Begin(u, step)
        /\ isOpen' = (isOpen /\ step \notin {"abort", "idle"})
        /\ step = "idle" => ~isOpen
        /\ step = "abort" => isOpen
        /\ UNCHANGED <<mine, socket, recvTask, reader, aborted, conns, late>>
  BY DEF Open, Close, Destroy, Gate, mapVars, eventVars
<1>2. orderly /\ Quiet(u, step) /\ pc[u] = "idle" /\ pc' = [pc EXCEPT ![u] = step]
  BY <1>1 DEF Begin, Step
<1>3. Alone /\ ClosedAt /\ SocketAt /\ ReaderAt /\ DrainAt /\ MapAt  BY <1>2 DEF PortInv
<1>4. Alone'
  BY <1>2, <1>3 DEF Alone, OpenSteps, Quiet, Ending
<1>5. ClosedAt'  BY <1>1, <1>2, <1>3 DEF ClosedAt, OpenSteps
<1>6. SocketAt'  BY <1>1, <1>2, <1>3 DEF SocketAt
<1>7. ReaderAt'
  <2>1. \A s \in Sessions : Current(s) => Current(s)'  BY <1>1, <1>2 DEF Current
  <2> QED  BY <1>1, <1>3, <2>1 DEF ReaderAt
<1>8. DrainAt'
  <2>1. \A s \in Sessions : step = "flags" => reader[s].at # "drain"  BY <1>2 DEF Quiet, Ending
  <2> QED  BY <1>1, <1>2, <1>3, <2>1 DEF DrainAt, OpenSteps
<1>9. MapAt'
  <2>1. CASE \E v \in Users : pc[v] \in {"spawn", "task", "open", "abort", "drop", "drain"}
    BY <1>2, <2>1 DEF MapAt
  <2>2. CASE isOpen  BY <1>1, <1>2, <2>2 DEF MapAt
  <2>3. CASE (\E s \in Sessions : reader[s].at = "drain") \/ \A a \in Addrs : conns[a] \in {None} \cup late
    BY <1>1, <2>3 DEF MapAt
  <2> QED  BY <1>3, <2>1, <2>2, <2>3 DEF MapAt
<1> QED  BY <1>4, <1>5, <1>6, <1>7, <1>8, <1>9

LEMMA PortOpening ==
  ASSUME TypeOK, PortInv, NEW u \in Users, Opening(u)
  PROVE  PortInv'
<1> USE DEF TypeOK, Step, Others
<1> SUFFICES ASSUME orderly'  PROVE (Alone /\ ClosedAt /\ SocketAt /\ ReaderAt /\ DrainAt /\ MapAt)'
  BY DEF PortInv
<1>1. orderly /\ UNCHANGED aborted
  BY DEF Opening, CheckFlags, MarkOpening, Bind, BindFails, StoreSocket, ClearMap, SpawnReader, StoreTask,
     StoreOpen, UnmarkOpening
<1>2. Alone /\ ClosedAt /\ SocketAt /\ ReaderAt /\ DrainAt /\ MapAt  BY <1>1 DEF PortInv
<1>3. /\ pc[u] \in OpenSteps
      /\ \E step \in OpenSteps \cup {"idle"} : pc' = [pc EXCEPT ![u] = step]
  BY DEF Opening, CheckFlags, MarkOpening, Bind, BindFails, StoreSocket, ClearMap, SpawnReader, StoreTask,
     StoreOpen, UnmarkOpening, OpenSteps
<1>4. \A v \in Users \ {u} : pc[v] = "idle" /\ pc'[v] = "idle"  BY <1>2, <1>3 DEF Alone
<1>5. Alone'  BY <1>3, <1>4 DEF Alone, OpenSteps
<1>6. (ClosedAt /\ SocketAt)'
  <2> SUFFICES /\ pc'[u] \in OpenSteps \ {"flags", "unmark"} => ~isOpen'
               /\ pc'[u] \in {"store", "clear", "spawn", "task", "open"} => mine'[u] # None
               /\ pc'[u] \in {"clear", "spawn", "task", "open"} => socket' # None
               /\ isOpen' => socket' # None
    BY <1>3, <1>4 DEF ClosedAt, SocketAt, OpenSteps
  <2>1. /\ pc[u] \in OpenSteps \ {"flags", "unmark"} => ~isOpen
        /\ pc[u] \in {"store", "clear", "spawn", "task", "open"} => mine[u] # None
        /\ pc[u] \in {"clear", "spawn", "task", "open"} => socket # None
        /\ isOpen => socket # None
    BY <1>2 DEF ClosedAt, SocketAt
  <2>2. CASE Bind(u)
    <3>1. pc[u] = "bind" /\ pc'[u] = "store" /\ mine'[u] # None /\ UNCHANGED <<isOpen, socket>>
      BY <2>2 DEF Bind, Sessions, None
    <3> QED  BY <2>1, <3>1 DEF OpenSteps
  <2>3. CASE CheckFlags(u)
    <3>1. pc'[u] = (IF isOpen \/ isOpening THEN "idle" ELSE "mark") /\ UNCHANGED <<isOpen, socket>>
      BY <2>3 DEF CheckFlags
    <3> QED  BY <2>1, <3>1 DEF OpenSteps
  <2>4. CASE MarkOpening(u) \/ BindFails(u)
    <3>1. /\ pc[u] \in {"mark", "bind"} /\ pc'[u] \in {"bind", "idle"}
          /\ UNCHANGED <<isOpen, socket>>
      BY <2>4 DEF MarkOpening, BindFails
    <3> QED  BY <2>1, <3>1 DEF OpenSteps
  <2>5. CASE StoreSocket(u)
    <3>1. pc[u] = "store" /\ pc'[u] = "clear" /\ socket' = mine[u] /\ UNCHANGED <<isOpen, mine>>
      BY <2>5 DEF StoreSocket
    <3> QED  BY <2>1, <3>1 DEF OpenSteps
  <2>6. CASE ClearMap(u) \/ SpawnReader(u) \/ StoreTask(u)
    <3>1. /\ pc[u] \in {"clear", "spawn", "task"} /\ pc'[u] \in {"spawn", "task", "open"}
          /\ UNCHANGED <<isOpen, mine, socket>>
      BY <2>6 DEF ClearMap, SpawnReader, StoreTask
    <3> QED  BY <2>1, <3>1 DEF OpenSteps
  <2>7. CASE StoreOpen(u)
    <3>1. pc[u] = "open" /\ pc'[u] = "unmark" /\ socket' = socket  BY <2>7 DEF StoreOpen
    <3> QED  BY <2>1, <3>1
  <2>8. CASE UnmarkOpening(u)
    <3>1. pc'[u] = "idle" /\ UNCHANGED <<isOpen, socket>>  BY <2>8 DEF UnmarkOpening
    <3> QED  BY <2>1, <3>1 DEF OpenSteps
  <2> QED  BY <2>2, <2>3, <2>4, <2>5, <2>6, <2>7, <2>8 DEF Opening
<1>7. ReaderAt'
  <2>1. CASE pc[u] \notin {"spawn", "task", "open"}
    <3>1. UNCHANGED <<isOpen, recvTask, reader>> /\ pc[u] \notin {"abort"}
      BY <1>3, <2>1 DEF OpenSteps, Opening, CheckFlags, MarkOpening, Bind, BindFails, StoreSocket, ClearMap,
         SpawnReader, StoreTask, StoreOpen, UnmarkOpening
    <3>2. \A s \in Sessions : Current(s) => isOpen /\ recvTask = s  BY <1>4, <2>1, <3>1 DEF Current
    <3> QED  BY <1>1, <1>2, <3>1, <3>2 DEF ReaderAt, Current
  <2>2. CASE SpawnReader(u)
    <3>1. \A s \in Sessions : ~Current(s)  BY <1>2, <1>4, <2>2 DEF Current, SpawnReader, ClosedAt, OpenSteps
    <3>2. \A s \in Sessions : s # mine[u] => reader'[s] = reader[s]  BY <2>2 DEF SpawnReader
    <3>3. pc'[u] = "task" /\ mine' = mine  BY <2>2 DEF SpawnReader
    <3>4. \A s \in Sessions : s = mine[u] => Current(s)'  BY <3>3 DEF Current
    <3> QED  BY <1>1, <1>2, <3>1, <3>2, <3>4 DEF ReaderAt
  <2>3. CASE StoreTask(u)
    <3>1. \A s \in Sessions : Current(s) => s = mine[u]
      BY <1>2, <1>4, <2>3 DEF Current, StoreTask, ClosedAt, OpenSteps
    <3>2. UNCHANGED reader /\ pc'[u] = "open" /\ recvTask' = mine[u]  BY <2>3 DEF StoreTask
    <3>3. \A s \in Sessions : s = mine[u] => Current(s)'  BY <3>2 DEF Current
    <3> QED  BY <1>1, <1>2, <3>1, <3>2, <3>3 DEF ReaderAt
  <2>4. CASE StoreOpen(u)
    <3>1. \A s \in Sessions : Current(s) => recvTask = s
      BY <1>2, <1>4, <2>4 DEF Current, StoreOpen, ClosedAt, OpenSteps
    <3> QED  BY <1>1, <1>2, <2>4, <3>1 DEF ReaderAt, StoreOpen, Current
  <2> QED  BY <2>1, <2>2, <2>3, <2>4 DEF Opening, CheckFlags, MarkOpening, Bind, BindFails, StoreSocket,
           ClearMap, UnmarkOpening
<1>8. DrainAt'
  <2>1. CASE UnmarkOpening(u)  BY <1>1, <1>2, <2>1 DEF UnmarkOpening, DrainAt, OpenSteps
  <2>2. CASE ~UnmarkOpening(u)
    <3>1. pc[u] \in OpenSteps \ {"unmark"}
      BY <2>2 DEF Opening, CheckFlags, MarkOpening, Bind, BindFails, StoreSocket, ClearMap, SpawnReader,
         StoreTask, StoreOpen, OpenSteps
    <3>2. \A s \in Sessions : reader[s].at # "drain"  BY <1>2, <3>1 DEF DrainAt
    <3>3. \A s \in Sessions : reader'[s] = reader[s] \/ reader'[s].at = "reading"
      <4>1. CASE SpawnReader(u)  BY <4>1 DEF SpawnReader, At
      <4>2. CASE ~SpawnReader(u)
        BY <4>2 DEF Opening, CheckFlags, MarkOpening, Bind, BindFails, StoreSocket, ClearMap, StoreTask,
           StoreOpen, UnmarkOpening
      <4> QED  BY <4>1, <4>2
    <3> QED  BY <3>2, <3>3 DEF DrainAt
  <2> QED  BY <2>1, <2>2
<1>9. MapAt'
  <2>1. CASE ClearMap(u)  BY <2>1 DEF ClearMap, MapAt
  <2>2. CASE SpawnReader(u) \/ StoreTask(u)  BY <2>2 DEF SpawnReader, StoreTask, MapAt
  <2>3. CASE StoreOpen(u)  BY <2>3 DEF StoreOpen, MapAt
  <2>4. CASE CheckFlags(u) \/ MarkOpening(u) \/ Bind(u) \/ BindFails(u) \/ StoreSocket(u) \/ UnmarkOpening(u)
    <3>1. UNCHANGED <<isOpen, reader, conns, late>> /\ pc[u] \notin {"spawn", "task", "open", "abort", "drop", "drain"}
      BY <2>4 DEF CheckFlags, MarkOpening, Bind, BindFails, StoreSocket, UnmarkOpening, mapVars, eventVars
    <3> QED  BY <1>2, <1>4, <3>1 DEF MapAt
  <2> QED  BY <2>1, <2>2, <2>3, <2>4 DEF Opening
<1> QED  BY <1>5, <1>6, <1>7, <1>8, <1>9

LEMMA PortClosing ==
  ASSUME TypeOK, PortInv, NEW u \in Users, Closing(u)
  PROVE  PortInv'
<1> USE DEF TypeOK, Step, Others
<1>1. ASSUME NEW p \in Tasks, NEW c \in Conns, Announce(p, c), UNCHANGED <<portVars, reader, aborted>>
      PROVE PortInv'
  BY <1>1, PortFrame DEF Announce, portVars
<1>2. CASE AnnounceConn(u)  BY <1>1, <1>2 DEF AnnounceConn, Tasks
<1>3. CASE ~AnnounceConn(u)
  <2> SUFFICES ASSUME orderly'  PROVE (Alone /\ ClosedAt /\ SocketAt /\ ReaderAt /\ DrainAt /\ MapAt)'
    BY DEF PortInv
  <2>1. /\ orderly /\ UNCHANGED <<mine, reader>>
        /\ pc[u] \in {"close", "abort", "drop", "drain", "announce"}
        /\ \E step \in {"idle", "abort", "drop", "drain", "announce"} :
             /\ pc' = [pc EXCEPT ![u] = step]
             /\ step = "abort" => isOpen
             /\ isOpen' = (isOpen /\ step # "abort" /\ pc[u] # "close")
             /\ pc[u] = "close" /\ step # "abort" => ~isOpen
             /\ step = "drop" => pc[u] = "abort"
    BY <1>3 DEF Closing, CloseDestroyed, Gate, AbortReader, DropSocket, DrainMap, AnnounceClose
  <2>2. Alone /\ ClosedAt /\ SocketAt /\ ReaderAt /\ DrainAt /\ MapAt  BY <2>1 DEF PortInv
  <2>3. \A v \in Users : pc[v] \notin OpenSteps /\ pc'[v] \notin OpenSteps
    BY <2>1, <2>2 DEF Alone, OpenSteps
  <2>4. Alone' /\ ClosedAt'  BY <2>1, <2>2, <2>3 DEF Alone, ClosedAt, OpenSteps
  <2>5. SocketAt'
    <3>1. socket' = socket \/ pc[u] = "drop"
      BY <1>3 DEF Closing, CloseDestroyed, Gate, AbortReader, DropSocket, DrainMap, AnnounceClose
    <3>2. isOpen' => isOpen /\ pc[u] # "drop"  BY <2>1, <2>2 DEF ClosedAt
    <3> QED  BY <2>2, <2>3, <3>1, <3>2 DEF SocketAt, OpenSteps
  <2>6. ReaderAt'
    <3>1. CASE AbortReader(u)
      <4>1. aborted' = aborted \cup ({recvTask} \ {None})  BY <3>1 DEF AbortReader
      <4>2. \A s \in Sessions : Current(s) => s = recvTask  BY <2>3 DEF Current, OpenSteps
      <4> QED  BY <2>1, <2>2, <4>1, <4>2 DEF ReaderAt, Sessions, None
    <3>2. CASE ~AbortReader(u)
      <4>1. UNCHANGED <<aborted, recvTask>> /\ pc[u] # "abort"
        BY <1>3, <3>2 DEF Closing, CloseDestroyed, Gate, DropSocket, DrainMap, AnnounceClose
      <4>2. \A s \in Sessions : Current(s) => Current(s)'  BY <2>1, <2>3, <4>1 DEF Current, OpenSteps
      <4> QED  BY <2>1, <2>2, <4>1, <4>2 DEF ReaderAt
    <3> QED  BY <3>1, <3>2
  <2>7. DrainAt'
    <3>1. aborted' = aborted \/ pc[u] = "abort"
      BY <1>3 DEF Closing, CloseDestroyed, Gate, AbortReader, DropSocket, DrainMap, AnnounceClose
    <3> QED  BY <2>1, <2>2, <3>1 DEF DrainAt, OpenSteps
  <2>8. MapAt'
    <3>1. CASE DrainMap(u)  BY <3>1 DEF DrainMap, Drain, MapAt
    <3>2. CASE CloseDestroyed(u)
      <4>1. UNCHANGED <<conns, late>>  BY <3>2 DEF CloseDestroyed, Gate, mapVars, eventVars
      <4> QED  BY <2>1, <2>2, <3>2, <4>1 DEF MapAt, CloseDestroyed, Gate
    <3>3. CASE AbortReader(u) \/ DropSocket(u)  BY <3>3 DEF AbortReader, DropSocket, MapAt
    <3>4. CASE AnnounceClose(u)
      <4>1. UNCHANGED <<conns, late, isOpen, reader>> /\ pc[u] = "announce"
        BY <3>4 DEF AnnounceClose, mapVars
      <4> QED  BY <2>1, <2>2, <4>1 DEF MapAt
    <3> QED  BY <1>3, <3>1, <3>2, <3>3, <3>4 DEF Closing
  <2> QED  BY <2>4, <2>5, <2>6, <2>7, <2>8
<1> QED  BY <1>2, <1>3

\* A receive task that enters a datagram has the port open, or enters it late.
LEMMA PortEntry ==
  ASSUME TypeOK, PortInv, NEW s \in Sessions, EnsureEntry(s)
  PROVE  PortInv'
<1> USE DEF TypeOK
<1> SUFFICES ASSUME orderly'  PROVE (Alone /\ ClosedAt /\ SocketAt /\ ReaderAt /\ DrainAt /\ MapAt)'
  BY DEF PortInv
<1>1. orderly /\ UNCHANGED <<pc, mine, isOpen, socket, recvTask, aborted>>
  BY DEF EnsureEntry, portVars
<1>2. Alone /\ ClosedAt /\ SocketAt /\ ReaderAt /\ DrainAt /\ MapAt  BY <1>1 DEF PortInv
<1>3. /\ reader[s].at = "holding" /\ reader'[s].at = "sending"
      /\ \A r \in Sessions : r # s => reader'[r] = reader[r]
  BY DEF EnsureEntry, Read
<1>4. (Alone /\ ClosedAt /\ SocketAt)'  BY <1>1, <1>2 DEF Alone, ClosedAt, SocketAt
<1>5. ReaderAt'  BY <1>1, <1>2, <1>3 DEF ReaderAt, Current, Live
<1>6. DrainAt'  BY <1>1, <1>2, <1>3 DEF DrainAt
<1>7. MapAt'
  <2>1. CASE s \notin aborted
    <3>1. isOpen \/ \E u \in Users : pc[u] \in {"task", "open", "abort"}
      BY <1>2, <1>3, <2>1 DEF ReaderAt, Current, Live
    <3> QED  BY <1>1, <3>1 DEF MapAt
  <2>2. CASE s \in aborted
    <3>1. PICK a \in Addrs, c \in Conns : conns' = [conns EXCEPT ![a] = c] /\ late' = late \cup {c}
      BY <2>2, ReaderKinds, EnsureEntryTimers DEF EnsureEntry, EnteredLate, EntryOf, Read
    <3>2. \A x \in Addrs : conns'[x] \in {conns[x], c}  BY <3>1
    <3>3. (\A x \in Addrs : conns[x] \in {None} \cup late) => \A x \in Addrs : conns'[x] \in {None} \cup late'
      BY <3>1, <3>2
    <3>4. (\E r \in Sessions : reader[r].at = "drain") => \E r \in Sessions : reader'[r].at = "drain"
      BY <1>3
    <3> QED  BY <1>1, <1>2, <3>3, <3>4 DEF MapAt
  <2> QED  BY <2>1, <2>2
<1> QED  BY <1>4, <1>5, <1>6, <1>7

\* Whoever finds the port open at its end is its only receive task that may still run.
LEMMA PortExit ==
  ASSUME TypeOK, PortInv, NEW s \in Sessions, Exit(s)
  PROVE  PortInv'
<1> USE DEF TypeOK
<1> SUFFICES ASSUME orderly'  PROVE (Alone /\ ClosedAt /\ SocketAt /\ ReaderAt /\ DrainAt /\ MapAt)'
  BY DEF PortInv
<1>1. /\ orderly /\ (isOpen => s \notin aborted) /\ ~isOpen' /\ (\A u \in Users : pc[u] # "flags")
      /\ UNCHANGED <<pc, mine, socket, recvTask, aborted, conns, late>>
  BY DEF Exit, mapVars, eventVars
<1>2. Alone /\ ClosedAt /\ SocketAt /\ ReaderAt /\ DrainAt /\ MapAt  BY <1>1 DEF PortInv
<1>3. /\ reader[s].at = "failed"
      /\ reader'[s].at = IF isOpen THEN "drain" ELSE "exited"
      /\ \A r \in Sessions : r # s => reader'[r] = reader[r]
  BY DEF Exit, Read, At
<1>4. (Alone /\ ClosedAt /\ SocketAt)'  BY <1>1, <1>2 DEF Alone, ClosedAt, SocketAt
<1>5. ReaderAt'
  <2>1. CASE isOpen
    <3>1. \A r \in Sessions : Current(r) => r = recvTask
      BY <1>2, <2>1 DEF Current, ClosedAt, OpenSteps
    <3>2. \A r \in Sessions : r # s => ~Current(r)  BY <1>1, <1>2, <1>3, <2>1, <3>1 DEF ReaderAt, Live
    <3> QED  BY <1>1, <1>2, <1>3, <2>1, <3>2 DEF ReaderAt, Live
  <2>2. CASE ~isOpen
    <3>1. \A r \in Sessions : Current(r) => Current(r)'  BY <1>1, <2>2 DEF Current
    <3> QED  BY <1>1, <1>2, <1>3, <2>2, <3>1 DEF ReaderAt, Live
  <2> QED  BY <2>1, <2>2
<1>6. DrainAt'
  <2>1. isOpen => \A u \in Users : pc[u] \notin (OpenSteps \ {"unmark"}) \cup {"abort"}
    BY <1>1, <1>2 DEF ClosedAt, OpenSteps
  <2> QED  BY <1>1, <1>2, <1>3, <2>1 DEF DrainAt
<1>7. MapAt'
  <2>1. CASE isOpen  BY <1>3, <2>1 DEF MapAt
  <2>2. CASE ~isOpen
    <3>1. \A r \in Sessions : reader[r].at = "drain" => reader'[r].at = "drain"  BY <1>3
    <3> QED  BY <1>1, <1>2, <2>2, <3>1 DEF MapAt
  <2> QED  BY <2>1, <2>2
<1> QED  BY <1>4, <1>5, <1>6, <1>7

LEMMA PortReading ==
  ASSUME TypeOK, PortInv, NEW s \in Sessions, Arrive(s) \/ SocketFails(s) \/ Running(s)
  PROVE  PortInv'
<1> USE DEF TypeOK, Read, At, portVars, mapVars, eventVars
<1>1. CASE EnsureEntry(s)  BY <1>1, PortEntry
<1>2. CASE Exit(s)  BY <1>2, PortExit
<1>3. CASE DrainExited(s)
  <2> SUFFICES ASSUME orderly  PROVE (Alone /\ ClosedAt /\ SocketAt /\ ReaderAt /\ DrainAt /\ MapAt)'
    BY <1>3 DEF DrainExited, PortInv
  <2>1. /\ UNCHANGED <<pc, mine, isOpen, socket, recvTask, aborted>>
        /\ \A r \in Sessions : reader'[r] = reader[r] \/ reader'[r].at = "announce"
    BY <1>3 DEF DrainExited
  <2>2. (Alone /\ ClosedAt /\ SocketAt)'  BY <2>1 DEF PortInv, Alone, ClosedAt, SocketAt
  <2>3. (ReaderAt /\ DrainAt)'  BY <2>1 DEF PortInv, ReaderAt, Current, DrainAt, Live
  <2>4. MapAt'  BY <1>3 DEF DrainExited, Drain, MapAt
  <2> QED  BY <2>2, <2>3, <2>4
<1>4. CASE AnnounceExited(s)
  <2>1. PICK c \in drained[s] : Announce(s, c)  BY <1>4 DEF AnnounceExited
  <2> QED  BY <1>4, <2>1, PortFrame DEF AnnounceExited, Announce
<1>5. CASE Stop(s)
  <2> SUFFICES ASSUME orderly  PROVE (Alone /\ ClosedAt /\ SocketAt /\ ReaderAt /\ DrainAt /\ MapAt)'
    BY <1>5 DEF Stop, PortInv
  <2>1. s \in aborted /\ reader[s].at # "drain"  BY <1>5 DEF Stop, PortInv, DrainAt
  <2>2. orderly' => orderly  BY <1>5 DEF Stop
  <2>3. UNCHANGED <<pc, mine, isOpen, socket, recvTask, aborted, conns, late>>  BY <1>5 DEF Stop
  <2>4. \A r \in Sessions : /\ reader'[r].at \in Live => reader[r].at \in Live
                            /\ reader'[r].at = "drain" <=> reader[r].at = "drain"
    BY <1>5, <2>1 DEF Stop, Live
  <2>5. PortInv' /\ orderly'  BY <1>5, <2>2, <2>3, <2>4, PortFrame DEF Stop
  <2> QED  BY <2>5 DEF PortInv
<1>6. CASE Arrive(s) \/ SocketFails(s) \/ Deliver(s) \/ Finish(s)
  <2>1. orderly' => orderly  BY <1>6 DEF Arrive, SocketFails, Deliver, Finish
  <2>2. UNCHANGED <<pc, mine, isOpen, socket, recvTask, aborted, conns, late>>
    BY <1>6 DEF Arrive, SocketFails, Deliver, Finish
  <2>3. \A r \in Sessions : /\ reader'[r].at \in Live => reader[r].at \in Live
                            /\ reader'[r].at = "drain" <=> reader[r].at = "drain"
    <3>1. CASE Arrive(s)  BY <3>1 DEF Arrive, Live
    <3>2. CASE SocketFails(s) \/ Deliver(s) \/ Finish(s)  BY <3>2 DEF SocketFails, Deliver, Finish, Live
    <3> QED  BY <1>6, <3>1, <3>2
  <2> QED  BY <2>1, <2>2, <2>3, PortFrame
<1> QED  BY <1>1, <1>2, <1>3, <1>4, <1>5, <1>6 DEF Running

LEMMA PortStep == TypeOK /\ PortInv /\ [Next]_vars => PortInv'
<1> SUFFICES ASSUME TypeOK, PortInv, [Next]_vars  PROVE PortInv'  OBVIOUS
<1>1. CASE UNCHANGED vars \/ WriteOnly  BY <1>1, PortFrame DEF vars, WriteOnly, portVars, mapVars, eventVars
<1>2. ASSUME NEW t \in Timers, Timing(t)  PROVE PortInv'
  <2>1. UNCHANGED <<portVars, reader, aborted, late, orderly>>  BY <1>2 DEF Timing, Wake, Remove, Evict, TimerOnly
  <2>2. \A a \in Addrs : conns'[a] \in {conns[a], None}
    BY <1>2 DEF Timing, Wake, Remove, Evict, TypeOK
  <2> QED  BY <2>1, <2>2, PortFrame DEF portVars
<1> QED  BY <1>1, <1>2, WriteChanges, PortBegin, PortOpening, PortClosing, PortReading DEF Next

\* A port that is closed and quiet has no connection but those a receive task entered after
\* close() had told it to stop, and no receive task but such a one, and an open port has its
\* socket; for any users, writers, sockets, hosts and datagrams, as long as no open() overlaps
\* another call than a write and no task told to stop ends a session that was opened since.
THEOREM QuietPortIsWhole == Spec => []PortIsWhole
<1>1. Init => PortInv
  BY DEF Init, PortInv, Alone, ClosedAt, SocketAt, ReaderAt, DrainAt, MapAt, OpenSteps, Live, At
<1>2. TypeOK /\ PortInv => PortIsWhole
  <2> SUFFICES ASSUME TypeOK, PortInv, orderly, Idle
               PROVE  IF isOpen THEN socket # None
                      ELSE /\ \A c \in Conns : InMap(c) => c \in late
                           /\ \A s \in Sessions : reader[s].at \in {"reading", "holding", "sending"} => s \in aborted
    BY DEF PortIsWhole
  <2>1. isOpen => socket # None  BY DEF PortInv, SocketAt
  <2>2. ~isOpen => \A c \in Conns : InMap(c) => c \in late
    BY DEF PortInv, MapAt, Idle, InMap, Conns, Datagrams, None
  <2>3. ~isOpen => \A s \in Sessions : reader[s].at \in Live => s \in aborted
    BY DEF PortInv, ReaderAt, Current, Idle
  <2> QED  BY <2>1, <2>2, <2>3 DEF Live
<1> QED  BY <1>1, <1>2, TypeCorrect, PortStep, PTL DEF Spec

-----------------------------------------------------------------------------
(* What keeps the socket of a receive task that was told to stop *)

Holding == {"store", "clear", "spawn", "task", "open", "unmark"}

\* A socket has a receive task from the spawn on, and only a task that was spawned is stored.
SpawnedAt ==
  /\ \A u \in Users : pc[u] \in Holding => mine[u] # None
  /\ \A u \in Users : pc[u] = "task" => reader[mine[u]].at # "none"
  /\ recvTask # None => reader[recvTask].at # "none"
  /\ \A s \in aborted : reader[s].at # "none"

\* Only a close() that has yet to drop it holds the socket of a task told to stop; and a task
\* that announces the end of its session is not told to.
DroppedAt == \A s \in aborted : socket = s => \E u \in Users : pc[u] = "drop"
UsedAt == \A u \in Users : pc[u] \in Holding => mine[u] \notin aborted
AnnounceAt ==
  \A s \in Sessions : reader[s].at = "announce" =>
    s \notin aborted /\ ~isOpen /\ \A u \in Users : pc[u] \notin (OpenSteps \ {"unmark"}) \cup {"abort"}

StoppedInv == orderly => DroppedAt /\ UsedAt /\ AnnounceAt

\* No step takes the receive task of a session away again.
LEMMA ReadersRemain ==
  ASSUME TypeOK, [Next]_vars, NEW s \in Sessions, reader'[s].at = "none"
  PROVE  reader[s].at = "none"
<1> USE DEF TypeOK, At
<1>1. ASSUME NEW r \in Sessions, Arrive(r) \/ SocketFails(r) \/ Running(r)  PROVE reader[s].at = "none"
  <2>1. CASE AnnounceExited(r)  BY <2>1 DEF AnnounceExited
  <2>2. CASE Stop(r)  BY <2>2 DEF Stop
  <2>3. CASE Arrive(r)  BY <2>3 DEF Arrive, Read
  <2>4. CASE EnsureEntry(r)  BY <2>4 DEF EnsureEntry, Read
  <2>5. CASE Exit(r)  BY <2>5 DEF Exit, Read
  <2>6. CASE SocketFails(r) \/ Deliver(r) \/ DrainExited(r) \/ Finish(r)
    BY <2>6 DEF SocketFails, Deliver, DrainExited, Finish, Read
  <2> QED  BY <1>1, <2>1, <2>2, <2>3, <2>4, <2>5, <2>6 DEF Running
<1>2. ASSUME NEW u \in Users, Opening(u)  PROVE reader[s].at = "none"
  <2>1. CASE SpawnReader(u)  BY <2>1 DEF SpawnReader
  <2>2. CASE ~SpawnReader(u)
    BY <1>2, <2>2 DEF Opening, CheckFlags, MarkOpening, Bind, BindFails, StoreSocket, ClearMap, StoreTask,
       StoreOpen, UnmarkOpening, Others
  <2> QED  BY <2>1, <2>2
<1>3. ASSUME NEW u \in Users, Open(u) \/ Close(u) \/ Destroy(u) \/ Closing(u)
      PROVE reader[s].at = "none"
  BY <1>3 DEF Open, Close, Destroy, Gate, Closing, CloseDestroyed, AbortReader, DropSocket,
     DrainMap, AnnounceConn, AnnounceClose, Others
<1>4. ASSUME NEW t \in Timers, Timing(t)  PROVE reader[s].at = "none"
  BY <1>4 DEF Timing, Wake, Remove, Evict, TimerOnly
<1>5. CASE UNCHANGED vars \/ WriteOnly  BY <1>5 DEF vars, WriteOnly
<1> QED  BY <1>1, <1>2, <1>3, <1>4, <1>5, WriteChanges DEF Next

\* What the stored task, the sockets and the aborted tasks depend on.
LEMMA SpawnedFrame ==
  ASSUME TypeOK, SpawnedAt, [Next]_vars, UNCHANGED <<mine, recvTask, aborted>>,
         \A u \in Users : /\ pc'[u] \in Holding => pc[u] \in Holding
                          /\ pc'[u] = "task" => pc[u] = "task"
  PROVE  SpawnedAt'
<1>1. \A u \in Users : pc[u] = "task" => mine[u] \in Sessions  BY DEF SpawnedAt, TypeOK, Holding
<1>2. recvTask # None => recvTask \in Sessions  BY DEF TypeOK
<1>3. \A s \in aborted : s \in Sessions  BY DEF TypeOK
<1> QED  BY <1>1, <1>2, <1>3, ReadersRemain DEF SpawnedAt

LEMMA SpawnedStep == TypeOK /\ SpawnedAt /\ [Next]_vars => SpawnedAt'
<1> SUFFICES ASSUME TypeOK, SpawnedAt, [Next]_vars  PROVE SpawnedAt'  OBVIOUS
<1> USE DEF TypeOK, Step, Others
<1>1. ASSUME NEW u \in Users, Open(u) \/ Close(u) \/ Destroy(u)  PROVE SpawnedAt'
  <2>1. PICK step \in {"flags", "close", "abort", "idle"} :
          Begin(u, step) /\ UNCHANGED <<mine, recvTask, aborted>>
    BY <1>1 DEF Open, Close, Destroy, Gate
  <2>2. pc' = [pc EXCEPT ![u] = step]  BY <2>1 DEF Begin
  <2> QED  BY <2>1, <2>2, SpawnedFrame DEF Holding
<1>2. ASSUME NEW u \in Users, Opening(u)  PROVE SpawnedAt'
  <2>1. CASE Bind(u)
    <3>1. PICK s \in Sessions : mine' = [mine EXCEPT ![u] = s]  BY <2>1 DEF Bind
    <3>2. pc' = [pc EXCEPT ![u] = "store"] /\ UNCHANGED <<recvTask, aborted, reader>>  BY <2>1 DEF Bind
    <3>3. s # None  BY DEF Sessions, None
    <3> QED  BY <3>1, <3>2, <3>3 DEF SpawnedAt, Holding
  <2>2. CASE SpawnReader(u)
    <3>1. mine[u] \in Sessions  BY <2>2 DEF SpawnReader, SpawnedAt, Holding
    <3>2. reader'[mine[u]].at = "reading"  BY <2>2, <3>1 DEF SpawnReader, At
    <3>3. pc' = [pc EXCEPT ![u] = "task"] /\ UNCHANGED <<mine, recvTask, aborted>> /\ pc[u] = "spawn"
      BY <2>2 DEF SpawnReader
    <3>4. \A v \in Users : pc[v] = "task" => mine[v] \in Sessions  BY DEF SpawnedAt, Holding
    <3>5. \A v \in Users : pc'[v] = "task" => reader'[mine[v]].at # "none"
      BY <3>2, <3>3, <3>4, ReadersRemain DEF SpawnedAt
    <3>6. \A s \in Sessions : s \in aborted \cup {recvTask} => reader'[s].at # "none"
      BY ReadersRemain DEF SpawnedAt, None, Sessions
    <3> QED  BY <3>3, <3>5, <3>6 DEF SpawnedAt, Holding
  <2>3. CASE StoreTask(u)
    <3>1. recvTask' = mine[u] /\ reader[mine[u]].at # "none" /\ UNCHANGED <<mine, aborted, reader>>
      BY <2>3 DEF StoreTask, SpawnedAt
    <3>2. pc' = [pc EXCEPT ![u] = "open"] /\ pc[u] = "task"  BY <2>3 DEF StoreTask
    <3> QED  BY <3>1, <3>2 DEF SpawnedAt, Holding
  <2>4. CASE ~Bind(u) /\ ~SpawnReader(u) /\ ~StoreTask(u)
    <3>1. /\ UNCHANGED <<mine, recvTask, aborted>>
          /\ \E step \in {"idle", "mark", "bind", "clear", "spawn", "open", "unmark"} :
               pc' = [pc EXCEPT ![u] = step] /\ (step \in Holding => pc[u] \in Holding)
      BY <1>2, <2>4 DEF Opening, CheckFlags, MarkOpening, BindFails, StoreSocket, ClearMap, StoreOpen,
         UnmarkOpening, Holding
    <3>2. \A v \in Users : /\ pc'[v] \in Holding => pc[v] \in Holding
                           /\ pc'[v] = "task" => pc[v] = "task"
      BY <3>1
    <3> QED  BY <3>1, <3>2, SpawnedFrame
  <2> QED  BY <2>1, <2>2, <2>3, <2>4
<1>3. ASSUME NEW u \in Users, Closing(u)  PROVE SpawnedAt'
  <2>1. \A v \in Users : /\ pc'[v] \in Holding => pc[v] \in Holding
                         /\ pc'[v] = "task" => pc[v] = "task"
    BY <1>3 DEF Closing, CloseDestroyed, AbortReader, DropSocket, DrainMap, AnnounceConn,
       AnnounceClose, portVars, Holding
  <2>2. CASE AbortReader(u)
    <3>1. aborted' = aborted \cup ({recvTask} \ {None}) /\ recvTask' = None /\ UNCHANGED <<mine, reader>>
      BY <2>2 DEF AbortReader
    <3>2. UNCHANGED reader /\ \A s \in aborted' : reader[s].at # "none"  BY <3>1 DEF SpawnedAt
    <3> QED  BY <2>1, <3>1, <3>2 DEF SpawnedAt
  <2>3. CASE ~AbortReader(u)
    <3>1. UNCHANGED <<mine, recvTask, aborted>>
      BY <1>3, <2>3 DEF Closing, CloseDestroyed, Gate, DropSocket, DrainMap, AnnounceConn,
         AnnounceClose, portVars
    <3> QED  BY <2>1, <3>1, SpawnedFrame
  <2> QED  BY <2>2, <2>3
<1>4. ASSUME NEW s \in Sessions, Arrive(s) \/ SocketFails(s) \/ Running(s)  PROVE SpawnedAt'
  <2>1. UNCHANGED <<pc, mine, recvTask, aborted>>
    BY <1>4 DEF Arrive, SocketFails, Running, EnsureEntry, Deliver, Exit, DrainExited, AnnounceExited, Finish,
       Stop, portVars
  <2> QED  BY <2>1, SpawnedFrame
<1>5. ASSUME NEW t \in Timers, Timing(t)  PROVE SpawnedAt'
  <2>1. UNCHANGED <<pc, mine, recvTask, aborted>>
    BY <1>5 DEF Timing, Wake, Remove, Evict, TimerOnly, portVars
  <2> QED  BY <2>1, SpawnedFrame
<1>6. CASE UNCHANGED vars \/ WriteOnly
  <2>1. UNCHANGED <<pc, mine, recvTask, aborted>>  BY <1>6 DEF vars, WriteOnly, portVars
  <2> QED  BY <2>1, SpawnedFrame
<1> QED  BY <1>1, <1>2, <1>3, <1>4, <1>5, <1>6, WriteChanges DEF Next

\* What happens to a receive task and the connections between the statements of open() and close().
LEMMA StoppedFrame ==
  ASSUME StoppedInv, orderly' => orderly, UNCHANGED <<pc, mine, socket, aborted>>, isOpen' => isOpen,
         \A s \in Sessions : reader'[s].at = "announce" => reader[s].at = "announce"
  PROVE  StoppedInv'
BY DEF StoppedInv, DroppedAt, UsedAt, AnnounceAt

LEMMA StoppedBegin ==
  ASSUME TypeOK, StoppedInv, NEW u \in Users,
         Open(u) \/ Close(u) \/ Destroy(u)
  PROVE  StoppedInv'
<1> USE DEF TypeOK
<1> SUFFICES ASSUME orderly'  PROVE (DroppedAt /\ UsedAt /\ AnnounceAt)'
  BY DEF StoppedInv
<1>1. PICK step \in {"flags", "close", "abort", "idle"} :
        /\ Begin(u, step)
        /\ isOpen' => isOpen
        /\ step = "abort" => isOpen
        /\ UNCHANGED <<mine, socket, reader, aborted>>
  BY DEF Open, Close, Destroy, Gate
<1>2. orderly /\ Quiet(u, step) /\ pc[u] = "idle" /\ pc' = [pc EXCEPT ![u] = step]
  BY <1>1 DEF Begin, Step
<1>3. DroppedAt /\ UsedAt /\ AnnounceAt  BY <1>2 DEF StoppedInv
<1>4. DroppedAt'  BY <1>1, <1>2, <1>3 DEF DroppedAt
<1>5. UsedAt'  BY <1>1, <1>2, <1>3 DEF UsedAt, Holding
<1>6. AnnounceAt'
  <2>1. step = "flags" => \A s \in Sessions : reader[s].at # "announce"  BY <1>2 DEF Quiet, Ending
  <2> QED  BY <1>1, <1>2, <1>3, <2>1 DEF AnnounceAt, OpenSteps
<1> QED  BY <1>4, <1>5, <1>6

\* A socket that is bound was never that of a task told to stop.
LEMMA StoppedOpening ==
  ASSUME TypeOK, PortInv, SpawnedAt, StoppedInv, NEW u \in Users, Opening(u)
  PROVE  StoppedInv'
<1> USE DEF TypeOK, Step, Others
<1> SUFFICES ASSUME orderly'  PROVE (DroppedAt /\ UsedAt /\ AnnounceAt)'
  BY DEF StoppedInv
<1>1. orderly /\ UNCHANGED aborted /\ pc[u] \in OpenSteps
  BY DEF Opening, CheckFlags, MarkOpening, Bind, BindFails, StoreSocket, ClearMap, SpawnReader, StoreTask,
     StoreOpen, UnmarkOpening, OpenSteps
<1>2. Alone /\ DroppedAt /\ UsedAt /\ AnnounceAt  BY <1>1 DEF PortInv, StoppedInv
<1>3. \A v \in Users : v # u => pc[v] = "idle" /\ pc'[v] = "idle"
  <2>1. \A v \in Users : v # u => pc[v] = "idle"  BY <1>1, <1>2 DEF Alone
  <2> QED  BY <2>1 DEF Opening, CheckFlags, MarkOpening, Bind, BindFails, StoreSocket, ClearMap, SpawnReader,
           StoreTask, StoreOpen, UnmarkOpening
<1>4. DroppedAt'
  <2>1. \A s \in aborted : socket # s  BY <1>1, <1>2, <1>3 DEF DroppedAt, OpenSteps
  <2>2. CASE StoreSocket(u)
    <3>1. socket' = mine[u] /\ mine[u] \notin aborted  BY <1>2, <2>2 DEF StoreSocket, UsedAt, Holding
    <3> QED  BY <1>1, <3>1 DEF DroppedAt
  <2>3. CASE ~StoreSocket(u)
    <3>1. UNCHANGED socket
      BY <2>3 DEF Opening, CheckFlags, MarkOpening, Bind, BindFails, ClearMap, SpawnReader, StoreTask, StoreOpen,
         UnmarkOpening
    <3> QED  BY <1>1, <2>1, <3>1 DEF DroppedAt
  <2> QED  BY <2>2, <2>3
<1>5. UsedAt'
  <2>1. CASE Bind(u)
    <3>1. PICK s \in Sessions : /\ mine' = [mine EXCEPT ![u] = s]
                                /\ \A r \in Sessions : r < s <=> reader[r].at # "none" \/ \E v \in Users : mine[v] = r
      BY <2>1 DEF Bind
    <3>2. reader[s].at = "none"  BY <3>1 DEF Sessions
    <3>3. s \notin aborted  BY <3>2 DEF SpawnedAt
    <3> QED  BY <1>1, <1>3, <3>1, <3>3 DEF UsedAt, Holding
  <2>2. CASE ~Bind(u)
    <3>1. UNCHANGED mine /\ (pc'[u] \in Holding => pc[u] \in Holding)
      BY <2>2 DEF Opening, CheckFlags, MarkOpening, BindFails, StoreSocket, ClearMap, SpawnReader, StoreTask,
         StoreOpen, UnmarkOpening, Holding
    <3> QED  BY <1>1, <1>2, <1>3, <3>1 DEF UsedAt, Holding
  <2> QED  BY <2>1, <2>2
<1>6. AnnounceAt'
  <2>1. CASE UnmarkOpening(u)
    <3>1. UNCHANGED <<reader, isOpen>> /\ pc' = [pc EXCEPT ![u] = "idle"]  BY <2>1 DEF UnmarkOpening
    <3> QED  BY <1>1, <1>2, <3>1 DEF AnnounceAt, OpenSteps
  <2>2. CASE ~UnmarkOpening(u)
    <3>1. pc[u] \in OpenSteps \ {"unmark"}
      BY <2>2 DEF Opening, CheckFlags, MarkOpening, Bind, BindFails, StoreSocket, ClearMap, SpawnReader,
         StoreTask, StoreOpen, OpenSteps
    <3>2. \A s \in Sessions : reader[s].at # "announce"  BY <1>2, <3>1 DEF AnnounceAt
    <3>3. \A s \in Sessions : reader'[s] = reader[s] \/ reader'[s].at = "reading"
      <4>1. CASE SpawnReader(u)  BY <4>1 DEF SpawnReader, At
      <4>2. CASE ~SpawnReader(u)
        BY <4>2 DEF Opening, CheckFlags, MarkOpening, Bind, BindFails, StoreSocket, ClearMap, StoreTask,
           StoreOpen, UnmarkOpening
      <4> QED  BY <4>1, <4>2
    <3> QED  BY <3>2, <3>3 DEF AnnounceAt
  <2> QED  BY <2>1, <2>2
<1> QED  BY <1>4, <1>5, <1>6

\* close() tells no task to stop that announces, nor one whose socket an open() holds.
LEMMA StoppedClosing ==
  ASSUME TypeOK, PortInv, StoppedInv, NEW u \in Users, Closing(u)
  PROVE  StoppedInv'
<1> USE DEF TypeOK, Step, Others
<1> SUFFICES ASSUME orderly'  PROVE (DroppedAt /\ UsedAt /\ AnnounceAt)'
  BY DEF StoppedInv
<1>1. CASE AnnounceConn(u)
  <2>1. PICK c \in drained[u] : Announce(u, c)  BY <1>1 DEF AnnounceConn
  <2>2. orderly' => orderly  BY <2>1 DEF Announce
  <2>3. UNCHANGED <<pc, mine, socket, aborted, isOpen, reader>>  BY <1>1 DEF AnnounceConn, portVars
  <2>4. StoppedInv'  BY <2>2, <2>3, StoppedFrame
  <2> QED  BY <2>4 DEF StoppedInv
<1>2. CASE ~AnnounceConn(u)
  <2>1. /\ orderly /\ UNCHANGED <<mine, reader>>
        /\ pc[u] \in {"close", "abort", "drop", "drain", "announce"}
        /\ isOpen' => isOpen
        /\ \A v \in Users : v # u => pc'[v] = pc[v]
        /\ pc'[u] \in {"idle", "abort", "drop", "drain", "announce"}
        /\ pc'[u] = "abort" => isOpen
    <3>1. CASE CloseDestroyed(u)  BY <3>1 DEF CloseDestroyed, Gate
    <3>3. CASE AbortReader(u)  BY <3>3 DEF AbortReader
    <3>4. CASE DropSocket(u)  BY <3>4 DEF DropSocket
    <3>5. CASE DrainMap(u)  BY <3>5 DEF DrainMap
    <3>6. CASE AnnounceClose(u)  BY <3>6 DEF AnnounceClose
    <3> QED  BY <1>2, <3>1, <3>3, <3>4, <3>5, <3>6 DEF Closing
  <2>2. Alone /\ DroppedAt /\ UsedAt /\ AnnounceAt  BY <2>1 DEF PortInv, StoppedInv
  <2>3. \A v \in Users : pc'[v] \notin OpenSteps  BY <2>1, <2>2 DEF Alone, OpenSteps
  <2>4. CASE AbortReader(u)
    <3>1. /\ pc[u] = "abort" /\ pc'[u] = "drop" /\ UNCHANGED <<socket, isOpen>>
          /\ aborted' = aborted \cup ({recvTask} \ {None})
      BY <2>4 DEF AbortReader
    <3>2. DroppedAt'  BY <3>1 DEF DroppedAt
    <3>3. UsedAt'  BY <2>3 DEF UsedAt, Holding, OpenSteps
    <3>4. AnnounceAt'
      <4>1. \A s \in Sessions : reader[s].at # "announce"  BY <2>2, <3>1 DEF AnnounceAt
      <4> QED  BY <2>1, <4>1 DEF AnnounceAt
    <3> QED  BY <3>2, <3>3, <3>4
  <2>5. CASE ~AbortReader(u)
    <3>1. UNCHANGED aborted
      BY <1>2, <2>5 DEF Closing, CloseDestroyed, Gate, DropSocket, DrainMap, AnnounceClose
    <3>2. DroppedAt'
      <4>1. CASE DropSocket(u)
        <5>1. socket' = None  BY <4>1 DEF DropSocket
        <5> QED  BY <3>1, <5>1 DEF DroppedAt, Sessions, None
      <4>2. CASE ~DropSocket(u)
        <5>1. UNCHANGED socket /\ pc[u] # "drop"
          BY <1>2, <2>5, <4>2 DEF Closing, CloseDestroyed, Gate, DrainMap, AnnounceClose
        <5> QED  BY <2>1, <2>2, <3>1, <5>1 DEF DroppedAt
      <4> QED  BY <4>1, <4>2
    <3>3. UsedAt'  BY <2>3 DEF UsedAt, Holding, OpenSteps
    <3>4. AnnounceAt'  BY <2>1, <2>2, <2>3, <3>1 DEF AnnounceAt
    <3> QED  BY <3>2, <3>3, <3>4
  <2> QED  BY <2>4, <2>5
<1> QED  BY <1>1, <1>2

LEMMA StoppedReading ==
  ASSUME TypeOK, PortInv, StoppedInv, NEW s \in Sessions, Arrive(s) \/ SocketFails(s) \/ Running(s)
  PROVE  StoppedInv'
<1> USE DEF TypeOK, Read, At
<1>1. UNCHANGED <<pc, mine, socket, aborted>> /\ (isOpen' => isOpen)
  BY DEF Arrive, SocketFails, Running, EnsureEntry, Deliver, Exit, DrainExited, AnnounceExited, Finish, Stop,
     portVars
<1>2. orderly' => orderly
  <2>1. CASE AnnounceExited(s)
    <3>1. PICK c \in drained[s] : Announce(s, c)  BY <2>1 DEF AnnounceExited
    <3> QED  BY <3>1 DEF Announce
  <2>2. CASE EnsureEntry(s)  BY <2>2 DEF EnsureEntry
  <2> QED  BY <2>1, <2>2 DEF Arrive, SocketFails, Running, Deliver, Exit, DrainExited, Finish, Stop
<1>3. CASE DrainExited(s)
  <2> SUFFICES ASSUME orderly  PROVE (DroppedAt /\ UsedAt /\ AnnounceAt)'
    BY <1>2 DEF StoppedInv
  <2>1. /\ s \notin aborted /\ ~isOpen /\ \A u \in Users : pc[u] \notin (OpenSteps \ {"unmark"}) \cup {"abort"}
    BY <1>3 DEF DrainExited, PortInv, DrainAt
  <2>2. \A r \in Sessions : r # s => reader'[r] = reader[r]  BY <1>3 DEF DrainExited
  <2> QED  BY <1>1, <2>1, <2>2 DEF StoppedInv, DroppedAt, UsedAt, AnnounceAt
<1>4. CASE ~DrainExited(s)
  <2>1. \A r \in Sessions : reader'[r].at = "announce" => reader[r].at = "announce"
    <3>1. CASE Arrive(s)  BY <3>1 DEF Arrive
    <3>2. CASE EnsureEntry(s)  BY <3>2 DEF EnsureEntry
    <3>3. CASE Exit(s)  BY <3>3 DEF Exit
    <3>4. CASE ~Arrive(s) /\ ~EnsureEntry(s) /\ ~Exit(s)
      BY <1>4, <3>4 DEF SocketFails, Running, Deliver, AnnounceExited, Finish, Stop
    <3> QED  BY <3>1, <3>2, <3>3, <3>4
  <2> QED  BY <1>1, <1>2, <2>1, StoppedFrame
<1> QED  BY <1>3, <1>4

LEMMA StoppedStep == TypeOK /\ PortInv /\ SpawnedAt /\ StoppedInv /\ [Next]_vars => StoppedInv'
<1> SUFFICES ASSUME TypeOK, PortInv, SpawnedAt, StoppedInv, [Next]_vars  PROVE StoppedInv'  OBVIOUS
<1>1. CASE UNCHANGED vars \/ WriteOnly  BY <1>1, StoppedFrame DEF vars, WriteOnly, portVars
<1>2. ASSUME NEW t \in Timers, Timing(t)  PROVE StoppedInv'
  <2>1. UNCHANGED <<pc, mine, socket, aborted, isOpen, reader, orderly>>
    BY <1>2 DEF Timing, Wake, Remove, Evict, TimerOnly, portVars
  <2> QED  BY <2>1, StoppedFrame
<1> QED  BY <1>1, <1>2, WriteChanges, StoppedBegin, StoppedOpening, StoppedClosing, StoppedReading DEF Next

\* Once close() has told a receive task to stop, nothing but the task itself, on its way to
\* its end, a close() that is about to drop it, and the write()s and response closures it was
\* lent to keep the socket: no later open(), end of a session or eviction takes it up again;
\* as long as no open() overlaps another call than a write and no task told to stop ends a
\* session that was opened since.
THEOREM SocketIsReleased == Spec => []ReleaseIsNear
<1>1. Init => PortInv
  BY DEF Init, PortInv, Alone, ClosedAt, SocketAt, ReaderAt, DrainAt, MapAt, OpenSteps, Live, At
<1>2. Init => SpawnedAt /\ StoppedInv
  BY DEF Init, SpawnedAt, StoppedInv, DroppedAt, UsedAt, AnnounceAt, Holding, At
<1>3. TypeOK /\ PortInv /\ StoppedInv => ReleaseIsNear
  <2> SUFFICES ASSUME TypeOK, PortInv, StoppedInv, orderly, NEW s \in aborted, Held(s)
               PROVE  \/ reader[s].at \in {"reading", "holding", "failed", "sending"}
                      \/ socket = s /\ \E u \in Users : pc[u] = "drop"
                      \/ s \in lent
    BY DEF ReleaseIsNear
  <2>1. s \in Sessions  BY DEF TypeOK
  <2>2. CASE socket = s  BY <2>2 DEF StoppedInv, DroppedAt
  <2>3. CASE reader[s].at \notin {"none", "exited", "stopped"}
    <3>1. reader[s].at \notin {"drain", "announce"}  BY <2>1 DEF PortInv, DrainAt, StoppedInv, AnnounceAt
    <3>2. reader[s] \in ReaderStates  BY <2>1 DEF TypeOK
    <3>3. reader[s].at \in {"none", "reading", "failed", "drain", "announce", "exited", "stopped", "holding", "sending"}
      BY <3>2 DEF ReaderStates
    <3> QED  BY <2>3, <3>1, <3>3
  <2>4. CASE \E u \in Users : mine[u] = s /\ pc[u] \in Holding  BY <2>4 DEF StoppedInv, UsedAt
  <2> QED  BY <2>2, <2>3, <2>4 DEF Held, Holding
<1> QED  BY <1>1, <1>2, <1>3, TypeCorrect, PortStep, SpawnedStep, StoppedStep, PTL DEF Spec
=============================================================================
