-------------------------- MODULE SlaveQueuesProofs --------------------------
(***************************************************************************)
(* What is proved of SlaveQueues for every set of connections and every    *)
(* bound: its types, that every queue has a drain whatever is closed or    *)
(* reopened meanwhile, that a slave that is never closed processes the     *)
(* requests of a connection one at a time, and that one that is opened     *)
(* once starts them in the order they arrived, and none of them twice.     *)
(***************************************************************************)
EXTENDS SlaveQueues, TLAPS

-----------------------------------------------------------------------------
(* Types *)

LEMMA RemoveTypes ==
  ASSUME TypeOK, NEW C \in SUBSET Conns, Remove(C)
  PROVE  entries' \subseteq Conns /\ items' \in [Conns -> Seq(Frames)] /\ processing' \subseteq Conns /\ stuck' \subseteq Conns
BY DEF TypeOK, Remove

LEMMA EmitTypes ==
  ASSUME TypeOK, NEW C \in SUBSET Conns, EmitConnectionClose(C)
  PROVE  closedConns' \in [Receivers -> SUBSET Conns]
BY DEF TypeOK, EmitConnectionClose

LEMMA InitTypes == Init => TypeOK
BY QueuesAssumption DEF Init, TypeOK, Receivers, AdmSteps, DrainSteps

LEMMA TakeTypes ==
  ASSUME UNCHANGED mode, TypeOK, NEW r \in Receivers, Take(r)
  PROVE  TypeOK'
<1> USE DEF adminVars, linkVars, queueVars, drainVars
<1> DEFINE f == Head(inbox[r])
<1> DEFINE d == [spawner |-> f, receiver |-> r]
<1>1. inbox[r] \in Seq(Frames) /\ inbox[r] # <<>>
  BY DEF Take, TypeOK
<1>2. f \in Frames /\ Tail(inbox[r]) \in Seq(Frames)
  BY <1>1
<1>3. d \in Drains
  BY <1>2 DEF Drains
<1>4. inbox' \in [Receivers -> Seq(Frames)]
  BY <1>2 DEF Take, TypeOK
<1> HIDE DEF f
<1>5. hand' \in [Receivers -> Frames \cup {NoFrame}]
  BY <1>2 DEF Take, TypeOK, f
<1>6. drain' \in [Drains -> DrainSteps] /\ job' \in [Drains -> Frames \cup {NoFrame}] /\ served' \subseteq Frames
  BY <1>2, <1>3 DEF Take, TypeOK, f, Spawn, Serve, DrainSteps
<1> QED
  BY <1>4, <1>5, <1>6 DEF Take, TypeOK

LEMMA EnqueueTypes ==
  ASSUME UNCHANGED mode, TypeOK, NEW r \in Receivers, Enqueue(r)
  PROVE  TypeOK'
<1> USE DEF adminVars, linkVars, eventVars
<1>1. hand[r] \in Frames /\ hand[r].conn \in Conns
  BY DEF Enqueue, TypeOK, Frames
<1>2. [spawner |-> hand[r], receiver |-> r] \in Drains
  BY <1>1 DEF Drains
<1>3. hand' \in [Receivers -> Frames \cup {NoFrame}]
  BY DEF Enqueue, TypeOK, PushBack
<1>4. entries' \subseteq Conns /\ items' \in [Conns -> Seq(Frames)] /\ processing' \subseteq Conns /\ stuck' \subseteq Conns
  BY <1>1 DEF Enqueue, TypeOK, PushBack
<1>5. drain' \in [Drains -> DrainSteps]
  BY <1>2 DEF Enqueue, TypeOK, Spawn, DrainSteps, NeedsDrain
<1> QED
  BY <1>3, <1>4, <1>5 DEF Enqueue, TypeOK, PushBack

LEMMA DrainTypes ==
  ASSUME UNCHANGED mode, TypeOK, NEW d \in Drains, Drain(d)
  PROVE  TypeOK'
<1> USE DEF adminVars, linkVars, eventVars, queueVars
<1>1. d.spawner \in Frames /\ d.spawner.conn \in Conns
  BY DEF Drains, Frames
<1> DEFINE c == d.spawner.conn
<1>2. CASE Pop(d)
  <2>1. items[c] # <<>> => Head(items[c]) \in Frames /\ Tail(items[c]) \in Seq(Frames)
    BY <1>1 DEF TypeOK
  <2>2. items' \in [Conns -> Seq(Frames)]
    BY <1>1, <1>2, <2>1 DEF Pop, TypeOK, PopFront
  <2>4. job' \in [Drains -> Frames \cup {NoFrame}] /\ served' \subseteq Frames
    <3>1. CASE UNCHANGED <<job, served>>  BY <3>1 DEF TypeOK
    <3>2. CASE items[c] # <<>> /\ Serve(d, Head(items[c]))  BY <2>1, <3>2 DEF TypeOK, Serve
    <3> QED  BY <1>2, <3>1, <3>2 DEF Pop
  <2>3. drain' \in [Drains -> DrainSteps]
    BY <1>2 DEF Pop, TypeOK, Spawn, DrainSteps
  <2> QED
    BY <1>2, <2>2, <2>3, <2>4 DEF Pop, TypeOK, PopFront
<1>3. CASE Finish(d)
  BY <1>3 DEF Finish, TypeOK, Spawn, DrainSteps
<1>5. CASE Panic(d)
  BY <1>1, <1>5 DEF Panic, TypeOK, Spawn, DrainSteps
<1>6. CASE Start(d)
  BY <1>1, <1>6 DEF Start, TypeOK, Spawn, Serve, DrainSteps
<1>4. CASE Settle(d)
  <2>1. {c} \in SUBSET Conns
    BY <1>1
  <2>2. entries' \subseteq Conns /\ items' \in [Conns -> Seq(Frames)] /\ processing' \subseteq Conns /\ stuck' \subseteq Conns
    BY <1>4, <2>1, RemoveTypes DEF Settle, TypeOK
  <2>3. drain' \in [Drains -> DrainSteps]
    BY <1>4 DEF Settle, TypeOK, Spawn, DrainSteps
  <2> QED
    BY <1>4, <2>2, <2>3 DEF Settle, TypeOK
<1> QED
  BY <1>2, <1>3, <1>4, <1>5, <1>6 DEF Drain

LEMMA ClosedTypes ==
  ASSUME UNCHANGED mode, TypeOK, NEW r \in Receivers,
         PortClosed(r) \/ \E c \in Conns : ConnectionClosed(r, c)
  PROVE  TypeOK'
<1> USE DEF adminVars, linkVars, drainVars
<1>1. CASE PortClosed(r)
  <2>1. entries' \subseteq Conns /\ items' \in [Conns -> Seq(Frames)] /\ processing' \subseteq Conns /\ stuck' \subseteq Conns
    BY <1>1, RemoveTypes DEF PortClosed
  <2>2. closedPort' \in [Receivers -> Nat]
    BY <1>1 DEF PortClosed, TypeOK
  <2> QED
    BY <1>1, <2>1, <2>2 DEF PortClosed, TypeOK
<1>2. ASSUME NEW c \in Conns, ConnectionClosed(r, c)
      PROVE  TypeOK'
  <2>1. {c} \in SUBSET Conns
    OBVIOUS
  <2>2. entries' \subseteq Conns /\ items' \in [Conns -> Seq(Frames)] /\ processing' \subseteq Conns /\ stuck' \subseteq Conns
    <3>1. CASE c \in entries \cap processing
      <4>1. items' = [items EXCEPT ![c] = <<>>] /\ UNCHANGED <<entries, processing, stuck>>
        BY <1>2, <3>1 DEF ConnectionClosed
      <4>2. <<>> \in Seq(Frames)
        OBVIOUS
      <4> QED
        BY <4>1, <4>2 DEF TypeOK
    <3>2. CASE c \notin entries \cap processing
      BY <1>2, <2>1, <3>2, RemoveTypes DEF ConnectionClosed
    <3> QED
      BY <3>1, <3>2
  <2>3. closedConns' \in [Receivers -> SUBSET Conns]
    BY <1>2 DEF ConnectionClosed, TypeOK
  <2> QED
    BY <1>2, <2>2, <2>3 DEF ConnectionClosed, TypeOK
<1> QED
  BY <1>1, <1>2

LEMMA AdministratorTypes ==
  ASSUME UNCHANGED mode, TypeOK, Administrator
  PROVE  TypeOK'
<1> USE DEF linkVars, eventVars, queueVars, drainVars
<1> USE DEF AdmSteps
<1>1. CASE Close
  BY <1>1 DEF Close, TypeOK
<1>2. CASE Destroy
  BY <1>2 DEF Destroy, TypeOK
<1>3. CASE Clear
  BY <1>3, RemoveTypes DEF Clear, TypeOK
<1>4. CASE Abort
  BY <1>4 DEF Abort, TypeOK
<1>5. CASE ClosePort
  <2>1. conns' \in [Conns -> {"new", "up", "down"}]
    BY <1>5 DEF ClosePort, TypeOK
  <2>2. closedConns' \in [Receivers -> SUBSET Conns]
    <3>1. {c \in Conns : conns[c] = "up"} \in SUBSET Conns
      OBVIOUS
    <3> QED
      BY <1>5, <3>1, EmitTypes DEF ClosePort, TypeOK
  <2>3. closedPort' \in [Receivers -> Nat]
    <3>1. closedPort \in [Receivers -> Nat]
      BY DEF TypeOK
    <3>2. EmitClose => closedPort' \in [Receivers -> Nat]
      BY <3>1 DEF EmitClose
    <3>3. EmitClose \/ UNCHANGED closedPort
      BY <1>5 DEF ClosePort
    <3> QED
      BY <3>1, <3>2, <3>3
  <2>4. port' \in {"closed", "open", "destroyed"}
    BY <1>5 DEF ClosePort, TypeOK
  <2> QED
    BY <1>5, <2>1, <2>2, <2>3, <2>4 DEF ClosePort, TypeOK
<1>6. CASE Open
  BY <1>6, QueuesAssumption DEF Open, TypeOK, Receivers
<1>7. CASE OpenClear
  BY <1>7, RemoveTypes DEF OpenClear, TypeOK
<1>8. CASE Subscribe
  BY <1>8 DEF Subscribe, TypeOK
<1>9. CASE OpenPort
  BY <1>9 DEF OpenPort, TypeOK
<1> QED
  BY <1>1, <1>2, <1>3, <1>4, <1>5, <1>6, <1>7, <1>8, <1>9 DEF Administrator

LEMMA ArriveTypes ==
  ASSUME UNCHANGED mode, TypeOK, NEW c \in Conns, Arrive(c)
  PROVE  TypeOK'
<1> USE DEF adminVars, queueVars, drainVars
<1> DEFINE f == [conn |-> c, seq |-> sent[c] + 1]
<1>1. sent[c] + 1 \in 1 .. MaxFrames /\ sent' \in [Conns -> 0 .. MaxFrames]
  BY QueuesAssumption DEF Arrive, TypeOK
<1>2. f \in Frames
  BY <1>1 DEF Frames
<1>3. ASSUME NEW r \in Receivers
      PROVE  Append(IF Len(inbox[r]) = ChanCap THEN Tail(inbox[r]) ELSE inbox[r], f) \in Seq(Frames)
  <2>1. inbox[r] \in Seq(Frames) /\ (Len(inbox[r]) = ChanCap => inbox[r] # <<>>)
    BY QueuesAssumption DEF TypeOK
  <2> QED
    BY <1>2, <2>1
<1> HIDE DEF f
<1>4. inbox' \in [Receivers -> Seq(Frames)]
  BY <1>3 DEF Arrive, TypeOK, f
<1> QED
  BY <1>1, <1>4 DEF Arrive, TypeOK

LEMMA LinkTypes ==
  ASSUME UNCHANGED mode, TypeOK, ListenerFails \/ \E c \in Conns : Connect(c) \/ Disconnect(c) \/ Arrive(c)
  PROVE  TypeOK'
<1> USE DEF adminVars, queueVars, drainVars
<1>1. CASE ListenerFails
  BY <1>1 DEF ListenerFails, TypeOK, EmitClose
<1>2. ASSUME NEW c \in Conns, Connect(c)
      PROVE  TypeOK'
  BY <1>2 DEF Connect, TypeOK, eventVars
<1>3. ASSUME NEW c \in Conns, Disconnect(c)
      PROVE  TypeOK'
  BY <1>3 DEF Disconnect, TypeOK, EmitConnectionClose
<1> QED
  BY <1>1, <1>2, <1>3, ArriveTypes

LEMMA TypesPreserved == TypeOK /\ [Next]_vars => TypeOK'
<1> SUFFICES ASSUME TypeOK, [Next]_vars PROVE TypeOK'
  OBVIOUS
<1>1. CASE UNCHANGED vars
  BY <1>1 DEF vars, adminVars, linkVars, eventVars, queueVars, drainVars, TypeOK
<1>2. CASE Next
  BY <1>2, TakeTypes, EnqueueTypes, DrainTypes, ClosedTypes, AdministratorTypes, LinkTypes DEF Next, Step
<1> QED
  BY <1>1, <1>2

\* Every variable keeps its type, for any connections, bounds and mode.
THEOREM QueueTypes == Spec => []TypeOK
BY InitTypes, TypesPreserved, PTL DEF Spec

-----------------------------------------------------------------------------
(* Every queue has a drain *)

\* A step that touches neither queues nor drains nor hands.
LEMMA DrainInvFrame ==
  ASSUME UNCHANGED mode, DrainInv, UNCHANGED <<queueVars, drain, hand>>
  PROVE  DrainInv'
BY DEF DrainInv, EntryIsDrained, Active, DrainsOf, queueVars, Concurrent

\* A step that removes entries and leaves the drains alone.
LEMMA DrainInvRemove ==
  ASSUME UNCHANGED mode, DrainInv, NEW C, Remove(C), UNCHANGED <<drain, hand>>
  PROVE  DrainInv'
BY DEF DrainInv, EntryIsDrained, Active, DrainsOf, Remove, Concurrent

LEMMA DrainInvTake ==
  ASSUME UNCHANGED mode, TypeOK, DrainInv, NEW r \in Receivers, Take(r)
  PROVE  DrainInv'
<1> USE DEF queueVars, drainVars
<1>1. CASE Concurrent
  <2>1. UNCHANGED <<entries, processing, stuck, hand>>
    BY <1>1 DEF Take
  <2> QED
    BY <1>1, <2>1 DEF DrainInv, EntryIsDrained, Concurrent
<1>2. CASE ~Concurrent
  <2>1. UNCHANGED <<entries, processing, stuck, drain>>
    BY <1>2 DEF Take
  <2> QED
    BY <1>2, <2>1 DEF DrainInv, EntryIsDrained, Active, DrainsOf, Concurrent
<1> QED
  BY <1>1, <1>2

LEMMA DrainInvEnqueue ==
  ASSUME UNCHANGED mode, TypeOK, DrainInv, NEW r \in Receivers, Enqueue(r)
  PROVE  DrainInv'
<1>1. hand[r] \in Frames /\ hand[r] # NoFrame /\ ~Concurrent
  BY DEF Enqueue, TypeOK, DrainInv
<1>2. PICK c \in Conns : c = hand[r].conn
  BY <1>1 DEF Frames
<1>3. PICK n \in Drains : n = [spawner |-> hand[r], receiver |-> r]
  BY <1>1 DEF Drains
<1>4. /\ entries' = entries \cup {c} /\ processing' = processing \cup {c} /\ stuck' = stuck
      /\ IF c \in processing THEN drain' = drain ELSE drain' = [drain EXCEPT ![n] = "pop"]
  BY <1>2, <1>3 DEF Enqueue, Spawn, NeedsDrain
<1>5. n \in DrainsOf(c) /\ (c \notin processing => Active(n)')
  BY <1>2, <1>3, <1>4 DEF TypeOK, Active, DrainsOf
<1>6. ASSUME NEW b \in entries', b \notin stuck
      PROVE  \E d \in DrainsOf(b) : Active(d)'
  <2>1. CASE b \in entries
    <3>1. PICK d \in DrainsOf(b) : Active(d)
      BY <1>6, <2>1 DEF DrainInv, EntryIsDrained
    <3>2. Active(d)'
      BY <1>4, <3>1 DEF TypeOK, Active, DrainsOf
    <3> QED
      BY <3>1, <3>2
  <2>2. CASE b = c /\ c \notin entries
    BY <1>5, <2>2 DEF DrainInv
  <2> QED
    BY <1>4, <2>1, <2>2
<1> QED
  BY <1>1, <1>4, <1>6 DEF DrainInv, EntryIsDrained, DrainsOf, Concurrent

LEMMA DrainInvDrain ==
  ASSUME UNCHANGED mode, TypeOK, DrainInv, NEW d \in Drains, Drain(d)
  PROVE  DrainInv'
<1> USE DEF queueVars
<1> DEFINE c == d.spawner.conn
<1>1. hand' = hand /\ \A e \in Drains : e # d => drain'[e] = drain[e]
  BY DEF Drain, Start, Pop, Finish, Panic, Settle, Spawn, TypeOK
<1>2. \A b : b # c => \A e \in DrainsOf(b) : e # d
  BY DEF DrainsOf
<1>3. processing' = entries' /\ entries' \subseteq entries /\ stuck \cap entries' \subseteq stuck'
  BY DEF Drain, Start, Pop, Finish, Panic, Settle, Remove, DrainInv
<1>4. c \in entries' => c \in stuck' \/ Active(d)' \/ (Concurrent /\ entries = {})
  BY DEF Drain, Start, Pop, Finish, Panic, Settle, Remove, Spawn, TypeOK, Active, DrainInv
<1> HIDE DEF c
<1>5. ASSUME NEW b \in entries', b \notin stuck'
      PROVE  \E e \in DrainsOf(b) : Active(e)'
  <2>1. CASE b = c
    BY <1>3, <1>4, <1>5, <2>1 DEF DrainsOf, c
  <2>2. CASE b # c
    <3>1. PICK e \in DrainsOf(b) : Active(e)
      BY <1>3, <1>5 DEF DrainInv, EntryIsDrained
    <3> QED
      BY <1>1, <1>2, <2>2, <3>1 DEF Active, DrainsOf
  <2> QED
    BY <2>1, <2>2
<1> QED
  BY <1>1, <1>3, <1>5 DEF DrainInv, EntryIsDrained, DrainsOf, Concurrent

LEMMA DrainInvPreserved == TypeOK /\ DrainInv /\ [Next]_vars => DrainInv'
<1> SUFFICES ASSUME TypeOK, DrainInv, [Next]_vars PROVE DrainInv'
  OBVIOUS
<1> UNCHANGED mode
  BY DEF Next, vars
<1> USE DEF queueVars, drainVars
<1>1. ASSUME NEW r \in Receivers, PortClosed(r)
      PROVE  DrainInv'
  BY <1>1, DrainInvRemove DEF PortClosed
<1>2. ASSUME NEW r \in Receivers, NEW c \in Conns, ConnectionClosed(r, c)
      PROVE  DrainInv'
  <2>1. CASE c \in entries \cap processing
    <3>1. UNCHANGED <<entries, processing, stuck, drain, hand>>
      BY <1>2, <2>1 DEF ConnectionClosed
    <3> QED
      BY <3>1 DEF DrainInv, EntryIsDrained, Active, DrainsOf, Concurrent
  <2>2. CASE c \notin entries \cap processing
    <3>1. Remove({c}) /\ UNCHANGED <<drain, hand>>
      BY <1>2, <2>2 DEF ConnectionClosed
    <3> QED
      BY <3>1, DrainInvRemove
  <2> QED
    BY <2>1, <2>2
<1>3. CASE Administrator
  <2>1. CASE Clear \/ OpenClear
    BY <2>1, DrainInvRemove DEF Clear, OpenClear
  <2>2. CASE ~(Clear \/ OpenClear)
    BY <1>3, <2>2, DrainInvFrame
    DEF Administrator, Close, Destroy, Abort, ClosePort, Open, Subscribe, OpenPort
  <2> QED
    BY <2>1, <2>2
<1>4. CASE ListenerFails \/ \E c \in Conns : Connect(c) \/ Disconnect(c) \/ Arrive(c)
  BY <1>4, DrainInvFrame DEF ListenerFails, Connect, Disconnect, Arrive
<1>5. CASE UNCHANGED vars
  BY <1>5, DrainInvFrame DEF vars
<1> QED
  BY <1>1, <1>2, <1>3, <1>4, <1>5, DrainInvTake, DrainInvEnqueue, DrainInvDrain DEF Next, Step

\* Whatever is closed, lost or opened again, no queue is ever without a drain.
THEOREM QueuesAreDrained == Spec => []EntryIsDrained
<1>1. Init => DrainInv
  BY DEF Init, DrainInv, EntryIsDrained
<1>2. DrainInv => EntryIsDrained
  BY DEF DrainInv
<1> QED
  BY <1>1, <1>2, DrainInvPreserved, QueueTypes, PTL DEF Spec

-----------------------------------------------------------------------------
(* One request of a connection at a time, as long as nothing is closed *)

QuietAssumption == ~AllowClose /\ MaxOpens = 1

\* A step that touches neither the administrator nor the drains, and removes no entry.
LEMMA QuietInvFrame ==
  ASSUME QuietInv, UNCHANGED <<adm, opens, drain, closedPort>>, entries \subseteq entries'
  PROVE  QuietInv'
BY DEF QuietInv, Active

LEMMA QuietInvEnqueue ==
  ASSUME TypeOK, DrainInv, QuietInv, NEW r \in Receivers, Enqueue(r)
  PROVE  QuietInv'
<1>1. hand[r] \in Frames
  BY DEF Enqueue, TypeOK, PushBack
<1>2. PICK c \in Conns : c = hand[r].conn
  BY <1>1 DEF Frames
<1>3. PICK n \in Drains : n = [spawner |-> hand[r], receiver |-> r]
  BY <1>1 DEF Drains
<1>4. /\ entries' = entries \cup {c} /\ UNCHANGED <<adm, opens, closedPort>>
      /\ IF c \in processing THEN drain' = drain ELSE drain' = [drain EXCEPT ![n] = "pop"]
  BY <1>2, <1>3 DEF Enqueue, Spawn, NeedsDrain, adminVars, eventVars
<1>5. CASE c \in processing
  BY <1>4, <1>5, QuietInvFrame
<1>6. CASE c \notin processing
  <2>1. c \notin entries /\ n.spawner.conn = c
    BY <1>2, <1>3, <1>6 DEF DrainInv
  <2>2. \A d \in Drains : Active(d)' => d = n \/ Active(d)
    BY <1>4, <1>6 DEF TypeOK, Active
  <2>3. \A d \in Drains : Active(d) => d.spawner.conn # c
    BY <2>1 DEF QuietInv
  <2>4. \A d \in Drains : Active(d)' => d.spawner.conn \in entries'
    BY <1>4, <2>1, <2>2 DEF QuietInv
  <2>5. ASSUME NEW d \in Drains, NEW e \in Drains,
               Active(d)', Active(e)', d.spawner.conn = e.spawner.conn
        PROVE  d = e
    BY <2>1, <2>2, <2>3, <2>5 DEF QuietInv
  <2> QED
    BY <1>4, <2>4, <2>5 DEF QuietInv
<1> QED
  BY <1>5, <1>6

LEMMA QuietInvDrain ==
  ASSUME QuietAssumption, ~Concurrent, TypeOK, DrainInv, QuietInv, NEW d \in Drains, Drain(d)
  PROVE  QuietInv'
<1>1. UNCHANGED <<adm, opens, closedPort>>
  BY DEF Drain, Start, Pop, Finish, Panic, Settle, adminVars, eventVars
<1>2. /\ Active(d) /\ \A e \in Drains : e # d => drain'[e] = drain[e]
  BY DEF Drain, Start, Pop, Finish, Panic, Settle, Spawn, TypeOK, Active
<1>3. \/ entries' = entries
      \/ entries' = entries \ {d.spawner.conn} /\ ~Active(d)'
  BY DEF Drain, Start, Pop, Finish, Panic, Settle, Spawn, Remove, TypeOK, Active, queueVars
<1>4. \A e \in Drains : Active(e)' => Active(e)
  BY <1>2 DEF Active
<1>5. ASSUME NEW e \in Drains, Active(e)'
      PROVE  e.spawner.conn \in entries'
  <2>1. e.spawner.conn \in entries /\ (e.spawner.conn = d.spawner.conn => e = d)
    BY <1>2, <1>4, <1>5 DEF QuietInv
  <2> QED
    BY <1>3, <1>5, <2>1
<1> QED
  BY <1>1, <1>4, <1>5 DEF QuietInv

LEMMA QuietInvPreserved ==
  ASSUME QuietAssumption, ~Concurrent, TypeOK, DrainInv, QuietInv, [Next]_vars
  PROVE  QuietInv'
<1>1. ~Administrator /\ ~ListenerFails
  <2>1. adm = "idle" /\ opens = 1 /\ ~AllowClose /\ MaxOpens = 1
    BY DEF QuietInv, QuietAssumption
  <2> QED
    BY <2>1 DEF Administrator, Close, Destroy, Clear, Abort, ClosePort, Open, OpenClear,
                Subscribe, OpenPort, ListenerFails
<1>2. ASSUME NEW r \in Receivers
      PROVE  ~PortClosed(r)
  BY DEF PortClosed, QuietInv
<1>3. ASSUME NEW r \in Receivers, Take(r)
      PROVE  QuietInv'
  BY <1>3, QuietInvFrame DEF Take, QuietAssumption, adminVars, queueVars, drainVars
<1>4. ASSUME NEW r \in Receivers, NEW c \in Conns, ConnectionClosed(r, c)
      PROVE  QuietInv'
  <2>1. UNCHANGED <<adm, opens, drain, closedPort>>
    BY <1>4 DEF ConnectionClosed, adminVars, drainVars
  <2>2. entries \subseteq entries'
    BY <1>4 DEF ConnectionClosed, Remove, DrainInv
  <2> QED
    BY <2>1, <2>2, QuietInvFrame
<1>5. ASSUME NEW c \in Conns, Connect(c) \/ Disconnect(c) \/ Arrive(c)
      PROVE  QuietInv'
  BY <1>5, QuietInvFrame
  DEF Connect, Disconnect, Arrive, adminVars, queueVars, drainVars, eventVars
<1>6. CASE UNCHANGED vars
  BY <1>6, QuietInvFrame DEF vars, adminVars, queueVars, drainVars, eventVars
<1> QED
  BY <1>1, <1>2, <1>3, <1>4, <1>5, <1>6, QuietInvEnqueue, QuietInvDrain DEF Next, Step

\* A slave that is opened once and not closed processes the requests
\* of each connection one at a time, however connections come and go.
THEOREM ConnectionsAreSerialized ==
  ASSUME QuietAssumption
  PROVE  Spec => []OneAtATime
<1> DEFINE Inv == ~Concurrent => QuietInv
<1>1. Init => Inv /\ DrainInv
  BY DEF Init, QuietInv, DrainInv, EntryIsDrained, Active
<1>2. TypeOK /\ DrainInv /\ Inv /\ [Next]_vars => Inv'
  BY QuietInvPreserved DEF Next, vars, Concurrent
<1>3. Inv => OneAtATime
  BY DEF QuietInv, OneAtATime, Active, DrainsOf
<1> QED
  BY <1>1, <1>2, <1>3, DrainInvPreserved, QueueTypes, PTL DEF Spec

-----------------------------------------------------------------------------
(* Order *)

\* Of two frames of a connection, f arrived first.
Before(f, g) == f.conn = g.conn => f.seq < g.seq

Items == UNION {{items[c][i] : i \in DOMAIN items[c]} : c \in Conns}
Hand == {hand[1]} \ {NoFrame}
Inbox == {inbox[1][i] : i \in DOMAIN inbox[1]}

Spawned == {d.spawner : d \in {e \in Drains : drain[e] = "spawned"}}

\* While there is one receiver, a frame goes from the channel to its task's hand, from
\* there to the queue and from the queue to a drain, behind all that came before it; or,
\* in a concurrent slave, from the channel to a task that has not started.
OrderInv ==
  /\ \A f \in served \cup Spawned \cup Items \cup Hand \cup Inbox : f.seq <= sent[f.conn]
  /\ \A c \in Conns : \A i \in DOMAIN items[c] : items[c][i].conn = c
  /\ \A c \in Conns : \A i, j \in DOMAIN items[c] : i < j => Before(items[c][i], items[c][j])
  /\ \A i, j \in DOMAIN inbox[1] : i < j => Before(inbox[1][i], inbox[1][j])
  /\ \A f \in served \cup Spawned, g \in Items \cup Hand \cup Inbox : Before(f, g)
  /\ \A f \in Items, g \in Hand \cup Inbox : Before(f, g)
  /\ \A f \in Hand, g \in Inbox : Before(f, g)
  /\ Concurrent => Items = {} /\ Hand = {}
  /\ served \cap Spawned = {}

LEMMA FrameTypes ==
  ASSUME TypeOK
  PROVE  /\ 1 \in Receivers /\ inbox[1] \in Seq(Frames)
         /\ Items \subseteq Frames /\ Hand \subseteq Frames /\ Inbox \subseteq Frames /\ served \subseteq Frames
         /\ Spawned \subseteq Frames
         /\ \A f \in Frames : f.conn \in Conns /\ f.seq \in Nat /\ sent[f.conn] \in Nat
<1>1. 1 \in Receivers  BY QueuesAssumption DEF Receivers
<1>2. \A f \in Frames : f.conn \in Conns /\ f.seq \in Nat /\ sent[f.conn] \in Nat
  BY QueuesAssumption DEF Frames, TypeOK
<1>3. inbox[1] \in Seq(Frames)  BY <1>1 DEF TypeOK
<1>4. Inbox \subseteq Frames  BY <1>3 DEF Inbox
<1>5. Items \subseteq Frames
  <2>1. \A c \in Conns : items[c] \in Seq(Frames)  BY DEF TypeOK
  <2>2. \A c \in Conns : \A i \in DOMAIN items[c] : items[c][i] \in Frames  BY <2>1
  <2> QED BY <2>2 DEF Items
<1> QED BY <1>1, <1>2, <1>3, <1>4, <1>5 DEF TypeOK, Hand, Spawned, Drains

LEMMA TailFacts ==
  ASSUME NEW S, NEW s \in Seq(S), s # <<>>
  PROVE  /\ 1 \in DOMAIN s /\ Head(s) = s[1] /\ DOMAIN s \subseteq Int
         /\ \A i \in DOMAIN Tail(s) : i + 1 \in DOMAIN s /\ Tail(s)[i] = s[i + 1] /\ 1 < i + 1 /\ i \in Int
OBVIOUS

LEMMA AppendFacts ==
  ASSUME NEW S, NEW s \in Seq(S), NEW x \in S
  PROVE  /\ DOMAIN Append(s, x) = DOMAIN s \cup {Len(s) + 1} /\ Append(s, x)[Len(s) + 1] = x
         /\ \A i \in DOMAIN s : Append(s, x)[i] = s[i] /\ i < Len(s) + 1 /\ i \in Int
         /\ Len(s) \in Nat
OBVIOUS

\* Queues are emptied, nothing else happens to a frame.
LEMMA OrderFewer ==
  ASSUME TypeOK, OrderInv, UNCHANGED <<mode, sent, hand, inbox, served>>, Spawned' \subseteq Spawned,
         \A c \in Conns : items'[c] = items[c] \/ items'[c] = <<>>
  PROVE  OrderInv'
<1>1. Items' \subseteq Items /\ Hand' = Hand /\ Inbox' = Inbox  BY DEF Items, Hand, Inbox
<1> QED BY <1>1 DEF OrderInv, Before, Concurrent

LEMMA OrderTake ==
  ASSUME MaxOpens = 1, UNCHANGED mode, TypeOK, OrderInv, NEW r \in Receivers, Take(r)
  PROVE  OrderInv' /\ UNCHANGED job
<1> USE FrameTypes
<1>1. r = 1  BY DEF Receivers
<1> DEFINE s == inbox[1]
           f == Head(s)
<1>2. /\ s \in Seq(Frames) /\ s # <<>> /\ hand[1] = NoFrame /\ inbox' = [inbox EXCEPT ![1] = Tail(s)]
      /\ UNCHANGED <<sent, items>>
  BY <1>1 DEF Take, linkVars, queueVars
<1>3. inbox'[1] = Tail(s)  BY <1>2 DEF TypeOK
<1>4. f \in Inbox /\ f \in Frames /\ \A g \in Inbox' : g \in Inbox /\ Before(f, g)
  <2>1. f = s[1] /\ 1 \in DOMAIN s  BY <1>2, TailFacts
  <2>2. \A i \in DOMAIN inbox'[1] : i + 1 \in DOMAIN s /\ inbox'[1][i] = s[i + 1] /\ 1 < i + 1
    BY <1>2, <1>3, TailFacts
  <2> QED BY <2>1, <2>2 DEF Inbox, OrderInv
<1>5. \A i, j \in DOMAIN inbox'[1] : i < j => Before(inbox'[1][i], inbox'[1][j])
  <2>1. \A i \in DOMAIN inbox'[1] : i + 1 \in DOMAIN s /\ inbox'[1][i] = s[i + 1] /\ i \in Int
    BY <1>2, <1>3, TailFacts
  <2> QED BY <2>1 DEF OrderInv
<1>6. /\ Hand = {} /\ Items' = Items /\ Concurrent' = Concurrent
      /\ \A g \in served \cup Spawned : Before(g, f) /\ g # f
  BY <1>2, <1>4, FrameTypes DEF Hand, Items, Concurrent, OrderInv, Before
<1>7. CASE UNCHANGED <<hand, drain, job, served>>
  <2>1. Hand' = {} /\ Spawned' = Spawned  BY <1>6, <1>7 DEF Hand, Spawned
  <2> HIDE DEF s, f
  <2> QED BY <1>2, <1>4, <1>5, <1>6, <1>7, <2>1 DEF OrderInv
<1>8. CASE ~Concurrent /\ hand' = [hand EXCEPT ![1] = f] /\ UNCHANGED <<drain, job, served>>
  <2>1. Hand' = {f} /\ Spawned' = Spawned  BY <1>4, <1>8, QueuesAssumption DEF Hand, TypeOK, Spawned
  <2> HIDE DEF s, f
  <2> QED BY <1>2, <1>4, <1>5, <1>6, <1>8, <2>1 DEF OrderInv
<1>9. ASSUME NEW d \in Drains, d.spawner = f, Concurrent, Spawn(d, "spawned"), UNCHANGED <<hand, job, served>>
      PROVE  OrderInv'
  <2>1. Hand' = {} /\ Items = {}  BY <1>6, <1>9 DEF Hand, OrderInv
  <2>2. Spawned' \subseteq Spawned \cup {f}
    <3> HIDE DEF f
    <3> QED BY <1>9 DEF Spawned, Spawn, TypeOK
  <2> HIDE DEF s, f
  <2> QED BY <1>2, <1>4, <1>5, <1>6, <1>9, <2>1, <2>2 DEF OrderInv
<1>10. \/ UNCHANGED <<hand, drain, job, served>>
       \/ ~Concurrent /\ hand' = [hand EXCEPT ![1] = f] /\ UNCHANGED <<drain, job, served>>
       \/ \E d \in Drains : /\ d.spawner = f /\ Concurrent /\ Spawn(d, "spawned")
                           /\ UNCHANGED <<hand, job, served>>
  <2> DEFINE d == [spawner |-> f, receiver |-> 1]
  <2>1. d \in Drains /\ d.spawner = f  BY <1>4, <1>1 DEF Drains
  <2>2. \/ UNCHANGED <<hand, drain, job, served>>
        \/ ~Concurrent /\ hand' = [hand EXCEPT ![1] = f] /\ UNCHANGED <<drain, job, served>>
        \/ Concurrent /\ Spawn(d, "spawned") /\ UNCHANGED <<hand, job, served>>
    BY <1>1 DEF Take, drainVars
  <2> HIDE DEF d
  <2> QED BY <2>1, <2>2
<1>11. UNCHANGED job  BY DEF Take, drainVars
<1> HIDE DEF f, s
<1> QED BY <1>7, <1>8, <1>9, <1>10, <1>11

LEMMA OrderEnqueue ==
  ASSUME MaxOpens = 1, UNCHANGED mode, TypeOK, OrderInv, NEW r \in Receivers, Enqueue(r)
  PROVE  OrderInv'
<1> USE FrameTypes
<1> DEFINE f == hand[1]
           c == f.conn
<1>1. /\ f # NoFrame /\ f \in Frames /\ hand' = [hand EXCEPT ![1] = NoFrame]
      /\ items' = [items EXCEPT ![c] = Append(@, f)] /\ UNCHANGED <<sent, inbox, served>>
  <2>1. r = 1  BY DEF Receivers
  <2> QED BY <2>1 DEF Enqueue, TypeOK, PushBack, linkVars, eventVars
<1>2. Hand = {f} /\ Hand' = {} /\ Inbox' = Inbox /\ ~Concurrent /\ Concurrent' = Concurrent
  <2>1. Hand = {f}  BY <1>1 DEF Hand
  <2>2. Hand' = {}  BY <1>1 DEF Hand, TypeOK
  <2> QED BY <1>1, <2>1, <2>2 DEF Inbox, Concurrent, OrderInv
<1>10. Spawned' \subseteq Spawned
  <2>1. r = 1  BY DEF Receivers
  <2>2. UNCHANGED drain \/ drain' = [drain EXCEPT ![[spawner |-> f, receiver |-> 1]] = "pop"]
    BY <2>1 DEF Enqueue, Spawn
  <2> HIDE DEF f
  <2> QED BY <2>2 DEF Spawned, TypeOK
<1>3. c \in Conns /\ items[c] \in Seq(Frames)  BY <1>1 DEF TypeOK
<1>4. items'[c] = Append(items[c], f) /\ \A e \in Conns \ {c} : items'[e] = items[e]
  BY <1>1, <1>3 DEF TypeOK
<1> HIDE DEF f
<1>5. /\ DOMAIN items'[c] = DOMAIN items[c] \cup {Len(items[c]) + 1} /\ items'[c][Len(items[c]) + 1] = f
      /\ \A i \in DOMAIN items[c] : items'[c][i] = items[c][i] /\ i < Len(items[c]) + 1 /\ i \in Int
      /\ Len(items[c]) \in Nat
  BY <1>1, <1>3, <1>4, AppendFacts
<1>6. ASSUME NEW e \in Conns, NEW i \in DOMAIN items'[e]
      PROVE  \/ i \in DOMAIN items[e] /\ items'[e][i] = items[e][i] /\ items[e][i] \in Items
             \/ e = c /\ i = Len(items[c]) + 1 /\ items'[e][i] = f
  BY <1>4, <1>5, <1>6 DEF Items
<1>7. Items' \subseteq Items \cup {f}
  BY <1>6 DEF Items
<1>8. \A e \in Conns : \A i \in DOMAIN items'[e] : items'[e][i].conn = e
  BY <1>6 DEF OrderInv
<1>9. ASSUME NEW e \in Conns, NEW i \in DOMAIN items'[e], NEW j \in DOMAIN items'[e], i < j
      PROVE  Before(items'[e][i], items'[e][j])
  <2>1. CASE i \in DOMAIN items[e] /\ j \in DOMAIN items[e]
    <3>1. items'[e][i] = items[e][i] /\ items'[e][j] = items[e][j]  BY <1>4, <1>5, <2>1
    <3> QED BY <1>9, <2>1, <3>1 DEF OrderInv
  <2>2. CASE e = c /\ j = Len(items[c]) + 1
    <3>1. items'[e][i] \in Items /\ items'[e][j] = f  BY <1>5, <1>6, <1>9, <2>2
    <3> QED BY <1>2, <3>1 DEF OrderInv
  <2>3. CASE e = c /\ i = Len(items[c]) + 1
    BY <1>5, <1>9, <2>3
  <2> QED BY <1>6, <2>1, <2>2, <2>3
<1> QED BY <1>1, <1>2, <1>7, <1>8, <1>9, <1>10 DEF OrderInv

LEMMA OrderPop ==
  ASSUME UNCHANGED mode, TypeOK, OrderInv, NEW d \in Drains, Pop(d)
  PROVE  /\ OrderInv'
         /\ \A e \in Drains : job'[e] # job[e] => \A f \in served : Before(f, job'[e])
<1> USE FrameTypes
<1> DEFINE c == d.spawner.conn
           s == items[c]
           f == Head(s)
<1>1. c \in Conns /\ s \in Seq(Frames)  BY DEF Drains, Frames, TypeOK
<1>2. UNCHANGED <<sent, hand, inbox>>  BY DEF Pop, linkVars, eventVars
<1>5. Spawned' \subseteq Spawned  BY DEF Pop, Spawn, Spawned, TypeOK
<1>3. CASE UNCHANGED <<items, job, served>>  BY <1>2, <1>3, <1>5, OrderFewer
<1>4. CASE s # <<>> /\ items' = [items EXCEPT ![c] = Tail(s)] /\ Serve(d, f)
  <2>1. /\ served' = served \cup {f} /\ job' = [job EXCEPT ![d] = f]
        /\ Hand' = Hand /\ Inbox' = Inbox /\ Concurrent' = Concurrent
    BY <1>2, <1>4 DEF Serve, Hand, Inbox, Concurrent
  <2>2. items'[c] = Tail(s) /\ \A e \in Conns \ {c} : items'[e] = items[e]
    BY <1>1, <1>4 DEF TypeOK
  <2>3. 1 \in DOMAIN s /\ f = s[1]  BY <1>1, <1>4, TailFacts
  <2>4. \A i \in DOMAIN items'[c] : i + 1 \in DOMAIN s /\ items'[c][i] = s[i + 1] /\ 1 < i + 1 /\ i \in Int
    <3>1. \A i \in DOMAIN Tail(s) : i + 1 \in DOMAIN s /\ Tail(s)[i] = s[i + 1] /\ 1 < i + 1 /\ i \in Int
      BY <1>1, <1>4, TailFacts
    <3> HIDE DEF s
    <3> QED BY <2>2, <3>1
  <2>5. f \in Items /\ f \in Frames  BY <1>1, <2>3 DEF Items
  <2>6. ASSUME NEW e \in Conns, NEW i \in DOMAIN items'[e]
        PROVE  items'[e][i].conn = e /\ items'[e][i] \in Items /\ Before(f, items'[e][i])
    <3>1. CASE e = c
      <4>1. items'[e][i] = s[i + 1] /\ i + 1 \in DOMAIN s /\ 1 < i + 1  BY <2>4, <2>6, <3>1
      <4> QED BY <1>1, <2>3, <3>1, <4>1 DEF OrderInv, Items
    <3>2. CASE e # c
      <4>1. items'[e] = items[e]  BY <2>2, <3>2
      <4>2. f.conn = c /\ items[e][i].conn = e  BY <1>1, <2>3, <2>6, <4>1 DEF OrderInv
      <4> QED BY <2>6, <3>2, <4>1, <4>2 DEF Before, Items
    <3> QED BY <3>1, <3>2
  <2>7. ASSUME NEW e \in Conns, NEW i \in DOMAIN items'[e], NEW j \in DOMAIN items'[e], i < j
        PROVE  Before(items'[e][i], items'[e][j])
    <3>1. CASE e = c
      <4>1. i + 1 \in DOMAIN s /\ j + 1 \in DOMAIN s /\ i + 1 < j + 1  BY <2>4, <2>7, <3>1
      <4> QED BY <1>1, <2>4, <2>7, <3>1, <4>1 DEF OrderInv
    <3>2. CASE e # c  BY <2>2, <2>7, <3>2 DEF OrderInv
    <3> QED BY <3>1, <3>2
  <2>8. Items' \subseteq Items /\ \A g \in Items' : Before(f, g)  BY <2>6 DEF Items
  <2>9. \A e \in Drains : job'[e] # job[e] => job'[e] = f  BY <2>1 DEF TypeOK
  <2> HIDE DEF f, s, c
  <2>11. f \notin Spawned  BY <2>5, FrameTypes DEF OrderInv, Before
  <2>12. \A g \in Spawned' : g \in Spawned  BY <1>5
  <2>10. OrderInv'  BY <1>2, <2>1, <2>5, <2>6, <2>7, <2>8, <2>11, <2>12 DEF OrderInv
  <2> QED BY <2>5, <2>9, <2>10 DEF OrderInv
<1> QED BY <1>3, <1>4 DEF Pop, PopFront

LEMMA OrderStart ==
  ASSUME MaxOpens = 1, UNCHANGED mode, TypeOK, OrderInv, NEW d \in Drains, Start(d)
  PROVE  /\ OrderInv' /\ Concurrent
         /\ \A e \in Drains : job'[e] # job[e] => job'[e] \notin served
<1> USE FrameTypes
<1> DEFINE f == d.spawner
<1>1. f \in Spawned  BY DEF Start, Spawned
<1>2. /\ served' = served \cup {f} /\ job' = [job EXCEPT ![d] = f] /\ Concurrent
      /\ drain' = [drain EXCEPT ![d] = "process"] /\ UNCHANGED <<sent, hand, inbox, items>>
  BY DEF Start, Serve, Spawn, linkVars, eventVars, queueVars
<1>3. Hand' = Hand /\ Inbox' = Inbox /\ Items' = Items /\ Concurrent' = Concurrent
  BY <1>2 DEF Hand, Inbox, Items, Concurrent
<1>4. \A e \in Drains : e.spawner = f => e = d
  BY DEF Drains, Receivers
<1>5. Spawned' \subseteq Spawned \ {f}
  <2>1. \A e \in Drains : drain'[e] = "spawned" => drain[e] = "spawned" /\ e # d
    BY <1>2 DEF TypeOK
  <2> HIDE DEF f
  <2> QED BY <1>4, <2>1 DEF Spawned
<1>6. \A e \in Drains : job'[e] # job[e] => job'[e] = f  BY <1>2 DEF TypeOK
<1> HIDE DEF f
<1>7. OrderInv'  BY <1>1, <1>2, <1>3, <1>5 DEF OrderInv
<1> QED BY <1>1, <1>2, <1>6, <1>7 DEF OrderInv

LEMMA OrderArrive ==
  ASSUME MaxOpens = 1, UNCHANGED mode, TypeOK, OrderInv, NEW c \in Conns, Arrive(c)
  PROVE  OrderInv'
<1> USE FrameTypes
<1> DEFINE f == [conn |-> c, seq |-> sent[c] + 1]
           s == IF Len(inbox[1]) = ChanCap THEN Tail(inbox[1]) ELSE inbox[1]
<1>1. f \in Frames /\ sent[c] \in Nat
  <2>1. sent[c] \in 0 .. MaxFrames /\ sent[c] < MaxFrames  BY DEF Arrive, TypeOK
  <2> QED BY <2>1, QueuesAssumption DEF Frames
<1>2. sent' = [sent EXCEPT ![c] = @ + 1] /\ UNCHANGED <<hand, items, drain, served>>
  BY DEF Arrive, queueVars, drainVars
<1>3. /\ s \in Seq(Frames)
      /\ \A i \in DOMAIN s : i \in Int
      /\ \A i \in DOMAIN s : \E k \in DOMAIN inbox[1] : s[i] = inbox[1][k]
      /\ \A i, j \in DOMAIN s : i < j => Before(s[i], s[j])
  <2>1. CASE Len(inbox[1]) = ChanCap
    <3>1. inbox[1] # <<>>  BY <2>1, QueuesAssumption
    <3>2. \A i \in DOMAIN s : i + 1 \in DOMAIN inbox[1] /\ s[i] = inbox[1][i + 1] /\ i \in Int
      BY <2>1, <3>1, TailFacts
    <3>3. s \in Seq(Frames)  BY <2>1, <3>1
    <3>4. ASSUME NEW i \in DOMAIN s, NEW j \in DOMAIN s, i < j  PROVE Before(s[i], s[j])
      <4>1. i + 1 < j + 1  BY <3>2, <3>4
      <4> HIDE DEF s
      <4> QED BY <3>2, <3>4, <4>1 DEF OrderInv
    <3> HIDE DEF s
    <3> QED BY <3>2, <3>3, <3>4
  <2>2. CASE Len(inbox[1]) # ChanCap  BY <2>2 DEF OrderInv
  <2> QED BY <2>1, <2>2
<1>4. inbox'[1] = inbox[1] \/ inbox'[1] = Append(s, f)
  BY DEF Arrive
<1>5. \A g \in Frames : g.seq <= sent[g.conn] => g.seq <= sent'[g.conn] /\ Before(g, f)
  BY <1>1, <1>2 DEF Before, TypeOK
<1>6. f.seq <= sent'[f.conn]  BY <1>1, <1>2 DEF TypeOK
<1>7. Items' = Items /\ Hand' = Hand /\ Spawned' = Spawned /\ Concurrent' = Concurrent
  BY <1>2 DEF Items, Hand, Spawned, Concurrent
<1> HIDE DEF f, s
<1>8. CASE inbox'[1] = inbox[1]
  <2>1. Inbox' = Inbox  BY <1>8 DEF Inbox
  <2> QED BY <1>2, <1>5, <1>7, <1>8, <2>1 DEF OrderInv
<1>9. CASE inbox'[1] = Append(s, f)
  <2>1. /\ DOMAIN inbox'[1] = DOMAIN s \cup {Len(s) + 1} /\ inbox'[1][Len(s) + 1] = f
        /\ \A i \in DOMAIN s : inbox'[1][i] = s[i] /\ i < Len(s) + 1
        /\ Len(s) \in Nat
    BY <1>1, <1>3, <1>9, AppendFacts
  <2>2. \A i \in DOMAIN s : s[i] \in Inbox  BY <1>3 DEF Inbox
  <2>3. Inbox' \subseteq Inbox \cup {f}  BY <2>1, <2>2 DEF Inbox
  <2>4. ASSUME NEW i \in DOMAIN inbox'[1], NEW j \in DOMAIN inbox'[1], i < j
        PROVE  Before(inbox'[1][i], inbox'[1][j])
    <3>1. CASE i \in DOMAIN s /\ j \in DOMAIN s  BY <1>3, <2>1, <2>4, <3>1
    <3>2. CASE i \in DOMAIN s /\ j = Len(s) + 1
      BY <1>5, <2>1, <2>2, <3>2 DEF OrderInv
    <3>3. CASE i = Len(s) + 1  BY <1>3, <2>1, <2>4, <3>3
    <3> QED BY <2>1, <2>4, <3>1, <3>2, <3>3
  <2> QED BY <1>2, <1>5, <1>6, <1>7, <2>3, <2>4 DEF OrderInv
<1> QED BY <1>4, <1>8, <1>9

\* What is served has not been served before and, unless the slave is concurrent, is
\* behind all that was served before on its connection.
Fits(f) == f \notin served /\ (~Concurrent => \A g \in served : Before(g, f))

LEMMA OrderPreserved ==
  ASSUME MaxOpens = 1, TypeOK, OrderInv, [Next]_vars
  PROVE  /\ OrderInv'
         /\ \A d \in Drains : job'[d] # job[d] /\ job'[d] # NoFrame => Fits(job'[d])
<1> DEFINE Goal == /\ OrderInv'
                   /\ \A d \in Drains : job'[d] # job[d] /\ job'[d] # NoFrame => Fits(job'[d])
<1> SUFFICES Goal  OBVIOUS
<1> USE DEF adminVars, linkVars, eventVars, queueVars, drainVars
<1>0. mode' = mode  BY DEF Next, vars
<1>1. ASSUME UNCHANGED <<sent, hand, inbox, served, job>>, Spawned' \subseteq Spawned,
             \A c \in Conns : items'[c] = items[c] \/ items'[c] = <<>>
      PROVE  Goal
  BY <1>0, <1>1, OrderFewer
<1>2. ASSUME NEW C, Remove(C)  PROVE \A c \in Conns : items'[c] = items[c] \/ items'[c] = <<>>
  BY <1>2 DEF Remove
<1>21. ASSUME UNCHANGED drain  PROVE Spawned' \subseteq Spawned
  BY <1>21 DEF Spawned
<1>3. ASSUME NEW r \in Receivers, Take(r)  PROVE Goal  BY <1>0, <1>3, OrderTake
<1>4. ASSUME NEW r \in Receivers, Enqueue(r)  PROVE Goal
  BY <1>0, <1>4, OrderEnqueue DEF Enqueue
<1>5. ASSUME NEW r \in Receivers, PortClosed(r)  PROVE Goal
  BY <1>1, <1>2, <1>5, <1>21 DEF PortClosed
<1>6. ASSUME NEW r \in Receivers, NEW c \in Conns, ConnectionClosed(r, c)  PROVE Goal
  <2>1. \A e \in Conns : items'[e] = items[e] \/ items'[e] = <<>>
    BY <1>2, <1>6 DEF ConnectionClosed, TypeOK
  <2> QED BY <1>1, <1>6, <1>21, <2>1 DEF ConnectionClosed
<1>7. ASSUME NEW d \in Drains, Pop(d)  PROVE Goal
  <2>1. ASSUME NEW e \in Drains, job'[e] # job[e], job'[e] # NoFrame  PROVE Fits(job'[e])
    <3>1. job'[e] \in Frames /\ job'[e].seq \in Nat
      BY <2>1, DrainTypes, FrameTypes, <1>0, <1>7 DEF TypeOK, Drain
    <3>2. \A g \in served : Before(g, job'[e])  BY <1>0, <1>7, <2>1, OrderPop
    <3> QED BY <3>1, <3>2 DEF Fits, Before
  <2> QED BY <1>0, <1>7, <2>1, OrderPop
<1>22. ASSUME NEW d \in Drains, Start(d)  PROVE Goal
  BY <1>0, <1>22, OrderStart DEF Fits
<1>8. ASSUME NEW d \in Drains, Settle(d)  PROVE Goal
  <2>1. \A e \in Conns : items'[e] = items[e] \/ items'[e] = <<>>
    BY <1>2, <1>8 DEF Settle
  <2>2. Spawned' \subseteq Spawned  BY <1>8 DEF Settle, Spawn, Spawned, TypeOK
  <2> QED BY <1>1, <1>8, <2>1, <2>2 DEF Settle
<1>9. ASSUME NEW d \in Drains, Finish(d) \/ Panic(d)  PROVE Goal
  <2>1. job' = [job EXCEPT ![d] = NoFrame] /\ UNCHANGED <<sent, hand, inbox, served, items>>
    BY <1>9 DEF Finish, Panic
  <2>3. Spawned' \subseteq Spawned  BY <1>9 DEF Finish, Panic, Spawn, Spawned, TypeOK
  <2>2. OrderInv'  BY <1>0, <2>1, <2>3, OrderFewer
  <2> QED BY <2>1, <2>2 DEF TypeOK
<1>10. CASE Administrator
  <2>1. \A e \in Conns : items'[e] = items[e] \/ items'[e] = <<>>
    BY <1>2, <1>10
    DEF Administrator, Close, Destroy, Clear, Abort, ClosePort, Open, OpenClear, Subscribe, OpenPort
  <2>2. UNCHANGED <<sent, hand, inbox, served, drain, job>>
    BY <1>10
    DEF Administrator, Close, Destroy, Clear, Abort, ClosePort, Open, OpenClear, Subscribe, OpenPort,
        EmitConnectionClose, EmitClose
  <2> QED BY <1>1, <1>21, <2>1, <2>2
<1>11. ASSUME NEW c \in Conns, Arrive(c)  PROVE Goal
  BY <1>0, <1>11, OrderArrive DEF Arrive
<1>12. ASSUME NEW c \in Conns, Connect(c) \/ Disconnect(c)  PROVE Goal
  BY <1>1, <1>12, <1>21 DEF Connect, Disconnect
<1>13. CASE ListenerFails  BY <1>1, <1>13, <1>21 DEF ListenerFails
<1>14. CASE UNCHANGED vars  BY <1>1, <1>14, <1>21 DEF vars
<1> HIDE DEF Goal
<1>15. ASSUME NEW d \in Drains, Drain(d)  PROVE Goal
  BY <1>7, <1>8, <1>9, <1>15, <1>22 DEF Drain
<1>16. ASSUME NEW r \in Receivers, \E c \in Conns : ConnectionClosed(r, c)  PROVE Goal
  BY <1>6, <1>16
<1>17. ASSUME NEW r \in Receivers,
              \/ Take(r) \/ Enqueue(r) \/ PortClosed(r)
              \/ \E c \in Conns : ConnectionClosed(r, c)
       PROVE  Goal
  BY <1>3, <1>4, <1>5, <1>16, <1>17, Zenon
<1>18. ASSUME NEW c \in Conns, Connect(c) \/ Disconnect(c) \/ Arrive(c)  PROVE Goal
  BY <1>11, <1>12, <1>18, Zenon
<1>19. CASE Step
  BY <1>10, <1>13, <1>15, <1>17, <1>18, <1>19, Zenon DEF Step
<1>20. Step \/ UNCHANGED vars
  BY DEF Next, vars
<1> QED BY <1>14, <1>19, <1>20, Zenon

LEMMA OrderInvHolds ==
  ASSUME MaxOpens = 1
  PROVE  Spec => []OrderInv
<1>1. Init => OrderInv
  <2> SUFFICES ASSUME Init PROVE OrderInv  OBVIOUS
  <2>1. Hand = {} /\ Inbox = {} /\ Items = {} /\ Spawned = {}
    BY QueuesAssumption DEF Init, Hand, Inbox, Items, Spawned, Receivers
  <2> QED BY <2>1, QueuesAssumption DEF Init, OrderInv, Receivers
<1>2. TypeOK /\ OrderInv /\ [Next]_vars => OrderInv'  BY OrderPreserved
<1> QED BY <1>1, <1>2, QueueTypes, PTL DEF Spec

\* A slave that is not concurrent starts a connection's requests in the order of arrival,
\* whatever is dropped from a lagging channel or cleared by close() in between.
THEOREM RequestsAreInOrder ==
  ASSUME MaxOpens = 1
  PROVE  Spec => InOrder
<1>1. TypeOK /\ TypeOK' /\ OrderInv /\ [Next]_vars =>
        [~Concurrent => \A d \in Drains : job'[d] # job[d] /\ job'[d] # NoFrame =>
           \A f \in served : f.conn = job'[d].conn => f.seq <= job'[d].seq]_vars
  <2> SUFFICES ASSUME TypeOK, TypeOK', OrderInv, [Next]_vars, ~Concurrent,
                      NEW d \in Drains, job'[d] # job[d], job'[d] # NoFrame,
                      NEW f \in served, f.conn = job'[d].conn
               PROVE  f.seq <= job'[d].seq
    OBVIOUS
  <2>1. job'[d] \in Frames  BY DEF TypeOK
  <2>2. Before(f, job'[d])  BY OrderPreserved DEF Fits
  <2> QED BY <2>1, <2>2, FrameTypes DEF Before
<1> QED BY <1>1, OrderInvHolds, QueueTypes, PTL DEF Spec, InOrder

\* No request is processed twice, though closes, clears and drains interleave.
THEOREM RequestsAreServedOnce ==
  ASSUME MaxOpens = 1
  PROVE  Spec => ServedOnce
<1>1. TypeOK /\ TypeOK' /\ OrderInv /\ [Next]_vars =>
        [\A d \in Drains : job'[d] # job[d] /\ job'[d] # NoFrame => job'[d] \notin served]_vars
  <2> SUFFICES ASSUME TypeOK, TypeOK', OrderInv, [Next]_vars,
                      NEW d \in Drains, job'[d] # job[d], job'[d] # NoFrame, job'[d] \in served
               PROVE  FALSE
    OBVIOUS
  <2> QED BY OrderPreserved DEF Fits
<1> QED BY <1>1, OrderInvHolds, QueueTypes, PTL DEF Spec, ServedOnce
==============================================================================
