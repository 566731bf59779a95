---------------------------- MODULE SlaveRequests ----------------------------
(***************************************************************************)
(* From a call of a method of `ModbusMaster` to its result: the request,   *)
(* `ModbusSlave::process_frame`, the handler and the methods of the model  *)
(* it calls (those of the trait `ModbusSlaveModel` that have a default are *)
(* the defaults), the response and the master's checks of it (master.rs,   *)
(* slave.rs).                                                              *)
(*                                                                         *)
(* Every client has a connection of its own, and the slave a task for it.  *)
(* The tasks meet in the models and in the address locks, which are those  *)
(* of AtomicLocks.  A task can be overtaken wherever the handler awaits: a *)
(* read, each single write of a multiple one, a lock.                      *)
(***************************************************************************)
EXTENDS FunctionCodes, FiniteSets

CONSTANTS
  Clients,          \* clients, each with a connection and a task of the slave
  CallsOf,          \* the calls each client may make
  Ranges,           \* address_range() of each model, by unit
  ServerIds,        \* lengths a model's server id may have, with status and additional data
  Odd               \* clients of another make, or whose line other devices answer on

Units == DOMAIN Ranges
Addresses == 0 .. Word - 1
Spaces == {"coils", "holding_registers"}    \* the tables requests write
Nobody == "nobody"

\* The arguments of a method: those that are u16, and the values to write.
Calls == [fc : Nat, unit : Nat, at : Addresses, n : Addresses, wat : Addresses, vals : Seq({0, 1})]

\* The ranges a model serves, of each table; all addresses if there is none.
TableRanges == SUBSET (Addresses \X Addresses)
Models ==
  [coils : TableRanges, discrete_inputs : TableRanges,
   input_registers : TableRanges, holding_registers : TableRanges]

ASSUME RequestsAssumption ==
  /\ Units \subseteq Nat \ {0} /\ ServerIds \subseteq Nat /\ Odd \subseteq Clients
  /\ Nobody \notin Clients
  /\ CallsOf \in [Clients -> SUBSET Calls] /\ \A u \in Units : Ranges[u] \in Models

VARIABLES
  debug,    \* the build profile: overflow panics, or wraps
  pc,       \* where each client's request stands
  call,     \* the call its master makes
  req,      \* the request as it arrives
  todo,     \* process_frame: the models still to be asked
  unit,     \* the model being asked
  done,     \* elements written so far
  got,      \* what the model's read returned
  sent,     \* the responses sent
  result,   \* what the call returns
  holds,    \* the addresses each task has locked
  store,    \* the models' tables
  writes,   \* what each task has written, as unit and address
  last,     \* who wrote each element last
  honest    \* FALSE once a model failed, intercepted, or another device answered

taskVars == <<call, req, todo, unit, done, got>>
ghosts == <<writes, last, honest>>    \* no action of the code depends on them
vars == <<debug, pc, taskVars, sent, result, holds, store, ghosts>>

Locks == INSTANCE AtomicLocks WITH Handlers <- Clients

NoCall == [fc |-> 0]
Steps == {"idle", "models", "lock", "read", "write", "answer", "receive", "done"}

\* What arrives: any numbers, an address, and values of which the odd ones are refused.
Requests ==
  [fc : Nat, unit : Nat, at : Nat, n : Nat, wat : Addresses, wn : Nat, count : Nat, size : Nat,
   vals : Seq({0, 1, 2})]

\* Of what is stored and read only the shape: a block write of too few values is not excluded.
TypeOK ==
  /\ pc \in [Clients -> Steps] /\ req \in [Clients -> Requests \cup {NoCall}]
  /\ todo \in [Clients -> SUBSET Units] /\ unit \in [Clients -> Units \cup {0}]
  /\ done \in [Clients -> Nat] /\ DOMAIN got = Clients
  /\ holds \in [Clients -> SUBSET Addresses]
  /\ DOMAIN store = Units
  /\ \A u \in Units : DOMAIN store[u] = Spaces /\ \A s \in Spaces : DOMAIN store[u][s] = Addresses
  /\ writes \in [Clients -> SUBSET (Units \X Addresses)]
  /\ last \in [Units -> [Spaces -> [Addresses -> Clients \cup {Nobody}]]]

Init ==
  /\ debug \in BOOLEAN
  /\ pc = [t \in Clients |-> "idle"] /\ call = [t \in Clients |-> NoCall]
  /\ req = [t \in Clients |-> NoCall] /\ todo = [t \in Clients |-> {}]
  /\ unit = [t \in Clients |-> 0] /\ done = [t \in Clients |-> 0]
  /\ got = [t \in Clients |-> <<>>] /\ sent = [t \in Clients |-> <<>>]
  /\ result = [t \in Clients |-> "none"]
  /\ Locks!Init
  /\ store = [u \in Units |-> [s \in Spaces |-> [a \in Addresses |-> 0]]]
  /\ writes = [t \in Clients |-> {}]
  /\ last = [u \in Units |-> [s \in Spaces |-> [a \in Addresses |-> Nobody]]]
  /\ honest = [t \in Clients |-> TRUE]

Goto(t, step) == pc' = [pc EXCEPT ![t] = step]
NotHonest(t) == honest' = [honest EXCEPT ![t] = FALSE] /\ UNCHANGED <<writes, last>>

-----------------------------------------------------------------------------
(* The master, and the requests of other clients *)

\* An odd client may count wrongly, or send a coil value that is neither on nor off.
Variants(r) ==
  {r, [r EXCEPT !.size = @ + 1]}
    \cup (IF r.fc \in BlockWrites THEN {[r EXCEPT !.count = @ + 1, !.size = @ + 1]} ELSE {})
    \cup (IF r.fc = 5 THEN {[r EXCEPT !.vals = <<2>>]} ELSE {})

\* process_frame takes its snapshot of the models when the request arrives.
Snapshot(u) == IF u = 0 THEN Units ELSE Units \cap {u}

Issue(t, c) ==
  /\ pc[t] = "idle"
  /\ call' = [call EXCEPT ![t] = c]
  /\ LET m == MethodOf(c, debug) IN
     \/ /\ m.panics
        /\ result' = [result EXCEPT ![t] = "panic"]
        /\ Goto(t, "done") /\ UNCHANGED <<req, todo>>
     \/ /\ ~m.panics
        /\ \E r \in IF t \in Odd THEN Variants(m.pdu) ELSE {m.pdu} : req' = [req EXCEPT ![t] = r]
        /\ todo' = [todo EXCEPT ![t] = Snapshot(c.unit)]
        /\ Goto(t, "models") /\ UNCHANGED result
  /\ UNCHANGED <<debug, unit, done, got, sent, holds, store, ghosts>>

\* Any response with the request's unit and function code that another device, or the
\* user's own code, may have produced: of any length, counting rightly or not.
Foreign(r, m) ==
  {Response(r, "none", k, s, r.vals) : k \in {m.head, m.head + 1}, s \in 0 .. Byte}

Ours(t) == req[t] = MethodOf(call[t], debug).pdu

\* The response arrives, or none will: broadcasts have none.
Receive(t) ==
  /\ pc[t] = "models" /\ todo[t] = {}
  /\ Goto(t, "done")
  /\ \/ UNCHANGED <<result, ghosts>>
     \/ /\ Ours(t) /\ sent[t] # <<>>
        /\ result' = [result EXCEPT ![t] = Outcome(MethodOf(call[t], debug), Head(sent[t]))]
        /\ UNCHANGED ghosts
     \/ /\ Ours(t) /\ t \in Odd /\ req[t].unit # 0
        /\ LET m == MethodOf(call[t], debug) IN
           \E p \in Foreign(req[t], m) : result' = [result EXCEPT ![t] = Outcome(m, p)]
        /\ NotHonest(t)
  /\ UNCHANGED <<debug, taskVars, sent, holds, store>>

-----------------------------------------------------------------------------
(* process_frame *)

\* The response to a broadcast goes nowhere.
Send(t, p) == sent' = [sent EXCEPT ![t] = IF req[t].unit = 0 THEN @ ELSE Append(@, p)]

\* response_error
Refuse(t, err) == Send(t, Exception(req[t], err)) /\ Goto(t, "models")

\* The next model of the snapshot; a panic ends the task.
Ask(t, u) ==
  /\ pc[t] = "models" /\ u \in todo[t]
  /\ unit' = [unit EXCEPT ![t] = u]
  /\ done' = [done EXCEPT ![t] = 0] /\ got' = [got EXCEPT ![t] = <<>>]
  /\ LET r == req[t]
         v == HandlerOf(r, Ranges[u], debug) IN
     /\ v # "custom"
     /\ todo' = [todo EXCEPT ![t] = IF v = "panic" THEN {} ELSE @ \ {u}]
     /\ \/ v \in {"ignore", "panic"} /\ Goto(t, "models") /\ UNCHANGED sent
        \/ v \in Errors /\ Refuse(t, v)
        \/ /\ v = "run" /\ UNCHANGED sent
           /\ Goto(t, CASE r.fc \in {1, 2, 3, 4} -> "read"
                        [] r.fc \in {22, 23} -> "lock"
                        [] r.fc = 17 -> "answer"
                        [] OTHER -> "write")
  /\ UNCHANGED <<debug, call, req, result, holds, store, ghosts>>

\* A function code that is not standard: the registered handler's answer or error,
\* IllegalFunction without one.
AskCustom(t, u) ==
  /\ pc[t] = "models" /\ u \in todo[t] /\ HandlerOf(req[t], Ranges[u], debug) = "custom"
  /\ unit' = [unit EXCEPT ![t] = u] /\ todo' = [todo EXCEPT ![t] = @ \ {u}]
  /\ \/ \E err \in {"IllegalFunction", "ServerDeviceFailure"} : Refuse(t, err)
     \/ Send(t, Response(req[t], "none", 0, req[t].n, <<>>)) /\ Goto(t, "models")
  /\ UNCHANGED <<debug, call, req, done, got, result, holds, store, ghosts>>

\* The model's intercept() answers the request itself, or fails.
Intercept(t, u) ==
  /\ t \in Odd /\ pc[t] = "models" /\ u \in todo[t]
  /\ unit' = [unit EXCEPT ![t] = u] /\ todo' = [todo EXCEPT ![t] = @ \ {u}]
  /\ \/ Refuse(t, "ServerDeviceFailure")
     \/ Send(t, Response(req[t], "none", 0, 1, <<>>)) /\ Goto(t, "models")
  /\ NotHonest(t)
  /\ UNCHANGED <<debug, call, req, done, got, result, holds, store>>

-----------------------------------------------------------------------------
(* The handlers and the model *)

\* Fault: only the first address of a block is locked.
LockedFirst(r) == {r.wat}

Locked(r) == {U16(r.wat + i) : i \in 0 .. (IF r.fc = 23 THEN r.wn ELSE 1) - 1}

\* Fault: FC23 reads first.
AfterReadFirst(r, step) ==
  CASE step = "write" -> "answer"
    [] step = "lock" -> "read"
    [] OTHER -> IF r.fc \in {22, 23} THEN "write" ELSE "answer"

\* FC22 reads, then writes; FC23 writes, then reads.
After(r, step) ==
  CASE step = "write" -> IF r.fc = 23 THEN "read" ELSE "answer"
    [] step = "lock" -> IF r.fc = 22 THEN "read" ELSE "write"
    [] OTHER -> IF r.fc = 22 THEN "write" ELSE "answer"

Lock(t) ==
  /\ pc[t] = "lock"
  /\ Locks!Acquire(t, Locked(req[t]))
  /\ Goto(t, After(req[t], "lock"))
  /\ UNCHANGED <<debug, taskVars, sent, result, store, ghosts>>

\* The model returns as many values as it is asked for, as long as there are any.
ReadModel(t) ==
  LET r == req[t]
      a == IF r.fc = 22 THEN r.wat ELSE r.at
      n == IF r.fc = 22 THEN 1 ELSE r.n IN
  /\ pc[t] = "read" /\ a + n <= Word
  /\ got' = [got EXCEPT ![t] =
       [i \in 1 .. n |-> IF r.fc \in {2, 4} THEN 0 ELSE store[unit[t]][Space(r.fc)][a + i - 1]]]
  /\ Goto(t, After(r, "read"))
  /\ UNCHANGED <<debug, call, req, todo, unit, done, sent, result, holds, store, ghosts>>

\* (current & and) | (or & !and), in one bit.
Masked(current, r) == IF r.vals[1] = 1 THEN current ELSE r.vals[2]

\* Fault: the last element is forgotten.
CountToWriteLess(r) == IF r.fc \in BlockWrites /\ r.wn > 1 THEN r.wn - 1 ELSE 1

CountToWrite(r) == IF r.fc \in BlockWrites THEN r.wn ELSE 1

\* One call of write_single_coil or write_single_register, of one or of several.
WriteModel(t) ==
  LET r == req[t]
      u == unit[t]
      a == U16(r.wat + done[t])
      v == IF r.fc = 22 THEN Masked(got[t][1], r) ELSE r.vals[done[t] + 1]
      finished == done[t] + 1 = CountToWrite(r) IN
  /\ pc[t] = "write"
  /\ done' = [done EXCEPT ![t] = @ + 1]
  /\ store' = [store EXCEPT ![u][Space(r.fc)][a] = v]
  /\ writes' = [writes EXCEPT ![t] = @ \cup {<<u, a>>}]
  /\ last' = [last EXCEPT ![u][Space(r.fc)][a] = t]
  /\ UNCHANGED honest
  /\ IF finished THEN Locks!Release(t) ELSE UNCHANGED holds
  /\ Goto(t, IF finished THEN After(r, "write") ELSE "write")
  /\ UNCHANGED <<debug, call, req, todo, unit, got, sent, result>>

\* The model returns an error, at once or after some of the writes.
Fail(t) ==
  /\ pc[t] \in {"read", "write"} \/ (pc[t] = "answer" /\ req[t].fc = 17)
  /\ Refuse(t, "ServerDeviceFailure")
  /\ Locks!Release(t)
  /\ NotHonest(t)
  /\ UNCHANGED <<debug, taskVars, result, store>>

Reply(t) ==
  LET r == req[t] IN
  CASE r.fc \in {1, 2} -> PackCoils(r, got[t])
    [] r.fc \in {3, 4, 23} -> PackRegisters(r, got[t])
    [] r.fc \in {15, 16} -> Response(r, "none", 0, 4, <<>>)
    [] OTHER -> Response(r, "none", 0, r.size, r.vals)

Answer(t) ==
  /\ pc[t] = "answer" /\ req[t].fc # 17
  /\ Send(t, Reply(t))
  /\ Goto(t, "models")
  /\ UNCHANGED <<debug, taskVars, result, holds, store, ghosts>>

\* FC17: what the model reports may be longer than a byte count can say.
AnswerServerId(t) ==
  /\ pc[t] = "answer" /\ req[t].fc = 17
  /\ \E k \in ServerIds :
       IF k >= Byte THEN Refuse(t, "ServerDeviceFailure")
       ELSE Send(t, Response(req[t], "none", k, 1 + k, <<>>)) /\ Goto(t, "models")
  /\ UNCHANGED <<debug, taskVars, result, holds, store, ghosts>>

-----------------------------------------------------------------------------
Task(t) ==
  \/ \E u \in Units : Ask(t, u) \/ AskCustom(t, u) \/ Intercept(t, u)
  \/ Lock(t) \/ ReadModel(t) \/ WriteModel(t) \/ Fail(t) \/ Answer(t) \/ AnswerServerId(t)
  \/ Receive(t)

Next == \E t \in Clients : Task(t) \/ \E c \in CallsOf[t] : Issue(t, c)

Spec == Init /\ [][Next]_vars

-----------------------------------------------------------------------------
(* Properties *)

Writes == {5, 6, 15, 16, 22, 23}
Block(r) == {U16(r.wat + i) : i \in 0 .. (IF r.fc \in BlockWrites THEN r.wn ELSE 1) - 1}
Wrote(t, u) == \A a \in Block(req[t]) : <<u, a>> \in writes[t]
Table(t, u) == Space(req[t].fc)

\* A write that the caller is told succeeded was made: every element of the block was
\* written, and holds the value sent unless another request has written it since.  And a
\* broadcast, which nobody is told about, was made in every model whose checks it passes.
WritesAreMade ==
  \A t \in Clients :
    honest[t] /\ req[t].fc \in Writes =>
      /\ result[t] = "ok" =>
           /\ Wrote(t, req[t].unit)
           /\ req[t].fc # 22 =>
                \A i \in 1 .. Cardinality(Block(req[t])) :
                  LET a == U16(req[t].wat + i - 1) IN
                  last[req[t].unit][Table(t, unit[t])][a] = t =>
                    store[req[t].unit][Table(t, unit[t])][a] = req[t].vals[i]
      /\ pc[t] = "done" /\ req[t].unit = 0 =>
           \A u \in Units : HandlerOf(req[t], Ranges[u], debug) = "run" => Wrote(t, u)

\* A request writes inside one range of the model, or nowhere at all, and inside the
\* block it names; unless the end of the block wraps, as it can in a release build.
WithinRange ==
  \A t \in Clients, u \in Units :
    (\E a \in Addresses : <<u, a>> \in writes[t]) =>
      LET g == IF Table(t, u) = "coils" THEN Ranges[u].coils ELSE Ranges[u].holding_registers
      IN  /\ \A a \in Addresses : <<u, a>> \in writes[t] => a \in Block(req[t])
          /\ \/ g = {}
             \/ req[t].fc \in BlockWrites /\ req[t].wat + req[t].wn >= Word
             \/ \E b \in g : \A a \in Block(req[t]) : b[1] <= a /\ a <= b[2]

\* The master's checks of a response are neither too strict nor too lax.  What a handler
\* answers to a request the master built passes those of length, byte count and echo (FC17
\* only when the caller knows how long the server id is).  And no response, whoever made it,
\* passes them and makes the parser index outside the data, if the number of bytes fits a u16.
ChecksFitResponses ==
  \A t \in Clients :
    /\ result[t] \notin {"none", "panic"} /\ honest[t] /\ Head(sent[t]).err = "none" =>
         \/ result[t] = "ok"
         \/ req[t].fc = 17 /\ Head(sent[t]).size < 2 + req[t].n
    /\ result[t] = "panic" /\ req[t].fc # 0 =>
         call[t].n + PerByte > Word \/ 2 * call[t].n >= Word

\* The receiver of an RTU frame that either side makes predicts its length from its first
\* bytes: the predictor agrees with all the encoders, of requests and of responses.
FramesArePredicted ==
  \A t \in Clients :
    req[t].fc \notin {0, Custom} =>
      /\ req[t] = MethodOf(call[t], debug).pdu => PredictRequest(req[t]) = FrameLength(req[t])
      /\ \A i \in DOMAIN sent[t] :
           honest[t] \/ sent[t][i].err # "none" => PredictResponse(sent[t][i]) = FrameLength(sent[t][i])

\* The requests that lock addresses are atomic towards each other.  Of the elements that
\* two FC23 requests have both written, those that neither lost to a third are all from the
\* same one.  And what an FC22 has read is still there when it writes, unless a request that
\* takes no lock wrote it meanwhile.
UpdatesDontTear ==
  /\ \A s, t \in Clients, u \in Units :
       /\ s # t /\ req[s].fc = 23 /\ req[t].fc = 23 /\ holds[s] = {} /\ holds[t] = {}
       /\ Wrote(s, u) /\ Wrote(t, u)
       => \A a, b \in Block(req[s]) \cap Block(req[t]) :
            ~(last[u]["holding_registers"][a] = s /\ last[u]["holding_registers"][b] = t)
  /\ \A t \in Clients :
       pc[t] = "write" /\ req[t].fc = 22 =>
         LET u == unit[t] a == req[t].wat w == last[u]["holding_registers"][a] IN
         got[t][1] # store[u]["holding_registers"][a] => w # t /\ req[w].fc \in {6, 16}

\* FC23 reads what it has written, unless another request wrote it meanwhile.
ExchangeReadsItsWrites ==
  \A t \in Clients :
    pc[t] = "answer" /\ req[t].fc = 23 =>
      \A i \in 1 .. req[t].n, j \in 1 .. req[t].wn :
        LET a == req[t].at + i - 1 IN
        a = U16(req[t].wat + j - 1) /\ last[unit[t]]["holding_registers"][a] = t =>
          got[t][i] = req[t].vals[j]
=============================================================================
