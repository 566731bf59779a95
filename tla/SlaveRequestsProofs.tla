------------------------ MODULE SlaveRequestsProofs -------------------------
(***************************************************************************)
(* For any number of clients, models and addresses, and any widths and     *)
(* limits: the requests that lock addresses are atomic towards each other  *)
(* in the model's tables, though a handler awaits between any two accesses *)
(* to them; a write stays in its range; what the master reports is what    *)
(* the slave has done.                                                     *)
(***************************************************************************)
EXTENDS SlaveRequests, FiniteSetTheorems, TLAPS

\* FC22 holds its address while it reads and writes, FC23 its block while it writes.
Holding(t) == (req[t].fc = 22 /\ pc[t] \in {"read", "write"}) \/ (req[t].fc = 23 /\ pc[t] = "write")

\* Where a request stands tells what it has locked, and how far it has written.
FlowInv ==
  \A t \in Clients :
    /\ pc[t] = "idle" => writes[t] = {}
    /\ pc[t] \notin {"idle", "done"} => req[t] \in Requests
    /\ pc[t] = "lock" => req[t].fc \in {22, 23}
    /\ pc[t] = "lock" \/ (pc[t] = "read" /\ req[t].fc = 22) => done[t] = 0
    /\ pc[t] \in {"lock", "write"} => done[t] < CountToWrite(req[t])
    /\ pc[t] = "write" => req[t].fc \in Writes
    /\ pc[t] \in {"lock", "read", "write"} => unit[t] \in Units /\ unit[t] \notin todo[t]
    /\ holds[t] = IF Holding(t) THEN Locked(req[t]) ELSE {}

HoldsInv == \A s, t \in Clients : s # t => holds[s] \cap holds[t] = {}

LastInv ==
  \A u \in Units, s \in Spaces, a \in Addresses :
    last[u][s][a] \in Clients => writes[last[u][s][a]] # {}

BaseInv == TypeOK /\ FlowInv /\ HoldsInv /\ LastInv

LEMMA Numbers ==
  /\ Word \in Nat \ {0} /\ Byte \in Nat \ {0} /\ PerByte \in Nat \ {0}
  /\ Addresses = 0 .. Word - 1
  /\ Nobody \notin Clients
BY CodesAssumption, RequestsAssumption DEF Addresses

LEMMA U16Type ==
  ASSUME NEW x \in Nat
  PROVE  U16(x) \in Addresses
BY Numbers DEF U16

LEMMA U16Same ==
  ASSUME NEW x \in Addresses
  PROVE  U16(x) = x
BY Numbers DEF U16

LEMMA RunVerdict ==
  ASSUME NEW r \in Requests, NEW g, NEW d, HandlerOf(r, g, d) = "run"
  PROVE  /\ r.fc \in {1, 2, 3, 4, 5, 6, 15, 16, 17, 22, 23}
         /\ r.fc \in BlockWrites => r.wn > 0
<1>1. r.fc \in {1, 2, 3, 4, 5, 6, 15, 16, 17, 22, 23}
  BY DEF HandlerOf
<1>3. CASE r.fc = 15
  <2>1. HandleFc15(r, g, d) = "run"  BY <1>3 DEF HandlerOf
  <2>2. r.wn \in 1 .. WriteBits  BY <2>1, Zenon DEF HandleFc15, Verdict
  <2> QED  BY <1>1, <1>3, <2>2
<1>4. CASE r.fc = 16
  <2>1. HandleFc16(r, g, d) = "run"  BY <1>4 DEF HandlerOf
  <2>2. r.wn \in 1 .. WriteRegs  BY <2>1, Zenon DEF HandleFc16, Verdict
  <2> QED  BY <1>1, <1>4, <2>2
<1>5. CASE r.fc = 23
  <2>1. HandleFc23(r, g, d) = "run"  BY <1>5 DEF HandlerOf
  <2>2. r.wn \in 1 .. ExchangeRegs  BY <2>1, Zenon DEF HandleFc23, Verdict
  <2> QED  BY <1>1, <1>5, <2>2
<1> QED  BY <1>1, <1>3, <1>4, <1>5 DEF BlockWrites

\* What a method sends is a request, whatever the arguments.
LEMMA MethodSends ==
  ASSUME NEW c \in Calls, NEW d
  PROVE  MethodOf(c, d).pdu \in Requests
<1> USE Numbers
<1>1. c.fc \in Nat /\ c.unit \in Nat /\ c.at \in Nat /\ c.n \in Nat /\ c.wat \in Addresses
  BY DEF Calls
<1>2. c.vals \in Seq({0, 1, 2}) /\ Len(c.vals) \in Nat
  BY DEF Calls
<1>3. ASSUME NEW fc \in Nat, NEW wn \in Nat, NEW count \in Nat, NEW size \in Nat
      PROVE  Pdu(fc, c, wn, count, size) \in Requests
  BY <1>1, <1>2 DEF Pdu, Requests
<1>4. ASSUME NEW x \in Nat  PROVE U8(x) \in Nat /\ U16(x) \in Nat /\ CeilBytes(x) \in Nat
  BY DEF U8, U16, CeilBytes
<1>5. ASSUME NEW fc \in Nat, NEW bytes \in Nat, NEW header \in {5, 9}
      PROVE  WriteBlock(fc, c, header, bytes).pdu \in Requests
  <2>1. U16(Len(c.vals)) \in Nat /\ U8(bytes) \in Nat  BY <1>2, <1>4
  <2>2. header + U8(bytes) \in Nat  BY <2>1
  <2> QED  BY <1>3, <2>1, <2>2 DEF WriteBlock, Method
<1>6. CeilBytes(Len(c.vals)) \in Nat  BY <1>2, <1>4
<1>7. 2 * Len(c.vals) \in Nat  BY <1>2
<1>8. \A fc \in Nat : \A sum, bytes : Read(fc, c, sum, bytes, d).pdu \in Requests
  BY <1>3 DEF Read, Method
<1>11. /\ ReadCoils(c, d).pdu \in Requests /\ ReadDiscreteInputs(c, d).pdu \in Requests
       /\ ReadHoldingRegisters(c, d).pdu \in Requests /\ ReadInputRegisters(c, d).pdu \in Requests
  BY <1>8 DEF ReadCoils, ReadDiscreteInputs, ReadHoldingRegisters, ReadInputRegisters
<1>12. WriteSingleCoil(c).pdu \in Requests /\ WriteSingleRegister(c).pdu \in Requests
  BY <1>3 DEF WriteSingleCoil, WriteSingleRegister, Method
<1>13. WriteMultipleCoils(c).pdu \in Requests /\ WriteMultipleRegisters(c).pdu \in Requests
  BY <1>5, <1>6, <1>7 DEF WriteMultipleCoils, WriteMultipleRegisters
<1>14. ReportServerId(c).pdu \in Requests /\ MaskWriteRegister(c).pdu \in Requests
  BY <1>3 DEF ReportServerId, MaskWriteRegister, Method
<1>15. ReadAndWriteMultipleRegisters(c, d).pdu \in Requests
  <2>1. WriteBlock(23, c, 9, 2 * Len(c.vals)).pdu \in Requests  BY <1>5, <1>7
  <2> QED  BY <2>1 DEF ReadAndWriteMultipleRegisters, Method
<1>16. SendCustomFc(c).pdu \in Requests
  <2>1. Pdu(Custom, c, 0, 0, c.n) \in Requests  BY <1>1, <1>3 DEF Custom
  <2> QED  BY <2>1 DEF SendCustomFc, Method
<1> QED  BY <1>11, <1>12, <1>13, <1>14, <1>15, <1>16 DEF MethodOf

LEMMA VariantsAreRequests ==
  ASSUME NEW r \in Requests, NEW v \in Variants(r)
  PROVE  v \in Requests
<1> USE DEF Requests
<1>1. r.size + 1 \in Nat /\ r.count + 1 \in Nat  OBVIOUS
<1>2. [r EXCEPT !.size = @ + 1] \in Requests /\ [r EXCEPT !.count = @ + 1, !.size = @ + 1] \in Requests
  BY <1>1
<1>3. <<2>> \in Seq({0, 1, 2})  OBVIOUS
<1>4. [r EXCEPT !.vals = <<2>>] \in Requests  BY <1>3
<1> QED  BY <1>2, <1>4 DEF Variants

LEMMA LockedTypes ==
  ASSUME NEW r \in Requests
  PROVE  Locked(r) \subseteq Addresses
<1>1. \A i \in 0 .. (IF r.fc = 23 THEN r.wn ELSE 1) - 1 : r.wat + i \in Nat
  BY Numbers DEF Requests
<1> QED  BY <1>1, U16Type DEF Locked

\* A call: its request goes out, or building it panics.
Issues(t) ==
  /\ pc[t] = "idle" /\ pc' = [pc EXCEPT ![t] = pc'[t]]
  /\ \/ pc'[t] = "done" /\ UNCHANGED <<req, todo>>
     \/ /\ pc'[t] = "models" /\ req'[t] \in Requests /\ todo'[t] \subseteq Units
        /\ req' = [req EXCEPT ![t] = req'[t]] /\ todo' = [todo EXCEPT ![t] = todo'[t]]
  /\ UNCHANGED <<unit, done, got, holds, store, writes, last>>

LEMMA Issuing ==
  ASSUME BaseInv, NEW t \in Clients, NEW c \in CallsOf[t], Issue(t, c)
  PROVE  Issues(t)
<1> USE DEF BaseInv, TypeOK, Steps, ghosts
<1>1. c \in Calls  BY RequestsAssumption
<1>2. /\ pc' = [pc EXCEPT ![t] = pc'[t]] /\ pc[t] = "idle"
      /\ req' = [req EXCEPT ![t] = req'[t]] /\ todo' = [todo EXCEPT ![t] = todo'[t]]
      /\ UNCHANGED <<unit, done, got, holds, store, writes, last>>
  BY DEF Issue, Goto
<1>3. CASE MethodOf(c, debug).panics
  <2>1. UNCHANGED <<req, todo>> /\ pc'[t] = "done"  BY <1>3 DEF Issue, Goto
  <2> QED  BY <1>2, <2>1 DEF Issues
<1>4. CASE ~MethodOf(c, debug).panics
  <2>1. req'[t] \in Requests
    <3>1. MethodOf(c, debug).pdu \in Requests  BY <1>1, MethodSends
    <3>2. req'[t] \in IF t \in Odd THEN Variants(MethodOf(c, debug).pdu) ELSE {MethodOf(c, debug).pdu}
      BY <1>4 DEF Issue
    <3> QED  BY <3>1, <3>2, VariantsAreRequests
  <2>2. todo'[t] \subseteq Units /\ pc'[t] = "models"  BY <1>4 DEF Issue, Goto, Snapshot
  <2> QED  BY <1>2, <2>1, <2>2 DEF Issues
<1> QED  BY <1>3, <1>4

LEMMA BaseIssue ==
  ASSUME BaseInv, NEW t \in Clients, Issues(t)
  PROVE  BaseInv'
<1> USE DEF BaseInv, TypeOK, Steps, Issues
<1>1. TypeOK'
  <2>1. req' \in [Clients -> Requests \cup {NoCall}]  OBVIOUS
  <2>2. todo' \in [Clients -> SUBSET Units]  OBVIOUS
  <2>3. pc' \in [Clients -> Steps]  OBVIOUS
  <2> QED  BY <2>1, <2>2, <2>3
<1>2. FlowInv'  BY DEF FlowInv, Holding
<1> QED  BY <1>1, <1>2 DEF HoldsInv, LastInv

\* A step that leaves the model, or never came to it, and gives back the locks if it had any.
Settles(t) ==
  /\ pc' = [pc EXCEPT ![t] = pc'[t]] /\ pc'[t] \in {"models", "done"}
  /\ pc[t] \in {"models", "answer", "read", "write"}
  /\ holds' = [holds EXCEPT ![t] = {}]
  /\ todo' = [todo EXCEPT ![t] = todo'[t]] /\ todo'[t] \subseteq todo[t]
  /\ unit' = [unit EXCEPT ![t] = unit'[t]] /\ unit'[t] \in Units \cup {0}
  /\ UNCHANGED <<req, done, got, store, writes, last>>

LEMMA Settling ==
  ASSUME BaseInv, NEW t \in Clients,
         \/ \E u \in Units : AskCustom(t, u) \/ Intercept(t, u)
         \/ Fail(t) \/ Answer(t) \/ AnswerServerId(t) \/ Receive(t)
  PROVE  Settles(t)
<1> USE DEF BaseInv, TypeOK, Settles, taskVars, ghosts, NotHonest, Refuse, Goto
<1>1. pc[t] \in {"models", "answer"} /\ UNCHANGED holds => holds' = [holds EXCEPT ![t] = {}]
  BY DEF FlowInv, Holding
<1>2. ASSUME NEW u \in Units, AskCustom(t, u) \/ Intercept(t, u)  PROVE Settles(t)
  <2>1. pc[t] = "models" /\ unit' = [unit EXCEPT ![t] = u] /\ todo' = [todo EXCEPT ![t] = @ \ {u}]
        /\ pc' = [pc EXCEPT ![t] = "models"] /\ UNCHANGED <<req, done, got, holds, store, writes, last>>
    BY <1>2 DEF AskCustom, Intercept
  <2> QED  BY <1>1, <2>1
<1>3. CASE Fail(t)  BY <1>3 DEF Fail, Locks!Release
<1>4. CASE Answer(t)  BY <1>1, <1>4 DEF Answer
<1>5. CASE AnswerServerId(t)  BY <1>1, <1>5 DEF AnswerServerId
<1>6. CASE Receive(t)  BY <1>1, <1>6 DEF Receive
<1> QED  BY <1>2, <1>3, <1>4, <1>5, <1>6

LEMMA BaseSettles ==
  ASSUME BaseInv, NEW t \in Clients, Settles(t)
  PROVE  BaseInv'
<1> USE DEF BaseInv, TypeOK, Steps, Settles
<1>1. TypeOK'
  <2>1. todo' \in [Clients -> SUBSET Units] /\ pc' \in [Clients -> Steps]  OBVIOUS
  <2>2. unit' \in [Clients -> Units \cup {0}] /\ holds' \in [Clients -> SUBSET Addresses]  OBVIOUS
  <2> QED  BY <2>1, <2>2
<1>2. FlowInv'
  <2> SUFFICES ASSUME NEW s \in Clients  PROVE FlowInv!(s)'
    BY DEF FlowInv
  <2>1. CASE s # t  BY <2>1 DEF FlowInv, Holding
  <2>2. CASE s = t
    <3>1. pc[t] \notin {"idle", "done"} /\ holds'[t] = {}  OBVIOUS
    <3> QED  BY <2>2, <3>1 DEF FlowInv, Holding
  <2> QED  BY <2>1, <2>2
<1> QED  BY <1>1, <1>2 DEF HoldsInv, LastInv

\* A model is asked: where the request goes from there.
Asks(t, u) ==
  /\ pc[t] = "models" /\ req[t] \in Requests /\ u \in todo[t] /\ u \in Units
  /\ unit' = [unit EXCEPT ![t] = u] /\ done' = [done EXCEPT ![t] = 0]
  /\ DOMAIN got' = DOMAIN got /\ \A s \in Clients \ {t} : got'[s] = got[s]
  /\ todo' = [todo EXCEPT ![t] = todo'[t]] /\ todo'[t] \subseteq todo[t] \ {u}
  /\ pc' = [pc EXCEPT ![t] = pc'[t]]
  /\ UNCHANGED <<req, holds, store, writes, last>>
  /\ \/ pc'[t] = "models"
     \/ pc'[t] = "lock" /\ req[t].fc = 22
     \/ pc'[t] = "lock" /\ req[t].fc = 23 /\ req[t].wn > 0
     \/ pc'[t] = "read" /\ req[t].fc \in {1, 2, 3, 4}
     \/ pc'[t] = "write" /\ req[t].fc \in {5, 6}
     \/ pc'[t] = "write" /\ req[t].fc \in {15, 16} /\ req[t].wn > 0
     \/ pc'[t] = "answer" /\ req[t].fc = 17

LEMMA Asking ==
  ASSUME BaseInv, NEW t \in Clients, NEW u \in Units, Ask(t, u)
  PROVE  Asks(t, u)
<1> USE DEF BaseInv, TypeOK, Steps, ghosts, Goto
<1>1. /\ pc[t] = "models" /\ req[t] \in Requests /\ u \in todo[t]
      /\ unit' = [unit EXCEPT ![t] = u] /\ done' = [done EXCEPT ![t] = 0]
      /\ DOMAIN got' = DOMAIN got /\ \A s \in Clients \ {t} : got'[s] = got[s]
      /\ todo' = [todo EXCEPT ![t] = todo'[t]] /\ todo'[t] \subseteq todo[t] \ {u}
      /\ pc' = [pc EXCEPT ![t] = pc'[t]]
      /\ UNCHANGED <<req, holds, store, writes, last>>
  BY DEF Ask, Refuse, FlowInv
<1>2. CASE HandlerOf(req[t], Ranges[u], debug) # "run"
  <2>1. pc'[t] = "models"  BY <1>1, <1>2 DEF Ask, Refuse
  <2> QED  BY <1>1, <2>1 DEF Asks
<1>3. CASE HandlerOf(req[t], Ranges[u], debug) = "run"
  <2>1. /\ req[t].fc \in {1, 2, 3, 4, 5, 6, 15, 16, 17, 22, 23}
        /\ req[t].fc \in BlockWrites => req[t].wn > 0
    BY <1>1, <1>3, RunVerdict
  <2>2. pc'[t] = CASE req[t].fc \in {1, 2, 3, 4} -> "read"
                   [] req[t].fc \in {22, 23} -> "lock"
                   [] req[t].fc = 17 -> "answer"
                   [] OTHER -> "write"
    BY <1>3 DEF Ask, Errors
  <2> QED  BY <1>1, <2>1, <2>2 DEF Asks, BlockWrites
<1> QED  BY <1>2, <1>3

LEMMA BaseAsk ==
  ASSUME BaseInv, NEW t \in Clients, NEW u \in Units, Asks(t, u)
  PROVE  BaseInv'
<1> USE DEF BaseInv, TypeOK, Steps, Asks
<1>1. TypeOK'
  <2>1. pc' \in [Clients -> Steps]  OBVIOUS
  <2>2. todo' \in [Clients -> SUBSET Units] /\ unit' \in [Clients -> Units \cup {0}] /\ done' \in [Clients -> Nat]
    OBVIOUS
  <2> QED  BY <2>1, <2>2
<1>2. FlowInv'
  <2> SUFFICES ASSUME NEW s \in Clients  PROVE FlowInv!(s)'
    BY DEF FlowInv
  <2>1. CASE s # t  BY <2>1 DEF FlowInv, Holding
  <2>2. CASE s = t
    <3>1. 0 < CountToWrite(req[t]) \/ pc'[t] \notin {"lock", "write"}
      BY DEF CountToWrite, BlockWrites
    <3>2. holds[t] = {}  BY DEF FlowInv, Holding
    <3> QED  BY <2>2, <3>1, <3>2 DEF FlowInv, Holding, Writes
  <2> QED  BY <2>1, <2>2
<1> QED  BY <1>1, <1>2 DEF HoldsInv, LastInv
TakesLock(t) ==
  /\ pc[t] = "lock" /\ req[t] \in Requests /\ req[t].fc \in {22, 23} /\ done[t] = 0
  /\ holds' = [holds EXCEPT ![t] = Locked(req[t])]
  /\ \A s \in Clients : holds[s] \cap Locked(req[t]) = {}
  /\ pc' = [pc EXCEPT ![t] = IF req[t].fc = 22 THEN "read" ELSE "write"]
  /\ UNCHANGED <<req, todo, unit, done, got, store, writes, last>>

LEMMA TakingLock ==
  ASSUME BaseInv, NEW t \in Clients, Lock(t)
  PROVE  TakesLock(t)
BY DEF BaseInv, TypeOK, Lock, Goto, Locks!Acquire, After, taskVars, ghosts, FlowInv, TakesLock

LEMMA BaseLock ==
  ASSUME BaseInv, NEW t \in Clients, TakesLock(t)
  PROVE  BaseInv'
<1> USE DEF BaseInv, TypeOK, Steps, TakesLock
<1>1. TypeOK'
  <2>1. holds' \in [Clients -> SUBSET Addresses]  BY LockedTypes
  <2> QED  BY <2>1
<1>2. FlowInv'
  <2> SUFFICES ASSUME NEW s \in Clients  PROVE FlowInv!(s)'
    BY DEF FlowInv
  <2>1. CASE s # t  BY <2>1 DEF FlowInv, Holding
  <2>2. CASE s = t  BY <2>2 DEF FlowInv, Holding, Writes
  <2> QED  BY <2>1, <2>2
<1>3. HoldsInv'  BY DEF HoldsInv
<1> QED  BY <1>1, <1>2, <1>3 DEF LastInv

\* A read of the model; what FC22 has read is what the table held.
Reads(t) ==
  /\ pc[t] = "read" /\ req[t] \in Requests
  /\ pc' = [pc EXCEPT ![t] = IF req[t].fc = 22 THEN "write" ELSE "answer"]
  /\ DOMAIN got' = DOMAIN got /\ \A s \in Clients \ {t} : got'[s] = got[s]
  /\ req[t].fc = 22 => got'[t][1] = store[unit[t]]["holding_registers"][req[t].wat]
  /\ UNCHANGED <<req, todo, unit, done, holds, store, writes, last>>

LEMMA Reading ==
  ASSUME BaseInv, NEW t \in Clients, ReadModel(t)
  PROVE  Reads(t)
<1> USE DEF BaseInv, TypeOK, Steps
<1>1. /\ pc[t] = "read" /\ req[t] \in Requests
      /\ pc' = [pc EXCEPT ![t] = IF req[t].fc = 22 THEN "write" ELSE "answer"]
      /\ DOMAIN got' = DOMAIN got /\ \A s \in Clients \ {t} : got'[s] = got[s]
      /\ UNCHANGED <<req, todo, unit, done, holds, store, writes, last>>
  BY DEF ReadModel, Goto, After, ghosts, FlowInv
<1>2. ASSUME req[t].fc = 22  PROVE got'[t][1] = store[unit[t]]["holding_registers"][req[t].wat]
  <2>1. got'[t] = [i \in 1 .. 1 |-> store[unit[t]][Space(22)][req[t].wat + i - 1]]
    BY <1>2 DEF ReadModel
  <2>2. Space(22) = "holding_registers" /\ req[t].wat + 1 - 1 = req[t].wat
    BY <1>1, Numbers DEF Space, Requests
  <2> QED  BY <2>1, <2>2
<1> QED  BY <1>1, <1>2 DEF Reads

LEMMA BaseRead ==
  ASSUME BaseInv, NEW t \in Clients, Reads(t)
  PROVE  BaseInv'
<1> USE DEF BaseInv, TypeOK, Steps, Reads
<1>1. TypeOK'  OBVIOUS
<1>2. FlowInv'
  <2> SUFFICES ASSUME NEW s \in Clients  PROVE FlowInv!(s)'
    BY DEF FlowInv
  <2>1. CASE s # t  BY <2>1 DEF FlowInv, Holding
  <2>2. CASE s = t
    <3>1. done[t] < CountToWrite(req[t]) \/ req[t].fc # 22
      BY DEF FlowInv, CountToWrite, BlockWrites
    <3> QED  BY <2>2, <3>1 DEF FlowInv, Holding, Writes
  <2> QED  BY <2>1, <2>2
<1> QED  BY <1>1, <1>2 DEF HoldsInv, LastInv

\* The next element of a write.
Element(t) == U16(req[t].wat + done[t])

\* A write of one element, the last or not.
Finishes(t) ==
  /\ done[t] + 1 = CountToWrite(req[t]) /\ holds' = [holds EXCEPT ![t] = {}]
  /\ pc' = [pc EXCEPT ![t] = IF req[t].fc = 23 THEN "read" ELSE "answer"]

Continues(t) == done[t] + 1 # CountToWrite(req[t]) /\ UNCHANGED <<holds, pc>>

WritesOne(t) ==
  /\ pc[t] = "write" /\ req[t] \in Requests /\ req[t].fc \in Writes
  /\ unit[t] \in Units /\ unit[t] \notin todo[t] /\ Space(req[t].fc) \in Spaces
  /\ done[t] \in Nat /\ done[t] < CountToWrite(req[t]) /\ Element(t) \in Addresses
  /\ done' = [done EXCEPT ![t] = @ + 1]
  /\ \E v : store' = [store EXCEPT ![unit[t]][Space(req[t].fc)][Element(t)] = v]
  /\ writes' = [writes EXCEPT ![t] = @ \cup {<<unit[t], Element(t)>>}]
  /\ last' = [last EXCEPT ![unit[t]][Space(req[t].fc)][Element(t)] = t]
  /\ Finishes(t) \/ Continues(t)
  /\ UNCHANGED <<req, todo, unit, got>>

LEMMA WritingOne ==
  ASSUME BaseInv, NEW t \in Clients, WriteModel(t)
  PROVE  WritesOne(t)
<1> USE DEF BaseInv, TypeOK, Steps
<1>1. pc[t] = "write" /\ req[t] \in Requests /\ req[t].fc \in Writes
      /\ unit[t] \in Units /\ unit[t] \notin todo[t] /\ done[t] \in Nat /\ done[t] < CountToWrite(req[t])
  BY DEF WriteModel, FlowInv
<1>2. Space(req[t].fc) \in Spaces  BY <1>1 DEF Space, Spaces, Writes
<1>3. Element(t) \in Addresses
  <2>1. req[t].wat + done[t] \in Nat  BY <1>1, Numbers DEF Requests
  <2> QED  BY <2>1, U16Type DEF Element
<1>4. /\ done' = [done EXCEPT ![t] = @ + 1]
      /\ \E v : store' = [store EXCEPT ![unit[t]][Space(req[t].fc)][Element(t)] = v]
      /\ writes' = [writes EXCEPT ![t] = @ \cup {<<unit[t], Element(t)>>}]
      /\ last' = [last EXCEPT ![unit[t]][Space(req[t].fc)][Element(t)] = t]
      /\ UNCHANGED <<req, todo, unit, got>>
  BY DEF WriteModel, Element
<1>5. ASSUME done[t] + 1 = CountToWrite(req[t])  PROVE Finishes(t)
  <2>1. pc' = [pc EXCEPT ![t] = After(req[t], "write")] /\ holds' = [holds EXCEPT ![t] = {}]
    BY <1>5 DEF WriteModel, Goto, Locks!Release
  <2>2. After(req[t], "write") = IF req[t].fc = 23 THEN "read" ELSE "answer"
    BY DEF After
  <2> QED  BY <1>5, <2>1, <2>2 DEF Finishes
<1>6. ASSUME done[t] + 1 # CountToWrite(req[t])  PROVE Continues(t)
  <2>1. pc' = pc  BY <1>1, <1>6 DEF WriteModel, Goto
  <2>2. holds' = holds  BY <1>6 DEF WriteModel
  <2> QED  BY <1>6, <2>1, <2>2 DEF Continues
<1> QED  BY <1>1, <1>2, <1>3, <1>4, <1>5, <1>6 DEF WritesOne

LEMMA BaseWrite ==
  ASSUME BaseInv, NEW t \in Clients, WritesOne(t)
  PROVE  BaseInv'
<1> USE DEF BaseInv, TypeOK, Steps, WritesOne, Finishes, Continues
<1>1. TypeOK'
  <2>1. done' \in [Clients -> Nat]  OBVIOUS
  <2>5. holds' \in [Clients -> SUBSET Addresses] /\ pc' \in [Clients -> Steps]
    <3>1. CASE Finishes(t)  BY <3>1
    <3>2. CASE Continues(t)  BY <3>2
    <3> QED  BY <3>1, <3>2
  <2>2. writes' \in [Clients -> SUBSET (Units \X Addresses)]  OBVIOUS
  <2>3. last' \in [Units -> [Spaces -> [Addresses -> Clients \cup {Nobody}]]]  OBVIOUS
  <2>4. DOMAIN store' = Units
        /\ \A u \in Units : DOMAIN store'[u] = Spaces /\ \A s \in Spaces : DOMAIN store'[u][s] = Addresses
    OBVIOUS
  <2> QED  BY <2>1, <2>2, <2>3, <2>4, <2>5
<1>2. FlowInv'
  <2> SUFFICES ASSUME NEW s \in Clients  PROVE FlowInv!(s)'
    BY DEF FlowInv
  <2>1. CASE s # t  BY <2>1 DEF FlowInv, Holding
  <2>2. CASE s = t
    <3>1. CountToWrite(req[t]) \in Nat  BY DEF CountToWrite, Requests
    <3>2. CASE Finishes(t)  BY <2>2, <3>1, <3>2 DEF FlowInv, Holding
    <3>3. CASE Continues(t)
      <4>1. pc'[t] = "write" /\ holds'[t] = holds[t] /\ req'[t] = req[t] /\ writes'[t] # {}
        BY <3>3
      <4>2. done'[t] < CountToWrite(req[t])  BY <3>1, <3>3
      <4>3. CountToWrite(req[t])' = CountToWrite(req[t]) /\ Locked(req[t])' = Locked(req[t])
        BY DEF CountToWrite, Locked
      <4>4. unit'[t] \in Units /\ unit'[t] \notin todo'[t] /\ Holding(t)' = Holding(t)
        BY <4>1 DEF Holding
      <4>5. holds[t] = IF Holding(t) THEN Locked(req[t]) ELSE {}  BY DEF FlowInv
      <4> QED  BY <2>2, <4>1, <4>2, <4>3, <4>4, <4>5
    <3> QED  BY <3>2, <3>3
  <2> QED  BY <2>1, <2>2
<1>3. HoldsInv'
  <2>1. \A s \in Clients : holds'[s] \subseteq holds[s]  OBVIOUS
  <2> QED  BY <2>1 DEF HoldsInv
<1>4. LastInv'
  <2> SUFFICES ASSUME NEW u \in Units, NEW s \in Spaces, NEW a \in Addresses, last'[u][s][a] \in Clients
               PROVE  writes'[last'[u][s][a]] # {}
    BY DEF LastInv
  <2>1. CASE last'[u][s][a] = last[u][s][a]  BY <2>1 DEF LastInv
  <2>2. writes'[t] # {}
    <3>1. writes' = [writes EXCEPT ![t] = @ \cup {<<unit[t], Element(t)>>}] /\ t \in DOMAIN writes  OBVIOUS
    <3> HIDE DEF WritesOne, TypeOK, BaseInv
    <3> QED  BY <3>1
  <2>3. last'[u][s][a] \in {t, last[u][s][a]}  OBVIOUS
  <2> QED  BY <2>1, <2>2, <2>3
<1> QED  BY <1>1, <1>2, <1>3, <1>4

LEMMA StepKinds ==
  ASSUME BaseInv, Next
  PROVE  \E t \in Clients :
           \/ Issues(t) \/ Settles(t) \/ TakesLock(t) \/ Reads(t) \/ WritesOne(t)
           \/ \E u \in Units : Asks(t, u)
<1>1. PICK t \in Clients : Task(t) \/ \E c \in CallsOf[t] : Issue(t, c)
  BY DEF Next
<1>2. CASE \E c \in CallsOf[t] : Issue(t, c)  BY <1>2, Issuing
<1>3. CASE Task(t)
  <2>1. CASE \E u \in Units : Ask(t, u)  BY <2>1, Asking
  <2>2. CASE Lock(t)  BY <2>2, TakingLock
  <2>3. CASE ReadModel(t)  BY <2>3, Reading
  <2>4. CASE WriteModel(t)  BY <2>4, WritingOne
  <2> QED  BY <1>3, <2>1, <2>2, <2>3, <2>4, Settling DEF Task
<1> QED  BY <1>1, <1>2, <1>3

LEMMA BaseStep ==
  ASSUME BaseInv, Next
  PROVE  BaseInv'
BY StepKinds, BaseIssue, BaseSettles, BaseAsk, BaseLock, BaseRead, BaseWrite

-----------------------------------------------------------------------------
Regs == "holding_registers"
ElementOf(t, i) == U16(req[t].wat + i)

\* A model that is still to be written holds nothing of the request; one that is being
\* written, what has been done.
FreshAt(t) ==
  /\ \A u \in Units, a \in Addresses :
       u \in todo[t] \/ (pc[t] = "lock" /\ u = unit[t]) => <<u, a>> \notin writes[t]
  /\ pc[t] = "write" =>
       \A a \in Addresses :
         <<unit[t], a>> \in writes[t] => \E i \in Nat : i < done[t] /\ a = ElementOf(t, i)

FreshInv == \A t \in Clients : req[t].fc = 23 => FreshAt(t)

\* What FC23 has done of its write, no other FC23 has written since.
ProgressInv ==
  \A s, t \in Clients :
    s # t /\ req[s].fc = 23 /\ req[t].fc = 23 /\ pc[s] = "write" =>
      \A i \in Nat : i < done[s] => last[unit[s]][Regs][ElementOf(s, i)] # t

\* What FC22 has read is still there, unless a write without lock replaced it.
ReadAt(t) ==
  LET w == last[unit[t]][Regs][req[t].wat] IN
  got[t][1] # store[unit[t]][Regs][req[t].wat] => w \in Clients /\ w # t /\ req[w].fc \in {6, 16}

ReadInv == \A t \in Clients : pc[t] = "write" /\ req[t].fc = 22 => ReadAt(t)

Busy(t, u) == pc[t] = "write" /\ unit[t] = u

Torn(s, t, u) ==
  \E a, b \in Block(req[s]) \cap Block(req[t]) : last[u][Regs][a] = s /\ last[u][Regs][b] = t

PairInv ==
  \A s, t \in Clients, u \in Units :
    /\ s # t /\ req[s].fc = 23 /\ req[t].fc = 23 /\ ~Busy(s, u) /\ ~Busy(t, u)
    /\ Wrote(s, u) /\ Wrote(t, u)
    => ~Torn(s, t, u)

TearInv == FreshInv /\ ProgressInv /\ ReadInv /\ PairInv

\* The lock covers what is written.
LEMMA Held ==
  ASSUME BaseInv, NEW t \in Clients, pc[t] = "write", req[t].fc \in {22, 23}
  PROVE  /\ req[t] \in Requests /\ unit[t] \in Units /\ done[t] \in Nat
         /\ \A i \in Nat : i <= done[t] => ElementOf(t, i) \in holds[t]
         /\ req[t].fc = 22 => done[t] = 0 /\ Element(t) = req[t].wat /\ req[t].wat \in holds[t]
<1> USE DEF BaseInv, TypeOK, FlowInv
<1>1. req[t] \in Requests /\ unit[t] \in Units /\ done[t] \in Nat /\ done[t] < CountToWrite(req[t])
      /\ holds[t] = Locked(req[t])
  BY DEF Holding
<1>2. ASSUME NEW i \in Nat, i <= done[t]  PROVE ElementOf(t, i) \in holds[t]
  <2>1. i \in 0 .. (IF req[t].fc = 23 THEN req[t].wn ELSE 1) - 1
    BY <1>1, <1>2 DEF CountToWrite, BlockWrites, Requests
  <2> QED  BY <1>1, <2>1 DEF Locked, ElementOf
<1>3. ASSUME req[t].fc = 22  PROVE done[t] = 0 /\ Element(t) = req[t].wat /\ req[t].wat \in holds[t]
  <2>1. done[t] = 0  BY <1>1, <1>3 DEF CountToWrite, BlockWrites
  <2>2. req[t].wat \in Addresses /\ req[t].wat + 0 = req[t].wat  BY <1>1, Numbers DEF Requests
  <2>3. U16(req[t].wat + 0) = req[t].wat  BY <2>2, U16Same
  <2>4. ElementOf(t, 0) \in holds[t]  BY <1>1, <1>2, <2>1
  <2> QED  BY <2>1, <2>3, <2>4 DEF Element, ElementOf
<1> QED  BY <1>1, <1>2, <1>3

\* The steps that write nothing.
LEMMA TearQuiet ==
  ASSUME BaseInv, TearInv, NEW t \in Clients,
         Issues(t) \/ TakesLock(t) \/ Reads(t) \/ \E u \in Units : Asks(t, u)
  PROVE  FreshInv' /\ ProgressInv'
<1> USE DEF BaseInv, TypeOK, TearInv
<1>1. CASE Issues(t)
  <2>1. writes[t] = {} /\ \A u \in Units, a \in Addresses : last[u][Regs][a] # t
    BY <1>1 DEF Issues, FlowInv, LastInv, Spaces, Regs
  <2>2. FreshInv'  BY <1>1, <2>1 DEF Issues, FreshInv, FreshAt, ElementOf
  <2>3. ASSUME NEW s \in Clients, NEW i \in Nat, pc[s] = "write", req[s].fc = 23
        PROVE  unit[s] \in Units /\ (i < done[s] => ElementOf(s, i) \in Addresses)
    BY <2>3, Held
  <2>4. ProgressInv'  BY <1>1, <2>1, <2>3 DEF Issues, ProgressInv, ElementOf
  <2> QED  BY <2>2, <2>4
<1>2. CASE TakesLock(t)
  <2>1. unit[t] \in Units  BY <1>2 DEF TakesLock, FlowInv
  <2>2. req[t].fc = 23 => \A a \in Addresses : <<unit[t], a>> \notin writes[t]
    BY <1>2, <2>1 DEF TakesLock, FreshInv, FreshAt
  <2>3. FreshInv'  BY <1>2, <2>2 DEF TakesLock, FreshInv, FreshAt, ElementOf
  <2>4. ProgressInv'  BY <1>2 DEF TakesLock, ProgressInv, ElementOf
  <2> QED  BY <2>3, <2>4
<1>3. CASE Reads(t)
  <2>1. \A s \in Clients : pc'[s] \in {"lock", "write"} /\ req[s].fc = 23 => pc'[s] = pc[s]
    BY <1>3 DEF Reads
  <2>2. FreshInv'  BY <1>3, <2>1 DEF Reads, FreshInv, FreshAt, ElementOf
  <2>3. ProgressInv'  BY <1>3, <2>1 DEF Reads, ProgressInv, ElementOf
  <2> QED  BY <2>2, <2>3
<1>4. ASSUME NEW u \in Units, Asks(t, u)  PROVE FreshInv' /\ ProgressInv'
  BY <1>4 DEF Asks, FreshInv, FreshAt, ProgressInv, ElementOf
<1> QED  BY <1>1, <1>2, <1>3, <1>4
LEMMA ReadQuiet ==
  ASSUME BaseInv, TearInv, NEW t \in Clients,
         \/ Issues(t) \/ Settles(t) \/ TakesLock(t) \/ Reads(t)
         \/ \E u \in Units : Asks(t, u)
  PROVE  ReadInv'
<1> USE DEF BaseInv, TypeOK, TearInv
<1> SUFFICES ASSUME NEW s \in Clients, pc'[s] = "write", req'[s].fc = 22  PROVE ReadAt(s)'
  BY DEF ReadInv
<1>1. ASSUME NEW u \in Units, NEW a \in Addresses, last[u][Regs][a] = t  PROVE pc[t] # "idle"
  BY <1>1 DEF FlowInv, LastInv, Regs, Spaces
<1>2. CASE s # t
  <2>1. pc[s] = "write" /\ req[s].fc = 22 /\ UNCHANGED <<store, last>> /\ unit'[s] = unit[s] /\ got'[s] = got[s]
        /\ req'[s] = req[s] /\ (pc[t] # "idle" => UNCHANGED req) /\ \A r \in Clients \ {t} : req'[r] = req[r]
    BY <1>2 DEF Issues, Settles, TakesLock, Reads, Asks
  <2>2. unit[s] \in Units /\ req[s].wat \in Addresses  BY <2>1, Held DEF Requests
  <2>3. ReadAt(s)  BY <2>1 DEF ReadInv
  <2> QED  BY <1>1, <2>1, <2>2, <2>3 DEF ReadAt
<1>3. CASE s = t
  <2>1. Reads(t)  BY <1>3 DEF Issues, Settles, TakesLock, Reads, Asks
  <2> QED  BY <1>3, <2>1 DEF Reads, Regs, ReadAt
<1> QED  BY <1>2, <1>3

\* A request that leaves the write of its block has it all to itself, or had it until
\* requests without lock came.
LEMMA LeavesWhole ==
  ASSUME BaseInv, TearInv, NEW s \in Clients, NEW t \in Clients, s # t,
         req[s].fc = 23, req[t].fc = 23, pc[s] = "write",
         NEW a \in Addresses, <<unit[s], a>> \in writes[s]
  PROVE  last[unit[s]][Regs][a] # t
<1>1. PICK i \in Nat : i < done[s] /\ a = ElementOf(s, i)
  BY DEF TearInv, FreshInv, FreshAt
<1> QED  BY <1>1 DEF TearInv, ProgressInv

LEMMA TearSettles ==
  ASSUME BaseInv, TearInv, NEW t \in Clients, Settles(t)
  PROVE  FreshInv' /\ ProgressInv' /\ PairInv'
<1> USE DEF BaseInv, TypeOK, TearInv, Settles
<1>1. FreshInv'  BY DEF FreshInv, FreshAt, ElementOf
<1>2. ProgressInv'
  <2>1. \A s \in Clients : pc'[s] = "write" => pc[s] = "write" /\ unit'[s] = unit[s]  OBVIOUS
  <2> QED  BY <2>1 DEF ProgressInv, ElementOf
<1>3. PairInv'
  <2> SUFFICES ASSUME NEW r \in Clients, NEW s \in Clients, NEW u \in Units, r # s,
                      req'[r].fc = 23, req'[s].fc = 23, ~Busy(r, u)', ~Busy(s, u)', Wrote(r, u)', Wrote(s, u)'
               PROVE  ~Torn(r, s, u)'
    BY DEF PairInv
  <2> SUFFICES ~Torn(r, s, u)
    BY DEF Torn, Block
  <2>0. req[r].fc = 23 /\ req[s].fc = 23 /\ Wrote(r, u) /\ Wrote(s, u)
    BY DEF Wrote, Block
  <2>1. CASE ~Busy(r, u) /\ ~Busy(s, u)  BY <2>0, <2>1 DEF PairInv
  <2>2. ASSUME NEW p \in Clients, NEW q \in Clients, (p = r /\ q = s) \/ (p = s /\ q = r), Busy(p, u)  PROVE ~Torn(r, s, u)
    <3>1. pc[p] = "write" /\ unit[p] = u  BY <2>2 DEF Busy
    <3>2. req[p].fc = 23 /\ req[q].fc = 23 /\ p # q /\ Wrote(p, u)  BY <2>0, <2>2
    <3>3. ASSUME NEW a \in Block(req[p])  PROVE last[u][Regs][a] # q
      <4>1. <<u, a>> \in writes[p]  BY <3>2, <3>3 DEF Wrote
      <4>2. a \in Addresses  BY <4>1
      <4> QED  BY <3>1, <3>2, <4>1, <4>2, LeavesWhole
    <3> QED  BY <2>2, <3>3 DEF Torn
  <2> QED  BY <2>1, <2>2
<1> QED  BY <1>1, <1>2, <1>3
LEMMA PairQuiet ==
  ASSUME BaseInv, TearInv, NEW t \in Clients,
         Issues(t) \/ TakesLock(t) \/ Reads(t) \/ \E u \in Units : Asks(t, u)
  PROVE  PairInv'
<1> USE DEF BaseInv, TypeOK, TearInv
<1> SUFFICES ASSUME NEW r \in Clients, NEW s \in Clients, NEW u \in Units, r # s,
                    req'[r].fc = 23, req'[s].fc = 23, ~Busy(r, u)', ~Busy(s, u)', Wrote(r, u)', Wrote(s, u)'
             PROVE  ~Torn(r, s, u)'
  BY DEF PairInv
<1>1. pc[t] # "write" /\ UNCHANGED <<writes, last>> /\ \A p \in Clients \ {t} : pc'[p] = pc[p] /\ unit'[p] = unit[p]
  BY DEF Issues, TakesLock, Reads, Asks
<1>2. ~Busy(r, u) /\ ~Busy(s, u)  BY <1>1 DEF Busy
<1>3. CASE UNCHANGED req
  <2>1. Block(req'[r]) = Block(req[r]) /\ Block(req'[s]) = Block(req[s])  BY <1>3
  <2>2. req[r].fc = 23 /\ req[s].fc = 23 /\ Wrote(r, u) /\ Wrote(s, u)
    BY <1>1, <1>3, <2>1 DEF Wrote
  <2>3. ~Torn(r, s, u)  BY <1>2, <2>2 DEF PairInv
  <2> QED  BY <1>1, <2>1, <2>3 DEF Torn
<1>4. CASE req' # req
  <2>1. Issues(t)  BY <1>4 DEF TakesLock, Reads, Asks
  <2>2. writes[t] = {}  BY <2>1 DEF Issues, FlowInv
  <2>3. CASE t \in {r, s}
    <3>1. Block(req'[t]) = {}  BY <1>1, <2>2, <2>3 DEF Wrote
    <3> QED  BY <2>3, <3>1 DEF Torn, Block
  <2>4. CASE t \notin {r, s}
    <3>1. req'[r] = req[r] /\ req'[s] = req[s]  BY <2>1, <2>4 DEF Issues
    <3>2. req[r].fc = 23 /\ req[s].fc = 23 /\ Wrote(r, u) /\ Wrote(s, u)
      BY <1>1, <3>1 DEF Wrote
    <3>3. ~Torn(r, s, u)  BY <1>2, <3>2 DEF PairInv
    <3> QED  BY <1>1, <3>1, <3>3 DEF Torn
  <2> QED  BY <2>3, <2>4
<1> QED  BY <1>3, <1>4

\* Who writes an element, and where another request holds it.
LEMMA WriteEffect ==
  ASSUME BaseInv, NEW t \in Clients, WritesOne(t)
  PROVE  /\ \A u \in Units, a \in Addresses :
              \/ /\ last'[u][Regs][a] = last[u][Regs][a] /\ store'[u][Regs][a] = store[u][Regs][a]
              \/ /\ u = unit[t] /\ a = Element(t) /\ last'[u][Regs][a] = t
                 /\ req[t].fc \in {6, 16, 22, 23}
         /\ \A s \in Clients : req[s].fc \in {22, 23} /\ s # t /\ req[t].fc \in {22, 23} => Element(t) \notin holds[s]
         /\ req[t].fc = 23 => last'[unit[t]][Regs][Element(t)] = t
<1> USE DEF BaseInv, TypeOK, WritesOne
<1>1. Space(req[t].fc) = Regs => req[t].fc \in {6, 16, 22, 23}
  BY DEF Space, Regs, Writes
<1>2. req[t].fc = 23 => Space(req[t].fc) = Regs  BY DEF Space, Regs
<1>3. Regs \in Spaces  BY DEF Regs, Spaces
<1>4. \A u \in Units, a \in Addresses :
        \/ /\ last'[u][Regs][a] = last[u][Regs][a] /\ store'[u][Regs][a] = store[u][Regs][a]
        \/ /\ u = unit[t] /\ a = Element(t) /\ last'[u][Regs][a] = t /\ Space(req[t].fc) = Regs
  BY <1>3
<1>5. ASSUME req[t].fc \in {22, 23}  PROVE Element(t) \in holds[t]
  <2>1. ElementOf(t, done[t]) \in holds[t]  BY <1>5, Held
  <2> QED  BY <2>1 DEF Element, ElementOf
<1>6. req[t].fc = 23 => last'[unit[t]][Regs][Element(t)] = t  BY <1>2, <1>3
<1>7. ASSUME NEW s \in Clients, s # t, req[t].fc \in {22, 23}  PROVE Element(t) \notin holds[s]
  BY <1>5, <1>7 DEF HoldsInv
<1> QED  BY <1>1, <1>4, <1>6, <1>7

LEMMA TearWrite ==
  ASSUME BaseInv, TearInv, NEW t \in Clients, WritesOne(t)
  PROVE  FreshInv' /\ ProgressInv' /\ ReadInv'
<1> USE DEF BaseInv, TypeOK, TearInv
<1>1. /\ pc[t] = "write" /\ unit[t] \in Units /\ unit[t] \notin todo[t] /\ Element(t) \in Addresses
      /\ done' = [done EXCEPT ![t] = @ + 1] /\ UNCHANGED <<req, todo, unit, got>>
      /\ writes' = [writes EXCEPT ![t] = @ \cup {<<unit[t], Element(t)>>}]
      /\ \A s \in Clients \ {t} : pc'[s] = pc[s] /\ done'[s] = done[s]
      /\ pc'[t] \in {"write", "read", "answer"} /\ (pc'[t] = "write" => done[t] + 1 # CountToWrite(req[t]))
  BY DEF WritesOne, Finishes, Continues
<1>2. FreshInv'
  <2> SUFFICES ASSUME NEW s \in Clients, req[s].fc = 23  PROVE FreshAt(s)'
    BY <1>1 DEF FreshInv
  <2>1. CASE s # t  BY <1>1, <2>1 DEF FreshInv, FreshAt, ElementOf
  <2>2. CASE s = t
    <3>1. done[t] \in Nat /\ done'[t] = done[t] + 1 /\ Element(t) = ElementOf(t, done[t])
      BY <1>1 DEF Element, ElementOf
    <3>2. ASSUME NEW u \in Units, NEW a \in Addresses, u \in todo[t]  PROVE <<u, a>> \notin writes'[t]
      BY <1>1, <2>2, <3>2 DEF FreshInv, FreshAt
    <3>3. ASSUME NEW a \in Addresses, <<unit[t], a>> \in writes'[t]
          PROVE  \E i \in Nat : i < done'[t] /\ a = U16(req'[t].wat + i)
      <4>1. \A i : U16(req'[t].wat + i) = ElementOf(t, i)
        BY <1>1 DEF ElementOf
      <4>2. CASE a = Element(t)  BY <3>1, <4>1, <4>2
      <4>3. CASE <<unit[t], a>> \in writes[t]
        <5>1. PICK i \in Nat : i < done[t] /\ a = ElementOf(t, i)  BY <1>1, <2>2, <4>3 DEF FreshInv, FreshAt
        <5> QED  BY <3>1, <4>1, <5>1
      <4> QED  BY <1>1, <3>3, <4>2, <4>3
    <3> QED  BY <1>1, <2>2, <3>2, <3>3 DEF FreshAt, ElementOf
  <2> QED  BY <2>1, <2>2
<1>3. ProgressInv'
  <2> SUFFICES ASSUME NEW s \in Clients, NEW r \in Clients, s # r, req[s].fc = 23, req[r].fc = 23,
                      pc'[s] = "write", NEW i \in Nat, i < done'[s]
               PROVE  last'[unit[s]][Regs][ElementOf(s, i)] # r
    BY <1>1 DEF ProgressInv, ElementOf
  <2>1. pc[s] = "write"  BY <1>1
  <2>2. unit[s] \in Units /\ done[s] \in Nat /\ (i <= done[s] => ElementOf(s, i) \in holds[s] /\ ElementOf(s, i) \in Addresses)
    BY <2>1, Held
  <2>3. i <= done[s]  BY <1>1, <2>2
  <2>4. CASE s = t /\ ElementOf(s, i) = Element(t)  BY <2>4, WriteEffect
  <2>5. CASE s = t /\ ElementOf(s, i) # Element(t)
    <3>1. i # done[s]  BY <2>5 DEF Element, ElementOf
    <3>2. i < done[s]
      <4>1. done[s] \in Nat /\ i <= done[s] /\ i # done[s]  BY <2>2, <2>3, <3>1
      <4> HIDE DEF BaseInv, TypeOK, TearInv
      <4> QED  BY <4>1
    <3>3. last[unit[s]][Regs][ElementOf(s, i)] # r  BY <2>1, <3>2 DEF ProgressInv
    <3> QED  BY <2>2, <2>3, <2>5, <3>3, WriteEffect
  <2>6. CASE s # t
    <3>1. last[unit[s]][Regs][ElementOf(s, i)] # r  BY <1>1, <2>1, <2>6 DEF ProgressInv
    <3>2. r = t => ElementOf(s, i) # Element(t)  BY <2>2, <2>3, <2>6, WriteEffect
    <3> QED  BY <2>2, <2>3, <3>1, <3>2, WriteEffect
  <2> QED  BY <2>4, <2>5, <2>6
<1>4. ReadInv'
  <2> SUFFICES ASSUME NEW s \in Clients, pc'[s] = "write", req[s].fc = 22  PROVE ReadAt(s)'
    BY <1>1 DEF ReadInv
  <2>1. pc[s] = "write"  BY <1>1
  <2>2. unit[s] \in Units /\ req[s].wat \in Addresses /\ req[s].wat \in holds[s]
    BY <2>1, Held DEF Requests
  <2>3. s # t
    <3>1. CASE s = t
      <4>1. done[t] = 0 /\ CountToWrite(req[t]) = 1  BY <2>1, <3>1, Held DEF CountToWrite, BlockWrites
      <4> QED  BY <1>1, <3>1, <4>1
    <3> QED  BY <3>1
  <2>4. ReadAt(s)  BY <2>1 DEF ReadInv
  <2>5. CASE last'[unit[s]][Regs][req[s].wat] = last[unit[s]][Regs][req[s].wat]
             /\ store'[unit[s]][Regs][req[s].wat] = store[unit[s]][Regs][req[s].wat]
    BY <1>1, <2>4, <2>5 DEF ReadAt
  <2>6. CASE req[s].wat = Element(t) /\ last'[unit[s]][Regs][req[s].wat] = t /\ req[t].fc \in {6, 16, 22, 23}
    <3>1. req[t].fc \in {6, 16}  BY <2>2, <2>3, <2>6, WriteEffect
    <3> QED  BY <1>1, <2>3, <2>6, <3>1 DEF ReadAt
  <2> QED  BY <2>2, <2>5, <2>6, WriteEffect
<1> QED  BY <1>2, <1>3, <1>4
LEMMA BlocksAreAddresses ==
  ASSUME NEW r \in Requests
  PROVE  Block(r) \subseteq Addresses
<1>1. \A i \in 0 .. (IF r.fc \in BlockWrites THEN r.wn ELSE 1) - 1 : r.wat + i \in Nat
  BY Numbers DEF Requests
<1> QED  BY <1>1, U16Type DEF Block

LEMMA PairWrite ==
  ASSUME BaseInv, TearInv, NEW t \in Clients, WritesOne(t)
  PROVE  PairInv'
<1> USE DEF BaseInv, TypeOK, TearInv
<1>1. /\ pc[t] = "write" /\ unit[t] \in Units /\ UNCHANGED <<req, unit>>
      /\ writes' = [writes EXCEPT ![t] = @ \cup {<<unit[t], Element(t)>>}]
      /\ \A s \in Clients \ {t} : pc'[s] = pc[s]
  BY DEF WritesOne, Finishes, Continues
<1> SUFFICES ASSUME NEW r \in Clients, NEW s \in Clients, NEW u \in Units, r # s,
                    req'[r].fc = 23, req'[s].fc = 23, ~Busy(r, u)', ~Busy(s, u)', Wrote(r, u)', Wrote(s, u)'
             PROVE  ~Torn(r, s, u)'
  BY DEF PairInv
<1>2. req[r].fc = 23 /\ req[s].fc = 23 /\ Block(req'[r]) = Block(req[r]) /\ Block(req'[s]) = Block(req[s])
  BY <1>1
<1>3. Block(req[r]) \subseteq Addresses /\ Block(req[s]) \subseteq Addresses
  BY <1>2, BlocksAreAddresses DEF NoCall
<1>4. CASE t \in {r, s} /\ unit[t] = u
  <2>1. PICK q \in {r, s} : q # t  OBVIOUS
  <2>2. ASSUME NEW a \in Block(req[t])  PROVE last'[u][Regs][a] # q
    <3>1. a \in Addresses /\ <<u, a>> \in writes'[t]  BY <1>2, <1>3, <1>4, <2>2 DEF Wrote
    <3>2. CASE a = Element(t)  BY <1>2, <1>4, <2>1, <3>1, <3>2, WriteEffect
    <3>3. CASE a # Element(t)
      <4>1. <<unit[t], a>> \in writes[t]  BY <1>1, <1>4, <3>1, <3>3
      <4>2. last[u][Regs][a] # q  BY <1>1, <1>2, <1>4, <2>1, <3>1, <4>1, LeavesWhole
      <4> QED  BY <3>1, <3>3, <4>2, WriteEffect
    <3> QED  BY <3>2, <3>3
  <2> QED  BY <1>2, <1>4, <2>1, <2>2 DEF Torn
<1>5. CASE ~(t \in {r, s} /\ unit[t] = u)
  <2>1. ~Busy(r, u) /\ ~Busy(s, u)  BY <1>1, <1>5 DEF Busy
  <2>2. Wrote(r, u) /\ Wrote(s, u)  BY <1>1, <1>2, <1>5 DEF Wrote
  <2>3. ~Torn(r, s, u)  BY <1>2, <2>1, <2>2 DEF PairInv
  <2>4. \A a \in Addresses : last'[u][Regs][a] \in {r, s} => last'[u][Regs][a] = last[u][Regs][a]
    BY <1>5, WriteEffect
  <2> QED  BY <1>2, <1>3, <2>3, <2>4 DEF Torn
<1> QED  BY <1>4, <1>5

LEMMA Atomicity == Spec => [](BaseInv /\ TearInv)
<1>1. Init => BaseInv /\ TearInv
  <2> SUFFICES ASSUME Init  PROVE BaseInv /\ TearInv  OBVIOUS
  <2> USE DEF Init, Locks!Init
  <2>1. TypeOK
    <3>1. NoCall \in Requests \cup {NoCall} /\ 0 \in Units \cup {0} /\ "idle" \in Steps  BY DEF Steps
    <3> QED  BY <3>1 DEF TypeOK
  <2>2. FlowInv  BY DEF FlowInv, Holding
  <2>3. HoldsInv /\ LastInv  BY Numbers DEF HoldsInv, LastInv
  <2>4. FreshInv /\ ProgressInv /\ ReadInv  BY DEF FreshInv, FreshAt, ProgressInv, ReadInv
  <2>5. PairInv  BY DEF PairInv, NoCall
  <2> QED  BY <2>1, <2>2, <2>3, <2>4, <2>5 DEF BaseInv, TearInv
<1>2. BaseInv /\ TearInv /\ [Next]_vars => BaseInv' /\ TearInv'
  <2> SUFFICES ASSUME BaseInv, TearInv, [Next]_vars  PROVE BaseInv' /\ TearInv'  OBVIOUS
  <2>1. CASE Next
    <3>1. PICK t \in Clients :
            \/ Issues(t) \/ Settles(t) \/ TakesLock(t) \/ Reads(t) \/ WritesOne(t)
            \/ \E u \in Units : Asks(t, u)
      BY <2>1, StepKinds
    <3>2. CASE Settles(t)
      BY <2>1, <3>1, <3>2, BaseStep, TearSettles, ReadQuiet DEF TearInv
    <3>3. CASE WritesOne(t)
      BY <2>1, <3>1, <3>3, BaseStep, TearWrite, PairWrite DEF TearInv
    <3>4. CASE Issues(t) \/ TakesLock(t) \/ Reads(t) \/ \E u \in Units : Asks(t, u)
      BY <2>1, <3>1, <3>4, BaseStep, TearQuiet, ReadQuiet, PairQuiet DEF TearInv
    <3> QED  BY <3>1, <3>2, <3>3, <3>4
  <2>2. CASE UNCHANGED vars
    <3> USE <2>2 DEF vars, taskVars, ghosts
    <3>1. BaseInv'  BY DEF BaseInv, TypeOK, FlowInv, Holding, HoldsInv, LastInv
    <3>2. FreshInv' /\ ProgressInv' /\ ReadInv'
      BY DEF TearInv, FreshInv, FreshAt, ProgressInv, ReadInv, ReadAt, ElementOf
    <3>3. PairInv'  BY DEF TearInv, PairInv, Busy, Wrote, Torn, Block
    <3> QED  BY <3>1, <3>2, <3>3 DEF TearInv
  <2> QED  BY <2>1, <2>2
<1> QED  BY <1>1, <1>2, PTL DEF Spec

\* The requests that lock addresses are atomic towards each other, for any number of
\* clients, models and addresses: two FC23 are not interleaved in the table, and an FC22
\* loses no other's update but one of a write that takes no lock.
THEOREM LockedUpdatesAreAtomic == Spec => []UpdatesDontTear
<1>1. BaseInv /\ TearInv => UpdatesDontTear
  <2> SUFFICES ASSUME BaseInv, TearInv  PROVE UpdatesDontTear  OBVIOUS
  <2> USE DEF BaseInv, TypeOK, TearInv
  <2>1. ASSUME NEW s \in Clients, NEW t \in Clients, NEW u \in Units, s # t, req[s].fc = 23, req[t].fc = 23,
               holds[s] = {}, holds[t] = {}, Wrote(s, u), Wrote(t, u)
        PROVE  ~Torn(s, t, u)
    <3>1. \A p \in {s, t} : pc[p] # "write"
      <4> SUFFICES ASSUME NEW p \in {s, t}, pc[p] = "write"  PROVE FALSE  OBVIOUS
      <4>1. ElementOf(p, done[p]) \in holds[p]  BY <2>1, Held
      <4> QED  BY <2>1, <4>1
    <3> QED  BY <2>1, <3>1 DEF PairInv, Busy
  <2>2. ASSUME NEW t \in Clients, pc[t] = "write", req[t].fc = 22  PROVE ReadAt(t)
    BY <2>2 DEF ReadInv
  <2>3. UpdatesDontTear!1
    <3> HIDE DEF BaseInv, TypeOK, TearInv
    <3> QED  BY <2>1 DEF Torn, Regs
  <2>4. UpdatesDontTear!2
    <3> HIDE DEF BaseInv, TypeOK, TearInv
    <3> QED  BY <2>2 DEF ReadAt, Regs
  <2> QED  BY <2>3, <2>4 DEF UpdatesDontTear
<1> QED  BY <1>1, Atomicity, PTL
-----------------------------------------------------------------------------
\* The block a request writes lies in one range of the model, or its end wraps.
InRange(r, u) ==
  LET g == IF Space(r.fc) = "coils" THEN Ranges[u].coils ELSE Ranges[u].holding_registers IN
  \/ g = {}
  \/ r.fc \in BlockWrites /\ r.wat + r.wn >= Word
  \/ \E b \in g : \A a \in Block(r) : b[1] <= a /\ a <= b[2]

LEMMA RangesOfBlock ==
  ASSUME NEW r \in Requests, r.fc \in BlockWrites, r.wat + r.wn < Word,
         NEW g \in TableRanges, NEW as, {r.wat, U16(r.wat + r.wn)} \subseteq as, CheckRange(as, g)
  PROVE  g = {} \/ \E b \in g : \A a \in Block(r) : b[1] <= a /\ a <= b[2]
<1>1. r.wat \in Addresses /\ r.wn \in Nat  BY DEF Requests
<1>2. r.wat + r.wn \in Addresses  BY <1>1, Numbers
<1>3. U16(r.wat + r.wn) = r.wat + r.wn  BY <1>2, U16Same
<1>4. SUFFICES ASSUME g # {}  PROVE \E b \in g : \A a \in Block(r) : b[1] <= a /\ a <= b[2]
  OBVIOUS
<1>5. PICK b \in g : b[1] <= r.wat /\ r.wat + r.wn <= b[2]
  BY <1>3, <1>4 DEF CheckRange
<1>6. b[1] \in Int /\ b[2] \in Int  BY Numbers DEF TableRanges
<1>7. ASSUME NEW a \in Block(r)  PROVE b[1] <= a /\ a <= b[2]
  <2>1. PICK i \in 0 .. r.wn - 1 : a = U16(r.wat + i)  BY <1>7 DEF Block
  <2>2. r.wat + i \in Addresses  BY <1>1, <1>2, <2>1, Numbers
  <2>3. a = r.wat + i  BY <2>1, <2>2, U16Same
  <2> QED  BY <1>1, <1>5, <1>6, <2>3, Numbers
<1> QED  BY <1>7

LEMMA RangesOfOne ==
  ASSUME NEW r \in Requests, r.fc \notin BlockWrites, NEW g, CheckRange({r.wat} \cup {}, g)
  PROVE  g = {} \/ \E b \in g : \A a \in Block(r) : b[1] <= a /\ a <= b[2]
<1>1. r.wat \in Addresses /\ r.wat + 0 = r.wat  BY Numbers DEF Requests
<1>2. Block(r) = {r.wat}
  <2>1. Block(r) = {U16(r.wat + i) : i \in {0}}  BY DEF Block
  <2> QED  BY <1>1, <2>1, U16Same
<1> QED  BY <1>2 DEF CheckRange

LEMMA RunInRange ==
  ASSUME NEW r \in Requests, NEW u \in Units, NEW d, HandlerOf(r, Ranges[u], d) = "run", r.fc \in Writes
  PROVE  InRange(r, u)
<1> DEFINE g == Ranges[u]
<1>1. g.coils \in TableRanges /\ g.holding_registers \in TableRanges
  BY RequestsAssumption DEF Models
<1>2. CASE r.fc \in {5, 6, 22}
  <2>1. CASE r.fc = 5
    <3>1. HandleFc5(r, g, d) = "run"  BY <2>1 DEF HandlerOf
    <3>2. CheckRange({r.wat} \cup {}, g.coils)  BY <3>1 DEF HandleFc5, Verdict
    <3> QED  BY <2>1, <3>2, RangesOfOne DEF InRange, Space, BlockWrites
  <2>2. CASE r.fc = 6
    <3>1. HandleFc6(r, g, d) = "run"  BY <2>2 DEF HandlerOf
    <3>2. CheckRange({r.wat} \cup {}, g.holding_registers)  BY <3>1 DEF HandleFc6, Verdict
    <3> QED  BY <2>2, <3>2, RangesOfOne DEF InRange, Space, BlockWrites
  <2>3. CASE r.fc = 22
    <3>1. HandleFc22(r, g, d) = "run"  BY <2>3 DEF HandlerOf
    <3>2. CheckRange({r.wat} \cup {}, g.holding_registers)  BY <3>1 DEF HandleFc22, Verdict
    <3> QED  BY <2>3, <3>2, RangesOfOne DEF InRange, Space, BlockWrites
  <2> QED  BY <1>2, <2>1, <2>2, <2>3
<1>3. CASE r.fc \in BlockWrites /\ r.wat + r.wn < Word
  <2>1. CASE r.fc = 15
    <3>1. HandleFc15(r, g, d) = "run"  BY <2>1 DEF HandlerOf
    <3>2. CheckRange({r.wat} \cup {U16(e) : e \in {r.wat + r.wn}}, g.coils)  BY <3>1 DEF HandleFc15, Verdict
    <3> QED  BY <1>1, <1>3, <2>1, <3>2, RangesOfBlock DEF InRange, Space
  <2>2. CASE r.fc = 16
    <3>1. HandleFc16(r, g, d) = "run"  BY <2>2 DEF HandlerOf
    <3>2. CheckRange({r.wat} \cup {U16(e) : e \in {r.wat + r.wn}}, g.holding_registers)
      BY <3>1 DEF HandleFc16, Verdict
    <3> QED  BY <1>1, <1>3, <2>2, <3>2, RangesOfBlock DEF InRange, Space
  <2>3. CASE r.fc = 23
    <3>1. HandleFc23(r, g, d) = "run"  BY <2>3 DEF HandlerOf
    <3> DEFINE as == {r.at} \cup {U16(e) : e \in {r.at + r.n, r.wat, r.wat + r.wn}}
    <3>2. CheckRange(as, g.holding_registers)  BY <3>1 DEF HandleFc23, Verdict
    <3>3. {U16(r.wat), U16(r.wat + r.wn)} \subseteq as  OBVIOUS
    <3>4. U16(r.wat) = r.wat  BY U16Same DEF Requests
    <3> QED  BY <1>1, <1>3, <2>3, <3>2, <3>3, <3>4, RangesOfBlock DEF InRange, Space
  <2> QED  BY <1>3, <2>1, <2>2, <2>3 DEF BlockWrites
<1>4. CASE r.fc \in BlockWrites /\ r.wat + r.wn >= Word  BY <1>4 DEF InRange
<1>5. r.wat + r.wn < Word \/ r.wat + r.wn >= Word  BY Numbers DEF Requests
<1> QED  BY <1>2, <1>3, <1>4, <1>5 DEF Writes, BlockWrites
\* Whoever is about to write has passed the checks of the model; whoever has written, too.
RangeAt(t) ==
  /\ pc[t] \in {"lock", "read", "write"} /\ req[t].fc \in Writes => InRange(req[t], unit[t])
  /\ \A u \in Units, a \in Addresses :
       <<u, a>> \in writes[t] => a \in Block(req[t]) /\ InRange(req[t], u)

RangeInv == \A t \in Clients : RangeAt(t)

LEMMA AskInRange ==
  ASSUME BaseInv, NEW t \in Clients, NEW u \in Units, Ask(t, u), pc'[t] \in {"lock", "read", "write"},
         req[t].fc \in Writes
  PROVE  InRange(req[t], u)
<1> USE DEF BaseInv, TypeOK, Steps
<1>1. req[t] \in Requests  BY DEF Ask, FlowInv
<1>2. HandlerOf(req[t], Ranges[u], debug) = "run"
  BY DEF Ask, Refuse, Goto
<1> QED  BY <1>1, <1>2, RunInRange

LEMMA RangeStep ==
  ASSUME BaseInv, RangeInv, Next
  PROVE  RangeInv'
<1> USE DEF BaseInv, TypeOK
<1>1. ASSUME NEW t \in Clients, pc'[t] = pc[t], unit'[t] = unit[t], req'[t] = req[t], writes'[t] = writes[t]
      PROVE  RangeAt(t)'
  BY <1>1 DEF RangeInv, RangeAt
<1>2. PICK t \in Clients : Task(t) \/ \E c \in CallsOf[t] : Issue(t, c)
  BY DEF Next
<1>3. CASE \E c \in CallsOf[t] : Issue(t, c)
  <2>1. Issues(t)  BY <1>3, Issuing
  <2>2. writes'[t] = {} /\ pc'[t] \notin {"lock", "read", "write"}  BY <2>1 DEF Issues, FlowInv
  <2>3. RangeAt(t)'  BY <2>2 DEF RangeAt
  <2> QED  BY <1>1, <2>1, <2>3 DEF Issues, RangeInv
<1>4. ASSUME NEW u \in Units, Ask(t, u)  PROVE RangeInv'
  <2>1. Asks(t, u)  BY <1>4, Asking
  <2>2. RangeAt(t)'
    <3>1. req'[t] = req[t] /\ unit'[t] = u /\ writes'[t] = writes[t]  BY <2>1 DEF Asks
    <3>2. pc'[t] \in {"lock", "read", "write"} /\ req[t].fc \in Writes => InRange(req[t], u)
      BY <1>4, AskInRange
    <3> QED  BY <3>1, <3>2 DEF RangeInv, RangeAt
  <2> QED  BY <1>1, <2>1, <2>2 DEF Asks, RangeInv
<1>5. CASE Settles(t)
  <2>1. RangeAt(t)'  BY <1>5 DEF Settles, RangeInv, RangeAt
  <2> QED  BY <1>1, <1>5, <2>1 DEF Settles, RangeInv
<1>6. CASE TakesLock(t)
  <2>1. RangeAt(t)'  BY <1>6 DEF TakesLock, RangeInv, RangeAt
  <2> QED  BY <1>1, <1>6, <2>1 DEF TakesLock, RangeInv
<1>7. CASE Reads(t)
  <2>1. RangeAt(t)'  BY <1>7 DEF Reads, RangeInv, RangeAt
  <2> QED  BY <1>1, <1>7, <2>1 DEF Reads, RangeInv
<1>8. CASE WritesOne(t)
  <2>1. /\ pc[t] = "write" /\ req[t] \in Requests /\ req[t].fc \in Writes /\ UNCHANGED <<req, unit>>
        /\ writes'[t] = writes[t] \cup {<<unit[t], Element(t)>>}
        /\ \A s \in Clients \ {t} : pc'[s] = pc[s] /\ writes'[s] = writes[s]
    BY <1>8 DEF WritesOne, Finishes, Continues
  <2>2. InRange(req[t], unit[t])  BY <2>1 DEF RangeInv, RangeAt
  <2>3. Element(t) \in Block(req[t])
    <3>1. done[t] \in 0 .. (IF req[t].fc \in BlockWrites THEN req[t].wn ELSE 1) - 1
      BY <1>8 DEF WritesOne, CountToWrite, Requests
    <3> QED  BY <3>1 DEF Element, Block
  <2>4. RangeAt(t)'
    <3>1. \A u \in Units : InRange(req[t], u)' = InRange(req[t], u)  BY <2>1
    <3>2. InRange(req[t], unit[t])' = InRange(req[t], unit[t]) /\ Block(req[t])' = Block(req[t])
      BY <2>1 DEF InRange, Block
    <3> QED  BY <2>1, <2>2, <2>3, <3>1, <3>2 DEF RangeInv, RangeAt
  <2> QED  BY <1>1, <2>1, <2>4 DEF RangeInv
<1>9. CASE Task(t)
  <2>1. CASE \E u \in Units : Ask(t, u)  BY <1>4, <2>1
  <2>2. CASE Lock(t)  BY <1>6, <2>2, TakingLock
  <2>3. CASE ReadModel(t)  BY <1>7, <2>3, Reading
  <2>4. CASE WriteModel(t)  BY <1>8, <2>4, WritingOne
  <2> QED  BY <1>5, <1>9, <2>1, <2>2, <2>3, <2>4, Settling DEF Task
<1> QED  BY <1>2, <1>3, <1>9

\* A request writes inside one range of the model, and inside the block it names, or
\* nowhere; whatever the ranges, the block, the client and the others do.
THEOREM WritesAreInRange == Spec => []WithinRange
<1>1. Init => RangeInv  BY DEF Init, RangeInv, RangeAt
<1>2. BaseInv /\ RangeInv /\ [Next]_vars => RangeInv'
  <2>1. ASSUME RangeInv, UNCHANGED vars  PROVE RangeInv'
    BY <2>1 DEF vars, taskVars, ghosts, RangeInv, RangeAt
  <2> QED  BY <2>1, RangeStep
<1>3. RangeInv => WithinRange
  BY DEF RangeInv, RangeAt, InRange, WithinRange, Table
<1> QED  BY <1>1, <1>2, <1>3, Atomicity, PTL DEF Spec

\* Every variable that a request's way depends on keeps its type, for any u8 and u16.
THEOREM TypeCorrect == Spec => []TypeOK
<1>1. BaseInv => TypeOK  BY DEF BaseInv
<1> QED  BY <1>1, Atomicity, PTL

-----------------------------------------------------------------------------

\* An element holds what its last writer sent, so an FC23 reads its own block back.

\* What arrives is what the master built, but for what another client got wrong.
Standard == {1, 2, 3, 4, 5, 6, 15, 16, 17, 22, 23}
Arrived(r) == r = NoCall \/ (r \in Requests /\ r.wn < Word /\ r.fc \in Standard \cup {Custom})

\* An element holds the value sent by whoever wrote it last.  The value of an FC22 is none
\* of those sent.
ValuesAt(t) ==
  req[t].fc \in Writes \ {22} =>
    \A u \in Units, i \in Nat :
      /\ i < CountToWrite(req[t])
      /\ last[u][Space(req[t].fc)][ElementOf(t, i)] = t
      => store[u][Space(req[t].fc)][ElementOf(t, i)] = req[t].vals[i + 1]

\* And what FC23 has read is what the table held, unless another has written it since.
GotInv ==
  \A t \in Clients :
    pc[t] = "answer" /\ req[t].fc = 23 =>
      \A i \in 1 .. req[t].n :
        /\ unit[t] \in Units /\ req[t].at + i - 1 \in Addresses
        /\ last[unit[t]][Regs][req[t].at + i - 1] = t =>
             got[t][i] = store[unit[t]][Regs][req[t].at + i - 1]

ValueInv == (\A t \in Clients : Arrived(req[t]) /\ ValuesAt(t)) /\ GotInv

LEMMA MethodArrives ==
  ASSUME NEW c \in Calls, NEW d
  PROVE  MethodOf(c, d).pdu.wn < Word /\ MethodOf(c, d).pdu.fc \in Standard \cup {Custom}
<1> USE Numbers
<1>1. Len(c.vals) \in Nat  BY DEF Calls
<1>2. U16(Len(c.vals)) < Word /\ 0 < Word
  <2>1. U16(Len(c.vals)) \in Addresses  BY <1>1, U16Type
  <2> QED  BY <2>1
<1>3. ASSUME NEW fc \in Standard, NEW wn, wn = 0 \/ wn = U16(Len(c.vals)), NEW count, NEW size
      PROVE  Pdu(fc, c, wn, count, size).wn < Word /\ Pdu(fc, c, wn, count, size).fc = fc
  BY <1>2, <1>3 DEF Pdu
<1> DEFINE Good(m) == m.pdu.wn < Word /\ m.pdu.fc \in Standard \cup {Custom}
<1>4. \A fc \in Standard : \A sum, bytes : Good(Read(fc, c, sum, bytes, d))
  BY <1>3 DEF Read, Method
<1>5. \A fc \in Standard : \A header, bytes : Good(WriteBlock(fc, c, header, bytes))
  BY <1>3 DEF WriteBlock, Method
<1>6. \A fc \in Standard : \A size, panics, need, head, echo : Good(Method(Pdu(fc, c, 0, 0, size), panics, need, head, echo))
  BY <1>3 DEF Method
<1>7. /\ Good(ReadCoils(c, d)) /\ Good(ReadDiscreteInputs(c, d))
      /\ Good(ReadHoldingRegisters(c, d)) /\ Good(ReadInputRegisters(c, d))
  BY <1>4 DEF ReadCoils, ReadDiscreteInputs, ReadHoldingRegisters, ReadInputRegisters, Standard
<1>8. Good(WriteMultipleCoils(c)) /\ Good(WriteMultipleRegisters(c))
  BY <1>5 DEF WriteMultipleCoils, WriteMultipleRegisters, Standard
<1>9. /\ Good(WriteSingleCoil(c)) /\ Good(WriteSingleRegister(c))
      /\ Good(ReportServerId(c)) /\ Good(MaskWriteRegister(c))
  BY <1>6 DEF WriteSingleCoil, WriteSingleRegister, ReportServerId, MaskWriteRegister, Standard
<1>10. Good(ReadAndWriteMultipleRegisters(c, d))
  BY <1>5 DEF ReadAndWriteMultipleRegisters, Method, Standard
<1>11. Good(SendCustomFc(c))
  BY <1>2 DEF SendCustomFc, Method, Pdu
<1> QED  BY <1>7, <1>8, <1>9, <1>10, <1>11 DEF MethodOf

\* The elements of a block are distinct: it is no longer than the address space.
LEMMA ElementsAreDistinct ==
  ASSUME NEW w \in Nat, NEW i \in Nat, NEW j \in Nat, i < Word, j < Word, U16(w + i) = U16(w + j)
  PROVE  i = j
<1>1. ASSUME NEW m \in Nat \ {0}, NEW x \in Nat  PROVE \E q \in Int : x = m * q + (x % m)
  <2>1. x = m * (x \div m) + (x % m) /\ (x \div m) \in Int  BY <1>1
  <2> QED  BY <2>1
<1>2. Word \in Nat \ {0} /\ w + i \in Nat /\ w + j \in Nat  BY Numbers
<1>3. PICK p \in Int : w + i = Word * p + U16(w + i)
  BY <1>1, <1>2 DEF U16
<1>4. PICK q \in Int : w + j = Word * q + U16(w + j)
  BY <1>1, <1>2 DEF U16
<1>5. U16(w + i) \in Int  BY <1>2 DEF U16
<1>6. i - j = Word * (p - q)  BY <1>2, <1>3, <1>4, <1>5
<1>7. p - q = 0
  <2>1. ASSUME NEW k \in Int, k >= 1  PROVE Word * k >= Word /\ Word * (-k) <= -Word  BY <1>2, <2>1
  <2>2. CASE p - q >= 1  BY <1>2, <1>6, <2>1, <2>2
  <2>3. CASE q - p >= 1
    <3>1. i - j = Word * (-(q - p))  BY <1>2, <1>6
    <3>2. q - p \in Int /\ i - j <= -Word  BY <2>1, <2>3, <3>1
    <3> QED  BY <1>2, <3>2
  <2> QED  BY <2>2, <2>3
<1> QED  BY <1>2, <1>6, <1>7

LEMMA VariantsArrive ==
  ASSUME NEW r \in Requests, NEW v \in Variants(r), r.wn < Word, r.fc \in Standard \cup {Custom}
  PROVE  Arrived(v)
<1>1. v \in Requests  BY VariantsAreRequests
<1>2. v.fc = r.fc /\ v.wn = r.wn  BY DEF Variants, Requests
<1> QED  BY <1>1, <1>2 DEF Arrived

LEMMA Arriving ==
  ASSUME BaseInv, ValueInv, Next
  PROVE  \A t \in Clients : Arrived(req'[t])
<1> USE DEF BaseInv, TypeOK
<1>1. PICK t \in Clients : Task(t) \/ \E c \in CallsOf[t] : Issue(t, c)
  BY DEF Next
<1>2. CASE UNCHANGED req  BY <1>2 DEF ValueInv
<1>3. ASSUME NEW c \in CallsOf[t], Issue(t, c), ~UNCHANGED req  PROVE \A s \in Clients : Arrived(req'[s])
  <2> DEFINE m == MethodOf(c, debug)
  <2>1. c \in Calls  BY RequestsAssumption
  <2>2. m.pdu \in Requests /\ m.pdu.wn < Word /\ m.pdu.fc \in Standard \cup {Custom}
    BY <2>1, MethodSends, MethodArrives
  <2>3. PICK r \in IF t \in Odd THEN Variants(m.pdu) ELSE {m.pdu} : req' = [req EXCEPT ![t] = r]
    BY <1>3 DEF Issue
  <2>4. Arrived(r)  BY <2>2, <2>3, VariantsArrive DEF Arrived
  <2> QED  BY <2>3, <2>4 DEF ValueInv
<1>4. CASE Task(t)
  <2>1. CASE \E u \in Units : Ask(t, u)  BY <1>2, <2>1 DEF Ask
  <2>2. CASE Lock(t)  BY <1>2, <2>2 DEF Lock, taskVars
  <2>3. CASE ReadModel(t)  BY <1>2, <2>3 DEF ReadModel
  <2>4. CASE WriteModel(t)  BY <1>2, <2>4 DEF WriteModel
  <2>5. CASE Settles(t)  BY <1>2, <2>5 DEF Settles
  <2> QED  BY <1>4, <2>1, <2>2, <2>3, <2>4, <2>5, Settling DEF Task
<1> QED  BY <1>1, <1>2, <1>3, <1>4

LEMMA BlockTypes ==
  ASSUME NEW r, Arrived(r), r.fc \in Writes
  PROVE  /\ r \in Requests /\ Space(r.fc) \in Spaces
         /\ CountToWrite(r) \in Nat /\ CountToWrite(r) <= Word
         /\ \A i \in Nat : U16(r.wat + i) \in Addresses
<1> USE Numbers
<1>1. r \in Requests /\ r.wn < Word  BY DEF Arrived, NoCall, Writes
<1>2. Space(r.fc) \in Spaces  BY DEF Space, Spaces, Writes
<1>3. CountToWrite(r) \in Nat /\ CountToWrite(r) <= Word
  BY <1>1 DEF CountToWrite, Requests
<1>4. ASSUME NEW i \in Nat  PROVE U16(r.wat + i) \in Addresses
  <2>1. r.wat + i \in Nat  BY <1>1 DEF Requests
  <2> QED  BY <2>1, U16Type
<1> QED  BY <1>1, <1>2, <1>3, <1>4

\* The steps that write nothing.
LEMMA ValueQuiet ==
  ASSUME BaseInv, ValueInv, NEW t \in Clients, \A s \in Clients : Arrived(req'[s]),
         Issues(t) \/ Settles(t) \/ TakesLock(t) \/ Reads(t) \/ \E u \in Units : Asks(t, u)
  PROVE  \A s \in Clients : ValuesAt(s)'
<1> USE DEF BaseInv, TypeOK
<1>1. UNCHANGED <<store, last>> /\ \A s \in Clients \ {t} : req'[s] = req[s]
  BY DEF Issues, Settles, TakesLock, Reads, Asks
<1>2. ASSUME NEW s \in Clients, req'[s] = req[s]  PROVE ValuesAt(s)'
  <2>1. ValuesAt(s)  BY DEF ValueInv
  <2> QED  BY <1>1, <1>2, <2>1 DEF ValuesAt, ElementOf
<1>3. ASSUME req'[t] # req[t]  PROVE ValuesAt(t)'
  <2>1. Issues(t)  BY <1>3 DEF Settles, TakesLock, Reads, Asks
  <2>2. \A u \in Units, x \in Spaces, a \in Addresses : last'[u][x][a] # t
    BY <1>1, <2>1 DEF Issues, FlowInv, LastInv
  <2>3. ASSUME req'[t].fc \in Writes, NEW i \in Nat
        PROVE  Space(req'[t].fc) \in Spaces /\ U16(req'[t].wat + i) \in Addresses
    BY <2>3, BlockTypes
  <2> QED  BY <2>2, <2>3 DEF ValuesAt, ElementOf
<1> QED  BY <1>1, <1>2, <1>3

LEMMA ValueWrite ==
  ASSUME BaseInv, ValueInv, NEW t \in Clients, WriteModel(t)
  PROVE  \A s \in Clients : ValuesAt(s)'
<1> DEFINE x == Space(req[t].fc)
           e == Element(t)
<1>1. /\ req[t].fc \in Writes /\ unit[t] \in Units /\ x \in Spaces /\ e \in Addresses
      /\ done[t] \in Nat /\ done[t] < CountToWrite(req[t]) /\ UNCHANGED req
      /\ last' = [last EXCEPT ![unit[t]][x][e] = t]
  BY WritingOne DEF WritesOne
<1>2. req[t].fc # 22 => store' = [store EXCEPT ![unit[t]][x][e] = req[t].vals[done[t] + 1]]
  BY DEF WriteModel, Element
<1>3. \E v : store' = [store EXCEPT ![unit[t]][x][e] = v]
  BY WritingOne DEF WritesOne
<1>4. \A u \in Units, y \in Spaces, a \in Addresses :
        \/ last'[u][y][a] = last[u][y][a] /\ store'[u][y][a] = store[u][y][a]
        \/ /\ u = unit[t] /\ y = x /\ a = e /\ last'[u][y][a] = t
           /\ req[t].fc # 22 => store'[u][y][a] = req[t].vals[done[t] + 1]
  <2> HIDE DEF x, e
  <2> QED  BY <1>1, <1>2, <1>3 DEF BaseInv, TypeOK
<1> SUFFICES ASSUME NEW s \in Clients, req[s].fc \in Writes \ {22}, NEW u \in Units, NEW i \in Nat,
                    i < CountToWrite(req[s]), last'[u][Space(req[s].fc)][ElementOf(s, i)] = s
             PROVE  store'[u][Space(req[s].fc)][ElementOf(s, i)] = req[s].vals[i + 1]
  BY <1>1 DEF ValuesAt, ElementOf
<1>5. /\ req[s] \in Requests /\ Space(req[s].fc) \in Spaces /\ ElementOf(s, i) \in Addresses
      /\ CountToWrite(req[s]) \in Nat /\ CountToWrite(req[s]) <= Word
  BY BlockTypes DEF ValueInv, ElementOf
<1>6. CASE /\ last'[u][Space(req[s].fc)][ElementOf(s, i)] = last[u][Space(req[s].fc)][ElementOf(s, i)]
           /\ store'[u][Space(req[s].fc)][ElementOf(s, i)] = store[u][Space(req[s].fc)][ElementOf(s, i)]
  <2>1. ValuesAt(s) /\ last[u][Space(req[s].fc)][ElementOf(s, i)] = s  BY <1>6 DEF ValueInv
  <2> QED  BY <1>6, <2>1 DEF ValuesAt
<1>7. CASE /\ ElementOf(s, i) = e /\ last'[u][Space(req[s].fc)][ElementOf(s, i)] = t
           /\ req[t].fc # 22 => store'[u][Space(req[s].fc)][ElementOf(s, i)] = req[t].vals[done[t] + 1]
  <2>1. s = t  BY <1>7
  <2>2. i = done[t]
    <3>1. U16(req[t].wat + i) = U16(req[t].wat + done[t])  BY <1>7, <2>1 DEF Element, ElementOf
    <3>2. req[t].wat \in Nat  BY <1>5, <2>1, Numbers DEF Requests
    <3>3. i < Word /\ done[t] < Word
      <4> DEFINE k == CountToWrite(req[t])
      <4>1. k \in Nat /\ k <= Word /\ i < k /\ done[t] < k  BY <1>1, <1>5, <2>1
      <4> HIDE DEF k
      <4> QED  BY <1>1, <4>1, Numbers
    <3> QED  BY <1>1, <3>1, <3>2, <3>3, ElementsAreDistinct
  <2> QED  BY <1>7, <2>1, <2>2
<1> QED  BY <1>4, <1>5, <1>6, <1>7

LEMMA QuietOrWrites ==
  ASSUME BaseInv, NEW t \in Clients, Task(t) \/ \E c \in CallsOf[t] : Issue(t, c)
  PROVE  WritesOne(t) \/ UNCHANGED <<last, store>>
<1>1. CASE \E c \in CallsOf[t] : Issue(t, c)  BY <1>1, Issuing DEF Issues
<1>2. CASE Task(t)
  <2>1. CASE \E u \in Units : Ask(t, u)
    <3>1. PICK u \in Units : Asks(t, u)  BY <2>1, Asking
    <3> QED  BY <3>1 DEF Asks
  <2>2. CASE Lock(t)  BY <2>2, TakingLock DEF TakesLock
  <2>3. CASE ReadModel(t)  BY <2>3, Reading DEF Reads
  <2>4. CASE WriteModel(t)  BY <2>4, WritingOne
  <2>5. CASE Settles(t)  BY <2>5 DEF Settles
  <2> QED  BY <1>2, <2>1, <2>2, <2>3, <2>4, <2>5, Settling DEF Task
<1> QED  BY <1>1, <1>2

LEMMA GotKept ==
  ASSUME BaseInv, ValueInv, Next
  PROVE  GotInv'
<1> USE DEF BaseInv, TypeOK
<1> SUFFICES ASSUME NEW s \in Clients, pc'[s] = "answer", req'[s].fc = 23, NEW i \in 1 .. req'[s].n
             PROVE  /\ unit'[s] \in Units /\ req'[s].at + i - 1 \in Addresses
                    /\ last'[unit'[s]][Regs][req'[s].at + i - 1] = s =>
                         got'[s][i] = store'[unit'[s]][Regs][req'[s].at + i - 1]
  BY DEF GotInv
<1>1. PICK t \in Clients : Task(t) \/ \E c \in CallsOf[t] : Issue(t, c)
  BY DEF Next
<1>2. ASSUME s # t \/ ~ReadModel(t)
      PROVE  pc[s] = "answer" /\ UNCHANGED <<req[s], unit[s], got[s]>>
  <2>1. CASE \E c \in CallsOf[t] : Issue(t, c)  BY <2>1, Issuing DEF Issues
  <2>2. CASE \E u \in Units : Ask(t, u)
    <3>1. PICK u \in Units : Asks(t, u)  BY <2>2, Asking
    <3> QED  BY <3>1 DEF Asks
  <2>3. CASE Lock(t)  BY <2>3, TakingLock DEF TakesLock
  <2>4. CASE ReadModel(t)  BY <1>2, <2>4, Reading DEF Reads
  <2>5. CASE WriteModel(t)
    <3>1. WritesOne(t)  BY <2>5, WritingOne
    <3>2. s # t  BY <3>1 DEF WritesOne, Finishes, Continues
    <3> QED  BY <3>1, <3>2 DEF WritesOne, Finishes, Continues
  <2>6. CASE Settles(t)  BY <2>6 DEF Settles
  <2> QED  BY <1>1, <2>1, <2>2, <2>3, <2>4, <2>5, <2>6, Settling DEF Task
<1>3. CASE s = t /\ ReadModel(t)
  <2>1. /\ req[t] \in Requests /\ UNCHANGED <<req, unit, store, last>> /\ unit[t] \in Units
    BY <1>3, Reading DEF Reads, FlowInv
  <2>2. /\ req[t].at + req[t].n <= Word
        /\ got'[t] = [k \in 1 .. req[t].n |-> store[unit[t]][Regs][req[t].at + k - 1]]
    BY <1>3, <2>1 DEF ReadModel, Space, Regs
  <2>3. req[t].at + i - 1 \in Addresses  BY <1>3, <2>1, <2>2, Numbers DEF Requests
  <2> QED  BY <1>3, <2>1, <2>2, <2>3
<1>4. CASE s # t \/ ~ReadModel(t)
  <2> DEFINE a == req[s].at + i - 1
  <2>1. pc[s] = "answer" /\ UNCHANGED <<req[s], unit[s], got[s]>>  BY <1>2, <1>4
  <2>2. unit[s] \in Units /\ a \in Addresses /\ (last[unit[s]][Regs][a] = s => got[s][i] = store[unit[s]][Regs][a])
    BY <2>1 DEF ValueInv, GotInv
  <2>3. CASE UNCHANGED <<last, store>>  BY <2>1, <2>2, <2>3
  <2>4. CASE WritesOne(t)
    <3>1. s # t  BY <2>1, <2>4 DEF WritesOne
    <3>2. \/ last'[unit[s]][Regs][a] = t
          \/ /\ last'[unit[s]][Regs][a] = last[unit[s]][Regs][a]
             /\ store'[unit[s]][Regs][a] = store[unit[s]][Regs][a]
      <4> HIDE DEF a, BaseInv
      <4> QED  BY <2>2, <2>4, WriteEffect
    <3> QED  BY <2>1, <2>2, <3>1, <3>2
  <2> QED  BY <1>1, <2>3, <2>4, QuietOrWrites
<1> QED  BY <1>3, <1>4

LEMMA ValueStep ==
  ASSUME BaseInv, ValueInv, Next
  PROVE  ValueInv'
<1>1. \A s \in Clients : Arrived(req'[s])  BY Arriving
<1>2. GotInv'  BY GotKept
<1>3. \A s \in Clients : ValuesAt(s)'
  <2>1. PICK t \in Clients : Task(t) \/ \E c \in CallsOf[t] : Issue(t, c)
    BY DEF Next
  <2>2. CASE WriteModel(t)  BY <2>2, ValueWrite
  <2>3. CASE \E c \in CallsOf[t] : Issue(t, c)  BY <1>1, <2>3, Issuing, ValueQuiet
  <2>4. CASE \E u \in Units : Ask(t, u)  BY <1>1, <2>4, Asking, ValueQuiet
  <2>5. CASE Lock(t)  BY <1>1, <2>5, TakingLock, ValueQuiet
  <2>6. CASE ReadModel(t)  BY <1>1, <2>6, Reading, ValueQuiet
  <2>7. CASE Settles(t)  BY <1>1, <2>7, ValueQuiet
  <2> QED  BY <2>1, <2>2, <2>3, <2>4, <2>5, <2>6, <2>7, Settling DEF Task
<1> QED  BY <1>1, <1>2, <1>3 DEF ValueInv, Arrived

LEMMA ValuesKept == Spec => []ValueInv
<1>1. Init => ValueInv
  BY DEF Init, ValueInv, Arrived, ValuesAt, GotInv, NoCall, Writes
<1>2. BaseInv /\ ValueInv /\ [Next]_vars => ValueInv'
  <2>1. ASSUME ValueInv, UNCHANGED vars  PROVE ValueInv'
    BY <2>1 DEF vars, taskVars, ghosts, ValueInv, Arrived, ValuesAt, GotInv, ElementOf
  <2> QED  BY <2>1, ValueStep
<1> QED  BY <1>1, <1>2, Atomicity, PTL DEF Spec

\* FC23 reads what it has just written, although it has given back its locks, unless
\* another request wrote it in between; for any block, any overlap and any others.
THEOREM ExchangesReadBack == Spec => []ExchangeReadsItsWrites
<1>1. BaseInv /\ ValueInv => ExchangeReadsItsWrites
  <2> SUFFICES ASSUME BaseInv, ValueInv, NEW t \in Clients, pc[t] = "answer", req[t].fc = 23,
                      NEW i \in 1 .. req[t].n, NEW j \in 1 .. req[t].wn,
                      req[t].at + i - 1 = U16(req[t].wat + j - 1),
                      last[unit[t]][Regs][req[t].at + i - 1] = t
               PROVE  got[t][i] = req[t].vals[j]
    BY DEF ExchangeReadsItsWrites, Regs
  <2> DEFINE a == req[t].at + i - 1
  <2>1. req[t] \in Requests  BY DEF ValueInv, Arrived, NoCall
  <2>2. unit[t] \in Units /\ got[t][i] = store[unit[t]][Regs][a]
    BY DEF ValueInv, GotInv
  <2>3. j - 1 \in Nat /\ j - 1 + 1 = j /\ j - 1 < CountToWrite(req[t]) /\ req[t].wat + j - 1 = req[t].wat + (j - 1)
    <3>1. j \in Int /\ 1 <= j /\ j <= req[t].wn /\ req[t].wat \in Int /\ req[t].wn \in Int
            /\ CountToWrite(req[t]) = req[t].wn
      BY <2>1, Numbers DEF Requests, CountToWrite, BlockWrites
    <3>2. ASSUME NEW k \in Int, NEW n \in Int, NEW w \in Int, 1 <= k, k <= n
          PROVE  k - 1 \in Nat /\ k - 1 + 1 = k /\ k - 1 < n /\ w + k - 1 = w + (k - 1)
      BY <3>2
    <3> QED  BY <3>1, <3>2
  <2>4. ElementOf(t, j - 1) = a  BY <2>3 DEF ElementOf
  <2>5. Space(req[t].fc) = Regs /\ req[t].fc \in Writes \ {22}  BY DEF Space, Regs, Writes
  <2>6. ValuesAt(t)  BY DEF ValueInv
  <2>7. store[unit[t]][Regs][a] = req[t].vals[j - 1 + 1]
    BY <2>2, <2>3, <2>4, <2>5, <2>6 DEF ValuesAt
  <2> QED  BY <2>2, <2>3, <2>7
<1> QED  BY <1>1, Atomicity, ValuesKept, PTL

-----------------------------------------------------------------------------

\* The checks of both sides fit: arithmetic first, then what each step leaves.

\* What a handler answers when it has done what it was asked.
GoodReply(r, p) ==
  CASE r.fc \in {1, 2} -> p.count = BytesOfBits(r.n) /\ p.size = 1 + p.count
    [] r.fc \in {3, 4, 23} -> p.count = BytesOfRegs(r.n) /\ p.size = 1 + p.count /\ 2 * r.n < Word
    [] r.fc \in {15, 16} -> p.size = 4
    [] r.fc \in {5, 6} -> p.size = 4 /\ p.vals = r.vals
    [] r.fc = 22 -> p.size = 6 /\ p.vals = r.vals
    [] r.fc = 17 -> p.count \in Nat /\ p.size = 1 + p.count
    [] OTHER -> TRUE

LEMMA Quotient ==
  ASSUME NEW p \in Nat \ {0}, NEW b \in Nat, NEW x \in Nat, x < p * b
  PROVE  x \div p \in Nat /\ x \div p < b
<1>1. x = p * (x \div p) + (x % p) /\ (x \div p) \in Int /\ x % p \in 0 .. p - 1  OBVIOUS
<1> DEFINE q == x \div p
<1>2. q \in Int /\ p * q <= x /\ x - p < p * q  BY <1>1
<1> HIDE DEF q
<1>3. q >= 0
  <2>1. ASSUME q <= -1  PROVE p * q <= -p  BY <1>2, <2>1
  <2> QED  BY <1>2, <2>1
<1>4. q < b
  <2>1. ASSUME q >= b  PROVE p * q >= p * b  BY <1>2, <2>1
  <2> QED  BY <1>2, <2>1
<1> QED  BY <1>2, <1>3, <1>4 DEF q

LEMMA U8Same ==
  ASSUME NEW x \in Nat, x < Byte
  PROVE  U8(x) = x
BY Numbers DEF U8

\* The limits of the protocol keep the arithmetic of u8 and u16 exact.
LEMMA ReadBytes ==
  ASSUME NEW n \in 1 .. ReadBits
  PROVE  /\ BytesOfBits(n) \in Nat /\ U8(BytesOfBits(n)) = BytesOfBits(n)
         /\ CeilBytes(n) = BytesOfBits(n)
<1> USE CodesAssumption
<1>1. n \in Nat /\ n <= ReadBits /\ n + PerByte - 1 \in Nat /\ n + PerByte - 1 < Word  OBVIOUS
<1>2. U16(n + PerByte - 1) = n + PerByte - 1  BY <1>1 DEF U16
<1>3. n + PerByte - 1 < PerByte * Byte
  <2>1. PerByte * (Byte - 1) = PerByte * Byte - PerByte  OBVIOUS
  <2>2. PerByte * Byte \in Nat  OBVIOUS
  <2> QED  BY <1>1, <2>1, <2>2
<1>4. BytesOfBits(n) \in Nat /\ BytesOfBits(n) < Byte
  BY <1>1, <1>2, <1>3, Quotient DEF BytesOfBits
<1>5. U8(BytesOfBits(n)) = BytesOfBits(n)  BY <1>4, U8Same
<1> QED  BY <1>2, <1>4, <1>5 DEF BytesOfBits, CeilBytes

LEMMA RegisterBytes ==
  ASSUME NEW n \in 1 .. ReadRegs
  PROVE  BytesOfRegs(n) = 2 * n /\ U8(2 * n) = 2 * n /\ 2 * n < Word
<1>1. 2 * n \in Nat /\ 2 * n < Byte /\ 2 * n < Word /\ Byte \in Nat /\ Word \in Nat
  BY CodesAssumption
<1> QED  BY <1>1 DEF BytesOfRegs, U16, U8

\* What the checks that a handler makes let through.
LEMMA RunChecks ==
  ASSUME NEW r \in Requests, NEW g, NEW d, HandlerOf(r, g, d) = "run"
  PROVE  /\ r.fc \in Standard
         /\ r.fc \in {1, 2} => r.n \in 1 .. ReadBits
         /\ r.fc \in {3, 4, 23} => r.n \in 1 .. ReadRegs
         /\ r.fc \in {5, 6} => r.size = 4
         /\ r.fc = 22 => r.size = 6
<1> USE DEF Verdict
<1>1. r.fc \in Standard  BY RunVerdict DEF Standard
<1>2. ASSUME r.fc \in {1, 2}  PROVE r.n \in 1 .. ReadBits
  <2>1. \E as : HandleRead(r, ReadBits, as, d) = "run"  BY <1>2 DEF HandlerOf, HandleFc1, HandleFc2
  <2> QED  BY <2>1, Zenon DEF HandleRead
<1>3. ASSUME r.fc \in {3, 4}  PROVE r.n \in 1 .. ReadRegs
  <2>1. \E as : HandleRead(r, ReadRegs, as, d) = "run"  BY <1>3 DEF HandlerOf, HandleFc3, HandleFc4
  <2> QED  BY <2>1, Zenon DEF HandleRead
<1>4. ASSUME r.fc = 23  PROVE r.n \in 1 .. ReadRegs
  <2>1. HandleFc23(r, g, d) = "run"  BY <1>4 DEF HandlerOf
  <2> QED  BY <2>1, Zenon DEF HandleFc23
<1>5. ASSUME r.fc = 5  PROVE r.size = 4
  <2>1. HandleFc5(r, g, d) = "run"  BY <1>5 DEF HandlerOf
  <2> QED  BY <2>1, Zenon DEF HandleFc5
<1>6. ASSUME r.fc = 6  PROVE r.size = 4
  <2>1. HandleFc6(r, g, d) = "run"  BY <1>6 DEF HandlerOf
  <2> QED  BY <2>1, Zenon DEF HandleFc6
<1>7. ASSUME r.fc = 22  PROVE r.size = 6
  <2>1. HandleFc22(r, g, d) = "run"  BY <1>7 DEF HandlerOf
  <2> QED  BY <2>1, Zenon DEF HandleFc22
<1> QED  BY <1>1, <1>2, <1>3, <1>4, <1>5, <1>6, <1>7

LEMMA RepliesAreGood ==
  ASSUME NEW t \in Clients, NEW g, req[t] \in Requests, HandlerOf(req[t], g, debug) = "run", req[t].fc # 17,
         req[t].fc \in BlockReads => Len(got[t]) = req[t].n
  PROVE  /\ GoodReply(req[t], Reply(t))
         /\ Reply(t).unit = req[t].unit /\ Reply(t).fc = req[t].fc /\ Reply(t).err = "none"
         /\ Reply(t).wat = req[t].wat /\ Reply(t).wn = req[t].wn
<1> DEFINE r == req[t]
<1>1. /\ r.fc \in Standard
      /\ r.fc \in {1, 2} => r.n \in 1 .. ReadBits
      /\ r.fc \in {3, 4, 23} => r.n \in 1 .. ReadRegs
      /\ r.fc \in {5, 6} => r.size = 4
      /\ r.fc = 22 => r.size = 6
  BY RunChecks
<1>2. \A err, count, size, vals :
        LET p == Response(r, err, count, size, vals) IN
        /\ p.unit = r.unit /\ p.fc = r.fc /\ p.err = err /\ p.wat = r.wat /\ p.wn = r.wn
        /\ p.count = count /\ p.size = size /\ p.vals = vals
  BY DEF Response
<1>3. CASE r.fc \in {1, 2}
  <2>1. Reply(t) = Response(r, "none", BytesOfBits(r.n), 1 + BytesOfBits(r.n), got[t])
    BY <1>1, <1>3, ReadBytes DEF Reply, PackCoils, BlockReads
  <2> QED  BY <1>2, <1>3, <2>1 DEF GoodReply
<1>4. CASE r.fc \in {3, 4, 23}
  <2>1. Reply(t) = Response(r, "none", BytesOfRegs(r.n), 1 + BytesOfRegs(r.n), got[t]) /\ 2 * r.n < Word
    BY <1>1, <1>4, RegisterBytes DEF Reply, PackRegisters, BlockReads
  <2> QED  BY <1>2, <1>4, <2>1 DEF GoodReply
<1>5. CASE r.fc \in {15, 16}
  <2>1. Reply(t) = Response(r, "none", 0, 4, <<>>)  BY <1>5 DEF Reply
  <2> QED  BY <1>2, <1>5, <2>1 DEF GoodReply
<1>6. CASE r.fc \in {5, 6, 22}
  <2>1. Reply(t) = Response(r, "none", 0, r.size, r.vals)  BY <1>6 DEF Reply
  <2> QED  BY <1>1, <1>2, <1>6, <2>1 DEF GoodReply
<1> QED  BY <1>1, <1>3, <1>4, <1>5, <1>6 DEF Standard

LEMMA ByteTypes ==
  ASSUME NEW n \in Nat
  PROVE  BytesOfBits(n) \in Nat /\ BytesOfRegs(n) \in Nat /\ CeilBytes(n) \in Nat
<1>1. \A x \in Nat, y \in Nat \ {0} : x \div y \in Nat  OBVIOUS
<1>2. n + PerByte - 1 \in Nat /\ 2 * n \in Nat /\ PerByte \in Nat \ {0}  BY Numbers
<1>3. \A x \in Nat : U16(x) \in Nat  BY Numbers DEF U16
<1> QED  BY <1>1, <1>2, <1>3 DEF BytesOfBits, BytesOfRegs, CeilBytes

\* What each method sends, and what it insists on.
LEMMA MethodForms ==
  ASSUME NEW c \in Calls, NEW d, NEW m, m = MethodOf(c, d)
  PROVE  /\ m.pdu.unit = c.unit /\ m.pdu.n = c.n
         /\ m.pdu.fc = IF c.fc \in Standard THEN c.fc ELSE Custom
         /\ c.fc \in {1, 2} => m.pdu.size = 4 /\ m.need = 1 + m.head /\ m.head = BytesOfBits(c.n) /\ ~m.echo
         /\ c.fc \in {3, 4} => m.pdu.size = 4
         /\ c.fc \in {3, 4, 23} => m.need = 1 + m.head /\ m.head = BytesOfRegs(c.n) /\ ~m.echo
         /\ c.fc \in {5, 6} => m.pdu.size = 4
         /\ c.fc \in {5, 6, 15, 16} => m.need = 4 /\ m.head = AnyLength
         /\ c.fc \in {15, 16, 23} =>
              \E bytes \in Nat :
                m.pdu.count = U8(bytes) /\ m.pdu.size = (IF c.fc = 23 THEN 9 ELSE 5) + U8(bytes)
         /\ c.fc = 17 => m.pdu.size = 0 /\ m.need = OwnLength /\ m.head = AnyLength /\ ~m.echo
         /\ c.fc = 22 => m.pdu.size = 6 /\ m.need = 6 /\ m.head = AnyLength
         /\ c.fc \notin Standard => m.need = AnyLength /\ m.head = AnyLength /\ ~m.echo
<1> USE DEF Method, Pdu
<1>1. 2 * Len(c.vals) \in Nat /\ CeilBytes(Len(c.vals)) \in Nat
  <2>1. Len(c.vals) \in Nat  BY DEF Calls
  <2>2. \A k \in Nat : 2 * k \in Nat  OBVIOUS
  <2> QED  BY <2>1, <2>2, ByteTypes
<1>2. CASE c.fc \in {1, 2}
  <2>1. \E sum : m = Read(c.fc, c, sum, BytesOfBits(c.n), d)
    BY <1>2 DEF MethodOf, ReadCoils, ReadDiscreteInputs
  <2> QED  BY <1>2, <2>1 DEF Read, Standard
<1>3. CASE c.fc \in {3, 4}
  <2>1. \E sum : m = Read(c.fc, c, sum, BytesOfRegs(c.n), d)
    BY <1>3 DEF MethodOf, ReadHoldingRegisters, ReadInputRegisters
  <2> QED  BY <1>3, <2>1 DEF Read, Standard
<1>4. CASE c.fc = 5
  <2>1. m = WriteSingleCoil(c)  BY <1>4 DEF MethodOf
  <2> QED  BY <1>4, <2>1 DEF WriteSingleCoil, Standard
<1>5. CASE c.fc = 6
  <2>1. m = WriteSingleRegister(c)  BY <1>5 DEF MethodOf
  <2> QED  BY <1>5, <2>1 DEF WriteSingleRegister, Standard
<1>6. CASE c.fc \in {15, 16}
  <2>1. PICK bytes \in Nat : m = WriteBlock(c.fc, c, 5, bytes)
    BY <1>1, <1>6 DEF MethodOf, WriteMultipleCoils, WriteMultipleRegisters
  <2> QED  BY <1>6, <2>1 DEF WriteBlock, Standard
<1>7. CASE c.fc = 23
  <2>1. m = ReadAndWriteMultipleRegisters(c, d)  BY <1>7 DEF MethodOf
  <2> QED  BY <1>1, <1>7, <2>1 DEF ReadAndWriteMultipleRegisters, WriteBlock, Standard
<1>8. CASE c.fc = 17
  <2>1. m = ReportServerId(c)  BY <1>8 DEF MethodOf
  <2> QED  BY <1>8, <2>1 DEF ReportServerId, Standard
<1>9. CASE c.fc = 22
  <2>1. m = MaskWriteRegister(c)  BY <1>9 DEF MethodOf
  <2> QED  BY <1>9, <2>1 DEF MaskWriteRegister, Standard
<1>10. CASE c.fc \notin Standard
  <2>1. m = SendCustomFc(c)  BY <1>10 DEF MethodOf, Standard
  <2> QED  BY <1>10, <2>1 DEF SendCustomFc, Standard
<1> QED  BY <1>2, <1>3, <1>4, <1>5, <1>6, <1>7, <1>8, <1>9, <1>10 DEF Standard

\* A good reply passes the checks of the method that asked for it.
LEMMA GoodRepliesPass ==
  ASSUME NEW c \in Calls, NEW d, NEW p, NEW m, m = MethodOf(c, d), GoodReply(m.pdu, p),
         p.unit = m.pdu.unit, p.fc = m.pdu.fc, p.err = "none", p.wat = m.pdu.wat, p.wn = m.pdu.wn
  PROVE  Outcome(m, p) = "ok" \/ (m.pdu.fc = 17 /\ p.size < 2 + m.pdu.n)
<1>1. CheckUnitFc(m, p)  BY DEF CheckUnitFc
<1> DEFINE Good == CheckLength(m, p) = "none" /\ CheckByteCount(m, p) /\ CheckEcho(m, p) /\ ~ParsePanics(m, p)
<1>2. SUFFICES Good
  BY <1>1 DEF Outcome
<1>3. c.n \in Nat  BY Numbers DEF Calls
<1> USE DEF CheckLength, CheckByteCount, CheckEcho, ParsePanics, AnyLength, OwnLength, GoodReply
<1>4. CASE c.fc \in {1, 2}
  <2>1. m.pdu.fc = c.fc /\ m.pdu.n = c.n /\ m.need = 1 + m.head /\ m.head = BytesOfBits(c.n) /\ ~m.echo
    BY <1>4, MethodForms DEF Standard
  <2>2. p.count = BytesOfBits(c.n) /\ p.size = 1 + BytesOfBits(c.n) /\ BytesOfBits(c.n) \in Nat
    BY <1>3, <1>4, <2>1, ByteTypes
  <2> QED  BY <1>4, <2>1, <2>2
<1>5. CASE c.fc \in {3, 4, 23}
  <2>1. m.pdu.fc = c.fc /\ m.pdu.n = c.n /\ m.need = 1 + m.head /\ m.head = BytesOfRegs(c.n) /\ ~m.echo
    BY <1>5, MethodForms DEF Standard
  <2>2. p.count = BytesOfRegs(c.n) /\ p.size = 1 + BytesOfRegs(c.n) /\ 2 * c.n < Word
    BY <1>5, <2>1
  <2>3. BytesOfRegs(c.n) = 2 * c.n /\ 2 * c.n \in Nat
    <3>1. 2 * c.n \in Addresses  BY <1>3, <2>2, Numbers
    <3> QED  BY <3>1, U16Same, Numbers DEF BytesOfRegs
  <2> QED  BY <1>3, <1>5, <2>1, <2>2, <2>3
<1>6. CASE c.fc \in {5, 6, 15, 16}
  <2>1. m.pdu.fc = c.fc /\ m.need = 4 /\ m.head = AnyLength
    BY <1>6, MethodForms DEF Standard
  <2>2. p.size = 4 /\ (m.pdu.fc \in {5, 6} => p.vals = m.pdu.vals)  BY <1>6, <2>1
  <2> QED  BY <1>6, <2>1, <2>2
<1>7. CASE c.fc = 17
  <2>1. m.pdu.fc = 17 /\ m.need = OwnLength /\ m.head = AnyLength /\ ~m.echo
    BY <1>7, MethodForms DEF Standard
  <2>2. p.count \in Nat /\ p.size = 1 + p.count  BY <2>1
  <2> QED  BY <2>1, <2>2
<1>8. CASE c.fc = 22
  <2>1. m.pdu.fc = 22 /\ m.need = 6 /\ m.head = AnyLength  BY <1>8, MethodForms DEF Standard
  <2>2. p.size = 6 /\ p.vals = m.pdu.vals  BY <2>1
  <2> QED  BY <2>1, <2>2
<1>9. CASE c.fc \notin Standard
  <2>1. m.pdu.fc = Custom /\ m.need = AnyLength /\ m.head = AnyLength /\ ~m.echo
    BY <1>9, MethodForms
  <2> QED  BY <2>1 DEF Custom
<1> QED  BY <1>4, <1>5, <1>6, <1>7, <1>8, <1>9 DEF Standard

\* No response whatever makes the parser index outside of it, where 2 * n fits a u16.
LEMMA OnlyOverflowPanics ==
  ASSUME NEW c \in Calls, NEW d, NEW p, p.size \in Nat, NEW m, m = MethodOf(c, d), Outcome(m, p) = "panic"
  PROVE  2 * c.n >= Word
<1>1. CheckLength(m, p) = "none" /\ ParsePanics(m, p)
  BY DEF Outcome, CheckLength
<1>2. c.n \in Nat /\ BytesOfBits(c.n) \in Nat /\ BytesOfRegs(c.n) \in Nat
  <2>1. c.n \in Nat  BY Numbers DEF Calls
  <2> QED  BY <2>1, ByteTypes
<1>3. ASSUME NEW bytes \in Nat, m.need = 1 + bytes  PROVE p.size = 1 + bytes
  BY <1>1, <1>3 DEF CheckLength, AnyLength, OwnLength
<1>4. m.pdu.n = c.n /\ m.pdu.fc = IF c.fc \in Standard THEN c.fc ELSE Custom
  BY MethodForms
<1>5. CASE c.fc \in {1, 2}
  <2>1. m.pdu.fc = c.fc /\ m.need = 1 + BytesOfBits(c.n)  BY <1>5, MethodForms DEF Standard
  <2>2. p.size = 1 + BytesOfBits(c.n)  BY <1>2, <1>3, <2>1
  <2> QED  BY <1>1, <1>2, <1>4, <1>5, <2>1, <2>2 DEF ParsePanics
<1>6. CASE c.fc \in {3, 4, 23}
  <2>1. m.pdu.fc = c.fc /\ m.need = 1 + BytesOfRegs(c.n)  BY <1>6, MethodForms DEF Standard
  <2>2. p.size = 1 + BytesOfRegs(c.n)  BY <1>2, <1>3, <2>1
  <2>3. p.size < 1 + 2 * c.n  BY <1>1, <1>4, <1>6, <2>1 DEF ParsePanics
  <2>4. 2 * c.n \in Nat /\ BytesOfRegs(c.n) # 2 * c.n  BY <1>2, <2>2, <2>3
  <2>5. 2 * c.n \notin Addresses  BY <2>4, U16Same DEF BytesOfRegs
  <2> QED  BY <2>4, <2>5, Numbers
<1>7. CASE c.fc \notin {1, 2, 3, 4, 23}
  <2>1. m.pdu.fc \notin {1, 2, 3, 4, 23}  BY <1>4, <1>7 DEF Custom
  <2> QED  BY <1>1, <2>1 DEF ParsePanics
<1> QED  BY <1>5, <1>6, <1>7

\* The receiver of a request that the master made predicts its length.
LEMMA RequestsPredicted ==
  ASSUME NEW c \in Calls, NEW d, NEW m, m = MethodOf(c, d), m.pdu.fc \in Standard
  PROVE  PredictRequest(m.pdu) = FrameLength(m.pdu)
<1> USE DEF FrameLength, PredictRequest
<1>1. m.pdu.fc = c.fc  BY MethodForms DEF Standard, Custom
<1>2. CASE c.fc \in {1, 2, 3, 4, 5, 6}
  <2>1. m.pdu.size = 4  BY <1>2, MethodForms
  <2> QED  BY <1>1, <1>2, <2>1
<1>3. CASE c.fc \in {15, 16, 23}
  <2>1. PICK bytes \in Nat :
          m.pdu.count = U8(bytes) /\ m.pdu.size = (IF c.fc = 23 THEN 9 ELSE 5) + U8(bytes)
    BY <1>3, MethodForms
  <2>2. U8(bytes) \in Nat  BY Numbers DEF U8
  <2> QED  BY <1>1, <1>3, <2>1, <2>2
<1>4. CASE c.fc = 17
  <2>1. m.pdu.size = 0  BY <1>4, MethodForms
  <2> QED  BY <1>1, <1>4, <2>1
<1>5. CASE c.fc = 22
  <2>1. m.pdu.size = 6  BY <1>5, MethodForms
  <2> QED  BY <1>1, <1>5, <2>1
<1> QED  BY <1>1, <1>2, <1>3, <1>4, <1>5 DEF Standard

LEMMA RepliesPredicted ==
  ASSUME NEW r, NEW p, r.fc \in Standard, p.fc = r.fc, r.n \in Nat,
         (p.err # "none" /\ p.size = 1) \/ (p.err = "none" /\ GoodReply(r, p))
  PROVE  PredictResponse(p) = FrameLength(p)
<1>1. CASE p.err # "none"  BY <1>1 DEF PredictResponse, FrameLength
<1>2. CASE p.err = "none" /\ r.fc \in {5, 6, 15, 16, 22}
  BY <1>2 DEF PredictResponse, FrameLength, GoodReply
<1>3. CASE p.err = "none" /\ r.fc \in {1, 2, 3, 4, 17, 23}
  <2>1. p.size = 1 + p.count /\ p.count \in Nat
    BY <1>3, ByteTypes DEF GoodReply
  <2> QED  BY <1>3, <2>1 DEF PredictResponse, FrameLength
<1> QED  BY <1>1, <1>2, <1>3 DEF Standard

-----------------------------------------------------------------------------

\* One invariant of every step, from which success is what it says.

Domains == DOMAIN call = Clients /\ DOMAIN sent = Clients /\ DOMAIN result = Clients /\ DOMAIN honest = Clients

\* A request is with one model at a time, which has passed it.
AskedAt(t) ==
  /\ IF pc[t] = "idle" THEN req[t] = NoCall /\ sent[t] = <<>> ELSE call[t] \in Calls
  /\ IF pc[t] \in {"idle", "done"} THEN todo[t] = {} ELSE \A u \in todo[t] : req[t].unit \in {0, u}
  /\ pc[t] \in {"lock", "read", "write", "answer"} =>
       /\ unit[t] \in Units /\ HandlerOf(req[t], Ranges[unit[t]], debug) = "run"
       /\ req[t].unit \in {0, unit[t]}
  /\ pc[t] = "answer" /\ req[t].fc \in BlockReads => Len(got[t]) = req[t].n

\* When a handler is done with its write, the whole block is written.
WroteAt(t) ==
  req[t].fc \in Writes =>
    /\ pc[t] = "read" => req[t].fc \in {22, 23}
    /\ pc[t] = "write" => \A i \in Nat : i < done[t] => <<unit[t], ElementOf(t, i)>> \in writes[t]
    /\ pc[t] = "answer" \/ (pc[t] = "read" /\ req[t].fc = 23) => Wrote(t, unit[t])

\* A broadcast has been written to every model it passed, or is being.
BroadcastAt(t) ==
  honest[t] /\ req[t].fc \in Writes /\ req[t].unit = 0 /\ pc[t] # "idle" =>
    \A u \in Units \ todo[t] :
      HandlerOf(req[t], Ranges[u], debug) = "run" =>
        Wrote(t, u) \/ (u = unit[t] /\ pc[t] \in {"lock", "read", "write"})

\* A response is an exception, or tells what has been done.
ReplyOf(t, p) ==
  /\ p.unit = req[t].unit /\ p.fc = req[t].fc /\ p.size \in Nat
  /\ \/ p.err \in Errors /\ p.size = 1
     \/ /\ p.err = "none"
        /\ honest[t] =>
             /\ p.wat = req[t].wat /\ p.wn = req[t].wn /\ GoodReply(req[t], p)
             /\ req[t].fc \in Writes => req[t].unit \in Units /\ Wrote(t, req[t].unit)

RepliesAt(t) ==
  /\ \E S : sent[t] \in Seq(S)
  /\ \A i \in DOMAIN sent[t] : ReplyOf(t, sent[t][i])

\* The result is what the master makes of a response: of the slave's, if all are honest.
ResultAt(t) ==
  /\ pc[t] # "done" => result[t] = "none"
  /\ result[t] \notin {"none", "panic"} => req[t].fc # 0
  /\ result[t] # "none" /\ req[t].fc # 0 =>
       /\ Ours(t)
       /\ \E p : /\ p.size \in Nat /\ result[t] = Outcome(MethodOf(call[t], debug), p)
                 /\ honest[t] => sent[t] # <<>> /\ p = Head(sent[t])

StepAt(t) == AskedAt(t) /\ WroteAt(t) /\ BroadcastAt(t) /\ RepliesAt(t) /\ ResultAt(t)
StepInv == Domains /\ \A t \in Clients : StepAt(t)

Same(s) ==
  /\ pc'[s] = pc[s] /\ call'[s] = call[s] /\ req'[s] = req[s] /\ todo'[s] = todo[s] /\ unit'[s] = unit[s]
  /\ done'[s] = done[s] /\ got'[s] = got[s] /\ sent'[s] = sent[s] /\ result'[s] = result[s]
  /\ writes'[s] = writes[s] /\ honest'[s] = honest[s]

\* A step is of one client: it leaves the others where they are.
LEMMA Bystanders ==
  ASSUME BaseInv, Domains, NEW t \in Clients, Task(t) \/ \E c \in CallsOf[t] : Issue(t, c)
  PROVE  Domains' /\ UNCHANGED debug /\ \A s \in Clients \ {t} : Same(s)
<1> USE DEF BaseInv, TypeOK, Domains, Same, Goto, taskVars, ghosts, NotHonest, Refuse, Send
<1>1. CASE \E c \in CallsOf[t] : Issue(t, c)
  <2>1. PICK c \in CallsOf[t] : Issue(t, c)  BY <1>1
  <2>2. CASE MethodOf(c, debug).panics  BY <2>1, <2>2 DEF Issue
  <2>3. CASE ~MethodOf(c, debug).panics
    <3>1. PICK r : req' = [req EXCEPT ![t] = r]  BY <2>1, <2>3 DEF Issue
    <3> QED  BY <2>1, <2>3, <3>1 DEF Issue
  <2> QED  BY <2>2, <2>3
<1>2. ASSUME NEW u \in Units, Ask(t, u)  PROVE Domains' /\ UNCHANGED debug /\ \A s \in Clients \ {t} : Same(s)
  BY <1>2 DEF Ask
<1>3. ASSUME NEW u \in Units, AskCustom(t, u)  PROVE Domains' /\ UNCHANGED debug /\ \A s \in Clients \ {t} : Same(s)
  BY <1>3 DEF AskCustom
<1>4. ASSUME NEW u \in Units, Intercept(t, u)  PROVE Domains' /\ UNCHANGED debug /\ \A s \in Clients \ {t} : Same(s)
  BY <1>4 DEF Intercept
<1>5. CASE Lock(t)  BY <1>5 DEF Lock
<1>6. CASE ReadModel(t)  BY <1>6 DEF ReadModel
<1>7. CASE WriteModel(t)  BY <1>7 DEF WriteModel
<1>8. CASE Fail(t)  BY <1>8 DEF Fail
<1>9. CASE Answer(t)  BY <1>9 DEF Answer
<1>10. CASE AnswerServerId(t)  BY <1>10 DEF AnswerServerId
<1>11. CASE Receive(t)  BY <1>11 DEF Receive
<1> QED  BY <1>1, <1>2, <1>3, <1>4, <1>5, <1>6, <1>7, <1>8, <1>9, <1>10, <1>11 DEF Task

LEMMA OthersKeep ==
  ASSUME NEW s \in Clients, StepAt(s), Same(s), UNCHANGED debug
  PROVE  StepAt(s)'
<1> USE DEF StepAt, Same
<1>1. AskedAt(s)'  BY DEF AskedAt
<1>2. WroteAt(s)'  BY DEF WroteAt, Wrote, Block, ElementOf
<1>3. BroadcastAt(s)'  BY DEF BroadcastAt, Wrote, Block
<1>4. RepliesAt(s)'  BY DEF RepliesAt, ReplyOf, Wrote, Block
<1>5. ResultAt(s)'  BY DEF ResultAt, Ours
<1> QED  BY <1>1, <1>2, <1>3, <1>4, <1>5

LEMMA StepIssue ==
  ASSUME BaseInv, ValueInv, StepInv, NEW t \in Clients, NEW c \in CallsOf[t], Issue(t, c)
  PROVE  StepAt(t)'
<1> USE DEF BaseInv, TypeOK, Domains, StepInv, StepAt, Goto
<1> DEFINE m == MethodOf(c, debug)
<1>1. c \in Calls  BY RequestsAssumption
<1>2. pc[t] = "idle" /\ req[t] = NoCall /\ sent'[t] = <<>> /\ writes'[t] = {} /\ call'[t] = c /\ result[t] = "none"
      /\ todo[t] = {}
  BY DEF Issue, AskedAt, ResultAt, FlowInv, ghosts
<1>3. RepliesAt(t)'
  <2>1. <<>> \in Seq({})  OBVIOUS
  <2> QED  BY <1>2, <2>1 DEF RepliesAt
<1>4. pc'[t] \in {"models", "done"}  BY DEF Issue
<1>5. WroteAt(t)'  BY <1>4 DEF WroteAt
<1>6. CASE m.panics
  <2>1. pc'[t] = "done" /\ req'[t] = NoCall /\ todo'[t] = {} /\ result'[t] = "panic"  BY <1>2, <1>6 DEF Issue
  <2> QED  BY <1>1, <1>2, <1>3, <1>5, <2>1 DEF AskedAt, BroadcastAt, ResultAt, NoCall, Writes
<1>7. CASE ~m.panics
  <2>1. PICK r \in IF t \in Odd THEN Variants(m.pdu) ELSE {m.pdu} : req'[t] = r
    BY <1>7 DEF Issue
  <2>2. r.unit = c.unit
    <3>1. m.pdu \in Requests /\ m.pdu.unit = c.unit  BY <1>1, MethodSends, MethodForms
    <3>2. r = m.pdu \/ r \in Variants(m.pdu)  BY <2>1
    <3> QED  BY <3>1, <3>2 DEF Variants, Requests
  <2>3. pc'[t] = "models" /\ result'[t] = "none" /\ todo'[t] = Snapshot(c.unit)  BY <1>2, <1>7 DEF Issue
  <2>4. AskedAt(t)'  BY <1>1, <1>2, <2>1, <2>2, <2>3 DEF AskedAt, Snapshot
  <2>5. BroadcastAt(t)'  BY <2>1, <2>2, <2>3 DEF BroadcastAt, Snapshot
  <2> QED  BY <1>3, <1>5, <2>3, <2>4, <2>5 DEF ResultAt
<1> QED  BY <1>6, <1>7

\* Whether a request overflows does not depend on the model.
LEMMA PanicsAreEverywhere ==
  ASSUME NEW r \in Requests, NEW g, NEW h, NEW d, HandlerOf(r, g, d) = "panic", r.fc \in Writes
  PROVE  HandlerOf(r, h, d) # "run"
<1> USE DEF Verdict
<1>1. CASE r.fc \in {5, 6, 22}
  BY <1>1 DEF HandlerOf, HandleFc5, HandleFc6, HandleFc22
<1>2. CASE r.fc = 15
  <2>1. HandleFc15(r, g, d) = "panic" /\ HandlerOf(r, h, d) = HandleFc15(r, h, d)  BY <1>2 DEF HandlerOf
  <2> QED  BY <2>1 DEF HandleFc15
<1>3. CASE r.fc = 16
  <2>1. HandleFc16(r, g, d) = "panic" /\ HandlerOf(r, h, d) = HandleFc16(r, h, d)  BY <1>3 DEF HandlerOf
  <2> QED  BY <2>1 DEF HandleFc16
<1>4. CASE r.fc = 23
  <2>1. HandleFc23(r, g, d) = "panic" /\ HandlerOf(r, h, d) = HandleFc23(r, h, d)  BY <1>4 DEF HandlerOf
  <2> QED  BY <2>1 DEF HandleFc23
<1> QED  BY <1>1, <1>2, <1>3, <1>4 DEF Writes

\* A response more, or none to a broadcast.
LEMMA Sending ==
  ASSUME NEW t \in Clients, RepliesAt(t), t \in DOMAIN sent, NEW p, Send(t, p), req'[t] = req[t],
         writes[t] \subseteq writes'[t], honest'[t] => honest[t],
         req[t].unit # 0 => ReplyOf(t, p)'
  PROVE  RepliesAt(t)'
<1>1. ASSUME NEW q, ReplyOf(t, q)  PROVE ReplyOf(t, q)'
  BY <1>1 DEF ReplyOf, Wrote, Block
<1>2. CASE req[t].unit = 0
  <2>1. sent'[t] = sent[t]  BY <1>2 DEF Send
  <2> QED  BY <1>1, <2>1 DEF RepliesAt
<1>3. CASE req[t].unit # 0
  <2>1. PICK S : sent[t] \in Seq(S)  BY DEF RepliesAt
  <2>2. sent'[t] = Append(sent[t], p)  BY <1>3 DEF Send
  <2>3. sent[t] \in Seq(S \cup {p}) /\ p \in S \cup {p}  BY <2>1
  <2>4. sent'[t] \in Seq(S \cup {p})  BY <2>2, <2>3
  <2>5. \A i \in DOMAIN sent'[t] : sent'[t][i] = p \/ (i \in DOMAIN sent[t] /\ sent'[t][i] = sent[t][i])
    BY <2>2, <2>3
  <2>6. ASSUME NEW i \in DOMAIN sent'[t], NEW q, q = sent'[t][i]  PROVE ReplyOf(t, q)'
    <3>1. CASE q = p  BY <1>3, <3>1
    <3>2. CASE i \in DOMAIN sent[t] /\ q = sent[t][i]
      <4>1. ReplyOf(t, q)  BY <3>2 DEF RepliesAt
      <4> QED  BY <1>1, <4>1
    <3> QED  BY <2>5, <2>6, <3>1, <3>2
  <2> QED  BY <2>4, <2>6 DEF RepliesAt
<1> QED  BY <1>2, <1>3

LEMMA Refusing ==
  ASSUME NEW t \in Clients, RepliesAt(t), t \in DOMAIN sent, NEW err \in Errors, Refuse(t, err), req'[t] = req[t],
         writes[t] \subseteq writes'[t], honest'[t] => honest[t]
  PROVE  RepliesAt(t)'
<1>1. PICK p : p = Exception(req[t], err)  OBVIOUS
<1>2. p.unit = req[t].unit /\ p.fc = req[t].fc /\ p.size = 1 /\ p.err = err
  BY <1>1 DEF Exception, Response
<1>3. ReplyOf(t, p)'  BY <1>2 DEF ReplyOf
<1> QED  BY <1>1, <1>3, Sending DEF Refuse

LEMMA NotACall == NoCall \notin Requests
BY DEF NoCall, Requests

LEMMA StepAsk ==
  ASSUME BaseInv, ValueInv, StepInv, NEW t \in Clients, NEW u \in Units, Ask(t, u)
  PROVE  StepAt(t)'
<1>0. AskedAt(t) /\ WroteAt(t) /\ BroadcastAt(t) /\ RepliesAt(t) /\ ResultAt(t) /\ t \in DOMAIN sent
  BY DEF StepInv, StepAt, Domains
<1> DEFINE v == HandlerOf(req[t], Ranges[u], debug)
<1>1. /\ pc[t] = "models" /\ req[t] \in Requests /\ u \in todo[t] /\ result'[t] = "none" /\ unit'[t] = u
      /\ todo'[t] = (IF v = "panic" THEN {} ELSE todo[t] \ {u})
      /\ UNCHANGED <<call, req, debug, writes, honest>>
      /\ req[t].unit \in {0, u}
  BY <1>0 DEF Ask, BaseInv, TypeOK, FlowInv, ghosts, ResultAt, AskedAt
<1>2. done'[t] = 0  BY DEF Ask, BaseInv, TypeOK
<1>3. v \in {"ignore", "panic", "run"} \cup Errors
  BY DEF Ask
<1>4. CASE v = "run"
  <2>1. /\ sent' = sent
        /\ pc'[t] = CASE req[t].fc \in {1, 2, 3, 4} -> "read"
                      [] req[t].fc \in {22, 23} -> "lock"
                      [] req[t].fc = 17 -> "answer"
                      [] OTHER -> "write"
    BY <1>4 DEF Ask, Errors, Goto, BaseInv, TypeOK
  <2>2. pc'[t] \in {"read", "lock", "answer", "write"} /\ (pc'[t] = "answer" => req[t].fc = 17)
        /\ (pc'[t] = "read" => req[t].fc \in {1, 2, 3, 4})
    BY <2>1
  <2>3. AskedAt(t)'
    <3>1. req[t].fc = 17 => req[t].fc \notin BlockReads  BY DEF BlockReads
    <3> HIDE DEF v
    <3>2. HandlerOf(req'[t], Ranges[u], debug') = v  BY <1>1 DEF v
    <3> QED  BY <1>0, <1>1, <1>4, <2>2, <3>1, <3>2 DEF AskedAt
  <2>4. WroteAt(t)'  BY <1>1, <1>2, <2>2 DEF WroteAt, Writes, BaseInv, TypeOK
  <2>5. BroadcastAt(t)'
    <3>1. req[t].fc \in Writes => pc'[t] \in {"lock", "write"}  BY <2>2 DEF Writes
    <3> QED  BY <1>0, <1>1, <1>4, <3>1 DEF BroadcastAt, Wrote, Block
  <2>6. RepliesAt(t)'  BY <1>0, <1>1, <2>1 DEF RepliesAt, ReplyOf, Wrote, Block
  <2>7. pc'[t] # "done"  BY <2>1
  <2> QED  BY <1>1, <2>3, <2>4, <2>5, <2>6, <2>7 DEF StepAt, ResultAt
<1>5. CASE v # "run"
  <2>1. pc'[t] = "models"  BY <1>3, <1>5 DEF Ask, Refuse, Goto, BaseInv, TypeOK
  <2>2. RepliesAt(t)'
    <3>1. CASE v \in Errors
      <4>1. Refuse(t, v)  BY <3>1 DEF Ask, Errors
      <4> QED  BY <1>0, <1>1, <3>1, <4>1, Refusing
    <3>2. CASE v \notin Errors
      <4>1. sent' = sent  BY <1>3, <1>5, <3>2 DEF Ask
      <4> QED  BY <1>0, <1>1, <4>1 DEF RepliesAt, ReplyOf, Wrote, Block
    <3> QED  BY <3>1, <3>2
  <2>3. BroadcastAt(t)'
    <3>1. ASSUME NEW w \in Units, v = "panic", req[t].fc \in Writes  PROVE HandlerOf(req[t], Ranges[w], debug) # "run"
      BY <1>1, <3>1, PanicsAreEverywhere
    <3> QED  BY <1>0, <1>1, <1>5, <2>1, <3>1 DEF BroadcastAt, Wrote, Block
  <2>4. AskedAt(t)'  BY <1>0, <1>1, <2>1 DEF AskedAt
  <2> QED  BY <1>1, <2>1, <2>2, <2>3, <2>4 DEF StepAt, WroteAt, ResultAt
<1> QED  BY <1>4, <1>5

LEMMA StepAskCustom ==
  ASSUME BaseInv, ValueInv, StepInv, NEW t \in Clients, NEW u \in Units, AskCustom(t, u) \/ Intercept(t, u)
  PROVE  StepAt(t)'
<1>0. AskedAt(t) /\ WroteAt(t) /\ BroadcastAt(t) /\ RepliesAt(t) /\ ResultAt(t)
      /\ t \in DOMAIN sent /\ t \in DOMAIN honest
  BY DEF StepInv, StepAt, Domains
<1>1. /\ pc[t] = "models" /\ req[t] \in Requests /\ u \in todo[t] /\ result'[t] = "none" /\ pc'[t] = "models"
      /\ todo'[t] = todo[t] \ {u} /\ UNCHANGED <<call, req, debug, writes>>
      /\ honest'[t] => honest[t]
  BY <1>0 DEF AskCustom, Intercept, NotHonest, BaseInv, TypeOK, FlowInv, ghosts, ResultAt, Refuse, Goto
<1>2. ~honest'[t] \/ req[t].fc = Custom
  <2>1. CASE AskCustom(t, u)
    <3>1. HandlerOf(req[t], Ranges[u], debug) = "custom"  BY <2>1 DEF AskCustom
    <3>2. req[t].fc \notin Standard
      BY <3>1 DEF Standard, HandlerOf, HandleFc1, HandleFc2, HandleFc3, HandleFc4, HandleFc5, HandleFc6, HandleFc15,
                  HandleFc16, HandleFc17, HandleFc22, HandleFc23, HandleRead, Verdict
    <3>3. Arrived(req[t])  BY DEF ValueInv
    <3> QED  BY <1>1, <3>2, <3>3, NotACall DEF Arrived
  <2>2. CASE Intercept(t, u)  BY <1>0, <2>2 DEF Intercept, NotHonest
  <2> QED  BY <2>1, <2>2
<1>3. RepliesAt(t)'
  <2>1. CASE \E err \in {"IllegalFunction", "ServerDeviceFailure"} : Refuse(t, err)
    BY <1>0, <1>1, <2>1, Refusing DEF Errors
  <2>2. ASSUME NEW k \in Nat, Send(t, Response(req[t], "none", 0, k, <<>>))  PROVE RepliesAt(t)'
    <3>1. PICK p : p = Response(req[t], "none", 0, k, <<>>)  OBVIOUS
    <3>2. ReplyOf(t, p)'
      <4>1. p.unit = req[t].unit /\ p.fc = req[t].fc /\ p.size \in Nat /\ p.err = "none"
            /\ p.wat = req[t].wat /\ p.wn = req[t].wn
        BY <3>1 DEF Response
      <4>2. req[t].fc = Custom => GoodReply(req[t], p) /\ req[t].fc \notin Writes
        BY DEF GoodReply, Custom, Writes
      <4> QED  BY <1>1, <1>2, <4>1, <4>2 DEF ReplyOf
    <3> QED  BY <1>0, <1>1, <2>2, <3>1, <3>2, Sending
  <2>3. req[t].n \in Nat  BY <1>1 DEF Requests
  <2> QED  BY <2>1, <2>2, <2>3 DEF AskCustom, Intercept
<1>4. BroadcastAt(t)'  BY <1>0, <1>1, <1>2 DEF BroadcastAt, Custom, Writes
<1>5. AskedAt(t)'  BY <1>0, <1>1 DEF AskedAt
<1> QED  BY <1>1, <1>3, <1>4, <1>5 DEF StepAt, WroteAt, ResultAt

LEMMA StepLock ==
  ASSUME BaseInv, ValueInv, StepInv, NEW t \in Clients, Lock(t)
  PROVE  StepAt(t)'
<1>0. AskedAt(t) /\ WroteAt(t) /\ BroadcastAt(t) /\ RepliesAt(t) /\ ResultAt(t)
      /\ t \in DOMAIN sent /\ t \in DOMAIN honest /\ t \in DOMAIN result
  BY DEF StepInv, StepAt, Domains
<1>1. /\ pc[t] = "lock" /\ req[t].fc \in {22, 23} /\ done[t] = 0
      /\ pc'[t] = (IF req[t].fc = 22 THEN "read" ELSE "write")
      /\ UNCHANGED <<debug, call, req, todo, unit, done, got, sent, result, writes, honest>>
  BY DEF Lock, BaseInv, TypeOK, FlowInv, Goto, After, taskVars, ghosts
<1>2. pc'[t] \in {"read", "write"} /\ (pc'[t] = "read" => req[t].fc = 22)  BY <1>1
<1>3. AskedAt(t)'  BY <1>0, <1>1, <1>2 DEF AskedAt
<1>4. WroteAt(t)'  BY <1>0, <1>1, <1>2 DEF WroteAt
<1>5. BroadcastAt(t)'  BY <1>0, <1>1, <1>2 DEF BroadcastAt, Wrote, Block
<1>6. RepliesAt(t)'  BY <1>0, <1>1 DEF RepliesAt, ReplyOf, Wrote, Block
<1>7. ResultAt(t)'  BY <1>0, <1>1, <1>2 DEF ResultAt, Ours
<1> QED  BY <1>3, <1>4, <1>5, <1>6, <1>7 DEF StepAt

LEMMA StepRead ==
  ASSUME BaseInv, ValueInv, StepInv, NEW t \in Clients, ReadModel(t)
  PROVE  StepAt(t)'
<1>0. AskedAt(t) /\ WroteAt(t) /\ BroadcastAt(t) /\ RepliesAt(t) /\ ResultAt(t)
      /\ t \in DOMAIN sent /\ t \in DOMAIN honest /\ t \in DOMAIN result
  BY DEF StepInv, StepAt, Domains
<1>1. /\ pc[t] = "read" /\ req[t] \in Requests /\ (req[t].fc = 22 => done[t] = 0)
      /\ pc'[t] = (IF req[t].fc = 22 THEN "write" ELSE "answer")
      /\ UNCHANGED <<debug, call, req, todo, unit, done, sent, result, writes, honest>>
  BY DEF ReadModel, BaseInv, TypeOK, FlowInv, Goto, After, ghosts
<1>2. pc'[t] \in {"write", "answer"} /\ (pc'[t] = "write" <=> req[t].fc = 22)  BY <1>1
<1>3. req[t].fc # 22 => Len(got'[t]) = req[t].n
  <2>1. ASSUME req[t].fc # 22  PROVE Len(got'[t]) = req[t].n
    <3>1. \E f : got'[t] = [i \in 1 .. req[t].n |-> f[i]]
      <4> DEFINE f == [i \in 1 .. req[t].n |->
                        IF req[t].fc \in {2, 4} THEN 0 ELSE store[unit[t]][Space(req[t].fc)][req[t].at + i - 1]]
      <4>1. got'[t] = [i \in 1 .. req[t].n |-> f[i]]  BY <2>1 DEF ReadModel, BaseInv, TypeOK
      <4> QED  BY <4>1
    <3>2. req[t].n \in Nat  BY <1>1 DEF Requests
    <3> QED  BY <3>1, <3>2
  <2> QED  BY <2>1
<1>4. AskedAt(t)'
  <2>1. 22 \notin BlockReads  BY DEF BlockReads
  <2> QED  BY <1>0, <1>1, <1>2, <1>3, <2>1 DEF AskedAt
<1>5. WroteAt(t)'
  <2>1. req[t].fc \in Writes /\ pc'[t] = "answer" => Wrote(t, unit[t])
    <3>1. req[t].fc \in Writes /\ req[t].fc # 22 => req[t].fc = 23  BY <1>0, <1>1 DEF WroteAt
    <3> QED  BY <1>0, <1>1, <1>2, <3>1 DEF WroteAt
  <2> QED  BY <1>1, <1>2, <2>1 DEF WroteAt, Wrote, Block
<1>6. BroadcastAt(t)'  BY <1>0, <1>1, <1>2, <1>5 DEF BroadcastAt, WroteAt, Wrote, Block
<1>7. RepliesAt(t)'  BY <1>0, <1>1 DEF RepliesAt, ReplyOf, Wrote, Block
<1>8. ResultAt(t)'  BY <1>0, <1>1, <1>2 DEF ResultAt, Ours
<1> QED  BY <1>4, <1>5, <1>6, <1>7, <1>8 DEF StepAt

LEMMA StepWrite ==
  ASSUME BaseInv, ValueInv, StepInv, NEW t \in Clients, WriteModel(t)
  PROVE  StepAt(t)'
<1>0. AskedAt(t) /\ WroteAt(t) /\ BroadcastAt(t) /\ RepliesAt(t) /\ ResultAt(t)
      /\ t \in DOMAIN sent /\ t \in DOMAIN honest /\ t \in DOMAIN result
  BY DEF StepInv, StepAt, Domains
<1>1. /\ pc[t] = "write" /\ req[t] \in Requests /\ req[t].fc \in Writes /\ done[t] \in Nat
      /\ done[t] < CountToWrite(req[t]) /\ done'[t] = done[t] + 1
      /\ writes'[t] = writes[t] \cup {<<unit[t], ElementOf(t, done[t])>>}
      /\ UNCHANGED <<debug, call, req, todo, unit, sent, result, honest>>
  BY DEF WriteModel, BaseInv, TypeOK, FlowInv, ElementOf
<1>2. \/ pc'[t] = "write" /\ done[t] + 1 # CountToWrite(req[t])
      \/ pc'[t] = "read" /\ req[t].fc = 23 /\ done[t] + 1 = CountToWrite(req[t])
      \/ pc'[t] = "answer" /\ req[t].fc # 23 /\ done[t] + 1 = CountToWrite(req[t])
  <2>1. WritesOne(t) /\ pc \in [Clients -> Steps]  BY WritingOne DEF BaseInv, TypeOK
  <2> QED  BY <1>1, <2>1 DEF WritesOne, Finishes, Continues
<1>3. \A i \in Nat : i < done'[t] => <<unit[t], ElementOf(t, i)>> \in writes'[t]
  <2>1. \A i \in Nat : i < done[t] + 1 => i < done[t] \/ i = done[t]  BY <1>1
  <2> QED  BY <1>0, <1>1, <2>1 DEF WroteAt
<1>4. pc'[t] \in {"read", "answer"} => Wrote(t, unit[t])'
  <2> SUFFICES ASSUME pc'[t] \in {"read", "answer"}, NEW a \in Block(req[t])  PROVE <<unit[t], a>> \in writes'[t]
    BY <1>1 DEF Wrote, Block
  <2>1. PICK i \in 0 .. (IF req[t].fc \in BlockWrites THEN req[t].wn ELSE 1) - 1 : a = ElementOf(t, i)
    BY DEF Block, ElementOf
  <2>2. i \in Nat /\ i < CountToWrite(req[t])  BY <1>1, <2>1 DEF CountToWrite, Requests
  <2>3. i < done'[t]  BY <1>1, <1>2, <2>2
  <2> QED  BY <1>3, <2>1, <2>2, <2>3
<1>5. WroteAt(t)'  BY <1>1, <1>2, <1>3, <1>4 DEF WroteAt, ElementOf
<1>6. AskedAt(t)'
  <2>1. pc'[t] = "answer" => req[t].fc \notin BlockReads  BY <1>1, <1>2 DEF Writes, BlockReads
  <2> QED  BY <1>0, <1>1, <1>2, <2>1 DEF AskedAt
<1>7. BroadcastAt(t)'
  <2>1. \A u \in Units : Wrote(t, u) => Wrote(t, u)'  BY <1>1 DEF Wrote, Block
  <2> QED  BY <1>0, <1>1, <1>2, <1>4, <2>1 DEF BroadcastAt
<1>8. RepliesAt(t)'
  <2>1. \A u : Wrote(t, u) => Wrote(t, u)'  BY <1>1 DEF Wrote, Block
  <2> QED  BY <1>0, <1>1, <2>1 DEF RepliesAt, ReplyOf
<1>9. ResultAt(t)'  BY <1>0, <1>1, <1>2 DEF ResultAt, Ours
<1> QED  BY <1>5, <1>6, <1>7, <1>8, <1>9 DEF StepAt

LEMMA StepFail ==
  ASSUME BaseInv, ValueInv, StepInv, NEW t \in Clients, Fail(t)
  PROVE  StepAt(t)'
<1>0. AskedAt(t) /\ WroteAt(t) /\ BroadcastAt(t) /\ RepliesAt(t) /\ ResultAt(t)
      /\ t \in DOMAIN sent /\ t \in DOMAIN honest /\ t \in DOMAIN result
  BY DEF StepInv, StepAt, Domains
<1>1. /\ pc[t] \in {"read", "write", "answer"} /\ pc'[t] = "models" /\ ~honest'[t]
      /\ UNCHANGED <<debug, call, req, todo, unit, done, got, result, writes>>
      /\ Refuse(t, "ServerDeviceFailure")
  BY <1>0 DEF Fail, BaseInv, TypeOK, Refuse, Goto, NotHonest, taskVars
<1>2. RepliesAt(t)'  BY <1>0, <1>1, Refusing DEF Errors
<1>3. AskedAt(t)'  BY <1>0, <1>1 DEF AskedAt
<1> QED  BY <1>0, <1>1, <1>2, <1>3 DEF StepAt, WroteAt, BroadcastAt, ResultAt

LEMMA StepAnswer ==
  ASSUME BaseInv, ValueInv, StepInv, NEW t \in Clients, Answer(t) \/ AnswerServerId(t)
  PROVE  StepAt(t)'
<1>0. AskedAt(t) /\ WroteAt(t) /\ BroadcastAt(t) /\ RepliesAt(t) /\ ResultAt(t)
      /\ t \in DOMAIN sent /\ t \in DOMAIN honest /\ t \in DOMAIN result
  BY DEF StepInv, StepAt, Domains
<1>1. /\ pc[t] = "answer" /\ req[t] \in Requests /\ pc'[t] = "models"
      /\ UNCHANGED <<debug, call, req, todo, unit, done, got, result, writes, honest>>
  BY DEF Answer, AnswerServerId, BaseInv, TypeOK, FlowInv, Refuse, Goto, taskVars, ghosts
<1>2. unit[t] \in Units /\ HandlerOf(req[t], Ranges[unit[t]], debug) = "run" /\ req[t].unit \in {0, unit[t]}
  BY <1>0, <1>1 DEF AskedAt
<1>3. req[t].fc \in Writes => Wrote(t, unit[t])  BY <1>0, <1>1 DEF WroteAt
<1>4. RepliesAt(t)'
  <2>1. CASE Answer(t)
    <3>1. PICK p : p = Reply(t)  OBVIOUS
    <3>2. GoodReply(req[t], p) /\ p.unit = req[t].unit /\ p.fc = req[t].fc /\ p.err = "none"
          /\ p.wat = req[t].wat /\ p.wn = req[t].wn /\ req[t].fc \in Standard
      <4>1. req[t].fc # 17 /\ (req[t].fc \in BlockReads => Len(got[t]) = req[t].n)
        BY <1>0, <1>1, <2>1 DEF Answer, AskedAt
      <4> QED  BY <1>1, <1>2, <3>1, <4>1, RepliesAreGood, RunChecks
    <3>3. p.size \in Nat
      <4>1. req[t].n \in Nat  BY <1>1 DEF Requests
      <4>2. BytesOfBits(req[t].n) \in Nat /\ BytesOfRegs(req[t].n) \in Nat  BY <4>1, ByteTypes
      <4> QED  BY <3>2, <4>2 DEF GoodReply, Standard
    <3>4. req[t].unit # 0 => ReplyOf(t, p)'
      <4>1. req[t].unit # 0 => req[t].unit = unit[t]  BY <1>2
      <4> QED  BY <1>1, <1>2, <1>3, <3>2, <3>3, <4>1 DEF ReplyOf, Wrote, Block
    <3> QED  BY <1>0, <1>1, <2>1, <3>1, <3>4, Sending DEF Answer
  <2>2. CASE AnswerServerId(t)
    <3>1. CASE Refuse(t, "ServerDeviceFailure")  BY <1>0, <1>1, <3>1, Refusing DEF Errors
    <3>2. ASSUME NEW k \in ServerIds, Send(t, Response(req[t], "none", k, 1 + k, <<>>))  PROVE RepliesAt(t)'
      <4>1. PICK p : p = Response(req[t], "none", k, 1 + k, <<>>)  OBVIOUS
      <4>2. k \in Nat /\ req[t].fc = 17  BY <2>2, RequestsAssumption DEF AnswerServerId
      <4>3. p.unit = req[t].unit /\ p.fc = req[t].fc /\ p.err = "none" /\ p.wat = req[t].wat /\ p.wn = req[t].wn
            /\ p.count = k /\ p.size = 1 + k
        BY <4>1 DEF Response
      <4>4. GoodReply(req[t], p) /\ req[t].fc \notin Writes  BY <4>2, <4>3 DEF GoodReply, Writes
      <4>5. ReplyOf(t, p)'  BY <1>1, <4>2, <4>3, <4>4 DEF ReplyOf
      <4> QED  BY <1>0, <1>1, <3>2, <4>1, <4>5, Sending
    <3> QED  BY <2>2, <3>1, <3>2 DEF AnswerServerId
  <2> QED  BY <2>1, <2>2
<1>5. AskedAt(t)'  BY <1>0, <1>1 DEF AskedAt
<1>6. BroadcastAt(t)'  BY <1>0, <1>1, <1>3 DEF BroadcastAt, Wrote, Block
<1> QED  BY <1>0, <1>1, <1>4, <1>5, <1>6 DEF StepAt, WroteAt, ResultAt

LEMMA StepReceive ==
  ASSUME BaseInv, ValueInv, StepInv, NEW t \in Clients, Receive(t)
  PROVE  StepAt(t)'
<1>0. AskedAt(t) /\ WroteAt(t) /\ BroadcastAt(t) /\ RepliesAt(t) /\ ResultAt(t)
      /\ t \in DOMAIN sent /\ t \in DOMAIN honest /\ t \in DOMAIN result
  BY DEF StepInv, StepAt, Domains
<1>1. /\ pc[t] = "models" /\ pc'[t] = "done" /\ result[t] = "none" /\ todo[t] = {}
      /\ UNCHANGED <<debug, call, req, todo, unit, done, got, sent, writes>>
      /\ honest'[t] => honest[t]
      /\ req[t].fc # 0
  <2>1. Arrived(req[t]) /\ req[t] # NoCall  BY NotACall DEF ValueInv, BaseInv, FlowInv, Receive
  <2>2. req[t].fc # 0  BY <2>1 DEF Arrived, Standard, Custom
  <2> QED  BY <1>0, <2>2 DEF Receive, BaseInv, TypeOK, Goto, NotHonest, ResultAt, taskVars, ghosts
<1> DEFINE m == MethodOf(call[t], debug)
<1>2. ASSUME UNCHANGED result  PROVE ResultAt(t)'  BY <1>1, <1>2 DEF ResultAt
<1>3. ASSUME Ours(t), sent[t] # <<>>, result' = [result EXCEPT ![t] = Outcome(m, Head(sent[t]))]
      PROVE  ResultAt(t)'
  <2>1. PICK p : p = Head(sent[t])  OBVIOUS
  <2>2. p.size \in Nat
    <3>1. Head(sent[t]) = sent[t][1] /\ 1 \in DOMAIN sent[t]  BY <1>0, <1>3 DEF RepliesAt
    <3> QED  BY <1>0, <2>1, <3>1 DEF RepliesAt, ReplyOf
  <2>3. result'[t] = Outcome(m, p)  BY <1>0, <1>3, <2>1
  <2> QED  BY <1>1, <1>3, <2>1, <2>2, <2>3 DEF ResultAt, Ours
<1>4. ASSUME Ours(t), \E p \in Foreign(req[t], m) : result' = [result EXCEPT ![t] = Outcome(m, p)], NotHonest(t)
      PROVE  ResultAt(t)'
  <2>1. PICK p \in Foreign(req[t], m) : result'[t] = Outcome(m, p)  BY <1>0, <1>4
  <2>2. p.size \in Nat  BY Numbers DEF Foreign, Response
  <2>3. ~honest'[t]  BY <1>0, <1>4 DEF NotHonest
  <2> QED  BY <1>1, <1>4, <2>1, <2>2, <2>3 DEF ResultAt, Ours
<1>5. ResultAt(t)'  BY <1>2, <1>3, <1>4 DEF Receive
<1>6. AskedAt(t)'  BY <1>0, <1>1 DEF AskedAt
<1>7. WroteAt(t)'  BY <1>1 DEF WroteAt
<1>8. BroadcastAt(t)'  BY <1>0, <1>1 DEF BroadcastAt, Wrote, Block
<1>9. RepliesAt(t)'  BY <1>0, <1>1 DEF RepliesAt, ReplyOf, Wrote, Block
<1> QED  BY <1>5, <1>6, <1>7, <1>8, <1>9 DEF StepAt

LEMMA Answers == Spec => [](BaseInv /\ ValueInv /\ StepInv)
<1>1. Init => StepInv
  <2> SUFFICES ASSUME Init  PROVE StepInv  OBVIOUS
  <2> USE DEF Init
  <2>1. Domains  BY DEF Domains
  <2>2. ASSUME NEW t \in Clients  PROVE StepAt(t)
    <3>1. AskedAt(t)  BY DEF AskedAt
    <3>2. WroteAt(t) /\ BroadcastAt(t)  BY DEF WroteAt, BroadcastAt
    <3>3. RepliesAt(t)
      <4>1. <<>> \in Seq({})  OBVIOUS
      <4> QED  BY <4>1 DEF RepliesAt
    <3>4. ResultAt(t)  BY DEF ResultAt
    <3> QED  BY <3>1, <3>2, <3>3, <3>4 DEF StepAt
  <2> QED  BY <2>1, <2>2 DEF StepInv
<1>2. BaseInv /\ ValueInv /\ StepInv /\ [Next]_vars => StepInv'
  <2> SUFFICES ASSUME BaseInv, ValueInv, StepInv, [Next]_vars  PROVE StepInv'  OBVIOUS
  <2>1. CASE UNCHANGED vars
    <3>1. Domains'  BY <2>1 DEF vars, taskVars, ghosts, StepInv, Domains
    <3>2. ASSUME NEW t \in Clients  PROVE StepAt(t)'
      <4>1. StepAt(t) /\ Same(t) /\ UNCHANGED debug  BY <2>1 DEF vars, taskVars, ghosts, StepInv, Same
      <4> QED  BY <4>1, OthersKeep
    <3> QED  BY <3>1, <3>2 DEF StepInv
  <2>2. CASE Next
    <3>1. PICK t \in Clients : Task(t) \/ \E c \in CallsOf[t] : Issue(t, c)
      BY <2>2 DEF Next
    <3>2. Domains' /\ UNCHANGED debug /\ \A s \in Clients \ {t} : Same(s)
      BY <3>1, Bystanders DEF StepInv
    <3>3. StepAt(t)'
      BY <3>1, StepIssue, StepAsk, StepAskCustom, StepLock, StepRead, StepWrite, StepFail, StepAnswer, StepReceive
         DEF Task
    <3>4. ASSUME NEW s \in Clients \ {t}  PROVE StepAt(s)'
      BY <3>2, OthersKeep DEF StepInv
    <3> QED  BY <3>2, <3>3, <3>4 DEF StepInv
  <2> QED  BY <2>1, <2>2
<1> QED  BY <1>1, <1>2, Atomicity, ValuesKept, PTL DEF Spec

LEMMA BlockSize ==
  ASSUME NEW r \in Requests
  PROVE  Cardinality(Block(r)) \in Nat /\ Cardinality(Block(r)) <= CountToWrite(r)
<1> DEFINE n == CountToWrite(r)
           f == [i \in 0 .. n - 1 |-> U16(r.wat + i)]
<1>1. n \in Nat  BY DEF CountToWrite, Requests
<1>2. Block(r) = {f[i] : i \in 0 .. n - 1}  BY DEF Block, CountToWrite
<1>3. IsFiniteSet(0 .. n - 1) /\ Cardinality(0 .. n - 1) = n
  <2>1. 0 \in Int /\ n - 1 \in Int /\ (IF 0 > n - 1 THEN 0 ELSE n - 1 - 0 + 1) = n  BY <1>1
  <2> HIDE DEF n
  <2> QED  BY <2>1, FS_Interval
<1>6. f \in Surjection(0 .. n - 1, Block(r))  BY <1>2 DEF Surjection
<1> HIDE DEF n, f
<1>4. IsFiniteSet(Block(r)) /\ Cardinality(Block(r)) <= n  BY <1>3, <1>6, FS_Surjection
<1>5. Cardinality(Block(r)) \in Nat  BY <1>4, FS_CardinalityType
<1> QED  BY <1>4, <1>5 DEF n

\* A write that its caller is told succeeded was made, whole and with the values sent, and
\* a broadcast in every model that accepts it: for any calls, others and models.
THEOREM SuccessIsTrue == Spec => []WritesAreMade
<1>1. BaseInv /\ ValueInv /\ StepInv => WritesAreMade
  <2> SUFFICES ASSUME BaseInv, ValueInv, StepInv, NEW t \in Clients, honest[t], req[t].fc \in Writes
               PROVE  WritesAreMade!(t)!2
    BY DEF WritesAreMade
  <2>0. AskedAt(t) /\ BroadcastAt(t) /\ RepliesAt(t) /\ ResultAt(t) /\ ValuesAt(t) /\ Arrived(req[t])
    BY DEF StepInv, StepAt, ValueInv
  <2>1. req[t] \in Requests  BY <2>0 DEF Arrived, NoCall, Writes
  <2>2. ASSUME result[t] = "ok"  PROVE req[t].unit \in Units /\ Wrote(t, req[t].unit)
    <3>1. /\ sent[t] # <<>> /\ Ours(t)
          /\ Outcome(MethodOf(call[t], debug), Head(sent[t])) = "ok"
      BY <2>0, <2>2 DEF ResultAt, Writes
    <3>2. Head(sent[t]).err = "none"
      <4>1. CheckUnitFc(MethodOf(call[t], debug), Head(sent[t]))  BY <3>1 DEF Outcome
      <4> QED  BY <4>1 DEF CheckUnitFc
    <3>3. Head(sent[t]) = sent[t][1] /\ 1 \in DOMAIN sent[t]  BY <2>0, <3>1 DEF RepliesAt
    <3>4. ReplyOf(t, sent[t][1])  BY <2>0, <3>3 DEF RepliesAt
    <3> QED  BY <3>2, <3>3, <3>4 DEF ReplyOf, Errors
  <2>3. ASSUME result[t] = "ok", req[t].fc # 22, NEW i \in 1 .. Cardinality(Block(req[t])),
               last[req[t].unit][Table(t, unit[t])][U16(req[t].wat + i - 1)] = t
        PROVE  store[req[t].unit][Table(t, unit[t])][U16(req[t].wat + i - 1)] = req[t].vals[i]
    <3>1. i \in Int /\ i - 1 \in Nat /\ i - 1 < CountToWrite(req[t]) /\ i - 1 + 1 = i
      <4>1. CountToWrite(req[t]) \in Nat  BY <2>1 DEF CountToWrite, Requests
      <4>2. Cardinality(Block(req[t])) \in Nat /\ Cardinality(Block(req[t])) <= CountToWrite(req[t])
        BY <2>1, BlockSize
      <4>3. ASSUME NEW k \in Nat, NEW n \in Nat, k <= n, NEW j \in 1 .. k
            PROVE  j \in Int /\ j - 1 \in Nat /\ j - 1 < n /\ j - 1 + 1 = j
        BY <4>3
      <4> QED  BY <2>3, <4>1, <4>2, <4>3
    <3>2. ElementOf(t, i - 1) = U16(req[t].wat + i - 1)
      <4>1. req[t].wat \in Int  BY <2>1, Numbers DEF Requests
      <4>2. req[t].wat + (i - 1) = req[t].wat + i - 1  BY <3>1, <4>1
      <4> QED  BY <4>2 DEF ElementOf
    <3>3. req[t].unit \in Units  BY <2>2, <2>3
    <3> QED  BY <2>0, <2>3, <3>1, <3>2, <3>3 DEF ValuesAt, Table
  <2>4. ASSUME pc[t] = "done", req[t].unit = 0, NEW u \in Units, HandlerOf(req[t], Ranges[u], debug) = "run"
        PROVE  Wrote(t, u)
    <3>1. todo[t] = {}  BY <2>0, <2>4 DEF AskedAt
    <3> QED  BY <2>0, <2>4, <3>1 DEF BroadcastAt
  <2> QED  BY <2>2, <2>3, <2>4
<1> QED  BY <1>1, Answers, PTL

\* The checks of the master fit what the slave answers, and keep the parser inside the
\* response whoever made it, for any limits and any widths of the integers.
THEOREM ChecksFit == Spec => []ChecksFitResponses
<1>1. BaseInv /\ ValueInv /\ StepInv => ChecksFitResponses
  <2> SUFFICES ASSUME BaseInv, ValueInv, StepInv, NEW t \in Clients  PROVE ChecksFitResponses!(t)
    BY DEF ChecksFitResponses
  <2>1. AskedAt(t) /\ RepliesAt(t) /\ ResultAt(t) /\ Arrived(req[t])
    BY DEF StepInv, StepAt, ValueInv
  <2>2. PICK m : m = MethodOf(call[t], debug)  OBVIOUS
  <2>3. ASSUME result[t] # "none", req[t].fc # 0  PROVE call[t] \in Calls /\ req[t] = m.pdu
    <3>1. pc[t] # "idle"  BY <2>1, <2>3 DEF ResultAt
    <3> QED  BY <2>1, <2>2, <2>3, <3>1 DEF ResultAt, Ours, AskedAt
  <2>4. ASSUME result[t] \notin {"none", "panic"}, honest[t], Head(sent[t]).err = "none"
        PROVE  result[t] = "ok" \/ (req[t].fc = 17 /\ Head(sent[t]).size < 2 + req[t].n)
    <3>1. req[t].fc # 0  BY <2>1, <2>4 DEF ResultAt
    <3>2. sent[t] # <<>> /\ result[t] = Outcome(m, Head(sent[t]))
      BY <2>1, <2>2, <2>4, <3>1 DEF ResultAt
    <3>3. PICK p : p = Head(sent[t])  OBVIOUS
    <3>4. ReplyOf(t, p)
      <4>1. Head(sent[t]) = sent[t][1] /\ 1 \in DOMAIN sent[t]  BY <2>1, <3>2 DEF RepliesAt
      <4> QED  BY <2>1, <3>3, <4>1 DEF RepliesAt
    <3>5. /\ GoodReply(m.pdu, p) /\ p.unit = m.pdu.unit /\ p.fc = m.pdu.fc /\ p.err = "none"
          /\ p.wat = m.pdu.wat /\ p.wn = m.pdu.wn
      BY <2>3, <2>4, <3>1, <3>3, <3>4 DEF ReplyOf, Errors
    <3>6. Outcome(m, p) = "ok" \/ (m.pdu.fc = 17 /\ p.size < 2 + m.pdu.n)
      BY <2>2, <2>3, <2>4, <3>1, <3>5, GoodRepliesPass
    <3> QED  BY <2>3, <2>4, <3>1, <3>2, <3>3, <3>6
  <2>5. ASSUME result[t] = "panic", req[t].fc # 0  PROVE 2 * call[t].n >= Word
    <3>1. PICK p : p.size \in Nat /\ result[t] = Outcome(m, p)  BY <2>1, <2>2, <2>5 DEF ResultAt
    <3> QED  BY <2>2, <2>3, <2>5, <3>1, OnlyOverflowPanics
  <2> QED  BY <2>4, <2>5
<1> QED  BY <1>1, Answers, PTL

\* Either side predicts the length of every frame the other side makes, for any limits.
THEOREM LengthsArePredicted == Spec => []FramesArePredicted
<1>1. BaseInv /\ ValueInv /\ StepInv => FramesArePredicted
  <2> SUFFICES ASSUME BaseInv, ValueInv, StepInv, NEW t \in Clients, req[t].fc \notin {0, Custom}
               PROVE  FramesArePredicted!(t)!2
    BY DEF FramesArePredicted
  <2>1. AskedAt(t) /\ RepliesAt(t) /\ Arrived(req[t])
    BY DEF StepInv, StepAt, ValueInv
  <2>2. req[t] \in Requests /\ req[t].fc \in Standard
    BY <2>1 DEF Arrived, NoCall
  <2>3. ASSUME req[t] = MethodOf(call[t], debug).pdu  PROVE PredictRequest(req[t]) = FrameLength(req[t])
    <3>1. PICK m : m = MethodOf(call[t], debug)  OBVIOUS
    <3>2. call[t] \in Calls  BY <2>1, <2>2 DEF AskedAt, NoCall
    <3> QED  BY <2>2, <2>3, <3>1, <3>2, RequestsPredicted
  <2>4. ASSUME NEW i \in DOMAIN sent[t], honest[t] \/ sent[t][i].err # "none"
        PROVE  PredictResponse(sent[t][i]) = FrameLength(sent[t][i])
    <3>1. PICK p : p = sent[t][i]  OBVIOUS
    <3>2. ReplyOf(t, p)  BY <2>1, <3>1 DEF RepliesAt
    <3>3. req[t].n \in Nat  BY <2>2 DEF Requests
    <3>4. p.fc = req[t].fc /\ ((p.err # "none" /\ p.size = 1) \/ (p.err = "none" /\ GoodReply(req[t], p)))
      BY <2>4, <3>1, <3>2 DEF ReplyOf, Errors
    <3> QED  BY <2>2, <3>1, <3>3, <3>4, RepliesPredicted
  <2> QED  BY <2>3, <2>4
<1> QED  BY <1>1, Answers, PTL
=============================================================================
