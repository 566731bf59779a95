------------------------- MODULE ModbusMasterProofs -------------------------
(***************************************************************************)
(* Theorems about ModbusMaster, for every set of callers and requests and  *)
(* every value of the other constants.                                     *)
(***************************************************************************)
EXTENDS ModbusMaster, FiniteSetTheorems, TLAPS

LEMMA HeadTail ==
  ASSUME NEW S, NEW s \in Seq(S), s # <<>>
  PROVE  Head(s) \in S /\ Tail(s) \in Seq(S)
OBVIOUS

LEMMA FifoKey == Fifo \in Keys
BY MasterAssumption DEF Fifo, Keys

\* allocate_tid stays within the ids, which are keys other than Fifo.
LEMMA TidTypes == \A t \in 1 .. MaxTid : t \in Keys /\ t # Fifo /\ NextTidAfter(t) \in 1 .. MaxTid
BY MasterAssumption DEF NextTidAfter, Keys, Fifo

\* What is sent on a one-shot channel, and what the channels hold afterwards.
LEMMA ResultTypes ==
  /\ Pending \in Results
  /\ \A why \in Reasons : Rejected(why) \in Results
  /\ \A m \in Messages : Frame(m) \in Results
BY DEF Pending, Rejected, Frame, Messages, Results

LEMMA MessageTypes ==
  /\ Responses \subseteq Messages
  /\ \A m \in Messages : \A k \in {m.kind, "exception"} :
       m.kind # "broadcast" => [m EXCEPT !.kind = k] \in Responses
BY DEF Messages, Responses

LEMMA RequestType ==
  ASSUME TypeOK, Numbering, NEW c \in Callers, pc[c] # "idle"
  PROVE  Request(c) \in Messages
<1>1. cur[c] \in Calls /\ key[c] \in Keys /\ kind[c] \in Requests
  BY DEF TypeOK, Numbering
<1> QED BY <1>1 DEF Request, Messages

LEMMA ResolvedType ==
  ASSUME TypeOK, NEW W, NEW r \in Results
  PROVE  Resolved(W, r) \in [Callers -> Results]
BY DEF TypeOK, Resolved

LEMMA ReturnType ==
  ASSUME TypeOK, NEW c \in Callers, Return(c)
  PROVE  /\ pc' \in [Callers -> Steps] /\ cur' \in [Callers -> Calls \cup {NoCall}]
         /\ kind' \in [Callers -> Requests] /\ key' \in [Callers -> Keys]
BY FifoKey DEF TypeOK, Return, Goto, Steps, Requests

-----------------------------------------------------------------------------
(* Type correctness, with the numbering of calls it depends on *)

LEMMA CallerType ==
  ASSUME UNCHANGED <<mode, link>>, TypeOK, Numbering, NEW c \in Callers, Caller(c)
  PROVE  TypeOK'
<1> USE DEF callerVars, sessionVars, adminVars, portVars, linkVars, chanVars, Goto, Steps
<1>1. CASE Acquire(c)  BY <1>1 DEF Acquire, TypeOK
<1>2. CASE Recheck(c)
  <2>1. CASE Return(c)  BY <1>2, <2>1, ReturnType DEF Recheck, TypeOK
  <2>2. CASE ~Return(c)  BY <1>2, <2>2 DEF Recheck, TypeOK
  <2> QED BY <2>1, <2>2
<1>3. CASE Prepare(c)
  <2>1. framer' \in Buffers
    BY <1>3 DEF Prepare, Flush, Buffers, TypeOK
  <2>2. key' \in [Callers -> Keys] /\ nextTid' \in 1 .. MaxTid
    BY <1>3, FifoKey, TidTypes DEF Prepare, TypeOK
  <2> QED BY <1>3, <2>1, <2>2 DEF Prepare, TypeOK
<1>4. CASE Arm(c)
  <2>1. rx' \in [Callers -> Results]
    BY <1>4, ResolvedType, ResultTypes DEF Arm, Reasons
  <2> QED BY <1>4, <2>1 DEF Arm, TypeOK
<1>5. CASE Write(c)  BY <1>5 DEF Write, TypeOK
<1>6. CASE Receive(c)  BY <1>6, ReturnType, ResultTypes DEF Receive, TypeOK
<1>7. CASE Timeout(c)  BY <1>7 DEF Timeout, TypeOK
<1>8. CASE Stop(c)
  <2>1. rx' \in [Callers -> Results]
    BY <1>8, ResolvedType, ResultTypes DEF Stop, Reasons
  <2> QED BY <1>8, <2>1, ReturnType DEF Stop, TypeOK
<1>9. CASE Send(c)
  <2>1. Request(c) \in Messages  BY <1>9, RequestType DEF Send
  <2> QED BY <1>9, <2>1 DEF Send, TypeOK
<1>10. CASE Panic(c)  BY <1>10, ReturnType, ResultTypes DEF Panic, TypeOK
<1>11. CASE Cancel(c)
  <2>1. Request(c) \in Messages  BY <1>11, RequestType DEF Cancel
  <2>2. detached' \subseteq Messages  BY <1>11, <2>1 DEF Cancel, TypeOK
  <2> QED BY <1>11, <2>2, ReturnType, ResultTypes DEF Cancel, TypeOK
<1> QED
  BY <1>1, <1>2, <1>3, <1>4, <1>5, <1>6, <1>7, <1>8, <1>9, <1>10, <1>11 DEF Caller, Prompt

LEMMA CallType ==
  ASSUME UNCHANGED <<mode, link>>, TypeOK, NEW c \in Callers, NEW k \in Requests, Call(c, k)
  PROVE  TypeOK'
<1>1. begun' \in 0 .. MaxCalls /\ cur' \in [Callers -> Calls \cup {NoCall}]
  BY MasterAssumption DEF Call, TypeOK, Calls
<1> QED BY <1>1 DEF Call, Goto, Steps, TypeOK, sessionVars, adminVars, portVars, linkVars, chanVars

\* The two receive loops.
LEMMA SessionType ==
  ASSUME UNCHANGED <<mode, link>>, TypeOK, HandleFrame \/ HandleError
  PROVE  TypeOK'
<1> USE DEF adminVars, portVars, linkVars
<1>1. CASE HandleFrame
  <2>1. Head(frames) \in Messages /\ frames' \in Seq(Responses)
    BY <1>1, HeadTail, MessageTypes DEF HandleFrame, TypeOK
  <2>2. rx' \in [Callers -> Results]
    BY <1>1, <2>1, ResolvedType, ResultTypes DEF HandleFrame, Dispatch, Reasons
  <2>3. waiters' \in [Keys -> Calls \cup {NoCall}]
    BY <1>1 DEF HandleFrame, Dispatch, TypeOK
  <2> QED BY <1>1, <2>1, <2>2, <2>3 DEF HandleFrame, TypeOK
<1>2. CASE HandleError
  <2>1. rx' \in [Callers -> Results]
    BY <1>2, ResolvedType, ResultTypes DEF HandleError, StopAll, Reasons
  <2>2. errors' \in 0 .. ChanCap
    BY <1>2, MasterAssumption DEF HandleError, TypeOK
  <2> QED BY <1>2, <2>1, <2>2 DEF HandleError, StopAll, TypeOK
<1> QED BY <1>1, <1>2

LEMMA AdministratorType ==
  ASSUME UNCHANGED <<mode, link>>, TypeOK, Administrator
  PROVE  TypeOK'
<1> USE DEF callerVars, sessionVars, adminVars, portVars, linkVars, chanVars, Admin, AdmSteps
<1>1. ASSUME StopAll("closed") PROVE rx' \in [Callers -> Results] /\ waiters' \in [Keys -> Calls \cup {NoCall}]
  BY <1>1, ResolvedType, ResultTypes DEF StopAll, Reasons
<1>2. CASE Close  BY <1>1, <1>2 DEF Close, TypeOK
<1>3. CASE Destroy  BY <1>1, <1>3 DEF Destroy, TypeOK
<1>4. CASE StoreLevel  BY <1>4 DEF StoreLevel, TypeOK
<1>5. CASE AbortTasks  BY <1>5 DEF AbortTasks, TypeOK
<1>6. CASE ClosePort  BY <1>6 DEF ClosePort, Disconnect, ClearLink, Buffers, TypeOK
<1>7. CASE Open  BY <1>7, MasterAssumption DEF Open, TypeOK
<1>8. CASE ResetTid  BY <1>8, MasterAssumption DEF ResetTid, TypeOK
<1>9. CASE OpenPort  BY <1>9 DEF OpenPort, ClearLink, TypeOK
<1> QED BY <1>2, <1>3, <1>4, <1>5, <1>6, <1>7, <1>8, <1>9 DEF Administrator

LEMMA EnvironmentType ==
  ASSUME UNCHANGED <<mode, link>>, TypeOK, Environment
  PROVE  TypeOK'
<1> USE DEF callerVars, sessionVars, adminVars, portVars, chanVars
<1>1. CASE PortLost  BY <1>1 DEF PortLost, Disconnect, ClearLink, Buffers, TypeOK
<1>2. CASE ReceiveTail
  <2>1. frames' \in Seq(Responses)
    <3>1. CASE framer \in Responses /\ Publish(framer)
      <4>1. (IF Len(frames) = ChanCap THEN Tail(frames) ELSE frames) \in Seq(Responses)
        BY MasterAssumption, HeadTail DEF TypeOK
      <4> QED BY <3>1, <4>1 DEF Publish
    <3>2. CASE UNCHANGED frames  BY <3>2 DEF TypeOK
    <3> QED BY <1>2, <3>1, <3>2 DEF ReceiveTail, TypeOK, Buffers
  <2>2. errors' \in 0 .. ChanCap
    BY <1>2, MasterAssumption DEF ReceiveTail, PublishError, TypeOK
  <2> QED BY <1>2, <2>1, <2>2 DEF ReceiveTail, Buffers, TypeOK
<1>3. ASSUME NEW m \in atSlave, Answer(m)  PROVE TypeOK'
  <2>1. m \in Messages  BY DEF TypeOK
  <2>2. wire' \subseteq Responses  BY <1>3, <2>1, MessageTypes DEF Answer, TypeOK
  <2> QED BY <1>3, <2>2 DEF Answer, TypeOK
<1>4. ASSUME NEW m \in wire, ReceiveHead(m)  PROVE TypeOK'
  BY <1>4 DEF ReceiveHead, Buffers, TypeOK
<1>5. ASSUME NEW m \in wire, Lose(m)  PROVE TypeOK'
  BY <1>5 DEF Lose, TypeOK
<1>6. ASSUME NEW m \in detached, DetachedWrite(m)  PROVE TypeOK'
  BY <1>6 DEF DetachedWrite, TypeOK
<1> QED BY <1>1, <1>2, <1>3, <1>4, <1>5, <1>6 DEF Environment

LEMMA NumberingStep ==
  ASSUME TypeOK, Numbering, [Next]_vars
  PROVE  Numbering'
<1> USE DEF callerVars, sessionVars, adminVars, portVars, linkVars, chanVars
<1>1. ASSUME NEW c \in Callers, NEW k \in Requests, Call(c, k)  PROVE Numbering'
  <2>1. \A d \in Callers : cur[d] \in Nat /\ begun \in Nat
    BY MasterAssumption DEF TypeOK, Calls, NoCall
  <2> QED BY <1>1, <2>1 DEF Call, Goto, Numbering, TypeOK, NoCall
<1>2. ASSUME NEW c \in Callers, Return(c), begun' = begun  PROVE Numbering'
  <2>1. \A d \in Callers : cur[d] \in Nat /\ begun \in Nat
    BY MasterAssumption DEF TypeOK, Calls, NoCall
  <2> QED BY <1>2, <2>1 DEF Return, Goto, Numbering, TypeOK, NoCall
<1>3. ASSUME NEW c \in Callers, NEW step \in Steps \ {"idle"}, Goto(c, step), pc[c] # "idle",
             UNCHANGED <<begun, cur>>
      PROVE  Numbering'
  BY <1>3 DEF Goto, Numbering, TypeOK
<1>4. ASSUME UNCHANGED <<pc, begun, cur>>  PROVE Numbering'
  BY <1>4 DEF Numbering
<1>5. ASSUME NEW c \in Callers, Caller(c)  PROVE Numbering'
  <2>1. CASE Acquire(c)  BY <2>1, <1>3 DEF Acquire, Steps
  <2>2. CASE Recheck(c)  BY <2>2, <1>2, <1>3 DEF Recheck, Steps
  <2>3. CASE Prepare(c)  BY <2>3, <1>3 DEF Prepare, Steps
  <2>4. CASE Arm(c)  BY <2>4, <1>3 DEF Arm, Steps
  <2>5. CASE Write(c)  BY <2>5, <1>3 DEF Write, Steps
  <2>6. CASE Receive(c)  BY <2>6, <1>2 DEF Receive
  <2>7. CASE Timeout(c)  BY <2>7, <1>3 DEF Timeout, Steps
  <2>8. CASE Stop(c)  BY <2>8, <1>2 DEF Stop
  <2>9. CASE Cancel(c)  BY <2>9, <1>2 DEF Cancel
  <2>10. CASE Send(c)  BY <2>10, <1>3 DEF Send, Steps
  <2>11. CASE Panic(c)  BY <2>11, <1>2 DEF Panic
  <2> QED
    BY <1>5, <2>1, <2>2, <2>3, <2>4, <2>5, <2>6, <2>7, <2>8, <2>9, <2>10, <2>11 DEF Caller, Prompt
<1>6. CASE HandleFrame \/ HandleError  BY <1>4, <1>6 DEF HandleFrame, HandleError
<1>7. CASE Administrator
  BY <1>4, <1>7 DEF Administrator, Close, Destroy, StoreLevel, AbortTasks, ClosePort, Open, ResetTid, OpenPort
<1>8. CASE Environment
  BY <1>4, <1>8 DEF Environment, PortLost, ReceiveTail, DetachedWrite, Answer, ReceiveHead, Lose
<1>9. CASE UNCHANGED vars  BY <1>4, <1>9 DEF vars
<1> QED BY <1>1, <1>5, <1>6, <1>7, <1>8, <1>9 DEF Next, Step

\* The steps above together.
LEMMA TypeStep ==
  ASSUME TypeOK, Numbering, [Next]_vars
  PROVE  TypeOK'
<1>1. CASE UNCHANGED vars
  BY <1>1 DEF TypeOK, vars, callerVars, sessionVars, adminVars, portVars, linkVars, chanVars
<1>2. CASE Next
  BY <1>2, CallerType, CallType, SessionType, AdministratorType, EnvironmentType DEF Next, Step
<1> QED BY <1>1, <1>2

\* Every variable keeps its type, and no two callers are ever in the same call.
THEOREM TypeCorrect == Spec => [](TypeOK /\ Numbering)
<1>1. Init => TypeOK /\ Numbering
  BY MasterAssumption, FifoKey, ResultTypes
  DEF Init, TypeOK, Numbering, NoCall, Steps, AdmSteps, Requests, Buffers
<1>2. TypeOK /\ Numbering /\ [Next]_vars => TypeOK' /\ Numbering'
  BY TypeStep, NumberingStep
<1> QED BY <1>1, <1>2, PTL DEF Spec

-----------------------------------------------------------------------------
(* Nobody waits for a waiter that is gone *)

\* What is sent differs from what an unresolved receiver holds.
LEMMA NotPending ==
  /\ \A why \in Reasons : Rejected(why) # Pending
  /\ \A m \in Messages : Frame(m) # Pending
BY DEF Rejected, Frame, Pending, Reasons

LEMMA AwaitingStep ==
  ASSUME TypeOK, Numbering, AwaitingIsArmed, [Next]_vars
  PROVE  AwaitingIsArmed'
<1> SUFFICES ASSUME NEW c \in Callers, Listening(c)'
             PROVE  waiters'[key'[c]] = cur'[c]
  BY DEF AwaitingIsArmed
<1> USE DEF callerVars, sessionVars, adminVars, portVars, linkVars, chanVars
\* Steps that leave c's locals alone.
<1> DEFINE Same == pc'[c] = pc[c] /\ cur'[c] = cur[c] /\ key'[c] = key[c]
<1>1. ASSUME Same, rx' = rx, waiters' = waiters
      PROVE  waiters'[key'[c]] = cur'[c]
  BY <1>1 DEF AwaitingIsArmed, Listening
<1>2. ASSUME Same, NEW ks \in SUBSET Keys, NEW r \in Results, r # Pending,
             rx'[c] = Resolved({waiters[k] : k \in ks}, r)[c],
             \A k \in Keys \ ks : waiters'[k] = waiters[k]
      PROVE  waiters'[key'[c]] = cur'[c]
  <2>1. Listening(c) /\ cur[c] \notin {waiters[k] : k \in ks}
    BY <1>2 DEF Resolved, Listening
  <2>2. waiters[key[c]] = cur[c] /\ key[c] \in Keys
    BY <2>1 DEF AwaitingIsArmed, TypeOK
  <2> QED BY <1>2, <2>1, <2>2
<1>3. ASSUME Same, NEW why \in {"closed", "framing"}, StopAll(why)
      PROVE  waiters'[key'[c]] = cur'[c]
  BY <1>2, <1>3, ResultTypes, NotPending DEF StopAll, Reasons
<1>4. ASSUME NEW d \in Callers, d # c, Caller(d)
      PROVE  waiters'[key'[c]] = cur'[c]
  <2>1. Same
    BY <1>4 DEF Caller, Prompt, Acquire, Recheck, Prepare, Arm, Write, Send, Panic, Receive, Timeout, Stop,
        Cancel, Return, Goto, TypeOK
  <2>2. CASE Arm(d) \/ Stop(d)
    <3>1. key[d] \in Keys /\ Rejected("dropped") \in Results /\ Rejected("dropped") # Pending
      BY ResultTypes, NotPending DEF TypeOK, Reasons
    <3>2. /\ \A k \in Keys \ {key[d]} : waiters'[k] = waiters[k]
          /\ rx'[c] = Resolved({waiters[k] : k \in {key[d]}}, Rejected("dropped"))[c]
      <4>1. {waiters[k] : k \in {key[d]}} = {waiters[key[d]]}  OBVIOUS
      <4> QED BY <1>4, <2>2, <4>1 DEF Arm, Stop, TypeOK, Resolved
    <3> HIDE DEF Same
    <3> QED BY <1>2, <2>1, <3>1, <3>2
  <2>3. CASE ~(Arm(d) \/ Stop(d))
    <3>1. rx'[c] = rx[c] /\ waiters' = waiters
      BY <1>4, <2>3 DEF Caller, Prompt, Send, Panic, Cancel, Acquire, Recheck, Prepare, Write, Receive, Timeout, TypeOK
    <3> QED BY <2>1, <3>1 DEF AwaitingIsArmed, Listening
  <2> QED BY <2>2, <2>3
<1>5. ASSUME Caller(c)
      PROVE  waiters'[key'[c]] = cur'[c]
  <2>1. CASE Arm(c)  BY <2>1 DEF Arm, TypeOK
  <2>2. CASE Write(c) \/ Send(c)  BY <2>2 DEF Write, Send, Goto, AwaitingIsArmed, Listening, TypeOK
  <2>3. CASE ~(Arm(c) \/ Write(c) \/ Send(c))
    BY <1>5, <2>3
    DEF Caller, Prompt, Panic, Cancel, Acquire, Recheck, Prepare, Receive, Timeout, Stop, Return, Goto, TypeOK,
        Listening
  <2> QED BY <2>1, <2>2, <2>3
<1>6. ASSUME NEW d \in Callers, NEW k \in Requests, Call(d, k)
      PROVE  waiters'[key'[c]] = cur'[c]
  <2>1. c # d  BY <1>6 DEF Call, Goto, TypeOK, Listening
  <2> QED BY <1>1, <1>6, <2>1 DEF Call, Goto, TypeOK
<1>7. CASE HandleFrame
  <2> DEFINE m == Head(frames)
             r == IF PreChecks(m, waiters[m.key]) THEN Frame(m) ELSE Rejected("precheck")
  <2>1. m \in Messages  BY <1>7, HeadTail, MessageTypes DEF HandleFrame, TypeOK
  <2>2. m.key \in Keys /\ r \in Results /\ r # Pending
    BY <2>1, ResultTypes, NotPending DEF Messages, Reasons
  <2>3. {waiters[k] : k \in {m.key}} = {waiters[m.key]}  OBVIOUS
  <2>4. /\ rx' = Resolved({waiters[k] : k \in {m.key}}, r)
        /\ \A k \in Keys \ {m.key} : waiters'[k] = waiters[k]
        /\ Same
    BY <1>7, <2>3 DEF HandleFrame, Dispatch, TypeOK
  <2> HIDE DEF r, m, Same
  <2> QED BY <1>2, <2>2, <2>4
<1>8. CASE HandleError  BY <1>3, <1>8 DEF HandleError
<1>9. CASE Administrator
  <2>1. Same
    BY <1>9 DEF Administrator, Close, Destroy, StoreLevel, AbortTasks, ClosePort, Open, ResetTid, OpenPort
  <2>2. CASE StopAll("closed")  BY <1>3, <2>1, <2>2
  <2>3. CASE ~StopAll("closed")
    BY <1>1, <1>9, <2>1, <2>3
    DEF Administrator, Close, Destroy, StoreLevel, AbortTasks, ClosePort, Open, ResetTid, OpenPort
  <2> QED BY <2>2, <2>3
<1>10. CASE Environment
  BY <1>1, <1>10 DEF Environment, PortLost, ReceiveTail, DetachedWrite, Answer, ReceiveHead, Lose
<1>11. CASE UNCHANGED vars  BY <1>1, <1>11 DEF vars
<1> QED BY <1>4, <1>5, <1>6, <1>7, <1>8, <1>9, <1>10, <1>11 DEF Next, Step

\* A call that still listens is armed under its own key, whatever other calls,
\* the receive loops and close() do: nobody waits for an answer that cannot come.
THEOREM NobodyWaitsUnarmed == Spec => []AwaitingIsArmed
<1>1. Init => AwaitingIsArmed  BY DEF Init, AwaitingIsArmed, Listening
<1>2. TypeOK /\ Numbering /\ AwaitingIsArmed /\ [Next]_vars => AwaitingIsArmed'
  BY AwaitingStep
<1> QED BY <1>1, <1>2, TypeCorrect, PTL DEF Spec

-----------------------------------------------------------------------------
(* A closed master is silent *)

\* Until open() is called, a master that was closed or destroyed has no port or is
\* about to give it up; open() has lifted the mark before it opens one.
QuietInv ==
  /\ adm = "idle" /\ level >= 1 => ~port
  /\ adm \in {"reset_tid", "port_open"} => level = 0

Quiet ==
  /\ \A c \in Callers : pc'[c] = "sending" => pc[c] = "sending"
  /\ link # "udp" /\ ~writer => atSlave' \subseteq atSlave

LEMMA QuietStep ==
  ASSUME TypeOK, QuietInv, [Next]_vars
  PROVE  QuietInv' /\ (adm = "idle" /\ level >= 1 => Quiet)
<1> SUFFICES QuietInv' /\ (~port => Quiet)
  BY DEF QuietInv
<1> USE DEF callerVars, sessionVars, adminVars, portVars, linkVars
<1>1. ASSUME NEW c \in Callers, Caller(c)
      PROVE  UNCHANGED <<adm, level, port>> /\ (~port => Quiet)
  <2>1. UNCHANGED <<adm, level, port>>
    BY <1>1 DEF Caller, Prompt, Acquire, Recheck, Prepare, Arm, Write, Send, Panic, Receive, Timeout, Stop, Cancel
  <2>2. ASSUME ~port, NEW d \in Callers, pc'[d] = "sending"  PROVE pc[d] = "sending"
    BY <1>1, <2>2
    DEF Caller, Prompt, Acquire, Recheck, Prepare, Arm, Write, Send, Panic, Receive, Timeout, Stop, Cancel,
        Return, Goto, TypeOK
  <2>3. link # "udp" /\ ~writer => atSlave' = atSlave
    BY <1>1 DEF Caller, Prompt, Acquire, Recheck, Prepare, Arm, Write, Send, Panic, Receive, Timeout, Stop, Cancel
  <2> QED BY <2>1, <2>2, <2>3 DEF Quiet
<1>2. ASSUME NEW c \in Callers, NEW k \in Requests, Call(c, k)
      PROVE  UNCHANGED <<adm, level, port>> /\ Quiet
  BY <1>2 DEF Call, Goto, Quiet, TypeOK
<1>3. ASSUME pc' = pc, link # "udp" /\ ~writer => atSlave' \subseteq atSlave  PROVE Quiet
  BY <1>3 DEF Quiet
<1>4. CASE HandleFrame \/ HandleError
  BY <1>3, <1>4 DEF HandleFrame, HandleError, QuietInv
<1>5. CASE Administrator
  <2>1. CASE Close \/ Destroy \/ StoreLevel \/ AbortTasks
    <3>1. /\ port' = port /\ atSlave' = atSlave /\ pc' = pc
          /\ adm' \in {"close_store", "destroy_store", "port_close", "abort"}
      BY <2>1 DEF Close, Destroy, StoreLevel, AbortTasks, Admin
    <3> QED BY <1>3, <3>1 DEF QuietInv
  <2>2. CASE ClosePort
    BY <1>3, <2>2 DEF ClosePort, Disconnect, ClearLink, Admin, QuietInv, TypeOK
  <2>3. CASE Open \/ ResetTid \/ OpenPort
    <3>1. level' = 0 /\ pc' = pc /\ atSlave' \subseteq atSlave
      BY <2>3 DEF Open, ResetTid, OpenPort, ClearLink, QuietInv
    <3> QED BY <1>3, <3>1 DEF QuietInv
  <2> QED BY <1>5, <2>1, <2>2, <2>3 DEF Administrator
<1>6. CASE Environment
  <2>1. UNCHANGED <<adm, level, pc>> /\ (port' = port \/ port' = FALSE)
    BY <1>6 DEF Environment, PortLost, Disconnect, ReceiveTail, DetachedWrite, Answer, ReceiveHead, Lose
  <2>2. ~writer => atSlave' \subseteq atSlave
    BY <1>6
    DEF Environment, PortLost, Disconnect, ClearLink, ReceiveTail, DetachedWrite, Answer, ReceiveHead, Lose
  <2> QED BY <1>3, <2>1, <2>2 DEF QuietInv
<1>7. CASE UNCHANGED vars
  BY <1>3, <1>7 DEF vars, QuietInv
<1>8. CASE \E c \in Callers : Caller(c) \/ \E k \in Requests : Call(c, k)
  <2>1. UNCHANGED <<adm, level, port>> /\ (~port => Quiet)
    BY <1>1, <1>2, <1>8
  <2> QED BY <2>1 DEF QuietInv
<1> QED BY <1>4, <1>5, <1>6, <1>7, <1>8 DEF Next, Step

\* After close() or destroy() has returned, and until open() is called, no call begins to
\* write, however many were under way; and without a handle nothing reaches the wire of
\* TCP or serial, neither from calls that had begun to write nor from dropped ones.
THEOREM ClosedMasterIsQuiet == Spec => ClosedIsQuiet
<1>1. Init => QuietInv
  BY DEF Init, QuietInv
<1>2. TypeOK /\ QuietInv /\ [Next]_vars => QuietInv'
  BY QuietStep
<1>3. TypeOK /\ QuietInv /\ [Next]_vars => [adm = "idle" /\ level >= 1 => Quiet]_vars
  BY QuietStep
<1>4. [adm = "idle" /\ level >= 1 => Quiet]_vars =>
        [adm = "idle" /\ level >= 1 =>
           /\ \A c \in Callers : pc'[c] = "sending" => pc[c] = "sending"
           /\ link # "udp" /\ ~writer => atSlave' \subseteq atSlave]_vars
  BY DEF Quiet
<1> QED BY <1>1, <1>2, <1>3, <1>4, TypeCorrect, PTL DEF Spec, ClosedIsQuiet

-----------------------------------------------------------------------------
(* Whose waiter, whose response *)

\* Where a call stands: before it has a key, from then on, and once it is armed.
Early == {"queued", "recheck", "prepare"}
Armed == {"write", "sending", "wait", "stop"}
Keyed == {"arm"} \cup Armed

\* The messages on their way, wherever they are.
Framed == {frames[i] : i \in DOMAIN frames}
Buffered == {framer} \cap Messages
Carried == detached \cup atSlave \cup wire \cup Framed \cup Buffered

\* A receiver is there for an armed call only, and a waiter is that of a call which
\* still has it under its key or has returned.
WaiterInv ==
  /\ \A c \in Callers : pc[c] \notin Armed => rx[c] = Pending
  /\ \A k \in Keys : waiters[k] <= begun
  /\ \A k \in Keys, c \in Callers :
       waiters[k] = cur[c] /\ cur[c] # NoCall => pc[c] \in Armed /\ key[c] = k

\* A call has one message at most, and none before its request was written or it
\* was dropped.
OneEach ==
  /\ \A m, n \in detached : m.call = n.call => m = n
  /\ \A m \in detached, n \in atSlave \cup wire \cup Framed \cup Buffered : m.call # n.call
  /\ \A m, n \in atSlave : m.call = n.call => m = n
  /\ \A m, n \in wire : m.call = n.call => m = n
  /\ \A i, j \in DOMAIN frames : frames[i].call = frames[j].call => i = j
  /\ \A m \in atSlave, n \in wire \cup Framed \cup Buffered : m.call # n.call
  /\ \A m \in wire, n \in Framed \cup Buffered : m.call # n.call
  /\ \A m \in Framed, n \in Buffered : m.call # n.call

TransitInv ==
  /\ OneEach
  /\ \A m \in Carried : m.call <= begun
  /\ \A m \in Carried, c \in Callers : cur[c] = m.call => pc[c] \in {"wait", "stop"}

\* In FIFO mode one call is past the queue lock, and it came before those that queue.
TurnInv ==
  /\ \A c, d \in Callers : {pc[c], pc[d]} \cap {"idle", "queued"} = {} => c = d
  /\ \A c, d \in Callers : pc[c] \notin {"idle", "queued"} /\ pc[d] = "queued" => cur[c] < cur[d]

\* The calls that have no transaction id yet.
Unnumbered == {cur[c] : c \in {d \in Callers : pc[d] \in Early}}
Unicast(c) == pc[c] \in Keyed /\ kind[c] # "broadcast"

\* Over TCP an id tells a caller's call from all others, as long as the counter has
\* not wrapped: it counts the ids given, and never passes the calls begun ...
IdsGiven ==
  /\ adm # "reset_tid"
  /\ Cardinality(Unnumbered) + nextTid <= begun + 1
  /\ \A c \in Callers : pc[c] \in Keyed =>
       IF kind[c] = "broadcast" THEN key[c] = Fifo ELSE key[c] \in 1 .. nextTid - 1
  /\ \A c, d \in Callers : Unicast(c) /\ Unicast(d) /\ key[c] = key[d] => c = d

\* ... and so it does for messages.
IdInv ==
  /\ IdsGiven
  /\ \A m \in Carried : IF m.kind = "broadcast" THEN m.key = Fifo ELSE m.key \in 1 .. nextTid - 1
  /\ \A m \in Carried, c \in Callers : Unicast(c) /\ m.key = key[c] => m.call = cur[c]

ServiceInv ==
  /\ WaiterInv /\ TransitInv
  /\ ~Concurrent => TurnInv
  /\ Tcp => IdInv

\* No more calls than the counter can number, and no open() to reset it.
FewCalls == MaxCalls < MaxTid /\ MaxOpens = 0

LEMMA Numbers ==
  ASSUME TypeOK
  PROVE  /\ begun \in Nat /\ NoCall \in Nat
         /\ \A c \in Callers : cur[c] \in Nat
         /\ \A k \in Keys : waiters[k] \in Nat
BY MasterAssumption DEF TypeOK, Calls, NoCall

LEMMA WaiterStep ==
  ASSUME TypeOK, Numbering, WaiterInv, [Next]_vars
  PROVE  WaiterInv'
<1> USE Numbers DEF callerVars, sessionVars, adminVars, portVars, linkVars, chanVars, Goto
\* Waiters go, and whoever listens to one is told.
<1>1. ASSUME UNCHANGED <<pc, begun, cur, key>>,
             waiters' \in [Keys -> Calls \cup {NoCall}], \A k \in Keys : waiters'[k] \in {waiters[k], NoCall},
             rx' \in [Callers -> Results], \A c \in Callers : rx'[c] = rx[c] \/ pc[c] \in Armed
      PROVE  WaiterInv'
  BY <1>1 DEF WaiterInv, NoCall
<1>2. ASSUME UNCHANGED <<pc, begun, cur, key>>, NEW why \in {"closed", "framing"}, StopAll(why)
      PROVE  WaiterInv'
  BY <1>1, <1>2, ResolvedType, ResultTypes DEF StopAll, Resolved, Listening, Armed, Reasons
<1>3. ASSUME NEW c \in Callers, Return(c), UNCHANGED <<begun, waiters>>,
             \A d \in Callers \ {c} : rx'[d] = rx[d], rx'[c] = Pending
      PROVE  WaiterInv'
  BY <1>3 DEF Return, WaiterInv, TypeOK, Armed
<1>4. ASSUME NEW c \in Callers, NEW step \in Steps, Goto(c, step), UNCHANGED <<begun, cur, waiters, rx>>,
             \A d \in Callers \ {c} : key'[d] = key[d],
             pc[c] \notin Armed \/ (step \in Armed /\ key'[c] = key[c])
      PROVE  WaiterInv'
  BY <1>4 DEF WaiterInv, TypeOK
<1>5. ASSUME NEW c \in Callers, NEW k \in Requests, Call(c, k)  PROVE WaiterInv'
  <2>1. pc[c] = "idle" /\ cur[c] = NoCall  BY <1>5 DEF Call, Numbering
  <2>2. /\ begun' = begun + 1 /\ UNCHANGED <<waiters, rx, key>>
        /\ cur' = [cur EXCEPT ![c] = begun + 1]
        /\ pc' = [pc EXCEPT ![c] = IF Concurrent THEN "recheck" ELSE "queued"]
    BY <1>5 DEF Call
  <2> QED BY <2>1, <2>2 DEF WaiterInv, TypeOK, Armed
<1>6. ASSUME NEW c \in Callers, Arm(c)  PROVE WaiterInv'
  <2>1. \A d \in Callers \ {c} : rx'[d] = rx[d] \/ pc[d] \in Armed
    BY <1>6 DEF Arm, Resolved, Listening, Armed
  <2>2. /\ waiters' = [waiters EXCEPT ![key[c]] = cur[c]] /\ key[c] \in Keys
        /\ pc[c] = "arm" /\ pc' = [pc EXCEPT ![c] = "write"] /\ UNCHANGED <<begun, cur, key>>
    BY <1>6 DEF Arm, TypeOK
  <2>3. \A d \in Callers : pc'[d] \notin Armed => rx'[d] = Pending
    BY <2>1, <2>2 DEF WaiterInv, Armed, TypeOK
  <2>4. \A k \in Keys : waiters'[k] <= begun
    BY <2>2 DEF WaiterInv, Numbering, TypeOK
  <2>5. ASSUME NEW k \in Keys, NEW d \in Callers, waiters'[k] = cur[d], cur[d] # NoCall
        PROVE  pc'[d] \in Armed /\ key[d] = k
    <3>1. CASE k = key[c]  BY <2>2, <2>5, <3>1 DEF Numbering, TypeOK, Armed
    <3>2. CASE k # key[c]
      <4>1. waiters[k] = cur[d]  BY <2>2, <2>5, <3>2 DEF TypeOK
      <4> QED BY <2>2, <2>5, <4>1 DEF WaiterInv, TypeOK, Armed
    <3> QED BY <3>1, <3>2
  <2> QED BY <2>2, <2>3, <2>4, <2>5 DEF WaiterInv
<1>7. ASSUME NEW c \in Callers, Stop(c)  PROVE WaiterInv'
  <2>1. \A d \in Callers \ {c} : rx'[d] = rx[d] \/ pc[d] \in Armed
    BY <1>7 DEF Stop, Resolved, Listening, Armed
  <2>2. /\ waiters' = [waiters EXCEPT ![key[c]] = NoCall] /\ begun' = begun /\ key[c] \in Keys
        /\ pc' = [pc EXCEPT ![c] = "idle"] /\ cur' = [cur EXCEPT ![c] = NoCall]
        /\ key' = [key EXCEPT ![c] = Fifo]
    BY <1>7 DEF Stop, Return, TypeOK
  <2>3. rx'[c] = Pending  BY <1>7, ResolvedType, ResultTypes DEF Stop, Reasons
  <2>4. \A k \in Keys : waiters'[k] = waiters[k] \/ waiters'[k] = NoCall  BY <2>2 DEF TypeOK
  <2> QED BY <2>1, <2>2, <2>3, <2>4 DEF WaiterInv, TypeOK, NoCall
<1>8. ASSUME NEW c \in Callers, Caller(c)  PROVE WaiterInv'
  <2>1. CASE Acquire(c)  BY <2>1, <1>4 DEF Acquire, Armed, Steps
  <2>2. CASE Recheck(c)
    <3>1. rx[c] = Pending  BY <2>2 DEF Recheck, WaiterInv, Armed
    <3> QED BY <2>2, <3>1, <1>3, <1>4 DEF Recheck, Armed, Steps
  <2>3. CASE Prepare(c)
    <3>1. \A d \in Callers \ {c} : key'[d] = key[d]  BY <2>3 DEF Prepare, TypeOK
    <3> QED BY <2>3, <3>1, <1>4 DEF Prepare, Armed, Steps
  <2>4. CASE Write(c) \/ Send(c)  BY <2>4, <1>4 DEF Write, Send, Armed, Steps
  <2>5. CASE Receive(c) \/ Panic(c) \/ Cancel(c)
    BY <2>5, <1>3 DEF Receive, Panic, Cancel, TypeOK
  <2>6. CASE Timeout(c)  BY <2>6, <1>4 DEF Timeout, Armed, Steps
  <2> QED BY <1>8, <1>6, <1>7, <2>1, <2>2, <2>3, <2>4, <2>5, <2>6 DEF Caller, Prompt
<1>9. CASE HandleFrame
  <2>1. Head(frames) \in Messages /\ Head(frames).key \in Keys
    <3>1. Head(frames) \in Messages  BY <1>9, HeadTail, MessageTypes DEF HandleFrame, TypeOK
    <3> QED BY <3>1 DEF Messages
  <2>2. waiters' = [waiters EXCEPT ![Head(frames).key] = NoCall]
    BY <1>9 DEF HandleFrame, Dispatch
  <2>3. rx' \in [Callers -> Results]
    BY <1>9, <2>1, ResolvedType, ResultTypes DEF HandleFrame, Dispatch, Reasons
  <2>4. \A c \in Callers : rx'[c] = rx[c] \/ pc[c] \in Armed
    BY <1>9 DEF HandleFrame, Dispatch, Resolved, Listening, Armed
  <2>5. /\ waiters' \in [Keys -> Calls \cup {NoCall}]
        /\ \A k \in Keys : waiters'[k] \in {waiters[k], NoCall}
    BY <2>1, <2>2 DEF TypeOK
  <2> QED BY <1>1, <1>9, <2>3, <2>4, <2>5 DEF HandleFrame
<1>10. CASE HandleError  BY <1>2, <1>10 DEF HandleError
<1>11. CASE Administrator
  <2>1. UNCHANGED <<pc, begun, cur, key>>
    BY <1>11 DEF Administrator, Close, Destroy, StoreLevel, AbortTasks, ClosePort, Open, ResetTid, OpenPort
  <2>2. CASE StopAll("closed")  BY <1>2, <2>1, <2>2
  <2>3. CASE ~StopAll("closed")
    <3>1. UNCHANGED <<waiters, rx>>
      BY <1>11, <2>3
      DEF Administrator, Close, Destroy, StoreLevel, AbortTasks, ClosePort, Open, ResetTid, OpenPort
    <3> QED BY <2>1, <3>1 DEF WaiterInv
  <2> QED BY <2>2, <2>3
<1>12. CASE Environment
  BY <1>12 DEF Environment, PortLost, ReceiveTail, DetachedWrite, Answer, ReceiveHead, Lose, WaiterInv
<1>13. CASE UNCHANGED vars  BY <1>13 DEF vars, WaiterInv
<1> QED BY <1>5, <1>8, <1>9, <1>10, <1>11, <1>12, <1>13 DEF Next, Step

\* Calls of the messages that are carried; NoBytes and Orphan belong to none.
LEMMA CarriedMessages ==
  ASSUME TypeOK
  PROVE  /\ Carried \in SUBSET Messages
         /\ \A m \in wire \cup Framed \cup Buffered : m.kind # "broadcast"
         /\ \A m \in Messages : m.call \in Calls /\ m.call # NoCall /\ m.key \in Keys
         /\ NoBytes \notin Messages /\ Orphan \notin Messages
<1>1. \A m \in Messages : m.call \in Calls /\ m.call # NoCall /\ m.key \in Keys
  BY MasterAssumption DEF Messages, Calls, NoCall
<1>2. NoBytes \notin Messages /\ Orphan \notin Messages
  BY <1>1 DEF NoBytes, Orphan
<1>3. \A i \in DOMAIN frames : frames[i] \in Responses  BY DEF TypeOK
<1>4. \A m \in wire \cup Framed \cup Buffered : m \in Responses
  BY <1>2, <1>3 DEF Framed, Buffered, Buffers, TypeOK
<1> QED BY <1>1, <1>2, <1>4, MessageTypes DEF Carried, Responses, TypeOK

\* Whatever happens to messages short of a new one: none is copied.
LEMMA OneEachFewer ==
  ASSUME OneEach, detached' \subseteq detached, atSlave' \subseteq atSlave, wire' \subseteq wire, Buffered' \subseteq Buffered,
         frames' = frames
  PROVE  OneEach' /\ Carried' \subseteq Carried
BY DEF OneEach, Carried, Framed

LEMMA OneEachTail ==
  ASSUME TypeOK, OneEach, frames # <<>>, frames' = Tail(frames), UNCHANGED <<detached, atSlave, wire, framer>>
  PROVE  OneEach' /\ Carried' \subseteq Carried
<1>1. \A i \in DOMAIN frames' : i + 1 \in DOMAIN frames /\ frames'[i] = frames[i + 1] /\ i \in Int
  BY DEF TypeOK
<1>2. Framed' \subseteq Framed  BY <1>1 DEF Framed
<1>3. Buffered' = Buffered  BY DEF Buffered
<1>4. ASSUME NEW i \in DOMAIN frames', NEW j \in DOMAIN frames', frames'[i].call = frames'[j].call
      PROVE  i = j
  <2>1. i + 1 = j + 1  BY <1>1, <1>4 DEF OneEach
  <2> QED BY <1>1, <2>1
<1> QED BY <1>2, <1>3, <1>4 DEF OneEach, Carried

LEMMA OneEachTold ==
  ASSUME TypeOK, OneEach, ReceiveTail
  PROVE  OneEach' /\ Carried' \subseteq Carried
<1>1. Buffered' = {} /\ UNCHANGED <<detached, atSlave, wire>>
  BY CarriedMessages DEF ReceiveTail, Buffered, portVars
<1>2. CASE frames' = frames  BY <1>1, <1>2, OneEachFewer
<1>3. CASE framer # Orphan /\ Publish(framer)
  <2> DEFINE s == IF Len(frames) = ChanCap THEN Tail(frames) ELSE frames
  <2>1. framer \in Messages /\ Buffered = {framer}
    BY <1>3, MessageTypes DEF ReceiveTail, TypeOK, Buffers, Buffered
  <2>2. frames' = Append(s, framer)  BY <1>3 DEF Publish
  <2>3. s \in Seq(Responses) /\ Len(s) \in Nat
    <3>1. frames \in Seq(Responses) /\ (Len(frames) = ChanCap => frames # <<>>)
      BY MasterAssumption DEF TypeOK
    <3> QED BY <3>1, HeadTail
  <2>4. \A i \in 1 .. Len(s) : \E j \in DOMAIN frames : s[i] = frames[j]
    <3>1. CASE Len(frames) = ChanCap
      <4>1. frames \in Seq(Responses) /\ frames # <<>>  BY <3>1, MasterAssumption DEF TypeOK
      <4>2. \A i \in 1 .. Len(s) : i + 1 \in DOMAIN frames /\ s[i] = frames[i + 1]  BY <3>1, <4>1
      <4> QED BY <4>2
    <3>2. CASE Len(frames) # ChanCap  BY <3>2 DEF TypeOK
    <3> QED BY <3>1, <3>2
  <2>5. \A i, j \in 1 .. Len(s) : s[i].call = s[j].call => i = j
    <3>1. CASE Len(frames) = ChanCap
      <4>1. frames \in Seq(Responses) /\ frames # <<>>  BY <3>1, MasterAssumption DEF TypeOK
      <4>2. \A i \in 1 .. Len(s) : i + 1 \in DOMAIN frames /\ s[i] = frames[i + 1]  BY <3>1, <4>1
      <4>3. ASSUME NEW i \in 1 .. Len(s), NEW j \in 1 .. Len(s), s[i].call = s[j].call PROVE i = j
        <5>1. i + 1 = j + 1  BY <4>2, <4>3 DEF OneEach
        <5> QED BY <5>1
      <4> QED BY <4>3
    <3>2. CASE Len(frames) # ChanCap  BY <3>2 DEF TypeOK, OneEach
    <3> QED BY <3>1, <3>2
  <2>6. /\ DOMAIN frames' = 1 .. Len(s) + 1 /\ frames'[Len(s) + 1] = framer
        /\ \A i \in 1 .. Len(s) : frames'[i] = s[i]
    <3> HIDE DEF s
    <3> QED BY <2>2, <2>3, <2>1
  <2> HIDE DEF s
  <2>7. ASSUME NEW i \in DOMAIN frames'
        PROVE  \/ i = Len(s) + 1 /\ frames'[i] = framer
               \/ i \in 1 .. Len(s) /\ frames'[i] = s[i] /\ s[i] \in Framed /\ s[i].call # framer.call
    <3>1. CASE i = Len(s) + 1  BY <3>1, <2>6
    <3>2. CASE i # Len(s) + 1
      <4>1. i \in 1 .. Len(s)  BY <3>2, <2>6, <2>3
      <4>2. s[i] \in Framed  BY <4>1, <2>4 DEF Framed
      <4> QED BY <4>1, <4>2, <2>6, <2>1 DEF OneEach
    <3> QED BY <3>1, <3>2
  <2>8. Framed' \subseteq Framed \cup Buffered
    <3>1. \A m \in Framed' : \E i \in DOMAIN frames' : m = frames'[i]  BY DEF Framed
    <3> QED BY <3>1, <2>7, <2>1
  <2>9. \A i, j \in DOMAIN frames' : frames'[i].call = frames'[j].call => i = j
    BY <2>7, <2>5
  <2> QED BY <1>1, <2>8, <2>9 DEF OneEach, Carried
<1> QED BY <1>2, <1>3 DEF ReceiveTail

LEMMA OneEachAnswered ==
  ASSUME TypeOK, OneEach, NEW m \in atSlave, Answer(m)
  PROVE  /\ OneEach'
         /\ \A n \in Carried' : \E p \in Carried :
              n.call = p.call /\ n.key = p.key /\ (n.kind = "broadcast" <=> p.kind = "broadcast")
<1>1. /\ Framed' = Framed /\ Buffered' = Buffered /\ atSlave' = atSlave \ {m}
      /\ UNCHANGED <<detached, frames>>
  BY DEF Answer, Framed, Buffered, chanVars, portVars
<1>2. CASE m.kind = "broadcast"
  <2>1. wire' = wire  BY <1>2 DEF Answer
  <2> QED BY <1>1, <2>1, OneEachFewer
<1>3. CASE m.kind # "broadcast"
  <2>1. PICK k \in {m.kind, "exception"} : wire' = wire \cup {[m EXCEPT !.kind = k]}
    BY <1>3 DEF Answer
  <2> DEFINE new == [m EXCEPT !.kind = k]
  <2>2. new.call = m.call /\ new.key = m.key /\ new.kind # "broadcast"
    BY <1>3, MessageTypes DEF TypeOK, Messages
  <2>3. \A n \in atSlave' : n \in atSlave /\ n.call # m.call  BY <1>1 DEF OneEach
  <2>4. \A n \in detached \cup wire \cup Framed \cup Buffered : n.call # m.call  BY DEF OneEach
  <2>5. wire' = wire \cup {new}  BY <2>1
  <2> HIDE DEF new
  <2>6. OneEach'  BY <1>1, <2>2, <2>3, <2>4, <2>5 DEF OneEach
  <2> QED BY <1>1, <1>3, <2>2, <2>5, <2>6 DEF Carried
<1> QED BY <1>2, <1>3

\* A request goes from the thread that writes it to the wire, or nowhere.
LEMMA OneEachDetached ==
  ASSUME TypeOK, OneEach, NEW m \in detached, DetachedWrite(m)
  PROVE  OneEach' /\ Carried' \subseteq Carried
<1>1. /\ detached' = detached \ {m} /\ UNCHANGED <<wire, framer, frames>>
      /\ atSlave' = atSlave \/ atSlave' = atSlave \cup {m}
  BY DEF DetachedWrite, chanVars
<1>2. Framed' = Framed /\ Buffered' = Buffered  BY <1>1 DEF Framed, Buffered
<1>3. /\ \A n \in detached' : n.call # m.call
      /\ \A n \in atSlave \cup wire \cup Framed \cup Buffered : n.call # m.call
  BY <1>1 DEF OneEach
<1> QED BY <1>1, <1>2, <1>3 DEF OneEach, Carried

LEMMA OneEachHead ==
  ASSUME TypeOK, OneEach, NEW m \in wire, ReceiveHead(m)
  PROVE  OneEach' /\ Carried' \subseteq Carried
<1>1. Buffered' = {m} /\ wire' = wire \ {m} /\ UNCHANGED <<detached, atSlave, frames>>
  BY MessageTypes DEF ReceiveHead, Buffered, TypeOK, chanVars, portVars
<1>2. \A n \in wire' : n.call # m.call  BY <1>1 DEF OneEach
<1>3. Framed' = Framed  BY <1>1 DEF Framed
<1> QED BY <1>1, <1>2, <1>3 DEF OneEach, Carried

LEMMA TransitStep ==
  ASSUME TypeOK, Numbering, TransitInv, [Next]_vars
  PROVE  TransitInv'
<1> USE Numbers, CarriedMessages DEF callerVars, sessionVars, adminVars, portVars, linkVars, chanVars, Goto
<1>0. Calls \subseteq Nat  BY DEF Calls
\* No message is new.
<1>1. ASSUME OneEach', \A n \in Carried' : \E p \in Carried : n.call = p.call,
             \/ UNCHANGED <<pc, cur, begun>>
             \/ \E c \in Callers : Return(c) /\ begun' = begun
             \/ \E c \in Callers : /\ UNCHANGED <<cur, begun>>
                                   /\ \/ pc[c] \notin {"wait", "stop"} /\ \E s \in Steps : Goto(c, s)
                                      \/ Goto(c, "stop")
             \/ \E c \in Callers, k \in Requests : Call(c, k)
      PROVE  TransitInv'
  <2>1. ASSUME NEW m \in Carried'  PROVE m.call <= begun'
    <3>1. begun' = begun \/ begun' = begun + 1  BY <1>1 DEF Call
    <3>2. PICK p \in Carried : m.call = p.call  BY <1>1
    <3>3. p.call \in Nat /\ p.call <= begun  BY <1>0 DEF TransitInv
    <3> QED BY <3>1, <3>2, <3>3
  <2>2. ASSUME NEW m \in Carried', NEW d \in Callers, cur'[d] = m.call
        PROVE  pc'[d] \in {"wait", "stop"}
    <3>1. PICK p \in Carried : m.call = p.call  BY <1>1
    <3>2. p.call \in Nat /\ p.call # NoCall /\ p.call <= begun /\ (cur[d] = p.call => pc[d] \in {"wait", "stop"})
      BY <1>0 DEF TransitInv
    <3>3. CASE UNCHANGED <<pc, cur, begun>>  BY <3>1, <3>2, <3>3, <2>2
    <3>4. ASSUME NEW c \in Callers, Return(c)  PROVE pc'[d] \in {"wait", "stop"}
      BY <3>1, <3>2, <3>4, <2>2 DEF Return, TypeOK
    <3>5. ASSUME NEW c \in Callers, UNCHANGED cur, NEW s \in Steps, Goto(c, s),
                 pc[c] \notin {"wait", "stop"} \/ s = "stop"
          PROVE  pc'[d] \in {"wait", "stop"}
      BY <3>1, <3>2, <3>5, <2>2 DEF TypeOK
    <3>6. ASSUME NEW c \in Callers, NEW k \in Requests, Call(c, k)  PROVE pc'[d] \in {"wait", "stop"}
      BY <3>1, <3>2, <3>6, <2>2 DEF Call, TypeOK
    <3>7. "stop" \in Steps  BY DEF Steps
    <3> QED BY <1>1, <3>3, <3>4, <3>5, <3>6, <3>7
  <2> QED BY <1>1, <2>1, <2>2 DEF TransitInv
<1>2. ASSUME Buffered' \subseteq Buffered, detached' \subseteq detached, atSlave' \subseteq atSlave,
             wire' \subseteq wire, frames' = frames
      PROVE  OneEach' /\ \A n \in Carried' : \E p \in Carried : n.call = p.call
  BY <1>2, OneEachFewer DEF TransitInv
<1>3. ASSUME framer' = framer  PROVE Buffered' \subseteq Buffered
  BY <1>3 DEF Buffered
<1>4. ASSUME framer' \in {NoBytes, Orphan}  PROVE Buffered' \subseteq Buffered
  BY <1>4 DEF Buffered
<1>5. ASSUME NEW c \in Callers, Send(c)  PROVE TransitInv'
  <2>1. CASE UNCHANGED atSlave /\ Goto(c, "stop")
    BY <1>1, <1>2, <1>3, <1>5, <2>1 DEF Send
  <2>2. CASE /\ Goto(c, IF kind[c] = "broadcast" THEN "stop" ELSE "wait")
             /\ atSlave' = atSlave \cup {Request(c)}
    <3>1. /\ UNCHANGED <<cur, begun, detached, wire, framer, frames>> /\ pc[c] = "sending"
          /\ pc' = [pc EXCEPT ![c] = IF kind[c] = "broadcast" THEN "stop" ELSE "wait"]
      BY <1>5, <2>2 DEF Send
    <3>2. Framed' = Framed /\ Buffered' = Buffered  BY <3>1 DEF Framed, Buffered
    <3>3. Request(c).call = cur[c]  BY DEF Request
    <3>4. \A n \in Carried : n.call # cur[c]  BY <3>1 DEF TransitInv
    <3>5. OneEach'
      <4>1. \A n \in detached \cup atSlave \cup wire \cup Framed \cup Buffered : n.call # Request(c).call
        BY <3>3, <3>4 DEF Carried
      <4> QED BY <2>2, <3>1, <3>2, <4>1 DEF OneEach, TransitInv
    <3>6. Carried' = Carried \cup {Request(c)}  BY <2>2, <3>1, <3>2 DEF Carried
    <3>7. \A m \in Carried' : m.call <= begun'
      BY <3>1, <3>3, <3>6 DEF TransitInv, Numbering
    <3>8. \A m \in Carried', d \in Callers : cur'[d] = m.call => pc'[d] \in {"wait", "stop"}
      <4>1. cur[c] # NoCall  BY <3>1 DEF Numbering
      <4>2. \A d \in Callers : cur[d] = cur[c] => d = c  BY <4>1 DEF Numbering
      <4> QED BY <3>1, <3>3, <3>6, <4>2 DEF TransitInv, TypeOK
    <3> QED BY <3>5, <3>7, <3>8 DEF TransitInv
  <2> QED BY <1>5, <2>1, <2>2 DEF Send
\* A dropped call leaves its request to the thread that writes it.
<1>13. ASSUME NEW c \in Callers, Cancel(c)  PROVE TransitInv'
  <2>1. UNCHANGED <<begun, atSlave, wire, framer, frames>> /\ Return(c)
    BY <1>13 DEF Cancel
  <2>2. CASE detached' = detached  BY <1>1, <1>2, <1>3, <2>1, <2>2
  <2>3. CASE detached' = detached \cup {Request(c)} /\ pc[c] = "sending"
    <3>1. Framed' = Framed /\ Buffered' = Buffered  BY <2>1 DEF Framed, Buffered
    <3>2. Request(c).call = cur[c] /\ cur[c] # NoCall  BY <2>3 DEF Request, Numbering
    <3>3. \A n \in Carried : n.call # cur[c]  BY <2>3 DEF TransitInv
    <3>4. OneEach'
      <4>1. \A n \in detached \cup atSlave \cup wire \cup Framed \cup Buffered : n.call # Request(c).call
        BY <3>2, <3>3 DEF Carried
      <4> QED BY <2>1, <2>3, <3>1, <4>1 DEF OneEach, TransitInv
    <3>5. Carried' = Carried \cup {Request(c)}  BY <2>1, <2>3, <3>1 DEF Carried
    <3>6. \A m \in Carried' : m.call <= begun'
      BY <2>1, <3>2, <3>5 DEF TransitInv, Numbering
    <3>7. ASSUME NEW m \in Carried', NEW d \in Callers, cur'[d] = m.call
          PROVE  pc'[d] \in {"wait", "stop"}
      <4>1. m.call # NoCall
        BY <3>2, <3>5
      <4>2. d # c /\ pc'[d] = pc[d] /\ cur'[d] = cur[d]  BY <2>1, <3>7, <4>1 DEF Return, TypeOK
      <4>3. cur[d] # cur[c]  BY <3>2, <4>2 DEF Numbering
      <4> QED BY <3>2, <3>5, <3>7, <4>2, <4>3 DEF TransitInv
    <3> QED BY <3>4, <3>6, <3>7 DEF TransitInv
  <2> QED BY <1>13, <2>2, <2>3 DEF Cancel
<1>6. ASSUME NEW c \in Callers, Caller(c)  PROVE TransitInv'
  <2>1. CASE Acquire(c)
    <3>1. \E s \in Steps : Goto(c, s)  BY <2>1 DEF Acquire, Steps
    <3> QED BY <2>1, <3>1, <1>1, <1>2, <1>3 DEF Acquire
  <2>2. CASE Recheck(c)
    <3>1. CASE Return(c)  BY <2>2, <3>1, <1>1, <1>2, <1>3 DEF Recheck
    <3>2. CASE Goto(c, "prepare") /\ UNCHANGED cur
      <4>1. \E s \in Steps : Goto(c, s)  BY <3>2 DEF Steps
      <4> QED BY <2>2, <3>2, <4>1, <1>1, <1>2, <1>3 DEF Recheck
    <3> QED BY <2>2, <3>1, <3>2 DEF Recheck
  <2>3. CASE Prepare(c)
    <3>1. \E s \in Steps : Goto(c, s)  BY <2>3 DEF Prepare, Steps
    <3>2. Buffered' \subseteq Buffered
      BY <2>3, <1>3, <1>4 DEF Prepare, Flush
    <3> QED BY <2>3, <3>1, <3>2, <1>1, <1>2 DEF Prepare
  <2>4. CASE Arm(c)
    <3>1. \E s \in Steps : Goto(c, s)  BY <2>4 DEF Arm, Steps
    <3> QED BY <2>4, <3>1, <1>1, <1>2, <1>3 DEF Arm
  <2>5. CASE Receive(c)  BY <2>5, <1>1, <1>2, <1>3 DEF Receive
  <2>6. CASE Timeout(c)  BY <2>6, <1>1, <1>2, <1>3 DEF Timeout
  <2>7. CASE Stop(c)  BY <2>7, <1>1, <1>2, <1>3 DEF Stop
  <2>8. CASE Write(c)
    <3>1. \E s \in Steps : Goto(c, s)  BY <2>8 DEF Write, Steps
    <3> QED BY <2>8, <3>1, <1>1, <1>2, <1>3 DEF Write
  <2>9. CASE Panic(c)  BY <2>9, <1>1, <1>2, <1>3 DEF Panic
  <2> QED BY <1>5, <1>6, <1>13, <2>1, <2>2, <2>3, <2>4, <2>5, <2>6, <2>7, <2>8, <2>9 DEF Caller, Prompt
<1>7. ASSUME NEW c \in Callers, NEW k \in Requests, Call(c, k)  PROVE TransitInv'
  BY <1>7, <1>1, <1>2, <1>3 DEF Call
<1>8. CASE HandleFrame
  BY <1>8, <1>1, OneEachTail DEF HandleFrame, TransitInv
<1>9. CASE HandleError  BY <1>9, <1>1, <1>2, <1>3 DEF HandleError
<1>10. CASE Administrator
  <2>1. UNCHANGED <<pc, begun, cur, frames>>
    BY <1>10 DEF Administrator, Close, Destroy, StoreLevel, AbortTasks, ClosePort, Open, ResetTid, OpenPort
  <2>2. CASE UNCHANGED <<detached, atSlave, wire, framer>>  BY <2>1, <2>2, <1>1, <1>2, <1>3
  <2>3. CASE ClosePort
    <3>1. detached' = detached /\ atSlave' \subseteq atSlave /\ wire' \subseteq wire
      BY <2>3 DEF ClosePort, Disconnect, ClearLink
    <3>2. Buffered' \subseteq Buffered  BY <2>3, <1>3, <1>4 DEF ClosePort, Disconnect
    <3> QED BY <2>1, <3>1, <3>2, <1>1, <1>2
  <2>4. CASE OpenPort
    <3>1. detached' = detached /\ framer' = framer /\ atSlave' \subseteq atSlave /\ wire' \subseteq wire
      BY <2>4 DEF OpenPort, ClearLink
    <3> QED BY <2>1, <3>1, <1>1, <1>2, <1>3
  <2> QED
    BY <1>10, <2>2, <2>3, <2>4 DEF Administrator, Close, Destroy, StoreLevel, AbortTasks, Open, ResetTid, OpenPort
<1>11. CASE Environment
  <2>1. UNCHANGED <<pc, begun, cur>>
    BY <1>11 DEF Environment, PortLost, ReceiveTail, DetachedWrite, Answer, ReceiveHead, Lose
  <2>2. CASE PortLost  BY <2>1, <2>2, <1>1, <1>2, <1>4 DEF PortLost, Disconnect, ClearLink
  <2>3. CASE ReceiveTail  BY <2>1, <2>3, <1>1, OneEachTold DEF TransitInv
  <2>4. ASSUME NEW m \in atSlave, Answer(m)  PROVE TransitInv'
    BY <2>1, <2>4, <1>1, OneEachAnswered DEF TransitInv
  <2>5. ASSUME NEW m \in wire, ReceiveHead(m)  PROVE TransitInv'
    BY <2>1, <2>5, <1>1, OneEachHead DEF TransitInv
  <2>6. ASSUME NEW m \in wire, Lose(m)  PROVE TransitInv'
    BY <2>1, <2>6, <1>1, <1>2, <1>3 DEF Lose
  <2>7. ASSUME NEW m \in detached, DetachedWrite(m)  PROVE TransitInv'
    BY <2>1, <2>7, <1>1, OneEachDetached DEF TransitInv
  <2> QED BY <1>11, <2>2, <2>3, <2>4, <2>5, <2>6, <2>7 DEF Environment
<1>12. CASE UNCHANGED vars  BY <1>12, <1>1, <1>2, <1>3 DEF vars
<1> QED BY <1>6, <1>7, <1>8, <1>9, <1>10, <1>11, <1>12 DEF Next, Step

LEMMA TurnStep ==
  ASSUME TypeOK, Numbering, ~Concurrent, TurnInv, [Next]_vars
  PROVE  TurnInv'
<1> USE Numbers DEF callerVars, sessionVars, adminVars, portVars, linkVars, chanVars, Goto
<1> USE DEF Inside
<1>1. ASSUME UNCHANGED <<pc, cur>>  PROVE TurnInv'
  BY <1>1 DEF TurnInv
<1>2. ASSUME NEW c \in Callers, Return(c)  PROVE TurnInv'
  BY <1>2 DEF Return, TurnInv, TypeOK
<1>3. ASSUME NEW c \in Callers, Inside(c), UNCHANGED cur, NEW s \in Steps \ {"idle", "queued"}, Goto(c, s)
      PROVE  TurnInv'
  BY <1>3 DEF TurnInv, TypeOK
<1>4. ASSUME NEW c \in Callers, NEW k \in Requests, Call(c, k)  PROVE TurnInv'
  <2>1. pc' = [pc EXCEPT ![c] = "queued"] /\ cur' = [cur EXCEPT ![c] = begun + 1]
    BY <1>4 DEF Call
  <2> QED BY <2>1 DEF TurnInv, TypeOK, Numbering
<1>5. ASSUME NEW c \in Callers, Acquire(c)  PROVE TurnInv'
  <2>1. \A d \in Callers : d # c /\ pc[d] # "idle" => cur[c] < cur[d] /\ pc[d] = "queued"
    BY <1>5 DEF Acquire, TurnInv, Numbering
  <2> QED BY <1>5, <2>1 DEF Acquire, TurnInv, TypeOK
<1>6. ASSUME NEW c \in Callers, Caller(c)  PROVE TurnInv'
  <2>2. CASE Recheck(c)
    <3>1. CASE Return(c)  BY <3>1, <1>2
    <3>2. CASE ~Return(c)  BY <2>2, <3>2, <1>3 DEF Recheck, Steps
    <3> QED BY <3>1, <3>2
  <2>3. CASE Prepare(c)  BY <2>3, <1>3 DEF Prepare, Steps
  <2>4. CASE Arm(c)  BY <2>4, <1>3 DEF Arm, Steps
  <2>5. CASE Write(c) \/ Send(c)  BY <2>5, <1>3 DEF Write, Send, Steps
  <2>6. CASE Receive(c)  BY <2>6, <1>2 DEF Receive
  <2>7. CASE Timeout(c)  BY <2>7, <1>3 DEF Timeout, Steps
  <2>8. CASE Stop(c)  BY <2>8, <1>2 DEF Stop
  <2>9. CASE Panic(c) \/ Cancel(c)  BY <2>9, <1>2 DEF Panic, Cancel
  <2> QED BY <1>5, <1>6, <2>2, <2>3, <2>4, <2>5, <2>6, <2>7, <2>8, <2>9 DEF Caller, Prompt
<1>7. CASE HandleFrame \/ HandleError  BY <1>1, <1>7 DEF HandleFrame, HandleError
<1>8. CASE Administrator
  BY <1>1, <1>8 DEF Administrator, Close, Destroy, StoreLevel, AbortTasks, ClosePort, Open, ResetTid, OpenPort
<1>9. CASE Environment
  BY <1>1, <1>9 DEF Environment, PortLost, ReceiveTail, DetachedWrite, Answer, ReceiveHead, Lose
<1>10. CASE UNCHANGED vars  BY <1>1, <1>10 DEF vars
<1> QED BY <1>4, <1>6, <1>7, <1>8, <1>9, <1>10 DEF Next, Step

\* For any number of callers and calls, reopenings and dropped futures included.
THEOREM OneCallAtATime == Spec => []CallsTakeTurns
<1> DEFINE Inv == ~Concurrent => TurnInv
<1>1. Init => Inv  BY DEF Init, TurnInv
<1>2. TypeOK /\ Numbering /\ Inv /\ [Next]_vars => Inv'
  <2>1. [Next]_vars => mode' = mode  BY DEF Next, vars
  <2> QED  BY <2>1, TurnStep DEF Concurrent
<1>3. Inv => CallsTakeTurns  BY DEF TurnInv, CallsTakeTurns, Inside
<1> QED  BY <1>1, <1>2, <1>3, TypeCorrect, PTL DEF Spec

\* Where the messages of the next state come from.
LEMMA CarriedStep ==
  ASSUME TypeOK, OneEach, [Next]_vars, NEW n \in Carried'
  PROVE  \/ \E p \in Carried :
              n.call = p.call /\ n.key = p.key /\ (n.kind = "broadcast" <=> p.kind = "broadcast")
         \/ \E c \in Callers : pc[c] = "sending" /\ (Send(c) \/ Cancel(c)) /\ n = Request(c)
<1> DEFINE Old == \E p \in Carried :
              n.call = p.call /\ n.key = p.key /\ (n.kind = "broadcast" <=> p.kind = "broadcast")
<1> USE DEF callerVars, sessionVars, adminVars, portVars, linkVars, chanVars
<1>1. ASSUME Carried' \subseteq Carried  PROVE Old
  BY <1>1
<1>2. ASSUME Buffered' \subseteq Buffered, detached' \subseteq detached, atSlave' \subseteq atSlave,
             wire' \subseteq wire, frames' = frames
      PROVE  Carried' \subseteq Carried
  BY <1>2, OneEachFewer
<1>3. ASSUME framer' = framer \/ framer' \in {NoBytes, Orphan}  PROVE Buffered' \subseteq Buffered
  BY <1>3, CarriedMessages DEF Buffered
<1>4. ASSUME NEW c \in Callers, Caller(c), ~Send(c), ~Cancel(c)  PROVE Carried' \subseteq Carried
  <2>1. framer' = framer \/ framer' \in {NoBytes, Orphan}
    BY <1>4 DEF Caller, Prompt, Acquire, Recheck, Prepare, Flush, Arm, Write, Panic, Receive, Timeout, Stop
  <2>2. UNCHANGED <<detached, atSlave, wire, frames>>
    BY <1>4 DEF Caller, Prompt, Acquire, Recheck, Prepare, Arm, Write, Panic, Receive, Timeout, Stop
  <2> QED BY <2>1, <2>2, <1>2, <1>3
<1>5. ASSUME NEW c \in Callers, Send(c) \/ Cancel(c)
      PROVE  Old \/ (pc[c] = "sending" /\ n = Request(c))
  <2>1. Framed' = Framed /\ Buffered' = Buffered /\ wire' = wire
    BY <1>5 DEF Send, Cancel, Framed, Buffered
  <2>2. \/ Carried' = Carried
        \/ pc[c] = "sending" /\ Carried' = Carried \cup {Request(c)}
    BY <1>5, <2>1 DEF Send, Cancel, Carried
  <2> QED BY <2>2
<1>6. ASSUME NEW c \in Callers, NEW k \in Requests, Call(c, k)  PROVE Carried' \subseteq Carried
  BY <1>6, <1>2, <1>3 DEF Call
<1>7. CASE HandleFrame  BY <1>1, <1>7, OneEachTail DEF HandleFrame
<1>8. CASE HandleError  BY <1>1, <1>8, <1>2, <1>3 DEF HandleError
<1>9. CASE Administrator
  <2>1. frames' = frames /\ detached' = detached /\ atSlave' \subseteq atSlave /\ wire' \subseteq wire
    BY <1>9
    DEF Administrator, Close, Destroy, StoreLevel, AbortTasks, ClosePort, Disconnect, ClearLink, Open,
        ResetTid, OpenPort
  <2>2. framer' = framer \/ framer' \in {NoBytes, Orphan}
    BY <1>9 DEF Administrator, Close, Destroy, StoreLevel, AbortTasks, ClosePort, Disconnect, Open, ResetTid, OpenPort
  <2> QED BY <2>1, <2>2, <1>1, <1>2, <1>3
<1>10. CASE Environment
  <2>1. CASE PortLost  BY <2>1, <1>1, <1>2, <1>3 DEF PortLost, Disconnect, ClearLink
  <2>2. CASE ReceiveTail  BY <2>2, <1>1, OneEachTold
  <2>3. ASSUME NEW m \in atSlave, Answer(m)  PROVE Old
    BY <2>3, OneEachAnswered
  <2>4. ASSUME NEW m \in wire, ReceiveHead(m)  PROVE Carried' \subseteq Carried
    BY <2>4, OneEachHead
  <2>5. ASSUME NEW m \in wire, Lose(m)  PROVE Carried' \subseteq Carried
    BY <2>5, <1>2, <1>3 DEF Lose
  <2>6. ASSUME NEW m \in detached, DetachedWrite(m)  PROVE Carried' \subseteq Carried
    BY <2>6, OneEachDetached
  <2> QED BY <1>10, <1>1, <2>1, <2>2, <2>3, <2>4, <2>5, <2>6 DEF Environment
<1>11. CASE UNCHANGED vars  BY <1>11, <1>1, <1>2, <1>3 DEF vars
<1> QED BY <1>1, <1>4, <1>5, <1>6, <1>7, <1>8, <1>9, <1>10, <1>11 DEF Next, Step

LEMMA UnnumberedFinite ==
  ASSUME TypeOK, Numbering
  PROVE  IsFiniteSet(Unnumbered) /\ Cardinality(Unnumbered) \in Nat
<1>1. IsFiniteSet(0 .. begun)  BY Numbers, FS_Interval
<1>2. Unnumbered \in SUBSET (0 .. begun)  BY Numbers DEF Unnumbered, Numbering
<1>3. IsFiniteSet(Unnumbered)  BY <1>1, <1>2, FS_Subset
<1> QED BY <1>3, FS_CardinalityType

\* A step gives at most one caller its id, which is a new one.
IdStep ==
  /\ IdsGiven' /\ nextTid' >= nextTid
  /\ \A c \in Callers : Unicast(c)' =>
       \/ Unicast(c) /\ key'[c] = key[c] /\ cur'[c] = cur[c]
       \/ key'[c] = nextTid /\ ~Unicast(c)

LEMMA IdsAreNew ==
  ASSUME FewCalls, TypeOK, Numbering, Tcp, IdsGiven, Next
  PROVE  IdStep
<1> USE Numbers DEF callerVars, sessionVars, adminVars, portVars, linkVars, chanVars
<1>0. nextTid \in Nat /\ nextTid' \in Nat
  <2>1. TypeOK'  BY TypeStep
  <2> QED BY <2>1 DEF TypeOK
<1>1. ASSUME UNCHANGED <<pc, begun, cur, kind, key, nextTid>>, adm' # "reset_tid"  PROVE IdStep
  <2>1. Unnumbered' = Unnumbered  BY <1>1 DEF Unnumbered
  <2> QED BY <1>0, <1>1, <2>1 DEF IdStep, IdsGiven, Unicast
<1>2. ASSUME NEW c \in Callers, UNCHANGED <<begun, nextTid, adm>>,
             \/ Return(c)
             \/ /\ UNCHANGED <<cur, kind, key>>
                /\ \E s \in Steps : Goto(c, s) /\ (s \in Early => pc[c] \in Early)
                                    /\ (s \in Keyed => pc[c] \in Keyed)
      PROVE  IdStep
  <2>1. \A d \in Callers : pc'[d] \in Early => pc[d] \in Early /\ cur'[d] = cur[d]
    BY <1>2 DEF Return, Goto, TypeOK, Early
  <2>2. Unnumbered' \in SUBSET Unnumbered  BY <2>1 DEF Unnumbered
  <2>3. Cardinality(Unnumbered') <= Cardinality(Unnumbered) /\ Cardinality(Unnumbered') \in Nat
    BY <2>2, UnnumberedFinite, FS_Subset, FS_CardinalityType
  <2>4. \A d \in Callers : pc'[d] \in Keyed =>
          pc[d] \in Keyed /\ cur'[d] = cur[d] /\ kind'[d] = kind[d] /\ key'[d] = key[d]
    BY <1>2 DEF Return, Goto, TypeOK, Keyed, Armed
  <2>5. Cardinality(Unnumbered') + nextTid <= begun + 1
    BY <1>0, <2>3, UnnumberedFinite DEF IdsGiven
  <2> QED BY <1>0, <1>2, <2>4, <2>5 DEF IdStep, IdsGiven, Unicast
<1>3. ASSUME NEW c \in Callers, NEW k \in Requests, Call(c, k)  PROVE IdStep
  <2>0. /\ pc[c] = "idle" /\ begun' = begun + 1 /\ cur' = [cur EXCEPT ![c] = begun + 1]
        /\ kind' = [kind EXCEPT ![c] = k] /\ UNCHANGED <<key, nextTid, adm>>
        /\ pc' = [pc EXCEPT ![c] = IF Concurrent THEN "recheck" ELSE "queued"]
    BY <1>3 DEF Call, Goto
  <2>1. Unnumbered' = Unnumbered \cup {begun + 1}
    <3>1. ASSUME NEW n \in Unnumbered'  PROVE n \in Unnumbered \cup {begun + 1}
      BY <2>0, <3>1 DEF Unnumbered, TypeOK
    <3>2. begun + 1 \in Unnumbered'  BY <2>0 DEF Unnumbered, TypeOK, Early
    <3>3. ASSUME NEW n \in Unnumbered  PROVE n \in Unnumbered'
      <4>1. PICK d \in Callers : pc[d] \in Early /\ n = cur[d]  BY <3>3 DEF Unnumbered
      <4>2. d # c  BY <2>0, <4>1 DEF Early
      <4> QED BY <2>0, <4>1, <4>2 DEF Unnumbered, TypeOK
    <3> QED BY <3>1, <3>2, <3>3
  <2>2. Cardinality(Unnumbered') <= Cardinality(Unnumbered) + 1 /\ Cardinality(Unnumbered') \in Nat
    <3>1. IsFiniteSet(Unnumbered')  BY <2>1, UnnumberedFinite, FS_AddElement
    <3>2. Cardinality(Unnumbered') \in Nat  BY <3>1, FS_CardinalityType
    <3>3. \/ Cardinality(Unnumbered') = Cardinality(Unnumbered)
          \/ Cardinality(Unnumbered') = Cardinality(Unnumbered) + 1
      BY <2>1, UnnumberedFinite, FS_AddElement
    <3> QED BY <3>2, <3>3, UnnumberedFinite
  <2>3. Cardinality(Unnumbered') + nextTid' <= begun' + 1
    BY <1>0, <2>0, <2>2, UnnumberedFinite DEF IdsGiven
  <2>4. \A d \in Callers : pc'[d] \in Keyed =>
          pc[d] \in Keyed /\ cur'[d] = cur[d] /\ kind'[d] = kind[d] /\ key'[d] = key[d]
    BY <2>0 DEF TypeOK, Keyed, Armed
  <2> QED BY <1>0, <2>0, <2>3, <2>4 DEF IdStep, IdsGiven, Unicast
<1>4. ASSUME NEW c \in Callers, Prepare(c)  PROVE IdStep
  <2>0. /\ pc[c] = "prepare" /\ pc' = [pc EXCEPT ![c] = "arm"]
        /\ UNCHANGED <<begun, cur, kind, adm>>
        /\ IF kind[c] # "broadcast"
           THEN key' = [key EXCEPT ![c] = nextTid] /\ nextTid' = NextTidAfter(nextTid)
           ELSE key' = [key EXCEPT ![c] = Fifo] /\ nextTid' = nextTid
    BY <1>4 DEF Prepare, Goto
  <2>1. Unnumbered' = Unnumbered \ {cur[c]} /\ cur[c] \in Unnumbered
    <3>1. cur[c] \in Unnumbered  BY <2>0 DEF Unnumbered, Early
    <3>2. \A d \in Callers : cur[d] = cur[c] => d = c  BY <2>0 DEF Numbering
    <3>3. \A d \in Callers : pc'[d] \in Early <=> pc[d] \in Early /\ d # c
      BY <2>0 DEF TypeOK, Early
    <3>4. Unnumbered' = {cur[d] : d \in {e \in Callers : pc[e] \in Early /\ e # c}}
      BY <2>0, <3>3 DEF Unnumbered
    <3> QED BY <3>1, <3>2, <3>4 DEF Unnumbered
  <2>2. Cardinality(Unnumbered') = Cardinality(Unnumbered) - 1 /\ Cardinality(Unnumbered') \in Nat
    BY <2>1, UnnumberedFinite, FS_RemoveElement, FS_CardinalityType
  <2>3. nextTid <= begun /\ begun <= MaxCalls
    BY <1>0, <2>2, UnnumberedFinite DEF IdsGiven, TypeOK
  <2>4. NextTidAfter(nextTid) = nextTid + 1
    BY <1>0, <2>3, MasterAssumption DEF FewCalls, NextTidAfter
  <2>5. Cardinality(Unnumbered') + nextTid' <= begun' + 1 /\ nextTid' >= nextTid
    BY <1>0, <2>0, <2>2, <2>4, UnnumberedFinite DEF IdsGiven
  <2>6. \A d \in Callers \ {c} :
          pc'[d] = pc[d] /\ cur'[d] = cur[d] /\ kind'[d] = kind[d] /\ key'[d] = key[d]
    BY <2>0 DEF TypeOK
  <2>7. pc'[c] \in Keyed /\ kind'[c] = kind[c] /\ ~Unicast(c)
        /\ IF kind[c] = "broadcast" THEN key'[c] = Fifo ELSE key'[c] = nextTid /\ nextTid' = nextTid + 1
    BY <2>0, <2>4 DEF TypeOK, Keyed, Armed, Unicast
  <2>8. nextTid \in 1 .. MaxTid  BY DEF TypeOK
  <2>9. ASSUME NEW d \in Callers, pc'[d] \in Keyed
        PROVE IF kind'[d] = "broadcast" THEN key'[d] = Fifo ELSE key'[d] \in 1 .. nextTid' - 1
    BY <1>0, <2>5, <2>6, <2>7, <2>8, <2>9 DEF IdsGiven
  <2>10. ASSUME NEW d \in Callers, NEW e \in Callers, Unicast(d)', Unicast(e)', key'[d] = key'[e]
         PROVE  d = e
    <3>1. \A x \in Callers \ {c} : Unicast(x)' => Unicast(x) /\ key[x] \in 1 .. nextTid - 1
      BY <2>6 DEF IdsGiven, Unicast
    <3>2. Unicast(c)' => key'[c] = nextTid  BY <2>7 DEF Unicast
    <3> QED BY <1>0, <2>6, <2>10, <3>1, <3>2 DEF IdsGiven
  <2>11. ASSUME NEW d \in Callers, Unicast(d)'
         PROVE  \/ Unicast(d) /\ key'[d] = key[d] /\ cur'[d] = cur[d]
                \/ key'[d] = nextTid /\ ~Unicast(d)
    BY <2>6, <2>7, <2>11 DEF Unicast
  <2>12. adm' # "reset_tid"  BY <2>0 DEF IdsGiven
  <2> QED BY <2>5, <2>9, <2>10, <2>11, <2>12 DEF IdStep, IdsGiven
<1>5. ASSUME NEW c \in Callers, Caller(c)  PROVE IdStep
  <2>1. CASE Acquire(c)
    <3>1. pc[c] = "queued" /\ Goto(c, "recheck") /\ UNCHANGED <<begun, nextTid, adm, cur, kind, key>>
      BY <2>1 DEF Acquire
    <3> QED BY <3>1, <1>2 DEF Steps, Early, Keyed, Armed
  <2>2. CASE Recheck(c)
    <3>1. UNCHANGED <<begun, nextTid, adm>> /\ pc[c] = "recheck"  BY <2>2 DEF Recheck
    <3>2. CASE Return(c)  BY <3>1, <3>2, <1>2
    <3>3. CASE Goto(c, "prepare") /\ UNCHANGED <<cur, kind, key>>
      BY <3>1, <3>3, <1>2 DEF Steps, Early, Keyed, Armed
    <3> QED BY <2>2, <3>2, <3>3 DEF Recheck
  <2>3. CASE Arm(c)
    <3>1. pc[c] = "arm" /\ Goto(c, "write") /\ UNCHANGED <<begun, nextTid, adm, cur, kind, key>>
      BY <2>3 DEF Arm
    <3> QED BY <3>1, <1>2 DEF Steps, Early, Keyed, Armed
  <2>4. CASE Write(c) \/ Send(c)
    <3>1. pc[c] \in {"write", "sending"} /\ UNCHANGED <<begun, nextTid, adm, cur, kind, key>>
          /\ (Goto(c, "sending") \/ Goto(c, "wait") \/ Goto(c, "stop"))
      BY <2>4 DEF Write, Send
    <3> QED BY <3>1, <1>2 DEF Steps, Early, Keyed, Armed
  <2>5. CASE Timeout(c)
    <3>1. pc[c] = "wait" /\ Goto(c, "stop") /\ UNCHANGED <<begun, nextTid, adm, cur, kind, key>>
      BY <2>5 DEF Timeout
    <3> QED BY <3>1, <1>2 DEF Steps, Early, Keyed, Armed
  <2>6. CASE Receive(c) \/ Stop(c) \/ Panic(c) \/ Cancel(c)
    BY <2>6, <1>2 DEF Receive, Stop, Panic, Cancel
  <2> QED BY <1>4, <1>5, <2>1, <2>2, <2>3, <2>4, <2>5, <2>6 DEF Caller, Prompt
<1>6. CASE HandleFrame \/ HandleError
  BY <1>1, <1>6 DEF HandleFrame, HandleError, IdsGiven
<1>7. CASE Administrator
  <2>1. opens = 0 /\ ~Open  BY DEF FewCalls, TypeOK, Open
  <2>2. ~ResetTid  BY DEF IdsGiven, ResetTid
  <2>3. UNCHANGED <<pc, begun, cur, kind, key, nextTid>> /\ adm' # "reset_tid"
    BY <1>7, <2>1, <2>2
    DEF Administrator, Close, Destroy, StoreLevel, AbortTasks, ClosePort, OpenPort, Admin
  <2> QED BY <1>1, <2>3
<1>8. CASE Environment
  BY <1>1, <1>8 DEF Environment, PortLost, ReceiveTail, DetachedWrite, Answer, ReceiveHead, Lose, IdsGiven
<1> QED BY <1>3, <1>5, <1>6, <1>7, <1>8 DEF Next, Step

LEMMA IdInvStep ==
  ASSUME FewCalls, TypeOK, Numbering, Tcp, IdInv, TransitInv, [Next]_vars
  PROVE  IdInv'
<1> USE Numbers
<1>1. IdsGiven  BY DEF IdInv, IdsGiven
<1>2. IdStep
  <2>1. CASE Next  BY <1>1, <2>1, IdsAreNew
  <2>2. CASE UNCHANGED vars
    <3>1. UNCHANGED <<pc, begun, cur, kind, key, nextTid, adm>>
      BY <2>2 DEF vars, callerVars, sessionVars, adminVars
    <3>2. Unnumbered' = Unnumbered  BY <3>1 DEF Unnumbered
    <3>3. nextTid \in Nat  BY DEF TypeOK
    <3> QED BY <1>1, <3>1, <3>2, <3>3 DEF IdStep, IdsGiven, Unicast
  <2> QED BY <2>1, <2>2
<1>3. nextTid \in Nat /\ nextTid' \in Nat
  <2>1. TypeOK'  BY TypeStep
  <2> QED BY <2>1 DEF TypeOK
<1>4. ASSUME NEW n \in Carried'
      PROVE  /\ IF n.kind = "broadcast" THEN n.key = Fifo ELSE n.key \in 1 .. nextTid' - 1
             /\ \A c \in Callers : Unicast(c)' /\ n.key = key'[c] => n.call = cur'[c]
  <2>0. \A c \in Callers : Unicast(c)' => key'[c] # Fifo
    BY <1>2, <1>3 DEF IdStep, IdsGiven, Unicast, Fifo
  <2>1. ASSUME NEW p \in Carried, n.call = p.call, n.key = p.key, n.kind = "broadcast" <=> p.kind = "broadcast"
        PROVE  /\ IF n.kind = "broadcast" THEN n.key = Fifo ELSE n.key \in 1 .. nextTid' - 1
               /\ \A c \in Callers : Unicast(c)' /\ n.key = key'[c] => n.call = cur'[c]
    <3>1. CASE p.kind = "broadcast"
      <4>1. n.key = Fifo /\ n.kind = "broadcast"  BY <2>1, <3>1 DEF IdInv
      <4> QED BY <2>0, <4>1
    <3>2. CASE p.kind # "broadcast"
      <4>1. p.key \in 1 .. nextTid - 1  BY <3>2 DEF IdInv
      <4>2. n.key \in 1 .. nextTid' - 1  BY <1>2, <1>3, <2>1, <4>1 DEF IdStep
      <4>3. ASSUME NEW c \in Callers, Unicast(c)', n.key = key'[c]  PROVE n.call = cur'[c]
        <5>1. key'[c] # nextTid  BY <1>3, <2>1, <4>1, <4>3
        <5>2. Unicast(c) /\ key'[c] = key[c] /\ cur'[c] = cur[c]  BY <1>2, <4>3, <5>1 DEF IdStep
        <5> QED BY <2>1, <4>3, <5>2 DEF IdInv
      <4> QED BY <2>1, <3>2, <4>2, <4>3
    <3> QED BY <3>1, <3>2
  <2>2. ASSUME NEW d \in Callers, pc[d] = "sending", n = Request(d)
        PROVE  /\ IF n.kind = "broadcast" THEN n.key = Fifo ELSE n.key \in 1 .. nextTid' - 1
               /\ \A c \in Callers : Unicast(c)' /\ n.key = key'[c] => n.call = cur'[c]
    <3>0. n.call = cur[d] /\ n.key = key[d] /\ n.kind = kind[d] /\ pc[d] \in Keyed
      BY <2>2 DEF Request, Keyed, Armed
    <3>1. CASE kind[d] = "broadcast"
      <4>1. n.key = Fifo  BY <3>0, <3>1 DEF IdInv, IdsGiven
      <4> QED BY <2>0, <3>0, <3>1, <4>1
    <3>2. CASE kind[d] # "broadcast"
      <4>0. Unicast(d)  BY <3>0, <3>2 DEF Unicast
      <4>1. key[d] \in 1 .. nextTid - 1  BY <3>0, <3>2 DEF IdInv, IdsGiven
      <4>2. n.key \in 1 .. nextTid' - 1  BY <1>2, <1>3, <3>0, <4>1 DEF IdStep
      <4>3. ASSUME NEW c \in Callers, Unicast(c)', n.key = key'[c]  PROVE n.call = cur'[c]
        <5>1. key'[c] # nextTid  BY <1>3, <3>0, <4>1, <4>3
        <5>2. Unicast(c) /\ key'[c] = key[c] /\ cur'[c] = cur[c]  BY <1>2, <4>3, <5>1 DEF IdStep
        <5>3. c = d  BY <3>0, <4>0, <4>3, <5>2 DEF IdInv, IdsGiven
        <5> QED BY <3>0, <5>2, <5>3
      <4> QED BY <3>0, <3>2, <4>2, <4>3
    <3> QED BY <3>1, <3>2
  <2>3. OneEach  BY DEF TransitInv
  <2> QED BY <2>1, <2>2, <2>3, CarriedStep
<1> QED BY <1>2, <1>4 DEF IdStep, IdsGiven, IdInv

MasterInv == TypeOK /\ Numbering /\ AwaitingIsArmed /\ ServiceInv

LEMMA MasterInvHolds ==
  ASSUME FewCalls
  PROVE  Spec => []MasterInv
<1>1. Init => WaiterInv /\ TransitInv /\ TurnInv /\ IdInv
  <2> SUFFICES ASSUME Init PROVE WaiterInv /\ TransitInv /\ TurnInv /\ IdInv  OBVIOUS
  <2>1. TypeOK /\ Numbering
    BY MasterAssumption, FifoKey, ResultTypes
    DEF Init, TypeOK, Numbering, NoCall, Steps, AdmSteps, Requests, Buffers
  <2>2. Carried = {} /\ Buffered = {} /\ Framed = {}
    BY <2>1, CarriedMessages DEF Init, Carried, Framed, Buffered
  <2>3. Cardinality(Unnumbered) = 0
    <3>1. Unnumbered = {}  BY DEF Init, Unnumbered, Early
    <3> QED BY <3>1, FS_EmptySet
  <2>4. WaiterInv  BY DEF Init, WaiterInv, NoCall
  <2>5. TransitInv  BY <2>2 DEF Init, TransitInv, OneEach
  <2>6. TurnInv  BY DEF Init, TurnInv
  <2>7. IdInv  BY <2>2, <2>3 DEF Init, IdInv, IdsGiven, Unicast, Keyed, Armed
  <2> QED BY <2>4, <2>5, <2>6, <2>7
<1>2. MasterInv /\ [Next]_vars => MasterInv'
  <2> SUFFICES ASSUME MasterInv, [Next]_vars PROVE MasterInv'  OBVIOUS
  <2> USE DEF MasterInv
  <2>1. TypeOK' /\ Numbering' /\ AwaitingIsArmed'  BY TypeStep, NumberingStep, AwaitingStep
  <2>2. WaiterInv' /\ TransitInv'  BY WaiterStep, TransitStep DEF ServiceInv
  <2>3. mode' = mode  BY DEF Next, vars
  <2>4. ~Concurrent => TurnInv'  BY TurnStep DEF ServiceInv
  <2>5. Tcp => IdInv'  BY IdInvStep DEF ServiceInv
  <2> QED BY <2>1, <2>2, <2>3, <2>4, <2>5 DEF ServiceInv, Concurrent, Tcp
<1>3. Init => MasterInv
  <2>1. Init => AwaitingIsArmed  BY DEF Init, AwaitingIsArmed, Listening
  <2>2. Init => TypeOK /\ Numbering
    BY MasterAssumption, FifoKey, ResultTypes
    DEF Init, TypeOK, Numbering, NoCall, Steps, AdmSteps, Requests, Buffers
  <2> QED BY <1>1, <2>1, <2>2 DEF MasterInv, ServiceInv
<1> QED BY <1>2, <1>3, PTL DEF Spec

\* A frame that is dispatched to a call which still listens is that call's response.
LEMMA Delivered ==
  ASSUME MasterInv, NEW m \in Carried, m.kind # "broadcast", NEW c \in Callers, Listening(c), waiters[m.key] = cur[c], Tcp
  PROVE  m.call = cur[c]
<1> USE Numbers, CarriedMessages DEF MasterInv
<1>1. m.key \in Keys /\ key[c] \in Keys  BY DEF TypeOK
<1>2. cur[c] # NoCall /\ pc[c] \in Keyed  BY DEF Listening, Numbering, Keyed, Armed
<1>3. key[c] = m.key  BY <1>1, <1>2 DEF ServiceInv, WaiterInv
<1>4. IdInv  BY DEF ServiceInv
<1>5. m.key # Fifo  BY <1>4 DEF IdInv, Fifo, TypeOK
<1>6. Unicast(c)  BY <1>2, <1>3, <1>4, <1>5 DEF IdInv, IdsGiven, Unicast
<1> QED BY <1>3, <1>4, <1>6 DEF IdInv, IdsGiven

\* A call that takes another's waiter away does so to broadcasts only, which await nothing.
LEMMA Taken ==
  ASSUME MasterInv, NEW c \in Callers, NEW d \in Callers, c # d, Listening(c),
         pc[d] \in {"arm", "stop"}, waiters[key[d]] = cur[c]
  PROVE  kind[c] = "broadcast"
<1> USE DEF MasterInv
<1>1. key[c] = key[d] /\ pc[c] \in Keyed /\ pc[d] \in Keyed
  <2>1. cur[c] # NoCall /\ key[d] \in Keys  BY DEF Listening, Numbering, TypeOK
  <2> QED BY <2>1 DEF ServiceInv, WaiterInv, Listening, Keyed, Armed
<1>2. Concurrent /\ Tcp
  BY DEF ServiceInv, TurnInv, Listening, Concurrent, Tcp
<1>3. IdInv  BY <1>2 DEF ServiceInv
<1>4. nextTid \in Nat  BY DEF TypeOK
<1>5. CASE kind[d] = "broadcast"  BY <1>1, <1>3, <1>4, <1>5 DEF IdInv, IdsGiven, Fifo
<1>6. CASE kind[d] # "broadcast"  BY <1>1, <1>3, <1>6 DEF IdInv, IdsGiven, Unicast
<1> QED BY <1>5, <1>6

OutcomeInv == OwnResponse /\ NotDropped

LEMMA OutcomeStep ==
  ASSUME MasterInv, OutcomeInv, [Next]_vars
  PROVE  OutcomeInv'
<1> USE DEF callerVars, sessionVars, adminVars, portVars, linkVars, chanVars
<1>0. Tcp' = Tcp  BY DEF Next, vars, Tcp
<1> SUFFICES ASSUME NEW c \in Callers
             PROVE  /\ Tcp /\ rx'[c].tag = "frame" => rx'[c].call = cur'[c]
                    /\ rx'[c].tag = "dropped" => kind'[c] = "broadcast"
  BY <1>0 DEF OutcomeInv, OwnResponse, NotDropped
<1> DEFINE Goal == /\ Tcp /\ rx'[c].tag = "frame" => rx'[c].call = cur'[c]
                   /\ rx'[c].tag = "dropped" => kind'[c] = "broadcast"
<1> USE DEF MasterInv
<1>1. ASSUME rx'[c] = rx[c], cur'[c] = cur[c], kind'[c] = kind[c]  PROVE Goal
  BY <1>1 DEF OutcomeInv, OwnResponse, NotDropped
<1>2. ASSUME rx'[c] \in {Pending, Rejected("closed"), Rejected("framing"), Rejected("precheck")}  PROVE Goal
  BY <1>2 DEF Pending, Rejected
<1>3. ASSUME NEW why \in {"closed", "framing"}, StopAll(why), UNCHANGED <<cur, kind>>  PROVE Goal
  BY <1>1, <1>2, <1>3 DEF StopAll, Resolved
<1>4. pc[c] \notin Armed => rx[c] = Pending  BY DEF ServiceInv, WaiterInv
<1>5. ASSUME NEW d \in Callers, d # c, Caller(d)  PROVE Goal
  <2>1. cur'[c] = cur[c] /\ kind'[c] = kind[c]
    BY <1>5 DEF Caller, Prompt, Send, Panic, Cancel, Acquire, Recheck, Prepare, Arm, Write, Receive, Timeout, Stop, Return, TypeOK
  <2>2. CASE Arm(d) \/ Stop(d)
    <3>1. rx'[c] = Resolved({waiters[key[d]]}, Rejected("dropped"))[c]
      BY <1>5, <2>2 DEF Arm, Stop, Resolved
    <3>2. pc[d] \in {"arm", "stop"}  BY <2>2 DEF Arm, Stop
    <3>3. CASE Listening(c) /\ waiters[key[d]] = cur[c]
      <4>1. kind[c] = "broadcast"  BY <1>5, <3>2, <3>3, Taken
      <4>2. rx'[c].tag = "dropped"  BY <3>1, <3>3 DEF Resolved, Rejected
      <4> QED BY <2>1, <4>1, <4>2
    <3>4. CASE ~(Listening(c) /\ waiters[key[d]] = cur[c])
      BY <1>1, <2>1, <3>1, <3>4 DEF Resolved
    <3> QED BY <3>3, <3>4
  <2>3. CASE ~(Arm(d) \/ Stop(d))
    <3>1. rx'[c] = rx[c]
      BY <1>5, <2>3 DEF Caller, Prompt, Send, Panic, Cancel, Acquire, Recheck, Prepare, Write, Receive, Timeout, TypeOK
    <3> QED BY <1>1, <2>1, <3>1
  <2> QED BY <2>2, <2>3
<1>6. ASSUME Caller(c)  PROVE Goal
  <2>1. CASE Arm(c)
    <3>1. rx'[c] = Pending  BY <1>4, <2>1 DEF Arm, Resolved, Listening, Armed
    <3> QED BY <1>2, <3>1
  <2>2. CASE Receive(c) \/ Stop(c) \/ Panic(c) \/ Cancel(c)
    <3>1. rx'[c] = Pending
      BY <2>2, ResolvedType, ResultTypes DEF Receive, Stop, Panic, Cancel, TypeOK, Reasons
    <3> QED BY <1>2, <3>1
  <2>3. CASE Recheck(c)  BY <1>2, <1>4, <2>3 DEF Recheck, Armed
  <2>4. CASE Acquire(c) \/ Prepare(c) \/ Write(c) \/ Send(c) \/ Timeout(c)
    BY <1>1, <2>4 DEF Acquire, Prepare, Write, Send, Timeout
  <2> QED BY <1>6, <2>1, <2>2, <2>3, <2>4 DEF Caller, Prompt
<1>7. ASSUME NEW d \in Callers, NEW k \in Requests, Call(d, k)  PROVE Goal
  <2>1. CASE d = c
    <3>1. rx'[c] = Pending  BY <1>4, <1>7, <2>1 DEF Call, Armed
    <3> QED BY <1>2, <3>1
  <2>2. CASE d # c  BY <1>1, <1>7, <2>2 DEF Call, TypeOK
  <2> QED BY <2>1, <2>2
<1>8. CASE HandleFrame
  <2> DEFINE m == Head(frames)
             r == IF PreChecks(m, waiters[m.key]) THEN Frame(m) ELSE Rejected("precheck")
  <2>1. m \in Carried /\ m.kind # "broadcast"
    <3>1. frames \in Seq(Responses) /\ frames # <<>>  BY <1>8 DEF HandleFrame, TypeOK
    <3>2. 1 \in DOMAIN frames /\ m = frames[1]  BY <3>1
    <3>3. m \in Framed  BY <3>2 DEF Framed
    <3> HIDE DEF m
    <3> QED BY <3>3, CarriedMessages DEF Carried
  <2>2. UNCHANGED <<cur, kind>> /\ rx' = Resolved({waiters[m.key]}, r)
    BY <1>8 DEF HandleFrame, Dispatch
  <2>3. CASE Listening(c) /\ waiters[m.key] = cur[c]
    <3>1. rx'[c] = r  BY <2>2, <2>3 DEF Resolved
    <3>2. Tcp => m.call = cur[c]  BY <2>1, <2>3, Delivered
    <3>3. CASE PreChecks(m, waiters[m.key])
      <4>1. rx'[c] = [tag |-> "frame", call |-> m.call]  BY <3>1, <3>3 DEF Frame
      <4> HIDE DEF m
      <4> QED BY <2>2, <3>2, <4>1
    <3>4. CASE ~PreChecks(m, waiters[m.key])
      <4>1. rx'[c] = Rejected("precheck")  BY <3>1, <3>4
      <4> QED BY <1>2, <4>1
    <3> QED BY <3>3, <3>4
  <2>4. CASE ~(Listening(c) /\ waiters[m.key] = cur[c])
    <3>1. rx'[c] = rx[c]  BY <2>2, <2>4 DEF Resolved
    <3> QED BY <1>1, <2>2, <3>1
  <2> QED BY <2>3, <2>4
<1>9. CASE HandleError  BY <1>3, <1>9 DEF HandleError
<1>10. CASE Administrator
  <2>1. UNCHANGED <<cur, kind>>
    BY <1>10 DEF Administrator, Close, Destroy, StoreLevel, AbortTasks, ClosePort, Open, ResetTid, OpenPort
  <2>2. CASE StopAll("closed")  BY <1>3, <2>1, <2>2
  <2>3. CASE ~StopAll("closed")
    BY <1>1, <1>10, <2>1, <2>3
    DEF Administrator, Close, Destroy, StoreLevel, AbortTasks, ClosePort, Open, ResetTid, OpenPort
  <2> QED BY <2>2, <2>3
<1>11. CASE Environment
  BY <1>1, <1>11 DEF Environment, PortLost, ReceiveTail, DetachedWrite, Answer, ReceiveHead, Lose
<1>12. CASE UNCHANGED vars  BY <1>1, <1>12 DEF vars
<1> QED BY <1>5, <1>6, <1>7, <1>8, <1>9, <1>10, <1>11, <1>12 DEF Next, Step

LEMMA OutcomeInvHolds ==
  ASSUME FewCalls
  PROVE  Spec => []OutcomeInv
<1>1. Init => OutcomeInv
  BY DEF Init, OutcomeInv, OwnResponse, NotDropped, Pending
<1>2. MasterInv /\ OutcomeInv /\ [Next]_vars => OutcomeInv'  BY OutcomeStep
<1> QED BY <1>1, <1>2, MasterInvHolds, PTL DEF Spec

\* Over TCP no late, duplicate or foreign response ends a call, for any number of
\* callers, closes and dropped futures, until the ids are used up or reset.
THEOREM ResponsesAreOwn ==
  ASSUME FewCalls
  PROVE  Spec => []OwnResponse
<1>1. OutcomeInv => OwnResponse  BY DEF OutcomeInv
<1> QED BY <1>1, OutcomeInvHolds, PTL

\* session.start and session.stop of a call never take the waiter of another one
\* that awaits a response, in any mode.
THEOREM NobodyIsDropped ==
  ASSUME FewCalls
  PROVE  Spec => []NotDropped
<1>1. OutcomeInv => NotDropped  BY DEF OutcomeInv
<1> QED BY <1>1, OutcomeInvHolds, PTL

-----------------------------------------------------------------------------
(* The master implements RequestResponse *)

ToSend == {cur[c] : c \in {d \in Callers : pc[d] \in Unsent}}

LEMMA UnderwayIsCarried ==
  ASSUME TypeOK
  PROVE  Underway = {m.call : m \in Carried}
<1>1. framer \in Messages \/ framer.call = NoCall
  BY MessageTypes DEF TypeOK, Buffers, NoBytes, Orphan
<1>2. \A m \in Carried : m.call # NoCall  BY CarriedMessages
<1> QED BY <1>1, <1>2 DEF Underway, Carried, Framed, Buffered

CallsCarried == Underway = {m.call : m \in Carried}

LEMMA UnderwayNow == TypeOK => CallsCarried
BY UnderwayIsCarried DEF CallsCarried

LEMMA UnderwayNext == TypeOK' => CallsCarried'
BY UnderwayNow, PTL

\* What the service sees of a receiver.
OutcomesFit ==
  \A c \in Callers :
    /\ rx[c] = Pending => Outcome(c) = 0
    /\ rx[c].tag = "frame" => Outcome(c) = rx[c].call
    /\ rx[c].tag \in Reasons => Outcome(c) = -1
    /\ Outcome(c) \in {-1} \cup 0 .. MaxCalls

LEMMA OutcomesNow == TypeOK => OutcomesFit
<1> SUFFICES ASSUME TypeOK, NEW c \in Callers
             PROVE  /\ rx[c] = Pending => Outcome(c) = 0
                    /\ rx[c].tag = "frame" => Outcome(c) = rx[c].call
                    /\ rx[c].tag \in Reasons => Outcome(c) = -1
                    /\ Outcome(c) \in {-1} \cup 0 .. MaxCalls
  BY DEF OutcomesFit
<1>1. rx[c] \in Results  BY DEF TypeOK
<1>2. rx[c].tag = "frame" => rx[c] # Pending  BY DEF Pending
<1>3. rx[c].tag \in Reasons => rx[c] # Pending /\ rx[c].tag # "frame"  BY DEF Pending, Reasons
<1>4. rx[c].call \in 0 .. MaxCalls  BY <1>1, MasterAssumption DEF Results, Calls, NoCall
<1>5. CASE rx[c] = Pending
  <2>1. rx[c].tag = "pending"  BY <1>5 DEF Pending
  <2>2. Outcome(c) = 0  BY <1>5, <2>1 DEF Outcome
  <2> QED BY <1>5, <2>1, <2>2, MasterAssumption DEF Reasons
<1>6. CASE rx[c] # Pending /\ rx[c].tag = "frame"
  <2>1. Outcome(c) = rx[c].call  BY <1>6 DEF Outcome
  <2> QED BY <1>3, <1>4, <1>6, <2>1
<1>7. CASE rx[c] # Pending /\ rx[c].tag # "frame"
  <2>1. Outcome(c) = -1  BY <1>7 DEF Outcome
  <2> QED BY <1>7, <2>1
<1> QED BY <1>5, <1>6, <1>7

LEMMA OutcomesNext == TypeOK' => OutcomesFit'
BY OutcomesNow, PTL

\* A receiver keeps what it holds, or is told that there will be no response.
Told(c) == \/ rx'[c] = rx[c]
           \/ rx[c] = Pending /\ rx'[c].tag \in Reasons

LEMMA ToldIsRefused ==
  ASSUME TypeOK, TypeOK', NEW c \in Callers, Told(c), Outcome(c)' # Outcome(c)
  PROVE  Outcome(c) = 0 /\ Outcome(c)' = -1
<1>1. CASE rx'[c] = rx[c]
  <2>1. Outcome(c)' = Outcome(c)  BY <1>1 DEF Outcome
  <2> QED BY <2>1
<1>2. CASE rx[c] = Pending /\ rx'[c].tag \in Reasons
  BY <1>2, OutcomesNow, OutcomesNext DEF OutcomesFit
<1> QED BY <1>1, <1>2 DEF Told

LEMMA SettleStep ==
  ASSUME TypeOK, TypeOK', mode' = mode, UNCHANGED <<begun, cur>>,
         ToSend' \subseteq ToSend, Underway' \subseteq Underway, \A c \in Callers : Told(c)
  PROVE  Service!Settle
<1>1. \A c \in Callers : Outcome(c)' \in {-1} \cup 0 .. MaxCalls
  BY OutcomesNext DEF OutcomesFit
<1>2. \A c \in Callers : Outcome(c)' # Outcome(c) => Outcome(c) = 0 /\ Outcome(c)' = -1
  BY ToldIsRefused
<1>3. Tcp' = Tcp  BY DEF Tcp
<1> QED
  BY <1>1, <1>2, <1>3
  DEF Service!Settle, Service!MayRefuse, Service!Nothing, Service!Refused, ToSend

LEMMA ReturnStep ==
  ASSUME TypeOK, TypeOK', Numbering, mode' = mode, NEW c \in Callers, Return(c), pc[c] # "idle",
         begun' = begun, Underway' = Underway \/ (pc[c] = "sending" /\ Underway' = Underway \cup {cur[c]}),
         rx'[c] = Pending, \A d \in Callers \ {c} : Told(d)
  PROVE  Service!Return(c)
<1>1. \A d \in Callers : Outcome(d)' \in {-1} \cup 0 .. MaxCalls
  BY OutcomesNext DEF OutcomesFit
<1>2. \A d \in Callers \ {c} : Outcome(d)' # Outcome(d) => Outcome(d) = 0 /\ Outcome(d)' = -1
  BY ToldIsRefused
<1>3. Outcome(c)' = 0  BY OutcomesNext DEF OutcomesFit
<1>4. Tcp' = Tcp  BY DEF Tcp
<1>5. cur[c] # 0 /\ cur' = [cur EXCEPT ![c] = 0]  BY DEF Return, Numbering, NoCall
<1>6. ToSend' = ToSend \ {cur[c]}
  <2>1. \A d \in Callers : pc'[d] \in Unsent <=> pc[d] \in Unsent /\ d # c
    BY DEF Return, Goto, TypeOK, Unsent
  <2>2. \A d \in Callers : d # c => cur'[d] = cur[d] /\ cur[d] # cur[c]
    BY <1>5 DEF TypeOK, Numbering, NoCall
  <2> QED BY <2>1, <2>2 DEF ToSend
<1>7. Underway' \in {Underway, Underway \cup ({cur[c]} \cap ToSend)}
  <2>1. pc[c] = "sending" => cur[c] \in ToSend  BY DEF ToSend, Unsent
  <2>2. cur[c] \in ToSend => {cur[c]} \cap ToSend = {cur[c]}  OBVIOUS
  <2> QED BY <2>1, <2>2
<1> QED
  BY <1>1, <1>2, <1>3, <1>4, <1>5, <1>6, <1>7
  DEF Service!Return, Service!MayRefuse, Service!Nothing, Service!Refused, ToSend

LEMMA DeliverStep ==
  ASSUME MasterInv, TypeOK', HandleFrame, mode' = mode, NEW c \in Callers, Listening(c),
         waiters[Head(frames).key] = cur[c], PreChecks(Head(frames), cur[c])
  PROVE  Service!Deliver(c, Head(frames).call) /\ Head(frames).call \in Underway
<1> USE DEF MasterInv
<1> DEFINE m == Head(frames)
<1>1. 1 \in DOMAIN frames /\ m = frames[1] /\ m \in Framed /\ m \in Carried /\ m.kind # "broadcast"
  <2>1. frames \in Seq(Responses) /\ frames # <<>>  BY DEF HandleFrame, TypeOK
  <2>2. 1 \in DOMAIN frames /\ m = frames[1]  BY <2>1
  <2>3. m \in Framed  BY <2>2 DEF Framed
  <2> HIDE DEF m
  <2> QED BY <2>2, <2>3, CarriedMessages DEF Carried
<1>2. m.call # 0 /\ m.call \in Underway
  BY <1>1, CarriedMessages, UnderwayIsCarried DEF NoCall
<1>3. /\ UNCHANGED <<begun, pc, cur, detached, atSlave, wire, framer>> /\ frames' = Tail(frames)
      /\ rx' = Resolved({waiters[m.key]}, Frame(m))
  BY DEF HandleFrame, Dispatch, adminVars, portVars, linkVars
<1>4. cur[c] # 0 /\ rx[c] = Pending  BY DEF Listening, Numbering, NoCall
<1>5. /\ rx'[c] = Frame(m)
      /\ \A d \in Callers \ {c} : rx'[d] = rx[d]
  BY <1>3, <1>4 DEF Resolved, Numbering, NoCall
<1>6. Outcome(c) = 0 /\ Outcome(c)' = m.call
  <2>1. rx'[c].tag = "frame" /\ rx'[c].call = m.call  BY <1>5 DEF Frame
  <2>2. OutcomesFit /\ OutcomesFit'  BY OutcomesNow, OutcomesNext
  <2> HIDE DEF m
  <2> QED BY <1>4, <2>1, <2>2 DEF OutcomesFit
<1>7. \A d \in Callers \ {c} : Outcome(d)' = Outcome(d)
  BY <1>5 DEF Outcome
<1>8. [d \in Callers |-> Outcome(d)]' = [[d \in Callers |-> Outcome(d)] EXCEPT ![c] = m.call]
  BY <1>6, <1>7
<1>9. Underway' = Underway \ {m.call}
  <2>1. Carried' = Carried \ {m} /\ \A p \in Carried' : p.call # m.call
    <3>1. OneEach  BY DEF ServiceInv, TransitInv
    <3>2. \A i \in DOMAIN frames' : i + 1 \in DOMAIN frames /\ frames'[i] = frames[i + 1] /\ i + 1 # 1
      <4>1. frames \in Seq(Responses) /\ frames # <<>>  BY DEF HandleFrame, TypeOK
      <4> QED BY <1>3, <4>1
    <3>3. \A i \in DOMAIN frames : i = 1 \/ (i - 1 \in DOMAIN frames' /\ frames'[i - 1] = frames[i])
      <4>1. frames \in Seq(Responses) /\ frames # <<>>  BY DEF HandleFrame, TypeOK
      <4> QED BY <1>3, <4>1
    <3>4. Buffered' = Buffered  BY <1>3 DEF Buffered
    <3>5. \A p \in Framed' : p \in Framed /\ p.call # m.call
      BY <1>1, <3>1, <3>2 DEF Framed, OneEach
    <3>6. \A p \in Framed : p = m \/ p \in Framed'
      BY <1>1, <3>3 DEF Framed
    <3>7. \A p \in detached \cup atSlave \cup wire \cup Buffered : p.call # m.call
      BY <1>1, <3>1 DEF OneEach
    <3> HIDE DEF m
    <3> QED BY <1>3, <3>4, <3>5, <3>6, <3>7 DEF Carried
  <2>2. Underway = {p.call : p \in Carried}  BY UnderwayIsCarried
  <2>3. Underway' = {p.call : p \in Carried'}
    BY UnderwayNext DEF CallsCarried
  <2> HIDE DEF m
  <2> QED BY <1>1, <2>1, <2>2, <2>3
<1>10. IF Tcp THEN m.call = cur[c] ELSE \A d \in Callers \ {c} : cur[d] # m.call
  <2>1. CASE Tcp  BY <1>1, <2>1, Delivered
  <2>2. CASE ~Tcp
    <3>1. ~Concurrent  BY <2>2 DEF Tcp, Concurrent
    <3>2. TurnInv /\ TransitInv  BY <3>1 DEF ServiceInv
    <3>3. ASSUME NEW d \in Callers, cur[d] = m.call  PROVE d = c
      <4>1. pc[d] \in {"wait", "stop"} /\ pc[c] \in {"write", "sending", "wait"}
        BY <1>1, <3>2, <3>3 DEF TransitInv, Listening
      <4> QED BY <3>2, <4>1 DEF TurnInv
    <3> QED BY <2>2, <3>3
  <2> QED BY <2>1, <2>2
<1>11. Tcp' = Tcp /\ ToSend' = ToSend  BY <1>3 DEF Tcp, ToSend
<1> HIDE DEF m
<1>12. Service!Deliver(c, m.call)
  BY <1>2, <1>3, <1>4, <1>6, <1>8, <1>9, <1>10, <1>11
  DEF Service!Deliver, Service!Nothing, ToSend
<1> QED BY <1>2, <1>12 DEF m

LEMMA ServiceStep ==
  ASSUME MasterInv, MasterInv', [Next]_vars
  PROVE  [Service!Next]_(Service!vars)
<1> USE DEF MasterInv, callerVars, sessionVars, adminVars, portVars, linkVars, chanVars
<1>0. mode' = mode /\ Tcp' = Tcp  BY DEF Next, vars, Tcp
<1>1. Service!Settle => [Service!Next]_(Service!vars)  BY DEF Service!Next
<1>2. ASSUME NEW c \in Callers, Service!Call(c) \/ Service!Send(c) \/ Service!Return(c)
      PROVE  [Service!Next]_(Service!vars)
  BY <1>2 DEF Service!Next
<1>3. (\A c \in Callers : ~Send(c) /\ ~Cancel(c)) => Underway' \subseteq Underway
  <2>1. OneEach  BY DEF ServiceInv, TransitInv
  <2>2. CallsCarried /\ CallsCarried'  BY UnderwayNow, UnderwayNext
  <2> QED BY <2>1, <2>2, CarriedStep DEF CallsCarried
<1>4. ASSUME NEW c \in Callers, UNCHANGED <<begun, cur>>, pc[c] # "idle",
             Underway' \subseteq Underway, \A d \in Callers : Told(d),
             \E s \in Steps : Goto(c, s) /\ (s \in Unsent => pc[c] \in Unsent)
      PROVE  [Service!Next]_(Service!vars)
  <2>1. \A d \in Callers : pc'[d] \in Unsent => pc[d] \in Unsent
    BY <1>4 DEF Goto, TypeOK
  <2>2. ToSend' \subseteq ToSend  BY <1>4, <2>1 DEF ToSend
  <2> QED BY <1>0, <1>1, <1>4, <2>2, SettleStep
<1>5. ASSUME NEW c \in Callers, Return(c), pc[c] # "idle", begun' = begun,
             UNCHANGED <<atSlave, wire, framer, frames>>,
             detached' = detached \/ (pc[c] = "sending" /\ detached' = detached \cup {Request(c)}),
             rx'[c] = Pending, \A d \in Callers \ {c} : Told(d)
      PROVE  [Service!Next]_(Service!vars)
  <2>1. Underway' = Underway \/ (pc[c] = "sending" /\ Underway' = Underway \cup {cur[c]})
    <3>1. CASE detached' = detached  BY <1>5, <3>1 DEF Underway
    <3>2. CASE pc[c] = "sending" /\ detached' = detached \cup {Request(c)}
      <4> DEFINE rest == atSlave \cup wire \cup {frames[i] : i \in DOMAIN frames} \cup {framer}
      <4>1. Request(c).call = cur[c] /\ cur[c] # 0  BY <1>5 DEF Request, Numbering, NoCall
      <4>2. rest' = rest  BY <1>5
      <4>3. Underway = {m.call : m \in detached \cup rest} \ {0}  BY DEF Underway, NoCall
      <4>4. Underway' = {m.call : m \in detached' \cup rest'} \ {0}  BY DEF Underway, NoCall
      <4> HIDE DEF rest
      <4> QED BY <3>2, <4>1, <4>2, <4>3, <4>4
    <3> QED BY <1>5, <3>1, <3>2
  <2> QED BY <1>0, <1>2, <1>5, <2>1, ReturnStep
<1>6. ASSUME UNCHANGED <<begun, cur, pc>>, Underway' \subseteq Underway, \A d \in Callers : Told(d)
      PROVE  [Service!Next]_(Service!vars)
  <2>1. ToSend' = ToSend  BY <1>6 DEF ToSend
  <2> QED BY <1>0, <1>1, <1>6, <2>1, SettleStep
<1>7. ASSUME NEW W, NEW why \in Reasons
      PROVE  \A d \in Callers : \/ Resolved(W, Rejected(why))[d] = rx[d]
                                \/ rx[d] = Pending /\ Resolved(W, Rejected(why))[d].tag \in Reasons
  BY DEF Resolved, Rejected, Listening
<1>8. ASSUME NEW why \in {"closed", "framing"}, StopAll(why)  PROVE \A d \in Callers : Told(d)
  BY <1>7, <1>8 DEF StopAll, Told, Reasons
<1>9. ASSUME NEW c \in Callers, NEW k \in Requests, Call(c, k)  PROVE [Service!Next]_(Service!vars)
  <2>1. /\ pc[c] = "idle" /\ cur[c] = 0 /\ begun' = begun + 1
        /\ cur' = [cur EXCEPT ![c] = begun + 1]
        /\ pc' = [pc EXCEPT ![c] = IF Concurrent THEN "recheck" ELSE "queued"]
        /\ UNCHANGED <<rx, detached, atSlave, wire, framer, frames>>
    BY <1>9 DEF Call, Goto, Numbering, NoCall
  <2>2. ToSend' = ToSend \cup {begun + 1}
    <3>1. \A d \in Callers \ {c} : pc'[d] = pc[d] /\ cur'[d] = cur[d]  BY <2>1 DEF TypeOK
    <3>2. pc[c] \notin Unsent /\ pc'[c] \in Unsent /\ cur'[c] = begun + 1  BY <2>1 DEF TypeOK, Unsent
    <3> QED BY <3>1, <3>2 DEF ToSend
  <2>3. Underway' = Underway  BY <2>1 DEF Underway
  <2>4. \A d \in Callers : Outcome(d)' = Outcome(d)  BY <2>1 DEF Outcome
  <2>5. Service!Call(c)
    BY <1>0, <2>1, <2>2, <2>3, <2>4 DEF Service!Call, Service!Nothing, ToSend
  <2> QED BY <1>2, <2>5
<1>10. ASSUME NEW c \in Callers, Send(c)  PROVE [Service!Next]_(Service!vars)
  <2>1. pc[c] = "sending" /\ UNCHANGED <<begun, cur, rx, detached, wire, framer, frames>>
    BY <1>10 DEF Send
  <2>2. CASE UNCHANGED atSlave /\ Goto(c, "stop")
    <3>1. Underway' \subseteq Underway  BY <2>1, <2>2 DEF Underway
    <3> QED BY <1>4, <2>1, <2>2, <3>1 DEF Told, Steps, Unsent
  <2>3. CASE /\ Goto(c, IF kind[c] = "broadcast" THEN "stop" ELSE "wait")
             /\ atSlave' = atSlave \cup {Request(c)}
    <3>1. cur[c] # 0 /\ cur[c] \in ToSend
      BY <2>1 DEF Numbering, NoCall, ToSend, Unsent
    <3>2. ToSend' = ToSend \ {cur[c]}
      <4>1. \A d \in Callers : pc'[d] \in Unsent <=> pc[d] \in Unsent /\ d # c
        BY <2>3 DEF Goto, TypeOK, Unsent
      <4>2. \A d \in Callers : d # c => cur[d] # cur[c]
        BY <3>1 DEF Numbering, NoCall
      <4> QED BY <2>1, <4>1, <4>2 DEF ToSend
    <3>3. Underway' = Underway \cup {cur[c]}
      <4> DEFINE new == Request(c)
                 rest == detached \cup wire \cup {frames[i] : i \in DOMAIN frames} \cup {framer}
      <4>1. new.call = cur[c] /\ atSlave' = atSlave \cup {new}  BY <2>3 DEF Request
      <4>2. rest' = rest  BY <2>1
      <4>3. Underway = {m.call : m \in atSlave \cup rest} \ {0}  BY DEF Underway, NoCall
      <4>4. Underway' = {m.call : m \in atSlave' \cup rest'} \ {0}  BY DEF Underway, NoCall
      <4> HIDE DEF new, rest
      <4> QED BY <3>1, <4>1, <4>2, <4>3, <4>4
    <3>4. \A d \in Callers : Outcome(d)' = Outcome(d)  BY <2>1 DEF Outcome
    <3>5. Service!Send(c)
      BY <1>0, <2>1, <3>1, <3>2, <3>3, <3>4 DEF Service!Send, ToSend
    <3> QED BY <1>2, <3>5
  <2> QED BY <1>10, <2>2, <2>3 DEF Send
<1>11. ASSUME NEW c \in Callers, Caller(c), ~Send(c)  PROVE [Service!Next]_(Service!vars)
  <2>1. CASE Acquire(c) \/ Prepare(c) \/ Write(c) \/ Timeout(c)
    <3>1. Underway' \subseteq Underway
      BY <2>1, CarriedMessages DEF Acquire, Prepare, Flush, Write, Timeout, Underway, NoBytes, Orphan, NoCall
    <3>2. UNCHANGED <<begun, cur, rx>> /\ pc[c] # "idle"
      BY <2>1 DEF Acquire, Prepare, Write, Timeout
    <3>3. \E s \in Steps : Goto(c, s) /\ (s \in Unsent => pc[c] \in Unsent)
      BY <2>1 DEF Acquire, Prepare, Write, Timeout, Steps, Unsent
    <3> QED BY <1>4, <3>1, <3>2, <3>3 DEF Told
  <2>2. CASE Arm(c)
    <3>1. Underway' = Underway  BY <2>2 DEF Arm, Underway
    <3>2. \A d \in Callers : Told(d)
      BY <1>7, <2>2 DEF Arm, Told, Reasons
    <3>3. \E s \in Steps : Goto(c, s) /\ (s \in Unsent => pc[c] \in Unsent)
      BY <2>2 DEF Arm, Steps, Unsent
    <3> QED BY <1>4, <2>2, <3>1, <3>2, <3>3 DEF Arm
  <2>3. CASE Recheck(c)
    <3>1. CASE Return(c)
      <4>1. rx[c] = Pending  BY <2>3 DEF Recheck, ServiceInv, WaiterInv, Armed
      <4> QED BY <1>5, <2>3, <3>1, <4>1 DEF Recheck, Told
    <3>2. CASE Goto(c, "prepare") /\ UNCHANGED <<cur, kind, key>>
      <4>1. Underway' = Underway  BY <2>3 DEF Recheck, Underway
      <4>2. \E s \in Steps : Goto(c, s) /\ (s \in Unsent => pc[c] \in Unsent)
        BY <2>3, <3>2 DEF Recheck, Steps, Unsent
      <4> QED BY <1>4, <2>3, <3>2, <4>1, <4>2 DEF Recheck, Told
    <3> QED BY <2>3, <3>1, <3>2 DEF Recheck
  <2>4. CASE Receive(c) \/ Panic(c) \/ Cancel(c)
    <3>1. /\ rx' = [rx EXCEPT ![c] = Pending] /\ pc[c] # "idle" /\ Return(c) /\ begun' = begun
          /\ UNCHANGED <<atSlave, wire, framer, frames>>
          /\ detached' = detached \/ (pc[c] = "sending" /\ detached' = detached \cup {Request(c)})
      BY <2>4 DEF Receive, Panic, Cancel
    <3>2. rx'[c] = Pending /\ \A d \in Callers \ {c} : Told(d)  BY <3>1 DEF TypeOK, Told
    <3> QED BY <1>5, <3>1, <3>2
  <2>5. CASE Stop(c)
    <3>1. rx'[c] = Pending  BY <2>5, ResolvedType, ResultTypes DEF Stop, Reasons
    <3>2. \A d \in Callers \ {c} : rx'[d] = Resolved({waiters[key[c]]}, Rejected("dropped"))[d]
      BY <2>5 DEF Stop, Resolved
    <3>3. \A d \in Callers \ {c} : Told(d)
      BY <1>7, <3>2 DEF Told, Reasons
    <3> QED BY <1>5, <2>5, <3>1, <3>3 DEF Stop
  <2> QED BY <1>11, <2>1, <2>2, <2>3, <2>4, <2>5 DEF Caller, Prompt
<1>12. CASE HandleFrame
  <2> DEFINE m == Head(frames)
  <2>1. UNCHANGED <<begun, cur, pc>> /\ Underway' \subseteq Underway
    BY <1>12, <1>3 DEF HandleFrame, Send, Cancel, Return, Goto, TypeOK
  <2>2. CASE \E c \in Callers : Listening(c) /\ waiters[m.key] = cur[c] /\ PreChecks(m, cur[c])
    BY <1>0, <1>12, <2>2, DeliverStep DEF Service!Next
  <2>3. CASE ~\E c \in Callers : Listening(c) /\ waiters[m.key] = cur[c] /\ PreChecks(m, cur[c])
    <3> DEFINE r == IF PreChecks(m, waiters[m.key]) THEN Frame(m) ELSE Rejected("precheck")
    <3>1. rx' = Resolved({waiters[m.key]}, r)  BY <1>12 DEF HandleFrame, Dispatch
    <3>2. ASSUME NEW d \in Callers  PROVE Told(d)
      <4>1. CASE Listening(d) /\ waiters[m.key] = cur[d]
        <5>1. ~PreChecks(m, waiters[m.key])  BY <2>3, <4>1
        <5>2. rx'[d] = Rejected("precheck") /\ rx[d] = Pending
          BY <3>1, <4>1, <5>1 DEF Resolved, Listening
        <5> QED BY <5>2 DEF Told, Rejected, Reasons
      <4>2. CASE ~(Listening(d) /\ waiters[m.key] = cur[d])
        <5>1. rx'[d] = rx[d]  BY <3>1, <4>2 DEF Resolved
        <5> QED BY <5>1 DEF Told
      <4> QED BY <4>1, <4>2
    <3> QED BY <1>6, <2>1, <3>2
  <2> QED BY <2>2, <2>3
<1>13. CASE HandleError
  <2>1. Underway' = Underway  BY <1>13 DEF HandleError, Underway
  <2> QED BY <1>6, <1>8, <1>13, <2>1 DEF HandleError
<1>14. CASE Administrator
  <2>1. UNCHANGED <<begun, cur, pc>>
    BY <1>14 DEF Administrator, Close, Destroy, StoreLevel, AbortTasks, ClosePort, Open, ResetTid, OpenPort
  <2>2. Underway' \subseteq Underway
    BY <2>1, <1>3 DEF Send, Cancel, Return, Goto, TypeOK
  <2>3. CASE StopAll("closed")  BY <1>6, <1>8, <2>1, <2>2, <2>3
  <2>4. CASE ~StopAll("closed")
    <3>1. rx' = rx
      BY <1>14, <2>4
      DEF Administrator, Close, Destroy, StoreLevel, AbortTasks, ClosePort, Open, ResetTid, OpenPort
    <3> QED BY <1>6, <2>1, <2>2, <3>1 DEF Told
  <2> QED BY <2>3, <2>4
<1>15. CASE Environment
  <2>1. UNCHANGED <<begun, cur, pc, rx>>
    BY <1>15 DEF Environment, PortLost, ReceiveTail, DetachedWrite, Answer, ReceiveHead, Lose
  <2>2. Underway' \subseteq Underway  BY <2>1, <1>3 DEF Send, Cancel, Return, Goto, TypeOK
  <2> QED BY <1>6, <2>1, <2>2 DEF Told
<1>16. CASE UNCHANGED vars
  <2>1. UNCHANGED <<begun, cur, pc, rx>> /\ Underway' = Underway  BY <1>16 DEF vars, Underway
  <2> QED BY <1>6, <2>1 DEF Told
<1> QED BY <1>9, <1>10, <1>11, <1>12, <1>13, <1>14, <1>15, <1>16 DEF Next, Step

\* Keys, queue lock, table of waiters, channels and receive tasks together are a
\* request-response service: the master's steps are steps of RequestResponse.
THEOREM MasterRefinement ==
  ASSUME FewCalls
  PROVE  Spec => ImplementsService
<1>1. Init => Service!Init
  <2> SUFFICES ASSUME Init PROVE Service!Init  OBVIOUS
  <2>1. TypeOK
    BY MasterAssumption, FifoKey, ResultTypes
    DEF Init, TypeOK, Steps, AdmSteps, Requests, Buffers
  <2>2. \A c \in Callers : Outcome(c) = 0  BY <2>1, OutcomesNow DEF Init, OutcomesFit
  <2>3. Underway = {}  BY DEF Init, Underway, NoBytes, NoCall
  <2>4. {cur[c] : c \in {d \in Callers : pc[d] \in Unsent}} = {}  BY DEF Init, Unsent
  <2> QED BY <2>2, <2>3, <2>4 DEF Init, Service!Init, Service!Nothing, NoCall, Tcp
<1>2. MasterInv /\ MasterInv' /\ [Next]_vars => [Service!Next]_(Service!vars)  BY ServiceStep
<1> QED BY <1>1, <1>2, MasterInvHolds, PTL DEF Spec, ImplementsService, Service!Spec
=============================================================================
