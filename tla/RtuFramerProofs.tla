-------------------------- MODULE RtuFramerProofs ---------------------------
(***************************************************************************)
(* What a receiver makes of the bytes of an RTU line.                      *)
(*                                                                         *)
(* For frames and pools of any size, lines, chunks and timers of any       *)
(* number: the pool of a connection never overflows and is never found     *)
(* full after a flush; on a serial line no bytes stay in it without a      *)
(* timer or into the next burst; on a network frames without noise between *)
(* them are all found, wherever the chunks begin.                          *)
(*                                                                         *)
(* For objects of any ids and lengths, whenever they change: the pages of  *)
(* FC43/14, the only frames whose length is told by their contents object  *)
(* by object, are as long as their receiver predicts, and a master that    *)
(* follows them to the end has been given every object.                    *)
(*                                                                         *)
(* The frames on a line and the objects of a walk are of any number, so    *)
(* what is said of all of them goes by induction: over a set of numbers,   *)
(* from the least element that every such set has.                         *)
(***************************************************************************)
EXTENDS RtuFramer, DeviceIdentification, SequenceTheorems, WellFoundedInduction, TLAPS

-----------------------------------------------------------------------------
(* Induction over a set of numbers *)

\* Every set of naturals that is not empty has a least element.
LEMMA LeastElement ==
  ASSUME NEW T \in SUBSET Nat, T # {}
  PROVE  \E x \in T : \A y \in T : x <= y
<1> DEFINE R == OpToRel(<, Nat)
<1>1. IsWellFoundedOn(R, Nat)  BY NatLessThanWellFounded
<1>2. \A x, y \in Nat : x < y => <<x, y>> \in R  BY DEF OpToRel
<1> HIDE DEF R
<1>3. PICK x \in T : \A y \in T : ~ (<<y, x>> \in R)  BY <1>1, WFMin
<1>4. x \in Nat /\ \A y \in T : y \in Nat /\ ~ (y < x)  BY <1>2, <1>3
<1> QED  BY <1>4

\* Induction over the naturals, for a set.
LEMMA Inductive ==
  ASSUME NEW T, 0 \in T, \A n \in Nat : n \in T => n + 1 \in T
  PROVE  Nat \subseteq T
<1> SUFFICES ASSUME Nat \ T # {}  PROVE FALSE  OBVIOUS
<1> DEFINE U == Nat \ T
<1>1. U \in SUBSET Nat /\ U # {}  OBVIOUS
<1> HIDE DEF U
<1>2. PICK x \in U : \A y \in U : x <= y  BY <1>1, LeastElement
<1>3. x \in Nat /\ x \notin T /\ x # 0  BY <1>2 DEF U
<1>4. x - 1 \in Nat /\ (x - 1) + 1 = x /\ ~(x <= x - 1)  BY <1>3
<1>5. x - 1 \in T  BY <1>2, <1>4 DEF U
<1> QED  BY <1>3, <1>4, <1>5

LEMMA GreatestElement ==
  ASSUME NEW N \in Nat, NEW T \in SUBSET (0 .. N), T # {}
  PROVE  \E x \in T : \A y \in T : y <= x
<1> DEFINE U == {N - x : x \in T}
<1>1. U \in SUBSET Nat /\ U # {}
  <2>1. \A x \in T : x \in 0 .. N /\ N - x \in Nat  OBVIOUS
  <2> QED  BY <2>1
<1>2. PICK u \in U : \A v \in U : u <= v
  <2> HIDE DEF U
  <2> QED  BY <1>1, LeastElement
<1>3. PICK x \in T : u = N - x  BY <1>2
<1>4. \A y \in T : N - x <= N - y  BY <1>2, <1>3
<1> QED  BY <1>4

-----------------------------------------------------------------------------
(* The pool and its timers *)


\* Who is under the lock of `buffers`, and which timers there are.
LockInv ==
  /\ lock = Data <=> step \in {"copy", "flush_full", "flush_end"}
  /\ step = "copy" => entry
  /\ lock \in Events => t35[lock] = "running"
  /\ \A e \in Events : e > events \/ (e = events /\ step \notin {"idle", "store"}) => t35[e] = "none"

PoolInv ==
  /\ rest <= got /\ lo <= Copied + 1 /\ PoolLen <= Pool
  /\ ~entry => PoolLen = 0
  /\ step \in {"idle", "decide", "flush_end", "arm", "store"} => rest = 0
  /\ step = "relock" => PoolLen < Pool
  /\ "overflow" \notin errors

FramerInv == TypeOK /\ LockInv /\ PoolInv

\* The sizes, as numbers.
LEMMA FramerSizes ==
  /\ MaxFrame \in Nat \ {0} /\ MinFrame \in Nat \ {0} /\ MinFrame <= MaxFrame
  /\ Pool \in Nat /\ Pool > MaxFrame
  /\ Data = MaxEvents + 1 /\ Data \notin Events /\ Nobody \notin Events /\ Data # Nobody /\ Length \in Nat
BY FramerAssumption DEF Pool, Data, Events, Nobody

LEMMA StoppedTypes ==
  ASSUME NEW t \in [Events -> TimerStates], NEW e
  PROVE  /\ Stopped(t, e) \in [Events -> TimerStates]
         /\ \A i \in Events : t[i] \in {"none", "running"} => Stopped(t, e)[i] = t[i]
BY DEF Stopped, TimerStates

LEMMA RemoveTypes ==
  ASSUME Remove
  PROVE  entry' \in BOOLEAN /\ expired' \in BOOLEAN /\ timer' \in 0 .. MaxEvents /\ charTimer' \in 0 .. MaxEvents
<1>1. entry' \in BOOLEAN /\ expired' \in BOOLEAN  BY DEF Remove
<1>2. 0 \in 0 .. MaxEvents  BY FramerAssumption
<1>3. timer' \in 0 .. MaxEvents /\ charTimer' \in 0 .. MaxEvents  BY <1>2 DEF Remove, Nobody
<1> QED  BY <1>1, <1>3

LEMMA SetTimer ==
  ASSUME NEW t \in [Events -> TimerStates], NEW e, NEW x \in TimerStates
  PROVE  [t EXCEPT ![e] = x] \in [Events -> TimerStates]
<1>1. CASE e \in Events  BY <1>1
<1>2. CASE e \notin Events
  <2>1. [t EXCEPT ![e] = x] = t  BY <1>2
  <2> QED  BY <2>1
<1> QED  BY <1>1, <1>2

\* What process_data_event does with a chunk, up to the end of its copying.
LEMMA ReceiveStep ==
  ASSUME FramerInv, \/ \E k \in Positions : ReceiveChunk(k)
                    \/ ReportExpired \/ Copy \/ Relock
  PROVE  FramerInv'
<1> USE FramerSizes, FramerAssumption
        DEF FramerInv, TypeOK, LockInv, PoolInv, Copied, PoolLen, Steps, Kinds, bufferVars, timerVars, outVars
<1>1. ASSUME NEW k \in Positions, ReceiveChunk(k)  PROVE FramerInv'
  <2>1. k \in Nat /\ got + k <= Length /\ step = "idle" /\ rest = 0 /\ events < MaxEvents
    BY <1>1 DEF ReceiveChunk, Positions
  <2>2. CASE expired /\ PoolLen > 0
    <3>1. lo' \in 1 .. Length + 1 /\ got' \in 0 .. Length /\ rest' \in 0 .. Length /\ events' \in 0 .. MaxEvents
      BY <1>1, <2>1, <2>2 DEF ReceiveChunk, Clear
    <3>2. entry' \in BOOLEAN /\ expired' \in BOOLEAN  BY <1>1 DEF ReceiveChunk
    <3>11. TypeOK'  BY <1>1, <2>2, <3>1, <3>2 DEF ReceiveChunk
    <3>12. LockInv'
      <4>1. events' = events + 1 /\ t35' = t35 /\ step' = "expired" /\ lock = Nobody /\ lock' = Nobody
        BY <1>1, <2>2 DEF ReceiveChunk
      <4>2. \A e \in Events : e >= events + 1 => e > events  BY DEF Events
      <4> QED  BY <2>1, <4>1, <4>2 DEF Events
    <3>13. PoolInv'  BY <1>1, <2>1, <2>2 DEF ReceiveChunk, Clear
    <3> QED  BY <3>11, <3>12, <3>13
  <2>3. CASE ~(expired /\ PoolLen > 0)
    <3>1. t35' \in [Events -> TimerStates] /\ t15' \in [Events -> TimerStates]
      BY <1>1, <2>3, StoppedTypes DEF ReceiveChunk, CancelTimers
    <3>2. got' \in 0 .. Length /\ rest' \in 0 .. Length /\ events' \in 0 .. MaxEvents
          /\ lock' \in 0 .. Data /\ timer' \in 0 .. MaxEvents /\ charTimer' \in 0 .. MaxEvents
      BY <1>1, <2>1, <2>3 DEF ReceiveChunk, CancelTimers, Nobody
    <3>3. entry' \in BOOLEAN /\ expired' \in BOOLEAN  BY <1>1 DEF ReceiveChunk
    <3>11. TypeOK'  BY <1>1, <2>3, <3>1, <3>2, <3>3 DEF ReceiveChunk
    <3>12. LockInv'
      <4>1. events' = events + 1 /\ step' = "copy" /\ lock' = Data /\ entry' = TRUE
        BY <1>1, <2>3 DEF ReceiveChunk
      <4>2. \A e \in Events : t35[e] = "none" => t35'[e] = "none"
        BY <1>1, <2>3, StoppedTypes DEF ReceiveChunk, CancelTimers
      <4> QED  BY <2>1, <4>1, <4>2 DEF Events
    <3>13. PoolInv'  BY <1>1, <2>1, <2>3, <3>1 DEF ReceiveChunk, CancelTimers, Nobody
    <3> QED  BY <3>11, <3>12, <3>13
  <2> QED  BY <2>2, <2>3
<1>2. CASE ReportExpired
  <2>1. t35' \in [Events -> TimerStates] /\ t15' \in [Events -> TimerStates]
    BY <1>2, StoppedTypes DEF ReportExpired, CancelTimers
  <2>2. timer' \in 0 .. MaxEvents /\ charTimer' \in 0 .. MaxEvents /\ lock' \in 0 .. Data
    BY <1>2 DEF ReportExpired, CancelTimers, Nobody
  <2>3. entry' = TRUE /\ errors' \subseteq Kinds /\ "overflow" \notin errors'
    BY <1>2 DEF ReportExpired, Report
  <2>4. \A e \in Events : t35[e] = "none" => t35'[e] = "none"
    BY <1>2, StoppedTypes DEF ReportExpired, CancelTimers
  <2>5. TypeOK'  BY <1>2, <2>1, <2>2, <2>3 DEF ReportExpired
  <2>6. LockInv'  BY <1>2, <2>3, <2>4 DEF ReportExpired, Events
  <2>7. PoolInv'  BY <1>2, <2>3 DEF ReportExpired
  <2> QED  BY <2>5, <2>6, <2>7
<1>3. CASE Copy
  <2>1. CASE rest <= Pool - PoolLen  BY <1>3, <2>1 DEF Copy, Nobody
  <2>2. CASE rest > Pool - PoolLen  BY <1>3, <2>2 DEF Copy, Nobody
  <2> QED  BY <2>1, <2>2
<1>4. CASE Relock
  <2>1. PoolLen < Pool /\ UNCHANGED <<errors, rest, lo>>  BY <1>4 DEF Relock
  <2>2. entry' \in BOOLEAN  BY <1>4 DEF Relock
  <2>3. lock' \in 0 .. Data  BY <1>4 DEF Relock
  <2>11. TypeOK'  BY <1>4, <2>1, <2>2, <2>3 DEF Relock
  <2>12. LockInv'  BY <1>4 DEF Relock, Report
  <2>13. PoolInv'  BY <1>4 DEF Relock, Report
  <2> QED  BY <2>11, <2>12, <2>13
<1> QED  BY <1>1, <1>2, <1>3, <1>4

LEMMA OtherStep ==
  ASSUME FramerInv,
         \/ FlushFull \/ FlushNow \/ Arm \/ StoreTimers \/ Forget \/ Destroy
         \/ \E e \in Events : Wake35(e) \/ Wake15(e) \/ FlushOnSilence(e) \/ Expire(e)
  PROVE  FramerInv'
<1> USE FramerSizes, FramerAssumption
        DEF FramerInv, TypeOK, LockInv, PoolInv, Copied, PoolLen, Steps, TimerStates, bufferVars, timerVars,
            dataVars, outVars
<1>1. CASE FlushFull \/ FlushNow  BY <1>1 DEF FlushFull, FlushNow, FlushFrom, Nobody
<1>2. CASE Arm
  <2>1. t35' = [t35 EXCEPT ![events] = "sleeping"]  BY <1>2 DEF Arm
  <2>2. t35' \in [Events -> TimerStates]  BY <2>1, SetTimer
  <2>11. TypeOK'  BY <1>2, <2>2 DEF Arm
  <2>12. LockInv'
    <3>1. \A e \in Events : e # events => t35'[e] = t35[e]  BY <2>1
    <3>2. lock # events \/ lock \notin Events  BY <1>2 DEF Arm
    <3> QED  BY <1>2, <3>1, <3>2 DEF Arm
  <2>13. PoolInv'  BY <1>2 DEF Arm
  <2> QED  BY <2>11, <2>12, <2>13
<1>3. CASE StoreTimers  BY <1>3 DEF StoreTimers, Nobody
<1>4. CASE Forget
  <2>1. lo' \in 1 .. Length + 1 /\ forgets' \in 0 .. MaxForgets  BY <1>4 DEF Forget, Clear
  <2>11. TypeOK'  BY <1>4, <2>1, RemoveTypes DEF Forget
  <2>12. LockInv'  BY <1>4 DEF Forget, Clear, Remove, Nobody
  <2>13. PoolInv'  BY <1>4 DEF Forget, Clear, Remove, Nobody
  <2> QED  BY <2>11, <2>12, <2>13
<1>5. CASE Destroy
  <2>1. lo' \in 1 .. Length + 1  BY <1>5 DEF Destroy, Clear
  <2>2. alive' \in BOOLEAN  BY <1>5 DEF Destroy
  <2>11. TypeOK'  BY <1>5, <2>1, <2>2, RemoveTypes DEF Destroy
  <2>12. LockInv'  BY <1>5 DEF Destroy, Clear, Remove, Nobody
  <2>13. PoolInv'  BY <1>5 DEF Destroy, Clear, Remove, Nobody
  <2> QED  BY <2>11, <2>12, <2>13
<1>6. ASSUME NEW e \in Events, Wake35(e) \/ Wake15(e)  PROVE FramerInv'  BY <1>6 DEF Wake35, Wake15
<1>7. ASSUME NEW e \in Events, FlushOnSilence(e)  PROVE FramerInv'
  <2>1. e \in 0 .. Data /\ e # Data  BY DEF Events, Data
  <2> QED  BY <1>7, <2>1 DEF FlushOnSilence, Nobody
<1>8. ASSUME NEW e \in Events, Expire(e)  PROVE FramerInv'  BY <1>8 DEF Expire
<1> QED  BY <1>1, <1>2, <1>3, <1>4, <1>5, <1>6, <1>7, <1>8

\* A flush leaves less than a frame in the pool, on a serial line nothing.
LEMMA FlushLeaves ==
  ASSUME FramerInv, FlushPool
  PROVE  \/ /\ \E n \in Nat \ {0} : n <= PoolLen /\ Drain(n)
            /\ UNCHANGED Copied
         \/ \E first \in {lo, Copied + 1} :
              /\ Leave(first)
              /\ Copied + 1 - first < MaxFrame
              /\ Strict => first = Copied + 1
<1> USE FramerSizes, FramerAssumption DEF FramerInv, TypeOK, PoolInv, Copied, PoolLen
<1>1. UNCHANGED Copied  BY DEF FlushPool
<1>2. CASE PoolLen <= 0 /\ Leave(lo)  BY <1>2
<1>3. ASSUME NEW kind, GiveUp(kind)  PROVE Leave(Copied + 1)  BY <1>3 DEF GiveUp
<1>4. CASE PoolLen > 0 /\ TryExtract = "Frame" /\ Drain(line.len[lo])
  <2>1. lo \in Positions  BY <1>4 DEF Positions
  <2>2. line.len[lo] \in Nat  BY <2>1
  <2>3. line.len[lo] \in MinFrame .. MaxFrame /\ line.len[lo] <= PoolLen
    <3>1. PoolLen >= MinFrame /\ CheckExpected(line.len[lo]) = "Frame"
      BY <1>4 DEF TryExtract
    <3>2. line.len[lo] \in MinFrame .. MaxFrame  BY <3>1 DEF CheckExpected
    <3>3. ~(PoolLen < line.len[lo])  BY <3>1, <3>2 DEF CheckExpected
    <3>4. PoolLen \in Int  OBVIOUS
    <3> QED  BY <2>2, <3>2, <3>3, <3>4
  <2> QED  BY <1>1, <1>4, <2>2, <2>3
<1>5. CASE PoolLen > 0 /\ Drain(1)  BY <1>1, <1>5
<1>6. CASE PoolLen > 0 /\ Insufficient
  <2>1. CASE Drain(1)  BY <1>5, <1>6, <2>1
  <2>2. CASE PoolLen < MaxFrame /\ ~Strict /\ Leave(lo)  BY <2>2
  <2>3. CASE \E kind \in Kinds : GiveUp(kind)  BY <1>3, <2>3
  <2> QED  BY <1>6, <2>1, <2>2, <2>3 DEF Insufficient, Kinds
<1>7. CASE \E kind \in Kinds : GiveUp(kind)  BY <1>3, <1>7
<1> QED  BY <1>2, <1>4, <1>5, <1>6, <1>7 DEF FlushPool, Kinds

LEMMA FlushOutputs ==
  ASSUME FramerInv, FlushPool
  PROVE  published' \subseteq Positions /\ errors' \subseteq Kinds /\ "overflow" \notin errors'
<1>1. PoolLen > 0 => lo \in Positions
  BY FramerAssumption DEF FramerInv, TypeOK, PoolInv, PoolLen, Copied, Positions
<1> QED  BY <1>1 DEF FlushPool, Insufficient, GiveUp, Report, FramerInv, TypeOK, PoolInv, Kinds, outVars

LEMMA FlushStep ==
  ASSUME FramerInv, FlushPool
  PROVE  FramerInv'
<1> USE FramerSizes, FramerAssumption
        DEF FramerInv, TypeOK, LockInv, PoolInv, Copied, PoolLen, Steps, TimerStates
<1>1. /\ UNCHANGED <<mode, line, t15, got, rest, lenAfter, events, forgets, alive>>
      /\ lock \in Events \/ step \in {"flush_full", "flush_end"}
  BY DEF FlushPool
<1>2. ASSUME NEW n \in Nat \ {0}, n <= PoolLen, Drain(n)  PROVE FramerInv'
  BY <1>1, <1>2, FlushOutputs DEF Drain
<1>3. ASSUME NEW first \in {lo, Copied + 1}, Leave(first), Copied + 1 - first < MaxFrame  PROVE FramerInv'
  <2>1. lo' = first /\ lock' = Nobody
        /\ entry' \in BOOLEAN /\ expired' \in BOOLEAN /\ timer' \in 0 .. MaxEvents /\ charTimer' \in 0 .. MaxEvents
    <3>1. CASE first > Copied  BY <1>3, <3>1, RemoveTypes DEF Leave
    <3>2. CASE ~(first > Copied)  BY <1>3, <3>2 DEF Leave
    <3> QED  BY <3>1, <3>2
  <2>2. t35' \in [Events -> TimerStates]  BY <1>3 DEF Leave
  <2>3. step' = IF lock # Data THEN step ELSE IF step = "flush_full" THEN "relock" ELSE "idle"
    BY <1>3 DEF Leave
  <2>4. ~entry' => lo' = Copied + 1
    BY <1>3 DEF Leave, Remove
  <2>5. TypeOK'  BY <1>1, <2>1, <2>2, <2>3, FlushOutputs DEF Nobody
  <2>6. LockInv'
    <3>1. \A e \in Events : t35[e] = "none" => t35'[e] = "none"  BY <1>3 DEF Leave
    <3>2. lock' = Nobody /\ step' \notin {"copy", "flush_full", "flush_end"}  BY <1>1, <2>1, <2>3
    <3>3. step' = step \/ step \notin {"idle", "store"}  BY <1>1, <2>3
    <3> QED  BY <1>1, <3>1, <3>2, <3>3
  <2>7. PoolInv'  BY <1>1, <1>3, <2>1, <2>3, <2>4, FlushOutputs
  <2> QED  BY <2>5, <2>6, <2>7
<1> QED  BY <1>2, <1>3, FlushLeaves

LEMMA FramerInvariant == Spec => []FramerInv
<1>1. Init => FramerInv
  <2> SUFFICES ASSUME Init  PROVE FramerInv  OBVIOUS
  <2> USE FramerSizes, FramerAssumption DEF Init, Copied, PoolLen
  <2>1. 0 \in 0 .. Length /\ 1 \in 1 .. Length + 1 /\ 0 \in 0 .. MaxEvents /\ 0 \in 0 .. Pool
        /\ 0 \in 0 .. Data /\ 0 \in 0 .. MaxForgets
    OBVIOUS
  <2>2. t35 \in [Events -> TimerStates] /\ t15 \in [Events -> TimerStates]  BY DEF TimerStates
  <2>3. TypeOK  BY <2>1, <2>2 DEF TypeOK, Steps, Nobody
  <2>4. LockInv  BY DEF LockInv
  <2>5. PoolInv  BY DEF PoolInv
  <2> QED  BY <2>3, <2>4, <2>5 DEF FramerInv
<1>2. FramerInv /\ [Next]_vars => FramerInv'
  <2> SUFFICES ASSUME FramerInv, [Next]_vars  PROVE FramerInv'  OBVIOUS
  <2>1. CASE UNCHANGED vars
    BY <2>1 DEF vars, bufferVars, timerVars, dataVars, outVars, FramerInv, TypeOK, LockInv, PoolInv, Copied, PoolLen
  <2> QED  BY <2>1, ReceiveStep, OtherStep, FlushStep DEF Next
<1> QED  BY <1>1, <1>2, PTL DEF Spec

\* Every variable keeps its type, for any size of frames.
THEOREM TypeCorrect == Spec => []TypeOK
<1>1. FramerInv => TypeOK  BY DEF FramerInv
<1> QED  BY <1>1, FramerInvariant, PTL

\* The pool never holds more than its size, and the rest of a chunk is never thrown away.
THEOREM PoolNeverOverflows == Spec => []NeverOverflows
<1>1. FramerInv => NeverOverflows
  BY FramerSizes DEF FramerInv, TypeOK, PoolInv, NeverOverflows, PoolLen, Copied
<1> QED  BY <1>1, FramerInvariant, PTL

\* Once a chunk has come there is an event to arm a timer for, and bytes at rest have one.
StrandInv ==
  /\ step # "idle" => events \in Events
  /\ Strict /\ step \in {"idle", "store"} /\ PoolLen > 0 => \E e \in Events : t35[e] # "none"

LEMMA StrandStep ==
  ASSUME FramerInv, StrandInv, [Next]_vars
  PROVE  StrandInv'
<1> USE FramerSizes, FramerAssumption
        DEF FramerInv, TypeOK, LockInv, PoolInv, StrandInv, Strict, Copied, PoolLen, bufferVars, timerVars,
            dataVars, outVars
<1>1. ASSUME NEW k \in Positions, ReceiveChunk(k)  PROVE StrandInv'
  <2>1. events' \in Events  BY <1>1 DEF ReceiveChunk, Events
  <2>2. step' \in {"expired", "copy"}  BY <1>1 DEF ReceiveChunk
  <2> QED  BY <2>1, <2>2
<1>2. CASE ReportExpired \/ Copy \/ FlushFull \/ Relock
  BY <1>2 DEF ReportExpired, Copy, FlushFull, FlushFrom, Relock
<1>3. CASE FlushNow  BY <1>3 DEF FlushNow, FlushFrom
<1>4. CASE Arm  BY <1>4 DEF Arm, TimerStates
<1>5. CASE StoreTimers  BY <1>5 DEF StoreTimers
<1>6. ASSUME NEW e \in Events, Wake35(e) \/ Wake15(e) \/ Expire(e)  PROVE StrandInv'
  BY <1>6 DEF Wake35, Wake15, Expire
<1>7. ASSUME NEW e \in Events, FlushOnSilence(e)  PROVE StrandInv'
  BY <1>7 DEF FlushOnSilence
<1>8. CASE FlushPool
  <2>1. UNCHANGED <<mode, got, rest, events>>  BY <1>8 DEF FlushPool
  <2>2. ASSUME NEW n \in Nat \ {0}, n <= PoolLen, Drain(n)  PROVE StrandInv'
    BY <2>1, <2>2 DEF Drain
  <2>3. ASSUME NEW first \in {lo, Copied + 1}, Leave(first), Strict => first = Copied + 1  PROVE StrandInv'
    <3>1. Strict => PoolLen' = 0  BY <2>1, <2>3 DEF Leave
    <3>2. step' # "idle" => step # "idle"  BY <1>8, <2>3 DEF FlushPool, Leave
    <3> QED  BY <2>1, <3>1, <3>2
  <2> QED  BY <1>8, <2>2, <2>3, FlushLeaves
<1>9. CASE Forget \/ Destroy  BY <1>9 DEF Forget, Destroy, Clear
<1>10. CASE UNCHANGED vars  BY <1>10 DEF vars
<1> QED  BY <1>1, <1>2, <1>3, <1>4, <1>5, <1>6, <1>7, <1>8, <1>9, <1>10 DEF Next

\* On a serial line, while the data task rests, a timer is running down for the bytes of
\* the pool: whatever the bursts, and whatever timer was cancelled too late or too early.
THEOREM BytesNeverStrand == Spec => []NothingStrands
<1>1. Init => StrandInv  BY FramerAssumption DEF Init, StrandInv, PoolLen, Copied
<1>2. FramerInv /\ StrandInv /\ [Next]_vars => StrandInv'  BY StrandStep
<1>3. StrandInv => NothingStrands  BY DEF StrandInv, NothingStrands
<1> QED  BY <1>1, <1>2, <1>3, FramerInvariant, PTL DEF Spec

\* On a serial line what a silence has not made a frame is thrown away.
THEOREM BurstsAreSeparate == Spec => BurstsDontMix
<1> DEFINE Emptied == Strict /\ lock # Nobody /\ lock # Data /\ lock' = Nobody => PoolLen' = 0
<1>1. FramerInv /\ [Next]_vars => [Emptied]_vars
  <2> SUFFICES ASSUME FramerInv, Next, lock # Nobody, lock # Data, lock' = Nobody, Strict
               PROVE  PoolLen' = 0
    OBVIOUS
  <2>1. lock \in Events /\ step # "copy"
    BY FramerSizes, FramerAssumption DEF FramerInv, TypeOK, LockInv, Events, Nobody
  <2>2. FlushPool
    <3>1. ASSUME NEW e \in Events  PROVE ~Wake35(e) /\ ~Wake15(e) /\ ~FlushOnSilence(e) /\ ~Expire(e)
      BY DEF Wake35, Wake15, FlushOnSilence, Expire
    <3>2. ~Copy /\ ~Arm /\ ~ReportExpired /\ ~FlushFull /\ ~Relock /\ ~FlushNow /\ ~StoreTimers
      BY <2>1 DEF Copy, Arm, ReportExpired, FlushFull, Relock, FlushNow, FlushFrom, StoreTimers
    <3>3. ~Forget /\ ~Destroy /\ \A k \in Positions : ~ReceiveChunk(k)
      BY DEF Forget, Destroy, ReceiveChunk
    <3> QED  BY <3>1, <3>2, <3>3 DEF Next
  <2>3. ~\E n \in Nat \ {0} : Drain(n)  BY DEF Drain
  <2>4. lo' = Copied + 1 /\ UNCHANGED <<got, rest>>
    BY <2>2, <2>3, FlushLeaves DEF Leave, FlushPool
  <2> QED  BY <2>4 DEF FramerInv, TypeOK, PoolLen, Copied
<1> QED  BY <1>1, FramerInvariant, PTL DEF Spec, BurstsDontMix

-----------------------------------------------------------------------------
(* Lines of nothing but frames, on a network *)

\* What is left of the pool begins with a frame, and no frame lies across it: those before
\* it are published, those behind it are not all there when the task rests.
NetInv ==
  ~Strict /\ Clean /\ forgets = 0 /\ alive =>
    /\ \A e \in Events : t35[e] = "none" /\ t15[e] = "none"
    /\ ~expired /\ errors = {} /\ step \notin {"expired", "arm", "store"}
    /\ step \in {"full", "flush_full", "decide", "flush_end"} => entry
    /\ Begins(lo)
    /\ \A p \in line.intact : p < lo => p + line.len[p] <= lo
    /\ published = {p \in line.intact : p < lo}
    /\ step = "idle" => \A p \in line.intact : p >= lo => p + line.len[p] - 1 > got

\* After a frame nothing begins before its end: whatever begins further on is reached
\* frame by frame.
LEMMA NextFrame ==
  ASSUME FramerInv, NetInv, ~Strict, Clean, forgets = 0, alive, NEW p \in line.intact, p > lo
  PROVE  lo \in line.intact /\ p >= lo + line.len[lo]
<1>1. line.intact \subseteq Positions /\ Positions \subseteq Nat /\ lo \in Nat
      /\ \A q \in line.intact : q \in Nat /\ line.len[q] \in Nat /\ line.len[q] > 0 /\ Begins(q)
  BY FramerAssumption DEF FramerInv, TypeOK, Positions, Clean
<1> DEFINE T == {q \in line.intact : q > lo}
<1>2. T \in SUBSET Nat /\ T # {}  BY <1>1
<1> HIDE DEF T
<1>3. PICK least \in T : \A q \in T : least <= q  BY <1>2, LeastElement
<1>4. PICK q \in line.intact : q + line.len[q] = least
  <2>1. least \in line.intact /\ least # 1
    <3>1. least \in line.intact /\ least > lo  BY <1>3 DEF T
    <3> QED  BY <3>1, FramerAssumption DEF FramerInv, TypeOK
  <2> QED  BY <1>1, <2>1 DEF Begins
<1>5. q = lo
  <2>1. q < least /\ least > lo  BY <1>1, <1>3, <1>4 DEF T
  <2>2. ~(q > lo)
    <3>1. q > lo => q \in T  BY DEF T
    <3> QED  BY <1>1, <1>2, <1>3, <2>1, <3>1
  <2>3. ~(q < lo)  BY <1>1, <1>2, <1>3, <1>4, <2>1 DEF NetInv
  <2> QED  BY <1>1, <2>2, <2>3
<1> QED  BY <1>1, <1>2, <1>3, <1>4, <1>5 DEF T

LEMMA NetFlush ==
  ASSUME FramerInv, NetInv, FlushPool
  PROVE  NetInv'
<1> SUFFICES ASSUME ~Strict, Clean, forgets = 0, alive
             PROVE  NetInv'
  BY DEF FlushPool, NetInv, Strict, Clean, Begins
<1> DEFINE n == line.len[lo]
<1>1. UNCHANGED <<mode, line, t15, got, rest, lenAfter, events, forgets, alive>>  BY DEF FlushPool
<1>2. /\ line.intact \subseteq Positions /\ Positions \subseteq Nat /\ lo \in Nat \ {0} /\ got \in Nat
      /\ rest \in Nat /\ rest <= got /\ Length \in Nat /\ got <= Length
      /\ \A q \in line.intact : q \in Nat /\ line.len[q] \in Nat /\ line.len[q] > 0 /\ Begins(q)
      /\ MinFrame \in Nat /\ MaxFrame \in Nat
  BY FramerAssumption DEF FramerInv, TypeOK, PoolInv, Positions, Clean
<1>3. /\ \A e \in Events : t35[e] = "none" /\ t15[e] = "none"
      /\ ~expired /\ errors = {}
      /\ Begins(lo)
      /\ \A p \in line.intact : p < lo => p + line.len[p] <= lo
      /\ published = {p \in line.intact : p < lo}
  BY DEF NetInv
<1>4. lock = Data /\ step \in {"flush_full", "flush_end"} /\ (step = "flush_end" => rest = 0) /\ entry
  BY <1>3 DEF FlushPool, FramerInv, LockInv, PoolInv, NetInv
<1>5. PoolLen > 0 => /\ lo \in Positions /\ n \in MinFrame .. MaxFrame /\ n \in Nat
                     /\ line.need[lo] \in Nat /\ line.need[lo] <= n /\ MinFrame > 0
                     /\ lo + n - 1 <= Length => lo \in line.intact
  <2> SUFFICES ASSUME PoolLen > 0  PROVE lo \in Positions
    BY <1>2, <1>3, FramerAssumption DEF Clean, FramerInv, TypeOK
  <2> QED  BY <1>2 DEF PoolLen, Copied, Positions
<1>6. ASSUME Leave(lo), UNCHANGED outVars, \A p \in line.intact : p >= lo => p + line.len[p] - 1 > Copied
      PROVE  NetInv'
  <2>1. lo' = lo /\ UNCHANGED <<published, errors>>  BY <1>6 DEF Leave, outVars
  <2>2. step' \in {"relock", "idle"} /\ (step' = "idle" => rest = 0)  BY <1>4, <1>6 DEF Leave
  <2>3. ~expired'  BY <1>3, <1>6 DEF Leave, Remove
  <2>4. \A e \in Events : t35'[e] = "none"  BY <1>3, <1>6 DEF Leave
  <2>5. step' = "idle" => \A p \in line.intact : p >= lo => p + line.len[p] - 1 > got
    BY <1>2, <1>6, <2>2 DEF Copied
  <2> QED  BY <1>1, <1>3, <2>1, <2>2, <2>3, <2>4, <2>5 DEF NetInv, Begins
<1>7. CASE PoolLen <= 0 /\ Leave(lo) /\ UNCHANGED outVars
  <2>1. \A p \in line.intact : p >= lo => p + line.len[p] - 1 > Copied
    BY <1>2, <1>7 DEF PoolLen, Copied
  <2> QED  BY <1>6, <1>7, <2>1
<1>8. CASE PoolLen > 0
  <2>1. CASE TryExtract = "Frame" /\ Drain(n) /\ published' = published \cup {lo} /\ UNCHANGED errors
    <3>1. lo \in line.intact
      BY <2>1 DEF TryExtract, CheckExpected
    <3>2. lo' = lo + n /\ UNCHANGED <<entry, expired, t35, step>>  BY <2>1 DEF Drain
    <3>3. \A p \in line.intact : p < lo + n <=> p <= lo
      BY <1>2, <1>5, <1>8, NextFrame
    <3>4. Begins(lo)'  BY <1>1, <3>1, <3>2 DEF Begins
    <3>5. \A p \in line.intact : p < lo + n => p + line.len[p] <= lo + n
      BY <1>2, <1>3, <1>5, <1>8, <3>3
    <3>6. published' = {p \in line.intact : p < lo + n}
      BY <1>2, <1>3, <2>1, <3>1, <3>3
    <3> QED  BY <1>1, <1>3, <1>4, <2>1, <3>2, <3>4, <3>5, <3>6 DEF NetInv
  <2>2. CASE TryExtract = "Insufficient" /\ Insufficient
    <3>1. PoolLen < n /\ PoolLen < MaxFrame
      <4>1. PoolLen < MinFrame \/ PoolLen < line.need[lo] \/ PoolLen < n
        BY <1>5, <1>8, <2>2 DEF TryExtract, CheckExpected
      <4> QED  BY <1>2, <1>5, <1>8, <4>1 DEF PoolLen, Copied
    <3>2. Leave(lo) /\ UNCHANGED outVars
      BY <1>2, <1>3, <2>2, <3>1 DEF Insufficient, PoolLen, Copied
    <3>3. \A p \in line.intact : p >= lo => p + line.len[p] - 1 > Copied
      BY <1>2, <1>5, <1>8, <3>1, NextFrame DEF PoolLen, Copied
    <3> QED  BY <1>6, <3>2, <3>3
  <2>3. TryExtract \notin {"Invalid", "Skip"}
    <3>1. TryExtract # "Invalid"  BY <1>5, <1>8 DEF TryExtract, CheckExpected
    <3>2. CASE TryExtract = "Skip"
      <4>1. ~(PoolLen < n) /\ lo \notin line.intact
        BY <1>5, <1>8, <3>2 DEF TryExtract, CheckExpected
      <4> QED  BY <1>2, <1>5, <1>8, <4>1 DEF PoolLen, Copied
    <3> QED  BY <3>1, <3>2
  <2>4. ~(PoolLen <= 0)  BY <1>2, <1>8 DEF PoolLen, Copied
  <2> QED  BY <1>8, <2>1, <2>2, <2>3, <2>4 DEF FlushPool
<1> QED  BY <1>7, <1>8 DEF FlushPool

LEMMA NetOther ==
  ASSUME FramerInv, NetInv, [Next]_vars, ~FlushPool
  PROVE  NetInv'
<1> SUFFICES ASSUME ~Strict', Clean', forgets' = 0, alive'
             PROVE  NetInv'
  BY DEF NetInv
<1>1. UNCHANGED <<mode, line>> /\ forgets = 0 /\ alive /\ ~Forget /\ ~Destroy
  <2>1. ~Forget /\ ~Destroy
    <3>1. forgets \in Nat  BY FramerAssumption DEF FramerInv, TypeOK
    <3>2. Forget => forgets' = forgets + 1  BY DEF Forget
    <3>3. Destroy => ~alive'  BY DEF Destroy
    <3> QED  BY <3>1, <3>2, <3>3
  <2>2. CASE UNCHANGED vars  BY <2>1, <2>2 DEF vars, bufferVars
  <2>3. CASE \E k \in Positions : ReceiveChunk(k)  BY <2>1, <2>3 DEF ReceiveChunk
  <2>4. CASE ReportExpired \/ Copy \/ FlushFull \/ Relock \/ FlushNow \/ Arm \/ StoreTimers
    BY <2>1, <2>4 DEF ReportExpired, Copy, FlushFull, FlushFrom, Relock, FlushNow, Arm, StoreTimers
  <2>5. CASE \E e \in Events : Wake35(e) \/ Wake15(e) \/ FlushOnSilence(e) \/ Expire(e)
    BY <2>1, <2>5 DEF Wake35, Wake15, FlushOnSilence, Expire
  <2> QED  BY <2>1, <2>2, <2>3, <2>4, <2>5 DEF Next
<1>2. ~Strict /\ Clean  BY <1>1 DEF Strict, Clean, Begins
<1>3. /\ \A e \in Events : t35[e] = "none" /\ t15[e] = "none"
      /\ ~expired /\ errors = {} /\ step \notin {"expired", "arm", "store"}
      /\ step \in {"full", "flush_full", "decide", "flush_end"} => entry
      /\ Begins(lo)
      /\ \A p \in line.intact : p < lo => p + line.len[p] <= lo
      /\ published = {p \in line.intact : p < lo}
      /\ step = "idle" => \A p \in line.intact : p >= lo => p + line.len[p] - 1 > got
  BY <1>1, <1>2 DEF NetInv
<1>4. ASSUME UNCHANGED <<lo, published, errors>>, ~expired', step' \notin {"expired", "arm", "store"},
             step' \in {"full", "flush_full", "decide", "flush_end"} => entry',
             \A e \in Events : t35'[e] = "none" /\ t15'[e] = "none",
             step' = "idle" => step = "idle" /\ UNCHANGED got
      PROVE  NetInv'
  BY <1>1, <1>3, <1>4 DEF NetInv, Begins
<1>5. ASSUME NEW k \in Positions, ReceiveChunk(k)  PROVE NetInv'
  <2>1. UNCHANGED <<lo, published, errors>> /\ ~expired' /\ step' = "copy" /\ CancelTimers
    BY <1>3, <1>5 DEF ReceiveChunk, outVars
  <2>2. \A e \in Events : t35'[e] = "none" /\ t15'[e] = "none"
    BY <1>3, <2>1, StoppedTypes DEF CancelTimers, FramerInv, TypeOK
  <2> QED  BY <1>4, <2>1, <2>2
<1>6. CASE Copy
  <2>1. entry  BY <1>6 DEF Copy, FramerInv, LockInv
  <2> QED  BY <1>3, <1>4, <1>6, <2>1 DEF Copy, bufferVars, timerVars, outVars
<1>7. CASE FlushFull \/ FlushNow
  BY <1>3, <1>4, <1>7 DEF FlushFull, FlushNow, FlushFrom, bufferVars, timerVars, outVars
<1>8. CASE Relock
  <2>1. UNCHANGED <<errors, lo>>
    BY <1>8, FramerSizes DEF Relock, FramerInv, TypeOK, PoolInv, PoolLen, Copied
  <2> QED  BY <1>3, <1>4, <1>8, <2>1 DEF Relock, timerVars
<1>9. ~ReportExpired /\ ~Arm /\ ~StoreTimers
  BY <1>2, <1>3 DEF ReportExpired, Arm, StoreTimers
<1>10. \A e \in Events : ~Wake35(e) /\ ~Wake15(e) /\ ~FlushOnSilence(e) /\ ~Expire(e)
  BY <1>3 DEF Wake35, Wake15, FlushOnSilence, Expire
<1>11. CASE UNCHANGED vars
  BY <1>3, <1>4, <1>11 DEF vars, bufferVars, timerVars, dataVars, outVars
<1> QED  BY <1>1, <1>5, <1>6, <1>7, <1>8, <1>9, <1>10, <1>11 DEF Next

\* On a network, frames that follow each other without noise are all published, each once
\* its last byte has come, and nothing else is reported, however they were cut into chunks.
THEOREM CleanLinesAreFramed == Spec => []CleanLineIsFramed
<1>1. Init => NetInv
  <2> SUFFICES ASSUME Init, Clean  PROVE NetInv  BY DEF NetInv
  <2>1. line.intact \subseteq Positions /\ \A p \in line.intact : p >= 1 /\ line.len[p] \in Nat \ {0}
        /\ p + line.len[p] - 1 > 0
    BY FramerAssumption DEF Init, Clean, Positions
  <2>2. Begins(lo) /\ published = {p \in line.intact : p < lo}
    BY <2>1 DEF Init, Begins, Positions
  <2> QED  BY <2>1, <2>2 DEF Init, NetInv, Positions
<1>2. FramerInv /\ NetInv /\ [Next]_vars => NetInv'  BY NetFlush, NetOther
<1>3. FramerInv /\ NetInv => CleanLineIsFramed
  <2> SUFFICES ASSUME FramerInv, NetInv, ~Strict, Clean, forgets = 0, alive, step = "idle"
               PROVE  published = {p \in line.intact : p + line.len[p] - 1 <= got} /\ errors = {}
    BY DEF CleanLineIsFramed
  <2>1. line.intact \subseteq Positions /\ lo \in Nat /\ got \in Nat /\ lo <= got + 1
        /\ \A q \in line.intact : line.len[q] \in Nat
    BY FramerAssumption DEF FramerInv, TypeOK, PoolInv, Copied
  <2>2. \A p \in line.intact : p < lo <=> p + line.len[p] - 1 <= got
    BY <2>1 DEF NetInv, Positions
  <2> QED  BY <2>2 DEF NetInv
<1> QED  BY <1>1, <1>2, <1>3, FramerInvariant, PTL DEF Spec

-----------------------------------------------------------------------------
(* The walk of the handler over the objects *)

LEMMA KnownIds ==
  /\ \A i \in Known : i \in Nat /\ i <= 255 /\ i \in 0 .. 255
  /\ 0 \in Known /\ \A obj : Served(obj) \subseteq Known
BY IdentificationAssumption DEF Known, Served

LEMMA SizesOfObjects ==
  ASSUME NEW obj \in Objects, NEW i
  PROVE  Size(obj, i) \in Nat
BY IdentificationAssumption DEF Size, Objects, NoSize

\* The objects are walked in ascending order, none left out.
LEMMA Ascending ==
  ASSUME NEW i \in Known \cup {End}, i # 0
  PROVE  /\ Before[i] \in Known /\ Before[i] < i
         /\ \A j \in Known : j < i => j <= Before[i]
<1> DEFINE T == {j \in Known : j < i}
<1>1. i \in Nat /\ 0 \in T /\ T \in SUBSET (0 .. 255) /\ 255 \in Nat
  <2>1. i \in Nat /\ i > 0  BY KnownIds DEF End
  <2>2. 0 \in T /\ T \subseteq 0 .. 255  BY <2>1, KnownIds
  <2> QED  BY <2>1, <2>2
<1>2. \E x \in T : \A y \in T : y <= x
  <2> HIDE DEF T
  <2> QED  BY <1>1, GreatestElement
<1>3. Last(T) \in T /\ \A y \in T : y <= Last(T)
  <2> HIDE DEF T
  <2> QED  BY <1>2 DEF Last
<1>4. Before[i] = Last(T)  BY DEF Before
<1> QED  BY <1>3, <1>4

LEMMA WalkType ==
  ASSUME NEW c, NEW obj \in Objects, NEW id \in 0 .. 255, NEW w \in Walks
  PROVE  Walk(c, obj, id)[w] \in Walks
<1> DEFINE total == w.total + 2 + Size(obj, id)
<1>1. total \in Nat /\ Append(w.ids, id) \in Seq(0 .. 255)  BY SizesOfObjects DEF Walks
<1>2. Walk(c, obj, id)[w] =
        IF w.failed \/ w.full THEN w
        ELSE IF Size(obj, id) > MaxValue THEN [w EXCEPT !.failed = TRUE]
        ELSE IF total > MaxPage THEN [w EXCEPT !.last = IF @ = 0 THEN id ELSE @]
        ELSE [w EXCEPT !.total = total, !.ids = Append(@, id), !.full = c = 4]
  BY DEF Walk
<1> HIDE DEF total
<1>3. Size(obj, id) > MaxValue => [w EXCEPT !.failed = TRUE] \in Walks  BY DEF Walks
<1>4. [w EXCEPT !.last = IF @ = 0 THEN id ELSE @] \in Walks  BY DEF Walks
<1>5. [w EXCEPT !.total = total, !.ids = Append(@, id), !.full = c = 4] \in Walks
  <2>1. (c = 4) \in BOOLEAN  OBVIOUS
  <2> QED  BY <1>1, <2>1 DEF Walks
<1> QED  BY <1>2, <1>3, <1>4, <1>5

\* What a walk has collected on coming to i, from what it had on coming to the one before.
Reached(c, obj, id, i, w) ==
  IF Before[i] \in Served(obj) /\ Before[i] >= id THEN Walk(c, obj, Before[i])[w] ELSE w
Stops == Known \cup {End}

LEMMA ReachedType ==
  ASSUME NEW c, NEW obj \in Objects, NEW id, NEW i \in Stops \ {0}, NEW w \in Walks
  PROVE  Reached(c, obj, id, i, w) \in Walks
<1>1. Before[i] \in 0 .. 255  BY Ascending, KnownIds DEF Stops
<1> QED  BY <1>1, WalkType DEF Reached

\* The walk is defined: there is a function that the recursion is true of.
LEMMA WalkIsDefined ==
  ASSUME NEW c, NEW obj \in Objects, NEW id
  PROVE  \E walk \in [Stops -> Walks] :
           /\ walk[0] = Empty /\ walk[End] = WalkFrom(c, obj, id)
           /\ \A i \in Stops \ {0} : walk[i] = Reached(c, obj, id, i, walk[Before[i]])
<1> DEFINE Upto(n) == {i \in Stops : i <= n}
           Value(f, i) == IF i = 0 THEN Empty ELSE Reached(c, obj, id, i, f[Before[i]])
           T == {n \in Nat : \E f \in [Upto(n) -> Walks] : \A i \in Upto(n) : f[i] = Value(f, i)}
<1>1. /\ \A i \in Stops : i \in Nat /\ i <= 256
      /\ 0 \in Stops /\ End \in Stops /\ Empty \in Walks
      /\ \A i \in Stops \ {0} : Before[i] \in Stops /\ Before[i] < i
  <2>1. Empty \in Walks  BY DEF Empty, Walks
  <2>2. \A i \in Stops : i \in Nat /\ i <= 256  BY KnownIds DEF Stops, End
  <2>3. \A i \in Stops \ {0} : Before[i] \in Stops /\ Before[i] < i  BY Ascending DEF Stops
  <2> QED  BY <2>1, <2>2, <2>3, KnownIds DEF Stops
<1>2. 0 \in T
  <2> DEFINE f == [i \in Upto(0) |-> Empty]
  <2>1. Upto(0) = {0}  BY <1>1
  <2>2. f \in [Upto(0) -> Walks] /\ \A i \in Upto(0) : f[i] = Value(f, i)  BY <1>1, <2>1
  <2> QED  BY <2>2
<1>3. ASSUME NEW n \in Nat, n \in T  PROVE n + 1 \in T
  <2>1. PICK f \in [Upto(n) -> Walks] : \A i \in Upto(n) : f[i] = Value(f, i)  BY <1>3
  <2> DEFINE g == [i \in Upto(n + 1) |-> IF i <= n THEN f[i] ELSE Value(f, i)]
  <2>2. \A i \in Upto(n + 1) : i <= n => i \in Upto(n)  BY <1>1
  <2>3. \A i \in Upto(n + 1) : i # 0 => Before[i] \in Upto(n) /\ Before[i] \in Upto(n + 1) /\ Before[i] <= n
    BY <1>1
  <2>4. \A i \in Upto(n + 1) : Value(f, i) = Value(g, i)
    <3> SUFFICES ASSUME NEW i \in Upto(n + 1), i # 0  PROVE g[Before[i]] = f[Before[i]]  OBVIOUS
    <3> QED  BY <2>3
  <2>5. \A i \in Upto(n + 1) : g[i] = Value(g, i)  BY <2>1, <2>2, <2>4
  <2>6. \A i \in Upto(n + 1) : g[i] \in Walks
    <3> SUFFICES ASSUME NEW i \in Upto(n + 1)  PROVE g[i] \in Walks  OBVIOUS
    <3>1. CASE i <= n  BY <2>1, <2>2, <3>1
    <3>2. CASE i = 0  BY <1>1, <3>2
    <3>3. CASE ~(i <= n) /\ i # 0
      <4>1. f[Before[i]] \in Walks  BY <2>1, <2>3, <3>3
      <4> QED  BY <3>3, <4>1, ReachedType
    <3> QED  BY <3>1, <3>2, <3>3
  <2>7. g \in [Upto(n + 1) -> Walks]  BY <2>6
  <2> HIDE DEF g
  <2> QED  BY <2>5, <2>7
<1>4. 256 \in T
  <2> HIDE DEF T
  <2> QED  BY <1>2, <1>3, Inductive
<1>5. Upto(256) = Stops  BY <1>1
<1>6. PICK f \in [Stops -> Walks] : \A i \in Stops : f[i] = Value(f, i)  BY <1>4, <1>5
<1> DEFINE Body(h) == [i \in Known \cup {End} |->
             IF i = 0 THEN Empty
             ELSE IF Before[i] \in Served(obj) /\ Before[i] >= id
                  THEN Walk(c, obj, Before[i])[h[Before[i]]]
                  ELSE h[Before[i]]]
           walk == CHOOSE h : h = Body(h)
<1>7. f = Body(f)
  <2>1. f = [i \in Stops |-> f[i]]  BY <1>6
  <2> QED  BY <1>6, <2>1 DEF Stops, Reached
<1>8. walk = Body(walk)
  <2> HIDE DEF Body
  <2> QED  BY <1>7
<1>9. WalkFrom(c, obj, id) = walk[End]  BY DEF WalkFrom
<1> HIDE DEF walk
<1>10. \A i \in Stops : walk[i] = Value(walk, i)  BY <1>8 DEF Stops, Reached
<1>11. walk = [i \in Stops |-> walk[i]]
  <2>1. walk = Body(walk)  BY <1>8
  <2> QED  BY <2>1 DEF Stops
<1> DEFINE S == {n \in Nat : \A i \in Stops : i <= n => walk[i] \in Walks}
<1>12. 0 \in S  BY <1>1, <1>10
<1>13. ASSUME NEW n \in Nat, n \in S  PROVE n + 1 \in S
  <2> SUFFICES ASSUME NEW i \in Stops, i = n + 1  PROVE walk[i] \in Walks  BY <1>1, <1>13
  <2>1. Before[i] \in Stops /\ Before[i] <= n
    <3>1. i \in Stops \ {0}  OBVIOUS
    <3>2. Before[i] \in Stops /\ Before[i] < i  BY <1>1, <3>1
    <3>3. Before[i] \in Nat  BY <1>1, <3>2
    <3> QED  BY <3>2, <3>3
  <2>2. walk[Before[i]] \in Walks  BY <1>13, <2>1
  <2> QED  BY <1>1, <1>10, <2>2, ReachedType
<1>14. 256 \in S
  <2> HIDE DEF S
  <2> QED  BY <1>12, <1>13, Inductive
<1>15. \A i \in Stops : walk[i] \in Walks  BY <1>5, <1>14
<1>16. walk \in [Stops -> Walks]  BY <1>11, <1>15
<1> QED  BY <1>1, <1>9, <1>10, <1>16

\* Where each object ends on a page, and with it all of them.
RunsTo(sum, obj, ids, end) ==
  /\ sum[0] = 0 /\ sum[Len(ids)] = end
  /\ \A k \in 0 .. Len(ids) : sum[k] \in Nat /\ sum[k] <= end
  /\ \A k \in 1 .. Len(ids) : sum[k] = sum[k - 1] + 2 + Size(obj, ids[k])

\* On coming to i, every object before it is on the page, or is for a later one; or is the
\* object 0, too long for any.
WalkInv(c, obj, id, i, w) ==
  /\ i = 0 => w = Empty
  /\ w.total \in 10 .. MaxPage
  /\ \A k \in 1 .. Len(w.ids) : Size(obj, w.ids[k]) <= MaxValue
  /\ \E sum : RunsTo(sum, obj, w.ids, w.total - 10)
  /\ w.full => c = 4
  /\ w.last = 0 \/ w.last < i
  /\ ~w.failed /\ ~w.full =>
       \A j \in Served(obj) : id <= j /\ j < i =>
         \/ j \in Range(w.ids)
         \/ w.last # 0 /\ w.last <= j
         \/ j = 0 /\ Size(obj, j) > MaxPaged

LEMMA EmptyWalk ==
  ASSUME NEW c, NEW obj, NEW id, NEW i \in Nat, \A j \in Served(obj) : ~(j < i)
  PROVE  WalkInv(c, obj, id, i, Empty)
<1>1. RunsTo([k \in {0} |-> 0], obj, <<>>, 0)  BY DEF RunsTo
<1> QED  BY <1>1 DEF WalkInv, Empty, MaxPage

LEMMA AppendedRun ==
  ASSUME NEW obj \in Objects, NEW ids \in Seq(0 .. 255), NEW id \in 0 .. 255, NEW end \in Nat, NEW sum,
         RunsTo(sum, obj, ids, end)
  PROVE  \E longer : RunsTo(longer, obj, Append(ids, id), end + 2 + Size(obj, id))
<1> DEFINE n == Len(ids)
           longer == [k \in 0 .. n + 1 |-> IF k = n + 1 THEN end + 2 + Size(obj, id) ELSE sum[k]]
<1>1. n \in Nat /\ Len(Append(ids, id)) = n + 1 /\ Append(ids, id)[n + 1] = id
      /\ \A k \in 1 .. n : Append(ids, id)[k] = ids[k]
  OBVIOUS
<1>2. Size(obj, id) \in Nat  BY SizesOfObjects
<1> HIDE DEF n
<1>3. longer[0] = 0 /\ longer[n + 1] = end + 2 + Size(obj, id)  BY <1>1 DEF RunsTo, n
<1>4. ASSUME NEW k \in 0 .. n + 1  PROVE longer[k] \in Nat /\ longer[k] <= end + 2 + Size(obj, id)
  <2>1. CASE k = n + 1  BY <1>2, <2>1
  <2>2. CASE k # n + 1
    <3>1. k \in 0 .. n /\ longer[k] = sum[k]  BY <1>1, <2>2
    <3>2. sum[k] \in Nat /\ sum[k] <= end  BY <3>1 DEF RunsTo, n
    <3> QED  BY <1>2, <3>1, <3>2
  <2> QED  BY <2>1, <2>2
<1>5. ASSUME NEW k \in 1 .. n + 1
      PROVE  longer[k] = longer[k - 1] + 2 + Size(obj, Append(ids, id)[k])
  <2>1. k - 1 \in 0 .. n /\ longer[k - 1] = sum[k - 1]  BY <1>1
  <2>2. CASE k = n + 1
    <3>1. sum[n] = end  BY DEF RunsTo, n
    <3> QED  BY <1>1, <2>1, <2>2, <3>1
  <2>3. CASE k # n + 1
    <3>1. k \in 1 .. n /\ longer[k] = sum[k]  BY <1>1, <2>3
    <3>2. sum[k] = sum[k - 1] + 2 + Size(obj, ids[k])  BY <3>1 DEF RunsTo, n
    <3> QED  BY <1>1, <2>1, <3>1, <3>2
  <2> QED  BY <2>2, <2>3
<1> HIDE DEF longer
<1> QED  BY <1>1, <1>3, <1>4, <1>5 DEF RunsTo

LEMMA WalkStep ==
  ASSUME NEW c, NEW obj \in Objects, NEW id \in 0 .. 255, NEW i \in Stops \ {0}, NEW w \in Walks,
         WalkInv(c, obj, id, Before[i], w)
  PROVE  WalkInv(c, obj, id, i, Reached(c, obj, id, i, w))
<1> DEFINE b == Before[i]
           total == w.total + 2 + Size(obj, b)
<1>1. /\ b \in Known /\ b \in 0 .. 255 /\ b < i /\ i \in Nat /\ i # 0
      /\ \A j \in Served(obj) : j \in Nat /\ (j < i => j < b \/ j = b)
  <2>1. b \in Known /\ b < i /\ (\A j \in Known : j < i => j <= b) /\ i \in Nat /\ i # 0
    BY Ascending, KnownIds DEF Stops, End
  <2>2. b \in Nat /\ b \in 0 .. 255  BY <2>1, KnownIds
  <2>3. \A j \in Served(obj) : j \in Nat /\ (j < i => j <= b)  BY <2>1, KnownIds
  <2>4. \A j \in Served(obj) : j < i => j < b \/ j = b  BY <2>2, <2>3
  <2> QED  BY <2>1, <2>2, <2>3, <2>4
<1>2. w.total \in Nat /\ w.last \in Nat /\ w.ids \in Seq(0 .. 255) /\ w.failed \in BOOLEAN /\ w.full \in BOOLEAN
      /\ Size(obj, b) \in Nat /\ total \in Nat
  <2>1. w.total \in Nat /\ w.last \in Nat /\ w.ids \in Seq(0 .. 255) /\ w.failed \in BOOLEAN /\ w.full \in BOOLEAN
    <3>1. w.total \in Nat /\ w.last \in 0 .. 255 /\ w.ids \in Seq(0 .. 255) /\ w.failed \in BOOLEAN /\ w.full \in BOOLEAN
      BY DEF Walks
    <3>2. w.last \in 0 .. 255  BY <3>1
    <3>3. \A x \in 0 .. 255 : x \in Nat  OBVIOUS
    <3>4. w.last \in Nat  BY <3>2, <3>3
    <3> QED  BY <3>1, <3>4
  <2>2. Size(obj, b) \in Nat  BY SizesOfObjects
  <2> HIDE DEF b
  <2> QED  BY <2>1, <2>2
<1> HIDE DEF b, total
<1>3. CASE ~(b \in Served(obj) /\ b >= id)
  <2>1. Reached(c, obj, id, i, w) = w  BY <1>3 DEF Reached, b
  <2>2. \A j \in Served(obj) : id <= j /\ j < i => j < b
    <3>1. ~(id <= b) \/ b \notin Served(obj)  BY <1>1, <1>3
    <3> QED  BY <1>1, <3>1
  <2>3. WalkInv(c, obj, id, b, w)  BY DEF b
  <2> QED  BY <1>1, <1>2, <2>1, <2>2, <2>3 DEF WalkInv
<1>4. CASE b \in Served(obj) /\ b >= id
  <2> DEFINE v == Reached(c, obj, id, i, w)
  <2>1. v = IF w.failed \/ w.full THEN w
            ELSE IF Size(obj, b) > MaxValue THEN [w EXCEPT !.failed = TRUE]
            ELSE IF total > MaxPage THEN [w EXCEPT !.last = IF @ = 0 THEN b ELSE @]
            ELSE [w EXCEPT !.total = total, !.ids = Append(@, b), !.full = c = 4]
    BY <1>4 DEF Reached, Walk, b, total
  <2> HIDE DEF v
  <2>2. WalkInv(c, obj, id, b, w)  BY DEF b
  <2>3. \A j \in Served(obj) : id <= j /\ j < i => j < b \/ j = b  BY <1>1
  <2>4. SUFFICES WalkInv(c, obj, id, i, v)  BY DEF v
  <2>5. w.last = 0 \/ w.last < i  BY <1>1, <1>2, <2>2 DEF WalkInv
  <2>6. CASE w.failed \/ w.full
    <3>1. v = w  BY <2>1, <2>6
    <3> QED  BY <1>1, <2>2, <2>5, <2>6, <3>1 DEF WalkInv
  <2>7. CASE ~w.failed /\ ~w.full /\ Size(obj, b) > MaxValue
    <3>1. v.failed /\ v.total = w.total /\ v.ids = w.ids /\ v.last = w.last /\ v.full = w.full
      BY <2>1, <2>7 DEF Walks
    <3> QED  BY <1>1, <2>2, <2>5, <3>1 DEF WalkInv
  <2>8. CASE ~w.failed /\ ~w.full /\ ~(Size(obj, b) > MaxValue) /\ total > MaxPage
    <3>1. /\ v.failed = w.failed /\ v.total = w.total /\ v.ids = w.ids /\ v.full = w.full
          /\ v.last = IF w.last = 0 THEN b ELSE w.last
      BY <2>1, <2>8 DEF Walks
    <3>2. v.last = 0 \/ v.last < i  BY <1>1, <2>5, <3>1
    <3>3. b = 0 => Size(obj, b) > MaxPaged
      <4>1. b = 0 => w.total = 10  BY <2>2 DEF WalkInv, Empty
      <4> QED  BY <1>2, <2>8, <4>1 DEF total, MaxPaged, MaxPage
    <3>4. ASSUME NEW j \in Served(obj), id <= j, j < i
          PROVE  j \in Range(v.ids) \/ (v.last # 0 /\ v.last <= j) \/ (j = 0 /\ Size(obj, j) > MaxPaged)
      <4>1. CASE j = b
        <5>1. b # 0 => v.last # 0 /\ v.last <= b
          <6>1. w.last = 0 \/ w.last < b  BY <2>2 DEF WalkInv
          <6>2. CASE w.last = 0  BY <1>1, <3>1, <6>2
          <6>3. CASE w.last # 0
            <7>1. v.last = w.last /\ w.last < b /\ w.last \in Nat /\ b \in Nat  BY <1>1, <1>2, <3>1, <6>1, <6>3
            <7>2. v.last <= b  BY ONLY <7>1
            <7> QED  BY <6>3, <7>1, <7>2
          <6> QED  BY <6>2, <6>3
        <5> QED  BY <3>3, <4>1, <5>1
      <4>2. CASE j < b
        <5>1. j \in Range(w.ids) \/ (w.last # 0 /\ w.last <= j) \/ (j = 0 /\ Size(obj, j) > MaxPaged)
          BY <2>2, <2>8, <3>4, <4>2 DEF WalkInv
        <5> QED  BY <3>1, <5>1
      <4> QED  BY <2>3, <3>4, <4>1, <4>2
    <3> QED  BY <1>1, <2>2, <3>1, <3>2, <3>4 DEF WalkInv
  <2>9. CASE ~w.failed /\ ~w.full /\ ~(Size(obj, b) > MaxValue) /\ ~(total > MaxPage)
    <3>1. v.failed = w.failed /\ v.total = total /\ v.ids = Append(w.ids, b) /\ v.last = w.last /\ v.full = (c = 4)
      BY <2>1, <2>9 DEF Walks
    <3>2. total \in 10 .. MaxPage
      <4>1. w.total \in 10 .. MaxPage  BY <2>2 DEF WalkInv
      <4>2. total >= w.total  BY <1>2, <4>1 DEF total, MaxPage
      <4>3. total \in Nat /\ total <= 253  BY <1>2, <2>9 DEF MaxPage
      <4>4. w.total >= 10 /\ w.total \in Nat  BY <1>2, <4>1
      <4> QED  BY <4>2, <4>3, <4>4 DEF MaxPage
    <3>3. \E sum : RunsTo(sum, obj, v.ids, v.total - 10)
      <4>1. PICK sum : RunsTo(sum, obj, w.ids, w.total - 10)  BY <2>2 DEF WalkInv
      <4>2. w.total - 10 \in Nat  BY <2>2, <1>2 DEF WalkInv
      <4>3. (w.total - 10) + 2 + Size(obj, b) = v.total - 10  BY <1>2, <3>1 DEF total
      <4>4. \E longer : RunsTo(longer, obj, Append(w.ids, b), (w.total - 10) + 2 + Size(obj, b))
        BY <1>1, <1>2, <4>1, <4>2, AppendedRun
      <4> QED  BY <3>1, <4>3, <4>4
    <3>4. Len(v.ids) = Len(w.ids) + 1 /\ Len(w.ids) \in Nat
          /\ (\A k \in 1 .. Len(w.ids) : v.ids[k] = w.ids[k]) /\ v.ids[Len(w.ids) + 1] = b
      BY <1>1, <1>2, <3>1
    <3>5. \A k \in 1 .. Len(v.ids) : Size(obj, v.ids[k]) <= MaxValue
      <4> SUFFICES ASSUME NEW k \in 1 .. Len(v.ids)  PROVE Size(obj, v.ids[k]) <= MaxValue  OBVIOUS
      <4>1. CASE k = Len(w.ids) + 1  BY <1>2, <2>9, <3>4, <4>1 DEF MaxValue
      <4>2. CASE k # Len(w.ids) + 1
        <5>1. k \in 1 .. Len(w.ids)  BY <3>4, <4>2
        <5> QED  BY <2>2, <3>4, <5>1 DEF WalkInv
      <4> QED  BY <4>1, <4>2
    <3>6. Range(w.ids) \subseteq Range(v.ids) /\ b \in Range(v.ids)
      <4>1. v.ids \in Seq(0 .. 255)  BY <1>1, <1>2, <3>1
      <4>2. DOMAIN v.ids = 1 .. Len(v.ids) /\ DOMAIN w.ids = 1 .. Len(w.ids)  BY <1>2, <4>1, LenProperties
      <4>3. 1 .. Len(w.ids) \subseteq 1 .. Len(v.ids) /\ Len(w.ids) + 1 \in 1 .. Len(v.ids)  BY <3>4
      <4> QED  BY <3>4, <4>2, <4>3 DEF Range
    <3>7. ASSUME NEW j \in Served(obj), id <= j, j < i
          PROVE  j \in Range(v.ids) \/ (v.last # 0 /\ v.last <= j) \/ (j = 0 /\ Size(obj, j) > MaxPaged)
      BY <2>2, <2>3, <2>9, <3>1, <3>6, <3>7 DEF WalkInv
    <3> QED  BY <1>1, <2>5, <3>1, <3>2, <3>3, <3>5, <3>7 DEF WalkInv
  <2> QED  BY <2>6, <2>7, <2>8, <2>9
<1> QED  BY <1>3, <1>4

\* Nothing is on the page before the object it starts at, which fits an empty page: what the
\* next page starts at is behind it.
Onward(obj, id, i, w) ==
  /\ i <= id => w = Empty
  /\ w.last # 0 =>
       /\ w.last \in Served(obj) /\ id <= w.last
       /\ Size(obj, id) <= MaxPaged => id < w.last

LEMMA OnwardStep ==
  ASSUME NEW c, NEW obj \in Objects, NEW id \in 0 .. 255, NEW i \in Stops \ {0}, NEW w \in Walks,
         Onward(obj, id, Before[i], w)
  PROVE  Onward(obj, id, i, Reached(c, obj, id, i, w))
<1> DEFINE b == Before[i]
           total == w.total + 2 + Size(obj, b)
           v == Reached(c, obj, id, i, w)
<1>1. b \in Nat /\ i \in Nat /\ b < i /\ id \in Nat
  <2>1. b \in Known /\ b < i /\ i \in Nat  BY Ascending, KnownIds DEF Stops, End
  <2> QED  BY <2>1, KnownIds
<1>2. Size(obj, b) \in Nat  BY SizesOfObjects
<1>3. Onward(obj, id, b, w)  OBVIOUS
<1> HIDE DEF b
<1>4. CASE ~(b \in Served(obj) /\ b >= id)
  <2>1. v = w  BY <1>4 DEF Reached, b
  <2>2. i <= id => b <= id  BY <1>1
  <2> QED  BY <1>3, <2>1, <2>2 DEF Onward
<1>5. CASE b \in Served(obj) /\ b >= id
  <2>1. v = IF w.failed \/ w.full THEN w
            ELSE IF Size(obj, b) > MaxValue THEN [w EXCEPT !.failed = TRUE]
            ELSE IF total > MaxPage THEN [w EXCEPT !.last = IF @ = 0 THEN b ELSE @]
            ELSE [w EXCEPT !.total = total, !.ids = Append(@, b), !.full = c = 4]
    BY <1>5 DEF Reached, Walk, b
  <2> HIDE DEF v
  <2>2. ~(i <= id)  BY <1>1, <1>5
  <2>3. v.last = w.last \/ (v.last = b /\ w.last = 0 /\ total > MaxPage)  BY <2>1 DEF Walks
  <2>4. ASSUME total > MaxPage, Size(obj, id) <= MaxPaged  PROVE id < b
    <3>1. SUFFICES ASSUME b = id  PROVE FALSE  BY <1>1, <1>5
    <3>2. w.total = 10  BY <1>1, <1>3, <3>1 DEF Onward, Empty
    <3> QED  BY <1>2, <2>4, <3>1, <3>2 DEF MaxPage, MaxPaged
  <2>5. id <= b  BY <1>1, <1>5
  <2> QED  BY <1>3, <1>5, <2>2, <2>3, <2>4, <2>5 DEF Onward, v
<1> QED  BY <1>4, <1>5 DEF b

\* What handle_fc43_14 puts on a page, and what it leaves for the next one.
LEMMA WalkEnds ==
  ASSUME NEW c, NEW obj \in Objects, NEW id \in 0 .. 255
  PROVE  LET w == WalkFrom(c, obj, id) IN
         w \in Walks /\ WalkInv(c, obj, id, End, w) /\ Onward(obj, id, End, w)
<1>1. PICK walk \in [Stops -> Walks] :
        /\ walk[0] = Empty /\ walk[End] = WalkFrom(c, obj, id)
        /\ \A i \in Stops \ {0} : walk[i] = Reached(c, obj, id, i, walk[Before[i]])
  BY WalkIsDefined
<1> DEFINE Both(i) == WalkInv(c, obj, id, i, walk[i]) /\ Onward(obj, id, i, walk[i])
           T == {n \in Nat : \A i \in Stops : i <= n => Both(i)}
<1>2. /\ \A i \in Stops : i \in Nat /\ i <= 256
      /\ 0 \in Stops /\ End \in Stops
      /\ \A i \in Stops \ {0} : Before[i] \in Stops /\ Before[i] < i
  <2>1. \A i \in Stops : i \in Nat /\ i <= 256  BY KnownIds DEF Stops, End
  <2>2. \A i \in Stops \ {0} : Before[i] \in Stops /\ Before[i] < i  BY Ascending DEF Stops
  <2> QED  BY <2>1, <2>2, KnownIds DEF Stops
<1>3. 0 \in T
  <2>1. \A j \in Served(obj) : ~(j < 0)
    <3>1. \A j \in Served(obj) : j \in Nat  BY KnownIds
    <3> QED  BY <3>1
  <2>2. Both(0)  BY <1>1, <2>1, EmptyWalk DEF Onward, Empty
  <2>3. \A i \in Stops : i <= 0 => i = 0  BY <1>2
  <2> QED  BY <2>2, <2>3
<1>4. ASSUME NEW n \in Nat, n \in T  PROVE n + 1 \in T
  <2>1. \A i \in Stops : i <= n + 1 => i <= n \/ i \in Stops \ {0}  BY <1>2
  <2>2. ASSUME NEW i \in Stops \ {0}, i <= n + 1  PROVE Both(i)
    <3>1. Before[i] \in Stops /\ Before[i] \in Nat /\ Before[i] < i /\ i \in Nat  BY <1>2
    <3>2. Before[i] <= n  BY <2>2, <3>1
    <3>3. Both(Before[i])  BY <1>4, <3>1, <3>2
    <3>4. walk[Before[i]] \in Walks  BY <3>1
    <3> QED  BY <1>1, <3>3, <3>4, WalkStep, OnwardStep
  <2>3. \A i \in Stops : i <= n + 1 => Both(i)  BY <1>4, <2>1, <2>2
  <2> QED  BY <2>3
<1>5. 256 \in T
  <2> HIDE DEF T
  <2> QED  BY <1>3, <1>4, Inductive
<1> QED  BY <1>1, <1>2, <1>5

LEMMA PagesAreWellFormed ==
  ASSUME NEW c \in Codes, NEW obj \in Objects, NEW id \in 0 .. 255, NEW w,
         w \in Walks, WalkInv(c, obj, id, End, w)
  PROVE  LET p == PageOf(c, obj, w) IN
         /\ p \in Pages
         /\ FrameLength(p) = p.total
         /\ \A have \in 0 .. FrameLength(p) : Predict(p, have) \in {NeedMore, FrameLength(p)}
         /\ Predict(p, FrameLength(p)) = FrameLength(p)
<1> DEFINE p == PageOf(c, obj, w)
           n == Len(w.ids)
<1>1. n \in Nat /\ w.ids \in Seq(0 .. 255) /\ DOMAIN w.ids = 1 .. n  BY LenProperties DEF Walks
<1>2. \A k \in 1 .. n : Size(obj, w.ids[k]) \in 0 .. 245
  <2> SUFFICES ASSUME NEW k \in 1 .. n  PROVE Size(obj, w.ids[k]) \in 0 .. 245  OBVIOUS
  <2>1. Size(obj, w.ids[k]) <= 245  BY DEF WalkInv, MaxValue
  <2> DEFINE size == Size(obj, w.ids[k])
  <2>2. size \in Nat  BY SizesOfObjects
  <2>3. size <= 245  BY <2>1
  <2> HIDE DEF size
  <2>4. size \in 0 .. 245  BY <2>2, <2>3
  <2> QED  BY <2>4 DEF size
<1>3. p.lens = [k \in 1 .. n |-> Size(obj, w.ids[k])]
  <2>1. p.lens = [k \in 1 .. n |-> Size(obj, w.ids[k]) % 256]  BY <1>1 DEF PageOf
  <2>2. \A k \in 1 .. n : Size(obj, w.ids[k]) % 256 = Size(obj, w.ids[k])
    <3>1. \A x \in 0 .. 245 : x % 256 = x  OBVIOUS
    <3> HIDE DEF n
    <3> QED  BY <1>2, <3>1
  <2> HIDE DEF n, p
  <2> QED  BY <2>1, <2>2
<1>4. p.lens \in Seq(0 .. 255) /\ Len(p.lens) = n /\ DOMAIN p.lens = 1 .. n
  <2> HIDE DEF n, p
  <2>1. p.lens \in [1 .. n -> 0 .. 255]
    <3>1. \A k \in 1 .. n : Size(obj, w.ids[k]) \in 0 .. 255  BY <1>2
    <3> QED  BY <1>3, <3>1
  <2>2. p.lens \in Seq(0 .. 255)  BY <1>1, <2>1, SeqDef
  <2>3. DOMAIN p.lens = 1 .. n /\ DOMAIN p.lens = 1 .. Len(p.lens) /\ Len(p.lens) \in Nat
    BY <2>1, <2>2, LenProperties
  <2> QED  BY <1>1, <2>2, <2>3
<1>5. PICK run : RunsTo(run, obj, w.ids, w.total - 10)  BY DEF WalkInv
<1>6. /\ run[0] = 0 /\ run[n] = w.total - 10
      /\ \A k \in 0 .. n : run[k] \in Nat /\ run[k] <= w.total - 10
      /\ \A k \in 1 .. n : run[k] = run[k - 1] + 2 + p.lens[k]
  <2> HIDE DEF p
  <2> QED  BY <1>3, <1>5 DEF RunsTo
<1> HIDE DEF n, p
<1> DEFINE Body(h) == [j \in 0 .. Len(p.lens) |-> IF j = 0 THEN 0 ELSE h[j - 1] + 2 + p.lens[j]]
           sum == CHOOSE h : h = Body(h)
           f == [j \in 0 .. n |-> run[j]]
<1>7. f = Body(f)
  <2>1. \A j \in 0 .. n : f[j] = IF j = 0 THEN 0 ELSE f[j - 1] + 2 + p.lens[j]
    <3> SUFFICES ASSUME NEW j \in 0 .. n, j # 0  PROVE f[j] = f[j - 1] + 2 + p.lens[j]  BY <1>1, <1>6
    <3>1. j - 1 \in 0 .. n /\ j \in 1 .. n  BY <1>1
    <3> QED  BY <1>6, <3>1
  <2> HIDE DEF f
  <2>2. f = [j \in 0 .. n |-> f[j]]  BY DEF f
  <2> QED  BY <1>4, <2>1, <2>2
<1>8. sum = Body(sum)
  <2> HIDE DEF Body, f
  <2> QED  BY <1>7
<1>9. \A k : Offset(p, k) = 8 + sum[k - 1]  BY DEF Offset
<1> HIDE DEF sum, f
<1>10. sum[0] = 0 /\ \A k \in 1 .. n : sum[k] = sum[k - 1] + 2 + p.lens[k]
  <2>1. \A j \in 0 .. n : sum[j] = IF j = 0 THEN 0 ELSE sum[j - 1] + 2 + p.lens[j]
    BY <1>4, <1>8
  <2>2. 0 \in 0 .. n /\ \A k \in 1 .. n : k \in 0 .. n /\ k # 0  BY <1>1
  <2> HIDE DEF Body
  <2> QED  BY <2>1, <2>2
<1>11. \A k \in 0 .. n : sum[k] = run[k]
  <2> DEFINE T == {k \in Nat : k <= n => sum[k] = run[k]}
  <2>1. 0 \in T  BY <1>6, <1>10
  <2>2. ASSUME NEW k \in Nat, k \in T  PROVE k + 1 \in T
    <3> SUFFICES ASSUME k + 1 <= n  PROVE sum[k + 1] = run[k + 1]  OBVIOUS
    <3>1. k + 1 \in 1 .. n /\ (k + 1) - 1 = k /\ k <= n  BY <1>1
    <3>2. sum[k] = run[k]  BY <2>2, <3>1
    <3>3. sum[k + 1] = sum[k] + 2 + p.lens[k + 1]  BY <1>10, <3>1
    <3>4. run[k + 1] = run[k] + 2 + p.lens[k + 1]  BY <1>6, <3>1
    <3> QED  BY <3>2, <3>3, <3>4
  <2>3. Nat \subseteq T
    <3> HIDE DEF T
    <3> QED  BY <2>1, <2>2, Inductive
  <2> QED  BY <1>1, <2>3
<1>12. w.total \in 10 .. MaxPage /\ p.total = w.total /\ p.err = "none"
  BY DEF WalkInv, p, PageOf
<1>13. FrameLength(p) = p.total
  <2>1. n \in 0 .. n /\ (n + 1) - 1 = n  BY <1>1
  <2>2. Offset(p, n + 1) = 8 + (w.total - 10)  BY <1>6, <1>9, <1>11, <2>1
  <2> QED  BY <1>4, <1>12, <2>2 DEF FrameLength
<1>14. Predict(p, FrameLength(p)) = FrameLength(p)
  <2>1. ASSUME NEW k \in DOMAIN p.lens  PROVE ~(FrameLength(p) < Offset(p, k) + 2)
    <3>1. k \in 1 .. n /\ k - 1 \in 0 .. n /\ k \in 0 .. n  BY <1>1, <1>4, <2>1
    <3>2. Offset(p, k) = 8 + run[k - 1] /\ run[k - 1] \in Nat  BY <1>6, <1>9, <1>11, <3>1
    <3>3. run[k] = run[k - 1] + 2 + p.lens[k] /\ run[k] <= w.total - 10 /\ p.lens[k] \in Nat
      <4>1. p.lens[k] = Size(obj, w.ids[k]) /\ Size(obj, w.ids[k]) \in Nat
        BY <1>3, <3>1, SizesOfObjects
      <4> QED  BY <1>6, <3>1, <4>1
    <3> QED  BY <1>12, <1>13, <3>2, <3>3
  <2>2. ~(FrameLength(p) < 8)  BY <1>12, <1>13 DEF MaxPage
  <2> QED  BY <2>1, <2>2 DEF Predict
<1>15. \A have \in 0 .. FrameLength(p) : Predict(p, have) \in {NeedMore, FrameLength(p)}
  BY DEF Predict
<1>16. p \in Pages
  <2>1. p = [err |-> "none", code |-> c, level |-> ConformityLevel(obj), more |-> w.last # 0,
             next |-> w.last, total |-> w.total, ids |-> w.ids, lens |-> p.lens]
    BY DEF p, PageOf
  <2>2. ConformityLevel(obj) \in 129 .. 131  BY DEF ConformityLevel
  <2>3. w.last \in 0 .. 255 /\ w.total \in 0 .. MaxPage  BY <1>12 DEF Walks, MaxPage
  <2> DEFINE more == w.last # 0
  <2>4. more \in BOOLEAN  OBVIOUS
  <2>5. p = [err |-> "none", code |-> c, level |-> ConformityLevel(obj), more |-> more,
             next |-> w.last, total |-> w.total, ids |-> w.ids, lens |-> p.lens]
    BY <2>1
  <2> DEFINE lens == p.lens
  <2>6. lens \in Seq(0 .. 255)  BY <1>4
  <2>7. p = [err |-> "none", code |-> c, level |-> ConformityLevel(obj), more |-> more,
             next |-> w.last, total |-> w.total, ids |-> w.ids, lens |-> lens]
    BY <2>5
  <2> HIDE DEF more, lens
  <2> QED  BY <1>1, <2>2, <2>3, <2>4, <2>6, <2>7 DEF Pages
<1> QED  BY <1>13, <1>14, <1>15, <1>16 DEF p

\* What has lasted is given, up to where the master goes on, or is on the page, or is for a
\* later one.
GivenInv ==
  /\ \A i \in lasting : objects[i] \in 0 .. MaxPaged
  /\ code # 4 =>
       /\ phase = "ask" => \A i \in lasting : i < at => i \in given
       /\ phase = "sent" /\ page.err = "none" =>
            \A i \in lasting : i \in given \/ i \in Range(page.ids) \/ (page.more /\ page.next <= i)
       /\ phase = "done" => \A i \in lasting : i \in given

PagingInv == PagingTypeOK /\ PagesAreFramed /\ GivenInv

LEMMA PagingStarts == PagingInit => PagingInv
<1> SUFFICES ASSUME PagingInit  PROVE PagingInv  OBVIOUS
<1>1. page = NoPage /\ page.err # "none"  BY DEF PagingInit, NoPage, Exception
<1>2. 0 \in 0 .. MaxChanges /\ at \in 0 .. 255  BY IdentificationAssumption DEF PagingInit
<1>3. PagingTypeOK  BY <1>1, <1>2 DEF PagingInit, PagingTypeOK
<1>4. \A i \in lasting : i \in Nat /\ ~(i < at) /\ objects[i] \in 0 .. MaxPaged
  BY <1>2, IdentificationAssumption DEF PagingInit
<1>5. GivenInv  BY <1>4 DEF PagingInit, GivenInv
<1> QED  BY <1>1, <1>3, <1>5 DEF PagingInv, PagesAreFramed

LEMMA PagingAsks ==
  ASSUME PagingInv, Ask
  PROVE  PagingInv'
<1>1. /\ objects \in Objects /\ code \in Codes /\ at \in 0 .. 255 /\ lasting \subseteq Ids
      /\ phase = "ask" /\ phase' = "sent"
      /\ UNCHANGED <<objects, changes, lasting, code, at, given>>
  BY DEF PagingInv, PagingTypeOK, Ask
<1> DEFINE id == Start(code, at, objects)
           w == WalkFrom(code, objects, id)
<1>2. id \in 0 .. 255 /\ id <= at  BY <1>1 DEF Start
<1> HIDE DEF id
<1>3. w \in Walks /\ WalkInv(code, objects, id, End, w)  BY <1>1, <1>2, WalkEnds
<1>4. \/ page' \in Refusals
      \/ ~w.failed /\ page' = PageOf(code, objects, w)
  BY DEF Ask, HandleFc43_14, Refusals, id
<1> HIDE DEF w
<1>5. CASE page' \in Refusals
  <2>1. page'.err # "none"  BY <1>5 DEF Refusals, Exception
  <2>2. PagingTypeOK'  BY <1>1, <1>5 DEF PagingInv, PagingTypeOK
  <2>3. GivenInv'  BY <1>1, <2>1 DEF PagingInv, GivenInv
  <2> QED  BY <2>1, <2>2, <2>3 DEF PagingInv, PagesAreFramed
<1>6. CASE ~w.failed /\ page' = PageOf(code, objects, w)
  <2>1. page' \in Pages /\ PagesAreFramed'
    <3>1. w.total \in 10 .. MaxPage  BY <1>3 DEF WalkInv
    <3>2. page'.total <= MaxPage  BY <1>6, <3>1 DEF PageOf, MaxPage
    <3>3. LET p == page' IN
          /\ p \in Pages
          /\ FrameLength(p) = p.total
          /\ \A have \in 0 .. FrameLength(p) : Predict(p, have) \in {NeedMore, FrameLength(p)}
          /\ Predict(p, FrameLength(p)) = FrameLength(p)
      BY <1>1, <1>2, <1>3, <1>6, PagesAreWellFormed
    <3> QED  BY <3>2, <3>3 DEF PagesAreFramed
  <2>2. PagingTypeOK'  BY <1>1, <2>1 DEF PagingInv, PagingTypeOK
  <2>3. ASSUME code # 4, NEW i \in lasting
        PROVE  i \in given \/ i \in Range(page'.ids) \/ (page'.more /\ page'.next <= i)
    <3>1. i \in Ids /\ i \in 0 .. 255 /\ objects[i] \in 0 .. MaxPaged
      BY <1>1, IdentificationAssumption DEF PagingInv, GivenInv
    <3>2. objects[i] # NoSize /\ objects[i] \in Nat /\ objects[i] <= MaxPaged  BY <3>1 DEF NoSize, MaxPaged, MaxPage
    <3>3. i \in Served(objects) /\ Size(objects, i) = objects[i]  BY <3>1, <3>2 DEF Served, Size
    <3>4. page'.ids = w.ids /\ page'.next = w.last /\ page'.more = (w.last # 0)  BY <1>6 DEF PageOf
    <3>5. CASE i < at  BY <1>1, <3>5, <2>3 DEF PagingInv, GivenInv
    <3>6. CASE ~(i < at)
      <4>1. id <= i /\ i < End  BY <1>1, <1>2, <3>1, <3>6 DEF End
      <4>2. \/ i \in Range(w.ids)
            \/ w.last # 0 /\ w.last <= i
            \/ i = 0 /\ Size(objects, i) > MaxPaged
        BY <1>3, <1>6, <2>3, <3>3, <4>1 DEF WalkInv
      <4>3. ~(Size(objects, i) > MaxPaged)  BY <3>2, <3>3 DEF MaxPaged, MaxPage
      <4> QED  BY <3>4, <4>2, <4>3
    <3> QED  BY <3>5, <3>6
  <2>4. GivenInv'
    <3>1. \A i \in lasting' : objects'[i] \in 0 .. MaxPaged  BY <1>1 DEF PagingInv, GivenInv
    <3> QED  BY <1>1, <2>3, <3>1 DEF GivenInv
  <2> QED  BY <2>1, <2>2, <2>4 DEF PagingInv
<1> QED  BY <1>4, <1>5, <1>6

LEMMA PagingReceives ==
  ASSUME PagingInv, Receive
  PROVE  PagingInv'
<1>1. /\ objects \in Objects /\ code \in Codes /\ at \in 0 .. 255 /\ lasting \subseteq Ids
      /\ phase = "sent" /\ page \in Pages \cup Refusals /\ page' = NoPage
      /\ UNCHANGED <<objects, changes, lasting, code>>
  BY DEF PagingInv, PagingTypeOK, Receive
<1>2. page'.err # "none"  BY <1>1 DEF NoPage, Exception
<1>3. CASE PreCheck(page)
  <2>1. /\ given' = given \cup Range(page.ids) /\ at' = page.next
        /\ phase' = IF page.more THEN "ask" ELSE "done"
    BY <1>3 DEF Receive
  <2>2. page.err = "none" /\ page \in Pages
    <3>1. \A p \in Refusals : p.err # "none"  BY DEF Refusals, Exception
    <3> QED  BY <1>1, <1>3, <3>1 DEF PreCheck
  <2>3. page.next \in 0 .. 255 /\ page.more \in BOOLEAN /\ page.ids \in Seq(0 .. 255)  BY <2>2 DEF Pages
  <2>4. Range(page.ids) \subseteq 0 .. 255
    <3>1. page.ids \in [1 .. Len(page.ids) -> 0 .. 255]  BY <2>3, LenProperties
    <3>2. DOMAIN page.ids = 1 .. Len(page.ids)  BY <3>1
    <3>3. \A k \in DOMAIN page.ids : page.ids[k] \in 0 .. 255
      <4> DEFINE ids == page.ids
      <4>1. ids \in [1 .. Len(ids) -> 0 .. 255]  BY <3>1
      <4> HIDE DEF ids
      <4>2. \A k \in DOMAIN ids : ids[k] \in 0 .. 255  BY <4>1
      <4> QED  BY <4>2 DEF ids
    <3> QED  BY <3>3 DEF Range
  <2>5. PagingTypeOK'  BY <1>1, <2>1, <2>3, <2>4 DEF PagingInv, PagingTypeOK
  <2>6. \A i \in lasting : i \in Nat  BY <1>1, IdentificationAssumption
  <2>7. GivenInv'
    <3>1. \A i \in lasting' : objects'[i] \in 0 .. MaxPaged  BY <1>1 DEF PagingInv, GivenInv
    <3>2. code # 4 => \A i \in lasting : i \in given' \/ (page.more /\ page.next <= i)
      BY <1>1, <2>1, <2>2 DEF PagingInv, GivenInv
    <3>3. \A i \in lasting : i < page.next => ~(page.next <= i)
      <4> DEFINE next == page.next
      <4>1. next \in 0 .. 255  BY <2>3
      <4> HIDE DEF next
      <4>2. \A i \in lasting : i < next => ~(next <= i)  BY <2>6, <4>1
      <4> QED  BY <4>2 DEF next
    <3>4. phase' = "ask" /\ code # 4 => \A i \in lasting : i < page.next => i \in given'  BY <3>2, <3>3
    <3>5. phase' = "done" /\ code # 4 => \A i \in lasting : i \in given'  BY <2>1, <3>2
    <3>6. phase' # "sent"  BY <2>1
    <3> QED  BY <1>1, <2>1, <3>1, <3>4, <3>5, <3>6 DEF GivenInv
  <2> QED  BY <1>2, <2>5, <2>7 DEF PagingInv, PagesAreFramed
<1>4. CASE ~PreCheck(page)
  <2>1. phase' = "refused" /\ UNCHANGED <<at, given>>  BY <1>4 DEF Receive
  <2>2. PagingTypeOK'  BY <1>1, <2>1 DEF PagingInv, PagingTypeOK
  <2>3. GivenInv'  BY <1>1, <2>1 DEF PagingInv, GivenInv
  <2> QED  BY <1>2, <2>2, <2>3 DEF PagingInv, PagesAreFramed
<1> QED  BY <1>3, <1>4

LEMMA PagingChanges ==
  ASSUME PagingInv, Change
  PROVE  PagingInv'
<1>1. /\ changes' \in 0 .. MaxChanges /\ lasting' \subseteq lasting
      /\ \A i \in lasting' : objects'[i] \in 0 .. MaxPaged
      /\ UNCHANGED <<code, at, phase, page, given>>
  <2>1. changes' \in 0 .. MaxChanges  BY IdentificationAssumption DEF Change, PagingInv, PagingTypeOK
  <2> QED  BY <2>1 DEF Change
<1>2. objects' \in Objects
  <2>1. PICK i \in Ids, n \in Sizes \cup {NoSize} : objects' = [objects EXCEPT ![i] = n]  BY DEF Change
  <2> QED  BY <2>1 DEF PagingInv, PagingTypeOK, Objects
<1>3. PagingTypeOK'  BY <1>1, <1>2 DEF PagingInv, PagingTypeOK
<1>4. GivenInv'  BY <1>1 DEF PagingInv, GivenInv
<1>5. PagesAreFramed'  BY <1>1 DEF PagingInv, PagesAreFramed
<1> QED  BY <1>3, <1>4, <1>5 DEF PagingInv

LEMMA PagingInvariant == PagingSpec => []PagingInv
<1>1. PagingInv /\ [PagingNext]_pagingVars => PagingInv'
  <2> SUFFICES ASSUME PagingInv, [PagingNext]_pagingVars  PROVE PagingInv'  OBVIOUS
  <2>1. CASE UNCHANGED pagingVars
    BY <2>1 DEF pagingVars, PagingInv, PagingTypeOK, PagesAreFramed, GivenInv
  <2> QED  BY <2>1, PagingAsks, PagingReceives, PagingChanges DEF PagingNext
<1> QED  BY <1>1, PagingStarts, PTL DEF PagingSpec

\* Every variable of the paging keeps its type, and a page is never longer than 253 bytes.
THEOREM PagingTypes == PagingSpec => []PagingTypeOK
<1>1. PagingInv => PagingTypeOK  BY DEF PagingInv
<1> QED  BY <1>1, PagingInvariant, PTL

\* Whatever the objects are and however they change, a master that is told that nothing
\* follows has been given every object that was there all along.
THEOREM PagesSkipNothing == PagingSpec => []NothingIsSkipped
<1>1. PagingInv => NothingIsSkipped  BY DEF PagingInv, GivenInv, NothingIsSkipped
<1> QED  BY <1>1, PagingInvariant, PTL

\* The receiver of a page waits for its last byte and for none after it.
THEOREM PagesAreWaitedFor == PagingSpec => []PagesAreFramed
<1>1. PagingInv => PagesAreFramed  BY DEF PagingInv
<1> QED  BY <1>1, PagingInvariant, PTL

\* A page that more is to follow brings the master forward, so that paging the objects of a
\* model that stays as it is comes to an end.
THEOREM PagesLeadOn == PagingSpec => PagesAdvance
<1>1. ASSUME PagingInv, phase = "ask", page'.err = "none", page'.more, [PagingNext]_pagingVars
      PROVE  LET start == Start(code, at, objects) IN
             /\ page'.next \in Served(objects)
             /\ Size(objects, start) <= MaxPaged => page'.next > start
  <2> DEFINE id == Start(code, at, objects)
             w == WalkFrom(code, objects, id)
  <2>1. objects \in Objects /\ code \in Codes /\ at \in 0 .. 255  BY <1>1 DEF PagingInv, PagingTypeOK
  <2>2. id \in 0 .. 255  BY <2>1 DEF Start
  <2>3. Ask
    <3>1. page.err # "none"  BY <1>1 DEF PagingInv, PagingTypeOK, NoPage, Exception
    <3> QED  BY <1>1, <3>1 DEF PagingNext, Receive, Change, pagingVars
  <2>4. page' \in Refusals \/ page' = PageOf(code, objects, w)
    BY <2>3 DEF Ask, HandleFc43_14, Refusals
  <2> HIDE DEF id
  <2>5. w \in Walks /\ Onward(objects, id, End, w)  BY <2>1, <2>2, WalkEnds
  <2> HIDE DEF w
  <2>6. page' = PageOf(code, objects, w)  BY <1>1, <2>4 DEF Refusals, Exception
  <2>7. page'.next = w.last /\ w.last # 0  BY <1>1, <2>6 DEF PageOf
  <2>8. w.last \in Nat
    <3>1. w.last \in 0 .. 255  BY <2>5 DEF Walks
    <3> QED  BY <3>1
  <2>9. w.last \in Served(objects) /\ (Size(objects, id) <= MaxPaged => id < w.last)
    BY <2>5, <2>7 DEF Onward
  <2> QED  BY <2>2, <2>7, <2>8, <2>9 DEF id
<1> QED  BY <1>1, PagingInvariant, PTL DEF PagingSpec, PagesAdvance
=============================================================================
