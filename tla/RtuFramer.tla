----------------------------- MODULE RtuFramer -----------------------------
(***************************************************************************)
(* How `RtuApplicationLayer` (layers/application/rtu.rs) cuts the bytes of *)
(* a connection into frames.  A task receives what the port reads, chunk   *)
(* by chunk, into a pool of fixed size.  On a network every chunk is       *)
(* searched for frames at once; on a serial line a timer does it after 3.5 *)
(* characters of silence (t3.5), and one of 1.5 (t1.5) marks the frame as  *)
(* broken.  Timers are tasks of their own: abort() stops one that sleeps,  *)
(* and does nothing to one that has woken and is waiting for the lock.     *)
(*                                                                         *)
(* The bytes are those of a line, known by their position on it.  The pool *)
(* always holds consecutive bytes of it, from lo to the last one copied.   *)
(* An action is what one task does under the lock of `buffers`, or one     *)
(* iteration of the loop of `flush_pool`, which runs under it.             *)
(***************************************************************************)
EXTENDS Integers

CONSTANTS
  MaxFrame,     \* MAX_FRAME_LENGTH (256 in the code)
  MinFrame,     \* MIN_FRAME_LENGTH (4)
  Lines,        \* what may be on the line: predictions, and where intact frames start
  Length,       \* the number of bytes on the line
  Modes,        \* "net", "serial" or "serial_t15" (with inter_char_timeout)
  MaxEvents,    \* bound: chunks received
  MaxForgets    \* bound: calls of flush(), connections closed

Pool == 2 * MaxFrame    \* POOL_SIZE
Positions == 1 .. Length
Events == 1 .. MaxEvents
Nobody == 0             \* among Events: nobody holds the lock, there is no handle
Data == MaxEvents + 1   \* the data task, as a holder of the lock

\* A line predicts, from the byte at the head of the pool on: how many bytes it takes to
\* know the length of the frame, and that length (0 for PredictResult::Unknown).
ASSUME FramerAssumption ==
  /\ MinFrame \in Nat \ {0} /\ MaxFrame \in Nat /\ MinFrame <= MaxFrame
  /\ Length \in Nat /\ MaxEvents \in Nat /\ MaxForgets \in Nat
  /\ Modes \subseteq {"net", "serial", "serial_t15"}
  /\ Lines \subseteq [need : [Positions -> Nat], len : [Positions -> Nat], intact : SUBSET Positions]

VARIABLES
  mode,        \* the transport, and the options: interval_ms and inter_char_ms
  line,        \* what is on the line
  got,         \* bytes received so far
  rest,        \* of the current chunk, bytes not yet copied to the pool
  lo,          \* the position of the first byte in the pool
  entry,       \* the connection has an RtuBuffer
  expired,     \* RtuBuffer.t15_expired
  timer,       \* RtuBuffer.timer: the event whose t3.5 timer it is
  charTimer,   \* RtuBuffer.inter_char_timer
  t35,         \* the t3.5 timer task each event has spawned
  t15,         \* the t1.5 timer task
  step,        \* where the data task stands
  lenAfter,    \* len_after
  lock,        \* who is under the lock of `buffers` across several actions
  events,      \* chunks received so far
  forgets,     \* calls of flush() and connections closed so far
  alive,       \* the data task has not been aborted
  published,   \* where the frames sent to framing_tx began
  errors       \* the errors sent to framing_error_tx

bufferVars == <<lo, entry, expired, timer, charTimer>>
timerVars == <<t35, t15>>
dataVars == <<got, rest, step, lenAfter, events>>
outVars == <<published, errors>>
vars == <<mode, line, bufferVars, timerVars, dataVars, lock, forgets, alive, outVars>>

TimerStates == {"none", "sleeping", "running"}
Steps == {"idle", "expired", "copy", "full", "flush_full", "relock", "decide", "flush_end", "arm", "store"}
Kinds == {"T1_5Exceeded", "CrcCheckFailed", "IncompleteFrame", "InvalidData", "overflow"}

Copied == got - rest           \* the last byte in the pool
PoolLen == Copied - lo + 1     \* RtuBuffer::len

TypeOK ==
  /\ mode \in Modes /\ line \in Lines
  /\ got \in 0 .. Length /\ rest \in 0 .. Length /\ lo \in 1 .. Length + 1
  /\ entry \in BOOLEAN /\ expired \in BOOLEAN
  /\ timer \in 0 .. MaxEvents /\ charTimer \in 0 .. MaxEvents
  /\ t35 \in [Events -> TimerStates] /\ t15 \in [Events -> TimerStates]
  /\ step \in Steps /\ lenAfter \in 0 .. Pool /\ lock \in 0 .. Data
  /\ events \in 0 .. MaxEvents /\ forgets \in 0 .. MaxForgets /\ alive \in BOOLEAN
  /\ published \subseteq Positions /\ errors \subseteq Kinds

Init ==
  /\ mode \in Modes /\ line \in Lines
  /\ got = 0 /\ rest = 0 /\ lo = 1
  /\ entry = FALSE /\ expired = FALSE /\ timer = Nobody /\ charTimer = Nobody
  /\ t35 = [e \in Events |-> "none"] /\ t15 = [e \in Events |-> "none"]
  /\ step = "idle" /\ lenAfter = 0 /\ lock = Nobody
  /\ events = 0 /\ forgets = 0 /\ alive = TRUE
  /\ published = {} /\ errors = {}

Strict == mode # "net"
Report(kind) == errors' = errors \cup {kind}
Clear == lo' = Copied + 1

\* The entry goes, and the timers' handles with it: dropped, not aborted.
Remove ==
  /\ entry' = FALSE /\ expired' = FALSE /\ timer' = Nobody /\ charTimer' = Nobody

-----------------------------------------------------------------------------
(* process_data_event *)

Stopped(t, e) == [i \in Events |-> IF i = e /\ t[i] = "sleeping" THEN "none" ELSE t[i]]

\* "Cancel pending timers": those whose handle the entry still has.
CancelTimers ==
  /\ t35' = Stopped(t35, timer) /\ t15' = Stopped(t15, charTimer)
  /\ timer' = Nobody /\ charTimer' = Nobody

\* The next k bytes.  What was received before t1.5 expired is thrown away.
ReceiveChunk(k) ==
  /\ alive /\ step = "idle" /\ lock = Nobody /\ events < MaxEvents /\ got + k <= Length
  /\ events' = events + 1 /\ got' = got + k /\ rest' = k
  /\ entry' = TRUE /\ expired' = FALSE
  /\ IF expired /\ PoolLen > 0
     THEN /\ Clear /\ step' = "expired"
          /\ UNCHANGED <<timer, charTimer, timerVars, lock>>
     ELSE /\ CancelTimers /\ step' = "copy" /\ lock' = Data
          /\ UNCHANGED lo
  /\ UNCHANGED <<mode, line, lenAfter, forgets, alive, outVars>>

ReportExpired ==
  /\ step = "expired" /\ lock = Nobody
  /\ Report("T1_5Exceeded")
  /\ entry' = TRUE
  /\ CancelTimers /\ step' = "copy" /\ lock' = Data
  /\ UNCHANGED <<mode, line, lo, expired, got, rest, lenAfter, events, forgets, alive, published>>

\* extend_from_slice, as much as the pool takes; when it takes no more, flush.
Copy ==
  /\ step = "copy"
  /\ rest' = IF rest <= Pool - PoolLen THEN 0 ELSE rest - (Pool - PoolLen)
  /\ step' = IF rest' = 0 THEN "decide" ELSE "full"
  /\ lenAfter' = IF rest' = 0 THEN got - lo + 1 ELSE lenAfter
  /\ lock' = Nobody
  /\ UNCHANGED <<mode, line, bufferVars, timerVars, got, events, forgets, alive, outVars>>

\* flush_pool returns at once if there is no entry.
FlushFrom(before, during, next) ==
  /\ step = before /\ lock = Nobody
  /\ IF entry THEN step' = during /\ lock' = Data ELSE step' = next /\ UNCHANGED lock
  /\ UNCHANGED <<mode, line, bufferVars, timerVars, got, rest, lenAfter, events, forgets, alive, outVars>>

FlushFull == FlushFrom("full", "flush_full", "relock")

\* A pool that is still full has no room for the rest of the chunk.
Relock ==
  /\ step = "relock" /\ lock = Nobody
  /\ entry' = TRUE
  /\ IF PoolLen = Pool
     THEN Report("overflow") /\ rest' = 0 /\ lo' = got + 1
     ELSE UNCHANGED <<errors, rest, lo>>
  /\ step' = "copy" /\ lock' = Data
  /\ UNCHANGED <<mode, line, expired, timer, charTimer, timerVars, got, lenAfter, events, forgets, alive, published>>

\* On a network at once; on a serial line only when there is more than any frame.
FlushNow == (~Strict \/ lenAfter >= MaxFrame) /\ FlushFrom("decide", "flush_end", "idle")

\* Fault: a timer is spawned for the first bytes of a burst only.
ArmFirst ==
  /\ step = "decide" /\ Strict /\ lenAfter < MaxFrame
  /\ IF events > 1 THEN UNCHANGED t35 ELSE t35' = [t35 EXCEPT ![events] = "sleeping"]
  /\ step' = "store"
  /\ UNCHANGED <<mode, line, bufferVars, t15, got, rest, lenAfter, events, lock, forgets, alive, outVars>>

Arm ==
  /\ step = "decide" /\ Strict /\ lenAfter < MaxFrame
  /\ t35' = [t35 EXCEPT ![events] = "sleeping"]
  /\ step' = "store"
  /\ UNCHANGED <<mode, line, bufferVars, t15, got, rest, lenAfter, events, lock, forgets, alive, outVars>>

\* The handles are kept in the entry, if there still is one; only then t1.5 starts.
StoreTimers ==
  /\ step = "store" /\ lock = Nobody
  /\ timer' = IF entry THEN events ELSE timer
  /\ IF entry /\ mode = "serial_t15"
     THEN t15' = [t15 EXCEPT ![events] = "sleeping"] /\ charTimer' = events
     ELSE UNCHANGED <<t15, charTimer>>
  /\ step' = "idle"
  /\ UNCHANGED <<mode, line, lo, entry, expired, t35, got, rest, lenAfter, events, lock, forgets, alive, outVars>>

-----------------------------------------------------------------------------
(* The timers *)

Wake35(e) ==
  /\ t35[e] = "sleeping" /\ t35' = [t35 EXCEPT ![e] = "running"]
  /\ UNCHANGED <<mode, line, bufferVars, t15, dataVars, lock, forgets, alive, outVars>>

Wake15(e) ==
  /\ t15[e] = "sleeping" /\ t15' = [t15 EXCEPT ![e] = "running"]
  /\ UNCHANGED <<mode, line, bufferVars, t35, dataVars, lock, forgets, alive, outVars>>

FlushOnSilence(e) ==
  /\ t35[e] = "running" /\ lock = Nobody
  /\ IF entry THEN lock' = e /\ UNCHANGED t35 ELSE t35' = [t35 EXCEPT ![e] = "none"] /\ UNCHANGED lock
  /\ UNCHANGED <<mode, line, bufferVars, t15, dataVars, forgets, alive, outVars>>

Expire(e) ==
  /\ t15[e] = "running" /\ lock = Nobody
  /\ expired' = entry
  /\ t15' = [t15 EXCEPT ![e] = "none"]
  /\ UNCHANGED <<mode, line, lo, entry, timer, charTimer, t35, dataVars, lock, forgets, alive, outVars>>

-----------------------------------------------------------------------------
(* flush_pool *)

\* Fault: a frame that is just complete has to wait.
CheckExpectedLate(n) ==
  IF n \notin MinFrame .. MaxFrame THEN "Invalid"
  ELSE IF PoolLen <= n THEN "Insufficient"
  ELSE IF lo \in line.intact THEN "Frame"
  ELSE "Skip"

\* The length is plausible, the bytes are there, the checksum matches: check_expected.
CheckExpected(n) ==
  IF n \notin MinFrame .. MaxFrame THEN "Invalid"
  ELSE IF PoolLen < n THEN "Insufficient"
  ELSE IF lo \in line.intact THEN "Frame"
  ELSE "Skip"

TryExtract ==
  IF PoolLen < MinFrame \/ PoolLen < line.need[lo] THEN "Insufficient" ELSE CheckExpected(line.len[lo])

\* Who holds the lock leaves the loop, with the first byte it leaves in the pool.
Leave(first) ==
  /\ lo' = first
  /\ IF first > Copied THEN Remove ELSE UNCHANGED <<entry, expired, timer, charTimer>>
  /\ lock' = Nobody
  /\ t35' = [e \in Events |-> IF e = lock THEN "none" ELSE t35[e]]
  /\ step' = IF lock # Data THEN step ELSE IF step = "flush_full" THEN "relock" ELSE "idle"

\* The loop goes on, from a byte further on.
Drain(n) == lo' = lo + n /\ UNCHANGED <<entry, expired, timer, charTimer, lock, t35, step>>

GiveUp(kind) == Report(kind) /\ Leave(Copied + 1) /\ UNCHANGED published

\* Faults: a long wait for more bytes is not resynchronised; nor is an incomplete
\* burst forgotten.
InsufficientWaits ==
  \/ ~Strict /\ Leave(lo) /\ UNCHANGED outVars
  \/ Strict /\ GiveUp("IncompleteFrame")

InsufficientKeeps ==
  \/ PoolLen >= MaxFrame /\ Drain(1) /\ UNCHANGED outVars
  \/ PoolLen < MaxFrame /\ Leave(lo) /\ UNCHANGED outVars

Insufficient ==
  \/ PoolLen >= MaxFrame /\ Drain(1) /\ UNCHANGED outVars
  \/ PoolLen < MaxFrame /\ expired /\ GiveUp("T1_5Exceeded")
  \/ PoolLen < MaxFrame /\ ~expired /\ Strict /\ GiveUp("IncompleteFrame")
  \/ PoolLen < MaxFrame /\ ~expired /\ ~Strict /\ Leave(lo) /\ UNCHANGED outVars

FlushPool ==
  /\ lock \in Events \/ step \in {"flush_full", "flush_end"}
  /\ \/ PoolLen <= 0 /\ Leave(lo) /\ UNCHANGED outVars
     \/ /\ PoolLen > 0
        /\ \/ TryExtract = "Frame" /\ Drain(line.len[lo])
              /\ published' = published \cup {lo} /\ UNCHANGED errors
           \/ TryExtract = "Skip" /\ Strict /\ GiveUp("CrcCheckFailed")
           \/ TryExtract = "Skip" /\ ~Strict /\ Drain(1) /\ UNCHANGED outVars
           \/ TryExtract = "Insufficient" /\ Insufficient
           \/ TryExtract = "Invalid" /\ GiveUp("InvalidData")
  /\ UNCHANGED <<mode, line, t15, got, rest, lenAfter, events, forgets, alive>>

-----------------------------------------------------------------------------
\* ApplicationLayer::flush, which the master calls before a request, and the task that
\* removes the buffer of a connection that has closed.
Forget ==
  /\ lock = Nobody /\ forgets < MaxForgets
  /\ forgets' = forgets + 1
  /\ Clear /\ Remove
  /\ UNCHANGED <<mode, line, timerVars, dataVars, lock, alive, outVars>>

\* destroy(): the data task is aborted where it awaits; the timers are not.
Destroy ==
  /\ alive /\ step = "idle" /\ lock = Nobody
  /\ alive' = FALSE
  /\ Clear /\ Remove
  /\ UNCHANGED <<mode, line, timerVars, dataVars, lock, forgets, outVars>>

Next ==
  \/ \E k \in Positions : ReceiveChunk(k)
  \/ ReportExpired \/ Copy \/ FlushFull \/ Relock \/ FlushNow \/ Arm \/ StoreTimers
  \/ \E e \in Events : Wake35(e) \/ Wake15(e) \/ FlushOnSilence(e) \/ Expire(e)
  \/ FlushPool
  \/ Forget \/ Destroy

Spec == Init /\ [][Next]_vars

-----------------------------------------------------------------------------
(* Properties *)

\* The pool never holds more than its size, and whatever the bytes are, a flush leaves
\* room in it: the branch that throws the rest of a chunk away is never taken.
NeverOverflows == PoolLen \in 0 .. Pool /\ "overflow" \notin errors

\* A line of nothing but frames: each one begins where the one before it ends, and is intact
\* if it is all there.
Begins(p) == p = 1 \/ \E q \in line.intact : q + line.len[q] = p
Clean ==
  \A p \in Positions :
    /\ p \in line.intact => Begins(p)
    /\ Begins(p) => /\ line.len[p] \in MinFrame .. MaxFrame /\ line.need[p] <= line.len[p]
                    /\ p + line.len[p] - 1 <= Length => p \in line.intact

\* On a network, frames that follow each other without noise are all found, however the
\* bytes were cut into chunks, and nothing else is reported.
CleanLineIsFramed ==
  ~Strict /\ Clean /\ forgets = 0 /\ alive /\ step = "idle" =>
    /\ published = {p \in line.intact : p + line.len[p] - 1 <= got}
    /\ errors = {}

\* On a serial line bytes never wait for the next burst to be looked at: while the data
\* task rests, a t3.5 timer is running down for them.
NothingStrands ==
  Strict /\ step = "idle" /\ PoolLen > 0 => \E e \in Events : t35[e] # "none"

\* On a serial line a burst never joins the next one: what the silence has not made a
\* frame is thrown away.
BurstsDontMix == [][Strict /\ lock # Nobody /\ lock # Data /\ lock' = Nobody => PoolLen' = 0]_vars
=============================================================================
