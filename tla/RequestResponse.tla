-------------------------- MODULE RequestResponse --------------------------
(***************************************************************************)
(* What `ModbusMaster::wait_response` (master.rs) promises whoever makes   *)
(* requests through one master, whatever keys, locks, tables, channels and *)
(* tasks it takes: a call's request goes out at most once, each response   *)
(* ends at most one call, a call has one outcome that never changes, and   *)
(* the response is that of the call itself, or, where the protocol has no  *)
(* transaction id, of a call that was given up.  ModbusMaster implements   *)
(* it.                                                                     *)
(***************************************************************************)
EXTENDS Integers

CONSTANTS
  Callers,    \* tasks that make requests
  MaxCalls    \* bound: calls made by all callers together

Nothing == 0     \* no call, or no outcome yet
Refused == -1    \* closed, rejected, or taken away

VARIABLES
  exact,      \* TRUE: responses carry a transaction id
  begun,      \* the number of calls begun so far
  call,       \* the call each caller is in
  unsent,     \* the calls whose request may still go out
  underway,   \* the calls whose request or response is on its way
  outcome     \* of each caller's call: the call its response answers, or Refused

vars == <<exact, begun, call, unsent, underway, outcome>>

TypeOK ==
  /\ exact \in BOOLEAN /\ begun \in 0 .. MaxCalls
  /\ call \in [Callers -> 0 .. MaxCalls]
  /\ unsent \subseteq 1 .. MaxCalls /\ underway \subseteq 1 .. MaxCalls
  /\ outcome \in [Callers -> {Refused} \cup 0 .. MaxCalls]

Init ==
  /\ exact \in BOOLEAN /\ begun = 0
  /\ call = [c \in Callers |-> Nothing] /\ outcome = [c \in Callers |-> Nothing]
  /\ unsent = {} /\ underway = {}

\* Calls may be refused, those of C that have no outcome yet.
MayRefuse(C) ==
  /\ outcome' \in [Callers -> {Refused} \cup 0 .. MaxCalls]
  /\ \A c \in C : outcome'[c] # outcome[c] => outcome[c] = Nothing /\ outcome'[c] = Refused

Call(c) ==
  /\ call[c] = Nothing
  /\ begun' = begun + 1
  /\ call' = [call EXCEPT ![c] = begun + 1]
  /\ unsent' = unsent \cup {begun + 1}
  /\ UNCHANGED <<exact, underway, outcome>>

Send(c) ==
  /\ call[c] \in unsent
  /\ unsent' = unsent \ {call[c]}
  /\ underway' = underway \cup {call[c]}
  /\ UNCHANGED <<exact, begun, call, outcome>>

\* Without a transaction id a response may reach another call than its own, but not
\* while its own is in progress.
Deliver(c, n) ==
  /\ call[c] # Nothing /\ outcome[c] = Nothing /\ n \in underway
  /\ IF exact THEN n = call[c] ELSE \A d \in Callers \ {c} : call[d] # n
  /\ outcome' = [outcome EXCEPT ![c] = n]
  /\ underway' = underway \ {n}
  /\ UNCHANGED <<exact, begun, call, unsent>>

\* Some calls are refused, some messages lost, some requests given up.
Settle ==
  /\ MayRefuse(Callers)
  /\ underway' \subseteq underway /\ unsent' \subseteq unsent
  /\ UNCHANGED <<exact, begun, call>>

\* A call ends, and may take another's place in the table with it.  One that is dropped
\* before its request went out may leave the request behind, on its way.
Return(c) ==
  /\ call[c] # Nothing
  /\ call' = [call EXCEPT ![c] = Nothing]
  /\ unsent' = unsent \ {call[c]}
  /\ underway' \in {underway, underway \cup ({call[c]} \cap unsent)}
  /\ MayRefuse(Callers \ {c}) /\ outcome'[c] = Nothing
  /\ UNCHANGED <<exact, begun>>

Next ==
  \/ \E c \in Callers : Call(c) \/ Send(c) \/ Return(c) \/ \E n \in underway : Deliver(c, n)
  \/ Settle

Spec == Init /\ [][Next]_vars
=============================================================================
