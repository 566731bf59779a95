----------------------------- MODULE AtomicLocks -----------------------------
(***************************************************************************)
(* What `ModbusSlave::with_address_lock` (slave.rs) promises its callers,  *)
(* whatever it takes to keep the promise: a request holds all of its       *)
(* addresses at once, none of them with another request, and gives them    *)
(* back together.  AddressLocks implements it; SlaveRequests relies on it. *)
(***************************************************************************)
CONSTANTS
  Handlers,    \* tasks that run process_frame
  Addresses    \* register addresses

VARIABLES
  holds        \* the addresses each handler has to itself

TypeOK == holds \in [Handlers -> SUBSET Addresses]

Init == holds = [h \in Handlers |-> {}]

Acquire(h, as) ==
  /\ holds[h] = {} /\ as # {}
  /\ \A g \in Handlers : holds[g] \cap as = {}
  /\ holds' = [holds EXCEPT ![h] = as]

Release(h) == holds' = [holds EXCEPT ![h] = {}]

\* Closing the slave forgets the locks that are held.
Forget == holds' = [h \in Handlers |-> {}]

Next ==
  \/ \E h \in Handlers : Release(h) \/ \E as \in SUBSET Addresses : Acquire(h, as)
  \/ Forget

Spec == Init /\ [][Next]_holds
=============================================================================
