---------------------------- MODULE AddressLocks ----------------------------
(***************************************************************************)
(* The slave's per-address locks: `ModbusSlave::with_address_lock`, the    *)
(* handlers of FC22 and FC23 that run a model's writes under it, the       *)
(* register writes of FC6 and FC16 that do not, and `clean`, which empties *)
(* the table on close() and destroy() (slave.rs).                          *)
(*                                                                         *)
(* The table maps an address to a reference-counted mutex.  A handler      *)
(* takes a reference to the mutex of each of its addresses, creating those *)
(* that are missing; locks them in ascending order; runs the model; and    *)
(* then unlocks, drops its references, and removes from the table the      *)
(* mutexes nobody refers to any more.                                      *)
(***************************************************************************)
EXTENDS Integers, FiniteSets

CONSTANTS
  Handlers,    \* tasks that run process_frame
  MaxAddress,  \* u16::MAX in the code
  Addresses,   \* register addresses
  Mutexes,     \* identities of the mutexes created for an address
  NoMutex      \* the absence of an entry or of a reference

ASSUME LocksAssumption ==
  MaxAddress \in Nat /\ Addresses \subseteq 0 .. MaxAddress /\ NoMutex \notin Mutexes

VARIABLES
  pc,       \* where each handler stands
  addrs,    \* the addresses its request writes: sorted, without duplicates
  refs,     \* the mutex it refers to for each address (lock_arcs)
  held,     \* the addresses whose mutex it holds (guards)
  table,    \* ModbusSlave.address_locks
  orphans,  \* the handlers that referred to mutexes when clean() forgot them
  writers   \* who wrote registers of each handler since it read them

vars == <<pc, addrs, refs, held, table, orphans, writers>>
ghosts == <<orphans, writers>>   \* no action of the code depends on them

Steps == {"idle", "collect", "acquire", "read", "write", "unlock", "drop", "cleanup"}
None == [a \in Addresses |-> NoMutex]

TypeOK ==
  /\ pc \in [Handlers -> Steps]
  /\ addrs \in [Handlers -> SUBSET Addresses]
  /\ refs \in [Handlers -> [Addresses -> Mutexes \cup {NoMutex}]]
  /\ held \in [Handlers -> SUBSET Addresses]
  /\ table \in [Addresses -> Mutexes \cup {NoMutex}]
  /\ orphans \subseteq Handlers
  /\ writers \in [Handlers -> SUBSET {"locking", "orphan", "plain"}]

Init ==
  /\ pc = [h \in Handlers |-> "idle"]
  /\ addrs = [h \in Handlers |-> {}]
  /\ refs = [h \in Handlers |-> None]
  /\ held = [h \in Handlers |-> {}]
  /\ table = None
  /\ orphans = {}
  /\ writers = [h \in Handlers |-> {}]

Goto(h, step) == pc' = [pc EXCEPT ![h] = step]

\* A mutex for address a that is neither in the table nor in use anywhere.
Fresh(m, a) == table[a] # m /\ \A h \in Handlers : refs[h][a] # m

\* handle_fc22 and handle_fc23 call with_address_lock: one address, or the run
\* of addresses to write.
Start(h, as) ==
  /\ pc[h] = "idle" /\ as # {}
  /\ addrs' = [addrs EXCEPT ![h] = as]
  /\ Goto(h, "collect")
  /\ UNCHANGED <<refs, held, table, ghosts>>

\* Under the table's lock: get or insert the mutex of every address.
Collect(h) ==
  /\ pc[h] = "collect"
  /\ \E m \in Mutexes :
       /\ \A a \in addrs[h] : table[a] = NoMutex => Fresh(m, a)
       /\ table' = [a \in Addresses |->
                      IF a \in addrs[h] /\ table[a] = NoMutex THEN m ELSE table[a]]
  /\ refs' = [refs EXCEPT ![h] = [a \in Addresses |->
                IF a \in addrs[h] THEN table'[a] ELSE NoMutex]]
  /\ Goto(h, "acquire")
  /\ UNCHANGED <<addrs, held, ghosts>>

\* The mutex handler h refers to for a is held by nobody.
Free(h, a) == \A g \in Handlers : a \in held[g] => refs[g][a] # refs[h][a]

\* Faults: lock in any order; run the model after the first lock.
AcquireUnsorted(h) ==
  /\ pc[h] = "acquire"
  /\ \E a \in addrs[h] \ held[h] : Free(h, a) /\ held' = [held EXCEPT ![h] = @ \cup {a}]
  /\ Goto(h, IF held'[h] = addrs[h] THEN "read" ELSE "acquire")
  /\ UNCHANGED <<addrs, refs, table, ghosts>>

AcquireOne(h) ==
  /\ pc[h] = "acquire"
  /\ \E a \in addrs[h] :
       /\ \A b \in addrs[h] : a <= b
       /\ Free(h, a)
       /\ held' = [held EXCEPT ![h] = {a}]
  /\ Goto(h, "read")
  /\ UNCHANGED <<addrs, refs, table, ghosts>>

\* Lock the next mutex, in ascending order of address.
Acquire(h) ==
  /\ pc[h] = "acquire"
  /\ \E a \in addrs[h] \ held[h] :
       /\ \A b \in addrs[h] \ held[h] : a <= b
       /\ Free(h, a)
       /\ held' = [held EXCEPT ![h] = @ \cup {a}]
  /\ Goto(h, IF held'[h] = addrs[h] THEN "read" ELSE "acquire")
  /\ UNCHANGED <<addrs, refs, table, ghosts>>

\* The model runs: it reads the registers it is about to change ...
Read(h) ==
  /\ pc[h] = "read"
  /\ writers' = [writers EXCEPT ![h] = {}]
  /\ Goto(h, "write")
  /\ UNCHANGED <<addrs, refs, held, table, orphans>>

\* A write to the addresses as, by a writer of this kind, under the feet of the
\* handlers that have read one of them.
Overtake(as, kind) ==
  writers' = [h \in Handlers |-> IF pc[h] = "write" /\ addrs[h] \cap as # {}
                                  THEN writers[h] \cup {kind} ELSE writers[h]]

\* ... and writes them back.
Write(h) ==
  /\ pc[h] = "write"
  /\ Overtake(addrs[h], IF h \in orphans THEN "orphan" ELSE "locking")
  /\ Goto(h, "unlock")
  /\ UNCHANGED <<addrs, refs, held, table, orphans>>

\* drop(guards): in the order they were taken.
Unlock(h) ==
  /\ pc[h] = "unlock"
  /\ \E a \in held[h] :
       /\ \A b \in held[h] : a <= b
       /\ held' = [held EXCEPT ![h] = @ \ {a}]
  /\ Goto(h, IF held'[h] = {} THEN "drop" ELSE "unlock")
  /\ UNCHANGED <<addrs, refs, table, ghosts>>

\* drop(lock_arcs)
Drop(h) ==
  /\ pc[h] = "drop"
  /\ refs' = [refs EXCEPT ![h] = None]
  /\ Goto(h, "cleanup")
  /\ orphans' = orphans \ {h}
  /\ UNCHANGED <<addrs, held, table, writers>>

\* Fault: entries are removed without a look at the reference count.
AlwaysUnreferenced(a) == TRUE

\* Under the table's lock: remove what the table alone refers to.
Unreferenced(a) == \A h \in Handlers : refs[h][a] # table[a]

\* Fault: the cleanup stops at the first address.
CleanupFirst(h) ==
  /\ pc[h] = "cleanup"
  /\ table' = [a \in Addresses |->
                 IF a \in addrs[h] /\ Unreferenced(a) /\ \A b \in addrs[h] : a <= b
                 THEN NoMutex ELSE table[a]]
  /\ addrs' = [addrs EXCEPT ![h] = {}]
  /\ Goto(h, "idle")
  /\ UNCHANGED <<refs, held, ghosts>>

Cleanup(h) ==
  /\ pc[h] = "cleanup"
  /\ table' = [a \in Addresses |->
                 IF a \in addrs[h] /\ Unreferenced(a) THEN NoMutex ELSE table[a]]
  /\ addrs' = [addrs EXCEPT ![h] = {}]
  /\ Goto(h, "idle")
  /\ UNCHANGED <<refs, held, ghosts>>

\* clean(): the table is emptied; handlers that run are not stopped.
Clean ==
  /\ table' = None
  /\ orphans' = orphans \cup {h \in Handlers : refs[h] # None}
  /\ UNCHANGED <<pc, addrs, refs, held, writers>>

\* A single or multiple write by a handler that takes no address lock.
PlainWrite(a) ==
  /\ Overtake({a}, "plain")
  /\ UNCHANGED <<pc, addrs, refs, held, table, orphans>>

Handler(h) ==
  \/ Collect(h) \/ Acquire(h) \/ Read(h) \/ Write(h) \/ Unlock(h) \/ Drop(h) \/ Cleanup(h)

Next ==
  \/ \E h \in Handlers : Handler(h) \/ \E as \in SUBSET Addresses : Start(h, as)
  \/ Clean
  \/ \E a \in Addresses : PlainWrite(a)

Spec == Init /\ [][Next]_vars

\* Handlers are polled while they can run, a model's methods return, and tokio's
\* mutex is fair: a handler whose mutex is freed again and again gets it.
FairSpec ==
  /\ Spec
  /\ \A h \in Handlers : WF_vars(Handler(h)) /\ SF_vars(Acquire(h))

-----------------------------------------------------------------------------
(* Properties *)

InModel(h) == pc[h] \in {"read", "write"}

\* Requests that write a common address run the model one after the other, except
\* for those whose locks the closing of the slave has forgotten.
Exclusive ==
  \A g, h \in Handlers \ orphans :
    g # h /\ InModel(g) /\ InModel(h) => addrs[g] \cap addrs[h] = {}

\* A read-modify-write is atomic: between the read and the write of a handler no
\* other handler writes one of its addresses under the locks in force.
UpdateIsAtomic ==
  \A h \in Handlers \ orphans : pc[h] = "write" => "locking" \notin writers[h]

\* The table does not grow with the addresses ever written: each entry is in use
\* by a request that has not finished and will be seen by its cleanup.
TableIsBounded ==
  \A a \in Addresses : table[a] # NoMutex =>
    \E h \in Handlers : a \in addrs[h] /\ pc[h] \notin {"idle", "collect"}

\* The next mutex of a handler that locks, and who need not wait for anybody: a mutex for
\* a new entry can always be made.
Awaits(h, a) == pc[h] = "acquire" /\ a \in addrs[h] \ held[h] /\ \A b \in addrs[h] \ held[h] : a <= b
CanGo(h) ==
  \/ pc[h] \in {"collect", "read", "write", "drop", "cleanup"}
  \/ pc[h] = "unlock" /\ held[h] # {}
  \/ \E a \in addrs[h] : Awaits(h, a) /\ Free(h, a)

\* Handlers never all wait for each other, even for mutexes that clean() has forgotten: of
\* those that have begun, one can go on.
SomebodyGoes == (\E h \in Handlers : pc[h] # "idle") => \E h \in Handlers : CanGo(h)

\* Locking overlapping sets of addresses neither deadlocks nor starves anyone:
\* every request that begins finishes.
Finishes == \A h \in Handlers : (pc[h] # "idle") ~> (pc[h] = "idle")

\* What each handler has to itself, from its last lock to the return of the model.
exclusively ==
  [h \in Handlers |-> IF InModel(h) /\ h \notin orphans THEN addrs[h] ELSE {}]

\* All this amounts to taking the whole set of addresses in one step and giving it
\* back in one step, the closing of the slave being the only other way to lose it.
Atomic == INSTANCE AtomicLocks WITH holds <- exclusively
ImplementsAtomicLocks == Atomic!Spec

-----------------------------------------------------------------------------
(* The invariant behind them *)

Locking == {"acquire", "read", "write", "unlock", "drop"}

\* Whoever refers to a mutex refers to the one in the table, unless clean() has
\* forgotten it; references belong to a request under way.
RefsAreCurrent ==
  \A h \in Handlers : \A a \in Addresses :
    IF pc[h] \in Locking /\ a \in addrs[h]
    THEN refs[h][a] # NoMutex /\ (h \notin orphans => refs[h][a] = table[a])
    ELSE refs[h][a] = NoMutex

HeldBelongs ==
  \A h \in Handlers :
    /\ held[h] \subseteq addrs[h]
    /\ held[h] # {} => pc[h] \in {"acquire", "read", "write", "unlock"}
    /\ InModel(h) => held[h] = addrs[h]

HeldOnce == \A g, h \in Handlers \ orphans : g # h => held[g] \cap held[h] = {}

LockInv == TypeOK /\ RefsAreCurrent /\ HeldBelongs /\ HeldOnce
=============================================================================
