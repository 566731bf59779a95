------------------------- MODULE AddressLocksProofs -------------------------
(***************************************************************************)
(* Mutual exclusion of with_address_lock, for every set of handlers and of *)
(* addresses, and what is left of it when the slave is closed while they   *)
(* run.                                                                    *)
(***************************************************************************)
EXTENDS AddressLocks, WellFoundedInduction, TLAPS

\* Every variable keeps its type, even when the table is emptied under way.
LEMMA TypeStep == TypeOK /\ [Next]_vars => TypeOK'
<1> SUFFICES ASSUME TypeOK, [Next]_vars PROVE TypeOK'  OBVIOUS
<1> USE DEF TypeOK, Goto, Steps, None, ghosts
<1>1. ASSUME NEW h \in Handlers, NEW as \in SUBSET Addresses, Start(h, as)  PROVE TypeOK'
  BY <1>1 DEF Start
<1>2. ASSUME NEW h \in Handlers, Collect(h)  PROVE TypeOK'
  <2>1. table' \in [Addresses -> Mutexes \cup {NoMutex}]  BY <1>2 DEF Collect
  <2> QED BY <1>2, <2>1 DEF Collect
<1>3. ASSUME NEW h \in Handlers, Acquire(h)  PROVE TypeOK'  BY <1>3 DEF Acquire
<1>4. ASSUME NEW h \in Handlers, Read(h)  PROVE TypeOK'  BY <1>4 DEF Read
<1>5. ASSUME NEW h \in Handlers, Write(h)  PROVE TypeOK'  BY <1>5 DEF Write, Overtake
<1>6. ASSUME NEW h \in Handlers, Unlock(h)  PROVE TypeOK'  BY <1>6 DEF Unlock
<1>7. ASSUME NEW h \in Handlers, Drop(h)  PROVE TypeOK'  BY <1>7 DEF Drop
<1>8. ASSUME NEW h \in Handlers, Cleanup(h)  PROVE TypeOK'  BY <1>8 DEF Cleanup
<1>9. CASE Clean  BY <1>9 DEF Clean
<1>10. ASSUME NEW a \in Addresses, PlainWrite(a)  PROVE TypeOK'
  BY <1>10 DEF PlainWrite, Overtake
<1>11. CASE UNCHANGED vars  BY <1>11 DEF vars
<1> QED
  BY <1>1, <1>2, <1>3, <1>4, <1>5, <1>6, <1>7, <1>8, <1>9, <1>10, <1>11 DEF Next, Handler

THEOREM TypeCorrect == Spec => []TypeOK
<1>1. Init => TypeOK  BY DEF Init, TypeOK, None, Steps
<1> QED BY <1>1, TypeStep, PTL DEF Spec

-----------------------------------------------------------------------------
\* References follow the table: an entry is removed only when nobody refers to
\* it, so a handler never holds on to a mutex that has been replaced.
LEMMA RefsStep ==
  ASSUME LockInv, [Next]_vars
  PROVE  RefsAreCurrent'
<1> USE DEF LockInv, TypeOK, Goto, None, Locking, ghosts
<1>1. ASSUME NEW h \in Handlers, NEW as \in SUBSET Addresses, Start(h, as)
      PROVE  RefsAreCurrent'
  BY <1>1 DEF Start, RefsAreCurrent
<1>2. ASSUME NEW h \in Handlers, Collect(h)  PROVE RefsAreCurrent'
  <2>1. \A a \in Addresses : table[a] # NoMutex => table'[a] = table[a]
    BY <1>2 DEF Collect
  <2>2. \A a \in addrs[h] : table'[a] # NoMutex
    BY <1>2, LocksAssumption DEF Collect
  <2>3. \A g \in Handlers : g # h => pc'[g] = pc[g] /\ refs'[g] = refs[g]
    BY <1>2 DEF Collect
  <2>4. \A a \in Addresses : refs'[h][a] = IF a \in addrs[h] THEN table'[a] ELSE NoMutex
    BY <1>2 DEF Collect
  <2>5. pc'[h] = "acquire" /\ addrs' = addrs  BY <1>2 DEF Collect
  <2>6. orphans' = orphans  BY <1>2 DEF Collect
  <2> QED BY <2>1, <2>2, <2>3, <2>4, <2>5, <2>6 DEF RefsAreCurrent
<1>3. ASSUME NEW h \in Handlers, Acquire(h)  PROVE RefsAreCurrent'
  BY <1>3 DEF Acquire, RefsAreCurrent
<1>4. ASSUME NEW h \in Handlers, Read(h)  PROVE RefsAreCurrent'
  BY <1>4 DEF Read, RefsAreCurrent
<1>5. ASSUME NEW h \in Handlers, Write(h)  PROVE RefsAreCurrent'
  BY <1>5 DEF Write, RefsAreCurrent
<1>6. ASSUME NEW h \in Handlers, Unlock(h)  PROVE RefsAreCurrent'
  BY <1>6 DEF Unlock, RefsAreCurrent
<1>7. ASSUME NEW h \in Handlers, Drop(h)  PROVE RefsAreCurrent'
  BY <1>7 DEF Drop, RefsAreCurrent
<1>8. ASSUME NEW h \in Handlers, Cleanup(h)  PROVE RefsAreCurrent'
  <2>1. \A g \in Handlers, a \in Addresses : refs[g][a] = table[a] => table'[a] = table[a]
    BY <1>8 DEF Cleanup, Unreferenced
  <2> QED BY <1>8, <2>1 DEF Cleanup, RefsAreCurrent
<1>9. CASE Clean  BY <1>9 DEF Clean, RefsAreCurrent
<1>10. ASSUME NEW a \in Addresses, PlainWrite(a)  PROVE RefsAreCurrent'
  BY <1>10 DEF PlainWrite, RefsAreCurrent
<1>11. CASE UNCHANGED vars  BY <1>11 DEF vars, RefsAreCurrent
<1> QED
  BY <1>1, <1>2, <1>3, <1>4, <1>5, <1>6, <1>7, <1>8, <1>9, <1>10, <1>11 DEF Next, Handler

LEMMA HeldStep ==
  ASSUME LockInv, [Next]_vars
  PROVE  HeldBelongs' /\ HeldOnce'
<1> USE DEF LockInv, TypeOK, Goto, InModel, Locking, ghosts
<1> DEFINE Inv == HeldBelongs /\ HeldOnce
<1>1. ASSUME NEW h \in Handlers, NEW as \in SUBSET Addresses, Start(h, as)  PROVE Inv'
  <2>1. held[h] = {}  BY <1>1 DEF Start, HeldBelongs
  <2>2. HeldOnce'  BY <1>1 DEF Start, HeldOnce
  <2>3. HeldBelongs'  BY <1>1, <2>1 DEF Start, HeldBelongs
  <2> QED BY <2>2, <2>3
<1>2. ASSUME NEW h \in Handlers, Collect(h)  PROVE Inv'
  <2>1. pc'[h] = "acquire" /\ \A g \in Handlers : g # h => pc'[g] = pc[g]  BY <1>2 DEF Collect
  <2>2. addrs' = addrs /\ held' = held /\ orphans' = orphans /\ pc[h] = "collect"
    BY <1>2 DEF Collect
  <2> QED BY <2>1, <2>2 DEF HeldBelongs, HeldOnce
<1>3. ASSUME NEW h \in Handlers, Acquire(h)  PROVE Inv'
  <2>1. PICK a \in addrs[h] \ held[h] : Free(h, a) /\ held' = [held EXCEPT ![h] = @ \cup {a}]
    BY <1>3 DEF Acquire
  \* Whoever held a would hold it through the same mutex.
  <2>2. ASSUME h \notin orphans, NEW g \in Handlers \ orphans  PROVE a \notin held[g]
    BY <1>3, <2>1, <2>2 DEF Acquire, Free, RefsAreCurrent, HeldBelongs
  <2>3. HeldOnce'
    <3> SUFFICES ASSUME NEW g \in Handlers \ orphans, NEW k \in Handlers \ orphans, g # k
                 PROVE  held'[g] \cap held'[k] = {}
      BY <1>3 DEF Acquire, HeldOnce
    <3>1. held[g] \cap held[k] = {}  BY DEF HeldOnce
    <3> QED BY <2>1, <2>2, <3>1
  <2>4. HeldBelongs'  BY <1>3, <2>1 DEF Acquire, HeldBelongs
  <2> QED BY <2>3, <2>4
<1>4. ASSUME NEW h \in Handlers, Read(h)  PROVE Inv'
  BY <1>4 DEF Read, HeldBelongs, HeldOnce
<1>5. ASSUME NEW h \in Handlers, Write(h)  PROVE Inv'
  BY <1>5 DEF Write, HeldBelongs, HeldOnce
<1>6. ASSUME NEW h \in Handlers, Unlock(h)  PROVE Inv'
  <2>1. HeldOnce'  BY <1>6 DEF Unlock, HeldOnce
  <2>2. HeldBelongs'  BY <1>6 DEF Unlock, HeldBelongs
  <2> QED BY <2>1, <2>2
<1>7. ASSUME NEW h \in Handlers, Drop(h)  PROVE Inv'
  BY <1>7 DEF Drop, HeldBelongs, HeldOnce
<1>8. ASSUME NEW h \in Handlers, Cleanup(h)  PROVE Inv'
  BY <1>8 DEF Cleanup, HeldBelongs, HeldOnce
<1>9. CASE Clean  BY <1>9 DEF Clean, HeldBelongs, HeldOnce
<1>10. ASSUME NEW a \in Addresses, PlainWrite(a)  PROVE Inv'
  BY <1>10 DEF PlainWrite, HeldBelongs, HeldOnce
<1>11. CASE UNCHANGED vars  BY <1>11 DEF vars, HeldBelongs, HeldOnce
<1> QED
  BY <1>1, <1>2, <1>3, <1>4, <1>5, <1>6, <1>7, <1>8, <1>9, <1>10, <1>11 DEF Next, Handler

\* The inductive invariant: references are current, and what is held is held once.
THEOREM LockInvariant == Spec => []LockInv
<1>1. Init => LockInv
  BY DEF Init, LockInv, TypeOK, None, Steps, Locking, RefsAreCurrent, HeldBelongs, HeldOnce, InModel
<1>2. LockInv /\ [Next]_vars => LockInv'
  BY TypeStep, RefsStep, HeldStep DEF LockInv
<1> QED BY <1>1, <1>2, PTL DEF Spec

\* Requests that write a common address never run the model at the same time, but
\* for those whose locks the closing of the slave has forgotten.
THEOREM MutualExclusion == Spec => []Exclusive
<1>1. LockInv => Exclusive
  BY DEF LockInv, HeldBelongs, HeldOnce, Exclusive
<1> QED BY <1>1, LockInvariant, PTL

\* The read-modify-write of a handler is atomic with respect to the other handlers
\* that take address locks, and to them only.
THEOREM AtomicUpdate == Spec => []UpdateIsAtomic
<1>1. Init => UpdateIsAtomic  BY DEF Init, UpdateIsAtomic
<1>2. TypeOK /\ Exclusive /\ UpdateIsAtomic /\ [Next]_vars => UpdateIsAtomic'
  <2> SUFFICES ASSUME TypeOK, Exclusive, UpdateIsAtomic, [Next]_vars
               PROVE  UpdateIsAtomic'
    OBVIOUS
  <2> USE DEF TypeOK, UpdateIsAtomic, Goto, ghosts
  <2>1. ASSUME NEW h \in Handlers, Write(h)  PROVE UpdateIsAtomic'
    <3> SUFFICES ASSUME NEW g \in Handlers, g \notin orphans, pc'[g] = "write"
                 PROVE  "locking" \notin writers'[g]
      BY <2>1 DEF Write
    <3>1. g # h /\ pc[g] = "write" /\ pc[h] = "write" /\ "locking" \notin writers[g]
      BY <2>1 DEF Write
    <3>2. h \in orphans \/ addrs[g] \cap addrs[h] = {}
      BY <3>1 DEF Exclusive, InModel
    <3> QED BY <2>1, <3>1, <3>2 DEF Write, Overtake
  <2>2. ASSUME NEW h \in Handlers, Read(h)  PROVE UpdateIsAtomic'
    BY <2>2 DEF Read
  <2>3. ASSUME NEW h \in Handlers, NEW as \in SUBSET Addresses, Start(h, as)  PROVE UpdateIsAtomic'
    BY <2>3 DEF Start
  <2>4. ASSUME NEW h \in Handlers, Collect(h) \/ Acquire(h)  PROVE UpdateIsAtomic'
    BY <2>4 DEF Collect, Acquire
  <2>5. ASSUME NEW h \in Handlers, Unlock(h) \/ Drop(h) \/ Cleanup(h)  PROVE UpdateIsAtomic'
    BY <2>5 DEF Unlock, Drop, Cleanup
  <2>6. CASE Clean  BY <2>6 DEF Clean
  <2>7. ASSUME NEW a \in Addresses, PlainWrite(a)  PROVE UpdateIsAtomic'
    BY <2>7 DEF PlainWrite, Overtake
  <2>8. CASE UNCHANGED vars  BY <2>8 DEF vars
  <2> QED BY <2>1, <2>2, <2>3, <2>4, <2>5, <2>6, <2>7, <2>8 DEF Next, Handler
<1> QED BY <1>1, <1>2, TypeCorrect, MutualExclusion, PTL DEF Spec

-----------------------------------------------------------------------------
LEMMA BoundedStep ==
  ASSUME LockInv, TableIsBounded, [Next]_vars
  PROVE  TableIsBounded'
<1> USE DEF LockInv, TypeOK, Goto, None
<1>1. ASSUME NEW h \in Handlers, NEW as \in SUBSET Addresses, Start(h, as)  PROVE TableIsBounded'
  <2>1. \A g \in Handlers : g # h => pc'[g] = pc[g] /\ addrs'[g] = addrs[g]  BY <1>1 DEF Start
  <2>2. pc[h] = "idle" /\ pc'[h] = "collect" /\ table' = table /\ refs' = refs  BY <1>1 DEF Start
  <2> QED BY <2>1, <2>2 DEF TableIsBounded
<1>2. ASSUME NEW h \in Handlers, Collect(h)  PROVE TableIsBounded'
  <2>1. \A g \in Handlers : g # h => pc'[g] = pc[g] /\ refs'[g] = refs[g]
    BY <1>2 DEF Collect
  <2>2. \A a \in Addresses : a \notin addrs[h] => table'[a] = table[a] /\ refs'[h][a] = NoMutex
    BY <1>2 DEF Collect
  <2>3. pc'[h] = "acquire" /\ pc[h] = "collect" /\ addrs' = addrs  BY <1>2 DEF Collect
  <2> QED BY <2>1, <2>2, <2>3 DEF TableIsBounded
<1>3. ASSUME NEW h \in Handlers, pc[h] \in {"acquire", "read", "write", "unlock"},
             NEW step \in {"acquire", "read", "write", "unlock", "drop"}, Goto(h, step),
             UNCHANGED <<addrs, refs, table>>
      PROVE  TableIsBounded'
  BY <1>3 DEF TableIsBounded
<1>4. ASSUME NEW h \in Handlers, Acquire(h) \/ Read(h) \/ Write(h) \/ Unlock(h)  PROVE TableIsBounded'
  BY <1>3, <1>4 DEF Acquire, Read, Write, Unlock
<1>5. ASSUME NEW h \in Handlers, Drop(h)  PROVE TableIsBounded'
  BY <1>5 DEF Drop, TableIsBounded
<1>6. ASSUME NEW h \in Handlers, Cleanup(h)  PROVE TableIsBounded'
  <2> SUFFICES ASSUME NEW a \in Addresses, table'[a] # NoMutex
               PROVE  \E g \in Handlers : a \in addrs'[g] /\ pc'[g] \notin {"idle", "collect"}
    BY DEF TableIsBounded
  <2>1. table'[a] = table[a] /\ table[a] # NoMutex  BY <1>6 DEF Cleanup
  <2>2. CASE a \in addrs[h]
    <3>1. PICK g \in Handlers : refs[g][a] # NoMutex
      BY <1>6, <2>1, <2>2 DEF Cleanup, Unreferenced
    <3>2. g # h /\ a \in addrs[g] /\ pc[g] \notin {"idle", "collect"}
      BY <1>6, <3>1 DEF Cleanup, RefsAreCurrent, Locking
    <3> QED BY <1>6, <3>2 DEF Cleanup
  <2>3. CASE a \notin addrs[h]
    <3>1. PICK g \in Handlers : a \in addrs[g] /\ pc[g] \notin {"idle", "collect"}
      BY <2>1 DEF TableIsBounded
    <3> QED BY <1>6, <2>3, <3>1 DEF Cleanup
  <2> QED BY <2>2, <2>3
<1>7. CASE Clean  BY <1>7 DEF Clean, TableIsBounded
<1>8. ASSUME NEW a \in Addresses, PlainWrite(a)  PROVE TableIsBounded'
  BY <1>8 DEF PlainWrite, TableIsBounded
<1>9. CASE UNCHANGED vars  BY <1>9 DEF vars, TableIsBounded
<1> QED BY <1>1, <1>2, <1>4, <1>5, <1>6, <1>7, <1>8, <1>9 DEF Next, Handler

\* Every entry of the table is in use by a request that will come to clean it up,
\* whether or not the slave is closed meanwhile: the table cannot leak.
THEOREM BoundedTable == Spec => []TableIsBounded
<1>1. Init => TableIsBounded
  BY DEF Init, None, TableIsBounded
<1> QED BY <1>1, BoundedStep, LockInvariant, PTL DEF Spec

-----------------------------------------------------------------------------
\* Every step of a handler is one of the abstract locks, or none of their business.
LEMMA AtomicStep ==
  ASSUME LockInv, LockInv', [Next]_vars
  PROVE  [Atomic!Next]_exclusively
<1> USE DEF LockInv, TypeOK, Goto, InModel, exclusively, ghosts
<1>1. ASSUME NEW h \in Handlers, Acquire(h)  PROVE [Atomic!Next]_exclusively
  <2>1. /\ pc[h] = "acquire" /\ pc'[h] \in {"acquire", "read"} /\ addrs[h] # {}
        /\ \A g \in Handlers : g # h => pc'[g] = pc[g]
        /\ addrs' = addrs /\ orphans' = orphans
    BY <1>1 DEF Acquire
  <2>2. CASE pc'[h] = "read" /\ h \notin orphans
    <3>1. \A g \in Handlers \ orphans : g # h /\ InModel(g) => addrs[g] \cap addrs[h] = {}
      BY <2>1, <2>2 DEF HeldBelongs, HeldOnce
    <3>2. /\ exclusively[h] = {} /\ \A g \in Handlers : exclusively[g] \cap addrs[h] = {}
          /\ exclusively' = [exclusively EXCEPT ![h] = addrs[h]]
      BY <2>1, <2>2, <3>1
    <3>3. addrs[h] \in SUBSET Addresses  OBVIOUS
    <3> HIDE DEF exclusively, InModel, LockInv, TypeOK
    <3> QED BY <2>1, <3>2, <3>3 DEF Atomic!Next, Atomic!Acquire
  <2>3. CASE ~(pc'[h] = "read" /\ h \notin orphans)
    BY <2>1, <2>3
  <2> QED BY <2>2, <2>3
<1>2. ASSUME NEW h \in Handlers, Write(h)  PROVE [Atomic!Next]_exclusively
  BY <1>2 DEF Write, Atomic!Next, Atomic!Release
<1>3. CASE Clean
  <2>1. \A h \in Handlers : InModel(h) /\ addrs[h] # {} => h \in orphans'
    BY <1>3 DEF Clean, RefsAreCurrent, Locking, None
  <2>2. Atomic!Forget  BY <1>3, <2>1 DEF Clean, Atomic!Forget
  <2> QED BY <2>2 DEF Atomic!Next
<1>4. ASSUME NEW h \in Handlers, NEW as \in SUBSET Addresses, Start(h, as)
      PROVE  UNCHANGED exclusively
  BY <1>4 DEF Start
<1>5. ASSUME NEW h \in Handlers, Collect(h) \/ Read(h) \/ Unlock(h)  PROVE UNCHANGED exclusively
  BY <1>5 DEF Collect, Read, Unlock
<1>6. ASSUME NEW h \in Handlers, Drop(h) \/ Cleanup(h)  PROVE UNCHANGED exclusively
  BY <1>6 DEF Drop, Cleanup
<1>7. ASSUME NEW a \in Addresses, PlainWrite(a)  PROVE UNCHANGED exclusively
  BY <1>7 DEF PlainWrite
<1>8. CASE UNCHANGED vars  BY <1>8 DEF vars
<1> QED BY <1>1, <1>2, <1>3, <1>4, <1>5, <1>6, <1>7, <1>8 DEF Next, Handler

\* with_address_lock, with its table, its reference counts and its ordered locking,
\* implements locks that are taken and given back all at once.
THEOREM LocksRefinement == Spec => ImplementsAtomicLocks
<1>1. Init => Atomic!Init  BY DEF Init, Atomic!Init, exclusively, InModel
<1>2. LockInv /\ LockInv' /\ [Next]_vars => [Atomic!Next]_exclusively  BY AtomicStep
<1> QED BY <1>1, <1>2, LockInvariant, PTL DEF Spec, ImplementsAtomicLocks, Atomic!Spec

-----------------------------------------------------------------------------
(* Nobody waits for each other *)

LEMMA LeastElement ==
  ASSUME NEW T \in SUBSET Nat, T # {}
  PROVE  \E x \in T : \A y \in T : x <= y
<1> DEFINE R == OpToRel(<, Nat)
<1>1. IsWellFoundedOn(R, Nat)  BY NatLessThanWellFounded
<1>2. \A x, y \in Nat : x < y => <<x, y>> \in R  BY DEF OpToRel
<1> HIDE DEF R
<1>3. PICK x \in T : \A y \in T : ~ (<<y, x>> \in R)  BY <1>1, WFMin
<1>4. x \in Nat /\ \A y \in T : y \in Nat /\ ~ (y < x)  BY <1>2, <1>3
<1> QED  BY <1>4

LEMMA AddressNumbers ==
  MaxAddress \in Nat /\ \A a \in Addresses : a \in Nat /\ a <= MaxAddress
BY LocksAssumption

LEMMA GreatestAddress ==
  ASSUME NEW T \in SUBSET Addresses, T # {}
  PROVE  \E x \in T : \A y \in T : y <= x
<1>1. MaxAddress \in Nat /\ \A x \in T : x \in Nat /\ x <= MaxAddress  BY AddressNumbers
<1> DEFINE U == {MaxAddress - x : x \in T}
<1>2. U \in SUBSET Nat /\ U # {}
  <2>1. \A x \in T : MaxAddress - x \in Nat  BY <1>1
  <2> QED  BY <2>1
<1>3. PICK u \in U : \A v \in U : u <= v
  <2> HIDE DEF U
  <2> QED  BY <1>2, LeastElement
<1>4. PICK x \in T : u = MaxAddress - x  BY <1>3
<1>5. \A y \in T : MaxAddress - x <= MaxAddress - y  BY <1>3, <1>4
<1> QED  BY <1>1, <1>4, <1>5

\* A handler that locks holds the mutexes of its first addresses, and waits for one; a
\* handler that unlocks still holds one.
Ascending ==
  \A h \in Handlers :
    /\ pc[h] = "acquire" => /\ \A a \in held[h], b \in addrs[h] \ held[h] : a < b
                            /\ addrs[h] # held[h]
    /\ pc[h] \in {"collect", "read", "write", "unlock"} => addrs[h] # {}
    /\ pc[h] = "unlock" => held[h] # {}

LEMMA AscendingStep ==
  ASSUME LockInv, Ascending, [Next]_vars
  PROVE  Ascending'
<1> USE DEF LockInv, TypeOK, Goto, ghosts, InModel
<1>1. ASSUME NEW h \in Handlers, NEW as \in SUBSET Addresses, Start(h, as)  PROVE Ascending'
  BY <1>1 DEF Start, Ascending
<1>2. ASSUME NEW h \in Handlers, Collect(h)  PROVE Ascending'
  <2>1. pc[h] = "collect" /\ pc' = [pc EXCEPT ![h] = "acquire"] /\ UNCHANGED <<addrs, held>>
    BY <1>2 DEF Collect
  <2>2. held[h] = {}  BY <2>1 DEF HeldBelongs
  <2> QED  BY <2>1, <2>2 DEF Ascending
<1>3. ASSUME NEW h \in Handlers, Acquire(h)  PROVE Ascending'
  <2>1. PICK a \in addrs[h] \ held[h] :
          (\A b \in addrs[h] \ held[h] : a <= b) /\ held' = [held EXCEPT ![h] = @ \cup {a}]
    BY <1>3 DEF Acquire
  <2>2. /\ pc[h] = "acquire" /\ UNCHANGED addrs
        /\ pc' = [pc EXCEPT ![h] = IF held'[h] = addrs[h] THEN "read" ELSE "acquire"]
    BY <1>3 DEF Acquire
  <2>3. \A b \in addrs[h] : b \in Nat  BY AddressNumbers
  <2>4. \A x \in held'[h], b \in addrs[h] \ held'[h] : x < b
    <3> SUFFICES ASSUME NEW x \in held'[h], NEW b \in addrs[h] \ held'[h]  PROVE x < b  OBVIOUS
    <3>1. held'[h] = held[h] \cup {a} /\ b \in addrs[h] \ held[h] /\ b # a  BY <2>1
    <3>2. CASE x \in held[h]  BY <2>2, <3>1, <3>2 DEF Ascending
    <3>3. CASE x = a
      <4>1. a <= b /\ a \in Nat /\ b \in Nat  BY <2>1, <2>3, <3>1
      <4> QED  BY <3>1, <3>3, <4>1
    <3> QED  BY <3>1, <3>2, <3>3
  <2>5. addrs[h] # {}  BY <2>1
  <2>6. \A g \in Handlers : g # h => held'[g] = held[g] /\ pc'[g] = pc[g]  BY <2>1, <2>2
  <2>7. pc'[h] \in {"read", "acquire"} /\ (pc'[h] = "acquire" => held'[h] # addrs[h])  BY <2>2
  <2> QED  BY <2>2, <2>4, <2>5, <2>6, <2>7 DEF Ascending
<1>4. ASSUME NEW h \in Handlers, Read(h)  PROVE Ascending'  BY <1>4 DEF Read, Ascending
<1>5. ASSUME NEW h \in Handlers, Write(h)  PROVE Ascending'
  BY <1>5 DEF Write, Ascending, HeldBelongs
<1>6. ASSUME NEW h \in Handlers, Unlock(h)  PROVE Ascending'
  <2>1. /\ pc[h] = "unlock" /\ UNCHANGED addrs
        /\ pc' = [pc EXCEPT ![h] = IF held'[h] = {} THEN "drop" ELSE "unlock"]
    BY <1>6 DEF Unlock
  <2>2. \A g \in Handlers : g # h => held'[g] = held[g] /\ pc'[g] = pc[g]  BY <1>6 DEF Unlock
  <2> QED  BY <2>1, <2>2 DEF Ascending
<1>7. ASSUME NEW h \in Handlers, Drop(h)  PROVE Ascending'  BY <1>7 DEF Drop, Ascending
<1>8. ASSUME NEW h \in Handlers, Cleanup(h)  PROVE Ascending'  BY <1>8 DEF Cleanup, Ascending
<1>9. CASE Clean  BY <1>9 DEF Clean, Ascending
<1>10. ASSUME NEW a \in Addresses, PlainWrite(a)  PROVE Ascending'  BY <1>10 DEF PlainWrite, Ascending
<1>11. CASE UNCHANGED vars  BY <1>11 DEF vars, Ascending
<1> QED
  BY <1>1, <1>2, <1>3, <1>4, <1>5, <1>6, <1>7, <1>8, <1>9, <1>10, <1>11 DEF Next, Handler

LEMMA EveryLockerAwaits ==
  ASSUME LockInv, Ascending, NEW h \in Handlers, pc[h] = "acquire"
  PROVE  \E a \in addrs[h] : Awaits(h, a)
<1> DEFINE T == addrs[h] \ held[h]
<1>1. T \in SUBSET Nat /\ T # {}
  <2>1. addrs[h] \subseteq Addresses /\ held[h] \subseteq addrs[h] /\ addrs[h] # held[h]
    BY DEF LockInv, TypeOK, HeldBelongs, Ascending
  <2>2. addrs[h] \subseteq Nat  BY <2>1, AddressNumbers
  <2> QED  BY <2>1, <2>2
<1>2. \E a \in T : \A b \in T : a <= b
  <2> HIDE DEF T
  <2> QED  BY <1>1, LeastElement
<1> QED  BY <1>2 DEF Awaits

\* Handlers that lock overlapping sets of addresses never all wait for each other: who is
\* waited for at the highest address does not wait, since it would for a higher one.
THEOREM NoCircularWait == Spec => []SomebodyGoes
<1>1. Init => Ascending  BY DEF Init, Ascending
<1>2. LockInv /\ Ascending => SomebodyGoes
  <2> SUFFICES ASSUME LockInv, Ascending, NEW k \in Handlers, pc[k] # "idle",
                      \A h \in Handlers : ~CanGo(h)
               PROVE  FALSE
    BY DEF SomebodyGoes
  <2>1. \A h \in Handlers : pc[h] \in {"idle", "acquire"}
    BY DEF LockInv, TypeOK, Steps, CanGo, Ascending
  <2> DEFINE T == {a \in Addresses : \E h \in Handlers : a \in addrs[h] /\ Awaits(h, a)}
  <2>2. \A h \in Handlers : pc[h] = "acquire" => \E a \in T : a \in addrs[h] /\ Awaits(h, a)
    BY EveryLockerAwaits DEF LockInv, TypeOK
  <2>3. T \in SUBSET Addresses /\ T # {}  BY <2>1, <2>2
  <2>4. PICK top \in T : \A a \in T : a <= top
    <3> HIDE DEF T
    <3> QED  BY <2>3, GreatestAddress
  <2>5. PICK h \in Handlers : top \in addrs[h] /\ Awaits(h, top)  BY <2>4
  <2>6. PICK g \in Handlers : top \in held[g]  BY <2>5 DEF CanGo, Free
  <2>7. pc[g] = "acquire"  BY <2>1, <2>6 DEF LockInv, HeldBelongs
  <2>8. PICK a \in T : a \in addrs[g] /\ Awaits(g, a)  BY <2>2, <2>7
  <2>9. top < a  BY <2>6, <2>7, <2>8 DEF Awaits, Ascending
  <2>10. a \in Nat /\ top \in Nat /\ a <= top  BY <2>3, <2>4, <2>8, AddressNumbers
  <2> QED  BY <2>9, <2>10
<1> QED  BY <1>1, <1>2, AscendingStep, LockInvariant, PTL DEF Spec
=============================================================================
