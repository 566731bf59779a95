CONSTANTS
  h1 = h1  h2 = h2   m1 = m1  m2 = m2
  Handlers = {h1, h2}
  MaxAddress = 2
  Addresses = {1, 2}
  Mutexes = {m1, m2}
  NoMutex = NoMutex
SPECIFICATION FairSpec
INVARIANTS Exclusive UpdateIsAtomic TableIsBounded
PROPERTIES Finishes ImplementsAtomicLocks
