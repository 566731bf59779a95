CONSTANTS
  u1 = u1  u2 = u2
  Users = {u1, u2}
  MaxConns = 2
  MaxReads = 1
SPECIFICATION Spec
SYMMETRY UserSymmetry
INVARIANTS SessionIsWhole SessionsEndOnce NoReaderLeft
