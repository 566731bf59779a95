CONSTANTS
  u1 = u1  u2 = u2
  Users = {u1, u2}
  MaxSessions = 2
SPECIFICATION Spec
SYMMETRY UserSymmetry
INVARIANTS OpenIsRead
