SPECIFICATION Spec
CONSTANTS
  u1 = u1
  u2 = u2
  c1 = c1
  c2 = c2
  NoUser = NoUser
  Users = {u1}
  Calls = {c1, c2}
  MaxSessions = 3
  MaxExpired = 1
  MaxAborts = 0
SYMMETRY Interchangeable
INVARIANTS OneSuccessor
CHECK_DEADLOCK FALSE
