SPECIFICATION Spec
CONSTANTS
  u1 = u1
  u2 = u2
  c1 = c1
  c2 = c2
  NoUser = NoUser
  Users = {u1, u2}
  Calls = {c1, c2}
  MaxSessions = 3
  MaxExpired = 1
  MaxAborts = 1
SYMMETRY Interchangeable
INVARIANTS TypeOK OneTokenPerLogin ReplayEndsTheLogin HonestLoginsSurvive LogoutEndsTheLogin
CHECK_DEADLOCK FALSE
