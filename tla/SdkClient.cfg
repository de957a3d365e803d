SPECIFICATION ClientSpec
CONSTANTS
  u1 = u1
  q1 = q1
  q2 = q2
  c1 = c1
  c2 = c2
  c3 = c3
  NoUser = NoUser
  NoCall = NoCall
  Users = {u1}
  User = u1
  Calls = {c1, c2, c3}
  Requests = {q1, q2}
  MaxSessions = 5
  MaxExpired = 1
  MaxAborts = 1
  MaxAccessExpiries = 1
  MaxLogins = 1
INVARIANTS ClientTypeOK NeverAccused HonestClientStaysSignedIn
PROPERTIES ReplaysWithNewToken EveryRequestReturns
CHECK_DEADLOCK FALSE
