SPECIFICATION Spec
CONSTANTS
  u1 = u1
  p1 = p1
  p2 = p2
  q1 = q1
  q2 = q2
  q3 = q3
  t1 = t1
  t2 = t2
  t3 = t3
  t4 = t4
  Users = {u1}
  Slots = {q1,q2}
  Processes = {p1,p2}
  ProcessOf <- TwoProcesses
  Tokens = {t1,t2}
  NoToken = NoToken
  NoUser = NoUser
CHECK_DEADLOCK FALSE
PROPERTIES LogoutIsFinal
