SPECIFICATION SessionsSpec
CONSTANTS
  u1 = u1
  p1 = p1
  p2 = p2
  q1 = q1
  q2 = q2
  q3 = q3
  t1 = t1
  t2 = t2
  t3 = t3
  t4 = t4
  a1 = a1
  l1 = l1
  l2 = l2
  none = none
  Users = {u1}
  Slots = {q1,q2,q3}
  Processes = {p1,p2}
  ProcessOf <- TwoProcesses
  Tokens = {t1,t2}
  AccessTokens = {t3,t4}
  Requests = {q1,q3}
  TTL = 2
  MaxTime = 2
  Accounts = {u1}
  Addresses = {a1}
  Links = {l1,l2}
  MaxVersion = 2
  Deleted = "deleted"
  NoAddress = none
  NoAccount = none
  NoLink = none
  NoToken = NoToken
  NoUser = NoUser
SYMMETRY SymmetricSlots
INVARIANTS TypesOK SessionNeverForks RaceKeepsSession InflightIsServed GoneIsOut OldPasswordIsOut ErasedStaysAnonymous
