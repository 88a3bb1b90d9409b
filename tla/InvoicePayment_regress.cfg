SPECIFICATION Spec
CONSTANTS
  i1 = i1
  q1 = q1
  q2 = q2
  s1 = s1
  s2 = s2
  Invoices = {i1}
  Requests = {q1,q2}
  Sessions = {s1}
  MaxCrashes = 0
  NoInvoice = NoInvoice
  NoSession = NoSession
CHECK_DEADLOCK FALSE
PROPERTIES PaidIsFinal
