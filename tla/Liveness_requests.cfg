SPECIFICATION LivenessSpec
CONSTANTS
  i1 = i1
  q1 = q1
  q2 = q2
  s1 = s1
  e1 = e1
  r1 = r1
  r2 = r2
  h1 = h1
  none = none
  Invoices = {i1}
  Requests = {q1, q2}
  Sessions = {s1}
  MaxCrashes = 1
  NoInvoice = NoInvoice
  NoSession = NoSession
CHECK_DEADLOCK FALSE
INVARIANTS PaidOnlyIfCollected
PROPERTIES RequestsEnd PaymentIsRecorded PaymentIsNotified
