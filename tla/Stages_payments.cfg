SPECIFICATION StagesSpec
CONSTANTS
  e1 = e1
  r1 = r1
  r2 = r2
  h1 = h1
  h2 = h2
  q1 = q1
  q2 = q2
  q3 = q3
  i1 = i1
  i2 = i2
  s1 = s1
  s2 = s2
  Events = {e1}
  Riders = {r1, r2}
  Horses = {h1, h2}
  Requests = {q1, q2, q3}
  PricedEvents = {e1}
  Suits <- MCSuits
  MaxCapacity = 2
  Durations = {2}
  MaxLoad = 4
  MaxOther = 0
  NoHorse = NoHorse
  NoRequest = NoRequest
  Invoices = {i1, i2}
  Sessions = {s1, s2}
  MaxCrashes = 0
  NoInvoice = NoInvoice
  NoSession = NoSession
SYMMETRY Symmetric
ACTION_CONSTRAINTS HorsesAlone PaymentsAlone
CHECK_DEADLOCK FALSE
INVARIANTS BilledOnlyIfRegistered MountsAreSound CheckoutIsSound
PROPERTIES BooksOnlyFreeSeats NeverBilledTwice PaymentsSettle
