SPECIFICATION Spec
CONSTANTS
  e1 = e1
  r1 = r1
  r2 = r2
  h1 = h1
  q1 = q1
  q2 = q2
  Events = {e1}
  Riders = {r1, r2}
  Horses = {h1}
  Requests = {q1, q2}
  PricedEvents = {e1}
  Suits <- AllSuit
  MaxCapacity = 2
  Durations = {1}
  MaxLoad = 1
  MaxOther = 0
  NoHorse = NoHorse
  NoRequest = NoRequest
CHECK_DEADLOCK FALSE
INVARIANTS InvoicedAtRegistration
