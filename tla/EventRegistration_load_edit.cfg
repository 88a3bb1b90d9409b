SPECIFICATION Spec
CONSTANTS
  e1 = e1
  r1 = r1
  r2 = r2
  h1 = h1
  q1 = q1
  q2 = q2
  Events = {e1}
  Riders = {r1}
  Horses = {h1}
  Requests = {q1, q2}
  PricedEvents = {e1}
  Suits <- AllSuit
  MaxCapacity = 1
  Durations = {1, 2}
  MaxLoad = 4
  MaxOther = 0
  NoHorse = NoHorse
  NoRequest = NoRequest
ACTION_CONSTRAINT OneAtATime
CHECK_DEADLOCK FALSE
INVARIANTS LoadReturned
