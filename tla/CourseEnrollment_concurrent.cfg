SPECIFICATION Spec
CONSTANTS
  c1 = c1
  c2 = c2
  r1 = r1
  r2 = r2
  r3 = r3
  f1 = f1
  f2 = f2
  q1 = q1
  q2 = q2
  q3 = q3
  small = small
  large = large
  Courses = {c1,c2}
  Riders = {r1,r2}
  Families = {f1}
  Requests = {q1,q2}
  FamilyOf <- OneFamily
  Root <- OneSeries
  Plans = {small,large}
  QuotaOf <- MCQuota
  MaxCapacity = 2
  NoPlan = NoPlan
  NoRequest = NoRequest
SYMMETRY Symmetric
INVARIANTS QuotaIsBalanced
PROPERTIES FirstPlanWins TakesOnlyFreeSeats CancellationTold
