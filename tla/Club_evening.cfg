SPECIFICATION ClubSpec
CONSTANTS
  m1 = m1
  u1 = u1
  u2 = u2
  u3 = u3
  t1 = t1
  t2 = t2
  n1 = n1
  c1 = c1
  c2 = c2
  r1 = r1
  license = license
  f1 = f1
  f2 = f2
  f3 = f3
  p1 = p1
  none = none
  q1 = q1
  q2 = q2
  Keys = {"login", "newsletter"}
  FailClosed = {"login"}
  Calls = {q1, q2}
  Max = 2
  Window = 2
  Requests = {q1, q2}
  Missions = {m1}
  Volunteers = {u1, u2, u3}
  MaxSlots = 2
  Members = {u1}
  Types = {t1, t2}
  Notes = {n1}
  Writers = {u1, u2}
  Role <- OneClient
  Conversations = {c1, c2}
  MaxTime = 3
  Riders = {r1}
  Kinds = {license}
  License = license
  Files = {f1, f2, f3}
  NoFile = none
  Tabs = {"a", "b"}
  PageCalls = {"call", "other"}
  TabOf <- EachTab
  MaxTokens = 3
  Families = {u1}
  Plans = {p1}
  RidersOf <- TwoRiders
  Rules <- Discounts
  Prices = {101}
  YearLength = 1
  MaxMonth = 1
  MaxNumber = 2
  NoPlan = none
  NbRiders = 2
  NbHorses = 3
  HorseKinds <- Stable
  Levels = {0, 1}
  Affinities <- Tables
  NoHorse = none
SYMMETRY Symmetric
ACTION_CONSTRAINTS OneThread
CHECK_DEADLOCK FALSE
INVARIANTS TypesOK MessagesReach FilesMatchRows ApprovedWasJudged WindowsHold BillingIsRight OwnChangeIsShown MayAsk
PROPERTIES SignupsFit PreferencesHold SessionIsUsable PlanIsFair
