SPECIFICATION WeekSpec
CONSTANTS
  x1 = x1
  x2 = x2
  q1 = q1
  q2 = q2
  c1 = c1
  c2 = c2
  i1 = i1
  u1 = u1
  none = none
  Courses = {c1}
  Instructors = {i1}
  Clients = {u1}
  Admins = {}
  Requests = {q1, q2}
  TaughtBy <- TaughtByOne
  Programmes = {x1, x2}
  Hidden = none
  NoEntry = {none}
  Spaces = {x1, x2}
  Changes = {1, 2, 3}
  MaxCourses = 3
  MaxTime = 3
  Week = 1
  NoSpace = none
  Inputs <- WeekInputs
  Lessons = {c1, c2}
  Riders = {"ann", "bob"}
  Horses = {x1, x2}
  MaxHours = 2
  MaxLoad = 1
  NoHorse = none
  Enrollments = {c1}
SYMMETRY Symmetric
ACTION_CONSTRAINTS AssignmentsAlone Bounded
CHECK_DEADLOCK FALSE
INVARIANTS TypesOK CalendarIsSound StaleHasCause MineStaysMine AbsenceTold
PROPERTIES CoursesComeWhole MountsAreSound
