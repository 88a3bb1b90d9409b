------------------------------- MODULE Calendar -------------------------------
(***************************************************************************)
(* The calendar of the club: the cached planning, the riding spaces and    *)
(* the series of courses, the horses of the courses and the attendance of  *)
(* their riders.  A behaviour runs one module, chosen by focus, for as     *)
(* long as it lasts.                                                       *)
(***************************************************************************)
EXTENDS PlanningCache, Integers

CONSTANTS Spaces, Changes, MaxCourses, MaxTime, Week, NoSpace, Inputs, \* of SpacePlanning
          Lessons, Riders, Horses, MaxHours, MaxLoad, NoHorse,         \* of CourseHorses
          Enrollments                                                  \* of Attendance

VARIABLES focus, kind, place, from, to, status, root, weekly, spacePc, ask, left,
          missed, retyped, blind, horseEnrolled, live, hours, mount, load, horseStatus, horsePc,
          target, plan, before, span, wanted, retimed, attendance, started, told, attendancePc,
          attendanceTarget, asked, previous

S == INSTANCE SpacePlanning WITH Requests <- Changes, pc <- spacePc
H == INSTANCE CourseHorses WITH Courses <- Lessons, enrolled <- horseEnrolled,
                                status <- horseStatus, pc <- horsePc
T == INSTANCE Attendance WITH pc <- attendancePc, target <- attendanceTarget

ASSUME CalendarAssumption ==
    /\ CacheAssumption /\ S!SpaceAssumption /\ H!HorseAssumption
    /\ Changes \subseteq Nat /\ Enrollments # {}

svars == <<kind, place, from, to, status, root, weekly, spacePc, ask, left, missed,
           retyped, blind>>
hvars == <<horseEnrolled, live, hours, mount, load, horseStatus, horsePc, target, plan,
           before, span, wanted, retimed>>
tvars == <<attendance, started, told, attendancePc, attendanceTarget, asked, previous>>

(* The module in focus runs; the variables of the others keep their first values. *)
WeekInit ==
    /\ focus \in {"spaces", "planning", "horses", "attendance"}
    /\ Init
    /\ S!Init /\ (focus # "spaces" => kind = [s \in Spaces |-> "riding"])
    /\ H!Init
    /\ T!Init

WeekNext ==
    /\ UNCHANGED focus
    /\ IF focus = "planning" THEN Next ELSE UNCHANGED vars
    /\ IF focus = "spaces" THEN S!Next ELSE UNCHANGED svars
    /\ IF focus = "horses" THEN H!Next ELSE UNCHANGED hvars
    /\ IF focus = "attendance" THEN T!Next ELSE UNCHANGED tvars

weekVars == <<focus, vars, svars, hvars, tvars>>

WeekSpec == WeekInit /\ [][WeekNext]_weekVars

-----------------------------------------------------------------------------
(* What does not overlap, for the properties that need it.                 *)

\* Requests on one course do not overlap, nor does the deletion of a horse with an
\* assignment, and no times are edited meanwhile.
CourseOf(q) == IF horsePc[q] = "apply" THEN target[q] ELSE target[q][1]
Meet(q, o) ==
    /\ horsePc[o] # "idle"
    /\ horsePc[q] = "delete" \/ horsePc[o] = "delete" \/ CourseOf(q) = CourseOf(o)
AssignmentsAlone ==
    focus = "horses" =>
        /\ \A q, o \in Requests : q # o /\ horsePc'[q] # "idle" => ~Meet(q, o)'
        /\ (\E q \in Requests : horsePc[q] # "idle" /\ horsePc'[q] = horsePc[q]) =>
              hours' = hours
        /\ (\E q \in Requests : horsePc[q] \in {"apply", "options", "swap"}) =>
              \A h \in Horses : horseStatus'[h] = "gone" => horseStatus[h] = "gone"

-----------------------------------------------------------------------------
(* Properties; those of PlanningCache have their own names. *)

TypesOK == TypeOK /\ S!TypeOK /\ H!TypeOK /\ T!TypeOK

\* spaceService.js:80: the calendar of the spaces is sound (SpacePlanning).
CalendarIsSound == S!CalendarIsSound

\* recurrence.js: the courses of a series come together (SpacePlanning).
CoursesComeWhole == S!CoursesComeWhole

\* horseAssignment.js: the horses of the courses are given soundly (CourseHorses).
MountsAreSound == H!MountsAreSound

\* courseService.js:521: the family of an absent rider is told (Attendance).
AbsenceTold == T!AbsenceTold
===============================================================================
