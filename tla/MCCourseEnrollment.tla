------------------------- MODULE MCCourseEnrollment -------------------------
(***************************************************************************)
(* Instances of CourseEnrollment for TLC: one or two courses (the second   *)
(* in the series of the first), two or three riders of one or two          *)
(* families, two or three requests.                                        *)
(***************************************************************************)
EXTENDS CourseEnrollment, TLC

CONSTANTS c1, c2, r1, r2, r3, f1, f2, q1, q2, q3, small, large

OneFamily == [r \in Riders |-> f1]
TwoFamilies == [r \in Riders |-> IF r = r1 THEN f1 ELSE f2]
OneSeries == [c \in Courses |-> c1]
MCQuota == [p \in Plans |-> IF p = small THEN 1 ELSE 2]

Symmetric == Permutations(Requests) \cup Permutations(Riders)
=============================================================================
