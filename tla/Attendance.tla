----------------------------- MODULE Attendance -----------------------------
(***************************************************************************)
(* The attendance of a rider in a course: updateAttendance of              *)
(* services/courseService.js.  The former value is read, the new one is    *)
(* written, and the family is told of an absence it may not know of, in    *)
(* three statements and without a transaction.                             *)
(***************************************************************************)
EXTENDS Naturals

CONSTANTS Enrollments, Requests

VARIABLES
    attendance,  \* attendance[x]: the value in the row of the enrollment
    started,     \* the enrollments whose course has started
    told,        \* the enrollments whose family got a notice of absence
    pc,          \* pc[q]: the next statement of q
    target,      \* target[q]: the enrollment q is about
    asked,       \* asked[q]: who asks for which attendance
    previous     \* previous[q]: the value q read

vars == <<attendance, started, told, pc, target, asked, previous>>

Values == {"pending", "present", "absent", "excused"}

\* The staff sets any value; a family may only excuse its rider.
Asked == [by : {"staff"}, value : Values] \cup [by : {"family"}, value : {"excused"}]

TypeOK ==
    /\ attendance \in [Enrollments -> Values]
    /\ started \subseteq Enrollments
    /\ told \subseteq Enrollments
    /\ pc \in [Requests -> {"idle", "write", "tell"}]
    /\ target \in [Requests -> Enrollments]
    /\ asked \in [Requests -> Asked]
    /\ previous \in [Requests -> Values]

Init ==
    /\ attendance = [x \in Enrollments |-> "pending"]
    /\ started = {}
    /\ told = {}
    /\ pc = [q \in Requests |-> "idle"]
    /\ target = [q \in Requests |-> CHOOSE x \in Enrollments : TRUE]
    /\ asked = [q \in Requests |-> [by |-> "family", value |-> "excused"]]
    /\ previous = [q \in Requests |-> "pending"]

Goto(q, where) == pc' = [pc EXCEPT ![q] = where]

\* The enrollment is read; a family excuses its rider before the course only.
ReadAttendance(q, x, a) ==
    /\ pc[q] = "idle"
    /\ a.by = "family" => x \notin started
    /\ target' = [target EXCEPT ![q] = x]
    /\ asked' = [asked EXCEPT ![q] = a]
    /\ previous' = [previous EXCEPT ![q] = attendance[x]]
    /\ Goto(q, "write")
    /\ UNCHANGED <<attendance, started, told>>

WriteAttendance(q) ==
    /\ pc[q] = "write"
    /\ attendance' = [attendance EXCEPT ![target[q]] = asked[q].value]
    /\ Goto(q, "tell")
    /\ UNCHANGED <<started, told, target, asked, previous>>

\* Mutant: only the first value given to a rider is announced.
NewsOfPending(q) == /\ asked[q] \in {[by |-> "family", value |-> "excused"],
                                     [by |-> "staff", value |-> "absent"]}
                    /\ previous[q] = "pending"

\* An absence that changes what q read: an excuse of the family, an absence seen by the staff.
News(q) == /\ asked[q] \in {[by |-> "family", value |-> "excused"],
                            [by |-> "staff", value |-> "absent"]}
           /\ previous[q] # asked[q].value

TellFamily(q) ==
    /\ pc[q] = "tell"
    /\ told' = IF News(q) THEN told \cup {target[q]} ELSE told
    /\ Goto(q, "idle")
    /\ UNCHANGED <<attendance, started, target, asked, previous>>

StartCourse(x) ==
    /\ x \notin started
    /\ started' = started \cup {x}
    /\ UNCHANGED <<attendance, told, pc, target, asked, previous>>

Next ==
    \/ \E q \in Requests :
          \/ \E x \in Enrollments, a \in Asked : ReadAttendance(q, x, a)
          \/ WriteAttendance(q)
          \/ TellFamily(q)
    \/ \E x \in Enrollments : StartCourse(x)

Spec == Init /\ [][Next]_vars

-----------------------------------------------------------------------------
\* A family whose rider is marked absent has been told of an absence, or a request is about
\* to tell it: no two pointers who read before the other wrote both leave it to the other
\* (courseService.js:521).
AbsenceTold ==
    \A x \in Enrollments : attendance[x] = "absent" =>
        \/ x \in told
        \/ \E q \in Requests : pc[q] = "tell" /\ target[q] = x /\ News(q)

\* What makes it so: a request that found the rider absent found an announced absence.
ReadAbsenceTold ==
    \A q \in Requests : pc[q] # "idle" /\ previous[q] = "absent" =>
        \/ target[q] \in told
        \/ \E o \in Requests : pc[o] = "tell" /\ target[o] = target[q] /\ News(o)
=============================================================================
