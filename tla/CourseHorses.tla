---------------------------- MODULE CourseHorses ----------------------------
(***************************************************************************)
(* The horses of the courses and the hours they carry: the course half of  *)
(* services/horseAssignment.js, and services/horseService.js.  Which horse *)
(* suits which rider is HorseRanking's business: a plan is any outcome in  *)
(* which riders without a horse get free, eligible horses and none stays   *)
(* without while one is left.  Abstracted: levels and affinities.  Left    *)
(* out: the photo and the health logs of a horse.                          *)
(***************************************************************************)
EXTENDS Integers, FiniteSets, FiniteSetsExt

CONSTANTS Courses, Riders, Horses, Requests,
          MaxHours,  \* bound: how long a course lasts
          MaxLoad,   \* maxWeeklyLoadHours
          NoHorse

HorseAssumption ==
    /\ MaxHours \in Nat \ {0} /\ MaxLoad \in Nat
    /\ IsFiniteSet(Courses \X Riders) /\ NoHorse \notin Horses

VARIABLES
    enrolled,  \* the rows of course_enrollments, <<course, rider>>
    live,      \* the courses that are not cancelled
    hours,     \* hours[c]: how long the course lasts
    mount,     \* mount[x]: the horse of an enrollment
    load,      \* load[h]: weeklyLoadHours
    status,    \* status[h]: "fit", "resting" (resting, unavailable, injured) or "gone"
    pc,        \* pc[q]: the next statement of q
    target,    \* target[q]: the course or the <<course, rider>> q is about
    plan,      \* plan[q]: the horses q gives
    before,    \* before[q]: the horse q read
    span,      \* span[q]: how long the course lasted when q read it
    wanted,    \* wanted[q]: the horse an override asks for, or a deletion
    retimed    \* history: the horses of courses whose times were edited afterwards

vars == <<enrolled, live, hours, mount, load, status, pc, target, plan, before, span, wanted,
          retimed>>

calendar == <<enrolled, live, hours, retimed>>
locals   == <<target, plan, before, span, wanted>>

\* What a horse may be given for: a rider in a course.
Rides == Courses \X Riders

TypeOK ==
    /\ enrolled \subseteq Rides
    /\ live \subseteq Courses
    /\ hours \in [Courses -> 1..MaxHours]
    /\ mount \in [Rides -> Horses \cup {NoHorse}]
    /\ load \in [Horses -> Int]
    /\ status \in [Horses -> {"fit", "resting", "gone"}]
    /\ pc \in [Requests -> {"idle", "apply", "options", "swap", "delete"}]
    /\ target \in [Requests -> Courses \cup Rides \cup {<< >>}]
    /\ plan \in [Requests -> UNION {[S -> Horses] : S \in SUBSET Riders}]
    /\ before \in [Requests -> Horses \cup {NoHorse}]
    /\ span \in [Requests -> 0..MaxHours]
    /\ wanted \in [Requests -> Horses \cup {NoHorse}]
    /\ retimed \subseteq Horses

Init ==
    /\ enrolled = {}
    /\ live = Courses
    /\ hours = [c \in Courses |-> 1]
    /\ mount = [x \in Rides |-> NoHorse]
    /\ load = [h \in Horses |-> 0]
    /\ status = [h \in Horses |-> "fit"]
    /\ pc = [q \in Requests |-> "idle"]
    /\ target = [q \in Requests |-> << >>]
    /\ plan = [q \in Requests |-> << >>]
    /\ before = [q \in Requests |-> NoHorse]
    /\ span = [q \in Requests |-> 0]
    /\ wanted = [q \in Requests |-> NoHorse]
    /\ retimed = {}

-----------------------------------------------------------------------------
(* Helpers *)

InCourse(c) == {r \in Riders : <<c, r>> \in enrolled}

Mounts(c) == {mount[<<c, r>>] : r \in InCourse(c)} \ {NoHorse}

\* Mutant: the horses the session already uses are not taken out.
TakenByNobody(c) == {}

Taken(c) == Mounts(c)

\* isEligibleHorse: one more session may still exceed the limit.
Eligible == {h \in Horses : status[h] = "fit" /\ load[h] < MaxLoad}

\* What simulateHorseAssignments may return.
Plans(c) ==
    LET waiting == {r \in InCourse(c) : mount[<<c, r>>] = NoHorse}
        free == Eligible \ Taken(c)
    IN  {p \in UNION {[S -> free] : S \in SUBSET waiting} :
            /\ \A r, o \in DOMAIN p : p[r] = p[o] => r = o
            /\ DOMAIN p = waiting \/ {p[r] : r \in DOMAIN p} = free}

Goto(q, where) == pc' = [pc EXCEPT ![q] = where]
Finish(q) == /\ Goto(q, "idle")
             /\ target' = [target EXCEPT ![q] = << >>]
             /\ plan' = [plan EXCEPT ![q] = << >>]
             /\ before' = [before EXCEPT ![q] = NoHorse]
             /\ span' = [span EXCEPT ![q] = 0]
             /\ wanted' = [wanted EXCEPT ![q] = NoHorse]

-----------------------------------------------------------------------------
(* assignHorsesForSession *)

\* The transaction loads the course, the horses and the affinities, and plans.
ReadAndPlan(q, c) ==
    /\ pc[q] = "idle"
    /\ target' = [target EXCEPT ![q] = c]
    /\ \E p \in Plans(c) : plan' = [plan EXCEPT ![q] = p]
    /\ span' = [span EXCEPT ![q] = hours[c]]
    /\ Goto(q, "apply")
    /\ UNCHANGED <<calendar, mount, load, status, before, wanted>>

\* assignmentWriter.apply for each rider of the plan, one commit.
ApplyPlan(q) ==
    LET c == target[q]
        given == {plan[q][r] : r \in DOMAIN plan[q]}
    IN  /\ pc[q] = "apply"
        /\ IF \E h \in given : status[h] = "gone"
           THEN UNCHANGED <<mount, load>>
           ELSE /\ mount' = [x \in Rides |-> IF x[1] = c /\ x[2] \in DOMAIN plan[q]
                                                   THEN plan[q][x[2]] ELSE mount[x]]
                /\ load' = [h \in Horses |-> load[h] + IF h \in given THEN span[q] ELSE 0]
        /\ Finish(q)
        /\ UNCHANGED <<calendar, status>>

-----------------------------------------------------------------------------
(* overrideAssignedHorse *)

\* The transaction reads the enrollment and its horse.
ReadForOverride(q, x, h) ==
    /\ pc[q] = "idle" /\ x \in enrolled
    /\ target' = [target EXCEPT ![q] = x]
    /\ before' = [before EXCEPT ![q] = mount[x]]
    /\ span' = [span EXCEPT ![q] = hours[x[1]]]
    /\ wanted' = [wanted EXCEPT ![q] = h]
    /\ Goto(q, "options")
    /\ UNCHANGED <<calendar, mount, load, status, plan>>

\* listHorseOverrideOptions, outside the transaction: the horses of the others are taken.
CheckOptions(q) ==
    /\ pc[q] = "options"
    /\ LET c == target[q][1]
           others == {mount[<<c, r>>] : r \in InCourse(c) \ {target[q][2]}}
       IN  IF wanted[q] \in Eligible \ others
           THEN Goto(q, "swap") /\ UNCHANGED locals
           ELSE Finish(q)
    /\ UNCHANGED <<calendar, mount, load, status>>

\* Mutant: the hours stay with the horse that was replaced.
SwapKeepsHours(q) ==
    /\ pc[q] = "swap"
    /\ mount' = [mount EXCEPT ![target[q]] = wanted[q]]
    /\ load' = [load EXCEPT ![wanted[q]] =
                   @ + IF before[q] # wanted[q] THEN span[q] ELSE 0]
    /\ Finish(q)
    /\ UNCHANGED <<calendar, status>>

\* The hours move from the horse that was read to the one that is wanted.
Swap(q) ==
    LET moved == IF before[q] = wanted[q] THEN 0 ELSE span[q] IN
    /\ pc[q] = "swap"
    /\ IF "gone" \in {status[h] : h \in {before[q], wanted[q]} \ {NoHorse}}
       THEN UNCHANGED <<mount, load>>
       ELSE /\ mount' = [mount EXCEPT ![target[q]] = wanted[q]]
            /\ load' = [h \in Horses |-> load[h] + (IF h = wanted[q] THEN moved ELSE 0)
                                                 - (IF h = before[q] THEN moved ELSE 0)]
    /\ Finish(q)
    /\ UNCHANGED <<calendar, status>>

-----------------------------------------------------------------------------
(* The horses and the courses *)

\* updateHorse: the state of a horse, whatever it is assigned to.
SetStatus(h) ==
    /\ status[h] # "gone"
    /\ \E s \in {"fit", "resting"} : status' = [status EXCEPT ![h] = s]
    /\ UNCHANGED <<calendar, mount, load, pc, locals>>

\* Mutant: deleteHorse counts nothing.
CountForDeletionNot(q, h) ==
    /\ pc[q] = "idle" /\ status[h] # "gone"
    /\ wanted' = [wanted EXCEPT ![q] = h]
    /\ Goto(q, "delete")
    /\ UNCHANGED <<calendar, mount, load, status, target, plan, before, span>>

\* deleteHorse counts the enrollments of the horse...
CountForDeletion(q, h) ==
    /\ pc[q] = "idle" /\ status[h] # "gone"
    /\ h \notin {mount[x] : x \in Rides}
    /\ wanted' = [wanted EXCEPT ![q] = h]
    /\ Goto(q, "delete")
    /\ UNCHANGED <<calendar, mount, load, status, target, plan, before, span>>

\* ... then deletes it: the foreign key of an enrollment is set to null.
DeleteHorse(q) ==
    /\ pc[q] = "delete"
    /\ status' = [status EXCEPT ![wanted[q]] = "gone"]
    /\ mount' = [x \in Rides |-> IF mount[x] = wanted[q] THEN NoHorse ELSE mount[x]]
    /\ Finish(q)
    /\ UNCHANGED <<calendar, load>>

\* enrollRider.
Enroll(x) ==
    /\ x \notin enrolled /\ x[1] \in live
    /\ enrolled' = enrolled \cup {x}
    /\ UNCHANGED <<live, hours, retimed, mount, load, status, pc, locals>>

\* cancelCourse leaves the enrollments, their horses and the hours as they are.
CancelCourse(c) ==
    /\ c \in live
    /\ live' = live \ {c}
    /\ UNCHANGED <<enrolled, hours, retimed, mount, load, status, pc, locals>>

\* updateCourse: other times, whatever horses it has.
UpdateCourse(c) ==
    /\ \E n \in 1..MaxHours : hours' = [hours EXCEPT ![c] = n]
    /\ retimed' = retimed \cup Mounts(c)
    /\ UNCHANGED <<enrolled, live, mount, load, status, pc, locals>>

Next ==
    \/ \E q \in Requests :
          \/ \E c \in Courses : ReadAndPlan(q, c)
          \/ \E x \in Rides, h \in Horses : ReadForOverride(q, x, h)
          \/ \E h \in Horses : CountForDeletion(q, h)
          \/ ApplyPlan(q) \/ CheckOptions(q) \/ Swap(q) \/ DeleteHorse(q)
    \/ \E h \in Horses : SetStatus(h)
    \/ \E x \in Rides : Enroll(x)
    \/ \E c \in Courses : CancelCourse(c) \/ UpdateCourse(c)

Spec == Init /\ [][Next]_vars

-----------------------------------------------------------------------------
(* Properties *)

\* The enrollments that give hours to a horse.
RiddenBy(h) == {x \in Rides : mount[x] = h}

\* backlog.md:197: a horse is never given twice in a session, by plans, overrides and late
\* enrollments together; holds where assignments and overrides do not overlap.
HorseOncePerSession ==
    \A x, y \in Rides : x # y /\ x[1] = y[1] /\ mount[x] # NoHorse => mount[x] # mount[y]

\* backlog.md:198, 208: the hours of a horse are those of the courses it was given in, whatever
\* was replaced on the way; holds where assignments, overrides and deletions do not overlap,
\* for the horses of courses whose times were not edited afterwards.
LoadIsAssigned ==
    \A h \in Horses \ retimed : status[h] # "gone" =>
        load[h] = MapThenSumSet(LAMBDA x : hours[x[1]], RiddenBy(h))

\* A rider who has a horse does not lose it without another: the deletion of a horse counts
\* its enrollments first, and the key that would be set to null goes unnoticed
\* (horseService.js:61); holds where no assignment overlaps the deletion.
MountIsKept == [][\A x \in Rides : mount[x] # NoHorse => mount'[x] # NoHorse]_vars

\* The three together: a mount is of one rider, kept, and counted.
MountsAreSound == []HorseOncePerSession /\ []LoadIsAssigned /\ MountIsKept
=============================================================================
