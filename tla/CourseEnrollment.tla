-------------------------- MODULE CourseEnrollment --------------------------
(***************************************************************************)
(* Enrolling riders in courses (services/courseService.js), the quota of   *)
(* sessions of their family (the subscription half of billingService.js)   *)
(* and the cancellation of a course or of a whole series.                  *)
(*                                                                         *)
(* As in EventRegistration, an element of Requests is one HTTP request     *)
(* that runs one statement at a time under READ COMMITTED; what its        *)
(* transaction writes becomes visible in its last step.  The two reads     *)
(* that precede the transaction of enrollRider are one step: the second    *)
(* can only refuse what the unique index refuses again.                    *)
(* Abstracted: levels, documents and family checks (they only refuse),     *)
(* the failure of a single notification (logged by the code).              *)
(***************************************************************************)
EXTENDS Integers, FiniteSets

CONSTANTS Courses, Riders, Families, Requests,
          FamilyOf,     \* FamilyOf[r]: the family of a rider
          Root,         \* Root[c]: the parent of the series of c, c itself if it has none
          Plans,        \* the subscription plans
          QuotaOf,      \* QuotaOf[p]: monthlySessionQuota of the plan
          MaxCapacity,  \* bound: capacities are 1..MaxCapacity
          NoPlan,       \* subscriptionPlanId = null
          NoRequest     \* the row of the family is not locked

ASSUME CourseAssumption ==
    /\ IsFiniteSet(Riders) /\ IsFiniteSet(Courses)
    /\ FamilyOf \in [Riders -> Families]
    /\ Root \in [Courses -> Courses] /\ \A c \in Courses : Root[Root[c]] = Root[c]
    /\ QuotaOf \in [Plans -> Nat]
    /\ MaxCapacity \in Nat
    /\ NoPlan \notin Plans
    /\ NoRequest \notin Requests

VARIABLES
    status,    \* status[c]
    capacity,  \* capacity[c]
    enrolled,  \* the rows of course_enrollments, <<course, rider>>
    told,      \* the <<course, rider>> whose family got course_cancelled
    plan,      \* plan[f]: subscriptionPlanId
    quota,     \* quota[f]: sessionQuota
    granted,   \* history: the quota f was last given
    charged,   \* history: the enrollments paid from that quota
    lock,      \* lock[f]: the transaction that updated the row of the family
    pc,        \* pc[q]: the next statement of q
    target,    \* target[q]: the <<course, rider>> q is about
    forced,    \* forced[q]: an admin enrolls without documents or quota
    batch,     \* batch[q]: the courses q cancels
    listed,    \* listed[q]: their enrollments, as q read them
    offer,     \* offer[q]: the plan q subscribes to
    stale,     \* history: the requests whose count is out of date, for another enrollment was
               \* inserted in the course since, or its capacity edited
    late       \* history: the requests that found open a course that a cancellation was about
               \* to mark, or that was reopened before the cancellation was answered

vars == <<status, capacity, enrolled, told, plan, quota, granted, charged, lock,
          pc, target, forced, batch, listed, offer, stale, late>>

courses  == <<status, capacity, told>>
families == <<plan, quota, granted, charged>>
locals   == <<target, forced, batch, listed, offer>>
history  == <<stale, late>>

Registrations == Courses \X Riders

\* "open" stands for scheduled, ongoing and completed: no operation here tells them apart.
Statuses == {"draft", "open", "cancelled"}

TypeOK ==
    /\ status \in [Courses -> Statuses]
    /\ capacity \in [Courses -> 1..MaxCapacity]
    /\ enrolled \subseteq Registrations
    /\ told \subseteq Registrations
    /\ plan \in [Families -> Plans \cup {NoPlan}]
    /\ quota \in [Families -> Nat]
    /\ granted \in [Families -> Nat]
    /\ charged \subseteq enrolled
    /\ lock \in [Families -> Requests \cup {NoRequest}]
    /\ pc \in [Requests -> {"start", "count", "quota", "insert", "notify", "cancel", "list",
                            "tell", "told", "subscribe", "done"}]
    /\ target \in [Requests -> Registrations]
    /\ forced \in [Requests -> BOOLEAN]
    /\ batch \in [Requests -> SUBSET Courses]
    /\ listed \in [Requests -> SUBSET Registrations]
    /\ offer \in [Requests -> Plans \cup {NoPlan}]
    /\ stale \subseteq Requests /\ late \subseteq Requests

\* createCourse stored the courses, with any status; no family subscribed yet.
Init ==
    /\ status \in [Courses -> Statuses]
    /\ capacity \in [Courses -> 1..MaxCapacity]
    /\ enrolled = {}
    /\ told = {}
    /\ plan = [f \in Families |-> NoPlan]
    /\ quota = [f \in Families |-> 0]
    /\ granted = [f \in Families |-> 0]
    /\ charged = {}
    /\ lock = [f \in Families |-> NoRequest]
    /\ pc = [q \in Requests |-> "start"]
    /\ target \in [Requests -> Registrations]
    /\ forced \in [Requests -> BOOLEAN]
    /\ batch = [q \in Requests |-> {}]
    /\ listed = [q \in Requests |-> {}]
    /\ offer = [q \in Requests |-> NoPlan]
    /\ stale = {} /\ late = {}

-----------------------------------------------------------------------------
(* Helpers *)

CourseOf(q) == target[q][1]
Family(q) == FamilyOf[target[q][2]]

Enrolled(c) == {r \in Riders : <<c, r>> \in enrolled}

\* The enrollments family f paid from its present quota.
ChargedTo(f) == {x \in charged : FamilyOf[x[2]] = f}

\* The requests that have checked a course of C, and those that have counted for c.
Checked(C) == {q \in Requests : pc[q] \in {"count", "quota", "insert"} /\ CourseOf(q) \in C}
Counted(c) == {q \in Requests : pc[q] \in {"quota", "insert"} /\ CourseOf(q) = c}

\* The courses whose cancellation has marked them and is not answered.
Cancelling == UNION {batch[q] : q \in {o \in Requests : pc[o] \in {"list", "tell"}}}

Goto(q, where) == pc' = [pc EXCEPT ![q] = where]

\* The row lock goes with the transaction, committed or rolled back.
Unlocked(q) == [f \in Families |-> IF lock[f] = q THEN NoRequest ELSE lock[f]]

\* A plan is given: the quota starts anew.
Grant(f, p) ==
    /\ plan' = [plan EXCEPT ![f] = p]
    /\ quota' = [quota EXCEPT ![f] = QuotaOf[p]]
    /\ granted' = [granted EXCEPT ![f] = QuotaOf[p]]
    /\ charged' = charged \ ChargedTo(f)

-----------------------------------------------------------------------------
(* enrollRider *)

\* A cancelled course, a draft, a rider enrolled already are refused.
CheckCourse(q) ==
    /\ pc[q] = "start"
    /\ IF status[CourseOf(q)] \in {"cancelled", "draft"} \/ target[q] \in enrolled
       THEN Goto(q, "done") ELSE Goto(q, "count")
    /\ late' = IF status[CourseOf(q)] = "open" /\ CourseOf(q) \in Cancelling
               THEN late \cup {q} ELSE late
    /\ UNCHANGED <<courses, enrolled, families, lock, locals, stale>>

\* Mutant: the capacity is compared with the wrong inequality.
CountEnrollmentsOffByOne(q) ==
    /\ pc[q] = "count"
    /\ IF Cardinality(Enrolled(CourseOf(q))) > capacity[CourseOf(q)]
       THEN Goto(q, "done")
       ELSE Goto(q, IF forced[q] THEN "insert" ELSE "quota")
    /\ stale' = stale \ {q}
    /\ UNCHANGED <<courses, enrolled, families, lock, locals, late>>

\* The transaction counts the enrollments; nothing locks the course it calls lockedCourse.
CountEnrollments(q) ==
    /\ pc[q] = "count"
    /\ IF Cardinality(Enrolled(CourseOf(q))) >= capacity[CourseOf(q)]
       THEN Goto(q, "done")
       ELSE Goto(q, IF forced[q] THEN "insert" ELSE "quota")
    /\ stale' = stale \ {q}
    /\ UNCHANGED <<courses, enrolled, families, lock, locals, late>>

\* Mutant: the quota is decremented before the transaction, which may still fail.
TakeQuotaOutside(q) ==
    /\ pc[q] = "quota"
    /\ lock[Family(q)] = NoRequest
    /\ IF quota[Family(q)] > 0
       THEN /\ quota' = [quota EXCEPT ![Family(q)] = @ - 1]
            /\ Goto(q, "insert")
       ELSE /\ Goto(q, "done")
            /\ UNCHANGED quota
    /\ UNCHANGED <<courses, enrolled, plan, granted, charged, lock, locals, history>>

\* The conditional decrement of the quota locks the row of the family until the commit,
\* and shows to others only then.
TakeQuota(q) ==
    /\ pc[q] = "quota"
    /\ lock[Family(q)] = NoRequest
    /\ IF quota[Family(q)] > 0
       THEN /\ lock' = [lock EXCEPT ![Family(q)] = q]
            /\ Goto(q, "insert")
       ELSE /\ Goto(q, "done")
            /\ UNCHANGED lock
    /\ UNCHANGED <<courses, enrolled, families, locals, history>>

\* The insert fails on the unique index (rollback), or the transaction commits.
InsertEnrollment(q) ==
    /\ pc[q] = "insert"
    /\ IF target[q] \in enrolled
       THEN /\ Goto(q, "done")
            /\ UNCHANGED <<enrolled, quota, charged, stale>>
       ELSE /\ enrolled' = enrolled \cup {target[q]}
            /\ quota' = IF forced[q] THEN quota ELSE [quota EXCEPT ![Family(q)] = @ - 1]
            /\ charged' = IF forced[q] THEN charged ELSE charged \cup {target[q]}
            /\ stale' = stale \cup Counted(CourseOf(q))
            /\ Goto(q, "notify")
    /\ lock' = Unlocked(q)
    /\ UNCHANGED <<courses, plan, granted, locals, late>>

\* course_enrolled, then the planning cache.
NotifyEnrolled(q) ==
    /\ pc[q] = "notify"
    /\ Goto(q, "done")
    /\ UNCHANGED <<courses, enrolled, families, lock, locals, history>>

-----------------------------------------------------------------------------
(* cancelCourse *)

\* The whole series is reached from its parent only: the other courses carry no rule.
Series(c) == {d \in Courses : Root[d] = c}

ReadForCancel(q) ==
    LET c == CourseOf(q)
    IN  /\ pc[q] = "start"
        /\ \E b \in {{c}} \cup (IF Series(c) \ {c} = {} THEN {}
                                 ELSE {{d \in Series(c) : status[d] # "cancelled"}}) :
              batch' = [batch EXCEPT ![q] = b]
        /\ Goto(q, "cancel")
        /\ UNCHANGED <<courses, enrolled, families, lock, target, forced, listed, offer, history>>

MarkCancelled(q) ==
    /\ pc[q] = "cancel"
    /\ status' = [c \in Courses |-> IF c \in batch[q] THEN "cancelled" ELSE status[c]]
    /\ late' = late \cup Checked(batch[q])
    /\ Goto(q, "list")
    /\ UNCHANGED <<capacity, told, enrolled, families, lock, locals, stale>>

\* Mutant: the riders of the one course, not those of the series.
ListEnrolledOfOne(q) ==
    /\ pc[q] = "list"
    /\ listed' = [listed EXCEPT ![q] = {x \in enrolled : x[1] = CourseOf(q)}]
    /\ Goto(q, "tell")
    /\ UNCHANGED <<courses, enrolled, families, lock, target, forced, batch, offer, history>>

ListEnrolled(q) ==
    /\ pc[q] = "list"
    /\ listed' = [listed EXCEPT ![q] = {x \in enrolled : x[1] \in batch[q]}]
    /\ Goto(q, "tell")
    /\ UNCHANGED <<courses, enrolled, families, lock, target, forced, batch, offer, history>>

TellRiders(q) ==
    /\ pc[q] = "tell"
    /\ told' = told \cup listed[q]
    /\ Goto(q, "told")
    /\ UNCHANGED <<status, capacity, enrolled, families, lock, locals, history>>

-----------------------------------------------------------------------------
(* subscribeFamilyPlan, adminChangeFamilySubscription *)

ReadForSubscription(q) ==
    /\ pc[q] = "start"
    /\ plan[Family(q)] = NoPlan
    /\ \E p \in Plans : offer' = [offer EXCEPT ![q] = p]
    /\ Goto(q, "subscribe")
    /\ UNCHANGED <<courses, enrolled, families, lock, target, forced, batch, listed, history>>

\* Mutant: the update is not conditional on the plan being null.
SubscribeAgain(q) ==
    /\ pc[q] = "subscribe"
    /\ lock[Family(q)] = NoRequest
    /\ Grant(Family(q), offer[q])
    /\ Goto(q, "done")
    /\ UNCHANGED <<courses, enrolled, lock, locals, history>>

\* A conditional update, once the row is free: the first subscription wins.
Subscribe(q) ==
    /\ pc[q] = "subscribe"
    /\ lock[Family(q)] = NoRequest
    /\ IF plan[Family(q)] = NoPlan
       THEN Grant(Family(q), offer[q])
       ELSE UNCHANGED families
    /\ Goto(q, "done")
    /\ UNCHANGED <<courses, enrolled, lock, locals, history>>

\* The admin gives any plan at any time; the update waits for the row.
ChangePlan(f) ==
    /\ lock[f] = NoRequest
    /\ \E p \in Plans : Grant(f, p)
    /\ UNCHANGED <<courses, enrolled, lock, pc, locals, history>>

-----------------------------------------------------------------------------
(* The admin's edits, failures *)

\* updateCourse accepts any status and any capacity.
UpdateCourse(c) ==
    /\ \E s \in Statuses, n \in 1..MaxCapacity :
          /\ status' = [status EXCEPT ![c] = s]
          /\ capacity' = [capacity EXCEPT ![c] = n]
          /\ stale' = IF n = capacity[c] THEN stale ELSE stale \cup Counted(c)
    /\ UNCHANGED <<told, enrolled, families, lock, pc, locals, late>>

\* An exception or the death of the process: the open transaction is rolled back.
Die(q) ==
    /\ pc[q] \notin {"start", "told", "done"}
    /\ Goto(q, "done")
    /\ lock' = Unlocked(q)
    /\ UNCHANGED <<courses, enrolled, families, locals, history>>

Step(q) == \/ CheckCourse(q) \/ CountEnrollments(q) \/ TakeQuota(q) \/ InsertEnrollment(q)
           \/ NotifyEnrolled(q)
           \/ ReadForCancel(q) \/ MarkCancelled(q) \/ ListEnrolled(q) \/ TellRiders(q)
           \/ ReadForSubscription(q) \/ Subscribe(q)

Next == \/ \E q \in Requests : Step(q) \/ Die(q)
        \/ \E f \in Families : ChangePlan(f)
        \/ \E c \in Courses : UpdateCourse(c)

Spec == Init /\ [][Next]_vars

-----------------------------------------------------------------------------
(* Properties *)

\* Every session a family was granted is either left in its quota or spent on an
\* enrollment that exists: a refused, duplicate or crashed enrollment costs nothing, and
\* two enrollments of a family never spend the same session.
QuotaIsBalanced ==
    \A f \in Families : granted[f] = quota[f] + Cardinality(ChargedTo(f))

\* A family that subscribes twice at once gets one plan; only the admin changes it then.
FirstPlanWins ==
    [][\A q \in Requests :
          pc[q] = "subscribe" /\ plan[Family(q)] # NoPlan /\ pc'[q] = "done" =>
              plan' = plan /\ quota' = quota]_vars

\* A rider gets a place in a course only while one is free.  Nothing locks the course, so a
\* request that counted before another enrollment was inserted, or before the capacity was
\* edited, can take one that is not there; no other can (courseService.js:426).
TakesOnlyFreeSeats ==
    [][\A x \in enrolled' \ enrolled :
          \E q \in Requests :
              /\ target[q] = x
              /\ q \in stale \/ Cardinality(Enrolled(x[1])) < capacity[x[1]]]_vars

\* The places of a course, as SeatBooking sees them.
Seats == INSTANCE SeatBooking WITH Sessions <- Courses,
                                   seats <- [c \in Courses |-> Enrolled(c)]

\* backlog.md:164, cahier-de-tests.md:79: nobody is enrolled in a course that is full.
BooksOnlyFreeSeats == Seats!Spec

\* cahier-de-tests.md:76: when a cancellation has been answered, every family with a rider
\* in one of the cancelled courses has been told; save a rider whose request found the course
\* open before the cancellation marked it, or who joined it once an admin reopened it.
CancellationTold ==
    [][\A q \in Requests : pc[q] = "tell" /\ pc'[q] = "told" =>
          \A x \in enrolled : x[1] \in batch[q] =>
              x \in told' \/ \E o \in late : target[o] = x]_vars
=============================================================================
