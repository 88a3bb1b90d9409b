----------------------- MODULE CourseEnrollmentProofs -----------------------
(***************************************************************************)
(* The quota of a family, for any number of courses, riders, plans and     *)
(* overlapping requests: the types, that no session of a quota is lost or  *)
(* spent twice, and that the first subscription of a family stands; and    *)
(* that the races that enroll a rider in a full course, or hide one from   *)
(* a cancellation, are those TakesOnlyFreeSeats and CancellationTold name. *)
(***************************************************************************)
EXTENDS CourseEnrollment, FiniteSetTheorems, TLAPS

\* A request about to insert an enrollment it pays for holds the row of the family, and
\* the session it read is still there.
PaysInv ==
    \A q \in Requests : pc[q] = "insert" /\ ~forced[q] =>
        lock[Family(q)] = q /\ quota[Family(q)] > 0

\* A request about to subscribe offers a plan.
OfferInv == \A q \in Requests : pc[q] = "subscribe" => offer[q] \in Plans

\* The inductive invariant.
QuotaInv == TypeOK /\ PaysInv /\ OfferInv /\ QuotaIsBalanced

-----------------------------------------------------------------------------
(* Lemmas *)

LEMMA TargetTypes ==
    ASSUME TypeOK, NEW q \in Requests
    PROVE  /\ target[q] \in Registrations
           /\ Family(q) \in Families
           /\ CourseOf(q) \in Courses
  BY CourseAssumption DEF TypeOK, Registrations, Family, CourseOf

\* What a family paid for is a finite set of enrollments.
LEMMA ChargedFinite ==
    ASSUME TypeOK, NEW f \in Families
    PROVE  IsFiniteSet(ChargedTo(f))
  <1>1. IsFiniteSet(Registrations)  BY CourseAssumption, FS_Product DEF Registrations
  <1>2. ChargedTo(f) \subseteq Registrations  BY DEF TypeOK, ChargedTo
  <1> QED BY <1>1, <1>2, FS_Subset

\* A new plan forgets what this family paid, and nothing of the others.
LEMMA GrantCharges ==
    ASSUME TypeOK, NEW f \in Families, NEW p \in Plans, Grant(f, p)
    PROVE  /\ plan' \in [Families -> Plans \cup {NoPlan}]
           /\ quota' \in [Families -> Nat]
           /\ granted' \in [Families -> Nat]
           /\ charged' \subseteq charged
           /\ QuotaIsBalanced => QuotaIsBalanced'
           /\ \A g \in Families : g # f => quota'[g] = quota[g]
  <1>1. QuotaOf[p] \in Nat  BY CourseAssumption
  <1>2. /\ plan' \in [Families -> Plans \cup {NoPlan}]
        /\ quota' \in [Families -> Nat]
        /\ granted' \in [Families -> Nat]
        /\ charged' \subseteq charged
        /\ \A g \in Families : g # f => quota'[g] = quota[g]
    BY <1>1 DEF Grant, TypeOK
  <1>3. ASSUME QuotaIsBalanced, NEW g \in Families
        PROVE  granted'[g] = quota'[g] + Cardinality(ChargedTo(g)')
    <2>1. CASE g = f
      <3>1. ChargedTo(g)' = {}  BY <2>1 DEF Grant, ChargedTo
      <3>2. granted'[g] = QuotaOf[p] /\ quota'[g] = QuotaOf[p]  BY <2>1 DEF Grant, TypeOK
      <3> QED BY <3>1, <3>2, <1>1, FS_EmptySet
    <2>2. CASE g # f
      <3>1. ChargedTo(g)' = ChargedTo(g)  BY <2>2 DEF Grant, ChargedTo
      <3>2. granted'[g] = granted[g] /\ quota'[g] = quota[g]  BY <2>2 DEF Grant, TypeOK
      <3> QED BY <3>1, <3>2, <1>3 DEF QuotaIsBalanced
    <2> QED BY <2>1, <2>2
  <1>4. QuotaIsBalanced => QuotaIsBalanced'  BY <1>3 DEF QuotaIsBalanced
  <1> QED BY <1>2, <1>4

\* An enrollment that is paid takes one session of its family, and none of the others.
LEMMA ChargeOne ==
    ASSUME TypeOK, QuotaIsBalanced, NEW q \in Requests,
           target[q] \notin enrolled, quota[Family(q)] > 0,
           quota' = [quota EXCEPT ![Family(q)] = @ - 1],
           charged' = charged \cup {target[q]},
           granted' = granted
    PROVE  QuotaIsBalanced' /\ quota' \in [Families -> Nat]
  <1>1. ASSUME NEW g \in Families
        PROVE  granted'[g] = quota'[g] + Cardinality(ChargedTo(g)')
    <2>1. granted[g] = quota[g] + Cardinality(ChargedTo(g))  BY DEF QuotaIsBalanced
    <2>2. CASE g = Family(q)
      <3>1. ChargedTo(g)' = ChargedTo(g) \cup {target[q]}  BY <2>2 DEF ChargedTo, Family
      <3>2. target[q] \notin ChargedTo(g)  BY DEF ChargedTo, TypeOK
      <3>3. Cardinality(ChargedTo(g)') = Cardinality(ChargedTo(g)) + 1
        BY <3>1, <3>2, ChargedFinite, FS_AddElement
      <3>4. quota'[g] = quota[g] - 1  BY <2>2 DEF TypeOK
      <3>5. Cardinality(ChargedTo(g)) \in Nat  BY ChargedFinite, FS_CardinalityType
      <3>6. quota[g] \in Nat  BY DEF TypeOK
      <3> QED BY <2>1, <3>3, <3>4, <3>5, <3>6
    <2>3. CASE g # Family(q)
      <3>1. ChargedTo(g)' = ChargedTo(g)  BY <2>3 DEF ChargedTo, Family
      <3>2. quota'[g] = quota[g]  BY <2>3 DEF TypeOK
      <3> QED BY <2>1, <3>1, <3>2
    <2> QED BY <2>2, <2>3
  <1>2. quota' \in [Families -> Nat]
    <2>1. quota[Family(q)] - 1 \in Nat  BY TargetTypes DEF TypeOK
    <2> QED BY <2>1 DEF TypeOK
  <1> QED BY <1>1, <1>2 DEF QuotaIsBalanced

-----------------------------------------------------------------------------
(* The invariant *)

LEMMA QuotaInit == Init => QuotaInv
  <1> SUFFICES ASSUME Init PROVE QuotaInv  OBVIOUS
  <1>1. TypeOK  BY CourseAssumption DEF Init, TypeOK, Registrations
  <1>2. PaysInv /\ OfferInv  BY DEF Init, PaysInv, OfferInv
  <1>3. QuotaIsBalanced
    <2>1. \A f \in Families : ChargedTo(f) = {}  BY DEF Init, ChargedTo
    <2>2. \A f \in Families : Cardinality(ChargedTo(f)) = 0  BY <2>1, FS_EmptySet
    <2>3. \A f \in Families : granted[f] = 0 /\ quota[f] = 0  BY DEF Init
    <2> QED BY <2>2, <2>3 DEF QuotaIsBalanced
  <1> QED BY <1>1, <1>2, <1>3 DEF QuotaInv

\* What does not touch the families keeps the balance.
LEMMA BalanceUnchanged ==
    ASSUME QuotaIsBalanced, UNCHANGED families
    PROVE  QuotaIsBalanced'
  BY DEF QuotaIsBalanced, ChargedTo, families

\* Every step keeps the types and the balance.
LEMMA BalanceStep == QuotaInv /\ [Next]_vars => TypeOK' /\ QuotaIsBalanced'
  <1> SUFFICES ASSUME QuotaInv, [Next]_vars PROVE TypeOK' /\ QuotaIsBalanced'  OBVIOUS
  <1>0. TypeOK /\ QuotaIsBalanced  BY DEF QuotaInv
  <1> USE <1>0
  <1>1. ASSUME NEW q \in Requests, Step(q) PROVE TypeOK' /\ QuotaIsBalanced'
    <2> USE DEF TypeOK, courses, families, locals, history, Goto
    <2>0. UNCHANGED families => QuotaIsBalanced'  BY BalanceUnchanged
    <2>1. CASE CheckCourse(q)  BY <2>0, <2>1 DEF CheckCourse
    <2>2. CASE CountEnrollments(q)  BY <2>0, <2>2 DEF CountEnrollments
    <2>3. CASE TakeQuota(q)  BY <2>0, <2>3, TargetTypes DEF TakeQuota
    <2>4. CASE InsertEnrollment(q)
      <3>1. lock' \in [Families -> Requests \cup {NoRequest}]
        BY <2>4 DEF InsertEnrollment, Unlocked
      <3>0. stale' \subseteq Requests  BY <2>4 DEF InsertEnrollment, Counted
      <3> USE <3>0
      <3>2. CASE target[q] \in enrolled  BY <2>0, <2>4, <3>1, <3>2 DEF InsertEnrollment
      <3>3. CASE target[q] \notin enrolled /\ forced[q]
        BY <2>0, <2>4, <3>1, <3>3, TargetTypes DEF InsertEnrollment
      <3>4. CASE target[q] \notin enrolled /\ ~forced[q]
        <4>1. quota[Family(q)] > 0  BY <2>4, <3>4 DEF InsertEnrollment, QuotaInv, PaysInv
        <4>2. /\ quota' = [quota EXCEPT ![Family(q)] = @ - 1]
              /\ charged' = charged \cup {target[q]}
              /\ enrolled' = enrolled \cup {target[q]}
              /\ granted' = granted
              /\ pc' = [pc EXCEPT ![q] = "notify"]
              /\ UNCHANGED <<courses, plan, locals, late>>
          BY <2>4, <3>4 DEF InsertEnrollment
        <4>3. QuotaIsBalanced' /\ quota' \in [Families -> Nat]
          BY <3>4, <4>1, <4>2, ChargeOne
        <4> QED BY <3>1, <4>2, <4>3, TargetTypes
      <3> QED BY <3>2, <3>3, <3>4
    <2>5. CASE NotifyEnrolled(q)  BY <2>0, <2>5 DEF NotifyEnrolled
    <2>6. CASE ReadForCancel(q)
      <3>1. batch' \in [Requests -> SUBSET Courses]
        BY <2>6, TargetTypes DEF ReadForCancel, Series
      <3> QED BY <2>0, <2>6, <3>1 DEF ReadForCancel
    <2>7. CASE MarkCancelled(q)  BY <2>0, <2>7 DEF MarkCancelled, Checked, Statuses
    <2>8. CASE ListEnrolled(q)  BY <2>0, <2>8 DEF ListEnrolled
    <2>9. CASE TellRiders(q)  BY <2>0, <2>9 DEF TellRiders
    <2>10. CASE ReadForSubscription(q)  BY <2>0, <2>10 DEF ReadForSubscription
    <2>11. CASE Subscribe(q)
      <3>1. offer[q] \in Plans  BY <2>11 DEF Subscribe, QuotaInv, OfferInv
      <3>2. CASE plan[Family(q)] = NoPlan
        <4>1. Grant(Family(q), offer[q])  BY <2>11, <3>2 DEF Subscribe
        <4> QED BY <2>11, <3>1, <4>1, GrantCharges, TargetTypes DEF Subscribe
      <3>3. CASE plan[Family(q)] # NoPlan  BY <2>0, <2>11, <3>3 DEF Subscribe
      <3> QED BY <3>2, <3>3
    <2> QED BY <1>1, <2>1, <2>2, <2>3, <2>4, <2>5, <2>6, <2>7, <2>8, <2>9, <2>10, <2>11 DEF Step
  <1>2. ASSUME NEW q \in Requests, Die(q) PROVE TypeOK' /\ QuotaIsBalanced'
    BY <1>2, BalanceUnchanged DEF Die, Goto, Unlocked, TypeOK, courses, families, locals, history
  <1>3. ASSUME NEW f \in Families, ChangePlan(f) PROVE TypeOK' /\ QuotaIsBalanced'
    <2>1. PICK p \in Plans : Grant(f, p)  BY <1>3 DEF ChangePlan
    <2> QED BY <1>3, <2>1, GrantCharges DEF ChangePlan, TypeOK, courses, locals, history
  <1>4. ASSUME NEW c \in Courses, UpdateCourse(c) PROVE TypeOK' /\ QuotaIsBalanced'
    BY <1>4, BalanceUnchanged DEF UpdateCourse, Counted, TypeOK, families, locals, history
  <1>5. CASE UNCHANGED vars
    BY <1>5, BalanceUnchanged DEF vars, TypeOK, families
  <1> QED BY <1>1, <1>2, <1>3, <1>4, <1>5 DEF Next

\* Every step keeps PaysInv: only who holds the row of a family changes its quota.
LEMMA PaysStep == QuotaInv /\ [Next]_vars => PaysInv'
  <1> SUFFICES ASSUME QuotaInv, [Next]_vars,
                      NEW o \in Requests, pc'[o] = "insert", ~forced'[o]
               PROVE  lock'[Family(o)'] = o /\ quota'[Family(o)'] > 0
    BY DEF PaysInv
  <1>0. TypeOK /\ PaysInv  BY DEF QuotaInv
  <1> USE <1>0, CourseAssumption
  <1>f. Family(o) \in Families  BY TargetTypes
  \* It was about to insert already, and the row and the quota are as they were.
  <1>k. ASSUME pc[o] = "insert", UNCHANGED locals,
               lock' = lock \/ \E q \in Requests : q # o /\ lock' = Unlocked(q),
               quota' = quota
        PROVE  lock'[Family(o)'] = o /\ quota'[Family(o)'] > 0
    <2>1. Family(o)' = Family(o) /\ ~forced[o]  BY <1>k DEF Family, locals
    <2>2. lock[Family(o)] = o /\ quota[Family(o)] > 0  BY <1>k, <2>1 DEF PaysInv
    <2>3. lock'[Family(o)] = o  BY <1>k, <1>f, <2>2 DEF Unlocked
    <2> QED BY <1>k, <2>1, <2>2, <2>3
  <1>1. ASSUME NEW q \in Requests, Step(q)
        PROVE  lock'[Family(o)'] = o /\ quota'[Family(o)'] > 0
    <2> USE DEF TypeOK, courses, families, Goto
    <2>1. CASE CheckCourse(q)  BY <1>k, <2>1 DEF CheckCourse
    <2>2. CASE CountEnrollments(q)
      <3>1. UNCHANGED <<locals, lock, quota>>  BY <2>2 DEF CountEnrollments
      <3>2. pc[o] = "insert"
        <4>1. CASE q = o  BY <2>2, <3>1, <4>1 DEF CountEnrollments, locals
        <4>2. CASE q # o  BY <2>2, <4>2 DEF CountEnrollments
        <4> QED BY <4>1, <4>2
      <3> QED BY <1>k, <3>1, <3>2
    <2>3. CASE TakeQuota(q)
      <3>1. Family(o)' = Family(o) /\ quota' = quota  BY <2>3 DEF TakeQuota, Family, locals
      <3>2. CASE q = o  BY <1>f, <2>3, <3>1, <3>2 DEF TakeQuota
      <3>3. CASE q # o
        <4>1. pc[o] = "insert" /\ ~forced[o]  BY <2>3, <3>3 DEF TakeQuota, locals
        <4>2. lock[Family(o)] = o /\ quota[Family(o)] > 0  BY <4>1 DEF PaysInv
        <4>3. Family(o) # Family(q)  BY <2>3, <4>2 DEF TakeQuota
        <4> QED BY <1>f, <2>3, <3>1, <4>2, <4>3 DEF TakeQuota
      <3> QED BY <3>2, <3>3
    <2>4. CASE InsertEnrollment(q)
      <3>1. q # o /\ pc[o] = "insert"  BY <2>4 DEF InsertEnrollment
      <3>2. UNCHANGED locals /\ lock' = Unlocked(q)  BY <2>4 DEF InsertEnrollment
      <3>3. CASE quota' = quota  BY <1>k, <3>1, <3>2, <3>3
      <3>4. CASE quota' # quota
        <4>1. ~forced[q] /\ quota' = [quota EXCEPT ![Family(q)] = @ - 1]
          BY <2>4, <3>4 DEF InsertEnrollment
        <4>2. ~forced[o] /\ Family(o)' = Family(o)  BY <3>2 DEF locals, Family
        <4>3. lock[Family(q)] = q /\ lock[Family(o)] = o /\ quota[Family(o)] > 0
          BY <2>4, <3>1, <4>1, <4>2 DEF InsertEnrollment, PaysInv
        <4>4. quota'[Family(o)] = quota[Family(o)]  BY <1>f, <3>1, <4>1, <4>3
        <4>5. lock'[Family(o)] = o  BY <1>f, <3>1, <3>2, <4>3 DEF Unlocked
        <4> QED BY <4>2, <4>3, <4>4, <4>5
      <3> QED BY <3>3, <3>4
    <2>5. CASE NotifyEnrolled(q)  BY <1>k, <2>5 DEF NotifyEnrolled
    <2>6. CASE ReadForCancel(q)
      <3>1. pc[o] = "insert" /\ UNCHANGED <<lock, quota, target, forced>>
        BY <2>6 DEF ReadForCancel
      <3> QED BY <3>1 DEF PaysInv, Family
    <2>7. CASE MarkCancelled(q)  BY <1>k, <2>7 DEF MarkCancelled
    <2>8. CASE ListEnrolled(q)
      <3>1. pc[o] = "insert" /\ UNCHANGED <<lock, quota, target, forced>>
        BY <2>8 DEF ListEnrolled
      <3> QED BY <3>1 DEF PaysInv, Family
    <2>9. CASE TellRiders(q)  BY <1>k, <2>9 DEF TellRiders
    <2>10. CASE ReadForSubscription(q)
      <3>1. pc[o] = "insert" /\ UNCHANGED <<lock, quota, target, forced>>
        BY <2>10 DEF ReadForSubscription
      <3> QED BY <3>1 DEF PaysInv, Family
    <2>11. CASE Subscribe(q)
      <3>1. pc[o] = "insert" /\ UNCHANGED <<lock, locals>>  BY <2>11 DEF Subscribe
      <3>2. Family(o)' = Family(o) /\ lock[Family(o)] = o /\ quota[Family(o)] > 0
        BY <3>1 DEF PaysInv, Family, locals
      <3>3. Family(o) # Family(q)  BY <2>11, <3>2 DEF Subscribe
      <3>4. quota'[Family(o)] = quota[Family(o)]
        BY <1>f, <2>11, <3>3 DEF Subscribe, Grant
      <3> QED BY <3>1, <3>2, <3>4
    <2> QED BY <1>1, <2>1, <2>2, <2>3, <2>4, <2>5, <2>6, <2>7, <2>8, <2>9, <2>10, <2>11 DEF Step
  <1>2. ASSUME NEW q \in Requests, Die(q)
        PROVE  lock'[Family(o)'] = o /\ quota'[Family(o)'] > 0
    <2>1. q # o /\ pc[o] = "insert"  BY <1>2 DEF Die, Goto, TypeOK
    <2> QED BY <1>k, <1>2, <2>1 DEF Die, families
  <1>3. ASSUME NEW f \in Families, ChangePlan(f)
        PROVE  lock'[Family(o)'] = o /\ quota'[Family(o)'] > 0
    <2>1. pc[o] = "insert" /\ UNCHANGED <<lock, locals>>  BY <1>3 DEF ChangePlan
    <2>2. Family(o)' = Family(o) /\ lock[Family(o)] = o /\ quota[Family(o)] > 0
      BY <2>1 DEF PaysInv, Family, locals
    <2>3. quota'[Family(o)] = quota[Family(o)]
      BY <1>f, <1>3, <2>2 DEF ChangePlan, Grant, TypeOK
    <2> QED BY <2>1, <2>2, <2>3
  <1>4. ASSUME NEW c \in Courses, UpdateCourse(c)
        PROVE  lock'[Family(o)'] = o /\ quota'[Family(o)'] > 0
    BY <1>k, <1>4 DEF UpdateCourse, families
  <1>5. CASE UNCHANGED vars  BY <1>k, <1>5 DEF vars, locals
  <1> QED BY <1>1, <1>2, <1>3, <1>4, <1>5 DEF Next

\* Every step keeps OfferInv.
LEMMA OfferStep == QuotaInv /\ [Next]_vars => OfferInv'
  <1> SUFFICES ASSUME QuotaInv, [Next]_vars PROVE OfferInv'  OBVIOUS
  <1> USE DEF QuotaInv, TypeOK, OfferInv, Goto, locals
  <1>1. ASSUME NEW q \in Requests, Step(q) PROVE OfferInv'
    <2>1. CASE CheckCourse(q)  BY <2>1 DEF CheckCourse
    <2>2. CASE CountEnrollments(q)  BY <2>2 DEF CountEnrollments
    <2>3. CASE TakeQuota(q)  BY <2>3 DEF TakeQuota
    <2>4. CASE InsertEnrollment(q)  BY <2>4 DEF InsertEnrollment
    <2>5. CASE NotifyEnrolled(q)  BY <2>5 DEF NotifyEnrolled
    <2>6. CASE ReadForCancel(q)  BY <2>6 DEF ReadForCancel
    <2>7. CASE MarkCancelled(q)  BY <2>7 DEF MarkCancelled
    <2>8. CASE ListEnrolled(q)  BY <2>8 DEF ListEnrolled
    <2>9. CASE TellRiders(q)  BY <2>9 DEF TellRiders
    <2>10. CASE ReadForSubscription(q)  BY <2>10 DEF ReadForSubscription
    <2>11. CASE Subscribe(q)  BY <2>11 DEF Subscribe
    <2> QED BY <1>1, <2>1, <2>2, <2>3, <2>4, <2>5, <2>6, <2>7, <2>8, <2>9, <2>10, <2>11 DEF Step
  <1>2. ASSUME NEW q \in Requests, Die(q) PROVE OfferInv'  BY <1>2 DEF Die
  <1>3. ASSUME NEW f \in Families, ChangePlan(f) PROVE OfferInv'  BY <1>3 DEF ChangePlan
  <1>4. ASSUME NEW c \in Courses, UpdateCourse(c) PROVE OfferInv'  BY <1>4 DEF UpdateCourse
  <1>5. CASE UNCHANGED vars  BY <1>5 DEF vars
  <1> QED BY <1>1, <1>2, <1>3, <1>4, <1>5 DEF Next

LEMMA Inductive == Spec => []QuotaInv
  <1>1. Init => QuotaInv  BY QuotaInit
  <1>2. QuotaInv /\ [Next]_vars => QuotaInv'
    BY BalanceStep, PaysStep, OfferStep DEF QuotaInv
  <1> QED BY <1>1, <1>2, PTL DEF Spec

\* Every variable of the enrollment keeps its type: no quota goes below zero.
THEOREM TypeCorrect == Spec => []TypeOK
  <1>1. QuotaInv => TypeOK  BY DEF QuotaInv
  <1> QED BY <1>1, Inductive, PTL

\* Whatever the interleaving of enrollments, cancellations, subscriptions and failures, the
\* sessions granted to a family are those it has left and those it spent.
THEOREM QuotaBalanced == Spec => []QuotaIsBalanced
  <1>1. QuotaInv => QuotaIsBalanced  BY DEF QuotaInv
  <1> QED BY <1>1, Inductive, PTL
\* What the step of a request may do to the plans.
LEMMA FirstPlanStep ==
    QuotaInv /\ [Next]_vars =>
        [\A q \in Requests :
            pc[q] = "subscribe" /\ plan[Family(q)] # NoPlan /\ pc'[q] = "done" =>
                plan' = plan /\ quota' = quota]_vars
  <1> SUFFICES ASSUME QuotaInv, Next, NEW q \in Requests,
                      pc[q] = "subscribe", plan[Family(q)] # NoPlan, pc'[q] = "done"
               PROVE  plan' = plan /\ quota' = quota
    OBVIOUS
  <1>0. pc \in [Requests -> {"start", "count", "quota", "insert", "notify", "cancel", "list",
                             "tell", "told", "subscribe", "done"}]
    BY DEF QuotaInv, TypeOK
  <1>1. ASSUME NEW o \in Requests, Step(o) \/ Die(o)
        PROVE  plan' = plan /\ quota' = quota
    <2>1. o = q
      BY <1>0, <1>1 DEF Step, CheckCourse, CountEnrollments, TakeQuota, InsertEnrollment,
                        NotifyEnrolled, ReadForCancel, MarkCancelled, ListEnrolled, TellRiders,
                        ReadForSubscription, Subscribe, Die, Goto
    <2>2. Subscribe(q) \/ Die(q)
      BY <1>1, <2>1 DEF Step, CheckCourse, CountEnrollments, TakeQuota, InsertEnrollment,
                        NotifyEnrolled, ReadForCancel, MarkCancelled, ListEnrolled, TellRiders,
                        ReadForSubscription
    <2> QED BY <2>2 DEF Subscribe, Die, families
  <1>2. ASSUME NEW f \in Families, ChangePlan(f)
        PROVE  FALSE
    BY <1>2 DEF ChangePlan
  <1>3. ASSUME NEW c \in Courses, UpdateCourse(c)
        PROVE  FALSE
    BY <1>3 DEF UpdateCourse
  <1> QED BY <1>1, <1>2, <1>3 DEF Next

\* billingService.js:486: of two subscriptions of a family at once the first wins, and the
\* second changes neither its plan nor its quota.
THEOREM FirstPlanAlwaysWins == Spec => FirstPlanWins
  <1> QED BY Inductive, FirstPlanStep, PTL DEF Spec, FirstPlanWins

-----------------------------------------------------------------------------
(* The races of an enrollment *)

\* A request whose count is up to date still finds a place.
CountedFree ==
    \A q \in Requests : pc[q] \in {"quota", "insert"} /\ q \notin stale =>
        Cardinality(Enrolled(CourseOf(q))) < capacity[CourseOf(q)]

\* Whoever is about to join a course that is being cancelled is late.
JoinsLate ==
    \A q, o \in Requests :
        pc[q] \in {"list", "tell"} /\ pc[o] \in {"count", "quota", "insert"}
        /\ CourseOf(o) \in batch[q] => o \in late

Late(x) == \E o \in late : target[o] = x

\* A request about to tell the riders has listed all of them but the late ones.
ListedAll ==
    \A q \in Requests : pc[q] = "tell" =>
        \A x \in enrolled : x[1] \in batch[q] => x \in listed[q] \/ Late(x)

RaceInv == TypeOK /\ CountedFree /\ JoinsLate /\ ListedAll

LEMMA RaceInit == Init => CountedFree /\ JoinsLate /\ ListedAll
  BY DEF Init, CountedFree, JoinsLate, ListedAll

LEMMA SeatsAreCounted ==
    ASSUME TypeOK, NEW q \in Requests
    PROVE  Cardinality(Enrolled(CourseOf(q))) \in Nat /\ capacity[CourseOf(q)] \in Nat
  <1>1. IsFiniteSet(Enrolled(CourseOf(q)))
    BY CourseAssumption, FS_Subset DEF Enrolled
  <1> QED BY <1>1, FS_CardinalityType, TargetTypes, CourseAssumption DEF TypeOK

\* A step that enrolls nobody, and brings no request to check, count, list or tell.
LEMMA QuietStep ==
    ASSUME RaceInv, TypeOK', UNCHANGED <<enrolled, target>>, late \subseteq late',
           \A q \in Requests :
               /\ pc'[q] \in {"quota", "insert"} /\ q \notin stale' =>
                     /\ pc[q] \in {"quota", "insert"} /\ q \notin stale
                     /\ capacity'[CourseOf(q)] = capacity[CourseOf(q)]
               /\ pc'[q] \in {"count", "quota", "insert"} => pc[q] \in {"count", "quota", "insert"}
               /\ pc'[q] \in {"list", "tell"} => pc'[q] = pc[q] /\ batch'[q] = batch[q]
               /\ pc'[q] = "tell" => listed'[q] = listed[q]
    PROVE  RaceInv'
  <1>1. \A q : CourseOf(q)' = CourseOf(q)
    BY DEF CourseOf
  <1>2. CountedFree'
    <2> SUFFICES ASSUME NEW q \in Requests, pc'[q] \in {"quota", "insert"}, q \notin stale'
                 PROVE  (Cardinality(Enrolled(CourseOf(q))) < capacity[CourseOf(q)])'
      BY DEF CountedFree
    <2>1. Enrolled(CourseOf(q))' = Enrolled(CourseOf(q))
      BY <1>1 DEF Enrolled
    <2> QED BY <1>1, <2>1 DEF RaceInv, CountedFree
  <1>3. JoinsLate'
    BY <1>1 DEF RaceInv, JoinsLate
  <1>4. ListedAll'
    BY DEF RaceInv, ListedAll, Late
  <1> QED BY <1>2, <1>3, <1>4 DEF RaceInv

\* A request that finds the course open while it is being cancelled is late.
LEMMA CheckStep ==
    ASSUME RaceInv, TypeOK', NEW q \in Requests, CheckCourse(q)
    PROVE  RaceInv'
  <1>1. /\ UNCHANGED <<enrolled, target, batch, listed, capacity, stale>> /\ late \subseteq late'
        /\ \A o \in Requests \ {q} : pc'[o] = pc[o]
        /\ pc'[q] \in {"count", "done"}
    BY DEF CheckCourse, Goto, RaceInv, TypeOK, courses, locals
  <1>2. \A o : CourseOf(o)' = CourseOf(o) /\ Enrolled(CourseOf(o))' = Enrolled(CourseOf(o))
    BY <1>1 DEF CourseOf, Enrolled
  <1>3. CountedFree'
    BY <1>1, <1>2 DEF RaceInv, CountedFree
  <1>4. ListedAll'
    BY <1>1 DEF RaceInv, ListedAll, Late
  <1>5. JoinsLate'
    <2> SUFFICES ASSUME NEW p \in Requests, NEW o \in Requests,
                        pc'[p] \in {"list", "tell"}, pc'[o] \in {"count", "quota", "insert"},
                        CourseOf(o) \in batch[p]
                 PROVE  o \in late'
      BY <1>1, <1>2 DEF JoinsLate
    <2>1. p # q /\ pc[p] \in {"list", "tell"}
      BY <1>1
    <2>2. CASE o = q
      <3>1. status[CourseOf(q)] \notin {"cancelled", "draft"}
        BY <2>2 DEF CheckCourse, Goto, RaceInv, TypeOK
      <3>2. status[CourseOf(q)] = "open"
        BY <3>1, TargetTypes DEF RaceInv, TypeOK, Statuses
      <3>3. CourseOf(q) \in Cancelling
        BY <2>1, <2>2 DEF Cancelling
      <3> QED BY <2>2, <3>2, <3>3 DEF CheckCourse
    <2>3. CASE o # q
      BY <1>1, <2>1, <2>3 DEF RaceInv, JoinsLate
    <2> QED BY <2>2, <2>3
  <1> QED BY <1>3, <1>4, <1>5 DEF RaceInv

\* A request that counts finds a place, and its count is the last one.
LEMMA CountStep ==
    ASSUME RaceInv, TypeOK', NEW q \in Requests, CountEnrollments(q)
    PROVE  RaceInv'
  <1>1. /\ UNCHANGED <<enrolled, target, batch, listed, capacity, late>> /\ stale' = stale \ {q}
        /\ \A o \in Requests \ {q} : pc'[o] = pc[o]
        /\ pc[q] = "count" /\ pc'[q] \in {"done", "quota", "insert"}
    BY DEF CountEnrollments, Goto, RaceInv, TypeOK, courses, locals
  <1>2. \A o : CourseOf(o)' = CourseOf(o) /\ Enrolled(CourseOf(o))' = Enrolled(CourseOf(o))
    BY <1>1 DEF CourseOf, Enrolled
  <1>3. CountedFree'
    <2> SUFFICES ASSUME NEW o \in Requests, pc'[o] \in {"quota", "insert"}, o \notin stale'
                 PROVE  Cardinality(Enrolled(CourseOf(o))) < capacity[CourseOf(o)]
      BY <1>1, <1>2 DEF CountedFree
    <2>1. CASE o = q
      <3>1. ~(Cardinality(Enrolled(CourseOf(q))) >= capacity[CourseOf(q)])
        BY <2>1 DEF CountEnrollments, Goto, RaceInv, TypeOK
      <3> QED BY <2>1, <3>1, SeatsAreCounted DEF RaceInv
    <2>2. CASE o # q
      BY <1>1, <2>2 DEF RaceInv, CountedFree
    <2> QED BY <2>1, <2>2
  <1>4. JoinsLate'
    BY <1>1, <1>2 DEF RaceInv, JoinsLate
  <1>5. ListedAll'
    BY <1>1 DEF RaceInv, ListedAll, Late
  <1> QED BY <1>3, <1>4, <1>5 DEF RaceInv

\* An enrollment makes the counts of the others old; into a course that is being cancelled it
\* comes late.
LEMMA InsertStep ==
    ASSUME RaceInv, TypeOK', NEW q \in Requests, InsertEnrollment(q)
    PROVE  RaceInv'
  <1>1. /\ \A o \in Requests \ {q} : pc'[o] = pc[o]
        /\ pc[q] = "insert" /\ pc'[q] \in {"done", "notify"}
        /\ UNCHANGED <<target, batch, listed, capacity, late>>
        /\ \/ UNCHANGED <<enrolled, stale>>
           \/ /\ enrolled' = enrolled \cup {target[q]}
              /\ stale' = stale \cup Counted(CourseOf(q))
    BY DEF InsertEnrollment, Goto, RaceInv, TypeOK, courses, locals
  <1>2. \A o : CourseOf(o)' = CourseOf(o)
    BY <1>1 DEF CourseOf
  <1>3. CountedFree'
    <2> SUFFICES ASSUME NEW o \in Requests, pc'[o] \in {"quota", "insert"}, o \notin stale'
                 PROVE  (Cardinality(Enrolled(CourseOf(o))) < capacity[CourseOf(o)])'
      BY DEF CountedFree
    <2>1. o # q /\ pc[o] \in {"quota", "insert"} /\ o \notin stale
      BY <1>1
    <2>2. Enrolled(CourseOf(o))' = Enrolled(CourseOf(o))
      <3>1. CASE UNCHANGED enrolled
        BY <1>2, <3>1 DEF Enrolled
      <3>2. CASE enrolled' = enrolled \cup {target[q]} /\ stale' = stale \cup Counted(CourseOf(q))
        <4>1. CourseOf(o) # target[q][1]
          BY <2>1, <3>2 DEF Counted, CourseOf
        <4> QED BY <1>2, <3>2, <4>1 DEF Enrolled
      <3> QED BY <1>1, <3>1, <3>2
    <2> QED BY <1>1, <1>2, <2>1, <2>2 DEF RaceInv, CountedFree
  <1>4. JoinsLate'
    BY <1>1, <1>2 DEF RaceInv, JoinsLate
  <1>5. ListedAll'
    <2> SUFFICES ASSUME NEW o \in Requests, pc'[o] = "tell", NEW x \in enrolled', x[1] \in batch[o]
                 PROVE  x \in listed[o] \/ Late(x)
      BY <1>1 DEF ListedAll, Late
    <2>1. o # q /\ pc[o] = "tell"
      BY <1>1
    <2>2. CASE x \in enrolled
      BY <2>1, <2>2 DEF RaceInv, ListedAll
    <2>3. CASE x = target[q]
      <3>1. q \in late
        BY <1>1, <2>1, <2>3 DEF RaceInv, JoinsLate, CourseOf
      <3> QED BY <2>3, <3>1 DEF Late
    <2> QED BY <1>1, <2>2, <2>3
  <1> QED BY <1>3, <1>4, <1>5 DEF RaceInv

\* The cancellation comes too late for the requests that checked before it.
LEMMA MarkStep ==
    ASSUME RaceInv, TypeOK', NEW q \in Requests, MarkCancelled(q)
    PROVE  RaceInv'
  <1>1. /\ UNCHANGED <<enrolled, target, batch, listed, capacity, stale>>
        /\ late' = late \cup Checked(batch[q])
        /\ \A o \in Requests \ {q} : pc'[o] = pc[o]
        /\ pc'[q] = "list"
    BY DEF MarkCancelled, Goto, RaceInv, TypeOK, locals
  <1>2. \A o : CourseOf(o)' = CourseOf(o) /\ Enrolled(CourseOf(o))' = Enrolled(CourseOf(o))
    BY <1>1 DEF CourseOf, Enrolled
  <1>3. CountedFree'
    BY <1>1, <1>2 DEF RaceInv, CountedFree
  <1>4. JoinsLate'
    BY <1>1, <1>2 DEF RaceInv, JoinsLate, Checked
  <1>5. ListedAll'
    BY <1>1 DEF RaceInv, ListedAll, Late
  <1> QED BY <1>3, <1>4, <1>5 DEF RaceInv

LEMMA ListStep ==
    ASSUME RaceInv, TypeOK', NEW q \in Requests, ListEnrolled(q)
    PROVE  RaceInv'
  <1>1. /\ UNCHANGED <<enrolled, target, batch, capacity, stale, late>>
        /\ \A o \in Requests \ {q} : pc'[o] = pc[o] /\ listed'[o] = listed[o]
        /\ pc[q] = "list" /\ pc'[q] = "tell"
        /\ listed'[q] = {x \in enrolled : x[1] \in batch[q]}
    BY DEF ListEnrolled, Goto, RaceInv, TypeOK, courses, history
  <1>2. \A o : CourseOf(o)' = CourseOf(o) /\ Enrolled(CourseOf(o))' = Enrolled(CourseOf(o))
    BY <1>1 DEF CourseOf, Enrolled
  <1>3. CountedFree'
    BY <1>1, <1>2 DEF RaceInv, CountedFree
  <1>4. JoinsLate'
    BY <1>1, <1>2 DEF RaceInv, JoinsLate
  <1>5. ListedAll'
    BY <1>1 DEF RaceInv, ListedAll, Late
  <1> QED BY <1>3, <1>4, <1>5 DEF RaceInv

LEMMA RaceStep ==
    ASSUME RaceInv, TypeOK', [Next]_vars
    PROVE  RaceInv'
  <1>1. ASSUME NEW q \in Requests,
               \/ TakeQuota(q) \/ NotifyEnrolled(q) \/ ReadForCancel(q) \/ TellRiders(q)
               \/ ReadForSubscription(q) \/ Subscribe(q) \/ Die(q)
        PROVE  RaceInv'
    <2>1. UNCHANGED <<enrolled, target, capacity, stale, late>>
      BY <1>1 DEF TakeQuota, NotifyEnrolled, ReadForCancel, TellRiders, ReadForSubscription,
                  Subscribe, Die, courses, locals, history
    <2>2. \A o \in Requests \ {q} : pc'[o] = pc[o] /\ batch'[o] = batch[o] /\ listed'[o] = listed[o]
      BY <1>1 DEF TakeQuota, NotifyEnrolled, ReadForCancel, TellRiders, ReadForSubscription,
                  Subscribe, Die, courses, locals, Goto, RaceInv, TypeOK
    <2>3. /\ pc'[q] \notin {"list", "tell", "count"}
          /\ pc'[q] \in {"quota", "insert"} => pc[q] \in {"quota", "insert"}
      BY <1>1 DEF TakeQuota, NotifyEnrolled, ReadForCancel, TellRiders, ReadForSubscription,
                  Subscribe, Die, Goto, RaceInv, TypeOK
    <2>4. \A o : CourseOf(o)' = CourseOf(o)
      BY <2>1 DEF CourseOf
    <2> QED BY <2>1, <2>2, <2>3, <2>4, QuietStep
  <1>2. ASSUME NEW f \in Families, ChangePlan(f)
        PROVE  RaceInv'
    BY <1>2, QuietStep DEF ChangePlan, courses, locals, history
  <1>3. ASSUME NEW c \in Courses, UpdateCourse(c)
        PROVE  RaceInv'
    <2>1. UNCHANGED <<enrolled, target, pc, batch, listed, late>>
      BY <1>3 DEF UpdateCourse, locals
    <2>2. ASSUME NEW q \in Requests, pc'[q] \in {"quota", "insert"}, q \notin stale'
          PROVE  q \notin stale /\ capacity'[CourseOf(q)] = capacity[CourseOf(q)]
      <3>1. PICK n \in 1..MaxCapacity :
                /\ capacity' = [capacity EXCEPT ![c] = n]
                /\ stale' = IF n = capacity[c] THEN stale ELSE stale \cup Counted(c)
        BY <1>3 DEF UpdateCourse
      <3> QED BY <2>1, <2>2, <3>1 DEF Counted, RaceInv, TypeOK
    <2> QED BY <2>1, <2>2, QuietStep
  <1>4. CASE UNCHANGED vars
    BY <1>4, QuietStep DEF vars
  <1> QED BY <1>1, <1>2, <1>3, <1>4, CheckStep, CountStep, InsertStep, MarkStep, ListStep
          DEF Next, Step

LEMMA RaceInductive == Spec => []RaceInv
  <1>1. Init => RaceInv
    BY QuotaInit, RaceInit DEF RaceInv, QuotaInv
  <1>2. RaceInv /\ TypeOK' /\ [Next]_vars => RaceInv'
    BY RaceStep
  <1> QED BY <1>1, <1>2, TypeCorrect, PTL DEF Spec

\* courseService.js:426: however enrollments overlap with each other and with the admin's
\* edits, a rider takes a place that is not free only on a count that was out of date.
THEOREM EnrollsOnlyOnFreeSeats == Spec => TakesOnlyFreeSeats
  <1>1. RaceInv /\ [Next]_vars =>
          [\A x \in enrolled' \ enrolled :
              \E q \in Requests :
                  /\ target[q] = x
                  /\ q \in stale \/ Cardinality(Enrolled(x[1])) < capacity[x[1]]]_vars
    <2> SUFFICES ASSUME RaceInv, Next, NEW x \in enrolled', x \notin enrolled
                 PROVE  \E q \in Requests :
                            /\ target[q] = x
                            /\ q \in stale \/ Cardinality(Enrolled(x[1])) < capacity[x[1]]
      OBVIOUS
    <2>1. PICK q \in Requests : InsertEnrollment(q)
      BY DEF Next, Step, CheckCourse, CountEnrollments, TakeQuota, NotifyEnrolled, ReadForCancel,
             MarkCancelled, ListEnrolled, TellRiders, ReadForSubscription, Subscribe, Die,
             ChangePlan, UpdateCourse
    <2>2. target[q] = x /\ pc[q] = "insert"
      BY <2>1 DEF InsertEnrollment
    <2> QED BY <2>2 DEF RaceInv, CountedFree, CourseOf
  <1> QED BY <1>1, RaceInductive, PTL DEF Spec, TakesOnlyFreeSeats

\* cahier-de-tests.md:76: a cancellation that is answered has told every family with a rider
\* in one of the courses it cancelled, whatever enrolls meanwhile: all but the riders whose
\* request found the course open before it was marked, or once it was reopened.
THEOREM CancellationReachesAll == Spec => CancellationTold
  <1>1. RaceInv /\ [Next]_vars =>
          [\A q \in Requests : pc[q] = "tell" /\ pc'[q] = "told" =>
              \A x \in enrolled : x[1] \in batch[q] =>
                  x \in told' \/ \E o \in late : target[o] = x]_vars
    <2> SUFFICES ASSUME RaceInv, Next, NEW q \in Requests, pc[q] = "tell", pc'[q] = "told",
                        NEW x \in enrolled, x[1] \in batch[q]
                 PROVE  x \in told' \/ Late(x)
      BY DEF Late
    <2>1. pc' # pc
      OBVIOUS
    <2>2. ASSUME NEW o \in Requests, Step(o) \/ Die(o)
          PROVE  TellRiders(q)
      <3>1. o = q
        BY <2>2 DEF Step, CheckCourse, CountEnrollments, TakeQuota, InsertEnrollment, NotifyEnrolled,
                    ReadForCancel, MarkCancelled, ListEnrolled, TellRiders, ReadForSubscription,
                    Subscribe, Die, Goto, RaceInv, TypeOK
      <3>2. ~Die(q)
        BY DEF Die, Goto, RaceInv, TypeOK
      <3> QED BY <2>2, <3>1, <3>2
              DEF Step, CheckCourse, CountEnrollments, TakeQuota, InsertEnrollment, NotifyEnrolled,
                  ReadForCancel, MarkCancelled, ListEnrolled, ReadForSubscription, Subscribe
    <2>3. TellRiders(q)
      BY <2>1, <2>2 DEF Next, ChangePlan, UpdateCourse
    <2> QED BY <2>3 DEF TellRiders, RaceInv, ListedAll
  <1> QED BY <1>1, RaceInductive, PTL DEF Spec, CancellationTold
=============================================================================
