---------------------- MODULE EventRegistrationProofs ----------------------
(***************************************************************************)
(* The booking of an event, for any number of events, riders and           *)
(* overlapping requests: type correctness, the invariant that the row lock *)
(* maintains, the implementation of SeatBooking, and the one invoice of a  *)
(* registration.                                                           *)
(***************************************************************************)
EXTENDS EventRegistration, FiniteSetTheorems, TLAPS

\* A row lock is held only by a request of that event that is inside the transaction, and
\* a request inside the transaction holds it unless the event was deleted.
LockInv ==
    /\ \A e \in Events : lock[e] # NoRequest =>
          pc[lock[e]] \in {"count", "commit"} /\ EventOf(lock[e]) = e
    /\ \A q \in Requests : pc[q] \in {"lock", "count", "commit"} => phase[EventOf(q)] # "unborn"
    /\ \A q \in Requests : pc[q] = "count" =>
          lock[EventOf(q)] = q \/ phase[EventOf(q)] = "deleted"

\* The inductive invariant: LockedCountIsSafe says nothing of the state before the count.
BookingInv == TypeOK /\ LockInv /\ LockedCountIsSafe

\* A request is about one event and one rider.
LEMMA TargetIsPair ==
    ASSUME TypeOK, NEW q \in Requests
    PROVE  /\ EventOf(q) \in Events
           /\ target[q][2] \in Riders
           /\ target[q] = <<EventOf(q), target[q][2]>>
           /\ target[q] \in Registrations
  BY DEF TypeOK, EventOf, Registrations

\* The riders registered for an event can be counted.
LEMMA ConfirmedIsFinite ==
    ASSUME NEW e
    PROVE  IsFiniteSet(Confirmed(e)) /\ Cardinality(Confirmed(e)) \in Nat
  <1>1. IsFiniteSet(Confirmed(e))
    BY EventAssumption, FS_Subset DEF Confirmed
  <1> QED BY <1>1, FS_CardinalityType

-----------------------------------------------------------------------------
(* Type correctness *)

LEMMA TypeInit == Init => TypeOK
  <1> SUFFICES ASSUME Init PROVE TypeOK  OBVIOUS
  <1>1. NoPlan \in [{} -> Horses]  BY DEF NoPlan
  <1>2. NoPlan \in Assignments  BY <1>1 DEF Assignments
  <1> QED BY <1>2, EventAssumption DEF Init, TypeOK, PCs, Registrations

\* Every step keeps the types.
LEMMA TypeStep == TypeOK /\ [Next]_vars => TypeOK'
  <1> SUFFICES ASSUME TypeOK, [Next]_vars PROVE TypeOK'  OBVIOUS
  <1> USE EventAssumption DEF TypeOK, rows, bookings, bills, locals, PCs, Goto
  <1>1. ASSUME NEW q \in Requests, Step(q) PROVE TypeOK'
    <2> target[q] \in Registrations /\ EventOf(q) \in Events /\ target[q][2] \in Riders
      BY TargetIsPair
    <2>1. CASE CheckNotRegistered(q)  BY <2>1 DEF CheckNotRegistered
    <2>2. CASE LockEvent(q)  BY <2>2 DEF LockEvent
    <2>3. CASE CountSeats(q)
      <3>1. capacity[EventOf(q)] - Cardinality(Confirmed(EventOf(q))) \in Int
        BY ConfirmedIsFinite
      <3> QED BY <2>3, <3>1 DEF CountSeats, Unlocked
    <2>4. CASE CommitRegistration(q)  BY <2>4 DEF CommitRegistration, Unlocked
    <2>5. CASE FindInvoice(q)  BY <2>5 DEF FindInvoice
    <2>6. CASE DrawNumber(q)  BY <2>6 DEF DrawNumber
    <2>7. CASE CreateInvoice(q)
      <3>1. numbers' \subseteq Nat
        <4>1. drawn[q] \in Nat  OBVIOUS
        <4>2. numbers' = numbers \/ numbers' = numbers \cup {drawn[q]}
          BY <2>7 DEF CreateInvoice
        <4> QED BY <4>1, <4>2
      <3>2. invoiced' \in [Registrations -> Nat]  BY <2>7 DEF CreateInvoice
      <3> QED BY <2>7, <3>1, <3>2 DEF CreateInvoice
    <2>8. CASE Notify(q)  BY <2>8 DEF Notify
    <2>9. CASE AskAssignment(q)  BY <2>9 DEF AskAssignment
    <2>10. CASE ReadAndPlan(q)
      <3>1. ASSUME NEW p \in Plans(EventOf(q))
            PROVE  p \in Assignments
        <4> DEFINE waiting == {r \in Confirmed(EventOf(q)) : mount[<<EventOf(q), r>>] = NoHorse}
        <4>1. p \in UNION {[S -> Eligible(EventOf(q))] : S \in SUBSET waiting}
          BY DEF Plans
        <4>2. PICK S \in SUBSET waiting : p \in [S -> Eligible(EventOf(q))]
          BY <4>1
        <4>3. S \in SUBSET Riders  BY DEF Confirmed
        <4>4. p \in [S -> Horses]  BY <4>2 DEF Eligible
        <4> QED BY <4>3, <4>4 DEF Assignments
      <3> QED BY <2>10, <3>1 DEF ReadAndPlan
    <2>11. CASE ApplyPlan(q)  
      <3>1. ASSUME NEW r \in DOMAIN plan[q] PROVE plan[q][r] \in Horses
        BY DEF Assignments
      <3> QED BY <2>11, <3>1 DEF ApplyPlan
    <2>12. CASE ReadForCancel(q)  BY <2>12 DEF ReadForCancel
    <2>13. CASE Release(q)  BY <2>13 DEF Release
    <2>14. CASE ReadForOverride(q)  BY <2>14 DEF ReadForOverride
    <2>15. CASE CheckOptions(q)  BY <2>15 DEF CheckOptions
    <2>16. CASE SwapHorse(q)  BY <2>16 DEF SwapHorse
    <2> QED
      BY <1>1, <2>1, <2>2, <2>3, <2>4, <2>5, <2>6, <2>7, <2>8, <2>9, <2>10, <2>11,
         <2>12, <2>13, <2>14, <2>15, <2>16 DEF Step
  <1>2. ASSUME NEW q \in Requests, Die(q) PROVE TypeOK'  BY <1>2 DEF Die, Unlocked
  <1>3. ASSUME NEW e \in Events, CreateEvent(e) PROVE TypeOK'  BY <1>3 DEF CreateEvent
  <1>4. ASSUME NEW e \in Events, UpdateEvent(e) PROVE TypeOK'  BY <1>4 DEF UpdateEvent
  <1>5. ASSUME NEW e \in Events, DeleteEvent(e) PROVE TypeOK'  BY <1>5 DEF DeleteEvent
  <1>6. ASSUME NEW e \in Events, EventStarts(e) PROVE TypeOK'  BY <1>6 DEF EventStarts
  <1>7. CASE OtherInvoice  BY <1>7 DEF OtherInvoice
  <1>8. CASE UNCHANGED vars  BY <1>8 DEF vars
  <1> QED BY <1>1, <1>2, <1>3, <1>4, <1>5, <1>6, <1>7, <1>8 DEF Next

-----------------------------------------------------------------------------
(* The lock *)

\* A request that leaves the transaction and drops its lock takes nobody else's lock along.
LEMMA Unlocking ==
    ASSUME BookingInv, NEW q \in Requests, NEW where \in PCs \ {"lock", "count", "commit"},
           Goto(q, where), lock' = Unlocked(q), UNCHANGED <<phase, target>>
    PROVE  LockInv'
  <1> USE EventAssumption DEF BookingInv, TypeOK, LockInv, EventOf, PCs, Goto
  <1>1. \A e \in Events : lock'[e] # NoRequest => lock'[e] = lock[e] /\ lock[e] # q
    BY DEF Unlocked
  <1>2. \A o \in Requests : o # q => pc'[o] = pc[o]  OBVIOUS
  <1>3. pc'[q] = where  OBVIOUS
  <1>4. ASSUME NEW e \in Events, (lock[e] # NoRequest)'
        PROVE  (pc[lock[e]] \in {"count", "commit"} /\ EventOf(lock[e]) = e)'
    <2>1. lock[e] \in Requests /\ lock[e] # q /\ lock'[e] = lock[e]  BY <1>1, <1>4
    <2>2. pc[lock[e]] \in {"count", "commit"} /\ EventOf(lock[e]) = e  BY <1>4, <2>1
    <2> QED BY <1>2, <2>1, <2>2
  <1>5. ASSUME NEW o \in Requests, (pc[o] \in {"lock", "count", "commit"})'
        PROVE  (phase[EventOf(o)] # "unborn")'
    BY <1>2, <1>3, <1>5
  <1>6. ASSUME NEW o \in Requests, (pc[o] = "count")'
        PROVE  (lock[EventOf(o)] = o \/ phase[EventOf(o)] = "deleted")'
    <2>1. o # q /\ pc[o] = "count"  BY <1>2, <1>3, <1>6
    <2>2. EventOf(o) \in Events /\ EventOf(o)' = EventOf(o)  BY TargetIsPair
    <2>3. lock[EventOf(o)] = o \/ phase[EventOf(o)] = "deleted"  BY <2>1
    <2> QED BY <2>1, <2>2, <2>3 DEF Unlocked
  <1> QED BY <1>4, <1>5, <1>6

\* Only the registration steps and the failures touch the lock or the row of an event that
\* is being counted: the other requests leave alone all that LockInv speaks of.
LEMMA LockStep == BookingInv /\ [Next]_vars => LockInv'
  <1> SUFFICES ASSUME BookingInv, [Next]_vars PROVE LockInv'  OBVIOUS
  <1> USE EventAssumption DEF BookingInv, TypeOK, LockInv, EventOf, rows, bookings, bills,
          locals, PCs, Goto
  <1>1. ASSUME NEW q \in Requests, Step(q) PROVE LockInv'
    <2> target[q] \in Registrations /\ EventOf(q) \in Events /\ target[q][2] \in Riders
      BY TargetIsPair
    <2>1. CASE CheckNotRegistered(q)  BY <2>1 DEF CheckNotRegistered
    <2>2. CASE LockEvent(q)  BY <2>2 DEF LockEvent, Exists
    <2>3. CASE CountSeats(q)
      <3>1. CASE phase[EventOf(q)] = "open"  BY <2>3, <3>1 DEF CountSeats
      <3>2. CASE phase[EventOf(q)] # "open"
        BY <2>3, <3>2, Unlocking DEF CountSeats
      <3> QED BY <3>1, <3>2
    <2>4. CASE CommitRegistration(q)
      <3>1. Goto(q, "done") \/ Goto(q, "find")  BY <2>4 DEF CommitRegistration
      <3> QED BY <2>4, <3>1, Unlocking DEF CommitRegistration
    <2>5. CASE FindInvoice(q)  BY <2>5 DEF FindInvoice
    <2>6. CASE DrawNumber(q)  BY <2>6 DEF DrawNumber
    <2>7. CASE CreateInvoice(q)  BY <2>7 DEF CreateInvoice
    <2>8. CASE Notify(q)  BY <2>8 DEF Notify
    <2>9. CASE AskAssignment(q)  BY <2>9 DEF AskAssignment
    <2>10. CASE ReadAndPlan(q)  BY <2>10 DEF ReadAndPlan
    <2>11. CASE ApplyPlan(q)  BY <2>11 DEF ApplyPlan
    <2>12. CASE ReadForCancel(q)  BY <2>12 DEF ReadForCancel
    <2>13. CASE Release(q)  BY <2>13 DEF Release
    <2>14. CASE ReadForOverride(q)  BY <2>14 DEF ReadForOverride
    <2>15. CASE CheckOptions(q)  BY <2>15 DEF CheckOptions
    <2>16. CASE SwapHorse(q)  BY <2>16 DEF SwapHorse
    <2> QED
      BY <1>1, <2>1, <2>2, <2>3, <2>4, <2>5, <2>6, <2>7, <2>8, <2>9, <2>10, <2>11,
         <2>12, <2>13, <2>14, <2>15, <2>16 DEF Step
  <1>2. ASSUME NEW q \in Requests, Die(q) PROVE LockInv'
    BY <1>2, Unlocking DEF Die
  <1>3. ASSUME NEW e \in Events, CreateEvent(e) PROVE LockInv'  BY <1>3 DEF CreateEvent
  <1>4. ASSUME NEW e \in Events, UpdateEvent(e) PROVE LockInv'  BY <1>4 DEF UpdateEvent, Exists
  <1>5. ASSUME NEW e \in Events, DeleteEvent(e) PROVE LockInv'  BY <1>5 DEF DeleteEvent
  <1>6. ASSUME NEW e \in Events, EventStarts(e) PROVE LockInv'  BY <1>6 DEF EventStarts
  <1>7. CASE OtherInvoice  BY <1>7 DEF OtherInvoice
  <1>8. CASE UNCHANGED vars  BY <1>8 DEF vars
  <1> QED BY <1>1, <1>2, <1>3, <1>4, <1>5, <1>6, <1>7, <1>8 DEF Next

-----------------------------------------------------------------------------
(* The count *)

\* Riders leave or stay, one request at most is between the count and the commit.
LEMMA CountStep == BookingInv /\ [Next]_vars => LockedCountIsSafe'
  <1> SUFFICES ASSUME BookingInv, [Next]_vars, NEW o \in Requests, (pc[o] = "commit")'
               PROVE  (/\ lock[EventOf(o)] = o
                       /\ free[o] <= capacity[EventOf(o)] - Cardinality(Confirmed(EventOf(o))))'
    BY DEF LockedCountIsSafe
  <1> DEFINE e == EventOf(o)
  <1> USE DEF BookingInv, rows, bookings, bills, locals, Goto
  <1>1. /\ e \in Events /\ target[o] \in Registrations
        /\ capacity[e] \in Int /\ free[o] \in Int
        /\ Cardinality(Confirmed(e)) \in Nat
    BY TargetIsPair, ConfirmedIsFinite DEF TypeOK
  \* What every step but the count of o itself must respect.
  <1>2. ASSUME pc[o] = "commit", e' = e, lock'[e] = lock[e], capacity'[e] = capacity[e],
               free'[o] = free[o], Confirmed(e)' \subseteq Confirmed(e)
        PROVE  (/\ lock[EventOf(o)] = o
                /\ free[o] <= capacity[EventOf(o)] - Cardinality(Confirmed(EventOf(o))))'
    <2>1. lock[e] = o /\ free[o] <= capacity[e] - Cardinality(Confirmed(e))
      BY <1>2 DEF LockedCountIsSafe
    <2>2. Cardinality(Confirmed(e)') <= Cardinality(Confirmed(e))
      BY <1>2, ConfirmedIsFinite, FS_Subset
    <2>3. Cardinality(Confirmed(e)') \in Nat
      BY <1>2, ConfirmedIsFinite, FS_Subset, FS_CardinalityType
    <2> QED BY <1>1, <1>2, <2>1, <2>2, <2>3
  <1>3. ASSUME pc[o] = "commit", UNCHANGED <<target, lock, capacity, free, status>>
        PROVE  (/\ lock[EventOf(o)] = o
                /\ free[o] <= capacity[EventOf(o)] - Cardinality(Confirmed(EventOf(o))))'
    <2>1. e' = e /\ Confirmed(e)' = Confirmed(e)  BY <1>3 DEF EventOf, Confirmed
    <2> QED BY <1>2, <1>3, <2>1
  <1>4. ASSUME NEW q \in Requests, Step(q)
        PROVE  (/\ lock[EventOf(o)] = o
                /\ free[o] <= capacity[EventOf(o)] - Cardinality(Confirmed(EventOf(o))))'
    <2> target[q] \in Registrations /\ EventOf(q) \in Events /\ target[q][2] \in Riders
      BY TargetIsPair
    <2> pc \in [Requests -> PCs] /\ free \in [Requests -> Int] /\ target \in [Requests -> Registrations]
      BY DEF TypeOK
    <2>1. CASE CheckNotRegistered(q)  BY <2>1, <1>3 DEF CheckNotRegistered
    <2>2. CASE LockEvent(q)
      <3>1. pc[o] = "commit" /\ e' = e  BY <2>2 DEF LockEvent, EventOf
      <3>2. lock[e] = o /\ o # NoRequest  BY <3>1, EventAssumption DEF LockedCountIsSafe
      <3>3. lock'[e] = lock[e]  BY <2>2, <3>2 DEF LockEvent, TypeOK
      <3>4. Confirmed(e)' \subseteq Confirmed(e)  BY <2>2, <3>1 DEF LockEvent, Confirmed
      <3> QED BY <1>2, <2>2, <3>1, <3>3, <3>4 DEF LockEvent
    <2>3. CASE CountSeats(q)
      <3>0. e' = e /\ Confirmed(e)' = Confirmed(e) /\ capacity' = capacity
        BY <2>3 DEF CountSeats, EventOf, Confirmed
      <3>1. CASE o = q
        <4>1. phase[e] = "open" /\ pc[q] = "count"  BY <2>3, <3>1 DEF CountSeats
        <4>2. lock'[e] = q  BY <2>3, <3>1, <4>1 DEF CountSeats, LockInv
        <4>3. free'[o] = capacity[e] - Cardinality(Confirmed(e))
          BY <2>3, <3>1, <4>1 DEF CountSeats
        <4> QED BY <1>1, <3>0, <3>1, <4>2, <4>3
      <3>2. CASE o # q
        <4>1. pc[o] = "commit" /\ free'[o] = free[o]  BY <2>3, <3>2 DEF CountSeats
        <4>2. lock[e] = o  BY <4>1 DEF LockedCountIsSafe
        <4>3. lock'[e] = lock[e]  BY <2>3, <3>2, <4>2, <1>1 DEF CountSeats, Unlocked
        <4> QED BY <1>2, <3>0, <4>1, <4>3
      <3> QED BY <3>1, <3>2
    <2>4. CASE CommitRegistration(q)
      <3>1. o # q /\ pc[o] = "commit" /\ e' = e
        BY <2>4 DEF CommitRegistration, EventOf
      <3>2. lock[e] = o /\ lock[EventOf(q)] = q  BY <2>4, <3>1 DEF CommitRegistration, LockedCountIsSafe
      <3>3. lock'[e] = lock[e]  BY <2>4, <3>1, <3>2, <1>1 DEF CommitRegistration, Unlocked
      <3>4. e # EventOf(q)  BY <3>1, <3>2
      <3>5. \A r \in Riders : <<e, r>> # target[q]  BY <3>4 DEF EventOf
      <3>6. ASSUME NEW r \in Riders PROVE status'[<<e, r>>] = status[<<e, r>>]
        <4>1. <<e, r>> \in Registrations /\ <<e, r>> # target[q]  BY <1>1, <3>5 DEF Registrations
        <4>2. status' = status \/ status' = [status EXCEPT ![target[q]] = "confirmed"]
          BY <2>4 DEF CommitRegistration
        <4> QED BY <4>1, <4>2 DEF TypeOK
      <3>7. Confirmed(e)' \subseteq Confirmed(e)  BY <3>1, <3>6 DEF Confirmed
      <3> QED BY <1>2, <2>4, <3>1, <3>3, <3>7 DEF CommitRegistration
    <2>5. CASE FindInvoice(q)  BY <2>5, <1>3 DEF FindInvoice
    <2>6. CASE DrawNumber(q)  BY <2>6, <1>3 DEF DrawNumber
    <2>7. CASE CreateInvoice(q)  BY <2>7, <1>3 DEF CreateInvoice
    <2>8. CASE Notify(q)  BY <2>8, <1>3 DEF Notify
    <2>9. CASE AskAssignment(q)  BY <2>9, <1>3 DEF AskAssignment
    <2>10. CASE ReadAndPlan(q)  BY <2>10, <1>3 DEF ReadAndPlan
    <2>11. CASE ApplyPlan(q)  BY <2>11, <1>3 DEF ApplyPlan
    <2>12. CASE ReadForCancel(q)  BY <2>12, <1>3 DEF ReadForCancel
    <2>13. CASE Release(q)
      <3>1. pc[o] = "commit" /\ e' = e  BY <2>13 DEF Release, EventOf
      <3>2. Confirmed(e)' \subseteq Confirmed(e)
        BY <2>13, <3>1 DEF Release, Confirmed, TypeOK
      <3> QED BY <1>2, <2>13, <3>1, <3>2 DEF Release
    <2>14. CASE ReadForOverride(q)  BY <2>14, <1>3 DEF ReadForOverride
    <2>15. CASE CheckOptions(q)  BY <2>15, <1>3 DEF CheckOptions
    <2>16. CASE SwapHorse(q)  BY <2>16, <1>3 DEF SwapHorse
    <2> QED
      BY <1>4, <2>1, <2>2, <2>3, <2>4, <2>5, <2>6, <2>7, <2>8, <2>9, <2>10, <2>11,
         <2>12, <2>13, <2>14, <2>15, <2>16 DEF Step
  <1>5. ASSUME NEW q \in Requests, Die(q)
        PROVE  (/\ lock[EventOf(o)] = o
                /\ free[o] <= capacity[EventOf(o)] - Cardinality(Confirmed(EventOf(o))))'
    <2>1. o # q /\ pc[o] = "commit" /\ e' = e  BY <1>5 DEF Die, EventOf, TypeOK
    <2>2. lock[e] = o  BY <2>1 DEF LockedCountIsSafe
    <2>3. lock'[e] = lock[e]  BY <1>5, <2>1, <2>2, <1>1 DEF Die, Unlocked
    <2>4. Confirmed(e)' \subseteq Confirmed(e)  BY <1>5, <2>1 DEF Die, Confirmed
    <2> QED BY <1>2, <1>5, <2>1, <2>3, <2>4 DEF Die
  <1>6. ASSUME NEW x \in Events, CreateEvent(x) \/ UpdateEvent(x)
        PROVE  (/\ lock[EventOf(o)] = o
                /\ free[o] <= capacity[EventOf(o)] - Cardinality(Confirmed(EventOf(o))))'
    <2>1. pc[o] = "commit" /\ e' = e /\ Confirmed(e)' = Confirmed(e)
      BY <1>6 DEF CreateEvent, UpdateEvent, EventOf, Confirmed
    <2>2. lock[e] = o /\ phase[e] # "unborn"  BY <2>1 DEF LockedCountIsSafe, LockInv
    <2>3. x # e  BY <1>6, <2>2, EventAssumption DEF CreateEvent, UpdateEvent
    <2>4. capacity'[e] = capacity[e]  BY <1>1, <1>6, <2>3 DEF CreateEvent, UpdateEvent, TypeOK
    <2> QED BY <1>2, <1>6, <2>1, <2>4 DEF CreateEvent, UpdateEvent
  <1>7. ASSUME NEW x \in Events, DeleteEvent(x) \/ EventStarts(x)
        PROVE  (/\ lock[EventOf(o)] = o
                /\ free[o] <= capacity[EventOf(o)] - Cardinality(Confirmed(EventOf(o))))'
    BY <1>3, <1>7 DEF DeleteEvent, EventStarts
  <1>8. CASE OtherInvoice  BY <1>3, <1>8 DEF OtherInvoice
  <1>9. CASE UNCHANGED vars  BY <1>3, <1>9 DEF vars
  <1> QED BY <1>4, <1>5, <1>6, <1>7, <1>8, <1>9 DEF Next

-----------------------------------------------------------------------------
(* The theorems *)

LEMMA BookingInit == Init => BookingInv
  <1> SUFFICES ASSUME Init PROVE BookingInv  OBVIOUS
  <1>1. \A q \in Requests : pc[q] = "start"  BY DEF Init
  <1>2. \A e \in Events : lock[e] = NoRequest  BY DEF Init
  <1> QED BY <1>1, <1>2, TypeInit DEF BookingInv, LockInv, LockedCountIsSafe

LEMMA BookingStep == BookingInv /\ [Next]_vars => BookingInv'
  BY TypeStep, LockStep, CountStep DEF BookingInv

\* Whatever the numbers of events, riders, horses and requests, every column and every
\* local of a request keeps its type.
THEOREM TypeCorrect == Spec => []TypeOK
  <1>1. TypeOK /\ [Next]_vars => TypeOK'  BY TypeStep
  <1> QED BY <1>1, TypeInit, PTL DEF Spec

LEMMA BookingInvariant == Spec => []BookingInv
  BY BookingInit, BookingStep, PTL DEF Spec

\* registerRider: from the count to the commit the event is locked by the request, and the
\* free places it read are still there.
THEOREM CountIsSafe == Spec => []LockedCountIsSafe
  <1>1. BookingInv => LockedCountIsSafe  BY DEF BookingInv
  <1> QED BY <1>1, BookingInvariant, PTL

-----------------------------------------------------------------------------
(* registerRider implements SeatBooking *)

\* A commit takes a free place, or none.
LEMMA CommitBooks ==
    ASSUME BookingInv, NEW q \in Requests, CommitRegistration(q)
    PROVE  [Seats!Next]_<<[e \in Events |-> Confirmed(e)], capacity>>
  <1> DEFINE e == EventOf(q)
             r == target[q][2]
             seated == [x \in Events |-> Confirmed(x)]
  <1>1. /\ e \in Events /\ r \in Riders /\ target[q] = <<e, r>> /\ target[q] \in Registrations
        /\ capacity[e] \in Int /\ free[q] \in Int /\ Cardinality(Confirmed(e)) \in Nat
    BY TargetIsPair, ConfirmedIsFinite DEF BookingInv, TypeOK
  <1>2. capacity' = capacity  BY DEF CommitRegistration, rows
  <1>3. CASE status[target[q]] = "confirmed" \/ free[q] <= 0
    <2>1. status' = status  BY <1>3 DEF CommitRegistration
    <2>2. \A x : Confirmed(x)' = Confirmed(x)  BY <2>1 DEF Confirmed
    <2> QED BY <1>2, <2>2
  <1>4. CASE status[target[q]] # "confirmed" /\ free[q] > 0
    <2>1. status' = [status EXCEPT ![<<e, r>>] = "confirmed"]
      BY <1>1, <1>4 DEF CommitRegistration
    <2>2. ASSUME NEW x \in Events, NEW y \in Riders
          PROVE  status'[<<x, y>>] = IF x = e /\ y = r THEN "confirmed" ELSE status[<<x, y>>]
      <3>1. <<x, y>> \in Registrations  BY DEF Registrations
      <3> QED BY <2>1, <3>1 DEF BookingInv, TypeOK
    <2>3. r \notin Confirmed(e)  BY <1>1, <1>4 DEF Confirmed
    <2>4. Cardinality(Confirmed(e)) < capacity[e]
      <3>1. free[q] <= capacity[e] - Cardinality(Confirmed(e))
        BY DEF BookingInv, LockedCountIsSafe, CommitRegistration
      <3> QED BY <1>1, <1>4, <3>1
    <2>5. \A x \in Events : Confirmed(x)' = IF x = e THEN Confirmed(x) \cup {r} ELSE Confirmed(x)
      BY <1>1, <2>2 DEF Confirmed
    <2>6. seated' = [seated EXCEPT ![e] = @ \cup {r}]  BY <2>5, <1>1
    <2>7. Seats!Cardinality(Confirmed(e)) = Cardinality(Confirmed(e))
      BY DEF Seats!Cardinality, Cardinality
    <2>8. Seats!Book(e, r)  BY <1>1, <1>2, <2>3, <2>4, <2>6, <2>7 DEF Seats!Book
    <2> QED BY <1>1, <2>8 DEF Seats!Next
  <1> QED BY <1>1, <1>3, <1>4

\* A cancellation gives at most one place back.
LEMMA ReleaseLeaves ==
    ASSUME BookingInv, NEW q \in Requests, Release(q)
    PROVE  [Seats!Next]_<<[e \in Events |-> Confirmed(e)], capacity>>
  <1> DEFINE e == EventOf(q)
             r == target[q][2]
             seated == [x \in Events |-> Confirmed(x)]
  <1>1. e \in Events /\ r \in Riders /\ target[q] = <<e, r>>
    BY TargetIsPair DEF BookingInv
  <1>2. ASSUME NEW x \in Events, NEW y \in Riders
        PROVE  status'[<<x, y>>] = IF x = e /\ y = r THEN "cancelled" ELSE status[<<x, y>>]
    <2>1. <<x, y>> \in Registrations  BY DEF Registrations
    <2> QED BY <1>1, <2>1 DEF Release, BookingInv, TypeOK
  <1>3. \A x \in Events : Confirmed(x)' = IF x = e THEN Confirmed(x) \ {r} ELSE Confirmed(x)
    BY <1>1, <1>2 DEF Confirmed
  <1>4. seated' = [seated EXCEPT ![e] = @ \ {r}]  BY <1>1, <1>3
  <1>5. Seats!Leave(e, r)  BY <1>4 DEF Seats!Leave, Release, rows
  <1> QED BY <1>1, <1>5 DEF Seats!Next

\* Creating or editing an event resizes it.
LEMMA EditResizes ==
    ASSUME BookingInv, NEW e \in Events, CreateEvent(e) \/ UpdateEvent(e)
    PROVE  [Seats!Next]_<<[x \in Events |-> Confirmed(x)], capacity>>
  <1>1. \A x : Confirmed(x)' = Confirmed(x)
    BY DEF CreateEvent, UpdateEvent, bookings, Confirmed
  <1>2. PICK c \in 1..MaxCapacity : capacity' = [capacity EXCEPT ![e] = c]
    BY DEF CreateEvent, UpdateEvent
  <1>3. capacity'[e] = c /\ c \in Nat  BY <1>2, EventAssumption DEF BookingInv, TypeOK
  <1>4. Seats!Resize(e)  BY <1>1, <1>2, <1>3 DEF Seats!Resize
  <1> QED BY <1>4 DEF Seats!Next

\* Every other step leaves the places as they are.
LEMMA SeatsStep ==
    ASSUME BookingInv, [Next]_vars
    PROVE  [Seats!Next]_<<[e \in Events |-> Confirmed(e)], capacity>>
  <1> USE DEF rows, bookings, bills, locals
  <1>1. ASSUME UNCHANGED <<status, capacity>>
        PROVE  [Seats!Next]_<<[e \in Events |-> Confirmed(e)], capacity>>
    <2>1. \A x : Confirmed(x)' = Confirmed(x)  BY <1>1 DEF Confirmed
    <2> QED BY <1>1, <2>1
  <1>2. ASSUME NEW q \in Requests, Step(q)
        PROVE  [Seats!Next]_<<[e \in Events |-> Confirmed(e)], capacity>>
    <2>1. CASE CommitRegistration(q)  BY <2>1, CommitBooks
    <2>2. CASE Release(q)  BY <2>2, ReleaseLeaves
    <2>3. CASE CheckNotRegistered(q) \/ LockEvent(q) \/ CountSeats(q) \/ FindInvoice(q)
      BY <1>1, <2>3 DEF CheckNotRegistered, LockEvent, CountSeats, FindInvoice
    <2>4. CASE DrawNumber(q) \/ CreateInvoice(q) \/ Notify(q) \/ AskAssignment(q)
      BY <1>1, <2>4 DEF DrawNumber, CreateInvoice, Notify, AskAssignment
    <2>5. CASE ReadAndPlan(q) \/ ApplyPlan(q) \/ ReadForCancel(q)
      BY <1>1, <2>5 DEF ReadAndPlan, ApplyPlan, ReadForCancel
    <2>6. CASE ReadForOverride(q) \/ CheckOptions(q) \/ SwapHorse(q)
      BY <1>1, <2>6 DEF ReadForOverride, CheckOptions, SwapHorse
    <2> QED BY <1>2, <2>1, <2>2, <2>3, <2>4, <2>5, <2>6 DEF Step
  <1>3. ASSUME NEW q \in Requests, Die(q)
        PROVE  [Seats!Next]_<<[e \in Events |-> Confirmed(e)], capacity>>
    BY <1>1, <1>3 DEF Die
  <1>4. ASSUME NEW e \in Events, CreateEvent(e) \/ UpdateEvent(e)
        PROVE  [Seats!Next]_<<[x \in Events |-> Confirmed(x)], capacity>>
    BY <1>4, EditResizes
  <1>5. ASSUME NEW e \in Events, DeleteEvent(e) \/ EventStarts(e)
        PROVE  [Seats!Next]_<<[x \in Events |-> Confirmed(x)], capacity>>
    BY <1>1, <1>5 DEF DeleteEvent, EventStarts
  <1>6. CASE OtherInvoice  BY <1>1, <1>6 DEF OtherInvoice
  <1>7. CASE UNCHANGED vars  BY <1>1, <1>7 DEF vars
  <1> QED BY <1>2, <1>3, <1>4, <1>5, <1>6, <1>7 DEF Next

LEMMA SeatsInit == Init => Seats!Init
  <1> SUFFICES ASSUME Init PROVE Seats!Init  OBVIOUS
  <1>1. ASSUME NEW e \in Events PROVE Confirmed(e) = {}
    <2>1. \A r \in Riders : <<e, r>> \in Registrations  BY DEF Registrations
    <2> QED BY <2>1 DEF Init, Confirmed
  <1>2. capacity \in [Events -> Nat]  BY DEF Init
  <1> QED BY <1>1, <1>2 DEF Seats!Init

\* No interleaving of registrations, cancellations, edits and failures seats a rider in an
\* event that is full: every behaviour of the services is one of SeatBooking.
THEOREM Refinement == Spec => BooksOnlyFreeSeats
  <1>1. BookingInv /\ [Next]_vars => [Seats!Next]_<<[e \in Events |-> Confirmed(e)], capacity>>
    BY SeatsStep
  <1> QED BY <1>1, SeatsInit, BookingInvariant, PTL DEF Spec, BooksOnlyFreeSeats, Seats!Spec

-----------------------------------------------------------------------------
(* Who is billed *)

\* A request that looks for an invoice, draws a number or creates the invoice has registered
\* the rider, and a registration is never forgotten.
BillInv ==
    /\ TypeOK
    /\ \A q \in Requests : pc[q] \in {"find", "number", "create"} => status[target[q]] # "none"
    /\ BilledOnlyIfRegistered

LEMMA BillStep == BillInv /\ [Next]_vars => BillInv'
  <1> SUFFICES ASSUME BillInv, [Next]_vars PROVE BillInv'  OBVIOUS
  <1>1. TypeOK'  BY TypeStep DEF BillInv
  \* A step that forgets no registration, bills nobody and brings nobody to the invoice.
  <1>2. ASSUME \A x \in Registrations : status[x] # "none" => status'[x] # "none",
               UNCHANGED <<invoiced, target>>,
               \A q \in Requests : pc'[q] \in {"find", "number", "create"} =>
                   pc[q] \in {"find", "number", "create"} \/ status'[target[q]] # "none"
        PROVE  BillInv'
    BY <1>1, <1>2 DEF BillInv, BilledOnlyIfRegistered, TypeOK
  <1>3. ASSUME NEW q \in Requests, Step(q) PROVE BillInv'
    <2> USE <1>3 DEF BillInv, TypeOK, Goto, rows, bookings, bills, locals
    <2>1. CASE CheckNotRegistered(q)  BY <1>2, <2>1 DEF CheckNotRegistered
    <2>2. CASE LockEvent(q)  BY <1>2, <2>2 DEF LockEvent
    <2>3. CASE CountSeats(q)  BY <1>2, <2>3 DEF CountSeats
    <2>4. CASE CommitRegistration(q)  BY <1>2, <2>4 DEF CommitRegistration
    <2>5. CASE FindInvoice(q)  BY <1>2, <2>5 DEF FindInvoice
    <2>6. CASE DrawNumber(q)  BY <1>2, <2>6 DEF DrawNumber
    <2>7. CASE CreateInvoice(q)
      <3>1. \A x \in Registrations : invoiced'[x] # 0 => invoiced[x] # 0 \/ x = target[q]
        BY <2>7 DEF CreateInvoice
      <3>2. status[target[q]] # "none"  BY <2>7 DEF CreateInvoice
      <3>3. BilledOnlyIfRegistered'
        BY <2>7, <3>1, <3>2 DEF CreateInvoice, BilledOnlyIfRegistered
      <3> QED BY <1>1, <2>7, <3>3 DEF CreateInvoice
    <2>8. CASE Notify(q)  BY <1>2, <2>8 DEF Notify
    <2>9. CASE AskAssignment(q)  BY <1>2, <2>9 DEF AskAssignment
    <2>10. CASE ReadAndPlan(q)  BY <1>2, <2>10 DEF ReadAndPlan
    <2>11. CASE ApplyPlan(q)  BY <1>2, <2>11 DEF ApplyPlan
    <2>12. CASE ReadForCancel(q)  BY <1>2, <2>12 DEF ReadForCancel
    <2>13. CASE Release(q)  BY <1>2, <2>13 DEF Release
    <2>14. CASE ReadForOverride(q)  BY <1>2, <2>14 DEF ReadForOverride
    <2>15. CASE CheckOptions(q)  BY <1>2, <2>15 DEF CheckOptions
    <2>16. CASE SwapHorse(q)  BY <1>2, <2>16 DEF SwapHorse
    <2> QED
      BY <2>1, <2>2, <2>3, <2>4, <2>5, <2>6, <2>7, <2>8, <2>9, <2>10, <2>11,
         <2>12, <2>13, <2>14, <2>15, <2>16 DEF Step
  <1>4. ASSUME NEW q \in Requests, Die(q) PROVE BillInv'
    BY <1>2, <1>4 DEF Die, Goto, BillInv, TypeOK, bookings, bills, locals
  <1>5. ASSUME NEW e \in Events,
               CreateEvent(e) \/ UpdateEvent(e) \/ DeleteEvent(e) \/ EventStarts(e)
        PROVE  BillInv'
    BY <1>2, <1>5 DEF CreateEvent, UpdateEvent, DeleteEvent, EventStarts, bookings, bills, locals
  <1>6. CASE OtherInvoice  BY <1>2, <1>6 DEF OtherInvoice, bookings, locals
  <1>7. CASE UNCHANGED vars  BY <1>2, <1>7 DEF vars
  <1> QED BY <1>3, <1>4, <1>5, <1>6, <1>7 DEF Next

\* Whatever overtakes the registration between its commit and its invoice, nobody is billed
\* for an event that refused them.
THEOREM BilledRegistered == Spec => []BilledOnlyIfRegistered
  <1>1. Init => BillInv  BY TypeInit DEF Init, BillInv, BilledOnlyIfRegistered
  <1>2. BillInv => BilledOnlyIfRegistered  BY DEF BillInv
  <1> QED BY <1>1, <1>2, BillStep, PTL DEF Spec

-----------------------------------------------------------------------------
(* One invoice *)

\* createSentInvoiceForEventRegistration: an invoice is inserted only for a registration
\* without one; whatever is cancelled, edited or lost meanwhile, it is never replaced.
THEOREM BilledOnce == Spec => NeverBilledTwice
  <1> DEFINE Kept == \A x \in Registrations : invoiced[x] # 0 => invoiced'[x] = invoiced[x]
  <1>1. TypeOK /\ [Next]_vars => [Kept]_vars
    <2> SUFFICES ASSUME TypeOK, Next PROVE Kept  OBVIOUS
    <2> USE DEF bills, bookings, rows, locals
    <2>1. ASSUME NEW q \in Requests, CreateInvoice(q) PROVE Kept
      BY <2>1, TargetIsPair DEF CreateInvoice, TypeOK
    <2>2. ASSUME NEW q \in Requests, Step(q), ~CreateInvoice(q) PROVE Kept
      BY <2>2 DEF Step, CheckNotRegistered, LockEvent, CountSeats, CommitRegistration,
         FindInvoice, DrawNumber, Notify, AskAssignment, ReadAndPlan, ApplyPlan,
         ReadForCancel, Release, ReadForOverride, CheckOptions, SwapHorse
    <2>3. ASSUME NEW q \in Requests, Die(q) PROVE Kept  BY <2>3 DEF Die
    <2>4. ASSUME NEW e \in Events,
                 CreateEvent(e) \/ UpdateEvent(e) \/ DeleteEvent(e) \/ EventStarts(e)
          PROVE  Kept
      BY <2>4 DEF CreateEvent, UpdateEvent, DeleteEvent, EventStarts
    <2>5. CASE OtherInvoice  BY <2>5 DEF OtherInvoice
    <2> QED BY <2>1, <2>2, <2>3, <2>4, <2>5 DEF Next
  <1> QED BY <1>1, TypeCorrect, PTL DEF Spec, NeverBilledTwice
=============================================================================
