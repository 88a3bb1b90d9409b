------------------------- MODULE EventRegistration -------------------------
(***************************************************************************)
(* Stages and other events (services/eventService.js) with the two         *)
(* services a registration calls: the invoice of a priced event            *)
(* (billingService.createSentInvoiceForEventRegistration) and the horses   *)
(* of the event (horseAssignment.js, event half).                          *)
(*                                                                         *)
(* An element of Requests is one HTTP request.  It advances one database   *)
(* statement at a time (pc); PostgreSQL runs READ COMMITTED, so between    *)
(* two statements of one request any statement of another may run.  The    *)
(* writes of an interactive transaction become visible in its last step;   *)
(* a step that fails or a process that dies (Die) rolls it back.           *)
(* Abstracted: which horse scores best (any eligible one may be chosen),   *)
(* document and family checks (they only refuse), wording of messages.     *)
(***************************************************************************)
EXTENDS Integers, FiniteSets

CONSTANTS Events, Riders, Horses, Requests,
          PricedEvents,   \* events whose priceCents is positive
          Suits,          \* <<rider, horse>>: the horse is fit, the rider not below its minLevel
          MaxCapacity,    \* bound: capacities are 1..MaxCapacity
          Durations,      \* the durations, in hours, an event may be given
          MaxLoad,        \* maxWeeklyLoadHours of every horse
          MaxOther,       \* bound: invoices issued for something else than an event
          NoHorse,        \* horseId = null
          NoRequest       \* the row of the event is not locked

ASSUME EventAssumption ==
    /\ IsFiniteSet(Riders)
    /\ PricedEvents \subseteq Events
    /\ Suits \subseteq Riders \X Horses
    /\ MaxCapacity \in Nat /\ MaxLoad \in Nat /\ MaxOther \in Nat
    /\ Durations \subseteq Nat /\ Durations # {}
    /\ NoHorse \notin Horses
    /\ NoRequest \notin Requests

VARIABLES
    phase,      \* phase[e]: unborn, open (startAt in the future), started, deleted
    capacity,   \* capacity[e]
    hours,      \* hours[e]: endAt - startAt
    status,     \* status[<<e, r>>]: the row of event_registrations ("none": no row)
    mount,      \* mount[<<e, r>>]: its horseId
    load,       \* load[h]: weeklyLoadHours
    invoiced,   \* invoiced[<<e, r>>]: number of the invoice of that registration, 0 if none
    numbers,    \* every invoice number in the table, a unique column
    lock,       \* lock[e]: the transaction that holds SELECT ... FOR UPDATE on the event
    pc,         \* pc[q]: the next statement of request q
    target,     \* target[q]: the <<event, rider>> q is about
    free,       \* free[q]: capacity - registrations, as q read them
    drawn,      \* drawn[q]: the invoice number q computed
    held,       \* held[q]: the horse of the registration, as q read it
    span,       \* span[q]: the duration of the event, as q read it
    wanted,     \* wanted[q]: the horse an override puts the rider on
    plan        \* plan[q]: the assignments q computed, a function riders -> horses

vars == <<phase, capacity, hours, status, mount, load, invoiced, numbers, lock,
          pc, target, free, drawn, held, span, wanted, plan>>

rows     == <<phase, capacity, hours>>
bookings == <<status, mount, load>>
bills    == <<invoiced, numbers>>
locals   == <<target, free, drawn, held, span, wanted, plan>>

Registrations == Events \X Riders
NoPlan == [r \in {} |-> NoHorse]

\* Every partial assignment of horses to riders.
Assignments == UNION {[S -> Horses] : S \in SUBSET Riders}

PCs == {"start", "lock", "count", "commit", "find", "number", "create", "notify",
        "plan", "apply", "release", "options", "swap", "done"}

TypeOK ==
    /\ phase \in [Events -> {"unborn", "open", "started", "deleted"}]
    /\ capacity \in [Events -> 0..MaxCapacity]
    /\ hours \in [Events -> Nat]
    /\ status \in [Registrations -> {"none", "confirmed", "cancelled"}]
    /\ mount \in [Registrations -> Horses \cup {NoHorse}]
    /\ load \in [Horses -> Int]
    /\ invoiced \in [Registrations -> Nat]
    /\ numbers \subseteq Nat
    /\ lock \in [Events -> Requests \cup {NoRequest}]
    /\ pc \in [Requests -> PCs]
    /\ target \in [Requests -> Registrations]
    /\ free \in [Requests -> Int]
    /\ drawn \in [Requests -> Nat]
    /\ held \in [Requests -> Horses \cup {NoHorse}]
    /\ span \in [Requests -> Nat]
    /\ wanted \in [Requests -> Horses \cup {NoHorse}]
    /\ plan \in [Requests -> Assignments]

Init ==
    /\ phase = [e \in Events |-> "unborn"]
    /\ capacity = [e \in Events |-> 0]
    /\ hours = [e \in Events |-> 0]
    /\ status = [x \in Registrations |-> "none"]
    /\ mount = [x \in Registrations |-> NoHorse]
    /\ load = [h \in Horses |-> 0]
    /\ invoiced = [x \in Registrations |-> 0]
    /\ numbers = {}
    /\ lock = [e \in Events |-> NoRequest]
    /\ pc = [q \in Requests |-> "start"]
    /\ target \in [Requests -> Registrations]
    /\ free = [q \in Requests |-> 0]
    /\ drawn = [q \in Requests |-> 0]
    /\ held = [q \in Requests |-> NoHorse]
    /\ span = [q \in Requests |-> 0]
    /\ wanted = [q \in Requests |-> NoHorse]
    /\ plan = [q \in Requests |-> NoPlan]

-----------------------------------------------------------------------------
(* Helpers *)

EventOf(q) == target[q][1]

Exists(e) == phase[e] \in {"open", "started"}

\* The registrations the unique _count of the event counts: not cancelled.
Confirmed(e) == {r \in Riders : status[<<e, r>>] = "confirmed"}

Goto(q, where) == pc' = [pc EXCEPT ![q] = where]

\* The row lock goes with the transaction, committed or rolled back.
Unlocked(q) == [e \in Events |-> IF lock[e] = q THEN NoRequest ELSE lock[e]]

-----------------------------------------------------------------------------
(* registerRider *)

\* The registration is looked up before the transaction; an active one is refused.
CheckNotRegistered(q) ==
    /\ pc[q] = "start"
    /\ phase[EventOf(q)] # "unborn"
    /\ IF status[target[q]] = "confirmed" THEN Goto(q, "done") ELSE Goto(q, "lock")
    /\ UNCHANGED <<rows, bookings, bills, lock, locals>>

\* Mutant: a plain SELECT, without FOR UPDATE.
LockEventPlainSelect(q) ==
    /\ pc[q] = "lock"
    /\ Goto(q, "count")
    /\ UNCHANGED <<rows, bookings, bills, lock, locals>>

\* SELECT id FROM events WHERE id = ... FOR UPDATE: a deleted row locks nothing.
LockEvent(q) ==
    /\ pc[q] = "lock"
    /\ lock[EventOf(q)] = NoRequest
    /\ lock' = IF Exists(EventOf(q)) THEN [lock EXCEPT ![EventOf(q)] = q] ELSE lock
    /\ Goto(q, "count")
    /\ UNCHANGED <<rows, bookings, bills, locals>>

\* Mutant: a refusal returns without ending the transaction.
CountKeepsLock(q) ==
    /\ pc[q] = "count"
    /\ IF phase[EventOf(q)] = "open"
       THEN /\ free' = [free EXCEPT ![q] = capacity[EventOf(q)] - Cardinality(Confirmed(EventOf(q)))]
            /\ Goto(q, "commit")
       ELSE /\ Goto(q, "done")
            /\ UNCHANGED free
    /\ UNCHANGED <<rows, bookings, bills, lock, target, drawn, held, span, wanted, plan>>

\* The event and the count of its registrations are read under the lock.
CountSeats(q) ==
    /\ pc[q] = "count"
    /\ IF phase[EventOf(q)] = "open"
       THEN /\ free' = [free EXCEPT ![q] = capacity[EventOf(q)] - Cardinality(Confirmed(EventOf(q)))]
            /\ Goto(q, "commit")
            /\ UNCHANGED lock
       ELSE /\ Goto(q, "done")
            /\ lock' = Unlocked(q)
            /\ UNCHANGED free
    /\ UNCHANGED <<rows, bookings, bills, target, drawn, held, span, wanted, plan>>

\* Mutant: a full event is refused after the invoice instead of before.
CommitBillsRefused(q) ==
    /\ pc[q] = "commit"
    /\ status' = IF free[q] <= 0 THEN status ELSE [status EXCEPT ![target[q]] = "confirmed"]
    /\ Goto(q, "find")
    /\ lock' = Unlocked(q)
    /\ UNCHANGED <<rows, mount, load, bills, locals>>

\* The second look-up of the registration, the two refusals, the upsert, the commit.
CommitRegistration(q) ==
    /\ pc[q] = "commit"
    /\ IF status[target[q]] = "confirmed" \/ free[q] <= 0
       THEN /\ Goto(q, "done")
            /\ UNCHANGED status
       ELSE /\ status' = [status EXCEPT ![target[q]] = "confirmed"]
            /\ Goto(q, "find")
    /\ lock' = Unlocked(q)
    /\ UNCHANGED <<rows, mount, load, bills, locals>>

-----------------------------------------------------------------------------
(* createSentInvoiceForEventRegistration *)

\* Nothing to invoice, or the registration is invoiced already (it was cancelled and made again).
FindInvoice(q) ==
    /\ pc[q] = "find"
    /\ IF EventOf(q) \notin PricedEvents \/ invoiced[target[q]] # 0
       THEN Goto(q, "notify")
       ELSE Goto(q, "number")
    /\ UNCHANGED <<rows, bookings, bills, lock, locals>>

\* nextInvoiceNumber: n follows the last number of the year.
IsNextNumber(n) == n - 1 \in numbers \cup {0} /\ \A m \in numbers : m < n

DrawNumber(q) ==
    /\ pc[q] = "number"
    /\ \E m \in numbers \cup {0} :
          IsNextNumber(m + 1) /\ drawn' = [drawn EXCEPT ![q] = m + 1]
    /\ Goto(q, "create")
    /\ UNCHANGED <<rows, bookings, bills, lock, target, free, held, span, wanted, plan>>

\* Mutant: no unique index on InvoiceItem.eventRegistrationId.
CreateInvoiceNoUnique(q) ==
    /\ pc[q] = "create"
    /\ IF drawn[q] \in numbers
       THEN UNCHANGED bills
       ELSE /\ invoiced' = [invoiced EXCEPT ![target[q]] = drawn[q]]
            /\ numbers' = numbers \cup {drawn[q]}
    /\ Goto(q, "notify")
    /\ UNCHANGED <<rows, bookings, lock, locals>>

\* The insert fails (P2002) on the number or on the registration; either failure is
\* taken for "invoiced already" and the request goes on.
CreateInvoice(q) ==
    /\ pc[q] = "create"
    /\ IF drawn[q] \in numbers \/ invoiced[target[q]] # 0
       THEN UNCHANGED bills
       ELSE /\ invoiced' = [invoiced EXCEPT ![target[q]] = drawn[q]]
            /\ numbers' = numbers \cup {drawn[q]}
    /\ Goto(q, "notify")
    /\ UNCHANGED <<rows, bookings, lock, locals>>

\* dispatchNotification, then assignHorsesForEvent.
Notify(q) ==
    /\ pc[q] = "notify"
    /\ Goto(q, "plan")
    /\ UNCHANGED <<rows, bookings, bills, lock, locals>>

-----------------------------------------------------------------------------
(* assignHorsesForEvent *)

\* Mutant: the horses already ridden in the event are forgotten.
TakenForgotten(e) == {}

\* The horses ridden in the event.
Taken(e) == {mount[<<e, r>>] : r \in Confirmed(e)} \ {NoHorse}

Eligible(e) == {h \in Horses : load[h] < MaxLoad} \ Taken(e)

\* What simulateHorseAssignments may return: each rider without a horse is served in
\* turn with a suitable eligible horse nobody took, and stays without only if none is left.
Plans(e) ==
    LET waiting == {r \in Confirmed(e) : mount[<<e, r>>] = NoHorse}
    IN  {p \in UNION {[S -> Eligible(e)] : S \in SUBSET waiting} :
            /\ \A r \in DOMAIN p : <<r, p[r]>> \in Suits
            /\ \A r1, r2 \in DOMAIN p : p[r1] = p[r2] => r1 = r2
            /\ \A r \in waiting \ DOMAIN p, h \in Eligible(e) :
                  <<r, h>> \in Suits => \E r2 \in DOMAIN p : p[r2] = h}

\* The admin's button runs the same assignment.
AskAssignment(q) ==
    /\ pc[q] = "start"
    /\ Exists(EventOf(q))
    /\ Goto(q, "plan")
    /\ UNCHANGED <<rows, bookings, bills, lock, locals>>

ReadAndPlan(q) ==
    /\ pc[q] = "plan"
    /\ IF Exists(EventOf(q))
       THEN /\ \E p \in Plans(EventOf(q)) : plan' = [plan EXCEPT ![q] = p]
            /\ span' = [span EXCEPT ![q] = hours[EventOf(q)]]
            /\ Goto(q, "apply")
       ELSE /\ Goto(q, "done")
            /\ UNCHANGED <<plan, span>>
    /\ UNCHANGED <<rows, bookings, bills, lock, target, free, drawn, held, wanted>>

\* One update of the registration and one increment of the horse per assignment, one commit.
ApplyPlan(q) ==
    LET e == EventOf(q)
        Chosen == {plan[q][r] : r \in DOMAIN plan[q]}
    IN  /\ pc[q] = "apply"
        /\ mount' = [x \in Registrations |-> IF x[1] = e /\ x[2] \in DOMAIN plan[q]
                                             THEN plan[q][x[2]] ELSE mount[x]]
        /\ load' = [h \in Horses |-> IF h \in Chosen THEN load[h] + span[q] ELSE load[h]]
        /\ Goto(q, "done")
        /\ UNCHANGED <<rows, status, bills, lock, locals>>

-----------------------------------------------------------------------------
(* cancelRegistration *)

\* The registration and the dates of its event are read before the transaction.
ReadForCancel(q) ==
    /\ pc[q] = "start"
    /\ status[target[q]] # "none"
    /\ IF status[target[q]] = "cancelled"
       THEN /\ Goto(q, "done")
            /\ UNCHANGED <<held, span>>
       ELSE /\ held' = [held EXCEPT ![q] = mount[target[q]]]
            /\ span' = [span EXCEPT ![q] = hours[EventOf(q)]]
            /\ Goto(q, "release")
    /\ UNCHANGED <<rows, bookings, bills, lock, target, free, drawn, wanted, plan>>

\* Mutant: the cancellation leaves the load of the horse as it was.
ReleaseKeepsLoad(q) ==
    /\ pc[q] = "release"
    /\ status' = [status EXCEPT ![target[q]] = "cancelled"]
    /\ mount' = [mount EXCEPT ![target[q]] = NoHorse]
    /\ Goto(q, "done")
    /\ UNCHANGED <<rows, load, bills, lock, locals>>

\* The transaction trusts what was read: it decrements the load and cancels the row.
Release(q) ==
    /\ pc[q] = "release"
    /\ load' = [h \in Horses |-> IF h = held[q] THEN load[h] - span[q] ELSE load[h]]
    /\ status' = [status EXCEPT ![target[q]] = "cancelled"]
    /\ mount' = [mount EXCEPT ![target[q]] = NoHorse]
    /\ Goto(q, "done")
    /\ UNCHANGED <<rows, bills, lock, locals>>

-----------------------------------------------------------------------------
(* overrideEventAssignedHorse *)

\* The transaction reads the registrations of the event.
ReadForOverride(q) ==
    /\ pc[q] = "start"
    /\ status[target[q]] = "confirmed"
    /\ held' = [held EXCEPT ![q] = mount[target[q]]]
    /\ span' = [span EXCEPT ![q] = hours[EventOf(q)]]
    /\ Goto(q, "options")
    /\ UNCHANGED <<rows, bookings, bills, lock, target, free, drawn, wanted, plan>>

\* listEventHorseOverrideOptions reads everything again, outside the transaction: the
\* horse asked for must be eligible and not ridden by another rider of the event.
CheckOptions(q) ==
    LET e == EventOf(q)
        others == {mount[<<e, r>>] : r \in Confirmed(e) \ {target[q][2]}}
    IN  /\ pc[q] = "options"
        /\ \/ /\ status[target[q]] = "confirmed"
              /\ \E h \in {k \in Horses : load[k] < MaxLoad} \ others :
                    wanted' = [wanted EXCEPT ![q] = h]
              /\ Goto(q, "swap")
           \/ /\ Goto(q, "done")
              /\ UNCHANGED wanted
        /\ UNCHANGED <<rows, bookings, bills, lock, target, free, drawn, held, span, plan>>

SwapHorse(q) ==
    /\ pc[q] = "swap"
    /\ load' = [h \in Horses |-> IF held[q] = wanted[q] THEN load[h]
                                 ELSE IF h = held[q] THEN load[h] - span[q]
                                 ELSE IF h = wanted[q] THEN load[h] + span[q]
                                 ELSE load[h]]
    /\ mount' = [mount EXCEPT ![target[q]] = wanted[q]]
    /\ Goto(q, "done")
    /\ UNCHANGED <<rows, status, bills, lock, locals>>

-----------------------------------------------------------------------------
(* The admin's edits, the clock, other invoices, failures *)

CreateEvent(e) ==
    /\ phase[e] = "unborn"
    /\ \E p \in {"open", "started"}, c \in 1..MaxCapacity, d \in Durations :
          /\ phase' = [phase EXCEPT ![e] = p]
          /\ capacity' = [capacity EXCEPT ![e] = c]
          /\ hours' = [hours EXCEPT ![e] = d]
    /\ UNCHANGED <<bookings, bills, lock, pc, locals>>

\* An UPDATE waits for the row lock.  Dates and capacity may take any valid value.
UpdateEvent(e) ==
    /\ Exists(e)
    /\ lock[e] = NoRequest
    /\ \E p \in {"open", "started"}, c \in 1..MaxCapacity, d \in Durations :
          /\ phase' = [phase EXCEPT ![e] = p]
          /\ capacity' = [capacity EXCEPT ![e] = c]
          /\ hours' = [hours EXCEPT ![e] = d]
    /\ UNCHANGED <<bookings, bills, lock, pc, locals>>

\* The foreign key of event_registrations forbids it once a row exists, even a cancelled one.
DeleteEvent(e) ==
    /\ Exists(e)
    /\ lock[e] = NoRequest
    /\ \A r \in Riders : status[<<e, r>>] = "none"
    /\ phase' = [phase EXCEPT ![e] = "deleted"]
    /\ UNCHANGED <<capacity, hours, bookings, bills, lock, pc, locals>>

\* startAt passes.
EventStarts(e) ==
    /\ phase[e] = "open"
    /\ phase' = [phase EXCEPT ![e] = "started"]
    /\ UNCHANGED <<capacity, hours, bookings, bills, lock, pc, locals>>

\* createInvoice for a subscription or by hand draws from the same numbers.
OtherInvoice ==
    /\ Cardinality(numbers) < Cardinality({x \in Registrations : invoiced[x] # 0}) + MaxOther
    /\ \E m \in numbers \cup {0} :
          IsNextNumber(m + 1) /\ numbers' = numbers \cup {m + 1}
    /\ UNCHANGED <<rows, bookings, invoiced, lock, pc, locals>>

\* An exception or the death of the process: the open transaction is rolled back.
Die(q) ==
    /\ pc[q] \notin {"start", "done"}
    /\ Goto(q, "done")
    /\ lock' = Unlocked(q)
    /\ UNCHANGED <<rows, bookings, bills, locals>>

Step(q) == \/ CheckNotRegistered(q) \/ LockEvent(q) \/ CountSeats(q) \/ CommitRegistration(q)
           \/ FindInvoice(q) \/ DrawNumber(q) \/ CreateInvoice(q) \/ Notify(q)
           \/ AskAssignment(q) \/ ReadAndPlan(q) \/ ApplyPlan(q)
           \/ ReadForCancel(q) \/ Release(q)
           \/ ReadForOverride(q) \/ CheckOptions(q) \/ SwapHorse(q)

Next == \/ \E q \in Requests : Step(q) \/ Die(q)
        \/ \E e \in Events : CreateEvent(e) \/ UpdateEvent(e) \/ DeleteEvent(e) \/ EventStarts(e)
        \/ OtherInvoice

Spec == Init /\ [][Next]_vars

\* The Node process keeps running the requests it accepted; PostgreSQL serves the
\* waiters of a row lock in order, so a waiter that can take the lock again and
\* again takes it.
Continue(q) == pc[q] # "start" /\ Step(q)

FairSpec == Spec /\ \A q \in Requests : /\ WF_vars(Continue(q))
                                        /\ SF_vars(LockEvent(q))

-----------------------------------------------------------------------------
(* Properties *)

\* The places of an event, as SeatBooking sees them.
Seats == INSTANCE SeatBooking WITH Sessions <- Events,
                                   seats <- [e \in Events |-> Confirmed(e)]

\* No interleaving of registrations, cancellations and edits seats a rider in a full
\* event: registerRider books the places SeatBooking promises.
BooksOnlyFreeSeats == Seats!Spec

\* Between the count and the commit of registerRider the event stays locked by that
\* request, so the number of free places it read is never more than the real one,
\* whatever cancellations and edits run meanwhile.
LockedCountIsSafe ==
    \A q \in Requests :
        pc[q] = "commit" =>
            /\ lock[EventOf(q)] = q
            /\ free[q] <= capacity[EventOf(q)] - Cardinality(Confirmed(EventOf(q)))

\* createSentInvoiceForEventRegistration never bills a rider who was refused the event.
BilledOnlyIfRegistered ==
    \A x \in Registrations : invoiced[x] # 0 => status[x] # "none"

\* A registration cancelled and made again, even by overlapping requests, keeps the one
\* invoice it was given.
NeverBilledTwice ==
    [][\A x \in Registrations : invoiced[x] # 0 => invoiced'[x] = invoiced[x]]_vars

\* Two riders of an event never share a horse.
HorseRiddenOnce ==
    \A e \in Events : \A r1, r2 \in Confirmed(e) :
        mount[<<e, r1>>] = mount[<<e, r2>>] /\ mount[<<e, r1>>] # NoHorse => r1 = r2

\* backlog.md:288: what an assignment added to the weekly load of a horse, the cancellation
\* takes away, so a horse no registration holds carries no load.
LoadReturned ==
    \A h \in Horses : (\A x \in Registrations : mount[x] # h) => load[h] = 0

\* Every request the API accepts is answered: a transaction never keeps the row of an
\* event locked for ever.
RequestsEnd == \A q \in Requests : pc[q] # "start" ~> pc[q] = "done"

\* backlog.md:287: a priced event is invoiced at registration.  Stated where
\* createSentInvoiceForEventRegistration has returned without an exception.
InvoicedAtRegistration ==
    \A q \in Requests :
        pc[q] = "notify" /\ EventOf(q) \in PricedEvents => invoiced[target[q]] # 0
=============================================================================
