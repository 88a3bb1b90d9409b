----------------------------- MODULE MCLiveness ------------------------------
(***************************************************************************)
(* An instance for TLC of what must happen in the end: the payments and    *)
(* the stages, under the fairness their modules justify.  A behaviour runs *)
(* one of the two.                                                         *)
(***************************************************************************)
EXTENDS InvoicePayment, FiniteSets, TLC

CONSTANTS i1, q1, q2, s1, e1, r1, r2, h1, none

VARIABLES focus, phase, capacity, hours, registration, mount, load, invoiced, numbers, lock,
          stagePc, target, free, drawn, held, span, wanted, plan

E == INSTANCE EventRegistration WITH
         Events <- {e1}, Riders <- {r1, r2}, Horses <- {h1}, PricedEvents <- {e1},
         Suits <- {r1, r2} \X {h1}, MaxCapacity <- 1, Durations <- {1}, MaxLoad <- 1,
         MaxOther <- 1, NoHorse <- none, NoRequest <- none,
         status <- registration, pc <- stagePc

stageVars == <<phase, capacity, hours, registration, mount, load, invoiced, numbers, lock,
               stagePc, target, free, drawn, held, span, wanted, plan>>

(* The module in focus runs; the variables of the other keep their first values. *)
LivenessInit ==
    /\ focus \in {"registrations", "payments"}
    /\ Init /\ (focus = "registrations" => stripeConfigured
                                           /\ status = [i \in Invoices |-> "draft"])
    /\ E!Init /\ (focus = "payments" => target = [q \in Requests |-> <<e1, r1>>])

LivenessNext ==
    /\ UNCHANGED focus
    /\ IF focus = "payments" THEN Next ELSE UNCHANGED vars
    /\ IF focus = "registrations" THEN E!Next ELSE UNCHANGED stageVars

\* The fairness of FairSpec in InvoicePayment and in EventRegistration: in the module that
\* is not in focus no request is under way.
LivenessSpec ==
    /\ LivenessInit /\ [][LivenessNext]_<<focus, vars, stageVars>>
    /\ \A q \in Requests : WF_vars(Continue(q))
    /\ \A s \in Sessions : SF_vars(Redeliver(s))
    /\ \A q \in Requests : WF_stageVars(E!Continue(q)) /\ SF_stageVars(E!LockEvent(q))

\* The property of EventRegistration; those of InvoicePayment have their own names.
RequestsEnd == E!RequestsEnd
=============================================================================
