-------------------------------- MODULE Stages -------------------------------
(***************************************************************************)
(* The stages and the payment of invoices.  They share only the rows of    *)
(* the invoices, whose creation ends a registration and begins a payment:  *)
(* a behaviour runs one of the two, chosen by focus.                       *)
(***************************************************************************)
EXTENDS EventRegistration, FiniteSetsExt

CONSTANTS Invoices, Sessions, MaxCrashes, NoInvoice, NoSession  \* of InvoicePayment

VARIABLES focus, stripeConfigured, invoiceStatus, current, intent, confirmed, stripe,
          subject, sent, acked, paymentPc, invoice, session, answers, crashes

I == INSTANCE InvoicePayment WITH status <- invoiceStatus, pc <- paymentPc

ASSUME StagesAssumption == I!PaymentAssumption

paymentVars == <<stripeConfigured, invoiceStatus, current, intent, confirmed, stripe,
                 subject, sent, acked, paymentPc, invoice, session, answers, crashes>>

(* The module in focus runs; the variables of the other keep their first values. *)
StagesInit ==
    /\ focus \in {"registrations", "payments"}
    /\ Init /\ (focus = "payments" =>
                   target = [q \in Requests |-> CHOOSE x \in Registrations : TRUE])
    /\ I!Init /\ (focus = "registrations" => stripeConfigured
                                             /\ invoiceStatus = [i \in Invoices |-> "draft"])

StagesNext ==
    /\ UNCHANGED focus
    /\ IF focus = "registrations" THEN Next ELSE UNCHANGED vars
    /\ IF focus = "payments" THEN I!Next ELSE UNCHANGED paymentVars

stagesVars == <<focus, vars, paymentVars>>

StagesSpec == StagesInit /\ [][StagesNext]_stagesVars

-----------------------------------------------------------------------------
(* What does not overlap, for the properties that need it.                 *)

\* What an assignment, a cancellation or an override reads and what it writes are not
\* interleaved with those of another; everything else overlaps.
HorsesAlone ==
    \A q, o \in Requests :
        q # o /\ pc'[q] \in {"apply", "release", "options", "swap"} =>
            pc'[o] \notin {"apply", "release", "options", "swap"}

\* The admin's requests run alone, and no two requests open a Checkout session at once;
\* what reports a payment overlaps as it pleases.
PaymentsAlone ==
    \A q, o \in Requests :
        q # o =>
            /\ paymentPc'[q] \in {"send", "remind"} => paymentPc'[o] = "idle"
            /\ paymentPc'[q] \in {"reuse", "create", "store"} =>
                  paymentPc'[o] \notin {"reuse", "create", "store"}

-----------------------------------------------------------------------------
(* Properties; those of EventRegistration have their own names. *)

\* backlog.md:288: the weekly load of a horse is the duration of the events it is
\* assigned to; assignHorsesForEvent adds, cancelRegistration and the override take away.
LoadMatchesMounts ==
    \A h \in Horses :
        load[h] = MapThenSumSet(LAMBDA x : hours[x[1]], {x \in Registrations : mount[x] = h})

\* A horse of a stage has one rider, and is counted.
MountsAreSound == HorseRiddenOnce /\ LoadMatchesMounts

\* paymentService.js: an invoice is confirmed once, with one open session (InvoicePayment).
CheckoutIsSound == I!CheckoutIsSound

\* billingService.js: what is paid stays paid (InvoicePayment).
PaidIsFinal == I!PaidIsFinal

\* billingService.js: invoices are settled for money, once and for good (Settlement).
PaymentsSettle == I!PaymentsSettle
==============================================================================
