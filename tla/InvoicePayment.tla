--------------------------- MODULE InvoicePayment ---------------------------
(***************************************************************************)
(* The life of an invoice (services/billingService.js) and its payment by  *)
(* Stripe Checkout (services/paymentService.js).                           *)
(*                                                                         *)
(* An element of Requests is a slot of the API that serves one request     *)
(* after another, one database statement or Stripe call at a time.  Stripe *)
(* is external: it lets the customer pay a session, now or with a deferred *)
(* means of payment, and sends each event until the API acknowledges it,   *)
(* perhaps more than once and in any order.                                *)
(* Abstracted: amounts, lines and dates of an invoice, the e-mail texts.   *)
(***************************************************************************)
EXTENDS Naturals

CONSTANTS Invoices, Requests,
          Sessions,          \* the Checkout sessions Stripe may create
          MaxCrashes,        \* bound: requests lost with the process that ran them
          NoInvoice, NoSession

ASSUME PaymentAssumption ==
    /\ MaxCrashes \in Nat
    /\ NoInvoice \notin Invoices
    /\ NoSession \notin Sessions

VARIABLES
    stripeConfigured, \* isStripeConfigured; FALSE: payInvoice simulates the payment
    status,     \* status[i]
    current,    \* current[i]: stripeCheckoutSessionId
    intent,     \* intent[i]: stripePaymentIntentId, named by the session it pays
    confirmed,  \* confirmed[i]: payment_confirmed notifications sent: 0, 1 or 2 for more
    stripe,     \* stripe[s]: the session at Stripe
    subject,    \* subject[s]: metadata.invoiceId of the session
    sent,       \* sent[s]: the events Stripe emitted for s
    acked,      \* acked[s]: those the API answered with a success
    pc,         \* pc[q]: the next statement of q
    invoice,    \* invoice[q]: the invoice q is about
    session,    \* session[q]: the session q is about, as q read or created it
    answers,    \* answers[q]: q serves a webhook and its success acknowledges the event
    crashes     \* how many requests were lost

vars == <<stripeConfigured, status, current, intent, confirmed, stripe, subject, sent, acked,
          pc, invoice, session, answers, crashes>>

billing  == <<status, current, intent, confirmed>>
external == <<stripeConfigured, stripe, subject, sent, acked>>
locals   == <<invoice, session, answers>>

TypeOK ==
    /\ stripeConfigured \in BOOLEAN
    /\ status \in [Invoices -> {"draft", "sent", "overdue", "paid"}]
    /\ current \in [Invoices -> Sessions \cup {NoSession}]
    /\ intent \in [Invoices -> Sessions \cup {NoSession}]
    /\ confirmed \in [Invoices -> 0..2]
    /\ stripe \in [Sessions -> {"unused", "open", "pending", "paid", "failed", "expired"}]
    /\ subject \in [Sessions -> Invoices \cup {NoInvoice}]
    /\ sent \in [Sessions -> SUBSET {"pending", "paid", "failed"}]
    /\ acked \in [Sessions -> SUBSET {"pending", "paid", "failed"}]
    /\ pc \in [Requests -> {"idle", "send", "remind", "reuse", "create", "store",
                            "retrieve", "mark", "notify"}]
    /\ invoice \in [Requests -> Invoices \cup {NoInvoice}]
    /\ session \in [Requests -> Sessions \cup {NoSession}]
    /\ answers \in [Requests -> BOOLEAN]
    /\ crashes \in 0..MaxCrashes

\* An invoice is created as a draft, or as sent for a registration to an event.
Init ==
    /\ stripeConfigured \in BOOLEAN
    /\ status \in [Invoices -> {"draft", "sent"}]
    /\ current = [i \in Invoices |-> NoSession]
    /\ intent = [i \in Invoices |-> NoSession]
    /\ confirmed = [i \in Invoices |-> 0]
    /\ stripe = [s \in Sessions |-> "unused"]
    /\ subject = [s \in Sessions |-> NoInvoice]
    /\ sent = [s \in Sessions |-> {}]
    /\ acked = [s \in Sessions |-> {}]
    /\ pc = [q \in Requests |-> "idle"]
    /\ invoice = [q \in Requests |-> NoInvoice]
    /\ session = [q \in Requests |-> NoSession]
    /\ answers = [q \in Requests |-> FALSE]
    /\ crashes = 0

-----------------------------------------------------------------------------
(* Helpers *)

\* q is served a request about invoice i and goes on, having read session s.
Begin(q, i, s, where) ==
    /\ pc[q] = "idle"
    /\ pc' = [pc EXCEPT ![q] = where]
    /\ invoice' = [invoice EXCEPT ![q] = i]
    /\ session' = [session EXCEPT ![q] = s]

Goto(q, where) == pc' = [pc EXCEPT ![q] = where] /\ UNCHANGED <<locals, crashes>>

\* The answer is sent and the slot is free again.
Finish(q) ==
    /\ pc' = [pc EXCEPT ![q] = "idle"]
    /\ invoice' = [invoice EXCEPT ![q] = NoInvoice]
    /\ session' = [session EXCEPT ![q] = NoSession]
    /\ answers' = [answers EXCEPT ![q] = FALSE]

\* The success of a webhook acknowledges its event.
Acknowledged(q) ==
    IF answers[q] THEN [acked EXCEPT ![session[q]] = @ \cup {"paid"}] ELSE acked

Payable(i) == status[i] \in {"sent", "overdue"}

-----------------------------------------------------------------------------
(* sendInvoice, remindInvoice: the status is read, then written without a condition *)

ReadForSend(q, i) ==
    /\ status[i] = "draft"
    /\ Begin(q, i, NoSession, "send")
    /\ UNCHANGED <<billing, external, answers, crashes>>

MarkSent(q) ==
    /\ pc[q] = "send"
    /\ status' = [status EXCEPT ![invoice[q]] = "sent"]
    /\ Finish(q)
    /\ UNCHANGED <<current, intent, confirmed, external, crashes>>

\* Mutant: any invoice may be reminded.
ReadForReminderAny(q, i) ==
    /\ status[i] # "draft"
    /\ Begin(q, i, NoSession, "remind")
    /\ UNCHANGED <<billing, external, answers, crashes>>

ReadForReminder(q, i) ==
    /\ Payable(i)
    /\ Begin(q, i, NoSession, "remind")
    /\ UNCHANGED <<billing, external, answers, crashes>>

MarkOverdue(q) ==
    /\ pc[q] = "remind"
    /\ status' = [status EXCEPT ![invoice[q]] = "overdue"]
    /\ Finish(q)
    /\ UNCHANGED <<current, intent, confirmed, external, crashes>>

-----------------------------------------------------------------------------
(* createInvoiceCheckoutSession *)

ReadForCheckout(q, i) ==
    /\ stripeConfigured
    /\ Payable(i)
    /\ Begin(q, i, current[i], IF current[i] = NoSession THEN "create" ELSE "reuse")
    /\ UNCHANGED <<billing, external, answers, crashes>>

\* Mutant: the session of the invoice is never looked at again.
ReuseNothing(q) ==
    /\ pc[q] = "reuse"
    /\ Goto(q, "create")
    /\ UNCHANGED <<billing, external>>

\* A session still open is handed out again.
ReuseSession(q) ==
    /\ pc[q] = "reuse"
    /\ IF stripe[session[q]] = "open"
       THEN Finish(q) /\ UNCHANGED crashes
       ELSE Goto(q, "create")
    /\ UNCHANGED <<billing, external>>

CreateSession(q) ==
    /\ pc[q] = "create"
    /\ \E s \in Sessions :
          /\ stripe[s] = "unused"
          /\ stripe' = [stripe EXCEPT ![s] = "open"]
          /\ subject' = [subject EXCEPT ![s] = invoice[q]]
          /\ session' = [session EXCEPT ![q] = s]
    /\ pc' = [pc EXCEPT ![q] = "store"]
    /\ UNCHANGED <<stripeConfigured, billing, sent, acked, invoice, answers, crashes>>

\* Stripe answers with an error, or without a URL.
RefuseSession(q) ==
    /\ pc[q] = "create"
    /\ Finish(q)
    /\ UNCHANGED <<billing, external, crashes>>

StoreSession(q) ==
    /\ pc[q] = "store"
    /\ current' = [current EXCEPT ![invoice[q]] = session[q]]
    /\ Finish(q)
    /\ UNCHANGED <<status, intent, confirmed, external, crashes>>

-----------------------------------------------------------------------------
(* confirmInvoiceCheckout, payInvoice, handleStripeWebhookEvent *)

\* The customer is back from Checkout.
ReadForConfirm(q, i) ==
    /\ stripeConfigured
    /\ status[i] # "paid"
    /\ current[i] # NoSession
    /\ Begin(q, i, current[i], "retrieve")
    /\ UNCHANGED <<billing, external, answers, crashes>>

RetrieveSession(q) ==
    /\ pc[q] = "retrieve"
    /\ IF stripe[session[q]] = "paid"
       THEN Goto(q, "mark")
       ELSE Finish(q) /\ UNCHANGED crashes
    /\ UNCHANGED <<billing, external>>

\* The simulated payment of a development server.
ReadForPay(q, i) ==
    /\ ~stripeConfigured
    /\ Payable(i)
    /\ Begin(q, i, NoSession, "mark")
    /\ UNCHANGED <<billing, external, answers, crashes>>

\* Mutant: a completed session is taken for a paid one.
ReceiveAnyEvent(q, s) ==
    \E ev \in sent[s] :
        /\ IF ev = "failed"
           THEN /\ acked' = [acked EXCEPT ![s] = @ \cup {ev}]
                /\ UNCHANGED <<pc, locals>>
           ELSE /\ Begin(q, subject[s], s, "mark")
                /\ answers' = [answers EXCEPT ![q] = TRUE]
                /\ UNCHANGED acked
        /\ UNCHANGED <<stripeConfigured, billing, stripe, subject, sent, crashes>>

\* Mutant: the webhook answers before it works.
ReceiveEventAckFirst(q, s) ==
    \E ev \in sent[s] :
        /\ acked' = [acked EXCEPT ![s] = @ \cup {ev}]
        /\ IF ev # "paid"
           THEN UNCHANGED <<pc, locals>>
           ELSE /\ Begin(q, subject[s], s, "mark")
                /\ UNCHANGED answers
        /\ UNCHANGED <<stripeConfigured, billing, stripe, subject, sent, crashes>>

\* An event, new or repeated.  A completed session whose payment is deferred and a
\* deferred payment that failed change nothing.
ReceiveEvent(q, s) ==
    \E ev \in sent[s] :
        /\ IF ev # "paid"
           THEN /\ acked' = [acked EXCEPT ![s] = @ \cup {ev}]
                /\ UNCHANGED <<pc, locals>>
           ELSE /\ Begin(q, subject[s], s, "mark")
                /\ answers' = [answers EXCEPT ![q] = TRUE]
                /\ UNCHANGED acked
        /\ UNCHANGED <<stripeConfigured, billing, stripe, subject, sent, crashes>>

\* Mutant: the transition to paid has no condition on the status.
MarkPaidAlways(q) ==
    /\ pc[q] = "mark"
    /\ status' = [status EXCEPT ![invoice[q]] = "paid"]
    /\ intent' = IF session[q] = NoSession THEN intent
                 ELSE [intent EXCEPT ![invoice[q]] = session[q]]
    /\ Goto(q, "notify")
    /\ UNCHANGED <<current, confirmed, external>>

\* Mutant: only the webhook notifies, although the return from Checkout may be first.
MarkPaidSilently(q) ==
    /\ pc[q] = "mark" /\ Payable(invoice[q])
    /\ status' = [status EXCEPT ![invoice[q]] = "paid"]
    /\ intent' = IF session[q] = NoSession THEN intent
                 ELSE [intent EXCEPT ![invoice[q]] = session[q]]
    /\ IF answers[q] THEN Goto(q, "notify") ELSE Finish(q) /\ UNCHANGED crashes
    /\ UNCHANGED <<current, confirmed, external>>

\* markInvoicePaidFromPayment: a conditional update; whoever makes the transition notifies.
\* On any other status but paid the request fails, which acknowledges nothing.
MarkPaid(q) ==
    LET i == invoice[q]
    IN  /\ pc[q] = "mark"
        /\ IF Payable(i)
           THEN /\ status' = [status EXCEPT ![i] = "paid"]
                /\ intent' = IF session[q] = NoSession THEN intent
                             ELSE [intent EXCEPT ![i] = session[q]]
                /\ Goto(q, "notify")
                /\ UNCHANGED acked
           ELSE /\ acked' = IF status[i] = "paid" THEN Acknowledged(q) ELSE acked
                /\ Finish(q)
                /\ UNCHANGED <<status, intent, crashes>>
        /\ UNCHANGED <<stripeConfigured, current, confirmed, stripe, subject, sent>>

NotifyPaid(q) ==
    /\ pc[q] = "notify"
    /\ confirmed' = [confirmed EXCEPT ![invoice[q]] = IF @ < 2 THEN @ + 1 ELSE @]
    /\ acked' = Acknowledged(q)
    /\ Finish(q)
    /\ UNCHANGED <<stripeConfigured, status, current, intent, stripe, subject, sent, crashes>>

-----------------------------------------------------------------------------
(* Stripe and the customer (external), failures *)

\* Checkout is completed, with the money or with a deferred means of payment.
CompleteCheckout(s) ==
    /\ stripe[s] = "open"
    /\ \E outcome \in {"paid", "pending"} :
          /\ stripe' = [stripe EXCEPT ![s] = outcome]
          /\ sent' = [sent EXCEPT ![s] = @ \cup {outcome}]
    /\ UNCHANGED <<stripeConfigured, billing, subject, acked, pc, locals, crashes>>

\* The deferred payment succeeds or fails.
SettleDeferred(s) ==
    /\ stripe[s] = "pending"
    /\ \E outcome \in {"paid", "failed"} :
          /\ stripe' = [stripe EXCEPT ![s] = outcome]
          /\ sent' = [sent EXCEPT ![s] = @ \cup {outcome}]
    /\ UNCHANGED <<stripeConfigured, billing, subject, acked, pc, locals, crashes>>

ExpireSession(s) ==
    /\ stripe[s] = "open"
    /\ stripe' = [stripe EXCEPT ![s] = "expired"]
    /\ UNCHANGED <<stripeConfigured, billing, subject, sent, acked, pc, locals, crashes>>

\* The process dies, or the statement fails: the request ends there.
Die(q) ==
    /\ pc[q] # "idle"
    /\ crashes < MaxCrashes
    /\ crashes' = crashes + 1
    /\ Finish(q)
    /\ UNCHANGED <<billing, external>>

Continue(q) ==
    \/ MarkSent(q) \/ MarkOverdue(q)
    \/ ReuseSession(q) \/ CreateSession(q) \/ RefuseSession(q) \/ StoreSession(q)
    \/ RetrieveSession(q) \/ MarkPaid(q) \/ NotifyPaid(q)

Serve(q) ==
    \/ \E i \in Invoices : \/ ReadForSend(q, i) \/ ReadForReminder(q, i) \/ ReadForCheckout(q, i)
                           \/ ReadForConfirm(q, i) \/ ReadForPay(q, i)
    \/ \E s \in Sessions : ReceiveEvent(q, s)

Next == \/ \E q \in Requests : Continue(q) \/ Serve(q) \/ Die(q)
        \/ \E s \in Sessions : CompleteCheckout(s) \/ SettleDeferred(s) \/ ExpireSession(s)

Spec == Init /\ [][Next]_vars

\* Stripe repeats an event until it is acknowledged, so an API that is up now and then
\* gets it; the Node process carries on with the requests it accepted.
Redeliver(s) ==
    \E q \in Requests : sent[s] \ acked[s] # {} /\ ReceiveEvent(q, s) /\ session'[q] = s

FairSpec ==
    /\ Spec
    /\ \A q \in Requests : WF_vars(Continue(q))
    /\ \A s \in Sessions : SF_vars(Redeliver(s))

-----------------------------------------------------------------------------
(* Properties *)

\* An invoice is marked paid only for money Stripe holds: deferred payments, replayed
\* events, the return from Checkout and crashes included.  The session recorded as its
\* payment is one of that invoice, and it is paid.
PaidOnlyIfCollected ==
    stripeConfigured =>
        \A i \in Invoices :
            /\ status[i] = "paid" => intent[i] # NoSession
            /\ intent[i] # NoSession => subject[intent[i]] = i /\ stripe[intent[i]] = "paid"

\* billingService.js:658-662: the webhook, its repetitions and the return from Checkout may
\* all report a payment at once; the customer is told once.
ConfirmedOnce == \A i \in Invoices : confirmed[i] <= 1

\* backlog.md:232: draft, sent, overdue or paid; a paid invoice is settled for good.
PaidIsFinal == [][\A i \in Invoices : status[i] = "paid" => status'[i] = "paid"]_vars

\* The invoices that are settled, and those whose money Stripe holds or payInvoice simulates.
Settled == {i \in Invoices : status[i] = "paid"}
Collected ==
    {i \in Invoices : \/ ~stripeConfigured
                      \/ \E s \in Sessions : stripe[s] = "paid" /\ subject[s] = i}

Books == INSTANCE Settlement WITH held <- Collected, paid <- Settled, told <- confirmed

\* billingService.js:654-712, backlog.md:232, 244: payments settle invoices as Settlement says,
\* however they are reported and whoever dies: only for money that has come in, once and for
\* good, and told once; holds where the admin's sends and reminders do not overlap them.
PaymentsSettle == Books!Spec

\* paymentService.js:68-69: two sessions of an invoice are never payable at once.
OnePayableSession ==
    \A s1, s2 \in Sessions :
        stripe[s1] = "open" /\ stripe[s2] = "open" /\ subject[s1] = subject[s2] => s1 = s2

\* Before and after the payment, an invoice is in one hand.
CheckoutIsSound == ConfirmedOnce /\ OnePayableSession

\* paymentService.js:68-69: the customer is never charged twice for an invoice.
ChargedOnce ==
    \A s1, s2 \in Sessions :
        stripe[s1] = "paid" /\ stripe[s2] = "paid" /\ subject[s1] = subject[s2] => s1 = s2

\* What the customer pays at Stripe ends up recorded on the invoice, whatever requests die
\* on the way: the webhook answers only when the work is done.
PaymentIsRecorded ==
    \A s \in Sessions, i \in Invoices :
        stripe[s] = "paid" /\ subject[s] = i ~> intent[i] # NoSession

\* backlog.md:244: a payment is notified to the customer, however it is reported.  Stated
\* for requests that survive: one that dies between its two writes is not caught up.
PaymentIsNotified ==
    \A i \in Invoices : status[i] = "paid" ~> confirmed[i] > 0 \/ crashes > 0
=============================================================================
