------------------------ MODULE InvoicePaymentProofs ------------------------
(***************************************************************************)
(* Payments by Checkout, for any number of invoices, sessions, overlapping *)
(* requests and crashes, reminders and openings of Checkout that overlap   *)
(* included: the types, and that paid means collected.                     *)
(***************************************************************************)
EXTENDS InvoicePayment, TLAPS

\* A session belongs to an invoice from its creation on, and Stripe announces a payment
\* only once it has the money.
SessionInv ==
    \A s \in Sessions :
        /\ stripe[s] = "unused" <=> subject[s] = NoInvoice
        /\ sent[s] # {} => stripe[s] # "unused"
        /\ "paid" \in sent[s] => stripe[s] = "paid"

\* The session of an invoice was created for that invoice.
CurrentInv == \A i \in Invoices : current[i] # NoSession => subject[current[i]] = i

\* What a request carries from one statement to the next: an invoice; from the creation of
\* a session to its storage, and from its retrieval on, a session of that invoice; about to
\* mark the invoice as paid, a session that is paid.
RequestInv ==
    \A q \in Requests :
        /\ pc[q] # "idle" => invoice[q] \in Invoices
        /\ pc[q] \in {"store", "retrieve"} =>
              session[q] \in Sessions /\ subject[session[q]] = invoice[q]
        /\ pc[q] = "mark" /\ stripeConfigured =>
              /\ session[q] \in Sessions
              /\ subject[session[q]] = invoice[q]
              /\ stripe[session[q]] = "paid"

\* The inductive invariant.
PaymentInv == TypeOK /\ SessionInv /\ CurrentInv /\ RequestInv /\ PaidOnlyIfCollected

-----------------------------------------------------------------------------
(* Type correctness *)

LEMMA TypeInit == Init => TypeOK
  BY PaymentAssumption DEF Init, TypeOK

\* The locals of a request keep their types when it takes one, goes on, or ends.
LEMMA LocalTypes ==
    ASSUME TypeOK, NEW q \in Requests
    PROVE  LET Typed == /\ pc' \in [Requests -> {"idle", "send", "remind", "reuse", "create",
                                                   "store", "retrieve", "mark", "notify"}]
                        /\ invoice' \in [Requests -> Invoices \cup {NoInvoice}]
                        /\ session' \in [Requests -> Sessions \cup {NoSession}]
                        /\ answers' \in [Requests -> BOOLEAN]
           IN  /\ Finish(q) => Typed
               /\ Goto(q, "create") \/ Goto(q, "mark") \/ Goto(q, "notify") =>
                      Typed /\ crashes' = crashes
  BY DEF TypeOK, Finish, Goto, locals

LEMMA AcknowledgedType ==
    ASSUME TypeOK, NEW q \in Requests
    PROVE  Acknowledged(q) \in [Sessions -> SUBSET {"pending", "paid", "failed"}]
  BY DEF TypeOK, Acknowledged

\* Every step keeps the types.
LEMMA TypeStep == TypeOK /\ [Next]_vars => TypeOK'
  <1> SUFFICES ASSUME TypeOK, [Next]_vars PROVE TypeOK'  OBVIOUS
  <1> USE PaymentAssumption DEF TypeOK, billing, external, locals
  <1>1. ASSUME NEW q \in Requests, Continue(q) PROVE TypeOK'
    <2>1. CASE MarkSent(q)  BY <2>1 DEF MarkSent, Finish
    <2>2. CASE MarkOverdue(q)  BY <2>2 DEF MarkOverdue, Finish
    <2>3. CASE ReuseSession(q)  BY <2>3, LocalTypes DEF ReuseSession
    <2>4. CASE CreateSession(q)  BY <2>4 DEF CreateSession
    <2>5. CASE RefuseSession(q)  BY <2>5 DEF RefuseSession, Finish
    <2>6. CASE StoreSession(q)  BY <2>6 DEF StoreSession, Finish
    <2>7. CASE RetrieveSession(q)  BY <2>7, LocalTypes DEF RetrieveSession
    <2>8. CASE MarkPaid(q)
      <3>1. CASE Payable(invoice[q])
        <4>1. /\ status' = [status EXCEPT ![invoice[q]] = "paid"]
              /\ intent' = IF session[q] = NoSession THEN intent
                           ELSE [intent EXCEPT ![invoice[q]] = session[q]]
              /\ Goto(q, "notify")
              /\ UNCHANGED <<acked, stripeConfigured, current, confirmed, stripe, subject, sent>>
          BY <2>8, <3>1 DEF MarkPaid
        <4>2. status' \in [Invoices -> {"draft", "sent", "overdue", "paid"}]  BY <4>1
        <4>3. session[q] \in Sessions \cup {NoSession}  OBVIOUS
        <4>4. intent' \in [Invoices -> Sessions \cup {NoSession}]  BY <4>1, <4>3
        <4> QED BY <4>1, <4>2, <4>4, LocalTypes
      <3>2. CASE ~Payable(invoice[q])
        <4>1. /\ acked' \in {acked, Acknowledged(q)}
              /\ Finish(q)
              /\ UNCHANGED <<status, intent, crashes, stripeConfigured, current, confirmed,
                             stripe, subject, sent>>
          BY <2>8, <3>2 DEF MarkPaid
        <4>2. acked' \in [Sessions -> SUBSET {"pending", "paid", "failed"}]
          BY <4>1, AcknowledgedType
        <4> QED BY <4>1, <4>2, LocalTypes
      <3> QED BY <3>1, <3>2
    <2>9. CASE NotifyPaid(q)
      <3>1. confirmed' \in [Invoices -> 0..2]
        <4> DEFINE more == IF confirmed[invoice[q]] < 2 THEN confirmed[invoice[q]] + 1
                                                        ELSE confirmed[invoice[q]]
        <4>1. confirmed' = [confirmed EXCEPT ![invoice[q]] = more]  BY <2>9 DEF NotifyPaid
        <4>2. invoice[q] \in Invoices => more \in 0..2  OBVIOUS
        <4> HIDE DEF more
        <4> QED BY <4>1, <4>2
      <3>2. Finish(q)  BY <2>9 DEF NotifyPaid
      <3> QED BY <2>9, <3>1, <3>2, LocalTypes, AcknowledgedType DEF NotifyPaid
    <2> QED BY <1>1, <2>1, <2>2, <2>3, <2>4, <2>5, <2>6, <2>7, <2>8, <2>9 DEF Continue
  <1>2. ASSUME NEW q \in Requests, NEW i \in Invoices,
               ReadForSend(q, i) \/ ReadForReminder(q, i) \/ ReadForCheckout(q, i)
                   \/ ReadForConfirm(q, i) \/ ReadForPay(q, i)
        PROVE TypeOK'
    <2>1. CASE ReadForSend(q, i)  BY <2>1 DEF ReadForSend, Begin
    <2>2. CASE ReadForReminder(q, i)  BY <2>2 DEF ReadForReminder, Begin, Payable
    <2>3. CASE ReadForCheckout(q, i)  BY <2>3 DEF ReadForCheckout, Begin, Payable
    <2>4. CASE ReadForConfirm(q, i)  BY <2>4 DEF ReadForConfirm, Begin
    <2>5. CASE ReadForPay(q, i)  BY <2>5 DEF ReadForPay, Begin, Payable
    <2> QED BY <1>2, <2>1, <2>2, <2>3, <2>4, <2>5
  <1>3. ASSUME NEW q \in Requests, NEW s \in Sessions, ReceiveEvent(q, s) PROVE TypeOK'
    <2>1. PICK ev \in sent[s] :
              /\ IF ev # "paid"
                 THEN acked' = [acked EXCEPT ![s] = @ \cup {ev}] /\ UNCHANGED <<pc, locals>>
                 ELSE /\ Begin(q, subject[s], s, "mark")
                      /\ answers' = [answers EXCEPT ![q] = TRUE]
                      /\ UNCHANGED acked
              /\ UNCHANGED <<stripeConfigured, billing, stripe, subject, sent, crashes>>
      BY <1>3 DEF ReceiveEvent
    <2>2. CASE ev # "paid"
      <3>1. acked' = [acked EXCEPT ![s] = @ \cup {ev}] /\ UNCHANGED <<pc, locals>>
        BY <2>1, <2>2
      <3>2. ev \in {"pending", "paid", "failed"}  OBVIOUS
      <3>3. acked' \in [Sessions -> SUBSET {"pending", "paid", "failed"}]  BY <3>1, <3>2
      <3> QED BY <2>1, <3>1, <3>3
    <2>3. CASE ev = "paid"
      <3>1. /\ pc' = [pc EXCEPT ![q] = "mark"]
            /\ invoice' = [invoice EXCEPT ![q] = subject[s]]
            /\ session' = [session EXCEPT ![q] = s]
            /\ answers' = [answers EXCEPT ![q] = TRUE]
            /\ UNCHANGED acked
        BY <2>1, <2>3 DEF Begin
      <3>2. subject[s] \in Invoices \cup {NoInvoice}  OBVIOUS
      <3>3. /\ invoice' \in [Requests -> Invoices \cup {NoInvoice}]
            /\ session' \in [Requests -> Sessions \cup {NoSession}]
        BY <3>1, <3>2
      <3>4. /\ pc' \in [Requests -> {"idle", "send", "remind", "reuse", "create", "store",
                                     "retrieve", "mark", "notify"}]
            /\ answers' \in [Requests -> BOOLEAN]
        BY <3>1
      <3> QED BY <2>1, <3>1, <3>3, <3>4
    <2> QED BY <2>2, <2>3
  <1>4. ASSUME NEW q \in Requests, Die(q) PROVE TypeOK'  BY <1>4 DEF Die, Finish
  <1>5. ASSUME NEW s \in Sessions, CompleteCheckout(s) \/ SettleDeferred(s) \/ ExpireSession(s)
        PROVE TypeOK'
    <2>1. CASE CompleteCheckout(s)  BY <2>1 DEF CompleteCheckout
    <2>2. CASE SettleDeferred(s)  BY <2>2 DEF SettleDeferred
    <2>3. CASE ExpireSession(s)  BY <2>3 DEF ExpireSession
    <2> QED BY <1>5, <2>1, <2>2, <2>3
  <1>6. CASE UNCHANGED vars  BY <1>6 DEF vars
  <1> QED BY <1>1, <1>2, <1>3, <1>4, <1>5, <1>6 DEF Next, Serve

\* Every variable of the payment keeps its type.
THEOREM TypeCorrect == Spec => []TypeOK
  <1>1. Init => TypeOK  BY TypeInit
  <1>2. TypeOK /\ [Next]_vars => TypeOK'  BY TypeStep
  <1> QED BY <1>1, <1>2, PTL DEF Spec

-----------------------------------------------------------------------------
(* Paid means collected *)

LEMMA PaymentInit == Init => PaymentInv
  BY TypeInit, PaymentAssumption
  DEF PaymentInv, Init, SessionInv, CurrentInv, RequestInv, PaidOnlyIfCollected

\* Every step keeps SessionInv.
LEMMA SessionStep == PaymentInv /\ [Next]_vars => SessionInv'
  <1> SUFFICES ASSUME PaymentInv, [Next]_vars PROVE SessionInv'  OBVIOUS
  <1> USE PaymentAssumption DEF PaymentInv, TypeOK, SessionInv, CurrentInv, RequestInv, PaidOnlyIfCollected, billing, external, locals
  <1>1. ASSUME NEW q \in Requests, Continue(q) PROVE SessionInv'
    <2>1. CASE MarkSent(q)  BY <2>1 DEF MarkSent, Finish
    <2>2. CASE MarkOverdue(q)  BY <2>2 DEF MarkOverdue, Finish
    <2>3. CASE ReuseSession(q)  BY <2>3 DEF ReuseSession, Finish, Goto
    <2>4. CASE CreateSession(q)  BY <2>4 DEF CreateSession
    <2>5. CASE RefuseSession(q)  BY <2>5 DEF RefuseSession, Finish
    <2>6. CASE StoreSession(q)  BY <2>6 DEF StoreSession, Finish
    <2>7. CASE RetrieveSession(q)  BY <2>7 DEF RetrieveSession, Finish, Goto
    <2>8. CASE MarkPaid(q)  BY <2>8 DEF MarkPaid, Finish, Goto, Acknowledged, Payable
    <2>9. CASE NotifyPaid(q)  BY <2>9 DEF NotifyPaid, Finish, Acknowledged
    <2> QED BY <1>1, <2>1, <2>2, <2>3, <2>4, <2>5, <2>6, <2>7, <2>8, <2>9 DEF Continue
  <1>2. ASSUME NEW q \in Requests, NEW i \in Invoices,
               ReadForSend(q, i) \/ ReadForReminder(q, i) \/ ReadForCheckout(q, i)
                   \/ ReadForConfirm(q, i) \/ ReadForPay(q, i)
        PROVE SessionInv'
    <2>1. CASE ReadForSend(q, i)  BY <2>1 DEF ReadForSend, Begin
    <2>2. CASE ReadForReminder(q, i)  BY <2>2 DEF ReadForReminder, Begin, Payable
    <2>3. CASE ReadForCheckout(q, i)  BY <2>3 DEF ReadForCheckout, Begin, Payable
    <2>4. CASE ReadForConfirm(q, i)  BY <2>4 DEF ReadForConfirm, Begin
    <2>5. CASE ReadForPay(q, i)  BY <2>5 DEF ReadForPay, Begin, Payable
    <2> QED BY <1>2, <2>1, <2>2, <2>3, <2>4, <2>5
  <1>3. ASSUME NEW q \in Requests, NEW s \in Sessions, ReceiveEvent(q, s) PROVE SessionInv'
    BY <1>3 DEF ReceiveEvent, Begin
  <1>4. ASSUME NEW q \in Requests, Die(q) PROVE SessionInv'  BY <1>4 DEF Die, Finish
  <1>5. ASSUME NEW s \in Sessions, CompleteCheckout(s) \/ SettleDeferred(s) \/ ExpireSession(s)
        PROVE SessionInv'
    <2>1. CASE CompleteCheckout(s)  BY <2>1 DEF CompleteCheckout
    <2>2. CASE SettleDeferred(s)  BY <2>2 DEF SettleDeferred
    <2>3. CASE ExpireSession(s)  BY <2>3 DEF ExpireSession
    <2> QED BY <1>5, <2>1, <2>2, <2>3
  <1>6. CASE UNCHANGED vars  BY <1>6 DEF vars
  <1> QED BY <1>1, <1>2, <1>3, <1>4, <1>5, <1>6 DEF Next, Serve

\* Every step keeps CurrentInv.
LEMMA CurrentStep == PaymentInv /\ [Next]_vars => CurrentInv'
  <1> SUFFICES ASSUME PaymentInv, [Next]_vars PROVE CurrentInv'  OBVIOUS
  <1> USE PaymentAssumption DEF PaymentInv, TypeOK, SessionInv, CurrentInv, RequestInv, PaidOnlyIfCollected, billing, external, locals
  <1>1. ASSUME NEW q \in Requests, Continue(q) PROVE CurrentInv'
    <2>1. CASE MarkSent(q)  BY <2>1 DEF MarkSent, Finish
    <2>2. CASE MarkOverdue(q)  BY <2>2 DEF MarkOverdue, Finish
    <2>3. CASE ReuseSession(q)  BY <2>3 DEF ReuseSession, Finish, Goto
    <2>4. CASE CreateSession(q)  BY <2>4 DEF CreateSession
    <2>5. CASE RefuseSession(q)  BY <2>5 DEF RefuseSession, Finish
    <2>6. CASE StoreSession(q)  BY <2>6 DEF StoreSession, Finish
    <2>7. CASE RetrieveSession(q)  BY <2>7 DEF RetrieveSession, Finish, Goto
    <2>8. CASE MarkPaid(q)  BY <2>8 DEF MarkPaid, Finish, Goto, Acknowledged, Payable
    <2>9. CASE NotifyPaid(q)  BY <2>9 DEF NotifyPaid, Finish, Acknowledged
    <2> QED BY <1>1, <2>1, <2>2, <2>3, <2>4, <2>5, <2>6, <2>7, <2>8, <2>9 DEF Continue
  <1>2. ASSUME NEW q \in Requests, NEW i \in Invoices,
               ReadForSend(q, i) \/ ReadForReminder(q, i) \/ ReadForCheckout(q, i)
                   \/ ReadForConfirm(q, i) \/ ReadForPay(q, i)
        PROVE CurrentInv'
    <2>1. CASE ReadForSend(q, i)  BY <2>1 DEF ReadForSend, Begin
    <2>2. CASE ReadForReminder(q, i)  BY <2>2 DEF ReadForReminder, Begin, Payable
    <2>3. CASE ReadForCheckout(q, i)  BY <2>3 DEF ReadForCheckout, Begin, Payable
    <2>4. CASE ReadForConfirm(q, i)  BY <2>4 DEF ReadForConfirm, Begin
    <2>5. CASE ReadForPay(q, i)  BY <2>5 DEF ReadForPay, Begin, Payable
    <2> QED BY <1>2, <2>1, <2>2, <2>3, <2>4, <2>5
  <1>3. ASSUME NEW q \in Requests, NEW s \in Sessions, ReceiveEvent(q, s) PROVE CurrentInv'
    BY <1>3 DEF ReceiveEvent, Begin
  <1>4. ASSUME NEW q \in Requests, Die(q) PROVE CurrentInv'  BY <1>4 DEF Die, Finish
  <1>5. ASSUME NEW s \in Sessions, CompleteCheckout(s) \/ SettleDeferred(s) \/ ExpireSession(s)
        PROVE CurrentInv'
    <2>1. CASE CompleteCheckout(s)  BY <2>1 DEF CompleteCheckout
    <2>2. CASE SettleDeferred(s)  BY <2>2 DEF SettleDeferred
    <2>3. CASE ExpireSession(s)  BY <2>3 DEF ExpireSession
    <2> QED BY <1>5, <2>1, <2>2, <2>3
  <1>6. CASE UNCHANGED vars  BY <1>6 DEF vars
  <1> QED BY <1>1, <1>2, <1>3, <1>4, <1>5, <1>6 DEF Next, Serve

\* Every step keeps RequestInv.
LEMMA RequestStep == PaymentInv /\ [Next]_vars => RequestInv'
  <1> SUFFICES ASSUME PaymentInv, [Next]_vars PROVE RequestInv'  OBVIOUS
  <1> USE PaymentAssumption DEF PaymentInv, TypeOK, SessionInv, CurrentInv, RequestInv, PaidOnlyIfCollected, billing, external, locals
  <1>1. ASSUME NEW q \in Requests, Continue(q) PROVE RequestInv'
    <2>1. CASE MarkSent(q)  BY <2>1 DEF MarkSent, Finish
    <2>2. CASE MarkOverdue(q)  BY <2>2 DEF MarkOverdue, Finish
    <2>3. CASE ReuseSession(q)  BY <2>3 DEF ReuseSession, Finish, Goto
    <2>4. CASE CreateSession(q)  BY <2>4 DEF CreateSession
    <2>5. CASE RefuseSession(q)  BY <2>5 DEF RefuseSession, Finish
    <2>6. CASE StoreSession(q)  BY <2>6 DEF StoreSession, Finish
    <2>7. CASE RetrieveSession(q)  BY <2>7 DEF RetrieveSession, Finish, Goto
    <2>8. CASE MarkPaid(q)  BY <2>8 DEF MarkPaid, Finish, Goto, Acknowledged, Payable
    <2>9. CASE NotifyPaid(q)  BY <2>9 DEF NotifyPaid, Finish, Acknowledged
    <2> QED BY <1>1, <2>1, <2>2, <2>3, <2>4, <2>5, <2>6, <2>7, <2>8, <2>9 DEF Continue
  <1>2. ASSUME NEW q \in Requests, NEW i \in Invoices,
               ReadForSend(q, i) \/ ReadForReminder(q, i) \/ ReadForCheckout(q, i)
                   \/ ReadForConfirm(q, i) \/ ReadForPay(q, i)
        PROVE RequestInv'
    <2>1. CASE ReadForSend(q, i)  BY <2>1 DEF ReadForSend, Begin
    <2>2. CASE ReadForReminder(q, i)  BY <2>2 DEF ReadForReminder, Begin, Payable
    <2>3. CASE ReadForCheckout(q, i)  BY <2>3 DEF ReadForCheckout, Begin, Payable
    <2>4. CASE ReadForConfirm(q, i)  BY <2>4 DEF ReadForConfirm, Begin
    <2>5. CASE ReadForPay(q, i)  BY <2>5 DEF ReadForPay, Begin, Payable
    <2> QED BY <1>2, <2>1, <2>2, <2>3, <2>4, <2>5
  <1>3. ASSUME NEW q \in Requests, NEW s \in Sessions, ReceiveEvent(q, s) PROVE RequestInv'
    BY <1>3 DEF ReceiveEvent, Begin
  <1>4. ASSUME NEW q \in Requests, Die(q) PROVE RequestInv'  BY <1>4 DEF Die, Finish
  <1>5. ASSUME NEW s \in Sessions, CompleteCheckout(s) \/ SettleDeferred(s) \/ ExpireSession(s)
        PROVE RequestInv'
    <2>1. CASE CompleteCheckout(s)  BY <2>1 DEF CompleteCheckout
    <2>2. CASE SettleDeferred(s)  BY <2>2 DEF SettleDeferred
    <2>3. CASE ExpireSession(s)  BY <2>3 DEF ExpireSession
    <2> QED BY <1>5, <2>1, <2>2, <2>3
  <1>6. CASE UNCHANGED vars  BY <1>6 DEF vars
  <1> QED BY <1>1, <1>2, <1>3, <1>4, <1>5, <1>6 DEF Next, Serve

\* Every step keeps PaidOnlyIfCollected.
LEMMA PaidStep == PaymentInv /\ [Next]_vars => PaidOnlyIfCollected'
  <1> SUFFICES ASSUME PaymentInv, [Next]_vars PROVE PaidOnlyIfCollected'  OBVIOUS
  <1> USE PaymentAssumption DEF PaymentInv, TypeOK, SessionInv, CurrentInv, RequestInv, PaidOnlyIfCollected, billing, external, locals
  <1>1. ASSUME NEW q \in Requests, Continue(q) PROVE PaidOnlyIfCollected'
    <2>1. CASE MarkSent(q)  BY <2>1 DEF MarkSent, Finish
    <2>2. CASE MarkOverdue(q)  BY <2>2 DEF MarkOverdue, Finish
    <2>3. CASE ReuseSession(q)  BY <2>3 DEF ReuseSession, Finish, Goto
    <2>4. CASE CreateSession(q)  BY <2>4 DEF CreateSession
    <2>5. CASE RefuseSession(q)  BY <2>5 DEF RefuseSession, Finish
    <2>6. CASE StoreSession(q)  BY <2>6 DEF StoreSession, Finish
    <2>7. CASE RetrieveSession(q)  BY <2>7 DEF RetrieveSession, Finish, Goto
    <2>8. CASE MarkPaid(q)  BY <2>8 DEF MarkPaid, Finish, Goto, Acknowledged, Payable
    <2>9. CASE NotifyPaid(q)  BY <2>9 DEF NotifyPaid, Finish, Acknowledged
    <2> QED BY <1>1, <2>1, <2>2, <2>3, <2>4, <2>5, <2>6, <2>7, <2>8, <2>9 DEF Continue
  <1>2. ASSUME NEW q \in Requests, NEW i \in Invoices,
               ReadForSend(q, i) \/ ReadForReminder(q, i) \/ ReadForCheckout(q, i)
                   \/ ReadForConfirm(q, i) \/ ReadForPay(q, i)
        PROVE PaidOnlyIfCollected'
    <2>1. CASE ReadForSend(q, i)  BY <2>1 DEF ReadForSend, Begin
    <2>2. CASE ReadForReminder(q, i)  BY <2>2 DEF ReadForReminder, Begin, Payable
    <2>3. CASE ReadForCheckout(q, i)  BY <2>3 DEF ReadForCheckout, Begin, Payable
    <2>4. CASE ReadForConfirm(q, i)  BY <2>4 DEF ReadForConfirm, Begin
    <2>5. CASE ReadForPay(q, i)  BY <2>5 DEF ReadForPay, Begin, Payable
    <2> QED BY <1>2, <2>1, <2>2, <2>3, <2>4, <2>5
  <1>3. ASSUME NEW q \in Requests, NEW s \in Sessions, ReceiveEvent(q, s) PROVE PaidOnlyIfCollected'
    BY <1>3 DEF ReceiveEvent, Begin
  <1>4. ASSUME NEW q \in Requests, Die(q) PROVE PaidOnlyIfCollected'  BY <1>4 DEF Die, Finish
  <1>5. ASSUME NEW s \in Sessions, CompleteCheckout(s) \/ SettleDeferred(s) \/ ExpireSession(s)
        PROVE PaidOnlyIfCollected'
    <2>1. CASE CompleteCheckout(s)  BY <2>1 DEF CompleteCheckout
    <2>2. CASE SettleDeferred(s)  BY <2>2 DEF SettleDeferred
    <2>3. CASE ExpireSession(s)  BY <2>3 DEF ExpireSession
    <2> QED BY <1>5, <2>1, <2>2, <2>3
  <1>6. CASE UNCHANGED vars  BY <1>6 DEF vars
  <1> QED BY <1>1, <1>2, <1>3, <1>4, <1>5, <1>6 DEF Next, Serve

\* However many requests, events and crashes overlap, an invoice is paid only by a session
\* of its own for which Stripe holds the money.
THEOREM PaidIsCollected == Spec => []PaidOnlyIfCollected
  <1>1. Init => PaymentInv  BY PaymentInit
  <1>2. PaymentInv /\ [Next]_vars => PaymentInv'
    <2> SUFFICES ASSUME PaymentInv, [Next]_vars PROVE PaymentInv'  OBVIOUS
    <2>1. TypeOK'  BY TypeStep DEF PaymentInv
    <2>2. SessionInv' /\ CurrentInv' /\ RequestInv' /\ PaidOnlyIfCollected'
      BY SessionStep, CurrentStep, RequestStep, PaidStep
    <2> QED BY <2>1, <2>2 DEF PaymentInv
  <1>3. PaymentInv => PaidOnlyIfCollected  BY DEF PaymentInv
  <1> QED BY <1>1, <1>2, <1>3, PTL DEF Spec
=============================================================================
