---------------------------- MODULE StagesProofs ----------------------------
(***************************************************************************)
(* Stages and payments together, for any number of events, riders, horses, *)
(* requests, invoices and Checkout sessions: a paid invoice stays paid, it *)
(* is confirmed once and never has two open sessions; a horse of a stage   *)
(* has one rider; what EventRegistration promises holds here as well.      *)
(*                                                                         *)
(* The payments are proved from CheckoutInv and OpenInv, the horses from   *)
(* HorseInv; PaymentsAlone and HorsesAlone (Stages) name what may not      *)
(* overlap, and the invariants say of every state what they imply.         *)
(***************************************************************************)
EXTENDS Stages, EventRegistrationProofs, WeeklyHours

\* From the look at the recorded session of an invoice to the record of a new one.
Opening == {"reuse", "create", "store"}

\* A session belongs to an invoice from its creation on, and Stripe speaks of no other.
SessionInv ==
    \A s \in Sessions :
        /\ stripe[s] = "unused" <=> subject[s] = NoInvoice
        /\ sent[s] # {} => stripe[s] # "unused"

\* What an invoice records and what a request carries: a session of that invoice.
HeldInv ==
    /\ \A i \in Invoices : current[i] # NoSession => subject[current[i]] = i
    /\ \A q \in Requests :
          /\ paymentPc[q] # "idle" => invoice[q] \in Invoices
          /\ paymentPc[q] \in {"reuse", "store", "retrieve"} =>
                session[q] \in Sessions /\ subject[session[q]] = invoice[q]

\* What PaymentsAlone says of a state.
Apart ==
    \A q, o \in Requests : q # o =>
        /\ paymentPc[q] \in {"send", "remind"} => paymentPc[o] = "idle"
        /\ paymentPc[q] \in Opening => paymentPc[o] \notin Opening

\* What the admin is about to write does not undo a payment.
PendingInv ==
    \A q \in Requests :
        paymentPc[q] \in {"send", "remind"} => invoiceStatus[invoice[q]] # "paid"

\* One request makes the transition to paid, and it alone confirms it.
ConfirmInv ==
    /\ \A i \in Invoices :
          confirmed[i] <= 1 /\ (invoiceStatus[i] # "paid" => confirmed[i] = 0)
    /\ \A q \in Requests : paymentPc[q] = "notify" =>
          /\ invoiceStatus[invoice[q]] = "paid"
          /\ confirmed[invoice[q]] = 0
          /\ \A o \in Requests : paymentPc[o] = "notify" /\ invoice[o] = invoice[q] => o = q

\* The session recorded on an invoice can no longer be paid.
Closed(i) == current[i] # NoSession => stripe[current[i]] # "open"

\* An open session is the one its invoice records, or a request is about to record it; one
\* that creates or records a session has seen the recorded one closed.
OpenInv ==
    /\ \A s \in Sessions : stripe[s] = "open" =>
          \/ current[subject[s]] = s
          \/ \E q \in Requests : paymentPc[q] = "store" /\ session[q] = s
    /\ \A q \in Requests :
          /\ paymentPc[q] = "reuse" => session[q] = current[invoice[q]]
          /\ paymentPc[q] \in {"create", "store"} => Closed(invoice[q])

\* A step in which no request is lost.
NobodyDies == crashes' = crashes

\* The inductive invariant of the payments; OpenInv is kept where nobody dies.
CheckoutInv == I!TypeOK /\ SessionInv /\ HeldInv /\ Apart /\ PendingInv /\ ConfirmInv

-----------------------------------------------------------------------------
(* The steps of the payments *)

\* The I!locals of a request keep their types when it takes one, goes on, or ends.
LEMMA LocalTypes ==
    ASSUME I!TypeOK, NEW q \in Requests
    PROVE  LET Typed == /\ paymentPc' \in [Requests -> {"idle", "send", "remind", "reuse", "create",
                                                   "store", "retrieve", "mark", "notify"}]
                        /\ invoice' \in [Requests -> Invoices \cup {NoInvoice}]
                        /\ session' \in [Requests -> Sessions \cup {NoSession}]
                        /\ answers' \in [Requests -> BOOLEAN]
           IN  /\ I!Finish(q) => Typed
               /\ I!Goto(q, "create") \/ I!Goto(q, "mark") \/ I!Goto(q, "notify") =>
                      Typed /\ crashes' = crashes
  BY DEF I!TypeOK, I!Finish, I!Goto, I!locals

LEMMA AcknowledgedType ==
    ASSUME I!TypeOK, NEW q \in Requests
    PROVE  I!Acknowledged(q) \in [Sessions -> SUBSET {"pending", "paid", "failed"}]
  BY DEF I!TypeOK, I!Acknowledged

\* Every step keeps the types.
LEMMA PaymentTypeStep == I!TypeOK /\ [I!Next]_(I!vars) => I!TypeOK'
  <1> SUFFICES ASSUME I!TypeOK, [I!Next]_(I!vars) PROVE I!TypeOK'  OBVIOUS
  <1> USE StagesAssumption DEF I!PaymentAssumption, I!TypeOK, I!billing, I!external, I!locals
  <1>1. ASSUME NEW q \in Requests, I!Continue(q) PROVE I!TypeOK'
    <2>1. CASE I!MarkSent(q)  BY <2>1 DEF I!MarkSent, I!Finish
    <2>2. CASE I!MarkOverdue(q)  BY <2>2 DEF I!MarkOverdue, I!Finish
    <2>3. CASE I!ReuseSession(q)  BY <2>3, LocalTypes DEF I!ReuseSession
    <2>4. CASE I!CreateSession(q)  BY <2>4 DEF I!CreateSession
    <2>5. CASE I!RefuseSession(q)  BY <2>5 DEF I!RefuseSession, I!Finish
    <2>6. CASE I!StoreSession(q)  BY <2>6 DEF I!StoreSession, I!Finish
    <2>7. CASE I!RetrieveSession(q)  BY <2>7, LocalTypes DEF I!RetrieveSession
    <2>8. CASE I!MarkPaid(q)
      <3>1. CASE I!Payable(invoice[q])
        <4>1. /\ invoiceStatus' = [invoiceStatus EXCEPT ![invoice[q]] = "paid"]
              /\ intent' = IF session[q] = NoSession THEN intent
                           ELSE [intent EXCEPT ![invoice[q]] = session[q]]
              /\ I!Goto(q, "notify")
              /\ UNCHANGED <<acked, stripeConfigured, current, confirmed, stripe, subject, sent>>
          BY <2>8, <3>1 DEF I!MarkPaid
        <4>2. invoiceStatus' \in [Invoices -> {"draft", "sent", "overdue", "paid"}]  BY <4>1
        <4>3. session[q] \in Sessions \cup {NoSession}  OBVIOUS
        <4>4. intent' \in [Invoices -> Sessions \cup {NoSession}]  BY <4>1, <4>3
        <4> QED BY <4>1, <4>2, <4>4, LocalTypes
      <3>2. CASE ~I!Payable(invoice[q])
        <4>1. /\ acked' \in {acked, I!Acknowledged(q)}
              /\ I!Finish(q)
              /\ UNCHANGED <<invoiceStatus, intent, crashes, stripeConfigured, current, confirmed,
                             stripe, subject, sent>>
          BY <2>8, <3>2 DEF I!MarkPaid
        <4>2. acked' \in [Sessions -> SUBSET {"pending", "paid", "failed"}]
          BY <4>1, AcknowledgedType
        <4> QED BY <4>1, <4>2, LocalTypes
      <3> QED BY <3>1, <3>2
    <2>9. CASE I!NotifyPaid(q)
      <3>1. confirmed' \in [Invoices -> 0..2]
        <4> DEFINE more == IF confirmed[invoice[q]] < 2 THEN confirmed[invoice[q]] + 1
                                                        ELSE confirmed[invoice[q]]
        <4>1. confirmed' = [confirmed EXCEPT ![invoice[q]] = more]  BY <2>9 DEF I!NotifyPaid
        <4>2. invoice[q] \in Invoices => more \in 0..2  OBVIOUS
        <4> HIDE DEF more
        <4> QED BY <4>1, <4>2
      <3>2. I!Finish(q)  BY <2>9 DEF I!NotifyPaid
      <3> QED BY <2>9, <3>1, <3>2, LocalTypes, AcknowledgedType DEF I!NotifyPaid
    <2> QED BY <1>1, <2>1, <2>2, <2>3, <2>4, <2>5, <2>6, <2>7, <2>8, <2>9 DEF I!Continue
  <1>2. ASSUME NEW q \in Requests, NEW i \in Invoices,
               I!ReadForSend(q, i) \/ I!ReadForReminder(q, i) \/ I!ReadForCheckout(q, i)
                   \/ I!ReadForConfirm(q, i) \/ I!ReadForPay(q, i)
        PROVE I!TypeOK'
    <2>1. CASE I!ReadForSend(q, i)  BY <2>1 DEF I!ReadForSend, I!Begin
    <2>2. CASE I!ReadForReminder(q, i)  BY <2>2 DEF I!ReadForReminder, I!Begin, I!Payable
    <2>3. CASE I!ReadForCheckout(q, i)  BY <2>3 DEF I!ReadForCheckout, I!Begin, I!Payable
    <2>4. CASE I!ReadForConfirm(q, i)  BY <2>4 DEF I!ReadForConfirm, I!Begin
    <2>5. CASE I!ReadForPay(q, i)  BY <2>5 DEF I!ReadForPay, I!Begin, I!Payable
    <2> QED BY <1>2, <2>1, <2>2, <2>3, <2>4, <2>5
  <1>3. ASSUME NEW q \in Requests, NEW s \in Sessions, I!ReceiveEvent(q, s) PROVE I!TypeOK'
    <2>1. PICK ev \in sent[s] :
              /\ IF ev # "paid"
                 THEN acked' = [acked EXCEPT ![s] = @ \cup {ev}] /\ UNCHANGED <<paymentPc, I!locals>>
                 ELSE /\ I!Begin(q, subject[s], s, "mark")
                      /\ answers' = [answers EXCEPT ![q] = TRUE]
                      /\ UNCHANGED acked
              /\ UNCHANGED <<stripeConfigured, I!billing, stripe, subject, sent, crashes>>
      BY <1>3 DEF I!ReceiveEvent
    <2>2. CASE ev # "paid"
      <3>1. acked' = [acked EXCEPT ![s] = @ \cup {ev}] /\ UNCHANGED <<paymentPc, I!locals>>
        BY <2>1, <2>2
      <3>2. ev \in {"pending", "paid", "failed"}  OBVIOUS
      <3>3. acked' \in [Sessions -> SUBSET {"pending", "paid", "failed"}]  BY <3>1, <3>2
      <3> QED BY <2>1, <3>1, <3>3
    <2>3. CASE ev = "paid"
      <3>1. /\ paymentPc' = [paymentPc EXCEPT ![q] = "mark"]
            /\ invoice' = [invoice EXCEPT ![q] = subject[s]]
            /\ session' = [session EXCEPT ![q] = s]
            /\ answers' = [answers EXCEPT ![q] = TRUE]
            /\ UNCHANGED acked
        BY <2>1, <2>3 DEF I!Begin
      <3>2. subject[s] \in Invoices \cup {NoInvoice}  OBVIOUS
      <3>3. /\ invoice' \in [Requests -> Invoices \cup {NoInvoice}]
            /\ session' \in [Requests -> Sessions \cup {NoSession}]
        BY <3>1, <3>2
      <3>4. /\ paymentPc' \in [Requests -> {"idle", "send", "remind", "reuse", "create", "store",
                                     "retrieve", "mark", "notify"}]
            /\ answers' \in [Requests -> BOOLEAN]
        BY <3>1
      <3> QED BY <2>1, <3>1, <3>3, <3>4
    <2> QED BY <2>2, <2>3
  <1>4. ASSUME NEW q \in Requests, I!Die(q) PROVE I!TypeOK'  BY <1>4 DEF I!Die, I!Finish
  <1>5. ASSUME NEW s \in Sessions, I!CompleteCheckout(s) \/ I!SettleDeferred(s) \/ I!ExpireSession(s)
        PROVE I!TypeOK'
    <2>1. CASE I!CompleteCheckout(s)  BY <2>1 DEF I!CompleteCheckout
    <2>2. CASE I!SettleDeferred(s)  BY <2>2 DEF I!SettleDeferred
    <2>3. CASE I!ExpireSession(s)  BY <2>3 DEF I!ExpireSession
    <2> QED BY <1>5, <2>1, <2>2, <2>3
  <1>6. CASE UNCHANGED I!vars  BY <1>6 DEF I!vars
  <1> QED BY <1>1, <1>2, <1>3, <1>4, <1>5, <1>6 DEF I!Next, I!Serve

\* Every step keeps SessionInv.
LEMMA SessionStep == CheckoutInv /\ [I!Next]_(I!vars) => SessionInv'
  <1> SUFFICES ASSUME CheckoutInv, [I!Next]_(I!vars) PROVE SessionInv'  OBVIOUS
  <1> USE StagesAssumption DEF I!PaymentAssumption, CheckoutInv, I!TypeOK, SessionInv, HeldInv,
          I!billing, I!external, I!locals
  <1>1. ASSUME NEW q \in Requests, I!Continue(q) PROVE SessionInv'
    <2>1. CASE I!MarkSent(q)  BY <2>1 DEF I!MarkSent, I!Finish
    <2>2. CASE I!MarkOverdue(q)  BY <2>2 DEF I!MarkOverdue, I!Finish
    <2>3. CASE I!ReuseSession(q)  BY <2>3 DEF I!ReuseSession, I!Finish, I!Goto
    <2>4. CASE I!CreateSession(q)  BY <2>4 DEF I!CreateSession
    <2>5. CASE I!RefuseSession(q)  BY <2>5 DEF I!RefuseSession, I!Finish
    <2>6. CASE I!StoreSession(q)  BY <2>6 DEF I!StoreSession, I!Finish
    <2>7. CASE I!RetrieveSession(q)  BY <2>7 DEF I!RetrieveSession, I!Finish, I!Goto
    <2>8. CASE I!MarkPaid(q)  BY <2>8 DEF I!MarkPaid, I!Finish, I!Goto, I!Acknowledged, I!Payable
    <2>9. CASE I!NotifyPaid(q)  BY <2>9 DEF I!NotifyPaid, I!Finish, I!Acknowledged
    <2> QED BY <1>1, <2>1, <2>2, <2>3, <2>4, <2>5, <2>6, <2>7, <2>8, <2>9 DEF I!Continue
  <1>2. ASSUME NEW q \in Requests, NEW i \in Invoices,
               I!ReadForSend(q, i) \/ I!ReadForReminder(q, i) \/ I!ReadForCheckout(q, i)
                   \/ I!ReadForConfirm(q, i) \/ I!ReadForPay(q, i)
        PROVE SessionInv'
    <2>1. CASE I!ReadForSend(q, i)  BY <2>1 DEF I!ReadForSend, I!Begin, I!Payable
    <2>2. CASE I!ReadForReminder(q, i)  BY <2>2 DEF I!ReadForReminder, I!Begin, I!Payable
    <2>3. CASE I!ReadForCheckout(q, i)  BY <2>3 DEF I!ReadForCheckout, I!Begin, I!Payable
    <2>4. CASE I!ReadForConfirm(q, i)  BY <2>4 DEF I!ReadForConfirm, I!Begin, I!Payable
    <2>5. CASE I!ReadForPay(q, i)  BY <2>5 DEF I!ReadForPay, I!Begin, I!Payable
    <2> QED BY <1>2, <2>1, <2>2, <2>3, <2>4, <2>5
  <1>3. ASSUME NEW q \in Requests, NEW s \in Sessions, I!ReceiveEvent(q, s) PROVE SessionInv'
    BY <1>3 DEF I!ReceiveEvent, I!Begin
  <1>4. ASSUME NEW q \in Requests, I!Die(q) PROVE SessionInv'  BY <1>4 DEF I!Die, I!Finish
  <1>5. ASSUME NEW s \in Sessions,
               I!CompleteCheckout(s) \/ I!SettleDeferred(s) \/ I!ExpireSession(s)
        PROVE SessionInv'
    <2>1. CASE I!CompleteCheckout(s)  BY <2>1 DEF I!CompleteCheckout
    <2>2. CASE I!SettleDeferred(s)  BY <2>2 DEF I!SettleDeferred
    <2>3. CASE I!ExpireSession(s)  BY <2>3 DEF I!ExpireSession
    <2> QED BY <1>5, <2>1, <2>2, <2>3
  <1>6. CASE UNCHANGED I!vars  BY <1>6 DEF I!vars
  <1> QED BY <1>1, <1>2, <1>3, <1>4, <1>5, <1>6 DEF I!Next, I!Serve

\* Every step keeps HeldInv.
LEMMA HeldStep == CheckoutInv /\ [I!Next]_(I!vars) => HeldInv'
  <1> SUFFICES ASSUME CheckoutInv, [I!Next]_(I!vars) PROVE HeldInv'  OBVIOUS
  <1> USE StagesAssumption DEF I!PaymentAssumption, CheckoutInv, I!TypeOK, SessionInv, HeldInv,
          I!billing, I!external, I!locals
  <1>1. ASSUME NEW q \in Requests, I!Continue(q) PROVE HeldInv'
    <2>1. CASE I!MarkSent(q)  BY <2>1 DEF I!MarkSent, I!Finish
    <2>2. CASE I!MarkOverdue(q)  BY <2>2 DEF I!MarkOverdue, I!Finish
    <2>3. CASE I!ReuseSession(q)  BY <2>3 DEF I!ReuseSession, I!Finish, I!Goto
    <2>4. CASE I!CreateSession(q)  BY <2>4 DEF I!CreateSession
    <2>5. CASE I!RefuseSession(q)  BY <2>5 DEF I!RefuseSession, I!Finish
    <2>6. CASE I!StoreSession(q)  BY <2>6 DEF I!StoreSession, I!Finish
    <2>7. CASE I!RetrieveSession(q)  BY <2>7 DEF I!RetrieveSession, I!Finish, I!Goto
    <2>8. CASE I!MarkPaid(q)  BY <2>8 DEF I!MarkPaid, I!Finish, I!Goto, I!Acknowledged, I!Payable
    <2>9. CASE I!NotifyPaid(q)  BY <2>9 DEF I!NotifyPaid, I!Finish, I!Acknowledged
    <2> QED BY <1>1, <2>1, <2>2, <2>3, <2>4, <2>5, <2>6, <2>7, <2>8, <2>9 DEF I!Continue
  <1>2. ASSUME NEW q \in Requests, NEW i \in Invoices,
               I!ReadForSend(q, i) \/ I!ReadForReminder(q, i) \/ I!ReadForCheckout(q, i)
                   \/ I!ReadForConfirm(q, i) \/ I!ReadForPay(q, i)
        PROVE HeldInv'
    <2>1. CASE I!ReadForSend(q, i)  BY <2>1 DEF I!ReadForSend, I!Begin, I!Payable
    <2>2. CASE I!ReadForReminder(q, i)  BY <2>2 DEF I!ReadForReminder, I!Begin, I!Payable
    <2>3. CASE I!ReadForCheckout(q, i)  BY <2>3 DEF I!ReadForCheckout, I!Begin, I!Payable
    <2>4. CASE I!ReadForConfirm(q, i)  BY <2>4 DEF I!ReadForConfirm, I!Begin, I!Payable
    <2>5. CASE I!ReadForPay(q, i)  BY <2>5 DEF I!ReadForPay, I!Begin, I!Payable
    <2> QED BY <1>2, <2>1, <2>2, <2>3, <2>4, <2>5
  <1>3. ASSUME NEW q \in Requests, NEW s \in Sessions, I!ReceiveEvent(q, s) PROVE HeldInv'
    BY <1>3 DEF I!ReceiveEvent, I!Begin
  <1>4. ASSUME NEW q \in Requests, I!Die(q) PROVE HeldInv'  BY <1>4 DEF I!Die, I!Finish
  <1>5. ASSUME NEW s \in Sessions,
               I!CompleteCheckout(s) \/ I!SettleDeferred(s) \/ I!ExpireSession(s)
        PROVE HeldInv'
    <2>1. CASE I!CompleteCheckout(s)  BY <2>1 DEF I!CompleteCheckout
    <2>2. CASE I!SettleDeferred(s)  BY <2>2 DEF I!SettleDeferred
    <2>3. CASE I!ExpireSession(s)  BY <2>3 DEF I!ExpireSession
    <2> QED BY <1>5, <2>1, <2>2, <2>3
  <1>6. CASE UNCHANGED I!vars  BY <1>6 DEF I!vars
  <1> QED BY <1>1, <1>2, <1>3, <1>4, <1>5, <1>6 DEF I!Next, I!Serve

\* Every step that leaves the admin's requests alone keeps PendingInv.
LEMMA PendingStep == CheckoutInv /\ Apart' /\ [I!Next]_(I!vars) => PendingInv'
  <1> SUFFICES ASSUME CheckoutInv, Apart', [I!Next]_(I!vars) PROVE PendingInv'  OBVIOUS
  <1> USE StagesAssumption DEF I!PaymentAssumption, CheckoutInv, I!TypeOK, HeldInv, PendingInv,
          Apart, I!billing, I!external, I!locals
  <1>1. ASSUME NEW q \in Requests, I!Continue(q) PROVE PendingInv'
    <2>1. CASE I!MarkSent(q)  BY <2>1 DEF I!MarkSent, I!Finish
    <2>2. CASE I!MarkOverdue(q)  BY <2>2 DEF I!MarkOverdue, I!Finish
    <2>3. CASE I!ReuseSession(q)  BY <2>3 DEF I!ReuseSession, I!Finish, I!Goto
    <2>4. CASE I!CreateSession(q)  BY <2>4 DEF I!CreateSession
    <2>5. CASE I!RefuseSession(q)  BY <2>5 DEF I!RefuseSession, I!Finish
    <2>6. CASE I!StoreSession(q)  BY <2>6 DEF I!StoreSession, I!Finish
    <2>7. CASE I!RetrieveSession(q)  BY <2>7 DEF I!RetrieveSession, I!Finish, I!Goto
    <2>8. CASE I!MarkPaid(q)  BY <2>8 DEF I!MarkPaid, I!Finish, I!Goto, I!Acknowledged, I!Payable
    <2>9. CASE I!NotifyPaid(q)  BY <2>9 DEF I!NotifyPaid, I!Finish, I!Acknowledged
    <2> QED BY <1>1, <2>1, <2>2, <2>3, <2>4, <2>5, <2>6, <2>7, <2>8, <2>9 DEF I!Continue
  <1>2. ASSUME NEW q \in Requests, NEW i \in Invoices,
               I!ReadForSend(q, i) \/ I!ReadForReminder(q, i) \/ I!ReadForCheckout(q, i)
                   \/ I!ReadForConfirm(q, i) \/ I!ReadForPay(q, i)
        PROVE PendingInv'
    <2>1. CASE I!ReadForSend(q, i)  BY <2>1 DEF I!ReadForSend, I!Begin, I!Payable
    <2>2. CASE I!ReadForReminder(q, i)  BY <2>2 DEF I!ReadForReminder, I!Begin, I!Payable
    <2>3. CASE I!ReadForCheckout(q, i)  BY <2>3 DEF I!ReadForCheckout, I!Begin, I!Payable
    <2>4. CASE I!ReadForConfirm(q, i)  BY <2>4 DEF I!ReadForConfirm, I!Begin, I!Payable
    <2>5. CASE I!ReadForPay(q, i)  BY <2>5 DEF I!ReadForPay, I!Begin, I!Payable
    <2> QED BY <1>2, <2>1, <2>2, <2>3, <2>4, <2>5
  <1>3. ASSUME NEW q \in Requests, NEW s \in Sessions, I!ReceiveEvent(q, s) PROVE PendingInv'
    BY <1>3 DEF I!ReceiveEvent, I!Begin
  <1>4. ASSUME NEW q \in Requests, I!Die(q) PROVE PendingInv'  BY <1>4 DEF I!Die, I!Finish
  <1>5. ASSUME NEW s \in Sessions,
               I!CompleteCheckout(s) \/ I!SettleDeferred(s) \/ I!ExpireSession(s)
        PROVE PendingInv'
    <2>1. CASE I!CompleteCheckout(s)  BY <2>1 DEF I!CompleteCheckout
    <2>2. CASE I!SettleDeferred(s)  BY <2>2 DEF I!SettleDeferred
    <2>3. CASE I!ExpireSession(s)  BY <2>3 DEF I!ExpireSession
    <2> QED BY <1>5, <2>1, <2>2, <2>3
  <1>6. CASE UNCHANGED I!vars  BY <1>6 DEF I!vars
  <1> QED BY <1>1, <1>2, <1>3, <1>4, <1>5, <1>6 DEF I!Next, I!Serve

\* Every step that leaves the admin's requests alone keeps ConfirmInv.
LEMMA ConfirmStep == CheckoutInv /\ [I!Next]_(I!vars) => ConfirmInv'
  <1> SUFFICES ASSUME CheckoutInv, [I!Next]_(I!vars) PROVE ConfirmInv'  OBVIOUS
  <1> USE StagesAssumption DEF I!PaymentAssumption, CheckoutInv, I!TypeOK, HeldInv, PendingInv,
          Apart, ConfirmInv, I!billing, I!external, I!locals
  <1>1. ASSUME NEW q \in Requests, I!Continue(q) PROVE ConfirmInv'
    <2>1. CASE I!MarkSent(q)  BY <2>1 DEF I!MarkSent, I!Finish
    <2>2. CASE I!MarkOverdue(q)  BY <2>2 DEF I!MarkOverdue, I!Finish
    <2>3. CASE I!ReuseSession(q)  BY <2>3 DEF I!ReuseSession, I!Finish, I!Goto
    <2>4. CASE I!CreateSession(q)  BY <2>4 DEF I!CreateSession
    <2>5. CASE I!RefuseSession(q)  BY <2>5 DEF I!RefuseSession, I!Finish
    <2>6. CASE I!StoreSession(q)  BY <2>6 DEF I!StoreSession, I!Finish
    <2>7. CASE I!RetrieveSession(q)  BY <2>7 DEF I!RetrieveSession, I!Finish, I!Goto
    <2>8. CASE I!MarkPaid(q)  BY <2>8 DEF I!MarkPaid, I!Finish, I!Goto, I!Acknowledged, I!Payable
    <2>9. CASE I!NotifyPaid(q)  BY <2>9 DEF I!NotifyPaid, I!Finish, I!Acknowledged
    <2> QED BY <1>1, <2>1, <2>2, <2>3, <2>4, <2>5, <2>6, <2>7, <2>8, <2>9 DEF I!Continue
  <1>2. ASSUME NEW q \in Requests, NEW i \in Invoices,
               I!ReadForSend(q, i) \/ I!ReadForReminder(q, i) \/ I!ReadForCheckout(q, i)
                   \/ I!ReadForConfirm(q, i) \/ I!ReadForPay(q, i)
        PROVE ConfirmInv'
    <2>1. CASE I!ReadForSend(q, i)  BY <2>1 DEF I!ReadForSend, I!Begin, I!Payable
    <2>2. CASE I!ReadForReminder(q, i)  BY <2>2 DEF I!ReadForReminder, I!Begin, I!Payable
    <2>3. CASE I!ReadForCheckout(q, i)  BY <2>3 DEF I!ReadForCheckout, I!Begin, I!Payable
    <2>4. CASE I!ReadForConfirm(q, i)  BY <2>4 DEF I!ReadForConfirm, I!Begin, I!Payable
    <2>5. CASE I!ReadForPay(q, i)  BY <2>5 DEF I!ReadForPay, I!Begin, I!Payable
    <2> QED BY <1>2, <2>1, <2>2, <2>3, <2>4, <2>5
  <1>3. ASSUME NEW q \in Requests, NEW s \in Sessions, I!ReceiveEvent(q, s) PROVE ConfirmInv'
    BY <1>3 DEF I!ReceiveEvent, I!Begin
  <1>4. ASSUME NEW q \in Requests, I!Die(q) PROVE ConfirmInv'  BY <1>4 DEF I!Die, I!Finish
  <1>5. ASSUME NEW s \in Sessions,
               I!CompleteCheckout(s) \/ I!SettleDeferred(s) \/ I!ExpireSession(s)
        PROVE ConfirmInv'
    <2>1. CASE I!CompleteCheckout(s)  BY <2>1 DEF I!CompleteCheckout
    <2>2. CASE I!SettleDeferred(s)  BY <2>2 DEF I!SettleDeferred
    <2>3. CASE I!ExpireSession(s)  BY <2>3 DEF I!ExpireSession
    <2> QED BY <1>5, <2>1, <2>2, <2>3
  <1>6. CASE UNCHANGED I!vars  BY <1>6 DEF I!vars
  <1> QED BY <1>1, <1>2, <1>3, <1>4, <1>5, <1>6 DEF I!Next, I!Serve

\* Where nobody dies, a step keeps OpenInv.
LEMMA OpenStep == CheckoutInv /\ OpenInv /\ Apart' /\ NobodyDies /\ [I!Next]_(I!vars) => OpenInv'
  <1> SUFFICES ASSUME CheckoutInv, OpenInv, Apart', NobodyDies, [I!Next]_(I!vars)
               PROVE  OpenInv'
    OBVIOUS
  <1> USE StagesAssumption DEF I!PaymentAssumption, CheckoutInv, I!TypeOK, SessionInv, HeldInv,
          Apart, OpenInv, Closed, NobodyDies, I!billing, I!external, I!locals
  <1>1. ASSUME NEW q \in Requests, I!Continue(q) PROVE OpenInv'
    <2>1. CASE I!MarkSent(q)  BY <2>1 DEF I!MarkSent, I!Finish
    <2>2. CASE I!MarkOverdue(q)  BY <2>2 DEF I!MarkOverdue, I!Finish
    <2>3. CASE I!ReuseSession(q)  BY <2>3 DEF I!ReuseSession, I!Finish, I!Goto
    <2>4. CASE I!CreateSession(q)  BY <2>4 DEF I!CreateSession
    <2>5. CASE I!RefuseSession(q)  BY <2>5 DEF I!RefuseSession, I!Finish
    <2>6. CASE I!StoreSession(q)
      <3> DEFINE i == invoice[q]
      <3>1. /\ paymentPc[q] = "store" /\ i \in Invoices
            /\ current' = [current EXCEPT ![i] = session[q]]
            /\ paymentPc' = [paymentPc EXCEPT ![q] = "idle"]
            /\ \A o \in Requests : o # q => session'[o] = session[o] /\ invoice'[o] = invoice[o]
            /\ UNCHANGED <<stripe, subject>>
        BY <2>6 DEF I!StoreSession, I!Finish
      <3>2. \A o \in Requests : o # q => paymentPc[o] \notin Opening
        BY <3>1 DEF Opening
      <3>3. ASSUME NEW s \in Sessions, stripe[s] = "open"
            PROVE  current'[subject[s]] = s
        <4>1. subject[s] \in Invoices  BY <3>3
        <4>2. CASE current[subject[s]] = s
          <5>1. subject[s] # i  BY <3>1, <3>3, <4>2
          <5> QED BY <3>1, <4>1, <4>2, <5>1
        <4>3. CASE \E o \in Requests : paymentPc[o] = "store" /\ session[o] = s
          <5>1. session[q] = s  BY <3>2, <4>3 DEF Opening
          <5>2. subject[s] = i  BY <3>1, <5>1
          <5> QED BY <3>1, <5>1, <5>2
        <4> QED BY <3>3, <4>2, <4>3
      <3>4. \A o \in Requests : paymentPc'[o] \notin Opening  BY <3>1, <3>2 DEF Opening
      <3> HIDE DEF i
      <3> QED BY <3>1, <3>3, <3>4 DEF Opening
    <2>7. CASE I!RetrieveSession(q)  BY <2>7 DEF I!RetrieveSession, I!Finish, I!Goto
    <2>8. CASE I!MarkPaid(q)  BY <2>8 DEF I!MarkPaid, I!Finish, I!Goto, I!Acknowledged, I!Payable
    <2>9. CASE I!NotifyPaid(q)  BY <2>9 DEF I!NotifyPaid, I!Finish, I!Acknowledged
    <2> QED BY <1>1, <2>1, <2>2, <2>3, <2>4, <2>5, <2>6, <2>7, <2>8, <2>9 DEF I!Continue
  <1>2. ASSUME NEW q \in Requests, NEW i \in Invoices,
               I!ReadForSend(q, i) \/ I!ReadForReminder(q, i) \/ I!ReadForCheckout(q, i)
                   \/ I!ReadForConfirm(q, i) \/ I!ReadForPay(q, i)
        PROVE OpenInv'
    <2>1. CASE I!ReadForSend(q, i)  BY <2>1 DEF I!ReadForSend, I!Begin, I!Payable
    <2>2. CASE I!ReadForReminder(q, i)  BY <2>2 DEF I!ReadForReminder, I!Begin, I!Payable
    <2>3. CASE I!ReadForCheckout(q, i)  BY <2>3 DEF I!ReadForCheckout, I!Begin, I!Payable
    <2>4. CASE I!ReadForConfirm(q, i)  BY <2>4 DEF I!ReadForConfirm, I!Begin, I!Payable
    <2>5. CASE I!ReadForPay(q, i)  BY <2>5 DEF I!ReadForPay, I!Begin, I!Payable
    <2> QED BY <1>2, <2>1, <2>2, <2>3, <2>4, <2>5
  <1>3. ASSUME NEW q \in Requests, NEW s \in Sessions, I!ReceiveEvent(q, s) PROVE OpenInv'
    BY <1>3 DEF I!ReceiveEvent, I!Begin
  <1>4. ASSUME NEW q \in Requests, I!Die(q) PROVE OpenInv'  BY <1>4 DEF I!Die, I!Finish
  <1>5. ASSUME NEW s \in Sessions,
               I!CompleteCheckout(s) \/ I!SettleDeferred(s) \/ I!ExpireSession(s)
        PROVE OpenInv'
    <2>1. CASE I!CompleteCheckout(s)  BY <2>1 DEF I!CompleteCheckout
    <2>2. CASE I!SettleDeferred(s)  BY <2>2 DEF I!SettleDeferred
    <2>3. CASE I!ExpireSession(s)  BY <2>3 DEF I!ExpireSession
    <2> QED BY <1>5, <2>1, <2>2, <2>3
  <1>6. CASE UNCHANGED I!vars  BY <1>6 DEF I!vars
  <1> QED BY <1>1, <1>2, <1>3, <1>4, <1>5, <1>6 DEF I!Next, I!Serve

-----------------------------------------------------------------------------
(* The payments of Stages *)

\* A behaviour of Stages runs the requests of the payments, or leaves them alone.
LEMMA PaymentsRun == [StagesNext]_stagesVars => [I!Next]_(I!vars)
  BY DEF StagesNext, stagesVars, paymentVars, I!vars

\* The constraint keeps apart what it found apart.
LEMMA KeepsApart == Apart /\ [PaymentsAlone]_stagesVars => Apart'
  BY DEF Apart, PaymentsAlone, Opening, stagesVars, paymentVars

\* Nothing is paid, open or under way at first.
LEMMA CheckoutInit == StagesInit => CheckoutInv /\ OpenInv
  BY StagesAssumption DEF StagesInit, I!Init, I!PaymentAssumption, CheckoutInv, I!TypeOK,
     SessionInv, HeldInv, Apart, PendingInv, ConfirmInv, OpenInv, Opening

\* The inductive step, crashes included.
LEMMA CheckoutStep ==
    CheckoutInv /\ [StagesNext]_stagesVars /\ [PaymentsAlone]_stagesVars => CheckoutInv'
  <1> SUFFICES ASSUME CheckoutInv, [StagesNext]_stagesVars, [PaymentsAlone]_stagesVars
               PROVE  CheckoutInv'
    OBVIOUS
  <1>1. [I!Next]_(I!vars)  BY PaymentsRun
  <1>2. Apart'  BY KeepsApart DEF CheckoutInv
  <1>3. I!TypeOK'  BY <1>1, PaymentTypeStep DEF CheckoutInv
  <1>4. SessionInv' /\ HeldInv' /\ PendingInv' /\ ConfirmInv'
    BY <1>1, <1>2, SessionStep, HeldStep, PendingStep, ConfirmStep
  <1> QED BY <1>2, <1>3, <1>4 DEF CheckoutInv

\* billingService.js: while the admin's requests run alone, whatever reports, repeats or
\* simulates a payment, a paid invoice stays paid.
THEOREM PaidStaysPaid == StagesSpec /\ [][PaymentsAlone]_stagesVars => PaidIsFinal
  <1> DEFINE Kept == \A i \in Invoices : invoiceStatus[i] = "paid" => invoiceStatus'[i] = "paid"
  <1>1. StagesInit => CheckoutInv  BY CheckoutInit
  <1>2. CheckoutInv /\ [StagesNext]_stagesVars /\ [PaymentsAlone]_stagesVars => CheckoutInv'
    BY CheckoutStep
  <1>3. CheckoutInv /\ [StagesNext]_stagesVars => [Kept]_(I!vars)
    <2> SUFFICES ASSUME CheckoutInv, [StagesNext]_stagesVars PROVE [Kept]_(I!vars)  OBVIOUS
    <2>1. [I!Next]_(I!vars)  BY PaymentsRun
    <2> USE DEF CheckoutInv, I!TypeOK, HeldInv, PendingInv, I!billing, I!external, I!locals
    <2>2. ASSUME NEW q \in Requests, I!Continue(q) PROVE Kept
      BY <2>2 DEF I!Continue, I!MarkSent, I!MarkOverdue, I!ReuseSession, I!CreateSession,
         I!RefuseSession, I!StoreSession, I!RetrieveSession, I!MarkPaid, I!NotifyPaid
    <2>3. ASSUME NEW q \in Requests, I!Serve(q) \/ I!Die(q) PROVE Kept
      BY <2>3 DEF I!Serve, I!Die, I!ReadForSend, I!ReadForReminder, I!ReadForCheckout,
         I!ReadForConfirm, I!ReadForPay, I!ReceiveEvent
    <2>4. ASSUME NEW s \in Sessions,
                 I!CompleteCheckout(s) \/ I!SettleDeferred(s) \/ I!ExpireSession(s)
          PROVE  Kept
      BY <2>4 DEF I!CompleteCheckout, I!SettleDeferred, I!ExpireSession
    <2> QED BY <2>1, <2>2, <2>3, <2>4 DEF I!Next
  <1> QED BY <1>1, <1>2, <1>3, PTL DEF StagesSpec, PaidIsFinal, I!PaidIsFinal

\* paymentService.js, billingService.js: where moreover no request dies between the creation
\* of a session and its record, an invoice never has two open sessions; and it is confirmed
\* once, however many reports of its payment overlap.
THEOREM CheckoutStaysSound ==
    StagesSpec /\ [][PaymentsAlone /\ NobodyDies]_stagesVars => []CheckoutIsSound
  <1> DEFINE Inv == CheckoutInv /\ OpenInv
  <1>1. StagesInit => Inv  BY CheckoutInit
  <1>2. Inv /\ [StagesNext]_stagesVars /\ [PaymentsAlone /\ NobodyDies]_stagesVars => Inv'
    <2> SUFFICES ASSUME Inv, [StagesNext]_stagesVars, [PaymentsAlone /\ NobodyDies]_stagesVars
                 PROVE  Inv'
      OBVIOUS
    <2>1. [PaymentsAlone]_stagesVars  OBVIOUS
    <2>2. NobodyDies  BY DEF NobodyDies, stagesVars, paymentVars
    <2>3. CheckoutInv' /\ Apart'  BY <2>1, CheckoutStep DEF CheckoutInv
    <2>4. OpenInv'  BY <2>2, <2>3, PaymentsRun, OpenStep
    <2> QED BY <2>3, <2>4
  <1>3. ASSUME Inv PROVE I!OnePayableSession
    <2> SUFFICES ASSUME NEW s1 \in Sessions, NEW s2 \in Sessions, stripe[s1] = "open",
                        stripe[s2] = "open", subject[s1] = subject[s2]
                 PROVE  s1 = s2
      BY DEF I!OnePayableSession
    <2> DEFINE Stored(s) == \E q \in Requests : paymentPc[q] = "store" /\ session[q] = s
    <2>1. subject[s1] \in Invoices
      BY <1>3 DEF CheckoutInv, I!TypeOK, SessionInv
    <2>2. \A s \in {s1, s2} : current[subject[s1]] = s \/ Stored(s)
      BY <1>3 DEF OpenInv
    <2>3. \A s \in {s1, s2} : Stored(s) => current[subject[s1]] \notin {s1, s2}
      <3> SUFFICES ASSUME NEW s \in {s1, s2}, NEW q \in Requests, paymentPc[q] = "store",
                          session[q] = s
                   PROVE  current[subject[s1]] \notin {s1, s2}
        OBVIOUS
      <3>1. invoice[q] = subject[s1]  BY <1>3 DEF CheckoutInv, HeldInv
      <3>2. Closed(invoice[q])  BY <1>3 DEF OpenInv
      <3>3. s1 # NoSession /\ s2 # NoSession  BY StagesAssumption DEF I!PaymentAssumption
      <3> QED BY <3>1, <3>2, <3>3 DEF Closed
    <2>4. Stored(s1) /\ Stored(s2) => s1 = s2
      BY <1>3 DEF CheckoutInv, Apart, Opening
    <2> HIDE DEF Stored
    <2> QED BY <2>2, <2>3, <2>4
  <1>4. Inv => CheckoutIsSound
    BY <1>3 DEF CheckoutInv, ConfirmInv, CheckoutIsSound, I!CheckoutIsSound, I!ConfirmedOnce,
       I!OnePayableSession
  <1> QED BY <1>1, <1>2, <1>4, PTL DEF StagesSpec

-----------------------------------------------------------------------------
(* The payments settle invoices *)

\* A payment is reported when Stripe has it; a request about to mark an invoice as paid
\* holds a paid session of that invoice, unless the payment is simulated.
MarkInv ==
    /\ \A s \in Sessions : "paid" \in sent[s] => stripe[s] = "paid"
    /\ \A q \in Requests : paymentPc[q] = "mark" /\ stripeConfigured =>
          /\ session[q] \in Sessions /\ stripe[session[q]] = "paid"
          /\ subject[session[q]] = invoice[q]

\* Every step keeps MarkInv.
LEMMA MarkStep == CheckoutInv /\ MarkInv /\ [I!Next]_(I!vars) => MarkInv'
  <1> SUFFICES ASSUME CheckoutInv, MarkInv, [I!Next]_(I!vars) PROVE MarkInv'  OBVIOUS
  <1> USE StagesAssumption DEF I!PaymentAssumption, CheckoutInv, I!TypeOK, SessionInv, HeldInv,
          MarkInv, I!billing, I!external, I!locals
  <1>1. ASSUME NEW q \in Requests, I!Continue(q) PROVE MarkInv'
    <2>1. CASE I!MarkSent(q)  BY <2>1 DEF I!MarkSent, I!Finish
    <2>2. CASE I!MarkOverdue(q)  BY <2>2 DEF I!MarkOverdue, I!Finish
    <2>3. CASE I!ReuseSession(q)  BY <2>3 DEF I!ReuseSession, I!Finish, I!Goto
    <2>4. CASE I!CreateSession(q)  BY <2>4 DEF I!CreateSession
    <2>5. CASE I!RefuseSession(q)  BY <2>5 DEF I!RefuseSession, I!Finish
    <2>6. CASE I!StoreSession(q)  BY <2>6 DEF I!StoreSession, I!Finish
    <2>7. CASE I!RetrieveSession(q)  BY <2>7 DEF I!RetrieveSession, I!Finish, I!Goto
    <2>8. CASE I!MarkPaid(q)  BY <2>8 DEF I!MarkPaid, I!Finish, I!Goto, I!Acknowledged, I!Payable
    <2>9. CASE I!NotifyPaid(q)  BY <2>9 DEF I!NotifyPaid, I!Finish, I!Acknowledged
    <2> QED BY <1>1, <2>1, <2>2, <2>3, <2>4, <2>5, <2>6, <2>7, <2>8, <2>9 DEF I!Continue
  <1>2. ASSUME NEW q \in Requests, NEW i \in Invoices,
               I!ReadForSend(q, i) \/ I!ReadForReminder(q, i) \/ I!ReadForCheckout(q, i)
                   \/ I!ReadForConfirm(q, i) \/ I!ReadForPay(q, i)
        PROVE MarkInv'
    <2>1. CASE I!ReadForSend(q, i)  BY <2>1 DEF I!ReadForSend, I!Begin, I!Payable
    <2>2. CASE I!ReadForReminder(q, i)  BY <2>2 DEF I!ReadForReminder, I!Begin, I!Payable
    <2>3. CASE I!ReadForCheckout(q, i)  BY <2>3 DEF I!ReadForCheckout, I!Begin, I!Payable
    <2>4. CASE I!ReadForConfirm(q, i)  BY <2>4 DEF I!ReadForConfirm, I!Begin, I!Payable
    <2>5. CASE I!ReadForPay(q, i)  BY <2>5 DEF I!ReadForPay, I!Begin, I!Payable
    <2> QED BY <1>2, <2>1, <2>2, <2>3, <2>4, <2>5
  <1>3. ASSUME NEW q \in Requests, NEW s \in Sessions, I!ReceiveEvent(q, s) PROVE MarkInv'
    BY <1>3 DEF I!ReceiveEvent, I!Begin
  <1>4. ASSUME NEW q \in Requests, I!Die(q) PROVE MarkInv'  BY <1>4 DEF I!Die, I!Finish
  <1>5. ASSUME NEW s \in Sessions,
               I!CompleteCheckout(s) \/ I!SettleDeferred(s) \/ I!ExpireSession(s)
        PROVE MarkInv'
    <2>1. CASE I!CompleteCheckout(s)  BY <2>1 DEF I!CompleteCheckout
    <2>2. CASE I!SettleDeferred(s)  BY <2>2 DEF I!SettleDeferred
    <2>3. CASE I!ExpireSession(s)  BY <2>3 DEF I!ExpireSession
    <2> QED BY <1>5, <2>1, <2>2, <2>3
  <1>6. CASE UNCHANGED I!vars  BY <1>6 DEF I!vars
  <1> QED BY <1>1, <1>2, <1>3, <1>4, <1>5, <1>6 DEF I!Next, I!Serve

\* What a step does to the books: the admin's requests touch unpaid invoices, the one that
\* makes the transition to paid settles an invoice whose money has come in, a customer who
\* pays makes money come in.
LEMMA BooksStep ==
    CheckoutInv /\ MarkInv /\ [I!Next]_(I!vars) =>
        [I!Books!Next]_<<I!Collected, I!Settled, confirmed>>
  <1> DEFINE Paying == UNCHANGED <<stripeConfigured, stripe, subject>>
             Still == UNCHANGED <<I!Collected, I!Settled, confirmed>>
  <1> SUFFICES ASSUME CheckoutInv, MarkInv, [I!Next]_(I!vars)
               PROVE  I!Books!Next \/ Still
    OBVIOUS
  <1>1. Paying => I!Collected' = I!Collected  BY DEF I!Collected
  <1>2. UNCHANGED invoiceStatus => I!Settled' = I!Settled  BY DEF I!Settled
  <1> USE DEF I!billing, I!external
  <1>3. ASSUME NEW q \in Requests, I!Continue(q) PROVE I!Books!Next \/ Still
    <2>1. CASE I!MarkSent(q) \/ I!MarkOverdue(q)
      <3>1. Paying /\ UNCHANGED confirmed  BY <2>1 DEF I!MarkSent, I!MarkOverdue
      <3>2. I!Settled' = I!Settled
        BY <2>1 DEF I!MarkSent, I!MarkOverdue, I!Settled, CheckoutInv, I!TypeOK, PendingInv
      <3> QED BY <1>1, <3>1, <3>2
    <2>2. CASE I!ReuseSession(q) \/ I!RefuseSession(q) \/ I!StoreSession(q) \/ I!RetrieveSession(q)
      BY <1>1, <1>2, <2>2 DEF I!ReuseSession, I!RefuseSession, I!StoreSession, I!RetrieveSession
    <2>3. CASE I!CreateSession(q)
      <3>1. UNCHANGED <<invoiceStatus, confirmed, stripeConfigured>>
        BY <2>3 DEF I!CreateSession
      <3>2. PICK s \in Sessions : /\ stripe[s] = "unused"
                                  /\ stripe' = [stripe EXCEPT ![s] = "open"]
                                  /\ subject' = [subject EXCEPT ![s] = invoice[q]]
        BY <2>3 DEF I!CreateSession
      <3>3. \A o \in Sessions : stripe'[o] = "paid" <=> stripe[o] = "paid"
        BY <3>2 DEF CheckoutInv, I!TypeOK
      <3>4. \A o \in Sessions : stripe[o] = "paid" => subject'[o] = subject[o]
        BY <3>2 DEF CheckoutInv, I!TypeOK
      <3>5. I!Collected' = I!Collected  BY <3>1, <3>3, <3>4 DEF I!Collected
      <3> QED BY <1>2, <3>1, <3>5
    <2>4. CASE I!MarkPaid(q) /\ I!Payable(invoice[q])
      <3> DEFINE i == invoice[q]
      <3>1. /\ paymentPc[q] = "mark" /\ Paying /\ UNCHANGED confirmed
            /\ invoiceStatus' = [invoiceStatus EXCEPT ![i] = "paid"]
        BY <2>4 DEF I!MarkPaid
      <3>2. i \in Invoices  BY <3>1 DEF CheckoutInv, HeldInv
      <3>3. i \in I!Collected  BY <3>1, <3>2 DEF I!Collected, MarkInv
      <3>4. i \notin I!Settled  BY <2>4 DEF I!Settled, I!Payable
      <3>5. I!Settled' = I!Settled \cup {i}
        BY <3>1, <3>2 DEF I!Settled, CheckoutInv, I!TypeOK
      <3>6. I!Books!Settle(i)  BY <1>1, <3>1, <3>3, <3>4, <3>5 DEF I!Books!Settle
      <3> QED BY <3>2, <3>6 DEF I!Books!Next
    <2>5. CASE I!MarkPaid(q) /\ ~I!Payable(invoice[q])
      BY <1>1, <1>2, <2>5 DEF I!MarkPaid
    <2>6. CASE I!NotifyPaid(q)
      <3> DEFINE i == invoice[q]
      <3>1. /\ paymentPc[q] = "notify" /\ Paying /\ UNCHANGED invoiceStatus
            /\ confirmed' = [confirmed EXCEPT ![i] = IF @ < 2 THEN @ + 1 ELSE @]
        BY <2>6 DEF I!NotifyPaid
      <3>2. i \in Invoices /\ invoiceStatus[i] = "paid" /\ confirmed[i] = 0
        BY <3>1 DEF CheckoutInv, HeldInv, ConfirmInv
      <3>3. confirmed' = [confirmed EXCEPT ![i] = 1]  BY <3>1, <3>2
      <3>4. i \in I!Settled  BY <3>2 DEF I!Settled
      <3>5. I!Books!Tell(i)  BY <1>1, <1>2, <3>1, <3>2, <3>3, <3>4 DEF I!Books!Tell
      <3> QED BY <3>2, <3>5 DEF I!Books!Next
    <2> QED BY <1>3, <2>1, <2>2, <2>3, <2>4, <2>5, <2>6 DEF I!Continue
  <1>4. ASSUME NEW q \in Requests, I!Serve(q) \/ I!Die(q) PROVE Still
    BY <1>1, <1>2, <1>4 DEF I!Serve, I!Die, I!ReadForSend, I!ReadForReminder,
       I!ReadForCheckout, I!ReadForConfirm, I!ReadForPay, I!ReceiveEvent
  <1>5. ASSUME NEW s \in Sessions, I!CompleteCheckout(s) \/ I!SettleDeferred(s)
        PROVE  I!Books!Next \/ Still
    <2>1. /\ stripe[s] \in {"open", "pending"}
          /\ \E outcome \in {"paid", "pending", "failed"} :
                stripe' = [stripe EXCEPT ![s] = outcome]
          /\ UNCHANGED <<invoiceStatus, confirmed, stripeConfigured, subject>>
      BY <1>5 DEF I!CompleteCheckout, I!SettleDeferred
    <2>2. subject[s] \in Invoices  BY <2>1 DEF CheckoutInv, I!TypeOK, SessionInv
    <2>3. CASE stripe'[s] = "paid"
      <3>1. \A o \in Sessions : stripe'[o] = "paid" <=> stripe[o] = "paid" \/ o = s
        BY <2>1, <2>3 DEF CheckoutInv, I!TypeOK
      <3>2. I!Collected' = I!Collected \cup {subject[s]}
        BY <2>1, <2>2, <3>1 DEF I!Collected
      <3>3. I!Books!Collect(subject[s])  BY <1>2, <2>1, <3>2 DEF I!Books!Collect
      <3> QED BY <2>2, <3>3 DEF I!Books!Next
    <2>4. CASE stripe'[s] # "paid"
      <3>1. \A o \in Sessions : stripe'[o] = "paid" <=> stripe[o] = "paid"
        BY <2>1, <2>4 DEF CheckoutInv, I!TypeOK
      <3>2. I!Collected' = I!Collected  BY <2>1, <3>1 DEF I!Collected
      <3> QED BY <1>2, <2>1, <3>2
    <2> QED BY <2>3, <2>4
  <1>6. ASSUME NEW s \in Sessions, I!ExpireSession(s) PROVE Still
    <2>1. /\ stripe[s] = "open" /\ stripe' = [stripe EXCEPT ![s] = "expired"]
          /\ UNCHANGED <<invoiceStatus, confirmed, stripeConfigured, subject>>
      BY <1>6 DEF I!ExpireSession
    <2>2. \A o \in Sessions : stripe'[o] = "paid" <=> stripe[o] = "paid"
      BY <2>1 DEF CheckoutInv, I!TypeOK
    <2>3. I!Collected' = I!Collected  BY <2>1, <2>2 DEF I!Collected
    <2> QED BY <1>2, <2>1, <2>3
  <1>7. CASE UNCHANGED I!vars  BY <1>1, <1>2, <1>7 DEF I!vars
  <1> QED BY <1>3, <1>4, <1>5, <1>6, <1>7 DEF I!Next

\* billingService.js, paymentService.js: while the admin's requests run alone, the payments
\* implement Settlement: whatever is reported twice, late, deferred or lost with its process,
\* an invoice is settled for money that has come in, once and for good, and told once.
THEOREM PaymentsRefine == StagesSpec /\ [][PaymentsAlone]_stagesVars => PaymentsSettle
  <1> DEFINE Inv == CheckoutInv /\ MarkInv
  <1>1. StagesInit => Inv /\ I!Books!Init
    <2> SUFFICES ASSUME StagesInit PROVE Inv /\ I!Books!Init  OBVIOUS
    <2>1. I!Init  BY DEF StagesInit
    <2>2. MarkInv  BY <2>1 DEF I!Init, MarkInv
    <2>3. I!Settled = {} /\ I!Collected \in SUBSET Invoices
      BY <2>1 DEF I!Init, I!Settled, I!Collected
    <2> QED BY <2>1, <2>2, <2>3, CheckoutInit DEF I!Books!Init, I!Init
  <1>2. Inv /\ [StagesNext]_stagesVars /\ [PaymentsAlone]_stagesVars => Inv'
    BY CheckoutStep, PaymentsRun, MarkStep
  <1>3. Inv /\ [StagesNext]_stagesVars => [I!Books!Next]_<<I!Collected, I!Settled, confirmed>>
    BY PaymentsRun, BooksStep
  <1> QED BY <1>1, <1>2, <1>3, PTL DEF StagesSpec, PaymentsSettle, I!PaymentsSettle, I!Books!Spec

-----------------------------------------------------------------------------
(* The registrations of Stages *)

\* A behaviour of Stages is one of EventRegistration.
LEMMA RegistrationsRun == StagesSpec => Spec
  <1>1. StagesInit => Init  BY DEF StagesInit
  <1>2. [StagesNext]_stagesVars => [Next]_vars  BY DEF StagesNext, stagesVars
  <1> QED BY <1>1, <1>2, PTL DEF StagesSpec, Spec

\* eventService.js: whatever overlaps, only free places are booked, only riders who hold one
\* are billed, and the invoice of a registration is never replaced.
THEOREM RegistrationsAreSound ==
    StagesSpec => BooksOnlyFreeSeats /\ []BilledOnlyIfRegistered /\ NeverBilledTwice
  BY RegistrationsRun, Refinement, BilledRegistered, BilledOnce, PTL
-----------------------------------------------------------------------------
(* The horses of a stage *)

\* What HorsesAlone says of a state.
HorsesApart ==
    \A q, o \in Requests :
        q # o /\ pc[q] \in {"apply", "release", "options", "swap"} =>
            pc[o] \notin {"apply", "release", "options", "swap"}

\* Only a rider who is registered has a horse, and nobody else of the event has it.
MountInv ==
    /\ \A e \in Events, r \in Riders : mount[<<e, r>>] # NoHorse => status[<<e, r>>] = "confirmed"
    /\ \A e \in Events, r1, r2 \in Riders :
          mount[<<e, r1>>] = mount[<<e, r2>>] /\ mount[<<e, r1>>] # NoHorse => r1 = r2

\* A plan about to be applied gives riders of the event different horses, which no rider of
\* the event has.
PlanIsSound(q) ==
    \A r \in DOMAIN plan[q] :
        /\ r \in Riders /\ plan[q][r] \in Horses
        /\ status[<<EventOf(q), r>>] = "confirmed"
        /\ \A other \in Riders : mount[<<EventOf(q), other>>] # plan[q][r]
        /\ \A other \in DOMAIN plan[q] : plan[q][other] = plan[q][r] => other = r

\* An override about to be written takes a horse no other rider of the event has.
SwapIsSound(q) ==
    /\ wanted[q] \in Horses
    /\ status[target[q]] = "confirmed"
    /\ \A other \in Riders \ {target[q][2]} : mount[<<EventOf(q), other>>] # wanted[q]

\* The inductive invariant of the horses.
HorseInv ==
    /\ TypeOK /\ HorsesApart /\ MountInv
    /\ \A q \in Requests : /\ pc[q] = "apply" => PlanIsSound(q)
                           /\ pc[q] = "swap" => SwapIsSound(q)

\* A computed plan is sound: it takes free horses for riders without one.
LEMMA PlansAreSound ==
    ASSUME HorseInv, NEW q \in Requests, NEW p \in Plans(EventOf(q))
    PROVE  \A r \in DOMAIN p :
              /\ r \in Riders /\ p[r] \in Horses
              /\ status[<<EventOf(q), r>>] = "confirmed"
              /\ \A other \in Riders : mount[<<EventOf(q), other>>] # p[r]
              /\ \A other \in DOMAIN p : p[other] = p[r] => other = r
  <1> DEFINE e == EventOf(q)
             waiting == {r \in Confirmed(e) : mount[<<e, r>>] = NoHorse}
  <1>1. e \in Events  BY TargetIsPair DEF HorseInv
  <1>2. /\ p \in UNION {[S -> Eligible(e)] : S \in SUBSET waiting}
        /\ \A r1, r2 \in DOMAIN p : p[r1] = p[r2] => r1 = r2
    BY DEF Plans
  <1>3. PICK S \in SUBSET waiting : p \in [S -> Eligible(e)]  BY <1>2
  <1>4. ASSUME NEW r \in DOMAIN p
        PROVE  r \in waiting /\ p[r] \in Eligible(e)
    BY <1>3
  <1>5. ASSUME NEW h \in Eligible(e), NEW other \in Riders
        PROVE  h \in Horses /\ mount[<<e, other>>] # h
    <2>1. h \in Horses /\ h \notin Taken(e)  BY DEF Eligible
    <2>2. h # NoHorse  BY <2>1, EventAssumption
    <2>3. ASSUME mount[<<e, other>>] = h PROVE FALSE
      <3>1. other \in Confirmed(e)  BY <1>1, <2>2, <2>3 DEF HorseInv, MountInv, Confirmed
      <3> QED BY <2>1, <2>2, <2>3, <3>1 DEF Taken
    <2> QED BY <2>1, <2>3
  <1>6. ASSUME NEW r \in waiting PROVE r \in Riders /\ status[<<e, r>>] = "confirmed"
    BY DEF Confirmed
  <1> HIDE DEF e, waiting
  <1>7. ASSUME NEW r \in DOMAIN p
        PROVE  /\ r \in Riders /\ p[r] \in Horses
               /\ status[<<e, r>>] = "confirmed"
               /\ \A other \in Riders : mount[<<e, other>>] # p[r]
    BY <1>4, <1>5, <1>6
  <1>8. ASSUME NEW r \in DOMAIN p, NEW other \in DOMAIN p, p[other] = p[r] PROVE other = r
    BY <1>2, <1>8
  <1> QED BY <1>7, <1>8 DEF e

\* A step that unseats nobody who holds a horse, moves no horse and brings nobody to a write.
LEMMA HorsesStay ==
    ASSUME HorseInv, TypeOK', HorsesApart',
           \A x \in Registrations : status[x] = "confirmed" => status'[x] = "confirmed",
           UNCHANGED <<mount, target, wanted>>,
           \A q \in Requests :
              /\ pc'[q] = "apply" => pc[q] = "apply" /\ plan'[q] = plan[q]
              /\ pc'[q] = "swap" => pc[q] = "swap"
    PROVE  HorseInv'
  <1>1. \A e \in Events, r \in Riders : <<e, r>> \in Registrations  BY DEF Registrations
  <1>2. MountInv'  BY <1>1 DEF HorseInv, MountInv
  <1>3. \A q \in Requests : EventOf(q)' = EventOf(q) /\ EventOf(q) \in Events
    BY TargetIsPair DEF HorseInv, EventOf
  <1>4. ASSUME NEW q \in Requests, pc'[q] = "apply" PROVE PlanIsSound(q)'
    BY <1>1, <1>3, <1>4 DEF HorseInv, PlanIsSound
  <1>5. ASSUME NEW q \in Requests, pc'[q] = "swap" PROVE SwapIsSound(q)'
    <2>1. target[q] \in Registrations  BY TargetIsPair DEF HorseInv
    <2> QED BY <1>3, <1>5, <2>1 DEF HorseInv, SwapIsSound
  <1> QED BY <1>2, <1>4, <1>5 DEF HorseInv

\* Every step that overlaps nothing it may not keeps HorseInv.
LEMMA HorseStep == HorseInv /\ [Next]_vars /\ HorsesApart' => HorseInv'
  <1> SUFFICES ASSUME HorseInv, [Next]_vars, HorsesApart' PROVE HorseInv'  OBVIOUS
  <1>1. TypeOK /\ TypeOK'  BY TypeStep DEF HorseInv
  <1> USE DEF rows, bookings, bills, locals, Goto
  <1>2. ASSUME NEW q \in Requests, Step(q) PROVE HorseInv'
    <2> target[q] \in Registrations /\ EventOf(q) \in Events /\ target[q][2] \in Riders
        /\ target[q] = <<EventOf(q), target[q][2]>>
      BY <1>1, TargetIsPair
    <2>0. pc \in [Requests -> PCs] /\ plan \in [Requests -> Assignments]
          /\ status \in [Registrations -> {"none", "confirmed", "cancelled"}]
      BY <1>1 DEF TypeOK
    <2>1. CASE CheckNotRegistered(q)  BY <1>1, <2>0, <2>1, HorsesStay DEF CheckNotRegistered
    <2>2. CASE LockEvent(q)  BY <1>1, <2>0, <2>2, HorsesStay DEF LockEvent
    <2>3. CASE CountSeats(q)  BY <1>1, <2>0, <2>3, HorsesStay DEF CountSeats
    <2>4. CASE CommitRegistration(q)  BY <1>1, <2>0, <2>4, HorsesStay DEF CommitRegistration
    <2>5. CASE FindInvoice(q)  BY <1>1, <2>0, <2>5, HorsesStay DEF FindInvoice
    <2>6. CASE DrawNumber(q)  BY <1>1, <2>0, <2>6, HorsesStay DEF DrawNumber
    <2>7. CASE CreateInvoice(q)  BY <1>1, <2>0, <2>7, HorsesStay DEF CreateInvoice
    <2>8. CASE Notify(q)  BY <1>1, <2>0, <2>8, HorsesStay DEF Notify
    <2>9. CASE AskAssignment(q)  BY <1>1, <2>0, <2>9, HorsesStay DEF AskAssignment
    <2>10. CASE ReadAndPlan(q)
      <3>1. CASE pc'[q] # "apply"  BY <1>1, <2>0, <2>10, <3>1, HorsesStay DEF ReadAndPlan
      <3>2. CASE pc'[q] = "apply"
        <4>1. PICK p \in Plans(EventOf(q)) : plan' = [plan EXCEPT ![q] = p]
          BY <2>0, <2>10, <3>2 DEF ReadAndPlan
        <4>2. /\ UNCHANGED <<status, mount, target, wanted>>
              /\ pc[q] = "plan" /\ pc' = [pc EXCEPT ![q] = "apply"]
          BY <2>0, <2>10, <3>2 DEF ReadAndPlan
        <4>3. MountInv'  BY <4>2 DEF HorseInv, MountInv
        <4>4. plan'[q] = p  BY <2>0, <4>1
        <4>5. EventOf(q)' = EventOf(q)  BY <4>2 DEF EventOf
        <4>6. PlanIsSound(q)'
          <5>1. \A r \in DOMAIN p :
                  /\ r \in Riders /\ p[r] \in Horses
                  /\ status[<<EventOf(q), r>>] = "confirmed"
                  /\ \A other \in Riders : mount[<<EventOf(q), other>>] # p[r]
                  /\ \A other \in DOMAIN p : p[other] = p[r] => other = r
            BY PlansAreSound
          <5> QED BY <4>2, <4>4, <4>5, <5>1 DEF PlanIsSound
        <4>7. ASSUME NEW o \in Requests, o # q PROVE pc'[o] # "apply" /\ pc'[o] # "swap"
          BY <2>0, <4>2, <4>7 DEF HorsesApart
        <4>8. pc'[q] # "swap"  BY <3>2
        <4> QED BY <1>1, <4>3, <4>6, <4>7, <4>8 DEF HorseInv
      <3> QED BY <3>1, <3>2
    <2>11. CASE ApplyPlan(q)
      <3> DEFINE e == EventOf(q)
      <3>1. /\ pc[q] = "apply" /\ PlanIsSound(q)
            /\ mount' = [x \in Registrations |-> IF x[1] = e /\ x[2] \in DOMAIN plan[q]
                                                 THEN plan[q][x[2]] ELSE mount[x]]
            /\ UNCHANGED status
            /\ pc' = [pc EXCEPT ![q] = "done"]
        BY <2>11 DEF ApplyPlan, HorseInv
      <3>2. ASSUME NEW f \in Events, NEW r \in Riders
            PROVE  mount'[<<f, r>>] = IF f = e /\ r \in DOMAIN plan[q]
                                      THEN plan[q][r] ELSE mount[<<f, r>>]
        BY <3>1 DEF Registrations
      <3>3. MountInv'
        <4>1. ASSUME NEW f \in Events, NEW r \in Riders, mount'[<<f, r>>] # NoHorse
              PROVE  status'[<<f, r>>] = "confirmed"
          BY <3>1, <3>2, <4>1 DEF PlanIsSound, HorseInv, MountInv
        <4>2. ASSUME NEW f \in Events, NEW r1 \in Riders, NEW r2 \in Riders,
                     mount'[<<f, r1>>] = mount'[<<f, r2>>], mount'[<<f, r1>>] # NoHorse
              PROVE  r1 = r2
          <5>1. CASE f # e  BY <3>2, <4>2, <5>1 DEF HorseInv, MountInv
          <5>2. CASE f = e /\ r1 \in DOMAIN plan[q] /\ r2 \in DOMAIN plan[q]
            BY <3>1, <3>2, <4>2, <5>2 DEF PlanIsSound
          <5>3. CASE f = e /\ r1 \in DOMAIN plan[q] /\ r2 \notin DOMAIN plan[q]
            BY <3>1, <3>2, <4>2, <5>3 DEF PlanIsSound
          <5>4. CASE f = e /\ r1 \notin DOMAIN plan[q] /\ r2 \in DOMAIN plan[q]
            BY <3>1, <3>2, <4>2, <5>4 DEF PlanIsSound
          <5>5. CASE f = e /\ r1 \notin DOMAIN plan[q] /\ r2 \notin DOMAIN plan[q]
            BY <3>2, <4>2, <5>5 DEF HorseInv, MountInv
          <5> QED BY <5>1, <5>2, <5>3, <5>4, <5>5
        <4> QED BY <4>1, <4>2 DEF MountInv
      <3>4. \A o \in Requests : pc'[o] # "apply" /\ pc'[o] # "swap"
        BY <2>0, <3>1 DEF HorseInv, HorsesApart
      <3> QED BY <1>1, <3>3, <3>4 DEF HorseInv
    <2>12. CASE ReadForCancel(q)  BY <1>1, <2>0, <2>12, HorsesStay DEF ReadForCancel
    <2>13. CASE Release(q)
      <3>1. /\ pc[q] = "release" /\ pc' = [pc EXCEPT ![q] = "done"]
            /\ status' = [status EXCEPT ![target[q]] = "cancelled"]
            /\ mount' = [mount EXCEPT ![target[q]] = NoHorse]
        BY <2>13 DEF Release
      <3>2. mount \in [Registrations -> Horses \cup {NoHorse}]  BY <1>1 DEF TypeOK
      <3>3. \A f \in Events, r \in Riders : <<f, r>> \in Registrations  BY DEF Registrations
      <3>4. \A f \in Events, r \in Riders :
                IF <<f, r>> = target[q] THEN mount'[<<f, r>>] = NoHorse
                ELSE mount'[<<f, r>>] = mount[<<f, r>>] /\ status'[<<f, r>>] = status[<<f, r>>]
        BY <2>0, <3>1, <3>2, <3>3
      <3>5. MountInv'  BY <3>4 DEF HorseInv, MountInv
      <3>6. \A o \in Requests : pc'[o] # "apply" /\ pc'[o] # "swap"
        BY <2>0, <3>1 DEF HorseInv, HorsesApart
      <3> QED BY <1>1, <3>5, <3>6 DEF HorseInv
    <2>14. CASE ReadForOverride(q)  BY <1>1, <2>0, <2>14, HorsesStay DEF ReadForOverride
    <2>15. CASE CheckOptions(q)
      <3>1. CASE pc'[q] # "swap"
        BY <1>1, <2>0, <2>15, <3>1, HorsesStay DEF CheckOptions
      <3>2. CASE pc'[q] = "swap"
        <4> DEFINE e == EventOf(q)
                   others == {mount[<<e, r>>] : r \in Confirmed(e) \ {target[q][2]}}
        <4>1. /\ pc[q] = "options" /\ pc' = [pc EXCEPT ![q] = "swap"]
              /\ status[target[q]] = "confirmed"
              /\ \E h \in {k \in Horses : load[k] < MaxLoad} \ others :
                    wanted' = [wanted EXCEPT ![q] = h]
              /\ UNCHANGED <<status, mount, target, plan>>
          BY <2>0, <2>15, <3>2 DEF CheckOptions
        <4>2. wanted \in [Requests -> Horses \cup {NoHorse}]  BY <1>1 DEF TypeOK
        <4>3. wanted'[q] \in Horses /\ wanted'[q] \notin others  BY <4>1, <4>2
        <4>4. ASSUME NEW other \in Riders \ {target[q][2]}
              PROVE  mount[<<e, other>>] # wanted'[q]
          <5>1. wanted'[q] # NoHorse  BY <4>3, EventAssumption
          <5>2. mount[<<e, other>>] = NoHorse \/ other \in Confirmed(e)
            BY DEF HorseInv, MountInv, Confirmed
          <5> QED BY <4>3, <5>1, <5>2
        <4>5. MountInv'  BY <4>1 DEF HorseInv, MountInv
        <4>6. EventOf(q)' = EventOf(q)  BY <4>1 DEF EventOf
        <4>7. SwapIsSound(q)'  BY <4>1, <4>3, <4>4, <4>6 DEF SwapIsSound
        <4>8. \A o \in Requests : /\ pc'[o] # "apply"
                                  /\ o # q => pc'[o] # "swap"
          BY <2>0, <4>1 DEF HorseInv, HorsesApart
        <4> QED BY <1>1, <4>5, <4>7, <4>8 DEF HorseInv
      <3> QED BY <3>1, <3>2
    <2>16. CASE SwapHorse(q)
      <3> DEFINE e == EventOf(q)
      <3>1. /\ pc[q] = "swap" /\ pc' = [pc EXCEPT ![q] = "done"] /\ SwapIsSound(q)
            /\ mount' = [mount EXCEPT ![target[q]] = wanted[q]]
            /\ UNCHANGED status
        BY <2>16 DEF SwapHorse, HorseInv
      <3>2. mount \in [Registrations -> Horses \cup {NoHorse}]  BY <1>1 DEF TypeOK
      <3>3. \A f \in Events, r \in Riders : <<f, r>> \in Registrations  BY DEF Registrations
      <3>4. \A f \in Events, r \in Riders :
                mount'[<<f, r>>] = IF f = e /\ r = target[q][2] THEN wanted[q]
                                                                ELSE mount[<<f, r>>]
        <4>1. \A f \in Events, r \in Riders : <<f, r>> = target[q] <=> f = e /\ r = target[q][2]
          <5>1. target[q] = <<e, target[q][2]>>  OBVIOUS
          <5> HIDE DEF e
          <5> QED BY <5>1
        <4>2. \A f \in Events, r \in Riders :
                  mount'[<<f, r>>] = IF <<f, r>> = target[q] THEN wanted[q] ELSE mount[<<f, r>>]
          BY <3>1, <3>2, <3>3
        <4> QED BY <4>1, <4>2
      <3>5. MountInv'
        <4>1. \A f \in Events, r \in Riders :
                  mount'[<<f, r>>] # NoHorse => status'[<<f, r>>] = "confirmed"
          <5>1. target[q] = <<e, target[q][2]>>  OBVIOUS
          <5>2. status[<<e, target[q][2]>>] = "confirmed"  BY <3>1, <5>1 DEF SwapIsSound
          <5> HIDE DEF e
          <5>3. ASSUME NEW f \in Events, NEW r \in Riders, mount'[<<f, r>>] # NoHorse
                PROVE  status[<<f, r>>] = "confirmed"
            <6>1. CASE f = e /\ r = target[q][2]  BY <5>2, <6>1
            <6>2. CASE ~(f = e /\ r = target[q][2])
              <7>1. mount[<<f, r>>] # NoHorse  BY <3>4, <5>3, <6>2
              <7> QED BY <7>1 DEF HorseInv, MountInv
            <6> QED BY <6>1, <6>2
          <5>4. status' = status  BY <3>1
          <5> QED BY <5>3, <5>4
        <4>2. ASSUME NEW f \in Events, NEW r1 \in Riders, NEW r2 \in Riders,
                     mount'[<<f, r1>>] = mount'[<<f, r2>>], mount'[<<f, r1>>] # NoHorse
              PROVE  r1 = r2
          BY <3>1, <3>4, <4>2 DEF SwapIsSound, HorseInv, MountInv
        <4> QED BY <4>1, <4>2 DEF MountInv
      <3>6. \A o \in Requests : pc'[o] # "apply" /\ pc'[o] # "swap"
        BY <2>0, <3>1 DEF HorseInv, HorsesApart
      <3> QED BY <1>1, <3>5, <3>6 DEF HorseInv
    <2> QED
      BY <1>2, <2>1, <2>2, <2>3, <2>4, <2>5, <2>6, <2>7, <2>8, <2>9, <2>10, <2>11,
         <2>12, <2>13, <2>14, <2>15, <2>16 DEF Step
  <1>3. ASSUME NEW q \in Requests, Die(q) PROVE HorseInv'
    <2>1. pc \in [Requests -> PCs]  BY <1>1 DEF TypeOK
    <2> QED BY <1>1, <1>3, <2>1, HorsesStay DEF Die
  <1>4. ASSUME NEW e \in Events,
               CreateEvent(e) \/ UpdateEvent(e) \/ DeleteEvent(e) \/ EventStarts(e)
        PROVE  HorseInv'
    BY <1>1, <1>4, HorsesStay DEF CreateEvent, UpdateEvent, DeleteEvent, EventStarts
  <1>5. CASE OtherInvoice  BY <1>1, <1>5, HorsesStay DEF OtherInvoice
  <1>6. CASE UNCHANGED vars  BY <1>1, <1>6, HorsesStay DEF vars
  <1> QED BY <1>2, <1>3, <1>4, <1>5, <1>6 DEF Next

\* horseAssignment.js: while what an assignment, a cancellation or an override reads and what
\* it writes are not interleaved with another's, no horse has two riders in a stage, whatever
\* registrations, edits and deaths of requests overlap with them.
THEOREM HorsesAreRiddenOnce == StagesSpec /\ [][HorsesAlone]_stagesVars => []HorseRiddenOnce
  <1>1. Init => HorseInv
    <2> SUFFICES ASSUME Init PROVE HorseInv  OBVIOUS
    <2>1. \A e \in Events, r \in Riders : mount[<<e, r>>] = NoHorse
      BY DEF Init, Registrations
    <2>2. \A q \in Requests : pc[q] = "start"  BY DEF Init
    <2> QED BY <2>1, <2>2, TypeInit DEF HorseInv, HorsesApart, MountInv
  <1>2. HorseInv /\ [Next]_vars /\ [HorsesAlone]_stagesVars => HorseInv'
    <2>1. HorsesApart /\ [HorsesAlone]_stagesVars => HorsesApart'
      BY DEF HorsesApart, HorsesAlone, stagesVars, vars
    <2> QED BY <2>1, HorseStep DEF HorseInv
  <1>3. HorseInv => HorseRiddenOnce  BY DEF HorseInv, MountInv, HorseRiddenOnce, Confirmed
  <1> QED BY <1>1, <1>2, <1>3, RegistrationsRun, PTL DEF Spec
-----------------------------------------------------------------------------
(* The hours of the horses *)

\* From what an assignment, a cancellation or an override reads to what it writes.
Writing == {"apply", "release", "options", "swap"}

\* The dates of an event are not edited while a horse is ridden in it, or about to be.
DatesKept ==
    \A e \in Events : Exists(e) /\ hours'[e] # hours[e] =>
        /\ \A r \in Riders : mount[<<e, r>>] = NoHorse
        /\ \A q \in Requests : EventOf(q) = e => pc[q] \notin Writing

Mounted == {x \in Registrations : mount[x] # NoHorse}

RidesOf(h) == {x \in Registrations : mount[x] = h}

\* Nobody registers for an event before it is created, nor asks anything of it.
BornInv ==
    /\ \A x \in Registrations : status[x] # "none" => phase[x[1]] # "unborn"
    /\ \A q \in Requests : pc[q] # "start" => phase[EventOf(q)] # "unborn"

\* What a request is about to write from is still so: how long its event lasts, the horse of
\* the registration, that the riders of a plan have none.
ReadInv(q) ==
    /\ pc[q] \in Writing => span[q] = hours[EventOf(q)]
    /\ pc[q] \in {"release", "options", "swap"} => held[q] = mount[target[q]]
    /\ pc[q] = "apply" => \A r \in DOMAIN plan[q] : mount[<<EventOf(q), r>>] = NoHorse

\* The inductive invariant of the hours.
LoadInv ==
    /\ HorseInv /\ BornInv
    /\ IsFiniteSet(Mounted)
    /\ \A h \in Horses : load[h] = HoursOf(hours, RidesOf(h))
    /\ \A q \in Requests : ReadInv(q)

\* Every step keeps BornInv.
LEMMA BornStep == TypeOK /\ TypeOK' /\ BornInv /\ [Next]_vars => BornInv'
  <1> SUFFICES ASSUME TypeOK, TypeOK', BornInv, [Next]_vars PROVE BornInv'  OBVIOUS
  <1> USE DEF BornInv, rows, bookings, bills, locals, Goto, EventOf
  <1>1. ASSUME NEW x \in Registrations PROVE x[1] \in Events  BY DEF Registrations
  <1>2. ASSUME NEW q \in Requests PROVE target[q] \in Registrations  BY DEF TypeOK
  <1>3. /\ pc \in [Requests -> PCs] /\ phase \in [Events -> {"unborn", "open", "started", "deleted"}]
        /\ status \in [Registrations -> {"none", "confirmed", "cancelled"}]
    BY DEF TypeOK
  <1>4. ASSUME NEW q \in Requests, Step(q) PROVE BornInv'
    <2>1. UNCHANGED <<phase, target>>
      BY <1>4 DEF Step, CheckNotRegistered, LockEvent, CountSeats, CommitRegistration, FindInvoice,
         DrawNumber, CreateInvoice, Notify, AskAssignment, ReadAndPlan, ApplyPlan, ReadForCancel,
         Release, ReadForOverride, CheckOptions, SwapHorse
    <2>2. phase[EventOf(q)] # "unborn"
      <3>1. CASE pc[q] # "start"  BY <3>1
      <3>2. CASE CheckNotRegistered(q)  BY <3>2 DEF CheckNotRegistered
      <3>3. CASE AskAssignment(q)  BY <3>3 DEF AskAssignment, Exists
      <3>4. CASE ReadForCancel(q)  BY <1>2, <3>4 DEF ReadForCancel
      <3>5. CASE ReadForOverride(q)  BY <1>2, <3>5 DEF ReadForOverride
      <3>6. CASE pc[q] = "start" /\ ~CheckNotRegistered(q) /\ ~AskAssignment(q)
                 /\ ~ReadForCancel(q) /\ ~ReadForOverride(q)
        BY <1>4, <3>6 DEF Step, LockEvent, CountSeats, CommitRegistration, FindInvoice,
           DrawNumber, CreateInvoice, Notify, ReadAndPlan, ApplyPlan, Release, CheckOptions,
           SwapHorse
      <3> QED BY <3>1, <3>2, <3>3, <3>4, <3>5, <3>6
    <2>3. \A o \in Requests : o # q => pc'[o] = pc[o]
      BY <1>3, <1>4 DEF Step, CheckNotRegistered, LockEvent, CountSeats, CommitRegistration,
         FindInvoice, DrawNumber, CreateInvoice, Notify, AskAssignment, ReadAndPlan, ApplyPlan,
         ReadForCancel, Release, ReadForOverride, CheckOptions, SwapHorse
    <2>4. \A x \in Registrations : x # target[q] => status'[x] = status[x]
      BY <1>3, <1>4 DEF Step, CheckNotRegistered, LockEvent, CountSeats, CommitRegistration,
         FindInvoice, DrawNumber, CreateInvoice, Notify, AskAssignment, ReadAndPlan, ApplyPlan,
         ReadForCancel, Release, ReadForOverride, CheckOptions, SwapHorse
    <2> QED BY <2>1, <2>2, <2>3, <2>4
  <1>5. ASSUME NEW q \in Requests, Die(q) PROVE BornInv'  BY <1>3, <1>5 DEF Die
  <1>6. ASSUME NEW e \in Events,
               CreateEvent(e) \/ UpdateEvent(e) \/ DeleteEvent(e) \/ EventStarts(e)
        PROVE  BornInv'
    <2>1. \A f \in Events : phase[f] # "unborn" => phase'[f] # "unborn"
      BY <1>3, <1>6 DEF CreateEvent, UpdateEvent, DeleteEvent, EventStarts
    <2>2. UNCHANGED <<status, pc, target>>
      BY <1>6 DEF CreateEvent, UpdateEvent, DeleteEvent, EventStarts
    <2> QED BY <1>1, <1>2, <2>1, <2>2
  <1>7. CASE OtherInvoice  BY <1>7 DEF OtherInvoice
  <1>8. CASE UNCHANGED vars  BY <1>8 DEF vars
  <1> QED BY <1>4, <1>5, <1>6, <1>7, <1>8 DEF Next

\* Finitely many riders have a horse; one ride more or less is its hours more or less.
LEMMA RidesAreFinite ==
    ASSUME LoadInv, NEW h \in Horses
    PROVE  IsFiniteSet(RidesOf(h)) /\ Timed(hours, RidesOf(h))
  <1>1. RidesOf(h) \subseteq Mounted  BY EventAssumption DEF RidesOf, Mounted
  <1>2. IsFiniteSet(RidesOf(h))  BY <1>1, FS_Subset DEF LoadInv
  <1>3. \A x \in Registrations : hours[x[1]] \in Int
    BY DEF LoadInv, HorseInv, TypeOK, Registrations
  <1> QED BY <1>2, <1>3 DEF Timed, RidesOf

LEMMA RideAdded ==
    ASSUME LoadInv, NEW h \in Horses, NEW x \in Registrations, mount[x] # h
    PROVE  HoursOf(hours, RidesOf(h) \cup {x}) = load[h] + hours[x[1]]
  <1>1. IsFiniteSet(RidesOf(h)) /\ x \notin RidesOf(h)  BY RidesAreFinite DEF RidesOf
  <1>2. Timed(hours, RidesOf(h) \cup {x})
    BY RidesAreFinite DEF Timed, LoadInv, HorseInv, TypeOK, Registrations
  <1>3. load[h] = HoursOf(hours, RidesOf(h))  BY DEF LoadInv
  <1>4. ASSUME NEW S, IsFiniteSet(S), x \notin S, Timed(hours, S \cup {x})
        PROVE  HoursOf(hours, S \cup {x}) = HoursOf(hours, S) + hours[x[1]]
    BY <1>4, HoursWith
  <1>5. HoursOf(hours, RidesOf(h) \cup {x}) = HoursOf(hours, RidesOf(h)) + hours[x[1]]
    BY <1>1, <1>2, <1>4, Zenon
  <1> QED BY <1>3, <1>5, Zenon

LEMMA RideRemoved ==
    ASSUME LoadInv, NEW h \in Horses, NEW x \in Registrations, mount[x] = h
    PROVE  HoursOf(hours, RidesOf(h) \ {x}) = load[h] - hours[x[1]]
  <1>1. x \in RidesOf(h)  BY DEF RidesOf
  <1>2. load[h] = HoursOf(hours, RidesOf(h))  BY DEF LoadInv
  <1>3. IsFiniteSet(RidesOf(h)) /\ Timed(hours, RidesOf(h))  BY RidesAreFinite
  <1>4. ASSUME NEW S, x \in S, IsFiniteSet(S), Timed(hours, S)
        PROVE  HoursOf(hours, S \ {x}) = HoursOf(hours, S) - hours[x[1]]
    BY <1>4, HoursLess
  <1>5. HoursOf(hours, RidesOf(h) \ {x}) = HoursOf(hours, RidesOf(h)) - hours[x[1]]
    BY <1>1, <1>3, <1>4, Zenon
  <1> QED BY <1>2, <1>5, Zenon

\* A step that moves no horse, and no date of an event somebody rides in.
LEMMA LoadsStay ==
    ASSUME LoadInv, HorseInv', BornInv', UNCHANGED <<mount, load>>,
           \A x \in Registrations : mount[x] # NoHorse => hours'[x[1]] = hours[x[1]],
           \A q \in Requests : ReadInv(q)'
    PROVE  LoadInv'
  <1>1. Mounted' = Mounted  BY DEF Mounted
  <1>2. ASSUME NEW h \in Horses PROVE load'[h] = HoursOf(hours', RidesOf(h)')
    <2>1. RidesOf(h)' = RidesOf(h)  BY DEF RidesOf
    <2>2. \A x \in RidesOf(h) : hours'[x[1]] = hours[x[1]]  BY EventAssumption DEF RidesOf
    <2>3. HoursOf(hours', RidesOf(h)) = HoursOf(hours, RidesOf(h))
      BY <2>2, RidesAreFinite, HoursSame
    <2> QED BY <2>1, <2>3 DEF LoadInv
  <1> QED BY <1>1, <1>2 DEF LoadInv

\* A step that moves the horse of one registration, or of the riders of one event.
LEMMA MountedStaysFinite ==
    ASSUME TypeOK, IsFiniteSet(Mounted), NEW e \in Events,
           \A x \in Registrations : x[1] # e => mount'[x] = mount[x]
    PROVE  IsFiniteSet(Mounted')
  <1>1. IsFiniteSet({e} \X Riders)  BY FS_Singleton, FS_Product, EventAssumption
  <1>2. IsFiniteSet(Mounted \cup ({e} \X Riders))  BY <1>1, FS_Union
  <1>3. Mounted' \subseteq Mounted \cup ({e} \X Riders)  BY DEF Mounted, Registrations
  <1> QED BY <1>2, <1>3, FS_Subset

\* A request that keeps what it has read.
LEMMA ReadStays ==
    ASSUME LoadInv, NEW q \in Requests, UNCHANGED <<mount, target>>,
           pc'[q] \in Writing =>
               /\ pc[q] \in Writing /\ (pc'[q] = "apply" <=> pc[q] = "apply")
               /\ span'[q] = span[q] /\ held'[q] = held[q] /\ plan'[q] = plan[q]
               /\ hours'[EventOf(q)] = hours[EventOf(q)]
    PROVE  ReadInv(q)'
  <1>1. EventOf(q)' = EventOf(q) /\ ReadInv(q)  BY DEF EventOf, LoadInv
  <1> QED BY <1>1 DEF ReadInv, Writing

\* A step of q that writes no horse: what it read, if it is about to write, is so.
LEMMA ReaderStep ==
    ASSUME LoadInv, TypeOK', HorseInv', BornInv', NEW q \in Requests,
           UNCHANGED <<mount, load, hours, target>>,
           \A o \in Requests \ {q} : /\ pc'[o] = pc[o] /\ span'[o] = span[o]
                                     /\ held'[o] = held[o] /\ plan'[o] = plan[o],
           ReadInv(q)'
    PROVE  LoadInv'
  <1>1. ASSUME NEW o \in Requests PROVE ReadInv(o)'
    <2>1. CASE o = q  BY <2>1
    <2>2. CASE o # q  BY <2>2, ReadStays
    <2> QED BY <2>1, <2>2
  <1> QED BY <1>1, LoadsStay

\* A step that writes: nobody else is about to.
LEMMA WriterStep ==
    ASSUME LoadInv, TypeOK', HorseInv', BornInv', NEW q \in Requests,
           pc[q] \in Writing, pc' = [pc EXCEPT ![q] = "done"],
           \A x \in Registrations : x[1] # EventOf(q) => mount'[x] = mount[x],
           \A h \in Horses : load'[h] = HoursOf(hours', RidesOf(h)')
    PROVE  LoadInv'
  <1>1. TypeOK /\ EventOf(q) \in Events
    BY TargetIsPair DEF LoadInv, HorseInv
  <1>2. IsFiniteSet(Mounted')  BY <1>1, MountedStaysFinite DEF LoadInv
  <1>3. \A o \in Requests : pc'[o] \notin Writing
    BY <1>1 DEF LoadInv, HorseInv, HorsesApart, Writing, TypeOK
  <1>4. \A o \in Requests : ReadInv(o)'  BY <1>3 DEF ReadInv, Writing
  <1> QED BY <1>2, <1>4 DEF LoadInv

\* The three writes.
LEMMA ApplyCounts ==
    ASSUME LoadInv, TypeOK', HorseInv', BornInv', NEW q \in Requests, ApplyPlan(q)
    PROVE  LoadInv'
  <1> DEFINE e == EventOf(q)
             p == plan[q]
  <1>1. /\ pc[q] = "apply" /\ pc' = [pc EXCEPT ![q] = "done"] /\ hours' = hours
        /\ mount' = [x \in Registrations |-> IF x[1] = e /\ x[2] \in DOMAIN p
                                             THEN p[x[2]] ELSE mount[x]]
        /\ load' = [h \in Horses |-> IF h \in {p[r] : r \in DOMAIN p}
                                     THEN load[h] + span[q] ELSE load[h]]
    BY DEF ApplyPlan, Goto, rows
  <1>2. e \in Events /\ target[q][2] \in Riders  BY TargetIsPair DEF LoadInv, HorseInv
  <1>3. /\ span[q] = hours[e]
        /\ \A r \in DOMAIN p : mount[<<e, r>>] = NoHorse
        /\ \A r \in DOMAIN p : r \in Riders /\ p[r] \in Horses
        /\ \A r, other \in DOMAIN p : p[other] = p[r] => other = r
    BY <1>1 DEF LoadInv, ReadInv, HorseInv, PlanIsSound, Writing
  <1> HIDE DEF e, p
  <1>4. ASSUME NEW f \in Events, NEW r \in Riders
        PROVE  mount'[<<f, r>>] = IF f = e /\ r \in DOMAIN p THEN p[r] ELSE mount[<<f, r>>]
    BY <1>1 DEF Registrations
  <1>5. ASSUME NEW h \in Horses PROVE load'[h] = HoursOf(hours', RidesOf(h)')
    <2>0. h # NoHorse  BY EventAssumption
    <2>1. CASE \E r \in DOMAIN p : p[r] = h
      <3>1. PICK r \in DOMAIN p : p[r] = h  BY <2>1
      <3> DEFINE x == <<e, r>>
      <3>2. x \in Registrations /\ x[1] = e /\ mount[x] # h
        BY <1>2, <1>3, <2>0 DEF Registrations
      <3>3. RidesOf(h)' = RidesOf(h) \cup {x}
        <4>1. ASSUME NEW f \in Events, NEW o \in Riders
              PROVE  mount'[<<f, o>>] = h <=> mount[<<f, o>>] = h \/ (f = e /\ o = r)
          BY <1>3, <1>4, <2>0, <3>1
        <4>2. RidesOf(h)' \subseteq RidesOf(h) \cup {x}
          BY <4>1 DEF RidesOf, Registrations
        <4>3. RidesOf(h) \cup {x} \subseteq RidesOf(h)'
          BY <1>2, <1>3, <4>1 DEF RidesOf, Registrations
        <4> QED BY <4>2, <4>3
      <3>4. HoursOf(hours, RidesOf(h) \cup {x}) = load[h] + hours[e]
        <4> HIDE DEF x
        <4> QED BY <3>2, RideAdded
      <3>5. load'[h] = load[h] + hours[e]  BY <1>1, <1>3, <2>1
      <3> QED BY <1>1, <3>3, <3>4, <3>5, Zenon
    <2>2. CASE ~ \E r \in DOMAIN p : p[r] = h
      <3>1. ASSUME NEW x \in Registrations PROVE mount'[x] = h <=> mount[x] = h
        BY <1>3, <1>4, <2>0, <2>2 DEF Registrations
      <3>2. RidesOf(h)' = RidesOf(h)  BY <3>1 DEF RidesOf
      <3>3. load'[h] = load[h]  BY <1>1, <2>2
      <3> QED BY <1>1, <3>2, <3>3, Zenon DEF LoadInv
    <2> QED BY <2>1, <2>2
  <1>6. \A x \in Registrations : x[1] # e => mount'[x] = mount[x]  BY <1>1
  <1> QED BY <1>1, <1>5, <1>6, WriterStep DEF Writing, e

LEMMA ReleaseCounts ==
    ASSUME LoadInv, TypeOK', HorseInv', BornInv', NEW q \in Requests, Release(q)
    PROVE  LoadInv'
  <1> DEFINE x == target[q]
  <1>1. /\ pc[q] = "release" /\ pc' = [pc EXCEPT ![q] = "done"] /\ hours' = hours
        /\ load' = [h \in Horses |-> IF h = held[q] THEN load[h] - span[q] ELSE load[h]]
        /\ mount' = [mount EXCEPT ![x] = NoHorse]
    BY DEF Release, Goto, rows
  <1>2. x \in Registrations /\ x[1] = EventOf(q)
        /\ mount \in [Registrations -> Horses \cup {NoHorse}]
    BY TargetIsPair DEF LoadInv, HorseInv, TypeOK, Registrations, EventOf
  <1>3. span[q] = hours[x[1]] /\ held[q] = mount[x]
    BY <1>1, <1>2 DEF LoadInv, ReadInv, Writing
  <1> HIDE DEF x
  <1>4. ASSUME NEW h \in Horses PROVE load'[h] = HoursOf(hours', RidesOf(h)')
    <2>0. h # NoHorse  BY EventAssumption
    <2>1. CASE mount[x] = h
      <3>1. RidesOf(h)' = RidesOf(h) \ {x}  BY <1>1, <1>2, <2>0 DEF RidesOf
      <3>2. HoursOf(hours, RidesOf(h) \ {x}) = load[h] - hours[x[1]]
        BY <1>2, <2>1, RideRemoved
      <3>3. load'[h] = load[h] - hours[x[1]]  BY <1>1, <1>3, <2>1
      <3> QED BY <1>1, <3>1, <3>2, <3>3, Zenon
    <2>2. CASE mount[x] # h
      <3>1. RidesOf(h)' = RidesOf(h)  BY <1>1, <1>2, <2>0, <2>2 DEF RidesOf
      <3>2. load'[h] = load[h]  BY <1>1, <1>3, <2>2
      <3> QED BY <1>1, <3>1, <3>2, Zenon DEF LoadInv
    <2> QED BY <2>1, <2>2
  <1>5. \A y \in Registrations : y[1] # EventOf(q) => mount'[y] = mount[y]
    BY <1>1, <1>2
  <1> QED BY <1>1, <1>4, <1>5, WriterStep DEF Writing

LEMMA SwapCounts ==
    ASSUME LoadInv, TypeOK', HorseInv', BornInv', NEW q \in Requests, SwapHorse(q)
    PROVE  LoadInv'
  <1> DEFINE x == target[q]
  <1>1. /\ pc[q] = "swap" /\ pc' = [pc EXCEPT ![q] = "done"] /\ hours' = hours
        /\ load' = [h \in Horses |-> IF held[q] = wanted[q] THEN load[h]
                                     ELSE IF h = held[q] THEN load[h] - span[q]
                                     ELSE IF h = wanted[q] THEN load[h] + span[q]
                                     ELSE load[h]]
        /\ mount' = [mount EXCEPT ![x] = wanted[q]]
    BY DEF SwapHorse, Goto, rows
  <1>2. x \in Registrations /\ x[1] = EventOf(q)
        /\ mount \in [Registrations -> Horses \cup {NoHorse}]
    BY TargetIsPair DEF LoadInv, HorseInv, TypeOK, Registrations, EventOf
  <1>3. span[q] = hours[x[1]] /\ held[q] = mount[x]
    BY <1>1, <1>2 DEF LoadInv, ReadInv, Writing
  <1> HIDE DEF x
  <1>4. ASSUME NEW h \in Horses PROVE load'[h] = HoursOf(hours', RidesOf(h)')
    <2>1. CASE mount[x] = h /\ wanted[q] # h
      <3>1. RidesOf(h)' = RidesOf(h) \ {x}  BY <1>1, <1>2, <2>1 DEF RidesOf
      <3>2. HoursOf(hours, RidesOf(h) \ {x}) = load[h] - hours[x[1]]
        BY <1>2, <2>1, RideRemoved
      <3>3. load'[h] = load[h] - hours[x[1]]  BY <1>1, <1>3, <2>1
      <3> QED BY <1>1, <3>1, <3>2, <3>3, Zenon
    <2>2. CASE mount[x] # h /\ wanted[q] = h
      <3>1. RidesOf(h)' = RidesOf(h) \cup {x}  BY <1>1, <1>2, <2>2 DEF RidesOf
      <3>2. HoursOf(hours, RidesOf(h) \cup {x}) = load[h] + hours[x[1]]
        BY <1>2, <2>2, RideAdded
      <3>3. load'[h] = load[h] + hours[x[1]]  BY <1>1, <1>3, <2>2
      <3> QED BY <1>1, <3>1, <3>2, <3>3, Zenon
    <2>3. CASE mount[x] = h <=> wanted[q] = h
      <3>1. RidesOf(h)' = RidesOf(h)  BY <1>1, <1>2, <2>3 DEF RidesOf
      <3>2. load'[h] = load[h]  BY <1>1, <1>3, <2>3
      <3> QED BY <1>1, <3>1, <3>2, Zenon DEF LoadInv
    <2> QED BY <2>1, <2>2, <2>3
  <1>5. \A y \in Registrations : y[1] # EventOf(q) => mount'[y] = mount[y]
    BY <1>1, <1>2
  <1> QED BY <1>1, <1>4, <1>5, WriterStep DEF Writing

\* Every step that overlaps nothing it may not keeps LoadInv.
LEMMA LoadStep ==
    LoadInv /\ [Next]_vars /\ HorsesApart' /\ [DatesKept]_stagesVars => LoadInv'
  <1> SUFFICES ASSUME LoadInv, [Next]_vars, HorsesApart', [DatesKept]_stagesVars PROVE LoadInv'
    OBVIOUS
  <1>1. TypeOK /\ TypeOK' /\ HorseInv' /\ BornInv'
    BY TypeStep, HorseStep, BornStep DEF LoadInv, HorseInv
  <1>2. DatesKept  BY DEF DatesKept, stagesVars, vars
  <1>3. pc \in [Requests -> PCs] /\ span \in [Requests -> Nat]
        /\ held \in [Requests -> Horses \cup {NoHorse}] /\ plan \in [Requests -> Assignments]
        /\ hours \in [Events -> Nat]
    BY <1>1 DEF TypeOK
  <1> USE DEF rows, bookings, bills, locals, Goto
  <1>4. ASSUME NEW q \in Requests, Step(q) PROVE LoadInv'
    <2>1. ASSUME UNCHANGED <<mount, load, hours, locals>>,
                 \A o \in Requests \ {q} : pc'[o] = pc[o],
                 pc'[q] \in Writing => pc[q] \in Writing /\ (pc'[q] = "apply" <=> pc[q] = "apply")
          PROVE  LoadInv'
      <3>1. ReadInv(q)'  BY <2>1, ReadStays
      <3> QED BY <1>1, <2>1, <3>1, ReaderStep
    <2>2. CASE CheckNotRegistered(q)  BY <1>3, <2>1, <2>2 DEF CheckNotRegistered, Writing
    <2>3. CASE LockEvent(q)  BY <1>3, <2>1, <2>3 DEF LockEvent, Writing
    <2>4. CASE CountSeats(q)
      <3>1. ReadInv(q)'  BY <1>3, <2>4, ReadStays DEF CountSeats, Writing
      <3> QED BY <1>1, <1>3, <2>4, <3>1, ReaderStep DEF CountSeats
    <2>5. CASE CommitRegistration(q)  BY <1>3, <2>1, <2>5 DEF CommitRegistration, Writing
    <2>6. CASE FindInvoice(q)  BY <1>3, <2>1, <2>6 DEF FindInvoice, Writing
    <2>7. CASE DrawNumber(q)
      <3>1. ReadInv(q)'  BY <1>3, <2>7, ReadStays DEF DrawNumber, Writing
      <3> QED BY <1>1, <1>3, <2>7, <3>1, ReaderStep DEF DrawNumber
    <2>8. CASE CreateInvoice(q)  BY <1>3, <2>1, <2>8 DEF CreateInvoice, Writing
    <2>9. CASE Notify(q)  BY <1>3, <2>1, <2>9 DEF Notify, Writing
    <2>10. CASE AskAssignment(q)  BY <1>3, <2>1, <2>10 DEF AskAssignment, Writing
    <2>11. CASE ReadAndPlan(q)
      <3>1. UNCHANGED <<mount, load, hours, target>> /\ EventOf(q)' = EventOf(q)
        BY <2>11 DEF ReadAndPlan, EventOf
      <3>2. \A o \in Requests \ {q} : /\ pc'[o] = pc[o] /\ span'[o] = span[o]
                                      /\ held'[o] = held[o] /\ plan'[o] = plan[o]
        BY <1>3, <2>11 DEF ReadAndPlan
      <3>3. CASE pc'[q] # "apply"
        <4>1. pc'[q] \notin Writing  BY <1>3, <2>11, <3>3 DEF ReadAndPlan, Writing
        <4>2. ReadInv(q)'  BY <3>1, <4>1, ReadStays
        <4> QED BY <1>1, <3>1, <3>2, <4>2, ReaderStep
      <3>4. CASE pc'[q] = "apply"
        <4>1. PICK p \in Plans(EventOf(q)) : plan' = [plan EXCEPT ![q] = p]
          BY <1>3, <2>11, <3>4 DEF ReadAndPlan
        <4>2. span'[q] = hours[EventOf(q)]  BY <1>3, <2>11, <3>4 DEF ReadAndPlan
        <4>3. \A r \in DOMAIN p : mount[<<EventOf(q), r>>] = NoHorse  BY DEF Plans
        <4>4. plan'[q] = p  BY <1>3, <4>1
        <4>5. ReadInv(q)'  BY <3>1, <3>4, <4>2, <4>3, <4>4 DEF ReadInv
        <4> QED BY <1>1, <3>1, <3>2, <4>5, ReaderStep
      <3> QED BY <3>3, <3>4
    <2>12. CASE ApplyPlan(q)  BY <1>1, <2>12, ApplyCounts
    <2>13. CASE ReadForCancel(q)
      <3>1. UNCHANGED <<mount, load, hours, target>> /\ EventOf(q)' = EventOf(q)
        BY <2>13 DEF ReadForCancel, EventOf
      <3>2. \A o \in Requests \ {q} : /\ pc'[o] = pc[o] /\ span'[o] = span[o]
                                      /\ held'[o] = held[o] /\ plan'[o] = plan[o]
        BY <1>3, <2>13 DEF ReadForCancel
      <3>3. pc'[q] \in Writing =>
                pc'[q] = "release" /\ held'[q] = mount[target[q]] /\ span'[q] = hours[EventOf(q)]
        BY <1>3, <2>13 DEF ReadForCancel, Writing
      <3>4. ReadInv(q)'  BY <3>1, <3>3 DEF ReadInv, Writing
      <3> QED BY <1>1, <3>1, <3>2, <3>4, ReaderStep
    <2>14. CASE Release(q)  BY <1>1, <2>14, ReleaseCounts
    <2>15. CASE ReadForOverride(q)
      <3>1. UNCHANGED <<mount, load, hours, target>> /\ EventOf(q)' = EventOf(q)
        BY <2>15 DEF ReadForOverride, EventOf
      <3>2. \A o \in Requests \ {q} : /\ pc'[o] = pc[o] /\ span'[o] = span[o]
                                      /\ held'[o] = held[o] /\ plan'[o] = plan[o]
        BY <1>3, <2>15 DEF ReadForOverride
      <3>3. pc'[q] = "options" /\ held'[q] = mount[target[q]] /\ span'[q] = hours[EventOf(q)]
        BY <1>3, <2>15 DEF ReadForOverride
      <3>4. ReadInv(q)'  BY <3>1, <3>3 DEF ReadInv, Writing
      <3> QED BY <1>1, <3>1, <3>2, <3>4, ReaderStep
    <2>16. CASE CheckOptions(q)
      <3>1. ReadInv(q)'  BY <1>3, <2>16, ReadStays DEF CheckOptions, Writing
      <3> QED BY <1>1, <1>3, <2>16, <3>1, ReaderStep DEF CheckOptions
    <2>17. CASE SwapHorse(q)  BY <1>1, <2>17, SwapCounts
    <2> QED
      BY <1>4, <2>2, <2>3, <2>4, <2>5, <2>6, <2>7, <2>8, <2>9, <2>10, <2>11,
         <2>12, <2>13, <2>14, <2>15, <2>16, <2>17 DEF Step
  <1>5. ASSUME UNCHANGED <<mount, load, locals>>,
               \A q \in Requests : pc'[q] \in Writing => pc'[q] = pc[q],
               \A x \in Registrations : mount[x] # NoHorse => hours'[x[1]] = hours[x[1]],
               \A q \in Requests : pc[q] \in Writing => hours'[EventOf(q)] = hours[EventOf(q)]
        PROVE  LoadInv'
    <2>1. ASSUME NEW q \in Requests PROVE ReadInv(q)'  BY <1>5, ReadStays
    <2> QED BY <1>1, <1>5, <2>1, LoadsStay
  <1>6. ASSUME NEW q \in Requests, Die(q) PROVE LoadInv'
    BY <1>3, <1>5, <1>6 DEF Die, Writing
  <1>7. ASSUME NEW e \in Events,
               CreateEvent(e) \/ UpdateEvent(e) \/ DeleteEvent(e) \/ EventStarts(e)
        PROVE  LoadInv'
    <2>1. UNCHANGED <<mount, load, locals, pc>> /\ \A f \in Events : f # e => hours'[f] = hours[f]
      BY <1>3, <1>7 DEF CreateEvent, UpdateEvent, DeleteEvent, EventStarts
    <2>2. CASE hours'[e] = hours[e]
      <3>1. \A x \in Registrations : hours'[x[1]] = hours[x[1]]
        BY <2>1, <2>2 DEF Registrations
      <3>2. \A q \in Requests : hours'[EventOf(q)] = hours[EventOf(q)]
        BY <1>1, <2>1, <2>2, TargetIsPair
      <3> QED BY <1>5, <2>1, <3>1, <3>2
    <2>3. CASE hours'[e] # hours[e]
      <3>1. /\ \A x \in Registrations : x[1] = e => mount[x] = NoHorse
            /\ \A q \in Requests : EventOf(q) = e => pc[q] \notin Writing
        <4>1. CASE phase[e] = "unborn"
          <5>1. \A x \in Registrations : x[1] = e => mount[x] = NoHorse
            BY <4>1 DEF LoadInv, BornInv, HorseInv, MountInv, Registrations
          <5>2. \A q \in Requests : EventOf(q) = e => pc[q] = "start"
            BY <4>1 DEF LoadInv, BornInv
          <5> QED BY <5>1, <5>2 DEF Writing
        <4>2. CASE phase[e] # "unborn"
          <5>1. Exists(e)
            BY <1>7, <2>3, <4>2 DEF CreateEvent, UpdateEvent, DeleteEvent, EventStarts, Exists
          <5> QED BY <1>2, <2>3, <5>1 DEF DatesKept, Registrations
        <4> QED BY <4>1, <4>2
      <3>2. \A x \in Registrations : mount[x] # NoHorse => hours'[x[1]] = hours[x[1]]
        BY <2>1, <3>1 DEF Registrations
      <3>3. \A q \in Requests : pc[q] \in Writing => hours'[EventOf(q)] = hours[EventOf(q)]
        BY <1>1, <2>1, <3>1, TargetIsPair
      <3> QED BY <1>5, <2>1, <3>2, <3>3
    <2> QED BY <2>2, <2>3
  <1>8. CASE OtherInvoice  BY <1>5, <1>8 DEF OtherInvoice
  <1>9. CASE UNCHANGED vars  BY <1>5, <1>9 DEF vars
  <1> QED BY <1>4, <1>6, <1>7, <1>8, <1>9 DEF Next

\* backlog.md:288: where moreover the dates of an event are not edited while a horse is ridden
\* in it, the load of a horse is the hours of the events it is given in, after whatever
\* assignments, overrides and cancellations; and it has one rider in each.
THEOREM MountsStaySound ==
    StagesSpec /\ [][HorsesAlone /\ DatesKept]_stagesVars => []MountsAreSound
  <1>1. Init => LoadInv
    <2> SUFFICES ASSUME Init PROVE LoadInv  OBVIOUS
    <2>1. HorseInv
      <3>1. \A e \in Events, r \in Riders : mount[<<e, r>>] = NoHorse
        BY DEF Init, Registrations
      <3>2. \A q \in Requests : pc[q] = "start"  BY DEF Init
      <3> QED BY <3>1, <3>2, TypeInit DEF HorseInv, HorsesApart, MountInv
    <2>2. Mounted = {}  BY DEF Init, Mounted
    <2>3. \A h \in Horses : RidesOf(h) = {} /\ load[h] = 0
      BY EventAssumption DEF Init, RidesOf
    <2>4. \A h \in Horses : load[h] = HoursOf(hours, RidesOf(h))  BY <2>3, HoursOfNone
    <2>5. BornInv /\ \A q \in Requests : ReadInv(q)  BY DEF Init, BornInv, ReadInv, Writing
    <2> QED BY <2>1, <2>2, <2>4, <2>5, FS_EmptySet DEF LoadInv
  <1>2. LoadInv /\ [Next]_vars /\ [HorsesAlone /\ DatesKept]_stagesVars => LoadInv'
    <2> SUFFICES ASSUME LoadInv, [Next]_vars, [HorsesAlone /\ DatesKept]_stagesVars
                 PROVE  LoadInv'
      OBVIOUS
    <2>1. HorsesApart'
      BY DEF LoadInv, HorseInv, HorsesApart, HorsesAlone, stagesVars, vars
    <2>2. [DatesKept]_stagesVars  OBVIOUS
    <2> QED BY <2>1, <2>2, LoadStep
  <1>3. LoadInv => MountsAreSound
    <2> SUFFICES ASSUME LoadInv PROVE MountsAreSound  OBVIOUS
    <2>1. HorseRiddenOnce  BY DEF LoadInv, HorseInv, MountInv, HorseRiddenOnce, Confirmed
    <2>2. LoadMatchesMounts  BY DEF LoadInv, LoadMatchesMounts, HoursOf, RidesOf
    <2> QED BY <2>1, <2>2 DEF MountsAreSound
  <1> QED BY <1>1, <1>2, <1>3, RegistrationsRun, PTL DEF Spec
==============================================================================
