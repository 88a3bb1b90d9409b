------------------------- MODULE SubscriptionBilling -------------------------
(***************************************************************************)
(* Plans, discounts and the invoices of the month                          *)
(* (services/billingService.js, services/pricing.js).  An invoice is one   *)
(* transaction under READ COMMITTED: it reads the plan of the family and   *)
(* the discounts, draws a number, and inserts; the unique index refuses a  *)
(* number drawn twice.  The monthly batch is one such transaction per      *)
(* family, after a count outside of it.  What happens to an invoice later  *)
(* is InvoicePayment, the quota of a plan is CourseEnrollment.             *)
(***************************************************************************)
EXTENDS Integers, FiniteSets, FiniteSetsExt

CONSTANTS Families, Plans, Requests,
          Riders,      \* Riders[f]: how many riders the family has
          Rules,       \* the discounts that may exist, [percentage, minRiders]
          Prices,      \* bound: the prices of a plan, in cents
          YearLength,  \* months of a year
          MaxMonth,    \* bound: the months, from 0
          MaxNumber,   \* bound: the invoices of a year
          NoPlan

BillingAssumption ==
    /\ Riders \in [Families -> Nat]
    /\ Rules \subseteq [percentage : 0..100, minRiders : Nat] /\ IsFiniteSet(Rules)
    /\ Prices \subseteq Nat /\ Prices # {}
    /\ YearLength \in Nat \ {0} /\ MaxMonth \in Nat /\ MaxNumber \in Nat
    /\ NoPlan \notin Plans

VARIABLES
    price,     \* price[p]: the price of the plan, -1 while it does not exist
    active,    \* the rules that are active
    plan,      \* plan[f]: the plan of the family
    month,     \* the current month
    invoices,  \* the stored invoices, [family, year, number, month, kind, total]
    pc,        \* pc[q]: the next statement of q
    todo,      \* todo[q]: the families the batch has still to see
    draft,     \* draft[q]: the invoice q is about to insert, or the plan it deletes
    overlap    \* the families for which two invoices were in the making at once

vars == <<price, active, plan, month, invoices, pc, todo, draft, overlap>>

Year(m) == m \div YearLength

Invoices == [family : Families, year : 0..Year(MaxMonth), number : 1..MaxNumber,
             month : 0..MaxMonth, kind : {"subscription", "other"}, total : Nat]
NoDraft == [family |-> NoPlan]

TypeOK ==
    /\ price \in [Plans -> Prices \cup {-1}]
    /\ active \subseteq Rules
    /\ plan \in [Families -> Plans \cup {NoPlan}]
    /\ month \in 0..MaxMonth
    /\ invoices \subseteq Invoices
    /\ pc \in [Requests -> {"idle", "next", "count", "insert", "delete"}]
    /\ todo \in [Requests -> SUBSET Families]
    /\ draft \in [Requests -> Invoices \cup [family : Families] \cup [plan : Plans] \cup {NoDraft}]
    /\ overlap \subseteq Families

Init ==
    /\ price = [p \in Plans |-> -1]
    /\ active = {}
    /\ plan = [f \in Families |-> NoPlan]
    /\ month = 0
    /\ invoices = {}
    /\ pc = [q \in Requests |-> "idle"]
    /\ todo = [q \in Requests |-> {}]
    /\ draft = [q \in Requests |-> NoDraft]
    /\ overlap = {}

-----------------------------------------------------------------------------
(* Prices *)

\* Math.round of a percentage: halves go up.
Discount(cents, rule) == (2 * cents * rule.percentage + 100) \div 200

\* Mutant: the discount of the largest family, not the largest discount.
PriceByFamilySize(cents, riders, rules) ==
    LET for == {r \in rules : r.minRiders <= riders}
        best == CHOOSE r \in for : \A o \in for : o.minRiders <= r.minRiders
    IN  IF for = {} THEN cents ELSE cents - Discount(cents, best)

\* applyBestDiscount: the active rules the family qualifies for, the highest percentage
\* first; only the first counts.
Price(cents, riders, rules) ==
    LET for == {r \in rules : r.minRiders <= riders}
        best == CHOOSE r \in for : \A o \in for : o.percentage <= r.percentage
    IN  IF for = {} THEN cents ELSE cents - Discount(cents, best)

-----------------------------------------------------------------------------
(* Invoices *)

\* Mutant: the counter goes on from one year to the next.
NextNumberOfAll(year) == Max({i.number : i \in invoices} \cup {0}) + 1

\* nextInvoiceNumber: one more than the highest of the year.
NextNumber(year) == Max({i.number : i \in {x \in invoices : x.year = year}} \cup {0}) + 1

Goto(q, where) == pc' = [pc EXCEPT ![q] = where]

\* Others that prepare an invoice of the family while q does.
Meanwhile(q, f) ==
    IF \E o \in Requests \ {q} : pc[o] \in {"count", "insert"} /\ draft[o].family = f
    THEN overlap \cup {f} ELSE overlap

\* The transaction of createInvoice up to its insert.
Draw(q, f, kind, total) ==
    /\ NextNumber(Year(month)) <= MaxNumber
    /\ draft' = [draft EXCEPT ![q] =
           [family |-> f, year |-> Year(month), number |-> NextNumber(Year(month)),
            month |-> month, kind |-> kind, total |-> total]]
    /\ Goto(q, "insert")

\* createInvoice of an admin, with items, or the invoice of a stage.
CreateInvoice(q, f) ==
    /\ pc[q] = "idle"
    /\ \E total \in Prices : Draw(q, f, "other", total)
    /\ overlap' = Meanwhile(q, f)
    /\ UNCHANGED <<price, active, plan, month, invoices, todo>>

\* The commit; a number that is taken aborts the transaction, and the batch with it.
InsertInvoice(q) ==
    LET d == draft[q]
        taken == \E i \in invoices : i.year = d.year /\ i.number = d.number
    IN  /\ pc[q] = "insert"
        /\ invoices' = IF taken THEN invoices ELSE invoices \cup {d}
        /\ todo' = [todo EXCEPT ![q] = IF taken THEN {} ELSE @ \ {d.family}]
        /\ draft' = [draft EXCEPT ![q] = NoDraft]
        /\ Goto(q, IF todo'[q] = {} THEN "idle" ELSE "next")
        /\ UNCHANGED <<price, active, plan, month, overlap>>

\* generateSubscriptionInvoices: the families with a plan, the bounds of the month.
StartBatch(q) ==
    /\ pc[q] = "idle"
    /\ todo' = [todo EXCEPT ![q] = {f \in Families : plan[f] # NoPlan}]
    /\ Goto(q, IF todo'[q] = {} THEN "idle" ELSE "next")
    /\ UNCHANGED <<price, active, plan, month, invoices, draft, overlap>>

\* Mutant: the invoices of the batch itself are not looked for.
CountOtherInvoices(q, f) ==
    /\ pc[q] = "next" /\ f \in todo[q]
    /\ \/ /\ \E i \in invoices : i.family = f /\ i.month = month /\ i.kind = "other"
          /\ todo' = [todo EXCEPT ![q] = @ \ {f}]
          /\ Goto(q, IF todo'[q] = {} THEN "idle" ELSE "next")
          /\ UNCHANGED <<draft, overlap>>
       \/ /\ ~\E i \in invoices : i.family = f /\ i.month = month /\ i.kind = "other"
          /\ draft' = [draft EXCEPT ![q] = [family |-> f]]
          /\ overlap' = Meanwhile(q, f)
          /\ Goto(q, "count")
          /\ UNCHANGED todo
    /\ UNCHANGED <<price, active, plan, month, invoices>>

\* A family with any invoice of the month is skipped.
CountInvoices(q, f) ==
    /\ pc[q] = "next" /\ f \in todo[q]
    /\ \/ /\ \E i \in invoices : i.family = f /\ i.month = month
          /\ todo' = [todo EXCEPT ![q] = @ \ {f}]
          /\ Goto(q, IF todo'[q] = {} THEN "idle" ELSE "next")
          /\ UNCHANGED <<draft, overlap>>
       \/ /\ ~\E i \in invoices : i.family = f /\ i.month = month
          /\ draft' = [draft EXCEPT ![q] = [family |-> f]]
          /\ overlap' = Meanwhile(q, f)
          /\ Goto(q, "count")
          /\ UNCHANGED todo
    /\ UNCHANGED <<price, active, plan, month, invoices>>

\* createInvoice of the batch: the plan of the family by now; without one, the batch fails.
BillFamily(q) ==
    LET f == draft[q].family IN
    /\ pc[q] = "count"
    /\ IF plan[f] = NoPlan
       THEN /\ draft' = [draft EXCEPT ![q] = NoDraft]
            /\ todo' = [todo EXCEPT ![q] = {}]
            /\ Goto(q, "idle")
       ELSE /\ Draw(q, f, "subscription", Price(price[plan[f]], Riders[f], active))
            /\ UNCHANGED todo
    /\ UNCHANGED <<price, active, plan, month, invoices, overlap>>

-----------------------------------------------------------------------------
(* Plans, rules, families, time *)

\* createSubscriptionPlan, updateSubscriptionPlan
SetPrice(p, cents) ==
    /\ price' = [price EXCEPT ![p] = cents]
    /\ UNCHANGED <<active, plan, month, invoices, pc, todo, draft, overlap>>

\* deleteSubscriptionPlan counts the families of the plan...
CountFamilies(q, p) ==
    /\ pc[q] = "idle" /\ price[p] # -1
    /\ \A f \in Families : plan[f] # p
    /\ draft' = [draft EXCEPT ![q] = [plan |-> p]]
    /\ Goto(q, "delete")
    /\ UNCHANGED <<price, active, plan, month, invoices, todo, overlap>>

\* Mutant: the families keep the plan that is gone.
DeletePlanOnly(q) ==
    LET p == draft[q].plan IN
    /\ pc[q] = "delete"
    /\ price' = [price EXCEPT ![p] = -1]
    /\ draft' = [draft EXCEPT ![q] = NoDraft]
    /\ Goto(q, "idle")
    /\ UNCHANGED <<active, plan, month, invoices, todo, overlap>>

\* ... then deletes it; the foreign key sets to null what came meanwhile.
DeletePlan(q) ==
    LET p == draft[q].plan IN
    /\ pc[q] = "delete"
    /\ price' = [price EXCEPT ![p] = -1]
    /\ plan' = [f \in Families |-> IF plan[f] = p THEN NoPlan ELSE plan[f]]
    /\ draft' = [draft EXCEPT ![q] = NoDraft]
    /\ Goto(q, "idle")
    /\ UNCHANGED <<active, month, invoices, todo, overlap>>

\* createDiscountRule, updateDiscountRule, deleteDiscountRule
SetRules(rules) ==
    /\ active' = rules
    /\ UNCHANGED <<price, plan, month, invoices, pc, todo, draft, overlap>>

\* A family subscribes, or the admin gives it a plan.
SetPlan(f, p) ==
    /\ price[p] # -1
    /\ plan' = [plan EXCEPT ![f] = p]
    /\ UNCHANGED <<price, active, month, invoices, pc, todo, draft, overlap>>

\* The clock; bound: it does not turn while an invoice is in the making.
NextMonth ==
    /\ month < MaxMonth /\ \A q \in Requests : pc[q] \in {"idle", "delete"}
    /\ month' = month + 1
    /\ UNCHANGED <<price, active, plan, invoices, pc, todo, draft, overlap>>

Next ==
    \/ \E q \in Requests :
          \/ \E f \in Families : CreateInvoice(q, f) \/ CountInvoices(q, f)
          \/ InsertInvoice(q) \/ StartBatch(q) \/ BillFamily(q)
          \/ \E p \in Plans : CountFamilies(q, p)
          \/ DeletePlan(q)
    \/ \E p \in Plans, cents \in Prices : SetPrice(p, cents)
    \/ \E rules \in SUBSET Rules : SetRules(rules)
    \/ \E f \in Families, p \in Plans : SetPlan(f, p)
    \/ NextMonth

Spec == Init /\ [][Next]_vars

-----------------------------------------------------------------------------
(* Properties *)

\* backlog.md:232: the numbers of a year are unique and follow each other without a gap,
\* whoever draws them at the same time and whichever insert fails.
NumbersFollow ==
    \A y \in 0..Year(MaxMonth) :
        LET ofYear == {i \in invoices : i.year = y}
        IN  {i.number : i \in ofYear} = 1..Cardinality(ofYear)

\* backlog.md:253: a family is billed its subscription once a month, however often the batch
\* runs, unless two invoices of the family were in the making at once.
BilledOncePerMonth ==
    \A i, j \in invoices :
        i # j /\ i.kind = "subscription" /\ j.kind = "subscription"
        /\ i.family = j.family /\ i.month = j.month => i.family \in overlap

\* backlog.md:226: the price is the plan minus the best discount, as any other applicable
\* rule would confirm, and never negative.
BestPrice ==
    \A cents \in Prices, f \in Families :
        LET paid == Price(cents, Riders[f], active) IN
        /\ paid >= 0 /\ paid <= cents
        /\ \A r \in active : r.minRiders <= Riders[f] => paid <= cents - Discount(cents, r)

\* A family never keeps a plan that is gone.
PlanExists == \A f \in Families : plan[f] # NoPlan => price[plan[f]] # -1

\* An invoice has its number, its month, its price and a plan behind it.
BillingIsRight == NumbersFollow /\ BilledOncePerMonth /\ BestPrice /\ PlanExists
=============================================================================
