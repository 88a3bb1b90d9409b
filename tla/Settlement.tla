----------------------------- MODULE Settlement -----------------------------
(***************************************************************************)
(* What the club promises of the payment of its invoices: an invoice is    *)
(* settled once, for money that is held for it, stays settled, and the     *)
(* family is told once, afterwards.  Money may be held before the first    *)
(* step (a server without Stripe simulates it), and more than is needed.   *)
(* InvoicePayment implements this specification.                           *)
(***************************************************************************)
EXTENDS Naturals

CONSTANT Invoices

VARIABLES held,   \* the invoices money is held for
          paid,   \* the invoices that are settled
          told    \* told[i]: how often the family was told that i is settled

Init ==
    /\ held \in SUBSET Invoices
    /\ paid = {}
    /\ told = [i \in Invoices |-> 0]

\* Money comes in for an invoice.
Collect(i) ==
    /\ held' = held \cup {i}
    /\ UNCHANGED <<paid, told>>

\* The invoice is settled with it.
Settle(i) ==
    /\ i \in held \ paid
    /\ paid' = paid \cup {i}
    /\ UNCHANGED <<held, told>>

\* The family is told.
Tell(i) ==
    /\ i \in paid /\ told[i] = 0
    /\ told' = [told EXCEPT ![i] = 1]
    /\ UNCHANGED <<held, paid>>

Next == \E i \in Invoices : Collect(i) \/ Settle(i) \/ Tell(i)

Spec == Init /\ [][Next]_<<held, paid, told>>
=============================================================================
