-------------------------- MODULE MCInvoicePayment --------------------------
(***************************************************************************)
(* Small instances of InvoicePayment for TLC: one invoice, one or two      *)
(* slots and Checkout sessions.                                            *)
(***************************************************************************)
EXTENDS InvoicePayment

CONSTANTS i1, q1, q2, s1, s2
=============================================================================
