------------------------------ MODULE MCStages -------------------------------
(***************************************************************************)
(* An instance of Stages for TLC: one event, two riders and two horses;    *)
(* two invoices and two Checkout sessions; three requests.                 *)
(***************************************************************************)
EXTENDS Stages, TLC

CONSTANTS e1, r1, r2, h1, h2, q1, q2, q3, i1, i2, s1, s2

\* The second horse is too demanding for the second rider.
MCSuits == {<<r1, h1>>, <<r1, h2>>, <<r2, h1>>}

Symmetric == Permutations(Requests) \cup Permutations(Sessions)
==============================================================================
