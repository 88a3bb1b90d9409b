----------------------------- MODULE MCSessions ------------------------------
(***************************************************************************)
(* An instance of Sessions for TLC: three slots of two processes with two  *)
(* refresh tokens; two access tokens; one account.                         *)
(***************************************************************************)
EXTENDS Sessions, TLC

CONSTANTS u1, p1, p2, q1, q2, q3, t1, t2, t3, t4, a1, l1, l2, none

TwoProcesses == [q \in Slots |-> IF q = q2 THEN p2 ELSE p1]

\* The first and the third slot are of the same process.
SymmetricSlots == Permutations(Tokens) \cup Permutations({q1, q3})
=============================================================================
