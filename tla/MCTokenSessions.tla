-------------------------- MODULE MCTokenSessions --------------------------
(***************************************************************************)
(* Instances of TokenSessions for TLC: one user, two or three slots of two *)
(* processes, two refresh tokens.                                          *)
(***************************************************************************)
EXTENDS TokenSessions, TLC

CONSTANTS u1, p1, p2, q1, q2, q3, t1, t2, t3, t4

TwoProcesses == [q \in Slots |-> IF q = q2 THEN p2 ELSE p1]

\* The first and the third slot are of the same process.
SymmetricSlots == Permutations(Tokens) \cup Permutations({q1, q3})
=============================================================================
