------------------------------- MODULE MCClub --------------------------------
(***************************************************************************)
(* An instance of Club for TLC: for each component the smallest sets in    *)
(* which its race can happen.                                              *)
(***************************************************************************)
EXTENDS Club, TLC

CONSTANTS m1, u1, u2, u3, t1, t2, n1, c1, c2, r1, license, f1, f2, f3, p1, none, q1, q2

OneClient == u1 :> "client" @@ u2 :> "admin"
EachTab == [call |-> "a", other |-> "b"]
TwoRiders == u1 :> 2
Discounts == {[percentage |-> 50, minRiders |-> 1], [percentage |-> 10, minRiders |-> 2]}
Horse(fit, min, max, hours, limit) ==
    [fit |-> fit, min |-> min, max |-> max, load |-> hours, limit |-> limit]
Stable == {Horse(TRUE, 1, 2, 8, 10), Horse(TRUE, 0, 0, 3, 10), Horse(TRUE, 0, 2, 6, 10),
           Horse(TRUE, 0, 2, 10, 10), Horse(FALSE, 0, 2, 0, 10)}
Table(r, h, f) ==
    [x \in (1..2) \X (1..3) |-> IF x = <<r, h>> THEN f ELSE "neutral"]
Tables == {Table(r, h, "favorite") : r \in 1..2, h \in 1..3}
              \cup {Table(1, h, "avoid") : h \in 1..3} \cup {Table(1, 1, "neutral")}

Symmetric == Permutations({q1, q2}) \cup Permutations({c1, c2})

\* Bound: one of the conversations is used, the other may only be opened.
Used(c) ==
    \/ messages[c] # {} \/ lastRead[c] # [u \in Writers |-> 0]
    \/ \E q \in Requests : messagePc[q] \in {"send", "mark"} /\ about[q] = c
OneThread == focus = "messages" => \A c, d \in Conversations : (c # d /\ Used(c) => ~Used(d))'
==============================================================================
