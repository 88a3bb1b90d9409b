------------------------- MODULE VolunteerMissions -------------------------
(***************************************************************************)
(* The missions offered to volunteers (services/volunteerService.js, and   *)
(* what services/authService.js removes of an erased account).  A signup   *)
(* is a transaction of three statements under READ COMMITTED; the look-up  *)
(* of an earlier signup can only refuse what the unique index refuses      *)
(* again, so it is one step with the insert.                               *)
(***************************************************************************)
EXTENDS Integers, FiniteSets

CONSTANTS Missions, Volunteers,
          Requests,  \* what the server runs at the same time
          MaxSlots   \* bound: a mission offers 1..MaxSlots places

VolunteerAssumption ==
    MaxSlots \in Nat \ {0} /\ IsFiniteSet(Volunteers) /\ IsFiniteSet(Requests)

VARIABLES
    slots,   \* slots[m]: the places of the mission, 0 while the row does not exist
    signed,  \* the rows of volunteer_signups, <<mission, user>>
    signup,  \* signup[q]: the <<mission, user>> a transaction counted for, or << >>
    most,    \* history: most[m], the places m offered at its best
    stale    \* history: the transactions whose count is out of date, for another signed up
             \* for the mission since or an admin changed it

vars == <<slots, signed, signup, most, stale>>

TypeOK ==
    /\ slots \in [Missions -> 0..MaxSlots]
    /\ signed \subseteq Missions \X Volunteers
    /\ signup \in [Requests -> (Missions \X Volunteers) \cup {<< >>}]
    /\ most \in [Missions -> 0..MaxSlots]
    /\ stale \subseteq Requests

Init ==
    /\ slots = [m \in Missions |-> 0]
    /\ signed = {}
    /\ signup = [q \in Requests |-> << >>]
    /\ most = [m \in Missions |-> 0]
    /\ stale = {}

Exists(m) == slots[m] > 0
SignedUp(m) == {v \in Volunteers : <<m, v>> \in signed}
Pending(m) == {q \in Requests : signup[q] # << >> /\ signup[q][1] = m}

\* The mission m offers n places from now on.
Offer(m, n) ==
    /\ slots' = [slots EXCEPT ![m] = n]
    /\ most' = [most EXCEPT ![m] = IF n > @ THEN n ELSE @]
    /\ stale' = stale \cup Pending(m)
    /\ UNCHANGED <<signed, signup>>

\* The admin creates a mission, or edits its number of places whatever the signups.
CreateMission(m, n) == ~Exists(m) /\ Offer(m, n)
UpdateMission(m, n) == Exists(m) /\ Offer(m, n)

\* Mutant: the signups go with the mission only in the mind of the author.
DeleteMissionAnyway(m) == Exists(m) /\ Offer(m, 0)

\* The foreign key of the signups refuses the deletion of a mission that has some.
DeleteMission(m) == Exists(m) /\ SignedUp(m) = {} /\ Offer(m, 0)

\* Mutant: one volunteer too many.
CountSignupsOffByOne(q, m, v) ==
    /\ signup[q] = << >>
    /\ Exists(m) /\ Cardinality(SignedUp(m)) <= slots[m]
    /\ signup' = [signup EXCEPT ![q] = <<m, v>>]
    /\ stale' = stale \ {q}
    /\ UNCHANGED <<slots, signed, most>>

\* The transaction reads the mission with the number of its signups, and locks nothing.
CountSignups(q, m, v) ==
    /\ signup[q] = << >>
    /\ Exists(m) /\ Cardinality(SignedUp(m)) < slots[m]
    /\ signup' = [signup EXCEPT ![q] = <<m, v>>]
    /\ stale' = stale \ {q}
    /\ UNCHANGED <<slots, signed, most>>

\* The insert; the unique index and the foreign key refuse it otherwise.
InsertSignup(q) ==
    /\ signup[q] # << >>
    /\ signed' = IF Exists(signup[q][1]) THEN signed \cup {signup[q]} ELSE signed
    /\ signup' = [signup EXCEPT ![q] = << >>]
    /\ stale' = (stale \cup Pending(signup[q][1])) \ {q}
    /\ UNCHANGED <<slots, most>>

\* anonymizeAccount removes the signups of its user, whose transactions may go on; the name
\* then stands for another account.
EraseVolunteer(v) ==
    /\ signed' = {x \in signed : x[2] # v}
    /\ UNCHANGED <<slots, signup, most, stale>>

Next ==
    \/ \E m \in Missions :
          \/ \E n \in 1..MaxSlots : CreateMission(m, n) \/ UpdateMission(m, n)
          \/ DeleteMission(m)
          \/ \E q \in Requests, v \in Volunteers : CountSignups(q, m, v)
    \/ \E q \in Requests : InsertSignup(q)
    \/ \E v \in Volunteers : EraseVolunteer(v)

Spec == Init /\ [][Next]_vars

-----------------------------------------------------------------------------
(* Properties *)

\* No volunteer is signed up for a mission that is gone: the deletion and the insert of a
\* signup race, and both rely on the foreign key (volunteerService.js:64, 88).
SignupsHaveMission == \A x \in signed : Exists(x[1])

\* Whatever overlaps, a mission has at most one volunteer more than it ever offered places for
\* each further request that runs at the same time (volunteerService.js:84).
OversoldByRequests ==
    \A m \in Missions :
        SignedUp(m) # {} => Cardinality(SignedUp(m)) < most[m] + Cardinality(Requests)

\* A volunteer gets a place only while one is free.  Only a transaction that counted before
\* another signed up, or before the mission was edited, can take one that is not there.
TakesOnlyFreePlaces ==
    [][\A x \in signed' \ signed :
         \E q \in Requests :
             /\ signup[q] = x
             /\ q \in stale \/ Cardinality(SignedUp(x[1])) < slots[x[1]]]_vars

\* The signups of a mission fit it, and it is there.
SignupsFit == []SignupsHaveMission /\ []OversoldByRequests /\ TakesOnlyFreePlaces
=============================================================================
