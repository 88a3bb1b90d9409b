---------------------------- MODULE SeatBooking ----------------------------
(***************************************************************************)
(* What an equestrian centre promises about anything with a bounded number *)
(* of places (a stage, a lesson): a rider gets a place only while one is   *)
(* free.  The capacity may be edited at any time, even below the number of *)
(* riders already seated; nobody is then removed, but nobody is added.     *)
(* EventRegistration, which locks the row of an event, implements this     *)
(* specification; CourseEnrollment, which locks nothing, does not.         *)
(***************************************************************************)
EXTENDS Integers, FiniteSets

CONSTANTS Sessions,   \* the bookable events or courses
          Riders      \* the riders

VARIABLES seats,      \* seats[s]: the riders who hold a place in s
          capacity    \* capacity[s]: the places s offers (0: not opened yet)

Init == /\ seats = [s \in Sessions |-> {}]
        /\ capacity \in [Sessions -> Nat]

\* A rider takes one of the free places.
Book(s, r) ==
    /\ r \notin seats[s]
    /\ Cardinality(seats[s]) < capacity[s]
    /\ seats' = [seats EXCEPT ![s] = @ \cup {r}]
    /\ UNCHANGED capacity

\* A rider gives the place back.
Leave(s, r) ==
    /\ seats' = [seats EXCEPT ![s] = @ \ {r}]
    /\ UNCHANGED capacity

\* The centre edits the number of places.
Resize(s) ==
    /\ capacity'[s] \in Nat
    /\ capacity' = [capacity EXCEPT ![s] = capacity'[s]]
    /\ UNCHANGED seats

Next == \E s \in Sessions : Resize(s) \/ \E r \in Riders : Book(s, r) \/ Leave(s, r)

Spec == Init /\ [][Next]_<<seats, capacity>>
=============================================================================
