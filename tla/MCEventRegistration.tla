------------------------ MODULE MCEventRegistration ------------------------
(***************************************************************************)
(* Small instances of EventRegistration for TLC: one event, one or two     *)
(* riders, a horse and two requests.                                       *)
(***************************************************************************)
EXTENDS EventRegistration

CONSTANTS e1, r1, r2, h1, q1, q2

\* Every rider may ride every horse.
AllSuit == Riders \X Horses

\* Requests that never overlap: one starts when no other is under way.
OneAtATime ==
    \A q \in Requests : pc[q] = "start" /\ pc'[q] # "start" =>
        \A o \in Requests : pc[o] \in {"start", "done"}
=============================================================================
