----------------------------- MODULE MCCalendar ------------------------------
(***************************************************************************)
(* An instance of Calendar for TLC: two spaces and three courses in weeks  *)
(* of one unit, three changes; two courses, two horses and two riders; one *)
(* enrollment; the planning of three roles.                                *)
(***************************************************************************)
EXTENDS Calendar, TLC

CONSTANTS x1, x2, q1, q2, c1, c2, i1, u1, none

TaughtByOne == c1 :> i1

\* The bodies of the requests on the courses: series that keep clear of their repetitions and
\* one that does not, a draft, and edits of one field, of the times, of none.
Body(s, a, b, u, st, given) ==
    [place |-> s, from |-> a, to |-> b, until |-> u, status |-> st, given |-> given]
Every == {"place", "from", "to"}
WeekInputs ==
    {Body(s, 0, b[1], b[2], "open", Every) : s \in Spaces, b \in {<<1, 0>>, <<1, 1>>, <<2, 1>>}}
    \cup {Body(s, 0, 1, 0, "draft", Every) : s \in Spaces}
    \cup {Body(s, 0, 0, 0, "open", {"place"}) : s \in Spaces}
    \cup {Body(x1, 1, 0, 0, "open", {"from"}), Body(x1, 0, 2, 0, "open", {"to"}),
          Body(x1, 1, 2, 0, "open", {"from", "to"}), Body(x1, 0, 0, 0, "open", {})}

Symmetric == Permutations({q1, q2}) \cup Permutations({x1, x2})

\* The changes begin in their order; the third, which creates no course, begins when the first
\* is done, so that two are under way at a time.  A space at a time is no riding space.  Two
\* riders at most are enrolled, one horse at least is fit, and c2 lasts an hour and is not
\* cancelled.
Bounded ==
    /\ \A q, o \in Changes : q < o /\ spacePc[q] = "start" => spacePc'[o] = "start"
    /\ spacePc[3] = "start" /\ spacePc'[3] # "start" =>
          spacePc'[1] = "done" /\ ask'[3].id # 0
    /\ Cardinality({s \in Spaces : kind'[s] # "riding"}) <= 1
    /\ focus = "horses" =>
          /\ Cardinality(horseEnrolled') <= 2 /\ c2 \in live' /\ hours'[c2] = 1
          /\ \E h \in Horses : horseStatus'[h] = "fit"
==============================================================================
