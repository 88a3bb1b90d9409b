---------------------------- MODULE HorseRanking ----------------------------
(***************************************************************************)
(* Which rider gets which horse: simulateHorseAssignments of               *)
(* services/horseAssignment.js, one turn of its loop per step.  The same   *)
(* function plans a course, a stage (EventRegistration keeps its outcomes) *)
(* and the audit of the coming sessions, which writes nothing.             *)
(*                                                                         *)
(* A rider is his rank in the order of enrollment, a horse its rank in the *)
(* order of names, so that ties are broken by comparing numbers.           *)
(***************************************************************************)
EXTENDS Integers, FiniteSets

CONSTANTS NbRiders, NbHorses,
          HorseKinds,  \* the horses there are: records of status, levels and load
          Levels,      \* the levels of the riders, numbers
          Affinities,  \* the affinity tables, functions from rider and horse to a feeling
          NoHorse

CourseRiders == 1..NbRiders
Horses == 1..NbHorses
Feelings == {"favorite", "neutral", "avoid"}

RankingAssumption ==
    /\ NbRiders \in Nat /\ NbHorses \in Nat /\ NoHorse \notin Horses
    /\ Levels \subseteq Nat /\ Levels # {} /\ HorseKinds # {} /\ Affinities # {}
    /\ HorseKinds \subseteq [fit : BOOLEAN, min : Nat, max : Nat, load : Nat, limit : Nat]
    /\ Affinities \subseteq [CourseRiders \X Horses -> Feelings]

VARIABLES
    level,    \* level[r]: the level of the rider
    horse,    \* horse[h]: the row of the horse
    feeling,  \* feeling[<<r, h>>]: the affinity
    kept,     \* kept[r]: the horse the rider had before, or NoHorse
    options,  \* options[r]: how many horses the rider could take when the queue was made
    planning, \* a session is being planned
    queue,    \* the riders still to serve
    mount     \* mount[r]: the horse the rider gets, or NoHorse

vars == <<level, horse, feeling, kept, options, planning, queue, mount>>

context == <<level, horse, feeling, kept>>

TypeOK ==
    /\ level \in [CourseRiders -> Levels]
    /\ horse \in [Horses -> HorseKinds]
    /\ feeling \in Affinities
    /\ kept \in [CourseRiders -> Horses \cup {NoHorse}]
    /\ options \in [CourseRiders -> 0..NbHorses]
    /\ planning \in BOOLEAN
    /\ queue \subseteq CourseRiders
    /\ mount \in [CourseRiders -> Horses \cup {NoHorse}]

NothingPlanned ==
    [level |-> [r \in CourseRiders |-> CHOOSE l \in Levels : TRUE],
     horse |-> [h \in Horses |-> CHOOSE k \in HorseKinds : TRUE],
     feeling |-> CHOOSE a \in Affinities : TRUE,
     mount |-> [r \in CourseRiders |-> NoHorse],
     options |-> [r \in CourseRiders |-> 0]]

\* No session is being planned.
Init ==
    /\ level = NothingPlanned.level
    /\ horse = NothingPlanned.horse
    /\ feeling = NothingPlanned.feeling
    /\ kept = NothingPlanned.mount
    /\ options = NothingPlanned.options
    /\ planning = FALSE
    /\ queue = {}
    /\ mount = NothingPlanned.mount

-----------------------------------------------------------------------------
(* Scores *)

\* levelFit: under is dangerous, over only wastes a horse.
LevelFit(l, k) == IF l < k.min THEN "under" ELSE IF l > k.max THEN "over" ELSE "ok"

OverLevelPenalty == 20

\* Mutant: before ADR 009 a horse below the rider's level was only worth no bonus.
ScoreNoPenalty(r, h) ==
    (CASE feeling[<<r, h>>] = "favorite" -> 10 [] feeling[<<r, h>>] = "avoid" -> -15
       [] OTHER -> 0)
    + (IF LevelFit(level[r], horse[h]) = "ok" THEN 5 ELSE 0)
    - 5 * horse[h].load

\* scoreRiderHorse.
Score(r, h) ==
    (CASE feeling[<<r, h>>] = "favorite" -> 10 [] feeling[<<r, h>>] = "avoid" -> -15
       [] OTHER -> 0)
    + (CASE LevelFit(level[r], horse[h]) = "ok" -> 5
         [] LevelFit(level[r], horse[h]) = "over" -> -OverLevelPenalty
         [] OTHER -> 0)
    - 5 * horse[h].load

\* isEligibleHorse.
Eligible(h) == horse[h].fit /\ horse[h].load < horse[h].limit

\* rankCandidateHorses: h comes before g.
Before(r, h, g) ==
    \/ Score(r, h) > Score(r, g)
    \/ Score(r, h) = Score(r, g) /\ horse[h].load < horse[g].load
    \/ Score(r, h) = Score(r, g) /\ horse[h].load = horse[g].load /\ h < g

\* Mutant: the safety rule of ADR 009 is forgotten.
CandidatesOfAnyLevel(r, m) ==
    {h \in Horses : Eligible(h) /\ \A o \in CourseRiders : m[o] # h}

\* rankFor: the horses rider r may get, those of the mounts m taken out.
Candidates(r, m) ==
    {h \in Horses : /\ Eligible(h) /\ \A o \in CourseRiders : m[o] # h
                    /\ LevelFit(level[r], horse[h]) # "under"}

-----------------------------------------------------------------------------
(* The loop *)

\* The context is loaded and the queue made: the riders without a horse, and how many
\* horses each of them could take.
LoadContext ==
    /\ ~planning /\ planning' = TRUE
    /\ level' \in [CourseRiders -> Levels]
    /\ horse' \in [Horses -> HorseKinds]
    /\ feeling' \in Affinities
    /\ \E r \in CourseRiders, h \in Horses \cup {NoHorse} :
          kept' = [o \in CourseRiders |-> IF o = r THEN h ELSE NoHorse]
    /\ mount' = kept'
    /\ queue' = {r \in CourseRiders : kept'[r] = NoHorse}
    /\ options' = [r \in CourseRiders |->
          IF r \in queue' THEN Cardinality(Candidates(r, kept)') ELSE 0]

\* Mutant: the order of enrollment, as before ADR 009.
FirstIsFirst(r) == \A o \in queue : r <= o

\* The rider with the fewest options first, then the order of enrollment.
First(r) == \A o \in queue : options[r] < options[o] \/ (options[r] = options[o] /\ r <= o)

\* Mutant: the horse is not marked as taken for the others who already have one.
ServeRiderAgain(r) ==
    /\ r \in queue /\ First(r)
    /\ queue' = queue \ {r}
    /\ mount' = [mount EXCEPT ![r] =
          LET all == Candidates(r, [o \in CourseRiders |-> kept[o]]) IN
          IF all = {} THEN NoHorse ELSE CHOOSE h \in all : \A g \in all \ {h} : Before(r, h, g)]
    /\ UNCHANGED <<context, options, planning>>

\* The best ranked horse that is left, or a conflict.
ServeRider(r) ==
    /\ r \in queue /\ First(r)
    /\ queue' = queue \ {r}
    /\ mount' = [mount EXCEPT ![r] =
          LET all == Candidates(r, mount) IN
          IF all = {} THEN NoHorse ELSE CHOOSE h \in all : \A g \in all \ {h} : Before(r, h, g)]
    /\ UNCHANGED <<context, options, planning>>

\* The plan is returned, to be written or, in an audit, only shown.
ReturnPlan ==
    /\ planning /\ queue = {}
    /\ planning' = FALSE
    /\ level' = NothingPlanned.level
    /\ horse' = NothingPlanned.horse
    /\ feeling' = NothingPlanned.feeling
    /\ kept' = NothingPlanned.mount
    /\ options' = NothingPlanned.options
    /\ mount' = NothingPlanned.mount
    /\ UNCHANGED queue

Next == LoadContext \/ ReturnPlan \/ \E r \in CourseRiders : ServeRider(r)

Spec == Init /\ [][Next]_vars

-----------------------------------------------------------------------------
(* Properties *)

\* The riders who have been served, and those of them nothing was left for.
Served == {r \in CourseRiders \ queue : planning /\ kept[r] = NoHorse}
Conflicts == {r \in Served : mount[r] = NoHorse}

\* backlog.md:197: a horse is never given twice in a session.
HorseGivenOnce ==
    \A r, o \in CourseRiders : r # o /\ mount[r] # NoHorse => mount[r] # mount[o]

\* ADR 009: nobody is put on a horse that demands more than his level without an instructor
\* who chose it.
NobodyUnderLevel ==
    \A r \in CourseRiders : mount[r] \in Horses \ {kept[r]} =>
        LevelFit(level[r], horse[mount[r]]) # "under"

\* horseAssignment.js:141-143: the only horse a rider can take is never taken by somebody
\* who had a choice.
OnlyHorseIsKept ==
    \A r \in Conflicts, o \in Served :
        options[r] = 1 /\ options[o] > 1 /\ mount[o] # NoHorse =>
            \/ ~Eligible(mount[o])
            \/ LevelFit(level[r], horse[mount[o]]) = "under"

\* horseAssignment.js:21-25: of two horses liked alike, a rider gets the one below his level
\* only if the suitable one works five hours more.
OverLevelIsLast ==
    [][\A r \in queue, h \in Horses :
         LET g == mount'[r] IN
         /\ planning /\ queue' = queue \ {r} /\ g # NoHorse
         /\ h \in Candidates(r, mount)
         /\ feeling[<<r, h>>] = feeling[<<r, g>>]
         /\ LevelFit(level[r], horse[g]) = "over" /\ LevelFit(level[r], horse[h]) = "ok"
         => horse[h].load >= horse[g].load + 5]_vars

\* What a plan of horses owes to every rider.
PlanIsFair == []HorseGivenOnce /\ []NobodyUnderLevel /\ []OnlyHorseIsKept /\ OverLevelIsLast
=============================================================================
