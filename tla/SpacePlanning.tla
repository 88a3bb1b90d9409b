--------------------------- MODULE SpacePlanning ---------------------------
(***************************************************************************)
(* The calendar of the riding spaces: services/spaceService.js, and the    *)
(* half of services/courseService.js that creates, moves and cancels       *)
(* courses (recurrence.js expands a weekly series).                        *)
(*                                                                         *)
(* A request runs one statement at a time: a conflict is looked for in one *)
(* query per slot, and the courses are stored in a later one, in a         *)
(* transaction of its own.  Time is a number; a week lasts Week units.     *)
(* Abstracted: titles, levels and instructors, which only refuse; the      *)
(* enrollments (CourseEnrollment) and the cache of the planning            *)
(* (PlanningCache).                                                        *)
(***************************************************************************)
EXTENDS Integers, FiniteSets

CONSTANTS Spaces, Requests,
          MaxCourses,  \* bound: the courses that can be stored
          MaxTime,     \* bound: times are 0..MaxTime
          Week,        \* the length of a week
          NoSpace,     \* the course does not exist
          Inputs       \* bound: the bodies a request may have

CourseIds == 1..MaxCourses
Times == 0..MaxTime

\* "open" stands for scheduled, ongoing and completed, which the conflicts do not tell apart.
Statuses == {"draft", "open", "cancelled"}

\* given are the fields the body names; until is the end of the recurrence.
Fields == {"place", "from", "to"}
Bodies == [place : Spaces, from : Times, to : Times, status : Statuses, until : Times,
           given : SUBSET Fields]

SpaceAssumption ==
    /\ MaxCourses \in Nat /\ MaxTime \in Nat
    /\ Week \in Nat \ {0}
    /\ Spaces # {} /\ NoSpace \notin Spaces
    /\ Inputs \subseteq Bodies

VARIABLES
    kind,    \* kind[s]: "none" before it is created, "gone" once it is deleted, "stall", or
             \* "riding" (manège, carrière, paddock)
    place,   \* place[c]: the space of the course
    from,    \* from[c]: startAt
    to,      \* to[c]: endAt
    status,  \* status[c]
    root,    \* root[c]: parentCourseId, c itself if it has none
    weekly,  \* weekly[c]: the course carries a recurrenceRule
    pc,      \* pc[q]: the next statement of q
    ask,     \* ask[q]: the course q writes, merged with the one it read
    left,    \* left[q]: the slots q still has to look for conflicts in
    missed,  \* history: missed[q]: the courses others wrote after q had looked for conflicts,
             \* and the course q edits if another wrote it after q had read it
    retyped, \* history: retyped[q]: the spaces that changed their type after q had looked
    blind    \* history: <<c, d>>: the last write of c had missed one of d, or one of c itself,
             \* or came in one series with d whose courses last longer than a week

vars == <<kind, place, from, to, status, root, weekly, pc, ask, left, missed, retyped, blind>>

courses == <<place, from, to, status, root, weekly>>
history == <<missed, retyped, blind>>

\* id is 0 for a course to create.
Forms == [id : 0..MaxCourses, place : Spaces \cup {NoSpace}, from : Times, to : Times,
          status : Statuses, until : Times, given : SUBSET Fields]

TypeOK ==
    /\ kind \in [Spaces -> {"none", "stall", "riding", "gone"}]
    /\ place \in [CourseIds -> Spaces \cup {NoSpace}]
    /\ from \in [CourseIds -> Times] /\ to \in [CourseIds -> Times]
    /\ status \in [CourseIds -> Statuses]
    /\ root \in [CourseIds -> CourseIds]
    /\ weekly \in [CourseIds -> BOOLEAN]
    /\ pc \in [Requests -> {"start", "space", "slots", "store", "count", "done"}]
    /\ ask \in [Requests -> Forms]
    /\ left \in [Requests -> SUBSET Times]
    /\ missed \in [Requests -> SUBSET CourseIds] /\ retyped \in [Requests -> SUBSET Spaces]
    /\ blind \subseteq CourseIds \X CourseIds

Blank == [id |-> 0, place |-> NoSpace, from |-> 0, to |-> 0,
          status |-> "draft", until |-> 0, given |-> {}]

\* Some of the spaces are there; no course is stored yet.
Init ==
    /\ kind \in [Spaces -> {"none", "riding"}]
    /\ place = [c \in CourseIds |-> NoSpace]
    /\ from = [c \in CourseIds |-> 0] /\ to = [c \in CourseIds |-> 0]
    /\ status = [c \in CourseIds |-> "draft"]
    /\ root = [c \in CourseIds |-> c]
    /\ weekly = [c \in CourseIds |-> FALSE]
    /\ pc = [q \in Requests |-> "start"]
    /\ ask = [q \in Requests |-> Blank]
    /\ left = [q \in Requests |-> {}]
    /\ missed = [q \in Requests |-> {}] /\ retyped = [q \in Requests |-> {}] /\ blind = {}

-----------------------------------------------------------------------------
(* Helpers *)

Exists(s) == kind[s] \notin {"none", "gone"}
Stored(c) == place[c] # NoSpace
Used(s) == {c \in CourseIds : place[c] = s}
Live(c) == status[c] \notin {"cancelled", "draft"}

\* [a, b[ and [x, y[ have a moment in common.
Overlap(a, b, x, y) == a < y /\ b > x

\* Mutant: one week too many.
OccurrencesTooMany(f) == {t \in f.from..(f.until + Week) : (t - f.from) % Week = 0}

\* Mutant: the last week is forgotten.
OccurrencesTooFew(f) == {t \in f.from..f.until : (t - f.from) % Week = 0 /\ t + Week <= f.until}
                            \cup {f.from}

\* The starts of a course and of its weekly repetitions.
Occurrences(f) == {t \in f.from..f.until : (t - f.from) % Week = 0} \cup {f.from}

\* Mutant: a course that starts within another is missed.
ConflictAtStart(f, t) ==
    \E c \in CourseIds : /\ place[c] = f.place /\ c # f.id /\ Live(c)
                       /\ from[c] <= t /\ t < to[c]

\* assertNoSpaceConflict for one slot of the form f; an edited course is not in conflict
\* with itself.
Conflict(f, t) ==
    \E c \in CourseIds : /\ place[c] = f.place /\ c # f.id /\ Live(c)
                       /\ Overlap(t, t + f.to - f.from, from[c], to[c])

Goto(q, where) == pc' = [pc EXCEPT ![q] = where]
Finish(q) == /\ Goto(q, "done")
             /\ ask' = [ask EXCEPT ![q] = Blank]
             /\ left' = [left EXCEPT ![q] = {}]
             /\ retyped' = [retyped EXCEPT ![q] = {}]

\* The end of a request that wrote no course.
GiveUp(q) == Finish(q) /\ missed' = [missed EXCEPT ![q] = {}] /\ UNCHANGED <<courses, blind>>

\* q, which has just read the calendar for f, goes on to its checks.
Prepare(q, f, where) ==
    /\ ask' = [ask EXCEPT ![q] = f]
    /\ left' = [left EXCEPT ![q] = Occurrences(f)]
    /\ Goto(q, where)

\* q has written the courses of new: those who have looked, or have read one of them to edit
\* it, have missed that.
Wrote(q, new) ==
    /\ missed' = [o \in Requests |->
         IF o = q THEN {}
         ELSE IF pc[o] \notin {"space", "slots", "store"} THEN missed[o]
         ELSE missed[o] \cup {c \in new : c = ask[o].id \/ left[o] # Occurrences(ask[o])}]
    /\ blind' = {p \in blind : p[1] \notin new /\ p[2] \notin new}
                  \cup (new \X (IF ask[q].id \in missed[q] THEN CourseIds ELSE missed[q]))
                  \cup (IF ask[q].to - ask[q].from > Week THEN new \X new ELSE {})

-----------------------------------------------------------------------------
(* createCourse, updateCourse, cancelCourse *)

\* The validated body of a creation: it names every field and ends after it starts.  (Bound:
\* a repetition on the last day ends by MaxTime.)
AskCreation(q) ==
    /\ pc[q] = "start"
    /\ \E i \in Inputs :
          LET f == [id |-> 0, place |-> i.place, from |-> i.from, to |-> i.to,
                    status |-> i.status, until |-> i.until, given |-> Fields] IN
          /\ i.given = Fields /\ i.from < i.to /\ i.from <= i.until
          /\ f.until + f.to - f.from <= MaxTime
          /\ Prepare(q, f, "space")
    /\ UNCHANGED <<kind, courses, history>>

\* updateCourse reads the course and merges what the body names; the fields are optional, so
\* the schema cannot compare the times.  It gives status its default value when the body has
\* none: an edit always writes a status.
AskEdit(q, c) ==
    /\ pc[q] = "start" /\ Stored(c)
    /\ \E i \in Inputs :
          LET Merged(field, x, y) == IF field \in i.given THEN x ELSE y
              start == Merged("from", i.from, from[c])
          IN Prepare(q, [id |-> c, place |-> Merged("place", i.place, place[c]), from |-> start,
                         to |-> Merged("to", i.to, to[c]), status |-> i.status, until |-> start,
                         given |-> i.given],
                     IF "place" \in i.given THEN "space" ELSE "slots")
    /\ UNCHANGED <<kind, courses, history>>

\* Mutant: a box is a space like any other.
CheckSpaceExists(q) ==
    /\ pc[q] = "space"
    /\ IF Exists(ask[q].place)
       THEN Goto(q, "slots") /\ UNCHANGED <<courses, ask, left, history>>
       ELSE GiveUp(q)
    /\ UNCHANGED kind

\* assertRidingSpace.
CheckSpace(q) ==
    /\ pc[q] = "space"
    /\ IF kind[ask[q].place] = "riding"
       THEN Goto(q, "slots") /\ UNCHANGED <<courses, ask, left, history>>
       ELSE GiveUp(q)
    /\ UNCHANGED kind

\* validateSlots: the slots in the order of time, one query each.
CheckSlot(q) ==
    /\ pc[q] = "slots"
    /\ LET t == CHOOSE x \in left[q] : \A y \in left[q] : x <= y IN
       IF Conflict(ask[q], t)
       THEN GiveUp(q)
       ELSE /\ left' = [left EXCEPT ![q] = @ \ {t}]
            /\ Goto(q, IF left[q] = {t} THEN "store" ELSE "slots")
            /\ UNCHANGED <<courses, ask, history>>
    /\ UNCHANGED kind

\* The transaction stores the parent, which carries the rule, and its repetitions.  The
\* foreign key refuses a space that is gone.
StoreCourses(q) ==
    /\ pc[q] = "store" /\ ask[q].id = 0
    /\ LET f == ask[q]
           starts == Occurrences(f)
           first == Cardinality({c \in CourseIds : Stored(c)}) + 1
           At(c) == f.from + Week * (c - first)
           new == first..(first + Cardinality(starts) - 1)
       IN /\ new \subseteq CourseIds
          /\ IF ~Exists(f.place)
             THEN GiveUp(q)
             ELSE /\ place' = [c \in CourseIds |-> IF c \in new THEN f.place ELSE place[c]]
                  /\ from' = [c \in CourseIds |-> IF c \in new THEN At(c) ELSE from[c]]
                  /\ to' = [c \in CourseIds |-> IF c \in new THEN At(c) + f.to - f.from ELSE to[c]]
                  /\ status' = [c \in CourseIds |-> IF c \in new THEN f.status ELSE status[c]]
                  /\ root' = [c \in CourseIds |-> IF c \in new THEN first ELSE root[c]]
                  /\ weekly' = [c \in CourseIds |-> weekly[c] \/ (c = first /\ f.until > f.from)]
                  /\ Wrote(q, new)
                  /\ Finish(q)
    /\ UNCHANGED kind

\* The edit writes what the input gives; what it does not give stays as it is now.
StoreEdit(q) ==
    /\ pc[q] = "store" /\ ask[q].id # 0
    /\ LET f == ask[q]
           Given(field, x, y) == IF field \in f.given THEN x ELSE y
       IN IF "place" \in f.given /\ ~Exists(f.place)
          THEN GiveUp(q)
          ELSE /\ place' = [place EXCEPT ![f.id] = Given("place", f.place, @)]
               /\ from' = [from EXCEPT ![f.id] = Given("from", f.from, @)]
               /\ to' = [to EXCEPT ![f.id] = Given("to", f.to, @)]
               /\ status' = [status EXCEPT ![f.id] = f.status]
               /\ UNCHANGED <<root, weekly>>
               /\ Wrote(q, {f.id})
               /\ Finish(q)
    /\ UNCHANGED kind

\* cancelCourse, of the course alone or, from the parent, of the series.
CancelCourse(q, c) ==
    /\ pc[q] = "start" /\ Stored(c)
    /\ \E batch \in {{c}} \cup (IF weekly[c] THEN {{d \in CourseIds : root[d] = root[c]}} ELSE {}) :
          status' = [d \in CourseIds |-> IF d \in batch THEN "cancelled" ELSE status[d]]
    /\ Goto(q, "done")
    /\ UNCHANGED <<kind, place, from, to, root, weekly, ask, left, history>>

-----------------------------------------------------------------------------
(* The spaces *)

CreateSpace(s) ==
    /\ kind[s] = "none"
    /\ \E k \in {"stall", "riding"} : kind' = [kind EXCEPT ![s] = k]
    /\ UNCHANGED <<courses, pc, ask, left, history>>

\* updateSpace accepts any type, whatever the courses of the space.
UpdateSpace(s) ==
    /\ Exists(s)
    /\ \E k \in {"stall", "riding"} \ {kind[s]} : kind' = [kind EXCEPT ![s] = k]
    /\ retyped' = [o \in Requests |-> IF pc[o] \in {"slots", "store"} THEN retyped[o] \cup {s}
                                                                    ELSE retyped[o]]
    /\ UNCHANGED <<courses, pc, ask, left, missed, blind>>

\* deleteSpace counts the courses that are not cancelled...
AskDeletion(q, s) ==
    /\ pc[q] = "start" /\ Exists(s)
    /\ IF \A c \in Used(s) : status[c] = "cancelled"
       THEN /\ ask' = [ask EXCEPT ![q].place = s]
            /\ Goto(q, "count")
       ELSE /\ Goto(q, "done")
            /\ UNCHANGED ask
    /\ UNCHANGED <<kind, courses, left, history>>

\* Mutant: the count is trusted, no foreign key protects the courses.
DeleteSpaceCounted(q) ==
    /\ pc[q] = "count"
    /\ kind' = [kind EXCEPT ![ask[q].place] = "gone"]
    /\ GiveUp(q)

\* ... and then deletes; the foreign key refuses a space with any course, a cancelled one
\* or one created since.
DeleteSpace(q) ==
    /\ pc[q] = "count"
    /\ kind' = IF Used(ask[q].place) = {} THEN [kind EXCEPT ![ask[q].place] = "gone"] ELSE kind
    /\ GiveUp(q)

Next ==
    \/ \E q \in Requests :
          \/ AskCreation(q) \/ CheckSpace(q) \/ CheckSlot(q) \/ StoreCourses(q) \/ StoreEdit(q)
          \/ \E c \in CourseIds : AskEdit(q, c) \/ CancelCourse(q, c)
          \/ \E s \in Spaces : AskDeletion(q, s)
          \/ DeleteSpace(q)
    \/ \E s \in Spaces : CreateSpace(s) \/ UpdateSpace(s)

Spec == Init /\ [][Next]_vars

-----------------------------------------------------------------------------
(* Properties *)

\* backlog.md:137: a course cannot overlap another of the same space, whatever series, edits,
\* drafts published later and cancelled courses reopened.  Two courses that do overlap come of
\* one of the three ways the code leaves open: the last write of one missed the other, written
\* since its checks began (no lock lies between the checks and the write); it wrote over an
\* edit of its own course that it had not read; or the two come in one series of courses longer
\* than a week, whose slots are not compared with each other (courseService.js:93).
NoDoubleBooking ==
    \A c \in CourseIds : Stored(c) =>
        \A d \in Used(place[c]) \ {c} :
            /\ Live(c) /\ Live(d) /\ Overlap(from[c], to[c], from[d], to[d])
            => <<c, d>> \in blind \/ <<d, c>> \in blind

\* A course always has its space: the deletion of a space that was counted as unused
\* cannot overtake the creation of a course (spaceService.js:69-72).
SpaceOfCourseExists == \A c \in CourseIds : Stored(c) => Exists(place[c])

\* spaceService.js:42: a course comes into a riding space, never into a box, unless the space
\* became one after the request had looked.
ComesIntoRidingSpace ==
    [][\A q \in Requests, c \in CourseIds :
         pc[q] = "store" /\ pc'[q] = "done" /\ place'[c] # place[c] =>
             kind[place'[c]] = "riding" \/ place'[c] \in retyped[q]]_vars

\* backlog.md:146: a series is stored whole, one course a week up to its last day included
\* (a request that stores is the one that leaves the "store" statement).
SeriesIsWhole ==
    [][\A q \in Requests :
         LET new == {c \in CourseIds : ~Stored(c) /\ place'[c] # NoSpace} IN
         pc[q] = "store" /\ pc'[q] = "done" /\ new # {} =>
             \A t \in ask[q].from..ask[q].until :
                 (t - ask[q].from) % Week = 0 => \E c \in new : from'[c] = t]_vars

\* What every state of the calendar owes its users: a place at a time is given once, but for the
\* races and the series named above, and no course is left without its place.
CalendarIsSound == NoDoubleBooking /\ SpaceOfCourseExists

\* What every write of a course owes them: it goes to a space where one rides, and the
\* repetitions come all or none.
CoursesComeWhole == ComesIntoRidingSpace /\ SeriesIsWhole
=============================================================================
