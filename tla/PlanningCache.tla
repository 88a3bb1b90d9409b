--------------------------- MODULE PlanningCache ---------------------------
(***************************************************************************)
(* The cache of the planning in Redis (services/planningCache.js), the     *)
(* reader that fills it (getPlanningEvents of courseService.js) and the    *)
(* operations that empty it.  Redis and PostgreSQL share no transaction:   *)
(* GET, the query, SET, and the write, KEYS, DEL are steps of their own.   *)
(* Abstracted: the window of dates, which is part of the key; what is      *)
(* shown of a course is its state.                                         *)
(***************************************************************************)
EXTENDS FiniteSets

CONSTANTS Courses, Instructors, Clients, Admins, Requests,
          TaughtBy,    \* TaughtBy[c]: the instructor of the course
          Programmes,  \* what the planning may show of a course: its title, times, space
          Hidden,      \* the course is a draft or cancelled
          NoEntry      \* the key does not exist

Users == Instructors \cup Clients \cup Admins
Keys == Users \cup {"all"}

\* Sets of courses and what is shown of them.
Events == SUBSET (Courses \X Programmes)

CacheAssumption == TaughtBy \in [Courses -> Instructors] /\ "all" \notin Users
                   /\ Hidden \notin Programmes /\ NoEntry \notin Events
                   /\ Clients \cap (Instructors \cup Admins) = {}

VARIABLES
    state,     \* state[c]: Hidden, or the programme of the course
    enrolled,  \* the <<course, client>> with a rider of the family enrolled
    cache,     \* cache[k]: the events stored under k
    pc,        \* pc[q]: the next statement of q
    asker,     \* asker[q]: the <<user, scope>> of a reader
    loaded,    \* loaded[q]: the events it loaded
    found,     \* found[q]: the keys an invalidation listed
    overtaken, \* history: the readers that loaded before the last write
    suspect    \* history: the keys whose staleness has a known cause

vars == <<state, enrolled, cache, pc, asker, loaded, found, overtaken, suspect>>

database == <<state, enrolled>>
locals   == <<asker, loaded, found>>

TypeOK ==
    /\ state \in [Courses -> Programmes \cup {Hidden}]
    /\ enrolled \subseteq Courses \X Clients
    /\ cache \in [Keys -> Events \cup {NoEntry}]
    /\ pc \in [Requests -> {"idle", "load", "fill", "notify", "keys", "del"}]
    /\ asker \in [Requests -> (Users \X {"all", "mine"}) \cup {<< >>}]
    /\ loaded \in [Requests -> Events]
    /\ found \in [Requests -> SUBSET Keys]
    /\ overtaken \subseteq Requests
    /\ suspect \subseteq Keys

Init ==
    /\ state = [c \in Courses |-> Hidden]
    /\ enrolled = {}
    /\ cache = [k \in Keys |-> NoEntry]
    /\ pc = [q \in Requests |-> "idle"]
    /\ asker = [q \in Requests |-> << >>]
    /\ loaded = [q \in Requests |-> {}]
    /\ found = [q \in Requests |-> {}]
    /\ overtaken = {}
    /\ suspect = {}

Cached == {k \in Keys : cache[k] # NoEntry}
Goto(q, where) == pc' = [pc EXCEPT ![q] = where]
Forget(q) == /\ asker' = [asker EXCEPT ![q] = << >>]
             /\ loaded' = [loaded EXCEPT ![q] = {}]
             /\ found' = [found EXCEPT ![q] = {}]

-----------------------------------------------------------------------------
(* Reading *)

\* buildPlanningCacheKey: "all" is shared, "mine" belongs to a user.
Key(u, scope) == IF scope = "mine" THEN u ELSE "all"

\* Mutant: a client's own planning is not filtered by family.
SelectsForAnyClient(u, scope, c) ==
    \/ scope = "all" \/ u \in Admins \cup Clients
    \/ u \in Instructors /\ TaughtBy[c] = u

\* The filter of getPlanningEvents: an admin's own planning is everything.
Selects(u, scope, c) ==
    \/ scope = "all" \/ u \in Admins
    \/ u \in Instructors /\ TaughtBy[c] = u
    \/ u \in Clients /\ <<c, u>> \in enrolled

Planning(u, scope) == {<<c, state[c]>> : c \in {d \in Courses : state[d] # Hidden
                                                                /\ Selects(u, scope, d)}}

\* What a key should hold.
View(k) == Planning(IF k = "all" THEN CHOOSE u \in Users : TRUE ELSE k,
                    IF k = "all" THEN "all" ELSE "mine")

\* redis.get: a hit ends the request.
LookUp(q, u, scope) ==
    /\ pc[q] = "idle"
    /\ cache[Key(u, scope)] = NoEntry
    /\ asker' = [asker EXCEPT ![q] = <<u, scope>>]
    /\ Goto(q, "load")
    /\ UNCHANGED <<database, cache, loaded, found, overtaken, suspect>>

\* The loader queries the courses.
Load(q) ==
    /\ pc[q] = "load"
    /\ loaded' = [loaded EXCEPT ![q] = Planning(asker[q][1], asker[q][2])]
    /\ overtaken' = overtaken \ {q}
    /\ Goto(q, "fill")
    /\ UNCHANGED <<database, cache, asker, found, suspect>>

\* redis.set, for TTL_SEC seconds.
Fill(q) ==
    /\ pc[q] = "fill"
    /\ LET k == Key(asker[q][1], asker[q][2]) IN
          /\ cache' = [cache EXCEPT ![k] = loaded[q]]
          /\ suspect' = IF q \in overtaken THEN suspect \cup {k} ELSE suspect \ {k}
    /\ overtaken' = overtaken \ {q}
    /\ Goto(q, "idle") /\ Forget(q)
    /\ UNCHANGED database

Expire(k) ==
    /\ cache[k] # NoEntry
    /\ cache' = [cache EXCEPT ![k] = NoEntry]
    /\ suspect' = suspect \ {k}
    /\ UNCHANGED <<database, pc, locals, overtaken>>

-----------------------------------------------------------------------------
(* Writing and invalidating *)

\* The readers that have loaded are late from now on.
Overtake == overtaken' = overtaken \cup {q \in Requests : pc[q] = "fill"}

\* createCourse, updateCourse and cancelCourse commit, then invalidate.
WriteCourse(q, c) ==
    /\ pc[q] = "idle"
    /\ \E s \in Programmes \cup {Hidden} : state' = [state EXCEPT ![c] = s]
    /\ Overtake
    /\ Goto(q, "keys")
    /\ UNCHANGED <<enrolled, cache, locals, suspect>>

\* updateSpace and updateMemberProfile rename what the planning shows: nothing is invalidated.
Rename(c) ==
    /\ state[c] # Hidden
    /\ \E s \in Programmes \ {state[c]} : state' = [state EXCEPT ![c] = s]
    /\ suspect' = suspect \cup Cached
    /\ Overtake
    /\ UNCHANGED <<enrolled, cache, pc, locals>>

\* enrollRider commits, then notifies the family, then invalidates.
Enroll(q, c, u) ==
    /\ pc[q] = "idle"
    /\ state[c] # Hidden /\ <<c, u>> \notin enrolled
    /\ enrolled' = enrolled \cup {<<c, u>>}
    /\ Overtake
    /\ Goto(q, "notify")
    /\ UNCHANGED <<state, cache, locals, suspect>>

Notify(q) ==
    /\ pc[q] = "notify"
    /\ Goto(q, "keys")
    /\ UNCHANGED <<database, cache, locals, overtaken, suspect>>

\* The notification throws, or the process dies: the invalidation is never made.
Fail(q) ==
    /\ pc[q] \in {"notify", "keys", "del"}
    /\ suspect' = suspect \cup (IF pc[q] = "del" THEN found[q] ELSE Cached)
    /\ Goto(q, "idle") /\ Forget(q)
    /\ UNCHANGED <<database, cache, overtaken>>

\* redis.keys
ListKeys(q) ==
    /\ pc[q] = "keys"
    /\ found' = [found EXCEPT ![q] = Cached]
    /\ Goto(q, IF Cached = {} THEN "idle" ELSE "del")
    /\ UNCHANGED <<database, cache, asker, loaded, overtaken, suspect>>

\* Mutant: only the shared planning is forgotten.
DeleteSharedKey(q) ==
    /\ pc[q] = "del"
    /\ cache' = [cache EXCEPT !["all"] = NoEntry]
    /\ suspect' = suspect \ {"all"}
    /\ Goto(q, "idle") /\ Forget(q)
    /\ UNCHANGED <<database, overtaken>>

\* redis.del of the keys that were listed.
DeleteKeys(q) ==
    /\ pc[q] = "del"
    /\ cache' = [k \in Keys |-> IF k \in found[q] THEN NoEntry ELSE cache[k]]
    /\ suspect' = suspect \ found[q]
    /\ Goto(q, "idle") /\ Forget(q)
    /\ UNCHANGED <<database, overtaken>>

Next ==
    \/ \E q \in Requests :
          \/ \E u \in Users, scope \in {"all", "mine"} : LookUp(q, u, scope)
          \/ \E c \in Courses : WriteCourse(q, c) \/ \E u \in Clients : Enroll(q, c, u)
          \/ Load(q) \/ Fill(q) \/ Notify(q) \/ Fail(q) \/ ListKeys(q) \/ DeleteKeys(q)
    \/ \E k \in Keys : Expire(k)
    \/ \E c \in Courses : Rename(c)

Spec == Init /\ [][Next]_vars

-----------------------------------------------------------------------------
(* Properties *)

InvalidationAhead(k) ==
    \E q \in Requests : pc[q] \in {"notify", "keys"} \/ (pc[q] = "del" /\ k \in found[q])

\* planningCache.js:4: an entry that differs from the database is about to be deleted, or was
\* stored by a reader that a write had overtaken, or its invalidation failed, or a space or an
\* instructor was renamed; nothing else makes the planning stale.
StaleHasCause ==
    \A k \in Cached : cache[k] # View(k) => InvalidationAhead(k) \/ k \in suspect

\* planningCache.js:6-7: "mine" is never merged with "all": a client who asks for the family's
\* planning is answered with courses the family is enrolled in, whoever filled the cache.
MineStaysMine ==
    \A u \in Clients : Key(u, "mine") \in Cached =>
        \A x \in cache[Key(u, "mine")] : <<x[1], u>> \in enrolled
=============================================================================
