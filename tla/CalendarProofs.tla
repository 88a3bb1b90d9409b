---------------------------- MODULE CalendarProofs ---------------------------
(***************************************************************************)
(* What Calendar guarantees for any courses, spaces, users and requests:   *)
(* the staleness of the cached planning is explained, a family sees its    *)
(* own courses, the absence of a rider is told, and no place and no horse  *)
(* is given twice at a time.                                               *)
(***************************************************************************)
EXTENDS Calendar, WeeklyHours, FunctionTheorems

-----------------------------------------------------------------------------
(* The cached planning.  What a reader holds is what the database says     *)
(* unless a write has overtaken it, and every write either deletes the key *)
(* later or leaves a trace in suspect.                                     *)

\* The functions are defined on all keys and requests.
CacheDomains ==
    /\ DOMAIN cache = Keys
    /\ DOMAIN pc = Requests /\ DOMAIN asker = Requests
    /\ DOMAIN loaded = Requests /\ DOMAIN found = Requests

\* A reader that has missed the cache knows whose planning it reads.
ReadersKnown ==
    \A q \in Requests : pc[q] \in {"load", "fill"} => asker[q] \in Users \X {"all", "mine"}

\* A reader no write has overtaken holds the planning as it is.
LoadedIsCurrent ==
    \A q \in Requests : pc[q] = "fill" /\ q \notin overtaken =>
        loaded[q] = Planning(asker[q][1], asker[q][2])

CacheInv == CacheDomains /\ ReadersKnown /\ LoadedIsCurrent /\ StaleHasCause

\* The planning is a function of the database alone.
LEMMA PlanningOfDatabase ==
    ASSUME UNCHANGED database, NEW u, NEW scope
    PROVE  Planning(u, scope)' = Planning(u, scope)
BY DEF database, Planning, Selects

\* So is what a key should hold.
LEMMA ViewOfDatabase ==
    ASSUME UNCHANGED database, NEW k
    PROVE  View(k)' = View(k)
BY PlanningOfDatabase DEF View

\* What is stored under a key is read for that key: the shared planning does not depend on
\* who asks for it, and a user's own is stored under the user.
LEMMA KeyViewsPlanning ==
    ASSUME CacheAssumption, NEW u \in Users, NEW scope \in {"all", "mine"}
    PROVE  /\ Key(u, scope) \in Keys
           /\ View(Key(u, scope)) = Planning(u, scope)
<1>1. CASE scope = "mine"
  BY <1>1 DEF Key, Keys, View, CacheAssumption
<1>2. CASE scope = "all"
  <2>1. Planning(CHOOSE v \in Users : TRUE, "all") = Planning(u, "all")
    BY DEF Planning, Selects
  <2> QED BY <1>2, <2>1 DEF Key, Keys, View
<1> QED BY <1>1, <1>2

\* Nothing is cached and nobody reads at first.
LEMMA InitCacheInv == Init => CacheInv
BY DEF Init, CacheInv, CacheDomains, ReadersKnown, LoadedIsCurrent, StaleHasCause, Cached

\* A reader that misses the cache begins.
LEMMA LookUpKeepsCacheInv ==
    ASSUME CacheInv, NEW q \in Requests, NEW u \in Users, NEW scope \in {"all", "mine"},
           LookUp(q, u, scope)
    PROVE  CacheInv'
<1>1. CacheDomains' /\ ReadersKnown'
  BY DEF LookUp, Goto, CacheInv, CacheDomains, ReadersKnown
<1>2. LoadedIsCurrent'
  BY PlanningOfDatabase DEF LookUp, Goto, CacheInv, CacheDomains, LoadedIsCurrent
<1>3. StaleHasCause'
  BY ViewOfDatabase DEF LookUp, Goto, CacheInv, CacheDomains, StaleHasCause, Cached, InvalidationAhead
<1> QED BY <1>1, <1>2, <1>3 DEF CacheInv

\* It holds what the database says when it loads.
LEMMA LoadKeepsCacheInv ==
    ASSUME CacheInv, NEW q \in Requests, Load(q)
    PROVE  CacheInv'
<1>1. CacheDomains' /\ ReadersKnown'
  BY DEF Load, Goto, CacheInv, CacheDomains, ReadersKnown
<1>2. LoadedIsCurrent'
  BY PlanningOfDatabase DEF Load, Goto, CacheInv, CacheDomains, LoadedIsCurrent
<1>3. StaleHasCause'
  BY ViewOfDatabase DEF Load, Goto, CacheInv, CacheDomains, StaleHasCause, Cached, InvalidationAhead
<1> QED BY <1>1, <1>2, <1>3 DEF CacheInv

\* It stores what the key should hold, or is known to be late.
LEMMA FillKeepsCacheInv ==
    ASSUME CacheAssumption, CacheInv, NEW q \in Requests, Fill(q)
    PROVE  CacheInv'
<1> DEFINE key == Key(asker[q][1], asker[q][2])
<1>1. /\ pc[q] = "fill" /\ UNCHANGED database /\ Goto(q, "idle") /\ Forget(q)
      /\ cache' = [cache EXCEPT ![key] = loaded[q]]
      /\ suspect' = IF q \in overtaken THEN suspect \cup {key} ELSE suspect \ {key}
      /\ overtaken' = overtaken \ {q}
  BY DEF Fill
<1>2. CacheDomains' /\ ReadersKnown'
  BY <1>1 DEF Goto, Forget, CacheInv, CacheDomains, ReadersKnown
<1>3. LoadedIsCurrent'
  BY <1>1, PlanningOfDatabase DEF Goto, Forget, CacheInv, CacheDomains, LoadedIsCurrent
<1>4. StaleHasCause'
  <2> SUFFICES ASSUME NEW k \in Cached', cache'[k] # View(k)'
               PROVE  InvalidationAhead(k)' \/ k \in suspect'
    BY DEF StaleHasCause
  <2>1. CASE k = key
    <3>1. asker[q] \in Users \X {"all", "mine"}
      BY <1>1 DEF CacheInv, ReadersKnown
    <3>2. key \in Keys /\ View(key) = Planning(asker[q][1], asker[q][2])
      BY <3>1, KeyViewsPlanning
    <3>3. cache'[k] = loaded[q] /\ View(k)' = View(k)
      BY <1>1, <2>1, <3>2, ViewOfDatabase DEF CacheInv, CacheDomains
    <3>4. q \in overtaken
      BY <1>1, <2>1, <3>2, <3>3 DEF CacheInv, LoadedIsCurrent
    <3> QED BY <1>1, <2>1, <3>4
  <2>2. CASE k # key
    <3>1. k \in Cached /\ cache[k] # View(k)
      BY <1>1, <2>2, ViewOfDatabase DEF Cached, CacheInv, CacheDomains
    <3>2. InvalidationAhead(k) \/ k \in suspect
      BY <3>1 DEF CacheInv, StaleHasCause
    <3>3. InvalidationAhead(k) => InvalidationAhead(k)'
      BY <1>1 DEF InvalidationAhead, Goto, Forget, CacheInv, CacheDomains
    <3> QED BY <1>1, <2>2, <3>2, <3>3
  <2> QED BY <2>1, <2>2
<1> QED BY <1>2, <1>3, <1>4 DEF CacheInv

\* A write of a course or an enrollment has its invalidation before it.
LEMMA WriteKeepsCacheInv ==
    ASSUME CacheInv, NEW q \in Requests, NEW where \in {"notify", "keys"},
           pc[q] = "idle", Goto(q, where), Overtake, UNCHANGED <<cache, locals, suspect>>
    PROVE  CacheInv'
<1>1. CacheDomains' /\ ReadersKnown'
  BY DEF Goto, locals, CacheInv, CacheDomains, ReadersKnown
<1>2. LoadedIsCurrent'
  BY DEF Goto, Overtake, CacheInv, CacheDomains, LoadedIsCurrent
<1>3. StaleHasCause'
  BY DEF Goto, CacheInv, CacheDomains, StaleHasCause, InvalidationAhead
<1> QED BY <1>1, <1>2, <1>3 DEF CacheInv

\* A renaming makes every entry suspect.
LEMMA RenameKeepsCacheInv ==
    ASSUME CacheInv, NEW c \in Courses, Rename(c)
    PROVE  CacheInv'
<1>1. CacheDomains' /\ ReadersKnown'
  BY DEF Rename, locals, CacheInv, CacheDomains, ReadersKnown
<1>2. LoadedIsCurrent'
  BY DEF Rename, Overtake, locals, CacheInv, CacheDomains, LoadedIsCurrent
<1>3. StaleHasCause'
  BY DEF Rename, StaleHasCause, Cached
<1> QED BY <1>1, <1>2, <1>3 DEF CacheInv

\* An invalidation goes on, or ends having deleted what it listed, or fails and makes suspect
\* what it would have deleted; an entry expires.
LEMMA InvalidationKeepsCacheInv ==
    ASSUME CacheInv, \/ \E q \in Requests : Notify(q) \/ ListKeys(q) \/ DeleteKeys(q) \/ Fail(q)
                \/ \E k \in Keys : Expire(k)
    PROVE  CacheInv'
<1>1. UNCHANGED database /\ (\A k \in Cached' : k \in Cached /\ cache'[k] = cache[k])
  BY DEF Notify, ListKeys, DeleteKeys, Fail, Expire, Cached, CacheInv, CacheDomains
<1>2. /\ CacheDomains'
      /\ UNCHANGED overtaken
      /\ \A q \in Requests : pc'[q] \in {"load", "fill"} =>
            pc'[q] = pc[q] /\ asker'[q] = asker[q] /\ loaded'[q] = loaded[q]
  BY DEF Notify, ListKeys, DeleteKeys, Fail, Expire, Forget, Goto, locals, CacheInv, CacheDomains
<1>3. ReadersKnown'
  BY <1>2 DEF CacheInv, ReadersKnown
<1>4. LoadedIsCurrent'
  BY <1>1, <1>2, PlanningOfDatabase DEF CacheInv, LoadedIsCurrent
<1>5. ASSUME NEW k \in Cached', InvalidationAhead(k) \/ k \in suspect
      PROVE  InvalidationAhead(k)' \/ k \in suspect'
  <2>1. ASSUME NEW q \in Requests, Notify(q)
        PROVE  InvalidationAhead(k)' \/ k \in suspect'
    BY <1>5, <2>1 DEF Notify, Goto, locals, InvalidationAhead, CacheInv, CacheDomains
  <2>2. ASSUME NEW q \in Requests, ListKeys(q)
        PROVE  InvalidationAhead(k)' \/ k \in suspect'
    BY <1>1, <1>5, <2>2 DEF ListKeys, Goto, InvalidationAhead, CacheInv, CacheDomains
  <2>3. ASSUME NEW q \in Requests, DeleteKeys(q)
        PROVE  InvalidationAhead(k)' \/ k \in suspect'
    <3>1. k \notin found[q]
      BY <2>3 DEF DeleteKeys, Cached
    <3> QED BY <1>5, <2>3, <3>1 DEF DeleteKeys, Goto, Forget, InvalidationAhead, CacheInv, CacheDomains
  <2>4. ASSUME NEW q \in Requests, Fail(q)
        PROVE  InvalidationAhead(k)' \/ k \in suspect'
    BY <1>1, <1>5, <2>4 DEF Fail, Goto, Forget, InvalidationAhead, CacheInv, CacheDomains
  <2>5. ASSUME NEW e \in Keys, Expire(e)
        PROVE  InvalidationAhead(k)' \/ k \in suspect'
    BY <1>5, <2>5 DEF Expire, Cached, locals, InvalidationAhead, CacheInv, CacheDomains
  <2> QED BY <2>1, <2>2, <2>3, <2>4, <2>5
<1>6. StaleHasCause'
  BY <1>1, <1>5, ViewOfDatabase DEF CacheInv, StaleHasCause
<1> QED BY <1>2, <1>3, <1>4, <1>6 DEF CacheInv

\* Every step is one of those.
LEMMA NextKeepsCacheInv ==
    ASSUME CacheAssumption, CacheInv, [Next]_vars
    PROVE  CacheInv'
<1>1. CASE UNCHANGED vars
  <2>1. UNCHANGED database
    BY <1>1 DEF vars, database
  <2>2. UNCHANGED <<cache, pc, asker, loaded, found, overtaken, suspect>>
    BY <1>1 DEF vars
  <2>3. CacheDomains' /\ ReadersKnown'
    BY <2>2 DEF CacheInv, CacheDomains, ReadersKnown
  <2>4. LoadedIsCurrent'
    BY <2>1, <2>2, PlanningOfDatabase DEF CacheInv, LoadedIsCurrent
  <2>5. StaleHasCause'
    BY <2>1, <2>2, ViewOfDatabase DEF CacheInv, StaleHasCause, Cached, InvalidationAhead
  <2> QED BY <2>3, <2>4, <2>5 DEF CacheInv
<1>2. ASSUME NEW q \in Requests, NEW c \in Courses, WriteCourse(q, c)
      PROVE  CacheInv'
  BY <1>2, WriteKeepsCacheInv DEF WriteCourse
<1>3. ASSUME NEW q \in Requests, NEW c \in Courses, NEW u \in Clients, Enroll(q, c, u)
      PROVE  CacheInv'
  BY <1>3, WriteKeepsCacheInv DEF Enroll
<1> QED BY <1>1, <1>2, <1>3, LookUpKeepsCacheInv, LoadKeepsCacheInv, FillKeepsCacheInv, RenameKeepsCacheInv,
           InvalidationKeepsCacheInv DEF Next

-----------------------------------------------------------------------------
(* What is stored for a client *)

\* A reader that loaded a client's own planning holds courses of the family only.
OwnLoaded ==
    \A q \in Requests, u \in Clients : pc[q] = "fill" /\ asker[q] = <<u, "mine">> =>
        \A x \in loaded[q] : <<x[1], u>> \in enrolled

OwnInv == CacheDomains /\ ReadersKnown /\ OwnLoaded /\ MineStaysMine

\* The query filters a client's own planning by the family's enrollments.
LEMMA OwnPlanningIsEnrolled ==
    ASSUME CacheAssumption, NEW u \in Clients, NEW x \in Planning(u, "mine")
    PROVE  <<x[1], u>> \in enrolled
<1>1. PICK c \in Courses : x = <<c, state[c]>> /\ Selects(u, "mine", c)
  BY DEF Planning
<1>2. u \notin Admins \cup Instructors
  BY DEF CacheAssumption
<1> QED BY <1>1, <1>2 DEF Selects

\* Every step keeps it so: enrollments are never withdrawn.
LEMMA NextKeepsOwn ==
    ASSUME CacheAssumption, OwnInv, [Next]_vars
    PROVE  OwnInv'
<1>1. CacheDomains' /\ ReadersKnown'
  <2>1. CacheDomains'
    BY DEF OwnInv, CacheDomains, Next, vars, LookUp, Load, Fill, Expire, WriteCourse, Rename, Enroll,
           Notify, Fail, ListKeys, DeleteKeys, Goto, Forget, locals
  <2>2. ASSUME NEW q \in Requests, pc'[q] \in {"load", "fill"}
        PROVE  asker'[q] \in Users \X {"all", "mine"}
    <3>1. CASE \E u \in Users, scope \in {"all", "mine"} : LookUp(q, u, scope)
      BY <3>1 DEF LookUp, OwnInv, CacheDomains
    <3>2. CASE ~ \E u \in Users, scope \in {"all", "mine"} : LookUp(q, u, scope)
      <4>1. pc[q] \in {"load", "fill"} /\ asker'[q] = asker[q]
        <5>1. CASE \E o \in Requests, u \in Users, scope \in {"all", "mine"} : LookUp(o, u, scope)
          BY <2>2, <3>2, <5>1 DEF OwnInv, CacheDomains, LookUp, Goto
        <5>2. CASE ~ \E o \in Requests, u \in Users, scope \in {"all", "mine"} : LookUp(o, u, scope)
          BY <2>2, <5>2 DEF OwnInv, CacheDomains, Next, vars, Load, Fill, Expire, WriteCourse,
                            Rename, Enroll, Notify, Fail, ListKeys, DeleteKeys, Goto, Forget, locals
        <5> QED BY <5>1, <5>2
      <4> QED BY <4>1 DEF OwnInv, ReadersKnown
    <3> QED BY <3>1, <3>2
  <2> QED BY <2>1, <2>2 DEF ReadersKnown
<1>2. enrolled \subseteq enrolled'
  BY DEF Next, vars, database, LookUp, Load, Fill, Expire, WriteCourse, Rename, Enroll,
         Notify, Fail, ListKeys, DeleteKeys
<1>3. OwnLoaded'
  <2> SUFFICES ASSUME NEW q \in Requests, NEW u \in Clients, NEW x \in loaded'[q],
                      pc'[q] = "fill", asker'[q] = <<u, "mine">>
               PROVE  <<x[1], u>> \in enrolled'
    BY DEF OwnLoaded
  <2>1. CASE Load(q)
    <3>1. x \in Planning(u, "mine")
      BY <2>1 DEF Load, OwnInv, CacheDomains
    <3> QED BY <3>1, <1>2, OwnPlanningIsEnrolled
  <2>2. CASE ~Load(q)
    <3>1. pc[q] = "fill" /\ asker[q] = asker'[q] /\ loaded[q] = loaded'[q]
      BY <2>2 DEF OwnInv, CacheDomains, Next, vars, LookUp, Load, Fill, Expire, WriteCourse,
                  Rename, Enroll, Notify, Fail, ListKeys, DeleteKeys, Goto, Forget, locals
    <3> QED BY <3>1, <1>2 DEF OwnInv, OwnLoaded
  <2> QED BY <2>1, <2>2
<1>4. MineStaysMine'
  <2> SUFFICES ASSUME NEW u \in Clients, u \in Cached', NEW x \in cache'[u]
               PROVE  <<x[1], u>> \in enrolled'
    BY DEF MineStaysMine, Key
  <2>1. CASE \E q \in Requests : Fill(q) /\ asker[q] = <<u, "mine">>
    BY <2>1, <1>2 DEF Fill, Key, OwnInv, CacheDomains, OwnLoaded, Cached
  <2>2. CASE ~ \E q \in Requests : Fill(q) /\ asker[q] = <<u, "mine">>
    <3>1. u # "all" /\ u \in Keys
      BY DEF CacheAssumption, Users, Keys
    <3>2. ASSUME NEW q \in Requests, Fill(q)
          PROVE  u \in Cached /\ cache'[u] = cache[u]
      <4>1. PICK v \in Users, scope \in {"all", "mine"} : asker[q] = <<v, scope>>
        BY <3>2 DEF Fill, OwnInv, ReadersKnown
      <4>2. Key(v, scope) # u
        BY <4>1, <3>1, <3>2, <2>2 DEF Key
      <4> QED BY <4>1, <4>2, <3>2 DEF Fill, Cached, OwnInv, CacheDomains
    <3>3. ASSUME ~ \E q \in Requests : Fill(q)
          PROVE  u \in Cached /\ cache'[u] = cache[u]
      BY <3>3 DEF OwnInv, CacheDomains, Next, vars, LookUp, Load, Expire, WriteCourse, Rename,
                  Enroll, Notify, Fail, ListKeys, DeleteKeys, Cached
    <3>4. u \in Cached /\ cache'[u] = cache[u]
      BY <3>2, <3>3
    <3> QED BY <3>4, <1>2 DEF OwnInv, MineStaysMine, Key
  <2> QED BY <2>1, <2>2
<1> QED BY <1>1, <1>3, <1>4 DEF OwnInv

-----------------------------------------------------------------------------
(* The absences.  A request that found the rider absent stays silent, and  *)
(* trusts the one that wrote the absence.                                  *)

ToldInv == T!TypeOK /\ T!AbsenceTold /\ T!ReadAbsenceTold

\* The family of x has been told of an absence, or a request is about to tell it.
Announced(x) ==
    \/ x \in told
    \/ \E o \in Requests : attendancePc[o] = "tell" /\ attendanceTarget[o] = x /\ T!News(o)

\* The invariant in terms of Announced.
LEMMA ToldInvIsAnnounced ==
    ToldInv <=>
        /\ T!TypeOK
        /\ \A x \in Enrollments : attendance[x] = "absent" => Announced(x)
        /\ \A q \in Requests, x \in Enrollments :
              attendancePc[q] # "idle" /\ previous[q] = "absent" /\ attendanceTarget[q] = x => Announced(x)
BY DEF ToldInv, T!TypeOK, T!AbsenceTold, T!ReadAbsenceTold, Announced

\* A request that reads or writes leaves every announcement as it is.
LEMMA OthersAnnounce ==
    ASSUME T!TypeOK, NEW q \in Requests, attendancePc[q] # "tell",
           told' = told,
           \A o \in Requests \ {q} : /\ attendancePc'[o] = attendancePc[o] /\ attendanceTarget'[o] = attendanceTarget[o]
                                     /\ asked'[o] = asked[o] /\ previous'[o] = previous[o],
           NEW x \in Enrollments, Announced(x)
    PROVE  Announced(x)'
<1>1. CASE x \in told
  BY <1>1 DEF Announced
<1>2. ASSUME NEW o \in Requests, attendancePc[o] = "tell", attendanceTarget[o] = x, T!News(o)
      PROVE  Announced(x)'
  <2>1. o # q
    BY <1>2
  <2>2. attendancePc'[o] = "tell" /\ attendanceTarget'[o] = x /\ T!News(o)'
    BY <1>2, <2>1 DEF T!News
  <2> QED BY <2>2 DEF Announced
<1> QED BY <1>1, <1>2 DEF Announced

\* What a request reads as absent is announced: by the invariant, not by this request.
LEMMA ReadKeepsToldInv ==
    ASSUME ToldInv, NEW q \in Requests, NEW x \in Enrollments, NEW a \in T!Asked,
           T!ReadAttendance(q, x, a)
    PROVE  ToldInv'
<1>1. T!TypeOK'
  BY DEF ToldInv, T!TypeOK, T!ReadAttendance, T!Goto
<1>2. \A y \in Enrollments : Announced(y) => Announced(y)'
  <2>1. /\ attendancePc[q] # "tell" /\ told' = told
        /\ \A o \in Requests \ {q} : /\ attendancePc'[o] = attendancePc[o] /\ attendanceTarget'[o] = attendanceTarget[o]
                                     /\ asked'[o] = asked[o] /\ previous'[o] = previous[o]
    BY DEF T!ReadAttendance, T!Goto, ToldInv, T!TypeOK
  <2> QED BY <2>1, OthersAnnounce DEF ToldInv
<1>3. \A y \in Enrollments : attendance'[y] = "absent" => Announced(y)'
  BY <1>2, ToldInvIsAnnounced DEF T!ReadAttendance
<1>4. ASSUME NEW o \in Requests, NEW y \in Enrollments,
             attendancePc'[o] # "idle", previous'[o] = "absent", attendanceTarget'[o] = y
      PROVE  Announced(y)'
  <2>1. CASE o = q
    <3>1. y = x /\ attendance[x] = "absent"
      BY <1>4, <2>1 DEF T!ReadAttendance, ToldInv, T!TypeOK
    <3> QED BY <1>2, <3>1, ToldInvIsAnnounced
  <2>2. CASE o # q
    <3>1. attendancePc[o] # "idle" /\ previous[o] = "absent" /\ attendanceTarget[o] = y
      BY <1>4, <2>2 DEF T!ReadAttendance, T!Goto, ToldInv, T!TypeOK
    <3> QED BY <1>2, <3>1, ToldInvIsAnnounced
  <2> QED BY <2>1, <2>2
<1>5. T!AbsenceTold'
  BY <1>3 DEF T!AbsenceTold, Announced
<1>6. ASSUME NEW o \in Requests, attendancePc'[o] # "idle", previous'[o] = "absent"
      PROVE  attendanceTarget'[o] \in told' \/ \E p \in Requests : attendancePc'[p] = "tell"
                                                  /\ attendanceTarget'[p] = attendanceTarget'[o] /\ T!News(p)'
  <2>1. attendanceTarget'[o] \in Enrollments
    BY <1>1 DEF T!TypeOK
  <2> QED BY <1>4, <1>6, <2>1 DEF Announced
<1> QED BY <1>1, <1>5, <1>6 DEF ToldInv, T!ReadAbsenceTold

\* What a request writes as absent it announces, unless it read an announced absence.
LEMMA WriteKeepsToldInv ==
    ASSUME ToldInv, NEW q \in Requests, T!WriteAttendance(q)
    PROVE  ToldInv'
<1>1. T!TypeOK'
  <2>1. asked[q].value \in T!Values
    BY DEF ToldInv, T!TypeOK, T!Asked, T!Values
  <2> QED BY <2>1 DEF ToldInv, T!TypeOK, T!WriteAttendance, T!Goto
<1>2. \A y \in Enrollments : Announced(y) => Announced(y)'
  <2>1. /\ attendancePc[q] # "tell" /\ told' = told
        /\ \A o \in Requests \ {q} : /\ attendancePc'[o] = attendancePc[o] /\ attendanceTarget'[o] = attendanceTarget[o]
                                     /\ asked'[o] = asked[o] /\ previous'[o] = previous[o]
    BY DEF T!WriteAttendance, T!Goto, ToldInv, T!TypeOK
  <2> QED BY <2>1, OthersAnnounce DEF ToldInv
<1>3. ASSUME NEW y \in Enrollments, attendance'[y] = "absent"
      PROVE  Announced(y)'
  <2>1. CASE y = attendanceTarget[q]
    <3>1. asked[q].value = "absent" /\ asked[q] \in T!Asked
      BY <1>3, <2>1 DEF T!WriteAttendance, ToldInv, T!TypeOK
    <3>2. asked[q] = [by |-> "staff", value |-> "absent"]
      BY <3>1 DEF T!Asked
    <3>3. CASE previous[q] = "absent"
      <4>1. attendancePc[q] # "idle"
        BY DEF T!WriteAttendance
      <4> QED BY <1>2, <2>1, <3>3, <4>1, ToldInvIsAnnounced
    <3>4. CASE previous[q] # "absent"
      <4>1. attendancePc'[q] = "tell" /\ attendanceTarget'[q] = y /\ T!News(q)'
        BY <2>1, <3>1, <3>2, <3>4 DEF T!WriteAttendance, T!Goto, ToldInv, T!TypeOK, T!News
      <4> QED BY <4>1 DEF Announced
    <3> QED BY <3>3, <3>4
  <2>2. CASE y # attendanceTarget[q]
    <3>1. attendance[y] = "absent"
      BY <1>3, <2>2 DEF T!WriteAttendance, ToldInv, T!TypeOK
    <3> QED BY <1>2, <3>1, ToldInvIsAnnounced
  <2> QED BY <2>1, <2>2
<1>4. ASSUME NEW o \in Requests, NEW y \in Enrollments,
             attendancePc'[o] # "idle", previous'[o] = "absent", attendanceTarget'[o] = y
      PROVE  Announced(y)'
  <2>1. attendancePc[o] # "idle" /\ previous[o] = "absent" /\ attendanceTarget[o] = y
    BY <1>4 DEF T!WriteAttendance, T!Goto, ToldInv, T!TypeOK
  <2> QED BY <1>2, <2>1, ToldInvIsAnnounced
<1>5. T!AbsenceTold'
  BY <1>3 DEF T!AbsenceTold, Announced
<1>6. ASSUME NEW o \in Requests, attendancePc'[o] # "idle", previous'[o] = "absent"
      PROVE  attendanceTarget'[o] \in told' \/ \E p \in Requests : attendancePc'[p] = "tell"
                                                  /\ attendanceTarget'[p] = attendanceTarget'[o] /\ T!News(p)'
  <2>1. attendanceTarget'[o] \in Enrollments
    BY <1>1 DEF T!TypeOK
  <2> QED BY <1>4, <1>6, <2>1 DEF Announced
<1> QED BY <1>1, <1>5, <1>6 DEF ToldInv, T!ReadAbsenceTold

\* A request that tells a family turns its announcement into a notice.
LEMMA TellKeepsToldInv ==
    ASSUME ToldInv, NEW q \in Requests, T!TellFamily(q)
    PROVE  ToldInv'
<1>1. T!TypeOK'
  BY DEF ToldInv, T!TypeOK, T!TellFamily, T!Goto
<1>2. ASSUME NEW y \in Enrollments, Announced(y)
      PROVE  Announced(y)'
  <2>1. CASE y \in told
    BY <2>1 DEF T!TellFamily, Announced
  <2>2. ASSUME NEW o \in Requests, attendancePc[o] = "tell", attendanceTarget[o] = y, T!News(o)
        PROVE  Announced(y)'
    <3>1. CASE o = q
      BY <2>2, <3>1 DEF T!TellFamily, Announced
    <3>2. CASE o # q
      <4>1. attendancePc'[o] = "tell" /\ attendanceTarget'[o] = y /\ T!News(o)'
        BY <2>2, <3>2 DEF T!TellFamily, T!Goto, ToldInv, T!TypeOK, T!News
      <4> QED BY <4>1 DEF Announced
    <3> QED BY <3>1, <3>2
  <2> QED BY <1>2, <2>1, <2>2 DEF Announced
<1>3. \A y \in Enrollments : attendance'[y] = "absent" => Announced(y)'
  BY <1>2, ToldInvIsAnnounced DEF T!TellFamily
<1>4. ASSUME NEW o \in Requests, NEW y \in Enrollments,
             attendancePc'[o] # "idle", previous'[o] = "absent", attendanceTarget'[o] = y
      PROVE  Announced(y)'
  <2>1. attendancePc[o] # "idle" /\ previous[o] = "absent" /\ attendanceTarget[o] = y
    BY <1>4 DEF T!TellFamily, T!Goto, ToldInv, T!TypeOK
  <2> QED BY <1>2, <2>1, ToldInvIsAnnounced
<1>5. T!AbsenceTold'
  BY <1>3 DEF T!AbsenceTold, Announced
<1>6. ASSUME NEW o \in Requests, attendancePc'[o] # "idle", previous'[o] = "absent"
      PROVE  attendanceTarget'[o] \in told' \/ \E p \in Requests : attendancePc'[p] = "tell"
                                                  /\ attendanceTarget'[p] = attendanceTarget'[o] /\ T!News(p)'
  <2>1. attendanceTarget'[o] \in Enrollments
    BY <1>1 DEF T!TypeOK
  <2> QED BY <1>4, <1>6, <2>1 DEF Announced
<1> QED BY <1>1, <1>5, <1>6 DEF ToldInv, T!ReadAbsenceTold

-----------------------------------------------------------------------------
(* The riding spaces.  A request that has looked for conflicts in a slot   *)
(* has found none but with the courses it has missed, and those are blind  *)
(* to each other once it writes.                                           *)

\* The identifiers are given in order.
StoredFirst == \E n \in 0..MaxCourses : \A c \in S!CourseIds : S!Stored(c) <=> c <= n

\* A request is between its first read and its write; it has begun to look for conflicts.
Pending(q) == spacePc[q] \in {"space", "slots", "store"}
Looking(q) == spacePc[q] \in {"slots", "store"}

\* What a request on the courses asks for: a creation is a validated series, an edit is of a
\* course that is stored.
Formed(q) ==
    /\ ask[q].place \in Spaces /\ ask[q].from <= ask[q].until
    /\ ask[q].id = 0 => /\ ask[q].given = S!Fields /\ ask[q].from < ask[q].to
                        /\ ask[q].until + ask[q].to - ask[q].from <= MaxTime
    /\ ask[q].id # 0 => S!Stored(ask[q].id) /\ ask[q].until = ask[q].from

\* What an edit does not name is as it was read, unless the course was written since.
Fresh(q) ==
    ask[q].id # 0 /\ ask[q].id \notin missed[q] =>
        /\ "place" \in ask[q].given \/ place[ask[q].id] = ask[q].place
        /\ "from" \in ask[q].given \/ from[ask[q].id] = ask[q].from
        /\ "to" \in ask[q].given \/ to[ask[q].id] = ask[q].to

\* Course d is in the way of the slot of f at t.
Clash(f, t, d) ==
    /\ place[d] = f.place /\ d # f.id /\ S!Live(d)
    /\ S!Overlap(t, t + f.to - f.from, from[d], to[d])

\* What a request has found: the space is for riding, and no course it has not missed is in
\* the way of a slot it has looked at.
Checked(q) ==
    /\ "place" \in ask[q].given =>
          kind[ask[q].place] \in {"riding", "gone"} \/ ask[q].place \in retyped[q]
    /\ \A t \in S!Occurrences(ask[q]) \ left[q], d \in S!CourseIds \ missed[q] :
          ~Clash(ask[q], t, d)

Known(q) ==
    /\ Pending(q) => Formed(q) /\ Fresh(q)
    /\ spacePc[q] = "space" => "place" \in ask[q].given /\ left[q] = S!Occurrences(ask[q])
    /\ Looking(q) => Checked(q)
    /\ spacePc[q] = "slots" => left[q] # {}
    /\ spacePc[q] = "store" => left[q] = {}

SpaceInv == S!TypeOK /\ StoredFirst /\ (\A q \in Changes : Known(q)) /\ CalendarIsSound

\* Request q goes on alone.
OnlyOf(q) ==
    \A o \in Changes \ {q} :
        /\ spacePc'[o] = spacePc[o] /\ ask'[o] = ask[o] /\ left'[o] = left[o]
        /\ missed'[o] = missed[o] /\ retyped'[o] = retyped[o]

\* A course is never deleted.
CoursesStay == \A c \in S!CourseIds : S!Stored(c) => S!Stored(c)'

\* Course d stays where and when it is, and no draft of it is published.
Stays(d) ==
    place'[d] = place[d] /\ from'[d] = from[d] /\ to'[d] = to[d] /\ (S!Live(d)' => S!Live(d))

\* A set of times has an earliest one.
LEMMA EarliestExists ==
    ASSUME NEW X \in SUBSET Nat, X # {}
    PROVE  \E x \in X : \A y \in X : x <= y
<1> DEFINE Less == {ss \in Nat \X Nat : ss[1] < ss[2]}
<1>1. IsWellFoundedOn(Less, Nat)
  BY NatLessThanWellFounded DEF OpToRel
<1>2. PICK x \in X : \A y \in X : ~(<<y, x>> \in Less)
  <2> HIDE DEF Less
  <2> QED BY <1>1, WFMin, Zenon
<1>3. ASSUME NEW y \in X, y < x
      PROVE  FALSE
  <2>1. <<y, x>> \in Less
    BY <1>3
  <2> QED BY <1>2, <2>1, Zenon
<1>4. \A y \in X : ~(y < x) /\ y \in Nat /\ x \in Nat
  BY <1>3
<1> QED BY <1>4

\* How many whole weeks a time lasts.
LEMMA WeeksOf ==
    ASSUME NEW d \in Nat
    PROVE  /\ d \div Week \in Nat /\ Week * (d \div Week) <= d /\ d < Week * (d \div Week + 1)
           /\ d % Week = 0 => d = Week * (d \div Week)
<1>1. Week \in Nat /\ Week > 0
  BY CalendarAssumption DEF S!SpaceAssumption
<1>2. d \div Week \in Int /\ d \div Week >= 0
  BY <1>1
<1>3. Week * (d \div Week) <= d
  BY <1>1
<1>4. d < Week * (d \div Week + 1)
  BY <1>1
<1>5. d % Week = 0 => d = Week * (d \div Week)
  BY <1>1
<1> QED BY <1>2, <1>3, <1>4, <1>5

\* The starts of a series are a week apart, and there are as many as its weeks.
LEMMA OccurrencesAreWeekly ==
    ASSUME NEW f \in S!Forms, f.from <= f.until
    PROVE  \E n \in Nat : /\ f.from + Week * n <= f.until
                          /\ S!Occurrences(f) = {f.from + Week * k : k \in 0..n}
                          /\ Cardinality(S!Occurrences(f)) = n + 1
<1> DEFINE e == f.until - f.from
           n == e \div Week
           At(k) == f.from + Week * k
<1>1. f.from \in Nat /\ f.until \in Nat /\ Week \in Nat /\ Week > 0
  BY CalendarAssumption DEF S!Forms, S!Times, S!SpaceAssumption
<1>2. n \in Nat /\ Week * n <= f.until - f.from
  BY <1>1, WeeksOf
<1>3. \A k \in 0..n : At(k) \in f.from..f.until /\ (At(k) - f.from) % Week = 0
  <2> TAKE k \in 0..n
  <2>1. Week * k \in Nat /\ Week * k <= Week * n
    BY <1>1, <1>2, Z3
  <2>2. (Week * k) % Week = 0
    BY <1>1, Z3
  <2> QED BY <1>1, <1>2, <2>1, <2>2
<1>4. \A t \in f.from..f.until : (t - f.from) % Week = 0 => \E k \in 0..n : t = At(k)
  <2> SUFFICES ASSUME NEW t \in f.from..f.until, (t - f.from) % Week = 0
               PROVE  \E k \in 0..n : t = At(k)
    OBVIOUS
  <2> DEFINE d == t - f.from
             k == d \div Week
  <2>1. d \in Nat /\ e \in Nat /\ d <= e
    BY <1>1
  <2>2. k \in Nat /\ d = Week * k
    <3>1. d % Week = 0
      OBVIOUS
    <3> HIDE DEF d
    <3> QED BY <2>1, <3>1, WeeksOf
  <2>3. e < Week * (n + 1)
    <3> HIDE DEF e
    <3> QED BY <2>1, WeeksOf
  <2>4. k <= n
    <3> HIDE DEF k, n, d, e
    <3>1. Week * k < Week * (n + 1)
      <4>1. Week * k \in Int /\ Week * (n + 1) \in Int
        BY <1>1, <1>2, <2>2
      <4> QED BY <2>1, <2>2, <2>3, <4>1
    <3> QED BY <1>1, <1>2, <2>2, <3>1, Z3
  <2> QED BY <1>1, <2>1, <2>2, <2>4
<1>5. S!Occurrences(f) = {At(k) : k \in 0..n}
  <2>1. f.from \in f.from..f.until /\ (f.from - f.from) % Week = 0
    BY <1>1, <1>3, <1>2
  <2> HIDE DEF n, At
  <2> QED BY <1>3, <1>4, <2>1 DEF S!Occurrences
<1>6. Cardinality(S!Occurrences(f)) = n + 1
  <2> DEFINE F == [k \in 0..n |-> At(k)]
  <2>1. \A i, j \in 0..n : At(i) = At(j) => i = j
    BY <1>1, <1>2, Z3
  <2>2. F \in Bijection(0..n, S!Occurrences(f))
    <3> HIDE DEF n, At
    <3> QED BY <1>5, <2>1, Fun_IsBij
  <2>3. IsFiniteSet(0..n) /\ Cardinality(0..n) = n + 1
    <3> HIDE DEF n
    <3> QED BY <1>2, FS_Interval
  <2>4. ExistsBijection(0..n, S!Occurrences(f))
    BY <2>2, Fun_ExistsBij
  <2> QED BY <2>3, <2>4, FS_Bijection, Zenon
<1>7. f.from + Week * n <= f.until
  <2> HIDE DEF n
  <2> QED BY <1>1, <1>2
<1> HIDE DEF n
<1> QED BY <1>2, <1>5, <1>6, <1>7

\* What a request knows stays true, but for the courses it is noted to have missed.
LEMMA OthersStayKnown ==
    ASSUME SpaceInv, CoursesStay, NEW o \in Changes,
           spacePc'[o] = spacePc[o], ask'[o] = ask[o], left'[o] = left[o],
           Pending(o) =>
              /\ missed[o] \subseteq missed'[o] /\ retyped[o] \subseteq retyped'[o]
              /\ \A d \in S!CourseIds :
                    \/ Stays(d) \/ d \in missed'[o]
                    \/ left[o] = S!Occurrences(ask[o]) /\ d # ask[o].id
              /\ \A s \in Spaces : \/ kind'[s] \in {kind[s], "gone"} \/ kind[s] = "none"
                                   \/ spacePc[o] = "space" \/ s \in retyped'[o]
    PROVE  Known(o)'
<1>1. Known(o) /\ ask[o] \in S!Forms /\ S!Occurrences(ask[o])' = S!Occurrences(ask[o])
  BY DEF SpaceInv, S!TypeOK, S!Occurrences
<1>2. ask[o].id # 0 => ask[o].id \in S!CourseIds
  BY <1>1, CalendarAssumption DEF S!Forms, S!CourseIds, S!SpaceAssumption
<1>3. CASE ~Pending(o)
  BY <1>1, <1>3 DEF Known, Pending, Looking
<1>4. CASE Pending(o)
  <2>1. Formed(o)'
    BY <1>1, <1>2, <1>4 DEF Formed, CoursesStay, Known
  <2>2. Fresh(o)'
    BY <1>1, <1>2, <1>4 DEF Fresh, Known, Stays
  <2>3. ASSUME Looking(o)
        PROVE  Checked(o)'
    <3>1. Checked(o) /\ ask[o].place \in Spaces
      BY <1>1, <1>4, <2>3 DEF Known, Formed
    <3>2. "place" \in ask[o].given =>
             kind'[ask[o].place] \in {"riding", "gone"} \/ ask[o].place \in retyped'[o]
      BY <1>4, <2>3, <3>1 DEF Checked, Looking
    <3>3. ASSUME NEW t \in S!Occurrences(ask[o]) \ left[o], NEW d \in S!CourseIds \ missed'[o]
          PROVE  ~Clash(ask[o], t, d)'
      <4>1. CASE Stays(d)
        <5>1. ~Clash(ask[o], t, d)
          BY <1>4, <3>1 DEF Checked
        <5>2. place'[d] = place[d] /\ from'[d] = from[d] /\ to'[d] = to[d] /\ (S!Live(d)' => S!Live(d))
          BY <4>1 DEF Stays
        <5> QED BY <5>1, <5>2 DEF Clash, S!Overlap
      <4>2. CASE left[o] = S!Occurrences(ask[o])
        BY <4>2
      <4> QED BY <1>4, <4>1, <4>2
    <3>4. \A t \in S!Occurrences(ask[o])' \ left'[o], d \in S!CourseIds \ missed'[o] :
             ~Clash(ask[o], t, d)'
      BY <1>1, <3>3
    <3> QED BY <3>2, <3>4 DEF Checked
  <2> QED BY <1>1, <2>1, <2>2, <2>3 DEF Known, Pending, Looking
<1> QED BY <1>3, <1>4

\* Two courses do not overlap, or one missed the other: NoDoubleBooking, pair by pair.
Apart(c, d) ==
    S!Stored(c) /\ place[c] = place[d] /\ S!Live(c) /\ S!Live(d)
    /\ S!Overlap(from[c], to[c], from[d], to[d]) => <<c, d>> \in blind \/ <<d, c>> \in blind

LEMMA BookedByPairs ==
    S!NoDoubleBooking <=> \A c, d \in S!CourseIds : c # d => Apart(c, d)
BY DEF S!NoDoubleBooking, S!Used, Apart

\* A step that writes no course keeps the calendar sound if it removes no space in use.
LEMMA NoCourseWritten ==
    ASSUME SpaceInv, NEW q \in Changes, OnlyOf(q), UNCHANGED <<S!courses, blind>>,
           S!TypeOK', Known(q)',
           \A s \in Spaces : kind'[s] = kind[s] \/ (kind'[s] = "gone" /\ S!Used(s) = {})
    PROVE  SpaceInv'
<1>1. StoredFirst' /\ CoursesStay
  BY DEF SpaceInv, StoredFirst, CoursesStay, S!courses, S!Stored
<1>2. CalendarIsSound'
  <2>1. S!NoDoubleBooking'
    BY DEF SpaceInv, CalendarIsSound, S!CalendarIsSound, S!NoDoubleBooking, S!courses, S!Stored,
           S!Live, S!Overlap, S!Used
  <2>2. S!SpaceOfCourseExists'
    <3> SUFFICES ASSUME NEW c \in S!CourseIds, S!Stored(c) PROVE S!Exists(place[c])'
      BY DEF S!SpaceOfCourseExists, S!courses, S!Stored
    <3>1. S!Exists(place[c]) /\ place[c] \in Spaces /\ c \in S!Used(place[c]) /\ place' = place
      BY DEF SpaceInv, S!TypeOK, S!Stored, S!Used, CalendarIsSound, S!CalendarIsSound,
             S!SpaceOfCourseExists, S!courses
    <3> QED BY <3>1 DEF S!Exists
  <2> QED BY <2>1, <2>2 DEF CalendarIsSound, S!CalendarIsSound
<1>3. \A d \in S!CourseIds : Stays(d)
  BY DEF Stays, S!courses, S!Live
<1>4. \A o \in Changes \ {q} : Known(o)'
  BY <1>1, <1>3, OthersStayKnown DEF OnlyOf
<1> QED BY <1>1, <1>2, <1>4 DEF SpaceInv

\* Nothing is known before a request has read.
LEMMA IdleIsKnown == ASSUME NEW q, ~Pending(q)' PROVE Known(q)'
BY DEF Known, Pending, Looking

\* A course alone has one slot.
LEMMA OneSlot ==
    ASSUME NEW f \in S!Forms, f.until = f.from
    PROVE  S!Occurrences(f) = {f.from}
<1>1. f.from..f.from = {f.from}
  BY DEF S!Forms, S!Times
<1> QED BY <1>1 DEF S!Occurrences

\* The slots of a form are times.
LEMMA SlotsAreTimes ==
    ASSUME NEW f \in S!Forms
    PROVE  f.from \in S!Occurrences(f) /\ S!Occurrences(f) \subseteq S!Times
<1>1. f.from \in 0..MaxTime /\ f.until \in 0..MaxTime
  BY DEF S!Forms, S!Times
<1>2. f.from..f.until \subseteq 0..MaxTime
  BY <1>1, CalendarAssumption DEF S!SpaceAssumption
<1> QED BY <1>1, <1>2 DEF S!Occurrences, S!Times

\* A request has read the calendar and goes on to its checks.
LEMMA PrepareKeepsSpaceInv ==
    ASSUME SpaceInv, NEW q \in Changes, NEW f \in S!Forms, NEW where,
           where = IF "place" \in f.given THEN "space" ELSE "slots",
           S!Prepare(q, f, where), UNCHANGED <<kind, S!courses, S!history>>,
           f.place \in Spaces, f.from <= f.until,
           f.id = 0 => f.given = S!Fields /\ f.from < f.to /\ f.until + f.to - f.from <= MaxTime,
           f.id # 0 =>
              /\ S!Stored(f.id) /\ f.until = f.from
              /\ "place" \in f.given \/ place[f.id] = f.place
              /\ "from" \in f.given \/ from[f.id] = f.from
              /\ "to" \in f.given \/ to[f.id] = f.to
    PROVE  SpaceInv'
<1>1. f.from \in S!Occurrences(f) /\ S!Occurrences(f) \subseteq S!Times
  BY SlotsAreTimes
<1>2. S!TypeOK'
  BY <1>1 DEF S!Prepare, S!Goto, S!courses, S!history, SpaceInv, S!TypeOK
<1>3. /\ OnlyOf(q) /\ ask'[q] = f /\ left'[q] = S!Occurrences(f) /\ spacePc'[q] = where
      /\ S!Occurrences(ask'[q]) = S!Occurrences(f)
  BY DEF S!Prepare, S!Goto, S!history, SpaceInv, S!TypeOK, OnlyOf
<1>4. UNCHANGED <<place, from, to, status, kind, missed, retyped, blind>>
  BY DEF S!courses, S!history
<1>5. Formed(q)' /\ Fresh(q)'
  BY <1>3, <1>4 DEF Formed, Fresh, S!Stored
<1>6. S!Occurrences(ask[q])' = S!Occurrences(f)
  BY <1>3 DEF S!Occurrences
<1>7. where = "slots" => Checked(q)'
  BY <1>3, <1>6 DEF Checked
<1>8. Known(q)'
  BY <1>1, <1>3, <1>5, <1>6, <1>7 DEF Known, Pending, Looking
<1> QED BY <1>2, <1>3, <1>4, <1>8, NoCourseWritten

\* A validated creation.
LEMMA AskCreationKeepsSpaceInv ==
    ASSUME SpaceInv, NEW q \in Changes, S!AskCreation(q)
    PROVE  SpaceInv'
<1> DEFINE Form(i) == [id |-> 0, place |-> i.place, from |-> i.from, to |-> i.to,
                       status |-> i.status, until |-> i.until, given |-> S!Fields]
<1>1. PICK i \in Inputs :
         /\ i.given = S!Fields /\ i.from < i.to /\ i.from <= i.until
         /\ i.until + i.to - i.from <= MaxTime
         /\ S!Prepare(q, Form(i), "space")
  BY DEF S!AskCreation
<1>2. i \in S!Bodies
  BY CalendarAssumption DEF S!SpaceAssumption
<1>3. Form(i) \in S!Forms /\ Form(i).place \in Spaces
  BY <1>2, CalendarAssumption DEF S!Forms, S!Bodies, S!SpaceAssumption
<1>4. UNCHANGED <<kind, S!courses, S!history>>
  BY DEF S!AskCreation
<1>5. "place" \in S!Fields
  BY DEF S!Fields
<1> DEFINE f == Form(i)
<1>6. /\ f.id = 0 /\ f.given = S!Fields /\ f.from = i.from /\ f.to = i.to /\ f.until = i.until
  OBVIOUS
<1> HIDE DEF f
<1>7. f \in S!Forms /\ f.place \in Spaces /\ S!Prepare(q, f, "space")
  BY <1>1, <1>3 DEF f
<1> QED BY <1>1, <1>4, <1>5, <1>6, <1>7, PrepareKeepsSpaceInv

\* An edit of a course that is stored.
LEMMA AskEditKeepsSpaceInv ==
    ASSUME SpaceInv, NEW q \in Changes, NEW c \in S!CourseIds, S!AskEdit(q, c)
    PROVE  SpaceInv'
<1> DEFINE Merged(i, field, x, y) == IF field \in i.given THEN x ELSE y
           Start(i) == Merged(i, "from", i.from, from[c])
           Form(i) == [id |-> c, place |-> Merged(i, "place", i.place, place[c]),
                       from |-> Start(i), to |-> Merged(i, "to", i.to, to[c]),
                       status |-> i.status, until |-> Start(i), given |-> i.given]
<1>1. PICK i \in Inputs : S!Prepare(q, Form(i), IF "place" \in i.given THEN "space" ELSE "slots")
  BY DEF S!AskEdit
<1>2. i \in S!Bodies
  BY CalendarAssumption DEF S!SpaceAssumption
<1>3. S!Stored(c) /\ place[c] \in Spaces /\ from[c] \in S!Times /\ to[c] \in S!Times
  BY DEF S!AskEdit, S!Stored, SpaceInv, S!TypeOK
<1>4. c \in 0..MaxCourses /\ c # 0
  BY DEF S!CourseIds
<1>5. Merged(i, "place", i.place, place[c]) \in Spaces /\ Start(i) \in S!Times
      /\ Merged(i, "to", i.to, to[c]) \in S!Times
  BY <1>2, <1>3 DEF S!Bodies
<1>6. Form(i) \in S!Forms
  <2> HIDE DEF Start, Merged
  <2> QED BY <1>2, <1>4, <1>5 DEF S!Forms, S!Bodies
<1>7. UNCHANGED <<kind, S!courses, S!history>>
  BY DEF S!AskEdit
<1> DEFINE f == Form(i)
<1>8. /\ f.id = c /\ f.given = i.given /\ f.until = f.from /\ f.place \in Spaces
      /\ "place" \in f.given \/ place[f.id] = f.place
      /\ "from" \in f.given \/ from[f.id] = f.from
      /\ "to" \in f.given \/ to[f.id] = f.to
      /\ f.from \in Int
  BY <1>5 DEF S!Times
<1> HIDE DEF f
<1>9. f \in S!Forms /\ S!Prepare(q, f, IF "place" \in f.given THEN "space" ELSE "slots")
  BY <1>1, <1>6, <1>8 DEF f
<1> QED BY <1>3, <1>4, <1>7, <1>8, <1>9, PrepareKeepsSpaceInv

\* The end of a request.
LEMMA FinishTypes ==
    ASSUME SpaceInv, NEW q \in Changes, S!Finish(q)
    PROVE  /\ spacePc' \in [Changes -> {"start", "space", "slots", "store", "count", "done"}]
           /\ ask' \in [Changes -> S!Forms] /\ left' \in [Changes -> SUBSET S!Times]
           /\ retyped' \in [Changes -> SUBSET Spaces]
           /\ ~Pending(q)'
           /\ \A o \in Changes \ {q} : /\ spacePc'[o] = spacePc[o] /\ ask'[o] = ask[o]
                                       /\ left'[o] = left[o] /\ retyped'[o] = retyped[o]
<1>1. S!Blank \in S!Forms
  BY CalendarAssumption DEF S!Blank, S!Forms, S!Times, S!Statuses, S!SpaceAssumption
<1> QED BY <1>1 DEF S!Finish, S!Goto, SpaceInv, S!TypeOK, Pending

\* The end of a request that wrote no course.
LEMMA GiveUpKeepsSpaceInv ==
    ASSUME SpaceInv, NEW q \in Changes, S!GiveUp(q),
           kind' \in [Spaces -> {"none", "stall", "riding", "gone"}],
           \A s \in Spaces : kind'[s] = kind[s] \/ (kind'[s] = "gone" /\ S!Used(s) = {})
    PROVE  SpaceInv'
<1>1. S!Finish(q) /\ missed' = [missed EXCEPT ![q] = {}] /\ UNCHANGED <<S!courses, blind>>
  BY DEF S!GiveUp
<1>2. S!TypeOK' /\ OnlyOf(q)
  BY <1>1, FinishTypes DEF S!courses, SpaceInv, S!TypeOK, OnlyOf
<1>3. Known(q)'
  BY <1>1, FinishTypes, IdleIsKnown
<1> QED BY <1>1, <1>2, <1>3, NoCourseWritten

\* The space is one where one rides.
LEMMA CheckSpaceKeepsSpaceInv ==
    ASSUME SpaceInv, NEW q \in Changes, S!CheckSpace(q)
    PROVE  SpaceInv'
<1>1. CASE kind[ask[q].place] # "riding"
  BY <1>1, GiveUpKeepsSpaceInv DEF S!CheckSpace, SpaceInv, S!TypeOK
<1>2. CASE kind[ask[q].place] = "riding"
  <2>1. spacePc[q] = "space" /\ S!Goto(q, "slots") /\ UNCHANGED <<ask, left, kind, S!courses, S!history>>
    BY <1>2 DEF S!CheckSpace
  <2>2. ask[q] \in S!Forms /\ Known(q)
    BY DEF SpaceInv, S!TypeOK
  <2>3. left[q] = S!Occurrences(ask[q]) /\ left[q] # {}
    BY <2>1, <2>2, SlotsAreTimes DEF Known
  <2>4. S!TypeOK' /\ OnlyOf(q) /\ spacePc'[q] = "slots"
    BY <2>1 DEF S!Goto, S!courses, S!history, SpaceInv, S!TypeOK, OnlyOf
  <2>5. Formed(q)' /\ Fresh(q)'
    BY <2>1, <2>2 DEF Known, Pending, Formed, Fresh, S!courses, S!history, S!Stored
  <2>6. Checked(q)'
    <3>1. S!Occurrences(ask[q])' = left'[q]
      BY <2>1, <2>3 DEF S!Occurrences
    <3>2. kind'[ask'[q].place] = "riding"
      BY <1>2, <2>1
    <3> QED BY <3>1, <3>2 DEF Checked
  <2>7. Known(q)'
    BY <2>1, <2>3, <2>4, <2>5, <2>6 DEF Known
  <2>8. UNCHANGED <<S!courses, blind>> /\ kind' = kind
    BY <2>1 DEF S!history
  <2> QED BY <2>4, <2>7, <2>8, NoCourseWritten
<1> QED BY <1>1, <1>2

\* A slot with a conflict ends the request; one without is crossed off.
LEMMA CheckSlotKeepsSpaceInv ==
    ASSUME SpaceInv, NEW q \in Changes, S!CheckSlot(q)
    PROVE  SpaceInv'
<1> DEFINE t == CHOOSE x \in left[q] : \A y \in left[q] : x <= y
<1>1. t \in left[q] /\ left[q] \in SUBSET S!Times
  <2>1. left[q] # {} /\ left[q] \in SUBSET S!Times
    BY DEF S!CheckSlot, SpaceInv, S!TypeOK, Known
  <2>2. left[q] \in SUBSET Nat
    BY <2>1 DEF S!Times
  <2> QED BY <2>1, <2>2, EarliestExists
<1>2. CASE S!Conflict(ask[q], t)
  BY <1>2, GiveUpKeepsSpaceInv DEF S!CheckSlot, SpaceInv, S!TypeOK
<1>3. CASE ~S!Conflict(ask[q], t)
  <2>1. /\ spacePc[q] = "slots" /\ UNCHANGED <<ask, kind, S!courses, S!history>>
        /\ left' = [left EXCEPT ![q] = @ \ {t}]
        /\ S!Goto(q, IF left[q] = {t} THEN "store" ELSE "slots")
    BY <1>3 DEF S!CheckSlot
  <2> HIDE DEF t
  <2>2. /\ S!TypeOK' /\ OnlyOf(q) /\ ask'[q] = ask[q] /\ left'[q] = left[q] \ {t}
        /\ spacePc'[q] = IF left[q] = {t} THEN "store" ELSE "slots"
    BY <1>1, <2>1 DEF S!Goto, S!courses, S!history, SpaceInv, S!TypeOK, OnlyOf
  <2>3. Known(q)'
    <3>1. Formed(q) /\ Fresh(q) /\ Checked(q) /\ left[q] # {}
      BY <2>1 DEF SpaceInv, Known, Pending, Looking
    <3>2. Formed(q)' /\ Fresh(q)'
      BY <2>1, <2>2, <3>1 DEF Formed, Fresh, S!courses, S!history, S!Stored
    <3>3. Checked(q)'
      <4>1. S!Occurrences(ask[q])' = S!Occurrences(ask[q])
            /\ UNCHANGED <<place, from, to, status, kind, missed, retyped>>
        BY <2>1 DEF S!Occurrences, S!courses, S!history
      <4>2. \A d \in S!CourseIds : ~Clash(ask[q], t, d)
        BY <1>3 DEF Clash, S!Conflict
      <4>3. ASSUME NEW x \in S!Occurrences(ask[q]) \ left'[q], NEW d \in S!CourseIds \ missed[q]
            PROVE  ~Clash(ask[q], x, d)'
        <5>1. ~Clash(ask[q], x, d)
          BY <2>2, <3>1, <4>2, <4>3 DEF Checked
        <5> QED BY <2>2, <4>1, <5>1 DEF Clash, S!Live, S!Overlap
      <4>4. "place" \in ask'[q].given =>
               kind'[ask'[q].place] \in {"riding", "gone"} \/ ask'[q].place \in retyped'[q]
        BY <2>2, <3>1, <4>1 DEF Checked
      <4> QED BY <4>1, <4>3, <4>4 DEF Checked
    <3> QED BY <1>1, <2>2, <3>1, <3>2, <3>3 DEF Known
  <2>4. UNCHANGED <<S!courses, blind>> /\ kind' = kind
    BY <2>1 DEF S!history
  <2> QED BY <2>2, <2>3, <2>4, NoCourseWritten
<1> QED BY <1>2, <1>3

\* A space is deleted only when no course is in it.
LEMMA DeletionKeepsSpaceInv ==
    ASSUME SpaceInv, NEW q \in Changes, S!DeleteSpace(q) \/ \E s \in Spaces : S!AskDeletion(q, s)
    PROVE  SpaceInv'
<1>1. CASE S!DeleteSpace(q)
  <2>1. \/ kind' = kind
        \/ S!Used(ask[q].place) = {} /\ kind' = [kind EXCEPT ![ask[q].place] = "gone"]
    BY <1>1 DEF S!DeleteSpace
  <2>2. /\ kind' \in [Spaces -> {"none", "stall", "riding", "gone"}]
        /\ \A s \in Spaces : kind'[s] = kind[s] \/ (kind'[s] = "gone" /\ S!Used(s) = {})
    BY <2>1 DEF SpaceInv, S!TypeOK
  <2> QED BY <1>1, <2>2, GiveUpKeepsSpaceInv DEF S!DeleteSpace
<1>2. ASSUME NEW s \in Spaces, S!AskDeletion(q, s)
      PROVE  SpaceInv'
  <2>1. ask' \in [Changes -> S!Forms]
    <3>1. ask \in [Changes -> S!Forms] /\ ask' \in {ask, [ask EXCEPT ![q].place = s]}
      BY <1>2 DEF S!AskDeletion, SpaceInv, S!TypeOK
    <3>2. [ask[q] EXCEPT !.place = s] \in S!Forms
      BY <3>1 DEF S!Forms
    <3> QED BY <3>1, <3>2
  <2>2. S!TypeOK' /\ OnlyOf(q) /\ ~Pending(q)'
    BY <1>2, <2>1 DEF S!AskDeletion, S!Goto, S!courses, S!history, SpaceInv, S!TypeOK, OnlyOf, Pending
  <2>3. UNCHANGED <<S!courses, blind>> /\ kind' = kind
    BY <1>2 DEF S!AskDeletion, S!history
  <2> QED BY <2>2, <2>3, IdleIsKnown, NoCourseWritten
<1> QED BY <1>1, <1>2

\* A space is created, or changes its type.
LEMMA SpaceKeepsSpaceInv ==
    ASSUME SpaceInv, NEW s \in Spaces, S!CreateSpace(s) \/ S!UpdateSpace(s)
    PROVE  SpaceInv'
<1>1. /\ UNCHANGED <<S!courses, spacePc, ask, left, missed, blind>>
      /\ \E k \in {"stall", "riding"} : kind' = [kind EXCEPT ![s] = k]
      /\ retyped' \in [Changes -> SUBSET Spaces]
      /\ \A o \in Changes : retyped[o] \subseteq retyped'[o]
      /\ kind[s] = "none" \/ \A o \in Changes : Looking(o) => s \in retyped'[o]
  BY DEF S!CreateSpace, S!UpdateSpace, S!history, SpaceInv, S!TypeOK, Looking
<1>2. S!TypeOK'
  BY <1>1 DEF S!courses, SpaceInv, S!TypeOK
<1>3. StoredFirst' /\ CoursesStay
  BY <1>1 DEF SpaceInv, StoredFirst, CoursesStay, S!courses, S!Stored
<1>4. CalendarIsSound'
  <2>1. S!NoDoubleBooking'
    BY <1>1 DEF SpaceInv, CalendarIsSound, S!CalendarIsSound, S!NoDoubleBooking, S!courses, S!Stored,
                S!Live, S!Overlap, S!Used
  <2>2. S!SpaceOfCourseExists'
    BY <1>1 DEF SpaceInv, S!TypeOK, CalendarIsSound, S!CalendarIsSound, S!SpaceOfCourseExists, S!courses,
                S!Stored, S!Exists
  <2> QED BY <2>1, <2>2 DEF CalendarIsSound, S!CalendarIsSound
<1>5. \A d \in S!CourseIds : Stays(d)
  BY <1>1 DEF Stays, S!courses, S!Live
<1>6. ASSUME NEW o \in Changes
      PROVE  Known(o)'
  <2>1. Pending(o) => \A x \in Spaces : \/ kind'[x] \in {kind[x], "gone"} \/ kind[x] = "none"
                                       \/ spacePc[o] = "space" \/ x \in retyped'[o]
    BY <1>1 DEF Pending, Looking, SpaceInv, S!TypeOK
  <2> QED BY <1>1, <1>3, <1>5, <2>1, OthersStayKnown
<1> QED BY <1>2, <1>3, <1>4, <1>6 DEF SpaceInv

\* A cancelled course takes no place.
LEMMA CancelKeepsSpaceInv ==
    ASSUME SpaceInv, NEW q \in Changes, NEW c \in S!CourseIds, S!CancelCourse(q, c)
    PROVE  SpaceInv'
<1>1. PICK batch : status' = [d \in S!CourseIds |-> IF d \in batch THEN "cancelled" ELSE status[d]]
  BY DEF S!CancelCourse
<1>2. S!TypeOK'
  BY <1>1 DEF S!CancelCourse, S!Goto, S!history, SpaceInv, S!TypeOK, S!Statuses
<1>3. StoredFirst' /\ CoursesStay
  BY DEF S!CancelCourse, SpaceInv, StoredFirst, CoursesStay, S!Stored
<1>4. \A d \in S!CourseIds : Stays(d)
  BY <1>1 DEF S!CancelCourse, Stays, S!Live
<1>5. CalendarIsSound'
  <2>1. S!NoDoubleBooking'
    <3>1. \A x, d \in S!CourseIds : x # d => Apart(x, d)
      BY BookedByPairs DEF SpaceInv, CalendarIsSound, S!CalendarIsSound
    <3>2. ASSUME NEW x \in S!CourseIds, NEW d \in S!CourseIds, x # d
          PROVE  Apart(x, d)'
      <4>1. Stays(x) /\ Stays(d) /\ Apart(x, d) /\ blind' = blind
        BY <1>4, <3>1, <3>2 DEF S!CancelCourse, S!history
      <4> QED BY <4>1 DEF Apart, Stays, S!Stored, S!Overlap
    <3>3. \A x, d \in S!CourseIds : x # d => Apart(x, d)'
      BY <3>2
    <3> QED BY <3>3 DEF S!NoDoubleBooking, S!Used, Apart
  <2>2. S!SpaceOfCourseExists'
    BY DEF S!CancelCourse, SpaceInv, CalendarIsSound, S!CalendarIsSound, S!SpaceOfCourseExists, S!Stored,
           S!Exists
  <2> QED BY <2>1, <2>2 DEF CalendarIsSound, S!CalendarIsSound
<1>6. OnlyOf(q) /\ ~Pending(q)' /\ kind' = kind
  BY DEF S!CancelCourse, S!Goto, S!history, SpaceInv, S!TypeOK, OnlyOf, Pending
<1>7. ASSUME NEW o \in Changes
      PROVE  Known(o)'
  <2>1. CASE o = q
    BY <1>6, <2>1, IdleIsKnown
  <2>2. CASE o # q
    BY <1>3, <1>4, <1>6, <2>2, OthersStayKnown DEF OnlyOf
  <2> QED BY <2>1, <2>2
<1> QED BY <1>2, <1>3, <1>5, <1>7 DEF SpaceInv

\* What is common to the writes of courses: those who had looked are noted to have missed them,
\* and the new courses are apart from those their request has not missed.
LEMMA WrittenKeepsSpaceInv ==
    ASSUME SpaceInv, NEW q \in Changes, S!Finish(q), NEW new \in SUBSET S!CourseIds, S!Wrote(q, new),
           UNCHANGED kind, StoredFirst', CoursesStay, S!SpaceOfCourseExists',
           place' \in [S!CourseIds -> Spaces \cup {NoSpace}],
           from' \in [S!CourseIds -> S!Times], to' \in [S!CourseIds -> S!Times],
           status' \in [S!CourseIds -> S!Statuses], root' \in [S!CourseIds -> S!CourseIds],
           weekly' \in [S!CourseIds -> BOOLEAN],
           \A d \in S!CourseIds \ new :
              place'[d] = place[d] /\ from'[d] = from[d] /\ to'[d] = to[d] /\ status'[d] = status[d],
           ask[q].id \notin missed[q] =>
              \A c \in new, d \in (S!CourseIds \ new) \ missed[q] :
                 place'[c] = place[d] /\ S!Live(d) => ~S!Overlap(from'[c], to'[c], from[d], to[d]),
           ask[q].to - ask[q].from <= Week =>
              \A c, d \in new : c # d => ~S!Overlap(from'[c], to'[c], from'[d], to'[d])
    PROVE  SpaceInv'
<1>1. /\ missed' = [o \in Changes |->
              IF o = q THEN {}
              ELSE IF spacePc[o] \notin {"space", "slots", "store"} THEN missed[o]
              ELSE missed[o] \cup
                     {c \in new : c = ask[o].id \/ left[o] # S!Occurrences(ask[o])}]
      /\ blind' = {p \in blind : p[1] \notin new /\ p[2] \notin new}
                    \cup (new \X (IF ask[q].id \in missed[q] THEN S!CourseIds ELSE missed[q]))
                    \cup (IF ask[q].to - ask[q].from > Week THEN new \X new ELSE {})
  BY DEF S!Wrote
<1>2. missed \in [Changes -> SUBSET S!CourseIds] /\ blind \subseteq S!CourseIds \X S!CourseIds
  BY DEF SpaceInv, S!TypeOK
<1>3. S!TypeOK'
  <2>1. missed' \in [Changes -> SUBSET S!CourseIds]
    <3>1. ASSUME NEW o \in Changes
          PROVE  (IF o = q THEN {}
                  ELSE IF spacePc[o] \notin {"space", "slots", "store"} THEN missed[o]
                  ELSE missed[o] \cup
                     {c \in new : c = ask[o].id \/ left[o] # S!Occurrences(ask[o])})
                     \in SUBSET S!CourseIds
      BY <1>2
    <3> QED BY <1>1, <3>1
  <2>2. blind' \subseteq S!CourseIds \X S!CourseIds
    <3>1. missed[q] \subseteq S!CourseIds /\ new \subseteq S!CourseIds
      BY <1>2
    <3>2. new \X (IF ask[q].id \in missed[q] THEN S!CourseIds ELSE missed[q])
            \subseteq S!CourseIds \X S!CourseIds
      BY <3>1
    <3>3. (IF ask[q].to - ask[q].from > Week THEN new \X new ELSE {}) \subseteq S!CourseIds \X S!CourseIds
      BY <3>1
    <3> QED BY <1>1, <1>2, <3>2, <3>3
  <2> QED BY <2>1, <2>2, FinishTypes DEF SpaceInv, S!TypeOK
<1>4. ASSUME NEW o \in Changes
      PROVE  Known(o)'
  <2>1. CASE o = q
    BY <2>1, FinishTypes, IdleIsKnown
  <2>2. CASE o # q
    <3>1. Pending(o) => missed'[o] = missed[o] \cup
             {c \in new : c = ask[o].id \/ left[o] # S!Occurrences(ask[o])}
      BY <1>1, <2>2 DEF Pending
    <3>2. \A d \in S!CourseIds \ new : Stays(d)
      BY DEF Stays, S!Live
    <3>3. Pending(o) =>
             \A d \in S!CourseIds :
                \/ Stays(d) \/ d \in missed'[o]
                \/ left[o] = S!Occurrences(ask[o]) /\ d # ask[o].id
      BY <3>1, <3>2
    <3> QED BY <2>2, <3>1, <3>3, FinishTypes, OthersStayKnown
  <2> QED BY <2>1, <2>2
<1>5. S!NoDoubleBooking'
  <2>1. ASSUME NEW c \in new, NEW d \in S!CourseIds \ new, place'[c] = place'[d], S!Live(d)',
               S!Overlap(from'[c], to'[c], from'[d], to'[d])
        PROVE  <<c, d>> \in blind'
    <3>1. S!Live(d) /\ place'[d] = place[d] /\ from'[d] = from[d] /\ to'[d] = to[d]
      BY <2>1 DEF S!Live
    <3>2. ask[q].id \in missed[q] \/ d \in missed[q]
      BY <2>1, <3>1
    <3>3. d \in IF ask[q].id \in missed[q] THEN S!CourseIds ELSE missed[q]
      BY <3>2
    <3> QED BY <1>1, <3>3
  <2>2. ASSUME NEW c \in S!CourseIds, NEW d \in S!CourseIds, c # d, S!Stored(c)',
               place'[c] = place'[d], S!Live(c)', S!Live(d)',
               S!Overlap(from'[c], to'[c], from'[d], to'[d])
        PROVE  <<c, d>> \in blind' \/ <<d, c>> \in blind'
    <3>1. CASE c \in new /\ d \in new
      <4>1. ask[q].to - ask[q].from > Week
        <5>1. ask[q].to \in Int /\ ask[q].from \in Int /\ Week \in Int
          BY CalendarAssumption DEF SpaceInv, S!TypeOK, S!Forms, S!Times, S!SpaceAssumption
        <5> QED BY <2>2, <3>1, <5>1
      <4> QED BY <1>1, <3>1, <4>1
    <3>2. CASE c \in new /\ d \notin new
      BY <2>1, <2>2, <3>2
    <3>3. CASE c \notin new /\ d \in new
      <4>1. from'[c] \in Int /\ to'[c] \in Int /\ from'[d] \in Int /\ to'[d] \in Int
        BY DEF S!Times
      <4>2. S!Overlap(from'[d], to'[d], from'[c], to'[c])
        BY <2>2, <4>1 DEF S!Overlap
      <4> QED BY <2>1, <2>2, <3>3, <4>2
    <3>4. CASE c \notin new /\ d \notin new
      <4>1. S!Stored(c) /\ place[c] = place[d] /\ S!Live(c) /\ S!Live(d)
            /\ S!Overlap(from[c], to[c], from[d], to[d])
        BY <2>2, <3>4 DEF S!Stored, S!Live
      <4>2. Apart(c, d)
        BY <2>2, BookedByPairs DEF SpaceInv, CalendarIsSound, S!CalendarIsSound
      <4>3. <<c, d>> \in blind \/ <<d, c>> \in blind
        BY <4>1, <4>2 DEF Apart
      <4> QED BY <1>1, <3>4, <4>3
    <3> QED BY <3>1, <3>2, <3>3, <3>4
  <2> QED BY <2>2 DEF S!NoDoubleBooking, S!Used
<1> QED BY <1>3, <1>4, <1>5 DEF SpaceInv, CalendarIsSound, S!CalendarIsSound

\* An edit is stored at a place where no other course was found.
LEMMA StoreEditKeepsSpaceInv ==
    ASSUME SpaceInv, NEW q \in Changes, S!StoreEdit(q)
    PROVE  SpaceInv'
<1> DEFINE f == ask[q]
<1>1. /\ spacePc[q] = "store" /\ f \in S!Forms /\ f.id \in S!CourseIds /\ f.place \in Spaces
      /\ f.id # 0 /\ Fresh(q) /\ Checked(q) /\ left[q] = {} /\ S!Stored(f.id) /\ UNCHANGED kind
  <2>1. f \in S!Forms /\ f.id # 0 /\ spacePc[q] = "store" /\ Known(q) /\ UNCHANGED kind
    BY DEF S!StoreEdit, SpaceInv, S!TypeOK
  <2> QED BY <2>1, CalendarAssumption
          DEF Known, Formed, Pending, Looking, S!Forms, S!CourseIds, S!SpaceAssumption
<1>2. CASE "place" \in f.given /\ ~S!Exists(f.place)
  BY <1>1, <1>2, GiveUpKeepsSpaceInv DEF S!StoreEdit, SpaceInv, S!TypeOK
<1>3. CASE ~("place" \in f.given /\ ~S!Exists(f.place))
  <2>1. /\ place' = [place EXCEPT ![f.id] = IF "place" \in f.given THEN f.place ELSE @]
        /\ from' = [from EXCEPT ![f.id] = IF "from" \in f.given THEN f.from ELSE @]
        /\ to' = [to EXCEPT ![f.id] = IF "to" \in f.given THEN f.to ELSE @]
        /\ status' = [status EXCEPT ![f.id] = f.status]
        /\ UNCHANGED <<root, weekly>>
        /\ S!Wrote(q, {f.id}) /\ S!Finish(q)
    BY <1>3 DEF S!StoreEdit
  <2>2. /\ place' \in [S!CourseIds -> Spaces \cup {NoSpace}]
        /\ from' \in [S!CourseIds -> S!Times] /\ to' \in [S!CourseIds -> S!Times]
        /\ status' \in [S!CourseIds -> S!Statuses] /\ root' \in [S!CourseIds -> S!CourseIds]
        /\ weekly' \in [S!CourseIds -> BOOLEAN]
    BY <1>1, <2>1 DEF SpaceInv, S!TypeOK, S!Forms
  <2>3. \A d \in S!CourseIds \ {f.id} :
           place'[d] = place[d] /\ from'[d] = from[d] /\ to'[d] = to[d] /\ status'[d] = status[d]
    BY <2>1 DEF SpaceInv, S!TypeOK
  <2>4. /\ place'[f.id] = IF "place" \in f.given THEN f.place ELSE place[f.id]
        /\ from'[f.id] = IF "from" \in f.given THEN f.from ELSE from[f.id]
        /\ to'[f.id] = IF "to" \in f.given THEN f.to ELSE to[f.id]
    BY <1>1, <2>1 DEF SpaceInv, S!TypeOK
  <2>5. \A c \in S!CourseIds : S!Stored(c)' <=> S!Stored(c)
    BY <1>1, <2>3, <2>4, CalendarAssumption DEF S!Stored, S!SpaceAssumption
  <2>6. StoredFirst' /\ CoursesStay
    BY <2>5 DEF SpaceInv, StoredFirst, CoursesStay
  <2>7. S!SpaceOfCourseExists'
    <3> SUFFICES ASSUME NEW c \in S!CourseIds, S!Stored(c)
                 PROVE  S!Exists(place[c])'
      BY <2>5 DEF S!SpaceOfCourseExists
    <3>1. S!Exists(place[c]) /\ place[c] \in Spaces
      BY DEF SpaceInv, S!TypeOK, S!Stored, CalendarIsSound, S!CalendarIsSound, S!SpaceOfCourseExists
    <3>2. place'[c] = place[c] \/ (place'[c] = f.place /\ S!Exists(f.place))
      BY <1>3, <2>3, <2>4
    <3> QED BY <1>1, <3>1, <3>2 DEF S!Exists
  <2>8. ASSUME f.id \notin missed[q], NEW d \in (S!CourseIds \ {f.id}) \ missed[q],
               place'[f.id] = place[d], S!Live(d)
        PROVE  ~S!Overlap(from'[f.id], to'[f.id], from[d], to[d])
    <3>1. place'[f.id] = f.place /\ from'[f.id] = f.from /\ to'[f.id] = f.to
      BY <1>1, <2>4, <2>8 DEF Fresh
    <3>2. ~Clash(f, f.from, d)
      BY <1>1, <2>8, SlotsAreTimes DEF Checked
    <3>3. f.from + f.to - f.from = f.to
      BY <1>1 DEF S!Forms, S!Times
    <3> QED BY <2>8, <3>1, <3>2, <3>3 DEF Clash
  <2>9. {f.id} \in SUBSET S!CourseIds
    BY <1>1
  <2> HIDE DEF f
  <2> QED BY <1>1, <2>1, <2>2, <2>3, <2>6, <2>7, <2>8, <2>9, WrittenKeepsSpaceInv DEF f
<1> QED BY <1>2, <1>3

\* SpacePlanning counts as this module does.
LEMMA SameCardinality == ASSUME NEW X PROVE S!Cardinality(X) = Cardinality(X)
BY DEF S!Cardinality, Cardinality

\* The first free identifier follows the courses that are stored.
LEMMA FirstFree ==
    ASSUME SpaceInv
    PROVE  LET n == S!Cardinality({c \in S!CourseIds : S!Stored(c)})
           IN  n \in 0..MaxCourses /\ \A c \in S!CourseIds : S!Stored(c) <=> c <= n
<1>1. PICK n \in 0..MaxCourses : \A c \in S!CourseIds : S!Stored(c) <=> c <= n
  BY DEF SpaceInv, StoredFirst
<1>2. {c \in S!CourseIds : S!Stored(c)} = 1..n
  BY <1>1, CalendarAssumption DEF S!CourseIds, S!SpaceAssumption
<1>3. S!Cardinality(1..n) = n
  BY <1>1, FS_Interval, SameCardinality
<1> QED BY <1>1, <1>2, <1>3

\* What the creation q writes: a course a week from the first free identifier on, each at a slot
\* that was checked.
Series(n, m) == {c \in S!CourseIds : n + 1 <= c /\ c <= n + 1 + m}
SeriesWritten(q, n, m) ==
    /\ n + 1 + m <= MaxCourses
    /\ \A c \in Series(n, m) :
          /\ place'[c] = ask[q].place /\ status'[c] = ask[q].status
          /\ from'[c] = ask[q].from + Week * (c - (n + 1))
          /\ to'[c] = ask[q].from + Week * (c - (n + 1)) + ask[q].to - ask[q].from
          /\ from'[c] \in S!Occurrences(ask[q])
          /\ from'[c] \in S!Times /\ to'[c] \in S!Times
    /\ \A c \in S!CourseIds \ Series(n, m) :
          place'[c] = place[c] /\ status'[c] = status[c] /\ from'[c] = from[c] /\ to'[c] = to[c]
    /\ S!Wrote(q, Series(n, m))

LEMMA SeriesIsWritten ==
    ASSUME SpaceInv, NEW q \in Changes, S!StoreCourses(q), S!Exists(ask[q].place)
    PROVE  \E n \in 0..MaxCourses, m \in Nat :
             /\ \A c \in S!CourseIds : S!Stored(c) <=> c <= n
             /\ SeriesWritten(q, n, m)
             /\ S!Occurrences(ask[q]) = {ask[q].from + Week * k : k \in 0..m}
<1> DEFINE f == ask[q]
           n == S!Cardinality({c \in S!CourseIds : S!Stored(c)})
           new == (n + 1)..(n + 1 + S!Cardinality(S!Occurrences(f)) - 1)
           At(c) == f.from + Week * (c - (n + 1))
<1>1. f \in S!Forms /\ Formed(q) /\ f.id = 0 /\ Week \in Nat /\ Week > 0 /\ MaxTime \in Nat
  BY CalendarAssumption DEF S!StoreCourses, SpaceInv, S!TypeOK, Known, Pending, S!SpaceAssumption
<1>2. n \in 0..MaxCourses /\ \A c \in S!CourseIds : S!Stored(c) <=> c <= n
  BY FirstFree
<1>3. PICK m \in Nat : /\ f.from + Week * m <= f.until
                       /\ S!Occurrences(f) = {f.from + Week * k : k \in 0..m}
                       /\ S!Cardinality(S!Occurrences(f)) = m + 1
  BY <1>1, OccurrencesAreWeekly, SameCardinality DEF Formed
<1>4. new = (n + 1)..(n + 1 + m)
  BY <1>2, <1>3
<1>5. /\ new \subseteq S!CourseIds
      /\ place' = [c \in S!CourseIds |-> IF c \in new THEN f.place ELSE place[c]]
      /\ from' = [c \in S!CourseIds |-> IF c \in new THEN At(c) ELSE from[c]]
      /\ to' = [c \in S!CourseIds |-> IF c \in new THEN At(c) + f.to - f.from ELSE to[c]]
      /\ status' = [c \in S!CourseIds |-> IF c \in new THEN f.status ELSE status[c]]
      /\ S!Wrote(q, new)
  BY DEF S!StoreCourses
<1> HIDE DEF n, new
<1>6. ASSUME NEW c \in new
      PROVE  /\ At(c) \in S!Occurrences(f) /\ At(c) \in S!Times
             /\ At(c) + f.to - f.from \in S!Times
  <2>1. c - (n + 1) \in 0..m
    BY <1>2, <1>4
  <2>2. At(c) \in S!Occurrences(f)
    BY <1>3, <2>1
  <2>3. /\ f.from \in Nat /\ f.until \in 0..MaxTime /\ f.to \in 0..MaxTime /\ f.from < f.to
        /\ f.from <= f.until /\ f.until + f.to - f.from <= MaxTime
    BY <1>1 DEF S!Forms, S!Times, Formed
  <2>4. /\ Week * (c - (n + 1)) \in Nat /\ Week * (c - (n + 1)) <= Week * m /\ Week * m \in Nat
    <3> DEFINE k == c - (n + 1)
    <3> HIDE DEF k
    <3>1. Week * k \in Nat /\ Week * k <= Week * m /\ Week * m \in Nat
      BY <1>1, <1>3, <2>1, Z3 DEF k
    <3> QED BY <3>1 DEF k
  <2>5. At(c) \in Nat /\ At(c) >= f.from /\ At(c) <= f.until
    BY <1>3, <2>3, <2>4
  <2>6. At(c) + f.to - f.from \in Nat /\ At(c) + f.to - f.from <= MaxTime
    <3> HIDE DEF At
    <3> QED BY <1>1, <2>3, <2>5
  <2> HIDE DEF At
  <2> QED BY <1>1, <2>2, <2>3, <2>5, <2>6 DEF S!Times
<1>7. n + 1 + m <= MaxCourses
  <2>1. n + 1 + m \in new
    BY <1>2, <1>3, <1>4
  <2>2. n + 1 + m \in S!CourseIds
    BY <1>5, <2>1
  <2> QED BY <2>2 DEF S!CourseIds
<1>8. Series(n, m) = new
  BY <1>2, <1>4, <1>5, CalendarAssumption DEF Series, S!CourseIds, S!SpaceAssumption
<1>9. SeriesWritten(q, n, m)
  <2> HIDE DEF f
  <2>1. ASSUME NEW c \in new
        PROVE  /\ place'[c] = f.place /\ status'[c] = f.status
               /\ from'[c] = At(c) /\ to'[c] = At(c) + f.to - f.from
               /\ from'[c] \in S!Occurrences(f) /\ from'[c] \in S!Times /\ to'[c] \in S!Times
    <3> HIDE DEF At
    <3> QED BY <1>5, <1>6
  <2>2. \A c \in S!CourseIds \ new :
          place'[c] = place[c] /\ status'[c] = status[c] /\ from'[c] = from[c] /\ to'[c] = to[c]
    BY <1>5
  <2> QED BY <1>5, <1>7, <1>8, <2>1, <2>2 DEF SeriesWritten, f
<1> QED BY <1>2, <1>3, <1>9

\* A series comes to a place where each of its slots was found free, and its courses follow each
\* other unless they last longer than a week.
LEMMA StoreCoursesKeepsSpaceInv ==
    ASSUME SpaceInv, NEW q \in Changes, S!StoreCourses(q)
    PROVE  SpaceInv'
<1> DEFINE f == ask[q]
<1>1. /\ spacePc[q] = "store" /\ f \in S!Forms /\ f.id = 0 /\ f.place \in Spaces
      /\ Formed(q) /\ Checked(q) /\ left[q] = {} /\ UNCHANGED kind
  BY DEF S!StoreCourses, SpaceInv, S!TypeOK, Known, Formed, Pending, Looking
<1>2. CASE ~S!Exists(f.place)
  BY <1>1, <1>2, GiveUpKeepsSpaceInv DEF S!StoreCourses, SpaceInv, S!TypeOK
<1>3. CASE S!Exists(f.place)
  <2>1. PICK n \in 0..MaxCourses, m \in Nat :
           /\ \A c \in S!CourseIds : S!Stored(c) <=> c <= n
           /\ SeriesWritten(q, n, m)
    BY <1>3, SeriesIsWritten
  <2> DEFINE new == Series(n, m)
  <2>2. new \in SUBSET S!CourseIds /\ S!Wrote(q, new) /\ S!Finish(q)
    BY <1>3, <2>1 DEF Series, SeriesWritten, S!StoreCourses
  <2>3. /\ place' \in [S!CourseIds -> Spaces \cup {NoSpace}]
        /\ from' \in [S!CourseIds -> S!Times] /\ to' \in [S!CourseIds -> S!Times]
        /\ status' \in [S!CourseIds -> S!Statuses] /\ root' \in [S!CourseIds -> S!CourseIds]
        /\ weekly' \in [S!CourseIds -> BOOLEAN]
    <3>1. /\ DOMAIN place' = S!CourseIds /\ DOMAIN from' = S!CourseIds /\ DOMAIN to' = S!CourseIds
          /\ DOMAIN status' = S!CourseIds
          /\ place' = [c \in S!CourseIds |-> place'[c]] /\ from' = [c \in S!CourseIds |-> from'[c]]
          /\ to' = [c \in S!CourseIds |-> to'[c]] /\ status' = [c \in S!CourseIds |-> status'[c]]
      BY <1>3 DEF S!StoreCourses
    <3>2. \A c \in S!CourseIds : /\ place'[c] \in Spaces \cup {NoSpace} /\ from'[c] \in S!Times
                                 /\ to'[c] \in S!Times /\ status'[c] \in S!Statuses
      BY <1>1, <2>1 DEF SeriesWritten, SpaceInv, S!TypeOK, S!Forms
    <3>3. root' \in [S!CourseIds -> S!CourseIds]
      <4> DEFINE k == S!Cardinality({c \in S!CourseIds : S!Stored(c)})
                 ids == (k + 1)..(k + 1 + S!Cardinality(S!Occurrences(f)) - 1)
      <4>1. /\ root' = [c \in S!CourseIds |-> IF c \in ids THEN k + 1 ELSE root[c]]
            /\ ids \subseteq S!CourseIds
        BY <1>3 DEF S!StoreCourses
      <4>2. k + 1 \in S!CourseIds
        <5>1. k \in 0..MaxCourses /\ \A c \in S!CourseIds : S!Stored(c) <=> c <= k
          BY FirstFree
        <5> HIDE DEF k
        <5>2. k = n
          <6>1. k < n => n \in S!CourseIds
            BY <5>1, CalendarAssumption DEF S!CourseIds, S!SpaceAssumption
          <6>2. n < k => k \in S!CourseIds
            BY <5>1, CalendarAssumption DEF S!CourseIds, S!SpaceAssumption
          <6> QED BY <2>1, <5>1, <6>1, <6>2
        <5>3. n + 1 + m <= MaxCourses
          BY <2>1 DEF SeriesWritten
        <5> QED BY <5>1, <5>2, <5>3, CalendarAssumption DEF S!CourseIds, S!SpaceAssumption
      <4> HIDE DEF k, ids
      <4> QED BY <4>1, <4>2 DEF SpaceInv, S!TypeOK
    <3>4. weekly' \in [S!CourseIds -> BOOLEAN]
      BY <1>3 DEF S!StoreCourses
    <3> QED BY <3>1, <3>2, <3>3, <3>4
  <2>4. \A c \in S!CourseIds : S!Stored(c)' <=> S!Stored(c) \/ c \in new
    BY <1>1, <2>1, CalendarAssumption DEF SeriesWritten, S!Stored, S!SpaceAssumption
  <2>5. StoredFirst' /\ CoursesStay
    <3>1. n + 1 + m \in 0..MaxCourses
      BY <2>1, CalendarAssumption DEF SeriesWritten, S!SpaceAssumption
    <3>2. \A c \in S!CourseIds : S!Stored(c)' <=> c <= n + 1 + m
      BY <2>1, <2>4, CalendarAssumption DEF Series, S!CourseIds, S!SpaceAssumption
    <3> QED BY <2>4, <3>1, <3>2 DEF StoredFirst, CoursesStay
  <2>6. S!SpaceOfCourseExists'
    <3> SUFFICES ASSUME NEW c \in S!CourseIds, S!Stored(c)'
                 PROVE  S!Exists(place[c])'
      BY DEF S!SpaceOfCourseExists
    <3>1. CASE c \in new
      <4>1. place'[c] = f.place
        BY <2>1, <3>1 DEF SeriesWritten
      <4> QED BY <1>1, <1>3, <4>1 DEF S!Exists
    <3>2. CASE c \notin new
      <4>1. place'[c] = place[c] /\ S!Stored(c)
        BY <2>1, <2>4, <3>2 DEF SeriesWritten
      <4>2. S!Exists(place[c])
        BY <4>1 DEF SpaceInv, CalendarIsSound, S!CalendarIsSound, S!SpaceOfCourseExists
      <4> QED BY <1>1, <4>1, <4>2 DEF S!Exists
    <3> QED BY <3>1, <3>2
  <2>7. ASSUME NEW c \in new, NEW d \in (S!CourseIds \ new) \ missed[q],
               place'[c] = place[d], S!Live(d)
        PROVE  ~S!Overlap(from'[c], to'[c], from[d], to[d])
    <3>1. /\ d # f.id /\ from'[c] \in S!Occurrences(f) /\ to'[c] = from'[c] + f.to - f.from
          /\ place'[c] = f.place
      BY <1>1, <2>1, <2>7, CalendarAssumption DEF SeriesWritten, S!CourseIds, S!SpaceAssumption
    <3>2. ~Clash(f, from'[c], d)
      BY <1>1, <2>7, <3>1 DEF Checked
    <3> QED BY <2>7, <3>1, <3>2 DEF Clash
  <2>8. ASSUME f.to - f.from <= Week, NEW c \in new, NEW d \in new, c < d
        PROVE  to'[c] <= from'[d]
    <3> DEFINE i == c - (n + 1)
               j == d - (n + 1)
    <3>1. i \in Nat /\ j \in Nat /\ i + 1 <= j
      BY <2>1, <2>8 DEF Series, S!CourseIds
    <3>2. from'[c] = f.from + Week * i /\ from'[d] = f.from + Week * j
          /\ to'[c] = f.from + Week * i + f.to - f.from
      BY <2>1, <2>8 DEF SeriesWritten
    <3>3. Week \in Nat /\ Week > 0 /\ f.from \in Nat /\ f.to \in Nat /\ f.to <= f.from + Week
      BY <1>1, <2>8, CalendarAssumption DEF S!Forms, S!Times, S!SpaceAssumption
    <3> HIDE DEF i, j
    <3>4. Week * i \in Nat /\ Week * j \in Nat /\ Week * i + Week <= Week * j
      BY <3>1, <3>3, Z3
    <3> QED BY <3>2, <3>3, <3>4
  <2>9. ASSUME f.to - f.from <= Week, NEW c \in new, NEW d \in new, c # d
        PROVE  ~S!Overlap(from'[c], to'[c], from'[d], to'[d])
    <3>1. /\ from'[c] \in Int /\ to'[c] \in Int /\ from'[d] \in Int /\ to'[d] \in Int
      BY <2>2, <2>3 DEF S!Times
    <3>2. c < d \/ d < c
      BY <2>2, <2>9 DEF S!CourseIds
    <3> HIDE DEF f, new
    <3> QED BY <2>8, <2>9, <3>1, <3>2 DEF S!Overlap
  <2>10. \A d \in S!CourseIds \ new :
            place'[d] = place[d] /\ from'[d] = from[d] /\ to'[d] = to[d] /\ status'[d] = status[d]
    BY <2>1 DEF SeriesWritten
  <2> HIDE DEF new, f
  <2> QED BY <1>1, <2>2, <2>3, <2>5, <2>6, <2>7, <2>9, <2>10, WrittenKeepsSpaceInv DEF f
<1> QED BY <1>2, <1>3

LEMMA InitSpaceInv == S!Init => SpaceInv
<1> SUFFICES ASSUME S!Init PROVE SpaceInv
  OBVIOUS
<1>1. S!Blank \in S!Forms
  BY CalendarAssumption DEF S!Blank, S!Forms, S!Times, S!Statuses, S!SpaceAssumption
<1>2. S!TypeOK
  BY <1>1, CalendarAssumption DEF S!Init, S!TypeOK, S!Times, S!Statuses, S!SpaceAssumption
<1>3. StoredFirst
  <2>1. 0 \in 0..MaxCourses
    BY CalendarAssumption DEF S!SpaceAssumption
  <2>2. \A c \in S!CourseIds : S!Stored(c) <=> c <= 0
    BY DEF S!Init, S!Stored, S!CourseIds
  <2> QED BY <2>1, <2>2 DEF StoredFirst
<1>4. \A q \in Changes : Known(q)
  BY DEF S!Init, Known, Pending, Looking
<1>5. CalendarIsSound
  BY DEF S!Init, CalendarIsSound, S!CalendarIsSound, S!NoDoubleBooking, S!SpaceOfCourseExists, S!Stored
<1> QED BY <1>2, <1>3, <1>4, <1>5 DEF SpaceInv

LEMMA StutterKeepsSpaceInv ==
    ASSUME SpaceInv, UNCHANGED svars
    PROVE  SpaceInv'
<1>1. S!TypeOK' /\ StoredFirst'
  BY DEF SpaceInv, svars, S!TypeOK, StoredFirst, S!Stored
<1>2. \A q \in Changes : Known(q)'
  BY DEF SpaceInv, svars, Known, Pending, Looking, Formed, Fresh, Checked, Clash, S!Stored,
         S!Occurrences, S!Live, S!Overlap
<1>3. CalendarIsSound'
  BY DEF SpaceInv, svars, CalendarIsSound, S!CalendarIsSound, S!NoDoubleBooking, S!SpaceOfCourseExists,
         S!Stored, S!Live, S!Overlap, S!Used, S!Exists
<1> QED BY <1>1, <1>2, <1>3 DEF SpaceInv

LEMMA NextKeepsSpaceInv ==
    ASSUME SpaceInv, [WeekNext]_weekVars
    PROVE  SpaceInv'
<1>1. CASE S!Next
  BY <1>1, AskCreationKeepsSpaceInv, AskEditKeepsSpaceInv, CheckSpaceKeepsSpaceInv,
     CheckSlotKeepsSpaceInv, StoreCoursesKeepsSpaceInv, StoreEditKeepsSpaceInv, CancelKeepsSpaceInv,
     DeletionKeepsSpaceInv, SpaceKeepsSpaceInv
  DEF S!Next
<1>2. CASE UNCHANGED svars
  BY <1>2, StutterKeepsSpaceInv
<1> QED BY <1>1, <1>2 DEF WeekNext, weekVars

\* The step by which a request leaves its "store" statement is a write of courses.
LEMMA StoreStep ==
    ASSUME SpaceInv, S!Next, NEW q \in Changes, spacePc[q] = "store", spacePc'[q] = "done"
    PROVE  S!StoreCourses(q) \/ S!StoreEdit(q)
<1>1. ASSUME NEW o \in Changes, NEW where, S!Goto(o, where), spacePc[o] # "store"
      PROVE  FALSE
  BY <1>1 DEF S!Goto, SpaceInv, S!TypeOK
<1>2. ASSUME NEW o \in Changes, S!StoreCourses(o) \/ S!StoreEdit(o), o # q
      PROVE  FALSE
  BY <1>2 DEF S!StoreCourses, S!StoreEdit, S!GiveUp, S!Finish, S!Goto, SpaceInv, S!TypeOK
<1>3. ASSUME NEW o \in Changes, S!AskCreation(o)
      PROVE  FALSE
  BY <1>1, <1>3 DEF S!AskCreation, S!Prepare
<1>4. ASSUME NEW o \in Changes, S!CheckSpace(o) \/ S!CheckSlot(o)
      PROVE  FALSE
  BY <1>1, <1>4 DEF S!CheckSpace, S!CheckSlot, S!GiveUp, S!Finish
<1>5. ASSUME NEW o \in Changes, NEW c \in S!CourseIds, S!AskEdit(o, c) \/ S!CancelCourse(o, c)
      PROVE  FALSE
  BY <1>1, <1>5 DEF S!AskEdit, S!Prepare, S!CancelCourse
<1>6. ASSUME NEW o \in Changes, S!DeleteSpace(o) \/ \E s \in Spaces : S!AskDeletion(o, s)
      PROVE  FALSE
  BY <1>1, <1>6 DEF S!AskDeletion, S!DeleteSpace, S!GiveUp, S!Finish
<1>7. ~ \E s \in Spaces : S!CreateSpace(s) \/ S!UpdateSpace(s)
  BY DEF S!CreateSpace, S!UpdateSpace
<1> QED BY <1>2, <1>3, <1>4, <1>5, <1>6, <1>7 DEF S!Next

\* A course goes to a space where one rides, or that has changed its type since.
LEMMA PlacesAreForRiding ==
    ASSUME SpaceInv, S!Next, NEW q \in Changes, spacePc[q] = "store", spacePc'[q] = "done",
           NEW c \in S!CourseIds, place'[c] # place[c]
    PROVE  kind[place'[c]] = "riding" \/ place'[c] \in retyped[q]
<1>1. Known(q) /\ Pending(q) /\ Looking(q)
  BY DEF SpaceInv, Pending, Looking
<1>2. Formed(q) /\ Checked(q)
  BY <1>1 DEF Known
<1>3. CASE S!StoreCourses(q)
  <2>1. S!Exists(ask[q].place)
    BY <1>3 DEF S!StoreCourses, S!GiveUp, S!courses
  <2>2. place'[c] = ask[q].place
    BY <1>3, <2>1, SeriesIsWritten DEF SeriesWritten
  <2>3. "place" \in ask[q].given
    BY <1>2, <1>3 DEF S!StoreCourses, Formed, S!Fields
  <2> QED BY <1>2, <2>1, <2>2, <2>3 DEF Checked, S!Exists
<1>4. CASE S!StoreEdit(q)
  <2>1. "place" \in ask[q].given /\ S!Exists(ask[q].place) /\ place'[c] = ask[q].place
    BY <1>4 DEF S!StoreEdit, S!GiveUp, S!courses, SpaceInv, S!TypeOK
  <2> QED BY <1>2, <2>1 DEF Checked, S!Exists
<1> QED BY <1>3, <1>4, StoreStep

\* A request that stores a new course stores one for each week it asked for.
LEMMA SeriesComesWhole ==
    ASSUME SpaceInv, S!Next, NEW q \in Changes, spacePc[q] = "store", spacePc'[q] = "done",
           NEW d \in S!CourseIds, ~S!Stored(d), place'[d] # NoSpace,
           NEW t \in ask[q].from..ask[q].until, (t - ask[q].from) % Week = 0
    PROVE  \E c \in S!CourseIds : ~S!Stored(c) /\ place'[c] # NoSpace /\ from'[c] = t
<1>1. S!StoreCourses(q) \/ S!StoreEdit(q)
  BY StoreStep
<1>2. ~S!StoreEdit(q)
  <2>1. ASSUME S!StoreEdit(q)
        PROVE  FALSE
    <3>1. S!Stored(ask[q].id)
      BY <2>1 DEF S!StoreEdit, SpaceInv, Known, Pending, Formed
    <3>2. place'[d] = place[d]
      BY <2>1, <3>1 DEF S!StoreEdit, S!GiveUp, S!courses, SpaceInv, S!TypeOK
    <3> QED BY <3>2 DEF S!Stored
  <2> QED BY <2>1
<1>3. S!StoreCourses(q) /\ S!Exists(ask[q].place)
  BY <1>1, <1>2 DEF S!StoreCourses, S!GiveUp, S!courses, S!Stored
<1>4. PICK n \in 0..MaxCourses, m \in Nat :
         /\ \A c \in S!CourseIds : S!Stored(c) <=> c <= n
         /\ SeriesWritten(q, n, m)
         /\ S!Occurrences(ask[q]) = {ask[q].from + Week * k : k \in 0..m}
  BY <1>3, SeriesIsWritten
<1>5. PICK k \in 0..m : t = ask[q].from + Week * k
  <2>1. t \in S!Occurrences(ask[q])
    BY DEF S!Occurrences
  <2> QED BY <1>4, <2>1
<1> DEFINE c == n + 1 + k
<1>6. c \in Series(n, m) /\ c - (n + 1) = k /\ ~(c <= n) /\ c \in S!CourseIds
  BY <1>4, <1>5, CalendarAssumption DEF SeriesWritten, Series, S!CourseIds, S!SpaceAssumption
<1> HIDE DEF c
<1>7. from'[c] = t /\ place'[c] = ask[q].place
  BY <1>4, <1>5, <1>6 DEF SeriesWritten
<1>8. ask[q].place \in Spaces /\ NoSpace \notin Spaces
  BY CalendarAssumption DEF SpaceInv, Known, Pending, Formed, S!SpaceAssumption
<1> QED BY <1>4, <1>6, <1>7, <1>8

-----------------------------------------------------------------------------
(* The horses of the courses: the types of what requests hold. *)

LEMMA NoPlan == << >> \in UNION {[X -> Horses] : X \in SUBSET Riders}
<1>1. << >> \in [{} -> Horses]
  OBVIOUS
<1> QED BY <1>1

LEMMA HoursAreNumbers ==
    /\ MaxHours \in Nat \ {0} /\ 1 \in 1..MaxHours
    /\ 0 \in 0..MaxHours /\ 0..MaxHours \subseteq Int /\ 1..MaxHours \subseteq 0..MaxHours
<1>1. MaxHours \in Nat \ {0}
  BY CalendarAssumption DEF H!HorseAssumption
<1> QED BY <1>1

LEMMA InitHorseTypes == H!Init => H!TypeOK
<1> SUFFICES ASSUME H!Init
             PROVE  H!TypeOK
  OBVIOUS
<1>1. hours \in [Lessons -> 1..MaxHours] /\ span \in [Requests -> 0..MaxHours]
  BY HoursAreNumbers DEF H!Init
<1>2. mount \in [H!Rides -> Horses \cup {NoHorse}]
  BY DEF H!Init
<1>3. load \in [Horses -> Int]
  BY DEF H!Init
<1>4. plan \in [Requests -> UNION {[X -> Horses] : X \in SUBSET Riders}]
  BY NoPlan DEF H!Init
<1>5. target \in [Requests -> Lessons \cup H!Rides \cup {<< >>}]
  BY DEF H!Init
<1>6. horsePc \in [Requests -> {"idle", "apply", "options", "swap", "delete"}]
      /\ horseStatus \in [Horses -> {"fit", "resting", "gone"}]
  BY DEF H!Init
<1> QED BY <1>1, <1>2, <1>3, <1>4, <1>5, <1>6 DEF H!Init, H!TypeOK

LEMMA NextKeepsHorseTypes ==
    ASSUME H!TypeOK, H!Next
    PROVE  H!TypeOK'
<1>1. ASSUME NEW q \in Requests, NEW c \in Lessons, H!ReadAndPlan(q, c)
      PROVE  H!TypeOK'
  <2>1. \A p \in H!Plans(c) : p \in UNION {[X -> Horses] : X \in SUBSET Riders}
    <3> TAKE p \in H!Plans(c)
    <3>1. PICK X \in SUBSET {r \in H!InCourse(c) : mount[<<c, r>>] = NoHorse} :
             p \in [X -> H!Eligible \ H!Taken(c)]
      BY DEF H!Plans
    <3>2. X \in SUBSET Riders /\ p \in [X -> Horses]
      BY <3>1 DEF H!InCourse, H!Eligible
    <3> QED BY <3>2
  <2>2. hours[c] \in 0..MaxHours
    BY HoursAreNumbers DEF H!TypeOK
  <2> QED BY <1>1, <2>1, <2>2 DEF H!ReadAndPlan, H!Goto, H!calendar, H!TypeOK
<1>2. ASSUME NEW q \in Requests, H!Finish(q)
      PROVE  /\ horsePc' \in [Requests -> {"idle", "apply", "options", "swap", "delete"}]
             /\ target' \in [Requests -> Lessons \cup H!Rides \cup {<< >>}]
             /\ plan' \in [Requests -> UNION {[X -> Horses] : X \in SUBSET Riders}]
             /\ before' \in [Requests -> Horses \cup {NoHorse}]
             /\ span' \in [Requests -> 0..MaxHours]
             /\ wanted' \in [Requests -> Horses \cup {NoHorse}]
  <2>1. horsePc' \in [Requests -> {"idle", "apply", "options", "swap", "delete"}]
    BY <1>2 DEF H!Finish, H!Goto, H!TypeOK
  <2>2. target' \in [Requests -> Lessons \cup H!Rides \cup {<< >>}]
    BY <1>2 DEF H!Finish, H!TypeOK
  <2>3. plan' \in [Requests -> UNION {[X -> Horses] : X \in SUBSET Riders}]
    BY <1>2, NoPlan DEF H!Finish, H!TypeOK
  <2>4. span' \in [Requests -> 0..MaxHours]
    BY <1>2, HoursAreNumbers DEF H!Finish, H!TypeOK
  <2> QED BY <1>2, <2>1, <2>2, <2>3, <2>4 DEF H!Finish, H!TypeOK
<1>3. ASSUME NEW q \in Requests, H!ApplyPlan(q)
      PROVE  H!TypeOK'
  <2> DEFINE given == {plan[q][r] : r \in DOMAIN plan[q]}
  <2>1. PICK X \in SUBSET Riders : plan[q] \in [X -> Horses]
    BY DEF H!TypeOK
  <2>2. mount' \in [H!Rides -> Horses \cup {NoHorse}]
    BY <1>3, <2>1 DEF H!ApplyPlan, H!TypeOK, H!Rides
  <2>3. load' \in [Horses -> Int]
    <3>1. span[q] \in Int
      BY HoursAreNumbers DEF H!TypeOK
    <3>2. \A h \in Horses : load[h] + (IF h \in given THEN span[q] ELSE 0) \in Int
      BY <3>1 DEF H!TypeOK
    <3>3. \/ load' = load
          \/ load' = [h \in Horses |-> load[h] + (IF h \in given THEN span[q] ELSE 0)]
      BY <1>3 DEF H!ApplyPlan
    <3> HIDE DEF given
    <3> QED BY <3>2, <3>3 DEF H!TypeOK
  <2> QED BY <1>2, <1>3, <2>2, <2>3 DEF H!ApplyPlan, H!calendar, H!TypeOK
<1>4. ASSUME NEW q \in Requests, H!Swap(q)
      PROVE  H!TypeOK'
  <2> DEFINE moved == IF before[q] = wanted[q] THEN 0 ELSE span[q]
  <2>1. mount' \in [H!Rides -> Horses \cup {NoHorse}]
    BY <1>4 DEF H!Swap, H!TypeOK
  <2>2. load' \in [Horses -> Int]
    <3>1. moved \in Int
      BY HoursAreNumbers DEF H!TypeOK
    <3>2. \A h \in Horses : load[h] + (IF h = wanted[q] THEN moved ELSE 0)
                                    - (IF h = before[q] THEN moved ELSE 0) \in Int
      BY <3>1 DEF H!TypeOK
    <3>3. \/ load' = load
          \/ load' = [h \in Horses |-> load[h] + (IF h = wanted[q] THEN moved ELSE 0)
                                               - (IF h = before[q] THEN moved ELSE 0)]
      BY <1>4 DEF H!Swap
    <3> HIDE DEF moved
    <3> QED BY <3>2, <3>3 DEF H!TypeOK
  <2> QED BY <1>2, <1>4, <2>1, <2>2 DEF H!Swap, H!calendar, H!TypeOK
<1>5. ASSUME NEW q \in Requests, H!DeleteHorse(q)
      PROVE  H!TypeOK'
  BY <1>2, <1>5 DEF H!DeleteHorse, H!calendar, H!TypeOK
<1>6. ASSUME NEW q \in Requests, H!CheckOptions(q)
      PROVE  H!TypeOK'
  <2>1. CASE H!Finish(q)
    BY <1>2, <1>6, <2>1 DEF H!CheckOptions, H!calendar, H!TypeOK
  <2>2. CASE H!Goto(q, "swap") /\ UNCHANGED H!locals
    BY <1>6, <2>2 DEF H!CheckOptions, H!Goto, H!locals, H!calendar, H!TypeOK
  <2> QED BY <1>6, <2>1, <2>2 DEF H!CheckOptions
<1>7. ASSUME NEW q \in Requests, NEW x \in H!Rides, NEW h \in Horses, H!ReadForOverride(q, x, h)
      PROVE  H!TypeOK'
  <2>1. hours[x[1]] \in 0..MaxHours
    BY HoursAreNumbers DEF H!Rides, H!TypeOK
  <2> QED BY <1>7, <2>1 DEF H!ReadForOverride, H!Goto, H!calendar, H!TypeOK
<1>8. ASSUME NEW q \in Requests, NEW h \in Horses, H!CountForDeletion(q, h)
      PROVE  H!TypeOK'
  BY <1>8 DEF H!CountForDeletion, H!Goto, H!calendar, H!TypeOK
<1>9. ASSUME NEW h \in Horses, H!SetStatus(h)
      PROVE  H!TypeOK'
  BY <1>9 DEF H!SetStatus, H!calendar, H!locals, H!TypeOK
<1>10. ASSUME NEW x \in H!Rides, H!Enroll(x)
       PROVE  H!TypeOK'
  BY <1>10 DEF H!Enroll, H!locals, H!TypeOK
<1>11. ASSUME NEW c \in Lessons, H!CancelCourse(c)
       PROVE  H!TypeOK'
  BY <1>11 DEF H!CancelCourse, H!locals, H!TypeOK
<1>12. ASSUME NEW c \in Lessons, H!UpdateCourse(c)
       PROVE  H!TypeOK'
  <2>1. \A r \in Riders : mount[<<c, r>>] \in Horses \cup {NoHorse}
    BY DEF H!Rides, H!TypeOK
  <2>2. H!Mounts(c) \subseteq Horses
    BY <2>1 DEF H!Mounts, H!InCourse
  <2>3. hours' \in [Lessons -> 1..MaxHours]
    BY <1>12 DEF H!UpdateCourse, H!TypeOK
  <2> QED BY <1>12, <2>2, <2>3 DEF H!UpdateCourse, H!locals, H!TypeOK
<1> QED BY <1>1, <1>3, <1>4, <1>5, <1>6, <1>7, <1>8, <1>9, <1>10, <1>11, <1>12 DEF H!Next

-----------------------------------------------------------------------------
(* The horses of the courses.  While requests about one course do not      *)
(* overlap, what a request has read of its mounts is still so when it      *)
(* writes; a deletion overlaps no assignment at all.                       *)

\* What AssignmentsAlone says of a state.
HorsesApart == \A q, o \in Requests : q # o /\ horsePc[q] # "idle" => ~Meet(q, o)

\* Who has a horse is enrolled.
MountedAreEnrolled == \A x \in H!Rides : mount[x] # NoHorse => x \in horseEnrolled

\* A plan gives waiting riders of its course different horses, which nobody there has.
PlanIsSound(q) ==
    /\ target[q] \in Lessons
    /\ \A r \in DOMAIN plan[q] :
          /\ r \in Riders /\ plan[q][r] \in Horses
          /\ <<target[q], r>> \in horseEnrolled
          /\ \A o \in Riders : mount[<<target[q], o>>] # plan[q][r]
          /\ \A o \in DOMAIN plan[q] : plan[q][o] = plan[q][r] => o = r

\* An override is of an enrollment; once checked, nobody else of the course has its horse.
OverrideIsKnown(q) ==
    /\ target[q] \in H!Rides /\ target[q] \in horseEnrolled
    /\ wanted[q] \in Horses
SwapIsSound(q) ==
    \A r \in Riders : <<target[q][1], r>> # target[q] => mount[<<target[q][1], r>>] # wanted[q]

\* Nobody has a horse about to be deleted.
DeletedIsFree(q) == wanted[q] \in Horses /\ \A x \in H!Rides : mount[x] # wanted[q]

Ready(q) ==
    /\ horsePc[q] = "apply" => PlanIsSound(q)
    /\ horsePc[q] \in {"options", "swap"} => OverrideIsKnown(q)
    /\ horsePc[q] = "swap" => SwapIsSound(q)
    /\ horsePc[q] = "delete" => DeletedIsFree(q)

\* The inductive invariant of the horses.
HorseInv ==
    /\ H!TypeOK /\ HorsesApart /\ MountedAreEnrolled /\ H!HorseOncePerSession
    /\ \A q \in Requests : Ready(q)

\* The request that writes is alone with its course.
LEMMA AloneInCourse ==
    ASSUME HorsesApart, NEW q \in Requests, NEW o \in Requests, q # o,
           horsePc[q] # "idle", horsePc[o] # "idle"
    PROVE  horsePc[q] # "delete" /\ horsePc[o] # "delete" /\ CourseOf(q) # CourseOf(o)
BY DEF HorsesApart, Meet

\* A request stays ready if nobody writes the mounts it has read.
LEMMA ReadyStays ==
    ASSUME HorseInv, NEW q \in Requests,
           horsePc'[q] = horsePc[q], target'[q] = target[q], plan'[q] = plan[q],
           wanted'[q] = wanted[q], horseEnrolled \subseteq horseEnrolled',
           horsePc[q] = "delete" => mount' = mount,
           horsePc[q] \in {"apply", "swap"} =>
               \A r \in Riders : mount'[<<CourseOf(q), r>>] = mount[<<CourseOf(q), r>>]
    PROVE  Ready(q)'
<1>1. CASE horsePc[q] = "apply"
  BY <1>1 DEF HorseInv, Ready, PlanIsSound, CourseOf
<1>2. CASE horsePc[q] = "options"
  BY <1>2 DEF HorseInv, Ready, OverrideIsKnown
<1>3. CASE horsePc[q] = "swap"
  BY <1>3 DEF HorseInv, Ready, OverrideIsKnown, SwapIsSound, CourseOf
<1>4. CASE horsePc[q] = "delete"
  BY <1>4 DEF HorseInv, Ready, DeletedIsFree
<1> QED BY <1>1, <1>2, <1>3, <1>4 DEF Ready

\* A step of q that writes no mount keeps the invariant if q itself is ready after it.
LEMMA MountsStay ==
    ASSUME HorseInv, H!TypeOK', HorsesApart', mount' = mount,
           horseEnrolled \subseteq horseEnrolled',
           \A q \in Requests :
               \/ Ready(q)'
               \/ /\ horsePc'[q] = horsePc[q] /\ target'[q] = target[q]
                  /\ plan'[q] = plan[q] /\ wanted'[q] = wanted[q]
    PROVE  HorseInv'
<1>1. \A q \in Requests : Ready(q)'
  BY ReadyStays
<1>2. MountedAreEnrolled'
  BY DEF HorseInv, MountedAreEnrolled
<1>3. H!HorseOncePerSession'
  BY DEF HorseInv, H!HorseOncePerSession
<1> QED BY <1>1, <1>2, <1>3 DEF HorseInv

\* A request that ends leaves the others as they are.
LEMMA FinishEndsOne ==
    ASSUME H!TypeOK, NEW q \in Requests, H!Finish(q)
    PROVE  /\ horsePc'[q] = "idle" /\ Ready(q)'
           /\ \A o \in Requests \ {q} :
                 /\ horsePc'[o] = horsePc[o] /\ target'[o] = target[o]
                 /\ plan'[o] = plan[o] /\ wanted'[o] = wanted[o]
<1>1. horsePc'[q] = "idle"
  BY DEF H!Finish, H!Goto, H!TypeOK
<1>2. Ready(q)'
  BY <1>1 DEF Ready
<1> QED BY <1>1, <1>2 DEF H!Finish, H!Goto, H!TypeOK

\* Whatever simulateHorseAssignments returns is sound.
LEMMA PlansAreSound ==
    ASSUME HorseInv, NEW c \in Lessons, NEW p \in H!Plans(c), NEW r \in DOMAIN p
    PROVE  /\ r \in Riders /\ p[r] \in Horses
           /\ <<c, r>> \in horseEnrolled
           /\ \A o \in Riders : mount[<<c, o>>] # p[r]
           /\ \A o \in DOMAIN p : p[o] = p[r] => o = r
<1>1. PICK X \in SUBSET {x \in H!InCourse(c) : mount[<<c, x>>] = NoHorse} :
         p \in [X -> H!Eligible \ H!Taken(c)]
  BY DEF H!Plans
<1>2. r \in H!InCourse(c) /\ p[r] \in H!Eligible /\ p[r] \notin H!Taken(c)
  BY <1>1
<1>3. r \in Riders /\ p[r] \in Horses /\ <<c, r>> \in horseEnrolled
  BY <1>2 DEF H!InCourse, H!Eligible
<1>4. ASSUME NEW o \in Riders, mount[<<c, o>>] = p[r]
      PROVE  FALSE
  <2>1. mount[<<c, o>>] # NoHorse
    BY <1>3, <1>4, CalendarAssumption DEF H!HorseAssumption
  <2>2. o \in H!InCourse(c)
    BY <2>1 DEF HorseInv, MountedAreEnrolled, H!Rides, H!InCourse
  <2> QED BY <1>2, <1>4, <2>1, <2>2 DEF H!Taken, H!Mounts
<1>5. \A o \in DOMAIN p : p[o] = p[r] => o = r
  BY DEF H!Plans
<1> QED BY <1>3, <1>4, <1>5

\* The three ways in, and the check of an override.
LEMMA ReadingKeepsHorseInv ==
    ASSUME HorseInv, H!TypeOK', HorsesApart', NEW q \in Requests,
           \/ \E c \in Lessons : H!ReadAndPlan(q, c)
           \/ \E x \in H!Rides, h \in Horses : H!ReadForOverride(q, x, h)
           \/ \E h \in Horses : H!CountForDeletion(q, h)
           \/ H!CheckOptions(q)
    PROVE  HorseInv' /\ mount' = mount
<1>0. H!TypeOK
  BY DEF HorseInv
<1>1. ASSUME NEW c \in Lessons, H!ReadAndPlan(q, c)
      PROVE  HorseInv' /\ mount' = mount
  <2>1. PICK p \in H!Plans(c) : plan' = [plan EXCEPT ![q] = p]
    BY <1>1 DEF H!ReadAndPlan
  <2>2. horsePc'[q] = "apply" /\ target'[q] = c /\ plan'[q] = p
        /\ mount' = mount /\ horseEnrolled' = horseEnrolled
    BY <1>0, <1>1, <2>1 DEF H!ReadAndPlan, H!Goto, H!calendar, H!TypeOK
  <2>3. PlanIsSound(q)'
    BY <2>2, PlansAreSound DEF PlanIsSound
  <2>4. Ready(q)'
    BY <2>2, <2>3 DEF Ready
  <2>5. \A o \in Requests \ {q} : /\ horsePc'[o] = horsePc[o] /\ target'[o] = target[o]
                                  /\ plan'[o] = plan[o] /\ wanted'[o] = wanted[o]
    BY <1>0, <1>1, <2>1 DEF H!ReadAndPlan, H!Goto, H!TypeOK
  <2> QED BY <2>2, <2>4, <2>5, MountsStay
<1>2. ASSUME NEW x \in H!Rides, NEW h \in Horses, H!ReadForOverride(q, x, h)
      PROVE  HorseInv' /\ mount' = mount
  <2>1. horsePc'[q] = "options" /\ target'[q] = x /\ wanted'[q] = h /\ x \in horseEnrolled
        /\ mount' = mount /\ horseEnrolled' = horseEnrolled
    BY <1>0, <1>2 DEF H!ReadForOverride, H!Goto, H!calendar, H!TypeOK
  <2>2. Ready(q)'
    BY <2>1 DEF Ready, OverrideIsKnown, H!Rides
  <2>3. \A o \in Requests \ {q} : /\ horsePc'[o] = horsePc[o] /\ target'[o] = target[o]
                                  /\ plan'[o] = plan[o] /\ wanted'[o] = wanted[o]
    BY <1>0, <1>2 DEF H!ReadForOverride, H!Goto, H!TypeOK
  <2> QED BY <2>1, <2>2, <2>3, MountsStay
<1>3. ASSUME NEW h \in Horses, H!CountForDeletion(q, h)
      PROVE  HorseInv' /\ mount' = mount
  <2>1. horsePc'[q] = "delete" /\ wanted'[q] = h /\ mount' = mount
        /\ horseEnrolled' = horseEnrolled /\ \A x \in H!Rides : mount[x] # h
    BY <1>0, <1>3 DEF H!CountForDeletion, H!Goto, H!calendar, H!TypeOK
  <2>2. Ready(q)'
    BY <2>1 DEF Ready, DeletedIsFree, H!Rides
  <2>3. \A o \in Requests \ {q} : /\ horsePc'[o] = horsePc[o] /\ target'[o] = target[o]
                                  /\ plan'[o] = plan[o] /\ wanted'[o] = wanted[o]
    BY <1>0, <1>3 DEF H!CountForDeletion, H!Goto, H!TypeOK
  <2> QED BY <2>1, <2>2, <2>3, MountsStay
<1>4. ASSUME H!CheckOptions(q)
      PROVE  HorseInv' /\ mount' = mount
  <2>0. mount' = mount /\ horseEnrolled' = horseEnrolled /\ horsePc[q] = "options"
    BY <1>4 DEF H!CheckOptions, H!calendar
  <2>1. CASE H!Finish(q)
    BY <1>0, <2>0, <2>1, FinishEndsOne, MountsStay
  <2>2. CASE H!Goto(q, "swap") /\ UNCHANGED H!locals
            /\ wanted[q] \notin {mount[<<target[q][1], r>>] :
                                    r \in H!InCourse(target[q][1]) \ {target[q][2]}}
    <3>1. horsePc'[q] = "swap" /\ target' = target /\ plan' = plan /\ wanted' = wanted
      BY <1>0, <2>2 DEF H!Goto, H!locals, H!TypeOK
    <3>2. OverrideIsKnown(q)
      BY <2>0 DEF HorseInv, Ready
    <3>3. wanted[q] # NoHorse
      BY <3>2, CalendarAssumption DEF OverrideIsKnown, H!HorseAssumption
    <3>4. PICK d \in Lessons, y \in Riders : target[q] = <<d, y>>
      BY <3>2 DEF OverrideIsKnown, H!Rides
    <3>5. ASSUME NEW r \in Riders, r # y
          PROVE  mount[<<d, r>>] # wanted[q]
      <4>1. mount[<<d, r>>] # NoHorse => r \in H!InCourse(d)
        BY DEF HorseInv, MountedAreEnrolled, H!Rides, H!InCourse
      <4> QED BY <2>2, <3>3, <3>4, <3>5, <4>1
    <3>6. SwapIsSound(q)
      BY <3>4, <3>5 DEF SwapIsSound
    <3>7. Ready(q)'
      BY <2>0, <3>1, <3>2, <3>6 DEF Ready, OverrideIsKnown, SwapIsSound, H!Rides
    <3>8. \A o \in Requests \ {q} : horsePc'[o] = horsePc[o]
      BY <1>0, <2>2 DEF H!Goto, H!TypeOK
    <3> QED BY <2>0, <3>1, <3>7, <3>8, MountsStay
  <2> QED BY <1>4, <2>1, <2>2 DEF H!CheckOptions
<1> QED BY <1>1, <1>2, <1>3, <1>4

\* The three writes: a plan, an override, a deletion.
LEMMA WritesKeepHorseInv ==
    ASSUME HorseInv, H!TypeOK', HorsesApart', NEW q \in Requests,
           H!ApplyPlan(q) \/ H!Swap(q) \/ H!DeleteHorse(q)
    PROVE  HorseInv' /\ \A x \in H!Rides : mount[x] # NoHorse => mount'[x] # NoHorse
<1>0. H!TypeOK /\ HorsesApart /\ Ready(q) /\ NoHorse \notin Horses
  BY CalendarAssumption DEF HorseInv, H!HorseAssumption
<1>1. horsePc[q] # "idle" /\ H!Finish(q) /\ horseEnrolled' = horseEnrolled
  BY DEF H!ApplyPlan, H!Swap, H!DeleteHorse, H!calendar
<1>2. /\ Ready(q)'
      /\ \A o \in Requests \ {q} : /\ horsePc'[o] = horsePc[o] /\ target'[o] = target[o]
                                   /\ plan'[o] = plan[o] /\ wanted'[o] = wanted[o]
  BY <1>0, <1>1, FinishEndsOne
<1>3. CASE mount' = mount
  BY <1>1, <1>2, <1>3, MountsStay
<1>4. CASE /\ horsePc[q] = "apply"
           /\ mount' = [x \in H!Rides |-> IF x[1] = target[q] /\ x[2] \in DOMAIN plan[q]
                                          THEN plan[q][x[2]] ELSE mount[x]]
  <2> DEFINE c == target[q]
             p == plan[q]
  <2>1. /\ c \in Lessons
        /\ \A r \in DOMAIN p :
              /\ r \in Riders /\ p[r] \in Horses /\ <<c, r>> \in horseEnrolled
              /\ \A o \in Riders : mount[<<c, o>>] # p[r]
              /\ \A o \in DOMAIN p : p[o] = p[r] => o = r
    BY <1>0, <1>4 DEF Ready, PlanIsSound
  <2>2. \A d \in Lessons, r \in Riders :
            mount'[<<d, r>>] = IF d = c /\ r \in DOMAIN p THEN p[r] ELSE mount[<<d, r>>]
    BY <1>4 DEF H!Rides
  <2>3. CourseOf(q) = c
    BY <1>4 DEF CourseOf
  <2> HIDE DEF c, p
  <2>4. MountedAreEnrolled'
    <3> SUFFICES ASSUME NEW d \in Lessons, NEW r \in Riders, mount'[<<d, r>>] # NoHorse
                 PROVE  <<d, r>> \in horseEnrolled
      BY <1>1 DEF MountedAreEnrolled, H!Rides
    <3> QED BY <2>1, <2>2 DEF HorseInv, MountedAreEnrolled, H!Rides
  <2>5. H!HorseOncePerSession'
    <3> SUFFICES ASSUME NEW d \in Lessons, NEW r \in Riders, NEW o \in Riders, r # o,
                        mount'[<<d, r>>] # NoHorse, mount'[<<d, r>>] = mount'[<<d, o>>]
                 PROVE  FALSE
      BY DEF H!HorseOncePerSession, H!Rides
    <3>1. mount[<<d, r>>] # NoHorse => mount[<<d, r>>] # mount[<<d, o>>]
      BY DEF HorseInv, H!HorseOncePerSession, H!Rides
    <3> QED BY <2>1, <2>2, <3>1
  <2>6. \A x \in H!Rides : mount[x] # NoHorse => mount'[x] # NoHorse
    <3> SUFFICES ASSUME NEW d \in Lessons, NEW r \in Riders, mount[<<d, r>>] # NoHorse
                 PROVE  mount'[<<d, r>>] # NoHorse
      BY DEF H!Rides
    <3> QED BY <1>0, <2>1, <2>2
  <2>7. ASSUME NEW o \in Requests, o # q
        PROVE  Ready(o)'
    <3>1. CASE horsePc[o] = "idle"
      BY <1>2, <2>7, <3>1 DEF Ready
    <3>2. CASE horsePc[o] # "idle"
      <4>1. horsePc[o] # "delete" /\ CourseOf(o) # c
        BY <1>0, <1>1, <2>3, <2>7, <3>2, AloneInCourse
      <4>2. horsePc[o] \in {"apply", "swap"} => CourseOf(o) \in Lessons
        BY DEF HorseInv, Ready, PlanIsSound, OverrideIsKnown, CourseOf, H!Rides
      <4> QED BY <1>1, <1>2, <2>2, <2>7, <4>1, <4>2, ReadyStays
    <3> QED BY <3>1, <3>2
  <2> QED BY <1>2, <2>4, <2>5, <2>6, <2>7 DEF HorseInv
<1>5. CASE horsePc[q] = "swap" /\ mount' = [mount EXCEPT ![target[q]] = wanted[q]]
  <2>1. PICK c \in Lessons, y \in Riders : target[q] = <<c, y>>
    BY <1>0, <1>5 DEF Ready, OverrideIsKnown, H!Rides
  <2>2. wanted[q] \in Horses /\ <<c, y>> \in horseEnrolled
        /\ \A r \in Riders : r # y => mount[<<c, r>>] # wanted[q]
    BY <1>0, <1>5, <2>1 DEF Ready, OverrideIsKnown, SwapIsSound
  <2>3. \A d \in Lessons, r \in Riders :
            mount'[<<d, r>>] = IF d = c /\ r = y THEN wanted[q] ELSE mount[<<d, r>>]
    BY <1>0, <1>5, <2>1 DEF H!TypeOK, H!Rides
  <2>4. CourseOf(q) = c
    BY <1>5, <2>1 DEF CourseOf
  <2>5. MountedAreEnrolled'
    <3> SUFFICES ASSUME NEW d \in Lessons, NEW r \in Riders, mount'[<<d, r>>] # NoHorse
                 PROVE  <<d, r>> \in horseEnrolled
      BY <1>1 DEF MountedAreEnrolled, H!Rides
    <3> QED BY <2>2, <2>3 DEF HorseInv, MountedAreEnrolled, H!Rides
  <2>6. H!HorseOncePerSession'
    <3> SUFFICES ASSUME NEW d \in Lessons, NEW r \in Riders, NEW o \in Riders, r # o,
                        mount'[<<d, r>>] # NoHorse, mount'[<<d, r>>] = mount'[<<d, o>>]
                 PROVE  FALSE
      BY DEF H!HorseOncePerSession, H!Rides
    <3>1. mount[<<d, r>>] # NoHorse => mount[<<d, r>>] # mount[<<d, o>>]
      BY DEF HorseInv, H!HorseOncePerSession, H!Rides
    <3> QED BY <2>2, <2>3, <3>1
  <2>7. \A x \in H!Rides : mount[x] # NoHorse => mount'[x] # NoHorse
    <3> SUFFICES ASSUME NEW d \in Lessons, NEW r \in Riders, mount[<<d, r>>] # NoHorse
                 PROVE  mount'[<<d, r>>] # NoHorse
      BY DEF H!Rides
    <3> QED BY <1>0, <2>2, <2>3
  <2>8. ASSUME NEW o \in Requests, o # q
        PROVE  Ready(o)'
    <3>1. CASE horsePc[o] = "idle"
      BY <1>2, <2>8, <3>1 DEF Ready
    <3>2. CASE horsePc[o] # "idle"
      <4>1. horsePc[o] # "delete" /\ CourseOf(o) # c
        BY <1>0, <1>1, <2>4, <2>8, <3>2, AloneInCourse
      <4>2. horsePc[o] \in {"apply", "swap"} => CourseOf(o) \in Lessons
        BY DEF HorseInv, Ready, PlanIsSound, OverrideIsKnown, CourseOf, H!Rides
      <4> QED BY <1>1, <1>2, <2>3, <2>8, <4>1, <4>2, ReadyStays
    <3> QED BY <3>1, <3>2
  <2> QED BY <1>2, <2>5, <2>6, <2>7, <2>8 DEF HorseInv
<1>6. CASE H!DeleteHorse(q)
  <2>1. \A x \in H!Rides : mount[x] # wanted[q]
    BY <1>0, <1>6 DEF H!DeleteHorse, Ready, DeletedIsFree
  <2>2. mount' = [x \in H!Rides |-> mount[x]]
    BY <1>6, <2>1 DEF H!DeleteHorse
  <2>3. mount' = mount
    BY <1>0, <2>2 DEF H!TypeOK
  <2> QED BY <1>3, <2>3
<1> QED BY <1>3, <1>4, <1>5, <1>6 DEF H!ApplyPlan, H!Swap

\* A step under AssignmentsAlone keeps the invariant, and everybody's mount.
LEMMA HorseStep ==
    ASSUME HorseInv, [H!Next]_hvars, HorsesApart'
    PROVE  HorseInv' /\ [\A x \in H!Rides : mount[x] # NoHorse => mount'[x] # NoHorse]_hvars
<1>1. CASE UNCHANGED hvars
  BY <1>1 DEF hvars, HorseInv, H!TypeOK, HorsesApart, MountedAreEnrolled, H!HorseOncePerSession,
              Ready, PlanIsSound, OverrideIsKnown, SwapIsSound, DeletedIsFree, H!Rides
<1>2. CASE H!Next
  <2>1. H!TypeOK'
    BY <1>2, NextKeepsHorseTypes DEF HorseInv
  <2>2. ASSUME NEW q \in Requests,
               \/ \E c \in Lessons : H!ReadAndPlan(q, c)
               \/ \E x \in H!Rides, h \in Horses : H!ReadForOverride(q, x, h)
               \/ \E h \in Horses : H!CountForDeletion(q, h)
               \/ H!CheckOptions(q)
        PROVE  HorseInv' /\ mount' = mount
    BY <2>1, <2>2, ReadingKeepsHorseInv
  <2>3. ASSUME \/ \E h \in Horses : H!SetStatus(h)
               \/ \E x \in H!Rides : H!Enroll(x)
               \/ \E c \in Lessons : H!CancelCourse(c) \/ H!UpdateCourse(c)
        PROVE  HorseInv' /\ mount' = mount
    <3>1. /\ mount' = mount /\ horseEnrolled \subseteq horseEnrolled'
          /\ horsePc' = horsePc /\ target' = target /\ plan' = plan /\ wanted' = wanted
      BY <2>3 DEF H!SetStatus, H!Enroll, H!CancelCourse, H!UpdateCourse, H!calendar, H!locals
    <3> QED BY <2>1, <3>1, MountsStay
  <2>4. ASSUME NEW q \in Requests, H!ApplyPlan(q) \/ H!Swap(q) \/ H!DeleteHorse(q)
        PROVE  HorseInv' /\ \A x \in H!Rides : mount[x] # NoHorse => mount'[x] # NoHorse
    BY <2>1, <2>4, WritesKeepHorseInv
  <2> QED BY <1>2, <2>2, <2>3, <2>4 DEF H!Next
<1> QED BY <1>1, <1>2

-----------------------------------------------------------------------------
(* The hours of the horses.  What a request adds or takes is what its      *)
(* course lasts, and what it read of the mount is still so when it writes. *)

\* The rides of a horse last what its load says, unless their times were edited.
LoadsMatch ==
    \A h \in Horses \ retimed : horseStatus[h] # "gone" => load[h] = HoursOf(hours, H!RiddenBy(h))

\* The riders of a plan have no horse; an override knows the horse it replaces.
ReadInv(q) ==
    /\ horsePc[q] = "apply" =>
          /\ span[q] = hours[target[q]]
          /\ \A r \in DOMAIN plan[q] : mount[<<target[q], r>>] = NoHorse
    /\ horsePc[q] \in {"options", "swap"} =>
          span[q] = hours[target[q][1]] /\ before[q] = mount[target[q]]

\* The inductive invariant of the hours.
LoadInv == HorseInv /\ LoadsMatch /\ \A q \in Requests : ReadInv(q)

\* No times are edited while a request stays between its reads and its write.
TimesKept ==
    (\E q \in Requests : horsePc[q] # "idle" /\ horsePc'[q] = horsePc[q]) => hours' = hours

\* The sum of CourseHorses is the one of WeeklyHours.
LEMMA LoadsMatchIsAssigned == LoadsMatch <=> H!LoadIsAssigned
<1>1. ASSUME NEW h \in Horses
      PROVE  HoursOf(hours, H!RiddenBy(h))
                 = H!MapThenSumSet(LAMBDA x : hours[x[1]], H!RiddenBy(h))
  BY DEF HoursOf, MapThenSumSet, MapThenFoldSet, H!MapThenSumSet, H!MapThenFoldSet
<1> QED BY <1>1 DEF LoadsMatch, H!LoadIsAssigned

\* The rides of a horse are finitely many and last a number of hours.
LEMMA RidesAreFinite ==
    ASSUME H!TypeOK, NEW rides, rides \subseteq H!Rides
    PROVE  IsFiniteSet(rides) /\ Timed(hours, rides)
<1>1. IsFiniteSet(rides)
  <2>1. IsFiniteSet(Lessons \X Riders)
    BY CalendarAssumption DEF H!HorseAssumption, H!IsFiniteSet, IsFiniteSet
  <2> QED BY <2>1, FS_Subset DEF H!Rides
<1>2. \A x \in H!Rides : hours[x[1]] \in Int
  BY HoursAreNumbers DEF H!TypeOK, H!Rides
<1> QED BY <1>1, <1>2 DEF Timed

\* One ride more or less.
LEMMA RideAdded ==
    ASSUME LoadInv, NEW h \in Horses \ retimed, horseStatus[h] # "gone",
           NEW x \in H!Rides, mount[x] # h
    PROVE  HoursOf(hours, H!RiddenBy(h) \cup {x}) = load[h] + hours[x[1]]
<1>1. load[h] = HoursOf(hours, H!RiddenBy(h))
  BY DEF LoadInv, LoadsMatch
<1>2. IsFiniteSet(H!RiddenBy(h)) /\ Timed(hours, H!RiddenBy(h) \cup {x})
      /\ x \notin H!RiddenBy(h)
  BY RidesAreFinite DEF LoadInv, HorseInv, H!RiddenBy
<1>3. ASSUME NEW rides, IsFiniteSet(rides), x \notin rides, Timed(hours, rides \cup {x})
      PROVE  HoursOf(hours, rides \cup {x}) = HoursOf(hours, rides) + hours[x[1]]
  BY <1>3, HoursWith
<1>4. HoursOf(hours, H!RiddenBy(h) \cup {x}) = HoursOf(hours, H!RiddenBy(h)) + hours[x[1]]
  BY <1>2, <1>3, Zenon
<1> QED BY <1>1, <1>4, Zenon

LEMMA RideRemoved ==
    ASSUME LoadInv, NEW h \in Horses \ retimed, horseStatus[h] # "gone",
           NEW x \in H!Rides, mount[x] = h
    PROVE  HoursOf(hours, H!RiddenBy(h) \ {x}) = load[h] - hours[x[1]]
<1>1. load[h] = HoursOf(hours, H!RiddenBy(h))
  BY DEF LoadInv, LoadsMatch
<1>2. IsFiniteSet(H!RiddenBy(h)) /\ Timed(hours, H!RiddenBy(h)) /\ x \in H!RiddenBy(h)
  BY RidesAreFinite DEF LoadInv, HorseInv, H!RiddenBy
<1>3. ASSUME NEW rides, x \in rides, IsFiniteSet(rides), Timed(hours, rides)
      PROVE  HoursOf(hours, rides \ {x}) = HoursOf(hours, rides) - hours[x[1]]
  BY <1>3, HoursLess
<1>4. HoursOf(hours, H!RiddenBy(h) \ {x}) = HoursOf(hours, H!RiddenBy(h)) - hours[x[1]]
  BY <1>2, <1>3, Zenon
<1> QED BY <1>1, <1>4, Zenon

\* A step that moves no horse; if it edits times, the horses concerned are known.
LEMMA LoadsStay ==
    ASSUME LoadInv, HorseInv', mount' = mount, load' = load, retimed \subseteq retimed',
           \A h \in Horses : horseStatus'[h] # "gone" => horseStatus[h] # "gone",
           \A x \in H!Rides : mount[x] \notin retimed' \cup {NoHorse} =>
               hours'[x[1]] = hours[x[1]],
           \A q \in Requests : ReadInv(q)'
    PROVE  LoadInv'
<1>1. ASSUME NEW h \in Horses \ retimed', horseStatus'[h] # "gone"
      PROVE  load'[h] = HoursOf(hours', H!RiddenBy(h)')
  <2>1. H!RiddenBy(h)' = H!RiddenBy(h)
    BY DEF H!RiddenBy, H!Rides
  <2>2. h # NoHorse
    BY CalendarAssumption DEF H!HorseAssumption
  <2>3. \A x \in H!RiddenBy(h) : hours'[x[1]] = hours[x[1]]
    BY <2>2 DEF H!RiddenBy
  <2>4. IsFiniteSet(H!RiddenBy(h))
    BY RidesAreFinite DEF LoadInv, HorseInv, H!RiddenBy
  <2>5. HoursOf(hours', H!RiddenBy(h)) = HoursOf(hours, H!RiddenBy(h))
    BY <2>3, <2>4, HoursSame
  <2>6. load[h] = HoursOf(hours, H!RiddenBy(h))
    BY <1>1 DEF LoadInv, LoadsMatch
  <2> QED BY <2>1, <2>5, <2>6
<1> QED BY <1>1 DEF LoadInv, LoadsMatch

\* A request that keeps what it has read.
LEMMA ReadStays ==
    ASSUME LoadInv, NEW q \in Requests,
           horsePc'[q] \in {"idle", "delete", horsePc[q]}
               \/ (horsePc[q] = "options" /\ horsePc'[q] = "swap"),
           horsePc'[q] \in {"apply", "options", "swap"} =>
               /\ target'[q] = target[q] /\ plan'[q] = plan[q] /\ span'[q] = span[q]
               /\ before'[q] = before[q] /\ hours' = hours
               /\ \A r \in Riders : mount'[<<CourseOf(q), r>>] = mount[<<CourseOf(q), r>>]
    PROVE  ReadInv(q)'
<1>1. CASE horsePc'[q] = "apply"
  <2>1. horsePc[q] = "apply" /\ PlanIsSound(q) /\ CourseOf(q) = target[q]
    BY <1>1 DEF LoadInv, HorseInv, Ready, CourseOf
  <2>2. span[q] = hours[target[q]] /\ \A r \in DOMAIN plan[q] : mount[<<target[q], r>>] = NoHorse
    BY <2>1 DEF LoadInv, ReadInv
  <2>3. span'[q] = hours'[target'[q]]
    BY <1>1, <2>2
  <2>4. \A r \in DOMAIN plan'[q] : mount'[<<target'[q], r>>] = NoHorse
    BY <1>1, <2>1, <2>2 DEF PlanIsSound
  <2> QED BY <1>1, <2>3, <2>4 DEF ReadInv
<1>2. CASE horsePc'[q] \in {"options", "swap"}
  <2>1. OverrideIsKnown(q) /\ CourseOf(q) = target[q][1]
    BY <1>2 DEF LoadInv, HorseInv, Ready, CourseOf
  <2>2. PICK c \in Lessons, r \in Riders : target[q] = <<c, r>>
    BY <2>1 DEF OverrideIsKnown, H!Rides
  <2>3. horsePc[q] \in {"options", "swap"} /\ target'[q] = target[q]
    BY <1>2
  <2>4. span[q] = hours[target[q][1]] /\ before[q] = mount[target[q]]
    BY <2>3 DEF LoadInv, ReadInv
  <2>5. mount'[target[q]] = mount[target[q]]
    BY <1>2, <2>1, <2>2
  <2>6. span'[q] = hours'[target'[q][1]] /\ before'[q] = mount'[target'[q]]
    BY <1>2, <2>3, <2>4, <2>5
  <2> QED BY <1>2, <2>6 DEF ReadInv
<1>3. CASE horsePc'[q] \notin {"apply", "options", "swap"}
  BY <1>3 DEF ReadInv
<1> QED BY <1>1, <1>2, <1>3

\* A step of q that writes nothing, after which what q has read is so.
LEMMA ReaderStep ==
    ASSUME LoadInv, HorseInv', NEW q \in Requests, ReadInv(q)',
           mount' = mount, load' = load, hours' = hours, retimed' = retimed,
           horseStatus' = horseStatus,
           \A o \in Requests \ {q} :
               /\ horsePc'[o] = horsePc[o] /\ target'[o] = target[o] /\ plan'[o] = plan[o]
               /\ span'[o] = span[o] /\ before'[o] = before[o]
    PROVE  LoadInv'
<1>1. ASSUME NEW o \in Requests, o # q
      PROVE  ReadInv(o)'
  BY <1>1, ReadStays
<1>2. \A o \in Requests : ReadInv(o)'
  BY <1>1
<1> QED BY <1>2, LoadsStay

\* The last step of q, which writes the mounts of its course alone.
LEMMA WriterStep ==
    ASSUME LoadInv, HorseInv', NEW q \in Requests, H!Finish(q), horsePc[q] # "idle",
           hours' = hours, retimed' = retimed,
           \A x \in H!Rides : x[1] # CourseOf(q) => mount'[x] = mount[x],
           \A h \in Horses \ retimed : horseStatus'[h] # "gone" =>
               load'[h] = HoursOf(hours', H!RiddenBy(h)')
    PROVE  LoadInv'
<1>0. H!TypeOK /\ HorsesApart
  BY DEF LoadInv, HorseInv
<1>1. /\ horsePc'[q] = "idle"
      /\ \A o \in Requests \ {q} :
            /\ horsePc'[o] = horsePc[o] /\ target'[o] = target[o] /\ plan'[o] = plan[o]
            /\ span'[o] = span[o] /\ before'[o] = before[o]
  BY <1>0 DEF H!Finish, H!Goto, H!TypeOK
<1>2. ASSUME NEW o \in Requests
      PROVE  ReadInv(o)'
  <2>1. CASE o = q \/ horsePc[o] = "idle"
    BY <1>1, <2>1 DEF ReadInv
  <2>2. CASE o # q /\ horsePc[o] # "idle"
    <3>1. CourseOf(o) # CourseOf(q)
      BY <1>0, <2>2, AloneInCourse
    <3>2. horsePc[o] \in {"apply", "options", "swap"} => CourseOf(o) \in Lessons
      BY DEF LoadInv, HorseInv, Ready, PlanIsSound, OverrideIsKnown, CourseOf, H!Rides
    <3>3. horsePc[o] \in {"apply", "options", "swap"} =>
             \A r \in Riders : mount'[<<CourseOf(o), r>>] = mount[<<CourseOf(o), r>>]
      BY <3>1, <3>2 DEF H!Rides
    <3> QED BY <1>1, <2>2, <3>3, ReadStays
  <2> QED BY <2>1, <2>2
<1>3. LoadsMatch'
  BY DEF LoadsMatch
<1> QED BY <1>2, <1>3 DEF LoadInv

\* The three ways in and the check of an override read the mounts as they are.
LEMMA ReadingKeepsLoadInv ==
    ASSUME LoadInv, HorseInv', NEW q \in Requests,
           \/ \E c \in Lessons : H!ReadAndPlan(q, c)
           \/ \E x \in H!Rides, h \in Horses : H!ReadForOverride(q, x, h)
           \/ \E h \in Horses : H!CountForDeletion(q, h)
           \/ H!CheckOptions(q)
    PROVE  LoadInv'
<1>0. H!TypeOK
  BY DEF LoadInv, HorseInv
<1> DEFINE OthersStay ==
        \A o \in Requests \ {q} :
            /\ horsePc'[o] = horsePc[o] /\ target'[o] = target[o] /\ plan'[o] = plan[o]
            /\ span'[o] = span[o] /\ before'[o] = before[o]
<1>1. ASSUME NEW c \in Lessons, H!ReadAndPlan(q, c)
      PROVE  LoadInv'
  <2>1. PICK p \in H!Plans(c) : plan' = [plan EXCEPT ![q] = p]
    BY <1>1 DEF H!ReadAndPlan
  <2>2. \A r \in DOMAIN p : mount[<<c, r>>] = NoHorse
    <3>1. PICK X \in SUBSET {r \in H!InCourse(c) : mount[<<c, r>>] = NoHorse} :
             p \in [X -> H!Eligible \ H!Taken(c)]
      BY DEF H!Plans
    <3> QED BY <3>1
  <2>3. /\ horsePc'[q] = "apply" /\ target'[q] = c /\ plan'[q] = p /\ span'[q] = hours[c]
        /\ UNCHANGED <<mount, load, hours, retimed, horseStatus>>
    BY <1>0, <1>1, <2>1 DEF H!ReadAndPlan, H!Goto, H!calendar, H!TypeOK
  <2>4. OthersStay
    BY <1>0, <1>1, <2>1 DEF H!ReadAndPlan, H!Goto, H!TypeOK
  <2>5. ReadInv(q)'
    BY <2>2, <2>3 DEF ReadInv
  <2> QED BY <2>3, <2>4, <2>5, ReaderStep
<1>2. ASSUME NEW x \in H!Rides, NEW h \in Horses, H!ReadForOverride(q, x, h)
      PROVE  LoadInv'
  <2>1. /\ horsePc'[q] = "options" /\ target'[q] = x
        /\ before'[q] = mount[x] /\ span'[q] = hours[x[1]]
        /\ UNCHANGED <<mount, load, hours, retimed, horseStatus>>
    BY <1>0, <1>2 DEF H!ReadForOverride, H!Goto, H!calendar, H!TypeOK
  <2>2. OthersStay
    BY <1>0, <1>2 DEF H!ReadForOverride, H!Goto, H!TypeOK
  <2>3. ReadInv(q)'
    BY <2>1 DEF ReadInv
  <2> QED BY <2>1, <2>2, <2>3, ReaderStep
<1>3. ASSUME NEW h \in Horses, H!CountForDeletion(q, h)
      PROVE  LoadInv'
  <2>1. /\ horsePc'[q] = "delete"
        /\ UNCHANGED <<mount, load, hours, retimed, horseStatus>>
    BY <1>0, <1>3 DEF H!CountForDeletion, H!Goto, H!calendar, H!TypeOK
  <2>2. OthersStay
    BY <1>0, <1>3 DEF H!CountForDeletion, H!Goto, H!TypeOK
  <2>3. ReadInv(q)'
    BY <2>1 DEF ReadInv
  <2> QED BY <2>1, <2>2, <2>3, ReaderStep
<1>4. ASSUME H!CheckOptions(q)
      PROVE  LoadInv'
  <2>1. horsePc[q] = "options" /\ UNCHANGED <<mount, load, hours, retimed, horseStatus>>
    BY <1>4 DEF H!CheckOptions, H!calendar
  <2>2. CASE H!Finish(q)
    <3>1. horsePc'[q] = "idle" /\ OthersStay
      BY <1>0, <2>2 DEF H!Finish, H!Goto, H!TypeOK
    <3>2. ReadInv(q)'
      BY <3>1 DEF ReadInv
    <3> QED BY <2>1, <3>1, <3>2, ReaderStep
  <2>3. CASE H!Goto(q, "swap") /\ UNCHANGED H!locals
    <3>1. horsePc'[q] = "swap" /\ OthersStay
      BY <1>0, <2>3 DEF H!Goto, H!locals, H!TypeOK
    <3>2. ReadInv(q)'
      BY <2>1, <2>3, <3>1, ReadStays DEF H!locals
    <3> QED BY <2>1, <3>1, <3>2, ReaderStep
  <2> QED BY <1>4, <2>2, <2>3 DEF H!CheckOptions
<1> QED BY <1>1, <1>2, <1>3, <1>4

\* The plan: every horse it gives goes to one rider, for the hours of the course.
LEMMA ApplyCounts ==
    ASSUME LoadInv, HorseInv', NEW q \in Requests, H!ApplyPlan(q)
    PROVE  LoadInv'
<1> DEFINE c == target[q]
           p == plan[q]
           given == {p[r] : r \in DOMAIN p}
<1>1. /\ horsePc[q] = "apply" /\ H!Finish(q)
      /\ UNCHANGED <<hours, retimed, horseStatus>>
  BY DEF H!ApplyPlan, H!calendar
<1>2. CourseOf(q) = c
  BY <1>1 DEF CourseOf
<1>3. /\ c \in Lessons /\ span[q] = hours[c]
      /\ \A r \in DOMAIN p : r \in Riders /\ p[r] \in Horses /\ mount[<<c, r>>] = NoHorse
      /\ \A r, o \in DOMAIN p : p[o] = p[r] => o = r
  BY <1>1 DEF LoadInv, ReadInv, HorseInv, Ready, PlanIsSound
<1>4. CASE UNCHANGED <<mount, load>>
  <2>1. \A h \in Horses \ retimed : horseStatus'[h] # "gone" =>
            load'[h] = HoursOf(hours', H!RiddenBy(h)')
    BY <1>1, <1>4, Zenon DEF LoadInv, LoadsMatch, H!RiddenBy, H!Rides
  <2> QED BY <1>1, <1>4, <2>1, WriterStep
<1>5. CASE /\ mount' = [x \in H!Rides |-> IF x[1] = c /\ x[2] \in DOMAIN p
                                          THEN p[x[2]] ELSE mount[x]]
           /\ load' = [h \in Horses |-> load[h] + IF h \in given THEN span[q] ELSE 0]
  <2> HIDE DEF c, p
  <2>1. ASSUME NEW d \in Lessons, NEW r \in Riders
        PROVE  mount'[<<d, r>>] = IF d = c /\ r \in DOMAIN p THEN p[r] ELSE mount[<<d, r>>]
    BY <1>5 DEF H!Rides
  <2>2. ASSUME NEW h \in Horses \ retimed, horseStatus'[h] # "gone"
        PROVE  load'[h] = HoursOf(hours', H!RiddenBy(h)')
    <3>0. h # NoHorse /\ horseStatus[h] # "gone" /\ load[h] \in Int
      BY <1>1, <2>2, CalendarAssumption DEF H!HorseAssumption, LoadInv, HorseInv, H!TypeOK
    <3>1. CASE \E r \in DOMAIN p : p[r] = h
      <4>1. PICK r \in DOMAIN p : p[r] = h
        BY <3>1
      <4> DEFINE x == <<c, r>>
      <4>2. x \in H!Rides /\ x[1] = c /\ mount[x] # h
        BY <1>3, <3>0 DEF H!Rides
      <4>3. H!RiddenBy(h)' = H!RiddenBy(h) \cup {x}
        <5>1. ASSUME NEW d \in Lessons, NEW o \in Riders
              PROVE  mount'[<<d, o>>] = h <=> mount[<<d, o>>] = h \/ (d = c /\ o = r)
          BY <1>3, <2>1, <3>0, <4>1
        <5>2. H!RiddenBy(h)' \subseteq H!RiddenBy(h) \cup {x}
          BY <5>1 DEF H!RiddenBy, H!Rides
        <5>3. H!RiddenBy(h) \cup {x} \subseteq H!RiddenBy(h)'
          BY <1>3, <5>1 DEF H!RiddenBy, H!Rides
        <5> QED BY <5>2, <5>3
      <4>4. HoursOf(hours, H!RiddenBy(h) \cup {x}) = load[h] + hours[c]
        <5> HIDE DEF x
        <5> QED BY <3>0, <4>2, RideAdded
      <4>5. load'[h] = load[h] + hours[c]
        BY <1>3, <1>5, <3>1
      <4> QED BY <1>1, <4>3, <4>4, <4>5, Zenon
    <3>2. CASE ~ \E r \in DOMAIN p : p[r] = h
      <4>1. ASSUME NEW y \in H!Rides
            PROVE  mount'[y] = h <=> mount[y] = h
        BY <1>3, <2>1, <3>0, <3>2 DEF H!Rides
      <4>2. H!RiddenBy(h)' = H!RiddenBy(h)
        BY <4>1 DEF H!RiddenBy, H!Rides
      <4>3. load'[h] = load[h]
        BY <1>5, <3>0, <3>2
      <4>4. load[h] = HoursOf(hours, H!RiddenBy(h))
        BY <3>0 DEF LoadInv, LoadsMatch
      <4> QED BY <1>1, <4>2, <4>3, <4>4, Zenon
    <3> QED BY <3>1, <3>2
  <2>3. \A x \in H!Rides : x[1] # CourseOf(q) => mount'[x] = mount[x]
    BY <1>2, <1>5
  <2> QED BY <1>1, <2>2, <2>3, WriterStep
<1> QED BY <1>4, <1>5 DEF H!ApplyPlan

\* The override: the hours go from the horse that was read to the one that is wanted.
LEMMA SwapCounts ==
    ASSUME LoadInv, HorseInv', NEW q \in Requests, H!Swap(q)
    PROVE  LoadInv'
<1> DEFINE x == target[q]
           moved == IF before[q] = wanted[q] THEN 0 ELSE span[q]
<1>1. /\ horsePc[q] = "swap" /\ H!Finish(q)
      /\ UNCHANGED <<hours, retimed, horseStatus>>
  BY DEF H!Swap, H!calendar
<1>2. CourseOf(q) = x[1] /\ x \in H!Rides
  BY <1>1 DEF CourseOf, LoadInv, HorseInv, Ready, OverrideIsKnown
<1>3. span[q] = hours[x[1]] /\ before[q] = mount[x]
  BY <1>1 DEF LoadInv, ReadInv
<1>4. mount \in [H!Rides -> Horses \cup {NoHorse}] /\ hours[x[1]] \in Int
  BY <1>2, HoursAreNumbers DEF LoadInv, HorseInv, H!TypeOK, H!Rides
<1>5. CASE UNCHANGED <<mount, load>>
  <2>1. \A h \in Horses \ retimed : horseStatus'[h] # "gone" =>
            load'[h] = HoursOf(hours', H!RiddenBy(h)')
    BY <1>1, <1>5, Zenon DEF LoadInv, LoadsMatch, H!RiddenBy, H!Rides
  <2> QED BY <1>1, <1>5, <2>1, WriterStep
<1>6. CASE /\ mount' = [mount EXCEPT ![x] = wanted[q]]
           /\ load' = [h \in Horses |-> load[h] + (IF h = wanted[q] THEN moved ELSE 0)
                                                - (IF h = before[q] THEN moved ELSE 0)]
  <2> HIDE DEF x
  <2>1. ASSUME NEW h \in Horses \ retimed, horseStatus'[h] # "gone"
        PROVE  load'[h] = HoursOf(hours', H!RiddenBy(h)')
    <3>0. h # NoHorse /\ horseStatus[h] # "gone" /\ load[h] \in Int
      BY <1>1, <2>1, CalendarAssumption DEF H!HorseAssumption, LoadInv, HorseInv, H!TypeOK
    <3>1. CASE mount[x] = h /\ wanted[q] # h
      <4>1. H!RiddenBy(h)' = H!RiddenBy(h) \ {x}
        BY <1>2, <1>4, <1>6, <3>1 DEF H!RiddenBy, H!Rides
      <4>2. HoursOf(hours, H!RiddenBy(h) \ {x}) = load[h] - hours[x[1]]
        BY <1>2, <3>0, <3>1, RideRemoved
      <4>3. load'[h] = load[h] - hours[x[1]]
        BY <1>3, <1>4, <1>6, <3>0, <3>1
      <4> QED BY <1>1, <4>1, <4>2, <4>3, Zenon
    <3>2. CASE mount[x] # h /\ wanted[q] = h
      <4>1. H!RiddenBy(h)' = H!RiddenBy(h) \cup {x}
        BY <1>2, <1>4, <1>6, <3>2 DEF H!RiddenBy, H!Rides
      <4>2. HoursOf(hours, H!RiddenBy(h) \cup {x}) = load[h] + hours[x[1]]
        BY <1>2, <3>0, <3>2, RideAdded
      <4>3. load'[h] = load[h] + hours[x[1]]
        BY <1>3, <1>4, <1>6, <3>0, <3>2
      <4> QED BY <1>1, <4>1, <4>2, <4>3, Zenon
    <3>3. CASE mount[x] = h <=> wanted[q] = h
      <4>1. H!RiddenBy(h)' = H!RiddenBy(h)
        BY <1>2, <1>4, <1>6, <3>3 DEF H!RiddenBy, H!Rides
      <4>2. load'[h] = load[h]
        BY <1>3, <1>4, <1>6, <3>0, <3>3
      <4>3. load[h] = HoursOf(hours, H!RiddenBy(h))
        BY <3>0 DEF LoadInv, LoadsMatch
      <4> QED BY <1>1, <4>1, <4>2, <4>3, Zenon
    <3> QED BY <3>1, <3>2, <3>3
  <2>2. \A y \in H!Rides : y[1] # CourseOf(q) => mount'[y] = mount[y]
    BY <1>2, <1>4, <1>6
  <2> QED BY <1>1, <2>1, <2>2, WriterStep
<1> QED BY <1>5, <1>6 DEF H!Swap

\* The deletion: nobody rides the horse that goes.
LEMMA DeletionCounts ==
    ASSUME LoadInv, HorseInv', NEW q \in Requests, H!DeleteHorse(q)
    PROVE  LoadInv'
<1>1. /\ horsePc[q] = "delete" /\ H!Finish(q) /\ UNCHANGED <<hours, retimed, load>>
      /\ horseStatus' = [horseStatus EXCEPT ![wanted[q]] = "gone"]
  BY DEF H!DeleteHorse, H!calendar
<1>2. mount' = mount
  <2>1. \A x \in H!Rides : mount[x] # wanted[q]
    BY <1>1 DEF LoadInv, HorseInv, Ready, DeletedIsFree
  <2>2. mount' = [x \in H!Rides |-> mount[x]]
    BY <2>1 DEF H!DeleteHorse
  <2> QED BY <2>2 DEF LoadInv, HorseInv, H!TypeOK
<1>3. \A h \in Horses : horseStatus'[h] # "gone" => horseStatus[h] # "gone"
  BY <1>1 DEF LoadInv, HorseInv, H!TypeOK
<1>4. \A h \in Horses \ retimed : horseStatus'[h] # "gone" =>
          load'[h] = HoursOf(hours', H!RiddenBy(h)')
  BY <1>1, <1>2, <1>3, Zenon DEF LoadInv, LoadsMatch, H!RiddenBy, H!Rides
<1> QED BY <1>1, <1>2, <1>4, WriterStep

\* The horses and the courses: no request steps, and edited times are remembered.
LEMMA CalendarKeepsLoadInv ==
    ASSUME LoadInv, HorseInv', TimesKept,
           \/ \E h \in Horses : H!SetStatus(h)
           \/ \E x \in H!Rides : H!Enroll(x)
           \/ \E c \in Lessons : H!CancelCourse(c) \/ H!UpdateCourse(c)
    PROVE  LoadInv'
<1>0. H!TypeOK /\ MountedAreEnrolled
  BY DEF LoadInv, HorseInv
<1>1. /\ UNCHANGED <<mount, load, horsePc, target, plan, span, before>>
      /\ retimed \subseteq retimed'
  BY DEF H!SetStatus, H!Enroll, H!CancelCourse, H!UpdateCourse, H!calendar, H!locals
<1>2. \A h \in Horses : horseStatus'[h] # "gone" => horseStatus[h] # "gone"
  BY <1>0 DEF H!SetStatus, H!Enroll, H!CancelCourse, H!UpdateCourse, H!calendar, H!TypeOK
<1>3. ASSUME NEW x \in H!Rides, mount[x] \notin retimed' \cup {NoHorse}
      PROVE  hours'[x[1]] = hours[x[1]]
  <2>1. CASE hours' = hours
    BY <2>1
  <2>2. CASE \E c \in Lessons : H!UpdateCourse(c)
    <3>1. PICK c \in Lessons : H!UpdateCourse(c)
      BY <2>2
    <3>2. PICK d \in Lessons, r \in Riders : x = <<d, r>>
      BY DEF H!Rides
    <3>3. d # c
      <4>1. <<d, r>> \in horseEnrolled
        BY <1>0, <1>3, <3>2 DEF MountedAreEnrolled
      <4> QED BY <1>3, <3>1, <3>2, <4>1 DEF H!UpdateCourse, H!Mounts, H!InCourse
    <3> QED BY <1>0, <3>1, <3>2, <3>3 DEF H!UpdateCourse, H!TypeOK
  <2> QED BY <2>1, <2>2 DEF H!SetStatus, H!Enroll, H!CancelCourse, H!calendar
<1>4. ASSUME NEW q \in Requests
      PROVE  ReadInv(q)'
  <2>1. CASE horsePc[q] = "idle"
    BY <1>1, <2>1 DEF ReadInv
  <2>2. CASE horsePc[q] # "idle"
    <3>1. hours' = hours
      BY <1>1, <2>2 DEF TimesKept
    <3> QED BY <1>1, <3>1, ReadStays
  <2> QED BY <2>1, <2>2
<1> QED BY <1>1, <1>2, <1>3, <1>4, LoadsStay

\* Every step that overlaps nothing it may not keeps the hours.
LEMMA LoadStep ==
    ASSUME LoadInv, [H!Next]_hvars, HorsesApart', [TimesKept]_hvars
    PROVE  LoadInv'
<1>1. HorseInv'
  BY HorseStep DEF LoadInv
<1>2. TimesKept
  BY DEF TimesKept, hvars
<1>3. CASE UNCHANGED hvars
  <2>1. /\ UNCHANGED <<mount, load, hours, retimed, horseStatus>>
        /\ UNCHANGED <<horsePc, target, plan, span, before>>
    BY <1>3 DEF hvars
  <2>2. \A q \in Requests : ReadInv(q)'
    BY <2>1, ReadStays
  <2> QED BY <1>1, <2>1, <2>2, LoadsStay
<1>4. CASE H!Next
  BY <1>1, <1>2, <1>4, ReadingKeepsLoadInv, ApplyCounts, SwapCounts, DeletionCounts,
     CalendarKeepsLoadInv DEF H!Next
<1> QED BY <1>3, <1>4

-----------------------------------------------------------------------------
(* The types of the cached planning. *)

LEMMA PlanningsAreEvents ==
    ASSUME TypeOK, NEW u, NEW scope
    PROVE  Planning(u, scope) \in Events
BY DEF Planning, Events, TypeOK

LEMMA NextKeepsCacheTypes ==
    ASSUME TypeOK, ReadersKnown, Next
    PROVE  TypeOK'
<1>1. ASSUME NEW q \in Requests, NEW u \in Users, NEW scope \in {"all", "mine"},
             LookUp(q, u, scope)
      PROVE  TypeOK'
  BY <1>1 DEF LookUp, Goto, database, TypeOK
<1>2. ASSUME NEW q \in Requests, NEW c \in Courses, WriteCourse(q, c)
      PROVE  TypeOK'
  BY <1>2 DEF WriteCourse, Overtake, Goto, locals, TypeOK
<1>3. ASSUME NEW q \in Requests, NEW c \in Courses, NEW u \in Clients, Enroll(q, c, u)
      PROVE  TypeOK'
  BY <1>3 DEF Enroll, Overtake, Goto, locals, TypeOK
<1>4. ASSUME NEW q \in Requests, Load(q)
      PROVE  TypeOK'
  BY <1>4, PlanningsAreEvents DEF Load, Goto, database, TypeOK
<1>5. ASSUME NEW q \in Requests, Fill(q)
      PROVE  TypeOK'
  <2>1. asker[q] \in Users \X {"all", "mine"}
    BY <1>5 DEF Fill, ReadersKnown
  <2>2. Key(asker[q][1], asker[q][2]) \in Keys
    BY <2>1, KeyViewsPlanning, CalendarAssumption
  <2> QED BY <1>5, <2>2 DEF Fill, Forget, Goto, database, TypeOK, Events
<1>6. ASSUME NEW q \in Requests, Notify(q)
      PROVE  TypeOK'
  BY <1>6 DEF Notify, Goto, database, locals, TypeOK
<1>7. ASSUME NEW q \in Requests, Fail(q)
      PROVE  TypeOK'
  BY <1>7 DEF Fail, Forget, Goto, Cached, database, TypeOK, Events
<1>8. ASSUME NEW q \in Requests, ListKeys(q)
      PROVE  TypeOK'
  BY <1>8 DEF ListKeys, Goto, Cached, database, TypeOK
<1>9. ASSUME NEW q \in Requests, DeleteKeys(q)
      PROVE  TypeOK'
  BY <1>9 DEF DeleteKeys, Forget, Goto, database, TypeOK, Events
<1>10. ASSUME NEW k \in Keys, Expire(k)
       PROVE  TypeOK'
  BY <1>10 DEF Expire, database, locals, TypeOK
<1>11. ASSUME NEW c \in Courses, Rename(c)
       PROVE  TypeOK'
  BY <1>11 DEF Rename, Overtake, Cached, locals, TypeOK
<1> QED BY <1>1, <1>2, <1>3, <1>4, <1>5, <1>6, <1>7, <1>8, <1>9, <1>10, <1>11 DEF Next

-----------------------------------------------------------------------------
(* The calendar as a whole *)

\* A step of the calendar is a step of each part, or leaves it as it is.
LEMMA StepsOfTheParts ==
    ASSUME [WeekNext]_weekVars
    PROVE  /\ [Next]_vars /\ [S!Next]_svars /\ [H!Next]_hvars /\ [T!Next]_tvars
BY DEF WeekNext, weekVars

\* planningCache.js:4: an entry that differs from the database is about to be deleted, or its
\* staleness has one of the known causes, however readers, writers and failures overlap.
THEOREM StalenessIsExplained == WeekSpec => []StaleHasCause
<1>1. WeekInit => CacheInv
  BY InitCacheInv DEF WeekInit
<1>2. CacheInv /\ [WeekNext]_weekVars => CacheInv'
  BY NextKeepsCacheInv, StepsOfTheParts, CalendarAssumption
<1>3. CacheInv => StaleHasCause
  BY DEF CacheInv
<1> QED BY <1>1, <1>2, <1>3, PTL DEF WeekSpec

\* planningCache.js:6-7: a client who asks for the family's planning is answered with courses
\* the family is enrolled in, whoever filled the cache.
THEOREM OwnPlanningStaysOwn == WeekSpec => []MineStaysMine
<1>1. WeekInit => OwnInv
  BY DEF WeekInit, Init, OwnInv, CacheDomains, ReadersKnown, OwnLoaded, MineStaysMine, Cached
<1>2. OwnInv /\ [WeekNext]_weekVars => OwnInv'
  BY NextKeepsOwn, StepsOfTheParts, CalendarAssumption
<1>3. OwnInv => MineStaysMine
  BY DEF OwnInv
<1> QED BY <1>1, <1>2, <1>3, PTL DEF WeekSpec

\* The announcements are kept, whichever part of the calendar runs.
LEMMA ToldInvHolds == WeekSpec => []ToldInv
<1>1. WeekInit => ToldInv
  <2> SUFFICES ASSUME WeekInit
               PROVE  ToldInv
    OBVIOUS
  <2>1. (CHOOSE x \in Enrollments : TRUE) \in Enrollments
    BY CalendarAssumption
  <2>2. [by |-> "family", value |-> "excused"] \in T!Asked
    BY DEF T!Asked
  <2>3. T!TypeOK
    BY <2>1, <2>2 DEF WeekInit, T!Init, T!TypeOK, T!Values
  <2> QED BY <2>3 DEF WeekInit, T!Init, ToldInv, T!AbsenceTold, T!ReadAbsenceTold
<1>2. ToldInv /\ [WeekNext]_weekVars => ToldInv'
  <2> SUFFICES ASSUME ToldInv, [T!Next]_tvars
               PROVE  ToldInv'
    BY StepsOfTheParts
  <2>1. CASE UNCHANGED tvars
    BY <2>1 DEF tvars, ToldInv, T!TypeOK, T!AbsenceTold, T!ReadAbsenceTold, T!News
  <2>2. ASSUME NEW x \in Enrollments, T!StartCourse(x)
        PROVE  ToldInv'
    BY <2>2 DEF T!StartCourse, ToldInv, T!TypeOK, T!AbsenceTold, T!ReadAbsenceTold, T!News
  <2> QED BY <2>1, <2>2, ReadKeepsToldInv, WriteKeepsToldInv, TellKeepsToldInv DEF T!Next
<1> QED BY <1>1, <1>2, PTL DEF WeekSpec

\* courseService.js:521: a family whose rider is absent is told, however the pointers of the
\* staff and the excuses of the family overlap.
THEOREM AbsencesAreTold == WeekSpec => []AbsenceTold
<1>1. ToldInv => AbsenceTold
  BY DEF ToldInv, AbsenceTold
<1> QED BY <1>1, ToldInvHolds, PTL

\* The changes of the calendar keep SpaceInv, however they overlap.
LEMMA SpaceInvHolds == WeekSpec => []SpaceInv
<1>1. WeekInit => SpaceInv
  BY InitSpaceInv DEF WeekInit
<1>2. SpaceInv /\ [WeekNext]_weekVars => SpaceInv'
  BY NextKeepsSpaceInv
<1> QED BY <1>1, <1>2, PTL DEF WeekSpec

\* spaceService.js:80, backlog.md:137: no place is given twice at a time, whatever series, edits,
\* cancellations and deletions of spaces overlap, except to courses of which one missed the other
\* when it was written (or that come in one series of courses longer than a week); and no course
\* is left without its place.
THEOREM PlacesAreGivenOnce == WeekSpec => []CalendarIsSound
<1>1. SpaceInv => CalendarIsSound
  BY DEF SpaceInv
<1> QED BY <1>1, SpaceInvHolds, PTL

\* spaceService.js:42, backlog.md:146: a course comes into a riding space, or one that changed
\* its type since the request looked, and a series is stored whole, one course a week up to its
\* last day.
THEOREM SeriesComeWhole == WeekSpec => CoursesComeWhole
<1>1. SpaceInv /\ [WeekNext]_weekVars =>
        [\A q \in Changes, c \in S!CourseIds :
           spacePc[q] = "store" /\ spacePc'[q] = "done" /\ place'[c] # place[c] =>
             kind[place'[c]] = "riding" \/ place'[c] \in retyped[q]]_(S!vars)
  BY PlacesAreForRiding, StepsOfTheParts DEF svars, S!vars
<1>2. SpaceInv /\ [WeekNext]_weekVars =>
        [\A q \in Changes :
           LET new == {c \in S!CourseIds : ~S!Stored(c) /\ place'[c] # NoSpace} IN
           spacePc[q] = "store" /\ spacePc'[q] = "done" /\ new # {} =>
             \A t \in ask[q].from..ask[q].until :
                 (t - ask[q].from) % Week = 0 => \E c \in new : from'[c] = t]_(S!vars)
  <2> SUFFICES ASSUME SpaceInv, S!Next, NEW q \in Changes,
                      spacePc[q] = "store", spacePc'[q] = "done",
                      NEW d \in S!CourseIds, ~S!Stored(d), place'[d] # NoSpace,
                      NEW t \in ask[q].from..ask[q].until, (t - ask[q].from) % Week = 0
               PROVE  \E c \in S!CourseIds : ~S!Stored(c) /\ place'[c] # NoSpace /\ from'[c] = t
    BY StepsOfTheParts DEF svars, S!vars
  <2> QED BY SeriesComesWhole
<1> QED BY <1>1, <1>2, SpaceInvHolds, PTL
        DEF WeekSpec, CoursesComeWhole, S!CoursesComeWhole, S!ComesIntoRidingSpace, S!SeriesIsWhole

\* What requests hold has its type, in every part of the calendar.
THEOREM CalendarTypesAreKept == WeekSpec => []TypesOK
<1> DEFINE Types == TypeOK /\ OwnInv /\ H!TypeOK
<1>1. WeekInit => Types
  <2> SUFFICES ASSUME WeekInit
               PROVE  Types
    OBVIOUS
  <2>1. TypeOK
    BY DEF WeekInit, Init, TypeOK, Events
  <2>2. OwnInv
    BY DEF WeekInit, Init, OwnInv, CacheDomains, ReadersKnown, OwnLoaded, MineStaysMine, Cached
  <2> QED BY <2>1, <2>2, InitHorseTypes DEF WeekInit
<1>2. Types /\ [WeekNext]_weekVars => Types'
  <2> SUFFICES ASSUME Types, [WeekNext]_weekVars
               PROVE  Types'
    OBVIOUS
  <2>1. TypeOK'
    <3>1. CASE UNCHANGED vars
      BY <3>1 DEF TypeOK, vars
    <3> QED BY <3>1, NextKeepsCacheTypes, StepsOfTheParts DEF OwnInv
  <2>2. OwnInv'
    BY NextKeepsOwn, StepsOfTheParts, CalendarAssumption
  <2>3. H!TypeOK'
    <3>1. CASE UNCHANGED hvars
      BY <3>1 DEF H!TypeOK, hvars
    <3> QED BY <3>1, NextKeepsHorseTypes, StepsOfTheParts
  <2> QED BY <2>1, <2>2, <2>3
<1>3. WeekSpec => []Types
  BY <1>1, <1>2, PTL DEF WeekSpec
<1>4. Types /\ ToldInv /\ SpaceInv => TypesOK
  BY DEF TypesOK, ToldInv, SpaceInv
<1> QED BY <1>3, <1>4, ToldInvHolds, SpaceInvHolds, PTL

\* backlog.md:197, horseService.js:61: in a course a horse has one rider, and a rider keeps a
\* horse until there is another, deletions of horses included: where assignments and overrides
\* of one course, or a deletion and an assignment, do not overlap.
THEOREM HorsesStayWithOneRider ==
    WeekSpec /\ [][AssignmentsAlone]_weekVars => []H!HorseOncePerSession /\ H!MountIsKept
<1>1. WeekInit => HorseInv
  <2> SUFFICES ASSUME WeekInit
               PROVE  HorseInv
    OBVIOUS
  <2>1. H!Init
    BY DEF WeekInit
  <2> QED BY <2>1, InitHorseTypes
          DEF H!Init, H!Rides, HorseInv, HorsesApart, MountedAreEnrolled, H!HorseOncePerSession,
              Ready
<1>2. HorseInv /\ [WeekNext]_weekVars /\ [AssignmentsAlone]_weekVars => HorsesApart'
  <2> SUFFICES ASSUME HorseInv, [WeekNext]_weekVars, [AssignmentsAlone]_weekVars
               PROVE  HorsesApart'
    OBVIOUS
  <2>1. CASE UNCHANGED hvars
    BY <2>1 DEF hvars, HorseInv, HorsesApart, Meet, CourseOf
  <2>2. CASE WeekNext /\ focus = "horses" /\ AssignmentsAlone
    BY <2>2 DEF AssignmentsAlone, HorsesApart
  <2> QED BY <2>1, <2>2 DEF WeekNext, weekVars
<1>3. HorseInv /\ [WeekNext]_weekVars /\ [AssignmentsAlone]_weekVars =>
        HorseInv' /\ [\A x \in H!Rides : mount[x] # NoHorse => mount'[x] # NoHorse]_(H!vars)
  BY <1>2, HorseStep, StepsOfTheParts DEF hvars, H!vars
<1>4. HorseInv => H!HorseOncePerSession
  BY DEF HorseInv
<1> QED BY <1>1, <1>3, <1>4, PTL DEF WeekSpec, H!MountIsKept

\* backlog.md:197, 198, 208: moreover the weekly hours of a horse are those of the courses it
\* is given in, after whatever plans, overrides, enrollments and deletions, where the times of
\* its courses were not edited afterwards: the three promises of the horses together.
THEOREM MountsStaySound ==
    WeekSpec /\ [][AssignmentsAlone]_weekVars => MountsAreSound
<1>1. WeekInit => LoadInv
  <2> SUFFICES ASSUME WeekInit
               PROVE  LoadInv
    OBVIOUS
  <2>1. H!Init
    BY DEF WeekInit
  <2>2. HorseInv
    BY <2>1, InitHorseTypes
       DEF H!Init, H!Rides, HorseInv, HorsesApart, MountedAreEnrolled, H!HorseOncePerSession,
           Ready
  <2>3. \A h \in Horses : H!RiddenBy(h) = {} /\ load[h] = 0
    BY <2>1, CalendarAssumption DEF H!HorseAssumption, H!Init, H!RiddenBy
  <2>4. LoadsMatch
    BY <2>3, HoursOfNone DEF LoadsMatch
  <2>5. \A q \in Requests : ReadInv(q)
    BY <2>1 DEF H!Init, ReadInv
  <2> QED BY <2>2, <2>4, <2>5 DEF LoadInv
<1>2. LoadInv /\ [WeekNext]_weekVars /\ [AssignmentsAlone]_weekVars => LoadInv'
  <2> SUFFICES ASSUME LoadInv, [WeekNext]_weekVars, [AssignmentsAlone]_weekVars
               PROVE  LoadInv'
    OBVIOUS
  <2>1. HorsesApart' /\ [TimesKept]_hvars
    <3>1. CASE UNCHANGED hvars
      BY <3>1 DEF hvars, LoadInv, HorseInv, HorsesApart, Meet, CourseOf
    <3>2. CASE WeekNext /\ focus = "horses" /\ AssignmentsAlone
      BY <3>2 DEF AssignmentsAlone, HorsesApart, TimesKept
    <3> QED BY <3>1, <3>2 DEF WeekNext, weekVars
  <2>2. [H!Next]_hvars
    BY StepsOfTheParts
  <2> QED BY <2>1, <2>2, LoadStep
<1>3. LoadInv => H!LoadIsAssigned
  BY LoadsMatchIsAssigned DEF LoadInv
<1>4. WeekSpec /\ [][AssignmentsAlone]_weekVars => []H!LoadIsAssigned
  BY <1>1, <1>2, <1>3, PTL DEF WeekSpec
<1> QED BY <1>4, HorsesStayWithOneRider, PTL DEF MountsAreSound, H!MountsAreSound
=============================================================================
