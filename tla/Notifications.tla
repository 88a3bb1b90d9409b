--------------------------- MODULE Notifications ---------------------------
(***************************************************************************)
(* Notifications and the preferences of their receiver                     *)
(* (services/notificationService.js).  The preferences of a user are       *)
(* created with their default values the first time they are needed, one   *)
(* row per type of notification, and again when a new version of the       *)
(* application adds a type.  The erasure of the account                    *)
(* (anonymizeAccount, services/authService.js) deletes preferences and     *)
(* notifications.  Abstracted: e-mail, which has a flag of its own in the  *)
(* same row, and the text of a notification.                               *)
(***************************************************************************)
EXTENDS Integers, FiniteSets

CONSTANTS Users, Types,
          Notes,     \* bound: the notifications that can be stored
          Requests

NotificationAssumption == IsFiniteSet(Notes) /\ Users # {} /\ Types # {}

VARIABLES
    inApp,    \* inApp[u][t]: "none" while the preference does not exist, else "on" or "off"
    note,     \* note[n]: "none", or the state of the row, "unread" or "read"
    owner,    \* owner[n]: the user a stored notification is for
    pc,       \* pc[q]: the next statement of q
    purpose,  \* purpose[q]: what q does once the preferences exist
    missing,  \* missing[q]: the types whose preference q did not find
    erased,   \* the users whose account is anonymized
    bereft    \* history: the requests whose user was erased while they were under way

vars == <<inApp, note, owner, pc, purpose, missing, erased, bereft>>

Purposes == [kind : {"dispatch", "update", "list", "erase"}, user : Users, type : Types,
             choice : {"on", "off"}]

TypeOK ==
    /\ inApp \in [Users -> [Types -> {"none", "on", "off"}]]
    /\ note \in [Notes -> {"none", "unread", "read"}]
    /\ owner \in [Notes -> Users]
    /\ pc \in [Requests -> {"idle", "create", "use", "store", "erase"}]
    /\ purpose \in [Requests -> Purposes]
    /\ missing \in [Requests -> SUBSET Types]
    /\ erased \subseteq Users /\ bereft \subseteq Requests

nothing == CHOOSE p \in Purposes : TRUE

\* Users of an earlier version lack the preferences of the later types.
Init ==
    /\ \E old \in SUBSET Types :
          inApp = [u \in Users |-> [t \in Types |-> IF t \in old THEN "on" ELSE "none"]]
    /\ note = [n \in Notes |-> "none"]
    /\ owner = [n \in Notes |-> CHOOSE u \in Users : TRUE]
    /\ pc = [q \in Requests |-> "idle"]
    /\ purpose = [q \in Requests |-> nothing]
    /\ missing = [q \in Requests |-> {}]
    /\ erased = {} /\ bereft = {}

Goto(q, where) == pc' = [pc EXCEPT ![q] = where]
User(q) == purpose[q].user

Finish(q) ==
    /\ Goto(q, "idle")
    /\ purpose' = [purpose EXCEPT ![q] = nothing]
    /\ missing' = [missing EXCEPT ![q] = {}]
    /\ bereft' = bereft \ {q}

\* Mutant: a user with some preference is taken to have them all.
FindMissingIfNone(q, p) ==
    /\ pc[q] = "idle" /\ p.kind # "erase"
    /\ purpose' = [purpose EXCEPT ![q] = p]
    /\ missing' = [missing EXCEPT ![q] =
                      IF \E t \in Types : inApp[p.user][t] # "none" THEN {} ELSE Types]
    /\ Goto(q, IF missing'[q] = {} THEN "use" ELSE "create")
    /\ UNCHANGED <<inApp, note, owner, erased, bereft>>

\* ensureNotificationPreferences looks the rows up.
FindMissing(q, p) ==
    /\ pc[q] = "idle" /\ p.kind # "erase"
    /\ purpose' = [purpose EXCEPT ![q] = p]
    /\ missing' = [missing EXCEPT ![q] = {t \in Types : inApp[p.user][t] = "none"}]
    /\ Goto(q, IF missing'[q] = {} THEN "use" ELSE "create")
    /\ UNCHANGED <<inApp, note, owner, erased, bereft>>

\* Mutant: the defaults of all types are written, over the choices made.
CreateDefaultsForAll(q) ==
    /\ pc[q] = "create"
    /\ inApp' = [inApp EXCEPT ![User(q)] = [t \in Types |-> "on"]]
    /\ Goto(q, "use")
    /\ UNCHANGED <<note, owner, purpose, missing, erased, bereft>>

\* createMany inserts all the missing rows or, when one exists by now, none: the unique
\* index raises an exception that ends the request, whatever its purpose.
CreateDefaults(q) ==
    /\ pc[q] = "create"
    /\ IF \A t \in missing[q] : inApp[User(q)][t] = "none"
       THEN /\ inApp' = [inApp EXCEPT ![User(q)] =
                            [t \in Types |-> IF t \in missing[q] THEN "on" ELSE @[t]]]
            /\ Goto(q, "use")
            /\ UNCHANGED <<purpose, missing, bereft>>
       ELSE Finish(q) /\ UNCHANGED inApp
    /\ UNCHANGED <<note, owner, erased>>

\* dispatchNotification reads the preference: without it, findUniqueOrThrow ends the request...
Dispatch(q) ==
    /\ pc[q] = "use" /\ purpose[q].kind = "dispatch"
    /\ IF inApp[User(q)][purpose[q].type] = "on"
       THEN Goto(q, "store") /\ UNCHANGED <<purpose, missing, bereft>>
       ELSE Finish(q)
    /\ UNCHANGED <<inApp, note, owner, erased>>

\* ... and stores the notification, whatever became of the preference.
StoreNote(q) ==
    /\ pc[q] = "store"
    /\ \E n \in Notes : /\ note[n] = "none"
                       /\ note' = [note EXCEPT ![n] = "unread"]
                       /\ owner' = [owner EXCEPT ![n] = User(q)]
    /\ Finish(q)
    /\ UNCHANGED <<inApp, erased>>

\* updateNotificationPreference stores the choice of the user in the row, if there is one.
UpdatePreference(q) ==
    /\ pc[q] = "use" /\ purpose[q].kind = "update"
    /\ inApp' = [inApp EXCEPT ![User(q)][purpose[q].type] =
                     IF @ = "none" THEN @ ELSE purpose[q].choice]
    /\ Finish(q)
    /\ UNCHANGED <<note, owner, erased>>

ListPreferences(q) ==
    /\ pc[q] = "use" /\ purpose[q].kind = "list"
    /\ Finish(q)
    /\ UNCHANGED <<inApp, note, owner, erased>>

\* The user reads one notification, or all those stored by now.
MarkRead(n) ==
    /\ note[n] # "none"
    /\ note' = [note EXCEPT ![n] = "read"]
    /\ UNCHANGED <<inApp, owner, pc, purpose, missing, erased, bereft>>

MarkAllRead(u) ==
    /\ note' = [n \in Notes |-> IF note[n] = "unread" /\ owner[n] = u THEN "read" ELSE note[n]]
    /\ UNCHANGED <<inApp, owner, pc, purpose, missing, erased, bereft>>

\* anonymizeAccount finds the account not yet erased; another request may do so too...
AskErasure(q, p) ==
    /\ pc[q] = "idle" /\ p.kind = "erase" /\ p.user \notin erased
    /\ purpose' = [purpose EXCEPT ![q] = p]
    /\ Goto(q, "erase")
    /\ UNCHANGED <<inApp, note, owner, missing, erased, bereft>>

\* ... and its transaction deletes what is stored for the user by now.
Erase(q) ==
    /\ pc[q] = "erase"
    /\ inApp' = [inApp EXCEPT ![User(q)] = [t \in Types |-> "none"]]
    /\ note' = [n \in Notes |-> IF owner[n] = User(q) THEN "none" ELSE note[n]]
    /\ erased' = erased \cup {User(q)}
    /\ bereft' = (bereft \cup {o \in Requests : pc[o] # "idle" /\ User(o) = User(q)}) \ {q}
    /\ Goto(q, "idle")
    /\ purpose' = [purpose EXCEPT ![q] = nothing]
    /\ missing' = [missing EXCEPT ![q] = {}]
    /\ UNCHANGED owner

Next ==
    \/ \E q \in Requests :
          \/ \E p \in Purposes : FindMissing(q, p) \/ AskErasure(q, p)
          \/ CreateDefaults(q) \/ Dispatch(q) \/ StoreNote(q) \/ UpdatePreference(q)
          \/ ListPreferences(q) \/ Erase(q)
    \/ \E n \in Notes : MarkRead(n)
    \/ \E u \in Users : MarkAllRead(u)

Spec == Init /\ [][Next]_vars

-----------------------------------------------------------------------------
(* Properties *)

\* A choice the user made lasts until the user makes another or the account is erased: the
\* defaults that other requests create meanwhile never replace it (notificationService.js:37).
ChoicesLast ==
    [][\A u \in Users, t \in Types :
         inApp[u][t] # "none" /\ inApp'[u][t] # inApp[u][t] =>
             \E q \in Requests : /\ User(q) = u /\ pc'[q] = "idle"
                                 /\ \/ pc[q] = "use" /\ purpose[q].kind = "update"
                                    \/ pc[q] = "erase"]_vars

\* A request that goes on to use the preferences finds one for every type, also for a user
\* of an earlier version and whichever request inserted them, unless the account was erased
\* meanwhile (notificationService.js:37, authService.js:384).
PreferencesComplete ==
    \A q \in Requests :
        pc[q] = "use" /\ q \notin bereft => \A t \in Types : inApp[User(q)][t] # "none"

\* Preferences that are used exist, and are those of the user.
PreferencesHold == []PreferencesComplete /\ ChoicesLast
=============================================================================
