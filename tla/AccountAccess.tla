---------------------------- MODULE AccountAccess ----------------------------
(***************************************************************************)
(* Who is let in: access tokens, the keys in Redis that revoke them, and   *)
(* the account they stand for (services/tokenService.js,                   *)
(* services/authService.js, middlewares/auth.js).  An access token is a    *)
(* signed text nobody stores: it holds until its own expiry unless a key   *)
(* of its user or of its jti is found.  A key expires too.  The refresh    *)
(* tokens of a user, which TokenSessions models, are one flag here.        *)
(***************************************************************************)
EXTENDS Integers

CONSTANTS Users, Tokens, Requests,
          TTL,      \* ACCESS_TTL_SEC
          MaxTime,  \* bound: the time
          NoUser, NoToken

AccessAssumption == TTL \in Nat \ {0} /\ MaxTime \in Nat /\ NoUser \notin Users /\ NoToken \notin Tokens

VARIABLES
    now,      \* the time
    banned,   \* the users whose account is suspended
    erased,   \* the users whose account is anonymized
    session,  \* the users with a refresh token that is not revoked
    holder,   \* holder[t]: the user of an access token, NoUser before it is issued
    issued,   \* issued[t]: when
    userKey,  \* userKey[u]: when blacklist:user:u expires
    jtiKey,   \* jtiKey[t]: when blacklist:jti:t expires
    pc,       \* pc[q]: the next statement of q
    actor,    \* actor[q]: the user q is about
    mine,     \* mine[q]: the access token that came with q
    sealed,   \* the users whose eviction ran to its end since they were last barred
    late,     \* tokens given to a barred user by a request that had found the account open
    left      \* tokens whose logout ran to its end

vars == <<now, banned, erased, session, holder, issued, userKey, jtiKey,
          pc, actor, mine, sealed, late, left>>

accounts == <<banned, erased>>
keys     == <<userKey, jtiKey>>
issues   == <<holder, issued>>
history  == <<sealed, late, left>>

TypeOK ==
    /\ now \in 0..MaxTime
    /\ banned \subseteq Users /\ erased \subseteq Users /\ session \subseteq Users
    /\ holder \in [Tokens -> Users \cup {NoUser}]
    /\ issued \in [Tokens -> 0..MaxTime]
    /\ userKey \in [Users -> 0..(MaxTime + TTL)]
    /\ jtiKey \in [Tokens -> 0..(MaxTime + TTL)]
    /\ pc \in [Requests -> {"idle", "issue", "revoke", "blacklist", "family", "jti"}]
    /\ actor \in [Requests -> Users \cup {NoUser}]
    /\ mine \in [Requests -> Tokens \cup {NoToken}]
    /\ sealed \subseteq Users /\ late \subseteq Tokens /\ left \subseteq Tokens

Init ==
    /\ now = 0
    /\ banned = {} /\ erased = {} /\ session = {}
    /\ holder = [t \in Tokens |-> NoUser]
    /\ issued = [t \in Tokens |-> 0]
    /\ userKey = [u \in Users |-> 0]
    /\ jtiKey = [t \in Tokens |-> 0]
    /\ pc = [q \in Requests |-> "idle"]
    /\ actor = [q \in Requests |-> NoUser]
    /\ mine = [q \in Requests |-> NoToken]
    /\ sealed = {} /\ late = {} /\ left = {}

Barred(u) == u \in banned \cup erased

\* requireAuth: the token is not expired, and isBlacklisted finds neither key.
Accepted(t) ==
    /\ holder[t] # NoUser
    /\ now < issued[t] + TTL
    /\ now >= userKey[holder[t]]
    /\ now >= jtiKey[t]

Goto(q, where) == pc' = [pc EXCEPT ![q] = where]
Begin(q, u, t, where) == /\ pc[q] = "idle"
                         /\ actor' = [actor EXCEPT ![q] = u]
                         /\ mine' = [mine EXCEPT ![q] = t]
                         /\ Goto(q, where)
Finish(q) == /\ actor' = [actor EXCEPT ![q] = NoUser]
             /\ mine' = [mine EXCEPT ![q] = NoToken]
             /\ Goto(q, "idle")

-----------------------------------------------------------------------------
(* Coming in *)

\* login: the password is right and the account is open.
CheckLogin(q, u) ==
    /\ ~Barred(u)
    /\ Begin(q, u, NoToken, "issue")
    /\ UNCHANGED <<now, accounts, session, issues, keys, history>>

\* rotateRefreshToken: the account is read with the refresh token.
CheckRefresh(q, u) ==
    /\ u \in session /\ ~Barred(u)
    /\ Begin(q, u, NoToken, "issue")
    /\ UNCHANGED <<now, accounts, session, issues, keys, history>>

\* A barred account loses the session it presents.
RefuseRefresh(u) ==
    /\ u \in session /\ Barred(u)
    /\ session' = session \ {u}
    /\ UNCHANGED <<now, accounts, issues, keys, pc, actor, mine, history>>

\* issueTokenPair
Issue(q) ==
    /\ pc[q] = "issue"
    /\ \E t \in Tokens : holder[t] = NoUser
    /\ LET t == CHOOSE x \in Tokens : holder[x] = NoUser IN
          /\ holder' = [holder EXCEPT ![t] = actor[q]]
          /\ issued' = [issued EXCEPT ![t] = now]
          /\ late' = IF Barred(actor[q]) THEN late \cup {t} ELSE late
    /\ session' = session \cup {actor[q]}
    /\ Finish(q)
    /\ UNCHANGED <<now, accounts, keys, sealed, left>>

-----------------------------------------------------------------------------
(* Being put out, and leaving *)

\* banUser: the account...
BanUser(q, u) ==
    /\ banned' = banned \cup {u}
    /\ sealed' = sealed \ {u}
    /\ Begin(q, u, NoToken, "revoke")
    /\ UNCHANGED <<now, erased, session, issues, keys, late, left>>

\* anonymizeAccount comes with an access token of the user, which its end blacklists.
AnonymizeAccount(q, t) ==
    LET u == holder[t] IN
    /\ Accepted(t) /\ u \notin erased
    /\ erased' = erased \cup {u}
    /\ sealed' = sealed \ {u}
    /\ Begin(q, u, t, "revoke")
    /\ UNCHANGED <<now, banned, session, issues, keys, late, left>>

\* ... then revokeAllUserTokens...
RevokeTokens(q) ==
    /\ pc[q] = "revoke"
    /\ session' = session \ {actor[q]}
    /\ Goto(q, "blacklist")
    /\ UNCHANGED <<now, accounts, issues, keys, actor, mine, history>>

\* Mutant: the key lasts less than the tokens it stops.
BlacklistUserShortly(q) ==
    /\ pc[q] = "blacklist"
    /\ userKey' = [userKey EXCEPT ![actor[q]] = now + TTL - 1]
    /\ sealed' = sealed \cup {actor[q]}
    /\ IF mine[q] = NoToken THEN Finish(q) ELSE Goto(q, "jti") /\ UNCHANGED <<actor, mine>>
    /\ UNCHANGED <<now, accounts, session, issues, jtiKey, late, left>>

\* ... then blacklistUser, for the life of the youngest token there can be.
BlacklistUser(q) ==
    /\ pc[q] = "blacklist"
    /\ userKey' = [userKey EXCEPT ![actor[q]] = now + TTL]
    /\ sealed' = sealed \cup {actor[q]}
    /\ IF mine[q] = NoToken THEN Finish(q) ELSE Goto(q, "jti") /\ UNCHANGED <<actor, mine>>
    /\ UNCHANGED <<now, accounts, session, issues, jtiKey, late, left>>

\* The key of the user is left to expire.
UnbanUser(u) ==
    /\ u \in banned \ erased
    /\ banned' = banned \ {u}
    /\ UNCHANGED <<now, erased, session, issues, keys, pc, actor, mine, history>>

\* revokeSession: the refresh tokens, then the access token that came with the logout.
Logout(q, t) ==
    /\ Accepted(t)
    /\ Begin(q, holder[t], t, "family")
    /\ UNCHANGED <<now, accounts, session, issues, keys, history>>

RevokeFamily(q) ==
    /\ pc[q] = "family"
    /\ session' = session \ {actor[q]}
    /\ Goto(q, "jti")
    /\ UNCHANGED <<now, accounts, issues, keys, actor, mine, history>>

\* Mutant: the key of the token lasts one unit.
BlacklistTokenShortly(q) ==
    /\ pc[q] = "jti"
    /\ jtiKey' = [jtiKey EXCEPT ![mine[q]] = now + 1]
    /\ left' = left \cup {mine[q]}
    /\ Finish(q)
    /\ UNCHANGED <<now, accounts, session, issues, userKey, sealed, late>>

\* blacklistAccessToken, for a whole life whatever is left of it.
BlacklistToken(q) ==
    /\ pc[q] = "jti"
    /\ jtiKey' = [jtiKey EXCEPT ![mine[q]] = now + TTL]
    /\ left' = left \cup {mine[q]}
    /\ Finish(q)
    /\ UNCHANGED <<now, accounts, session, issues, userKey, sealed, late>>

\* PostgreSQL or Redis fails: the request ends there.
Fail(q) ==
    /\ pc[q] # "idle"
    /\ Finish(q)
    /\ UNCHANGED <<now, accounts, session, issues, keys, history>>

Tick ==
    /\ now < MaxTime
    /\ now' = now + 1
    /\ UNCHANGED <<accounts, session, issues, keys, pc, actor, mine, history>>

Next ==
    \/ \E q \in Requests :
          \/ \E u \in Users : CheckLogin(q, u) \/ CheckRefresh(q, u) \/ BanUser(q, u)
          \/ \E t \in Tokens : AnonymizeAccount(q, t) \/ Logout(q, t)
          \/ Issue(q) \/ RevokeTokens(q) \/ BlacklistUser(q) \/ RevokeFamily(q)
          \/ BlacklistToken(q) \/ Fail(q)
    \/ \E u \in Users : RefuseRefresh(u) \/ UnbanUser(u)
    \/ Tick

Spec == Init /\ [][Next]_vars

-----------------------------------------------------------------------------
(* Properties *)

\* tokenService.js:95: an eviction that ran to its end is effective at once and stays so:
\* no token of the user is let in, however keys and tokens expire, save one issued by a
\* request that had read the account before the eviction.
BarredIsOut ==
    \A t \in Tokens : holder[t] \in sealed /\ Barred(holder[t]) /\ t \notin late => ~Accepted(t)

\* The access token of a session that was left is never let in again.
LeftIsOut == \A t \in left : ~Accepted(t)

\* Who was put out or has left is out, by either key.
GoneIsOut == BarredIsOut /\ LeftIsOut
=============================================================================
