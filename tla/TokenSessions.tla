--------------------------- MODULE TokenSessions ---------------------------
(***************************************************************************)
(* Sessions: rotating refresh tokens and their families                    *)
(* (services/tokenService.js), with the operations of                      *)
(* services/authService.js that open or end sessions.                      *)
(*                                                                         *)
(* An element of Slots serves one request after another in one Node        *)
(* process, a statement at a time; several processes share the database    *)
(* and Redis.  A browser may present any token it was ever given (tabs     *)
(* share a cookie, an answer may be lost on the way).                      *)
(* Abstracted: hashes, passwords, the access tokens (JWT) with their       *)
(* blacklists in Redis, which none of these operations reads, and the rest *)
(* of the account that anonymizeAccount rewrites.                          *)
(***************************************************************************)
EXTENDS Naturals, FiniteSets

CONSTANTS Users, Slots, Processes,
          ProcessOf,  \* ProcessOf[q]: the Node process of a slot
          Tokens,     \* bound: the refresh tokens that may ever be issued
          NoToken, NoUser

ASSUME SessionAssumption ==
    /\ ProcessOf \in [Slots -> Processes]
    /\ IsFiniteSet(Tokens) /\ IsFiniteSet(Slots)
    /\ NoToken \notin Tokens
    /\ NoUser \notin Users

VARIABLES
    row,        \* row[t]: unissued, active, fresh (revoked less than ROTATION_GRACE_MS ago),
                \* old (revoked before that), purged
    expired,    \* the tokens past their expiresAt
    owner,      \* owner[t]: userId
    family,     \* family[t]: familyId, named by the first token of the family
    banned, erased,  \* users: banned, anonymizedAt
    inflight,   \* inflight[p]: inflightRotations of a process
    pc,         \* pc[q]: the next statement of q
    kind,       \* kind[q]: the operation q serves
    presented,  \* presented[q]: the token of the cookie
    user,       \* user[q]: the user q is about
    ended       \* history: the families that were ended on purpose, by a replay or by a crash

vars == <<row, expired, owner, family, banned, erased, inflight,
          pc, kind, presented, user, ended>>

tokens   == <<row, expired, owner, family>>
accounts == <<banned, erased>>
request  == <<kind, presented, user>>

Issued == {t \in Tokens : row[t] # "unissued"}

TypeOK ==
    /\ row \in [Tokens -> {"unissued", "active", "fresh", "old", "purged"}]
    /\ expired \subseteq Tokens
    /\ owner \in [Tokens -> Users \cup {NoUser}]
    /\ family \in [Tokens -> Tokens \cup {NoToken}]
    /\ banned \subseteq Users
    /\ erased \subseteq Users
    /\ inflight \in [Processes -> SUBSET Tokens]
    /\ pc \in [Slots -> {"idle", "find", "consume", "issue", "login", "revoke"}]
    /\ kind \in [Slots -> {"none", "refresh", "login", "logout", "reset", "ban", "erase"}]
    /\ presented \in [Slots -> Tokens \cup {NoToken}]
    /\ user \in [Slots -> Users \cup {NoUser}]
    /\ ended \subseteq Tokens

Init ==
    /\ row = [t \in Tokens |-> "unissued"]
    /\ expired = {}
    /\ owner = [t \in Tokens |-> NoUser]
    /\ family = [t \in Tokens |-> NoToken]
    /\ banned = {} /\ erased = {}
    /\ inflight = [p \in Processes |-> {}]
    /\ pc = [q \in Slots |-> "idle"]
    /\ kind = [q \in Slots |-> "none"]
    /\ presented = [q \in Slots |-> NoToken]
    /\ user = [q \in Slots |-> NoUser]
    /\ ended = {}

-----------------------------------------------------------------------------
(* Helpers *)

\* q accepts an operation of kind k about user u, with token t in the cookie.
Begin(q, k, u, t, where) ==
    /\ pc[q] = "idle"
    /\ pc' = [pc EXCEPT ![q] = where]
    /\ kind' = [kind EXCEPT ![q] = k]
    /\ user' = [user EXCEPT ![q] = u]
    /\ presented' = [presented EXCEPT ![q] = t]

Goto(q, where) == pc' = [pc EXCEPT ![q] = where] /\ UNCHANGED <<request, inflight>>

\* The answer is sent; the finally of rotateRefreshToken takes the token off the set.
Finish(q) ==
    /\ pc' = [pc EXCEPT ![q] = "idle"]
    /\ kind' = [kind EXCEPT ![q] = "none"]
    /\ user' = [user EXCEPT ![q] = NoUser]
    /\ presented' = [presented EXCEPT ![q] = NoToken]
    /\ inflight' = IF kind[q] = "refresh"
                   THEN [inflight EXCEPT ![ProcessOf[q]] = @ \ {presented[q]}] ELSE inflight

\* The tokens q revokes: those of the family of the cookie, or all those of the user.
InScope(q, t) ==
    IF kind[q] \in {"refresh", "logout"}
    THEN family[t] = family[presented[q]] ELSE owner[t] = user[q]

\* issueTokenPair: a new active token of user u in family f, a new family if f is NoToken.
IssueToken(u, f) ==
    \E t \in Tokens :
        /\ row[t] = "unissued"
        /\ row' = [row EXCEPT ![t] = "active"]
        /\ owner' = [owner EXCEPT ![t] = u]
        /\ family' = [family EXCEPT ![t] = IF f = NoToken THEN t ELSE f]
        /\ UNCHANGED expired

-----------------------------------------------------------------------------
(* login, register *)

Login(q, u) ==
    /\ u \notin banned \cup erased
    /\ Begin(q, "login", u, NoToken, "login")
    /\ UNCHANGED <<tokens, accounts, inflight, ended>>

OpenSession(q) ==
    /\ pc[q] = "login"
    /\ IssueToken(user[q], NoToken)
    /\ Finish(q)
    /\ UNCHANGED <<accounts, ended>>

-----------------------------------------------------------------------------
(* rotateRefreshToken *)

\* A token being rotated by this process is refused at once.
Refresh(q, t) ==
    /\ t \notin inflight[ProcessOf[q]]
    /\ Begin(q, "refresh", owner[t], t, "find")
    /\ inflight' = [inflight EXCEPT ![ProcessOf[q]] = @ \cup {t}]
    /\ UNCHANGED <<tokens, accounts, ended>>

\* Mutant: no grace, any revoked token revokes its family.
FindTokenNoGrace(q) ==
    LET t == presented[q]
        unwelcome == row[t] = "active" /\ t \notin expired /\ user[q] \in banned \cup erased
    IN  /\ pc[q] = "find"
        /\ CASE row[t] \in {"fresh", "old"} \/ unwelcome -> Goto(q, "revoke")
             [] row[t] = "active" /\ t \notin expired /\ ~unwelcome -> Goto(q, "consume")
             [] OTHER -> Finish(q)
        /\ ended' = IF row[t] = "old" \/ unwelcome THEN ended \cup {family[t]} ELSE ended
        /\ UNCHANGED <<tokens, accounts>>

\* The look-up.  A token revoked a moment ago lost a race (no harm done); one revoked
\* before that is a replay, and a suspended account is unwelcome: both end the family.
FindToken(q) ==
    LET t == presented[q]
        replayed == row[t] = "old"
        unwelcome == row[t] = "active" /\ t \notin expired /\ user[q] \in banned \cup erased
    IN  /\ pc[q] = "find"
        /\ CASE replayed \/ unwelcome -> Goto(q, "revoke")
             [] row[t] = "active" /\ t \notin expired /\ ~unwelcome -> Goto(q, "consume")
             [] OTHER -> Finish(q)
        /\ ended' = IF replayed \/ unwelcome THEN ended \cup {family[t]} ELSE ended
        /\ UNCHANGED <<tokens, accounts>>

\* Mutant: the token is revoked without checking that it still is active.
ConsumeTokenAnyway(q) ==
    /\ pc[q] = "consume"
    /\ row' = [row EXCEPT ![presented[q]] = IF @ = "active" THEN "fresh" ELSE @]
    /\ Goto(q, "issue")
    /\ UNCHANGED <<expired, owner, family, accounts, ended>>

\* The conditional update: one of several rotations of a token goes on.
ConsumeToken(q) ==
    /\ pc[q] = "consume"
    /\ IF row[presented[q]] = "active"
       THEN /\ row' = [row EXCEPT ![presented[q]] = "fresh"]
            /\ Goto(q, "issue")
       ELSE /\ UNCHANGED row
            /\ Finish(q)
    /\ UNCHANGED <<expired, owner, family, accounts, ended>>

RotateToken(q) ==
    /\ pc[q] = "issue"
    /\ IssueToken(user[q], family[presented[q]])
    /\ Finish(q)
    /\ UNCHANGED <<accounts, ended>>

-----------------------------------------------------------------------------
(* revokeFamily, revokeAllUserTokens and their callers *)

\* The families an operation ends on purpose; a refresh gave its reasons in FindToken.
EndedBy(q) ==
    IF kind[q] = "refresh" THEN {} ELSE {family[t] : t \in {s \in Issued : InScope(q, s)}}

\* Mutant: the set keeps the token of a rotation that failed.
RevokeLeavesInflight(q) ==
    /\ pc[q] = "revoke"
    /\ row' = [t \in Tokens |-> IF row[t] = "active" /\ InScope(q, t) THEN "fresh" ELSE row[t]]
    /\ ended' = ended \cup EndedBy(q)
    /\ Goto(q, "idle")
    /\ UNCHANGED <<expired, owner, family, accounts>>

\* Every token in scope that is still active is revoked.
RevokeActive(q) ==
    /\ pc[q] = "revoke"
    /\ row' = [t \in Tokens |-> IF row[t] = "active" /\ InScope(q, t) THEN "fresh" ELSE row[t]]
    /\ ended' = ended \cup EndedBy(q)
    /\ Finish(q)
    /\ UNCHANGED <<expired, owner, family, accounts>>

\* revokeSession: the family of the cookie.
Logout(q, t) ==
    /\ row[t] # "purged"
    /\ Begin(q, "logout", owner[t], t, "revoke")
    /\ UNCHANGED <<tokens, accounts, inflight, ended>>

\* resetPassword: the password is changed, then the sessions end.
ResetPassword(q, u) ==
    /\ Begin(q, "reset", u, NoToken, "revoke")
    /\ UNCHANGED <<tokens, accounts, inflight, ended>>

BanUser(q, u) ==
    /\ banned' = banned \cup {u}
    /\ Begin(q, "ban", u, NoToken, "revoke")
    /\ UNCHANGED <<tokens, erased, inflight, ended>>

UnbanUser(u) ==
    /\ u \in banned \ erased
    /\ banned' = banned \ {u}
    /\ UNCHANGED <<tokens, erased, inflight, pc, request, ended>>

AnonymizeAccount(q, u) ==
    /\ u \notin erased
    /\ erased' = erased \cup {u}
    /\ Begin(q, "erase", u, NoToken, "revoke")
    /\ UNCHANGED <<tokens, banned, inflight, ended>>

-----------------------------------------------------------------------------
(* Time, the purge, crashes *)

\* ROTATION_GRACE_MS passes.
GraceEnds(t) ==
    /\ row[t] = "fresh"
    /\ row' = [row EXCEPT ![t] = "old"]
    /\ UNCHANGED <<expired, owner, family, accounts, inflight, pc, request, ended>>

\* REFRESH_TTL_MS passes.
Expire(t) ==
    /\ t \in Issued \ expired
    /\ expired' = expired \cup {t}
    /\ UNCHANGED <<row, owner, family, accounts, inflight, pc, request, ended>>

\* purgeExpiredRefreshTokens, at start-up and every day.
Purge ==
    /\ \E gone \in SUBSET {t \in Issued : row[t] = "old"} :
          row' = [t \in Tokens |-> IF t \in gone \/ (t \in Issued /\ t \in expired)
                                   THEN "purged" ELSE row[t]]
    /\ UNCHANGED <<expired, owner, family, accounts, inflight, pc, request, ended>>

\* A process dies with its requests and its set in memory.  A rotation that revoked the
\* old token and did not store the new one ends its family.
Restart(p) ==
    LET here == {q \in Slots : ProcessOf[q] = p}
    IN  /\ pc' = [q \in Slots |-> IF q \in here THEN "idle" ELSE pc[q]]
        /\ kind' = [q \in Slots |-> IF q \in here THEN "none" ELSE kind[q]]
        /\ user' = [q \in Slots |-> IF q \in here THEN NoUser ELSE user[q]]
        /\ presented' = [q \in Slots |-> IF q \in here THEN NoToken ELSE presented[q]]
        /\ inflight' = [inflight EXCEPT ![p] = {}]
        /\ ended' = ended \cup {family[presented[q]] : q \in {o \in here : pc[o] = "issue"}}
        /\ UNCHANGED <<tokens, accounts>>

Continue(q) == \/ OpenSession(q) \/ FindToken(q) \/ ConsumeToken(q) \/ RotateToken(q)
               \/ RevokeActive(q)

Serve(q) == \/ \E u \in Users : \/ Login(q, u) \/ ResetPassword(q, u) \/ BanUser(q, u)
                                \/ AnonymizeAccount(q, u)
            \/ \E t \in Issued : Refresh(q, t) \/ Logout(q, t)

Next == \/ \E q \in Slots : Continue(q) \/ Serve(q)
        \/ \E u \in Users : UnbanUser(u)
        \/ \E t \in Tokens : GraceEnds(t) \/ Expire(t)
        \/ Purge
        \/ \E p \in Processes : Restart(p)

Spec == Init /\ [][Next]_vars

-----------------------------------------------------------------------------
(* Properties *)

\* What keeps family f alive: its active tokens and the rotations about to store one.
Heads(f) == {t \in Tokens : row[t] = "active" /\ family[t] = f}
                \cup {q \in Slots : pc[q] = "issue" /\ family[presented[q]] = f}

\* Whatever tabs and processes present a token at the same time, the chain of rotations of
\* a session never forks: one active token, or one rotation about to store the next.
SessionNeverForks ==
    /\ \A s, t \in Tokens : row[s] = "active" /\ row[t] = "active" /\ family[s] = family[t] => s = t
    /\ \A q, o \in Slots : pc[q] = "issue" /\ pc[o] = "issue"
                           /\ family[presented[q]] = family[presented[o]] => q = o
    /\ \A q \in Slots, t \in Tokens :
          pc[q] = "issue" /\ row[t] = "active" => family[presented[q]] # family[t]

\* tokenService.js:16-18: losing a race never costs the winner its session.  As long as
\* nobody ended it, nobody replayed a token rotated before the grace and no process died
\* between the two writes of a rotation, a session that has not expired goes on.
RaceKeepsSession ==
    \A t \in Issued :
        \/ family[t] \in ended
        \/ Heads(family[t]) # {}
        \/ \E s \in expired : family[s] = family[t]

\* inflightRotations holds a token only while a request of that process rotates it: no
\* error path leaves a session that this process would refuse to renew for ever.
InflightIsServed ==
    \A p \in Processes : \A t \in inflight[p] :
        \E q \in Slots : /\ ProcessOf[q] = p /\ pc[q] # "idle"
                          /\ kind[q] = "refresh" /\ presented[q] = t

\* tokenService.js:285: the logout ends the session of the cookie: when it is answered the
\* family has no active token, nor a rotation about to give it one.
LogoutIsFinal ==
    [][\A q \in Slots, f \in Tokens :
          /\ kind[q] = "logout" /\ pc[q] = "revoke" /\ pc'[q] = "idle"
          /\ f = family[presented[q]] /\ f \in ended' \ ended
          => Heads(f)' = {}]_vars
=============================================================================
