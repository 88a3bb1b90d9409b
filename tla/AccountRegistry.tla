-------------------------- MODULE AccountRegistry --------------------------
(***************************************************************************)
(* The accounts of the club (services/authService.js): registration by a   *)
(* visitor or an admin, profiles and riders, the links that reset a        *)
(* password, the erasure of an account.  Every operation reads, computes a *)
(* hash or deletes files, and then writes; a refresh reads, consumes and    *)
(* issues.  Abstracted: a family has one rider at most; the active refresh  *)
(* tokens of one account and one password are one session (TokenSessions   *)
(* tells them apart).  Left out: bans and the keys in Redis                *)
(* (AccountAccess), the deletion of a rider (RiderDocuments), the mail.    *)
(***************************************************************************)
EXTENDS Integers

CONSTANTS Accounts,   \* the rows of users there may be
          Addresses, Links, Requests,
          MaxVersion, \* bound: the passwords of an account
          Deleted,    \* deleted-...@anonymized.local
          NoAddress, NoAccount, NoLink

RegistryAssumption == /\ {Deleted, NoAddress} \cap Addresses = {} /\ Deleted # NoAddress
                      /\ NoAccount \notin Accounts /\ NoLink \notin Links
                      /\ MaxVersion \in Nat \ {0}

VARIABLES
    email,    \* email[u]: NoAddress while the row does not exist
    role,     \* role[u]: a client has a family, an instructor has none
    version,  \* version[u]: which password it has
    named,    \* the accounts whose row holds the name of a person
    rider,    \* rider[u]: the rider of the family, "none", "named" or "anonymous"
    erased,   \* anonymizedAt is set
    sessions, \* the <<account, password>> with a refresh token that is not revoked
    inside,   \* the accounts with an access token that requireAuth accepts
    linkOf,   \* linkOf[l]: the account of a link, NoAccount while the row does not exist
    spent,    \* the links that are used or expired
    pc,       \* pc[q]: the next statement of q
    who,      \* who[q]: the account q is about
    wish,     \* wish[q]: the address and the role of a registration
    seen,     \* seen[q]: the password the account had when q read it
    link,     \* link[q]: the link q came with
    listed,   \* listed[q]: the erasure q found a rider
    early,    \* history: the requests that had begun before the end of an erasure
    touched,  \* history: the accounts such a request wrote to, or let its user into
    sealed,   \* history: the accounts whose erasure ran to its end
    settled,  \* history: settled[u]: the password of the last reset that ran to its end
    late      \* history: the sessions that a request past its check was still to issue when
              \* a reset revoked the tokens of the account

vars == <<email, role, version, named, rider, erased, sessions, inside, linkOf, spent,
          pc, who, wish, seen, link, listed, early, touched, sealed, settled, late>>

rows    == <<email, role, version, named, rider, erased>>
tokens  == <<sessions, inside>>
mails   == <<linkOf, spent>>
locals  == <<who, wish, seen, link, listed>>
history == <<early, touched, sealed, settled, late>>

Roles == {"client", "instructor"}
NoWish == [address |-> NoAddress, role |-> "client"]

TypeOK ==
    /\ email \in [Accounts -> Addresses \cup {Deleted, NoAddress}]
    /\ role \in [Accounts -> Roles]
    /\ version \in [Accounts -> 0..MaxVersion]
    /\ named \subseteq Accounts /\ erased \subseteq Accounts /\ inside \subseteq Accounts
    /\ rider \in [Accounts -> {"none", "named", "anonymous"}]
    /\ sessions \subseteq Accounts \X (1..MaxVersion) /\ late \subseteq Accounts \X (1..MaxVersion)
    /\ linkOf \in [Links -> Accounts \cup {NoAccount}] /\ spent \subseteq Links
    /\ pc \in [Requests -> {"idle", "register", "member", "consume", "issue", "profile", "rider",
                            "link", "reset", "erase", "revoke", "blacklist"}]
    /\ who \in [Requests -> Accounts \cup {NoAccount}]
    /\ seen \in [Requests -> 0..MaxVersion]
    /\ link \in [Requests -> Links \cup {NoLink}]
    /\ listed \in [Requests -> BOOLEAN]
    /\ early \subseteq Requests
    /\ touched \subseteq Accounts /\ sealed \subseteq erased
    /\ settled \in [Accounts -> 0..MaxVersion]

Init ==
    /\ email = [u \in Accounts |-> NoAddress] /\ role = [u \in Accounts |-> "client"]
    /\ version = [u \in Accounts |-> 0]
    /\ named = {} /\ rider = [u \in Accounts |-> "none"] /\ erased = {}
    /\ sessions = {} /\ inside = {}
    /\ linkOf = [l \in Links |-> NoAccount] /\ spent = {}
    /\ pc = [q \in Requests |-> "idle"]
    /\ who = [q \in Requests |-> NoAccount]
    /\ wish = [q \in Requests |-> NoWish]
    /\ seen = [q \in Requests |-> 0]
    /\ link = [q \in Requests |-> NoLink]
    /\ listed = [q \in Requests |-> FALSE]
    /\ early = {} /\ touched = {} /\ sealed = {}
    /\ settled = [u \in Accounts |-> 0] /\ late = {}

Exists(u) == email[u] # NoAddress
Taken(a) == \E u \in Accounts : email[u] = a

Goto(q, where) == pc' = [pc EXCEPT ![q] = where]

\* q starts on account u, having read its row.
Start(q, u, where) ==
    /\ pc[q] = "idle"
    /\ Goto(q, where)
    /\ who' = [who EXCEPT ![q] = u]
    /\ seen' = [seen EXCEPT ![q] = version[u]]

Finish(q) ==
    /\ Goto(q, "idle")
    /\ who' = [who EXCEPT ![q] = NoAccount]
    /\ wish' = [wish EXCEPT ![q] = NoWish]
    /\ seen' = [seen EXCEPT ![q] = 0]
    /\ link' = [link EXCEPT ![q] = NoLink]
    /\ listed' = [listed EXCEPT ![q] = FALSE]
    /\ early' = early \ {q}

\* What q writes to its account, or the door it opens, may come after an erasure.
Touch(q) == touched' = IF q \in early THEN touched \cup {who[q]} ELSE touched

-----------------------------------------------------------------------------
(* register, createMember, login *)

FindAddress(q, a, r, where) ==
    /\ pc[q] = "idle" /\ ~Taken(a)
    /\ wish' = [wish EXCEPT ![q] = [address |-> a, role |-> r]]
    /\ Goto(q, where)
    /\ UNCHANGED <<rows, tokens, mails, who, seen, link, listed, history>>

\* A visitor becomes a client.
Register(q, a) == FindAddress(q, a, "client", "register")

\* An admin creates a client or an instructor.
CreateMember(q, a) == \E r \in Roles : FindAddress(q, a, r, "member")

\* The row of u; the family of a client comes in the same transaction.
InsertUser(q, u) ==
    /\ ~Exists(u)
    /\ email' = [email EXCEPT ![u] = wish[q].address]
    /\ role' = [role EXCEPT ![u] = wish[q].role]
    /\ version' = [version EXCEPT ![u] = 1]
    /\ named' = named \cup {u}
    /\ UNCHANGED <<rider, erased>>

\* The visitor is logged in next.
OpenAccount(q) ==
    /\ pc[q] = "register" /\ ~Taken(wish[q].address)
    /\ \E u \in Accounts : /\ InsertUser(q, u)
                           /\ who' = [who EXCEPT ![q] = u]
    /\ Goto(q, "issue")
    /\ seen' = [seen EXCEPT ![q] = 1]
    /\ wish' = [wish EXCEPT ![q] = NoWish]
    /\ UNCHANGED <<tokens, mails, link, listed, history>>

AddMember(q) ==
    /\ pc[q] = "member" /\ ~Taken(wish[q].address)
    /\ \E u \in Accounts : InsertUser(q, u)
    /\ Finish(q)
    /\ UNCHANGED <<tokens, mails, touched, sealed, settled, late>>

\* The unique index refuses an address that another request took meanwhile.
RefuseAddress(q) ==
    /\ pc[q] \in {"register", "member"} /\ Taken(wish[q].address)
    /\ Finish(q)
    /\ UNCHANGED <<rows, tokens, mails, touched, sealed, settled, late>>

\* The account is found by its address and the password is the one it has.
CheckLogin(q, u) ==
    /\ email[u] \in Addresses /\ u \notin erased
    /\ Start(q, u, "issue")
    /\ UNCHANGED <<rows, tokens, mails, wish, link, listed, history>>

\* issueTokenPair
Issue(q) ==
    LET u == who[q] IN
    /\ pc[q] = "issue"
    /\ sessions' = sessions \cup {<<u, seen[q]>>}
    /\ inside' = inside \cup {u}
    /\ Touch(q)
    /\ Finish(q)
    /\ UNCHANGED <<rows, mails, sealed, settled, late>>

\* An access token expires, and the next refresh gives another.
AccessExpires(u) ==
    /\ u \in inside
    /\ inside' = inside \ {u}
    /\ UNCHANGED <<rows, sessions, mails, pc, locals, history>>

\* rotateRefreshToken finds a token that is not revoked, and its user with it.
ReadToken(q, u, v) ==
    /\ pc[q] = "idle" /\ <<u, v>> \in sessions /\ u \notin erased
    /\ Goto(q, "consume")
    /\ who' = [who EXCEPT ![q] = u]
    /\ seen' = [seen EXCEPT ![q] = v]
    /\ UNCHANGED <<rows, tokens, mails, wish, link, listed, history>>

\* The family of a token whose account is erased is revoked instead.
RefuseErased(u, v) ==
    /\ <<u, v>> \in sessions /\ u \in erased
    /\ sessions' = sessions \ {<<u, v>>}
    /\ inside' \in {inside, inside \ {u}}
    /\ UNCHANGED <<rows, mails, pc, locals, history>>

\* Mutant: the token is consumed by its id, whether or not it has been revoked meanwhile.
ConsumeRevoked(q) ==
    /\ pc[q] = "consume"
    /\ sessions' \in {sessions, sessions \ {<<who[q], seen[q]>>}}
    /\ Goto(q, "issue")
    /\ UNCHANGED <<rows, inside, mails, locals, history>>

\* The conditional updateMany: a token revoked meanwhile is a lost race.  Another token of
\* the same password may be left.  Issue comes next.
ConsumeToken(q) ==
    LET s == <<who[q], seen[q]>> IN
    /\ pc[q] = "consume"
    /\ IF s \in sessions
       THEN /\ sessions' \in {sessions, sessions \ {s}}
            /\ Goto(q, "issue")
            /\ UNCHANGED <<locals, early>>
       ELSE Finish(q) /\ UNCHANGED sessions
    /\ UNCHANGED <<rows, inside, mails, touched, sealed, settled, late>>

-----------------------------------------------------------------------------
(* updateMe, updateMemberProfile, createRider, updateRider *)

\* Mutant: an erased account can be edited like any other.
ReadProfileOfAny(q, u) ==
    /\ Exists(u)
    /\ Start(q, u, "profile")
    /\ UNCHANGED <<rows, tokens, mails, wish, link, listed, history>>

\* The user, or an admin, edits the account: an erased one is refused.
ReadProfile(q, u) ==
    /\ Exists(u) /\ u \notin erased
    /\ Start(q, u, "profile")
    /\ UNCHANGED <<rows, tokens, mails, wish, link, listed, history>>

WriteProfile(q) ==
    /\ pc[q] = "profile"
    /\ named' = named \cup {who[q]}
    /\ Touch(q)
    /\ Finish(q)
    /\ UNCHANGED <<email, role, version, rider, erased, tokens, mails, sealed, settled, late>>

\* getFamilyIdForUser, and assertRiderInFamily when the rider exists: neither looks whether
\* the account is erased.
FindFamily(q, u) ==
    /\ u \in inside /\ role[u] = "client"
    /\ Start(q, u, "rider")
    /\ early' = IF u \in erased \ sealed THEN early \cup {q} ELSE early
    /\ UNCHANGED <<rows, tokens, mails, wish, link, listed, touched, sealed, settled, late>>

WriteRider(q) ==
    /\ pc[q] = "rider"
    /\ rider' = [rider EXCEPT ![who[q]] = "named"]
    /\ Touch(q)
    /\ Finish(q)
    /\ UNCHANGED <<email, role, version, named, erased, tokens, mails, sealed, settled, late>>

-----------------------------------------------------------------------------
(* forgotPassword, resetPassword *)

FindForLink(q, u) ==
    /\ email[u] \in Addresses
    /\ Start(q, u, "link")
    /\ UNCHANGED <<rows, tokens, mails, wish, link, listed, history>>

CreateLink(q) ==
    /\ pc[q] = "link"
    /\ \E l \in Links : /\ linkOf[l] = NoAccount /\ l \notin spent
                        /\ linkOf' = [linkOf EXCEPT ![l] = who[q]]
    /\ Finish(q)
    /\ UNCHANGED <<rows, tokens, spent, touched, sealed, settled, late>>

LinkExpires(l) ==
    /\ linkOf[l] # NoAccount
    /\ spent' = spent \cup {l}
    /\ UNCHANGED <<rows, tokens, linkOf, pc, locals, history>>

ReadLink(q, l) ==
    /\ linkOf[l] # NoAccount /\ l \notin spent
    /\ Start(q, linkOf[l], "reset")
    /\ link' = [link EXCEPT ![q] = l]
    /\ UNCHANGED <<rows, tokens, mails, wish, listed, history>>

\* The password and the link in one transaction, which does not look at the link again; it
\* fails when an erasure has deleted the link.
WriteReset(q) ==
    LET u == who[q] IN
    /\ pc[q] = "reset" /\ version[u] < MaxVersion
    /\ IF linkOf[link[q]] = NoAccount
       THEN Finish(q) /\ UNCHANGED <<version, spent>>
       ELSE /\ version' = [version EXCEPT ![u] = @ + 1]
            /\ seen' = [seen EXCEPT ![q] = version[u] + 1]
            /\ spent' = spent \cup {link[q]}
            /\ Goto(q, "revoke")
            /\ UNCHANGED <<who, wish, link, listed, early>>
    /\ UNCHANGED <<email, role, named, rider, erased, tokens, linkOf, touched, sealed, settled, late>>

-----------------------------------------------------------------------------
(* anonymizeAccount, revokeAllUserTokens *)

ReadForErasure(q, u) ==
    /\ u \in inside /\ u \notin erased /\ role[u] = "client"
    /\ Start(q, u, "erase")
    /\ listed' = [listed EXCEPT ![q] = (rider[u] # "none")]
    /\ UNCHANGED <<rows, tokens, mails, wish, link, history>>

\* The requests about the account of q that are under way.
Others(q) == {o \in Requests \ {q} : who[o] = who[q]}

\* Mutant: the date of the erasure is not written.
EraseRowsUndated(q) ==
    LET u == who[q] IN
    /\ pc[q] = "erase"
    /\ rider' = IF listed[q] THEN [rider EXCEPT ![u] = "anonymous"] ELSE rider
    /\ linkOf' = [l \in Links |-> IF linkOf[l] = u THEN NoAccount ELSE linkOf[l]]
    /\ spent' = spent \cup {l \in Links : linkOf[l] = u}
    /\ email' = [email EXCEPT ![u] = Deleted]
    /\ named' = named \ {u}
    /\ early' = early \cup Others(q)
    /\ touched' = IF rider'[u] = "named" THEN touched \cup {u} ELSE touched
    /\ Goto(q, "revoke")
    /\ UNCHANGED <<role, version, erased, tokens, locals, sealed, settled, late>>

\* The transaction: the rider q had listed, the links, the address and the name; the
\* placeholder password is one nobody has.
EraseRows(q) ==
    LET u == who[q] IN
    /\ pc[q] = "erase"
    /\ rider' = IF listed[q] THEN [rider EXCEPT ![u] = "anonymous"] ELSE rider
    /\ linkOf' = [l \in Links |-> IF linkOf[l] = u THEN NoAccount ELSE linkOf[l]]
    /\ spent' = spent \cup {l \in Links : linkOf[l] = u}
    /\ email' = [email EXCEPT ![u] = Deleted]
    /\ named' = named \ {u}
    /\ erased' = erased \cup {u}
    /\ early' = early \cup Others(q)
    /\ touched' = IF rider'[u] = "named" THEN touched \cup {u} ELSE touched
    /\ Goto(q, "revoke")
    /\ UNCHANGED <<role, version, tokens, locals, sealed, settled, late>>

\* What the logins and refreshes of u that are past their check have still to issue.
Outstanding(u) == {<<u, seen[o]>> : o \in {x \in Requests : pc[x] = "issue" /\ who[x] = u}}

\* Mutant: the sessions that carry the password just set are revoked, not the others.
RevokeTokensOfNow(q) ==
    LET u == who[q] IN
    /\ pc[q] = "revoke"
    /\ sessions' = sessions \ {<<u, version[u]>>}
    /\ inside' \in {inside, inside \ {u}}
    /\ IF link[q] = NoLink
       THEN Goto(q, "blacklist") /\ UNCHANGED <<locals, early, settled, late>>
       ELSE /\ settled' = [settled EXCEPT ![u] = IF @ < seen[q] THEN seen[q] ELSE @]
            /\ late' = late \cup Outstanding(u)
            /\ Finish(q)
    /\ UNCHANGED <<rows, mails, touched, sealed>>

\* Every refresh token of the account, and the access tokens their rows name; one that a
\* refresh has replaced since is not among them.  It ends a reset.
RevokeTokens(q) ==
    LET u == who[q] IN
    /\ pc[q] = "revoke"
    /\ sessions' = {s \in sessions : s[1] # u}
    /\ inside' \in {inside, inside \ {u}}
    /\ IF link[q] = NoLink
       THEN Goto(q, "blacklist") /\ UNCHANGED <<locals, early, settled, late>>
       ELSE /\ settled' = [settled EXCEPT ![u] = IF @ < seen[q] THEN seen[q] ELSE @]
            /\ late' = late \cup Outstanding(u)
            /\ Finish(q)
    /\ UNCHANGED <<rows, mails, touched, sealed>>

\* blacklistUser bars every access token, also that of the erasure itself.
BlacklistUser(q) ==
    /\ pc[q] = "blacklist"
    /\ inside' = inside \ {who[q]}
    /\ sealed' = sealed \cup {who[q]}
    /\ Goto(q, "idle")
    /\ who' = [who EXCEPT ![q] = NoAccount]
    /\ seen' = [seen EXCEPT ![q] = 0]
    /\ listed' = [listed EXCEPT ![q] = FALSE]
    /\ early' = (early \cup Others(q)) \ {q}
    /\ UNCHANGED <<rows, sessions, mails, wish, link, touched, settled, late>>

\* A statement fails, or the process dies: the request ends where it is.
Fail(q) ==
    /\ pc[q] # "idle"
    /\ Finish(q)
    /\ UNCHANGED <<rows, tokens, mails, touched, sealed, settled, late>>

Next ==
    \/ \E q \in Requests :
          \/ \E a \in Addresses : Register(q, a) \/ CreateMember(q, a)
          \/ \E u \in Accounts : \/ CheckLogin(q, u) \/ ReadProfile(q, u) \/ FindFamily(q, u)
                                 \/ FindForLink(q, u) \/ ReadForErasure(q, u)
          \/ \E u \in Accounts, v \in 1..MaxVersion : ReadToken(q, u, v)
          \/ \E l \in Links : ReadLink(q, l)
          \/ OpenAccount(q) \/ AddMember(q) \/ RefuseAddress(q) \/ ConsumeToken(q) \/ Issue(q)
          \/ WriteProfile(q) \/ WriteRider(q) \/ CreateLink(q) \/ WriteReset(q)
          \/ EraseRows(q) \/ RevokeTokens(q) \/ BlacklistUser(q) \/ Fail(q)
    \/ \E u \in Accounts : AccessExpires(u) \/ \E v \in 1..MaxVersion : RefuseErased(u, v)
    \/ \E l \in Links : LinkExpires(l)

Spec == Init /\ [][Next]_vars

-----------------------------------------------------------------------------
(* Properties *)

\* backlog.md:61: once a reset has been answered, no session of an earlier password is left,
\* whatever logins, refreshes, failures and other resets ran meanwhile; save what a login that
\* had compared the earlier password (authService.js:196), or a refresh that had consumed its
\* token (tokenService.js:271), before the revocation, issues after it (tokenService.js:280).
OldPasswordIsOut ==
    \A s \in sessions : s[2] < settled[s[1]] => s \in late

\* backlog.md:75: an erased account names nobody, and nobody comes back into it to name a
\* rider, whatever edits, logins, links and resets follow; save what is due to a request that
\* had begun before the last step of the erasure, or to a rider the erasure had not listed
\* (authService.js:337, 356, 402).
ErasedStaysAnonymous ==
    \A u \in erased \ touched : email[u] = Deleted /\ u \notin named /\ rider[u] # "named"
=============================================================================
