--------------------------- MODULE BrowserSession ---------------------------
(***************************************************************************)
(* The session in a browser: the tabs of the web client, each with its     *)
(* access token in memory (lib/apiClient.js, stores/authStore.js,          *)
(* AuthProvider.jsx, LogoutButton.jsx), the one cookie they share, and the *)
(* answers of the API's routes /auth/refresh and /auth/logout.  The API is *)
(* TokenSessions at work: here a rotation is one step, which may fail      *)
(* before or after the token is consumed.  A call is any other request of  *)
(* a page, or the logout.  An answer is handled when it arrives: its       *)
(* cookie, its token and the promises that wait for it.                    *)
(***************************************************************************)
EXTENDS Naturals

CONSTANTS Tabs, Calls,
          TabOf,     \* TabOf[k]: the tab call k is made in
          MaxTokens  \* bound: the refresh tokens the API ever hands out

BrowserAssumption == TabOf \in [Calls -> Tabs] /\ MaxTokens \in Nat

VARIABLES
    cookie,   \* the refresh token in the jar, 0 for none
    made,     \* how many tokens were made: they are 1..made
    family,   \* family[n]: the first token of the session of n
    alive,    \* the tokens the API would rotate
    recent,   \* the tokens rotated within the grace period
    revoked,  \* the access tokens, named as the refresh tokens they came with, that a logout
              \* revoked
    expired,  \* the access tokens that expired
    token,    \* token[t]: the access token in memory, 0 for null
    status,   \* status[t] of the store; "closed" without a page
    flight,   \* flight[t]: the refresh under way, [is, n]: the token presented or the answer
    call,     \* call[k]: where the call is
    sent,     \* sent[k]: the access token it bears
    logout,   \* logout[k]: the call is a logout
    ended,    \* the sessions the user left
    broken    \* the sessions that lost an answer, or got it after the grace period, or lost
              \* a token to a rotation that failed

vars == <<cookie, made, family, alive, recent, revoked, expired, token, status, flight,
          call, sent, logout, ended, broken>>

server == <<made, family, alive, recent, revoked, expired>>
calls  == <<call, sent, logout>>

Tokens == 1..MaxTokens
NoFlight == [is |-> "none", n |-> 0]
Refusals == {"left", "dead", "failed"}

TypeOK ==
    /\ cookie \in 0..made /\ made \in 0..MaxTokens
    /\ family \in [Tokens -> 0..MaxTokens]
    /\ alive \subseteq 1..made /\ recent \subseteq 1..made /\ revoked \cup expired \subseteq 1..made
    /\ token \in [Tabs -> 0..made]
    /\ status \in [Tabs -> {"closed", "loading", "authenticated", "unauthenticated"}]
    /\ flight \in [Tabs -> [is : {"none", "asked", "ok", "left", "dead", "failed"}, n : 0..made]]
    /\ call \in [Calls -> {"idle", "sent", "fine", "expired", "refused", "waiting", "again"}]
    /\ sent \in [Calls -> 0..made]
    /\ logout \in [Calls -> BOOLEAN]
    /\ ended \subseteq 1..made /\ broken \subseteq 1..made

Init ==
    /\ cookie = 0 /\ made = 0
    /\ family = [n \in Tokens |-> 0]
    /\ alive = {} /\ recent = {} /\ revoked = {} /\ expired = {}
    /\ token = [t \in Tabs |-> 0]
    /\ status = [t \in Tabs |-> "closed"]
    /\ flight = [t \in Tabs |-> NoFlight]
    /\ call = [k \in Calls |-> "idle"]
    /\ sent = [k \in Calls |-> 0]
    /\ logout = [k \in Calls |-> FALSE]
    /\ ended = {} /\ broken = {}

Family(n) == {m \in 1..made : family[m] = family[n]}
Waiting(t) == {k \in Calls : TabOf[k] = t /\ call[k] = "waiting"}

\* The calls of the tab that wait for its refresh end.
GiveUp(t) ==
    /\ call' = [k \in Calls |-> IF k \in Waiting(t) THEN "idle" ELSE call[k]]
    /\ sent' = [k \in Calls |-> IF k \in Waiting(t) THEN 0 ELSE sent[k]]
    /\ logout' = [k \in Calls |-> k \notin Waiting(t) /\ logout[k]]

\* A new token, the first of a session or an heir of n.
Make(n) == /\ made < MaxTokens
           /\ made' = made + 1
           /\ family' = [family EXCEPT ![made + 1] = IF n = 0 THEN made + 1 ELSE family[n]]

-----------------------------------------------------------------------------
(* Refreshing *)

\* AuthProvider, when a page opens: performRefresh presents the cookie.
OpenTab(t) ==
    /\ status[t] = "closed"
    /\ status' = [status EXCEPT ![t] = "loading"]
    /\ flight' = [flight EXCEPT ![t] = [is |-> "asked", n |-> cookie]]
    /\ UNCHANGED <<cookie, server, token, calls, ended, broken>>

\* Mutant: no grace, a rotated token is taken for stolen.
RotateNoGrace(t) ==
    LET n == flight[t].n IN
    /\ flight[t].is = "asked" /\ n # 0
    /\ IF n \in alive
       THEN /\ Make(n)
            /\ alive' = (alive \ {n}) \cup {made + 1}
            /\ recent' = recent \cup {n}
            /\ flight' = [flight EXCEPT ![t] = [is |-> "ok", n |-> made + 1]]
       ELSE /\ alive' = alive \ Family(n)
            /\ flight' = [flight EXCEPT ![t].is = "dead"]
            /\ UNCHANGED <<made, family, recent>>
    /\ UNCHANGED <<cookie, revoked, expired, token, status, calls, ended, broken>>

\* The API rotates the token, or ends the session.
Rotate(t) ==
    LET n == flight[t].n IN
    /\ flight[t].is = "asked" /\ n # 0
    /\ \/ /\ n \in alive
          /\ Make(n)
          /\ alive' = (alive \ {n}) \cup {made + 1}
          /\ recent' = recent \cup {n}
          /\ flight' = [flight EXCEPT ![t] = [is |-> "ok", n |-> made + 1]]
       \/ /\ n \notin recent \cup alive
          /\ alive' = alive \ Family(n)
          /\ flight' = [flight EXCEPT ![t].is = "dead"]
          /\ UNCHANGED <<made, family, recent>>
    /\ UNCHANGED <<cookie, revoked, expired, token, status, calls, ended, broken>>

\* A refusal that leaves the cookie: there was none, or another tab just had it rotated, or the
\* limiter turned the call away.
TurnAway(t) ==
    /\ flight[t].is = "asked"
    /\ flight' = [flight EXCEPT ![t] = [is |-> "left", n |-> 0]]
    /\ UNCHANGED <<cookie, server, token, status, calls, ended, broken>>

\* Any other error: the database fails before the token is consumed, or after, or getMe fails
\* when the heir is made already.
FailRotation(t) ==
    LET n == flight[t].n IN
    /\ flight[t].is = "asked" /\ n # 0
    /\ flight' = [flight EXCEPT ![t] = [is |-> "failed", n |-> 0]]
    /\ \/ UNCHANGED <<made, family, alive, recent, broken>>
       \/ /\ n \in alive
          /\ recent' = recent \cup {n}
          /\ broken' = broken \cup {family[n]}
          /\ \/ alive' = alive \ {n} /\ UNCHANGED <<made, family>>
             \/ Make(n) /\ alive' = (alive \ {n}) \cup {made + 1}
    /\ UNCHANGED <<cookie, revoked, expired, token, status, calls, ended>>

\* The calls that waited for the refresh are sent again, or give up: onSessionExpired.
ReceiveToken(t) ==
    LET n == flight[t].n IN
    /\ flight[t].is = "ok"
    /\ cookie' = n
    /\ token' = [token EXCEPT ![t] = n]
    /\ status' = [status EXCEPT ![t] = IF @ = "loading" THEN "authenticated" ELSE @]
    /\ call' = [k \in Calls |-> IF k \in Waiting(t) THEN "again" ELSE call[k]]
    /\ sent' = [k \in Calls |-> IF k \in Waiting(t) THEN n ELSE sent[k]]
    /\ flight' = [flight EXCEPT ![t] = NoFlight]
    /\ UNCHANGED <<server, logout, ended, broken>>

\* Mutant: the API removes the cookie on every refusal, a lost race included.
ReceiveRefusalClearing(t) ==
    /\ flight[t].is \in Refusals
    /\ cookie' = 0
    /\ token' = [token EXCEPT ![t] = 0]
    /\ status' = [status EXCEPT ![t] =
                     IF @ = "loading" \/ Waiting(t) # {} THEN "unauthenticated" ELSE @]
    /\ GiveUp(t)
    /\ flight' = [flight EXCEPT ![t] = NoFlight]
    /\ UNCHANGED <<server, ended, broken>>

\* Mutant: the calls that waited fail without a word to AuthProvider.
ReceiveRefusalSilently(t) ==
    /\ flight[t].is \in Refusals
    /\ cookie' = IF flight[t].is = "left" THEN cookie ELSE 0
    /\ token' = [token EXCEPT ![t] = 0]
    /\ status' = [status EXCEPT ![t] = IF @ = "loading" THEN "unauthenticated" ELSE @]
    /\ GiveUp(t)
    /\ flight' = [flight EXCEPT ![t] = NoFlight]
    /\ UNCHANGED <<server, ended, broken>>

\* A refusal: the API removes the cookie with every error but a lost race, also one that says
\* nothing about the session; the tab forgets its session in all cases.
ReceiveRefusal(t) ==
    /\ flight[t].is \in Refusals
    /\ cookie' = IF flight[t].is = "left" THEN cookie ELSE 0
    /\ token' = [token EXCEPT ![t] = 0]
    /\ status' = [status EXCEPT ![t] =
                     IF @ = "loading" \/ Waiting(t) # {} THEN "unauthenticated" ELSE @]
    /\ GiveUp(t)
    /\ flight' = [flight EXCEPT ![t] = NoFlight]
    /\ UNCHANGED <<server, ended, broken>>

\* The network fails: fetch throws, the token in memory stays until the calls that waited
\* give up.
LoseRefresh(t) ==
    /\ flight[t].is # "none"
    /\ broken' = IF flight[t].is = "ok" THEN broken \cup {family[flight[t].n]} ELSE broken
    /\ token' = IF Waiting(t) # {} THEN [token EXCEPT ![t] = 0] ELSE token
    /\ status' = [status EXCEPT ![t] =
                     IF @ = "loading" \/ Waiting(t) # {} THEN "unauthenticated" ELSE @]
    /\ GiveUp(t)
    /\ flight' = [flight EXCEPT ![t] = NoFlight]
    /\ UNCHANGED <<cookie, server, ended>>

-----------------------------------------------------------------------------
(* Calls *)

\* apiFetch reads the token in memory.
Call(k, leaving) ==
    /\ call[k] = "idle" /\ status[TabOf[k]] = "authenticated"
    /\ call' = [call EXCEPT ![k] = "sent"]
    /\ sent' = [sent EXCEPT ![k] = token[TabOf[k]]]
    /\ logout' = [logout EXCEPT ![k] = leaving]
    /\ UNCHANGED <<cookie, server, token, status, flight, ended, broken>>

\* requireAuth: TOKEN_EXPIRED, another 401, or the answer.  A logout revokes the session of
\* the cookie that came with it, and its access token; those of other tabs live on.  A retried
\* call does not wait for another refresh.
Serve(k) ==
    LET n == sent[k] IN
    /\ call[k] \in {"sent", "again"}
    /\ \/ /\ n \in ({0} \cup revoked) \ expired
          /\ call' = [call EXCEPT ![k] = "refused"]
          /\ UNCHANGED <<alive, revoked, ended>>
       \/ /\ n \in expired
          /\ call' = [call EXCEPT ![k] = IF @ = "sent" THEN "expired" ELSE "refused"]
          /\ UNCHANGED <<alive, revoked, ended>>
       \/ /\ n \notin {0} \cup revoked \cup expired
          /\ call' = [call EXCEPT ![k] = "fine"]
          /\ revoked' = IF logout[k] THEN revoked \cup {n} ELSE revoked
          /\ IF logout[k] /\ cookie # 0
             THEN alive' = alive \ Family(cookie) /\ ended' = ended \cup {family[cookie]}
             ELSE UNCHANGED <<alive, ended>>
    /\ UNCHANGED <<cookie, made, family, recent, expired, token, status, flight, sent, logout,
                   broken>>

\* TOKEN_EXPIRED: the tab has one refresh under way, whatever the number of calls.
AwaitRefresh(k) ==
    LET t == TabOf[k] IN
    /\ call[k] = "expired"
    /\ call' = [call EXCEPT ![k] = "waiting"]
    /\ flight' = IF flight[t].is = "none"
                 THEN [flight EXCEPT ![t] = [is |-> "asked", n |-> cookie]] ELSE flight
    /\ UNCHANGED <<cookie, server, token, status, sent, logout, ended, broken>>

\* Any other 401 ends the session of the tab; so does the end of a logout.
EndCall(k) ==
    LET t == TabOf[k]
        leaves == call[k] = "refused" \/ logout[k]
    IN  /\ call[k] \in {"fine", "refused"}
        /\ call' = [call EXCEPT ![k] = "idle"]
        /\ sent' = [sent EXCEPT ![k] = 0]
        /\ logout' = [logout EXCEPT ![k] = FALSE]
        /\ cookie' = IF logout[k] /\ call[k] = "fine" THEN 0 ELSE cookie
        /\ token' = IF leaves THEN [token EXCEPT ![t] = 0] ELSE token
        /\ status' = IF leaves THEN [status EXCEPT ![t] = "unauthenticated"] ELSE status
        /\ UNCHANGED <<server, flight, ended, broken>>

-----------------------------------------------------------------------------
(* The user, and time *)

\* The login form: a new session, its cookie and its access token.
Login(t) ==
    /\ status[t] = "unauthenticated"
    /\ Make(0)
    /\ alive' = alive \cup {made + 1}
    /\ cookie' = made + 1
    /\ token' = [token EXCEPT ![t] = made + 1]
    /\ status' = [status EXCEPT ![t] = "authenticated"]
    /\ UNCHANGED <<recent, revoked, expired, flight, calls, ended, broken>>

ExpireAccess(n) ==
    /\ n \in 1..made /\ n \notin expired
    /\ expired' = expired \cup {n}
    /\ UNCHANGED <<cookie, made, family, alive, recent, revoked, token, status, flight, calls,
                   ended, broken>>

\* ROTATION_GRACE_MS after a rotation; its answer may still be on its way.
EndGrace(n) ==
    /\ n \in recent
    /\ recent' = recent \ {n}
    /\ broken' = IF \E t \in Tabs : flight[t].is \in {"asked", "ok"} /\ flight[t].n # 0
                                    /\ family[flight[t].n] = family[n]
                 THEN broken \cup {family[n]} ELSE broken
    /\ UNCHANGED <<cookie, made, family, alive, revoked, expired, token, status, flight, calls,
                   ended>>

Next ==
    \/ \E t \in Tabs : \/ OpenTab(t) \/ Rotate(t) \/ TurnAway(t) \/ FailRotation(t)
                       \/ ReceiveToken(t) \/ ReceiveRefusal(t) \/ LoseRefresh(t) \/ Login(t)
    \/ \E k \in Calls : \/ \E leaving \in BOOLEAN : Call(k, leaving)
                        \/ Serve(k) \/ AwaitRefresh(k) \/ EndCall(k)
    \/ \E n \in Tokens : ExpireAccess(n) \/ EndGrace(n)

Spec == Init /\ [][Next]_vars

-----------------------------------------------------------------------------
(* Properties *)

\* However many tabs refresh at once, the cookie they share is good for the next refresh, or
\* the heir is on its way to the browser; save a session the user left, or one that lost a
\* token to a rotation that failed, or whose answer was lost or came after the grace period
\* (authController.js:75).
CookieIsGood ==
    cookie # 0 => \/ cookie \in alive
                  \/ family[cookie] \in ended \cup broken
                  \/ \E t \in Tabs : flight[t].is = "ok" /\ family[flight[t].n] = family[cookie]

\* Only a logout, the refusal of another cookie than the one in the jar, or a refresh that
\* failed on the server takes a good cookie away: the tab that lost the race leaves it to the
\* others.
CookieIsKept ==
    [][cookie' = 0 /\ cookie \in alive =>
          \/ \E k \in Calls : logout[k] /\ call[k] = "fine" /\ call'[k] = "idle"
          \/ \E t \in Tabs : /\ flight'[t] = NoFlight
                             /\ \/ flight[t].is = "dead" /\ flight[t].n # cookie
                                \/ flight[t].is = "failed"]_vars

\* A tab that shows a session has a token to call with: every way in which a refresh fails
\* ends in onSessionExpired (apiClient.js:123).
AuthenticatedHasToken == \A t \in Tabs : status[t] = "authenticated" => token[t] # 0

\* A session outlives the races of its tabs, and no tab shows one it does not have.
SessionIsUsable == []CookieIsGood /\ []AuthenticatedHasToken /\ CookieIsKept
=============================================================================
