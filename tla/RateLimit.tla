------------------------------ MODULE RateLimit ------------------------------
(***************************************************************************)
(* The counters that limit the calls of one caller (middlewares/           *)
(* rateLimit.js), kept in Redis so that every instance of the API shares   *)
(* them.  One script increments the counter and gives it its life at the   *)
(* first hit; a call over the limit makes a second round trip, for the     *)
(* time left.  Redis may be lost between the two, and restarts empty.      *)
(***************************************************************************)
EXTENDS Integers

CONSTANTS Keys,       \* a limited route and a caller
          FailClosed, \* the keys of the routes under /auth
          Calls,
          Max,        \* calls per window
          Window      \* windowSec

LimitAssumption == FailClosed \subseteq Keys /\ Max \in Nat \ {0} /\ Window \in Nat \ {0}

VARIABLES
    up,       \* Redis answers
    count,    \* count[k]: the counter, 0 when the key does not exist
    life,     \* life[k]: what is left of the key, 0 when it would stay for ever
    refusing, \* refusing[c]: the key of a call over the limit that asks for the time left
    passed    \* history: passed[k]: the calls let through since the key was created

NoKey == "none"
vars == <<up, count, life, refusing, passed>>

\* Bound: nobody calls more than twice over the limit in a window.
Bound == Max + 2

TypeOK ==
    /\ up \in BOOLEAN
    /\ count \in [Keys -> 0..Bound]
    /\ life \in [Keys -> 0..Window]
    /\ refusing \in [Calls -> Keys \cup {NoKey}]
    /\ passed \in [Keys -> 0..(Bound + 1)]

Init ==
    /\ up = TRUE
    /\ count = [k \in Keys |-> 0]
    /\ life = [k \in Keys |-> 0]
    /\ refusing = [c \in Calls |-> NoKey]
    /\ passed = [k \in Keys |-> 0]

\* Mutant: the call after the last one is let through.
OverByOne(n) == n > Max + 1

Over(n) == n > Max

LetThrough(k) == passed' = [passed EXCEPT ![k] = IF passed[k] <= Bound THEN @ + 1 ELSE @]

Outcome(c, k) ==
    IF Over(count[k] + 1)
    THEN refusing' = [refusing EXCEPT ![c] = k] /\ UNCHANGED passed
    ELSE LetThrough(k) /\ UNCHANGED refusing

\* Mutant: INCR and EXPIRE are two commands, and the second may not be reached.
HitInTwo(c, k) ==
    /\ up /\ refusing[c] = NoKey /\ count[k] < Bound
    /\ count' = [count EXCEPT ![k] = @ + 1]
    /\ life' \in {life, [life EXCEPT ![k] = IF count[k] = 0 THEN Window ELSE @]}
    /\ Outcome(c, k)
    /\ UNCHANGED up

\* Mutant: every call adds a window to the life of the counter.
HitAddsWindow(c, k) ==
    /\ up /\ refusing[c] = NoKey /\ count[k] < Bound
    /\ count' = [count EXCEPT ![k] = @ + 1]
    /\ life' = [life EXCEPT ![k] = @ + Window]
    /\ Outcome(c, k)
    /\ UNCHANGED up

\* The script: INCR, and EXPIRE when the counter is 1.
Hit(c, k) ==
    /\ up /\ refusing[c] = NoKey /\ count[k] < Bound
    /\ count' = [count EXCEPT ![k] = @ + 1]
    /\ life' = [life EXCEPT ![k] = IF count[k] = 0 THEN Window ELSE @]
    /\ Outcome(c, k)
    /\ UNCHANGED up

\* redis.ttl, then 429.
Refuse(c) ==
    /\ up /\ refusing[c] # NoKey
    /\ refusing' = [refusing EXCEPT ![c] = NoKey]
    /\ UNCHANGED <<up, count, life, passed>>

\* The catch: 503 on a route under /auth, otherwise the call goes on.
Catch(k) == IF k \in FailClosed THEN UNCHANGED passed ELSE LetThrough(k)

\* Redis does not answer the script.
HitFails(c, k) ==
    /\ ~up /\ refusing[c] = NoKey
    /\ Catch(k)
    /\ UNCHANGED <<up, count, life, refusing>>

\* Nor the call for the time left: the catch is the same.
RefuseFails(c) ==
    /\ ~up /\ refusing[c] # NoKey
    /\ Catch(refusing[c])
    /\ refusing' = [refusing EXCEPT ![c] = NoKey]
    /\ UNCHANGED <<up, count, life>>

Tick ==
    /\ life' = [k \in Keys |-> IF life[k] = 0 THEN 0 ELSE life[k] - 1]
    /\ count' = [k \in Keys |-> IF life[k] = 1 THEN 0 ELSE count[k]]
    /\ passed' = [k \in Keys |-> IF life[k] = 1 THEN 0 ELSE passed[k]]
    /\ UNCHANGED <<up, refusing>>

\* The connection is lost and found again.
Cut == up' = ~up /\ UNCHANGED <<count, life, refusing, passed>>

\* Redis restarts: nothing is persisted.
Restart ==
    /\ up' = TRUE
    /\ count' = [k \in Keys |-> 0] /\ life' = [k \in Keys |-> 0] /\ passed' = [k \in Keys |-> 0]
    /\ UNCHANGED refusing

Next ==
    \/ \E c \in Calls : \/ \E k \in Keys : Hit(c, k) \/ HitFails(c, k)
                        \/ Refuse(c) \/ RefuseFails(c)
    \/ Tick \/ Cut \/ Restart

Spec == Init /\ [][Next]_vars

-----------------------------------------------------------------------------
(* Properties *)

\* rateLimit.js:16: a caller is never locked out for ever: a counter that exists has a life.
CountersExpire == \A k \in Keys : count[k] > 0 => life[k] > 0

\* rateLimit.js:6-7: on a route under /auth no more than Max calls pass in the life of a
\* counter, whatever becomes of Redis meanwhile.
AuthIsLimited == \A k \in FailClosed : passed[k] <= Max

\* The two sides of a window: it ends, and on a route under /auth it holds.
WindowsHold == CountersExpire /\ AuthIsLimited
=============================================================================
