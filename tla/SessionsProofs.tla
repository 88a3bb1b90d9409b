---------------------------- MODULE SessionsProofs ----------------------------
(***************************************************************************)
(* Sessions, for any number of users, accounts, tokens, requests and       *)
(* processes that restart.  First the refresh tokens, as TokenSessions has *)
(* them alone: a session never forks, a race never ends one, and no        *)
(* process refuses a token for ever.  Then the composition: evictions and  *)
(* logouts last, a former password opens nothing, an erased account stays  *)
(* anonymous, however requests overlap and whatever fails.                 *)
(***************************************************************************)
EXTENDS Sessions, Integers, TLAPS

-----------------------------------------------------------------------------
(* Refresh tokens.  The family of a token is the name of a token that      *)
(* exists; one is revoked only after it gave its reason.                   *)

\* A token has a family from its creation on, named by a token that exists; what a request
\* rotates or logs out exists.
IssueInv ==
    /\ \A t \in Tokens : row[t] = "unissued" <=> family[t] = NoToken
    /\ \A t \in Tokens : row[t] # "unissued" => row[family[t]] # "unissued"
    /\ \A q \in Slots : pc[q] \in {"find", "consume", "issue"} => presented[q] \in Issued

\* A refresh revokes the family of its token only when that family is to end.
RevokeInv ==
    \A q \in Slots : pc[q] = "revoke" /\ kind[q] = "refresh" =>
        presented[q] \in Tokens /\ family[presented[q]] \in ended

\* The inductive invariant.
SessionInv == TypeOK /\ IssueInv /\ RevokeInv /\ SessionNeverForks

-----------------------------------------------------------------------------
(* Lemmas *)

\* What IssueToken creates: one token, that did not exist.
LEMMA Issuing ==
    ASSUME TypeOK, IssueInv, NEW u \in Users \cup {NoUser}, NEW f \in Tokens \cup {NoToken},
           f \in Tokens => row[f] # "unissued",
           IssueToken(u, f)
    PROVE  \E t \in Tokens :
               /\ row[t] = "unissued"
               /\ row' = [row EXCEPT ![t] = "active"]
               /\ family' = [family EXCEPT ![t] = IF f = NoToken THEN t ELSE f]
               /\ owner' \in [Tokens -> Users \cup {NoUser}]
               /\ family' \in [Tokens -> Tokens \cup {NoToken}]
               /\ row' \in [Tokens -> {"unissued", "active", "fresh", "old", "purged"}]
               /\ \A s \in Tokens : row'[s] = "unissued" <=> family'[s] = NoToken
               /\ \A s \in Tokens : row'[s] # "unissued" => row'[family'[s]] # "unissued"
               /\ \A s \in Tokens : row[s] # "unissued" => row'[s] = row[s] /\ family'[s] = family[s]
               /\ UNCHANGED expired
  <1>1. PICK t \in Tokens :
            /\ row[t] = "unissued"
            /\ row' = [row EXCEPT ![t] = "active"]
            /\ owner' = [owner EXCEPT ![t] = u]
            /\ family' = [family EXCEPT ![t] = IF f = NoToken THEN t ELSE f]
            /\ UNCHANGED expired
    BY DEF IssueToken
  <1> USE SessionAssumption DEF TypeOK
  <1>2. /\ owner' \in [Tokens -> Users \cup {NoUser}]
        /\ family' \in [Tokens -> Tokens \cup {NoToken}]
        /\ row' \in [Tokens -> {"unissued", "active", "fresh", "old", "purged"}]
    BY <1>1
  <1>3. \A s \in Tokens : s # t => row'[s] = row[s] /\ family'[s] = family[s]  BY <1>1
  <1>4. row'[t] = "active" /\ family'[t] = IF f = NoToken THEN t ELSE f  BY <1>1
  <1>5. \A s \in Tokens : row'[s] = "unissued" <=> family'[s] = NoToken
    BY <1>3, <1>4 DEF IssueInv
  <1>6. \A s \in Tokens : row[s] # "unissued" => row'[s] # "unissued"  BY <1>1, <1>3
  <1>7. ASSUME NEW s \in Tokens, row'[s] # "unissued" PROVE row'[family'[s]] # "unissued"
    <2>1. CASE s = t  BY <1>4, <1>6, <2>1
    <2>2. CASE s # t
      <3>1. row[s] # "unissued" /\ family[s] \in Tokens  BY <1>3, <1>7, <2>2 DEF IssueInv
      <3> QED BY <1>3, <1>6, <2>2, <3>1 DEF IssueInv
    <2> QED BY <2>1, <2>2
  <1> QED BY <1>1, <1>2, <1>3, <1>5, <1>7

\* The locals of a request keep their types when it ends.
LEMMA FinishTypes ==
    ASSUME TypeOK, NEW q \in Slots, Finish(q)
    PROVE  /\ pc' \in [Slots -> {"idle", "find", "consume", "issue", "login", "revoke"}]
           /\ kind' \in [Slots -> {"none", "refresh", "login", "logout", "reset", "ban", "erase"}]
           /\ presented' \in [Slots -> Tokens \cup {NoToken}]
           /\ user' \in [Slots -> Users \cup {NoUser}]
           /\ inflight' \in [Processes -> SUBSET Tokens]
           /\ \A o \in Slots : pc'[o] # "idle" => /\ o # q /\ pc'[o] = pc[o]
                                                  /\ kind'[o] = kind[o]
                                                  /\ presented'[o] = presented[o]
  <1>1. ProcessOf[q] \in Processes  BY SessionAssumption
  <1>2. inflight' \in [Processes -> SUBSET Tokens]  BY <1>1 DEF TypeOK, Finish
  <1> QED BY <1>2 DEF TypeOK, Finish

\* Beginning a request: only its own locals change.
LEMMA BeginTypes ==
    ASSUME TypeOK, NEW q \in Slots,
           NEW k \in {"refresh", "login", "logout", "reset", "ban", "erase"},
           NEW u \in Users \cup {NoUser}, NEW t \in Tokens \cup {NoToken},
           NEW w \in {"find", "login", "revoke"}, Begin(q, k, u, t, w)
    PROVE  /\ pc' \in [Slots -> {"idle", "find", "consume", "issue", "login", "revoke"}]
           /\ kind' \in [Slots -> {"none", "refresh", "login", "logout", "reset", "ban", "erase"}]
           /\ presented' \in [Slots -> Tokens \cup {NoToken}]
           /\ user' \in [Slots -> Users \cup {NoUser}]
           /\ pc[q] = "idle" /\ pc'[q] = w /\ kind'[q] = k /\ presented'[q] = t
           /\ \A o \in Slots : o # q => /\ pc'[o] = pc[o] /\ kind'[o] = kind[o]
                                        /\ presented'[o] = presented[o]
  BY DEF TypeOK, Begin

\* A step that issues no token and brings no request to "issue": the invariant is about what
\* the requests go on with.
LEMMA NoNewHead ==
    ASSUME SessionInv, TypeOK', UNCHANGED family, ended \subseteq ended',
           \A t \in Tokens : row'[t] = "unissued" <=> row[t] = "unissued",
           \A t \in Tokens : row'[t] = "active" => row[t] = "active",
           \A q \in Slots : pc'[q] \in {"find", "consume", "issue"} => presented'[q] \in Issued,
           \A q \in Slots : pc'[q] = "issue" => pc[q] = "issue" /\ presented'[q] = presented[q],
           \A q \in Slots : pc'[q] = "revoke" /\ kind'[q] = "refresh" =>
               presented'[q] \in Tokens /\ family[presented'[q]] \in ended'
    PROVE  SessionInv'
  <1>1. \A t \in Tokens : row[t] # "unissued" => family[t] \in Tokens
    BY DEF SessionInv, IssueInv, TypeOK
  <1>2. IssueInv'  BY <1>1 DEF SessionInv, IssueInv, Issued
  <1>3. RevokeInv'  BY DEF RevokeInv
  <1>4. SessionNeverForks'  BY DEF SessionInv, SessionNeverForks
  <1> QED BY <1>2, <1>3, <1>4 DEF SessionInv

-----------------------------------------------------------------------------
(* The invariant *)

LEMMA SessionInit == Init => SessionInv
  BY SessionAssumption
  DEF Init, SessionInv, TypeOK, IssueInv, RevokeInv, SessionNeverForks, Issued

LEMMA SessionStep == SessionInv /\ [Next]_vars => SessionInv'
  <1> SUFFICES ASSUME SessionInv, [Next]_vars PROVE SessionInv'  OBVIOUS
  <1>0. TypeOK /\ IssueInv /\ RevokeInv /\ SessionNeverForks  BY DEF SessionInv
  <1> USE <1>0, SessionAssumption
  <1>1. ASSUME NEW q \in Slots, OpenSession(q) PROVE SessionInv'
    <2>1. user[q] \in Users \cup {NoUser}  BY DEF TypeOK
    <2>2. PICK t \in Tokens :
              /\ row[t] = "unissued"
              /\ row' = [row EXCEPT ![t] = "active"]
              /\ family' = [family EXCEPT ![t] = t]
              /\ owner' \in [Tokens -> Users \cup {NoUser}]
              /\ family' \in [Tokens -> Tokens \cup {NoToken}]
              /\ row' \in [Tokens -> {"unissued", "active", "fresh", "old", "purged"}]
              /\ \A s \in Tokens : row'[s] = "unissued" <=> family'[s] = NoToken
              /\ \A s \in Tokens : row'[s] # "unissued" => row'[family'[s]] # "unissued"
              /\ \A s \in Tokens : row[s] # "unissued" => row'[s] = row[s] /\ family'[s] = family[s]
              /\ UNCHANGED expired
      BY <1>1, <2>1, Issuing DEF OpenSession
    <2>3. Finish(q) /\ UNCHANGED <<accounts, ended>>  BY <1>1 DEF OpenSession
    <2>4. TypeOK'  BY <2>2, <2>3, FinishTypes DEF TypeOK, accounts
    <2>5. IssueInv'
      <3>1. ASSUME NEW o \in Slots, pc'[o] \in {"find", "consume", "issue"}
            PROVE  presented'[o] \in Issued'
        <4>1. pc'[o] = pc[o] /\ presented'[o] = presented[o]  BY <2>3, <3>1, FinishTypes
        <4>2. presented[o] \in Issued  BY <3>1, <4>1 DEF IssueInv
        <4> QED BY <2>2, <4>1, <4>2 DEF Issued
      <3> QED BY <2>2, <3>1 DEF IssueInv
    <2>6. RevokeInv'
      <3>1. ASSUME NEW o \in Slots, pc'[o] = "revoke", kind'[o] = "refresh"
            PROVE  presented'[o] \in Tokens /\ family'[presented'[o]] \in ended'
        <4>1. /\ pc[o] = "revoke" /\ kind[o] = "refresh"
              /\ presented'[o] = presented[o]
          BY <2>3, <3>1, FinishTypes
        <4>2. presented[o] \in Tokens /\ family[presented[o]] \in ended  BY <4>1 DEF RevokeInv
        <4>3. row[presented[o]] # "unissued"  BY <4>2 DEF IssueInv, TypeOK
        <4> QED BY <2>2, <2>3, <4>1, <4>2, <4>3
      <3> QED BY <3>1 DEF RevokeInv
    <2>7. SessionNeverForks'
      <3>1. \A s \in Tokens : row[s] # "unissued" => s # t /\ family[s] # t
        BY <2>2 DEF IssueInv
      <3>2. row'[t] = "active" /\ family'[t] = t  BY <2>2 DEF TypeOK
      <3>3. \A s \in Tokens : s # t => row'[s] = row[s] /\ family'[s] = family[s]
        BY <2>2 DEF TypeOK
      <3>4. \A o \in Slots : pc'[o] = "issue" =>
                /\ pc[o] = "issue" /\ presented'[o] = presented[o]
                /\ presented[o] \in Tokens /\ row[presented[o]] # "unissued"
        BY <2>3, FinishTypes DEF IssueInv, Issued
      <3> QED BY <3>1, <3>2, <3>3, <3>4 DEF SessionNeverForks
    <2> QED BY <2>4, <2>5, <2>6, <2>7 DEF SessionInv
  <1>2. ASSUME NEW q \in Slots, RotateToken(q) PROVE SessionInv'
    <2> DEFINE f == family[presented[q]]
    <2>1. /\ user[q] \in Users \cup {NoUser}
          /\ presented[q] \in Tokens /\ row[presented[q]] # "unissued"
          /\ f \in Tokens /\ row[f] # "unissued"
      BY <1>2 DEF TypeOK, RotateToken, IssueInv, Issued
    <2>2. PICK t \in Tokens :
              /\ row[t] = "unissued"
              /\ row' = [row EXCEPT ![t] = "active"]
              /\ family' = [family EXCEPT ![t] = f]
              /\ owner' \in [Tokens -> Users \cup {NoUser}]
              /\ family' \in [Tokens -> Tokens \cup {NoToken}]
              /\ row' \in [Tokens -> {"unissued", "active", "fresh", "old", "purged"}]
              /\ \A s \in Tokens : row'[s] = "unissued" <=> family'[s] = NoToken
              /\ \A s \in Tokens : row'[s] # "unissued" => row'[family'[s]] # "unissued"
              /\ \A s \in Tokens : row[s] # "unissued" => row'[s] = row[s] /\ family'[s] = family[s]
              /\ UNCHANGED expired
      <3>1. f # NoToken /\ IssueToken(user[q], f)  BY <1>2, <2>1 DEF RotateToken
      <3> HIDE DEF f
      <3> QED BY <2>1, <3>1, Issuing
    <2>3. Finish(q) /\ UNCHANGED <<accounts, ended>>  BY <1>2 DEF RotateToken
    <2>4. TypeOK'  BY <2>2, <2>3, FinishTypes DEF TypeOK, accounts
    <2>5. IssueInv'
      <3>1. ASSUME NEW o \in Slots, pc'[o] \in {"find", "consume", "issue"}
            PROVE  presented'[o] \in Issued'
        <4>1. pc'[o] = pc[o] /\ presented'[o] = presented[o]  BY <2>3, <3>1, FinishTypes
        <4>2. presented[o] \in Issued  BY <3>1, <4>1 DEF IssueInv
        <4> QED BY <2>2, <4>1, <4>2 DEF Issued
      <3> QED BY <2>2, <3>1 DEF IssueInv
    <2>6. RevokeInv'
      <3>1. ASSUME NEW o \in Slots, pc'[o] = "revoke", kind'[o] = "refresh"
            PROVE  presented'[o] \in Tokens /\ family'[presented'[o]] \in ended'
        <4>1. /\ pc[o] = "revoke" /\ kind[o] = "refresh"
              /\ presented'[o] = presented[o]
          BY <2>3, <3>1, FinishTypes
        <4>2. presented[o] \in Tokens /\ family[presented[o]] \in ended  BY <4>1 DEF RevokeInv
        <4>3. row[presented[o]] # "unissued"  BY <4>2 DEF IssueInv, TypeOK
        <4> QED BY <2>2, <2>3, <4>1, <4>2, <4>3
      <3> QED BY <3>1 DEF RevokeInv
    <2>7. SessionNeverForks'
      <3>1. pc[q] = "issue"  BY <1>2 DEF RotateToken
      <3>2. row'[t] = "active" /\ family'[t] = f  BY <2>2 DEF TypeOK
      <3>3. \A s \in Tokens : s # t => row'[s] = row[s] /\ family'[s] = family[s]
        BY <2>2 DEF TypeOK
      <3>4. \A o \in Slots : pc'[o] = "issue" =>
                /\ o # q /\ pc[o] = "issue" /\ presented'[o] = presented[o]
                /\ presented[o] \in Tokens /\ presented[o] # t
        BY <2>2, <2>3, FinishTypes DEF IssueInv, Issued
      \* q was the only head of the family, and its token is the only one now.
      <3>5. \A s \in Tokens : row[s] = "active" => family[s] # f
        BY <3>1 DEF SessionNeverForks
      <3>6. \A o \in Slots : pc[o] = "issue" /\ o # q => family[presented[o]] # f
        BY <3>1 DEF SessionNeverForks
      <3> HIDE DEF f
      <3> QED BY <3>2, <3>3, <3>4, <3>5, <3>6 DEF SessionNeverForks
    <2> QED BY <2>4, <2>5, <2>6, <2>7 DEF SessionInv
  <1>3. ASSUME NEW q \in Slots, FindToken(q) PROVE SessionInv'
    <2> DEFINE t == presented[q]
    <2>1. /\ pc[q] = "find" /\ t \in Tokens /\ row[t] # "unissued" /\ family[t] \in Tokens
          /\ UNCHANGED <<tokens, accounts>>
      BY <1>3 DEF FindToken, IssueInv, Issued, TypeOK
    <2>2. \/ Goto(q, "revoke") /\ ended' = ended \cup {family[t]}
          \/ Goto(q, "consume") /\ ended' = ended
          \/ Finish(q) /\ ended' = ended
      <3> DEFINE replayed == row[t] = "old"
                 unwelcome == row[t] = "active" /\ t \notin expired
                                  /\ user[q] \in banned \cup erased
      <3>1. /\ CASE replayed \/ unwelcome -> Goto(q, "revoke")
                 [] row[t] = "active" /\ t \notin expired /\ ~unwelcome -> Goto(q, "consume")
                 [] OTHER -> Finish(q)
            /\ ended' = IF replayed \/ unwelcome THEN ended \cup {family[t]} ELSE ended
        BY <1>3 DEF FindToken
      <3>2. replayed /\ row[t] = "active" => FALSE  OBVIOUS
      <3> HIDE DEF replayed, unwelcome
      <3>3. CASE replayed \/ unwelcome
        <4>1. ~(row[t] = "active" /\ t \notin expired /\ ~unwelcome)  BY <3>2, <3>3
        <4> QED BY <3>1, <3>3, <4>1
      <3>4. CASE ~(replayed \/ unwelcome)  BY <3>1, <3>4
      <3> QED BY <3>3, <3>4
    <2>3. CASE Goto(q, "revoke") /\ ended' = ended \cup {family[t]}
      <3>1. /\ pc' = [pc EXCEPT ![q] = "revoke"]
            /\ UNCHANGED <<request, inflight>>
        BY <2>3 DEF Goto
      <3>2. TypeOK'  BY <2>1, <2>3, <3>1 DEF TypeOK, tokens, accounts, request
      <3>3. \A o \in Slots : pc'[o] \in {"find", "consume", "issue"} => presented'[o] \in Issued
        BY <3>1 DEF IssueInv, TypeOK, request
      <3>4. \A o \in Slots : pc'[o] = "revoke" /\ kind'[o] = "refresh" =>
                presented'[o] \in Tokens /\ family[presented'[o]] \in ended'
        BY <2>1, <2>3, <3>1 DEF RevokeInv, TypeOK, request
      <3>5. \A o \in Slots : pc'[o] = "issue" => pc[o] = "issue" /\ presented'[o] = presented[o]
        BY <3>1 DEF TypeOK, request
      <3> QED BY <2>1, <2>3, <3>2, <3>3, <3>4, <3>5, NoNewHead DEF tokens
    <2>4. CASE Goto(q, "consume") /\ ended' = ended
      <3>1. /\ pc' = [pc EXCEPT ![q] = "consume"]
            /\ UNCHANGED <<request, inflight>>
        BY <2>4 DEF Goto
      <3>2. TypeOK'  BY <2>1, <2>4, <3>1 DEF TypeOK, tokens, accounts, request
      <3>3. \A o \in Slots : pc'[o] \in {"find", "consume", "issue"} => presented'[o] \in Issued
        BY <2>1, <3>1 DEF IssueInv, TypeOK, request, Issued
      <3>4. \A o \in Slots : pc'[o] = "revoke" /\ kind'[o] = "refresh" =>
                presented'[o] \in Tokens /\ family[presented'[o]] \in ended'
        BY <2>1, <2>4, <3>1 DEF RevokeInv, TypeOK, request
      <3>5. \A o \in Slots : pc'[o] = "issue" => pc[o] = "issue" /\ presented'[o] = presented[o]
        BY <3>1 DEF TypeOK, request
      <3> QED BY <2>1, <2>4, <3>2, <3>3, <3>4, <3>5, NoNewHead DEF tokens
    <2>5. CASE Finish(q) /\ ended' = ended
      <3>1. TypeOK'  BY <2>1, <2>5, FinishTypes DEF TypeOK, tokens, accounts
      <3>2. \A o \in Slots : pc'[o] \in {"find", "consume", "issue"} => presented'[o] \in Issued
        BY <2>5, FinishTypes DEF IssueInv
      <3>3. \A o \in Slots : pc'[o] = "revoke" /\ kind'[o] = "refresh" =>
                presented'[o] \in Tokens /\ family[presented'[o]] \in ended'
        BY <2>5, FinishTypes DEF RevokeInv
      <3>4. \A o \in Slots : pc'[o] = "issue" => pc[o] = "issue" /\ presented'[o] = presented[o]
        BY <2>5, FinishTypes
      <3> QED BY <2>1, <2>5, <3>1, <3>2, <3>3, <3>4, NoNewHead DEF tokens
    <2> QED BY <2>2, <2>3, <2>4, <2>5
  <1>4. ASSUME NEW q \in Slots, ConsumeToken(q) PROVE SessionInv'
    <2> DEFINE t == presented[q]
    <2>1. /\ pc[q] = "consume" /\ t \in Tokens /\ row[t] # "unissued" /\ family[t] \in Tokens
          /\ UNCHANGED <<expired, owner, family, accounts, ended>>
      BY <1>4 DEF ConsumeToken, IssueInv, Issued, TypeOK
    <2>2. CASE row[t] = "active"
      <3>1. /\ row' = [row EXCEPT ![t] = "fresh"]
            /\ pc' = [pc EXCEPT ![q] = "issue"]
            /\ UNCHANGED <<request, inflight>>
        BY <1>4, <2>2 DEF ConsumeToken, Goto
      <3>2. TypeOK'  BY <2>1, <3>1 DEF TypeOK, accounts, request
      <3>3. \A s \in Tokens : row'[s] = "unissued" <=> row[s] = "unissued"
        BY <2>1, <3>1 DEF TypeOK
      <3>4. \A s \in Tokens : row'[s] = "active" => row[s] = "active" /\ s # t
        BY <3>1 DEF TypeOK
      <3>5. \A o \in Slots : o # q => pc'[o] = pc[o]  BY <3>1 DEF TypeOK
      <3>6. presented' = presented /\ kind' = kind /\ family' = family /\ pc'[q] = "issue"
        BY <2>1, <3>1 DEF request, TypeOK
      <3>7. IssueInv'
        BY <2>1, <3>3, <3>5, <3>6 DEF IssueInv, Issued, TypeOK
      <3>8. RevokeInv'  BY <2>1, <3>5, <3>6 DEF RevokeInv
      \* The token was the only head of its family, and q is the only one now.
      <3>9. \A o \in Slots : pc[o] = "issue" => family[presented[o]] # family[t]
        BY <2>1, <2>2 DEF SessionNeverForks
      <3>10. \A s \in Tokens : row[s] = "active" /\ s # t => family[s] # family[t]
        BY <2>1, <2>2 DEF SessionNeverForks
      <3>11. SessionNeverForks'
        <4> HIDE DEF t
        <4>1. t = presented[q]  BY DEF t
        <4> QED BY <3>4, <3>5, <3>6, <3>9, <3>10, <4>1 DEF SessionNeverForks
      <3> QED BY <3>2, <3>7, <3>8, <3>11 DEF SessionInv
    <2>3. CASE row[t] # "active"
      <3>0. Finish(q) /\ UNCHANGED row  BY <1>4, <2>3 DEF ConsumeToken
      <3>1. TypeOK'  BY <2>1, <3>0, FinishTypes DEF TypeOK, accounts
      <3>2. \A o \in Slots : pc'[o] \in {"find", "consume", "issue"} => presented'[o] \in Issued
        BY <3>0, FinishTypes DEF IssueInv
      <3>3. \A o \in Slots : pc'[o] = "revoke" /\ kind'[o] = "refresh" =>
                presented'[o] \in Tokens /\ family[presented'[o]] \in ended'
        BY <2>1, <3>0, FinishTypes DEF RevokeInv
      <3>4. \A o \in Slots : pc'[o] = "issue" => pc[o] = "issue" /\ presented'[o] = presented[o]
        BY <3>0, FinishTypes
      <3> QED BY <2>1, <3>0, <3>1, <3>2, <3>3, <3>4, NoNewHead
    <2> QED BY <2>2, <2>3
  <1>5. ASSUME NEW q \in Slots, RevokeActive(q) PROVE SessionInv'
    <2>1. /\ row' = [t \in Tokens |-> IF row[t] = "active" /\ InScope(q, t) THEN "fresh" ELSE row[t]]
          /\ ended' = ended \cup EndedBy(q)
          /\ Finish(q)
          /\ UNCHANGED <<expired, owner, family, accounts>>
      BY <1>5 DEF RevokeActive
    <2>2. /\ row' \in [Tokens -> {"unissued", "active", "fresh", "old", "purged"}]
          /\ \A t \in Tokens : row'[t] = "unissued" <=> row[t] = "unissued"
          /\ \A t \in Tokens : row'[t] = "active" => row[t] = "active"
      BY <2>1 DEF TypeOK
    <2>3. EndedBy(q) \subseteq Tokens  BY DEF EndedBy, Issued, IssueInv, TypeOK
    <2>4. TypeOK'  BY <2>1, <2>2, <2>3, FinishTypes DEF TypeOK, accounts
    <2>5. \A o \in Slots : pc'[o] \in {"find", "consume", "issue"} => presented'[o] \in Issued
      BY <2>1, FinishTypes DEF IssueInv
    <2>6. \A o \in Slots : pc'[o] = "revoke" /\ kind'[o] = "refresh" =>
              presented'[o] \in Tokens /\ family[presented'[o]] \in ended'
      BY <2>1, FinishTypes DEF RevokeInv
    <2>7. \A o \in Slots : pc'[o] = "issue" => pc[o] = "issue" /\ presented'[o] = presented[o]
      BY <2>1, FinishTypes
    <2> QED BY <2>1, <2>2, <2>4, <2>5, <2>6, <2>7, NoNewHead
  <1>6. ASSUME NEW q \in Slots, NEW u \in Users,
               Login(q, u) \/ ResetPassword(q, u) \/ BanUser(q, u) \/ AnonymizeAccount(q, u)
        PROVE  SessionInv'
    <2>1. PICK k \in {"login", "reset", "ban", "erase"}, w \in {"login", "revoke"} :
              Begin(q, k, u, NoToken, w)
      BY <1>6 DEF Login, ResetPassword, BanUser, AnonymizeAccount
    <2>2. /\ UNCHANGED <<tokens, inflight, ended>>
          /\ banned' \subseteq Users /\ erased' \subseteq Users
      BY <1>6 DEF Login, ResetPassword, BanUser, AnonymizeAccount, accounts, tokens, TypeOK
    <2>3. /\ k \in {"refresh", "login", "logout", "reset", "ban", "erase"}
          /\ w \in {"find", "login", "revoke"}
          /\ u \in Users \cup {NoUser} /\ NoToken \in Tokens \cup {NoToken}
      OBVIOUS
    <2>4. TypeOK'  BY <2>1, <2>2, <2>3, BeginTypes DEF TypeOK, tokens
    <2>5. \A o \in Slots : pc'[o] \in {"find", "consume", "issue"} => presented'[o] \in Issued
      BY <2>1, <2>3, BeginTypes DEF IssueInv
    <2>6. \A o \in Slots : pc'[o] = "revoke" /\ kind'[o] = "refresh" =>
              presented'[o] \in Tokens /\ family[presented'[o]] \in ended'
      BY <2>1, <2>2, <2>3, BeginTypes DEF RevokeInv
    <2>7. \A o \in Slots : pc'[o] = "issue" => pc[o] = "issue" /\ presented'[o] = presented[o]
      BY <2>1, <2>3, BeginTypes
    <2> QED BY <2>2, <2>4, <2>5, <2>6, <2>7, NoNewHead DEF tokens
  <1>7. ASSUME NEW q \in Slots, NEW t \in Issued, Refresh(q, t) \/ Logout(q, t)
        PROVE  SessionInv'
    <2>1. PICK k \in {"refresh", "logout"}, w \in {"find", "revoke"} :
              Begin(q, k, owner[t], t, w) /\ (k = "refresh" => w = "find")
      BY <1>7 DEF Refresh, Logout
    <2>2. t \in Tokens /\ owner[t] \in Users \cup {NoUser}  BY DEF Issued, TypeOK
    <2>3. /\ UNCHANGED <<tokens, accounts, ended>>
          /\ inflight' \in [Processes -> SUBSET Tokens]
      BY <1>7, <2>2 DEF Refresh, Logout, TypeOK
    <2>4. /\ k \in {"refresh", "login", "logout", "reset", "ban", "erase"}
          /\ w \in {"find", "login", "revoke"}
          /\ t \in Tokens \cup {NoToken}
      BY <2>2
    <2>5. TypeOK'  BY <2>1, <2>2, <2>3, <2>4, BeginTypes DEF TypeOK, tokens, accounts
    <2>6. \A o \in Slots : pc'[o] \in {"find", "consume", "issue"} => presented'[o] \in Issued
      BY <2>1, <2>2, <2>4, BeginTypes DEF IssueInv
    <2>7. \A o \in Slots : pc'[o] = "revoke" /\ kind'[o] = "refresh" =>
              presented'[o] \in Tokens /\ family[presented'[o]] \in ended'
      BY <2>1, <2>2, <2>3, <2>4, BeginTypes DEF RevokeInv
    <2>8. \A o \in Slots : pc'[o] = "issue" => pc[o] = "issue" /\ presented'[o] = presented[o]
      BY <2>1, <2>2, <2>4, BeginTypes
    <2> QED BY <2>3, <2>5, <2>6, <2>7, <2>8, NoNewHead DEF tokens
  <1>8. ASSUME NEW u \in Users, UnbanUser(u) PROVE SessionInv'
    <2>1. TypeOK'  BY <1>8 DEF UnbanUser, TypeOK, tokens, request
    <2> QED BY <1>8, <2>1 DEF UnbanUser, tokens, request, SessionInv, IssueInv, RevokeInv,
                            SessionNeverForks, Issued
  <1>9. ASSUME NEW t \in Tokens, GraceEnds(t) \/ Expire(t) PROVE SessionInv'
    <2>1. TypeOK'  BY <1>9 DEF GraceEnds, Expire, TypeOK, accounts, request
    <2>2. /\ UNCHANGED <<family, ended, pc, request>>
          /\ \A s \in Tokens : row'[s] = "unissued" <=> row[s] = "unissued"
          /\ \A s \in Tokens : row'[s] = "active" => row[s] = "active"
      BY <1>9 DEF GraceEnds, Expire, TypeOK
    <2> QED BY <2>1, <2>2, NoNewHead DEF request, IssueInv, RevokeInv
  <1>10. CASE Purge
    <2>1. PICK gone \in SUBSET {t \in Issued : row[t] = "old"} :
              row' = [t \in Tokens |-> IF t \in gone \/ (t \in Issued /\ t \in expired)
                                      THEN "purged" ELSE row[t]]
      BY <1>10 DEF Purge
    <2>2. UNCHANGED <<expired, owner, family, accounts, inflight, pc, request, ended>>
      BY <1>10 DEF Purge
    <2>3. /\ row' \in [Tokens -> {"unissued", "active", "fresh", "old", "purged"}]
          /\ \A s \in Tokens : row'[s] = "unissued" <=> row[s] = "unissued"
          /\ \A s \in Tokens : row'[s] = "active" => row[s] = "active"
      BY <2>1 DEF TypeOK, Issued
    <2>4. TypeOK'  BY <2>2, <2>3 DEF TypeOK, accounts, request
    <2> QED BY <2>2, <2>3, <2>4, NoNewHead DEF request, IssueInv, RevokeInv
  <1>11. ASSUME NEW p \in Processes, Restart(p) PROVE SessionInv'
    <2> DEFINE here == {q \in Slots : ProcessOf[q] = p}
    <2>1. /\ pc' = [q \in Slots |-> IF q \in here THEN "idle" ELSE pc[q]]
          /\ kind' = [q \in Slots |-> IF q \in here THEN "none" ELSE kind[q]]
          /\ user' = [q \in Slots |-> IF q \in here THEN NoUser ELSE user[q]]
          /\ presented' = [q \in Slots |-> IF q \in here THEN NoToken ELSE presented[q]]
          /\ inflight' = [inflight EXCEPT ![p] = {}]
          /\ ended' = ended \cup {family[presented[q]] : q \in {o \in here : pc[o] = "issue"}}
          /\ UNCHANGED <<tokens, accounts>>
      BY <1>11 DEF Restart
    <2>2. \A q \in Slots : pc[q] = "issue" => family[presented[q]] \in Tokens
      BY DEF IssueInv, Issued, TypeOK
    <2>3. ended' \subseteq Tokens  BY <2>1, <2>2 DEF TypeOK
    <2>4. TypeOK'  BY <2>1, <2>3 DEF TypeOK, tokens, accounts
    <2>5. \A o \in Slots : pc'[o] # "idle" =>
              pc'[o] = pc[o] /\ kind'[o] = kind[o] /\ presented'[o] = presented[o]
      BY <2>1
    <2>6. \A o \in Slots : pc'[o] \in {"find", "consume", "issue"} => presented'[o] \in Issued
      BY <2>5 DEF IssueInv
    <2>7. \A o \in Slots : pc'[o] = "revoke" /\ kind'[o] = "refresh" =>
              presented'[o] \in Tokens /\ family[presented'[o]] \in ended'
      BY <2>1, <2>5 DEF RevokeInv
    <2>8. \A o \in Slots : pc'[o] = "issue" => pc[o] = "issue" /\ presented'[o] = presented[o]
      BY <2>5
    <2> QED BY <2>1, <2>4, <2>6, <2>7, <2>8, NoNewHead DEF tokens
  <1>12. CASE UNCHANGED vars
    BY <1>12 DEF vars, tokens, accounts, request, SessionInv, TypeOK, IssueInv, RevokeInv,
                 SessionNeverForks, Issued
  <1> QED BY <1>1, <1>2, <1>3, <1>4, <1>5, <1>6, <1>7, <1>8, <1>9, <1>10, <1>11, <1>12
          DEF Next, Continue, Serve

LEMMA Inductive == Spec => []SessionInv
  BY SessionInit, SessionStep, PTL DEF Spec

\* Every variable of the sessions keeps its type.
THEOREM TypeCorrect == Spec => []TypeOK
  <1>1. SessionInv => TypeOK  BY DEF SessionInv
  <1> QED BY <1>1, Inductive, PTL

\* However tabs and processes present the tokens of a session, and whichever process dies,
\* the chain of rotations never has two ends.
THEOREM NeverForks == Spec => []SessionNeverForks
  <1>1. SessionInv => SessionNeverForks  BY DEF SessionInv
  <1> QED BY <1>1, Inductive, PTL

-----------------------------------------------------------------------------
(* What a race costs: nothing *)

\* Family f is over, alive, or has an expired token.
Accounted(f) == f \in ended \/ Heads(f) # {} \/ \E s \in expired : family[s] = f

\* A step that keeps the issued tokens, what is over or expired, and a head to every family
\* it does not end.
LEMMA KeepsAccounts ==
    ASSUME TypeOK, RaceKeepsSession, UNCHANGED family,
           ended \subseteq ended', expired \subseteq expired',
           \A t \in Tokens : row'[t] = "unissued" <=> row[t] = "unissued",
           \A t \in Tokens : row[t] = "active" =>
               \/ row'[t] = "active"
               \/ family[t] \in ended'
               \/ t \in expired
               \/ \E q \in Slots : pc'[q] = "issue" /\ presented'[q] = t,
           \A q \in Slots : pc[q] = "issue" =>
               \/ pc'[q] = "issue" /\ presented'[q] = presented[q]
               \/ family[presented[q]] \in ended'
    PROVE  RaceKeepsSession'
  <1> SUFFICES ASSUME NEW t \in Issued' PROVE Accounted(family[t])'
    BY DEF RaceKeepsSession, Accounted
  <1>1. t \in Issued /\ t \in Tokens  BY DEF Issued
  <1>2. Accounted(family[t])  BY <1>1 DEF RaceKeepsSession, Accounted
  <1>3. CASE family[t] \in ended \/ \E s \in expired : family[s] = family[t]
    BY <1>3 DEF Accounted
  <1>4. ASSUME NEW s \in Tokens, row[s] = "active", family[s] = family[t]
        PROVE  Accounted(family[t])'
    BY <1>4 DEF Accounted, Heads
  <1>5. ASSUME NEW q \in Slots, pc[q] = "issue", family[presented[q]] = family[t]
        PROVE  Accounted(family[t])'
    BY <1>5 DEF Accounted, Heads
  <1> QED BY <1>2, <1>3, <1>4, <1>5 DEF Accounted, Heads

LEMMA RaceStep == SessionInv /\ RaceKeepsSession /\ [Next]_vars => RaceKeepsSession'
  <1> SUFFICES ASSUME SessionInv, RaceKeepsSession, [Next]_vars PROVE RaceKeepsSession'  OBVIOUS
  <1>0. TypeOK /\ IssueInv /\ RevokeInv  BY DEF SessionInv
  <1> USE <1>0, SessionAssumption
  <1>1. ASSUME NEW q \in Slots, OpenSession(q) \/ RotateToken(q) PROVE RaceKeepsSession'
    <2> DEFINE f == IF pc[q] = "login" THEN NoToken ELSE family[presented[q]]
    <2>1. /\ f \in Tokens \cup {NoToken}
          /\ f \in Tokens => row[f] # "unissued"
          /\ user[q] \in Users \cup {NoUser}
          /\ IssueToken(user[q], f) /\ Finish(q) /\ UNCHANGED ended
          /\ pc[q] = "issue" => f = family[presented[q]] /\ f # NoToken
      BY <1>1 DEF OpenSession, RotateToken, IssueInv, Issued, TypeOK
    <2>2. PICK n \in Tokens :
              /\ row[n] = "unissued"
              /\ row' = [row EXCEPT ![n] = "active"]
              /\ family' = [family EXCEPT ![n] = IF f = NoToken THEN n ELSE f]
              /\ \A s \in Tokens : row[s] # "unissued" => row'[s] = row[s] /\ family'[s] = family[s]
              /\ UNCHANGED expired
      <3> HIDE DEF f
      <3> QED BY <2>1, Issuing
    <2>3. SUFFICES ASSUME NEW t \in Issued' PROVE Accounted(family[t])'
      BY DEF RaceKeepsSession, Accounted
    <2>4. row'[n] = "active"  BY <2>2 DEF TypeOK
    <2>5. CASE t = n  BY <2>4, <2>5 DEF Accounted, Heads
    <2>6. CASE t # n
      <3>1. t \in Issued /\ family'[t] = family[t]  BY <2>2, <2>6 DEF Issued, TypeOK
      <3>2. Accounted(family[t])  BY <3>1 DEF RaceKeepsSession, Accounted
      <3>3. CASE family[t] \in ended  BY <2>1, <3>1, <3>3 DEF Accounted
      <3>4. ASSUME NEW s \in expired, family[s] = family[t] PROVE Accounted(family[t])'
        <4>1. family[t] # NoToken /\ s \in Tokens  BY <3>1 DEF IssueInv, Issued, TypeOK
        <4>2. row[s] # "unissued"  BY <3>4, <4>1 DEF IssueInv
        <4> QED BY <2>2, <3>1, <3>4, <4>1, <4>2 DEF Accounted
      <3>5. ASSUME NEW s \in Tokens, row[s] = "active", family[s] = family[t]
            PROVE  Accounted(family[t])'
        BY <2>2, <3>1, <3>5 DEF Accounted, Heads
      <3>6. ASSUME NEW o \in Slots, pc[o] = "issue", family[presented[o]] = family[t]
            PROVE  Accounted(family[t])'
        <4>1. CASE o = q
          <5>1. family'[n] = family'[t]  BY <2>1, <2>2, <3>1, <3>6, <4>1 DEF TypeOK
          <5> QED BY <2>4, <5>1 DEF Accounted, Heads
        <4>2. CASE o # q
          <5>1. presented[o] \in Issued  BY <3>6 DEF IssueInv
          <5>2. pc'[o] = "issue" /\ presented'[o] = presented[o]
            BY <2>1, <3>6, <4>2 DEF Finish, TypeOK
          <5> QED BY <2>2, <3>1, <3>6, <5>1, <5>2 DEF Accounted, Heads, Issued
        <4> QED BY <4>1, <4>2
      <3> QED BY <3>2, <3>3, <3>4, <3>5, <3>6 DEF Accounted, Heads
    <2> QED BY <2>5, <2>6
  <1>2. ASSUME NEW q \in Slots, FindToken(q) \/ ConsumeToken(q) \/ RevokeActive(q)
        PROVE  RaceKeepsSession'
    <2>1. /\ UNCHANGED <<family, expired>> /\ ended \subseteq ended'
          /\ pc[q] \in {"find", "consume", "revoke"}
          /\ \A t \in Tokens : row'[t] = "unissued" <=> row[t] = "unissued"
      BY <1>2 DEF FindToken, ConsumeToken, RevokeActive, tokens, TypeOK
    <2>2. \A o \in Slots : pc[o] = "issue" => pc'[o] = "issue" /\ presented'[o] = presented[o]
      BY <1>2, <2>1 DEF FindToken, ConsumeToken, RevokeActive, Goto, Finish, request, TypeOK
    <2>3. ASSUME NEW t \in Tokens, row[t] = "active"
          PROVE  \/ row'[t] = "active" \/ family[t] \in ended'
                 \/ \E o \in Slots : pc'[o] = "issue" /\ presented'[o] = t
      <3>1. CASE FindToken(q)  BY <2>3, <3>1 DEF FindToken, tokens
      <3>2. CASE ConsumeToken(q)
        <4>1. CASE t = presented[q]
          BY <2>3, <3>2, <4>1 DEF ConsumeToken, Goto, request, TypeOK
        <4>2. CASE t # presented[q]  BY <2>3, <3>2, <4>2 DEF ConsumeToken, TypeOK
        <4> QED BY <4>1, <4>2
      <3>3. CASE RevokeActive(q)
        <4>1. CASE ~InScope(q, t)  BY <2>3, <3>3, <4>1 DEF RevokeActive
        <4>2. CASE InScope(q, t) /\ kind[q] = "refresh"
          <5>1. family[t] = family[presented[q]]  BY <4>2 DEF InScope
          <5>2. family[presented[q]] \in ended  BY <3>3, <4>2 DEF RevokeActive, RevokeInv
          <5> QED BY <2>1, <5>1, <5>2
        <4>3. CASE InScope(q, t) /\ kind[q] # "refresh"
          <5>1. t \in Issued  BY <2>3 DEF Issued
          <5>2. family[t] \in EndedBy(q)  BY <4>3, <5>1 DEF EndedBy
          <5> QED BY <3>3, <5>2 DEF RevokeActive
        <4> QED BY <4>1, <4>2, <4>3
      <3> QED BY <1>2, <3>1, <3>2, <3>3
    <2> QED BY <2>1, <2>2, <2>3, KeepsAccounts
  <1>3. ASSUME NEW q \in Slots, Serve(q) PROVE RaceKeepsSession'
    <2>1. /\ UNCHANGED <<tokens, ended>> /\ pc[q] = "idle"
          /\ \A o \in Slots : o # q => pc'[o] = pc[o] /\ presented'[o] = presented[o]
      BY <1>3 DEF Serve, Login, ResetPassword, BanUser, AnonymizeAccount, Refresh, Logout,
                  Begin, TypeOK
    <2> QED BY <2>1, KeepsAccounts DEF tokens
  <1>4. ASSUME NEW u \in Users, UnbanUser(u) PROVE RaceKeepsSession'
    BY <1>4, KeepsAccounts DEF UnbanUser, tokens, request
  <1>5. ASSUME NEW t \in Tokens, GraceEnds(t) \/ Expire(t) PROVE RaceKeepsSession'
    <2>1. /\ UNCHANGED <<family, ended, pc, request>> /\ expired \subseteq expired'
          /\ \A s \in Tokens : row'[s] = "unissued" <=> row[s] = "unissued"
          /\ \A s \in Tokens : row[s] = "active" => row'[s] = "active"
      BY <1>5 DEF GraceEnds, Expire, TypeOK
    <2> QED BY <2>1, KeepsAccounts DEF request
  <1>6. CASE Purge
    <2>1. /\ UNCHANGED <<family, ended, expired, pc, request>>
          /\ \A s \in Tokens : row'[s] = "unissued" <=> row[s] = "unissued"
          /\ \A s \in Tokens : row[s] = "active" => row'[s] = "active" \/ s \in expired
      BY <1>6 DEF Purge, Issued, TypeOK
    <2> QED BY <2>1, KeepsAccounts DEF request
  <1>7. ASSUME NEW p \in Processes, Restart(p) PROVE RaceKeepsSession'
    <2>1. /\ UNCHANGED tokens /\ ended \subseteq ended'
          /\ \A q \in Slots : pc[q] = "issue" =>
                 \/ pc'[q] = "issue" /\ presented'[q] = presented[q]
                 \/ family[presented[q]] \in ended'
      BY <1>7 DEF Restart
    <2> QED BY <2>1, KeepsAccounts DEF tokens
  <1>8. CASE UNCHANGED vars
    BY <1>8, KeepsAccounts DEF vars, tokens, request
  <1> QED BY <1>1, <1>2, <1>3, <1>4, <1>5, <1>6, <1>7, <1>8 DEF Next, Continue

\* Losing a race, a lost answer or a restart elsewhere costs nobody the session: unless the
\* session was ended on purpose, replayed, cut in two or expired, it can be renewed.
THEOREM RacesAreHarmless == Spec => []RaceKeepsSession
  <1>1. Init => RaceKeepsSession  BY DEF Init, RaceKeepsSession, Issued
  <1>2. SessionInv /\ RaceKeepsSession /\ [Next]_vars => RaceKeepsSession'  BY RaceStep
  <1> QED BY <1>1, <1>2, Inductive, PTL DEF Spec

-----------------------------------------------------------------------------
(* The set in memory *)

LEMMA InflightStep == TypeOK /\ InflightIsServed /\ [Next]_vars => InflightIsServed'
  <1> SUFFICES ASSUME TypeOK, InflightIsServed, [Next]_vars PROVE InflightIsServed'  OBVIOUS
  <1> USE SessionAssumption
  <1>1. ASSUME NEW q \in Slots, Finish(q) PROVE InflightIsServed'
    <2> SUFFICES ASSUME NEW p \in Processes, NEW t \in inflight'[p]
                 PROVE  \E o \in Slots : /\ ProcessOf[o] = p /\ pc'[o] # "idle"
                                         /\ kind'[o] = "refresh" /\ presented'[o] = t
      BY DEF InflightIsServed
    <2>1. t \in inflight[p]
          /\ ~(kind[q] = "refresh" /\ ProcessOf[q] = p /\ presented[q] = t)
      BY <1>1 DEF Finish, TypeOK
    <2>2. PICK o \in Slots : /\ ProcessOf[o] = p /\ pc[o] # "idle"
                              /\ kind[o] = "refresh" /\ presented[o] = t
      BY <2>1 DEF InflightIsServed
    <2> QED BY <1>1, <2>1, <2>2 DEF Finish, TypeOK
  <1>2. ASSUME NEW q \in Slots, NEW w \in {"revoke", "consume", "issue"}, Goto(q, w)
        PROVE  InflightIsServed'
    BY <1>2 DEF Goto, request, InflightIsServed, TypeOK
  <1>3. ASSUME NEW q \in Slots, Continue(q) PROVE InflightIsServed'
    BY <1>1, <1>2, <1>3 DEF Continue, OpenSession, FindToken, ConsumeToken, RotateToken, RevokeActive
  <1>4. ASSUME NEW q \in Slots, Serve(q) PROVE InflightIsServed'
    <2>1. /\ pc[q] = "idle"
          /\ \A o \in Slots : o # q => /\ pc'[o] = pc[o] /\ kind'[o] = kind[o]
                                       /\ presented'[o] = presented[o]
      BY <1>4 DEF Serve, Login, ResetPassword, BanUser, AnonymizeAccount, Refresh, Logout,
                  Begin, TypeOK
    <2>2. CASE UNCHANGED inflight  BY <2>1, <2>2 DEF InflightIsServed
    <2>3. CASE \E t \in Issued : Refresh(q, t)
      <3>1. PICK t \in Issued : Refresh(q, t)  BY <2>3
      <3>2. pc'[q] = "find" /\ kind'[q] = "refresh" /\ presented'[q] = t
        BY <3>1 DEF Refresh, Begin, TypeOK
      <3>3. inflight' = [inflight EXCEPT ![ProcessOf[q]] = @ \cup {t}]  BY <3>1 DEF Refresh
      <3>4. \A p \in Processes : \A s \in inflight'[p] :
                s \in inflight[p] \/ (s = t /\ p = ProcessOf[q])
        BY <3>3 DEF TypeOK
      <3> QED BY <2>1, <3>2, <3>4 DEF InflightIsServed
    <2> QED BY <1>4, <2>2, <2>3
        DEF Serve, Login, ResetPassword, BanUser, AnonymizeAccount, Logout
  <1>5. CASE \/ \E u \in Users : UnbanUser(u)
             \/ \E t \in Tokens : GraceEnds(t) \/ Expire(t)
             \/ Purge
             \/ UNCHANGED vars
    BY <1>5 DEF UnbanUser, GraceEnds, Expire, Purge, vars, request, InflightIsServed
  <1>6. ASSUME NEW p \in Processes, Restart(p) PROVE InflightIsServed'
    <2>1. /\ inflight' = [inflight EXCEPT ![p] = {}]
          /\ \A o \in Slots : ProcessOf[o] # p =>
                 pc'[o] = pc[o] /\ kind'[o] = kind[o] /\ presented'[o] = presented[o]
      BY <1>6 DEF Restart
    <2> QED BY <2>1 DEF InflightIsServed, TypeOK
  <1> QED BY <1>3, <1>4, <1>5, <1>6 DEF Next

\* Whatever becomes of a rotation, its process does not go on refusing the token.
THEOREM InflightServed == Spec => []InflightIsServed
  <1>1. Init => InflightIsServed  BY DEF Init, InflightIsServed
  <1>2. TypeOK /\ InflightIsServed /\ [Next]_vars => InflightIsServed'  BY InflightStep
  <1> QED BY <1>1, <1>2, TypeCorrect, PTL DEF Spec

-----------------------------------------------------------------------------
(* Access tokens.  The invariant compares lives: a key that must stop a    *)
(* token expires no sooner than the token does.                            *)

\* No token comes from the future.
Clock == \A t \in AccessTokens : issued[t] <= now

\* A request under way is about a user, and the token it came with was issued to somebody.
RequestsKnown ==
    \A q \in Requests :
        /\ accountPc[q] # "idle" => actor[q] \in Users
        /\ mine[q] # NoToken => mine[q] \in AccessTokens /\ holder[mine[q]] \in Users
        /\ accountPc[q] \in {"family", "jti"} => mine[q] # NoToken

\* The key of an evicted user outlives the tokens issued before the eviction.
UserKeysOutlive ==
    \A t \in AccessTokens : holder[t] \in sealed /\ A!Barred(holder[t]) /\ t \notin lateTokens =>
        issued[t] + TTL <= userKey[holder[t]]

\* The key of a token that was left outlives it.
LeftKeysOutlive ==
    \A t \in left : holder[t] \in Users /\ issued[t] + TTL <= jtiKey[t]

AccessInv == A!TypeOK /\ Clock /\ RequestsKnown /\ UserKeysOutlive /\ LeftKeysOutlive

\* A token its key outlives is not accepted.
LEMMA AccessInvSuffices == A!AccessAssumption /\ AccessInv => A!BarredIsOut /\ A!LeftIsOut
<1> SUFFICES ASSUME A!AccessAssumption, AccessInv
             PROVE  A!BarredIsOut /\ A!LeftIsOut
  OBVIOUS
<1>1. ASSUME NEW t \in AccessTokens, holder[t] \in sealed, A!Barred(holder[t]), t \notin lateTokens
      PROVE  ~A!Accepted(t)
  <2>1. issued[t] + TTL <= userKey[holder[t]]
    BY <1>1 DEF AccessInv, UserKeysOutlive
  <2>2. now \in Int /\ issued[t] \in Int /\ userKey[holder[t]] \in Int /\ TTL \in Int
    BY <1>1 DEF AccessInv, A!TypeOK, A!AccessAssumption
  <2> QED BY <2>1, <2>2 DEF A!Accepted
<1>2. ASSUME NEW t \in left
      PROVE  ~A!Accepted(t)
  <2>1. issued[t] + TTL <= jtiKey[t]
    BY DEF AccessInv, LeftKeysOutlive
  <2>2. now \in Int /\ issued[t] \in Int /\ jtiKey[t] \in Int /\ TTL \in Int
    BY DEF AccessInv, A!TypeOK, A!AccessAssumption
  <2> QED BY <2>1, <2>2 DEF A!Accepted
<1> QED BY <1>1, <1>2 DEF A!BarredIsOut, A!LeftIsOut

\* The invariant holds before anyone has come in.
LEMMA InitAccessInv == A!AccessAssumption /\ A!Init => AccessInv
BY DEF A!AccessAssumption, A!Init, AccessInv, A!TypeOK, Clock, RequestsKnown, UserKeysOutlive,
       LeftKeysOutlive

\* A request that begins, for a user and with the token it brings, is known.
LEMMA BeginKeepsRequests ==
    ASSUME AccessInv, NEW q \in Requests, NEW u \in Users, NEW t \in AccessTokens \cup {NoToken},
           t # NoToken => holder[t] \in Users,
           NEW where \in {"issue", "revoke", "family"}, A!Begin(q, u, t, where),
           where = "family" => t # NoToken,
           UNCHANGED holder
    PROVE  /\ accountPc' \in [Requests -> {"idle", "issue", "revoke", "blacklist", "family", "jti"}]
           /\ actor' \in [Requests -> Users \cup {NoUser}]
           /\ mine' \in [Requests -> AccessTokens \cup {NoToken}]
           /\ RequestsKnown'
BY DEF AccessInv, A!TypeOK, RequestsKnown, A!Begin, A!Goto

\* So is every other when one has ended.
LEMMA FinishKeepsRequests ==
    ASSUME AccessInv, NEW q \in Requests, A!Finish(q), UNCHANGED holder
    PROVE  /\ accountPc' \in [Requests -> {"idle", "issue", "revoke", "blacklist", "family", "jti"}]
           /\ actor' \in [Requests -> Users \cup {NoUser}]
           /\ mine' \in [Requests -> AccessTokens \cup {NoToken}]
           /\ RequestsKnown'
BY DEF AccessInv, A!TypeOK, RequestsKnown, A!Finish, A!Goto

\* A login or a refresh begins.
LEMMA ComingInKeepsAccessInv ==
    ASSUME A!AccessAssumption, AccessInv, NEW q \in Requests, NEW u \in Users,
           A!CheckLogin(q, u) \/ A!CheckRefresh(q, u)
    PROVE  AccessInv'
<1>1. /\ A!Begin(q, u, NoToken, "issue")
      /\ UNCHANGED <<now, A!accounts, session, A!issues, A!keys, A!history>>
  BY DEF A!CheckLogin, A!CheckRefresh
<1>2. /\ accountPc' \in [Requests -> {"idle", "issue", "revoke", "blacklist", "family", "jti"}]
      /\ actor' \in [Requests -> Users \cup {NoUser}]
      /\ mine' \in [Requests -> AccessTokens \cup {NoToken}]
      /\ RequestsKnown'
  BY <1>1, BeginKeepsRequests DEF A!issues
<1> QED BY <1>1, <1>2 DEF AccessInv, A!TypeOK, Clock, UserKeysOutlive, LeftKeysOutlive, A!Barred,
                          A!accounts, A!issues, A!keys, A!history

\* A token is issued: a new one, and to a barred user it is late.
LEMMA IssueKeepsAccessInv ==
    ASSUME A!AccessAssumption, AccessInv, NEW q \in Requests, A!Issue(q)
    PROVE  AccessInv'
<1>1. PICK t \in AccessTokens : /\ holder[t] = NoUser
                          /\ holder' = [holder EXCEPT ![t] = actor[q]]
                          /\ issued' = [issued EXCEPT ![t] = now]
                          /\ lateTokens' = IF A!Barred(actor[q]) THEN lateTokens \cup {t} ELSE lateTokens
  BY DEF A!Issue
<1>2. /\ actor[q] \in Users /\ session' = session \cup {actor[q]}
      /\ UNCHANGED <<now, accountBanned, accountErased, userKey, jtiKey, sealed, left>>
  BY DEF A!Issue, AccessInv, RequestsKnown, A!accounts, A!keys
<1>3. A!TypeOK'
  BY <1>1, <1>2 DEF A!Issue, AccessInv, A!TypeOK, A!Finish, A!Goto
<1>4. Clock'
  BY <1>1, <1>2 DEF AccessInv, A!TypeOK, Clock
<1>5. RequestsKnown'
  BY <1>1, <1>2 DEF A!Issue, A!Finish, A!Goto, AccessInv, A!TypeOK, RequestsKnown
<1>6. UserKeysOutlive'
  <2> SUFFICES ASSUME NEW s \in AccessTokens, holder'[s] \in sealed', A!Barred(holder[s])', s \notin lateTokens'
               PROVE  issued'[s] + TTL <= userKey'[holder'[s]]
    BY DEF UserKeysOutlive
  <2>1. CASE s = t
    <3>1. holder'[s] = actor[q] /\ A!Barred(actor[q])
      BY <1>1, <1>2, <2>1 DEF AccessInv, A!TypeOK, A!Barred
    <3> QED BY <1>1, <2>1, <3>1
  <2>2. CASE s # t
    BY <1>1, <1>2, <2>2 DEF AccessInv, A!TypeOK, UserKeysOutlive, A!Barred
  <2> QED BY <2>1, <2>2
<1>7. LeftKeysOutlive'
  <2>1. t \notin left
    BY <1>1 DEF AccessInv, LeftKeysOutlive, A!AccessAssumption
  <2> QED BY <1>1, <1>2, <2>1 DEF AccessInv, A!TypeOK, LeftKeysOutlive
<1> QED BY <1>3, <1>4, <1>5, <1>6, <1>7 DEF AccessInv

\* An account is barred: nothing holds for its tokens until the eviction ends.
LEMMA BarringKeepsInv ==
    ASSUME A!AccessAssumption, AccessInv, NEW q \in Requests,
           (\E u \in Users : A!BanUser(q, u)) \/ (\E t \in AccessTokens : A!AnonymizeAccount(q, t))
    PROVE  AccessInv'
<1>1. PICK u \in Users, t \in AccessTokens \cup {NoToken} :
         /\ t # NoToken => holder[t] \in Users
         /\ A!Begin(q, u, t, "revoke")
         /\ sealed' = sealed \ {u}
         /\ accountBanned' \cup accountErased' = accountBanned \cup accountErased \cup {u}
         /\ accountBanned' \subseteq Users /\ accountErased' \subseteq Users
         /\ UNCHANGED <<now, session, A!issues, A!keys, lateTokens, left>>
  <2>1. ASSUME NEW u \in Users, A!BanUser(q, u)
        PROVE  /\ NoToken # NoToken => holder[NoToken] \in Users
               /\ A!Begin(q, u, NoToken, "revoke")
               /\ sealed' = sealed \ {u}
               /\ accountBanned' \cup accountErased' = accountBanned \cup accountErased \cup {u}
               /\ accountBanned' \subseteq Users /\ accountErased' \subseteq Users
               /\ UNCHANGED <<now, session, A!issues, A!keys, lateTokens, left>>
    BY <2>1 DEF A!BanUser, AccessInv, A!TypeOK
  <2>2. ASSUME NEW t \in AccessTokens, A!AnonymizeAccount(q, t)
        PROVE  /\ holder[t] \in Users
               /\ A!Begin(q, holder[t], t, "revoke")
               /\ sealed' = sealed \ {holder[t]}
               /\ accountBanned' \cup accountErased' = accountBanned \cup accountErased \cup {holder[t]}
               /\ accountBanned' \subseteq Users /\ accountErased' \subseteq Users
               /\ UNCHANGED <<now, session, A!issues, A!keys, lateTokens, left>>
    <3>1. holder[t] \in Users
      BY <2>2 DEF A!AnonymizeAccount, A!Accepted, AccessInv, A!TypeOK
    <3> QED BY <2>2, <3>1 DEF A!AnonymizeAccount, AccessInv, A!TypeOK
  <2> QED BY <2>1, <2>2
<1>2. /\ accountPc' \in [Requests -> {"idle", "issue", "revoke", "blacklist", "family", "jti"}]
      /\ actor' \in [Requests -> Users \cup {NoUser}]
      /\ mine' \in [Requests -> AccessTokens \cup {NoToken}]
      /\ RequestsKnown'
  BY <1>1, BeginKeepsRequests DEF A!issues
<1>3. UserKeysOutlive'
  <2> SUFFICES ASSUME NEW s \in AccessTokens, holder'[s] \in sealed', A!Barred(holder[s])', s \notin lateTokens'
               PROVE  issued'[s] + TTL <= userKey'[holder'[s]]
    BY DEF UserKeysOutlive
  <2>1. holder[s] \in sealed /\ holder[s] # u
    BY <1>1 DEF A!issues
  <2>2. A!Barred(holder[s])
    BY <1>1, <2>1 DEF A!Barred, A!issues
  <2> QED BY <1>1, <2>1, <2>2 DEF AccessInv, UserKeysOutlive, A!issues, A!keys
<1> QED BY <1>1, <1>2, <1>3 DEF AccessInv, A!TypeOK, Clock, LeftKeysOutlive, A!issues, A!keys

\* The end of an eviction: its key outlives every token there is.
LEMMA BlacklistUserKeepsInv ==
    ASSUME A!AccessAssumption, AccessInv, NEW q \in Requests, A!BlacklistUser(q)
    PROVE  AccessInv'
<1>1. /\ actor[q] \in Users /\ accountPc[q] = "blacklist"
      /\ userKey' = [userKey EXCEPT ![actor[q]] = now + TTL]
      /\ sealed' = sealed \cup {actor[q]}
      /\ UNCHANGED <<now, accountBanned, accountErased, session, holder, issued, jtiKey, lateTokens, left>>
  BY DEF A!BlacklistUser, AccessInv, RequestsKnown, A!accounts, A!issues
<1>2. /\ accountPc' \in [Requests -> {"idle", "issue", "revoke", "blacklist", "family", "jti"}]
      /\ actor' \in [Requests -> Users \cup {NoUser}]
      /\ mine' \in [Requests -> AccessTokens \cup {NoToken}]
      /\ RequestsKnown'
  <2>1. CASE mine[q] = NoToken
    <3>1. A!Finish(q) /\ UNCHANGED holder
      BY <2>1, <1>1 DEF A!BlacklistUser
    <3> QED BY <3>1, FinishKeepsRequests
  <2>2. CASE mine[q] # NoToken
    BY <1>1, <2>2 DEF A!BlacklistUser, A!Goto, AccessInv, A!TypeOK, RequestsKnown
  <2> QED BY <2>1, <2>2
<1>3. userKey' \in [Users -> 0..(MaxTime + TTL)]
  BY <1>1 DEF AccessInv, A!TypeOK, A!AccessAssumption
<1>4. UserKeysOutlive'
  <2> SUFFICES ASSUME NEW s \in AccessTokens, holder[s] \in sealed', A!Barred(holder[s]), s \notin lateTokens
               PROVE  issued[s] + TTL <= userKey'[holder[s]]
    BY <1>1 DEF UserKeysOutlive, A!Barred
  <2>1. CASE holder[s] = actor[q]
    <3>1. userKey'[holder[s]] = now + TTL
      BY <1>1, <2>1 DEF AccessInv, A!TypeOK
    <3>2. issued[s] <= now /\ issued[s] \in Int /\ now \in Int /\ TTL \in Int
      BY DEF AccessInv, A!TypeOK, Clock, A!AccessAssumption
    <3> QED BY <3>1, <3>2
  <2>2. CASE holder[s] # actor[q]
    BY <1>1, <2>2 DEF AccessInv, A!TypeOK, UserKeysOutlive
  <2> QED BY <2>1, <2>2
<1> QED BY <1>1, <1>2, <1>3, <1>4 DEF AccessInv, A!TypeOK, Clock, LeftKeysOutlive

\* The end of a logout: the key of its token outlives it.
LEMMA BlacklistTokenKeepsInv ==
    ASSUME A!AccessAssumption, AccessInv, NEW q \in Requests, A!BlacklistToken(q)
    PROVE  AccessInv'
<1>1. /\ mine[q] \in AccessTokens /\ holder[mine[q]] \in Users
      /\ jtiKey' = [jtiKey EXCEPT ![mine[q]] = now + TTL]
      /\ left' = left \cup {mine[q]}
      /\ UNCHANGED <<now, accountBanned, accountErased, session, holder, issued, userKey, sealed, lateTokens>>
      /\ A!Finish(q)
  BY DEF A!BlacklistToken, AccessInv, RequestsKnown, A!accounts, A!issues
<1>2. /\ accountPc' \in [Requests -> {"idle", "issue", "revoke", "blacklist", "family", "jti"}]
      /\ actor' \in [Requests -> Users \cup {NoUser}]
      /\ mine' \in [Requests -> AccessTokens \cup {NoToken}]
      /\ RequestsKnown'
  BY <1>1, FinishKeepsRequests
<1>3. jtiKey' \in [AccessTokens -> 0..(MaxTime + TTL)]
  BY <1>1 DEF AccessInv, A!TypeOK, A!AccessAssumption
<1>4. LeftKeysOutlive'
  <2> SUFFICES ASSUME NEW s \in left'
               PROVE  holder[s] \in Users /\ issued[s] + TTL <= jtiKey'[s]
    BY <1>1 DEF LeftKeysOutlive
  <2>1. CASE s = mine[q]
    <3>1. jtiKey'[s] = now + TTL /\ holder[s] \in Users
      BY <1>1, <2>1 DEF AccessInv, A!TypeOK
    <3>2. issued[s] <= now /\ issued[s] \in Int /\ now \in Int /\ TTL \in Int
      BY <1>1, <2>1 DEF AccessInv, A!TypeOK, Clock, A!AccessAssumption
    <3> QED BY <3>1, <3>2
  <2>2. CASE s # mine[q]
    BY <1>1, <2>2 DEF AccessInv, A!TypeOK, LeftKeysOutlive
  <2> QED BY <2>1, <2>2
<1> QED BY <1>1, <1>2, <1>3, <1>4 DEF AccessInv, A!TypeOK, Clock, UserKeysOutlive, A!Barred

\* The other steps write neither keys nor tokens.
LEMMA NextKeepsAccessInv ==
    ASSUME A!AccessAssumption, AccessInv, [A!Next]_(A!vars)
    PROVE  AccessInv'
<1>1. CASE UNCHANGED A!vars
  BY <1>1 DEF A!vars, AccessInv, A!TypeOK, Clock, RequestsKnown, UserKeysOutlive, LeftKeysOutlive, A!Barred
<1>2. ASSUME NEW q \in Requests, NEW t \in AccessTokens, A!Logout(q, t)
      PROVE  AccessInv'
  <2>1. holder[t] \in Users /\ t # NoToken
    BY <1>2 DEF A!Logout, A!Accepted, AccessInv, A!TypeOK, A!AccessAssumption
  <2>2. /\ A!Begin(q, holder[t], t, "family") /\ UNCHANGED holder
        /\ UNCHANGED <<now, A!accounts, session, A!issues, A!keys, A!history>>
    BY <1>2 DEF A!Logout, A!issues
  <2>3. /\ accountPc' \in [Requests -> {"idle", "issue", "revoke", "blacklist", "family", "jti"}]
        /\ actor' \in [Requests -> Users \cup {NoUser}]
        /\ mine' \in [Requests -> AccessTokens \cup {NoToken}]
        /\ RequestsKnown'
    BY <2>1, <2>2, BeginKeepsRequests
  <2> QED BY <2>2, <2>3 DEF AccessInv, A!TypeOK, Clock, UserKeysOutlive, LeftKeysOutlive, A!Barred,
                            A!accounts, A!issues, A!keys, A!history
<1>3. ASSUME NEW q \in Requests, A!RevokeTokens(q) \/ A!RevokeFamily(q)
      PROVE  AccessInv'
  <2>1. PICK where \in {"blacklist", "jti"} :
          /\ accountPc[q] \in {"revoke", "family"}
          /\ where = "jti" => accountPc[q] = "family"
          /\ session' = session \ {actor[q]} /\ A!Goto(q, where)
          /\ UNCHANGED <<now, A!accounts, A!issues, A!keys, actor, mine, A!history>>
    BY <1>3 DEF A!RevokeTokens, A!RevokeFamily
  <2>2. accountPc' \in [Requests -> {"idle", "issue", "revoke", "blacklist", "family", "jti"}]
    BY <2>1 DEF A!Goto, AccessInv, A!TypeOK
  <2>3. RequestsKnown'
    <3>1. ASSUME NEW r \in Requests
          PROVE  /\ accountPc'[r] # "idle" => accountPc[r] # "idle"
                 /\ accountPc'[r] \in {"family", "jti"} => accountPc[r] \in {"family", "jti"}
      BY <2>1 DEF A!Goto, AccessInv, A!TypeOK
    <3>2. UNCHANGED <<actor, mine, holder>> /\ RequestsKnown
      BY <2>1 DEF AccessInv, A!issues
    <3> QED BY <3>1, <3>2 DEF RequestsKnown
  <2> QED BY <2>1, <2>2, <2>3 DEF AccessInv, A!TypeOK, Clock, UserKeysOutlive, LeftKeysOutlive, A!Barred,
                            A!accounts, A!issues, A!keys, A!history
<1>4. ASSUME NEW q \in Requests, A!Fail(q)
      PROVE  AccessInv'
  <2>1. /\ accountPc' \in [Requests -> {"idle", "issue", "revoke", "blacklist", "family", "jti"}]
        /\ actor' \in [Requests -> Users \cup {NoUser}]
        /\ mine' \in [Requests -> AccessTokens \cup {NoToken}]
        /\ RequestsKnown'
    BY <1>4, FinishKeepsRequests DEF A!Fail, A!issues
  <2> QED BY <1>4, <2>1 DEF A!Fail, AccessInv, A!TypeOK, Clock, UserKeysOutlive, LeftKeysOutlive, A!Barred,
                            A!accounts, A!issues, A!keys, A!history
<1>5. ASSUME NEW u \in Users, A!UnbanUser(u)
      PROVE  AccessInv'
  BY <1>5 DEF A!UnbanUser, AccessInv, A!TypeOK, Clock, RequestsKnown, UserKeysOutlive, LeftKeysOutlive,
              A!Barred, A!issues, A!keys, A!history
<1>6. CASE A!Tick
  BY <1>6 DEF A!Tick, AccessInv, A!TypeOK, Clock, RequestsKnown, UserKeysOutlive, LeftKeysOutlive,
              A!Barred, A!accounts, A!issues, A!keys, A!history, A!AccessAssumption
<1>7. ASSUME NEW u \in Users, A!RefuseRefresh(u)
      PROVE  AccessInv'
  BY <1>7 DEF A!RefuseRefresh, AccessInv, A!TypeOK, Clock, RequestsKnown, UserKeysOutlive,
              LeftKeysOutlive, A!Barred, A!accounts, A!issues, A!keys, A!history
<1> QED BY <1>1, <1>2, <1>3, <1>4, <1>5, <1>6, <1>7, ComingInKeepsAccessInv, IssueKeepsAccessInv,
           BarringKeepsInv, BlacklistUserKeepsInv, BlacklistTokenKeepsInv DEF A!Next

-----------------------------------------------------------------------------
(* Rows of the accounts. *)

\* A row exists as soon as it has a password; sessions, access and links are those of rows.
RowsKnown ==
    /\ \A u \in Accounts : /\ R!Exists(u) <=> version[u] # 0
                           /\ settled[u] <= version[u]
    /\ \A u \in rowErased : email[u] = Deleted
    /\ \A u \in inside : R!Exists(u)
    /\ \A s \in sessions : R!Exists(s[1]) /\ s[2] <= version[s[1]]
    /\ \A l \in Links : linkOf[l] # NoAccount => R!Exists(linkOf[l])

\* What a request has in hand: an address, or the row of an account and a password it had.
Known(q) ==
    /\ rowPc[q] \in {"register", "member"} => wish[q].address \in Addresses
    /\ rowPc[q] \notin {"idle", "register", "member"} =>
          /\ who[q] \in Accounts /\ R!Exists(who[q])
          /\ seen[q] <= version[who[q]]
    /\ rowPc[q] \in {"consume", "issue"} => seen[q] # 0
    /\ rowPc[q] = "reset" => link[q] # NoLink
    /\ rowPc[q] = "revoke" /\ link[q] = NoLink => who[q] \in rowErased
    /\ rowPc[q] = "blacklist" => who[q] \in rowErased

Wishes == [address : Addresses \cup {NoAddress}, role : R!Roles]

RowRequestsKnown == wish \in [Requests -> Wishes] /\ \A q \in Requests : Known(q)

\* Who has been erased is out, and a request that could name somebody in the row, or let
\* somebody in, is known to be early.
ErasedIsShut ==
    /\ \A u \in rowSealed \ touched : u \notin inside
    /\ \A q \in Requests :
          rowPc[q] \in {"profile", "rider", "consume", "issue"} /\ who[q] \in rowErased =>
              q \in early \/ who[q] \in touched

\* A login or refresh that is past its check, and holds a password of before the last answered
\* reset, was past its check when that reset revoked the tokens.
OutstandingIsLate ==
    \A q \in Requests : rowPc[q] = "issue" /\ seen[q] < settled[who[q]] => <<who[q], seen[q]>> \in late

RowInv == /\ R!TypeOK /\ RowsKnown /\ RowRequestsKnown /\ ErasedIsShut /\ OutstandingIsLate
          /\ OldPasswordIsOut /\ ErasedStaysAnonymous

\* The types of what requests have in hand, and of who is early.
LocalsOK ==
    /\ rowPc \in [Requests -> {"idle", "register", "member", "consume", "issue", "profile", "rider",
                               "link", "reset", "erase", "revoke", "blacklist"}]
    /\ who \in [Requests -> Accounts \cup {NoAccount}]
    /\ wish \in [Requests -> Wishes]
    /\ seen \in [Requests -> 0..MaxVersion]
    /\ link \in [Requests -> Links \cup {NoLink}]
    /\ listed \in [Requests -> BOOLEAN]
    /\ early \subseteq Requests

\* Request q goes on alone.
OnlyOf(q) ==
    \A o \in Requests \ {q} :
        /\ rowPc'[o] = rowPc[o] /\ who'[o] = who[o] /\ wish'[o] = wish[o]
        /\ seen'[o] = seen[o] /\ link'[o] = link[o]

\* A row is never deleted, its password never goes back, its erasure is final.
RowsGrow ==
    /\ \A u \in Accounts : /\ R!Exists(u) => R!Exists(u)'
                           /\ version[u] <= version'[u]
    /\ rowErased \subseteq rowErased'

\* A request that ends has nothing in hand.
LEMMA FinishIsKnown ==
    ASSUME R!TypeOK, RowRequestsKnown, NEW q \in Requests, R!Finish(q)
    PROVE  LocalsOK' /\ OnlyOf(q) /\ Known(q)' /\ early' = early \ {q} /\ rowPc'[q] = "idle"
<1>1. R!NoWish \in Wishes
  BY DEF R!NoWish, Wishes, R!Roles
<1>2. LocalsOK' /\ OnlyOf(q) /\ early' = early \ {q} /\ rowPc'[q] = "idle"
  BY <1>1, AccountsAssumption
     DEF R!Finish, R!Goto, R!TypeOK, RowRequestsKnown, R!RegistryAssumption, LocalsOK, OnlyOf
<1> QED BY <1>2 DEF Known

\* A request that begins has read the row of its account.
LEMMA StartIsKnown ==
    ASSUME R!TypeOK, RowsKnown, RowRequestsKnown, NEW q \in Requests, NEW u \in Accounts,
           R!Exists(u), RowsGrow,
           NEW where \in {"issue", "profile", "rider", "link", "reset", "erase"},
           R!Start(q, u, where), UNCHANGED wish,
           link' \in [Requests -> Links \cup {NoLink}],
           \A o \in Requests \ {q} : link'[o] = link[o],
           where = "reset" => link'[q] # NoLink
    PROVE  /\ rowPc' \in [Requests -> {"idle", "register", "member", "consume", "issue", "profile", "rider",
                                       "link", "reset", "erase", "revoke", "blacklist"}]
           /\ who' \in [Requests -> Accounts \cup {NoAccount}]
           /\ seen' \in [Requests -> 0..MaxVersion]
           /\ OnlyOf(q) /\ Known(q)'
<1>1. /\ rowPc' \in [Requests -> {"idle", "register", "member", "consume", "issue", "profile", "rider",
                                  "link", "reset", "erase", "revoke", "blacklist"}]
      /\ who' \in [Requests -> Accounts \cup {NoAccount}]
      /\ seen' \in [Requests -> 0..MaxVersion]
      /\ OnlyOf(q)
  BY DEF R!Start, R!Goto, R!TypeOK, RowRequestsKnown, OnlyOf
<1>2. rowPc'[q] = where /\ who'[q] = u /\ seen'[q] = version[u]
  BY DEF R!Start, R!Goto, R!TypeOK
<1>3. version[u] \in 0..MaxVersion /\ version[u] # 0 /\ version[u] <= version'[u] /\ R!Exists(u)'
  BY DEF R!TypeOK, RowsKnown, RowsGrow
<1> QED BY <1>1, <1>2, <1>3 DEF Known

\* What the others know stays true as the rows grow.
LEMMA OthersStayKnown ==
    ASSUME R!TypeOK, RowRequestsKnown, NEW q \in Requests, OnlyOf(q), RowsGrow,
           version' \in [Accounts -> 0..MaxVersion]
    PROVE  \A o \in Requests \ {q} : Known(o)'
<1> SUFFICES ASSUME NEW o \in Requests \ {q}
             PROVE  Known(o)'
  OBVIOUS
<1>1. /\ Known(o) /\ seen[o] \in Nat
      /\ rowPc'[o] = rowPc[o] /\ who'[o] = who[o] /\ wish'[o] = wish[o]
      /\ seen'[o] = seen[o] /\ link'[o] = link[o]
  BY DEF R!TypeOK, RowRequestsKnown, OnlyOf
<1>2. ASSUME who[o] \in Accounts
      PROVE  version[who[o]] \in Nat /\ version'[who[o]] \in Nat
  BY <1>2 DEF R!TypeOK
<1> QED BY <1>1, <1>2 DEF Known, RowsGrow

\* A request that is refused or fails ends, and writes nothing.
LEMMA EndKeepsRowInv ==
    ASSUME RowInv, NEW q \in Requests, R!RefuseAddress(q) \/ R!Fail(q)
    PROVE  RowInv'
<1>1. LocalsOK' /\ OnlyOf(q) /\ Known(q)' /\ early' = early \ {q} /\ rowPc'[q] = "idle"
  BY FinishIsKnown DEF R!RefuseAddress, R!Fail, RowInv
<1>2. RowsGrow /\ version' \in [Accounts -> 0..MaxVersion]
  BY <1>1 DEF R!RefuseAddress, R!Fail, R!rows, RowInv, R!TypeOK, RowsGrow, R!Exists
<1>3. R!TypeOK'
  BY <1>1, <1>2 DEF R!RefuseAddress, R!Fail, R!rows, R!tokens, R!mails, R!history, RowInv, R!TypeOK, LocalsOK
<1>4. RowRequestsKnown'
  BY <1>1, <1>2, OthersStayKnown DEF RowInv, RowRequestsKnown, LocalsOK
<1>5. RowsKnown'
  BY <1>1 DEF R!RefuseAddress, R!Fail, R!rows, R!tokens, R!mails, R!history,
              RowInv, R!TypeOK, RowsKnown, RowRequestsKnown, Known, R!Exists
<1>6. ErasedIsShut'
  BY <1>1 DEF R!RefuseAddress, R!Fail, R!rows, R!tokens, R!history,
              RowInv, R!TypeOK, RowsKnown, ErasedIsShut, OnlyOf
<1>7. OldPasswordIsOut' /\ OutstandingIsLate'
  BY <1>1 DEF R!RefuseAddress, R!Fail, R!rows, R!tokens, R!history, RowInv, OldPasswordIsOut, R!OldPasswordIsOut,
              OutstandingIsLate, OnlyOf
<1>8. ErasedStaysAnonymous'
  BY <1>1 DEF R!RefuseAddress, R!Fail, R!rows, R!history, RowInv, ErasedIsShut, ErasedStaysAnonymous, R!ErasedStaysAnonymous
<1> QED BY <1>3, <1>4, <1>5, <1>6, <1>7, <1>8 DEF RowInv

\* The row of a new member has its first password.
LEMMA AddMemberKeepsRowInv ==
    ASSUME RowInv, NEW q \in Requests, R!AddMember(q)
    PROVE  RowInv'
<1>0. PICK u \in Accounts : R!InsertUser(q, u)
  BY DEF R!AddMember
<1>a. /\ wish[q].address \in Addresses /\ wish[q].role \in R!Roles /\ 1 \in 0..MaxVersion
      /\ wish[q].address \notin {NoAddress, Deleted}
      /\ email[u] = NoAddress /\ version[u] = 0 /\ u \notin rowErased
  BY <1>0, AccountsAssumption
     DEF R!AddMember, RowInv, RowRequestsKnown, Known, Wishes, RowsKnown, R!RegistryAssumption,
         R!InsertUser, R!Exists
<1>1. LocalsOK' /\ OnlyOf(q) /\ Known(q)' /\ early' = early \ {q} /\ rowPc'[q] = "idle"
  BY FinishIsKnown DEF R!AddMember, RowInv
<1>2. RowsGrow /\ version' \in [Accounts -> 0..MaxVersion]
  BY <1>0, <1>a DEF R!InsertUser, RowInv, R!TypeOK, RowsGrow, R!Exists
<1>3. R!TypeOK'
  BY <1>0, <1>1, <1>2, <1>a
     DEF R!AddMember, R!InsertUser, R!tokens, R!mails, R!history, RowInv, R!TypeOK, LocalsOK
<1>4. RowRequestsKnown'
  BY <1>1, <1>2, OthersStayKnown DEF RowInv, RowRequestsKnown, LocalsOK
<1>5. RowsKnown'
  BY <1>0, <1>a DEF R!AddMember, R!InsertUser, R!tokens, R!mails, R!history, RowInv, R!TypeOK, RowsKnown,
                    R!Exists
<1>6. ErasedIsShut'
  BY <1>0, <1>1, <1>a DEF R!AddMember, R!InsertUser, R!tokens, R!history, RowInv, R!TypeOK, ErasedIsShut,
                    OnlyOf
<1>7. OldPasswordIsOut' /\ OutstandingIsLate'
  BY <1>1 DEF R!AddMember, R!tokens, R!history, RowInv, OldPasswordIsOut, R!OldPasswordIsOut,
              OutstandingIsLate, OnlyOf
<1>8. ErasedStaysAnonymous'
  BY <1>0, <1>a DEF R!AddMember, R!InsertUser, R!history, RowInv, R!TypeOK, ErasedStaysAnonymous,
                    R!ErasedStaysAnonymous
<1> QED BY <1>3, <1>4, <1>5, <1>6, <1>7, <1>8 DEF RowInv

\* So has the row of a visitor, who is let in next.
LEMMA OpenAccountKeepsRowInv ==
    ASSUME RowInv, NEW q \in Requests, R!OpenAccount(q)
    PROVE  RowInv'
<1>0. PICK u \in Accounts : R!InsertUser(q, u) /\ who' = [who EXCEPT ![q] = u]
  BY DEF R!OpenAccount
<1>a. /\ wish[q].address \in Addresses /\ wish[q].role \in R!Roles /\ 1 \in 0..MaxVersion
      /\ wish[q].address \notin {NoAddress, Deleted}
      /\ email[u] = NoAddress /\ version[u] = 0 /\ u \notin rowErased
  BY <1>0, AccountsAssumption
     DEF R!OpenAccount, RowInv, RowRequestsKnown, Known, Wishes, RowsKnown, R!RegistryAssumption,
         R!InsertUser, R!Exists
<1>1. LocalsOK' /\ OnlyOf(q) /\ Known(q)' /\ early' = early
  <2>1. R!NoWish \in Wishes
    BY DEF R!NoWish, Wishes, R!Roles
  <2>2. LocalsOK' /\ OnlyOf(q) /\ early' = early
    BY <1>0, <1>a, <2>1 DEF R!OpenAccount, R!Goto, R!history, RowInv, R!TypeOK, RowRequestsKnown,
                           LocalsOK, OnlyOf
  <2>3. rowPc'[q] = "issue" /\ who'[q] = u /\ seen'[q] = 1
    BY <1>0, <1>a DEF R!OpenAccount, R!Goto, RowInv, R!TypeOK
  <2>4. email'[u] # NoAddress /\ version'[u] = 1
    BY <1>0, <1>a, AccountsAssumption DEF R!InsertUser, RowInv, R!TypeOK
  <2> QED BY <2>2, <2>3, <2>4 DEF Known, R!Exists
<1>2. RowsGrow /\ version' \in [Accounts -> 0..MaxVersion]
  BY <1>0, <1>a DEF R!InsertUser, RowInv, R!TypeOK, RowsGrow, R!Exists
<1>3. R!TypeOK'
  BY <1>0, <1>1, <1>2, <1>a
     DEF R!OpenAccount, R!InsertUser, R!tokens, R!mails, R!history, RowInv, R!TypeOK, LocalsOK
<1>4. RowRequestsKnown'
  BY <1>1, <1>2, OthersStayKnown DEF RowInv, RowRequestsKnown, LocalsOK
<1>5. RowsKnown'
  BY <1>0, <1>a DEF R!OpenAccount, R!InsertUser, R!tokens, R!mails, R!history, RowInv, R!TypeOK, RowsKnown,
                    R!Exists
<1>6. ErasedIsShut'
  BY <1>0, <1>1, <1>a DEF R!OpenAccount, R!InsertUser, R!tokens, R!history, RowInv, R!TypeOK, ErasedIsShut,
                    OnlyOf
<1>7. OldPasswordIsOut' /\ OutstandingIsLate'
  <2>1. who'[q] = u /\ seen'[q] = 1 /\ ~(1 < settled[u])
    BY <1>0, <1>a DEF R!OpenAccount, RowInv, R!TypeOK, RowsKnown
  <2> QED BY <1>1, <2>1 DEF R!OpenAccount, R!tokens, R!history, RowInv, OldPasswordIsOut,
                            R!OldPasswordIsOut, OutstandingIsLate, OnlyOf
<1>8. ErasedStaysAnonymous'
  BY <1>0, <1>a DEF R!OpenAccount, R!InsertUser, R!history, RowInv, R!TypeOK, ErasedStaysAnonymous,
                    R!ErasedStaysAnonymous
<1> QED BY <1>3, <1>4, <1>5, <1>6, <1>7, <1>8 DEF RowInv

\* A session carries the password it was opened with; who comes in after an erasure is touched.
LEMMA IssueKeepsRowInv ==
    ASSUME RowInv, NEW q \in Requests, R!Issue(q)
    PROVE  RowInv'
<1>a. /\ who[q] \in Accounts /\ R!Exists(who[q]) /\ seen[q] \in 1..MaxVersion
      /\ settled[who[q]] <= version[who[q]]
  BY AccountsAssumption DEF R!Issue, RowInv, R!TypeOK, RowsKnown, RowRequestsKnown, Known,
                            R!RegistryAssumption
<1>1. LocalsOK' /\ OnlyOf(q) /\ Known(q)' /\ early' = early \ {q} /\ rowPc'[q] = "idle"
  BY FinishIsKnown DEF R!Issue, RowInv
<1>2. RowsGrow /\ version' \in [Accounts -> 0..MaxVersion]
  BY <1>1 DEF R!Issue, R!Touch, R!rows, RowInv, R!TypeOK, RowsGrow, R!Exists
<1>3. R!TypeOK'
  BY <1>1, <1>2, <1>a DEF R!Issue, R!Touch, R!rows, R!mails, RowInv, R!TypeOK, LocalsOK
<1>4. RowRequestsKnown'
  BY <1>1, <1>2, OthersStayKnown DEF RowInv, RowRequestsKnown, LocalsOK
<1>5. RowsKnown'
  BY <1>1 DEF R!Issue, R!Touch, R!rows, R!tokens, R!mails, R!history,
              RowInv, R!TypeOK, RowsKnown, RowRequestsKnown, Known, R!Exists
<1>6. ErasedIsShut'
  BY <1>1 DEF R!Issue, R!Touch, R!rows, R!tokens, R!history,
              RowInv, R!TypeOK, RowsKnown, ErasedIsShut, OnlyOf
<1>7. OldPasswordIsOut' /\ OutstandingIsLate'
  <2>1. UNCHANGED <<settled, late>>
    BY DEF R!Issue
  <2>2. OutstandingIsLate'
    BY <1>1, <2>1 DEF RowInv, OutstandingIsLate, OnlyOf
  <2>3. ASSUME NEW s \in sessions', s[2] < settled[s[1]]
        PROVE  s \in late
    <3>1. CASE s \in sessions
      BY <2>3, <3>1 DEF RowInv, OldPasswordIsOut, R!OldPasswordIsOut
    <3>2. CASE s = <<who[q], seen[q]>>
      <4>1. seen[q] < settled[who[q]] /\ rowPc[q] = "issue"
        BY <2>3, <3>2 DEF R!Issue
      <4> QED BY <3>2, <4>1 DEF RowInv, OutstandingIsLate
    <3> QED BY <2>3, <3>1, <3>2 DEF R!Issue
  <2> QED BY <2>1, <2>2, <2>3 DEF OldPasswordIsOut, R!OldPasswordIsOut
<1>8. ErasedStaysAnonymous'
  BY <1>1 DEF R!Issue, R!Touch, R!rows, R!history, RowInv, ErasedIsShut, ErasedStaysAnonymous, R!ErasedStaysAnonymous
<1> QED BY <1>3, <1>4, <1>5, <1>6, <1>7, <1>8 DEF RowInv

\* What a request writes into an erased row makes it touched.
LEMMA WriteKeepsRowInv ==
    ASSUME RowInv, NEW q \in Requests, R!WriteProfile(q) \/ R!WriteRider(q)
    PROVE  RowInv'
<1>a. who[q] \in Accounts /\ R!Exists(who[q]) /\ seen[q] <= version[who[q]]
  BY DEF R!WriteProfile, R!WriteRider, RowInv, RowRequestsKnown, Known
<1>1. LocalsOK' /\ OnlyOf(q) /\ Known(q)' /\ early' = early \ {q} /\ rowPc'[q] = "idle"
  BY FinishIsKnown DEF R!WriteProfile, R!WriteRider, RowInv
<1>2. RowsGrow /\ version' \in [Accounts -> 0..MaxVersion]
  BY <1>1 DEF R!WriteProfile, R!WriteRider, R!Touch, R!rows, RowInv, R!TypeOK, RowsGrow, R!Exists
<1>3. R!TypeOK'
  <2>1. CASE R!WriteProfile(q)
    BY <1>1, <1>2, <1>a, <2>1 DEF R!WriteProfile, R!Touch, R!tokens, R!mails, RowInv, R!TypeOK, LocalsOK
  <2>2. CASE R!WriteRider(q)
    BY <1>1, <1>2, <1>a, <2>2 DEF R!WriteRider, R!Touch, R!tokens, R!mails, RowInv, R!TypeOK, LocalsOK
  <2> QED BY <2>1, <2>2
<1>4. RowRequestsKnown'
  BY <1>1, <1>2, OthersStayKnown DEF RowInv, RowRequestsKnown, LocalsOK
<1>5. RowsKnown'
  BY <1>1 DEF R!WriteProfile, R!WriteRider, R!Touch, R!rows, R!tokens, R!mails, R!history,
              RowInv, R!TypeOK, RowsKnown, RowRequestsKnown, Known, R!Exists
<1>6. ErasedIsShut'
  BY <1>1 DEF R!WriteProfile, R!WriteRider, R!Touch, R!rows, R!tokens, R!history,
              RowInv, R!TypeOK, RowsKnown, ErasedIsShut, OnlyOf
<1>7. OldPasswordIsOut' /\ OutstandingIsLate'
  BY <1>1 DEF R!WriteProfile, R!WriteRider, R!Touch, R!rows, R!tokens, R!history, RowInv, OldPasswordIsOut, R!OldPasswordIsOut,
              OutstandingIsLate, OnlyOf
<1>8. ErasedStaysAnonymous'
  <2>1. who[q] \in rowErased => who[q] \in touched'
    BY DEF R!WriteProfile, R!WriteRider, R!Touch, RowInv, ErasedIsShut
  <2> QED BY <2>1, <1>a DEF R!WriteProfile, R!WriteRider, R!Touch, RowInv, R!TypeOK,
                            ErasedStaysAnonymous, R!ErasedStaysAnonymous
<1> QED BY <1>3, <1>4, <1>5, <1>6, <1>7, <1>8 DEF RowInv

\* A link is of an account that exists.
LEMMA LinkKeepsRowInv ==
    ASSUME RowInv, NEW q \in Requests, R!CreateLink(q)
    PROVE  RowInv'
<1>1. LocalsOK' /\ OnlyOf(q) /\ Known(q)' /\ early' = early \ {q} /\ rowPc'[q] = "idle"
  BY FinishIsKnown DEF R!CreateLink, RowInv
<1>2. RowsGrow /\ version' \in [Accounts -> 0..MaxVersion]
  BY <1>1 DEF R!CreateLink, R!rows, RowInv, R!TypeOK, RowsGrow, R!Exists
<1>3. R!TypeOK'
  BY <1>1, <1>2 DEF R!CreateLink, R!rows, R!tokens, R!mails, R!history, RowInv, R!TypeOK, LocalsOK
<1>4. RowRequestsKnown'
  BY <1>1, <1>2, OthersStayKnown DEF RowInv, RowRequestsKnown, LocalsOK
<1>5. RowsKnown'
  BY <1>1 DEF R!CreateLink, R!rows, R!tokens, R!mails, R!history,
              RowInv, R!TypeOK, RowsKnown, RowRequestsKnown, Known, R!Exists
<1>6. ErasedIsShut'
  BY <1>1 DEF R!CreateLink, R!rows, R!tokens, R!history,
              RowInv, R!TypeOK, RowsKnown, ErasedIsShut, OnlyOf
<1>7. OldPasswordIsOut' /\ OutstandingIsLate'
  BY <1>1 DEF R!CreateLink, R!rows, R!tokens, R!history, RowInv, OldPasswordIsOut, R!OldPasswordIsOut,
              OutstandingIsLate, OnlyOf
<1>8. ErasedStaysAnonymous'
  BY <1>1 DEF R!CreateLink, R!rows, R!history, RowInv, ErasedIsShut, ErasedStaysAnonymous, R!ErasedStaysAnonymous
<1> QED BY <1>3, <1>4, <1>5, <1>6, <1>7, <1>8 DEF RowInv

\* A registration looks for its address, and knows it.
LEMMA FindAddressKeepsRowInv ==
    ASSUME RowInv, NEW q \in Requests, NEW a \in Addresses, NEW r \in R!Roles,
           NEW where \in {"register", "member"}, R!FindAddress(q, a, r, where)
    PROVE  RowInv'
<1>1. LocalsOK' /\ OnlyOf(q) /\ Known(q)' /\ early' = early
  <2>1. [address |-> a, role |-> r] \in Wishes
    BY DEF Wishes
  <2>2. LocalsOK' /\ OnlyOf(q) /\ early' = early
    BY <2>1 DEF R!FindAddress, R!Goto, R!history, RowInv, R!TypeOK, RowRequestsKnown, LocalsOK, OnlyOf
  <2>3. rowPc'[q] = where /\ wish'[q].address = a
    BY DEF R!FindAddress, R!Goto, RowInv, R!TypeOK, RowRequestsKnown
  <2> QED BY <2>2, <2>3 DEF Known
<1>2. RowsGrow /\ version' \in [Accounts -> 0..MaxVersion]
  BY <1>1 DEF R!FindAddress, R!rows, RowInv, R!TypeOK, RowsGrow, R!Exists
<1>3. R!TypeOK'
  BY <1>1, <1>2 DEF R!FindAddress, R!rows, R!tokens, R!mails, R!locals, R!history, RowInv, R!TypeOK, LocalsOK
<1>4. RowRequestsKnown'
  BY <1>1, <1>2, OthersStayKnown DEF RowInv, RowRequestsKnown, LocalsOK
<1>5. RowsKnown'
  BY <1>1 DEF R!FindAddress, R!rows, R!tokens, R!mails, R!history,
              RowInv, R!TypeOK, RowsKnown, RowRequestsKnown, Known, R!Exists
<1>6. ErasedIsShut'
  <2>1. rowPc'[q] \notin {"profile", "rider", "consume", "issue"}
    BY DEF R!FindAddress, R!Goto, RowInv, R!TypeOK
  <2> QED BY <1>1, <2>1 DEF R!FindAddress, R!rows, R!tokens, R!history, RowInv, ErasedIsShut, OnlyOf
<1>7. OldPasswordIsOut' /\ OutstandingIsLate'
  <2>1. rowPc'[q] = where
    BY DEF R!FindAddress, R!Goto, RowInv, R!TypeOK
  <2> QED BY <1>1, <2>1 DEF R!FindAddress, R!tokens, R!history, RowInv, OldPasswordIsOut,
                            R!OldPasswordIsOut, OutstandingIsLate, OnlyOf
<1>8. ErasedStaysAnonymous'
  BY <1>1 DEF R!FindAddress, R!rows, R!history, RowInv, ErasedIsShut, ErasedStaysAnonymous, R!ErasedStaysAnonymous
<1> QED BY <1>3, <1>4, <1>5, <1>6, <1>7, <1>8 DEF RowInv

\* A request reads the row of its account; one that begins on an erased account
\* between the two steps of the erasure is early.
LEMMA BeginKeepsRowInv ==
    ASSUME RowInv, NEW q \in Requests, NEW u \in Accounts,
           \/ R!CheckLogin(q, u) \/ R!ReadProfile(q, u) \/ R!FindFamily(q, u)
           \/ R!FindForLink(q, u) \/ R!ReadForErasure(q, u)
    PROVE  RowInv'
<1>a. RowsGrow /\ R!Exists(u)
  BY AccountsAssumption DEF R!CheckLogin, R!ReadProfile, R!FindFamily, R!FindForLink, R!ReadForErasure, R!rows, RowInv, R!TypeOK, RowsKnown, RowsGrow, R!Exists, R!RegistryAssumption
<1>b. PICK where \in {"issue", "profile", "rider", "link", "erase"} : R!Start(q, u, where)
  BY DEF R!CheckLogin, R!ReadProfile, R!FindFamily, R!FindForLink, R!ReadForErasure
<1>c. UNCHANGED <<wish, link>> /\ link \in [Requests -> Links \cup {NoLink}]
  BY DEF R!CheckLogin, R!ReadProfile, R!FindFamily, R!FindForLink, R!ReadForErasure, RowInv, R!TypeOK
<1>d. early \subseteq early' /\ early' \subseteq Requests
  BY DEF R!CheckLogin, R!ReadProfile, R!FindFamily, R!FindForLink, R!ReadForErasure, R!history, RowInv, R!TypeOK
<1>1. LocalsOK' /\ OnlyOf(q) /\ Known(q)'
  <2>1. listed' \in [Requests -> BOOLEAN]
    BY DEF R!CheckLogin, R!ReadProfile, R!FindFamily, R!FindForLink, R!ReadForErasure, RowInv, R!TypeOK
  <2> QED BY <1>a, <1>b, <1>c, <1>d, <2>1, StartIsKnown DEF RowInv, RowRequestsKnown, LocalsOK
<1>2. RowsGrow /\ version' \in [Accounts -> 0..MaxVersion]
  BY <1>a DEF R!CheckLogin, R!ReadProfile, R!FindFamily, R!FindForLink, R!ReadForErasure, R!rows, RowInv, R!TypeOK
<1>3. R!TypeOK'
  BY <1>1, <1>2 DEF R!CheckLogin, R!ReadProfile, R!FindFamily, R!FindForLink, R!ReadForErasure, R!rows, R!tokens, R!mails, R!locals, R!history, RowInv, R!TypeOK, LocalsOK
<1>4. RowRequestsKnown'
  BY <1>1, <1>2, OthersStayKnown DEF RowInv, RowRequestsKnown, LocalsOK
<1>5. RowsKnown'
  BY <1>1 DEF R!CheckLogin, R!ReadProfile, R!FindFamily, R!FindForLink, R!ReadForErasure, R!rows, R!tokens, R!mails, R!history,
              RowInv, R!TypeOK, RowsKnown, RowRequestsKnown, Known, R!Exists
<1>6. ErasedIsShut'
  <2>1. UNCHANGED <<rowErased, rowSealed, touched, inside>>
    BY DEF R!CheckLogin, R!ReadProfile, R!FindFamily, R!FindForLink, R!ReadForErasure, R!rows, R!tokens, R!history
  <2>2. ASSUME u \in rowErased, rowPc'[q] \in {"profile", "rider", "consume", "issue"}
        PROVE  q \in early' \/ u \in touched
    <3>1. R!FindFamily(q, u)
      BY <2>2 DEF R!CheckLogin, R!ReadProfile, R!FindFamily, R!FindForLink, R!ReadForErasure, R!Start, R!Goto, RowInv, R!TypeOK
    <3> QED BY <3>1, <2>2 DEF R!FindFamily, RowInv, ErasedIsShut
  <2>3. who'[q] = u
    BY <1>b DEF R!Start, RowInv, R!TypeOK
  <2> QED BY <1>1, <1>d, <2>1, <2>2, <2>3 DEF RowInv, ErasedIsShut, OnlyOf
<1>7. OldPasswordIsOut' /\ OutstandingIsLate'
  <2>1. UNCHANGED <<sessions, settled, late>>
    BY DEF R!CheckLogin, R!ReadProfile, R!FindFamily, R!FindForLink, R!ReadForErasure, R!tokens, R!history
  <2>2. who'[q] = u /\ ~(seen'[q] < settled[u])
    BY <1>b DEF R!Start, RowInv, R!TypeOK, RowsKnown
  <2> QED BY <1>1, <2>1, <2>2 DEF RowInv, OldPasswordIsOut, R!OldPasswordIsOut, OutstandingIsLate, OnlyOf
<1>8. ErasedStaysAnonymous'
  BY <1>1 DEF R!CheckLogin, R!ReadProfile, R!FindFamily, R!FindForLink, R!ReadForErasure, R!rows, R!history, RowInv, ErasedIsShut, ErasedStaysAnonymous, R!ErasedStaysAnonymous
<1> QED BY <1>3, <1>4, <1>5, <1>6, <1>7, <1>8 DEF RowInv

\* A reset reads the row its link is of.
LEMMA ReadLinkKeepsRowInv ==
    ASSUME RowInv, NEW q \in Requests, NEW l \in Links, R!ReadLink(q, l)
    PROVE  RowInv'
<1>a. RowsGrow /\ linkOf[l] \in Accounts /\ R!Exists(linkOf[l]) /\ l # NoLink
  BY AccountsAssumption DEF R!ReadLink, R!rows, RowInv, R!TypeOK, RowsKnown, RowsGrow, R!Exists, R!RegistryAssumption
<1>b. R!Start(q, linkOf[l], "reset") /\ UNCHANGED wish
  BY DEF R!ReadLink
<1>c. /\ link' \in [Requests -> Links \cup {NoLink}] /\ link'[q] = l
      /\ \A o \in Requests \ {q} : link'[o] = link[o]
  BY DEF R!ReadLink, RowInv, R!TypeOK
<1>1. LocalsOK' /\ OnlyOf(q) /\ Known(q)' /\ early' = early
  BY <1>a, <1>b, <1>c, StartIsKnown DEF R!ReadLink, R!history, RowInv, R!TypeOK, RowRequestsKnown, LocalsOK
<1>2. RowsGrow /\ version' \in [Accounts -> 0..MaxVersion]
  BY <1>a DEF R!ReadLink, R!rows, RowInv, R!TypeOK
<1>3. R!TypeOK'
  BY <1>1, <1>2 DEF R!ReadLink, R!rows, R!tokens, R!mails, R!locals, R!history, RowInv, R!TypeOK, LocalsOK
<1>4. RowRequestsKnown'
  BY <1>1, <1>2, OthersStayKnown DEF RowInv, RowRequestsKnown, LocalsOK
<1>5. RowsKnown'
  BY <1>1 DEF R!ReadLink, R!rows, R!tokens, R!mails, R!history,
              RowInv, R!TypeOK, RowsKnown, RowRequestsKnown, Known, R!Exists
<1>6. ErasedIsShut'
  <2>1. rowPc'[q] = "reset"
    BY <1>b DEF R!Start, R!Goto, RowInv, R!TypeOK
  <2> QED BY <1>1, <2>1 DEF R!ReadLink, R!rows, R!tokens, R!history, RowInv, ErasedIsShut, OnlyOf
<1>7. OldPasswordIsOut' /\ OutstandingIsLate'
  <2>1. rowPc'[q] = "reset"
    BY <1>b DEF R!Start, R!Goto, RowInv, R!TypeOK
  <2> QED BY <1>1, <2>1 DEF R!ReadLink, R!tokens, R!history, RowInv, OldPasswordIsOut,
                            R!OldPasswordIsOut, OutstandingIsLate, OnlyOf
<1>8. ErasedStaysAnonymous'
  BY <1>1 DEF R!ReadLink, R!rows, R!history, RowInv, ErasedIsShut, ErasedStaysAnonymous, R!ErasedStaysAnonymous
<1> QED BY <1>3, <1>4, <1>5, <1>6, <1>7, <1>8 DEF RowInv

\* A reset gives the account its next password; without the link it ends.
LEMMA WriteResetKeepsRowInv ==
    ASSUME RowInv, NEW q \in Requests, R!WriteReset(q)
    PROVE  RowInv'
<1>a. /\ who[q] \in Accounts /\ R!Exists(who[q]) /\ seen[q] \in 0..MaxVersion
      /\ seen[q] <= version[who[q]] /\ version[who[q]] \in 0..MaxVersion
  BY DEF R!WriteReset, RowInv, R!TypeOK, RowRequestsKnown, Known
<1>b. link[q] \in Links /\ MaxVersion \in Nat
  BY AccountsAssumption DEF R!WriteReset, RowInv, R!TypeOK, RowRequestsKnown, Known, R!RegistryAssumption
<1>c. CASE linkOf[link[q]] = NoAccount
  <2>0. R!Finish(q) /\ UNCHANGED <<version, spent>>
    BY <1>c DEF R!WriteReset
  <2>1. LocalsOK' /\ OnlyOf(q) /\ Known(q)' /\ early' = early \ {q} /\ rowPc'[q] = "idle"
    BY <2>0, FinishIsKnown DEF RowInv
  <2>2. RowsGrow /\ version' \in [Accounts -> 0..MaxVersion]
    BY <2>0 DEF R!WriteReset, RowInv, R!TypeOK, RowsGrow, R!Exists
  <2>3. R!TypeOK'
    BY <2>0, <2>1, <2>2 DEF R!WriteReset, R!rows, R!tokens, R!mails, R!locals, R!history, RowInv, R!TypeOK, LocalsOK
  <2>4. RowRequestsKnown'
    BY <2>0, <2>1, <2>2, OthersStayKnown DEF RowInv, RowRequestsKnown, LocalsOK
  <2>5. RowsKnown'
    BY <2>0, <2>1 DEF R!WriteReset, R!rows, R!tokens, R!mails, R!history,
                RowInv, R!TypeOK, RowsKnown, RowRequestsKnown, Known, R!Exists
  <2>6. ErasedIsShut'
    BY <2>0, <2>1 DEF R!WriteReset, R!rows, R!tokens, R!history,
                RowInv, R!TypeOK, RowsKnown, ErasedIsShut, OnlyOf
  <2>7. OldPasswordIsOut' /\ OutstandingIsLate'
    BY <2>0, <2>1 DEF R!WriteReset, R!rows, R!tokens, R!history, RowInv, OldPasswordIsOut, R!OldPasswordIsOut,
              OutstandingIsLate, OnlyOf
  <2>8. ErasedStaysAnonymous'
    BY <2>0, <2>1 DEF R!WriteReset, R!rows, R!history, RowInv, ErasedIsShut, ErasedStaysAnonymous, R!ErasedStaysAnonymous
  <2> QED BY <2>3, <2>4, <2>5, <2>6, <2>7, <2>8 DEF RowInv
<1>d. CASE linkOf[link[q]] # NoAccount
  <2>0. /\ version' = [version EXCEPT ![who[q]] = @ + 1]
        /\ seen' = [seen EXCEPT ![q] = version[who[q]] + 1]
        /\ spent' = spent \cup {link[q]}
        /\ R!Goto(q, "revoke")
        /\ UNCHANGED <<who, wish, link, listed, early>>
        /\ version[who[q]] + 1 \in 0..MaxVersion
    BY <1>a, <1>b, <1>d DEF R!WriteReset
  <2>1. LocalsOK' /\ OnlyOf(q) /\ early' = early /\ rowPc'[q] = "revoke" /\ link'[q] # NoLink
    BY <1>a, <1>b, <2>0, AccountsAssumption
       DEF R!Goto, RowInv, R!TypeOK, RowRequestsKnown, LocalsOK, OnlyOf, R!RegistryAssumption
  <2>2. RowsGrow /\ version' \in [Accounts -> 0..MaxVersion]
    BY <1>a, <2>0 DEF R!WriteReset, RowInv, R!TypeOK, RowsGrow, R!Exists
  <2>3. R!TypeOK'
    BY <1>b, <2>0, <2>1, <2>2 DEF R!WriteReset, R!tokens, RowInv, R!TypeOK, LocalsOK
  <2>4. Known(q)'
    <3>1. /\ who'[q] = who[q] /\ seen'[q] = version[who[q]] + 1
          /\ version'[who[q]] = version[who[q]] + 1
      BY <1>a, <2>0 DEF RowInv, R!TypeOK
    <3>2. email' = email
      BY DEF R!WriteReset
    <3> QED BY <1>a, <2>1, <3>1, <3>2 DEF Known, R!Exists
  <2>5. RowRequestsKnown'
    BY <2>1, <2>2, <2>4, OthersStayKnown DEF RowInv, RowRequestsKnown, LocalsOK
  <2>6. RowsKnown'
    BY <1>a, <2>0, <2>2 DEF R!WriteReset, R!tokens, RowInv, R!TypeOK, RowsKnown, R!Exists
  <2>7. ErasedIsShut'
    BY <2>0, <2>1 DEF R!WriteReset, R!tokens, RowInv, ErasedIsShut, OnlyOf
  <2>8. OldPasswordIsOut' /\ OutstandingIsLate' /\ ErasedStaysAnonymous'
    BY <2>1 DEF R!WriteReset, R!tokens, RowInv, OldPasswordIsOut, R!OldPasswordIsOut,
                OutstandingIsLate, OnlyOf, ErasedStaysAnonymous, R!ErasedStaysAnonymous
  <2> QED BY <2>3, <2>5, <2>6, <2>7, <2>8 DEF RowInv
<1> QED BY <1>c, <1>d

\* The erasure takes the address and the name; the requests about the account are early.
LEMMA EraseRowsKeepsRowInv ==
    ASSUME RowInv, NEW q \in Requests, R!EraseRows(q)
    PROVE  RowInv'
<1>a. /\ who[q] \in Accounts /\ R!Exists(who[q]) /\ seen[q] \in 0..MaxVersion
      /\ seen[q] <= version[who[q]] /\ version[who[q]] \in 0..MaxVersion
  BY DEF R!EraseRows, RowInv, R!TypeOK, RowRequestsKnown, Known
<1>1. LocalsOK' /\ OnlyOf(q) /\ early' = early \cup R!Others(q) /\ rowPc'[q] = "revoke"
  BY DEF R!EraseRows, R!Goto, R!Others, R!locals, RowInv, R!TypeOK, RowRequestsKnown, LocalsOK, OnlyOf
<1>2. RowsGrow /\ version' \in [Accounts -> 0..MaxVersion]
  BY <1>a, AccountsAssumption DEF R!EraseRows, RowInv, R!TypeOK, RowsGrow, R!Exists, R!RegistryAssumption
<1>3. R!TypeOK'
  <2>1. rider' \in [Accounts -> {"none", "named", "anonymous"}]
    BY <1>a DEF R!EraseRows, RowInv, R!TypeOK
  <2>2. linkOf' \in [Links -> Accounts \cup {NoAccount}] /\ spent' \subseteq Links
    BY DEF R!EraseRows, RowInv, R!TypeOK
  <2>3. touched' \subseteq Accounts /\ email' \in [Accounts -> Addresses \cup {Deleted, NoAddress}]
    BY <1>a DEF R!EraseRows, RowInv, R!TypeOK
  <2> QED BY <1>1, <1>2, <1>a, <2>1, <2>2, <2>3 DEF R!EraseRows, R!tokens, RowInv, R!TypeOK, LocalsOK
<1>4. RowRequestsKnown'
  <2>1. Known(q)'
    BY <1>1, <1>2, <1>a DEF R!EraseRows, R!locals, RowInv, R!TypeOK, Known, RowsGrow
  <2> QED BY <1>1, <1>2, <2>1, OthersStayKnown DEF RowInv, RowRequestsKnown, LocalsOK
<1>5. RowsKnown'
  <2>1. \A u \in Accounts : R!Exists(u)' <=> R!Exists(u)
    BY <1>a, AccountsAssumption DEF R!EraseRows, RowInv, R!TypeOK, R!Exists, R!RegistryAssumption
  <2>2. \A u \in rowErased' : email'[u] = Deleted
    BY <1>a DEF R!EraseRows, RowInv, R!TypeOK, RowsKnown
  <2>3. \A l \in Links : linkOf'[l] # NoAccount => linkOf'[l] = linkOf[l]
    BY DEF R!EraseRows
  <2>4. inside \subseteq Accounts /\ sessions \subseteq Accounts \X (1..MaxVersion)
        /\ \A l \in Links : linkOf[l] \in Accounts \cup {NoAccount}
    BY DEF RowInv, R!TypeOK
  <2> QED BY <2>1, <2>2, <2>3, <2>4 DEF R!EraseRows, R!tokens, RowInv, RowsKnown
<1>6. ErasedIsShut'
  <2>1. \A o \in Requests : rowPc'[o] \in {"profile", "rider", "consume", "issue"} /\ who'[o] \in rowErased' =>
            o \in early' \/ who'[o] \in touched'
    BY <1>1, <1>a DEF R!EraseRows, R!Others, R!locals, RowInv, ErasedIsShut, OnlyOf
  <2> QED BY <2>1 DEF R!EraseRows, R!tokens, RowInv, ErasedIsShut
<1>7. OldPasswordIsOut' /\ OutstandingIsLate'
  BY <1>1 DEF R!EraseRows, R!tokens, RowInv, OldPasswordIsOut, R!OldPasswordIsOut,
              OutstandingIsLate, OnlyOf
<1>8. ErasedStaysAnonymous'
  <2> SUFFICES ASSUME NEW u \in rowErased' \ touched'
               PROVE  email'[u] = Deleted /\ u \notin named' /\ rider'[u] # "named"
    BY DEF ErasedStaysAnonymous, R!ErasedStaysAnonymous
  <2>1. CASE u = who[q]
    BY <1>a, <2>1 DEF R!EraseRows, RowInv, R!TypeOK
  <2>2. CASE u # who[q]
    BY <1>a, <2>2 DEF R!EraseRows, RowInv, R!TypeOK, ErasedStaysAnonymous, R!ErasedStaysAnonymous
  <2> QED BY <2>1, <2>2
<1> QED BY <1>3, <1>4, <1>5, <1>6, <1>7, <1>8 DEF RowInv

\* No session of the account is left when its last reset is settled.
LEMMA RevokeTokensKeepsRowInv ==
    ASSUME RowInv, NEW q \in Requests, R!RevokeTokens(q)
    PROVE  RowInv'
<1>a. /\ who[q] \in Accounts /\ R!Exists(who[q]) /\ seen[q] \in 0..MaxVersion
      /\ seen[q] <= version[who[q]] /\ version[who[q]] \in 0..MaxVersion
  BY DEF R!RevokeTokens, RowInv, R!TypeOK, RowRequestsKnown, Known
<1>b. sessions' = {s \in sessions : s[1] # who[q]} /\ inside' \subseteq inside
      /\ UNCHANGED <<R!rows, R!mails, touched, rowSealed>>
  BY DEF R!RevokeTokens, R!rows, R!mails
<1>1. LocalsOK' /\ OnlyOf(q) /\ Known(q)' /\ early' \subseteq early
      /\ rowPc'[q] \in {"idle", "blacklist"} /\ \A o \in Requests \ {q} : o \in early => o \in early'
  <2>1. CASE link[q] = NoLink
    <3>1. R!Goto(q, "blacklist") /\ UNCHANGED <<R!locals, early>>
      BY <2>1 DEF R!RevokeTokens
    <3>2. who[q] \in rowErased
      BY <2>1 DEF R!RevokeTokens, RowInv, RowRequestsKnown, Known
    <3>3. LocalsOK' /\ OnlyOf(q) /\ rowPc'[q] = "blacklist"
      BY <3>1 DEF R!Goto, R!locals, RowInv, R!TypeOK, RowRequestsKnown, LocalsOK, OnlyOf
    <3> QED BY <1>a, <1>b, <3>1, <3>2, <3>3 DEF R!locals, R!rows, Known, R!Exists
  <2>2. CASE link[q] # NoLink
    <3>1. R!Finish(q)
      BY <2>2 DEF R!RevokeTokens
    <3> QED BY <3>1, FinishIsKnown DEF RowInv
  <2> QED BY <2>1, <2>2
<1>c. /\ settled' \in [Accounts -> 0..MaxVersion]
      /\ \A u \in Accounts : settled'[u] <= version[u] /\ (u # who[q] => settled'[u] = settled[u])
  <2>1. CASE link[q] = NoLink
    BY <2>1 DEF R!RevokeTokens, RowInv, R!TypeOK, RowsKnown
  <2>2. CASE link[q] # NoLink
    BY <1>a, <2>2 DEF R!RevokeTokens, RowInv, R!TypeOK, RowsKnown
  <2> QED BY <2>1, <2>2
<1>d. /\ late \subseteq late' /\ late' \subseteq Accounts \X (1..MaxVersion)
      /\ OutstandingIsLate'
  <2>1. CASE link[q] = NoLink
    <3>1. UNCHANGED <<settled, late>>
      BY <2>1 DEF R!RevokeTokens
    <3> QED BY <1>1, <3>1 DEF RowInv, R!TypeOK, OutstandingIsLate, OnlyOf
  <2>2. CASE link[q] # NoLink
    <3>1. late' = late \cup R!Outstanding(who[q])
      BY <2>2 DEF R!RevokeTokens
    <3>2. \A o \in Requests : rowPc[o] = "issue" => who[o] \in Accounts /\ seen[o] \in 1..MaxVersion
      BY AccountsAssumption DEF RowInv, R!TypeOK, RowRequestsKnown, Known, R!RegistryAssumption
    <3>3. R!Outstanding(who[q]) \subseteq Accounts \X (1..MaxVersion)
      BY <3>2 DEF R!Outstanding
    <3>4. ASSUME NEW o \in Requests, rowPc'[o] = "issue", seen'[o] < settled'[who'[o]]
          PROVE  <<who'[o], seen'[o]>> \in late'
      <4>1. o # q /\ rowPc[o] = "issue" /\ who'[o] = who[o] /\ seen'[o] = seen[o]
        BY <1>1, <3>4 DEF OnlyOf
      <4>2. CASE who[o] = who[q]
        BY <3>1, <4>1, <4>2 DEF R!Outstanding
      <4>3. CASE who[o] # who[q]
        BY <1>c, <3>1, <3>2, <3>4, <4>1, <4>3 DEF RowInv, OutstandingIsLate
      <4> QED BY <4>2, <4>3
    <3> QED BY <3>1, <3>3, <3>4 DEF RowInv, R!TypeOK, OutstandingIsLate
  <2> QED BY <2>1, <2>2
<1>2. RowsGrow /\ version' \in [Accounts -> 0..MaxVersion]
  BY <1>b DEF R!rows, RowInv, R!TypeOK, RowsGrow, R!Exists
<1>3. R!TypeOK'
  BY <1>1, <1>2, <1>b, <1>c, <1>d DEF R!rows, R!mails, RowInv, R!TypeOK, LocalsOK
<1>4. RowRequestsKnown'
  BY <1>1, <1>2, OthersStayKnown DEF RowInv, RowRequestsKnown, LocalsOK
<1>5. RowsKnown'
  BY <1>b, <1>c DEF R!rows, R!mails, RowInv, R!TypeOK, RowsKnown, R!Exists
<1>6. ErasedIsShut'
  BY <1>1, <1>b DEF R!rows, RowInv, ErasedIsShut, OnlyOf
<1>7. OldPasswordIsOut' /\ OutstandingIsLate'
  <2>1. \A s \in sessions' : s \in sessions /\ s[1] \in Accounts /\ s[1] # who[q]
    BY <1>b DEF RowInv, R!TypeOK
  <2> QED BY <1>b, <1>c, <1>d, <2>1 DEF RowInv, OldPasswordIsOut, R!OldPasswordIsOut
<1>8. ErasedStaysAnonymous'
  BY <1>b DEF R!rows, RowInv, ErasedStaysAnonymous, R!ErasedStaysAnonymous
<1> QED BY <1>3, <1>4, <1>5, <1>6, <1>7, <1>8 DEF RowInv

\* The last step of an erasure shuts the account out; the requests about it are early.
LEMMA BlacklistUserKeepsRowInv ==
    ASSUME RowInv, NEW q \in Requests, R!BlacklistUser(q)
    PROVE  RowInv'
<1>a. /\ who[q] \in Accounts /\ R!Exists(who[q]) /\ seen[q] \in 0..MaxVersion
      /\ seen[q] <= version[who[q]] /\ version[who[q]] \in 0..MaxVersion
  BY DEF R!BlacklistUser, RowInv, R!TypeOK, RowRequestsKnown, Known
<1>b. /\ inside' = inside \ {who[q]} /\ rowSealed' = rowSealed \cup {who[q]}
      /\ UNCHANGED <<R!rows, sessions, R!mails, wish, link, touched, settled, late>>
      /\ who[q] \in rowErased
  BY DEF R!BlacklistUser, R!rows, R!mails, RowInv, RowRequestsKnown, Known
<1>1. LocalsOK' /\ OnlyOf(q) /\ Known(q)' /\ early' = (early \cup R!Others(q)) \ {q} /\ rowPc'[q] = "idle"
  <2>1. LocalsOK' /\ OnlyOf(q) /\ early' = (early \cup R!Others(q)) \ {q} /\ rowPc'[q] = "idle"
    BY AccountsAssumption
       DEF R!BlacklistUser, R!Goto, R!Others, RowInv, R!TypeOK, RowRequestsKnown, LocalsOK, OnlyOf,
           R!RegistryAssumption
  <2> QED BY <2>1 DEF Known
<1>2. RowsGrow /\ version' \in [Accounts -> 0..MaxVersion]
  BY <1>b DEF R!rows, RowInv, R!TypeOK, RowsGrow, R!Exists
<1>3. R!TypeOK'
  BY <1>1, <1>2, <1>b DEF R!rows, R!mails, RowInv, R!TypeOK, LocalsOK
<1>4. RowRequestsKnown'
  BY <1>1, <1>2, OthersStayKnown DEF RowInv, RowRequestsKnown, LocalsOK
<1>5. RowsKnown'
  BY <1>b DEF R!rows, R!mails, RowInv, R!TypeOK, RowsKnown, R!Exists
<1>6. ErasedIsShut'
  BY <1>1, <1>b DEF R!rows, RowInv, ErasedIsShut, OnlyOf, R!Others
<1>7. OldPasswordIsOut' /\ OutstandingIsLate'
  BY <1>1, <1>b DEF RowInv, OldPasswordIsOut, R!OldPasswordIsOut, OutstandingIsLate, OnlyOf
<1>8. ErasedStaysAnonymous'
  BY <1>b DEF R!rows, RowInv, ErasedStaysAnonymous, R!ErasedStaysAnonymous
<1> QED BY <1>3, <1>4, <1>5, <1>6, <1>7, <1>8 DEF RowInv

\* A refresh reads a token that is not revoked, of an account that is not erased.
LEMMA ReadTokenKeepsRowInv ==
    ASSUME RowInv, NEW q \in Requests, NEW u \in Accounts, NEW v \in 1..MaxVersion, R!ReadToken(q, u, v)
    PROVE  RowInv'
<1>a. R!Exists(u) /\ v <= version[u] /\ v \in 0..MaxVersion /\ v # 0 /\ u \notin rowErased
  BY AccountsAssumption DEF R!ReadToken, RowInv, RowsKnown, R!RegistryAssumption
<1>1. LocalsOK' /\ OnlyOf(q) /\ Known(q)' /\ rowPc'[q] = "consume" /\ who'[q] = u /\ early' = early
  <2>1. LocalsOK' /\ OnlyOf(q) /\ early' = early
    BY <1>a DEF R!ReadToken, R!Goto, R!history, RowInv, R!TypeOK, RowRequestsKnown, LocalsOK, OnlyOf
  <2>2. rowPc'[q] = "consume" /\ who'[q] = u /\ seen'[q] = v
    BY DEF R!ReadToken, R!Goto, RowInv, R!TypeOK
  <2> QED BY <1>a, <2>1, <2>2 DEF R!ReadToken, R!rows, Known, R!Exists
<1>2. RowsGrow /\ version' \in [Accounts -> 0..MaxVersion]
  BY DEF R!ReadToken, R!rows, RowInv, R!TypeOK, RowsGrow, R!Exists
<1>3. R!TypeOK'
  BY <1>1, <1>2 DEF R!ReadToken, R!rows, R!tokens, R!mails, R!history, RowInv, R!TypeOK, LocalsOK
<1>4. RowRequestsKnown'
  BY <1>1, <1>2, OthersStayKnown DEF RowInv, RowRequestsKnown, LocalsOK
<1>5. RowsKnown'
  BY DEF R!ReadToken, R!rows, R!tokens, R!mails, R!history, RowInv, R!TypeOK, RowsKnown, R!Exists
<1>6. ErasedIsShut'
  BY <1>1, <1>a DEF R!ReadToken, R!rows, R!tokens, R!history, RowInv, ErasedIsShut, OnlyOf
<1>7. OldPasswordIsOut' /\ OutstandingIsLate'
  BY <1>1 DEF R!ReadToken, R!tokens, R!history, RowInv, OldPasswordIsOut, R!OldPasswordIsOut,
              OutstandingIsLate, OnlyOf
<1>8. ErasedStaysAnonymous'
  BY DEF R!ReadToken, R!rows, R!history, RowInv, ErasedStaysAnonymous, R!ErasedStaysAnonymous
<1> QED BY <1>3, <1>4, <1>5, <1>6, <1>7, <1>8 DEF RowInv

\* A refresh whose token is still there consumes it, and is late only if its session was; one whose
\* token has been revoked meanwhile ends.
LEMMA ConsumeTokenKeepsRowInv ==
    ASSUME RowInv, NEW q \in Requests, R!ConsumeToken(q)
    PROVE  RowInv'
<1>a. /\ who[q] \in Accounts /\ R!Exists(who[q]) /\ seen[q] # 0 /\ seen[q] <= version[who[q]]
      /\ sessions' \subseteq sessions /\ UNCHANGED <<R!rows, inside, R!mails, touched, rowSealed, settled, late>>
  BY DEF R!ConsumeToken, R!rows, R!mails, RowInv, RowRequestsKnown, Known
<1>1. LocalsOK' /\ OnlyOf(q) /\ Known(q)' /\ OutstandingIsLate' /\ ErasedIsShut'
  <2>1. CASE <<who[q], seen[q]>> \in sessions
    <3>1. R!Goto(q, "issue") /\ UNCHANGED <<R!locals, early>>
      BY <2>1 DEF R!ConsumeToken
    <3>2. LocalsOK' /\ OnlyOf(q) /\ rowPc'[q] = "issue" /\ who'[q] = who[q] /\ seen'[q] = seen[q]
      BY <3>1 DEF R!Goto, R!locals, RowInv, R!TypeOK, RowRequestsKnown, LocalsOK, OnlyOf
    <3>3. Known(q)'
      BY <1>a, <3>2 DEF R!rows, Known, R!Exists
    <3>4. seen[q] < settled[who[q]] => <<who[q], seen[q]>> \in late
      BY <2>1 DEF RowInv, OldPasswordIsOut, R!OldPasswordIsOut
    <3>5. OutstandingIsLate'
      BY <1>a, <3>2, <3>4 DEF RowInv, OutstandingIsLate, OnlyOf
    <3>6. rowPc[q] = "consume"
      BY DEF R!ConsumeToken
    <3>7. ErasedIsShut'
      BY <1>a, <3>1, <3>2, <3>6 DEF R!rows, RowInv, ErasedIsShut, OnlyOf
    <3> QED BY <3>2, <3>3, <3>5, <3>7
  <2>2. CASE <<who[q], seen[q]>> \notin sessions
    <3>1. R!Finish(q)
      BY <2>2 DEF R!ConsumeToken
    <3>2. LocalsOK' /\ OnlyOf(q) /\ Known(q)' /\ early' = early \ {q} /\ rowPc'[q] = "idle"
      BY <3>1, FinishIsKnown DEF RowInv
    <3> QED BY <1>a, <3>2 DEF R!rows, RowInv, OutstandingIsLate, ErasedIsShut, OnlyOf
  <2> QED BY <2>1, <2>2
<1>2. RowsGrow /\ version' \in [Accounts -> 0..MaxVersion]
  BY <1>a DEF R!rows, RowInv, R!TypeOK, RowsGrow, R!Exists
<1>3. R!TypeOK'
  BY <1>1, <1>2, <1>a DEF R!rows, R!mails, RowInv, R!TypeOK, LocalsOK
<1>4. RowRequestsKnown'
  BY <1>1, <1>2, OthersStayKnown DEF RowInv, RowRequestsKnown, LocalsOK
<1>5. RowsKnown'
  BY <1>a DEF R!rows, R!mails, RowInv, R!TypeOK, RowsKnown, R!Exists
<1>6. OldPasswordIsOut' /\ ErasedStaysAnonymous'
  BY <1>a DEF R!rows, RowInv, OldPasswordIsOut, R!OldPasswordIsOut, ErasedStaysAnonymous,
              R!ErasedStaysAnonymous
<1> QED BY <1>1, <1>3, <1>4, <1>5, <1>6 DEF RowInv

\* A token or a link expires, or the tokens of an erased account are refused: no row of an
\* account changes.
LEMMA ClockKeepsRowInv ==
    ASSUME RowInv,
           \/ \E u \in Accounts : R!AccessExpires(u) \/ \E v \in 1..MaxVersion : R!RefuseErased(u, v)
           \/ \E l \in Links : R!LinkExpires(l)
    PROVE  RowInv'
<1>1. /\ inside' \subseteq inside /\ sessions' \subseteq sessions /\ linkOf' = linkOf /\ spent' \subseteq Links
      /\ UNCHANGED <<R!rows, rowPc, R!locals, R!history>>
  BY DEF R!AccessExpires, R!RefuseErased, R!LinkExpires, R!rows, R!tokens, R!mails, R!locals,
         R!history, RowInv, R!TypeOK
<1>2. R!TypeOK' /\ RowsKnown'
  BY <1>1 DEF R!rows, R!locals, R!history, RowInv, R!TypeOK, RowsKnown, R!Exists
<1>3. RowRequestsKnown' /\ ErasedIsShut' /\ OutstandingIsLate'
  BY <1>1 DEF R!rows, R!locals, R!history, RowInv, RowRequestsKnown, Known, ErasedIsShut,
              OutstandingIsLate, R!Exists
<1> QED BY <1>1, <1>2, <1>3 DEF R!rows, R!history, RowInv, OldPasswordIsOut, R!OldPasswordIsOut,
                                ErasedStaysAnonymous, R!ErasedStaysAnonymous

LEMMA InitRowInv == R!Init => RowInv
<1> SUFFICES ASSUME R!Init PROVE RowInv
  OBVIOUS
<1>1. R!TypeOK
  BY AccountsAssumption DEF R!Init, R!TypeOK, R!Roles, R!RegistryAssumption
<1>2. R!NoWish \in Wishes
  BY DEF R!NoWish, Wishes, R!Roles
<1>3. RowsKnown
  BY <1>1, AccountsAssumption DEF R!Init, RowsKnown, R!Exists, R!TypeOK
<1>4. RowRequestsKnown
  BY <1>2 DEF R!Init, RowRequestsKnown, Known
<1> QED BY <1>1, <1>3, <1>4 DEF R!Init, RowInv, ErasedIsShut, OutstandingIsLate, OldPasswordIsOut, R!OldPasswordIsOut,
                                ErasedStaysAnonymous, R!ErasedStaysAnonymous

LEMMA StutterKeepsRowInv ==
    ASSUME RowInv, UNCHANGED rowVars
    PROVE  RowInv'
<1>1. R!TypeOK' /\ RowsKnown'
  BY DEF rowVars, RowInv, R!TypeOK, RowsKnown, R!Exists
<1>2. RowRequestsKnown' /\ ErasedIsShut' /\ OutstandingIsLate'
  BY DEF rowVars, RowInv, RowRequestsKnown, Known, ErasedIsShut, OutstandingIsLate, R!Exists
<1> QED BY <1>1, <1>2 DEF rowVars, RowInv, OldPasswordIsOut, R!OldPasswordIsOut,
                          ErasedStaysAnonymous, R!ErasedStaysAnonymous

LEMMA NextKeepsRowInv ==
    ASSUME RowInv, R!Next
    PROVE  RowInv'
<1>1. ASSUME NEW q \in Requests, NEW a \in Addresses, R!Register(q, a) \/ R!CreateMember(q, a)
      PROVE  RowInv'
  <2>1. PICK r \in R!Roles, where \in {"register", "member"} : R!FindAddress(q, a, r, where)
    BY <1>1 DEF R!Register, R!CreateMember, R!Roles
  <2> QED BY <2>1, FindAddressKeepsRowInv
<1> QED BY <1>1, BeginKeepsRowInv, ReadLinkKeepsRowInv, OpenAccountKeepsRowInv, AddMemberKeepsRowInv,
           EndKeepsRowInv, IssueKeepsRowInv, WriteKeepsRowInv, LinkKeepsRowInv, WriteResetKeepsRowInv,
           EraseRowsKeepsRowInv, RevokeTokensKeepsRowInv, ReadTokenKeepsRowInv, ConsumeTokenKeepsRowInv, BlacklistUserKeepsRowInv, ClockKeepsRowInv
        DEF R!Next

-----------------------------------------------------------------------------
(* The whole: one of the three modules runs, the others stand still. *)

\* Every variable keeps its type, whichever of the three modules runs.
THEOREM SessionsTypeCorrect == SessionsSpec => []TypesOK
<1>1. SessionsInit => Init /\ AccessInv /\ RowInv
  BY InitAccessInv, InitRowInv, AccountsAssumption DEF SessionsInit
<1>2. AccessInv /\ [SessionsNext]_sessionsVars => AccessInv'
  BY NextKeepsAccessInv, AccountsAssumption
     DEF SessionsNext, sessionsVars, accessVars, A!vars, A!accounts, A!issues, A!keys, A!history
<1>3. RowInv /\ [SessionsNext]_sessionsVars => RowInv'
  BY NextKeepsRowInv, StutterKeepsRowInv DEF SessionsNext, sessionsVars
<1>4. [SessionsNext]_sessionsVars => [Next]_vars
  BY DEF SessionsNext, sessionsVars
<1>5. AccessInv /\ RowInv /\ TypeOK => TypesOK
  BY DEF AccessInv, RowInv, TypesOK
<1> QED BY <1>1, <1>2, <1>3, <1>4, <1>5, TypeCorrect, PTL DEF SessionsSpec, Spec

\* An eviction or a logout lasts: no access token issued before it opens anything after it, whatever the
\* requests that were under way do and however long the keys of Redis live.
THEOREM EvictionsLast == SessionsSpec => []GoneIsOut
<1>1. SessionsInit => AccessInv
  BY InitAccessInv, AccountsAssumption DEF SessionsInit
<1>2. AccessInv /\ [SessionsNext]_sessionsVars => AccessInv'
  BY NextKeepsAccessInv, AccountsAssumption
     DEF SessionsNext, sessionsVars, accessVars, A!vars, A!accounts, A!issues, A!keys, A!history
<1>3. AccessInv => GoneIsOut
  BY AccessInvSuffices, AccountsAssumption DEF GoneIsOut, A!GoneIsOut
<1> QED BY <1>1, <1>2, <1>3, PTL DEF SessionsSpec

LEMMA RowInvHolds == SessionsSpec => []RowInv
<1>1. SessionsInit => RowInv
  BY InitRowInv DEF SessionsInit
<1>2. RowInv /\ [SessionsNext]_sessionsVars => RowInv'
  BY NextKeepsRowInv, StutterKeepsRowInv DEF SessionsNext, sessionsVars
<1> QED BY <1>1, <1>2, PTL DEF SessionsSpec

\* An answered reset leaves no session of an earlier password, save what a login or a refresh that
\* was past its check when the tokens were revoked had still to issue.
THEOREM FormerPasswordIsOut == SessionsSpec => []OldPasswordIsOut
<1>1. RowInv => OldPasswordIsOut
  BY DEF RowInv
<1> QED BY <1>1, RowInvHolds, PTL

\* An erased account names nobody again, save through a request begun before the end of the
\* erasure.
THEOREM ErasureLasts == SessionsSpec => []ErasedStaysAnonymous
<1>1. RowInv => ErasedStaysAnonymous
  BY DEF RowInv
<1> QED BY <1>1, RowInvHolds, PTL
=============================================================================
