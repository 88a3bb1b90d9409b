------------------------------- MODULE Sessions -------------------------------
(***************************************************************************)
(* The accounts and their sessions: the refresh tokens, the access tokens  *)
(* with the keys that bar them, and the rows of the accounts.  The three   *)
(* modules describe the same operations at the level each needs: a         *)
(* behaviour runs one of them, chosen by focus.                            *)
(***************************************************************************)
EXTENDS TokenSessions

CONSTANTS AccessTokens,                        \* of AccountAccess
          Requests, TTL, MaxTime,
          Accounts, Addresses, Links,          \* of AccountRegistry
          MaxVersion, Deleted, NoAddress, NoAccount, NoLink

VARIABLES focus, now, accountBanned, accountErased, session, holder, issued, userKey, jtiKey,
          accountPc, actor, mine, sealed, lateTokens, left, email, role, version, named,
          rider, rowErased, sessions, inside, linkOf, spent, rowPc, who, wish, seen, link,
          listed, early, touched, rowSealed, settled, late

A == INSTANCE AccountAccess WITH Tokens <- AccessTokens, banned <- accountBanned,
                                 erased <- accountErased, pc <- accountPc, late <- lateTokens
R == INSTANCE AccountRegistry WITH erased <- rowErased, pc <- rowPc, sealed <- rowSealed

ASSUME AccountsAssumption == A!AccessAssumption /\ R!RegistryAssumption

accessVars == <<now, accountBanned, accountErased, session, holder, issued, userKey, jtiKey,
                accountPc, actor, mine, sealed, lateTokens, left>>
rowVars == <<email, role, version, named, rider, rowErased, sessions, inside, linkOf, spent,
             rowPc, who, wish, seen, link, listed, early, touched, rowSealed, settled, late>>

(* The module in focus runs; the variables of the others keep their first values. *)
SessionsInit ==
    /\ focus \in {"refresh tokens", "access tokens", "accounts"}
    /\ Init /\ A!Init /\ R!Init

SessionsNext ==
    /\ UNCHANGED focus
    /\ IF focus = "refresh tokens" THEN Next ELSE UNCHANGED vars
    /\ IF focus = "access tokens" THEN A!Next ELSE UNCHANGED accessVars
    /\ IF focus = "accounts" THEN R!Next ELSE UNCHANGED rowVars

sessionsVars == <<focus, vars, accessVars, rowVars>>

SessionsSpec == SessionsInit /\ [][SessionsNext]_sessionsVars

-----------------------------------------------------------------------------
(* Properties; those of TokenSessions have their own names. *)

TypesOK == TypeOK /\ A!TypeOK /\ R!TypeOK

\* auth.js:37, tokenService.js: who was put out or left stays out (AccountAccess).
GoneIsOut == A!GoneIsOut

\* authService.js: a reset shuts out what the former password opened (AccountRegistry).
OldPasswordIsOut == R!OldPasswordIsOut

\* authService.js: an erased account stays anonymous (AccountRegistry).
ErasedStaysAnonymous == R!ErasedStaysAnonymous
=============================================================================
