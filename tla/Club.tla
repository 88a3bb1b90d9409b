-------------------------------- MODULE Club ---------------------------------
(***************************************************************************)
(* The parts of the club that share no row, the rate limits first: a       *)
(* behaviour runs one of them, chosen by focus, for as long as it lasts.   *)
(***************************************************************************)
EXTENDS RateLimit, FiniteSets

CONSTANTS Requests,                                                     \* of several
          Missions, Volunteers, MaxSlots,                               \* VolunteerMissions
          Members, Types, Notes,                                        \* Notifications
          Writers, Role, Conversations, MaxTime,                        \* Messaging
          Riders, Kinds, License, Files, NoFile,                        \* RiderDocuments
          Tabs, PageCalls, TabOf, MaxTokens,                            \* BrowserSession
          Families, Plans, RidersOf, Rules, Prices, YearLength,         \* SubscriptionBilling
          MaxMonth, MaxNumber, NoPlan,
          NbRiders, NbHorses, HorseKinds, Levels, Affinities, NoHorse   \* HorseRanking

VARIABLES focus, slots, signed, signup, most, stale, inApp, note, owner, pc, purpose, missing,
          gone, bereft, members, messages, lastRead, banned, clock, messagePc, actor, about,
          stamp, fresh, missed, twice, exists, url, status, expired, enrolled, erased, files,
          written, docPc, target, held, old, judged, disturbed, swapped, aborted, cookie, made,
          family, alive, recent, revoked, browserExpired, token, browserStatus, flight, call,
          sent, logout, ended, broken, price, active, plan, month, invoices, billPc, todo, draft,
          overlap, level, horse, feeling, kept, options, planning, queue, mount, role,
          watched, page, entry, behind, load, op, phase, origin, escaped

M == INSTANCE VolunteerMissions
N == INSTANCE Notifications WITH Users <- Members, erased <- gone
G == INSTANCE Messaging WITH Users <- Writers, pc <- messagePc
D == INSTANCE RiderDocuments WITH pc <- docPc
W == INSTANCE BrowserSession WITH Calls <- PageCalls, expired <- browserExpired,
                                  status <- browserStatus
B == INSTANCE SubscriptionBilling WITH Riders <- RidersOf, pc <- billPc
K == INSTANCE HorseRanking
P == INSTANCE ClubPages

ASSUME ClubAssumption ==
    /\ LimitAssumption /\ M!VolunteerAssumption /\ N!NotificationAssumption
    /\ G!MessagingAssumption /\ D!DocumentAssumption /\ W!BrowserAssumption
    /\ B!BillingAssumption /\ K!RankingAssumption

mvars == <<slots, signed, signup, most, stale>>
nvars == <<inApp, note, owner, pc, purpose, missing, gone, bereft>>
gvars == <<members, messages, lastRead, banned, clock, messagePc, actor, about, stamp, fresh,
           missed, twice>>
dvars == <<exists, url, status, expired, enrolled, erased, files, written, docPc, target,
           held, old, judged, disturbed, swapped, aborted>>
wvars == <<cookie, made, family, alive, recent, revoked, browserExpired, token,
           browserStatus, flight, call, sent, logout, ended, broken>>
bvars == <<price, active, plan, month, invoices, billPc, todo, draft, overlap>>
kvars == <<level, horse, feeling, kept, options, planning, queue, mount>>
pvars == <<role, watched, page, entry, behind, load, op, phase, origin, escaped>>

(* The module in focus runs; the variables of the others hold nothing. *)
NoG ==
    members = "unused" /\ messages = "unused" /\ lastRead = "unused" /\ banned = "unused" /\
    clock = "unused" /\ messagePc = "unused" /\ actor = "unused" /\ about = "unused" /\
    stamp = "unused" /\ fresh = "unused" /\ missed = "unused" /\ twice = "unused"
NoD ==
    exists = "unused" /\ url = "unused" /\ status = "unused" /\ expired = "unused" /\
    enrolled = "unused" /\ erased = "unused" /\ files = "unused" /\ written = "unused" /\
    docPc = "unused" /\ target = "unused" /\ held = "unused" /\ old = "unused" /\
    judged = "unused" /\ disturbed = "unused" /\ swapped = "unused" /\ aborted = "unused"
NoB ==
    price = "unused" /\ active = "unused" /\ plan = "unused" /\ month = "unused" /\
    invoices = "unused" /\ billPc = "unused" /\ todo = "unused" /\ draft = "unused" /\
    overlap = "unused"
NoP ==
    role = "unused" /\ watched = "unused" /\ page = "unused" /\ entry = "unused" /\
    behind = "unused" /\ load = "unused" /\ op = "unused" /\ phase = "unused" /\
    origin = "unused" /\ escaped = "unused"

ClubInit ==
    /\ focus \in {"missions", "notifications", "messages", "documents", "limits", "browser",
                  "billing", "ranking", "pages"}
    /\ Init
    /\ M!Init
    /\ N!Init /\ (focus # "notifications" => inApp = [u \in Members |-> [t \in Types |-> "on"]])
    /\ IF focus = "messages" THEN G!Init ELSE NoG
    /\ IF focus = "documents" THEN D!Init ELSE NoD
    /\ W!Init
    /\ IF focus = "billing" THEN B!Init ELSE NoB
    /\ K!Init
    /\ IF focus = "pages" THEN P!Init ELSE NoP

ClubNext ==
    /\ UNCHANGED focus
    /\ IF focus = "limits" THEN Next ELSE UNCHANGED vars
    /\ IF focus = "missions" THEN M!Next ELSE UNCHANGED mvars
    /\ IF focus = "notifications" THEN N!Next ELSE UNCHANGED nvars
    /\ IF focus = "messages" THEN G!Next ELSE UNCHANGED gvars
    /\ IF focus = "documents" THEN D!Next ELSE UNCHANGED dvars
    /\ IF focus = "browser" THEN W!Next ELSE UNCHANGED wvars
    /\ IF focus = "billing" THEN B!Next ELSE UNCHANGED bvars
    /\ IF focus = "ranking" THEN K!Next ELSE UNCHANGED kvars
    /\ IF focus = "pages" THEN P!Next ELSE UNCHANGED pvars

clubVars == <<focus, vars, mvars, nvars, gvars, dvars, wvars, bvars, kvars, pvars>>

ClubSpec == ClubInit /\ [][ClubNext]_clubVars

-----------------------------------------------------------------------------
(* Properties; WindowsHold is the one of RateLimit. *)

TypesOK ==
    /\ focus = "limits" => TypeOK
    /\ focus = "missions" => M!TypeOK
    /\ focus = "notifications" => N!TypeOK
    /\ focus = "messages" => G!TypeOK
    /\ focus = "documents" => D!TypeOK
    /\ focus = "browser" => W!TypeOK
    /\ focus = "billing" => B!TypeOK
    /\ focus = "ranking" => K!TypeOK
    /\ focus = "pages" => P!TypeOK

\* volunteerService.js:84: sign-ups fit the places of a mission (VolunteerMissions).
SignupsFit == M!SignupsFit

\* notificationService.js: preferences are complete, and those of their user (Notifications).
PreferencesHold == N!PreferencesHold

\* messageService.js: a message reaches the thread its receiver looks at, and shows there.
MessagesReach == focus = "messages" => G!MessagesReach

\* riderService.js, uploads.js: the files are those the rows name (RiderDocuments).
FilesMatchRows == focus = "documents" => D!FilesMatchRows

\* riderService.js: what is approved was judged by somebody (RiderDocuments).
ApprovedWasJudged == focus = "documents" => D!ApprovedWasJudged

\* apiClient.js, authStore.js: the session of a tab stays usable (BrowserSession).
SessionIsUsable == W!SessionIsUsable

\* billingService.js: numbers, months, prices and plans of the invoices (SubscriptionBilling).
BillingIsRight == focus = "billing" => B!BillingIsRight

\* horseAssignment.js: the choice of horses is fair (HorseRanking).
PlanIsFair == K!PlanIsFair

\* features/**: the change a user made is shown (ClubPages).
OwnChangeIsShown == focus = "pages" => P!OwnChangeIsShown

\* router.jsx, routes: no page asks what its role may not (ClubPages).
MayAsk == focus = "pages" => P!MayAsk
==============================================================================
