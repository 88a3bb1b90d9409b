# Formal specification of Equime

Equime is the web application of an equestrian centre: an Express API
(`src/apps/api`) over PostgreSQL (Prisma) and Redis, and a React client
(`src/apps/web`).  Families enroll riders in courses and stages, horses are
assigned to riders, invoices are issued and paid through Stripe.  This directory
holds TLA+ models of the program, the TLC runs that check them, and TLAPS proofs
of what matters most.

## 1. The system

One Node process (or several) serves HTTP requests.  A request is a chain of
`await`ed statements: between two of them any statement of another request may
run.  PostgreSQL runs READ COMMITTED (Prisma's default); `prisma.$transaction`
makes its writes visible together at the commit and gives them all back on an
exception.  Inside a transaction, reads still see what others commit meanwhile.
Redis, the volume of uploads, Stripe and the browser take part in no transaction.

| Component | State it keeps | Operations | What is hard | What makes it correct | Module |
|---|---|---|---|---|---|
| Stages and events `eventService.js` | events, registrations, the row lock | create, update, delete, register, cancel | edits and cancellations meanwhile, crash after the commit | no rider in a full event, billed once, requests end | `EventRegistration` |
| Payment `paymentService.js` | session and intent of an invoice | checkout, confirm, webhook | repeated, reordered events; deferred payments; crash | paid only when collected, recorded, told once | `InvoicePayment` |
| Invoices `billingService.js`, `pricing.js` | plans, discounts, invoices | create, batch of the month, send, remind, pay, delete a plan | count, then write; numbers from the latest | numbers follow, one bill a month, best price, plan exists | `SubscriptionBilling`, `InvoicePayment` |
| Courses `courseService.js` | courses, enrollments, quotas | enroll, cancel one or a series, subscribe, change plan | capacity counted without a lock; enrolled while it is cancelled | quota balanced, full only by a race, told when cancelled | `CourseEnrollment` |
| Attendance `courseService.js` | attendance, notices | staff and families answer | read, write, tell: three statements | every absence told | `Attendance` |
| Spaces `spaceService.js`, `recurrence.js` | spaces, calendar | create (series), move, cancel, edit or delete a space | check, then create, without a lock | one course at a time in a space but for named races, series come whole | `SpacePlanning` |
| Planning cache `planningCache.js` | keys in Redis | read through, invalidate | fill after an invalidation | stale only for a cause, private | `PlanningCache` |
| Choice of horses `horseAssignment.js` | — | rank, serve | order of service, weights | nobody above their level, last horse kept | `HorseRanking` |
| Horses of courses `horseAssignment.js`, `horseService.js` | mounts, loads | assign, override, delete a horse | assignments that overlap plan on the same state; an override reads its options outside of its transaction | one rider per horse, load = hours | `CourseHorses` |
| Refresh tokens `tokenService.js` | tokens, a set in memory | login, refresh, logout, reset, ban, erase, purge | tabs and processes with one cookie, restarts | sessions never fork, races lose none | `TokenSessions` |
| Access tokens `auth.js`, `tokenService.js` | blacklists in Redis | ban, erase, logout | keys and tokens expire, failures half way | who is out stays out | `AccountAccess` |
| Accounts `authService.js`, `family.js`, `riderService.js` | users, riders, links | register, edit, forget, reset, erase | a hash between read and write | old passwords are out, erased is anonymous | `AccountRegistry` |
| Rate limits `rateLimit.js` | counters in Redis | count, refuse | Redis fails between two calls | windows end, and hold under `/auth` | `RateLimit` |
| Documents `riderService.js`, `uploads.js` | files, rows | upload, review, delete, erase | no transaction spans file and row; a look, then a review | files match rows, approved was judged | `RiderDocuments` |
| Volunteers `volunteerService.js` | missions, sign-ups | sign up, edit, delete | counts without a lock | places respected but for named races | `VolunteerMissions` |
| Notifications `notificationService.js` | preferences, notifications | dispatch, choose, read | created on first use, by several at once; erasure | complete, and those of the user | `Notifications` |
| Messages `messageService.js` | conversations | open, write, read | find or create; times that tie | one per pair, news shows | `Messaging` |
| Browser `apiClient.js`, `authStore.js` | access token per tab, one cookie | call, refresh, logout | lost answers, late refusals, errors | a lost race keeps the session | `BrowserSession` |
| Pages `features/**`, `router.jsx`, routes | cache of queries | open, submit, invalidate | an entry nobody invalidates | own changes show, no page asks what its role may not | `ClubSite`, `ClubPages`, `ClubApi`, `ClubServices` |

They interact through the rows of the database.  An enrollment reads documents
and spends the quota billing grants; a change of a course empties the planning
cache and frees horses; a registration creates an invoice that payments finish;
an erasure touches accounts, tokens, riders and files.  `PROJECT.json` lists
every component with its status, and the hazards with the properties about them.

## 2. The modules

| Module | What it models | Checked by | Proved in |
|---|---|---|---|
| `SeatBooking` | abstract: a bounded number of places | as the property of `EventRegistration` and, violated, of `CourseEnrollment` | — |
| `Settlement` | abstract: invoices settled once, for money that is held, and told once | as the property of `InvoicePayment` | — |
| `EventRegistration` | events, their invoices, their horses | `MCStages`, `MCLiveness`, `MCEventRegistration` | `EventRegistrationProofs`, `StagesProofs` |
| `InvoicePayment` | an invoice from draft to paid, Checkout, webhook | `MCStages`, `MCLiveness`, `MCInvoicePayment` | `InvoicePaymentProofs`, `StagesProofs` |
| `Stages` | composes the two above | `MCStages` | `StagesProofs` |
| `CourseEnrollment` | enrollments, quota, cancellation | `MCCourseEnrollment` | `CourseEnrollmentProofs` |
| `TokenSessions` | rotating refresh tokens | `MCSessions`, `MCTokenSessions` | `SessionsProofs` |
| `AccountAccess` | access tokens and the keys that bar them | `MCSessions` | `SessionsProofs` |
| `AccountRegistry` | rows of accounts, passwords, links, erasure | `MCSessions` | `SessionsProofs` |
| `Sessions` | composes the three above | `MCSessions` | `SessionsProofs` |
| `SpacePlanning` | the calendar of spaces | `MCCalendar` | `CalendarProofs` |
| `PlanningCache` | the cached planning | `MCCalendar` | `CalendarProofs` |
| `CourseHorses` | mounts and hours of courses | `MCCalendar` | `CalendarProofs` |
| `Attendance` | absences and their notices | `MCCalendar` | `CalendarProofs` |
| `Calendar` | composes the four above | `MCCalendar` | `CalendarProofs` |
| `RateLimit`, `VolunteerMissions`, `Notifications`, `Messaging`, `RiderDocuments`, `BrowserSession`, `SubscriptionBilling`, `HorseRanking` | one component each | `MCClub` | `ClubProofs` |
| `ClubPages`, over `ClubSite`, `ClubApi` and `ClubServices` | the cache of the pages; what pages show and offer, the routes, what services read and write | `MCClub` | `ClubProofs` |
| `Club` | composes the nine above | `MCClub` | `ClubProofs` |
| `WeeklyHours` | no code: lemmas on the hours of a set of rides, for `StagesProofs` and `CalendarProofs` | — | itself |

The composing modules (`Stages`, `Sessions`, `Calendar`, `Club`) hold the variables
of their components, the properties the runs check, and the constraints under
which some of them hold; a theorem about a composition names the very definition
its run checks.  An `MC` module only gives constants their values.

**Conventions.**  A *request* (`Requests`) or *slot* (`Slots`) is what Node runs
concurrently; `pc` names its next statement, and the locals it read are
variables of their own, so that a stale read is visible in the state.  One
action is one statement of the source with everything up to the next `await`.
A transaction's writes appear in the action of its last statement; a row lock is
a variable, taken by the statement that takes it in PostgreSQL and released with
the transaction.  That is sound because under READ COMMITTED nobody sees the
writes before the commit, and each transaction writes rows only it has locked.
`Die` and `Fail` are an exception or a crash: an open transaction is rolled back,
what was committed stays.  Variables marked *history* are read by properties only.

An operator whose comment starts with `Mutant:` is a plausible bug no
specification uses: it documents a change of the code that a property catches.
`PROJECT.json` lists one of them per property; a property that is a conjunction
has others in its module, for its other parts.

**How they correspond to the code.**  The statements of each handler are actions
in its order; the section lines of a module name the handlers.  What deserves a
word:

- `EventRegistration`: `LockEvent` is `SELECT ... FOR UPDATE`; the score of a
  horse is abstracted, `Plans` holds every outcome in which each waiting rider
  gets a suitable free horse or none is left (`HorseRanking` has the score).
- `InvoicePayment`: Stripe is external, completes sessions with the money or with
  a deferred payment, expires them, and delivers any event again in any order.
- `CourseEnrollment`: `CountEnrollments` takes no lock; `TakeQuota` is the
  conditional decrement, which locks the row of the family until the commit.
  `stale` are the requests whose count was overtaken, `late` those that found open
  a course about to be cancelled.
- `TokenSessions`: `inflight` is the set each process keeps in memory; `Restart`
  loses it.  Time is the actions `GraceEnds` and `Expire`.
- `AccountAccess` counts time in units, of which an access token lives `TTL`, as
  the keys of the blacklist do; `late` are tokens a login sealed before an
  eviction and stored after it.
- `AccountRegistry`: `version` says which password an account has, a session
  carries the one it was opened with; a refresh is `ReadToken`, `ConsumeToken` and
  `Issue`, one per `await`; `late` are the sessions due to who was already let in
  when a reset revoked the others; `touched` are the accounts a request that
  had begun before the end of an erasure wrote to.
- `SpacePlanning`: the slots of a series are checked one query at a time, then
  stored; a week is a number of time units.  `Inputs` are the bodies of requests: a
  creation names every field, an edit any of them, each optional.  `missed` and
  `blind` say which courses the writer of a course has not seen.
- `PlanningCache`: `GET`, the query and `SET` are three steps, so are the write,
  `KEYS` and `DEL`; `suspect` remembers why a key may be stale.
- `HorseRanking` is the pure function, one turn of its loop per step, from every
  table of riders, horses and affinities of the instance.
- `Messaging` counts time in milliseconds: a message and a mark may bear the same.
  A message has its time when its transaction begins, a mark when its request does.
- `VolunteerMissions`: `stale` are the transactions whose count was overtaken; an
  erasure takes the sign-ups of its user away.
- `Notifications`: dispatch looks the preferences up, creates what lacks, reads one
  and stores; the erasure of the account may delete them in between (`bereft`).
- `RiderDocuments`: an admin opens a document (`OpenDocument`), then decides;
  `judged` are the files opened or brought, `swapped` the documents that changed
  under the eyes of an admin.
- `BrowserSession` sees the API through its answers, which may be lost, late or
  overtaken by those of another tab.  `FailRotation` is the `catch` of the refresh:
  any error but a lost race clears the cookie, whatever became of the token.
- `ClubSite` lists every page, what it queries and what each success
  invalidates; `ClubPages` follows one cached entry through one user's tab: as in
  TanStack Query 5, an invalidation restarts the load of an entry on the screen that
  has data, and leaves a first load, or that of an entry no page shows, under way
  (`escaped`).  `ClubApi`
  says for each route who is let in and which function of the services it calls,
  `ClubServices` which groups of rows that function reads or writes.  `Forgotten`
  lists the four pairs of a call and a key that no invalidation covers: the
  options of horses after an assignment or an override, and the two lists of
  documents after a member's name is edited.

`SeatBooking` is refined by `EventRegistration`, because of its lock.  Courses and
missions have none and do not refine it: there, `TakesOnlyFreeSeats` and
`TakesOnlyFreePlaces` say which requests alone can take a place that is not free.
`Settlement` is refined by `InvoicePayment` as long as the
admin's sends and reminders overlap no payment: the invoices Stripe holds a paid
session for are those money is held for (all of them on a server without Stripe),
those with status `paid` are settled, and `confirmed` counts what the family was told.

## 3. The runs

Several components that share no row, or describe the same operations at
different levels, are checked in one run: `focus`, chosen at first, says which of
them the behaviour follows, and the others keep their first values.  The states
of such a run are the sum, not the product, of those of its components.

| Run | Instance | Shows |
|---|---|---|
| `Stages_payments` | 1 event, 2 riders, 2 horses (one suits one rider only), capacity 1 or 2; 2 invoices, 2 sessions; 3 requests | `BooksOnlyFreeSeats` (refinement of `SeatBooking`), `BilledOnlyIfRegistered`, `NeverBilledTwice`, `MountsAreSound`, `CheckoutIsSound`, `PaymentsSettle` (refinement of `Settlement`) |
| `Liveness_requests` | 2 requests, 1 session, 1 crash, any overlap, fairness | `RequestsEnd`, `PaymentIsRecorded`, `PaymentIsNotified`, `PaidOnlyIfCollected` |
| `CourseEnrollment_concurrent` | a series of 2 courses of 1 or 2 places, 1 family of 2 riders, 2 plans, 2 requests; any overlap | `QuotaIsBalanced`, `FirstPlanWins`, `TakesOnlyFreeSeats`, `CancellationTold` |
| `Sessions_accounts` | 3 slots in 2 processes and 2 refresh tokens; 2 access tokens living 2 units; 1 account, 2 links, 2 passwords, 2 requests; any overlap | `SessionNeverForks`, `RaceKeepsSession`, `InflightIsServed`, `GoneIsOut`, `OldPasswordIsOut`, `ErasedStaysAnonymous` |
| `Calendar_week` | 2 spaces, 3 courses in weeks of one unit, 3 requests of which 2 overlap; 2 courses, 2 horses, 2 riders, courses of 1 or 2 hours; the planning of 3 roles | `CalendarIsSound`, `CoursesComeWhole`, `StaleHasCause`, `MineStaysMine`, `MountsAreSound`, `AbsenceTold` |
| `Club_evening` | for each component the smallest sets in which its race can happen: 3 volunteers for 2 places, 2 conversations of one pair in 3 milliseconds, 2 tabs, 2 riders and 3 horses, 3 files for one document... | `MessagesReach`, `FilesMatchRows`, `ApprovedWasJudged`, `WindowsHold`, `BillingIsRight`, `OwnChangeIsShown`, `MayAsk`, `SignupsFit`, `PreferencesHold`, `SessionIsUsable`, `PlanIsFair` |
| `EventRegistration_lost_invoice` | 2 registrations | violation of `InvoicedAtRegistration` |
| `EventRegistration_load_edit` | durations 1 and 2; `OneAtATime` | violation of `LoadReturned` |
| `InvoicePayment_regress` | 2 slots, any overlap | violation of `PaidIsFinal` |
| `InvoicePayment_double_charge` | 1 slot | violation of `ChargedOnce` |
| `CourseEnrollment_overbooked` | 1 course, 2 families, any overlap | violation of `BooksOnlyFreeSeats` |
| `TokenSessions_logout_race` | 2 slots | violation of `LogoutIsFinal` |

The runs that end in a violation show where the code does not do what a comment,
the backlog or the test book says; `findings` in `PROJECT.json` quotes both sides.

**Composite properties.**  `CalendarIsSound`, `CoursesComeWhole`,
`MountsAreSound`, `CheckoutIsSound`, `GoneIsOut`, `MessagesReach`,
`FilesMatchRows`, `WindowsHold`, `BillingIsRight`, `SignupsFit`,
`PreferencesHold`, `SessionIsUsable` and `PlanIsFair` are conjunctions of named
parts, defined just above them, each with its own comment.

**Constraints.**  Some properties fail when two particular operations overlap,
for want of a lock.  Then a passing run excludes exactly that overlap, with an
`ACTION_CONSTRAINT`, so that what else could break the property is checked:

- `HorsesAlone`: two assignments, cancellations or overrides of the horses of an
  event do not interleave between their read and their write.
- `PaymentsAlone`: a send or a reminder does not overlap another request, and two
  requests do not open Checkout at once; what reports a payment overlaps freely.
- `AssignmentsAlone`: assignments about one course, and the deletion of a horse,
  do not overlap, and no time of a course is edited meanwhile: a load is counted
  twice, or a rider keeps a horse that is gone, if they do.
- `OneAtATime`: no overlap at all; `EventRegistration_load_edit` needs none.

A theorem about such a property has the same constraint as a hypothesis, for
instance `StagesSpec /\ [][HorsesAlone]_stagesVars => []HorseRiddenOnce`; one whose
property needs none has none, though it is checked in a run that has one for the
sake of another property.

`Bounded` and `OneThread` only keep an instance small: the changes of the calendar,
which are interchangeable, begin in their order, the third edits a course and begins
when the first is done; one space at most is no riding space; two riders at most are
enrolled, one horse is fit, one lesson keeps its hour; and one of the two
conversations is written in.  No theorem has them.

**Exceptions.**  Where the code leaves a race open, its property says which request
may break it, by a history variable that names the circumstance and nothing wider;
what else could break the property is checked, with every overlap.

- `TakesOnlyFreeSeats`, `SignupsFit`: an enrollment or a sign-up whose count was
  overtaken by another, or by an edit of the places (`stale`).  Even so, a mission has
  at most one volunteer more than its places for each further request
  (`OversoldByRequests`).
- `CancellationTold`: a rider whose request found the course open before the
  cancellation marked it, or who joined it once reopened (`late`).
- `CalendarIsSound`: a course whose last write had missed another, written since its
  checks began, or an edit of itself; and a series of courses longer than a week, whose
  slots nobody compares with each other (`blind`).  `CoursesComeWhole`: a space that
  changed its type after the look (`retyped`).
- `MessagesReach`: a conversation looked for while another request was creating it
  (`twice`); a message on its way when its receiver wrote or marked, or of the very
  millisecond of that (`missed`).
- `ApprovedWasJudged`: a document that was replaced or erased while an admin had it
  open (`swapped`).
- `PreferencesHold`: a request whose user was erased meanwhile (`bereft`).
- `SessionIsUsable`: the cookie of a session the user left, or that lost an answer or a
  token (`ended`, `broken`), and a live cookie cleared with an error.
- `OwnChangeIsShown`: the pairs of `Forgotten`, and a load an invalidation does not
  reach (`escaped`).
- `GoneIsOut`: the token a login had sealed before an eviction.
- `OldPasswordIsOut`: the session of a login that checked the former password, or of a
  refresh that consumed its token, before the reset revoked the others.
- `ErasedStaysAnonymous`: requests and riders an erasure overlaps.
- `BillingIsRight`: invoices of batches that overlap.
- `FilesMatchRows`: documents of an erasure that failed.

**Bounds.**  Two requests suffice for a race of a pair, three let a third party
change what both read.  Capacities of 1 or 2 make the last place contended.
`MaxCrashes` is 0 where confirmations are counted (a lost request only confirms
less) and 1 under fairness.  Two refresh tokens are a rotation and its heir, or
two sessions.  `MaxTime` of `AccountAccess` lets a token outlive an eviction by
its whole life.  Two links and two passwords let an old link meet a new password.
`MaxVersion`, `MaxOther`, `MaxLoad`, `MaxNumber`, `MaxMonth`, `MaxTokens` and the
clock of `Messaging` keep numbers finite: each admits one value past the one at
which the property could first fail (three milliseconds: a tie, and a time on each
side of it).

**Deadlock** is checked in the runs of courses and sessions, which never stop.
The others do stop: all requests are spent, every invoice is paid, the bounded
clock has run out; there `CHECK_DEADLOCK` is `FALSE`, and that no accepted
request waits for ever is `RequestsEnd`.

**Symmetry** is declared only for sets whose elements are interchangeable in the
instance, and never with a liveness property.

**Fairness.**  `WF` on `Continue(q)`: Node resumes a request it accepted when
its statement returns; nothing forces a request to *start*.  `SF` on `LockEvent`:
PostgreSQL queues the waiters of a row lock.  `SF` on `Redeliver`: Stripe repeats
an event until it is acknowledged, for days.  No fairness on crashes, on the
customer or on the admin.  `PaymentIsNotified` excuses a run with a crash: a
request that dies between the transition to paid and the notification is not
caught up, since the repeated event finds the invoice paid.

## 4. The proofs

Each `...Proofs` module proves, for every value of the constants the named
assumptions allow (finite sets where something is counted, null values outside
of the sets, bounds that are numbers), with no bound on requests, tokens or
crashes.  The last column names the constraint `C` of section 3 that is a hypothesis,
as `[][C]_vars`; a theorem without one holds for every interleaving.

| Theorem | Property | Under |
|---|---|---|
| `EventRegistrationProofs!Refinement` | `BooksOnlyFreeSeats`, that is `Seats!Spec` | |
| `EventRegistrationProofs!CountIsSafe`, `BilledRegistered`, `BilledOnce` | `LockedCountIsSafe`, `BilledOnlyIfRegistered`, `NeverBilledTwice` | |
| `InvoicePaymentProofs!PaidIsCollected` | `PaidOnlyIfCollected` | |
| `StagesProofs!RegistrationsAreSound` | the three of registrations, in the composition | |
| `StagesProofs!PaymentsRefine` | `PaymentsSettle`, that is `Books!Spec` | `PaymentsAlone` |
| `StagesProofs!PaidStaysPaid` | `PaidIsFinal`, which `InvoicePayment_regress` violates without it | `PaymentsAlone` |
| `StagesProofs!CheckoutStaysSound` | `CheckoutIsSound` | `PaymentsAlone`, `NobodyDies` |
| `StagesProofs!MountsStaySound` | `MountsAreSound` | `HorsesAlone`, `DatesKept` |
| `StagesProofs!HorsesAreRiddenOnce` | its first half, `HorseOncePerSession` | `HorsesAlone` |
| `CourseEnrollmentProofs!QuotaBalanced`, `FirstPlanAlwaysWins` | `QuotaIsBalanced`, `FirstPlanWins` | |
| `CourseEnrollmentProofs!EnrollsOnlyOnFreeSeats`, `CancellationReachesAll` | `TakesOnlyFreeSeats`, `CancellationTold` | |
| `SessionsProofs!NeverForks`, `RacesAreHarmless`, `InflightServed` | `SessionNeverForks`, `RaceKeepsSession`, `InflightIsServed` | |
| `SessionsProofs!EvictionsLast`, `FormerPasswordIsOut`, `ErasureLasts` | `GoneIsOut`, `OldPasswordIsOut`, `ErasedStaysAnonymous` | |
| `CalendarProofs!StalenessIsExplained`, `OwnPlanningStaysOwn`, `AbsencesAreTold` | `StaleHasCause`, `MineStaysMine`, `AbsenceTold` | |
| `CalendarProofs!PlacesAreGivenOnce`, `SeriesComeWhole` | `CalendarIsSound`, `CoursesComeWhole` | |
| `CalendarProofs!MountsStaySound` | `MountsAreSound` | `AssignmentsAlone` |
| `CalendarProofs!HorsesStayWithOneRider` | two of its three parts, from a smaller invariant | `AssignmentsAlone` |
| `ClubProofs!WindowsAlwaysHold`, `FilesAlwaysMatchRows`, `WhatIsApprovedWasJudged` | `WindowsHold`, `FilesMatchRows`, `ApprovedWasJudged` | |
| `ClubProofs!PreferencesAlwaysHold`, `SessionStaysUsable`, `BillingIsAlwaysRight`, `PlansAreFair` | `PreferencesHold`, `SessionIsUsable`, `BillingIsRight`, `PlanIsFair` | |
| `ClubProofs!OwnChangesAreShown`, `PagesMayAsk` | `OwnChangeIsShown`, `MayAsk` | |
| `ClubProofs!MessagesAlwaysReach`, `SignupsAlwaysFit` | `MessagesReach`, `SignupsFit` | |
| `TypeCorrect` of four modules, `SessionsTypeCorrect`, `CalendarTypesAreKept`, `ClubTypesAreKept` | `TypeOK`, `TypesOK` | |

`NobodyDies` says that no step is the death of a request: one that dies between
creating a session at Stripe and recording it leaves a session that can be paid
beside the next.  `Stages_payments` has no crash for the same reason.

`DatesKept`, in `StagesProofs`, says that the dates of an event are not edited
while a horse is ridden in it, or a request on its horses is between its reads and
its write: the cancellation gives back the hours of the dates of the moment, so
such an edit leaves a load that no ride explains, which is what
`EventRegistration_load_edit` shows (`LoadReturned`).  In `Stages_payments` the
event has one duration.  `CourseHorses` needs no such hypothesis: its property
excepts, by name, the horses of a course whose hours were edited (`retimed`).

*Shape.*  A composition's step is a step of the component in focus or leaves it
as it is (`StepsOfTheParts` and its kin); so every invariant is proved of one
component, and `PTL` puts it under the composition's specification.  A constraint
enters once per component: a state predicate says what it implies of every state
(`HorsesApart` for the horses of courses), and that is kept by the constraint alone,
or is an assumption on the next state of the step lemmas.  A race the code leaves
open needs no constraint: the invariant speaks of the requests the history variable
does not name, and every step that could mislead one of them puts it there.

*Events* (`BookingInv`).  That the number of free places read stays a lower bound
depends on nobody else committing a registration of the event, which `LockInv`
gives: a request between `count` and `commit` on an event that exists holds its
lock.  A `commit` step then maps to `Book`, a `Release` to `Leave`, `UpdateEvent`
and `CreateEvent` to `Resize`, everything else to a stutter.  `BillInv` ties the
invoices to the rows whose unique key lets one in.

*Payments* (`PaymentInv`, `CheckoutInv`).  A session belongs to an invoice from its
creation on, the session of an invoice was created for it, and a request about to
mark an invoice as paid holds a session of it which Stripe was paid; that needs
that paid is the last state of a session, however late its event arrives.
`ConfirmInv`: the one request that made the transition to paid confirms it;
`OpenInv`: a session that is open is recorded, or about to be by its only creator.
`MarkInv` says of a request about to mark an invoice that the money has come in; with
it every step maps to `Settlement`: the transition to paid to `Settle`, its
notification to `Tell`, a customer who pays to `Collect`, everything else to a stutter
(`BooksStep`).

*Horses* (`HorseInv`, in `StagesProofs` and `CalendarProofs`).  `HorseOncePerSession`
is not inductive: a plan computed earlier may contradict it.  `PlanIsSound` and
`SwapIsSound` say what the plan and the override in hand still owe to the state,
`DeletedIsFree` that nobody has got the horse a deletion has counted.

*Hours* (`LoadInv`, in the same two modules).  That a load is the hours of its rides is
inductive only with `ReadInv`: the hours a request will add or take away are those
its event has, the horse it will release is the one ridden, the riders of its plan
have none.  The sum itself is a recursive function over the subsets of a set, and
`WeeklyHours` proves what the steps need of it (a ride comes, a ride goes, other
durations change) for every finite set.  An induction theorem would take a
predicate as its parameter; these proofs take the smallest set on which the fact
fails (`SmallestSet`, from the well-founded order of the numbers) and refute it.

*Courses.*  `PaysInv` says that who is about to insert an enrollment it pays for
holds the row of the family, and that the quota it tested is still positive;
without it neither `quota \in Nat` nor the balance is inductive.  `RaceInv` says
that what a request counted is still free unless its count is `stale`, that who is
about to join a course under cancellation is `late`, and that a cancellation has
listed all riders but those.

*Refresh tokens* (`SessionInv`).  The family of a token is the name of a token that
exists; a refresh revokes a family only after it gave its reason.  `ConsumeToken`
turns the only active token of a family into the only rotation, `RotateToken` that
rotation into the only active token.

*Access tokens* (`AccessInv`).  Whether a token is accepted depends on the clock, so
the invariant compares lives instead: the key of who was put out expires no sooner
than any token issued before (`UserKeysOutlive`, `LeftKeysOutlive`); with `Clock`
(no token from the future) both are inductive, and imply that none is accepted.

*Accounts* (`RowInv`).  Passwords are versions that only grow: a session, and what a
request read, is of a version the row has had; what a request is about to issue with
an earlier one is in `late` (`OutstandingIsLate`).  `ErasedIsShut`: whoever could
still name somebody in an erased row, or let somebody in, began before.

*Spaces* (`SpaceInv`).  A request between its checks and its write has found no
conflict, in the slots it has looked at, with any course it has not `missed`
(`Checked`); with its write it becomes either apart from each of them or `blind`.
`StoredFirst` gives the new courses of a series their numbers, one after the
other, so that the last of them is stored with the first.

*Planning cache* (`CacheInv`).  A reader that no write has overtaken holds the
planning as it is, so that `Fill` stores a current entry or is among the causes.
`MineStaysMine` follows from the key: only the shared planning is stored under a
key without a user.

*Attendance* (`ToldInv`).  `AbsenceTold` alone is not inductive: a request that
found the rider absent writes "absent" again and stays silent.  `ReadAbsenceTold`
says of what a request *read* that it was told, or is about to be.

*Rate limits* (`LimitInv`).  On a fail-closed key what passed was counted; a restart
of Redis ends the window and what it let through together.

*Documents* (`DocInv`).  One part is about rows (`RowsInv`: a name is of a file that
was written, and of one row only), one about verdicts (`ReviewInv`: an admin who has a
document open has seen the file the row names, unless it was swapped), and one about
files no row names, as long as requests about one document neither overlap nor
fail (`QuietInv`: each is in the hands of a request that will still name or remove it).

*Messages* (`ThreadInv`).  Who opens a conversation has found none, and none comes,
unless the pair is in `twice` (`PairInv`).  News are later than all their receiver has
written, marked or is about to mark (`FreshIsLater`), and so is a message under way for
those who have not missed it (`OnItsWay`).

*Preferences* (`PreferenceInv`).  The types a request did not find are all it will
insert (`FoundExist`); only an erasure makes a preference absent again, and the requests
it takes them from are `bereft`.

*Browser* (`SessionInv` of `ClubProofs`).  The heir of a rotated token is known to the
answer that carries it and to nobody else; a token that was presented can still be
rotated, has been a moment ago, or its session has lost an answer or, to a rotation
that failed, a token (`broken`).

*Billing* (`BillInv`).  The numbers of a year are exactly 1 to the count of its
invoices; a number in a request's hand is at most one above.  Who makes an invoice
of the month for a family that has one leaves a trace in `overlap`.

*Choice of horses* (`PlanInv`).  Riders are served by the number of their options, so
whatever a rider in conflict could have taken went to somebody with no more.

*Volunteers* (`MissionInv`).  A sign-up belongs to a mission; a sign-up whose count is
not stale still finds a place when it inserts (`CountedFit`).  For the bound on the
others, `ClaimsFit` adds up the sign-ups and those about to be: together they are
fewer than the places and the requests, since each counted below the places.

*Pages* (`PageInv`).  `SiteFits` is about the tables, page by page: the role of the page
may ask what it shows and offers, and each operation refreshes or overwrites
whatever of the page its service writes, is in `Forgotten`, or is polled.  It is
proved from one lemma per table of routes and queries (`AdminCalls`,
`ClubAnswers`...), since the tables are joined and looked up by name.  Over time,
`OpInv` says what an operation under way owes to the page it was submitted on, and
`BehindInv` that once it has succeeded, unless a load escaped it, no load sent before
the change is left, and an entry left behind is not trusted and is on its way anew.

Only model-checked:

- `RequestsEnd`, `PaymentIsRecorded`, `PaymentIsNotified`: liveness under fairness
  needs `ENABLED`, which the prover does not have;
- the violations of section 3.

## 5. What the models show of the code

Six disagreements are findings with a run of their own.  The gaps below are visible
in the models too, and excepted by name where a property meets them.  These go against
a sentence of the repository:

- two courses created, or edited, at once may share a space, and so may the courses of
  one weekly series that last longer than a week; `docs/backlog.md:137` calls it
  impossible;
- two sign-ups that overlap both take the last place of a mission;
  `docs/backlog.md:321` says sign-ups are bounded by the places and transactional,
  and they are in a transaction, which locks nothing;
- a rider who enrolls while the course is being cancelled is not told;
  `docs/cahier-de-tests.md:76` has the enrolled told;
- two batches of a month that overlap bill a family twice; `docs/backlog.md:253` says a
  family already billed is skipped;
- two overlapping requests can both use one reset link, and older links of an account
  stay valid after a reset; `docs/backlog.md:60` says a link is for one use;
- a refresh that consumed its token before a reset, like a login that had checked the
  former password, opens a session after it; `docs/backlog.md:61` says the other
  sessions are revoked;
- any error of a refresh, also a failing database, clears a cookie that may still be
  good; the comment at `authController.js:85` says that the cookie is of no use then;
- a message of the very millisecond of the reader's mark counts as read;
  `schema.prisma:573` says so of earlier ones only.

No document of the repository says otherwise of these:

- a renamed space or instructor stays in the cached planning for its time to live;
- a document replaced while an admin looks at it can be approved unseen;
- two people who open their conversation at the same time get two;
- an erasure in the middle of a dispatch makes it fail, or leaves preferences behind it;
- a first load of a page, or one of a page left, that an operation overtakes shows
  what was there before for up to 30 s;
- invoice numbers are compared as text, so the ten-thousandth of a year fails;
- `weeklyLoadHours` only moves with assignments, no statement resets it;
- an edit or a new rider that overlaps an erasure brings a name back;
- the client of Redis gives up after ten attempts, and logins answer 503 until
  the process restarts;
- cancelling one course of a series other than its first cancels that one alone;
- the options of horses stay as they were on the screen after an assignment or an
  override, and so do the names in two lists of documents after an edit of the
  member, until the cached answer is 30 s old (`Forgotten`).

## 6. Not modelled

- HTTP plumbing, validation and formatting of errors, configuration: no state of
  their own.
- PDF, e-mail, images, logs: rendering and I/O whose state ends with the call.
- Incidents, newsletter, legal pages, dashboard, photographs and health logs of
  horses, affinities: single statements on single rows, or reads; they appear as
  operations of the pages (`ClubApi`) and by the rows they touch (`ClubServices`).
- Markup and forms of the pages, downloads; seeds and deployment files.
- A crash between an attendance and its notice: nothing makes up for it.
- Lists and searches that only read, and the export of a user's data.

## 7. Plan

Every safety property the runs check is stated by a theorem.  Next models:
enrollments that end (`RequestsEnd` with the row of the family as the lock), and a
composition of `CourseEnrollment` with `RiderDocuments`, whose approval an enrollment
reads.  Next proofs: that composition, and the calendar as a refinement of an
abstract one, as the places and the payments have theirs.
