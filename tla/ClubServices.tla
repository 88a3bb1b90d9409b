----------------------------- MODULE ClubServices -----------------------------
(***************************************************************************)
(* What the services of the API (apps/api/src/services) read and write for *)
(* the pages of the web client: for each function a route calls, the       *)
(* groups of rows its answer shows, or those it changes.  A group is as    *)
(* small as the lists that read it tell apart: the seats of a course, the  *)
(* attendance noted on them and the horses given with them are three.      *)
(* Joined rows count: a list that shows the name of a horse reads "horse". *)
(* Left out: checks that show nothing, the rows that go with a deleted one *)
(* (its card leaves the screen too), and the notices sent to other people. *)
(***************************************************************************)

Reads(rows)  == [reads |-> rows, writes |-> {}]
Writes(rows) == [reads |-> {}, writes |-> rows]

-----------------------------------------------------------------------------
(* Accounts: adminService.js, authService.js *)

AdminRows ==
    [getDashboardKpis |-> Reads({"course", "seat", "paid", "horse", "load", "pending"}),
     listMembers |-> Reads({"member", "name", "ban", "subscription", "plan"}),
     listInstructors |-> Reads({"coach"})]

\* "member" is who has an account, "name" what the others see of one.  A list of
\* instructors shows those who are not banned.
AccountRows ==
    [createMember |-> Writes({"member", "coach"}),
     updateMemberProfile |-> Writes({"name", "coach"})]

BanRows ==
    [banUser |-> Writes({"ban", "coach"}),
     unbanUser |-> Writes({"ban", "coach"})]

-----------------------------------------------------------------------------
(* Billing: billingService.js, paymentService.js *)

TariffRows ==
    [listSubscriptionPlans |-> Reads({"plan"}),
     createSubscriptionPlan |-> Writes({"plan"}),
     listDiscountRules |-> Reads({"rule"}),
     createDiscountRule |-> Writes({"rule"})]

\* An invoice is shown with the names of the family's account, never with its Stripe session.
InvoiceRows ==
    [createInvoice |-> Writes({"invoice"}),
     listAdminInvoices |-> Reads({"invoice", "paid", "name"}),
     generateSubscriptionInvoices |-> Writes({"invoice"}),
     listFamilyInvoices |-> Reads({"invoice", "paid", "name"}),
     getAdminInvoice |-> Reads({"invoice", "paid", "name"})]

SendingRows ==
    [sendInvoice |-> Writes({"invoice"}),
     remindInvoice |-> Writes({"invoice"})]

SubscriptionRows ==
    [listActivePublicPlans |-> Reads({"plan"}),
     getFamilySubscription |-> Reads({"subscription", "plan"}),
     subscribeFamilyPlan |-> Writes({"subscription"}),
     adminChangeFamilySubscription |-> Writes({"subscription"})]

SettlingRows == [payInvoice |-> Writes({"paid"})]

CheckoutRows ==
    [getPublicPaymentConfig |-> Reads({"config"}),
     createInvoiceCheckoutSession |-> Writes({"attempt"}),
     confirmInvoiceCheckout |-> Writes({"paid"})]

-----------------------------------------------------------------------------
(* Riders: riderService.js *)

\* A document put in is pending, and no longer missing.
FamilyRiderRows ==
    [listFamilyRiders |-> Reads({"rider", "document"}),
     createRider |-> Writes({"rider"}),
     updateRider |-> Writes({"rider"}),
     deleteRider |-> Writes({"rider", "document", "pending", "missing"}),
     uploadRiderDocument |-> Writes({"document", "pending", "missing"})]

AffinityRows ==
    [listRiderAffinities |-> Reads({"affinity", "horse"}),
     upsertRiderAffinity |-> Writes({"affinity"})]

DocumentRows ==
    [listPendingDocuments |-> Reads({"pending", "rider", "name"}),
     listRidersMissingLicense |-> Reads({"missing", "rider", "name"}),
     adminUploadLicense |-> Writes({"document", "pending", "missing"}),
     reviewRiderDocument |-> Writes({"document", "pending"})]

-----------------------------------------------------------------------------
(* Courses: courseService.js, horseAssignment.js *)

CourseRows ==
    [listPublicCourses |-> Reads({"course", "seat", "space"}),
     createCourse |-> Writes({"course"})]

PlanningRows ==
    [getPlanningEvents |-> Reads({"course", "seat", "space", "coach"}),
     enrollRider |-> Writes({"seat", "subscription"})]

\* Excusing oneself is noted by the same function.
EnrollmentRows ==
    [listEnrollments |-> Reads({"seat", "attendance", "mount", "rider", "horse"}),
     updateAttendance |-> Writes({"attendance"}),
     listFamilyUpcomingEnrollments |->
        Reads({"seat", "attendance", "rider", "course", "space", "coach"})]

CourseHorseRows ==
    [assignHorses |-> Writes({"mount", "load"}),
     getHorseOverrideOptions |-> Reads({"seat", "mount", "rider", "horse", "load", "affinity"}),
     overrideHorse |-> Writes({"mount", "load"}),
     listEnrollableCourses |-> Reads({"course", "seat", "space", "rider"})]

AuditRows ==
    [runCompatibilityAudit |->
        Reads({"course", "seat", "mount", "rider", "horse", "load", "affinity"})]

-----------------------------------------------------------------------------
(* Events: eventService.js *)

EventRows ==
    [listPublicEvents |-> Reads({"event", "registration"}),
     listAdminEvents |-> Reads({"event", "registration", "saddle", "rider", "horse"}),
     createEvent |-> Writes({"event"}),
     updateEvent |-> Writes({"event"}),
     deleteEvent |-> Writes({"event"})]

\* A registration is billed, and horses are given at once.
RegistrationRows ==
    [registerRider |-> Writes({"registration", "invoice", "saddle", "load"}),
     assignHorses |-> Writes({"saddle", "load"})]

CancellationRows ==
    [cancelRegistration |-> Writes({"registration", "saddle", "load"})]

-----------------------------------------------------------------------------
(* The club: horseService.js, spaceService.js, incidentService.js,         *)
(* messageService.js, notificationService.js, volunteerService.js,         *)
(* newsletterService.js                                                    *)

HorseRows ==
    [listHorses |-> Reads({"horse", "load"}),
     getHorse |-> Reads({"horse", "load"}),
     listHorsesOverLoadThreshold |-> Reads({"horse", "load"}),
     createHorse |-> Writes({"horse"}),
     updateHorse |-> Writes({"horse"}),
     deleteHorse |-> Writes({"horse"}),
     uploadHorsePhoto |-> Writes({"horse"}),
     deleteHorsePhoto |-> Writes({"horse"}),
     listHealthLogs |-> Reads({"health", "name"}),
     createHealthLog |-> Writes({"health"})]

SpaceRows ==
    [listSpaces |-> Reads({"space"}),
     createSpace |-> Writes({"space"}),
     updateSpace |-> Writes({"space"}),
     deleteSpace |-> Writes({"space"})]

IncidentRows ==
    [createIncident |-> Writes({"incident"}),
     listIncidents |-> Reads({"incident", "name", "horse", "rider", "course"}),
     countCriticalOpenIncidents |-> Reads({"incident"}),
     resolveIncident |-> Writes({"incident"})]

ConversationRows ==
    [listAllowedContacts |-> Reads({"member", "name", "ban"}),
     createConversation |-> Writes({"conversation"}),
     listConversations |-> Reads({"conversation", "message", "reading", "name"})]

\* A message moves its conversation to the top and is read by its sender.
MessageRows ==
    [listMessages |-> Reads({"message", "name"}),
     createMessage |-> Writes({"message", "conversation", "reading"}),
     markConversationRead |-> Writes({"reading"})]

NoticeRows ==
    [listNotificationPreferences |-> Reads({"preference"}),
     updateNotificationPreference |-> Writes({"preference"}),
     listNotifications |-> Reads({"notice"}),
     markNotificationRead |-> Writes({"notice"}),
     markAllNotificationsRead |-> Writes({"notice"})]

MissionRows ==
    [listVolunteerMissions |-> Reads({"mission", "signup"}),
     createVolunteerMission |-> Writes({"mission"}),
     updateVolunteerMission |-> Writes({"mission"}),
     deleteVolunteerMission |-> Writes({"mission"}),
     signupVolunteerMission |-> Writes({"signup"})]

NewsletterRows == [subscribeNewsletter |-> Writes({"newsletter"})]
=============================================================================
