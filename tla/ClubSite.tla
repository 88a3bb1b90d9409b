------------------------------- MODULE ClubSite ------------------------------
(***************************************************************************)
(* The pages of the web client: what each one shows, that is the keys of   *)
(* the cached answers of the API it queries, and the operations it offers, *)
(* each with the keys it refreshes or sets once it has succeeded; and who  *)
(* may open which page.  A key stands for all its variants (ids, dates,    *)
(* scopes), which an invalidation matches by prefix.                       *)
(***************************************************************************)
EXTENDS ClubApi

(* The query function behind a key, for the keys whose function is in one api.js file. *)

\* features/admin/api.js
ClubAsks ==
    [horses |-> "fetchHorses", adminHorse |-> "fetchHorse", instructorHorse |-> "fetchHorse",
     healthLogs |-> "fetchHealthLogs", loadAlerts |-> "fetchLoadAlerts",
     spaces |-> "fetchSpaces", adminSpaces |-> "fetchSpaces", planning |-> "fetchPlanning",
     enrollable |-> "fetchEnrollableCourses", myEnrollments |-> "fetchMyEnrollments",
     enrollments |-> "fetchEnrollments", instructorEnrollments |-> "fetchEnrollments",
     horseOptions |-> "fetchHorseOptions", dashboardKpis |-> "fetchDashboardKpis",
     adminMembers |-> "fetchMembers", pendingDocuments |-> "fetchPendingDocuments",
     missingLicense |-> "fetchRidersMissingLicense", adminInstructors |-> "fetchInstructors"]

\* features/billing/api.js
BillingAsks ==
    [publicPlans |-> "fetchPublicPlans", subscription |-> "fetchFamilySubscription",
     subscriptionPlans |-> "fetchSubscriptionPlans", discountRules |-> "fetchDiscountRules",
     adminInvoices |-> "fetchAdminInvoices", adminInvoice |-> "fetchAdminInvoice",
     clientInvoices |-> "fetchClientInvoices", paymentConfig |-> "fetchPaymentConfig"]

\* features/engagement/api.js
EngagementAsks ==
    [publicEvents |-> "fetchPublicEvents", adminEvents |-> "fetchAdminEvents",
     preferences |-> "fetchNotificationPreferences", notifications |-> "fetchNotifications",
     incidents |-> "fetchIncidents", criticalIncidents |-> "fetchCriticalIncidentCount",
     missions |-> "fetchVolunteerMissions", contacts |-> "fetchMessageContacts",
     conversations |-> "fetchConversations", messages |-> "fetchConversationMessages"]

\* features/riders/api.js
RiderAsks == [riders |-> "fetchRiders", affinities |-> "fetchRiderAffinities"]

\* features/home/api.js
HomeAsks == [publicCourses |-> "fetchPublicCourses"]

Questions == {ClubAsks, BillingAsks, EngagementAsks, RiderAsks, HomeAsks}
Asks == Join(Questions)
QueryKeys == DOMAIN ClubAsks \cup DOMAIN BillingAsks \cup DOMAIN EngagementAsks
             \cup DOMAIN RiderAsks \cup DOMAIN HomeAsks

\* An operation: what it calls, the keys its onSuccess invalidates and those it overwrites,
\* and what the page it leads to shows ({} if it leads nowhere).
Op(call, refreshes) == [call |-> call, refreshes |-> refreshes, sets |-> {}, leads |-> {}]
Patch(call, key, refreshes) == [Op(call, refreshes) EXCEPT !.sets = {key}]
Leave(call, refreshes, key) == [Op(call, refreshes) EXCEPT !.leads = {key}]
Ops(calls, refreshes)       == {Op(c, refreshes) : c \in calls}
Part(shows, offers)         == [shows |-> shows, offers |-> offers]
Page(parts)                 == Part(UNION {p.shows : p \in parts}, UNION {p.offers : p \in parts})

-----------------------------------------------------------------------------
(* Parts of pages *)

NotificationBell == Part({"notifications"}, {})

NotificationInbox ==
    Part({"notifications"},
         {Patch(c, "notifications", {}) : c \in {"markNotificationRead", "markAllNotificationsRead"}})

NotificationPreferences ==
    Part({"preferences"}, {Op("updateNotificationPreference", {"preferences"})})

\* Mutant: excusing a rider refreshes the calendar alone.
UpcomingEnrollmentsForgetful ==
    Part({"myEnrollments"}, {Op("excuseEnrollment", {"planning"})})

UpcomingEnrollments ==
    Part({"myEnrollments"}, {Op("excuseEnrollment", {"myEnrollments", "planning"})})

EnrollSection ==
    Part({"riders", "enrollable"},
         {Op("enrollRider", {"enrollable", "planning", "myEnrollments"})})

HorsesPanel ==
    Part({"horses", "spaces"}, {Leave("createHorse", {"horses"}, "adminHorse")})

SpacesPanel ==
    Part({"spaces"}, Ops({"createSpace", "updateSpace", "deleteSpace"}, {"spaces"}))

RiderCard ==
    Part({"affinities"}, {Op("uploadRiderDocument", {"riders"}),
                          Op("upsertRiderAffinity", {"affinities"})})

FamilySubscriptionCard == Part({}, {Op("subscribeFamilyPlan", {"subscription"})})

MemberDialogs ==
    Part({}, Ops({"updateMember", "changeFamilySubscription"}, {"adminMembers"}))

CreateMemberForm == Part({}, {Op("createMember", {"adminMembers", "adminInstructors"})})

PendingDocumentCard == Part({}, {Op("reviewDocument", {"pendingDocuments", "dashboardKpis"})})

MissingLicenseCard ==
    Part({}, {Op("adminUploadLicense", {"missingLicense", "pendingDocuments"})})

NewsletterForm == Part({}, {Op("subscribeNewsletter", {})})

-----------------------------------------------------------------------------
(* Pages *)

HomePage ==
    Page({NewsletterForm, Part({"publicEvents", "publicPlans", "publicCourses"}, {})})

ClientDashboardPage ==
    Page({UpcomingEnrollments, Part({"horses", "riders", "clientInvoices", "affinities"}, {})})

ClientPlanningPage == Page({UpcomingEnrollments, EnrollSection, Part({"planning"}, {})})

RidersPage ==
    Page({RiderCard, Part({"riders", "horses"},
                          Ops({"createRider", "updateRider", "deleteRider"}, {"riders"}))})

ClientEventsPage ==
    Part({"publicEvents", "riders"}, {Op("registerForEvent", {"publicEvents"})})

ClientInvoicesPage ==
    Part({"paymentConfig", "clientInvoices"},
         {Patch("confirmCheckoutSession", "clientInvoices", {"clientInvoices"}),
          Op("createCheckoutSession", {}), Op("payInvoice", {"clientInvoices"})})

ClientAccountPage ==
    Page({FamilySubscriptionCard, Part({"subscription", "publicPlans"}, {})})

VolunteerPage == Part({"missions"}, {Op("signupVolunteerMission", {"missions"})})

AdminVolunteerPage ==
    Part({"missions"}, Ops({"createVolunteerMission", "updateVolunteerMission",
                            "deleteVolunteerMission"}, {"missions"}))

MessagesPage ==
    Part({"contacts", "conversations", "messages"},
         {Op("markConversationRead", {"conversations"}), Op("createConversation", {"conversations"}),
          Op("sendMessage", {"conversations", "messages"})})

NotificationsPage == Page({NotificationInbox, NotificationPreferences})

InstructorPlanningPage ==
    Part({"planning", "instructorEnrollments", "horseOptions"},
         {Op("assignHorses", {"instructorEnrollments", "planning"}),
          Op("overrideHorse", {"instructorEnrollments"})})

AttendancePage ==
    Part({"planning", "enrollments"}, {Op("updateAttendance", {"enrollments"})})

InstructorIncidentsPage == Part({}, {Op("createIncident", {"incidents"})})

InstructorHealthPage == Part({"horses"}, {})

InstructorHorseHealthPage == Part({"instructorHorse", "healthLogs"}, {})

AdminDashboardPage ==
    Part({"dashboardKpis", "loadAlerts", "horses", "criticalIncidents"}, {})

AdminPlanningPage ==
    Part({"planning", "adminInstructors", "adminSpaces"},
         {Op("createCourse", {"planning"}), Op("runCompatibilityAudit", {})})

AdminCavalryPage == Page({HorsesPanel, SpacesPanel})

AdminHorsePage ==
    Part({"adminHorse", "healthLogs"},
         {Patch(c, "adminHorse", {"horses"}) :
            c \in {"updateHorse", "uploadHorsePhoto", "deleteHorsePhoto"}}
         \cup {Leave("deleteHorse", {"horses"}, "spaces"), Op("createHealthLog", {"healthLogs"})})

AdminEventsPage ==
    Part({"adminEvents"}, Ops({"createEvent", "updateEvent", "deleteEvent", "assignEventHorses",
                               "cancelEventRegistration"}, {"adminEvents"}))

AdminIncidentsPage == Part({"incidents"}, {Op("resolveIncident", {"incidents"})})

Billing == {"subscriptionPlans", "discountRules", "adminInvoices", "adminInvoice"}

AdminBillingPage ==
    Part(Billing, Ops({"createSubscriptionPlan", "createDiscountRule", "createInvoice", "sendInvoice",
                       "remindInvoice", "generateSubscriptionInvoices"}, Billing))

AdminMembersPage ==
    Page({CreateMemberForm, MemberDialogs, PendingDocumentCard, MissingLicenseCard,
          Part({"adminMembers", "pendingDocuments", "missingLicense", "subscriptionPlans"},
               Ops({"banMember", "unbanMember"}, {"adminMembers"}))})

\* The routes under RequireAuth, each with the bell of ConnectedShell, and the open pages.
Connected(pages) == {Page({NotificationBell, p}) : p \in pages}
Shared == {MessagesPage, NotificationsPage}
Site ==
    [client |-> Connected(Shared \cup {ClientDashboardPage, ClientPlanningPage, RidersPage,
                ClientEventsPage, VolunteerPage, ClientInvoicesPage, ClientAccountPage}),
     instructor |-> Connected(Shared \cup {InstructorPlanningPage, AttendancePage,
                InstructorIncidentsPage, InstructorHealthPage, InstructorHorseHealthPage}),
     admin |-> Connected(Shared \cup {AdminDashboardPage, AdminPlanningPage, AdminCavalryPage,
                AdminHorsePage, AdminEventsPage, AdminIncidentsPage, AdminVolunteerPage,
                AdminBillingPage, AdminMembersPage}),
     visitor |-> {HomePage}]

\* refetchInterval: 30 s for notifications, 15 s on the page of messages.
Polled == {"notifications", "conversations", "messages"}

\* Operations with a list their own page shows, that they change and do not refresh: giving
\* a horse leaves the options of the riders, renaming a member the name of the family on the
\* documents to look at.
Forgotten ==
    {<<"assignHorses", "horseOptions">>, <<"overrideHorse", "horseOptions">>,
     <<"updateMember", "pendingDocuments">>, <<"updateMember", "missingLicense">>}
==============================================================================
