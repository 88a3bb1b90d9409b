------------------------------- MODULE ClubApi -------------------------------
(***************************************************************************)
(* The API as the pages see it: for every function a page calls in the     *)
(* api.js files of the web client, who its route lets in                   *)
(* (apps/api/src/routes) and what the service function behind it reads or  *)
(* writes (ClubServices).  Left out: downloads, the legal pages, and       *)
(* features/auth/api.js, whose answers go to the store and not to the      *)
(* cache of queries (BrowserSession, AccountRegistry).                     *)
(***************************************************************************)
EXTENDS ClubServices

Client == {"client"}
Instructor == {"instructor"}
Admin == {"admin"}
Staff == Admin \cup Instructor
Member == Staff \cup Client           \* requireAuth alone
Anyone == Member \cup {"visitor"}     \* no guard

\* Several tables in one; they share no entry.
Join(tables) ==
    [x \in UNION {DOMAIN t : t \in tables} |-> (CHOOSE t \in tables : x \in DOMAIN t)[x]]

Route(who, rows) == [who |-> who, reads |-> rows.reads, writes |-> rows.writes]

-----------------------------------------------------------------------------

AdminRoutes ==
    [fetchDashboardKpis |-> Route(Admin, AdminRows.getDashboardKpis),
     fetchMembers |-> Route(Admin, AdminRows.listMembers),
     createMember |-> Route(Admin, AccountRows.createMember),
     updateMember |-> Route(Admin, AccountRows.updateMemberProfile),
     banMember |-> Route(Admin, BanRows.banUser),
     unbanMember |-> Route(Admin, BanRows.unbanUser),
     fetchInstructors |-> Route(Admin, AdminRows.listInstructors),
     fetchPendingDocuments |-> Route(Admin, DocumentRows.listPendingDocuments),
     reviewDocument |-> Route(Admin, DocumentRows.reviewRiderDocument),
     fetchRidersMissingLicense |-> Route(Admin, DocumentRows.listRidersMissingLicense),
     adminUploadLicense |-> Route(Admin, DocumentRows.adminUploadLicense),
     changeFamilySubscription |-> Route(Admin, SubscriptionRows.adminChangeFamilySubscription),
     runCompatibilityAudit |-> Route(Admin, AuditRows.runCompatibilityAudit),
     fetchSubscriptionPlans |-> Route(Admin, TariffRows.listSubscriptionPlans),
     createSubscriptionPlan |-> Route(Admin, TariffRows.createSubscriptionPlan),
     fetchDiscountRules |-> Route(Admin, TariffRows.listDiscountRules),
     createDiscountRule |-> Route(Admin, TariffRows.createDiscountRule),
     fetchAdminInvoices |-> Route(Admin, InvoiceRows.listAdminInvoices),
     fetchAdminInvoice |-> Route(Admin, InvoiceRows.getAdminInvoice),
     createInvoice |-> Route(Admin, InvoiceRows.createInvoice),
     generateSubscriptionInvoices |-> Route(Admin, InvoiceRows.generateSubscriptionInvoices),
     sendInvoice |-> Route(Admin, SendingRows.sendInvoice),
     remindInvoice |-> Route(Admin, SendingRows.remindInvoice)]

ClientRoutes ==
    [fetchFamilySubscription |-> Route(Client, SubscriptionRows.getFamilySubscription),
     subscribeFamilyPlan |-> Route(Client, SubscriptionRows.subscribeFamilyPlan),
     fetchClientInvoices |-> Route(Client, InvoiceRows.listFamilyInvoices),
     createCheckoutSession |-> Route(Client, CheckoutRows.createInvoiceCheckoutSession),
     confirmCheckoutSession |-> Route(Client, CheckoutRows.confirmInvoiceCheckout),
     payInvoice |-> Route(Client, SettlingRows.payInvoice)]

RiderRoutes ==
    [fetchRiders |-> Route(Client, FamilyRiderRows.listFamilyRiders),
     createRider |-> Route(Client, FamilyRiderRows.createRider),
     updateRider |-> Route(Client, FamilyRiderRows.updateRider),
     deleteRider |-> Route(Client, FamilyRiderRows.deleteRider),
     uploadRiderDocument |-> Route(Client, FamilyRiderRows.uploadRiderDocument),
     fetchRiderAffinities |-> Route(Client, AffinityRows.listRiderAffinities),
     upsertRiderAffinity |-> Route(Client, AffinityRows.upsertRiderAffinity)]

CourseRoutes ==
    [fetchPlanning |-> Route(Member, PlanningRows.getPlanningEvents),
     createCourse |-> Route(Admin, CourseRows.createCourse),
     fetchEnrollableCourses |-> Route(Client, CourseHorseRows.listEnrollableCourses),
     fetchMyEnrollments |-> Route(Client, EnrollmentRows.listFamilyUpcomingEnrollments),
     enrollRider |-> Route(Client \cup Admin, PlanningRows.enrollRider),
     fetchEnrollments |-> Route(Staff, EnrollmentRows.listEnrollments),
     updateAttendance |-> Route(Member, EnrollmentRows.updateAttendance),
     excuseEnrollment |-> Route(Member, EnrollmentRows.updateAttendance),
     assignHorses |-> Route(Staff, CourseHorseRows.assignHorses),
     fetchHorseOptions |-> Route(Staff, CourseHorseRows.getHorseOverrideOptions),
     overrideHorse |-> Route(Staff, CourseHorseRows.overrideHorse)]

EventRoutes ==
    [fetchPublicEvents |-> Route(Anyone, EventRows.listPublicEvents),
     fetchAdminEvents |-> Route(Admin, EventRows.listAdminEvents),
     createEvent |-> Route(Admin, EventRows.createEvent),
     updateEvent |-> Route(Admin, EventRows.updateEvent),
     deleteEvent |-> Route(Admin, EventRows.deleteEvent),
     registerForEvent |-> Route(Client \cup Admin, RegistrationRows.registerRider),
     assignEventHorses |-> Route(Admin, RegistrationRows.assignHorses),
     cancelEventRegistration |-> Route(Client \cup Admin, CancellationRows.cancelRegistration)]

HorseRoutes ==
    [fetchHorses |-> Route(Member, HorseRows.listHorses),
     fetchHorse |-> Route(Member, HorseRows.getHorse),
     fetchLoadAlerts |-> Route(Admin, HorseRows.listHorsesOverLoadThreshold),
     createHorse |-> Route(Admin, HorseRows.createHorse),
     updateHorse |-> Route(Admin, HorseRows.updateHorse),
     deleteHorse |-> Route(Admin, HorseRows.deleteHorse),
     uploadHorsePhoto |-> Route(Admin, HorseRows.uploadHorsePhoto),
     deleteHorsePhoto |-> Route(Admin, HorseRows.deleteHorsePhoto),
     fetchHealthLogs |-> Route(Staff, HorseRows.listHealthLogs),
     createHealthLog |-> Route(Admin, HorseRows.createHealthLog)]

SpaceRoutes ==
    [fetchSpaces |-> Route(Member, SpaceRows.listSpaces),
     createSpace |-> Route(Admin, SpaceRows.createSpace),
     updateSpace |-> Route(Admin, SpaceRows.updateSpace),
     deleteSpace |-> Route(Admin, SpaceRows.deleteSpace)]

\* Mutant: the router of incidents is for admins alone.
IncidentRoutesOfAdmins ==
    [fetchCriticalIncidentCount |-> Route(Admin, IncidentRows.countCriticalOpenIncidents),
     createIncident |-> Route(Admin, IncidentRows.createIncident),
     fetchIncidents |-> Route(Admin, IncidentRows.listIncidents),
     resolveIncident |-> Route(Admin, IncidentRows.resolveIncident)]

IncidentRoutes ==
    [fetchCriticalIncidentCount |-> Route(Admin, IncidentRows.countCriticalOpenIncidents),
     createIncident |-> Route(Staff, IncidentRows.createIncident),
     fetchIncidents |-> Route(Admin, IncidentRows.listIncidents),
     resolveIncident |-> Route(Admin, IncidentRows.resolveIncident)]

MessageRoutes ==
    [fetchMessageContacts |-> Route(Member, ConversationRows.listAllowedContacts),
     fetchConversations |-> Route(Member, ConversationRows.listConversations),
     createConversation |-> Route(Member, ConversationRows.createConversation),
     fetchConversationMessages |-> Route(Member, MessageRows.listMessages),
     sendMessage |-> Route(Member, MessageRows.createMessage),
     markConversationRead |-> Route(Member, MessageRows.markConversationRead)]

NotificationRoutes ==
    [fetchNotificationPreferences |-> Route(Member, NoticeRows.listNotificationPreferences),
     updateNotificationPreference |-> Route(Member, NoticeRows.updateNotificationPreference),
     fetchNotifications |-> Route(Member, NoticeRows.listNotifications),
     markNotificationRead |-> Route(Member, NoticeRows.markNotificationRead),
     markAllNotificationsRead |-> Route(Member, NoticeRows.markAllNotificationsRead)]

VolunteerRoutes ==
    [fetchVolunteerMissions |-> Route(Member, MissionRows.listVolunteerMissions),
     createVolunteerMission |-> Route(Admin, MissionRows.createVolunteerMission),
     updateVolunteerMission |-> Route(Admin, MissionRows.updateVolunteerMission),
     deleteVolunteerMission |-> Route(Admin, MissionRows.deleteVolunteerMission),
     signupVolunteerMission |-> Route(Client, MissionRows.signupVolunteerMission)]

PublicRoutes ==
    [fetchPublicPlans |-> Route(Anyone, SubscriptionRows.listActivePublicPlans),
     fetchPaymentConfig |-> Route(Anyone, CheckoutRows.getPublicPaymentConfig),
     fetchPublicCourses |-> Route(Anyone, CourseRows.listPublicCourses),
     subscribeNewsletter |-> Route(Anyone, NewsletterRows.subscribeNewsletter)]

\* The routers mounted under /api/v1.
Routers ==
    {AdminRoutes, ClientRoutes, RiderRoutes, CourseRoutes, EventRoutes, HorseRoutes, SpaceRoutes,
     IncidentRoutes, MessageRoutes, NotificationRoutes, VolunteerRoutes, PublicRoutes}
Api == Join(Routers)
=============================================================================
