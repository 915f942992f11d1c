------------------------------- MODULE Screens -------------------------------
(***************************************************************************)
(* The panels of the web client, and one of them at a time on a screen.  A  *)
(* panel is what it fetches and when, what it does with an answer that      *)
(* comes late, and what its buttons and forms send; a page is the panels it *)
(* shows to a role.  The server is one document that a write changes, and   *)
(* answers a call when it likes, or refuses it.                             *)
(*                                                                          *)
(* A form that needs what the panel fetched is used once that has come.  An *)
(* answer that is lost counts as a refusal before the write.                *)
(***************************************************************************)
EXTENDS Access, Sequences, SequencesExt

CONSTANT MaxFlight   \* the calls of a panel that are under way at a time

ASSUME ScreenAssumption == MaxFlight \in Nat \ {0}

-----------------------------------------------------------------------------
(* What a panel is made of.                                                 *)

\* reads: the calls of one fetch; on: what fetches again ("key" another
\* selection, "poll" a timer, "more" a button or an opening); late: what becomes
\* of an answer that a newer fetch has overtaken ("shown" or "dropped", or the
\* panel waits again: "blanked"); fails: what was shown is gone when a fetch fails.
Panel(reads, on, late, forms) ==
  [reads |-> reads, on |-> on, late |-> late, forms |-> forms, fails |-> "cleared"]

\* A failed fetch leaves what the panel shows.
Keeping(p) == [p EXCEPT !.fails = "kept"]

\* after: what the answer of a write does to the screen ("patch" its part of what
\* is shown, "replace" all of it, "reload", "leave", "aside" nothing); off: how
\* long its button is disabled.
Form(calls, after, off) == [calls |-> calls, after |-> after, off |-> off, row |-> 1]

\* A form in every row of a list, with one busy key for all the rows: the button
\* of the row pressed last is disabled, until any of their writes is answered.
Rows(calls, after) == {[Form(calls, after, "row") EXCEPT !.row = r] : r \in {1, 2}}

View(reads)      == Panel({reads}, {}, "shown", {})
Action(call)     == Panel({}, {}, "shown", {Form({call}, "aside", "write")})
KeyedView(reads) == Panel({reads}, {"key"}, "dropped", {})

-----------------------------------------------------------------------------
(* Pages anyone can open.                                                   *)

CommunityImpact == View("getCommunityImpact")
ScrapRatesPage  == Panel({"getScrapRates"}, {}, "shown", {})
RateHistory     == Panel({"getScrapRateHistory"}, {"key"}, "shown", {})
RateOutlooks    == Panel({"getScrapRateHistory"}, {}, "dropped", {})
TripShare       == Panel({"getPublicTrip"}, {"poll"}, "shown", {})
PublicProfile   == KeyedView("getPublicCollectorProfile")
CollectorReviews == Keeping(Panel({"getCollectorReviews"}, {"key", "more"}, "shown", {}))

Login == Panel({}, {}, "shown", {Form({"loginUser"}, "leave", "write")})
GoogleSignInButton == Panel({}, {}, "shown", {Form({"googleAuth"}, "leave", "write")})
AdminLogin == Panel({}, {}, "shown", {Form({"loginUser"}, "leave", "write")})
\* The name of who referred stays when the next code is not found.
Register ==
  Keeping(Panel({"validateReferralCode"}, {"key"}, "dropped",
                {Form({"registerUser"}, "leave", "write")}))
ForgotPasswordPage == Action("forgotPassword")
ResetPassword == Panel({}, {}, "shown", {Form({"resetPassword"}, "leave", "write")})
VerifyEmail == View("verifyEmail")

\* ContactForm: its answer makes the list of requests load again.
ContactForm == Panel({}, {}, "shown", {Form({"createTicket"}, "aside", "write")})
MyTickets ==
  Panel({"getMyTickets"}, {}, "shown",
        {Form({"getMyTicket"}, "aside", "no"), Form({"replyToMyTicket"}, "reload", "write")})

-----------------------------------------------------------------------------
(* Pages of everyone who is signed in.                                      *)

Receipt == Panel({"getReceipt"}, {"key"}, "shown", {})
Impact  == View("getMyImpact")

\* Two forms send updateProfile; an answer of each is stored as the user.
ProfileForms ==
  Panel({"fetchMe"}, {}, "shown",
        {Form({"updateProfile"}, "replace", "write"),
         [Form({"updateProfile"}, "replace", "write") EXCEPT !.row = 2],
         Form({"changePassword"}, "replace", "write")})
PushSwitch ==
  Panel({}, {}, "shown",
        {Form({"getVapidPublicKey", "subscribeToPush"}, "aside", "write"),
         Form({"unsubscribeFromPush"}, "aside", "write")})
DeleteAccountModal == Panel({}, {}, "shown", {Form({"deleteAccount"}, "leave", "write")})
ReferralCard == Panel({"getMyReferrals"}, {}, "dropped", {})
VerifyEmailBanner == Action("resendVerification")
\* Alerts has what these do to the list.
NotificationBell ==
  Panel({"getNotifications"}, {}, "dropped",
        {Form({"markNotificationRead"}, "aside", "no"),
         Form({"markAllNotificationsRead"}, "aside", "no")})

MyReputationCard == Panel({"getMyReputation"}, {}, "dropped", {})
UpiIdCard ==
  Panel({"getMyUpi"}, {}, "dropped",
        {Form({"saveMyUpi", "clearMyUpi"}, "patch", "write")})

-----------------------------------------------------------------------------
(* Pages of the requester.                                                  *)

UserDashboard == Panel({"getMyRequests", "getMyUpi"}, {}, "shown", {})
GetQuotes ==
  Panel({"getItemCatalog"}, {}, "shown", {Form({"compareQuotes"}, "aside", "write")})
RequestPickup ==
  Panel({"getScrapRates"}, {}, "shown",
        {Form({"validateCoupon"}, "aside", "write"),
         Form({"createPickup", "inviteCollector", "createRecurring"}, "leave", "write")})
SlotPicker == KeyedView("getSlotSuggestions")
MyRequestsList ==
  Panel({"getMyRequests", "getRatings"}, {"more"}, "shown",
        {Form({"respondToOffer"}, "patch", "write"), Form({"exportMyRequests"}, "aside", "write")}
          \cup Rows({"cancelPickup"}, "patch") \cup Rows({"createPickup"}, "reload"))
RecurringPickupsPanel ==
  Panel({"getMyRecurring"}, {}, "shown",
        Rows({"skipNextRecurring", "pauseRecurring", "toggleRecurring", "updateRecurring",
              "deleteRecurring"}, "patch"))

\* The forms of the profile and of the sites; one that is opened again does not
\* know that it has sent something.
BusinessForms ==
  Panel({"getBusinessProfile"}, {}, "shown", {Form({"saveBusinessProfile"}, "replace", "no")})
BusinessReport ==
  Keeping(Panel({"getBusinessReport"}, {"key"}, "dropped",
                {Form({"downloadBusinessReportCsv"}, "aside", "no")}))

\* A notification opens another pickup under either payment card, which merges
\* whatever answer comes into what it shows.
ReceivedCard ==
  Panel({"getPickupPayment"}, {"key"}, "dropped",
        {Form({"confirmReceived"}, "patch", "write"), Form({"disputePayment"}, "patch", "write")})
PayCard == Panel({"getPickupPayment"}, {"key"}, "dropped", {Form({"claimPaid"}, "patch", "write")})

\* The start code of a pickup, and the collectors near another one.
StartCode == Keeping(KeyedView("getPickupById"))
NearbyCollectors ==
  Panel({"getNearbyCollectors"}, {"key"}, "blanked", {Form({"inviteCollector"}, "leave", "write")})

\* The dialogs over one request; Controls says when each of them is there.
RequestDialogs ==
  {NearbyCollectors, StartCode, Action("markReady"),
   Panel({}, {}, "shown",
         {Form({"confirmSettlement"}, "leave", "write"), Form({"disputeSettlement"}, "leave", "write")}),
   ReceivedCard,
   KeyedView("getCollectorProfile")}

\* The sheet asks for the link of a trip, a new one or the one there is, when it
\* opens and for another pickup; what it showed stays when that fails.
ShareLink ==
  Keeping(Panel({"createTripShare"}, {"key", "more"}, "dropped",
                {Form({"stopTripShare"}, "leave", "write")}))
\* Chat has what these do to a window.
ChatWindow ==
  Keeping(Panel({"getMessages"}, {"key"}, "dropped",
                {Form({"sendMessage"}, "aside", "write"), Form({"markMessagesRead"}, "aside", "no")}))

\* The dialogs both parties have.
SharedDialogs ==
  {KeyedView("getFairPrice"), KeyedView("getPickupDisputes"),
   Action("createDispute"), Action("submitRating"), Action("raiseSos"), ShareLink, ChatWindow}

-----------------------------------------------------------------------------
(* Pages of the collector.                                                  *)

VerificationGate ==
  Panel({"getMyVerification"}, {}, "shown", {Form({"submitVerification"}, "patch", "write")})
CollectorLists ==
  Panel({"getAvailable", "getCollectorJobs"}, {"key", "more"}, "shown",
        {Form({"batchAcceptPickups"}, "patch", "write"), Form({"updateStatus"}, "patch", "write"),
         Form({"proposeOffer", "respondToOffer"}, "patch", "write"),
         Form({"getPickupById"}, "aside", "no"), Form({"getRatings"}, "aside", "no")}
          \cup Rows({"acceptPickup", "updateStatus"}, "patch"))
CollectorBadges == Panel({"getPendingDropOffs", "getMyTeam", "getMyInvites"}, {}, "dropped", {})

\* The card changes what the wallet has fetched.
PayoutDetailsCard == {Form({"updatePayoutDetails"}, "patch", "write")}
\* A payout request, or a plan bought with the balance, empties the wallet, and
\* an empty wallet is fetched.
WalletTab ==
  Panel({"getWalletSummary", "getEarningsTrend", "getTransactions", "getMyPayouts",
         "getPayoutDetails"}, {}, "shown",
        {Form({"requestPayout"}, "reload", "load"), Form({"getTransactions"}, "aside", "write")}
          \cup PayoutDetailsCard)
PlansCard == Panel({"getPlans"}, {}, "shown", {Form({"subscribeToPlan"}, "reload", "write")})

AchievementsPanel        == Panel({"getMyAchievements"}, {}, "dropped", {})
LeaderboardPanel         == View("getLeaderboard")
PerformanceInsightsPanel == View("getPerformanceInsights")
AvailabilityToggle ==
  Panel({"getMyAvailability"}, {}, "dropped", {Form({"updateMyAvailability"}, "patch", "write")})
WorkingHoursCard ==
  Panel({"getMyAvailability"}, {}, "dropped", {Form({"updateMyAvailability"}, "patch", "write")})
RateCardPanel == Panel({"getRateCard"}, {}, "shown", {Form({"saveRateCard"}, "patch", "write")})
NotifyPreferencesModal == Panel({}, {}, "shown", {Form({"updateProfile"}, "leave", "write")})

RoutePlanner_LateShown == Panel({"getCollectorRoute"}, {"key"}, "shown", {})
RoutePlanner           == KeyedView("getCollectorRoute")
SuggestedBatchPanel    == KeyedView("getSuggestedBatch")
DemandHeatmapModal     == Panel({"getDemandHeatmap"}, {"more"}, "blanked", {})
DemandForecastCard     == View("getDemandForecast")
RequesterProfileModal  == KeyedView("getRequesterProfile")

DropOffPanel ==
  Panel({"getPendingDropOffs", "listPartners"}, {}, "shown", {Form({"recordDropOff"}, "reload", "load")})
TeamPanel ==
  Panel({"getMyTeam"}, {}, "shown",
        {Form({"createTeam", "acceptTeamInvite", "declineTeamInvite", "leaveTeam"}, "reload", "write")})
\* What the owner sees of their team: an answer of every form is a whole team, and
\* a section that is opened again does not know that it has sent something.
TeamMembers ==
  {Form({"inviteMember"}, "replace", "no"), Form({"removeMember", "setMemberVehicle"}, "replace", "no")}
TeamFleet == {Form({"addVehicle", "removeVehicle"}, "replace", "no")}
OwnedTeam == Panel({"getMyTeam"}, {}, "shown", TeamMembers \cup TeamFleet)
TeamAssign == Panel({"getTeamJobs"}, {}, "shown", {Form({"assignJob"}, "reload", "no")})
TeamPerformance == KeyedView("getTeamStats")

\* The dialogs over one job.
JobDialogs == {PayCard, Action("markOnTheWay")}

-----------------------------------------------------------------------------
(* The tabs of the admin panel.                                             *)

SosBadge == Panel({"adminListSafetyAlerts"}, {"poll"}, "shown", {})
OverviewTab ==
  Panel({"getAdminStats", "getAdminAnalytics", "getAdminGrowthStats"}, {}, "shown",
        {Form({"exportUsersCsv"}, "aside", "write"), Form({"exportPickupsCsv"}, "aside", "write")})
UsersTab ==
  Panel({"getAdminUsers"}, {"key"}, "shown",
        Rows({"deactivateUser", "activateUser", "reinstateCollector"}, "patch"))
PayoutsTab ==
  Panel({"getPayoutRequests"}, {"key"}, "shown",
        Rows({"approvePayout", "rejectPayout"}, "patch"))
DisputeQueue == Panel({"getDisputes"}, {"key"}, "shown", Rows({"resolveDispute"}, "patch"))
PickupsTab == View("getAllPickups")
AddCollectorTab ==
  Panel({"getAdminCreatedCollectors"}, {}, "shown",
        {Form({"createCollector"}, "reload", "load"), Form({"resetCollectorPassword"}, "reload", "load")})
AuditLogTab == Panel({"getAuditLogs"}, {"key"}, "shown", {})
CouponsTab ==
  Panel({"listCoupons"}, {}, "shown",
        {Form({"createCoupon"}, "reload", "load"), Form({"updateCoupon"}, "reload", "no")})
PartnersTab ==
  Panel({"listAllPartners"}, {}, "shown",
        {Form({"createPartner", "updatePartner"}, "reload", "load"), Form({"updatePartner"}, "reload", "no")})
PlansTab ==
  Panel({"getPlansOverview"}, {}, "shown",
        {Form({"savePlanSettings"}, "reload", "write"), Form({"grantPlan"}, "reload", "write")})
FraudTab ==
  Panel({"adminGetFraudFlags"}, {"more"}, "shown", {Form({"adminReviewFraudFlag"}, "reload", "load")})
ItemCatalogTab == Panel({"getCatalogAdmin"}, {}, "shown", Rows({"updateCatalogItem"}, "patch"))
ScrapRatesTab  == Panel({"getScrapRates"}, {}, "shown", Rows({"updateScrapRate"}, "patch"))
OpsTab == Panel({"adminGetOps"}, {"poll"}, "shown", {})
SafetyTab ==
  Panel({"adminListSafetyAlerts"}, {"key", "poll"}, "shown",
        {Form({"adminResolveSafetyAlert"}, "reload", "load")})
SupportTab ==
  Panel({"adminListTickets"}, {"key"}, "shown",
        {Form({"adminGetTicket"}, "aside", "no"),
         Form({"adminReplyTicket", "adminSetTicketStatus"}, "reload", "no")})
VerificationsTab ==
  Panel({"getVerifications"}, {"key"}, "shown",
        {Form({"getVerificationDocument"}, "aside", "write")} \cup Rows({"reviewVerification"}, "reload"))

-----------------------------------------------------------------------------
(* The pages: the panels each shows to a role.                              *)

\* ProtectedRoute: anyone else is sent to the login page or to a page of theirs.
ProtectedRoute(roles, role, panels) == IF role \in roles THEN panels ELSE {}

\* The pages without a ProtectedRoute; the two forms that open a session send
\* one who has a session home.
PublicPages(role) ==
  {CommunityImpact, ScrapRatesPage, RateHistory, RateOutlooks, TripShare, PublicProfile,
   CollectorReviews, AdminLogin, ForgotPasswordPage, ResetPassword, VerifyEmail}
    \cup (IF role = "guest" THEN {Login, GoogleSignInButton, Register} ELSE {})
    \cup (IF role \in {"user", "collector"} THEN {ContactForm, MyTickets} ELSE {})

\* The bar on top of every page.
Navbar(role) == IF role = "guest" THEN {} ELSE {NotificationBell}

Profile(role) ==
  ProtectedRoute(SignedIn, role,
    {ProfileForms, PushSwitch, DeleteAccountModal, ReferralCard}
      \cup (IF role = "user" THEN {MyReputationCard, UpiIdCard} ELSE {}))

RequesterPages(role) ==
  ProtectedRoute({"user"}, role,
    {UserDashboard, VerifyEmailBanner, GetQuotes, RequestPickup, SlotPicker, MyRequestsList,
     RecurringPickupsPanel, BusinessForms, BusinessReport}
      \cup RequestDialogs \cup SharedDialogs)

CollectorDashboard(role) ==
  ProtectedRoute({"collector"}, role,
    {VerificationGate, VerifyEmailBanner, CollectorLists, CollectorBadges, WalletTab,
     PlansCard, AchievementsPanel, LeaderboardPanel,
     PerformanceInsightsPanel, AvailabilityToggle, WorkingHoursCard, RateCardPanel,
     NotifyPreferencesModal, RoutePlanner, SuggestedBatchPanel, DemandHeatmapModal,
     DemandForecastCard, RequesterProfileModal, DropOffPanel, TeamPanel, OwnedTeam,
     TeamAssign, TeamPerformance}
      \cup JobDialogs \cup SharedDialogs)

AdminPanel(role) ==
  ProtectedRoute({"admin"}, role,
    {SosBadge, OverviewTab, UsersTab, PayoutsTab, DisputeQueue, PickupsTab, AddCollectorTab,
     AuditLogTab, CouponsTab, PartnersTab, PlansTab, FraudTab, ItemCatalogTab, ScrapRatesTab,
     OpsTab, SafetyTab, SupportTab, VerificationsTab})

AppRoutes(role) ==
  PublicPages(role) \cup Navbar(role) \cup Profile(role)
    \cup ProtectedRoute(SignedIn, role, {Receipt, Impact})
    \cup RequesterPages(role) \cup CollectorDashboard(role) \cup AdminPanel(role)

-----------------------------------------------------------------------------
(* One screen.                                                              *)

VARIABLES
  visitor,   \* the role of the one in front of it
  panel,     \* the panel they have open
  key,       \* what is selected on it
  flight,    \* the calls it has sent and not heard of, in the order sent
  shown,     \* the answer on the screen: of which selection, and which writes it misses
  disabled   \* the forms whose button is disabled

screenVars == <<visitor, panel, key, flight, shown, disabled>>

Keys == {1, 2}
NoPanel == Panel({}, {}, "dropped", {})
Nothing == [key |-> 0, misses |-> {}]
NoForm == Form({}, "aside", "no")

Fetch(k, form) ==
  [kind |-> "fetch", calls |-> panel.reads, key |-> k, at |-> "sent", misses |-> {},
   fresh |-> TRUE, form |-> form]

Send(form) ==
  [kind |-> "write", calls |-> form.calls, key |-> key, at |-> "sent", misses |-> {},
   fresh |-> TRUE, form |-> form]

Overtaken(calls) ==
  [i \in DOMAIN calls |-> [calls[i] EXCEPT !.fresh = @ /\ calls[i].kind = "write"]]

ScreenInit ==
  /\ visitor \in Everyone
  /\ panel = NoPanel /\ key = 1 /\ flight = <<>> /\ shown = Nothing /\ disabled = {}

Visit(p) ==
  /\ panel = NoPanel /\ p \in AppRoutes(visitor)
  /\ panel' = p
  /\ flight' = IF p.reads = {} THEN <<>>
               ELSE <<[Fetch(1, NoForm) EXCEPT !.calls = p.reads]>>
  /\ UNCHANGED <<visitor, key, shown, disabled>>

\* What is on its way to a panel that is gone reaches nothing.
Gone == panel' = NoPanel /\ key' = 1 /\ flight' = <<>> /\ shown' = Nothing /\ disabled' = {}

Close == panel # NoPanel /\ Gone /\ UNCHANGED visitor

Refetch(k) ==
  /\ Len(flight) < MaxFlight
  /\ key' = k
  /\ flight' = Append(Overtaken(flight), Fetch(k, NoForm))
  /\ UNCHANGED <<visitor, panel, shown, disabled>>

Select == "key" \in panel.on /\ \E k \in Keys \ {key} : Refetch(k)

Again == panel.on \cap {"poll", "more"} # {} /\ Refetch(key)

\* The forms whose buttons an answer to this one frees.
Freed(form) ==
  IF form.off = "row" THEN {f \in panel.forms : f.off = "row" /\ f.calls = form.calls} ELSE {form}

Press(form) ==
  /\ form \in panel.forms \ disabled
  /\ panel.reads = {} \/ shown.key = key
  /\ Len(flight) < MaxFlight
  /\ flight' = Append(flight, Send(form))
  /\ disabled' = IF form.off = "no" THEN disabled ELSE (disabled \ Freed(form)) \cup {form}
  /\ UNCHANGED <<visitor, panel, key, shown>>

\* An answer on its way carries what was there when the server gave it: all of
\* the document to a fetch and to some forms, else the part the form is about.
OutdatedBy(call, form) ==
  call.at = "answered" /\ (call.kind = "fetch" \/ call.form.after = "replace" \/ call.form = form)

\* The server handles a call: a write outdates the answers given before it.
Serve(i) ==
  LET c == flight[i] IN
  /\ c.at = "sent"
  /\ IF c.kind = "fetch" \/ c.form.after = "aside"
     THEN flight' = [flight EXCEPT ![i].at = "answered"] /\ UNCHANGED shown
     ELSE /\ flight' = [j \in DOMAIN flight |->
                          IF j = i THEN [c EXCEPT !.at = "answered"]
                          ELSE IF OutdatedBy(flight[j], c.form)
                               THEN [flight[j] EXCEPT !.misses = @ \cup {c.form}]
                               ELSE flight[j]]
          /\ shown' = IF shown = Nothing THEN shown ELSE [shown EXCEPT !.misses = @ \cup {c.form}]
  /\ UNCHANGED <<visitor, panel, key, disabled>>

\* What the screen shows when a fetch is heard of: doc, if it is the latest one.
Displays(c, doc) ==
  shown' = CASE c.fresh \/ panel.late = "shown"   -> doc
             [] ~c.fresh /\ panel.late = "dropped" -> shown
             [] OTHER                              -> Nothing

\* An answer to a fetch.
Fill(i) ==
  LET c == flight[i] IN
  /\ c.kind = "fetch" /\ c.at = "answered"
  /\ Displays(c, [key |-> c.key, misses |-> c.misses])
  /\ flight' = RemoveAt(flight, i)
  /\ disabled' = disabled \ Freed(c.form)
  /\ UNCHANGED <<visitor, panel, key>>

\* An answer to a write changes what is shown in place ...
Patch(i) ==
  LET c == flight[i] IN
  /\ c.kind = "write" /\ c.at = "answered" /\ c.form.after \in {"patch", "replace", "aside"}
  /\ shown' = IF c.form.after = "aside" \/ shown = Nothing THEN shown
              ELSE [key |-> c.key,
                    misses |-> (IF c.form.after = "replace" THEN {} ELSE shown.misses \ {c.form})
                                 \cup c.misses]
  /\ flight' = RemoveAt(flight, i)
  /\ disabled' = disabled \ Freed(c.form)
  /\ UNCHANGED <<visitor, panel, key>>

\* ... or fetches again, what was selected when the form was sent ...
Reload(i) ==
  LET c == flight[i] IN
  /\ c.kind = "write" /\ c.at = "answered" /\ c.form.after = "reload"
  /\ flight' = Append(Overtaken(RemoveAt(flight, i)),
                      Fetch(c.key, IF c.form.off = "load" THEN c.form ELSE NoForm))
  /\ disabled' = IF c.form.off = "load" THEN disabled ELSE disabled \ Freed(c.form)
  /\ UNCHANGED <<visitor, panel, key, shown>>

\* ... or closes the panel.
Done(i) ==
  /\ flight[i].kind = "write" /\ flight[i].at = "answered" /\ flight[i].form.after = "leave"
  /\ Gone /\ UNCHANGED visitor

\* A call is refused, or never reaches the server: an error is shown, and the
\* form can be used again.
Refuse(i) ==
  LET c == flight[i] IN
  /\ c.at = "sent"
  /\ IF c.kind = "fetch" /\ panel.fails = "cleared" THEN Displays(c, Nothing) ELSE UNCHANGED shown
  /\ flight' = RemoveAt(flight, i)
  /\ disabled' = disabled \ Freed(c.form)
  /\ UNCHANGED <<visitor, panel, key>>

ScreenNext ==
  \/ \E p \in AppRoutes(visitor) : Visit(p)
  \/ Close \/ Select \/ Again
  \/ \E form \in panel.forms : Press(form)
  \/ \E i \in DOMAIN flight :
       Serve(i) \/ Fill(i) \/ Patch(i) \/ Reload(i) \/ Done(i) \/ Refuse(i)

ScreenSpec == ScreenInit /\ [][ScreenNext]_screenVars

-----------------------------------------------------------------------------
(* Properties.                                                              *)

\* No page sends a call that the server refuses to the role the page is shown
\* to: the guards of the client's routes, the conditions in its pages, the
\* paths of its services and the roles of the server's routes agree.
CallsAreAllowed ==
  \A i \in DOMAIN flight : \A c \in flight[i].calls : visitor \in Callers[c]

\* The panels that may be left with another selection, or without a write of
\* their own: a late answer is shown, or a failed fetch leaves the old one, or two
\* writes of one part are under way, or a form fetches again when another is sent.
Careless ==
  {RateHistory, CollectorReviews, Register, Receipt, AuditLogTab, StartCode, ShareLink,
   ChatWindow, BusinessReport, ReceivedCard, PayCard,
   ProfileForms, BusinessForms, OwnedTeam, RecurringPickupsPanel, ItemCatalogTab, ScrapRatesTab,
   MyRequestsList, CollectorLists, WalletTab, MyTickets, PlansCard, TeamPanel, TeamAssign,
   UsersTab, PayoutsTab, DisputeQueue, CouponsTab, AddCollectorTab, PartnersTab, PlansTab,
   FraudTab, SafetyTab, SupportTab, VerificationsTab}

\* When nothing is under way, no button of any panel is left disabled, and every
\* panel but the careless ones shows what is selected, as it is after the writes
\* made from it.
SettledScreenIsCurrent ==
  flight = <<>> =>
    /\ disabled = {}
    /\ panel \notin Careless /\ shown # Nothing => shown.key = key /\ shown.misses = {}

\* Type invariant of the component.
ScreenTypeOK ==
  /\ visitor \in Everyone
  /\ panel \in AppRoutes(visitor) \cup {NoPanel}
  /\ key \in Keys /\ Len(flight) <= MaxFlight
  /\ \A i \in DOMAIN flight : flight[i].key \in Keys /\ flight[i].at \in {"sent", "answered"}
  /\ shown \in [key : Keys, misses : SUBSET panel.forms] \cup {Nothing}
  /\ disabled \subseteq panel.forms
=============================================================================
