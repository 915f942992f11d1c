------------------------------- MODULE Access -------------------------------
(***************************************************************************)
(* Who may call what.  A routes file of the server gives each handler the   *)
(* roles that reach it (auth, then role(...)); a service file of the client *)
(* names the handler each of its functions calls.  "guest" is one who is    *)
(* not signed in.  What a handler checks beyond the role is in Controls.    *)
(***************************************************************************)
Everyone == {"guest", "user", "collector", "admin"}

\* auth: a token of a live session.
SignedIn == Everyone \ {"guest"}

\* role("user") and the like.
RequesterRole == {"user"}
CollectorRole == {"collector"}
PartyRoles == {"user", "collector"}
AdminRole == {"admin"}

\* role(...) in front of each of these handlers.
Gate(handlers, roles) == [h \in handlers |-> roles]

\* The routes of two groups of handlers, which have no handler in common.
f ++ g ==
  [h \in DOMAIN f \cup DOMAIN g |-> IF h \in DOMAIN f THEN f[h] ELSE g[h]]

-----------------------------------------------------------------------------
(* The routes of the server.                                                *)

AuthRoutes ==
     Gate({"register", "login", "googleAuth", "verifyEmail", "forgotPassword", "resetPassword"},
          Everyone)
  ++ Gate({"me", "updateProfile", "changePassword", "deleteAccount", "resendVerification"},
          SignedIn)

RequesterRoutes ==
     Gate({"estimateFromPhoto", "createPickup", "getMyRequests", "getSlotSuggestions",
          "cancelByRequester", "confirmSettlement", "markReady", "disputeSettlement",
          "reportNoShow", "createRecurring", "getMyRecurring", "toggleRecurring",
          "skipNextRecurring", "pauseRecurring", "updateRecurring", "deleteRecurring"},
          RequesterRole)
  ++ Gate({"markOnTheWay"}, CollectorRole)

PickupRoutes ==
     Gate({"getAvailable", "getCollectorJobs", "getCollectorRoute", "getSuggestedBatch",
          "getDemandHeatmap", "getDemandForecast", "getLeaderboard", "getMyAchievements",
          "getPerformanceInsights", "acceptPickup", "batchAcceptPickups", "proposeOffer",
          "getMyInvites", "getMyAvailability", "updateMyAvailability", "updateStatus"},
          CollectorRole)
  ++ Gate({"getCollectorProfile", "getRequesterProfile", "getPickupById"}, SignedIn)
  ++ Gate({"getPublicCollectorProfile", "getCollectorReviews"}, Everyone)
  ++ Gate({"getMyReputation", "getNearbyCollectors", "inviteCollector"}, RequesterRole)
  ++ Gate({"respondToOffer", "getFairPrice", "createDispute", "getPickupDisputes"}, PartyRoles)

MessageRoutes ==
  Gate({"getMessages", "sendMessage", "markMessagesRead"}, SignedIn)

RatingRoutes ==
  Gate({"getRatings", "submitRating"}, SignedIn)

ReceiptRoutes ==
  Gate({"getReceipt"}, SignedIn)

NotificationRoutes ==
  Gate({"getNotifications", "markAllRead", "markRead"}, SignedIn)

AdminRoutes ==
  Gate({"getStats", "getOps", "getAnalytics", "getGrowthStats", "getUsers", "deactivateUser",
       "activateUser", "reinstateCollector", "getPayoutRequests", "approvePayout",
       "rejectPayout", "getAllPickups", "getDisputes", "resolveDispute", "getAuditLogs",
       "createCollector", "listAdminCreatedCollectors", "resetCollectorPassword"}, AdminRole)

PushRoutes ==
     Gate({"getVapidPublicKey"}, Everyone)
  ++ Gate({"subscribe", "unsubscribe"}, SignedIn)

ExportRoutes ==
     Gate({"exportMyRequests"}, RequesterRole)
  ++ Gate({"exportUsers", "exportAdminPickups"}, AdminRole)

WalletRoutes ==
  Gate({"getSummary", "getEarningsTrend", "getTransactions", "requestPayout", "getMyPayouts",
       "getPayoutDetails", "updatePayoutDetails"}, CollectorRole)

ReferralRoutes ==
     Gate({"getMyReferrals"}, SignedIn)
  ++ Gate({"validateReferralCode"}, Everyone)

ScrapRateRoutes ==
     Gate({"getRates", "getHistory"}, Everyone)
  ++ Gate({"updateRate"}, AdminRole)

VerificationRoutes ==
     Gate({"getMyVerification", "submitVerification"}, CollectorRole)
  ++ Gate({"listVerifications", "getVerificationDocument", "reviewVerification"}, AdminRole)

ImpactRoutes ==
     Gate({"getCommunityImpact"}, Everyone)
  ++ Gate({"getMyImpact"}, SignedIn)

QuoteRoutes ==
     Gate({"getCatalog"}, SignedIn)
  ++ Gate({"compareQuotes"}, RequesterRole)
  ++ Gate({"getRateCard", "saveRateCard"}, CollectorRole)
  ++ Gate({"getCatalogAdmin", "updateCatalogItem"}, AdminRole)

PartnerRoutes_AdminOnly ==
  Gate({"listPartners", "listAllPartners", "createPartner", "updatePartner"}, AdminRole)

PartnerRoutes ==
     Gate({"listPartners"}, {"collector", "admin"})
  ++ Gate({"listAllPartners", "createPartner", "updatePartner"}, AdminRole)

DropOffRoutes ==
  Gate({"getPendingDropOffs", "recordDropOff"}, CollectorRole)

PlanRoutes ==
     Gate({"getPlans", "subscribe"}, CollectorRole)
  ++ Gate({"adminOverview", "adminSaveSettings", "adminGrant"}, AdminRole)

TeamRoutes ==
  Gate({"getMine", "createTeam", "invite", "removeMember", "setMemberVehicle", "addVehicle",
       "removeVehicle", "getTeamJobs", "assign", "getStats", "acceptInvite", "declineInvite",
       "leave"}, CollectorRole)

BusinessRoutes ==
  Gate({"getProfile", "saveProfile", "getReport", "getReportCsv"}, RequesterRole)

CouponRoutes ==
     Gate({"validateCode"}, RequesterRole)
  ++ Gate({"adminList", "adminCreate", "adminUpdate"}, AdminRole)

SupportRoutes ==
     Gate({"createTicket", "listMine", "getMine", "replyMine"}, PartyRoles)
  ++ Gate({"adminList", "adminGet", "adminReply", "adminSetStatus"}, AdminRole)

SafetyRoutes ==
     Gate({"getPublicTrip"}, Everyone)
  ++ Gate({"getShare", "createShare", "revokeShare", "raiseSos"}, PartyRoles)
  ++ Gate({"adminList", "adminResolve"}, AdminRole)

PaymentRoutes ==
     Gate({"getMyUpi", "saveMyUpi", "clearMyUpi", "confirmReceived", "disputePayment"},
          RequesterRole)
  ++ Gate({"getPayment"}, PartyRoles)
  ++ Gate({"claimPaid"}, CollectorRole)

FraudRoutes ==
  Gate({"getFlags", "reviewFlag"}, AdminRole)

-----------------------------------------------------------------------------
(* The services of the client.                                              *)

AdminCollectorService ==
  [getAdminCreatedCollectors |-> AdminRoutes.listAdminCreatedCollectors,
   resetCollectorPassword |-> AdminRoutes.resetCollectorPassword,
   createCollector |-> AdminRoutes.createCollector]

AdminService ==
  [getAdminStats |-> AdminRoutes.getStats, getAdminAnalytics |-> AdminRoutes.getAnalytics,
   getAdminGrowthStats |-> AdminRoutes.getGrowthStats, getAdminUsers |-> AdminRoutes.getUsers,
   deactivateUser |-> AdminRoutes.deactivateUser, activateUser |-> AdminRoutes.activateUser,
   reinstateCollector |-> AdminRoutes.reinstateCollector,
   getPayoutRequests |-> AdminRoutes.getPayoutRequests,
   approvePayout |-> AdminRoutes.approvePayout, rejectPayout |-> AdminRoutes.rejectPayout,
   getAllPickups |-> AdminRoutes.getAllPickups, getDisputes |-> AdminRoutes.getDisputes,
   resolveDispute |-> AdminRoutes.resolveDispute, exportUsersCsv |-> ExportRoutes.exportUsers,
   exportPickupsCsv |-> ExportRoutes.exportAdminPickups]

AuditService ==
  [getAuditLogs |-> AdminRoutes.getAuditLogs]

AuthService ==
  [loginUser |-> AuthRoutes.login, googleAuth |-> AuthRoutes.googleAuth,
   registerUser |-> AuthRoutes.register, fetchMe |-> AuthRoutes.me,
   updateProfile |-> AuthRoutes.updateProfile, changePassword |-> AuthRoutes.changePassword,
   deleteAccount |-> AuthRoutes.deleteAccount, verifyEmail |-> AuthRoutes.verifyEmail,
   resendVerification |-> AuthRoutes.resendVerification,
   forgotPassword |-> AuthRoutes.forgotPassword, resetPassword |-> AuthRoutes.resetPassword]

BusinessService ==
  [getBusinessProfile |-> BusinessRoutes.getProfile,
   saveBusinessProfile |-> BusinessRoutes.saveProfile,
   getBusinessReport |-> BusinessRoutes.getReport,
   downloadBusinessReportCsv |-> BusinessRoutes.getReportCsv]

CouponService ==
  [validateCoupon |-> CouponRoutes.validateCode, listCoupons |-> CouponRoutes.adminList,
   createCoupon |-> CouponRoutes.adminCreate, updateCoupon |-> CouponRoutes.adminUpdate]

DropOffService ==
  [getPendingDropOffs |-> DropOffRoutes.getPendingDropOffs,
   recordDropOff |-> DropOffRoutes.recordDropOff]

FraudService ==
  [adminGetFraudFlags |-> FraudRoutes.getFlags, adminReviewFraudFlag |-> FraudRoutes.reviewFlag]

ImpactService ==
  [getMyImpact |-> ImpactRoutes.getMyImpact,
   getCommunityImpact |-> ImpactRoutes.getCommunityImpact]

MessageService ==
  [getMessages |-> MessageRoutes.getMessages, sendMessage |-> MessageRoutes.sendMessage,
   markMessagesRead |-> MessageRoutes.markMessagesRead]

NotificationService ==
  [getNotifications |-> NotificationRoutes.getNotifications,
   markNotificationRead |-> NotificationRoutes.markRead,
   markAllNotificationsRead |-> NotificationRoutes.markAllRead]

OpsService ==
  [adminGetOps |-> AdminRoutes.getOps]

PartnerService ==
  [listPartners |-> PartnerRoutes.listPartners,
   listAllPartners |-> PartnerRoutes.listAllPartners,
   createPartner |-> PartnerRoutes.createPartner, updatePartner |-> PartnerRoutes.updatePartner]

PaymentService ==
  [getMyUpi |-> PaymentRoutes.getMyUpi, saveMyUpi |-> PaymentRoutes.saveMyUpi,
   clearMyUpi |-> PaymentRoutes.clearMyUpi, getPickupPayment |-> PaymentRoutes.getPayment,
   claimPaid |-> PaymentRoutes.claimPaid, confirmReceived |-> PaymentRoutes.confirmReceived,
   disputePayment |-> PaymentRoutes.disputePayment]

PickupService ==
  [createPickup |-> RequesterRoutes.createPickup,
   getMyRequests |-> RequesterRoutes.getMyRequests, getAvailable |-> PickupRoutes.getAvailable,
   getCollectorJobs |-> PickupRoutes.getCollectorJobs,
   acceptPickup |-> PickupRoutes.acceptPickup,
   batchAcceptPickups |-> PickupRoutes.batchAcceptPickups,
   getMyAvailability |-> PickupRoutes.getMyAvailability,
   updateMyAvailability |-> PickupRoutes.updateMyAvailability,
   updateStatus |-> PickupRoutes.updateStatus,
   confirmSettlement |-> RequesterRoutes.confirmSettlement,
   disputeSettlement |-> RequesterRoutes.disputeSettlement,
   createDispute |-> PickupRoutes.createDispute,
   getNearbyCollectors |-> PickupRoutes.getNearbyCollectors,
   inviteCollector |-> PickupRoutes.inviteCollector,
   getMyInvites |-> PickupRoutes.getMyInvites,
   getPickupDisputes |-> PickupRoutes.getPickupDisputes,
   createRecurring |-> RequesterRoutes.createRecurring,
   getMyRecurring |-> RequesterRoutes.getMyRecurring,
   toggleRecurring |-> RequesterRoutes.toggleRecurring,
   deleteRecurring |-> RequesterRoutes.deleteRecurring,
   skipNextRecurring |-> RequesterRoutes.skipNextRecurring,
   pauseRecurring |-> RequesterRoutes.pauseRecurring,
   updateRecurring |-> RequesterRoutes.updateRecurring,
   getPickupById |-> PickupRoutes.getPickupById]

PickupViews ==
  [getLeaderboard |-> PickupRoutes.getLeaderboard,
   getCollectorProfile |-> PickupRoutes.getCollectorProfile,
   getPublicCollectorProfile |-> PickupRoutes.getPublicCollectorProfile,
   getCollectorReviews |-> PickupRoutes.getCollectorReviews,
   getRequesterProfile |-> PickupRoutes.getRequesterProfile,
   getMyAchievements |-> PickupRoutes.getMyAchievements,
   getPerformanceInsights |-> PickupRoutes.getPerformanceInsights,
   getCollectorRoute |-> PickupRoutes.getCollectorRoute,
   getSuggestedBatch |-> PickupRoutes.getSuggestedBatch,
   getDemandHeatmap |-> PickupRoutes.getDemandHeatmap,
   getMyReputation |-> PickupRoutes.getMyReputation,
   cancelPickup |-> RequesterRoutes.cancelByRequester,
   exportMyRequests |-> ExportRoutes.exportMyRequests,
   proposeOffer |-> PickupRoutes.proposeOffer, respondToOffer |-> PickupRoutes.respondToOffer,
   markOnTheWay |-> RequesterRoutes.markOnTheWay, markReady |-> RequesterRoutes.markReady,
   getFairPrice |-> PickupRoutes.getFairPrice,
   getDemandForecast |-> PickupRoutes.getDemandForecast,
   getSlotSuggestions |-> RequesterRoutes.getSlotSuggestions]

PlanService ==
  [getPlans |-> PlanRoutes.getPlans, subscribeToPlan |-> PlanRoutes.subscribe,
   getPlansOverview |-> PlanRoutes.adminOverview,
   savePlanSettings |-> PlanRoutes.adminSaveSettings, grantPlan |-> PlanRoutes.adminGrant]

PushService ==
  [getVapidPublicKey |-> PushRoutes.getVapidPublicKey,
   subscribeToPush |-> PushRoutes.subscribe, unsubscribeFromPush |-> PushRoutes.unsubscribe]

QuoteService ==
  [getItemCatalog |-> QuoteRoutes.getCatalog, compareQuotes |-> QuoteRoutes.compareQuotes,
   getRateCard |-> QuoteRoutes.getRateCard, saveRateCard |-> QuoteRoutes.saveRateCard,
   getCatalogAdmin |-> QuoteRoutes.getCatalogAdmin,
   updateCatalogItem |-> QuoteRoutes.updateCatalogItem]

RatingService ==
  [getRatings |-> RatingRoutes.getRatings, submitRating |-> RatingRoutes.submitRating]

ReceiptService ==
  [getReceipt |-> ReceiptRoutes.getReceipt]

ReferralService ==
  [getMyReferrals |-> ReferralRoutes.getMyReferrals,
   validateReferralCode |-> ReferralRoutes.validateReferralCode]

SafetyService ==
  [getTripShare |-> SafetyRoutes.getShare, createTripShare |-> SafetyRoutes.createShare,
   stopTripShare |-> SafetyRoutes.revokeShare, raiseSos |-> SafetyRoutes.raiseSos,
   getPublicTrip |-> SafetyRoutes.getPublicTrip,
   adminListSafetyAlerts |-> SafetyRoutes.adminList,
   adminResolveSafetyAlert |-> SafetyRoutes.adminResolve]

ScrapRateService ==
  [getScrapRates |-> ScrapRateRoutes.getRates, updateScrapRate |-> ScrapRateRoutes.updateRate,
   getScrapRateHistory |-> ScrapRateRoutes.getHistory]

SupportService ==
  [createTicket |-> SupportRoutes.createTicket, getMyTickets |-> SupportRoutes.listMine,
   getMyTicket |-> SupportRoutes.getMine, replyToMyTicket |-> SupportRoutes.replyMine,
   adminListTickets |-> SupportRoutes.adminList, adminGetTicket |-> SupportRoutes.adminGet,
   adminReplyTicket |-> SupportRoutes.adminReply,
   adminSetTicketStatus |-> SupportRoutes.adminSetStatus]

TeamService ==
  [getMyTeam |-> TeamRoutes.getMine, createTeam |-> TeamRoutes.createTeam,
   inviteMember |-> TeamRoutes.invite, removeMember |-> TeamRoutes.removeMember,
   setMemberVehicle |-> TeamRoutes.setMemberVehicle, addVehicle |-> TeamRoutes.addVehicle,
   removeVehicle |-> TeamRoutes.removeVehicle, getTeamJobs |-> TeamRoutes.getTeamJobs,
   assignJob |-> TeamRoutes.assign, getTeamStats |-> TeamRoutes.getStats,
   acceptTeamInvite |-> TeamRoutes.acceptInvite,
   declineTeamInvite |-> TeamRoutes.declineInvite, leaveTeam |-> TeamRoutes.leave]

VerificationService ==
  [getMyVerification |-> VerificationRoutes.getMyVerification,
   getVerifications |-> VerificationRoutes.listVerifications,
   getVerificationDocument |-> VerificationRoutes.getVerificationDocument,
   reviewVerification |-> VerificationRoutes.reviewVerification,
   submitVerification |-> VerificationRoutes.submitVerification]

WalletService ==
  [getWalletSummary |-> WalletRoutes.getSummary,
   getEarningsTrend |-> WalletRoutes.getEarningsTrend,
   getTransactions |-> WalletRoutes.getTransactions,
   requestPayout |-> WalletRoutes.requestPayout, getMyPayouts |-> WalletRoutes.getMyPayouts,
   getPayoutDetails |-> WalletRoutes.getPayoutDetails,
   updatePayoutDetails |-> WalletRoutes.updatePayoutDetails]

Services ==
  {AdminCollectorService, AdminService, AuditService, AuthService, BusinessService,
   CouponService, DropOffService, FraudService, ImpactService, MessageService,
   NotificationService, OpsService, PartnerService, PaymentService, PickupService,
   PickupViews, PlanService, PushService, QuoteService, RatingService, ReceiptService,
   ReferralService, SafetyService, ScrapRateService, SupportService, TeamService,
   VerificationService, WalletService}

\* The roles the server lets call the handler behind a function of the client; no
\* two services have a function of the same name.
Callers ==
  [c \in UNION {DOMAIN service : service \in Services} |->
     UNION {service[c] : service \in {s \in Services : c \in DOMAIN s}}]
=============================================================================
