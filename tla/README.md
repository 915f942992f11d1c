# ScrapConnect in TLA+

ScrapConnect matches people who have scrap to give away (*requesters*, role
`user`) with *collectors* who fetch it and pay for it. The server is one Node.js
process (Express, Socket.IO, node-cron) in front of MongoDB; the client is a
React application. This directory models both: what request handlers and cron
jobs do to the documents in the database when they run at the same time, and what
the pages of the client make of answers and live events that come in any order.

## How the system runs, and how the models say it

Node runs one thing at a time, but every handler is asynchronous: at each
`await` the others run. What a handler read before an `await` may be stale when
its write reaches the database. MongoDB applies a single-document update
(`findOneAndUpdate`, `updateOne`) atomically, filter included; there are no
transactions. So in all server modules:

- a handler that reads, then writes, is two steps or more. The arrival step
  does the reads and the early returns and leaves what the rest will use in a
  *slot* (a running handler); each write is one step, enabled while the slot
  holds it (`Handlers` has the slots of the smaller modules);
- a write with a filter happens if the filter matches at that moment, otherwise
  the handler ends without a change;
- a write that has no filter but the `_id` (`save()`, `updateOne({_id})`)
  happens whatever the document has become. Mongoose sends the fields that were
  changed, so a save overwrites those and no others;
- a unique index is a condition of the step that creates the document; what the
  handler does with the duplicate-key error is part of that step;
- a handler whose only access is one filtered update is one step;
- a cron job's run is a handler in a slot of its own in `PickupLifecycle` and
  `Settlement`, where runs of one job do not overlap (the schedule leaves minutes
  between them), and takes a slot like any handler in the other modules, where
  they may;
- a restart (`Crash`, `Restart`, `Restarts`) empties all slots and leaves the
  database.

In the client modules a component keeps what it last got; a request is a record
in a set or sequence of calls under way, which the server answers when it likes;
events of one socket keep their order, answers and sockets are not ordered with
each other.

Deadlock is not checked (`CHECK_DEADLOCK FALSE` everywhere): users owe the
server nothing, so the system may stop in any quiet state.

## Inventory

Server paths are relative to `src/Backend/src`, client paths to
`src/frontend/src`. `PROJECT.json` gives each component's status with a note.

| Component | State | Operations | What makes it correct | Modules |
|---|---|---|---|---|
| Matching and negotiation (`controllers/pickupController.js`, `models/Pickup.js`) | `Pickup.status`, `collector`, `price`, `negotiation` | create, accept, batch accept, offer, invite, decline, counter, agree | one holder; one negotiating collector; nobody takes a job from under a negotiation; an accept takes the offer that is on the table | `PickupLifecycle` |
| Negotiation expiry (`jobs/expireStaleNegotiations.js`) | reads offers, writes `negotiation` | one run | an abandoned offer ends; a fresh one survives | `PickupLifecycle` |
| Fulfilment (`updateStatus`, `trackingController.js`, `utils/handshake.js`) | `status`, `handshake`, `tracking` | on the way, ready, start code, complete, cancel | no start or completion out of order; the attempt counter locks in time | `PickupLifecycle` |
| Stall and no-show (`jobs/escalateStalledPickups.js`, `reportNoShow`) | `isStalled`, `noShowCount`, `collectorSuspended` | flag, report, count, suspend | only one's own stall is reportable, once | `PickupLifecycle` |
| Settlement, disputes, payment (`utils/settlement.js`, `disputeController.js`, `paymentController.js`, `jobs/autoConfirmSettlements.js`) | `settlement`, `price`, `payment`, `Dispute`, earning `Transaction` | weigh, confirm, auto-confirm, dispute, resolve, finalize, credit, claim, receive | one final price, fixed once, credited once, paid at that price; a held payout can be released | `Settlement` |
| Wallet, plans, referrals (`walletController.js`, `planController.js`, `adminController.js`, `utils/walletBalance.js`, `utils/referralActivation.js`) | `Transaction`, `PayoutRequest`, `PlanPurchase`, `subscription`, `Referral` | request, approve, reject, subscribe, grant, reward | one pending request; debits are for approved requests; plans are paid for | `Wallet` |
| Coupons (`utils/coupons.js`) | uses, counted from pickups | check, snapshot, edit, credit | what was promised is credited; overuse is bounded | `Coupons` |
| Ratings (`ratingController.js`) | `Rating`, average, suspension | rate, reinstate | the gate misses no bad average | `RatingGate` |
| Verification (`verificationController.js`, `jobs/expireVerifications.js`) | `collectorVerification` | submit, review, revoke, expire, remind | a lapsed ID is marked | `Verification` |
| Teams (`teamController.js`) | `Team.members` and `__v`, `assignedTo` | create, invite, accept, decline, remove, leave, assign | nobody becomes a member without having accepted | `Teams`, `PickupLifecycle` |
| Accounts (`authController.js`, `middleware/auth.js`) | `User.sessionVersion`, `isActive`, tokens, sockets | login, change, reset, delete, activate, revalidate | old sessions end | `Accounts` |
| Recurring pickups (`recurringPickupController.js`, `jobs/spawnRecurringPickups.js`) | `RecurringPickup` | create, toggle, skip, pause, edit, delete, spawn | one pickup per run | `Recurring` |
| Chat (`socket/setupSocket.js`, `messageController.js`, `hooks/usePickupChat.js`) | rooms, `Message`, window | join, leave, send, type, read, drop | a message reaches who attends | `Chat` |
| Notices (`jobs/slotReminders.js`, `jobs/paymentReminders.js`, arrival in `setupSocket.js`) | markers of the pickup | find, claim, send | once each | `Notices` |
| Notifications and the bell (`utils/notifyUser.js`, `hooks/useNotifications.js`) | `Notification`, list, count | create, emit, load, mark | the bell agrees with the server | `Alerts` |
| Safety, support, drop-offs (`safetyController.js`, `supportController.js`, `dropOffController.js`) | `TripShare`, `SafetyAlert`, `SupportTicket`, `dropOff` | share, stop, SOS, resolve; ask, reply, close; deliver | a stopped link stays dead | `Desk` |
| Routes (`utils/routeOptimizer.js`, `utils/suggestedBatch.js`) | none (pure; the loops' own variables) | order, improve, cluster | all stops once; no reversal helps | `Routes` |
| Lists and live updates (`pages/collector/Dashboard.jsx`, `pages/user/MyRequests.jsx`) | copies of a pickup | events, answers, clicks | copies end up current | `Boards` |
| Controls (`PickupDetailModal.jsx`, `OfferPanel.jsx`, payment cards, admin queue) | none of their own | every button on a pickup | offered is accepted; nobody is stuck | `Controls` |
| Routes of the API and its callers (`routes/*.js`, `services/*.js`) | none | calls | no page sends what its role may not | `Access` |
| Panels (all pages) | what each fetched, selection, disabled buttons | fetch, select, poll, write | the screen ends up current | `Screens` |
| Session (`services/api.js`, `context/AuthContext.jsx`) | localStorage, tab | sign in, 401, storage event | tab and store agree | `Session` |
| Request form (`pages/user/RequestPickup.jsx`) | items, photo, coupon, place, submission | edit, pick, speak, submit | sent is what was seen | `Request` |
| Badges, streaks, pricing, quotes, slots, reports, exports, receipts, static pages | - | - | - | not modelled: aggregates, lookups, formatting; their calls are in `Access` and `Screens` |

Interactions: jobs and handlers share the `Pickup` document; matching reads
`User` (standing) and `Team`; completion starts settlement; settlement writes
`Transaction`, which the wallet sums up; deletion of an account reads and writes
`Pickup`; every write is broadcast to the pages and noted to the bell. There are
no locks and no queues: everything is coordinated by the filters of updates,
Mongoose's `__v`, and a handful of unique indexes.

Hard behaviours: reads that are stale at the write (all over), several writes
per request with a restart between them, jobs that test in memory and write
later, markers that outlive the person they were set for, errors of unique
indexes that are swallowed, answers that overtake one another, conditions that
are written once in the client and once in the server. `PROJECT.json` lists forty
of them at their lines under `hazards`, with the properties aimed at each. Smaller
ones beside those, which are part of the models and which nothing promises
against: the no-show count and the suspension are two writes; a completion that
was read before the start skips the weighing; two admins resolve one dispute with
different verdicts; a referral is claimed and the bonus lost by a restart; two
drop-offs of one load both pass the check; a reply to a ticket crosses its
closing; a socket stays in a room after the job went to somebody else.

## Modules

| Module | What it is |
|---|---|
| `PickupContract` | abstract: who holds a pickup and the only ways that may change |
| `PickupLifecycle` | the handlers and jobs of one pickup's life, up to completion |
| `MCPickup`, `PickupLifecycle_proofs` | its instances (workloads, crews, symmetry); its theorems |
| `SettlementContract` | abstract: one price, fixed once, credited and paid after that |
| `Settlement` | the handlers and the job on the money side, from completion on |
| `MCSettlement`, `Settlement_proofs` | its instances; its theorems |
| `Handlers` | slots of running handlers, for the modules that follow |
| `WalletContract` | abstract: what is credited, what leaves the wallet and for what, which plan that buys |
| `CouponContract` | abstract: what a pickup requested with a code is promised, paid and shows |
| `Wallet`, `Coupons`, `RatingGate`, `Verification`, `Teams`, `Recurring`, `Notices`, `Accounts`, `Desk` | the server's other components |
| `Chat`, `Alerts`, `Boards` | server and client together: room and window, notification and bell, document and lists |
| `Controls`, `Access`, `Screens` | the client's pages against the server's guards and roles |
| `Session`, `Request` | the client alone, with a server that answers as it likes |
| `Routes` | the route optimizer and the batch, one turn of a loop to a step, over a grid |
| `MCOffice` | all of these in one specification, one part to a behaviour |
| `Users_proofs` | theorems about `Wallet`, `Coupons`, `Accounts`, `RatingGate`, `Verification`, `Teams` |
| `Jobs_proofs` | theorems about `Notices`, `Desk`, `Recurring`, `Routes` |
| `Client_proofs` | theorems about `Session`, `Request`, `Controls`, `Screens` |
| `Lists_proofs` | theorems about `Alerts`, `Boards`, `Chat` |
| `Office_proofs` | all of these theorems for `MCOffice` |
| `Sequence_lemmas` | what the proofs need to know of lists |

`PickupLifecycle` and `Settlement` meet at completion: `CompleteApplies` ends
where `Complete` of `Settlement` begins, and `weighed` of the one is the status
`"none"` of the other. They are kept apart because after completion no handler
of the first touches what the second keeps. The parts of `MCOffice` share no
documents either (or only what one of them takes as a choice: a price, a holder),
so a behaviour moves one part, `part`, and the others stand still; the runs cover
each part exactly as a run of its own would, in one state graph.

### PickupLifecycle

State and code: `pickup` (`status`, `collector`, `price`, `assignedTo`,
`isStalled`), `negotiation`, `handshake` and `tracking` are the fields of the
same names of one `Pickup`; `members` is the active members of `Team`,
`standing` the fields of `User` that decide on work, `gone` the deactivated
accounts. Offers are reduced to the last one and a count. A time is reduced to
what the jobs compare it with: `clock.waited` (the acceptance is
`STALLED_PICKUP_MINUTES` old), `clock.offerOld` (the last offer is
`STALE_NEGOTIATION_HOURS` old), and `"recent"` or `"past"` for `onTheWayAt`; the
`Age...` actions move them. `setOff` and `stalls` are history: what really
happened, beside what the code recorded.

`XArrives` is the part of handler X up to its write, `XApplies` the write. The
filters of all the writes stand together in `Filter`. The requests users send
in a run are its `Workload`; the constant only leaves kinds of requests out and
changes none.

`Withdraw` in the contract is one step the authors may not have meant: deleting
a requester's account saves pickups found earlier as cancelled, a job under way
or completed since included.

### Settlement

The model starts at the in-progress pickup. Weighing is a choice of outcome:
within tolerance, off it at a price of `Prices`, or not weighed, which happens
when `updateStatus` reads the pickup before it is in progress and its update
matches later. `confirmAt` is `settlement.due`. The three callers of
`finalizeSettlement` (`confirm` for the requester and for the job, `rule` for an
admin) differ in the states they start from (`From`). `credited` is the gross
amount of the earning transaction; commission is not part of the model, and the
coupon bonus is in `Coupons`. The index on open disputes is `HasOpen`.

### The other server components

- `Wallet`: the ledger is a set of records, and `Duplicate` is its three unique
  indexes as MongoDB keeps them: a sparse compound index holds every document
  that has one of its fields. `Balance` reads one snapshot of transactions and
  requests; in the code it is four aggregations side by side, so a mix of two
  snapshots is left out. Amounts are 1 and 2.
- `Coupons`: `orders` are the pickups that carry the code; `promised` is history.
  The check counts, the creation is a later step.
- `RatingGate`: create, find, aggregate and update are four steps; averages are
  whole tenths, rounded as the code rounds.
- `Verification`: `age` is how far an approval is from its expiry. All of submit,
  review, expire and remind save what they loaded.
- `Teams`: a `Team` is its members and `__v`. What a save sends depends on the
  change (see the head of the module): a push is atomic, a splice or a changed
  field goes to a position and fails when `__v` moved.
- `Recurring`: days; `job` is the running job with its list of templates. `raced`
  marks templates a handler saved while the job had them loaded.
- `Notices`: find, then claim by a filtered update, then send.
- `Accounts`: tokens are the `sessionVersion` they claim. `overlapped` marks
  behaviours in which two writers of the password, the deletion or `isActive` were
  under way at once, where the later save wins.
- `Desk`: `matter` chooses trip, tickets or deliveries: they share no document.
- `Routes`: a state is a turn of one of the loops: the nearest stop is taken
  (`NearestTaken`), the order is done (`GreedyDone`), a stretch is tried in reverse
  (`StretchTried`, with the pass and the two positions in `sweep`). Stops are points
  of a grid and a leg is as long as the grid steps between them, so a route's length
  is a count; `batch` is the beginning of the route within the limits of a batch.

### The client

- `Boards` is one page, of the collector or of the requester, that keeps copies of
  one pickup in its lists. A write of the server is one step here (its races are in
  `PickupLifecycle`); its broadcast may leave later than another's.
- `Controls` has a set of requests per component, nested as the components are, and
  one guard per handler; both are translated by hand from the two sides, and what is
  checked is that they agree. The copy on the screen is the document here, and every
  collector is approved, available and not suspended; a crew has two people.
- `Access` is two tables: which roles a route lets through, and which handler each
  function of a service calls.
- `Screens` has one record per panel: the calls it fetches with, what fetches
  again, what becomes of a late answer and of what was shown when a fetch fails, and
  its forms with what they do afterwards (change their part of what is shown, replace
  all of it, fetch again, close the panel) and how long their button is off. A form in
  every row of a list is there twice: the list has one busy key, so pressing it in one
  row frees the button of the other (`Rows`, `Freed`). One generic screen runs any of
  them. `Careless` lists the 35 panels that may be left with an answer of another
  selection or of before a write: because a late answer is shown, because a failed
  fetch leaves the old one, because two writes of one part can be under way and be
  answered out of order, or because a form fetches again when another was sent since.
  Each of them does so in some behaviour. `SettledScreenIsCurrent` says of the rest
  that they show what is selected, and of every panel that no button stays disabled.
- `Session` is one tab; other tabs act on the store it shares with them.
- `Request` runs the photo, the submission and one other part of the form (`care`).

Things `Controls` and `Access` found that are no violation of a property: the
handlers of `reportNoShow` and `estimateFromPhoto` have no control in the client
that calls them; an assigned team member is offered Report, Rate, View receipt
and the dispute status, which the server refuses them (the properties are about
the requester, the holder and the collector of a negotiation).

## Runs

| Run | Bounds | Shows |
|---|---|---|
| `PickupMatching` | 2 collectors, 2 handlers at once, 1 amount, 3 offers | holder and negotiation under every matching race |
| `PickupNoShow` | 2 collectors, 2 handlers and the job, 1 recorded no-show each, limit 1, restarts | stalls, reports, suspensions, deletions; the contract |
| `PickupLiveness` | 2 collectors of which one leads the other, 1 handler and both jobs, 2 offers, code limit 2 | types; an abandoned offer ends; a silent collector becomes reportable |
| `Settlement` | 2 handlers and the job, 2 prices, 1 dispute, 1 restart | types, held money, one price, no final price without its credit on the way, contract; the job settles for a silent requester; a final price is credited |
| `Office` | below | one property or two of each of the other components, and the contract of the wallet |
| `OfficeLiveness` | 1 handler; chat with 1 message and dropping sockets; 2 submissions; 3 session versions | a message reaches an attended window, a lapsed ID is marked, the sockets of an ended session close |

Why these bounds: each race in this code is between one handler that has read
and another that writes, or between a handler and a job, so two handlers and the
jobs show it; the third party of a race (a second collector) is there, and a
third collector could only do what the second does. One amount is
enough where no property looks at a price; the run about the terms of an offer
has two. Three offers are an offer, its answer, and one after a decline. The
counters `noShowCount` and `failedAttempts` are compared with a limit once, so a
limit of 1 or 2 reaches both sides of the comparison. The bound on reported
no-shows (`MaxNoShows`) limits how often a job is reopened. `Settlement` has one
dispute because its liveness makes it dear; that two of them change nothing is what
the theorems say for any number. Symmetry is used in runs
without temporal liveness only, and only where the symmetric values are not told
apart by any other constant.

The bounds of `Office`, all with two handlers at once:

| Part | Bounds |
|---|---|
| wallet | 2 collectors, 1 earning of 2, payouts and plan of 1, `MaxRequests` 2, `MaxPurchases` 1, `MaxMonths` 1, 1 referral: enough for two requests in a row or by two people, and for a plan that runs out |
| coupons | 3 pickups, limits 1: two requests at once pass a limit of one, and a third is one after them |
| gate | 3 ratings of 1 or 5, gate at 2 ratings: both sides of the threshold and of the count |
| kyc | `MaxSubmissions` 2: a re-submission that meets the job |
| teams | 1 team, 2 people, `MaxSaves` 5: invite twice, accept, remove, invite again |
| chat | typing, or the hand-over of the job (one to a behaviour, `ChatWork`), `MaxWire` 1, no messages: these are in `OfficeLiveness` |
| recurring | 1 template, cadences of 1 and 2 days, `MaxDay` 2, `Horizon` 2: two runs in a row, with a skip, a pause or an edit before |
| notices | all five kinds, a no-show in between |
| accounts | `MaxVersion` 2 |
| boards | `MaxWrites` 2 besides the first state, `MaxCalls` 1: an answer, a broadcast that leaves late, and one that does not |
| alerts | 2 notes, a bell that keeps one (`BellLimit`), `MaxAsks` 2 |
| controls | 2 collectors, reports about weight and payment |
| screens | `MaxFlight` 2 calls under way, 2 selections: one answer overtakes another |
| session | 2 accounts, `MaxAwaited` 2 |
| request | 2 photos (`MaxPicks`), 2 items, 1 post (`MaxPosts`; a second one is sent from the same form, and `PhotoIsSent` is about any number) |
| desk | 2 links, alerts, positions, tickets (`MaxMade`), ticket limit 1, 2 loads, 2 partners |
| routes | up to 4 stops on a 4 x 2 grid from its corner, batches of at most 3 stops with legs of 1 |

Disagreements between the code and what its comments or tests say, one short run
each (`PROJECT.json` quotes the lines):

| Run | What happens |
|---|---|
| `PickupStaleTerms` | an accept closes at the price of an offer that the same collector has replaced since it was read |
| `PickupAssignedAway` | a job follows to a new collector with the old one's team member assigned |
| `SettlementFrozen` | a payout is frozen with no dispute that would release it |
| `ApprovedIsDebited` | the second payout debit in the database is a duplicate key, taken for a retry: approved, never debited (two requests of one collector, one after the other) |
| `JobsAreListed` | a job won by an accepted offer appears in no list of the collector's page |
| `MistakesKeepTheSession` | a wrong current password in the form that changes it signs the user out |

Claims of comments and tests that TLC refutes too, in a few steps, and that are
kept as formulas without a run of their own:

| Formula | Claim | What happens |
|---|---|---|
| `PickupLifecycle!ExpiresOnlyOldOffers` | the expiry job is guarded against a live answer | a counter-offer made after the job's look is declined with the old ones |
| `PickupLifecycle!NotFlaggedAfterSettingOff` | who has set off is not stalled | the old collector's departure time outlives a no-show and hides the new one's |
| `PickupLifecycle!SuspendedTakeNoJobs` | suspended from accepting new pickups | an agreement in a negotiation checks no suspension |
| `PickupLifecycle!HolderExists` | no pickup with an assignee who no longer exists | an open offer of a deleted collector is accepted |
| `Recurring!PausedMeansPaused` | a pause skips every run up to its date | the job creates the pickup of a template it had loaded before |
| `Verification!SubmissionStaysInReview` | the job flips approved IDs | it saves "expired" over a submission made since it looked |
| `Chat!TypingEnds` | nobody is left seeing "is typing" forever | closing the window clears the timer that would have said stop |
| `Chat!NoDuplicate` | a message is shown once | history and echo both bring it |
| `Routes!NeverLongerThanGiven` | the optimizer never gives a longer route than the input order | the nearest stop first can be a beginning no reversal mends; needs a 4 x 3 grid |

### What the properties except

- `OfferedIsAccepted`: the plain Accept button stays beside the answers to an offer
  while a negotiation is pending, and is then refused.
- `OnePickupPerRun`: templates a handler saved while the job had them loaded.
- `SessionsEnd`: behaviours in which two writers of the same account overlapped.
- `GateCatchesAll`: an admin who lifted the suspension, and a restart between the
  rating and its average.
- `RatingIsOfItsCount`: not that the average is of all ratings there are; a write that
  lost its race, or a restart, leaves an older one until the next rating.
- `CreditIsOnItsWay`: a restart, after which nothing retries the credit.
- `OveruseIsBounded`: not that the limit holds, which it does not, but by how much it
  can be passed.
- `BellAgrees`, `CopiesAreCurrent`: when nothing is under way any more, and, for the
  bell, no load of it failed (it does not try again) and nothing overlapped one; for a
  page, no older state came after a newer one.
- `SettledScreenIsCurrent`: what the panels of `Careless` show.

### Fairness

`FairSpec` of `PickupLifecycle` assumes that node-cron starts both jobs again and
again, that a started handler runs to its end, and that time passes. `FairSpec`
of `Settlement` assumes the same of its job, its handlers and its deadline. No
request of a user or an admin is fair. `SilentCollectorReportable` needs
`AgeTracking`: a departure once recorded becomes old, and pressing again does
not refresh it. `SettledIsCredited` excepts a restart: the credit is a second
write and nothing retries it. `SilentRequesterSettles` holds across a restart,
since the job finds the settlement again.

`OfficeFairness` is the fairness of the part a behaviour is about. `ChatFairness`:
joins, history, timers and emissions are weakly fair, the delivery to a socket
strongly, since a socket may drop and come back: a connection that never stays up
owes nothing, and `MessageReachesWindow` ends when the window is no longer
attended. `KycFairness`: a handler that has loaded saves, and the hourly job runs
again and again (strongly fair, because the slot it needs is sometimes taken).
`AccountFairness`: the interval in `setupSocket.js` looks at every open socket
again.

## Proofs

Every invariant that a passing run checks, and each of the four contracts, is also a
theorem: for every set of collectors, crews, slots, jobs or stops and every value of
the bounds (`RouteIsSettled` with a condition on them, see below). A
theorem about a component is about its own specification (`WalletSpec`,
`ScreenSpec`, ...); `Office_proofs` carries all of them over to the composed
specification that the run `Office` checks. Three invariants that a
contract or a stronger invariant implies (`OnePendingPayout`, `DebitHasApproval`,
`PlanIsPaidFor`) are theorems without a run of their own, because a run already checks
what implies them. The contract of the codes (`DealIsKept`) is the one contract no listed
run repeats: evaluated at every step of a run about sixteen other components it is too
dear, so TLC checked it on the codes alone before it was proved.

| Theorem | States |
|---|---|
| `Types`, `SettlementTypes` | `TypeOK` of `PickupLifecycle` and of `Settlement` |
| `Matching` | `MatchedIffHeld` |
| `LiveOffers` | `LiveOfferHasNegotiator` |
| `OffersAndJobs` | `NoLiveOfferOnTakenJob` |
| `FreshAccepts` | `FreshAcceptNotReportable` |
| `OneReportPerStall` | `OneNoShowPerStall` |
| `OneNegotiator` | `NegotiationKeepsItsParty`, an action property |
| `Refinement` | `PickupLifecycle` implements `PickupContract` |
| `HeldMoney` | `HeldMoneyStaysHeld` |
| `OneFinalPrice` | `OnePrice` |
| `CreditIsNotLost` | `CreditIsOnItsWay` |
| `MoneyRefinement` | `Settlement` implements `SettlementContract` |
| `WalletTypes`, `CouponTypes`, `AccountsTyped`, `GateTypes`, `KycTypes`, `TeamsTyped`, `NoticeTypes`, `DeskIsTyped`, `RecurringTypes`, `RouteIsTyped`, `RequestTypes`, `ControlsSound`, `ScreenTypes`, `AlertTypes`, `BoardTypes`, `ChatIsTyped` | the type of the component, most with what its handlers carry |
| `OnePayout`, `DebitsAreApproved`, `PlansArePaid` | `OnePendingPayout`, `DebitHasApproval`, `PlanIsPaidFor`: parts of the contract, so no run checks them by themselves |
| `BooksRefinement`, `OfficeKeepsBooks` | `BooksAreKept`: `Wallet`, and `MCOffice`, implement `WalletContract` |
| `PromiseIsKept`, `OveruseBounded` | `PromiseKept`, `OveruseIsBounded` |
| `DealRefinement`, `OfficeKeepsDeal` | `DealIsKept` (no run): `Coupons`, and `MCOffice`, implement `CouponContract` |
| `SessionsAreEnded` | `SessionsEnd` |
| `GateCatches`, `RatingsBelongTogether` | `GateCatchesAll`, `RatingIsOfItsCount` |
| `MembersAccepted` | `ActivatedBySelf` |
| `NoticesOnce` | `NotifiedOnce` |
| `StoppedLinks` | `StoppedLinksAreDead` |
| `OneForOneRun` | `OnePickupPerRun` |
| `RoutesSettle` | every stop once, never longer than the nearest-stop order; and, if the cap on passes did not end the search, `RouteIsSettled` |
| `ShortRoutesSettle` | `RouteIsSettled` whatever is asked, where the number of stops times the longest leg (width plus height minus 2) is below the cap |
| `TabFollows` | `TabAgrees` and the type of `Session` |
| `PhotoIsSent` | `PhotoIsTheOneShown` |
| `ControlsAgree`, `SomebodyCanAct` | `OfferedIsAccepted`, `NobodyIsStuck` |
| `ScreenSettles` | `SettledScreenIsCurrent` |
| `PagesMayCall` | `CallsAreAllowed` |
| `BellShape`, `BellIsRightAlways` | the shape of the bell's requests; `BellAgrees` |
| `CopiesCurrent` | `CopiesAreCurrent` |
| `OfficeIsSound`, `OfficeTypes` | all of the above of `OfficeSpec`; `OfficeTypeOK` |

The assumptions are the ones the modules name (`PeopleAssumption` to
`WalletAssumption`). They say that values for "none" are not among the others
(`NoOne`, `NoTeam`, `NoHolder`, ...), that bounds are numbers, some of them not 0
(`MinRatings`, prices, payouts, the periods of a cadence, the entries of the bell),
that scores are 1 to 5, and that a set is finite where its members are counted: the
slots of `PickupLifecycle` and `Coupons`, the orders with a code, the notifications of
`Alerts`. Elsewhere there may be any number of slots. TLC evaluates each assumption in
the runs.

### The arguments

No safety property of this system is inductive alone: a write step uses what an
earlier read left in its slot. Each proof therefore starts from what the handlers
under way carry, and adds what makes a stale reading harmless.

*Pickup.* The first invariant, `Core`, says of every running handler what it
carries (`SlotsOK`: an accepting handler carries a collector, an agreeing one an
amount and a collector) and which slot a job occupies (`JobSlots`), together with
the types, `MatchedIffHeld` and `LiveOfferHasNegotiator`. `LiveOfferHasNegotiator`
is needed for `MatchedIffHeld`, since an agreement takes the negotiating collector
it read. The deletion of a requester needs a fact of its own (`WithdrawKnows`): a
deletion in flight that will write knows a document exists. On top of these, `Safe`
holds `NoLiveOfferOnTakenJob`, `FreshAcceptNotReportable` and `StallJobKnows`: the
stall job saves by `_id`, so a job that had been reopened and accepted again in the
meantime would be flagged at once; it cannot have been, because reopening needs the
flag, and the flag stays down until this one run of the job writes it. Each step is
shown once to keep `Safe`, to be a step of the contract or a stutter, and to keep
the party of a live negotiation (`Effect`), with a lemma per group of actions.
`OneNoShowPerStall` is a count: recorded reports, plus the handlers that have
reopened a job and not yet counted it, are at most the stalls there were
(`OneReportPerStall`). It needs the sets of such handlers to be finite, and that a
handler adds or removes itself only.

*Settlement.* `IInv` is the types, `Carries` (what each running handler carries is
fit for the step it will take) and `MoneyFollowsPrice`: every amount written, or
about to be written by a handler in flight, is the price, and the price no longer
moves once there is one. The step that could break it is `finalizeSettlement`: it
needs a held settlement, in which by `HeldMoneyStaysHeld` nothing has been credited
or claimed, and after which no state it starts from is ever reached again.
`CreditIsOnItsWay` is the part of `SettledIsCredited` that needs no fairness, and is
kept by every step on top of `IInv`: a step that makes a price final leaves the credit
in the slot of its handler (`UsersCredit`, `ServerCredit`), no other step touches such a
slot (`WorkOnTheSide`), and a handler only carries amounts that are not 0. What is left
to TLC is that a running handler ends.

*Wallet.* A collector has one pending request, because the index is a condition of
the step that creates it and no verdict is taken back (`VerdictsAreFinal`). A debit
is written by a handler that approved the request in an earlier step:
`DebitHasApproval` speaks of those handlers too, and `SlotMoves` says which step of a
handler can follow which. `PlanSteps` is what a subscription is in the middle of:
what is on its way to the purchases has its debit, and what is on its way to the
user's document is among the purchases, neither of which ever shrinks. The contract
forgets the slots and sees the ledger by what its entries are for (`Of`): a step of a
handler is one step of the contract or none (`HandlerBooked`, with a lemma for each
kind of write). What the proof needs beyond the invariants is about referrals: one that
came true stays so (`ReferralsAreFinal`), and a handler about to pay a bonus is about
one that did (`BonusIsDue`). That two entries for one pickup or one payout do not both
go in is the unique index, a condition of each insertion.

*Coupons.* `OrdersInFlight`: an order carries what was promised for it, a handler that
will create an order is alone with it, and one that will credit it has its final
price. How far a limit is passed is counted over the uses together with the handlers
between check and creation (`CountStep`): only a handler that found a use left is
added to them, and there are as many of those handlers as slots. The contract sees the
pickups by what was agreed (`Deal`): a write to one order is one step of it or none
(`OneOrderWritten`), for which the proof adds `ShownIsPaid`: a pickup nobody requested
is blank, and a bonus on its way to a pickup is the one that was credited for it. The
bonus is credited in one write and shown by the next, so a restart may leave it unshown,
never wrong.

*Accounts.* `OneWriter`: unless two writers overlapped, there is at most one, the
version it loaded is still the account's, and every version that was given out is at
most that and every ended one below it. The version it saves is therefore new. That a
deleted account stays shut needs that nobody who found it there is still about to open
it (`StaysShut`).

*RatingGate.* While the ratings are below the gate the collector is suspended, or
some handler will still look at the ratings, or has found them low and will write
(`GateHolds`). It holds for any way of averaging, since only equality of averages of
equal sets of ratings is used. `GateTypes` then says that the average the module
defines is a number. What a handler aggregated is stale when it is written, and may
overwrite a later average, but is of ratings that were given, and as a rating once given
never changes their average and number stay what they were (`AveragesStand`,
`SnapshotsHold`): so `RatingIsOfItsCount`, and not that the average is the latest.

*Teams.* A person may be on the list twice, when two invitations crossed; if one of the
entries is active it is the first, and its person accepted (`TeamInv`). What a handler
has read of a team stays true as long as `__v` is the one it read (`StillTrue`), so a
save to a position, which fails when `__v` moved, changes the entry that was meant.

*Notices, Desk, Recurring.* A marker is set exactly when its notice went out
(`MarkedOnce`). A link that was out when sharing was stopped stays revoked, with the
position it had (`StoppedStay`), because every later write to links looks for ones
that are not. `OnRhythm`: the last pickup of a template lies before each next run that
is known of, the one of the document, the one the job goes by and the one an edit is
about to save, unless a handler and the job had the template at once.

*Routes.* `RouteInv` follows the loops: what has been ordered and what is ahead are
together the stops given; the route at every turn visits the same stops as the
nearest-first route and is no longer; and a pass that has improved nothing so far
has tried every stretch behind the one it is at (`PassSoFar`). A pass that ends
without an improvement therefore leaves no reversal that would help. The lemma on
which it rests, `ReversalIsTurned`, says where a reversal puts each stop. Every pass
but the last shortens the route by at least one step of the grid, so its length and the
number of passes are together at most the length of the nearest-stop-first route and
one (`PassesPay`), and that is at most the stops times the longest leg: this is how
`ShortRoutesSettle` does without a condition on the cap.

*Session, Request.* `SessionInv` adds to `TabAgrees` that a call under way was made by
somebody. `PhotoShape` adds to `PhotoIsTheOneShown` that a form that was pressed has
the photo that was shown, and that while nothing is being compressed the page would
send the photo that was picked last.

*Controls.* Which button is shown and what the server lets through are decided by
different conditions on one document; they agree only on the combinations of status,
holder, negotiation, weight, payment and reports that the document can have, which
`ControlShape` lists.

*Alerts, Boards, Chat.* Unless a load failed or overlapped something, the entries the badge
counts are exactly those that came, are unread and are not being marked
(`BellInv`); the bound on the badge counts with it what may still come
(`AlertLimits`). `BoardInv` follows the versions of a pickup: each one there is has
been given to the page, or an announcement, an event or an answer on its way will
give it that or a newer one (`Covered`), and what the page keeps is as new as what it
was given. In `Chat` everything under way or shown is about a message that is stored.

*Screens.* Every panel is named in `Careless` or keeps its screen right in one of three
ways: its forms change nothing it shows and it drops the answers of a selection it
left, or it fetches once and each form edits its part of what is shown with one call
at a time, or its one form waits until it has fetched again. `ScreenInv` has a clause
for each (`LooksInv`, `EditsInv`, `RenewsInv`), about the fetches under way and the
writes that what they bring, or what is shown, does not have yet. That no button stays
disabled is a clause for all panels (`ButtonsWait`): a disabled form has a call under
way. `CallsAreAllowed` compares two
fixed tables: the lemmas take the calls by the roles that may send them (`PublicMay` and
the ones after it), each through its service and the routes file behind it.

*Office.* A behaviour about a part takes only that part's steps
(`AboutWallet`, ...), so it is one of that part's specification, and the theorem
follows from the component's.

The larger invariants (`TeamInv`, `ScreenInv`, `RouteInv` and those of the pickup
and its money) were checked by TLC on small instances before they were proved. Some
definitions were changed because a proof showed them wrong or opaque: cases of two
definitions in `Boards` and `Chat` overlapped; `Routes` had been folds over
sequences, of which nothing can be shown for every input, and is now the loops
themselves; a sum of ratings is a count of points; a set of members without one is a
filter in `Teams`.

### Only model-checked

- The liveness properties (`MessageReachesWindow`, `LapsedIsMarked`, `SocketsClose`,
  `AbandonedOfferEnds`, `SilentCollectorReportable`, `SilentRequesterSettles`,
  `SettledIsCredited`): fairness is out of the prover's reach.
- Nothing else; but `RouteIsSettled` is claimed only of instances within the condition
  of `ShortRoutesSettle`, as the one TLC checks is. Beyond it `PassesEnd` need not hold,
  since the code stops after twenty passes.

## Plan

Done: the pickup, its money, the other components of the server, the client, and the
theorems above. What could come next:

1. An abstract specification of sessions (given out, ended), beside those of the pickup,
   its money, the wallet and the codes.
2. The five hazards that no property covers yet (see `PROJECT.json`): each is a
   property the code does not have, so each needs a statement of what it does promise.

## Not modelled

- Badges, streaks, reliability and other statistics, business reports, impact,
  exports, receipts, leaderboards: aggregates over documents that nothing else reads.
- Pricing, quotes, fair price, the rate card and the item catalogue: lookups and
  medians. A price is a constant or a choice in the modules that carry one.
- Slots and their suggestions, hours of work, dispatch scores, ETA: date parsing and
  real numbers. Where a window or a distance decides something it is a choice
  (`Notices`, the stall deadline).
- Single writes that touch nothing else: registration, the verification of an e-mail
  address, the UPI id and payout details, vehicles of a team, plan prices, rates,
  audit records. They are calls of panels in `Screens` with their roles in `Access`.
- The value of the start code, uploads and storage of documents, e-mail, push
  delivery, rate limits, validation of input, configuration.
- The weekly digest and the alerts about clusters and stale pickups, which only send
  text; the clamp of months in `recurrence.js`; a coupon that is a percentage; the
  commission.
- The text, animation and styling of pages, the PWA shell and the static pages.
- A second server process: the repository starts one. Several requests of one kind by
  one user are several slots, so a double tap or a client's retry is covered; a write
  that reaches the database and whose answer is lost is the same as a handler that
  ends.
