---------------------------- MODULE Office_proofs ----------------------------
(***************************************************************************)
(* The theorems of the components, for the specification the runs check: a  *)
(* behaviour of MCOffice that is about one component is a behaviour of that *)
(* component's own specification, whatever the values of all constants.     *)
(***************************************************************************)
EXTENDS MCOffice, Users_proofs, Jobs_proofs, Client_proofs, Lists_proofs

\* What is proved of each component, when the behaviour is about it.
WalletSound ==
  part = "wallet" => WalletTypeOK /\ OnePendingPayout /\ DebitHasApproval /\ PlanIsPaidFor
CouponSound == part = "coupons" => CouponTypeOK /\ PromiseKept /\ OveruseIsBounded
GateSound == part = "gate" => GateTypeOK /\ GateCatchesAll /\ RatingIsOfItsCount
KycSound == part = "kyc" => KycTypeOK
TeamSound == part = "teams" => TeamTypeOK /\ ActivatedBySelf
ChatSound == part = "chat" => ChatTypeOK
RecurringSound == part = "recurring" => RecurringTypeOK /\ OnePickupPerRun
NoticeSound == part = "notices" => NoticeTypeOK /\ NotifiedOnce
AccountSound == part = "accounts" => AccountTypeOK /\ SessionsEnd
BoardSound == part = "boards" => BoardTypeOK /\ CopiesAreCurrent
AlertSound == part = "alerts" => AlertTypeOK /\ BellAgrees
ControlSound == part = "controls" => ControlTypeOK /\ OfferedIsAccepted /\ NobodyIsStuck
ScreenSound == part = "screens" => ScreenTypeOK /\ SettledScreenIsCurrent /\ CallsAreAllowed
SessionSound == part = "session" => SessionTypeOK /\ TabAgrees
RequestSound == part = "request" => RequestTypeOK /\ PhotoIsTheOneShown
DeskSound == part = "desk" => DeskTypeOK /\ StoppedLinksAreDead
RouteSound == part = "routes" => RouteTypeOK /\ RouteIsWhole /\ (PassesEnd => RouteIsSettled)

-----------------------------------------------------------------------------
\* The component a behaviour is about is chosen once.
LEMMA PartStays == [OfficeNext]_officeVars => part' = part
BY DEF OfficeNext, Except, officeVars

LEMMA AboutWallet == OfficeSpec => []WalletSound
<1> DEFINE About == part = "wallet"
<1>1. OfficeInit => WalletInit BY DEF OfficeInit
<1>2. About /\ [OfficeNext]_officeVars => About' /\ [WalletNext]_walletVars
  BY DEF OfficeNext, Except, officeVars, walletVars, walletDocs
<1>3. ~About /\ [OfficeNext]_officeVars => ~About' BY PartStays
<1>4. WalletTypeOK /\ OnePendingPayout /\ DebitHasApproval /\ PlanIsPaidFor => WalletSound
  BY DEF WalletSound
<1>5. ~About => WalletSound BY DEF WalletSound
<1> HIDE DEF About
<1> QED
  BY <1>1, <1>2, <1>3, <1>4, <1>5, WalletTypes, OnePayout, DebitsAreApproved, PlansArePaid, PTL
     DEF OfficeSpec, WalletSpec

\* The composed specification keeps a wallet's contract: a behaviour about another
\* component leaves the books as they started.
THEOREM OfficeKeepsBooks == OfficeSpec => BooksAreKept
<1> DEFINE About == part = "wallet"
<1>1. OfficeInit => WalletInit BY DEF OfficeInit
<1>2. About /\ [OfficeNext]_officeVars => About' /\ [WalletNext]_walletVars
  BY DEF OfficeNext, Except, officeVars, walletVars, walletDocs
<1>3. ~About /\ [OfficeNext]_officeVars => ~About' BY PartStays
<1>4. WalletInit => Books!BooksInit BY DEF WalletInit, Books!BooksInit, Of, Referred
<1>5. ~About /\ [OfficeNext]_officeVars => [Books!BooksNext]_(Books!bookVars)
  <2>1. ~About /\ [OfficeNext]_officeVars => UNCHANGED walletDocs
    BY DEF OfficeNext, Except, officeVars, walletDocs
  <2>2. UNCHANGED walletDocs => BooksStep BY BooksStill DEF walletDocs
  <2> QED BY <2>1, <2>2 DEF BooksStep
<1> HIDE DEF About
<1> QED
  BY <1>1, <1>2, <1>3, <1>4, <1>5, BooksRefinement, PTL
     DEF OfficeSpec, WalletSpec, BooksAreKept, Books!BooksSpec

LEMMA AboutCoupon == OfficeSpec => []CouponSound
<1> DEFINE About == part = "coupons"
<1>1. OfficeInit => CouponInit BY DEF OfficeInit
<1>2. About /\ [OfficeNext]_officeVars => About' /\ [CouponNext]_couponVars
  BY DEF OfficeNext, Except, officeVars, couponVars, couponDocs
<1>3. ~About /\ [OfficeNext]_officeVars => ~About' BY PartStays
<1>4. CouponTypeOK /\ PromiseKept /\ OveruseIsBounded => CouponSound BY DEF CouponSound
<1>5. ~About => CouponSound BY DEF CouponSound
<1> HIDE DEF About
<1> QED
  BY <1>1, <1>2, <1>3, <1>4, <1>5, CouponTypes, PromiseIsKept, OveruseBounded, PTL
     DEF OfficeSpec, CouponSpec

\* It keeps the contract of a promo code as well.
THEOREM OfficeKeepsDeal == OfficeSpec => DealIsKept
<1> DEFINE About == part = "coupons"
<1>1. OfficeInit => CouponInit BY DEF OfficeInit
<1>2. About /\ [OfficeNext]_officeVars => About' /\ [CouponNext]_couponVars
  BY DEF OfficeNext, Except, officeVars, couponVars, couponDocs
<1>3. ~About /\ [OfficeNext]_officeVars => ~About' BY PartStays
<1>4. CouponInit => Deal!DealInit
  BY DEF CouponInit, Deal!DealInit, Deal!Nothing, NoOrder
<1>5. ~About /\ [OfficeNext]_officeVars => [Deal!DealNext]_(Deal!dealVars)
  <2>1. ~About /\ [OfficeNext]_officeVars => UNCHANGED couponDocs
    BY DEF OfficeNext, Except, officeVars, couponDocs
  <2>2. UNCHANGED couponDocs => DealStep BY DealStill DEF couponDocs
  <2> QED BY <2>1, <2>2 DEF DealStep
<1> HIDE DEF About
<1> QED
  BY <1>1, <1>2, <1>3, <1>4, <1>5, DealRefinement, PTL
     DEF OfficeSpec, CouponSpec, DealIsKept, Deal!DealSpec

LEMMA AboutGate == OfficeSpec => []GateSound
<1> DEFINE About == part = "gate"
<1>1. OfficeInit => GateInit BY DEF OfficeInit
<1>2. About /\ [OfficeNext]_officeVars => About' /\ [GateNext]_gateVars
  BY DEF OfficeNext, Except, officeVars, gateVars
<1>3. ~About /\ [OfficeNext]_officeVars => ~About' BY PartStays
<1>4. GateTypeOK /\ GateCatchesAll /\ RatingIsOfItsCount => GateSound BY DEF GateSound
<1>5. ~About => GateSound BY DEF GateSound
<1> HIDE DEF About
<1> QED
  BY <1>1, <1>2, <1>3, <1>4, <1>5, GateTypes, GateCatches, RatingsBelongTogether, PTL
     DEF OfficeSpec, GateSpec

LEMMA AboutKyc == OfficeSpec => []KycSound
<1> DEFINE About == part = "kyc"
<1>1. OfficeInit => KycInit BY DEF OfficeInit
<1>2. About /\ [OfficeNext]_officeVars => About' /\ [KycNext]_kycVars
  BY DEF OfficeNext, Except, officeVars, kycVars
<1>3. ~About /\ [OfficeNext]_officeVars => ~About' BY PartStays
<1>4. KycTypeOK => KycSound BY DEF KycSound
<1>5. ~About => KycSound BY DEF KycSound
<1> HIDE DEF About
<1> QED
  BY <1>1, <1>2, <1>3, <1>4, <1>5, KycTypes, PTL
     DEF OfficeSpec, KycSpec

LEMMA AboutTeam == OfficeSpec => []TeamSound
<1> DEFINE About == part = "teams"
<1>1. OfficeInit => TeamInit BY DEF OfficeInit
<1>2. About /\ [OfficeNext]_officeVars => About' /\ [TeamNext]_teamVars
  BY DEF OfficeNext, Except, officeVars, teamVars, teamDocs
<1>3. ~About /\ [OfficeNext]_officeVars => ~About' BY PartStays
<1>4. TeamTypeOK /\ ActivatedBySelf => TeamSound BY DEF TeamSound
<1>5. ~About => TeamSound BY DEF TeamSound
<1> HIDE DEF About
<1> QED
  BY <1>1, <1>2, <1>3, <1>4, <1>5, TeamsTyped, MembersAccepted, PTL
     DEF OfficeSpec, TeamSpec

LEMMA AboutChat == OfficeSpec => []ChatSound
<1> DEFINE About == part = "chat"
<1>1. OfficeInit => ChatInit BY DEF OfficeInit
<1>2. About /\ [OfficeNext]_officeVars => About' /\ [ChatNext]_chatVars
  BY DEF OfficeNext, Except, officeVars, chatVars, chatDocs
<1>3. ~About /\ [OfficeNext]_officeVars => ~About' BY PartStays
<1>4. ChatTypeOK => ChatSound BY DEF ChatSound
<1>5. ~About => ChatSound BY DEF ChatSound
<1> HIDE DEF About
<1> QED
  BY <1>1, <1>2, <1>3, <1>4, <1>5, ChatIsTyped, PTL
     DEF OfficeSpec, ChatSpec

LEMMA AboutRecurring == OfficeSpec => []RecurringSound
<1> DEFINE About == part = "recurring"
<1>1. OfficeInit => RecurringInit BY DEF OfficeInit
<1>2. About /\ [OfficeNext]_officeVars => About' /\ [RecurringNext]_recurringVars
  BY DEF OfficeNext, Except, officeVars, recurringVars, recurringDocs
<1>3. ~About /\ [OfficeNext]_officeVars => ~About' BY PartStays
<1>4. RecurringTypeOK /\ OnePickupPerRun => RecurringSound BY DEF RecurringSound
<1>5. ~About => RecurringSound BY DEF RecurringSound
<1> HIDE DEF About
<1> QED
  BY <1>1, <1>2, <1>3, <1>4, <1>5, RecurringTypes, OneForOneRun, PTL
     DEF OfficeSpec, RecurringSpec

LEMMA AboutNotice == OfficeSpec => []NoticeSound
<1> DEFINE About == part = "notices"
<1>1. OfficeInit => NoticeInit BY DEF OfficeInit
<1>2. About /\ [OfficeNext]_officeVars => About' /\ [NoticeNext]_noticeVars
  BY DEF OfficeNext, Except, officeVars, noticeVars, noticeDocs
<1>3. ~About /\ [OfficeNext]_officeVars => ~About' BY PartStays
<1>4. NoticeTypeOK /\ NotifiedOnce => NoticeSound BY DEF NoticeSound
<1>5. ~About => NoticeSound BY DEF NoticeSound
<1> HIDE DEF About
<1> QED
  BY <1>1, <1>2, <1>3, <1>4, <1>5, NoticeTypes, NoticesOnce, PTL
     DEF OfficeSpec, NoticeSpec

LEMMA AboutAccount == OfficeSpec => []AccountSound
<1> DEFINE About == part = "accounts"
<1>1. OfficeInit => AccountInit BY DEF OfficeInit
<1>2. About /\ [OfficeNext]_officeVars => About' /\ [AccountNext]_accountVars
  BY DEF OfficeNext, Except, officeVars, accountVars, accountDocs
<1>3. ~About /\ [OfficeNext]_officeVars => ~About' BY PartStays
<1>4. AccountTypes /\ SessionsEnd => AccountSound BY DEF AccountSound, AccountTypes
<1>5. ~About => AccountSound BY DEF AccountSound
<1> HIDE DEF About
<1> QED
  BY <1>1, <1>2, <1>3, <1>4, <1>5, AccountsTyped, SessionsAreEnded, PTL
     DEF OfficeSpec, AccountSpec

LEMMA AboutBoard == OfficeSpec => []BoardSound
<1> DEFINE About == part = "boards"
<1>1. OfficeInit => BoardInit BY DEF OfficeInit
<1>2. About /\ [OfficeNext]_officeVars => About' /\ [BoardNext]_boardVars
  BY DEF OfficeNext, Except, officeVars, boardVars
<1>3. ~About /\ [OfficeNext]_officeVars => ~About' BY PartStays
<1>4. BoardTypeOK /\ CopiesAreCurrent => BoardSound BY DEF BoardSound
<1>5. ~About => BoardSound BY DEF BoardSound
<1> HIDE DEF About
<1> QED
  BY <1>1, <1>2, <1>3, <1>4, <1>5, BoardTypes, CopiesCurrent, PTL
     DEF OfficeSpec, BoardSpec

LEMMA AboutAlert == OfficeSpec => []AlertSound
<1> DEFINE About == part = "alerts"
<1>1. OfficeInit => AlertInit BY DEF OfficeInit
<1>2. About /\ [OfficeNext]_officeVars => About' /\ [AlertNext]_alertVars
  BY DEF OfficeNext, Except, officeVars, alertVars
<1>3. ~About /\ [OfficeNext]_officeVars => ~About' BY PartStays
<1>4. AlertTypeOK /\ BellAgrees => AlertSound BY DEF AlertSound
<1>5. ~About => AlertSound BY DEF AlertSound
<1> HIDE DEF About
<1> QED
  BY <1>1, <1>2, <1>3, <1>4, <1>5, AlertTypes, BellIsRightAlways, PTL
     DEF OfficeSpec, AlertSpec

LEMMA AboutControl == OfficeSpec => []ControlSound
<1> DEFINE About == part = "controls"
<1>1. OfficeInit => ControlInit BY DEF OfficeInit
<1>2. About /\ [OfficeNext]_officeVars => About' /\ [ControlNext]_controlVars
  BY DEF OfficeNext, Except, officeVars, controlVars
<1>3. ~About /\ [OfficeNext]_officeVars => ~About' BY PartStays
<1>4. ControlTypeOK /\ OfferedIsAccepted /\ NobodyIsStuck => ControlSound BY DEF ControlSound
<1>5. ~About => ControlSound BY DEF ControlSound
<1> HIDE DEF About
<1> QED
  BY <1>1, <1>2, <1>3, <1>4, <1>5, ControlsSound, ControlsAgree, SomebodyCanAct, PTL
     DEF OfficeSpec, ControlSpec

LEMMA AboutScreen == OfficeSpec => []ScreenSound
<1> DEFINE About == part = "screens"
<1>1. OfficeInit => ScreenInit BY DEF OfficeInit
<1>2. About /\ [OfficeNext]_officeVars => About' /\ [ScreenNext]_screenVars
  BY DEF OfficeNext, Except, officeVars, screenVars
<1>3. ~About /\ [OfficeNext]_officeVars => ~About' BY PartStays
<1>4. ScreenTypeOK /\ SettledScreenIsCurrent /\ CallsAreAllowed => ScreenSound
  BY DEF ScreenSound
<1>5. ~About => ScreenSound BY DEF ScreenSound
<1> HIDE DEF About
<1> QED
  BY <1>1, <1>2, <1>3, <1>4, <1>5, ScreenTypes, ScreenSettles, PagesMayCall, PTL
     DEF OfficeSpec, ScreenSpec

LEMMA AboutSession == OfficeSpec => []SessionSound
<1> DEFINE About == part = "session"
<1>1. OfficeInit => SessionInit BY DEF OfficeInit
<1>2. About /\ [OfficeNext]_officeVars => About' /\ [SessionNext]_sessionVars
  BY DEF OfficeNext, Except, officeVars, sessionVars
<1>3. ~About /\ [OfficeNext]_officeVars => ~About' BY PartStays
<1>4. SessionTypeOK /\ TabAgrees => SessionSound BY DEF SessionSound
<1>5. ~About => SessionSound BY DEF SessionSound
<1> HIDE DEF About
<1> QED
  BY <1>1, <1>2, <1>3, <1>4, <1>5, TabFollows, PTL
     DEF OfficeSpec, SessionSpec

LEMMA AboutRequest == OfficeSpec => []RequestSound
<1> DEFINE About == part = "request"
<1>1. OfficeInit => RequestInit BY DEF OfficeInit
<1>2. About /\ [OfficeNext]_officeVars => About' /\ [RequestNext]_requestVars
  BY DEF OfficeNext, Except, officeVars, requestVars
<1>3. ~About /\ [OfficeNext]_officeVars => ~About' BY PartStays
<1>4. RequestTypeOK /\ PhotoIsTheOneShown => RequestSound BY DEF RequestSound
<1>5. ~About => RequestSound BY DEF RequestSound
<1> HIDE DEF About
<1> QED
  BY <1>1, <1>2, <1>3, <1>4, <1>5, RequestTypes, PhotoIsSent, PTL
     DEF OfficeSpec, RequestSpec

LEMMA AboutDesk == OfficeSpec => []DeskSound
<1> DEFINE About == part = "desk"
<1>1. OfficeInit => DeskInit BY DEF OfficeInit
<1>2. About /\ [OfficeNext]_officeVars => About' /\ [DeskNext]_deskVars
  BY DEF OfficeNext, Except, officeVars, deskVars, deskDocs
<1>3. ~About /\ [OfficeNext]_officeVars => ~About' BY PartStays
<1>4. DeskTypeOK /\ StoppedLinksAreDead => DeskSound BY DEF DeskSound
<1>5. ~About => DeskSound BY DEF DeskSound
<1> HIDE DEF About
<1> QED
  BY <1>1, <1>2, <1>3, <1>4, <1>5, DeskIsTyped, StoppedLinks, PTL
     DEF OfficeSpec, DeskSpec

LEMMA AboutRoute == OfficeSpec => []RouteSound
<1> DEFINE About == part = "routes"
<1>1. OfficeInit => RouteInit BY DEF OfficeInit
<1>2. About /\ [OfficeNext]_officeVars => About' /\ [RouteNext]_routeVars
  BY DEF OfficeNext, Except, officeVars, routeVars
<1>3. ~About /\ [OfficeNext]_officeVars => ~About' BY PartStays
<1>4. RouteTypeOK /\ RouteIsWhole /\ (PassesEnd => RouteIsSettled) => RouteSound
  BY DEF RouteSound
<1>5. ~About => RouteSound BY DEF RouteSound
<1> HIDE DEF About
<1> QED
  BY <1>1, <1>2, <1>3, <1>4, <1>5, RouteIsTyped, RoutesSettle, PTL
     DEF OfficeSpec, RouteSpec

-----------------------------------------------------------------------------
\* Everything that is proved of the components, in the behaviours about them.
OfficeSound ==
  /\ WalletSound
  /\ CouponSound
  /\ GateSound
  /\ KycSound
  /\ TeamSound
  /\ ChatSound
  /\ RecurringSound
  /\ NoticeSound
  /\ AccountSound
  /\ BoardSound
  /\ AlertSound
  /\ ControlSound
  /\ ScreenSound
  /\ SessionSound
  /\ RequestSound
  /\ DeskSound
  /\ RouteSound

\* In every behaviour of the composed specification, for every value of the
\* constants, the component it is about keeps its safety properties, whatever the
\* order in which handlers, jobs and pages take their steps.
THEOREM OfficeIsSound == OfficeSpec => []OfficeSound
<1>1. /\ WalletSound
      /\ CouponSound
      /\ GateSound
      /\ KycSound
      /\ TeamSound
      /\ ChatSound
      /\ RecurringSound
      /\ NoticeSound
      /\ AccountSound
      /\ BoardSound
      /\ AlertSound
      /\ ControlSound
      /\ ScreenSound
      /\ SessionSound
      /\ RequestSound
      /\ DeskSound
      /\ RouteSound
      => OfficeSound
  BY DEF OfficeSound
<1> QED
  BY <1>1, AboutWallet, AboutCoupon, AboutGate, AboutKyc, AboutTeam, AboutChat, AboutRecurring,
     AboutNotice, AboutAccount, AboutBoard, AboutAlert, AboutControl, AboutScreen,
     AboutSession, AboutRequest, AboutDesk, AboutRoute, PTL

\* The type invariant of the composed specification: whatever component a
\* behaviour is about keeps its types.
THEOREM OfficeTypes == OfficeSpec => []OfficeTypeOK
<1>1. OfficeSound => OfficeTypeOK
  BY DEF OfficeSound, OfficeTypeOK, WalletSound, CouponSound, GateSound, KycSound, TeamSound,
         ChatSound, RecurringSound, NoticeSound, AccountSound, BoardSound, AlertSound,
         ControlSound, ScreenSound, SessionSound, RequestSound, DeskSound, RouteSound
<1> QED BY <1>1, OfficeIsSound, PTL
=============================================================================
