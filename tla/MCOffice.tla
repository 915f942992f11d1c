------------------------------ MODULE MCOffice ------------------------------
(***************************************************************************)
(* The smaller components, one at a time: a behaviour is of one of them,    *)
(* chosen by "part", and the others stay as they started.                   *)
(***************************************************************************)
EXTENDS Wallet, Coupons, RatingGate, Verification, Teams, Chat, Recurring,
        Notices, Accounts, Boards, Alerts, Controls, Screens, Session, Request,
        Desk, Routes, TLC

CONSTANT Parts   \* the components a run is about

VARIABLE part

officeVars == <<walletDocs, couponDocs, ratings, rated, excused, kyc, submitted, teamDocs,
                chatDocs, recurringDocs, noticeDocs, accountDocs, boardVars, alertVars, slots,
                controlVars, screenVars, sessionVars, requestVars, deskDocs, routeVars, part>>

\* A part that does not move starts in one state.
Pinned ==
  /\ part # "wallet"  => \A r \in Referrals : referral[r].referrer = CHOOSE c \in Collectors : TRUE
  /\ part # "coupons" => coupon.value = 1
  /\ part # "chat"    => /\ courier = CHOOSE c \in Couriers : TRUE
                       /\ pastime = CHOOSE w \in ChatWork : TRUE
  /\ part # "screens" => visitor = "guest"
  /\ part # "request" => care = "items" /\ place.at = "site" /\ ~also.chosen
  /\ part # "desk"    => matter = "trip"
  /\ part # "boards"  => doc = NoPickup /\ viewer = "collector"

OfficeInit ==
  /\ part \in Parts
  /\ WalletInit /\ CouponInit /\ GateInit /\ KycInit /\ TeamInit /\ ChatInit
  /\ RecurringInit /\ NoticeInit /\ AccountInit /\ BoardInit /\ AlertInit
  /\ ControlInit /\ ScreenInit /\ SessionInit /\ RequestInit
  /\ DeskInit /\ RouteInit
  /\ Pinned

Except(p) ==
  /\ part = p /\ UNCHANGED part
  /\ p # "wallet"    => UNCHANGED walletDocs
  /\ p # "coupons"   => UNCHANGED couponDocs
  /\ p # "gate"      => UNCHANGED <<ratings, rated, excused>>
  /\ p # "kyc"       => UNCHANGED <<kyc, submitted>>
  /\ p # "teams"     => UNCHANGED teamDocs
  /\ p # "chat"      => UNCHANGED chatDocs
  /\ p # "recurring" => UNCHANGED recurringDocs
  /\ p # "notices"   => UNCHANGED noticeDocs
  /\ p # "accounts"  => UNCHANGED accountDocs
  /\ p # "boards"    => UNCHANGED boardVars
  /\ p # "alerts"    => UNCHANGED alertVars
  /\ p # "controls"  => UNCHANGED controlVars
  /\ p # "screens"   => UNCHANGED screenVars
  /\ p # "session"   => UNCHANGED sessionVars
  /\ p # "request"   => UNCHANGED requestVars
  /\ p # "desk"      => UNCHANGED deskDocs
  /\ p # "routes"    => UNCHANGED routeVars
  /\ p \in {"boards", "alerts", "controls", "screens", "session", "request", "routes"} => UNCHANGED slots

OfficeNext ==
  \/ Except("wallet")    /\ WalletNext
  \/ Except("coupons")   /\ CouponNext
  \/ Except("gate")      /\ GateNext
  \/ Except("kyc")       /\ KycNext
  \/ Except("teams")     /\ TeamNext
  \/ Except("chat")      /\ ChatNext
  \/ Except("recurring") /\ RecurringNext
  \/ Except("notices")   /\ NoticeNext
  \/ Except("accounts")  /\ AccountNext
  \/ Except("boards")    /\ BoardNext
  \/ Except("alerts")    /\ AlertNext
  \/ Except("controls")  /\ ControlNext
  \/ Except("screens")   /\ ScreenNext
  \/ Except("session")   /\ SessionNext
  \/ Except("request")   /\ RequestNext
  \/ Except("desk")      /\ DeskNext
  \/ Except("routes")    /\ RouteNext

OfficeSpec == OfficeInit /\ [][OfficeNext]_officeVars

\* The fairness of each component, for the behaviours that are about it.
OfficeFairness ==
  \/ part = "chat"     /\ ChatFairness
  \/ part = "kyc"      /\ KycFairness
  \/ part = "accounts" /\ AccountFairness
  \/ part \notin {"chat", "kyc", "accounts"}

OfficeFairSpec == OfficeSpec /\ OfficeFairness

\* Type invariant: the type of the part that moves.
OfficeTypeOK ==
  /\ part = "wallet"   => WalletTypeOK
  /\ part = "coupons"  => CouponTypeOK
  /\ part = "gate"     => GateTypeOK
  /\ part = "kyc"      => KycTypeOK
  /\ part = "teams"    => TeamTypeOK
  /\ part = "chat"     => ChatTypeOK
  /\ part = "recurring" => RecurringTypeOK
  /\ part = "notices"  => NoticeTypeOK
  /\ part = "accounts" => AccountTypeOK
  /\ part = "boards"   => BoardTypeOK
  /\ part = "alerts"   => AlertTypeOK
  /\ part = "controls" => ControlTypeOK
  /\ part = "screens"  => ScreenTypeOK
  /\ part = "session"  => SessionTypeOK
  /\ part = "request"  => RequestTypeOK
  /\ part = "desk"     => DeskTypeOK
  /\ part = "routes"   => RouteTypeOK

Interchangeable == Permutations(Slots) \cup Permutations(Collectors)
=============================================================================
