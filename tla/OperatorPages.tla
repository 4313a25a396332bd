--------------------------- MODULE OperatorPages ----------------------------
(***************************************************************************)
(* What the pages of nb-ui read, and what they offer to whoever looks at   *)
(* them: the buttons that are there and enabled, with the request each     *)
(* sends.  u is the user: [page, role, testMode, showDisabled], the last   *)
(* two the switches of the pages as they stood when the page opened.  A    *)
(* page offers by what it shows; a dialog that makes a read of its own     *)
(* makes it when it opens, of c, the state of the server (Handlers).  A    *)
(* list and the detail page of one of its auctions are one page here,      *)
(* since they read one resource.  A bidder's name stands for its key;      *)
(* amounts are 1.                                                          *)
(***************************************************************************)
EXTENDS Handlers

\* capabilitiesForAccount, and the pages App.jsx keeps from testers
CanOperate(u) == u.role = "operator"
OperatorOnlyPages == {"central-bank", "coupon-payout"}
MayOpen(u) == u.page \notin OperatorOnlyPages \/ CanOperate(u)

\* requireAnyRole(operatorRoles)
OperatorOnly == Managed \cup DOMAIN Wnok

-----------------------------------------------------------------------------
(* What a page reads                                                        *)

\* The keys of useLiveQuery
PageKeys ==
    [page \in {"bonds", "bond", "auctions", "coupon-payout", "bidders", "tbd", "central-bank",
               "registry", "operations"} |->
        CASE page \in {"bonds", "bond"} -> {"bonds", "auctions"}
          [] page = "coupon-payout" -> {"bonds"}
          [] page = "tbd"           -> {"banking"}
          [] OTHER                  -> {page}]

PageContent(u, c) ==
    CASE u.page = "bonds"         -> GetBonds(c, u.showDisabled)
      [] u.page = "coupon-payout" -> GetBonds(c, FALSE)
      [] u.page = "bond"         -> GetBond(c)
      [] u.page = "auctions"     -> GetAuctions(c, u.testMode)
      [] u.page = "bidders"      -> GetBidders(c)
      [] u.page = "tbd"          -> GetBanking(c)
      [] u.page = "central-bank" -> GetCentralBank(c)
      [] u.page = "registry"     -> GetRegistry(c)
      [] u.page = "operations"   -> GetOperations(c)

-----------------------------------------------------------------------------
(* What it offers                                                           *)

\* CreateBondModal: an ISIN the list does not show
NewBonds(data) == IF data = {} THEN {[kind |-> "BOND_CREATE"]} ELSE {}

OffersOfBonds(u, data) == IF CanOperate(u) THEN NewBonds(data) ELSE {}

\* Mutant of Disableable: finalised auctions forgotten
DisableableUnlessInFlight(bond) ==
    /\ ~bond.disabled /\ bond.totalSupply = 0
    /\ \A k \in DOMAIN bond.auctions : bond.auctions[k].status \notin {"open", "closed"}

\* canDisable
Disableable(bond) ==
    /\ ~bond.disabled /\ bond.totalSupply = 0
    /\ \A k \in DOMAIN bond.auctions : bond.auctions[k].status \notin {"open", "closed", "finalised"}

OffersOfBond(u, data) ==
    {op \in {[kind |-> "BOND_DISABLE"]} : CanOperate(u) /\ \E b \in data : Disableable(b)}

\* CreateAuctionModal: the first auction of a bond is RATE, any other is not.
NewAuctions(u, c) ==
    LET types(bond) == IF bond.auctions = <<>> THEN {"RATE"} ELSE {"PRICE", "BUYBACK"}
    IN  IF ~CanOperate(u) THEN {}
        ELSE UNION {{[kind |-> "AUCTION_CREATE", type |-> t, size |-> 1, end |-> c.clock + 1] : t \in types(b)}
                      : b \in GetBonds(c, FALSE)}

\* FinaliseAuctionModal: any bids, at the rate the browser computes for them; no allocation
\* to approve when the server could not open the bids
Finalisations(k, auction) ==
    {[kind |-> "AUCTION_FINALISE", auction |-> k, winners |-> winners,
      rate |-> MarginalClearingRate(SelectSeq(auction.bids, LAMBDA b : b.index \in winners),
                                    auction.type, auction.size)]
       : winners \in {x \in (SUBSET DOMAIN auction.bids) \ {{}} : ~auction.sealed}}

\* Mutant of LifecycleOffers: cancelling left to open auctions
LifecycleOffersOnce(u, k, auction) ==
    IF ~CanOperate(u) THEN {}
    ELSE CASE auction.status = "open" ->
                {[kind |-> "AUCTION_CLOSE", auction |-> k, testMode |-> u.testMode],
                 [kind |-> "AUCTION_CANCEL", auction |-> k]}
           [] auction.status = "closed" -> Finalisations(k, auction)
           [] OTHER -> {}

\* AuctionLifecyclePanel
LifecycleOffers(u, k, auction) ==
    IF ~CanOperate(u) THEN {}
    ELSE CASE auction.status = "open" ->
                {[kind |-> "AUCTION_CLOSE", auction |-> k, testMode |-> u.testMode],
                 [kind |-> "AUCTION_CANCEL", auction |-> k]}
           [] auction.status = "closed" ->
                Finalisations(k, auction) \cup {[kind |-> "AUCTION_CANCEL", auction |-> k]}
           [] OTHER -> {}

\* selectBidAcceptingAuctions: open, and not ended by the browser's clock
AcceptsBids(auction, clock) == auction.status = "open" /\ auction.end > clock

\* PlaceBidModal: in test mode any open auction
BidOffers(u, c, auctions, bidders) ==
    {[kind |-> "BID_SUBMISSION", auction |-> k, bidder |-> who, rate |-> 2, units |-> 1] :
       k \in {a \in DOMAIN auctions : \/ AcceptsBids(auctions[a], c.clock)
                                      \/ u.testMode /\ auctions[a].status = "open"},
       who \in bidders}

\* The detail page of one auction
OffersOfAuction(u, c, k, auctions) ==
    LifecycleOffers(u, k, auctions[k]) \cup {op \in BidOffers(u, c, auctions, c.bidders) : op.auction = k}

OffersOfAuctions(u, c, data) ==
    NewAuctions(u, c) \cup UNION {OffersOfAuction(u, c, k, data) : k \in DOMAIN data}

\* CouponPayoutPage: the rows of the work queue whose coupon is payable
OffersOfCoupons(data) ==
    {op \in {[kind |-> "COUPON_PAYMENT", holders |-> {}]} :
       \E b \in data : b.status # "matured" /\ b.payable}

\* AddBidderModal: a name the list does not show
NewBidders(data) == {[kind |-> "BIDDER_CREATE", who |-> a] : a \in Wallets \ DOMAIN data}

\* BiddersPage: each row may be deleted, and may bid
OffersOfBidders(u, c, data) ==
    {[kind |-> "BIDDER_DELETE", who |-> a] : a \in DOMAIN data} \cup NewBidders(data)
    \cup UNION {BidOffers(u, c, b.auctions, DOMAIN data) : b \in GetBonds(c, FALSE)}

\* MintWnokModal and BurnWnokModal: any address may be typed in
WnokMints == {[kind |-> "WNOK_MINT", who |-> a] : a \in Wallets}
WnokBurns == {[kind |-> "WNOK_BURN", who |-> a] : a \in Wallets}

\* TransferWnokModal: chosen from the allowlist without the central bank, or typed in
\* when there is nobody else
WnokTransfers(data) ==
    LET recipients == (data.listed \ {CentralBank}) \cap Wallets
    IN  {[kind |-> "WNOK_TRANSFER", who |-> a] : a \in IF recipients = {} THEN Wallets ELSE recipients}

\* AllowlistAddModal: an address the list does not show
WnokAdditions(data) == {[kind |-> "WNOK_ALLOWLIST_ADD", who |-> a] : a \in Wallets \ data.listed}

\* CentralBankPage: each row may be removed
OffersOfCentralBank(data) ==
    {[kind |-> "WNOK_ALLOWLIST_REMOVE", who |-> a] : a \in data.listed}
    \cup WnokMints \cup WnokBurns \cup WnokTransfers(data) \cup WnokAdditions(data)

\* TbdMintBurnModal and TransferTbdModal: any address may be typed in
DepositMints(k)    == {[kind |-> kind, tbd |-> k, who |-> a] : kind \in {"TBD_MINT", "TBD_BURN"}, a \in Wallets}
DepositTransfers(k) == {[kind |-> "TBD_TRANSFER", tbd |-> k, who |-> a] : a \in Wallets}

\* AddTbdAllowlistModal: an address the list does not show
DepositAdditions(k, listed) == {[kind |-> "TBD_ALLOWLIST_ADD", tbd |-> k, who |-> a] : a \in Wallets \ listed}

\* AddBankModal: a name under which the listing shows no contract, or if it shows none at
\* all, a name not in the roster
ShownNames(c, data) ==
    {b.name : b \in {x \in Roster(c) : data = <<>> \/ c.head.registry[x.name] \in DOMAIN data}}
NewBanks(c, data) ==
    {[kind |-> "BANK_CREATE", name |-> n, key |-> Newcomer, settle |-> s]
       : n \in Names \ ShownNames(c, data), s \in BOOLEAN}

\* actAsByAddress: the API has the key of the bank
CanActAs(c, k) == \E b \in Roster(c) : c.head.registry[b.name] = k /\ ActAsAvailable(c.head, b)

\* BankingPage: the selected bank may be any of the listing
OffersOfBanking(c, data) ==
    NewBanks(c, data)
    \cup UNION {DepositMints(k) \cup DepositTransfers(k) \cup DepositAdditions(k, data[k].tbd.listed)
                \cup {[kind |-> "TBD_ALLOWLIST_REMOVE", tbd |-> k, who |-> a] : a \in data[k].tbd.listed}
                  : k \in {x \in DOMAIN data : CanActAs(c, x)}}

Offers(u, c, data) ==
    CASE u.page = "bonds"         -> OffersOfBonds(u, data)
      [] u.page = "bond"          -> OffersOfBond(u, data)
      [] u.page = "auctions"      -> OffersOfAuctions(u, c, data)
      [] u.page = "coupon-payout" -> OffersOfCoupons(data)
      [] u.page = "bidders"       -> OffersOfBidders(u, c, data)
      [] u.page = "tbd"           -> OffersOfBanking(c, data)
      [] u.page = "central-bank"  -> OffersOfCentralBank(data)
      [] u.page \in {"registry", "operations"} -> {}

\* PayCouponModal warns that the reserve is short: the final coupon and the principal of
\* every holder but the manager.
ReserveShort(c, bond) ==
    c.head.cash[Reserve] < 2 * SumFunctionOnSet(bond.holders, DOMAIN bond.holders \ {Manager})
=============================================================================
