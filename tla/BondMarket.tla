----------------------------- MODULE BondMarket -----------------------------
(***************************************************************************)
(* The contracts as the API meets them: the state a block leaves behind,   *)
(* and for each call of the API the error that makes it revert, or the     *)
(* state it leaves.  BondManager, BondAuction, BondToken, Wnok and Tbd     *)
(* model these contracts; here the state is one record, a block's, so that *)
(* the API can estimate a call against one block and have it mined in      *)
(* another.                                                                *)
(*                                                                         *)
(* One ISIN.  A unit is worth one WNOK, a coupon too, and a bond has a     *)
(* single coupon period, the final one.  The lock of the manager is the    *)
(* status of the latest auction (LockMatchesAuction of BondSafety).        *)
(***************************************************************************)
EXTENDS Integers, SequencesExt, SealedBids

CONSTANTS
    Bidders,        \* wallets that bid; some of them are banks too
    CentralBank,    \* the wallet of the central bank, owner of the GlobalRegistry
    Reserve,        \* GOV_RESERVE
    Manager,        \* the BondManager, holder of unsold units
    Newcomer,       \* the wallet of a bank not yet created
    Names           \* names a bank may be registered under

Wallets      == Bidders \cup {CentralBank, Newcomer}
CashAccounts == Wallets \cup {Reserve}
Owners       == Bidders \cup {Manager}

ASSUME MarketAssumption ==
    /\ {CentralBank, Reserve, Manager, Newcomer} \cap Bidders = {}
    /\ IsFiniteSet(Bidders)

-----------------------------------------------------------------------------
(* What a block leaves                                                      *)

\* registry[n]: position in tbds of the contract registered under name n, 0 for none.
\* due: when the coupon may be paid, 0 while no coupon is running.
NoMarket ==
    [time |-> 0, created |-> FALSE, active |-> FALSE, offering |-> 0, matured |-> FALSE,
     issued |-> FALSE, due |-> 0, units |-> [a \in Owners |-> 0], auctions |-> <<>>,
     cash |-> [a \in CashAccounts |-> 0], listed |-> {CentralBank, Reserve},
     tbds |-> <<>>, registry |-> [n \in Names |-> 0]]

NewTbd(bank) == [bank |-> bank, listed |-> {}, deposit |-> [a \in Wallets |-> 0]]

Supply(w)       == SumFunction(w.units)
LatestStatus(w) == IF w.auctions = <<>> THEN "none" ELSE Last(w.auctions).status
InFlight(w)     == LatestStatus(w) \in {"BIDDING", "CLOSED"}

\* A state of these contracts, as far as its fields go: of the auctions only the latest may
\* be in flight (LockMatchesAuction of BondSafety).
Ended == {"FINALISED", "CANCELLED"}
IsMarket(w) ==
    /\ DOMAIN w = DOMAIN NoMarket
    /\ DOMAIN w.registry = Names
    /\ w.tbds \in Seq(Range(w.tbds)) /\ w.auctions \in Seq(Range(w.auctions))
    /\ \A k \in DOMAIN w.tbds : DOMAIN w.tbds[k] = DOMAIN NewTbd(CentralBank)
    /\ \A k \in DOMAIN w.auctions :
         /\ DOMAIN w.auctions[k] = {"type", "status", "end", "size", "key", "bids", "allocations"}
         /\ w.auctions[k].status \in Ended \/ (k = Len(w.auctions) /\ InFlight(w))

\* Every name stands for a contract there is, or for none.
Resolves(w) == \A n \in Names : w.registry[n] \in 0 .. Len(w.tbds)

\* From state u to a later state w no auction is dropped, and no name given up.
Follows(w, u) ==
    /\ Len(u.auctions) <= Len(w.auctions)
    /\ \A n \in Names : u.registry[n] # 0 => w.registry[n] # 0

\* The name of the first check that fails, or "none".  A check is <<name, failed>>.
FirstError(checks) ==
    LET failed == {k \in DOMAIN checks : checks[k][2]}
    IN  IF failed = {} THEN "none" ELSE checks[Min(failed)][1]

-----------------------------------------------------------------------------
(* BondManager                                                              *)

DeployBondError(w) ==
    FirstError(<< <<"IncorrectBondState", InFlight(w)>>, <<"BondAlreadyDeployed", w.active>> >>)

DeployBond(w) == [w EXCEPT !.created = TRUE, !.active = TRUE]

\* deployAuctionForBond, and deployBondWithAuction when c.fresh
DeployAuctionError(w, c, t) ==
    FirstError(<<
        <<"IncorrectBondState", InFlight(w)>>,
        <<"BondAlreadyDeployed", c.fresh /\ w.active>>,
        <<"BondDoesNotExist", ~c.fresh /\ ~w.active>>,
        <<"BuybackExceedsSupply", c.type = "BUYBACK" /\ c.size > Supply(w)>>,
        <<"EndNotInFuture", c.end <= t>>,
        <<"AuctionType", (c.type = "RATE") # (w.auctions = <<>>)>> >>)

DeployAuction(w, c) ==
    LET w1 == IF c.fresh THEN DeployBond(w) ELSE w
    IN  [w1 EXCEPT !.offering = IF c.type = "BUYBACK" THEN @ ELSE @ + c.size,
                   !.auctions = Append(@, [type |-> c.type, status |-> "BIDDING", end |-> c.end,
                                           size |-> c.size, key |-> c.key, bids |-> <<>>, allocations |-> <<>>])]

DisableBondError(w) ==
    FirstError(<<
        <<"IncorrectBondState", InFlight(w)>>,
        <<"BondHasFinalisedAuction", \E k \in DOMAIN w.auctions : w.auctions[k].status = "FINALISED">>,
        <<"BondAlreadyDisabled", ~w.active>>,
        <<"BondNotEmpty", Supply(w) # 0>> >>)

DisableBond(w) == [w EXCEPT !.active = FALSE, !.offering = 0]

WithLatest(w, status) == [w EXCEPT !.auctions[Len(w.auctions)].status = status]

CloseAuctionError(w, t) ==
    FirstError(<<
        <<"IncorrectBondState", ~InFlight(w)>>,
        <<"NotInBidPhase", LatestStatus(w) # "BIDDING">>,
        <<"InBidPhase", InFlight(w) /\ t <= Last(w.auctions).end>> >>)

\* The size comes off the offering whatever the type of the auction.
CancelAuctionError(w) ==
    FirstError(<<
        <<"IncorrectBondState", ~InFlight(w)>>,
        <<"ReductionBelowSupply", InFlight(w) /\ w.offering - Last(w.auctions).size < Supply(w)>> >>)

CancelAuction(w) ==
    WithLatest([w EXCEPT !.offering = @ - Last(w.auctions).size], "CANCELLED")

Allocated(c) == FoldLeft(LAMBDA sum, a : sum + a.units, 0, c.allocations)

\* The proofs belong to the auction numbered c.auction and to no other.
FinaliseError(w, c) ==
    FirstError(<<
        <<"IncorrectBondState", ~InFlight(w)>>,
        <<"AuctionNotClosed", LatestStatus(w) # "CLOSED">>,
        <<"AllocationTypeMismatch", InFlight(w) /\ Last(w.auctions).type # c.type>>,
        <<"InvalidProof", Len(w.auctions) # c.auction>>,
        <<"OverAllocation", InFlight(w) /\ Allocated(c) > Last(w.auctions).size>>,
        <<"BuybackExceedsSupply", c.type = "BUYBACK" /\ Allocated(c) > Supply(w)>> >>)

Pays(w, from, to, v) == {from, to} \subseteq w.listed /\ w.cash[from] >= v
Pay(w, from, to, v)  == [w EXCEPT !.cash[from] = @ - v, !.cash[to] = @ + v]

\* One allocation, under try/catch: both legs or neither
SettleIssuance(w, a) ==
    LET price == IF a.type = "RATE" THEN a.units ELSE a.rate * a.units IN
    IF Pays(w, a.bidder, Reserve, price)
      THEN [Pay(w, a.bidder, Reserve, price)
               EXCEPT !.units[Manager] = @ - a.units, !.units[a.bidder] = @ + a.units]
      ELSE w
SettleBuyback(w, a) ==
    IF w.units[a.bidder] >= a.units /\ Pays(w, Reserve, a.bidder, a.rate * a.units)
      THEN [Pay(w, Reserve, a.bidder, a.rate * a.units) EXCEPT !.units[a.bidder] = @ - a.units]
      ELSE w

\* A settlement moves units and cash and nothing else.
Settled(w, after) == [w EXCEPT !.units = after.units, !.cash = after.cash]

Finalise(w, c, t) ==
    LET w1     == WithLatest([w EXCEPT !.auctions[Len(w.auctions)].allocations = c.allocations],
                             "FINALISED")
        minted == [w1 EXCEPT !.units[Manager] = @ + Allocated(c), !.issued = TRUE,
                             !.due = IF c.type = "RATE" THEN t + 1 ELSE @]
    IN  IF c.type = "BUYBACK" THEN Settled(w1, FoldLeft(SettleBuyback, w1, c.allocations))
                              ELSE Settled(minted, FoldLeft(SettleIssuance, minted, c.allocations))

\* The final period pays one coupon and the nominal of each unit sold.
Payouts(w, holders) == [h \in holders \ {Manager} |-> 2 * w.units[h]]

PayCouponError(w, c, t) ==
    LET holders == c.holders
        payouts == Payouts(w, holders)
        paid    == {h \in DOMAIN payouts : payouts[h] > 0}
    IN  FirstError(<<
            <<"NoCoupon", w.due = 0>>,
            <<"AllCouponsPaid", w.matured>>,
            <<"CouponNotReady", t < w.due>>,
            <<"SettlementFailure", \/ ~(paid \subseteq w.listed)
                                   \/ paid # {} /\ Reserve \notin w.listed
                                   \/ w.cash[Reserve] < SumFunction(payouts)>>,
            <<"CouponPaymentBalanceMismatch", SumFunctionOnSet(w.units, holders) # Supply(w)>> >>)

PayCoupon(w, c) ==
    LET payouts == Payouts(w, c.holders)
        paid    == FoldSet(LAMBDA h, u : Pay(u, Reserve, h, payouts[h]), w, DOMAIN payouts)
    IN  [w EXCEPT !.cash = paid.cash, !.units = [a \in Owners |-> 0], !.matured = TRUE]

Isin == "isin"

\* BondAuction.submitBid: the bidder is whoever sends.
SubmitBidError(w, c, t) ==
    FirstError(<<
        <<"NotInBidPhase", w.auctions[c.auction].status # "BIDDING">>,
        <<"BidPhaseOver", t > w.auctions[c.auction].end>> >>)

SubmitBid(w, from, c) ==
    [w EXCEPT !.auctions[c.auction].bids = Append(@, [c.bid EXCEPT !.bidder = from])]

-----------------------------------------------------------------------------
(* WNOK, the deposit contracts and the GlobalRegistry; amounts are 1        *)

\* A call that moves money names the accounts it takes from and gives to: mint takes
\* from none, burn gives to none, transfer takes from the wallet that signs.
MoneyCalls   == {"mint", "burn", "transfer"}
DepositMoves == {"tbdMint", "tbdBurn", "tbdTransfer"}
DepositCalls == DepositMoves \cup {"tbdAdd", "tbdRemove"}

\* mint, burn and transfer: every end on the allowlist
MoveCashError(w, ends, from) ==
    FirstError(<< <<"AllowlistViolation", ~(ends \subseteq w.listed)>>,
                  <<"InsufficientBalance", from # {} /\ \E a \in from : w.cash[a] = 0>> >>)

\* Only the bank that deployed a deposit contract mints, burns and lists on it.
DepositError(tbd, from, c) ==
    FirstError(<<
        <<"AccessControl", c.fn # "tbdTransfer" /\ from # tbd.bank>>,
        <<"AllowlistViolation", c.fn \in DepositMoves
                                  /\ ~(c.from \cup c.to \subseteq tbd.listed)>>,
        <<"InsufficientBalance", c.fn \in {"tbdBurn", "tbdTransfer"}
                                  /\ \E a \in c.from : tbd.deposit[a] = 0>> >>)

Moved(balances, from, to) ==
    [a \in DOMAIN balances |-> balances[a] + (IF a \in to THEN 1 ELSE 0) - (IF a \in from THEN 1 ELSE 0)]

Listing(set, c) == IF c.fn \in {"add", "tbdAdd"} THEN set \cup {c.who} ELSE set \ {c.who}

-----------------------------------------------------------------------------
(* One call                                                                 *)

\* The error call c, signed by from, reverts with when it runs on w at time t
Error(w, from, c, t) ==
    CASE c.fn = "deployBond"   -> DeployBondError(w)
      [] c.fn = "deployAuction" -> DeployAuctionError(w, c, t)
      [] c.fn = "disableBond"  -> DisableBondError(w)
      [] c.fn = "closeAuction" -> CloseAuctionError(w, t)
      [] c.fn = "cancelAuction" -> CancelAuctionError(w)
      [] c.fn = "finaliseAuction" -> FinaliseError(w, c)
      [] c.fn = "payCoupon"    -> PayCouponError(w, c, t)
      [] c.fn = "submitBid"    -> SubmitBidError(w, c, t)
      [] c.fn \in MoneyCalls   -> MoveCashError(w, c.from \cup c.to, c.from)
      [] c.fn \in DepositCalls -> DepositError(w.tbds[c.tbd], from, c)
      [] OTHER                 -> "none"

\* What it leaves when it does not revert
Effect(w, from, c, t) ==
    CASE c.fn = "deployBond"   -> DeployBond(w)
      [] c.fn = "deployAuction" -> DeployAuction(w, c)
      [] c.fn = "disableBond"  -> DisableBond(w)
      [] c.fn = "closeAuction" -> WithLatest(w, "CLOSED")
      [] c.fn = "cancelAuction" -> CancelAuction(w)
      [] c.fn = "finaliseAuction" -> Finalise(w, c, t)
      [] c.fn = "payCoupon"    -> PayCoupon(w, c)
      [] c.fn = "submitBid"    -> SubmitBid(w, from, c)
      [] c.fn \in MoneyCalls   -> [w EXCEPT !.cash = Moved(@, c.from, c.to)]
      [] c.fn \in {"add", "remove"} -> [w EXCEPT !.listed = Listing(@, c)]
      [] c.fn \in DepositMoves -> [w EXCEPT !.tbds[c.tbd].deposit = Moved(@, c.from, c.to)]
      [] c.fn \in {"tbdAdd", "tbdRemove"} -> [w EXCEPT !.tbds[c.tbd].listed = Listing(@, c)]
      [] c.fn = "deployTbd"    -> [w EXCEPT !.tbds = Append(@, NewTbd(from))]
      [] c.fn = "setContract"  -> [w EXCEPT !.registry[c.name] = c.tbd]
=============================================================================
