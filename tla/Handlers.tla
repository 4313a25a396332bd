------------------------------ MODULE Handlers ------------------------------
(***************************************************************************)
(* What a handler of nb-bond-api makes of what it reads between two awaits *)
(* (app.ts, features/auctions/service.ts, bidder-bid.ts, central-bank.ts,  *)
(* banking-tbd.ts, banks.ts): an early answer, or a call to send.  c holds *)
(* what it can read: the state of the contracts at the head of the chain   *)
(* and at the block the projection has reached, the time of day, the rows  *)
(* of bidders and banks, and the sealing keypair of the process.           *)
(***************************************************************************)
EXTENDS ReadModel

CONSTANTS
    Admin,          \* the operator's wallet, the one whose nonce the API manages
    FixtureBanks    \* the banks of TBD_BANKS: [name, key]

\* bankRoster: the banks of the fixture and the rows
Roster(c) == FixtureBanks \cup {[name |-> b.name, key |-> b.key] : b \in c.banks}

-----------------------------------------------------------------------------
(* Operations                                                               *)

Managed == {"BOND_CREATE", "BOND_DISABLE", "AUCTION_CREATE", "AUCTION_CANCEL", "AUCTION_CLOSE",
            "AUCTION_FINALISE", "COUPON_PAYMENT"}
Simulated == {"BOND_CREATE", "BOND_DISABLE", "AUCTION_CREATE"}
AuctionRoutes == {"AUCTION_CANCEL", "AUCTION_CLOSE", "AUCTION_FINALISE"}
Awaiting  == Managed \ {"BOND_DISABLE"}
Wnok == [WNOK_MINT |-> "mint", WNOK_BURN |-> "burn", WNOK_TRANSFER |-> "transfer",
         WNOK_ALLOWLIST_ADD |-> "add", WNOK_ALLOWLIST_REMOVE |-> "remove"]
TbdCalls == [TBD_MINT |-> "tbdMint", TBD_BURN |-> "tbdBurn", TBD_TRANSFER |-> "tbdTransfer",
             TBD_ALLOWLIST_ADD |-> "tbdAdd", TBD_ALLOWLIST_REMOVE |-> "tbdRemove"]
Kinds == Managed \cup DOMAIN Wnok \cup DOMAIN TbdCalls
         \cup {"BID_SUBMISSION", "BANK_CREATE", "BIDDER_CREATE", "BIDDER_DELETE"}

\* Mutant of ChangedResources: money announced to the page it was moved from only
ChangedOnOwnPage(kind) ==
    CASE kind \in DOMAIN Wnok     -> {"central-bank"}
      [] kind \in DOMAIN TbdCalls -> {"banking"}
      [] kind \in {"AUCTION_FINALISE", "COUPON_PAYMENT"} -> {"bidders", "central-bank"}
      [] kind = "BID_SUBMISSION" -> {"auctions", "bonds"}
      [] kind = "BANK_CREATE"    -> {"banking", "registry", "central-bank"}
      [] OTHER -> {}

\* changedResources of each route
ChangedResources(kind) ==
    CASE kind \in DOMAIN Wnok \cup DOMAIN TbdCalls -> {"central-bank", "bidders", "banking"}
      [] kind \in {"AUCTION_FINALISE", "COUPON_PAYMENT"} -> {"bidders", "central-bank"}
      [] kind = "BID_SUBMISSION" -> {"auctions", "bonds"}
      [] kind = "BANK_CREATE"    -> {"banking", "registry", "central-bank"}
      [] OTHER -> {}

\* What a handler makes of its reads: a transaction to send, or an early answer, which
\* the trail keeps when the handler was inside withOperationRecording by then.
Go(key, call)   == [answer |-> 0, recorded |-> FALSE, key |-> key, call |-> call]
Refuse(answer)  == [answer |-> answer, recorded |-> FALSE]
FailWith(answer) == [answer |-> answer, recorded |-> TRUE]

PlanAuctionCreate(c, op) ==
    IF op.end <= c.clock \/ (c.head.auctions = <<>>) # (op.type = "RATE") THEN Refuse(400)
    ELSE Go(Admin, [fn |-> "deployAuction", type |-> op.type, size |-> op.size, end |-> op.end,
                    key |-> c.sealing, fresh |-> op.type = "RATE" /\ ~c.head.active])

\* Mutant of PlanCancel: the contract left to refuse an auction no longer in flight
PlanCancelUnchecked(c, op) ==
    IF op.auction \notin DOMAIN c.head.auctions THEN Refuse(404)
    ELSE Go(Admin, [fn |-> "cancelAuction"])

\* The auction is named, the transaction names its ISIN.
PlanCancel(c, op) ==
    IF op.auction \notin DOMAIN c.head.auctions THEN Refuse(404)
    ELSE IF c.head.auctions[op.auction].status \in {"FINALISED", "CANCELLED"} THEN Refuse(409)
    ELSE Go(Admin, [fn |-> "cancelAuction"])

PlanClose(c, op) ==
    IF op.auction \notin DOMAIN c.head.auctions THEN Refuse(404)
    ELSE IF c.head.auctions[op.auction].status # "BIDDING"
            \/ (~op.testMode /\ c.head.auctions[op.auction].end > c.clock) THEN Refuse(409)
    ELSE Go(Admin, [fn |-> "closeAuction"])

\* Status, type and size from the projection; the bids from the chain, of the latest
\* auction, every one of which must open
PlanFinalise(c, op) ==
    LET auction == c.seen.auctions[op.auction]
        sealed  == UnsealedBids(Last(c.head.auctions), c.sealing)
        picked  == SelectSeq(sealed, LAMBDA b : b.index \in op.winners)
        result  == ComputeAllocation(picked, auction.type, auction.size)
    IN  IF op.auction \notin DOMAIN c.seen.auctions THEN Refuse(404)
        ELSE IF auction.status # "CLOSED" THEN Refuse(409)
        ELSE IF ~Opens(Last(c.head.auctions), c.sealing) THEN Refuse(500)
        ELSE IF ~(op.winners \subseteq DOMAIN sealed) THEN Refuse(400)
        ELSE IF picked = <<>> THEN Refuse(500)
        ELSE IF result.clearingRate # op.rate THEN Refuse(400)
        ELSE Go(Admin, [fn |-> "finaliseAuction", auction |-> Len(c.head.auctions),
                        type |-> auction.type, allocations |-> result.allocations])

\* getActiveHolders: holders of the projection that still hold on chain
ActiveHolders(c) == {a \in Owners : c.seen.units[a] > 0 /\ c.head.units[a] > 0}
PlanCoupon(c, op) ==
    LET holders == IF op.holders = {} THEN ActiveHolders(c) ELSE op.holders
    IN  IF holders = {} /\ (~c.seen.created \/ Supply(c.seen) # 0) THEN Refuse(404)
        ELSE Go(Admin, [fn |-> "payCoupon", holders |-> holders])

PlanBid(c, op) ==
    IF op.bidder \notin c.bidders THEN Refuse(404)
    ELSE IF op.auction \notin DOMAIN c.head.auctions THEN FailWith(404)
    ELSE IF c.head.auctions[op.auction].status # "BIDDING"
            \/ c.head.auctions[op.auction].end <= c.clock THEN FailWith(409)
    ELSE Go(op.bidder, [fn |-> "submitBid", auction |-> op.auction,
                        bid |-> BuildSealedBid(op.bidder, Isin, op.auction, op.rate, op.units,
                                               c.head.auctions[op.auction].key)])

\* The ends of a transfer of money; minting takes from nobody, burning gives to nobody.
Ends(kind, signer, who) ==
    CASE kind \in {"WNOK_MINT", "TBD_MINT"} -> [from |-> {}, to |-> {who}]
      [] kind \in {"WNOK_BURN", "TBD_BURN"} -> [from |-> {who}, to |-> {}]
      [] OTHER -> [from |-> {signer}, to |-> {who}]

PlanWnok(c, op) ==
    LET ends == Ends(op.kind, CentralBank, op.who)
    IN  Go(CentralBank, [fn |-> Wnok[op.kind], who |-> op.who, from |-> ends.from, to |-> ends.to])

\* tbdWriteContract: signed by the key the roster holds for the name the contract has
PlanTbd(c, op) ==
    LET banks == {b \in Roster(c) : c.head.registry[b.name] = op.tbd}
        bank  == CHOOSE b \in banks : TRUE
        ends  == Ends(op.kind, bank.key, op.who)
    IN  IF banks = {} THEN FailWith(404)
        ELSE Go(bank.key, [fn |-> TbdCalls[op.kind], tbd |-> op.tbd, who |-> op.who,
                           from |-> ends.from, to |-> ends.to])

\* Mutant of PlanBankCreate: uniqueness left to the address
PlanBankCreateByAddress(c, op) ==
    IF \E b \in c.banks : b.key = op.key THEN FailWith(409)
    ELSE Go(op.key, [fn |-> "deployTbd"])

\* createBank up to its first transaction
PlanBankCreate(c, op) ==
    IF \/ \E b \in Roster(c) : b.name = op.name
       \/ \E b \in c.banks : b.key = op.key
       \/ c.head.registry[op.name] # 0 THEN FailWith(409)
    ELSE Go(op.key, [fn |-> "deployTbd"])

\* The routes of one auction, named by its id
PlanOfAuction(c, op) ==
    CASE op.kind = "AUCTION_CANCEL"   -> PlanCancel(c, op)
      [] op.kind = "AUCTION_CLOSE"    -> PlanClose(c, op)
      [] op.kind = "AUCTION_FINALISE" -> PlanFinalise(c, op)

Plan(c, op) ==
    CASE op.kind = "BOND_CREATE"      -> Go(Admin, [fn |-> "deployBond"])
      [] op.kind = "BOND_DISABLE"     -> Go(Admin, [fn |-> "disableBond"])
      [] op.kind = "AUCTION_CREATE"   -> PlanAuctionCreate(c, op)
      [] op.kind \in AuctionRoutes    -> PlanOfAuction(c, op)
      [] op.kind = "COUPON_PAYMENT"   -> PlanCoupon(c, op)
      [] op.kind = "BID_SUBMISSION"   -> PlanBid(c, op)
      [] op.kind = "BANK_CREATE"      -> PlanBankCreate(c, op)
      [] op.kind \in DOMAIN Wnok      -> PlanWnok(c, op)
      [] op.kind \in DOMAIN TbdCalls  -> PlanTbd(c, op)

-----------------------------------------------------------------------------
(* A call refused before it is mined, by a simulation or the gas estimate    *)

\* A simulation.  That of a disable comes before the recording, and is decoded.
SimulationAnswer(kind, error) ==
    CASE kind = "BOND_DISABLE" /\ error = "BondAlreadyDisabled" -> 204
      [] kind = "BOND_DISABLE" /\ error # "BondAlreadyDisabled" -> 409
      [] OTHER -> 500
SimulationStatus(kind) == IF kind = "BOND_DISABLE" THEN "none" ELSE "REVERTED"

\* An estimate.  Two handlers pass what it refused to decodeCustomError and answer a
\* conflict, which of a close is no revert to the trail.
Decoding == {"AUCTION_CLOSE", "COUPON_PAYMENT"}
EstimateAnswer(kind) == IF kind \in Decoding THEN 409 ELSE 500
EstimateStatus(kind) == IF kind = "AUCTION_CLOSE" THEN "FAILED" ELSE "REVERTED"

\* A close inside its window is sent all the same, unless in test mode.
SentAnyway(op, error) == op.kind = "AUCTION_CLOSE" /\ error = "InBidPhase" /\ ~op.testMode

-----------------------------------------------------------------------------
(* Reads                                                                    *)

\* GET /v1/bonds leaves out disabled bonds, unless asked to include them.
GetBonds(c, includeDisabled) == {b \in Bonds(c.seen, c.sealing) : includeDisabled \/ ~b.disabled}
GetBond(c)    == Bonds(c.seen, c.sealing)
GetAuctions(c, testMode) == Auctions(c.seen, testMode, c.sealing)
GetBidders(c) == BiddersView(c.head, c.bidders)
GetBanking(c) == BankingView(c.head, Roster(c))
GetCentralBank(c) == CentralBankView(c.head)
GetRegistry(c) == RegistryView(c.head)
\* The operation trail
GetOperations(c) == c.trail

\* findOpenAuctionsWithBidsByBidder: open by the projection, the bids from the chain
Committed(c, who) ==
    \E k \in DOMAIN c.seen.auctions :
        /\ c.seen.auctions[k].status = "BIDDING"
        /\ \E i \in DOMAIN c.head.auctions[k].bids : c.head.auctions[k].bids[i].bidder = who

\* What a transaction makes stale beside the projection, which announces itself
Touched(c, old, new) ==
    (IF BiddersView(old, c.bidders) # BiddersView(new, c.bidders) THEN {"bidders"} ELSE {})
    \cup (IF CentralBankView(old) # CentralBankView(new) THEN {"central-bank"} ELSE {})
    \cup (IF BankingView(old, Roster(c)) # BankingView(new, Roster(c)) THEN {"banking"} ELSE {})
    \cup (IF old.registry # new.registry THEN {"registry"} ELSE {})
=============================================================================
