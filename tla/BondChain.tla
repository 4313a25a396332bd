------------------------------ MODULE BondChain ------------------------------
(***************************************************************************)
(* The chain as nb-bond-api's ingestion sees it: blocks of logs of the     *)
(* bond manager, the bond token and the auction contract about one ISIN.   *)
(*                                                                         *)
(* A block holds one transaction, with the logs it emits in the order it   *)
(* emits them and the state the contracts are in afterwards, except that   *)
(* the first bids of an auction may share the block it was opened in; the  *)
(* number of a block is also its timestamp.  Consensus is final: a block   *)
(* never changes.  What the contracts accept is what BondManager           *)
(* describes, reduced to what their events depend on.                      *)
(***************************************************************************)
EXTENDS Integers, Sequences, SequencesExt, FiniteSets

CONSTANTS
    Holders,        \* accounts that hold bonds
    Bidders,        \* those of them that bid
    Manager,        \* the BondManager contract, holder of unsold units
    NoOne,          \* the zero address
    Size,           \* units of every auction
    Periods,        \* coupon periods of every bond
    MaxBlocks,      \* bound on the length of the chain
    MaxAuctions,    \* bound on the auctions
    MaxBids         \* bound on the bids of an auction

ASSUME BondChainAssumption ==
    /\ IsFiniteSet(Holders) /\ Bidders \subseteq Holders
    /\ Manager \notin Holders /\ NoOne \notin Holders \cup {Manager}
    /\ Size \in Nat \ {0} /\ Periods \in Nat
    /\ MaxBlocks \in Nat /\ MaxAuctions \in Nat /\ MaxBids \in Nat

VARIABLES
    chain,          \* the blocks: the logs of each contract, the state after
    contracts       \* the state of the contracts after the last block

chainVars == <<chain, contracts>>

Owners == Holders \cup {Manager}
Height == Len(chain)
Now    == Height + 1    \* number and timestamp of the block being added

\* A log: its block and its place among its contract's logs there, the event, the two
\* ends and the amount of a transfer; v is the event's number otherwise (offering, auction
\* or payment number), type the type of a new auction, bid and from the index and the
\* bidder of a bid.
Log(event, v) ==
    [block |-> Now, logIndex |-> 0, event |-> event, from |-> NoOne, to |-> NoOne,
     v |-> v, type |-> "none", bid |-> 0]
Transfer(from, to, v) == [Log("TransferByPartition", v) EXCEPT !.from = from, !.to = to]

\* auctions is the sequence of [type, status, bids, allocations]: a bid is its bidder, an
\* allocation [bidder, units].
NewBond == [active |-> FALSE, offering |-> 0, supply |-> 0, maturityDate |-> 0,
            lastPayment |-> 0, count |-> 0, matured |-> FALSE, issued |-> FALSE]

ChainInit ==
    /\ chain = <<>>
    /\ contracts = [bond |-> NewBond, auctions |-> <<>>, bal |-> [a \in Owners |-> 0]]

\* Add the block of a transaction that leaves the contracts in state s.  The chain is
\* asked for the logs of one contract at a time.
Placed(logs) == [k \in DOMAIN logs |-> [logs[k] EXCEPT !.logIndex = k]]
Mine(manager, auction, token, s) ==
    /\ Height < MaxBlocks
    /\ contracts' = s
    /\ chain' = Append(chain, [manager |-> Placed(manager), auction |-> Placed(auction),
                               token |-> Placed(token), state |-> s])

Bond     == contracts.bond
Auctions == contracts.auctions
N        == Len(Auctions)
InFlight == N > 0 /\ Auctions[N].status \in {"open", "closed"}

-----------------------------------------------------------------------------
\* createPartition and BondCreated
Issued  == <<Log("IsinIssued", 0)>>
Created == [contracts EXCEPT !.bond.active = TRUE]

\* The event of the manager names the type of the auction.
Initialised == [RATE |-> "BondAuctionInitialised", PRICE |-> "BondExtensionAuctionInitialised",
                BUYBACK |-> "BondBuybackAuctionInitialised"]

\* What a block may hold of bids
BidLists == {<<>>} \cup {<<h>> : h \in {x \in Bidders : MaxBids > 0}}
BidLog(n, bids, k) == [Log("BidSubmitted", n) EXCEPT !.from = bids[k], !.bid = k]

\* extendPartitionOffering and createAuction, from contract state s
ExtendedOffering(s, type) == s.bond.offering + (IF type = "BUYBACK" THEN 0 ELSE Size)
Extended(s, type) ==
    IF type = "BUYBACK" THEN <<>> ELSE <<Log("IsinExtended", ExtendedOffering(s, type))>>
Opening(n, type, bids) ==
    <<[Log("AuctionCreated", n) EXCEPT !.type = type]>> \o [k \in DOMAIN bids |-> BidLog(n, bids, k)]
Scheduled(s, type, bids) ==
    [s EXCEPT !.bond.offering = ExtendedOffering(s, type),
              !.auctions = Append(@, [type |-> type, status |-> "open", bids |-> bids, allocations |-> <<>>])]

\* deployBond
Deploy ==
    /\ ~Bond.active
    /\ ~InFlight
    /\ Mine(<<Log("BondCreated", 0)>>, <<>>, Issued, Created)

\* deployBondWithAuction
DeployWithAuction(bids) ==
    /\ ~Bond.active
    /\ N = 0
    /\ MaxAuctions > 0
    /\ Mine(<<Log("BondCreated", 0), Log(Initialised["RATE"], 1)>>, Opening(1, "RATE", bids),
            Issued \o Extended(Created, "RATE"), Scheduled(Created, "RATE", bids))

\* deployAuctionForBond
Schedule(type, bids) ==
    /\ Bond.active
    /\ ~InFlight
    /\ N < MaxAuctions
    /\ IF N = 0 THEN type = "RATE" ELSE type \in {"PRICE", "BUYBACK"}
    /\ type = "BUYBACK" => Size <= Bond.supply
    /\ Mine(<<Log(Initialised[type], N + 1)>>, Opening(N + 1, type, bids),
            Extended(contracts, type), Scheduled(contracts, type, bids))

\* submitBid in a block of its own
SubmitBid(h) ==
    /\ InFlight
    /\ Auctions[N].status = "open"
    /\ Len(Auctions[N].bids) < MaxBids
    /\ LET bids == Append(Auctions[N].bids, h)
       IN  Mine(<<>>, <<BidLog(N, bids, Len(bids))>>, <<>>, [contracts EXCEPT !.auctions[N].bids = bids])

\* closeAuction emits before it calls the auction contract
Close ==
    /\ InFlight
    /\ Auctions[N].status = "open"
    /\ Mine(<<Log("BondAuctionClosed", N)>>, <<>>, <<>>,
            [contracts EXCEPT !.auctions[N].status = "closed"])

\* cancelAuction
Cancel ==
    /\ InFlight
    /\ Bond.offering - Size >= Bond.supply
    /\ Mine(<<Log("BondAuctionCancelled", N)>>, <<>>, <<Log("IsinReduced", Bond.offering - Size)>>,
            [contracts EXCEPT !.bond.offering = @ - Size, !.auctions[N].status = "cancelled"])

\* A closed auction with a bid: it may be allocated to anybody who signed it (BondAuction).
MayFinalise ==
    /\ InFlight
    /\ Auctions[N].status = "closed"
    /\ Auctions[N].bids # <<>>
Finalised(h, units) ==
    [Auctions EXCEPT ![N].status = "finalised", ![N].allocations = <<[bidder |-> h, units |-> units]>>]

\* One log for the allocation whose settlement fails
Failures(settled) == IF settled THEN <<>> ELSE <<Log("BondAllocationFailed", N)>>

\* finaliseAuction of an issuance: units are minted to the manager, and h may fail to pay.
FinaliseIssuance(h, units, paid) ==
    /\ MayFinalise
    /\ Auctions[N].type # "BUYBACK"
    /\ LET rate  == Auctions[N].type = "RATE"
           sold  == IF paid THEN units ELSE 0
           token == <<Transfer(NoOne, Manager, units)>>
                    \o (IF rate THEN <<Log("IsinEnabled", 0)>> ELSE <<>>)
                    \o (IF sold > 0 THEN <<Transfer(Manager, h, sold)>> ELSE <<>>)
           bond  == [Bond EXCEPT !.supply = @ + units, !.issued = TRUE]
       IN  Mine(Failures(paid) \o <<Log("BondIssuanceComplete", 0), Log("BondAuctionFinalised", N)>>,
                <<Log("AuctionFinalized", N)>>, token,
                [bond     |-> IF rate THEN [bond EXCEPT !.lastPayment = Now,
                                                        !.maturityDate = Now + Periods]
                                      ELSE bond,
                 auctions |-> Finalised(h, units),
                 bal      |-> [contracts.bal EXCEPT ![Manager] = @ + units - sold,
                                                    ![h] = @ + sold]])

\* finaliseAuction of a buyback from h, whose settlement may fail
FinaliseBuyback(h, units, delivered) ==
    /\ MayFinalise
    /\ Auctions[N].type = "BUYBACK"
    /\ delivered => units <= contracts.bal[h]
    /\ LET bought == IF delivered THEN units ELSE 0
       IN  Mine(Failures(delivered) \o <<Log("BondBuybackComplete", 0), Log("BondAuctionFinalised", N)>>,
                <<Log("AuctionFinalized", N)>>,
                IF bought > 0 THEN <<Transfer(h, NoOne, bought)>> ELSE <<>>,
                [bond     |-> [Bond EXCEPT !.supply = @ - bought],
                 auctions |-> Finalised(h, units),
                 bal      |-> [contracts.bal EXCEPT ![h] = @ - bought]])

\* transferByPartition
Give(from, to) ==
    /\ from # to
    /\ contracts.bal[from] > 0
    /\ Mine(<<>>, <<>>, <<Transfer(from, to, 1)>>,
            [contracts EXCEPT !.bal[from] = @ - 1, !.bal[to] = @ + 1])

\* The logs of _payHolder for n holders, one after the other
Payouts(n, number, final) ==
    IF final THEN [k \in 1 .. 2 * n |-> Log(IF k % 2 = 1 THEN "CouponPaid" ELSE "BondRedeemed", number)]
             ELSE [k \in 1 .. n |-> Log("CouponPaid", number)]

\* payCoupon: the final period burns everything
PayCoupon ==
    /\ Bond.maturityDate # 0
    /\ Bond.count < Periods
    /\ LET number == Bond.count + 1
           final  == number = Periods
           paid   == SetToSeq({h \in Holders : contracts.bal[h] > 0})
           unsold == contracts.bal[Manager]
           burns  == [k \in DOMAIN paid |-> Transfer(paid[k], NoOne, contracts.bal[paid[k]])]
                     \o (IF unsold > 0 THEN <<Transfer(Manager, NoOne, unsold)>> ELSE <<>>)
       IN  Mine(Payouts(Len(paid), number, final)
                \o <<Log("CouponPeriodPaid", number)>>
                \o (IF final THEN <<Log("BondMatured", number)>> ELSE <<>>),
                <<>>, IF final THEN burns ELSE <<>>,
                [contracts EXCEPT
                   !.bond = [Bond EXCEPT !.count = number, !.lastPayment = Now, !.matured = final,
                                         !.supply = IF final THEN 0 ELSE @],
                   !.bal = IF final THEN [a \in Owners |-> 0] ELSE @])

\* disableBond
Disable ==
    /\ Bond.active
    /\ ~InFlight
    /\ Bond.supply = 0
    /\ \A n \in 1 .. N : Auctions[n].status # "finalised"
    /\ Mine(<<Log("BondDisabled", 0)>>, <<>>, <<Log("IsinDisabled", 0)>>,
            [contracts EXCEPT !.bond = NewBond])

ChainNext ==
    \/ Deploy
    \/ \E bids \in BidLists : DeployWithAuction(bids)
    \/ \E type \in {"RATE", "PRICE", "BUYBACK"}, bids \in BidLists : Schedule(type, bids)
    \/ \E h \in Bidders : SubmitBid(h)
    \/ Close
    \/ Cancel
    \/ \E h \in Bidders, units \in 1 .. Size, settled \in BOOLEAN :
          FinaliseIssuance(h, units, settled) \/ FinaliseBuyback(h, units, settled)
    \/ \E from, to \in Holders : Give(from, to)
    \/ PayCoupon
    \/ Disable
=============================================================================
