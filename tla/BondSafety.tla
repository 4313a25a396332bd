----------------------------- MODULE BondSafety -----------------------------
(* What must hold of the bond contracts together.                            *)
EXTENDS BondManager

\* The manager's in-flight lock and the auction contract agree: bondActive[i] is set
\* exactly while the latest auction of i is open, and no earlier auction is open.
LockMatchesAuction ==
    \A i \in Isins :
        /\ bondActive[i] <=> HasOpenAuction(i)
        /\ \A n \in 1 .. Len(auctions[i]) - 1 : auctions[i][n].status \notin Open

\* Units an open auction of i may still cause to be minted
OpenIssuance(i) ==
    IF HasOpenAuction(i) /\ Latest(i).type # "BUYBACK" THEN Latest(i).offering ELSE 0

\* The offering covers the supply and whatever the open auction may add to it, so
\* finalising never fails with ExceedsOffering after bidding is over.
IssuanceCovered ==
    \A i \in Isins : supply[i] + OpenIssuance(i) <= terms[i].offering

\* A disabled ISIN leaves nothing behind: no units, no coupon terms, no auction in
\* flight, and nothing was ever issued under it.
DisabledLeavesNothing ==
    \A i \in Isins : ~terms[i].active =>
        /\ supply[i] = 0
        /\ coupon[i] = NoCoupon
        /\ \A n \in 1 .. Len(auctions[i]) : auctions[i][n].status = "CANCELLED"

\* Coupon terms exist exactly when the first auction of the ISIN was finalised.
CouponFromFirstAuction ==
    \A i \in Isins :
        coupon[i].duration # 0 <=> auctions[i] # <<>> /\ auctions[i][1].status = "FINALISED"

\* A bond is matured when, and only when, its last coupon is paid.
MaturedIffAllPaid ==
    \A i \in Isins :
        IF coupon[i].duration = 0
          THEN coupon[i].paymentCount = 0 /\ ~coupon[i].matured
          ELSE /\ coupon[i].paymentCount <= ExpectedPayments(i)
               /\ coupon[i].matured <=> coupon[i].paymentCount = ExpectedPayments(i)

\* However the calls are timed, the k-th coupon is never paid before k coupon periods
\* have passed since issuance, and the bond never matures before its maturity date.
CouponsNotEarly ==
    \A i \in Isins : coupon[i].duration # 0 =>
        /\ coupon[i].lastPayment <= now
        /\ coupon[i].maturityDate + coupon[i].paymentCount * coupon[i].duration
             <= coupon[i].lastPayment + terms[i].maturityDuration
        /\ coupon[i].matured => now >= coupon[i].maturityDate

\* The bids, by hash, that allocation a of the n-th auction of i may rest on
SignedFor(i, n, a) == {h \in Hashes : IntentOf(i, n, a, h) \in Signed}

\* The bidder signs each of its bids for the auction once, each under a nonce of its
\* own, as buildSealedBid does.
SignsEachBidOnce(i, n, bidder) ==
    \A s, u \in {x \in Signed : x.isin = i /\ x.auction = n /\ x.bidder = bidder} :
        s.hash = u.hash <=> s.nonce = u.nonce

\* Whatever list of allocations and proofs an operator finalises an auction with, nobody
\* is allocated units without having asked for them: in total no more than was offered
\* is allocated, every allocation rests on an intent that its own bidder signed for this
\* auction over a bid stored in it, no intent serves twice, and the allocations of a
\* bidder that signs each bid once rest on different bids (BondAuction._verifyBidIntent,
\* which looks at the signer and not at the submitter of the bid).
AllocationsConsented ==
    \A i \in Isins : \A n \in 1 .. Len(auctions[i]) :
        LET a == auctions[i][n] IN
        /\ TotalUnits(a.allocations) <= a.offering
        /\ \A k \in 1 .. Len(a.allocations) :
              /\ \E b \in 1 .. Len(a.bids) : IntentOf(i, n, a.allocations[k], a.bids[b]) \in Signed
              /\ \A m \in 1 .. k - 1 : a.allocations[m].bidder = a.allocations[k].bidder =>
                    /\ a.allocations[m].nonce # a.allocations[k].nonce
                    /\ SignsEachBidOnce(i, n, a.allocations[k].bidder) =>
                          SignedFor(i, n, a.allocations[m])
                              \cap SignedFor(i, n, a.allocations[k]) = {}

\* Units allocated by the issuance auctions of i
UnitsIssued(i) ==
    FoldLeft(LAMBDA total, a : IF a.type = "BUYBACK" THEN total
                                                     ELSE total + TotalUnits(a.allocations),
             0, auctions[i])

PendingUnits == FoldLeft(LAMBDA total, s : total + s.units, 0, pending)

\* Minting first and settling later creates neither more nor less than was allocated:
\* every unit in existence was allocated by a finalised RATE or PRICE auction, and while
\* settlements are outstanding the manager holds every unit it has still to deliver, so
\* that an allocation fails for want of cash, never for want of units
\* (BondManager.sol:317-378).
SupplyWasAllocated ==
    /\ \A i \in Isins : supply[i] <= UnitsIssued(i)
    /\ ~Idle /\ Head(pending).op = "TransferPartition"
         => PendingUnits <= bal[Head(pending).isin][Manager]

-----------------------------------------------------------------------------
\* An auction that is over is never reopened or edited, and no bid is ever lost.
AuctionHistoryIsFinal ==
    [][\A i \in Isins :
          /\ Len(auctions'[i]) >= Len(auctions[i])
          /\ \A n \in 1 .. Len(auctions[i]) :
                /\ auctions[i][n].status \notin Open => auctions'[i][n] = auctions[i][n]
                /\ IsPrefix(auctions[i][n].bids, auctions'[i][n].bids)]_vars

\* Once a bond is issued its coupon terms are fixed, its payments are counted one at a
\* time and never forgotten, and maturity is for good.
CouponHistoryIsFinal ==
    [][\A i \in Isins : coupon[i].duration # 0 =>
          /\ coupon'[i].duration = coupon[i].duration
          /\ coupon'[i].yield = coupon[i].yield
          /\ coupon'[i].paymentCount \in {coupon[i].paymentCount, coupon[i].paymentCount + 1}
          /\ coupon[i].matured => coupon'[i].matured]_vars

\* Each settlement moves all of its units against all of its cash, or neither.
DeliveryVersusPayment ==
    [][~Idle =>
          LET s         == Head(pending)
              holder    == IF s.op = "Buyback" THEN s.bondFrom ELSE s.bondTo
              delivered == bal'[s.isin][holder] - bal[s.isin][holder]
              paid      == cash[holder] - cash'[holder]
              received  == cash'[GovReserve] - cash[GovReserve]
          IN  /\ received = paid
              /\ \/ delivered = 0 /\ paid = 0
                 \/ delivered = s.units  /\ paid = s.amount  /\ s.op = "TransferPartition"
                 \/ delivered = -s.units /\ paid = -s.amount /\ s.op = "Buyback"]_vars

\* A coupon pays everybody who holds units, whatever list of holders the caller gives,
\* and the final one redeems them all: nobody is left holding units of a matured bond.
EveryHolderPaid ==
    [][\A i \in Isins : coupon'[i].paymentCount > coupon[i].paymentCount =>
          /\ \A a \in Accounts \ {Manager} :
                cash'[a] - cash[a] =
                    bal[i][a] * (CouponPerUnit(i) + (IF coupon'[i].matured THEN UnitNominal ELSE 0))
          /\ coupon'[i].matured => \A a \in Accounts : bal'[i][a] = 0
          /\ SumFunction(cash') = SumFunction(cash)]_vars

-----------------------------------------------------------------------------
\* bond-lifecycle.md: an ISIN whose auction was cancelled before issuance is staged
\* again, and every issued unit has a coupon: payCoupon can compute its periods.
IssuedUnitsHaveCoupon == \A i \in Isins : supply[i] > 0 => coupon[i].duration # 0

\* bond-lifecycle.md: MATURED is terminal, closed with zero supply.
MaturedIsClosed == \A i \in Isins : coupon[i].matured => supply[i] = 0

\* BondManager.cancelAuction: "Can cancel auctions in BIDDING or CLOSED states".
OpenAuctionCancellable ==
    \A i \in Isins : HasOpenAuction(i) => CanReduceOffering(i, Latest(i).offering)
=============================================================================
