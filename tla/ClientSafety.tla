---------------------------- MODULE ClientSafety ----------------------------
(* What the browser of Client owes to its user.                             *)
EXTENDS Client

\* The type invariant: one write at a time, answered or not; a request of the page is of
\* its present or of an earlier run; and nobody looks at a page closed to them.
TypeOK ==
    /\ conn \in {"down", "subscribed", "open"} /\ frames \in Nat /\ (conn = "down" => frames = 0)
    /\ Cardinality(mutation) <= 1 /\ Cardinality(cache) <= 1 /\ Cardinality(shown) <= 1
    /\ Cardinality(fetches) <= MaxFetches
    /\ \A f \in fetches : /\ f.gen \in 1 .. generation /\ f.status \in {0, 200, 304}
                          /\ f.body # {} <=> f.status = 200
    /\ problem \in {"none", "error", "refresh"} /\ (problem = "error" => shown = {})
    /\ MayOpen(user)

-----------------------------------------------------------------------------
\* What may differ although nothing is under way: a coupon became payable by the passing
\* of time, which nobody announces (ingestion.ts:1257); the reserve of a bank changed by a
\* finalisation or a coupon, which are announced to other pages (app.ts:598,
\* service.ts:328).
ContentAt(t) == PageContent(user, [Here EXCEPT !.head.time = t, !.seen.time = t])
OnlyTimePassed == \E t \in 0 .. clock : shown = {ContentAt(t)}
WithoutReserves(tokens) == [k \in DOMAIN tokens |-> [tokens[k] EXCEPT !.reserve = 0]]
OnlyReservesMoved ==
    user.page = "tbd" /\ head.issued /\ shown # {} /\ WithoutReserves(Data) = WithoutReserves(content)

\* When the stream is open and nothing is under way, neither on the page, nor of the
\* user's write, nor in the projection, the page shows what the server would answer
\* ("Reconciliation on every connection recovers missed changes",
\* docs/diagrams/sequences/live-update-sequence.md), unless it says that it could not
\* read, a 304 was overtaken, or one of the two differences above remains.
ShowsTheTruth ==
    AtRest =>
        \/ problem # "none" \/ overtaken
        \/ shown = {content} \/ OnlyTimePassed \/ OnlyReservesMoved

-----------------------------------------------------------------------------
(* Offers                                                                   *)

NamedAuction(op) == head.auctions[op.auction]
Fills(op) ==
    Filled(SelectSeq(UnsealedBids(NamedAuction(op), SealingKey), LAMBDA b : b.index \in op.winners), "BUYBACK", NamedAuction(op).size)

\* The requests a page offers although the server will refuse them: it does not look at
\* the end of an auction before it offers to close it; it takes the last rate of a
\* buyback for the rate, the server the first (auctionAllocation.js:39-62,
\* allocation.ts:92-142); cancelling a buyback may take the offering below the supply; a
\* new auction is offered while one is in flight, and a buyback of more than there is; it
\* lets the operator bid on an ended auction in test mode, which the server refuses all
\* the same; a bidder may be deleted while it bids; and only the chain knows the
\* allowlists and balances, and the server the names of banks without a contract.
CloseTooEarly(op)   == op.kind = "AUCTION_CLOSE" /\ NamedAuction(op).end >= clock
UnevenBuyback(op)   == /\ op.kind = "AUCTION_FINALISE" /\ NamedAuction(op).type = "BUYBACK"
                       /\ Last(Fills(op)).rate # Fills(op)[1].rate
StuckBuyback(w)     == Last(w.auctions).type = "BUYBACK" /\ w.offering - Last(w.auctions).size < Supply(w)
StuckCancel(op)     == op.kind = "AUCTION_CANCEL" /\ StuckBuyback(head)
SecondAuction(op)   == op.kind = "AUCTION_CREATE" /\ (InFlight(head) \/ (op.type = "BUYBACK" /\ op.size > Supply(head)))
UnpayableCoupon(op) ==
    /\ op.kind = "COUPON_PAYMENT"
    /\ \/ \E bond \in Data : ReserveShort(Here, bond)
       \/ ~({Reserve} \cup (ActiveHolders(Here) \ {Manager}) \subseteq head.listed)
TestModeBid(op)     == op.kind = "BID_SUBMISSION" /\ NamedAuction(op).end <= clock
CommittedBidder(op) == op.kind = "BIDDER_DELETE" /\ Committed(Here, op.who)
MoneyRefused(op) ==
    /\ op.kind \in DOMAIN Wnok \cup DOMAIN TbdCalls
    /\ LET call == Plan(Here, op).call
           list == IF op.kind \in DOMAIN Wnok THEN head.listed ELSE head.tbds[op.tbd].listed
           held == IF op.kind \in DOMAIN Wnok THEN head.cash ELSE head.tbds[op.tbd].deposit
       IN  ~(call.from \cup call.to \subseteq list) \/ \E a \in call.from : held[a] = 0
BankKnown(op) == op.kind = "BANK_CREATE" /\ \E b \in Roster(Here) : b.name = op.name

Foreseen(op) ==
    \/ CloseTooEarly(op) \/ UnevenBuyback(op) \/ StuckCancel(op) \/ SecondAuction(op) \/ UnpayableCoupon(op)
    \/ TestModeBid(op) \/ CommittedBidder(op) \/ MoneyRefused(op) \/ BankKnown(op)

\* What a page that shows the truth offers is accepted, except where foreseen above: role
\* gates, canDisable, the type of a new auction, the rate of a finalisation, the payable
\* coupon and the bank's key agree between browser, server and contracts
\* (capabilities.js:51-71, BondDetailPage.jsx:53-59, CreateAuctionModal.jsx:35-56,
\* auctionAllocation.js:12-62, CouponPayoutPage.jsx:53-63, BankingPage.jsx:92-100).
UpToDate == AtRest /\ shown = {content}
OfferAccepted ==
    UpToDate => \A op \in Offers(user, Here, Data) :
        Accepted(Perform(Here, user.role, op).answer) \/ Foreseen(op)

\* Whatever auction is in flight, the operator can bring it to an end from its page: once
\* bidding is over and it is closed, cancelling or finalising is offered, accepted and
\* ends it, unless it is a buyback of a bond so far issued that cancelling would take the
\* offering below the supply, and there are no bids to finalise with, or they were sealed
\* for a keypair an earlier process has taken with it (AuctionLifecyclePanel.jsx:208-216,
\* BondManager.sol:481, keys.ts:26).
Operator == [page |-> "auctions", role |-> "operator", testMode |-> FALSE, showDisabled |-> FALSE]
Attempts(c, kinds) ==
    LET offered == Offers(Operator, c, PageContent(Operator, c))
    IN  {Perform(c, "operator", op) : op \in {o \in offered : o.kind \in kinds}}
After(outcome, c) == [c EXCEPT !.head = outcome.head, !.seen = outcome.head]
Over(c) ==
    LET t == Last(c.head.auctions).end + 1
    IN  IF t <= c.clock THEN c ELSE [c EXCEPT !.clock = t, !.head.time = t, !.seen.time = t]
AuctionResolvable ==
    AtRest /\ InFlight(head) =>
        LET closed == IF LatestStatus(head) = "CLOSED" THEN {Here}
                      ELSE {After(o, Over(Here)) : o \in {x \in Attempts(Over(Here), {"AUCTION_CLOSE"}) :
                                                              Accepted(x.answer)}}
        IN  /\ closed # {}
            /\ \A c \in closed :
                 \/ \E o \in Attempts(c, {"AUCTION_CANCEL", "AUCTION_FINALISE"}) : ~InFlight(o.head)
                 \/ /\ StuckBuyback(head)
                    /\ Last(head.auctions).bids = <<>> \/ ~Opens(Last(head.auctions), SealingKey)
=============================================================================
