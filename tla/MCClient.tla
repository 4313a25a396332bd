------------------------------ MODULE MCClient ------------------------------
(* A user on each page at the stages of a bond's life that matter to it, one *)
(* write of the user's and one or two of others.                             *)
EXTENDS ClientSafety, Histories

User(page, role, testMode) ==
    [page |-> page, role |-> role, testMode |-> testMode, showDisabled |-> FALSE]
Op(page)      == User(page, "operator", FALSE)
Testing(page) == User(page, "operator", TRUE)
Tester(page)  == User(page, "tester", FALSE)
\* of somebody who once asked for the disabled bonds too
ShowingAll(u) == [u EXCEPT !.showDisabled = TRUE]

Scenario(w, calls, lags, users, theirs, spent) ==
    {[history |-> History(w, calls), lag |-> lag, user |-> u, others |-> ops,
      clicks |-> spent.clicks, faults |-> spent.faults]
        : lag \in lags, u \in users, ops \in theirs}
Click1 == [clicks |-> 0, faults |-> 1]    \* the user writes once, nothing breaks
Fault1 == [clicks |-> 1, faults |-> 0]    \* the user only looks, something breaks once

Created    == <<At(4, Admin, [fn |-> "deployBond"])>>
Cancelled  == Created \o <<At(4, Admin, Auction("RATE", 1, 5, FALSE)), At(4, Admin, [fn |-> "cancelAuction"])>>
Cancel     == [kind |-> "AUCTION_CANCEL", auction |-> 1]
Create(type) == [kind |-> "AUCTION_CREATE", type |-> type, size |-> 1, end |-> 5]
Money(kind, who) == [kind |-> kind, who |-> who]
Finalisation == [kind |-> "AUCTION_FINALISE", auction |-> 1, winners |-> {1, 2}, rate |-> 2]
Coupon     == [kind |-> "COUPON_PAYMENT", holders |-> {}]
Submission == [kind |-> "BID_SUBMISSION", auction |-> 1, bidder |-> nordea, rate |-> 2, units |-> 1]
Bank       == [kind |-> "BANK_CREATE", name |-> acme, key |-> newcomer, settle |-> TRUE]
Uneven     == Outstanding \o Buyback(2) \o
    <<BidAt(3, bea, 2, 1), BidAt(3, nordea, 2, 2), At(5, Admin, Close)>>
Small      == Outstanding \o Buyback(1)
\* Opened, and bid on, when the process had another sealing keypair
Resealed   == Outstanding \o
    <<At(3, Admin, [Auction("BUYBACK", 2, 4, FALSE) EXCEPT !.key = 0]), SealedBid(2, bea, 1, 0), At(5, Admin, Close)>>
Forgotten  == <<At(2, Admin, [Auction("RATE", 2, 3, TRUE) EXCEPT !.key = 0]), SealedBid(1, bea, 1, 0),
                At(4, Admin, Close)>>
\* The reserve of the government too small for the last coupon
Poor       == [Deployed(1) EXCEPT !.cash[reserve] = 1]
Unlisted   == Outstanding \o <<At(3, CentralBank, [fn |-> "remove", who |-> bea])>>
\* A bank of TBD_BANKS whose contract nobody has deployed yet
Bare       == [Deployed(4) EXCEPT !.registry[fixture] = 0, !.tbds = <<>>]

MCScenarios ==
    Scenario(Deployed(4), <<>>, {0}, {Op("bonds"), Tester("bonds")}, {<<[kind |-> "BOND_CREATE"]>>}, Click1)
    \cup Scenario(Deployed(4), Created, {0}, {Op("bond"), Tester("bond"), Op("auctions")}, {<<Create("RATE")>>}, Click1)
    \cup Scenario(Deployed(4), Cancelled, {0, 1}, {Op("bond"), Op("auctions")}, {<<[kind |-> "BOND_DISABLE"]>>}, Click1)
    \cup Scenario(Deployed(4), Cancelled, {0}, {Op("bonds"), Op("bond"), ShowingAll(Op("bonds"))},
                  {<<[kind |-> "BOND_DISABLE"], [kind |-> "BOND_CREATE"]>>}, Fault1)
    \cup Scenario(Deployed(2), Open, {0}, {Op("auctions"), Op("bidders")}, {<<Cancel>>}, Click1)
    \cup Scenario(Deployed(2), Open, {0}, {Testing("auctions"), Tester("auctions")}, {<<>>}, Click1)
    \cup Scenario(Deployed(2), Open, {0}, {Op("auctions")}, {<<Submission, Cancel>>}, Fault1)
    \cup Scenario(Deployed(2), Closed(2), {0, 1}, {Op("auctions"), Tester("auctions"), Op("bond")},
                  {<<Finalisation>>}, Click1)
    \cup Scenario(Deployed(2), Closed(2), {0, 1}, {Op("auctions"), Op("central-bank"), Op("bidders"), Op("tbd")},
                  {<<Finalisation, Money("WNOK_MINT", nordea)>>}, Fault1)
    \cup Scenario(Deployed(1), Outstanding, {0},
                  {Op("coupon-payout"), Op("auctions"), Op("bond")}, {<<Money("WNOK_BURN", reserve)>>}, Click1)
    \cup Scenario(Deployed(1), Outstanding, {0}, {Op("coupon-payout"), Op("tbd"), Op("bonds")}, {<<Coupon>>}, Fault1)
    \cup Scenario(Deployed(1), Repaid, {0}, {Op("auctions"), Op("coupon-payout"), Op("bond")}, {<<Create("PRICE")>>}, Click1)
    \cup Scenario(Deployed(1), Uneven, {0}, {Op("auctions")}, {<<>>}, Click1)
    \cup Scenario(Deployed(1), Small, {0}, {Op("auctions")}, {<<>>}, Click1)
    \cup Scenario(Deployed(4), <<>>, {0}, {Op("tbd"), Tester("tbd")}, {<<Bank>>}, Click1)
    \cup Scenario(Poor, Outstanding, {0}, {Op("coupon-payout")}, {<<>>}, Click1)
    \cup Scenario(Deployed(1), Unlisted, {0}, {Op("coupon-payout")}, {<<>>}, Click1)
    \cup Scenario(Deployed(1), Resealed, {0}, {Op("auctions"), Op("bond")}, {<<>>}, Click1)
    \cup Scenario(Deployed(2), Forgotten, {0}, {Op("auctions")}, {<<Submission>>}, Click1)
    \cup Scenario(Bare, <<>>, {0}, {Op("tbd")}, {<<Bank>>}, Click1)
    \cup Scenario(Deployed(4), <<>>, {0}, {Op("bidders"), Op("central-bank")}, {<<Money("WNOK_MINT", bea)>>}, Click1)
    \cup Scenario(Deployed(4), <<>>, {0}, {Op("tbd"), Op("central-bank"), Op("bidders")},
                  {<<Bank>>, <<[kind |-> "BIDDER_CREATE", who |-> newcomer]>>}, Fault1)
    \cup Scenario(Deployed(4), <<>>, {0}, {Op("registry"), Tester("operations")},
                  {<<Bank>>, <<Money("WNOK_MINT", newcomer)>>}, Fault1)
=============================================================================
