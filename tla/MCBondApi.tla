----------------------------- MODULE MCBondApi ------------------------------
(* Pairs of requests against each stage of a bond's life.                    *)
EXTENDS BondApiSafety, Histories

Scenario(w, calls, lags, pairs) ==
    {[history |-> History(w, calls), lag |-> lag, ops |-> ops] : lag \in lags, ops \in pairs}

BondCreate   == [kind |-> "BOND_CREATE"]
BondDisable  == [kind |-> "BOND_DISABLE"]
Create(type) == [kind |-> "AUCTION_CREATE", type |-> type, size |-> 1, end |-> 5]
Cancel(k)    == [kind |-> "AUCTION_CANCEL", auction |-> k]
CloseOf(k, test) == [kind |-> "AUCTION_CLOSE", auction |-> k, testMode |-> test]
Finalisation(k, winners, rate) ==
    [kind |-> "AUCTION_FINALISE", auction |-> k, winners |-> winners, rate |-> rate]
Coupon(holders) == [kind |-> "COUPON_PAYMENT", holders |-> holders]
Submission(k, who) == [kind |-> "BID_SUBMISSION", auction |-> k, bidder |-> who, rate |-> 2, units |-> 1]
Money(kind, who) == [kind |-> kind, who |-> who]
Deposit(kind, k, who) == [kind |-> kind, tbd |-> k, who |-> who]
Bank(name, key, settle) == [kind |-> "BANK_CREATE", name |-> name, key |-> key, settle |-> settle]

MCScenarios ==
    Scenario(Deployed(4), <<>>, {0},
        {<<BondCreate, Create("RATE")>>, <<Create("RATE"), Create("RATE")>>, <<Create("PRICE"), BondCreate>>})
    \cup Scenario(Deployed(4), <<At(4, Admin, [fn |-> "deployBond"])>>, {0},
        {<<BondDisable, BondDisable>>, <<BondDisable, Create("RATE")>>})
    \cup Scenario(Deployed(2), Open, {0, 1},
        {<<Submission(1, nordea), CloseOf(1, FALSE)>>,
         <<Submission(1, nordea), [kind |-> "BIDDER_DELETE", who |-> nordea]>>})
    \cup Scenario(Deployed(2), Bidding(2), {0, 1},
        {<<CloseOf(1, FALSE), CloseOf(1, TRUE)>>, <<Cancel(1), BondDisable>>,
         <<[kind |-> "BIDDER_DELETE", who |-> bea], [kind |-> "BIDDER_CREATE", who |-> newcomer]>>})
    \cup Scenario(Deployed(2), Bidding(2), {0}, {<<Cancel(1), Cancel(1), Create("PRICE")>>})
    \cup Scenario(Deployed(2), Closed(2), {0, 1},
        {<<Finalisation(1, {1, 2}, 2), Finalisation(1, {1}, 1)>>, <<Finalisation(1, {1, 2}, 2), Cancel(1)>>,
         <<Finalisation(1, {1, 2}, 2), Money("WNOK_ALLOWLIST_REMOVE", nordea)>>})
    \cup Scenario(Deployed(0), Reauctioned, {0, 4},
        {<<Finalisation(1, {1}, 1), Cancel(1)>>, <<Finalisation(2, {1}, 1), Create("PRICE")>>})
    \cup Scenario(Deployed(4), <<>>, {0},
        {<<[kind |-> "BIDDER_DELETE", who |-> bea], [kind |-> "BIDDER_DELETE", who |-> nordea],
           [kind |-> "BIDDER_CREATE", who |-> bea]>>})
    \cup Scenario(Deployed(1), Outstanding, {0, 1},
        {<<Coupon({}), Coupon({bea, nordea})>>, <<Coupon({bea}), Money("WNOK_BURN", reserve)>>})
    \cup Scenario(Deployed(4), <<>>, {0},
        {<<Money("WNOK_MINT", bea), Money("WNOK_TRANSFER", newcomer)>>,
         <<Money("WNOK_ALLOWLIST_ADD", newcomer), Money("WNOK_MINT", newcomer)>>,
         <<Deposit("TBD_ALLOWLIST_ADD", 1, bea), Deposit("TBD_MINT", 1, bea)>>,
         <<Deposit("TBD_BURN", 1, bea), Deposit("TBD_TRANSFER", 1, bea)>>,
         <<Bank(acme, newcomer, TRUE), Bank(acme, bea, FALSE)>>,
         <<Bank(acme, newcomer, FALSE), Deposit("TBD_ALLOWLIST_ADD", 2, bea)>>})
=============================================================================
