----------------------------- MODULE Histories ------------------------------
(* Two bidders, one of them a bank of the fixture, and the stages of a        *)
(* bond's life as histories of calls: where the instances for TLC begin.      *)
EXTENDS Handlers

CONSTANTS bea, nordea, newcomer, cb, reserve, manager, fixture, acme

MCFixtureBanks == {[name |-> fixture, key |-> nordea]}

\* The state a deployment leaves, at time t
Deployed(t) ==
    [NoMarket EXCEPT !.time = t, !.tbds = <<NewTbd(nordea)>>, !.registry[fixture] = 1,
                     !.listed = @ \cup Bidders, !.cash = [a \in CashAccounts |-> 4]]

At(t, from, call) == [time |-> t, from |-> from, call |-> call]
History(w, calls) ==
    FoldLeft(LAMBDA h, c : Append(h, [Effect(Last(h), c.from, c.call, c.time) EXCEPT !.time = c.time]),
             <<w>>, calls)

\* Auctions and bids sealed with keypair 1, that of the process, unless said otherwise
Auction(type, size, end, fresh) ==
    [fn |-> "deployAuction", type |-> type, size |-> size, end |-> end, key |-> 1, fresh |-> fresh]
SealedBid(k, who, rate, key) ==
    At(3, who, [fn |-> "submitBid", auction |-> k, bid |-> BuildSealedBid(who, Isin, k, rate, 1, key)])
BidAt(t, who, k, rate) == [SealedBid(k, who, rate, 1) EXCEPT !.time = t]
Allocations(type) == <<[bidder |-> bea, units |-> 1, rate |-> 2, index |-> 1, type |-> type],
                       [bidder |-> nordea, units |-> 1, rate |-> 2, index |-> 2, type |-> type]>>

Close == [fn |-> "closeAuction"]
Bidding(t) == <<At(t, Admin, Auction("RATE", 2, t + 1, TRUE)), BidAt(t + 1, bea, 1, 1)>>
Open == <<At(2, Admin, Auction("RATE", 2, 3, TRUE)), BidAt(2, bea, 1, 1)>>
Closed(t)  == Bidding(t) \o <<BidAt(t + 1, nordea, 1, 2), At(t + 2, Admin, Close)>>
Outstanding == Closed(1) \o
    <<At(3, Admin, [fn |-> "finaliseAuction", auction |-> 1, type |-> "RATE",
                    allocations |-> Allocations("RATE")])>>
Reauctioned == Closed(0) \o
    <<At(2, Admin, [fn |-> "cancelAuction"]), At(2, Admin, Auction("PRICE", 1, 3, FALSE)),
      BidAt(3, bea, 2, 1), At(4, Admin, Close)>>
Repaid == Outstanding \o <<At(4, Admin, [fn |-> "payCoupon", holders |-> {bea, nordea, manager}])>>
Buyback(size) == <<At(3, Admin, Auction("BUYBACK", size, 4, FALSE))>>
=============================================================================
