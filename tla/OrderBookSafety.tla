--------------------------- MODULE OrderBookSafety ---------------------------
(* What the order book, its trades and its matching must keep.              *)
EXTENDS OrderBook

OrderIds == DOMAIN book.orders

\* The state has its types, and an order in the book has something left to trade.
TypeOK ==
    /\ CsdTypeOK /\ TbdTypeOK /\ CashTypeOK
    /\ nonce \in 0 .. MaxOrders /\ edits \in 0 .. MaxEdits /\ clients \subseteq Investors
    /\ OrderIds \subseteq 1 .. nonce
    /\ \A id \in OrderIds : book.orders[id].amount > 0
    /\ book.best \in [Sides -> 0 .. MaxPrice]

Previous(q, k) == IF k = 1 THEN 0 ELSE q[k - 1]
At(s, p) == {id \in OrderIds : book.orders[id].side = s /\ book.orders[id].price = p}

\* The levels of a side, followed from the best price, are those that exist, in the
\* order of their prices, and each is linked back to the one before it.
LevelsLinked(s) ==
    LET chain == LevelChain(book, s)  level == book.levels[s] IN
    /\ Range(chain) = {p \in Prices : level[p].exists}
    /\ \A k \in DOMAIN chain : level[chain[k]].prev = Previous(chain, k)
    /\ \A j, k \in DOMAIN chain : j < k => Better(s, chain[j], chain[k])
    /\ \A p \in Prices : ~level[p].exists => level[p] = EmptyLevel

\* The orders of a level, followed from its head, are the ones at its price; the tail
\* is the last of them, each is linked back, and the volume is what they have left.
OrdersLinked(s, p) ==
    LET chain == OrderChain(book, s, p)  level == book.levels[s][p] IN
    /\ Range(chain) = At(s, p)
    /\ level.exists = (chain # <<>>)
    /\ chain # <<>> => level.tail = Last(chain)
    /\ \A k \in DOMAIN chain : book.orders[chain[k]].prev = Previous(chain, k)
    /\ level.volume = SumFunctionOnSet([id \in OrderIds |-> book.orders[id].amount], At(s, p))

\* Inserts, fills, evictions and revocations in any order leave both lists of both
\* sides whole: no order is lost from the book, and none is left behind in it.
LinksConsistent == \A s \in Sides : LevelsLinked(s) /\ \A p \in Prices : OrdersLinked(s, p)

Entry(id) == [id |-> id, price |-> book.orders[id].price, amount |-> book.orders[id].amount]
Entries(s) == LET q == FetchOrders(book, s) IN [k \in DOMAIN q |-> Entry(q[k])]
Queue == [buy |-> Entries("buy"), sell |-> Entries("sell")]

Abstract == INSTANCE PriceTimeBook WITH queue <- Queue

\* Read through its links the book is a queue in price and time order, and trades take
\* from the best price only.
ImplementsBook == Abstract!Spec

-----------------------------------------------------------------------------
Ahead(id) ==
    LET q == FetchOrders(book, book.orders[id].side)
    IN  {q[k] : k \in {j \in DOMAIN q : \E n \in DOMAIN q : j < n /\ q[n] = id}}

\* An order trades before one that is ahead of it in its level only when the one ahead
\* cannot be settled with this taker.
OldestFirst ==
    [][Match => \A j \in Ahead(taker.at) : TradeFailure(book.orders[j], 1) # "none"]_vars

\* What the investor of an order needs to do its part of a trade of v units at price p,
\* its bank's part included
CanDeliver(o, v, p) ==
    /\ o.investor \in secListed \cap tbdListed
    /\ IF o.side = "sell" THEN units[o.investor] >= v
       ELSE deposit[o.investor] >= p * v /\ cash[BankOf[o.investor]] >= p * v

\* Orders leave the book unfilled only when their client revokes them or when their own
\* side cannot deliver, and an incoming order is dropped only then: the other side's
\* failure never costs an order its place (OrderBook.sol:122-138, DvP.sol:68-155).
LeavesForCause ==
    [][/\ \A id \in OrderIds \ OrderIds' :
             \/ Match
             \/ Idle /\ book.orders[id].revocable
             \/ LET o == book.orders[id] IN ~CanDeliver(o, Lower(taker.amount, o.amount), o.price)
       /\ taker # NoTaker /\ taker' = NoTaker /\ taker.phase = "level"
             => ~CanDeliver(taker, Lower(taker.amount, Maker.amount), Maker.price)]_vars

\* However an order is matched, the deposits of a bank and its reserves move together,
\* and no units appear or vanish.
ReservesFollowDeposits ==
    [][~Idle => /\ \A b \in Banks : Unbacked(b)' = Unbacked(b)
                /\ SumFunction(units') = SumFunction(units)]_vars

\* A taker comes to rest at a price that the other side's best one meets.
LeftCrossed ==
    /\ taker.phase = "rest" /\ taker.amount > 0
    /\ Best # 0 /\ AtLeast(taker.side, taker.price, Best)

\* How far the matching has gone when it leaves the book crossed: a taker that has traded
\* can be settled with none of the orders at the other side's best price, and one that has
\* not was stopped by the oldest of them, for a reason that blames neither side.  It does
\* not say that the book is never left crossed between orders that could trade: in both
\* cases the code gives up before it tries what stands behind, the younger orders of the
\* level when nothing has traded yet and the worse levels always (OrderBook.sol:130-144,
\* 208-222).
CrossedOnlyByFailure ==
    [][LeftCrossed =>
         LET facing == At(Opposite(taker.side), Best)
             FailureWith(id) == TradeFailure(book.orders[id], Lower(taker.amount, book.orders[id].amount))
         IN  IF taker.traded > 0 THEN \A id \in facing : FailureWith(id) # "none"
             ELSE \E id \in facing : /\ \A j \in facing : id <= j
                                     /\ FailureWith(id) = "unknown"]_vars

\* A submission ends, whatever fails on the way: no order can make the loops walk the
\* same level for ever.
SubmissionEnds == ~Idle ~> Idle
=============================================================================
