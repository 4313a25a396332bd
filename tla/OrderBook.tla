------------------------------ MODULE OrderBook ------------------------------
(***************************************************************************)
(* contracts/src/csd/OrderBook.sol and broker/Broker.sol: the order book   *)
(* of one security.  Each side keeps its price levels in a doubly linked   *)
(* list, best price first, and each level its orders in another, oldest    *)
(* first.  The code has every helper twice; here the side is a parameter.  *)
(* A submission is one transaction.  It is cut into the turns of its loops *)
(* so that the book can be looked at between them; nothing else runs until *)
(* the taker is done.                                                      *)
(***************************************************************************)
EXTENDS CsdDvP, Sequences, SequencesExt

CONSTANTS
    MaxPrice,       \* prices are 1 .. MaxPrice; 0 is no price
    StartUnits,     \* what investors and banks begin with
    StartDeposits,
    StartCash,
    Requests,       \* the submissions made: [side, investor, price, amount]
    Issuances,      \* the calls of initializeSellOrders: [investor, price, count]
    MaxOrders,      \* bound on the orders ever made
    Disturbed,      \* investors and WNOK accounts that edits concern
    MaxEdits        \* bound on what others do to balances and allowlists

Sides  == {"buy", "sell"}
Prices == 1 .. MaxPrice

ASSUME OrderBookAssumption ==
    /\ IsFiniteSet(Investors) /\ MaxPrice \in Nat /\ MaxOrders \in Nat /\ MaxEdits \in Nat
    /\ StartUnits \in [Investors -> Nat] /\ StartDeposits \in [Investors -> Nat]
    /\ StartCash \in [CashAccounts -> Nat]
    /\ \A r \in Requests : r.side \in Sides /\ r.investor \in Investors
                            /\ r.price \in Prices /\ r.amount \in Nat \ {0}
    /\ \A c \in Issuances : c.investor \in Investors /\ c.price \in Prices /\ c.count \in Nat

Opposite(s) == IF s = "buy" THEN "sell" ELSE "buy"

VARIABLES
    book,       \* [orders, levels, best]
    taker,      \* the order being matched, or NoTaker
    nonce,      \* _orderIdNonce; the id of an order is its number
    clients,    \* investors registered with the broker
    edits       \* edits so far

ledgers == <<csdVars, tbdVars, cashVars>>
vars == <<ledgers, book, taker, nonce, clients, edits>>

NoTaker    == [phase |-> "idle"]
EmptyLevel == [exists |-> FALSE, head |-> 0, tail |-> 0, volume |-> 0, next |-> 0, prev |-> 0]
EmptyBook  == [orders |-> <<>>,
               levels |-> [s \in Sides |-> [p \in Prices |-> EmptyLevel]],
               best   |-> [s \in Sides |-> 0]]

NewOrder(side, investor, price, amount, revocable) ==
    [side |-> side, investor |-> investor, price |-> price, amount |-> amount,
     revocable |-> revocable, next |-> 0, prev |-> 0]

Better(s, p, q)  == IF s = "buy" THEN p > q ELSE p < q
AtLeast(s, p, q) == p = q \/ Better(s, p, q)

-----------------------------------------------------------------------------
(* The linked lists                                                         *)

\* The level behind which price p belongs, if it is not the best
Before(b, s, p) ==
    LET at[c \in Prices] ==
            LET n == b.levels[s][c].next IN IF n = 0 \/ Better(s, p, n) THEN c ELSE at[n]
    IN  at[b.best[s]]

\* Mutant: a level put between two others is not linked from behind.
InsertForwardOnly(b, s, p) ==
    LET first == b.best[s] IN
    IF first = 0 THEN [b EXCEPT !.best[s] = p]
    ELSE IF Better(s, p, first)
    THEN [b EXCEPT !.best[s] = p, !.levels[s][p].next = first, !.levels[s][first].prev = p]
    ELSE LET c == Before(b, s, p)
         IN  [b EXCEPT !.levels[s][p].next = b.levels[s][c].next, !.levels[s][p].prev = c,
                       !.levels[s][c].next = p]

\* _insertBuyLevel, _insertSellLevel
InsertLevel(b, s, p) ==
    LET first == b.best[s] IN
    IF first = 0 THEN [b EXCEPT !.best[s] = p]
    ELSE IF Better(s, p, first)
    THEN [b EXCEPT !.best[s] = p, !.levels[s][p].next = first, !.levels[s][first].prev = p]
    ELSE LET c == Before(b, s, p)
             n == b.levels[s][c].next
             linked == [b EXCEPT !.levels[s][p].next = n, !.levels[s][p].prev = c,
                                 !.levels[s][c].next = p]
         IN  IF n = 0 THEN linked ELSE [linked EXCEPT !.levels[s][n].prev = p]

\* _ensureBuyLevel, _ensureSellLevel
EnsureLevel(b, s, p) ==
    IF b.levels[s][p].exists THEN b
    ELSE InsertLevel([b EXCEPT !.levels[s][p].exists = TRUE], s, p)

Stored(orders, id, o) == [j \in DOMAIN orders \cup {id} |-> IF j = id THEN o ELSE orders[j]]

\* Mutant: a new order goes to the head of its level.
RestAtHead(b, id, o) ==
    LET made == EnsureLevel([b EXCEPT !.orders = Stored(@, id, o)], o.side, o.price)
        head == made.levels[o.side][o.price].head
        placed == [made EXCEPT !.levels[o.side][o.price].head = id,
                               !.levels[o.side][o.price].volume = @ + o.amount]
    IN  IF head = 0 THEN [placed EXCEPT !.levels[o.side][o.price].tail = id]
        ELSE [placed EXCEPT !.orders[head].prev = id, !.orders[id].next = head]

\* Store an order and append it to its level: _appendToBuyLevel, _appendToSellLevel
RestOrder(b, id, o) ==
    LET made == EnsureLevel([b EXCEPT !.orders = Stored(@, id, o)], o.side, o.price)
        tail == made.levels[o.side][o.price].tail
        placed == [made EXCEPT !.levels[o.side][o.price].tail = id,
                               !.levels[o.side][o.price].volume = @ + o.amount]
    IN  IF tail = 0 THEN [placed EXCEPT !.levels[o.side][o.price].head = id]
        ELSE [placed EXCEPT !.orders[tail].next = id, !.orders[id].prev = tail]

\* _removeBuyLevel, _removeSellLevel
RemoveLevel(b, s, p) ==
    LET before == b.levels[s][p].prev
        after  == b.levels[s][p].next
        gone   == [b EXCEPT !.levels[s][p] = EmptyLevel]
        front  == IF before = 0 THEN [gone EXCEPT !.best[s] = after]
                                ELSE [gone EXCEPT !.levels[s][before].next = after]
    IN  IF after = 0 THEN front ELSE [front EXCEPT !.levels[s][after].prev = before]

\* _removeOrderFromLevel and the delete that follows it everywhere.  What is left of
\* the order leaves the level's volume, and never more than the volume has.
RemoveOrder(b, id) ==
    LET o == b.orders[id]
        s == o.side
        p == o.price
        less  == [b EXCEPT !.levels[s][p].volume = IF @ >= o.amount THEN @ - o.amount ELSE 0]
        front == IF o.prev = 0 THEN [less EXCEPT !.levels[s][p].head = o.next]
                               ELSE [less EXCEPT !.orders[o.prev].next = o.next]
        back  == IF o.next = 0 THEN [front EXCEPT !.levels[s][p].tail = o.prev]
                               ELSE [front EXCEPT !.orders[o.next].prev = o.prev]
        out   == [back EXCEPT !.orders = Restrict(@, DOMAIN @ \ {id})]
    IN  IF out.levels[s][p].head = 0 THEN RemoveLevel(out, s, p) ELSE out

\* Mutant: an order that is filled stays in the book.
FillOnly(b, id, v) ==
    LET o == b.orders[id]
    IN  [b EXCEPT !.orders[id].amount = @ - v, !.levels[o.side][o.price].volume = @ - v]

\* Take v units off an order that has traded.
FillOrder(b, id, v) ==
    LET o == b.orders[id]
        less == [b EXCEPT !.orders[id].amount = @ - v, !.levels[o.side][o.price].volume = @ - v]
    IN  IF o.amount = v THEN RemoveOrder(less, id) ELSE less

\* The elements reached from first by following next, a function that ends in 0
Chain(next, first) ==
    LET from[n \in 0 .. Cardinality(DOMAIN next)] ==
            [x \in DOMAIN next \cup {0} |->
                IF x = 0 \/ n = 0 THEN <<>> ELSE <<x>> \o from[n - 1][next[x]]]
    IN  from[Cardinality(DOMAIN next)][first]

LevelChain(b, s) == Chain([p \in Prices |-> b.levels[s][p].next], b.best[s])
OrderChain(b, s, p) ==
    Chain([id \in DOMAIN b.orders |-> b.orders[id].next], b.levels[s][p].head)

\* _fetchOrders, for every broker and investor: what the links say is in the book
FetchOrders(b, s) ==
    LET chain == LevelChain(b, s)
        upTo[n \in 0 .. Len(chain)] ==
            IF n = 0 THEN <<>> ELSE upTo[n - 1] \o OrderChain(b, s, chain[n])
    IN  upTo[Len(chain)]

-----------------------------------------------------------------------------
(* Matching                                                                 *)

Init ==
    /\ units = StartUnits /\ secListed = Investors
    /\ deposit = StartDeposits /\ tbdListed = Investors
    /\ cash = StartCash /\ allowed = CashAccounts
    /\ book = EmptyBook /\ taker = NoTaker /\ nonce = 0
    /\ clients = Investors /\ edits = 0

Idle == taker = NoTaker

\* Broker.buy and sell, up to the matching: the client is known, and every allowlist
\* the client depends on is asked
Submit(r) ==
    /\ Idle
    /\ nonce < MaxOrders
    /\ r.investor \in clients \cap tbdListed \cap secListed
    /\ BankOf[r.investor] \in allowed
    /\ nonce' = nonce + 1
    /\ taker' = [phase |-> "levels", id |-> nonce + 1, side |-> r.side, investor |-> r.investor,
                 price |-> r.price, amount |-> r.amount, traded |-> 0, level |-> 0, at |-> 0]
    /\ UNCHANGED <<ledgers, book, clients, edits>>

Best == book.best[Opposite(taker.side)]

\* Mutant: prices that meet do not cross.
CrossesStrictly == Best # 0 /\ Better(taker.side, taker.price, Best)

\* The best price on the other side is as good as the taker asks.
Crosses == Best # 0 /\ AtLeast(taker.side, taker.price, Best)

\* Mutant: a level is entered at its youngest order.
EnterLevelAtTail ==
    /\ taker.phase = "levels"
    /\ taker' = IF taker.amount > 0 /\ Crosses
                THEN [taker EXCEPT !.phase = "level", !.level = Best,
                                   !.at = book.levels[Opposite(taker.side)][Best].tail]
                ELSE [taker EXCEPT !.phase = "rest"]
    /\ UNCHANGED <<ledgers, book, nonce, clients, edits>>

\* The outer loop enters the best level, or ends.
EnterLevel ==
    /\ taker.phase = "levels"
    /\ taker' = IF taker.amount > 0 /\ Crosses
                THEN [taker EXCEPT !.phase = "level", !.level = Best,
                                   !.at = book.levels[Opposite(taker.side)][Best].head]
                ELSE [taker EXCEPT !.phase = "rest"]
    /\ UNCHANGED <<ledgers, book, nonce, clients, edits>>

AtMaker == taker.phase = "level" /\ taker.at # 0 /\ taker.amount > 0
Maker == book.orders[taker.at]

Lower(a, b) == IF a < b THEN a ELSE b

\* The reason a trade of v units between the taker and maker m fails, or "none"
TradeFailure(m, v) ==
    IF taker.side = "buy" THEN Failure(m.investor, taker.investor, v, m.price * v)
                          ELSE Failure(taker.investor, m.investor, v, m.price * v)

FaultOf(side) == IF side = "buy" THEN "buyer" ELSE "seller"

\* One turn of the inner loop: the trade settles,
Match ==
    /\ AtMaker
    /\ LET v == Lower(taker.amount, Maker.amount) IN
       /\ TradeFailure(Maker, v) = "none"
       /\ IF taker.side = "buy" THEN Settle(Maker.investor, taker.investor, v, Maker.price * v)
                                ELSE Settle(taker.investor, Maker.investor, v, Maker.price * v)
       /\ book' = FillOrder(book, taker.at, v)
       /\ taker' = [taker EXCEPT !.amount = @ - v, !.traded = @ + v, !.at = Maker.next]
    /\ UNCHANGED <<nonce, clients, edits>>

Failing == AtMaker /\ TradeFailure(Maker, Lower(taker.amount, Maker.amount)) # "none"
Reason == TradeFailure(Maker, Lower(taker.amount, Maker.amount))

\* or the taker is to blame and is dropped, what it has traded staying settled,
DropTaker ==
    /\ Failing
    /\ Reason = FaultOf(taker.side)
    /\ taker' = NoTaker
    /\ UNCHANGED <<ledgers, book, nonce, clients, edits>>

\* or the maker is to blame and is evicted,
EvictMaker ==
    /\ Failing
    /\ Reason = FaultOf(Opposite(taker.side))
    /\ book' = RemoveOrder(book, taker.at)
    /\ taker' = [taker EXCEPT !.at = Maker.next]
    /\ UNCHANGED <<ledgers, nonce, clients, edits>>

\* or nobody is, and a taker that has not traded yet stops here.
PassMaker ==
    /\ Failing
    /\ Reason = "unknown"
    /\ taker' = IF taker.traded = 0 THEN [taker EXCEPT !.phase = "rest"]
                                    ELSE [taker EXCEPT !.at = Maker.next]
    /\ UNCHANGED <<ledgers, book, nonce, clients, edits>>

\* Mutant: a level that is still the best is walked again.
LeaveLevelAnyway ==
    /\ taker.phase = "level"
    /\ ~AtMaker
    /\ taker' = [taker EXCEPT !.phase = "levels"]
    /\ UNCHANGED <<ledgers, book, nonce, clients, edits>>

\* The level has been walked.  One that is still the best would not do better.
LeaveLevel ==
    /\ taker.phase = "level"
    /\ ~AtMaker
    /\ taker' = [taker EXCEPT !.phase = IF Best = taker.level THEN "rest" ELSE "levels"]
    /\ UNCHANGED <<ledgers, book, nonce, clients, edits>>

\* buy and sell, after the matching: what remains rests in the book
Finish ==
    /\ taker.phase = "rest"
    /\ book' = IF taker.amount = 0 THEN book
               ELSE RestOrder(book, taker.id, NewOrder(taker.side, taker.investor, taker.price,
                                                       taker.amount, TRUE))
    /\ taker' = NoTaker
    /\ UNCHANGED <<ledgers, nonce, clients, edits>>

MatchTurn == Match \/ DropTaker \/ EvictMaker \/ PassMaker
Matching  == EnterLevel \/ MatchTurn \/ LeaveLevel \/ Finish

-----------------------------------------------------------------------------
(* The other operations                                                     *)

\* Book b after c.count sell orders over one unit each, numbered from n + 1
Offered(b, n, c) ==
    LET rested[k \in 0 .. c.count] ==
            IF k = 0 THEN b
            ELSE RestOrder(rested[k - 1], n + k, NewOrder("sell", c.investor, c.price, 1, FALSE))
    IN  rested[c.count]

\* initializeSellOrders: orders that no broker can revoke, put into the book without
\* looking at the other side
InitializeSellOrders(c) ==
    /\ Idle
    /\ nonce + c.count <= MaxOrders
    /\ nonce' = nonce + c.count
    /\ book' = Offered(book, nonce, c)
    /\ UNCHANGED <<ledgers, taker, clients, edits>>

\* Broker.revokeBuyOrder and revokeSellOrder: a client revokes its own order
Revoke(id) ==
    /\ Idle
    /\ book.orders[id].investor \in clients
    /\ book.orders[id].revocable
    /\ book' = RemoveOrder(book, id)
    /\ UNCHANGED <<ledgers, taker, nonce, clients, edits>>

\* ClientList.addClient and removeClient
RegisterClient(i) == clients' = (IF i \in clients THEN clients \ {i} ELSE clients \cup {i})

\* The central bank edits the WNOK allowlist: Allowlist.add and remove
ListAccount(a) == IF a \in allowed THEN Disallow(a) ELSE Allow(a)

\* What banks, holders, the central bank and the registries do meanwhile
Edit ==
    /\ Idle
    /\ edits < MaxEdits
    /\ edits' = edits + 1
    /\ \/ \E i \in Disturbed \cap Investors : RegisterClient(i) /\ UNCHANGED ledgers
       \/ /\ \E i \in Disturbed \cap Investors : MintDeposit(i, 1) \/ BurnDeposit(i, 1) \/ ListDepositor(i)
          /\ UNCHANGED <<csdVars, cashVars, clients>>
       \/ /\ \E i \in Disturbed \cap Investors :
                ListHolder(i) \/ (\E j \in Investors \ {i} : MoveUnits(i, j, 1))
          /\ UNCHANGED <<tbdVars, cashVars, clients>>
       \/ /\ \E a \in Disturbed \cap CashAccounts : ListAccount(a) \/ BurnCash(a, 1)
          /\ UNCHANGED <<csdVars, tbdVars, clients>>
    /\ UNCHANGED <<book, taker, nonce>>

Next ==
    \/ \E r \in Requests : Submit(r)
    \/ Matching
    \/ \E c \in Issuances : InitializeSellOrders(c)
    \/ \E id \in DOMAIN book.orders : Revoke(id)
    \/ Edit

Spec == Init /\ [][Next]_vars

\* A submission is one transaction: the loops run to their end.
FairSpec == Spec /\ WF_vars(Matching)
=============================================================================
