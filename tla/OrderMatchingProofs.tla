------------------------ MODULE OrderMatchingProofs -------------------------
(***************************************************************************)
(* What matching keeps, for any book that submissions, issues and          *)
(* revocations can make, any ledgers and any failures of settlement.       *)
(*                                                                         *)
(* OBInv is the inductive invariant: the ledgers are typed, the book is    *)
(* kept (OrderBookProofs) and the taker, while it walks a level, looks at  *)
(* an order of that level.  WalkInv adds what the walk has left behind:    *)
(* of the level it walks, what it has passed cannot be settled with it.    *)
(* The last part shows a side, read through its links, to be the one queue *)
(* of its orders by price and time, and each step a step of PriceTimeBook. *)
(***************************************************************************)
EXTENDS OrderBookProofs, SequenceTheorems

-----------------------------------------------------------------------------
(* Trades                                                                   *)

Blames(f, s, t, sec, cct) ==
    /\ f \in {"none", "buyer", "seller", "unknown"}
    /\ f = "none" => sec = "none" /\ cct = "none"
    /\ f = "buyer" => \/ sec = "buyerNotListed"
                      \/ sec = "sellerNotListed" /\ s = t
                      \/ sec = "none" /\ cct = "balance"
    /\ f = "seller" => \/ sec = "sellerNotListed" \/ sec = "balance"
                       \/ sec = "none" /\ cct = "payeeNotListed"
                       \/ sec = "none" /\ cct = "payerNotListed" /\ s = t
    /\ f = "unknown" => cct = "payerNotListed" \/ cct = "bankNotListed"

\* Who is blamed for which error
LEMMA FailureIs ==
    ASSUME NEW s, NEW t, NEW v, NEW w, NEW sec, sec = CustodialError(s, t, v), NEW cct, cct = CctError(t, s, w),
           NEW f, f = Failure(s, t, v, w)
    PROVE  Blames(f, s, t, sec, cct)
<1>1. sec \in {"sellerNotListed", "buyerNotListed", "balance", "none"}
  BY DEF CustodialError
<1>2. cct \in {"payerNotListed", "payeeNotListed", "balance", "bankNotListed", "none"}
  BY DEF CctError
<1>3. CASE sec = "buyerNotListed"
  <2>1. f = "buyer"
    BY <1>3 DEF Failure
  <2> QED BY <1>3, <2>1 DEF Blames
<1>4. CASE sec = "sellerNotListed"
  <2>1. CASE s = t
    <3>1. f = "buyer"
      BY <1>4, <2>1 DEF Failure
    <3> QED BY <1>4, <2>1, <3>1 DEF Blames
  <2>2. CASE s # t
    <3>1. f = "seller"
      BY <1>4, <2>2 DEF Failure
    <3> QED BY <1>4, <2>2, <3>1 DEF Blames
  <2> QED BY <2>1, <2>2
<1>5. CASE sec = "balance"
  <2>1. f = "seller"
    BY <1>5 DEF Failure
  <2> QED BY <1>5, <2>1 DEF Blames
<1>6. CASE sec = "none"
  <2>1. CASE cct = "none"
    <3>1. f = "none"
      BY <1>6, <2>1 DEF Failure
    <3> QED BY <1>6, <2>1, <3>1 DEF Blames
  <2>2. CASE cct = "balance"
    <3>1. f = "buyer"
      BY <1>6, <2>2 DEF Failure
    <3> QED BY <1>6, <2>2, <3>1 DEF Blames
  <2>3. CASE cct = "payeeNotListed"
    <3>1. f = "seller"
      BY <1>6, <2>3 DEF Failure
    <3> QED BY <1>6, <2>3, <3>1 DEF Blames
  <2>4. CASE cct = "payerNotListed"
    <3>1. CASE s = t
      <4>1. f = "seller"
        BY <1>6, <2>4, <3>1 DEF Failure
      <4> QED BY <1>6, <2>4, <3>1, <4>1 DEF Blames
    <3>2. CASE s # t
      <4>1. f = "unknown"
        BY <1>6, <2>4, <3>2 DEF Failure
      <4> QED BY <1>6, <2>4, <3>2, <4>1 DEF Blames
    <3> QED BY <3>1, <3>2
  <2>5. CASE cct = "bankNotListed"
    <3>1. f = "unknown"
      BY <1>6, <2>5 DEF Failure
    <3> QED BY <1>6, <2>5, <3>1 DEF Blames
  <2> QED BY <1>2, <2>1, <2>2, <2>3, <2>4, <2>5
<1> QED BY <1>1, <1>3, <1>4, <1>5, <1>6

LedgersTyped == CsdTypeOK /\ TbdTypeOK /\ CashTypeOK

\* What a trade that does not fail finds
LEMMA TradeCovered ==
    ASSUME NEW s, NEW t, NEW v, NEW w, Failure(s, t, v, w) = "none"
    PROVE  /\ s \in secListed /\ t \in secListed /\ t \in tbdListed
           /\ ~(units[s] < v) /\ ~(deposit[t] < w)
           /\ BankOf[t] = BankOf[s] \/ ~(cash[BankOf[t]] < w)
<1>1. CustodialError(s, t, v) = "none" /\ CctError(t, s, w) = "none"
  BY FailureIs DEF Blames
<1>2. s \in secListed /\ t \in secListed /\ ~(units[s] < v)
  BY <1>1 DEF CustodialError
<1>3. t \in tbdListed /\ ~(deposit[t] < w) /\ (BankOf[t] = BankOf[s] \/ ~(cash[BankOf[t]] < w))
  BY <1>1 DEF CctError
<1> QED BY <1>2, <1>3

LEMMA SettleTyped ==
    ASSUME LedgersTyped, NEW s \in Investors, NEW t \in Investors, NEW v \in Nat, NEW w \in Nat,
           Failure(s, t, v, w) = "none", Settle(s, t, v, w)
    PROVE  LedgersTyped'
<1>1. units \in [Investors -> Nat] /\ deposit \in [Investors -> Nat] /\ cash \in [CashAccounts -> Nat]
  BY DEF LedgersTyped, CsdTypeOK, TbdTypeOK, CashTypeOK
<1>2. ~(units[s] < v) /\ ~(deposit[t] < w) /\ (BankOf[t] = BankOf[s] \/ ~(cash[BankOf[t]] < w))
  BY TradeCovered
<1>3. BankOf[s] \in CashAccounts /\ BankOf[t] \in CashAccounts
  BY TbdAssumption
<1>4. units' \in [Investors -> Nat]
  <2>1. CASE s = t
    BY <1>1, <2>1 DEF Settle
  <2>2. CASE s # t
    BY <1>1, <1>2, <2>2 DEF Settle
  <2> QED BY <2>1, <2>2
<1>5. deposit' \in [Investors -> Nat]
  <2>1. CASE s = t
    BY <1>1, <2>1 DEF Settle, Cct
  <2>2. CASE s # t
    BY <1>1, <1>2, <2>2 DEF Settle, Cct
  <2> QED BY <2>1, <2>2
<1>6. cash' \in [CashAccounts -> Nat]
  <2>1. CASE BankOf[t] = BankOf[s]
    BY <1>1, <2>1 DEF Settle, Cct, MovedCash
  <2>2. CASE BankOf[t] # BankOf[s]
    BY <1>1, <1>2, <1>3, <2>2 DEF Settle, Cct, MovedCash
  <2> QED BY <2>1, <2>2
<1> QED BY <1>4, <1>5, <1>6 DEF LedgersTyped, CsdTypeOK, TbdTypeOK, CashTypeOK, Settle, Cct

-----------------------------------------------------------------------------
(* The invariant                                                            *)

TakerSet == [phase : {"levels", "level", "rest"}, id : Nat, side : Sides, investor : Investors, price : Prices,
             amount : Nat, traded : Nat, level : Nat, at : Nat]

\* The taker has the last number, which no order in the book has, and while a level is
\* walked it looks at an order of that level.
TakerInv(b, t, n) ==
    t # NoTaker =>
      /\ t \in TakerSet /\ t.id = n /\ n \notin DOMAIN b.orders /\ n # 0
      /\ t.phase = "level" => /\ t.level \in Prices
                              /\ t.at = 0 \/ t.at \in OrdersAt(b, Opposite(t.side), t.level)

CountersTyped == nonce \in Nat /\ nonce <= MaxOrders /\ edits \in Nat /\ edits <= MaxEdits /\ clients \subseteq Investors

OBInv == LedgersTyped /\ CountersTyped /\ Kept(book, nonce) /\ TakerInv(book, taker, nonce)

LEMMA TypesFollow ==
    ASSUME OBInv PROVE TypeOK
<1>1. TypedBook(book) /\ DOMAIN book.orders \subseteq 1 .. nonce /\ \A j \in DOMAIN book.orders : book.orders[j].amount > 0
  BY DEF OBInv, Kept, BookInv
<1>2. \A s \in Sides : book.best[s] \in 0 .. MaxPrice
  <2> TAKE s \in Sides
  <2>1. IsFirst(s, LevelsOf(book, s), book.best[s])
    BY DEF OBInv, Kept, BookInv, SideInv
  <2>2. LevelsOf(book, s) \subseteq 1 .. MaxPrice /\ MaxPrice \in Nat
    BY OrderBookAssumption DEF LevelsOf, Prices
  <2> QED BY <2>1, <2>2 DEF IsFirst
<1>3. book.best \in [Sides -> 0 .. MaxPrice]
  BY <1>1, <1>2 DEF TypedBook
<1>4. nonce \in 0 .. MaxOrders /\ edits \in 0 .. MaxEdits /\ clients \subseteq Investors
  BY OrderBookAssumption DEF OBInv, CountersTyped
<1> QED BY <1>1, <1>3, <1>4 DEF TypeOK, OrderIds, OBInv, LedgersTyped

LEMMA EmptyKept == Kept(EmptyBook, 0)
<1> DEFINE b == EmptyBook
<1>1. /\ DOMAIN b = {"orders", "levels", "best"} /\ DOMAIN b.orders = {}
      /\ b.levels = [s \in Sides |-> [p \in Prices |-> EmptyLevel]] /\ b.best = [s \in Sides |-> 0]
  BY DEF EmptyBook
<1>2. b.orders = <<>>
  BY DEF EmptyBook
<1> HIDE DEF b
<1>3. EmptyLevel \in LevelSet /\ EmptyLevel.exists = FALSE /\ EmptyLevel.head = 0 /\ EmptyLevel.tail = 0
  BY DEF EmptyLevel, LevelSet
<1>4. b.orders \in [DOMAIN b.orders -> OrderSet]
  <2>1. b.orders = [j \in {} |-> b.orders[j]]
    BY <1>2
  <2> QED BY <1>1, <2>1
<1>5. TypedBook(b)
  BY <1>1, <1>3, <1>4 DEF TypedBook
<1>6. \A s \in Sides : LevelsOf(b, s) = {} /\ b.best[s] = 0 /\ \A p \in Prices : b.levels[s][p] = EmptyLevel
  BY <1>1, <1>3 DEF LevelsOf
<1>7. \A s \in Sides : SideInv(b, s)
  BY <1>6 DEF SideInv, Linked, IsFirst
<1>8. \A s \in Sides, p \in Prices : OrdersAt(b, s, p) = {}
  BY <1>1 DEF OrdersAt
<1>9. \A s \in Sides, p \in Prices : PlaceInv(b, s, p) /\ (p \in LevelsOf(b, s) <=> OrdersAt(b, s, p) # {})
  BY <1>3, <1>6, <1>8 DEF PlaceInv, Linked, IsFirst
<1>10. BookInv(b)
  BY <1>5, <1>7, <1>9 DEF BookInv
<1>11. \A s \in Sides, p \in Prices : b.levels[s][p].volume = 0
  BY <1>1 DEF EmptyLevel
<1>12. \A s \in Sides, p \in Prices : VolumeAt(b, s, p) = 0
  BY <1>8, SumEmpty DEF VolumeAt
<1> QED BY <1>1, <1>10, <1>11, <1>12 DEF Kept, VolumesHold, b

LEMMA OBInit == Init => OBInv
<1> SUFFICES ASSUME Init PROVE OBInv
  OBVIOUS
<1>1. LedgersTyped
  BY OrderBookAssumption DEF Init, LedgersTyped, CsdTypeOK, TbdTypeOK, CashTypeOK
<1>2. CountersTyped
  BY OrderBookAssumption DEF Init, CountersTyped
<1>3. Kept(book, nonce) /\ taker = NoTaker
  BY EmptyKept DEF Init
<1> QED BY <1>1, <1>2, <1>3 DEF OBInv, TakerInv

-----------------------------------------------------------------------------
(* The steps                                                                *)

LEMMA IdleTaker ==
    ASSUME NEW b, NEW t, NEW n, t = NoTaker PROVE TakerInv(b, t, n)
BY DEF TakerInv

LEMMA TakerIs ==
    ASSUME OBInv, NEW ph, taker.phase = ph, ph \in {"levels", "level", "rest"}
    PROVE  /\ taker # NoTaker /\ taker \in TakerSet /\ taker.id = nonce /\ nonce \notin DOMAIN book.orders /\ nonce # 0
           /\ ph = "level" => /\ taker.level \in Prices
                              /\ taker.at = 0 \/ taker.at \in OrdersAt(book, Opposite(taker.side), taker.level)
<1>1. NoTaker.phase = "idle"
  BY DEF NoTaker
<1> QED BY <1>1 DEF OBInv, TakerInv

LEMMA SubmitKeeps ==
    ASSUME OBInv, NEW r \in Requests, Submit(r) PROVE OBInv'
<1>1. LedgersTyped'
  BY DEF OBInv, LedgersTyped, CsdTypeOK, TbdTypeOK, CashTypeOK, Submit, ledgers, csdVars, tbdVars, cashVars
<1>2. nonce \in Nat /\ MaxOrders \in Nat /\ nonce < MaxOrders /\ nonce' = nonce + 1 /\ book' = book
  BY OrderBookAssumption DEF OBInv, CountersTyped, Submit
<1>3. CountersTyped'
  BY <1>2 DEF OBInv, CountersTyped, Submit
<1>4. Kept(book', nonce')
  BY <1>2 DEF OBInv, Kept
<1>5. /\ taker' \in TakerSet /\ taker'.id = nonce' /\ taker'.phase = "levels"
  <2>1. r.side \in Sides /\ r.investor \in Investors /\ r.price \in Prices /\ r.amount \in Nat
    BY OrderBookAssumption
  <2>2. nonce + 1 \in Nat
    BY <1>2
  <2> QED BY <1>2, <2>1, <2>2 DEF Submit, TakerSet
<1>6. nonce' \notin DOMAIN book'.orders /\ nonce' # 0
  BY <1>2 DEF OBInv, Kept
<1>7. TakerInv(book', taker', nonce')
  BY <1>5, <1>6 DEF TakerInv
<1> QED BY <1>1, <1>3, <1>4, <1>7 DEF OBInv

LEMMA BestIs ==
    ASSUME OBInv, taker \in TakerSet
    PROVE  /\ Best = 0 \/ Best \in LevelsOf(book, Opposite(taker.side))
           /\ LevelsOf(book, Opposite(taker.side)) \subseteq Prices
<1>1. Opposite(taker.side) \in Sides
  BY Order DEF TakerSet
<1>2. IsFirst(Opposite(taker.side), LevelsOf(book, Opposite(taker.side)), Best)
  BY <1>1 DEF OBInv, Kept, BookInv, SideInv, Best
<1> QED BY <1>2 DEF IsFirst, LevelsOf

LEMMA HeadIs ==
    ASSUME OBInv, NEW s \in Sides, NEW p \in Prices
    PROVE  LET h == book.levels[s][p].head
           IN  h \in Nat /\ (h = 0 \/ h \in OrdersAt(book, s, p))
<1>1. TypedBook(book) /\ PlaceInv(book, s, p)
  BY DEF OBInv, Kept, BookInv
<1>2. IsFirst("sell", OrdersAt(book, s, p), book.levels[s][p].head)
  BY <1>1 DEF PlaceInv
<1>3. OrdersAt(book, s, p) \subseteq Nat \ {0}
  BY <1>1, IdsAreNumbers
<1> QED BY <1>2, <1>3 DEF IsFirst

LEMMA EnterLevelKeeps ==
    ASSUME OBInv, EnterLevel PROVE OBInv'
<1>1. LedgersTyped'
  BY DEF OBInv, LedgersTyped, CsdTypeOK, TbdTypeOK, CashTypeOK, EnterLevel, ledgers, csdVars, tbdVars, cashVars
<1>2. CountersTyped' /\ Kept(book', nonce') /\ book' = book /\ nonce' = nonce
  BY DEF OBInv, CountersTyped, EnterLevel
<1>3. taker \in TakerSet /\ taker.id = nonce /\ nonce \notin DOMAIN book.orders /\ nonce # 0
  BY TakerIs DEF EnterLevel
<1>4. CASE taker.amount > 0 /\ Crosses
  <2>1. Best # 0 /\ Best \in Prices
    BY <1>3, <1>4, BestIs DEF Crosses
  <2>2. Opposite(taker.side) \in Sides
    BY <1>3, Order DEF TakerSet
  <2> DEFINE h == book.levels[Opposite(taker.side)][Best].head
             b == Best
  <2>3. h \in Nat /\ (h = 0 \/ h \in OrdersAt(book, Opposite(taker.side), b))
    BY <2>1, <2>2, HeadIs
  <2>4. taker' = [taker EXCEPT !.phase = "level", !.level = b, !.at = h]
    BY <1>4 DEF EnterLevel
  <2> HIDE DEF h
  <2>5. b \in Nat /\ b \in Prices
    BY <2>1 DEF Prices
  <2> HIDE DEF b
  <2>6. taker' \in TakerSet /\ taker'.id = taker.id /\ taker'.level = b /\ taker'.at = h /\ taker'.side = taker.side
    BY <1>3, <2>3, <2>4, <2>5 DEF TakerSet
  <2> QED BY <1>1, <1>2, <1>3, <2>3, <2>5, <2>6 DEF OBInv, TakerInv
<1>5. CASE ~(taker.amount > 0 /\ Crosses)
  <2>1. taker' = [taker EXCEPT !.phase = "rest"]
    BY <1>5 DEF EnterLevel
  <2>2. taker' \in TakerSet /\ taker'.id = taker.id /\ taker'.phase = "rest"
    BY <1>3, <2>1 DEF TakerSet
  <2> QED BY <1>1, <1>2, <1>3, <2>2 DEF OBInv, TakerInv
<1> QED BY <1>4, <1>5

\* The order the taker looks at, and what follows it
LEMMA MakerIs ==
    ASSUME OBInv, AtMaker
    PROVE  /\ taker # NoTaker /\ taker \in TakerSet /\ taker.id = nonce /\ nonce \notin DOMAIN book.orders /\ nonce # 0
           /\ taker.phase = "level" /\ taker.level \in Prices /\ taker.amount \in Nat
           /\ taker.at \in DOMAIN book.orders /\ Present(book, taker.at) /\ Maker \in OrderSet
           /\ Maker.side = Opposite(taker.side) /\ Maker.price = taker.level /\ Maker.amount > 0
           /\ Maker.next \in Nat
           /\ Maker.next = 0 \/ Maker.next \in OrdersAt(book, Opposite(taker.side), taker.level) \ {taker.at}
<1>1. /\ taker # NoTaker /\ taker \in TakerSet /\ taker.id = nonce /\ nonce \notin DOMAIN book.orders /\ nonce # 0
      /\ taker.level \in Prices /\ taker.at \in OrdersAt(book, Opposite(taker.side), taker.level)
      /\ taker.phase = "level"
  BY TakerIs DEF AtMaker
<1>2. taker.at \in DOMAIN book.orders /\ Maker.side = Opposite(taker.side) /\ Maker.price = taker.level
  BY <1>1 DEF OrdersAt, Maker
<1>3. Present(book, taker.at)
  BY <1>2 DEF Present, OBInv, Kept
<1>4. /\ Maker \in OrderSet /\ Maker.next \in Nat
      /\ Maker.next = 0 \/ Maker.next \in OrdersAt(book, Maker.side, Maker.price) \ {taker.at}
  BY <1>3, OrderPresent DEF Maker
<1>5. Maker.amount > 0
  BY <1>2 DEF OBInv, Kept, Maker
<1>6. taker.amount \in Nat
  BY <1>1 DEF TakerSet
<1> QED BY <1>1, <1>2, <1>3, <1>4, <1>5, <1>6

\* After a trade or an eviction the taker looks at the next order of the level.
LEMMA NextMaker ==
    ASSUME OBInv, AtMaker, NEW a \in Nat, NEW d \in Nat,
           taker' = [taker EXCEPT !.amount = a, !.traded = d, !.at = Maker.next],
           nonce' = nonce, DOMAIN book'.orders \subseteq DOMAIN book.orders,
           \A s, p : OrdersAt(book, s, p) \ {taker.at} \subseteq OrdersAt(book', s, p)
    PROVE  TakerInv(book', taker', nonce')
<1> DEFINE n == Maker.next
<1>1. /\ taker \in TakerSet /\ taker.id = nonce /\ nonce \notin DOMAIN book.orders /\ nonce # 0
      /\ taker.phase = "level" /\ taker.level \in Prices /\ n \in Nat
      /\ n = 0 \/ n \in OrdersAt(book, Opposite(taker.side), taker.level) \ {taker.at}
  BY MakerIs
<1> HIDE DEF n
<1>2. /\ taker' \in TakerSet /\ taker'.id = taker.id /\ taker'.level = taker.level /\ taker'.at = n
      /\ taker'.side = taker.side
  <2>1. taker' = [taker EXCEPT !.amount = a, !.traded = d, !.at = n]
    BY DEF n
  <2> QED BY <1>1, <2>1 DEF TakerSet
<1>3. n = 0 \/ n \in OrdersAt(book', Opposite(taker.side), taker.level)
  BY <1>1
<1> QED BY <1>1, <1>2, <1>3 DEF TakerInv

LEMMA MatchKeeps ==
    ASSUME OBInv, Match PROVE OBInv'
<1> DEFINE v == Lower(taker.amount, Maker.amount)
           m == Maker
<1>1. AtMaker
  BY DEF Match
<1>2. /\ taker \in TakerSet /\ taker.amount \in Nat /\ m \in OrderSet /\ taker.at \in DOMAIN book.orders
      /\ Maker = book.orders[taker.at]
  BY <1>1, MakerIs DEF Maker
<1>3. m.amount \in Nat /\ m.price \in Nat /\ m.investor \in Investors /\ taker.investor \in Investors
      /\ taker.traded \in Nat
  BY <1>2 DEF OrderSet, TakerSet, Prices
<1>4. v \in Nat /\ v <= taker.amount /\ v <= m.amount
  BY <1>2, <1>3 DEF Lower
<1>5. m.price * v \in Nat
  BY <1>3, <1>4
<1>6. /\ TradeFailure(m, v) = "none"
      /\ IF taker.side = "buy" THEN Settle(m.investor, taker.investor, v, m.price * v)
                               ELSE Settle(taker.investor, m.investor, v, m.price * v)
      /\ book' = FillOrder(book, taker.at, v)
      /\ taker' = [taker EXCEPT !.amount = @ - v, !.traded = @ + v, !.at = m.next]
      /\ nonce' = nonce /\ clients' = clients /\ edits' = edits
  BY DEF Match
<1> HIDE DEF v, m
<1>7. LedgersTyped'
  <2> DEFINE w == m.price * v
  <2>1. w \in Nat
    BY <1>5
  <2>2. CASE taker.side = "buy"
    <3>1. Failure(m.investor, taker.investor, v, w) = "none" /\ Settle(m.investor, taker.investor, v, w)
      BY <1>6, <2>2 DEF TradeFailure
    <3> HIDE DEF w
    <3> QED BY <1>3, <1>4, <2>1, <3>1, SettleTyped DEF OBInv
  <2>3. CASE taker.side # "buy"
    <3>1. Failure(taker.investor, m.investor, v, w) = "none" /\ Settle(taker.investor, m.investor, v, w)
      BY <1>6, <2>3 DEF TradeFailure
    <3> HIDE DEF w
    <3> QED BY <1>3, <1>4, <2>1, <3>1, SettleTyped DEF OBInv
  <2> QED BY <2>2, <2>3
<1>8. CountersTyped'
  BY <1>6 DEF OBInv, CountersTyped
<1>9. Kept(book', nonce) /\ SomeOf(book, book') /\ \A t, q : OrdersAt(book, t, q) \ {taker.at} \subseteq OrdersAt(book', t, q)
  <2>1. Kept(book, nonce) /\ v <= book.orders[taker.at].amount
    BY <1>2, <1>4 DEF OBInv, m
  <2>2. nonce \in Nat
    BY DEF OBInv, CountersTyped
  <2> QED BY <1>2, <1>4, <1>6, <2>1, <2>2, KeptFilled
<1>10. TakerInv(book', taker', nonce')
  <2> DEFINE a == taker.amount - v
             d == taker.traded + v
  <2>1. a \in Nat /\ d \in Nat
    BY <1>2, <1>3, <1>4
  <2>2. taker' = [taker EXCEPT !.amount = a, !.traded = d, !.at = Maker.next]
    BY <1>6 DEF m
  <2>3. DOMAIN book'.orders \subseteq DOMAIN book.orders
    BY <1>9 DEF SomeOf
  <2> HIDE DEF a, d
  <2> QED BY <1>1, <1>6, <1>9, <2>1, <2>2, <2>3, NextMaker, Zenon
<1> QED BY <1>6, <1>7, <1>8, <1>9, <1>10 DEF OBInv

\* What a step leaves of the book when the taker is done
LEMMA StillKept ==
    ASSUME OBInv, book' = book, nonce' = nonce PROVE Kept(book', nonce')
BY DEF OBInv

LEMMA DropTakerKeeps ==
    ASSUME OBInv, DropTaker PROVE OBInv'
<1>1. LedgersTyped' /\ CountersTyped' /\ book' = book /\ nonce' = nonce /\ taker' = NoTaker
  BY DEF OBInv, LedgersTyped, CsdTypeOK, TbdTypeOK, CashTypeOK, CountersTyped, DropTaker, ledgers, csdVars, tbdVars, cashVars
<1>2. TakerInv(book', taker', nonce')
  BY <1>1, IdleTaker
<1> QED BY <1>1, <1>2, StillKept DEF OBInv

LEMMA EvictMakerKeeps ==
    ASSUME OBInv, EvictMaker PROVE OBInv'
<1>1. LedgersTyped' /\ CountersTyped' /\ nonce' = nonce /\ AtMaker /\ book' = RemoveOrder(book, taker.at)
  BY DEF OBInv, LedgersTyped, CsdTypeOK, TbdTypeOK, CashTypeOK, CountersTyped, EvictMaker, Failing, ledgers, csdVars, tbdVars, cashVars
<1>2. Present(book, taker.at) /\ taker \in TakerSet
  BY <1>1, MakerIs
<1>3. Removed(book, taker.at, book')
  BY <1>1, <1>2, OrderRemoved
<1>4. KeptBut(book, nonce, taker.at)
  BY DEF OBInv, Kept, KeptBut
<1>5. Kept(book', nonce) /\ \A t, q : OrdersAt(book', t, q) = OrdersAt(book, t, q) \ {taker.at}
  BY <1>2, <1>3, <1>4, KeptRemoved DEF Without, OBInv, CountersTyped, Present
<1>6. DOMAIN book'.orders \subseteq DOMAIN book.orders
  BY <1>3, Zenon DEF Removed
<1>7. TakerInv(book', taker', nonce')
  <2> DEFINE a == taker.amount
             d == taker.traded
  <2>1. a \in Nat /\ d \in Nat
    BY <1>2 DEF TakerSet
  <2>2. taker' = [taker EXCEPT !.amount = a, !.traded = d, !.at = Maker.next]
    <3>1. taker' = [taker EXCEPT !.at = Maker.next]
      BY DEF EvictMaker
    <3> QED BY <1>2, <3>1 DEF TakerSet
  <2>3. \A s, p : OrdersAt(book, s, p) \ {taker.at} \subseteq OrdersAt(book', s, p)
    BY <1>5
  <2> HIDE DEF a, d
  <2> QED BY <1>1, <1>6, <2>1, <2>2, <2>3, NextMaker, Zenon
<1> QED BY <1>1, <1>5, <1>7 DEF OBInv

LEMMA PassMakerKeeps ==
    ASSUME OBInv, PassMaker PROVE OBInv'
<1>1. LedgersTyped' /\ CountersTyped' /\ book' = book /\ nonce' = nonce /\ AtMaker
  BY DEF OBInv, LedgersTyped, CsdTypeOK, TbdTypeOK, CashTypeOK, CountersTyped, PassMaker, Failing, ledgers, csdVars, tbdVars, cashVars
<1>2. taker \in TakerSet /\ taker.id = nonce /\ nonce \notin DOMAIN book.orders /\ nonce # 0
  BY <1>1, MakerIs
<1>3. TakerInv(book', taker', nonce')
  <2>1. CASE taker.traded = 0
    <3>1. taker' = [taker EXCEPT !.phase = "rest"]
      BY <2>1 DEF PassMaker
    <3>2. taker' \in TakerSet /\ taker'.id = taker.id /\ taker'.phase = "rest"
      BY <1>2, <3>1 DEF TakerSet
    <3> QED BY <1>1, <1>2, <3>2 DEF TakerInv
  <2>2. CASE taker.traded # 0
    <3> DEFINE a == taker.amount
               d == taker.traded
    <3>1. a \in Nat /\ d \in Nat
      BY <1>2 DEF TakerSet
    <3>2. taker' = [taker EXCEPT !.amount = a, !.traded = d, !.at = Maker.next]
      <4>1. taker' = [taker EXCEPT !.at = Maker.next]
        BY <2>2 DEF PassMaker
      <4> QED BY <1>2, <4>1 DEF TakerSet
    <3> HIDE DEF a, d
    <3> QED BY <1>1, <3>1, <3>2, NextMaker, Zenon
  <2> QED BY <2>1, <2>2
<1> QED BY <1>1, <1>3, StillKept DEF OBInv

LEMMA LeaveLevelKeeps ==
    ASSUME OBInv, LeaveLevel PROVE OBInv'
<1>1. LedgersTyped' /\ CountersTyped' /\ book' = book /\ nonce' = nonce
  BY DEF OBInv, LedgersTyped, CsdTypeOK, TbdTypeOK, CashTypeOK, CountersTyped, LeaveLevel, ledgers, csdVars, tbdVars, cashVars
<1>2. taker \in TakerSet /\ taker.id = nonce /\ nonce \notin DOMAIN book.orders /\ nonce # 0
  BY TakerIs DEF LeaveLevel
<1>3. PICK ph \in {"rest", "levels"} : taker' = [taker EXCEPT !.phase = ph]
  BY DEF LeaveLevel
<1>4. taker' \in TakerSet /\ taker'.id = taker.id /\ taker'.phase # "level"
  BY <1>2, <1>3 DEF TakerSet
<1>5. TakerInv(book', taker', nonce')
  BY <1>1, <1>2, <1>4 DEF TakerInv
<1> QED BY <1>1, <1>5, StillKept DEF OBInv

\* The book before the taker has the numbers below the taker's.
LEMMA KeptBefore ==
    ASSUME OBInv, nonce \notin DOMAIN book.orders, nonce # 0
    PROVE  nonce - 1 \in Nat /\ Kept(book, nonce - 1)
<1>1. nonce \in Nat /\ DOMAIN book.orders \subseteq 1 .. nonce
  BY DEF OBInv, CountersTyped, Kept
<1>2. DOMAIN book.orders \subseteq 1 .. (nonce - 1)
  BY <1>1
<1> QED BY <1>1, <1>2 DEF OBInv, Kept

LEMMA FinishKeeps ==
    ASSUME OBInv, Finish PROVE OBInv'
<1>1. LedgersTyped' /\ CountersTyped' /\ nonce' = nonce /\ taker' = NoTaker
  BY DEF OBInv, LedgersTyped, CsdTypeOK, TbdTypeOK, CashTypeOK, CountersTyped, Finish, ledgers, csdVars, tbdVars, cashVars
<1>2. taker \in TakerSet /\ taker.id = nonce /\ nonce \notin DOMAIN book.orders /\ nonce # 0
  BY TakerIs DEF Finish
<1>3. Kept(book', nonce')
  <2>1. CASE taker.amount = 0
    <3>1. book' = book
      BY <2>1 DEF Finish
    <3> QED BY <1>1, <3>1, StillKept
  <2>2. CASE taker.amount # 0
    <3> DEFINE o == NewOrder(taker.side, taker.investor, taker.price, taker.amount, TRUE)
    <3>1. book' = RestOrder(book, taker.id, o)
      BY <2>2 DEF Finish
    <3>2. taker.side \in Sides /\ taker.investor \in Investors /\ taker.price \in Prices /\ taker.amount \in Nat \ {0}
      BY <1>2, <2>2 DEF TakerSet
    <3>3. Fresh(o)
      BY <3>2, NewOrderFresh
    <3> HIDE DEF o
    <3>4. nonce \in Nat /\ nonce - 1 \in Nat /\ nonce > nonce - 1 /\ Kept(book, nonce - 1)
      BY <1>2, KeptBefore DEF OBInv, CountersTyped
    <3>5. Kept(RestOrder(book, nonce, o), nonce)
      BY <3>3, <3>4, KeptRested
    <3> QED BY <1>1, <1>2, <3>1, <3>5
  <2> QED BY <2>1, <2>2
<1>4. TakerInv(book', taker', nonce')
  BY <1>1, IdleTaker
<1> QED BY <1>1, <1>3, <1>4 DEF OBInv

LEMMA InitializeKeeps ==
    ASSUME OBInv, NEW c \in Issuances, InitializeSellOrders(c) PROVE OBInv'
<1>1. LedgersTyped' /\ taker' = taker /\ taker = NoTaker
  BY DEF OBInv, LedgersTyped, CsdTypeOK, TbdTypeOK, CashTypeOK, InitializeSellOrders, Idle, ledgers, csdVars, tbdVars, cashVars
<1>2. nonce \in Nat /\ c.count \in Nat /\ Kept(book, nonce)
  BY OrderBookAssumption DEF OBInv, CountersTyped
<1>3. nonce' = nonce + c.count /\ nonce + c.count <= MaxOrders /\ book' = Offered(book, nonce, c)
  BY DEF InitializeSellOrders
<1>4. CountersTyped'
  BY <1>2, <1>3 DEF OBInv, CountersTyped, InitializeSellOrders
<1>5. Kept(book', nonce')
  BY <1>2, <1>3, OfferedKept
<1>6. TakerInv(book', taker', nonce')
  BY <1>1, IdleTaker
<1> QED BY <1>1, <1>4, <1>5, <1>6 DEF OBInv

LEMMA RevokeKeeps ==
    ASSUME OBInv, NEW id \in DOMAIN book.orders, Revoke(id) PROVE OBInv'
<1>1. LedgersTyped' /\ CountersTyped' /\ nonce' = nonce /\ taker' = taker /\ taker = NoTaker
      /\ book' = RemoveOrder(book, id)
  BY DEF OBInv, LedgersTyped, CsdTypeOK, TbdTypeOK, CashTypeOK, CountersTyped, Revoke, Idle, ledgers, csdVars, tbdVars, cashVars
<1>2. Present(book, id) /\ KeptBut(book, nonce, id)
  BY DEF OBInv, Kept, KeptBut, Present
<1>3. Kept(book', nonce)
  BY <1>1, <1>2, OrderRemoved, KeptRemoved DEF OBInv, CountersTyped
<1>4. TakerInv(book', taker', nonce')
  BY <1>1, IdleTaker
<1> QED BY <1>1, <1>3, <1>4 DEF OBInv

\* What an edit changes of the deposits, of the units and of the reserves
LEMMA EditedDeposits ==
    ASSUME LedgersTyped, NEW i \in Investors, MintDeposit(i, 1) \/ BurnDeposit(i, 1) \/ ListDepositor(i)
    PROVE  deposit' \in [Investors -> Nat] /\ tbdListed' \subseteq Investors
<1>1. deposit \in [Investors -> Nat] /\ tbdListed \subseteq Investors
  BY DEF LedgersTyped, TbdTypeOK
<1>2. CASE MintDeposit(i, 1)
  BY <1>1, <1>2 DEF MintDeposit
<1>3. CASE BurnDeposit(i, 1)
  BY <1>1, <1>3 DEF BurnDeposit
<1>4. CASE ListDepositor(i)
  BY <1>1, <1>4 DEF ListDepositor
<1> QED BY <1>2, <1>3, <1>4

LEMMA EditedUnits ==
    ASSUME LedgersTyped, NEW i \in Investors, ListHolder(i) \/ \E j \in Investors \ {i} : MoveUnits(i, j, 1)
    PROVE  units' \in [Investors -> Nat] /\ secListed' \subseteq Investors
<1>1. units \in [Investors -> Nat] /\ secListed \subseteq Investors
  BY DEF LedgersTyped, CsdTypeOK
<1>2. CASE ListHolder(i)
  BY <1>1, <1>2 DEF ListHolder
<1>3. ASSUME NEW j \in Investors \ {i}, MoveUnits(i, j, 1)
      PROVE  units' \in [Investors -> Nat] /\ secListed' \subseteq Investors
  BY <1>1, <1>3 DEF MoveUnits
<1> QED BY <1>2, <1>3

LEMMA EditedCash ==
    ASSUME LedgersTyped, NEW a \in CashAccounts, ListAccount(a) \/ BurnCash(a, 1)
    PROVE  cash' \in [CashAccounts -> Nat] /\ allowed' \subseteq CashAccounts
<1>1. cash \in [CashAccounts -> Nat] /\ allowed \subseteq CashAccounts
  BY DEF LedgersTyped, CashTypeOK
<1>2. CASE ListAccount(a)
  BY <1>1, <1>2 DEF ListAccount, Allow, Disallow
<1>3. CASE BurnCash(a, 1)
  BY <1>1, <1>3 DEF BurnCash
<1> QED BY <1>2, <1>3

LEMMA EditKeeps ==
    ASSUME OBInv, Edit PROVE OBInv'
<1>1. nonce' = nonce /\ taker' = taker /\ taker = NoTaker /\ book' = book /\ edits' = edits + 1 /\ edits < MaxEdits
  BY DEF Edit, Idle
<1>2. TakerInv(book', taker', nonce')
  BY <1>1, IdleTaker
<1>3. Kept(book', nonce')
  BY <1>1, StillKept
<1>4. nonce \in Nat /\ nonce <= MaxOrders /\ edits' \in Nat /\ edits' <= MaxEdits
  BY <1>1, OrderBookAssumption DEF OBInv, CountersTyped
<1>5. LedgersTyped
  BY DEF OBInv
<1>6. CASE \E i \in Disturbed \cap Investors : RegisterClient(i) /\ UNCHANGED ledgers
  <2>1. LedgersTyped'
    BY <1>5, <1>6 DEF LedgersTyped, CsdTypeOK, TbdTypeOK, CashTypeOK, ledgers, csdVars, tbdVars, cashVars
  <2>2. clients' \subseteq Investors
    BY <1>6 DEF RegisterClient, OBInv, CountersTyped
  <2> QED BY <1>1, <1>2, <1>3, <1>4, <2>1, <2>2 DEF OBInv, CountersTyped
<1>7. CASE /\ \E i \in Disturbed \cap Investors : MintDeposit(i, 1) \/ BurnDeposit(i, 1) \/ ListDepositor(i)
           /\ UNCHANGED <<csdVars, cashVars, clients>>
  <2>1. deposit' \in [Investors -> Nat] /\ tbdListed' \subseteq Investors
    BY <1>5, <1>7, EditedDeposits
  <2>2. LedgersTyped' /\ clients' = clients
    BY <1>5, <1>7, <2>1 DEF LedgersTyped, CsdTypeOK, TbdTypeOK, CashTypeOK, csdVars, cashVars
  <2> QED BY <1>1, <1>2, <1>3, <1>4, <2>2 DEF OBInv, CountersTyped
<1>8. CASE /\ \E i \in Disturbed \cap Investors :
                 ListHolder(i) \/ (\E j \in Investors \ {i} : MoveUnits(i, j, 1))
           /\ UNCHANGED <<tbdVars, cashVars, clients>>
  <2>1. units' \in [Investors -> Nat] /\ secListed' \subseteq Investors
    BY <1>5, <1>8, EditedUnits
  <2>2. LedgersTyped' /\ clients' = clients
    BY <1>5, <1>8, <2>1 DEF LedgersTyped, CsdTypeOK, TbdTypeOK, CashTypeOK, tbdVars, cashVars
  <2> QED BY <1>1, <1>2, <1>3, <1>4, <2>2 DEF OBInv, CountersTyped
<1>9. CASE /\ \E a \in Disturbed \cap CashAccounts : ListAccount(a) \/ BurnCash(a, 1)
           /\ UNCHANGED <<csdVars, tbdVars, clients>>
  <2>1. cash' \in [CashAccounts -> Nat] /\ allowed' \subseteq CashAccounts
    BY <1>5, <1>9, EditedCash
  <2>2. LedgersTyped' /\ clients' = clients
    BY <1>5, <1>9, <2>1 DEF LedgersTyped, CsdTypeOK, TbdTypeOK, CashTypeOK, tbdVars, csdVars
  <2> QED BY <1>1, <1>2, <1>3, <1>4, <2>2 DEF OBInv, CountersTyped
<1> QED BY <1>6, <1>7, <1>8, <1>9 DEF Edit

LEMMA StutterKeeps ==
    ASSUME OBInv, UNCHANGED vars PROVE OBInv'
BY DEF OBInv, LedgersTyped, CsdTypeOK, TbdTypeOK, CashTypeOK, CountersTyped, vars, ledgers, csdVars, tbdVars, cashVars

LEMMA OBStep == OBInv /\ [Next]_vars => OBInv'
<1> SUFFICES ASSUME OBInv, [Next]_vars PROVE OBInv'
  OBVIOUS
<1>1. ASSUME NEW r \in Requests, Submit(r) PROVE OBInv'
  BY <1>1, SubmitKeeps
<1>2. CASE Matching
  BY <1>2, EnterLevelKeeps, MatchKeeps, DropTakerKeeps, EvictMakerKeeps, PassMakerKeeps, LeaveLevelKeeps, FinishKeeps
  DEF Matching, MatchTurn
<1>3. ASSUME NEW c \in Issuances, InitializeSellOrders(c) PROVE OBInv'
  BY <1>3, InitializeKeeps
<1>4. ASSUME NEW id \in DOMAIN book.orders, Revoke(id) PROVE OBInv'
  BY <1>4, RevokeKeeps
<1>5. CASE Edit
  BY <1>5, EditKeeps
<1>6. CASE UNCHANGED vars
  BY <1>6, StutterKeeps
<1> QED BY <1>1, <1>2, <1>3, <1>4, <1>5, <1>6 DEF Next

LEMMA OBAlways == Spec => []OBInv
BY OBInit, OBStep, PTL DEF Spec

\* The state keeps its types: no trade overdraws a balance however the orders are matched,
\* an order stays in the book only while it has something left, and every number is used once.
THEOREM OrderBookTypeTheorem == Spec => []TypeOK
BY OBAlways, TypesFollow, PTL

-----------------------------------------------------------------------------
(* Deposits and reserves                                                    *)

\* g is f with w moved from a to c, both in the finite set S
Moved(f, g, S, a, c, w) ==
    /\ IsFiniteSet(S) /\ f \in [S -> Int] /\ a \in S /\ c \in S /\ w \in Int
    /\ g \in [S -> Int]
    /\ \/ a = c /\ g = f
       \/ a # c /\ g[a] = f[a] - w /\ g[c] = f[c] + w /\ \A x \in S \ {a, c} : g[x] = f[x]

LEMMA SumMoved ==
    ASSUME NEW S, NEW f, NEW g, NEW a, NEW c, NEW w, Moved(f, g, S, a, c, w)
    PROVE  SumFunction(g) = SumFunction(f)
<1>1. IsFiniteSet(S) /\ f \in [S -> Int] /\ a \in S /\ c \in S /\ w \in Int /\ g \in [S -> Int]
  BY DEF Moved
<1>2. CASE a = c
  BY <1>2 DEF Moved
<1>3. CASE a # c
  <2>1. g[a] = f[a] - w /\ g[c] = f[c] + w /\ \A x \in S \ {a, c} : g[x] = f[x]
    BY <1>3 DEF Moved
  <2> DEFINE h == [f EXCEPT ![a] = f[a] - w]
  <2>2. h \in [S -> Int] /\ h[a] = f[a] - w /\ \A x \in S \ {a} : h[x] = f[x]
    BY <1>1
  <2> HIDE DEF h
  <2>3. SameBut(f, h, S, a) /\ SameBut(h, g, S, c)
    BY <1>1, <1>3, <2>1, <2>2 DEF SameBut
  <2>4. SumFunction(h) = SumFunction(f) + (h[a] - f[a]) /\ SumFunction(f) \in Int
    BY <2>3, SumUp
  <2>5. SumFunction(g) = SumFunction(h) + (g[c] - h[c])
    BY <2>3, SumUp
  <2>6. h[c] = f[c] /\ f[a] \in Int /\ f[c] \in Int
    BY <1>1, <1>3, <2>2
  <2> QED BY <1>1, <2>1, <2>2, <2>4, <2>5, <2>6
<1> QED BY <1>2, <1>3

\* What w paid by t to s changes of the deposits, and of the reserves of bank b
LEMMA PaidDeposits ==
    ASSUME LedgersTyped, LedgersTyped', NEW s \in Investors, NEW t \in Investors, NEW w \in Nat, Cct(t, s, w),
           NEW b \in Banks
    PROVE  Unbacked(b)' = Unbacked(b)
<1> DEFINE S == {j \in Investors : BankOf[j] = b}
           f == [i \in S |-> deposit[i]]
           g == [i \in S |-> deposit'[i]]
<1>1. /\ deposit \in [Investors -> Nat] /\ deposit' \in [Investors -> Nat]
      /\ cash \in [CashAccounts -> Nat] /\ cash' \in [CashAccounts -> Nat]
  BY DEF LedgersTyped, TbdTypeOK, CashTypeOK
<1>2. IsFiniteSet(S) /\ S \subseteq Investors
  BY OrderBookAssumption, FS_Subset
<1>3. f \in [S -> Int] /\ g \in [S -> Int] /\ \A i \in S : f[i] = deposit[i] /\ g[i] = deposit'[i]
  BY <1>1
<1>4. Unbacked(b) = SumFunction(f) - cash[b]
  BY Zenon DEF Unbacked
<1>5. Unbacked(b)' = SumFunction(g) - cash'[b]
  BY Zenon DEF Unbacked
<1>6. \/ t = s /\ deposit' = deposit
      \/ t # s /\ deposit' = [deposit EXCEPT ![t] = @ - w, ![s] = @ + w]
  BY DEF Cct
<1>7. \A i \in Investors : \/ t = s /\ deposit'[i] = deposit[i]
                           \/ t # s /\ i = t /\ deposit'[i] = deposit[i] - w
                           \/ t # s /\ i = s /\ deposit'[i] = deposit[i] + w
                           \/ i # s /\ i # t /\ deposit'[i] = deposit[i]
  BY <1>1, <1>6
<1>8. BankOf[t] \in CashAccounts /\ BankOf[s] \in CashAccounts /\ b \in CashAccounts
  BY TbdAssumption
<1>9. \/ BankOf[t] = BankOf[s] /\ cash' = cash
      \/ /\ BankOf[t] # BankOf[s] /\ cash'[BankOf[t]] = cash[BankOf[t]] - w
         /\ cash'[BankOf[s]] = cash[BankOf[s]] + w
         /\ \A a \in CashAccounts \ {BankOf[t], BankOf[s]} : cash'[a] = cash[a]
  BY <1>1, <1>8 DEF Cct, MovedCash
<1> HIDE DEF f, g
<1>10. (t \in S <=> BankOf[t] = b) /\ (s \in S <=> BankOf[s] = b)
  OBVIOUS
<1> HIDE DEF S
<1>11. CASE t \in S /\ s \in S
  <2>1. cash'[b] = cash[b]
    BY <1>9, <1>10, <1>11
  <2>2. \/ t = s /\ \A i \in S : g[i] = f[i]
        \/ t # s /\ g[t] = f[t] - w /\ g[s] = f[s] + w /\ \A i \in S \ {t, s} : g[i] = f[i]
    BY <1>2, <1>3, <1>7, <1>11
  <2>3. t = s => g = f
    BY <1>3, <2>2
  <2>4. Moved(f, g, S, t, s, w)
    BY <1>2, <1>3, <1>11, <2>2, <2>3 DEF Moved
  <2> QED BY <1>4, <1>5, <2>1, <2>4, SumMoved
<1>12. CASE t \in S /\ s \notin S
  <2>1. cash'[b] = cash[b] - w /\ cash[b] \in Int
    BY <1>1, <1>8, <1>9, <1>10, <1>12
  <2>2. g[t] = f[t] - w /\ \A i \in S \ {t} : g[i] = f[i]
    BY <1>2, <1>3, <1>7, <1>12
  <2>3. SameBut(f, g, S, t)
    BY <1>2, <1>3, <1>12, <2>2 DEF SameBut
  <2>4. SumFunction(g) = SumFunction(f) + (g[t] - f[t]) /\ SumFunction(f) \in Int
    BY <2>3, SumUp
  <2>5. f[t] \in Int
    BY <1>3, <1>12
  <2> QED BY <1>4, <1>5, <2>1, <2>2, <2>4, <2>5
<1>13. CASE t \notin S /\ s \in S
  <2>1. cash'[b] = cash[b] + w /\ cash[b] \in Int
    BY <1>1, <1>8, <1>9, <1>10, <1>13
  <2>2. g[s] = f[s] + w /\ \A i \in S \ {s} : g[i] = f[i]
    BY <1>2, <1>3, <1>7, <1>13
  <2>3. SameBut(f, g, S, s)
    BY <1>2, <1>3, <1>13, <2>2 DEF SameBut
  <2>4. SumFunction(g) = SumFunction(f) + (g[s] - f[s]) /\ SumFunction(f) \in Int
    BY <2>3, SumUp
  <2>5. f[s] \in Int
    BY <1>3, <1>13
  <2> QED BY <1>4, <1>5, <2>1, <2>2, <2>4, <2>5
<1>14. CASE t \notin S /\ s \notin S
  <2>1. cash'[b] = cash[b]
    BY <1>8, <1>9, <1>10, <1>14
  <2>2. \A i \in S : g[i] = f[i]
    BY <1>2, <1>3, <1>7, <1>14
  <2>3. g = f
    BY <1>3, <2>2
  <2> QED BY <1>4, <1>5, <2>1, <2>3
<1> QED BY <1>11, <1>12, <1>13, <1>14

LEMMA SettledUnits ==
    ASSUME LedgersTyped, LedgersTyped', NEW s \in Investors, NEW t \in Investors, NEW v \in Nat, NEW w,
           Settle(s, t, v, w)
    PROVE  SumFunction(units') = SumFunction(units)
<1>1. IsFiniteSet(Investors) /\ units \in [Investors -> Nat] /\ units' \in [Investors -> Nat]
  BY OrderBookAssumption DEF LedgersTyped, CsdTypeOK
<1>2. units \in [Investors -> Int] /\ units' \in [Investors -> Int]
  BY <1>1
<1>3. \/ s = t /\ units' = units
      \/ /\ s # t /\ units'[s] = units[s] - v /\ units'[t] = units[t] + v
         /\ \A i \in Investors \ {s, t} : units'[i] = units[i]
  BY <1>1 DEF Settle
<1>4. Moved(units, units', Investors, s, t, v)
  BY <1>1, <1>2, <1>3 DEF Moved
<1> QED BY <1>4, SumMoved

\* Between two banks as within one, deposits and reserves move together, and units only
\* change hands.
TradeConserves == /\ \A b \in Banks : Unbacked(b)' = Unbacked(b)
                  /\ SumFunction(units') = SumFunction(units)

LEMMA LedgersSame ==
    ASSUME UNCHANGED ledgers PROVE TradeConserves
<1>1. deposit' = deposit /\ cash' = cash /\ units' = units
  BY DEF ledgers, csdVars, tbdVars, cashVars
<1>2. \A b \in Banks : Unbacked(b)' = Unbacked(b)
  BY <1>1 DEF Unbacked
<1> QED BY <1>1, <1>2 DEF TradeConserves

LEMMA MatchConserves ==
    ASSUME OBInv, OBInv', Match PROVE TradeConserves
<1>1. LedgersTyped /\ LedgersTyped' /\ AtMaker
  BY DEF OBInv, Match
<1>2. PICK s \in Investors, t \in Investors, v \in Nat, w \in Nat : Settle(s, t, v, w)
  <2> DEFINE v == Lower(taker.amount, Maker.amount)
             m == Maker
  <2>1. m.investor \in Investors /\ taker.investor \in Investors /\ v \in Nat /\ m.price * v \in Nat
    <3>1. taker \in TakerSet /\ taker.amount \in Nat /\ m \in OrderSet
      BY <1>1, MakerIs
    <3>2. m.amount \in Nat /\ m.price \in Nat /\ m.investor \in Investors /\ taker.investor \in Investors
      BY <3>1 DEF OrderSet, TakerSet, Prices
    <3>3. v \in Nat
      BY <3>1, <3>2 DEF Lower
    <3> HIDE DEF v
    <3> QED BY <3>2, <3>3
  <2>2. \/ Settle(m.investor, taker.investor, v, m.price * v)
        \/ Settle(taker.investor, m.investor, v, m.price * v)
    BY DEF Match
  <2> HIDE DEF v, m
  <2> QED BY <2>1, <2>2
<1>3. Cct(t, s, w)
  BY <1>2 DEF Settle
<1>4. \A b \in Banks : Unbacked(b)' = Unbacked(b)
  BY <1>1, <1>3, PaidDeposits
<1>5. SumFunction(units') = SumFunction(units)
  BY <1>1, <1>2, SettledUnits
<1> QED BY <1>4, <1>5 DEF TradeConserves

LEMMA StepConserves ==
    ASSUME OBInv, OBInv', [Next]_vars, ~Idle PROVE TradeConserves
<1>1. CASE Match
  BY <1>1, MatchConserves
<1>2. CASE EnterLevel \/ DropTaker \/ EvictMaker \/ PassMaker \/ LeaveLevel \/ Finish
  BY <1>2, LedgersSame DEF EnterLevel, DropTaker, EvictMaker, PassMaker, LeaveLevel, Finish
<1>3. CASE UNCHANGED vars
  BY <1>3, LedgersSame DEF vars
<1>4. \A r \in Requests : ~Submit(r)
  BY DEF Submit
<1>5. \A c \in Issuances : ~InitializeSellOrders(c)
  BY DEF InitializeSellOrders
<1>6. (\A id \in DOMAIN book.orders : ~Revoke(id)) /\ ~Edit
  BY DEF Revoke, Edit
<1> QED BY <1>1, <1>2, <1>3, <1>4, <1>5, <1>6 DEF Next, Matching, MatchTurn

\* However an order is matched, the deposits of a bank and its reserves move together, and no
\* units appear or vanish.
THEOREM ReservesTheorem == Spec => ReservesFollowDeposits
<1>1. OBInv /\ OBInv' /\ [Next]_vars => [~Idle => TradeConserves]_vars
  BY StepConserves
<1>2. Spec => [][~Idle => TradeConserves]_vars
  BY <1>1, OBAlways, PTL DEF Spec
<1> QED BY <1>2 DEF ReservesFollowDeposits, TradeConserves

-----------------------------------------------------------------------------
(* Who loses an order                                                       *)

\* A side of the book can be blamed only for what it cannot deliver.
LEMMA BuyerBlamed ==
    ASSUME LedgersTyped, NEW s \in Investors, NEW t \in Investors, NEW v \in Nat, NEW w \in Nat,
           Failure(s, t, v, w) = "buyer"
    PROVE  t \notin secListed \cap tbdListed \/ deposit[t] < w \/ cash[BankOf[t]] < w
<1> DEFINE sec == CustodialError(s, t, v)
           cct == CctError(t, s, w)
           f == Failure(s, t, v, w)
<1>1. Blames(f, s, t, sec, cct)
  BY FailureIs
<1>2. sec = "buyerNotListed" => t \notin secListed
  BY DEF CustodialError
<1>3. sec = "sellerNotListed" => s \notin secListed
  BY DEF CustodialError
<1>4. cct = "balance" => deposit[t] < w \/ cash[BankOf[t]] < w
  BY DEF CctError
<1> HIDE DEF sec, cct
<1> QED BY <1>1, <1>2, <1>3, <1>4 DEF Blames

LEMMA SellerBlamed ==
    ASSUME LedgersTyped, NEW s \in Investors, NEW t \in Investors, NEW v \in Nat, NEW w \in Nat,
           Failure(s, t, v, w) = "seller"
    PROVE  s \notin secListed \cap tbdListed \/ units[s] < v
<1> DEFINE sec == CustodialError(s, t, v)
           cct == CctError(t, s, w)
           f == Failure(s, t, v, w)
<1>1. Blames(f, s, t, sec, cct)
  BY FailureIs
<1>2. sec = "sellerNotListed" => s \notin secListed
  BY DEF CustodialError
<1>3. sec = "balance" => units[s] < v
  BY DEF CustodialError
<1>4. cct = "payeeNotListed" => s \notin tbdListed
  BY DEF CctError
<1>5. cct = "payerNotListed" => t \notin tbdListed
  BY DEF CctError
<1> HIDE DEF sec, cct
<1> QED BY <1>1, <1>2, <1>3, <1>4, <1>5 DEF Blames

\* The investors, the amount and the price of a trade between the taker and a maker
LEMMA TradeTyped ==
    ASSUME OBInv, AtMaker, NEW v, v = Lower(taker.amount, Maker.amount), NEW w, w = Maker.price * v
    PROVE  /\ LedgersTyped /\ taker.side \in Sides /\ Maker.side = Opposite(taker.side)
           /\ Maker.investor \in Investors /\ taker.investor \in Investors
           /\ Maker.amount \in Nat /\ taker.amount \in Nat /\ v \in Nat /\ w \in Nat
           /\ v <= taker.amount /\ v <= Maker.amount
           /\ BankOf[Maker.investor] \in CashAccounts /\ BankOf[taker.investor] \in CashAccounts
<1>1. taker \in TakerSet /\ Maker \in OrderSet /\ Maker.side = Opposite(taker.side)
  BY MakerIs
<1>2. /\ taker.side \in Sides /\ taker.investor \in Investors /\ taker.amount \in Nat
      /\ Maker.investor \in Investors /\ Maker.amount \in Nat /\ Maker.price \in Nat
  BY <1>1 DEF TakerSet, OrderSet, Prices
<1>3. v \in Nat /\ v <= taker.amount /\ v <= Maker.amount
  BY <1>2 DEF Lower
<1>4. w \in Nat
  BY <1>2, <1>3
<1>5. BankOf[Maker.investor] \in CashAccounts /\ BankOf[taker.investor] \in CashAccounts
  BY <1>2, TbdAssumption
<1> QED BY <1>1, <1>2, <1>3, <1>4, <1>5 DEF OBInv

LEMMA Undelivered ==
    ASSUME LedgersTyped, NEW o, o.investor \in Investors, o.side \in Sides, NEW v \in Nat, NEW p, NEW w \in Nat, w = p * v,
           BankOf[o.investor] \in CashAccounts,
           \/ o.investor \notin secListed \cap tbdListed
           \/ o.side = "sell" /\ units[o.investor] < v
           \/ o.side = "buy" /\ (deposit[o.investor] < w \/ cash[BankOf[o.investor]] < w)
    PROVE  ~CanDeliver(o, v, p)
<1>1. units[o.investor] \in Nat /\ deposit[o.investor] \in Nat /\ cash[BankOf[o.investor]] \in Nat
  BY DEF LedgersTyped, CsdTypeOK, TbdTypeOK, CashTypeOK
<1>2. CASE o.investor \notin secListed \cap tbdListed
  BY <1>2 DEF CanDeliver
<1>3. CASE o.side = "sell" /\ units[o.investor] < v
  BY <1>1, <1>3 DEF CanDeliver
<1>4. CASE o.side = "buy" /\ deposit[o.investor] < w
  <2>1. ~(deposit[o.investor] >= p * v)
    BY <1>1, <1>4
  <2> QED BY <1>4, <2>1 DEF CanDeliver
<1>5. CASE o.side = "buy" /\ cash[BankOf[o.investor]] < w
  <2>1. ~(cash[BankOf[o.investor]] >= p * v)
    BY <1>1, <1>5
  <2> QED BY <1>5, <2>1 DEF CanDeliver
<1> QED BY <1>2, <1>3, <1>4, <1>5

LEMMA EvictedForCause ==
    ASSUME OBInv, EvictMaker
    PROVE  ~CanDeliver(Maker, Lower(taker.amount, Maker.amount), Maker.price)
<1> DEFINE v == Lower(taker.amount, Maker.amount)
           m == Maker
           w == m.price * v
<1>1. AtMaker /\ TradeFailure(m, v) = FaultOf(Opposite(taker.side))
  BY DEF EvictMaker, Failing, Reason
<1>2. /\ LedgersTyped /\ taker.side \in Sides /\ m.side = Opposite(taker.side)
      /\ m.investor \in Investors /\ taker.investor \in Investors /\ v \in Nat /\ w \in Nat
      /\ BankOf[m.investor] \in CashAccounts /\ m.side \in Sides
  BY <1>1, TradeTyped, Order
<1> HIDE DEF v, m
<1>3. w = m.price * v
  OBVIOUS
<1>4. CASE taker.side = "buy"
  <2>1. Failure(m.investor, taker.investor, v, w) = "seller" /\ m.side = "sell"
    BY <1>1, <1>2, <1>4 DEF TradeFailure, FaultOf, Opposite
  <2> HIDE DEF w
  <2>2. m.investor \notin secListed \cap tbdListed \/ units[m.investor] < v
    BY <1>2, <2>1, SellerBlamed
  <2>3. ~CanDeliver(m, v, m.price)
    BY <1>2, <1>3, <2>1, <2>2, Undelivered
  <2> QED BY <2>3 DEF v, m
<1>5. CASE taker.side = "sell"
  <2>1. Failure(taker.investor, m.investor, v, w) = "buyer" /\ m.side = "buy"
    BY <1>1, <1>2, <1>5 DEF TradeFailure, FaultOf, Opposite
  <2> HIDE DEF w
  <2>2. m.investor \notin secListed \cap tbdListed \/ deposit[m.investor] < w \/ cash[BankOf[m.investor]] < w
    BY <1>2, <2>1, BuyerBlamed
  <2>3. ~CanDeliver(m, v, m.price)
    BY <1>2, <1>3, <2>1, <2>2, Undelivered
  <2> QED BY <2>3 DEF v, m
<1> QED BY <1>2, <1>4, <1>5 DEF Sides

LEMMA DroppedForCause ==
    ASSUME OBInv, DropTaker
    PROVE  ~CanDeliver(taker, Lower(taker.amount, Maker.amount), Maker.price)
<1> DEFINE v == Lower(taker.amount, Maker.amount)
           m == Maker
           w == m.price * v
<1>1. AtMaker /\ TradeFailure(m, v) = FaultOf(taker.side)
  BY DEF DropTaker, Failing, Reason
<1>2. /\ LedgersTyped /\ taker.side \in Sides
      /\ m.investor \in Investors /\ taker.investor \in Investors /\ v \in Nat /\ w \in Nat
      /\ BankOf[taker.investor] \in CashAccounts
  BY <1>1, TradeTyped
<1> HIDE DEF v, m
<1>3. w = m.price * v
  OBVIOUS
<1>4. CASE taker.side = "sell"
  <2>1. Failure(taker.investor, m.investor, v, w) = "seller"
    BY <1>1, <1>2, <1>4 DEF TradeFailure, FaultOf
  <2> HIDE DEF w
  <2>2. taker.investor \notin secListed \cap tbdListed \/ units[taker.investor] < v
    BY <1>2, <2>1, SellerBlamed
  <2>3. ~CanDeliver(taker, v, m.price)
    BY <1>2, <1>3, <1>4, <2>2, Undelivered
  <2> QED BY <2>3 DEF v, m
<1>5. CASE taker.side = "buy"
  <2>1. Failure(m.investor, taker.investor, v, w) = "buyer"
    BY <1>1, <1>2, <1>5 DEF TradeFailure, FaultOf
  <2> HIDE DEF w
  <2>2. \/ taker.investor \notin secListed \cap tbdListed
        \/ deposit[taker.investor] < w \/ cash[BankOf[taker.investor]] < w
    BY <1>2, <2>1, BuyerBlamed
  <2>3. ~CanDeliver(taker, v, m.price)
    BY <1>2, <1>3, <1>5, <2>2, Undelivered
  <2> QED BY <2>3 DEF v, m
<1> QED BY <1>2, <1>4, <1>5 DEF Sides

\* What LeavesForCause says of a step
OrdersLeaveForCause ==
    \A id \in OrderIds \ OrderIds' :
       \/ Match
       \/ Idle /\ book.orders[id].revocable
       \/ LET o == book.orders[id] IN ~CanDeliver(o, Lower(taker.amount, o.amount), o.price)
TakersLeaveForCause ==
    taker # NoTaker /\ taker' = NoTaker /\ taker.phase = "level"
        => ~CanDeliver(taker, Lower(taker.amount, Maker.amount), Maker.price)

LEMMA OrdersStay ==
    ASSUME OrderIds \subseteq OrderIds' PROVE OrdersLeaveForCause
BY DEF OrdersLeaveForCause

\* A taker that is done rested, or was dropped.
LEMMA NotIdle ==
    ASSUME NEW t \in TakerSet PROVE t # NoTaker
BY DEF TakerSet, NoTaker

LEMMA StepForCause ==
    ASSUME OBInv, [Next]_vars PROVE OrdersLeaveForCause /\ TakersLeaveForCause
<1>1. ASSUME NEW r \in Requests, Submit(r) PROVE OrdersLeaveForCause /\ TakersLeaveForCause
  BY <1>1, OrdersStay DEF Submit, OrderIds, Idle, TakersLeaveForCause
<1>2. CASE EnterLevel
  BY <1>2, OrdersStay DEF EnterLevel, OrderIds, TakersLeaveForCause
<1>3. CASE Match
  <2>1. OrdersLeaveForCause
    BY <1>3 DEF OrdersLeaveForCause
  <2>2. taker' # NoTaker
    <3> DEFINE a == taker.amount - Lower(taker.amount, Maker.amount)
               d == taker.traded + Lower(taker.amount, Maker.amount)
               n == Maker.next
    <3>1. taker' = [taker EXCEPT !.amount = a, !.traded = d, !.at = n] /\ AtMaker
      BY <1>3 DEF Match
    <3>2. taker \in TakerSet
      BY <3>1, MakerIs
    <3> HIDE DEF a, d, n
    <3>3. taker'.phase = taker.phase /\ taker.phase # "idle"
      BY <3>1, <3>2 DEF TakerSet
    <3> QED BY <3>3 DEF NoTaker
  <2> QED BY <2>1, <2>2 DEF TakersLeaveForCause
<1>4. CASE DropTaker
  <2>1. OrdersLeaveForCause
    BY <1>4, OrdersStay DEF DropTaker, OrderIds
  <2> QED BY <1>4, <2>1, DroppedForCause DEF TakersLeaveForCause
<1>5. CASE EvictMaker
  <2>1. AtMaker /\ book' = RemoveOrder(book, taker.at)
    BY <1>5 DEF EvictMaker, Failing
  <2>2. Present(book, taker.at) /\ taker \in TakerSet
    BY <2>1, MakerIs
  <2>3. OrderIds' = OrderIds \ {taker.at}
    BY <2>1, <2>2, OrderRemoved DEF Removed, OrderIds
  <2>4. ~CanDeliver(Maker, Lower(taker.amount, Maker.amount), Maker.price)
    BY <1>5, EvictedForCause
  <2>5. OrdersLeaveForCause
    BY <2>3, <2>4 DEF OrdersLeaveForCause, Maker
  <2>6. taker' # NoTaker
    <3> DEFINE n == Maker.next
    <3>1. taker' = [taker EXCEPT !.at = n]
      BY <1>5 DEF EvictMaker
    <3> HIDE DEF n
    <3>2. taker'.phase = taker.phase /\ taker.phase # "idle"
      BY <2>2, <3>1 DEF TakerSet
    <3> QED BY <3>2 DEF NoTaker
  <2> QED BY <2>5, <2>6 DEF TakersLeaveForCause
<1>6. CASE PassMaker
  <2>1. AtMaker /\ book' = book
    BY <1>6 DEF PassMaker, Failing
  <2>2. taker \in TakerSet
    BY <2>1, MakerIs
  <2>3. taker' # NoTaker
    <3> DEFINE n == Maker.next
    <3>1. taker' = [taker EXCEPT !.phase = "rest"] \/ taker' = [taker EXCEPT !.at = n]
      BY <1>6 DEF PassMaker
    <3> HIDE DEF n
    <3>2. taker'.phase # "idle"
      BY <2>2, <3>1 DEF TakerSet
    <3> QED BY <3>2 DEF NoTaker
  <2> QED BY <2>1, <2>3, OrdersStay DEF OrderIds, TakersLeaveForCause
<1>7. CASE LeaveLevel
  <2>1. PICK ph \in {"rest", "levels"} : taker' = [taker EXCEPT !.phase = ph]
    BY <1>7 DEF LeaveLevel
  <2>2. taker \in TakerSet
    BY <1>7, TakerIs DEF LeaveLevel
  <2>3. taker'.phase # "idle"
    BY <2>1, <2>2 DEF TakerSet
  <2> QED BY <1>7, <2>3, OrdersStay DEF LeaveLevel, OrderIds, TakersLeaveForCause, NoTaker
<1>8. CASE Finish
  <2>1. taker \in TakerSet /\ taker.id = nonce /\ nonce \notin DOMAIN book.orders /\ nonce # 0
    BY <1>8, TakerIs DEF Finish
  <2>2. OrderIds \subseteq OrderIds'
    <3>1. CASE taker.amount = 0
      BY <1>8, <3>1 DEF Finish, OrderIds
    <3>2. CASE taker.amount # 0
      <4> DEFINE o == NewOrder(taker.side, taker.investor, taker.price, taker.amount, TRUE)
      <4>1. book' = RestOrder(book, nonce, o)
        BY <1>8, <2>1, <3>2 DEF Finish
      <4>2. taker.side \in Sides /\ taker.investor \in Investors /\ taker.price \in Prices /\ taker.amount \in Nat \ {0}
        BY <2>1, <3>2 DEF TakerSet
      <4>3. Fresh(o)
        BY <4>2, NewOrderFresh
      <4> HIDE DEF o
      <4>4. nonce \in Nat /\ nonce - 1 \in Nat /\ nonce > nonce - 1 /\ Kept(book, nonce - 1)
        BY <2>1, KeptBefore DEF OBInv, CountersTyped
      <4>5. DOMAIN RestOrder(book, nonce, o).orders = DOMAIN book.orders \cup {nonce}
        BY <4>3, <4>4, KeptRested
      <4> QED BY <4>1, <4>5 DEF OrderIds
    <3> QED BY <3>1, <3>2
  <2> QED BY <1>8, <2>2, OrdersStay DEF Finish, TakersLeaveForCause
<1>9. ASSUME NEW c \in Issuances, InitializeSellOrders(c) PROVE OrdersLeaveForCause /\ TakersLeaveForCause
  <2>1. book' = Offered(book, nonce, c) /\ nonce \in Nat /\ Kept(book, nonce)
    BY <1>9 DEF InitializeSellOrders, OBInv, CountersTyped
  <2>2. OrderIds \subseteq OrderIds'
    BY <2>1, OfferedKept DEF OrderIds
  <2> QED BY <1>9, <2>2, OrdersStay DEF InitializeSellOrders, Idle, TakersLeaveForCause
<1>10. ASSUME NEW id \in DOMAIN book.orders, Revoke(id) PROVE OrdersLeaveForCause /\ TakersLeaveForCause
  <2>1. Present(book, id) /\ book' = RemoveOrder(book, id)
    BY <1>10 DEF Revoke, OBInv, Kept, Present
  <2>2. OrderIds' = OrderIds \ {id}
    BY <2>1, OrderRemoved DEF Removed, OrderIds
  <2> QED BY <1>10, <2>2 DEF Revoke, Idle, OrdersLeaveForCause, TakersLeaveForCause
<1>11. CASE Edit
  BY <1>11, OrdersStay DEF Edit, Idle, OrderIds, TakersLeaveForCause
<1>12. CASE UNCHANGED vars
  BY <1>12, OrdersStay DEF vars, OrderIds, TakersLeaveForCause
<1> QED BY <1>1, <1>2, <1>3, <1>4, <1>5, <1>6, <1>7, <1>8, <1>9, <1>10, <1>11, <1>12 DEF Next, Matching, MatchTurn

\* Orders leave the book unfilled only when their client revokes them or when their own side
\* cannot deliver, and an incoming order is dropped only then.
THEOREM CauseTheorem == Spec => LeavesForCause
<1>1. OBInv /\ [Next]_vars
        => [/\ \A id \in OrderIds \ OrderIds' :
                 \/ Match
                 \/ Idle /\ book.orders[id].revocable
                 \/ LET o == book.orders[id] IN ~CanDeliver(o, Lower(taker.amount, o.amount), o.price)
            /\ taker # NoTaker /\ taker' = NoTaker /\ taker.phase = "level"
                 => ~CanDeliver(taker, Lower(taker.amount, Maker.amount), Maker.price)]_vars
  BY StepForCause DEF OrdersLeaveForCause, TakersLeaveForCause
<1> QED BY <1>1, OBAlways, PTL DEF Spec, LeavesForCause

-----------------------------------------------------------------------------
(* What a walk leaves behind it                                             *)

\* Whatever the amount, t cannot pay s.
Barred(s, t) ==
    \/ t \notin tbdListed
    \/ /\ BankOf[t] # BankOf[s]
       /\ \/ ~({BankOf[t], TbdContract[BankOf[s]]} \subseteq allowed)
          \/ BankOf[s] \notin allowed

LEMMA BarredFails ==
    ASSUME NEW s, NEW t, NEW v, NEW w, Barred(s, t)
    PROVE  Failure(s, t, v, w) # "none"
<1> DEFINE sec == CustodialError(s, t, v)
           cct == CctError(t, s, w)
           f == Failure(s, t, v, w)
<1>1. Blames(f, s, t, sec, cct)
  BY FailureIs
<1>2. cct # "none"
  BY DEF Barred, CctError
<1> HIDE DEF sec, cct
<1> QED BY <1>1, <1>2 DEF Blames

LEMMA UnknownBars ==
    ASSUME NEW s, NEW t, NEW v, NEW w, Failure(s, t, v, w) = "unknown"
    PROVE  Barred(s, t)
<1> DEFINE sec == CustodialError(s, t, v)
           cct == CctError(t, s, w)
           f == Failure(s, t, v, w)
<1>1. Blames(f, s, t, sec, cct)
  BY FailureIs
<1>2. cct = "payerNotListed" => t \notin tbdListed
  BY DEF CctError
<1>3. cct = "bankNotListed" => /\ BankOf[t] # BankOf[s]
                               /\ \/ ~({BankOf[t], TbdContract[BankOf[s]]} \subseteq allowed)
                                  \/ BankOf[s] \notin allowed
  BY DEF CctError
<1> HIDE DEF sec, cct
<1> QED BY <1>1, <1>2, <1>3 DEF Blames, Barred

\* The taker t cannot trade with investor i.
Bars(t, i) == IF t.side = "buy" THEN Barred(i, t.investor) ELSE Barred(t.investor, i)

Facing == OrdersAt(book, Opposite(taker.side), taker.level)

\* The orders of the level that the walk has left behind: only a taker that has traded
\* leaves any, and it cannot trade with them.
Passed ==
    \A j \in Facing : taker.at = 0 \/ j < taker.at => taker.traded > 0 /\ Bars(taker, book.orders[j].investor)

\* What is at the best price a taker faces at the end of its walk
CannotTrade(id) == TradeFailure(book.orders[id], Lower(taker.amount, book.orders[id].amount)) # "none"
Stops(id) == /\ \A j \in OrdersAt(book, Opposite(taker.side), Best) : id <= j
             /\ TradeFailure(book.orders[id], Lower(taker.amount, book.orders[id].amount)) = "unknown"
Blocked ==
    IF taker.traded > 0 THEN \A id \in OrdersAt(book, Opposite(taker.side), Best) : CannotTrade(id)
    ELSE \E id \in OrdersAt(book, Opposite(taker.side), Best) : Stops(id)

\* While a level is walked it is the best one, as long as there is anything in it, and an order
\* the walk has passed cannot trade with the taker; a taker that rests against a price it
\* meets cannot trade with any order there, or with the oldest one if it has not traded.
WalkInv ==
    /\ taker.phase = "level" => /\ Facing # {} => taker.level = Best
                                /\ taker.amount > 0 => Passed
    /\ taker.phase = "rest" /\ taker.amount > 0 /\ Crosses => Blocked

LEMMA BarsFails ==
    ASSUME NEW o, NEW v, Bars(taker, o.investor)
    PROVE  TradeFailure(o, v) # "none"
<1> DEFINE w == o.price * v
<1>1. CASE taker.side = "buy"
  <2>1. Failure(o.investor, taker.investor, v, w) # "none"
    <3>1. Barred(o.investor, taker.investor)
      BY <1>1 DEF Bars
    <3> HIDE DEF w
    <3> QED BY <3>1, BarredFails
  <2> QED BY <1>1, <2>1 DEF TradeFailure
<1>2. CASE taker.side # "buy"
  <2>1. Failure(taker.investor, o.investor, v, w) # "none"
    <3>1. Barred(taker.investor, o.investor)
      BY <1>2 DEF Bars
    <3> HIDE DEF w
    <3> QED BY <3>1, BarredFails
  <2> QED BY <1>2, <2>1 DEF TradeFailure
<1> QED BY <1>1, <1>2

LEMMA UnknownBarsTaker ==
    ASSUME NEW o, NEW v, TradeFailure(o, v) = "unknown"
    PROVE  Bars(taker, o.investor)
<1> DEFINE w == o.price * v
<1>1. CASE taker.side = "buy"
  <2>1. Failure(o.investor, taker.investor, v, w) = "unknown"
    BY <1>1 DEF TradeFailure
  <2> HIDE DEF w
  <2>2. Barred(o.investor, taker.investor)
    BY <2>1, UnknownBars
  <2> QED BY <1>1, <2>2 DEF Bars
<1>2. CASE taker.side # "buy"
  <2>1. Failure(taker.investor, o.investor, v, w) = "unknown"
    BY <1>2 DEF TradeFailure
  <2> HIDE DEF w
  <2>2. Barred(taker.investor, o.investor)
    BY <2>1, UnknownBars
  <2> QED BY <1>2, <2>2 DEF Bars
<1> QED BY <1>1, <1>2

\* No order of the level is between the one looked at and the next.
LEMMA NothingBetween ==
    ASSUME OBInv, AtMaker, NEW j \in Facing, Maker.next = 0 \/ j < Maker.next
    PROVE  j = taker.at \/ j < taker.at
<1>1. /\ taker.level \in Prices /\ taker.at \in DOMAIN book.orders /\ taker \in TakerSet
      /\ Maker.side = Opposite(taker.side) /\ Maker.price = taker.level
  BY MakerIs
<1>2. Opposite(taker.side) \in Sides /\ taker.at \in Facing
  BY <1>1, Order DEF TakerSet, Facing, OrdersAt, Maker
<1>3. PlaceInv(book, Opposite(taker.side), taker.level) /\ TypedBook(book)
  BY <1>1, <1>2 DEF OBInv, Kept, BookInv
<1>4. Linked("sell", Facing, NextOrder(book), PrevOrder(book))
  BY <1>3 DEF PlaceInv, Facing
<1>5. IsNext("sell", Facing, taker.at, Maker.next)
  <2>1. NextOrder(book)[taker.at] = Maker.next
    BY <1>1 DEF NextOrder, Maker
  <2> QED BY <1>2, <1>4, <2>1 DEF Linked
<1>6. j \in Nat /\ taker.at \in Nat
  BY <1>2, <1>3, IdsAreNumbers DEF Facing
<1> QED BY <1>5, <1>6 DEF IsNext, Better

\* A level that is not empty stays the best one when orders leave.
LEMMA BestStays ==
    ASSUME NEW b, NEW c, BookInv(b), BookInv(c), NEW s \in Sides, NEW p \in Prices, b.best[s] = p,
           \A q \in Prices : OrdersAt(c, s, q) \subseteq OrdersAt(b, s, q), OrdersAt(c, s, p) # {}
    PROVE  c.best[s] = p
<1>1. IsFirst(s, LevelsOf(b, s), p) /\ IsFirst(s, LevelsOf(c, s), c.best[s])
  BY DEF BookInv, SideInv
<1>2. LevelsOf(c, s) \subseteq LevelsOf(b, s) /\ p \in LevelsOf(c, s) /\ LevelsOf(c, s) \subseteq Nat
  <2>1. \A q \in Prices : /\ q \in LevelsOf(b, s) <=> OrdersAt(b, s, q) # {}
                          /\ q \in LevelsOf(c, s) <=> OrdersAt(c, s, q) # {}
    BY DEF BookInv
  <2>2. LevelsOf(b, s) \subseteq Prices /\ LevelsOf(c, s) \subseteq Prices /\ Prices \subseteq Nat
    BY OrderBookAssumption DEF LevelsOf, Prices
  <2>3. p \in LevelsOf(c, s)
    BY <2>1
  <2>4. LevelsOf(c, s) \subseteq LevelsOf(b, s)
    BY <2>1, <2>2
  <2> QED BY <2>2, <2>3, <2>4
<1>3. c.best[s] \in LevelsOf(c, s) /\ \A j \in LevelsOf(c, s) : ~Better(s, j, c.best[s])
  BY <1>1, <1>2 DEF IsFirst
<1>4. \A j \in LevelsOf(b, s) : ~Better(s, j, p)
  BY <1>1, <1>2 DEF IsFirst
<1> QED BY <1>2, <1>3, <1>4, Order

\* The walk goes on after a trade or an eviction.
LEMMA WalkOn ==
    ASSUME OBInv, OBInv', WalkInv, AtMaker, NEW a \in Nat, NEW d \in Nat,
           taker' = [taker EXCEPT !.amount = a, !.traded = d, !.at = Maker.next],
           tbdListed' = tbdListed, allowed' = allowed, a <= taker.amount, d >= taker.traded,
           SomeOf(book, book'), a > 0 => taker.at \notin DOMAIN book'.orders
    PROVE  WalkInv'
<1> DEFINE n == Maker.next
           s == Opposite(taker.side)
<1>1. taker \in TakerSet /\ taker.phase = "level" /\ taker.level \in Prices /\ taker.amount \in Nat
      /\ taker.amount > 0
  BY MakerIs DEF AtMaker
<1>2. /\ taker'.phase = "level" /\ taker'.level = taker.level /\ taker'.side = taker.side
      /\ taker'.at = n /\ taker'.amount = a /\ taker'.traded = d /\ taker'.investor = taker.investor
  <2>1. taker' = [taker EXCEPT !.amount = a, !.traded = d, !.at = n]
    OBVIOUS
  <2> HIDE DEF n
  <2> QED BY <1>1, <2>1 DEF TakerSet
<1>3. \A q : OrdersAt(book', s, q) \subseteq OrdersAt(book, s, q)
  BY DEF SomeOf, OrdersAt
<1>4. Facing' = OrdersAt(book', s, taker.level) /\ Facing = OrdersAt(book, s, taker.level)
  BY <1>2 DEF Facing
<1>5. Best' = book'.best[s] /\ Best = book.best[s] /\ s \in Sides
  BY <1>1, <1>2, Order DEF Best, TakerSet
<1>6. ASSUME Facing' # {} PROVE taker'.level = Best'
  <2>1. Best = taker.level
    BY <1>1, <1>3, <1>4, <1>6 DEF WalkInv
  <2>2. BookInv(book) /\ BookInv(book')
    BY DEF OBInv, Kept
  <2> HIDE DEF s
  <2>3. book'.best[s] = taker.level
    BY <1>1, <1>3, <1>4, <1>5, <1>6, <2>1, <2>2, BestStays
  <2> QED BY <1>2, <1>5, <2>3
<1>7. ASSUME a > 0 PROVE Passed'
  <2>1. Passed
    BY <1>1 DEF WalkInv
  <2>2. ASSUME NEW j \in Facing', n = 0 \/ j < n
        PROVE  taker'.traded > 0 /\ Bars(taker, book.orders[j].investor)'
    <3>1. j \in Facing /\ j \in DOMAIN book'.orders /\ j # taker.at
      BY <1>3, <1>4, <1>7, <2>2 DEF OrdersAt
    <3>2. j < taker.at
      BY <2>2, <3>1, NothingBetween
    <3>3. taker.traded > 0 /\ Bars(taker, book.orders[j].investor)
      BY <2>1, <3>1, <3>2 DEF Passed
    <3>4. book'.orders[j].investor = book.orders[j].investor
      BY <3>1 DEF SomeOf
    <3>5. PICK i : i = book.orders[j].investor
      OBVIOUS
    <3>6. Bars(taker, i)
      BY <3>3, <3>5
    <3>7. Bars(taker, i)'
      BY <1>2, <3>6 DEF Bars, Barred
    <3>8. taker'.traded > 0
      BY <1>1, <1>2, <3>3 DEF TakerSet
    <3> QED BY <3>4, <3>5, <3>7, <3>8
  <2> QED BY <1>2, <2>2 DEF Passed
<1> QED BY <1>2, <1>6, <1>7 DEF WalkInv

LEMMA WalkQuiet ==
    ASSUME taker'.phase \notin {"level", "rest"} PROVE WalkInv'
BY DEF WalkInv

LEMMA EnterLevelWalks ==
    ASSUME OBInv, WalkInv, EnterLevel PROVE WalkInv'
<1>1. taker \in TakerSet /\ book' = book
  BY TakerIs DEF EnterLevel
<1>2. CASE taker.amount > 0 /\ Crosses
  <2> DEFINE b == Best
             s == Opposite(taker.side)
             h == book.levels[s][b].head
  <2>1. b \in Prices /\ s \in Sides
    BY <1>1, <1>2, BestIs, Order DEF Crosses, TakerSet
  <2>2. taker' = [taker EXCEPT !.phase = "level", !.level = b, !.at = h]
    BY <1>2 DEF EnterLevel
  <2>3. IsFirst("sell", OrdersAt(book, s, b), h) /\ OrdersAt(book, s, b) \subseteq Nat \ {0}
    BY <2>1, IdsAreNumbers DEF OBInv, Kept, BookInv, PlaceInv
  <2>4. b = book.best[s]
    BY DEF Best
  <2> HIDE DEF b, h
  <2>5. taker'.phase = "level" /\ taker'.level = b /\ taker'.side = taker.side /\ taker'.at = h
    BY <1>1, <2>2 DEF TakerSet
  <2>6. Facing' = OrdersAt(book, s, b)
    BY <1>1, <2>5 DEF Facing
  <2>7. Best' = b
    BY <1>1, <2>4, <2>5 DEF Best
  <2>8. \A j \in Facing' : ~(h = 0 \/ j < h)
    BY <2>3, <2>6 DEF IsFirst, Better
  <2>9. Passed'
    BY <2>5, <2>8 DEF Passed
  <2> QED BY <2>5, <2>7, <2>9 DEF WalkInv
<1>3. CASE ~(taker.amount > 0 /\ Crosses)
  <2>1. taker' = [taker EXCEPT !.phase = "rest"]
    BY <1>3 DEF EnterLevel
  <2>2. taker'.phase = "rest" /\ taker'.amount = taker.amount /\ taker'.side = taker.side /\ taker'.price = taker.price
    BY <1>1, <2>1 DEF TakerSet
  <2>3. Crosses' = Crosses
    BY <1>1, <2>2 DEF Crosses, Best
  <2> QED BY <1>3, <2>2, <2>3 DEF WalkInv
<1> QED BY <1>2, <1>3

LEMMA MatchWalks ==
    ASSUME OBInv, OBInv', WalkInv, Match PROVE WalkInv'
<1> DEFINE v == Lower(taker.amount, Maker.amount)
           a == taker.amount - v
           d == taker.traded + v
<1>1. AtMaker /\ book' = FillOrder(book, taker.at, v) /\ tbdListed' = tbdListed /\ allowed' = allowed
  BY DEF Match, Settle, Cct
<1>2. /\ taker \in TakerSet /\ taker.at \in DOMAIN book.orders /\ Maker = book.orders[taker.at]
  BY <1>1, MakerIs DEF Maker
<1>3. /\ v \in Nat /\ v <= taker.amount /\ v <= Maker.amount /\ taker.amount \in Nat /\ Maker.amount \in Nat
  BY <1>1, TradeTyped
<1>4. taker.amount > v => v = Maker.amount
  BY <1>3 DEF Lower
<1>5. taker' = [taker EXCEPT !.amount = a, !.traded = d, !.at = Maker.next]
  BY DEF Match
<1>6. taker.traded \in Nat
  BY <1>2 DEF TakerSet
<1> HIDE DEF v
<1>7. a \in Nat /\ d \in Nat /\ a <= taker.amount /\ (a > 0 => taker.amount > v) /\ d >= taker.traded
  BY <1>3, <1>6
<1>8. Kept(book, nonce) /\ nonce \in Nat /\ v <= book.orders[taker.at].amount
  BY <1>2, <1>3 DEF OBInv, CountersTyped
<1>9. SomeOf(book, book') /\ (v = book.orders[taker.at].amount => taker.at \notin DOMAIN book'.orders)
  BY <1>1, <1>2, <1>3, <1>8, KeptFilled
<1>10. a > 0 => taker.at \notin DOMAIN book'.orders
  BY <1>2, <1>4, <1>7, <1>9
<1> HIDE DEF a, d
<1> QED BY <1>1, <1>5, <1>7, <1>9, <1>10, WalkOn, Zenon

LEMMA EvictMakerWalks ==
    ASSUME OBInv, OBInv', WalkInv, EvictMaker PROVE WalkInv'
<1> DEFINE a == taker.amount
           d == taker.traded
<1>1. AtMaker /\ book' = RemoveOrder(book, taker.at) /\ tbdListed' = tbdListed /\ allowed' = allowed
  BY DEF EvictMaker, Failing, ledgers, tbdVars, cashVars
<1>2. taker \in TakerSet /\ Present(book, taker.at)
  BY <1>1, MakerIs
<1>3. a \in Nat /\ d \in Nat
  BY <1>2 DEF TakerSet
<1>4. taker' = [taker EXCEPT !.amount = a, !.traded = d, !.at = Maker.next]
  <2>1. taker' = [taker EXCEPT !.at = Maker.next]
    BY DEF EvictMaker
  <2> QED BY <1>2, <2>1 DEF TakerSet
<1>5. Removed(book, taker.at, book') /\ taker.at \in DOMAIN book.orders
  BY <1>1, <1>2, OrderRemoved DEF Present
<1>6. KeptBut(book, nonce, taker.at) /\ nonce \in Nat
  BY DEF OBInv, Kept, KeptBut, CountersTyped
<1>7. SomeOf(book, book') /\ taker.at \notin DOMAIN book'.orders
  BY <1>5, <1>6, KeptRemoved, Zenon DEF Removed
<1>8. a <= taker.amount /\ d >= taker.traded
  BY <1>3
<1> HIDE DEF a, d
<1> QED BY <1>1, <1>3, <1>4, <1>7, <1>8, WalkOn, Zenon

LEMMA PassMakerWalks ==
    ASSUME OBInv, WalkInv, PassMaker PROVE WalkInv'
<1>1. AtMaker /\ book' = book /\ tbdListed' = tbdListed /\ allowed' = allowed /\ UNCHANGED ledgers
  BY DEF PassMaker, Failing, ledgers, tbdVars, cashVars
<1>2. /\ taker \in TakerSet /\ taker.phase = "level" /\ taker.at \in Facing /\ taker.amount > 0
      /\ taker.at \in DOMAIN book.orders /\ Maker = book.orders[taker.at]
  BY <1>1, MakerIs DEF Facing, OrdersAt, Maker, AtMaker
<1>3. TradeFailure(Maker, Lower(taker.amount, Maker.amount)) = "unknown"
  BY DEF PassMaker, Reason
<1>4. CASE taker.traded = 0
  <2>1. taker' = [taker EXCEPT !.phase = "rest"]
    BY <1>4 DEF PassMaker
  <2>2. /\ taker'.phase = "rest" /\ taker'.amount = taker.amount /\ taker'.side = taker.side
        /\ taker'.investor = taker.investor
    BY <1>2, <2>1 DEF TakerSet
  <2>3. taker.level = Best /\ Best' = Best
    BY <1>1, <1>2, <2>2 DEF WalkInv, Best
  <2>4. taker'.traded = 0 /\ taker'.level = taker.level
    BY <1>2, <1>4, <2>1 DEF TakerSet
  <2>5. PICK k : k = taker.at
    OBVIOUS
  <2>6. TradeFailure(book.orders[k], Lower(taker.amount, book.orders[k].amount)) = "unknown"
    BY <1>2, <1>3, <2>5
  <2>7. (TradeFailure(book.orders[k], Lower(taker.amount, book.orders[k].amount)) = "unknown")'
    BY <1>1, <2>2, <2>6, Zenon DEF TradeFailure, Failure, CustodialError, CctError, ledgers, csdVars, tbdVars, cashVars
  <2>8. OrdersAt(book, Opposite(taker.side), Best)' = Facing
    BY <1>1, <2>2, <2>3 DEF Facing
  <2>9. \A j \in Facing : k <= j
    <3>1. \A j \in Facing : ~(j < taker.at)
      BY <1>2, <1>4 DEF WalkInv, Passed
    <3>2. TypedBook(book)
      BY DEF OBInv, Kept, BookInv
    <3>3. ASSUME NEW j \in Facing PROVE j \in Nat /\ taker.at \in Nat
      BY <1>2, <3>2, IdsAreNumbers DEF Facing
    <3> QED BY <1>2, <2>5, <3>1, <3>3
  <2>10. Stops(k)'
    BY <2>7, <2>8, <2>9 DEF Stops
  <2>11. Blocked'
    BY <1>2, <2>4, <2>5, <2>8, <2>10 DEF Blocked
  <2> QED BY <2>2, <2>11 DEF WalkInv
<1>5. CASE taker.traded # 0
  <2> DEFINE n == Maker.next
  <2>1. taker' = [taker EXCEPT !.at = n]
    BY <1>5 DEF PassMaker
  <2>2. \A j \in Facing : n = 0 \/ j < n => j = taker.at \/ j < taker.at
    BY <1>1, NothingBetween
  <2> HIDE DEF n
  <2>3. /\ taker'.phase = "level" /\ taker'.level = taker.level /\ taker'.side = taker.side
        /\ taker'.at = n /\ taker'.amount = taker.amount /\ taker'.investor = taker.investor
        /\ taker'.traded = taker.traded /\ taker.traded \in Nat
    BY <1>2, <2>1 DEF TakerSet
  <2>4. Facing' = Facing /\ Best' = Best
    BY <1>1, <2>3 DEF Facing, Best
  <2>5. Bars(taker, Maker.investor)
    BY <1>3, UnknownBarsTaker
  <2>6. ASSUME NEW j \in Facing, n = 0 \/ j < n
        PROVE  taker'.traded > 0 /\ Bars(taker, book.orders[j].investor)'
    <3>1. Bars(taker, book.orders[j].investor)
      BY <1>2, <2>2, <2>5, <2>6 DEF WalkInv, Passed
    <3>2. PICK i : i = book.orders[j].investor
      OBVIOUS
    <3>3. Bars(taker, i)
      BY <3>1, <3>2
    <3>4. Bars(taker, i)'
      BY <1>1, <2>3, <3>3 DEF Bars, Barred
    <3>5. taker'.traded > 0
      BY <1>5, <2>3
    <3> QED BY <1>1, <3>2, <3>4, <3>5
  <2>7. Passed'
    BY <2>3, <2>4, <2>6 DEF Passed
  <2>8. Facing' # {} => taker'.level = Best'
    BY <1>2, <2>3, <2>4 DEF WalkInv
  <2> QED BY <2>3, <2>7, <2>8 DEF WalkInv
<1> QED BY <1>4, <1>5

LEMMA LeaveLevelWalks ==
    ASSUME OBInv, WalkInv, LeaveLevel PROVE WalkInv'
<1>1. taker.phase = "level" /\ ~AtMaker /\ book' = book /\ UNCHANGED ledgers
  BY DEF LeaveLevel
<1>2. taker \in TakerSet
  BY <1>1, TakerIs
<1>3. CASE Best = taker.level
  <2>1. taker' = [taker EXCEPT !.phase = "rest"]
    BY <1>3 DEF LeaveLevel
  <2>2. /\ taker'.phase = "rest" /\ taker'.amount = taker.amount /\ taker'.side = taker.side
        /\ taker'.investor = taker.investor
    BY <1>2, <2>1 DEF TakerSet
  <2>3. Best' = Best
    BY <1>1, <2>2 DEF Best
  <2>4. ASSUME taker.amount > 0, Best # 0 PROVE Blocked'
    <3>1. taker.at = 0
      BY <1>1, <2>4 DEF AtMaker
    <3>2. \A k \in Facing : taker.traded > 0 /\ Bars(taker, book.orders[k].investor)
      BY <1>1, <2>4, <3>1 DEF WalkInv, Passed
    <3>3. Facing # {}
      <4>1. Best \in LevelsOf(book, Opposite(taker.side)) /\ Opposite(taker.side) \in Sides /\ Best \in Prices
        BY <1>2, <2>4, BestIs, Order DEF TakerSet
      <4>2. OrdersAt(book, Opposite(taker.side), Best) # {}
        BY <4>1 DEF OBInv, Kept, BookInv
      <4> QED BY <1>3, <4>2 DEF Facing
    <3>4. OrdersAt(book, Opposite(taker.side), Best)' = Facing
      BY <1>1, <1>3, <2>2, <2>3 DEF Facing
    <3>5. taker'.traded = taker.traded /\ taker.traded > 0
      BY <1>2, <2>1, <3>2, <3>3 DEF TakerSet
    <3>6. ASSUME NEW k \in Facing PROVE CannotTrade(k)'
      <4>1. TradeFailure(book.orders[k], Lower(taker.amount, book.orders[k].amount)) # "none"
        BY <3>2, BarsFails
      <4>2. (TradeFailure(book.orders[k], Lower(taker.amount, book.orders[k].amount)) # "none")'
        BY <1>1, <2>2, <4>1, Zenon DEF TradeFailure, Failure, CustodialError, CctError, ledgers, csdVars, tbdVars, cashVars
      <4> QED BY <4>2 DEF CannotTrade
    <3> QED BY <3>4, <3>5, <3>6 DEF Blocked
  <2>5. Crosses' => Best' # 0
    BY DEF Crosses
  <2> QED BY <2>2, <2>3, <2>4, <2>5 DEF WalkInv
<1>4. CASE Best # taker.level
  <2>1. taker' = [taker EXCEPT !.phase = "levels"]
    BY <1>4 DEF LeaveLevel
  <2>2. taker'.phase = "levels"
    BY <1>2, <2>1 DEF TakerSet
  <2> QED BY <2>2, WalkQuiet
<1> QED BY <1>3, <1>4

LEMMA WalkSame ==
    ASSUME WalkInv, taker = NoTaker, taker' = taker PROVE WalkInv'
<1>1. taker'.phase = "idle"
  BY DEF NoTaker
<1> QED BY <1>1, WalkQuiet

LEMMA WalkStutters ==
    ASSUME WalkInv, UNCHANGED vars PROVE WalkInv'
<1>1. Facing' = Facing /\ Best' = Best /\ Crosses' = Crosses /\ taker' = taker /\ book' = book
  BY DEF vars, Facing, Best, Crosses
<1>2. Passed' = Passed
  BY <1>1 DEF vars, ledgers, tbdVars, cashVars, Passed, Bars, Barred
<1>3. \A o, v : TradeFailure(o, v)' = TradeFailure(o, v)
  BY <1>1 DEF vars, ledgers, csdVars, tbdVars, cashVars, TradeFailure, Failure, CustodialError, CctError
<1>4. Blocked' = Blocked
  BY <1>1, <1>3 DEF Blocked, CannotTrade, Stops
<1> QED BY <1>1, <1>2, <1>4 DEF WalkInv

LEMMA WalkStep == OBInv /\ OBInv' /\ WalkInv /\ [Next]_vars => WalkInv'
<1> SUFFICES ASSUME OBInv, OBInv', WalkInv, [Next]_vars PROVE WalkInv'
  OBVIOUS
<1>1. ASSUME NEW r \in Requests, Submit(r) PROVE WalkInv'
  <2>1. taker'.phase = "levels"
    BY <1>1 DEF Submit
  <2> QED BY <2>1, WalkQuiet
<1>2. CASE DropTaker \/ Finish
  <2>1. taker' = NoTaker
    BY <1>2 DEF DropTaker, Finish
  <2>2. taker'.phase = "idle"
    BY <2>1 DEF NoTaker
  <2> QED BY <2>2, WalkQuiet
<1>3. CASE EnterLevel \/ Match \/ EvictMaker \/ PassMaker \/ LeaveLevel
  BY <1>3, EnterLevelWalks, MatchWalks, EvictMakerWalks, PassMakerWalks, LeaveLevelWalks
<1>4. ASSUME NEW c \in Issuances, InitializeSellOrders(c) PROVE WalkInv'
  BY <1>4, WalkSame DEF InitializeSellOrders, Idle
<1>5. ASSUME NEW id \in DOMAIN book.orders, Revoke(id) PROVE WalkInv'
  BY <1>5, WalkSame DEF Revoke, Idle
<1>6. CASE Edit
  BY <1>6, WalkSame DEF Edit, Idle
<1>7. CASE UNCHANGED vars
  BY <1>7, WalkStutters
<1> QED BY <1>1, <1>2, <1>3, <1>4, <1>5, <1>6, <1>7 DEF Next, Matching, MatchTurn

LEMMA WalkInit == Init => WalkInv
<1> SUFFICES ASSUME Init PROVE WalkInv
  OBVIOUS
<1>1. taker.phase = "idle"
  BY DEF Init, NoTaker
<1> QED BY <1>1 DEF WalkInv

LEMMA WalkAlways == Spec => []WalkInv
BY OBAlways, WalkInit, WalkStep, PTL DEF Spec

\* A submission leaves the book crossed at the best price only when the taker can be settled
\* with no order there, or, if it has not traded at all, when the oldest order there fails for
\* a reason that blames neither side.
THEOREM CrossedTheorem == Spec => CrossedOnlyByFailure
<1>1. WalkInv /\ [Next]_vars
        => [LeftCrossed =>
              LET facing == At(Opposite(taker.side), Best)
                  FailureWith(id) == TradeFailure(book.orders[id], Lower(taker.amount, book.orders[id].amount))
              IN  IF taker.traded > 0 THEN \A id \in facing : FailureWith(id) # "none"
                  ELSE \E id \in facing : /\ \A j \in facing : id <= j
                                          /\ FailureWith(id) = "unknown"]_vars
  <2>1. \A s, p : At(s, p) = OrdersAt(book, s, p)
    BY DEF At, OrderIds, OrdersAt
  <2> QED BY <2>1 DEF WalkInv, LeftCrossed, Crosses, Blocked, CannotTrade, Stops
<1> QED BY <1>1, WalkAlways, PTL DEF Spec, CrossedOnlyByFailure

-----------------------------------------------------------------------------
(* Reading a list                                                           *)

\* w says where each walk of at most n links along f leads.
Follows(f, N, w) ==
    w = [n \in 0 .. N |-> [x \in DOMAIN f \cup {0} |->
            IF x = 0 \/ n = 0 THEN <<>> ELSE <<x>> \o w[n - 1][f[x]]]]

LEMMA ChainFollows ==
    ASSUME NEW f, NEW first, NEW v, Follows(f, Cardinality(DOMAIN f), v)
    PROVE  \E w : Follows(f, Cardinality(DOMAIN f), w) /\ Chain(f, first) = w[Cardinality(DOMAIN f)][first]
<1> DEFINE w == CHOOSE y : Follows(f, Cardinality(DOMAIN f), y)
<1>1. Follows(f, Cardinality(DOMAIN f), w)
  BY Zenon
<1>2. Chain(f, first) = w[Cardinality(DOMAIN f)][first]
  BY Zenon DEF Chain, Follows
<1> QED BY <1>1, <1>2, Zenon


\* g says where each walk of one more link than those of h leads.
Extends(f, h, g) == \A x \in DOMAIN f \cup {0} : g[x] = IF x = 0 THEN <<>> ELSE <<x>> \o h[f[x]]

\* Walks by number of links, said of each number by itself
Steps(f, N, w) ==
    /\ DOMAIN w = 0 .. N
    /\ \A n \in 0 .. N : w[n] = [x \in DOMAIN f \cup {0} |-> w[n][x]]
    /\ \A x \in DOMAIN f \cup {0} : w[0][x] = <<>>
    /\ \A n \in 1 .. N : Extends(f, w[n - 1], w[n])

LEMMA FollowsSteps ==
    ASSUME NEW f, NEW N \in Nat, NEW w
    PROVE  Follows(f, N, w) <=> Steps(f, N, w)
<1> DEFINE X == DOMAIN f \cup {0}
<1>1. ASSUME Follows(f, N, w) PROVE Steps(f, N, w)
  <2>1. w = [n \in 0 .. N |-> [x \in X |-> IF x = 0 \/ n = 0 THEN <<>> ELSE <<x>> \o w[n - 1][f[x]]]]
    BY <1>1, Zenon DEF Follows
  <2>2. DOMAIN w = 0 .. N
    BY <2>1, Zenon
  <2>3. \A n \in 0 .. N : w[n] = [x \in X |-> IF x = 0 \/ n = 0 THEN <<>> ELSE <<x>> \o w[n - 1][f[x]]]
    BY <2>1, Zenon
  <2>4. \A n \in 0 .. N : \A x \in X : w[n][x] = IF x = 0 \/ n = 0 THEN <<>> ELSE <<x>> \o w[n - 1][f[x]]
    BY <2>3, Zenon
  <2>5. \A n \in 0 .. N : w[n] = [x \in X |-> w[n][x]]
    BY <2>3, Zenon
  <2>6. 0 \in 0 .. N /\ \A n \in 1 .. N : n \in 0 .. N /\ n # 0
    OBVIOUS
  <2>7. \A x \in X : w[0][x] = <<>>
    BY <2>4, <2>6, Zenon
  <2>8. \A n \in 1 .. N : Extends(f, w[n - 1], w[n])
    BY <2>4, <2>6, Zenon DEF Extends
  <2> QED BY <2>2, <2>5, <2>7, <2>8, Zenon DEF Steps
<1>2. ASSUME Steps(f, N, w) PROVE Follows(f, N, w)
  <2>1. \A n \in 0 .. N : n # 0 => n \in 1 .. N
    OBVIOUS
  <2>2. ASSUME NEW n \in 0 .. N, NEW x \in X
        PROVE  w[n][x] = IF x = 0 \/ n = 0 THEN <<>> ELSE <<x>> \o w[n - 1][f[x]]
    <3>1. CASE n = 0
      BY <1>2, <3>1, Zenon DEF Steps
    <3>2. CASE n # 0
      BY <1>2, <2>1, <3>2, Zenon DEF Steps, Extends
    <3> QED BY <3>1, <3>2
  <2>3. ASSUME NEW n \in 0 .. N
        PROVE  w[n] = [x \in X |-> IF x = 0 \/ n = 0 THEN <<>> ELSE <<x>> \o w[n - 1][f[x]]]
    <3>1. w[n] = [x \in X |-> w[n][x]]
      BY <1>2 DEF Steps
    <3> QED BY <2>2, <3>1, Zenon
  <2>4. w = [n \in 0 .. N |-> w[n]]
    BY <1>2 DEF Steps
  <2>5. w = [n \in 0 .. N |-> [x \in X |-> IF x = 0 \/ n = 0 THEN <<>> ELSE <<x>> \o w[n - 1][f[x]]]]
    BY <2>3, <2>4, Zenon
  <2> QED BY <2>5, Zenon DEF Follows
<1> QED BY <1>1, <1>2

LEMMA StepsExist ==
    ASSUME NEW f, NEW N \in Nat
    PROVE  \E w : Steps(f, N, w)
<1> DEFINE X == DOMAIN f \cup {0}
           F == {m \in 0 .. N : ~\E w : Steps(f, m, w)}
<1>1. F = {}
  <2> SUFFICES ASSUME F # {} PROVE FALSE
    OBVIOUS
  <2>1. PICK m \in F : \A j \in F : m <= j
    <3>1. F \subseteq 0 .. N
      OBVIOUS
    <3> HIDE DEF F
    <3> QED BY <3>1, FirstFailure
  <2>2. CASE m = 0
    <3> DEFINE r == [n \in 0 .. 0 |-> [x \in X |-> <<>>]]
    <3>1. DOMAIN r = 0 .. 0 /\ \A n \in 0 .. 0 : r[n] = [x \in X |-> <<>>]
      OBVIOUS
    <3>2. \A n \in 0 .. 0 : r[n] = [x \in X |-> r[n][x]]
      BY <3>1
    <3>3. 0 \in 0 .. 0 /\ 1 .. 0 = {}
      OBVIOUS
    <3> HIDE DEF r
    <3>4. Steps(f, 0, r)
      BY <3>1, <3>2, <3>3 DEF Steps
    <3> QED BY <2>1, <2>2, <3>4
  <2>3. CASE m # 0
    <3>1. m \in Nat /\ m - 1 \in 0 .. N /\ m - 1 \notin F
      <4>1. m \in 0 .. N
        BY <2>1
      <4> HIDE DEF F
      <4>2. m \in Nat /\ m - 1 \in 0 .. N /\ ~(m <= m - 1)
        BY <2>3, <4>1
      <4> QED BY <2>1, <4>2
    <3>2. PICK g : Steps(f, m - 1, g)
      BY <3>1
    <3> DEFINE last == [x \in X |-> IF x = 0 THEN <<>> ELSE <<x>> \o g[m - 1][f[x]]]
               r == [n \in 0 .. m |-> IF n = m THEN last ELSE g[n]]
    <3>3. Extends(f, g[m - 1], last) /\ last = [x \in X |-> last[x]]
      BY DEF Extends
    <3> HIDE DEF last
    <3>4. DOMAIN r = 0 .. m /\ r[m] = last /\ \A n \in 0 .. (m - 1) : r[n] = g[n]
      BY <3>1
    <3> HIDE DEF r
    <3>5. \A n \in 0 .. m : n = m \/ n \in 0 .. (m - 1)
      BY <3>1
    <3>6. \A n \in 1 .. m : n = m \/ n \in 1 .. (m - 1)
      BY <3>1
    <3>7. \A n \in 1 .. m : n - 1 \in 0 .. (m - 1)
      BY <3>1
    <3>8. \A n \in 0 .. m : r[n] = [x \in X |-> r[n][x]]
      <4> TAKE n \in 0 .. m
      <4>1. CASE n = m
        BY <3>3, <3>4, <4>1
      <4>2. CASE n # m
        BY <3>2, <3>4, <3>5, <4>2, Zenon DEF Steps
      <4> QED BY <4>1, <4>2
    <3>9. \A x \in X : r[0][x] = <<>>
      <4>1. 0 \in 0 .. (m - 1)
        BY <2>3, <3>1
      <4> QED BY <3>2, <3>4, <4>1, Zenon DEF Steps
    <3>10. \A n \in 1 .. m : Extends(f, r[n - 1], r[n])
      <4> TAKE n \in 1 .. m
      <4>1. r[n - 1] = g[n - 1]
        BY <3>4, <3>7
      <4>2. CASE n = m
        BY <3>3, <3>4, <4>1, <4>2
      <4>3. CASE n # m
        <5>1. n \in 1 .. (m - 1) /\ n \in 0 .. (m - 1)
          BY <3>1, <3>6, <4>3
        <5> QED BY <3>2, <3>4, <4>1, <5>1, Zenon DEF Steps
      <4> QED BY <4>2, <4>3
    <3>11. Steps(f, m, r)
      BY <3>4, <3>8, <3>9, <3>10 DEF Steps
    <3> QED BY <2>1, <3>11
  <2> QED BY <2>2, <2>3
<1>2. N \in 0 .. N
  OBVIOUS
<1> QED BY <1>1, <1>2

LEMMA ChainSteps ==
    ASSUME NEW f, NEW first, Cardinality(DOMAIN f) \in Nat
    PROVE  \E w : Steps(f, Cardinality(DOMAIN f), w) /\ Chain(f, first) = w[Cardinality(DOMAIN f)][first]
<1>1. PICK v : Steps(f, Cardinality(DOMAIN f), v)
  BY StepsExist
<1>2. Follows(f, Cardinality(DOMAIN f), v)
  BY <1>1, FollowsSteps
<1>3. PICK w : Follows(f, Cardinality(DOMAIN f), w) /\ Chain(f, first) = w[Cardinality(DOMAIN f)][first]
  BY <1>2, ChainFollows, Zenon
<1>4. Steps(f, Cardinality(DOMAIN f), w)
  BY <1>3, FollowsSteps
<1> QED BY <1>3, <1>4, Zenon

\* The part of S from x on, in the order of side s, and q reading it along f
From(s, S, x) == {j \in S : x # 0 /\ (j = x \/ Better(s, x, j))}
Reads(s, S, f, x, q) ==
    /\ q \in Seq(S) /\ \A j : j \in From(s, S, x) <=> \E k \in 1 .. Len(q) : j = q[k]
    /\ Len(q) # 0 => q[1] = x
    /\ \A k \in 1 .. Len(q) : k # 1 => f[q[k - 1]] = q[k]
    /\ \A j, k \in 1 .. Len(q) : j < k => Better(s, q[j], q[k])

\* f leads forwards through S, which is among its elements.
Forward(s, S, f) == S \subseteq DOMAIN f /\ \A a \in S : IsNext(s, S, a, f[a])

LEMMA FromNext ==
    ASSUME NEW s \in Sides, NEW S, S \subseteq Nat \ {0}, NEW x \in S, NEW n, IsNext(s, S, x, n)
    PROVE  /\ n \in S \cup {0} /\ x \in From(s, S, x) /\ From(s, S, n) = From(s, S, x) \ {x}
           /\ \A j \in From(s, S, n) : Better(s, x, j)
<1>1. x \in Nat /\ x # 0 /\ \A j \in S : j \in Nat /\ j # 0
  OBVIOUS
<1>2. CASE n = 0
  <2>1. \A j \in S : ~Better(s, x, j)
    BY <1>1, <1>2 DEF IsNext
  <2> QED BY <1>1, <1>2, <2>1 DEF From
<1>3. CASE n # 0
  <2>1. n \in S /\ Better(s, x, n) /\ \A j \in S : ~(Better(s, x, j) /\ Better(s, j, n))
    BY <1>3 DEF IsNext
  <2>2. \A j \in S : j = n \/ Better(s, n, j) \/ Better(s, j, n)
    BY <1>1, <2>1, Order
  <2>3. \A j \in S : Better(s, n, j) => Better(s, x, j)
    BY <1>1, <2>1, Order
  <2>4. ~Better(s, x, x)
    BY <1>1, Order
  <2> QED BY <1>1, <1>3, <2>1, <2>2, <2>3, <2>4 DEF From
<1> QED BY <1>2, <1>3

LEMMA ReadsMore ==
    ASSUME NEW s \in Sides, NEW S, S \subseteq Nat \ {0}, NEW f, Forward(s, S, f), NEW x \in S,
           NEW r, Reads(s, S, f, f[x], r), NEW q, q = <<x>> \o r
    PROVE  Reads(s, S, f, x, q)
<1>1. /\ f[x] \in S \cup {0} /\ x \in From(s, S, x) /\ From(s, S, f[x]) = From(s, S, x) \ {x}
      /\ \A j \in From(s, S, f[x]) : Better(s, x, j)
  BY FromNext DEF Forward
<1>2. r \in Seq(S) /\ Len(r) \in Nat
  BY DEF Reads
<1>3. <<x>> \in Seq(S) /\ Len(<<x>>) = 1 /\ <<x>>[1] = x
  OBVIOUS
<1>4. q \in Seq(S) /\ Len(q) = 1 + Len(r)
  BY <1>2, <1>3, ConcatProperties
<1>5. q[1] = x /\ \A k \in 1 .. Len(q) : k # 1 => q[k] = r[k - 1]
  BY <1>2, <1>3
<1>6. \A k \in 1 .. Len(q) : k # 1 => k - 1 \in 1 .. Len(r)
  BY <1>2, <1>4
<1>7. \A k \in 1 .. Len(r) : k + 1 \in 1 .. Len(q) /\ q[k + 1] = r[k]
  BY <1>2, <1>4, <1>5
<1>8. ASSUME NEW j PROVE j \in From(s, S, x) <=> \E k \in 1 .. Len(q) : j = q[k]
  <2>1. CASE j = x
    <3>1. 1 \in 1 .. Len(q)
      BY <1>2, <1>4
    <3> QED BY <1>1, <1>5, <2>1, <3>1
  <2>2. CASE j # x
    <3>1. j \in From(s, S, x) <=> j \in From(s, S, f[x])
      BY <1>1, <2>2
    <3>2. j \in From(s, S, f[x]) <=> \E k \in 1 .. Len(r) : j = r[k]
      BY Zenon DEF Reads
    <3>3. ASSUME \E k \in 1 .. Len(r) : j = r[k] PROVE \E k \in 1 .. Len(q) : j = q[k]
      BY <1>7, <3>3
    <3>4. ASSUME \E k \in 1 .. Len(q) : j = q[k] PROVE \E k \in 1 .. Len(r) : j = r[k]
      BY <1>5, <1>6, <2>2, <3>4
    <3> QED BY <3>1, <3>2, <3>3, <3>4
  <2> QED BY <2>1, <2>2
<1>9. ASSUME NEW k \in 1 .. Len(q), k # 1 PROVE f[q[k - 1]] = q[k]
  <2>1. k - 1 \in 1 .. Len(r) /\ q[k] = r[k - 1]
    BY <1>5, <1>6, <1>9
  <2>2. CASE k = 2
    <3>1. Len(r) # 0 /\ k - 1 = 1
      BY <1>2, <2>1, <2>2
    <3> QED BY <1>5, <2>1, <3>1 DEF Reads
  <2>3. CASE k # 2
    <3>1. k - 1 # 1 /\ k - 1 \in 1 .. Len(q) /\ q[k - 1] = r[k - 1 - 1]
      BY <1>4, <1>2, <1>5, <1>9, <2>3
    <3> QED BY <2>1, <3>1 DEF Reads
  <2> QED BY <2>2, <2>3
<1>10. ASSUME NEW j \in 1 .. Len(q), NEW k \in 1 .. Len(q), j < k PROVE Better(s, q[j], q[k])
  <2>1. k # 1 /\ k - 1 \in 1 .. Len(r) /\ q[k] = r[k - 1]
    BY <1>4, <1>2, <1>5, <1>6, <1>10
  <2>2. CASE j = 1
    <3>1. q[k] \in From(s, S, f[x])
      BY <2>1 DEF Reads
    <3> QED BY <1>1, <1>5, <2>2, <3>1
  <2>3. CASE j # 1
    <3>1. j - 1 \in 1 .. Len(r) /\ q[j] = r[j - 1] /\ j - 1 < k - 1
      BY <1>4, <1>2, <1>5, <1>6, <1>10, <2>3
    <3> QED BY <2>1, <3>1 DEF Reads
  <2> QED BY <2>2, <2>3
<1> QED BY <1>4, <1>5, <1>8, <1>9, <1>10 DEF Reads

LEMMA ReadsNothing ==
    ASSUME NEW s, NEW S, NEW f, NEW x, From(s, S, x) = {}
    PROVE  Reads(s, S, f, x, <<>>)
<1>1. <<>> \in Seq(S) /\ Len(<<>>) = 0 /\ 1 .. 0 = {}
  OBVIOUS
<1> QED BY <1>1 DEF Reads

\* A walk with as many links as there are elements from x on reads them all.
ReadsAll(s, S, f, h, n) ==
    \A x \in S \cup {0} : Cardinality(From(s, S, x)) <= n => Reads(s, S, f, x, h[x])

LEMMA WalkReads ==
    ASSUME NEW s \in Sides, NEW S, S \subseteq Nat \ {0}, IsFiniteSet(S), NEW f, Forward(s, S, f),
           NEW N \in Nat, NEW w, Steps(f, N, w)
    PROVE  ReadsAll(s, S, f, w[N], N)
<1> DEFINE F == {m \in 0 .. N : ~ReadsAll(s, S, f, w[m], m)}
<1>1. ASSUME NEW x PROVE IsFiniteSet(From(s, S, x)) /\ Cardinality(From(s, S, x)) \in Nat
  <2>1. From(s, S, x) \subseteq S
    BY DEF From
  <2>2. IsFiniteSet(From(s, S, x))
    BY <2>1, FS_Subset
  <2> QED BY <2>2, FS_CardinalityType
<1>2. \A x : From(s, S, x) = {} => Reads(s, S, f, x, <<>>)
  BY ReadsNothing
<1>3. From(s, S, 0) = {}
  BY DEF From
<1>4. F = {}
  <2> SUFFICES ASSUME F # {} PROVE FALSE
    OBVIOUS
  <2>1. PICK m \in F : \A j \in F : m <= j
    <3>1. F \subseteq 0 .. N
      OBVIOUS
    <3> HIDE DEF F
    <3> QED BY <3>1, FirstFailure
  <2>2. m \in 0 .. N /\ m \in Nat /\ ~ReadsAll(s, S, f, w[m], m)
    BY <2>1
  <2>3. PICK x \in S \cup {0} : Cardinality(From(s, S, x)) <= m /\ ~Reads(s, S, f, x, w[m][x])
    BY <2>2, Zenon DEF ReadsAll
  <2>4. x \in DOMAIN f \cup {0}
    BY DEF Forward
  <2>5. CASE From(s, S, x) = {}
    <3>1. CASE m = 0
      <4>1. w[m][x] = <<>>
        BY <2>4, <3>1, Zenon DEF Steps
      <4> QED BY <1>2, <2>3, <2>5, <4>1
    <3>2. CASE m # 0
      <4>1. x = 0
        <5>1. x \notin From(s, S, x)
          BY <2>5
        <5> QED BY <5>1 DEF From
      <4>2. m \in 1 .. N
        BY <2>2, <3>2
      <4>3. w[m][x] = <<>>
        BY <2>4, <4>1, <4>2, Zenon DEF Steps, Extends
      <4> QED BY <1>2, <2>3, <2>5, <4>3
    <3> QED BY <3>1, <3>2
  <2>6. CASE From(s, S, x) # {}
    <3>1. x # 0 /\ x \in S
      BY <1>3, <2>6
    <3>2. /\ f[x] \in S \cup {0} /\ x \in From(s, S, x) /\ From(s, S, f[x]) = From(s, S, x) \ {x}
      BY <3>1, FromNext, Zenon DEF Forward
    <3>3. Cardinality(From(s, S, f[x])) = Cardinality(From(s, S, x)) - 1
      <4>1. IsFiniteSet(From(s, S, x)) /\ Cardinality(From(s, S, x) \ {x}) = Cardinality(From(s, S, x)) - 1
        BY <1>1, <3>2, FS_RemoveElement
      <4> QED BY <3>2, <4>1
    <3>4. Cardinality(From(s, S, x)) \in Nat /\ Cardinality(From(s, S, f[x])) \in Nat
      BY <1>1
    <3>5. m \in 1 .. N /\ m - 1 \in 0 .. N /\ Cardinality(From(s, S, f[x])) <= m - 1 /\ ~(m <= m - 1)
      BY <2>2, <2>3, <3>3, <3>4
    <3>6. m - 1 \notin F
      <4> HIDE DEF F
      <4> QED BY <2>1, <3>5
    <3>7. ReadsAll(s, S, f, w[m - 1], m - 1)
      BY <3>5, <3>6
    <3>8. Reads(s, S, f, f[x], w[m - 1][f[x]])
      BY <3>2, <3>5, <3>7, Zenon DEF ReadsAll
    <3>9. w[m][x] = <<x>> \o w[m - 1][f[x]]
      BY <2>4, <3>1, <3>5, Zenon DEF Steps, Extends
    <3>10. Reads(s, S, f, x, w[m][x])
      BY <3>1, <3>8, <3>9, ReadsMore
    <3> QED BY <2>3, <3>10
  <2> QED BY <2>5, <2>6
<1>5. N \in 0 .. N
  OBVIOUS
<1> QED BY <1>4, <1>5

\* A chain read from the first element of a list has each of its elements once, in order.
LEMMA ChainReads ==
    ASSUME NEW s \in Sides, NEW S, S \subseteq Nat \ {0}, NEW f, IsFiniteSet(DOMAIN f), Forward(s, S, f),
           NEW first, IsFirst(s, S, first)
    PROVE  Reads(s, S, f, first, Chain(f, first)) /\ From(s, S, first) = S
<1> DEFINE N == Cardinality(DOMAIN f)
<1>1. S \subseteq DOMAIN f
  BY DEF Forward
<1>2. IsFiniteSet(S) /\ Cardinality(S) <= N /\ N \in Nat /\ Cardinality(S) \in Nat
  BY <1>1, FS_Subset, FS_CardinalityType
<1>3. PICK w : Steps(f, N, w) /\ Chain(f, first) = w[N][first]
  BY <1>2, ChainSteps
<1>4. ReadsAll(s, S, f, w[N], N)
  BY <1>2, <1>3, WalkReads
<1>5. first \in S \cup {0}
  BY DEF IsFirst
<1>6. From(s, S, first) = S
  <2>1. CASE S = {}
    BY <2>1 DEF From
  <2>2. CASE S # {}
    <3>1. first \in S /\ \A j \in S : ~Better(s, j, first)
      BY <2>2 DEF IsFirst
    <3>2. \A j \in S : j = first \/ Better(s, first, j) \/ Better(s, j, first)
      BY <3>1, Order
    <3> QED BY <3>1, <3>2 DEF From
  <2> QED BY <2>1, <2>2
<1>7. Reads(s, S, f, first, w[N][first])
  BY <1>2, <1>4, <1>5, <1>6, Zenon DEF ReadsAll
<1> QED BY <1>3, <1>6, <1>7, Zenon

\* The elements of S are a list in the order of s, linked by f and g from first.
ListOf(s, S, f, g, first) ==
    /\ S \subseteq Nat \ {0} /\ S \subseteq DOMAIN f /\ IsFiniteSet(DOMAIN f)
    /\ Linked(s, S, f, g) /\ IsFirst(s, S, first)

\* The sequence q is S in the order of s, and g leads back through it.
Sorted(s, S, q) ==
    /\ q \in Seq(S) /\ Range(q) = S /\ DOMAIN q = 1 .. Len(q) /\ Len(q) \in Nat /\ (q # <<>> <=> S # {})
    /\ \A j, k \in DOMAIN q : j < k => Better(s, q[j], q[k])
ReadBack(g, q) == \A k \in DOMAIN q : g[q[k]] = Previous(q, k)

LEMMA ListRead ==
    ASSUME NEW s \in Sides, NEW S, NEW f, NEW g, NEW first, ListOf(s, S, f, g, first)
    PROVE  Sorted(s, S, Chain(f, first)) /\ ReadBack(g, Chain(f, first))
<1> DEFINE q == Chain(f, first)
<1>0. /\ S \subseteq Nat \ {0} /\ S \subseteq DOMAIN f /\ IsFiniteSet(DOMAIN f)
      /\ Linked(s, S, f, g) /\ IsFirst(s, S, first)
  BY Zenon DEF ListOf
<1>1. Forward(s, S, f)
  BY <1>0 DEF Forward, Linked
<1>2. Reads(s, S, f, first, q) /\ From(s, S, first) = S
  BY <1>0, <1>1, ChainReads
<1> HIDE DEF q
<1>3. q \in Seq(S) /\ DOMAIN q = 1 .. Len(q) /\ Len(q) \in Nat
  <2>1. q \in Seq(S)
    BY <1>2 DEF Reads
  <2> QED BY <2>1
<1>4. \A j : j \in S <=> \E k \in 1 .. Len(q) : j = q[k]
  BY <1>2, Zenon DEF Reads
<1>5. Range(q) = S
  BY <1>3, <1>4 DEF Range
<1>6. q # <<>> <=> S # {}
  <2>1. q # <<>> <=> 1 \in 1 .. Len(q)
    BY <1>3
  <2>2. ASSUME S # {} PROVE \E k \in 1 .. Len(q) : TRUE
    BY <1>4, <2>2
  <2>3. (\E k \in 1 .. Len(q) : TRUE) => 1 \in 1 .. Len(q)
    BY <1>3
  <2>4. 1 \in 1 .. Len(q) => q[1] \in S
    BY <1>4
  <2> QED BY <2>1, <2>2, <2>3, <2>4
<1>7. \A j, k \in DOMAIN q : j < k => Better(s, q[j], q[k])
  BY <1>2, <1>3 DEF Reads
<1>8. ASSUME NEW k \in DOMAIN q PROVE g[q[k]] = Previous(q, k)
  <2>1. q[k] \in S /\ q[k] \in Nat
    BY <1>0, <1>3, <1>4
  <2>2. IsNext(Opposite(s), S, q[k], g[q[k]])
    BY <1>0, <2>1 DEF Linked
  <2>3. IsPrev(s, S, q[k], g[q[k]])
    <3>1. S \subseteq Nat
      BY <1>0
    <3> QED BY <2>1, <2>2, <3>1, NextBackwards
  <2>4. CASE k = 1
    <3>1. q[k] = first
      BY <1>2, <1>3, <2>4 DEF Reads
    <3>2. \A j \in S : ~Better(s, j, first)
      BY <1>0 DEF IsFirst
    <3>3. g[q[k]] = 0
      BY <2>3, <3>1, <3>2 DEF IsPrev
    <3> QED BY <2>4, <3>3 DEF Previous
  <2>5. CASE k # 1
    <3> DEFINE c == q[k - 1]
               n == g[q[k]]
    <3>1. k - 1 \in DOMAIN q /\ k - 1 < k
      BY <1>3, <2>5
    <3>2. c \in S /\ c \in Nat /\ f[c] = q[k]
      BY <1>0, <1>2, <1>3, <1>4, <2>5, <3>1 DEF Reads
    <3>3. Better(s, c, q[k])
      BY <1>7, <3>1
    <3>4. IsNext(s, S, c, q[k])
      BY <1>0, <3>2 DEF Linked
    <3>5. \A j \in S : ~(Better(s, c, j) /\ Better(s, j, q[k]))
      BY <2>1, <3>4 DEF IsNext
    <3> HIDE DEF c, n
    <3>6. n \in S /\ Better(s, n, q[k]) /\ \A j \in S : ~(Better(s, n, j) /\ Better(s, j, q[k]))
      BY <2>3, <3>2, <3>3 DEF IsPrev, n
    <3>7. ~Better(s, c, n) /\ ~Better(s, n, c)
      BY <3>2, <3>3, <3>5, <3>6
    <3>8. n = c
      BY <1>0, <3>2, <3>6, <3>7, Order
    <3> QED BY <2>5, <3>8 DEF Previous, c, n
  <2> QED BY <2>4, <2>5
<1>9. q \in Seq(S)
  BY <1>2 DEF Reads
<1> QED BY <1>3, <1>5, <1>6, <1>7, <1>8, <1>9 DEF Sorted, ReadBack, q

LEMMA LastRead ==
    ASSUME NEW s \in Sides, NEW S, S \subseteq Nat \ {0}, NEW q, Sorted(s, S, q), S # {},
           NEW tail, IsFirst(Opposite(s), S, tail)
    PROVE  tail = Last(q)
<1>0. /\ Range(q) = S /\ DOMAIN q = 1 .. Len(q) /\ Len(q) \in Nat
      /\ \A j, k \in DOMAIN q : j < k => Better(s, q[j], q[k])
  BY DEF Sorted
<1>1. tail \in S /\ \A j \in S : ~Better(Opposite(s), j, tail)
  BY DEF IsFirst
<1>2. PICK k \in DOMAIN q : q[k] = tail
  BY <1>0, <1>1 DEF Range
<1>3. Len(q) \in DOMAIN q /\ q[Len(q)] \in S
  <2>1. Len(q) \in DOMAIN q
    BY <1>0, <1>2
  <2> QED BY <1>0, <2>1 DEF Range
<1>4. ~Better(s, tail, q[Len(q)])
  BY <1>1, <1>3, Order
<1>5. k = Len(q)
  BY <1>0, <1>2, <1>3, <1>4
<1> QED BY <1>2, <1>5 DEF Last

LEMMA LevelsRead ==
    ASSUME NEW b, BookInv(b), NEW s \in Sides
    PROVE  Sorted(s, LevelsOf(b, s), LevelChain(b, s)) /\ ReadBack(PrevLevel(b, s), LevelChain(b, s))
<1> DEFINE L == LevelsOf(b, s)
           f == NextLevel(b, s)
           g == PrevLevel(b, s)
<1>1. Linked(s, L, f, g) /\ IsFirst(s, L, b.best[s])
  BY DEF BookInv, SideInv
<1>2. DOMAIN f = Prices /\ IsFiniteSet(Prices) /\ L \subseteq Prices /\ L \subseteq Nat \ {0}
  BY OrderBookAssumption, FS_Interval, PricesAreNumbers DEF NextLevel, LevelsOf, Prices
<1>3. LevelChain(b, s) = Chain(f, b.best[s])
  BY Zenon DEF LevelChain, NextLevel
<1>4. ListOf(s, L, f, g, b.best[s])
  BY <1>1, <1>2 DEF ListOf
<1> HIDE DEF L, f, g
<1>5. Sorted(s, L, LevelChain(b, s)) /\ ReadBack(g, LevelChain(b, s))
  BY <1>3, <1>4, ListRead
<1> QED BY <1>5 DEF L, g

LEMMA OrdersRead ==
    ASSUME NEW b, BookInv(b), IsFiniteSet(DOMAIN b.orders), NEW s \in Sides, NEW p \in Prices
    PROVE  /\ Sorted("sell", OrdersAt(b, s, p), OrderChain(b, s, p))
           /\ ReadBack(PrevOrder(b), OrderChain(b, s, p))
<1> DEFINE S == OrdersAt(b, s, p)
           f == NextOrder(b)
           g == PrevOrder(b)
           level == b.levels[s][p]
<1>1. Linked("sell", S, f, g) /\ IsFirst("sell", S, level.head)
  BY DEF BookInv, PlaceInv
<1>2. "sell" \in Sides
  BY DEF Sides
<1>3. DOMAIN f = DOMAIN b.orders /\ S \subseteq DOMAIN b.orders /\ S \subseteq Nat \ {0}
  BY DEF NextOrder, OrdersAt, BookInv, TypedBook
<1>4. OrderChain(b, s, p) = Chain(f, level.head)
  BY Zenon DEF OrderChain, NextOrder
<1>5. ListOf("sell", S, f, g, level.head)
  BY <1>1, <1>3 DEF ListOf
<1> HIDE DEF f, g, level, S
<1>6. Sorted("sell", S, OrderChain(b, s, p)) /\ ReadBack(g, OrderChain(b, s, p))
  BY <1>2, <1>4, <1>5, ListRead
<1> QED BY <1>6 DEF S, g

LEMMA OrdersFinite ==
    ASSUME NEW b, NEW n \in Nat, Kept(b, n)
    PROVE  IsFiniteSet(DOMAIN b.orders)
<1>1. DOMAIN b.orders \subseteq 1 .. n /\ IsFiniteSet(1 .. n)
  BY FS_Interval DEF Kept
<1> QED BY <1>1, FS_Subset

LEMMA LinksFollow ==
    ASSUME OBInv PROVE LinksConsistent
<1>1. BookInv(book) /\ VolumesHold(book) /\ TypedBook(book) /\ IsFiniteSet(DOMAIN book.orders)
  BY OrdersFinite DEF OBInv, CountersTyped, Kept, BookInv
<1>2. ASSUME NEW s \in Sides PROVE LevelsLinked(s)
  <2> DEFINE L == LevelsOf(book, s)
             g == PrevLevel(book, s)
             q == LevelChain(book, s)
  <2>1. Sorted(s, L, q) /\ ReadBack(g, q)
    BY <1>1, LevelsRead
  <2>2. \A p \in L : g[p] = book.levels[s][p].prev
    BY DEF PrevLevel, LevelsOf
  <2>3. \A p \in Prices : ~book.levels[s][p].exists => book.levels[s][p] = EmptyLevel
    BY <1>1 DEF BookInv, SideInv, LevelsOf
  <2> HIDE DEF g, q
  <2>4. Range(q) = {p \in Prices : book.levels[s][p].exists}
    BY <2>1 DEF LevelsOf, Sorted
  <2>5. \A k \in DOMAIN q : q[k] \in L
    BY <2>1 DEF Range, Sorted
  <2>6. \A k \in DOMAIN q : book.levels[s][q[k]].prev = Previous(q, k)
    BY <2>1, <2>2, <2>5 DEF ReadBack
  <2>7. \A j, k \in DOMAIN q : j < k => Better(s, q[j], q[k])
    BY <2>1 DEF Sorted
  <2> QED BY <2>3, <2>4, <2>6, <2>7, Zenon DEF LevelsLinked, q
<1>3. ASSUME NEW s \in Sides, NEW p \in Prices PROVE OrdersLinked(s, p)
  <2> DEFINE S == OrdersAt(book, s, p)
             g == PrevOrder(book)
             q == OrderChain(book, s, p)
             level == book.levels[s][p]
  <2>1. Sorted("sell", S, q) /\ ReadBack(g, q)
    BY <1>1, OrdersRead
  <2>2. "sell" \in Sides /\ Opposite("sell") = "buy"
    BY DEF Sides, Opposite
  <2>3. IsFirst("buy", S, level.tail) /\ S \subseteq Nat \ {0}
    BY <1>1 DEF BookInv, PlaceInv, TypedBook, OrdersAt
  <2>4. \A j \in S : g[j] = book.orders[j].prev
    BY DEF PrevOrder, OrdersAt
  <2>5. S = At(s, p)
    BY DEF OrdersAt, At, OrderIds
  <2>6. level.exists = (S # {})
    <3>1. p \in LevelsOf(book, s) <=> S # {}
      BY <1>1 DEF BookInv
    <3>2. level.exists \in BOOLEAN
      BY <1>1 DEF TypedBook, LevelSet
    <3> QED BY <3>1, <3>2 DEF LevelsOf
  <2>7. level.volume = SumFunctionOnSet([id \in OrderIds |-> book.orders[id].amount], S)
    BY <1>1, Zenon DEF VolumesHold, VolumeAt, Amounts, OrderIds
  <2> HIDE DEF g, q, level, S
  <2>8. \A k \in DOMAIN q : q[k] \in S
    BY <2>1 DEF Range, Sorted
  <2>9. \A k \in DOMAIN q : book.orders[q[k]].prev = Previous(q, k)
    BY <2>1, <2>4, <2>8 DEF ReadBack
  <2>10. q # <<>> => level.tail = Last(q)
    <3>1. q # <<>> => S # {}
      BY <2>1 DEF Sorted
    <3>2. IsFirst(Opposite("sell"), S, level.tail)
      BY <2>2, <2>3
    <3> QED BY <2>1, <2>2, <2>3, <3>1, <3>2, LastRead
  <2>11. Range(q) = At(s, p) /\ level.exists = (q # <<>>)
    BY <2>1, <2>5, <2>6 DEF Sorted
  <2>12. level.volume = SumFunctionOnSet([id \in OrderIds |-> book.orders[id].amount], At(s, p))
    BY <2>5, <2>7
  <2> QED BY <2>9, <2>10, <2>11, <2>12, Zenon DEF OrdersLinked, q, level
<1> QED BY <1>2, <1>3, Zenon DEF LinksConsistent

\* However submissions, fills, evictions, issues and revocations follow on each other,
\* the links of both sides of the book read exactly the levels that exist, best first,
\* and at each of them exactly its orders, forwards and backwards, and a level's volume
\* is what its orders have left: _insertBuyLevel, _removeSellLevel, _appendToBuyLevel,
\* _removeOrderFromLevel and the matching loops of OrderBook.sol.
THEOREM LinksTheorem == Spec => []LinksConsistent
<1>1. Spec => []OBInv
  BY OBAlways
<1>2. OBInv => LinksConsistent
  BY LinksFollow
<1> QED BY <1>1, <1>2, PTL

-----------------------------------------------------------------------------
(* Queues in price and time order                                           *)

\* The order i goes before the order j on side s, when P gives their prices.
Prec(s, P, i, j) == Better(s, P[i], P[j]) \/ (P[i] = P[j] /\ i < j)
Priced(P, D) == D \subseteq Nat /\ \A i \in D : P[i] \in Nat

\* The sequence q is D in price and time order.
Ranked(s, P, D, q) ==
    /\ q \in Seq(D) /\ \A i \in D : \E k \in 1 .. Len(q) : i = q[k]
    /\ \A j, k \in 1 .. Len(q) : j < k => Prec(s, P, q[j], q[k])

LEMMA PrecOrder ==
    ASSUME NEW s \in Sides, NEW P, NEW D, Priced(P, D)
    PROVE  /\ \A i \in D : ~Prec(s, P, i, i)
           /\ \A i, j \in D : i = j \/ Prec(s, P, i, j) \/ Prec(s, P, j, i)
           /\ \A i, j, k \in D : Prec(s, P, i, j) /\ Prec(s, P, j, k) => Prec(s, P, i, k)
BY DEF Sides, Better, Prec, Priced

LEMMA RankedOnce ==
    ASSUME NEW s \in Sides, NEW P, NEW D, Priced(P, D), NEW q, NEW r,
           Ranked(s, P, D, q), Ranked(s, P, D, r), NEW i \in 1 .. Len(q)
    PROVE  i \in 1 .. Len(r) /\ r[i] = q[i]
<1> DEFINE F == {m \in 1 .. Len(q) : ~(m \in 1 .. Len(r) /\ r[m] = q[m])}
<1>1. /\ q \in Seq(D) /\ r \in Seq(D) /\ Len(q) \in Nat /\ Len(r) \in Nat
      /\ \A k \in 1 .. Len(q) : q[k] \in D
      /\ \A k \in 1 .. Len(r) : r[k] \in D
  <2>1. q \in Seq(D) /\ r \in Seq(D)
    BY DEF Ranked
  <2> QED BY <2>1
<1>2. F = {}
  <2> SUFFICES ASSUME F # {} PROVE FALSE
    OBVIOUS
  <2>1. PICK m \in F : \A j \in F : m <= j
    <3>1. F \subseteq 0 .. Len(q)
      BY <1>1
    <3> HIDE DEF F
    <3> QED BY <1>1, <3>1, FirstFailure
  <2>2. m \in 1 .. Len(q) /\ m \in Nat /\ ~(m \in 1 .. Len(r) /\ r[m] = q[m])
    BY <1>1, <2>1
  <2>3. \A j \in 1 .. Len(q) : j < m => j \in 1 .. Len(r) /\ r[j] = q[j]
    BY <1>1, <2>1
  <2> HIDE DEF F
  <2>4. PICK k \in 1 .. Len(r) : q[m] = r[k]
    BY <1>1, <2>2 DEF Ranked
  <2>5. ~(k < m)
    <3> SUFFICES ASSUME k < m PROVE FALSE
      OBVIOUS
    <3>1. k \in 1 .. Len(q) /\ r[k] = q[k]
      BY <1>1, <2>2, <2>3
    <3>2. Prec(s, P, q[k], q[m])
      BY <2>2, <3>1 DEF Ranked
    <3> QED BY <1>1, <2>2, <2>4, <3>1, <3>2, PrecOrder
  <2>6. m \in 1 .. Len(r) /\ m < k
    BY <1>1, <2>2, <2>4, <2>5
  <2>7. Prec(s, P, r[m], q[m])
    BY <2>4, <2>6 DEF Ranked
  <2>8. PICK j \in 1 .. Len(q) : r[m] = q[j]
    BY <1>1, <2>6 DEF Ranked
  <2>9. ~(j < m)
    <3> SUFFICES ASSUME j < m PROVE FALSE
      OBVIOUS
    <3>1. j \in 1 .. Len(r) /\ r[j] = q[j]
      BY <2>3
    <3>2. Prec(s, P, r[j], r[m])
      BY <2>6, <3>1 DEF Ranked
    <3> QED BY <1>1, <2>6, <2>8, <3>1, <3>2, PrecOrder
  <2>10. j # m
    BY <2>2, <2>6, <2>8
  <2>11. Prec(s, P, q[m], r[m])
    BY <1>1, <2>2, <2>8, <2>9, <2>10 DEF Ranked
  <2> QED BY <1>1, <2>2, <2>6, <2>7, <2>11, PrecOrder
<1> QED BY <1>2

LEMMA RankedUnique ==
    ASSUME NEW s \in Sides, NEW P, NEW D, Priced(P, D), NEW q, NEW r,
           Ranked(s, P, D, q), Ranked(s, P, D, r)
    PROVE  q = r
<1>1. \A i \in 1 .. Len(q) : i \in 1 .. Len(r) /\ r[i] = q[i]
  BY RankedOnce
<1>2. \A i \in 1 .. Len(r) : i \in 1 .. Len(q) /\ r[i] = q[i]
  BY RankedOnce
<1>3. q \in Seq(D) /\ r \in Seq(D)
  BY DEF Ranked
<1>4. Len(q) \in Nat /\ Len(r) \in Nat
  BY <1>3
<1>5. ~(Len(q) < Len(r)) /\ ~(Len(r) < Len(q))
  <2>1. ASSUME Len(q) < Len(r) PROVE FALSE
    <3>1. Len(r) \in 1 .. Len(r)
      BY <1>4, <2>1
    <3> QED BY <1>2, <1>4, <2>1, <3>1
  <2>2. ASSUME Len(r) < Len(q) PROVE FALSE
    <3>1. Len(q) \in 1 .. Len(q)
      BY <1>4, <2>2
    <3> QED BY <1>1, <1>4, <2>2, <3>1
  <2> QED BY <2>1, <2>2
<1> QED BY <1>1, <1>3, <1>4, <1>5, SeqEqual

LEMMA RankedAgain ==
    ASSUME NEW s \in Sides, NEW P, NEW Q, NEW D, NEW q, Ranked(s, P, D, q), \A i \in D : Q[i] = P[i]
    PROVE  Ranked(s, Q, D, q)
<1>1. q \in Seq(D)
  BY DEF Ranked
<1>2. \A k \in 1 .. Len(q) : q[k] \in D
  BY <1>1
<1>3. \A i, j \in D : Prec(s, P, i, j) => Prec(s, Q, i, j)
  BY DEF Prec
<1> QED BY <1>1, <1>2, <1>3 DEF Ranked

LEMMA RankedJoined ==
    ASSUME NEW s \in Sides, NEW P, NEW D, NEW E, NEW q, NEW r, Ranked(s, P, D, q), Ranked(s, P, E, r),
           \A i \in D, j \in E : Prec(s, P, i, j)
    PROVE  Ranked(s, P, D \cup E, q \o r)
<1> DEFINE t == q \o r
<1>1. q \in Seq(D) /\ r \in Seq(E)
  BY DEF Ranked
<1>2. Len(q) \in Nat /\ Len(r) \in Nat /\ (\A k \in 1 .. Len(q) : q[k] \in D) /\ \A k \in 1 .. Len(r) : r[k] \in E
  BY <1>1
<1>3. q \in Seq(D \cup E) /\ r \in Seq(D \cup E)
  <2>1. D \subseteq D \cup E /\ E \subseteq D \cup E
    OBVIOUS
  <2> QED BY <1>1, <2>1
<1>4. t \in Seq(D \cup E) /\ Len(t) = Len(q) + Len(r)
  BY <1>3, ConcatProperties
<1>5. /\ \A k \in 1 .. Len(q) : k \in 1 .. Len(t) /\ t[k] = q[k]
      /\ \A k \in 1 .. Len(r) : Len(q) + k \in 1 .. Len(t) /\ t[Len(q) + k] = r[k]
  BY <1>1, <1>2, <1>4
<1>6. \A k \in 1 .. Len(t) : k \in 1 .. Len(q) \/ (k - Len(q) \in 1 .. Len(r) /\ t[k] = r[k - Len(q)] /\ k > Len(q))
  BY <1>1, <1>2, <1>4
<1> HIDE DEF t
<1>7. \A i \in D \cup E : \E k \in 1 .. Len(t) : i = t[k]
  <2>1. \A i \in D : \E k \in 1 .. Len(t) : i = t[k]
    BY <1>5 DEF Ranked
  <2>2. ASSUME NEW i \in E PROVE \E k \in 1 .. Len(t) : i = t[k]
    <3>1. PICK k \in 1 .. Len(r) : i = r[k]
      BY DEF Ranked
    <3> QED BY <1>5, <3>1
  <2> QED BY <2>1, <2>2
<1>8. ASSUME NEW j \in 1 .. Len(t), NEW k \in 1 .. Len(t), j < k PROVE Prec(s, P, t[j], t[k])
  <2>1. CASE k \in 1 .. Len(q)
    <3>1. j \in 1 .. Len(q) /\ t[j] = q[j] /\ t[k] = q[k]
      BY <1>2, <1>4, <1>5, <1>8, <2>1
    <3> QED BY <1>8, <2>1, <3>1 DEF Ranked
  <2>2. CASE k \notin 1 .. Len(q) /\ j \in 1 .. Len(q)
    <3>1. t[j] \in D /\ t[k] \in E
      BY <1>2, <1>5, <1>6, <2>2
    <3> QED BY <3>1
  <2>3. CASE k \notin 1 .. Len(q) /\ j \notin 1 .. Len(q)
    <3>1. /\ k - Len(q) \in 1 .. Len(r) /\ t[k] = r[k - Len(q)]
          /\ j - Len(q) \in 1 .. Len(r) /\ t[j] = r[j - Len(q)]
      BY <1>6, <2>3
    <3>2. j - Len(q) < k - Len(q)
      BY <1>2, <1>4, <1>8
    <3> QED BY <3>1, <3>2 DEF Ranked
  <2> QED BY <2>1, <2>2, <2>3
<1>9. Ranked(s, P, D \cup E, t)
  BY <1>4, <1>7, <1>8 DEF Ranked
<1> QED BY <1>9 DEF t

LEMMA RankedPart ==
    ASSUME NEW s \in Sides, NEW P, NEW D, NEW q, Ranked(s, P, D, q), NEW a \in 1 .. Len(q) + 1, NEW b \in 0 .. Len(q)
    PROVE  Ranked(s, P, {q[k] : k \in a .. b}, SubSeq(q, a, b))
<1> DEFINE r == SubSeq(q, a, b)
           E == {q[k] : k \in a .. b}
<1>1. q \in Seq(D) /\ Len(q) \in Nat
  <2>1. q \in Seq(D)
    BY DEF Ranked
  <2> QED BY <2>1
<1>2. a \in Nat /\ b \in Nat /\ a # 0 /\ b <= Len(q)
  BY <1>1
<1>3. r = [k \in 1 .. (b - a + 1) |-> q[a + k - 1]]
  BY <1>2
<1>4. \A k \in 1 .. (b - a + 1) : a + k - 1 \in a .. b /\ a + k - 1 \in 1 .. Len(q)
  BY <1>1, <1>2
<1> HIDE DEF r
<1>5. \A k \in 1 .. (b - a + 1) : r[k] = q[a + k - 1] /\ r[k] \in E
  BY <1>3, <1>4
<1>6. r \in Seq(E) /\ Len(r) = IF a <= b THEN b - a + 1 ELSE 0
  <2>1. CASE a <= b
    <3>1. b - a + 1 \in Nat
      BY <1>2, <2>1
    <3>2. r \in [1 .. (b - a + 1) -> E]
      BY <1>3, <1>5
    <3> HIDE DEF E
    <3> QED BY <2>1, <3>1, <3>2
  <2>2. CASE ~(a <= b)
    <3>1. 1 .. (b - a + 1) = {}
      BY <1>2, <2>2
    <3>2. r = <<>>
      BY <1>3, <3>1
    <3> QED BY <2>2, <3>2
  <2> QED BY <2>1, <2>2
<1>7. \A k \in 1 .. Len(r) : k \in 1 .. (b - a + 1)
  BY <1>2, <1>6
<1>8. ASSUME NEW i \in E PROVE \E k \in 1 .. Len(r) : i = r[k]
  <2>1. PICK k \in a .. b : i = q[k]
    OBVIOUS
  <2>2. k - a + 1 \in 1 .. Len(r) /\ k - a + 1 \in 1 .. (b - a + 1) /\ a + (k - a + 1) - 1 = k
    BY <1>2, <1>6
  <2> HIDE DEF E
  <2> QED BY <1>5, <2>1, <2>2
<1>9. ASSUME NEW j \in 1 .. Len(r), NEW k \in 1 .. Len(r), j < k PROVE Prec(s, P, r[j], r[k])
  <2>1. r[j] = q[a + j - 1] /\ r[k] = q[a + k - 1]
    BY <1>5, <1>7
  <2>2. a + j - 1 \in 1 .. Len(q) /\ a + k - 1 \in 1 .. Len(q) /\ a + j - 1 < a + k - 1
    BY <1>2, <1>4, <1>7, <1>9
  <2> QED BY <2>1, <2>2 DEF Ranked
<1> HIDE DEF E
<1>10. Ranked(s, P, E, r)
  BY <1>6, <1>8, <1>9 DEF Ranked
<1> QED BY <1>10 DEF E, r

-----------------------------------------------------------------------------
(* What is read of a side                                                   *)

PriceOf(b)    == [id \in DOMAIN b.orders |-> b.orders[id].price]
OrdersOf(b, s) == {id \in DOMAIN b.orders : b.orders[id].side = s}

\* u holds what has been read of side s after each of the levels of q.
Fetches(b, s, q, u) ==
    u = [n \in 0 .. Len(q) |-> IF n = 0 THEN <<>> ELSE u[n - 1] \o OrderChain(b, s, q[n])]

LEMMA FetchedLast ==
    ASSUME NEW b, NEW s, NEW w, Fetches(b, s, LevelChain(b, s), w)
    PROVE  \E u : /\ Fetches(b, s, LevelChain(b, s), u)
                  /\ FetchOrders(b, s) = u[Len(LevelChain(b, s))]
<1> DEFINE u == CHOOSE x : Fetches(b, s, LevelChain(b, s), x)
<1>1. Fetches(b, s, LevelChain(b, s), u)
  BY Zenon
<1>2. FetchOrders(b, s) = u[Len(LevelChain(b, s))]
  BY Zenon DEF FetchOrders, Fetches
<1> QED BY <1>1, <1>2, Zenon

LEMMA FetchesExist ==
    ASSUME NEW b, NEW s, NEW q, Len(q) \in Nat
    PROVE  \E u : Fetches(b, s, q, u)
<1> DEFINE Step(x, k) == x \o OrderChain(b, s, q[k])
           Upto(m, r) == r = [k \in 0 .. m |-> IF k = 0 THEN <<>> ELSE Step(r[k - 1], k)]
           F == {m \in 0 .. Len(q) : ~\E r : Upto(m, r)}
<1> HIDE DEF Step
<1>1. F = {}
  <2> SUFFICES ASSUME F # {} PROVE FALSE
    OBVIOUS
  <2>1. PICK m \in F : \A j \in F : m <= j
    <3>1. F \subseteq 0 .. Len(q)
      OBVIOUS
    <3> HIDE DEF F
    <3> QED BY <3>1, FirstFailure
  <2>2. CASE m = 0
    <3> DEFINE r == [k \in 0 .. 0 |-> <<>>]
    <3>1. r = [k \in 0 .. 0 |-> IF k = 0 THEN <<>> ELSE Step(r[k - 1], k)]
      <4>1. \A k \in 0 .. 0 : k = 0
        OBVIOUS
      <4> QED BY <4>1
    <3>2. Upto(0, r)
      BY <3>1, Zenon
    <3>3. \E x : Upto(m, x)
      BY <2>2, <3>2, Zenon
    <3> QED BY <2>1, <3>3
  <2>3. CASE m # 0
    <3>1. m \in Nat /\ m - 1 \in 0 .. Len(q) /\ m - 1 \notin F
      <4>1. m \in 0 .. Len(q)
        BY <2>1
      <4> HIDE DEF F
      <4>2. m \in Nat /\ m - 1 \in 0 .. Len(q) /\ ~(m <= m - 1)
        BY <2>3, <4>1
      <4> QED BY <2>1, <4>2
    <3>2. PICK g : Upto(m - 1, g)
      BY <3>1
    <3> DEFINE r == [k \in 0 .. m |-> IF k = m THEN Step(g[m - 1], m) ELSE g[k]]
    <3>3. \A k \in 0 .. (m - 1) : g[k] = IF k = 0 THEN <<>> ELSE Step(g[k - 1], k)
      BY <3>2
    <3>4. ASSUME NEW k \in 0 .. m PROVE r[k] = IF k = 0 THEN <<>> ELSE Step(r[k - 1], k)
      <4>1. CASE k = m
        <5>1. r[k] = Step(g[m - 1], m) /\ r[k - 1] = g[m - 1]
          BY <2>3, <3>1, <4>1
        <5> QED BY <2>3, <4>1, <5>1
      <4>2. CASE k # m
        <5>1. k \in 0 .. (m - 1)
          BY <3>1, <4>2
        <5>2. k # 0 => r[k - 1] = g[k - 1]
          BY <3>1, <5>1
        <5> QED BY <3>3, <4>2, <5>1, <5>2
      <4> QED BY <4>1, <4>2
    <3>5. r = [k \in 0 .. m |-> IF k = 0 THEN <<>> ELSE Step(r[k - 1], k)]
      <4>1. r = [k \in 0 .. m |-> r[k]]
        OBVIOUS
      <4> HIDE DEF r
      <4> QED BY <3>4, <4>1
    <3>6. Upto(m, r)
      <4> HIDE DEF r
      <4> QED BY <3>5, Zenon
    <3>7. \E x : Upto(m, x)
      <4> HIDE DEF r
      <4> QED BY <3>6, Zenon
    <3> QED BY <2>1, <3>7
  <2> QED BY <2>2, <2>3
<1>2. \E r : Upto(Len(q), r)
  BY <1>1
<1> QED BY <1>2, Zenon DEF Fetches, Step

\* The orders of one level, read by its links, are in time order.
LEMMA LevelRanked ==
    ASSUME NEW b, BookInv(b), IsFiniteSet(DOMAIN b.orders), NEW s \in Sides, NEW p \in Prices
    PROVE  Ranked(s, PriceOf(b), OrdersAt(b, s, p), OrderChain(b, s, p))
<1> DEFINE q == OrderChain(b, s, p)
           S == OrdersAt(b, s, p)
<1>1. Sorted("sell", S, q)
  BY OrdersRead
<1>2. \A i \in S : PriceOf(b)[i] = p
  BY DEF OrdersAt, PriceOf
<1> HIDE DEF q, S
<1>3. /\ q \in Seq(S) /\ Range(q) = S /\ DOMAIN q = 1 .. Len(q)
      /\ \A j, k \in DOMAIN q : j < k => Better("sell", q[j], q[k])
  BY <1>1 DEF Sorted
<1>4. \A j, k \in DOMAIN q : j < k => q[j] < q[k]
  BY <1>3 DEF Better
<1>5. \A i \in S : \E k \in 1 .. Len(q) : i = q[k]
  BY <1>3 DEF Range
<1>6. \A k \in 1 .. Len(q) : q[k] \in S
  BY <1>3
<1>7. \A j, k \in 1 .. Len(q) : j < k => Prec(s, PriceOf(b), q[j], q[k])
  BY <1>2, <1>3, <1>4, <1>6 DEF Prec
<1>8. Ranked(s, PriceOf(b), S, q)
  BY <1>3, <1>5, <1>7 DEF Ranked
<1> QED BY <1>8 DEF q, S

\* A side, read by its links, is in price and time order.
LEMMA FetchRanked ==
    ASSUME NEW b, BookInv(b), IsFiniteSet(DOMAIN b.orders), NEW s \in Sides
    PROVE  Ranked(s, PriceOf(b), OrdersOf(b, s), FetchOrders(b, s))
<1> DEFINE q == LevelChain(b, s)
           L == LevelsOf(b, s)
           P == PriceOf(b)
           Read(k) == {id \in OrdersOf(b, s) : \E j \in 1 .. k : P[id] = q[j]}
<1>1. Sorted(s, L, q)
  BY LevelsRead
<1>2. /\ q \in Seq(L) /\ Range(q) = L /\ DOMAIN q = 1 .. Len(q) /\ Len(q) \in Nat
      /\ \A j, k \in DOMAIN q : j < k => Better(s, q[j], q[k])
  BY <1>1 DEF Sorted
<1>3. PICK u : Fetches(b, s, q, u) /\ FetchOrders(b, s) = u[Len(q)]
  <2>1. PICK w : Fetches(b, s, q, w)
    BY <1>2, FetchesExist
  <2> QED BY <2>1, FetchedLast
<1>4. \A n \in 0 .. Len(q) : u[n] = IF n = 0 THEN <<>> ELSE u[n - 1] \o OrderChain(b, s, q[n])
  BY <1>3 DEF Fetches
<1>5. L \subseteq Prices /\ \A k \in 1 .. Len(q) : q[k] \in L
  <2>1. \A k \in 1 .. Len(q) : q[k] \in L
    BY <1>2
  <2> QED BY <2>1 DEF LevelsOf
<1>6. /\ \A id \in OrdersOf(b, s) : P[id] \in Prices /\ id \in OrdersAt(b, s, P[id]) /\ P[id] \in L
      /\ \A p \in Prices : OrdersAt(b, s, p) = {id \in OrdersOf(b, s) : P[id] = p}
  <2>1. \A id \in OrdersOf(b, s) : P[id] \in Prices /\ id \in OrdersAt(b, s, P[id])
    BY DEF OrdersOf, OrdersAt, PriceOf, BookInv, TypedBook, OrderSet
  <2>2. \A p \in Prices : OrdersAt(b, s, p) = {id \in OrdersOf(b, s) : P[id] = p}
    BY DEF OrdersOf, OrdersAt, PriceOf
  <2>3. \A p \in Prices : p \in L <=> OrdersAt(b, s, p) # {}
    BY DEF BookInv
  <2> QED BY <2>1, <2>2, <2>3
<1> HIDE DEF q, L, P
<1> DEFINE F == {k \in 0 .. Len(q) : ~Ranked(s, P, Read(k), u[k])}
<1>7. F = {}
  <2> SUFFICES ASSUME F # {} PROVE FALSE
    OBVIOUS
  <2>1. PICK m \in F : \A j \in F : m <= j
    <3>1. F \subseteq 0 .. Len(q)
      OBVIOUS
    <3> HIDE DEF F
    <3> QED BY <1>2, <3>1, FirstFailure
  <2>2. m \in 0 .. Len(q) /\ m \in Nat /\ ~Ranked(s, P, Read(m), u[m])
    BY <1>2, <2>1
  <2>3. CASE m = 0
    <3>1. Read(m) = {} /\ u[m] = <<>>
      BY <1>4, <2>2, <2>3
    <3>2. <<>> \in Seq({}) /\ Len(<<>>) = 0 /\ 1 .. 0 = {}
      OBVIOUS
    <3>3. Ranked(s, P, {}, <<>>)
      BY <3>2 DEF Ranked
    <3> QED BY <2>2, <3>1, <3>3
  <2>4. CASE m # 0
    <3>1. m - 1 \in 0 .. Len(q) /\ m \in 1 .. Len(q) /\ ~(m <= m - 1)
      BY <1>2, <2>2, <2>4
    <3>2. Ranked(s, P, Read(m - 1), u[m - 1])
      <4>1. m - 1 \notin F
        <5> HIDE DEF F
        <5> QED BY <2>1, <3>1
      <4> QED BY <3>1, <4>1
    <3> DEFINE E == OrdersAt(b, s, q[m])
    <3>3. q[m] \in Prices
      BY <1>5, <3>1
    <3>4. Ranked(s, P, E, OrderChain(b, s, q[m]))
      BY <3>3, LevelRanked DEF P
    <3>5. ASSUME NEW i \in Read(m - 1), NEW j \in E PROVE Prec(s, P, i, j)
      <4>1. PICK k \in 1 .. (m - 1) : P[i] = q[k]
        OBVIOUS
      <4>2. P[j] = q[m]
        BY <1>6, <3>3
      <4>3. k \in DOMAIN q /\ m \in DOMAIN q /\ k < m
        BY <1>2, <2>2, <3>1
      <4> QED BY <1>2, <4>1, <4>2, <4>3 DEF Prec
    <3>6. Read(m) = Read(m - 1) \cup E
      <4>1. \A k \in 1 .. m : k = m \/ k \in 1 .. (m - 1)
        BY <2>2
      <4>2. \A k \in 1 .. (m - 1) : k \in 1 .. m
        BY <2>2
      <4>3. m \in 1 .. m
        BY <2>2, <3>1
      <4> QED BY <1>6, <3>3, <4>1, <4>2, <4>3
    <3>7. u[m] = u[m - 1] \o OrderChain(b, s, q[m])
      BY <1>4, <2>2, <2>4
    <3> HIDE DEF E, Read
    <3>8. Ranked(s, P, Read(m), u[m])
      BY <3>2, <3>4, <3>5, <3>6, <3>7, RankedJoined
    <3> QED BY <2>2, <3>8
  <2> QED BY <2>3, <2>4
<1>8. Ranked(s, P, Read(Len(q)), u[Len(q)])
  <2>1. Len(q) \in 0 .. Len(q)
    BY <1>2
  <2>2. Len(q) \notin F
    <3> HIDE DEF F
    <3> QED BY <1>7
  <2> HIDE DEF Read
  <2> QED BY <2>1, <2>2
<1>9. Read(Len(q)) = OrdersOf(b, s)
  <2>1. \A p \in L : \E j \in 1 .. Len(q) : p = q[j]
    BY <1>2 DEF Range
  <2> QED BY <1>6, <2>1
<1> QED BY <1>3, <1>8, <1>9 DEF P

\* What is ahead of the order at which the taker looks cannot trade with the taker: it is
\* not at a better price, as the level that is walked is the best one, so it is an older
\* order of that level, which the walk has passed.
LEMMA AheadIsPassed ==
    ASSUME OBInv, WalkInv, AtMaker, NEW j \in Ahead(taker.at)
    PROVE  Bars(taker, book.orders[j].investor)
<1> DEFINE s == Opposite(taker.side)
           q == FetchOrders(book, s)
           P == PriceOf(book)
           at == taker.at
<1>1. /\ taker \in TakerSet /\ taker.level \in Prices /\ at \in DOMAIN book.orders /\ taker.phase = "level"
      /\ book.orders[at].side = s /\ book.orders[at].price = taker.level /\ taker.amount > 0
  <2>1. taker.amount > 0
    BY DEF AtMaker
  <2> QED BY <2>1, MakerIs DEF Maker
<1>2. s \in Sides
  BY <1>1, Order DEF TakerSet
<1>3. BookInv(book) /\ IsFiniteSet(DOMAIN book.orders)
  BY OrdersFinite DEF OBInv, CountersTyped, Kept
<1>4. Ranked(s, P, OrdersOf(book, s), q)
  BY <1>2, <1>3, FetchRanked
<1>5. PICK m \in DOMAIN q : j = q[m] /\ \E n \in DOMAIN q : m < n /\ q[n] = at
  BY <1>1 DEF Ahead
<1>6. PICK n \in DOMAIN q : m < n /\ q[n] = at
  BY <1>5
<1> HIDE DEF q, s
<1>7. q \in Seq(OrdersOf(book, s))
  BY <1>4 DEF Ranked
<1>8. j \in OrdersOf(book, s) /\ Prec(s, P, j, at)
  <2>1. m \in 1 .. Len(q) /\ n \in 1 .. Len(q) /\ q[m] \in OrdersOf(book, s)
    BY <1>5, <1>6, <1>7
  <2>2. Prec(s, P, q[m], q[n])
    BY <1>4, <1>6, <2>1 DEF Ranked
  <2> QED BY <1>5, <1>6, <2>1, <2>2
<1>9. j \in DOMAIN book.orders /\ P[j] = book.orders[j].price /\ P[at] = taker.level
  BY <1>1, <1>8 DEF OrdersOf, PriceOf
<1>10. P[j] \in Prices /\ j \in OrdersAt(book, s, P[j])
  BY <1>3, <1>8, <1>9 DEF OrdersOf, OrdersAt, BookInv, TypedBook, OrderSet
<1>11. at \in OrdersAt(book, s, taker.level)
  BY <1>1, <1>2 DEF OrdersAt
<1>12. taker.level = book.best[s]
  BY <1>1, <1>11 DEF WalkInv, Facing, Best, s
<1>13. ~Better(s, P[j], taker.level)
  <2>1. P[j] \in LevelsOf(book, s) /\ IsFirst(s, LevelsOf(book, s), taker.level)
    BY <1>2, <1>3, <1>10, <1>12 DEF BookInv, SideInv
  <2> QED BY <2>1 DEF IsFirst
<1>14. P[j] = taker.level /\ j < at
  BY <1>8, <1>9, <1>13 DEF Prec
<1>15. j \in Facing
  BY <1>10, <1>14 DEF Facing, s
<1> QED BY <1>1, <1>14, <1>15 DEF WalkInv, Passed

\* Within a level orders trade oldest first, and only ones that cannot be settled with the
\* taker are passed over: the loops of _settleBuyOrder and _settleSellOrder.
THEOREM OldestTheorem == Spec => OldestFirst
<1>1. OBInv /\ WalkInv /\ [Next]_vars
        => [Match => \A j \in Ahead(taker.at) : TradeFailure(book.orders[j], 1) # "none"]_vars
  <2> SUFFICES ASSUME OBInv, WalkInv, Match, NEW j \in Ahead(taker.at)
               PROVE  TradeFailure(book.orders[j], 1) # "none"
    OBVIOUS
  <2>1. Bars(taker, book.orders[j].investor)
    BY AheadIsPassed DEF Match
  <2> QED BY <2>1, BarsFails
<1> QED BY <1>1, OBAlways, WalkAlways, PTL DEF Spec, OldestFirst

-----------------------------------------------------------------------------
(* What a queue shows                                                       *)

\* The queue q with what e says of its elements
Shown(e, q) == [k \in DOMAIN q |-> e[q[k]]]

Maps(e, D, S) == \A i \in D : e[i] \in S
Shows(e, q, S, x) ==
    /\ x \in Seq(S) /\ Len(x) = Len(q) /\ Len(q) \in Nat /\ DOMAIN x = 1 .. Len(q)
    /\ \A k \in 1 .. Len(q) : x[k] = e[q[k]]

LEMMA ShownIs ==
    ASSUME NEW S, NEW D, NEW e, Maps(e, D, S), NEW q \in Seq(D)
    PROVE  Shows(e, q, S, Shown(e, q))
<1>1. Len(q) \in Nat /\ DOMAIN q = 1 .. Len(q) /\ \A k \in 1 .. Len(q) : q[k] \in D
  OBVIOUS
<1> DEFINE x == Shown(e, q)
<1>2. x = [k \in 1 .. Len(q) |-> e[q[k]]]
  BY <1>1 DEF Shown
<1> HIDE DEF x
<1>3. /\ \A k \in 1 .. Len(q) : x[k] = e[q[k]] /\ x[k] \in S
      /\ x \in [1 .. Len(q) -> S]
  BY <1>1, <1>2 DEF Maps
<1>4. x \in Seq(S) /\ Len(x) = Len(q)
  BY <1>1, <1>3
<1>5. DOMAIN x = 1 .. Len(q)
  BY <1>2
<1>6. Shows(e, q, S, x)
  BY <1>1, <1>3, <1>4, <1>5 DEF Shows
<1> QED BY <1>6 DEF x

LEMMA ShownJoined ==
    ASSUME NEW S, NEW D, NEW e, Maps(e, D, S), NEW q \in Seq(D), NEW r \in Seq(D)
    PROVE  Shown(e, q \o r) = Shown(e, q) \o Shown(e, r)
<1> DEFINE x == Shown(e, q)  y == Shown(e, r)  z == Shown(e, q \o r)
<1>1. q \o r \in Seq(D) /\ Len(q \o r) = Len(q) + Len(r)
  BY ConcatProperties
<1>2. x \in Seq(S) /\ y \in Seq(S) /\ Len(x) = Len(q) /\ Len(y) = Len(r) /\ Len(q) \in Nat /\ Len(r) \in Nat
      /\ (\A k \in 1 .. Len(q) : x[k] = e[q[k]])
      /\ \A k \in 1 .. Len(r) : y[k] = e[r[k]]
  <2>1. Shows(e, q, S, x) /\ Shows(e, r, S, y)
    BY ShownIs
  <2> HIDE DEF x, y
  <2> QED BY <2>1 DEF Shows
<1>3. z \in Seq(S) /\ Len(z) = Len(q \o r) /\ \A k \in 1 .. Len(q \o r) : z[k] = e[(q \o r)[k]]
  <2> DEFINE t == q \o r
  <2>1. t \in Seq(D)
    BY <1>1
  <2> HIDE DEF t
  <2>2. Shows(e, t, S, Shown(e, t))
    BY <2>1, ShownIs
  <2> HIDE DEF z
  <2>3. z = Shown(e, t)
    BY DEF z, t
  <2> QED BY <2>2, <2>3 DEF Shows, t
<1> HIDE DEF x, y, z
<1>4. x \o y \in Seq(S) /\ Len(x \o y) = Len(q) + Len(r)
      /\ \A k \in 1 .. Len(q) + Len(r) : (x \o y)[k] = IF k <= Len(q) THEN x[k] ELSE y[k - Len(q)]
  <2>1. /\ x \o y \in Seq(S) /\ Len(x \o y) = Len(x) + Len(y)
        /\ \A k \in 1 .. Len(x) + Len(y) : (x \o y)[k] = IF k <= Len(x) THEN x[k] ELSE y[k - Len(x)]
    <3>1. x \in Seq(S) /\ y \in Seq(S)
      BY <1>2
    <3> QED BY <3>1, ConcatProperties
  <2>2. Len(x) = Len(q) /\ Len(y) = Len(r)
    BY <1>2
  <2> QED BY <2>1, <2>2
<1>5. \A k \in 1 .. Len(q) + Len(r) : (q \o r)[k] = IF k <= Len(q) THEN q[k] ELSE r[k - Len(q)]
  BY ConcatProperties
<1>6. ASSUME NEW k \in 1 .. Len(z) PROVE z[k] = (x \o y)[k]
  <2>1. k \in 1 .. Len(q) + Len(r) /\ k \in Nat
    BY <1>1, <1>2, <1>3
  <2>2. CASE k <= Len(q)
    <3>1. k \in 1 .. Len(q)
      BY <1>2, <2>1, <2>2
    <3> QED BY <1>1, <1>2, <1>3, <1>4, <1>5, <2>1, <2>2, <3>1
  <2>3. CASE ~(k <= Len(q))
    <3>1. k - Len(q) \in 1 .. Len(r)
      BY <1>2, <2>1, <2>3
    <3> QED BY <1>1, <1>2, <1>3, <1>4, <1>5, <2>1, <2>3, <3>1
  <2> QED BY <2>2, <2>3
<1>7. z = x \o y
  BY <1>1, <1>3, <1>4, <1>6, SeqEqual
<1> QED BY <1>7 DEF x, y, z

\* Both functions say the same of the elements of q from a to b.
Shares(q, a, b, e, C, f) == \A k \in a .. b : q[k] \in C /\ f[q[k]] = e[q[k]]

LEMMA ShownPart ==
    ASSUME NEW S, NEW D, NEW e, Maps(e, D, S), NEW q \in Seq(D), NEW C, NEW f, Maps(f, C, S),
           NEW a \in 1 .. Len(q) + 1, NEW b \in 0 .. Len(q),
           Shares(q, a, b, e, C, f)
    PROVE  SubSeq(q, a, b) \in Seq(C) /\ Shown(f, SubSeq(q, a, b)) = SubSeq(Shown(e, q), a, b)
<1> DEFINE n == IF a <= b THEN b - a + 1 ELSE 0
           t == SubSeq(q, a, b)
           x == Shown(e, q)
           u == SubSeq(x, a, b)
           z == Shown(f, t)
<1>1. Len(q) \in Nat /\ a \in Nat /\ b \in Nat /\ a # 0 /\ a \in Int /\ b \in Int /\ b <= Len(q)
  OBVIOUS
<1>2. t \in Seq(C) /\ Len(t) = n /\ \A k \in 1 .. (b - a + 1) : t[k] = q[a + k - 1]
  BY <1>1, SubSeqProperties DEF Shares
<1>3. x \in Seq(S) /\ Len(x) = Len(q) /\ \A k \in 1 .. Len(q) : x[k] = e[q[k]]
  BY ShownIs DEF Shows
<1>4. \A k \in a .. b : x[k] \in S
  <2>1. \A k \in a .. b : k \in 1 .. Len(q)
    BY <1>1
  <2> HIDE DEF x
  <2> QED BY <1>3, <2>1, ElementOfSeq
<1>5. u \in Seq(S) /\ Len(u) = n /\ \A k \in 1 .. (b - a + 1) : u[k] = x[a + k - 1]
  <2> HIDE DEF x
  <2> QED BY <1>1, <1>4, SubSeqProperties
<1> HIDE DEF t
<1>6. z \in Seq(S) /\ Len(z) = n /\ \A k \in 1 .. n : z[k] = f[t[k]]
  <2>1. Shows(f, t, S, Shown(f, t))
    BY <1>2, ShownIs
  <2> HIDE DEF z, n
  <2>2. z = Shown(f, t)
    BY DEF z
  <2> QED BY <1>2, <2>1, <2>2 DEF Shows
<1> HIDE DEF u, x, z
<1>7. \A k \in 1 .. n : k \in 1 .. (b - a + 1) /\ a + k - 1 \in a .. b /\ a + k - 1 \in 1 .. Len(q)
  BY <1>1
<1> HIDE DEF n
<1>8. \A k \in 1 .. Len(z) : z[k] = u[k]
  <2> TAKE k \in 1 .. Len(z)
  <2>1. k \in 1 .. n
    BY <1>6
  <2>2. z[k] = f[q[a + k - 1]] /\ u[k] = e[q[a + k - 1]]
    BY <1>2, <1>3, <1>5, <1>6, <1>7, <2>1
  <2> QED BY <1>7, <2>1, <2>2 DEF Shares
<1>9. z = u
  BY <1>5, <1>6, <1>8, SeqEqual
<1> QED BY <1>2, <1>9 DEF t, u, x, z

\* Of three sequences put together each can be told.
LEMMA Middle ==
    ASSUME NEW S, NEW x \in Seq(S), NEW y \in Seq(S), NEW z \in Seq(S)
    PROVE  /\ Len(x \o y \o z) = Len(x) + Len(y) + Len(z)
           /\ SubSeq(x \o y \o z, Len(x) + 1, Len(x) + Len(y)) = y
<1> DEFINE w == x \o y \o z
           m == SubSeq(w, Len(x) + 1, Len(x) + Len(y))
<1>1. Len(x) \in Nat /\ Len(y) \in Nat /\ Len(z) \in Nat
  OBVIOUS
<1>2. x \o y \in Seq(S) /\ Len(x \o y) = Len(x) + Len(y)
      /\ \A k \in 1 .. Len(x) + Len(y) : (x \o y)[k] = IF k <= Len(x) THEN x[k] ELSE y[k - Len(x)]
  BY ConcatProperties
<1> DEFINE v == x \o y
<1>3. w = v \o z
  OBVIOUS
<1> HIDE DEF v, w
<1>4. w \in Seq(S) /\ Len(w) = Len(x) + Len(y) + Len(z)
      /\ \A k \in 1 .. Len(v) + Len(z) : w[k] = IF k <= Len(v) THEN v[k] ELSE z[k - Len(v)]
  BY <1>2, <1>3, ConcatProperties DEF v
<1>5. ASSUME NEW k \in 1 .. Len(y) PROVE Len(x) + k \in 1 .. Len(w) /\ w[Len(x) + k] = y[k]
  <2>1. k \in Nat /\ Len(x) + k \in 1 .. Len(x) + Len(y) /\ ~(Len(x) + k <= Len(x)) /\ (Len(x) + k) - Len(x) = k
    BY <1>1
  <2>2. Len(x) + k \in 1 .. Len(v) + Len(z) /\ Len(x) + k <= Len(v)
    BY <1>1, <1>2, <2>1 DEF v
  <2>3. v[Len(x) + k] = y[k]
    BY <1>2, <2>1 DEF v
  <2> QED BY <1>1, <1>2, <1>4, <2>2, <2>3 DEF v
<1>6. \A i \in (Len(x) + 1) .. (Len(x) + Len(y)) : w[i] \in S
  <2>1. \A i \in (Len(x) + 1) .. (Len(x) + Len(y)) : i \in 1 .. Len(w)
    BY <1>1, <1>4
  <2> QED BY <1>4, <2>1, ElementOfSeq
<1>7. m \in Seq(S) /\ Len(m) = (IF Len(x) + 1 <= Len(x) + Len(y) THEN Len(x) + Len(y) - (Len(x) + 1) + 1 ELSE 0)
      /\ \A i \in 1 .. (Len(x) + Len(y) - (Len(x) + 1) + 1) : m[i] = w[Len(x) + 1 + i - 1]
  <2>1. Len(x) + 1 \in Int /\ Len(x) + Len(y) \in Int
    BY <1>1
  <2> QED BY <1>6, <2>1, SubSeqProperties
<1> HIDE DEF m
<1>8. Len(m) = Len(y)
  BY <1>1, <1>7
<1>9. \A i \in 1 .. Len(m) : m[i] = y[i]
  <2> TAKE i \in 1 .. Len(m)
  <2>1. i \in 1 .. Len(y) /\ i \in 1 .. (Len(x) + Len(y) - (Len(x) + 1) + 1) /\ Len(x) + 1 + i - 1 = Len(x) + i
    BY <1>1, <1>8
  <2> QED BY <1>5, <1>7, <2>1
<1>10. m = y
  BY <1>7, <1>8, <1>9, SeqEqual
<1> QED BY <1>4, <1>10 DEF m, w, v

-----------------------------------------------------------------------------
(* A side that changes                                                      *)

EntrySet == [id : Nat, price : Nat, amount : Nat]
EntryOf(b) == [id \in DOMAIN b.orders |-> [id |-> id, price |-> b.orders[id].price, amount |-> b.orders[id].amount]]

\* What PriceTimeBook sees of side s
Seen(b, s) == Shown(EntryOf(b), FetchOrders(b, s))

Readable(b) == BookInv(b) /\ IsFiniteSet(DOMAIN b.orders)

EntriesMade(b) ==
    /\ Maps(EntryOf(b), DOMAIN b.orders, EntrySet) /\ DOMAIN b.orders \subseteq Nat
    /\ \A id \in DOMAIN b.orders : /\ b.orders[id].price \in Nat /\ b.orders[id].amount \in Nat
                                   /\ EntryOf(b)[id].id = id
                                   /\ EntryOf(b)[id].price = b.orders[id].price
                                   /\ EntryOf(b)[id].amount = b.orders[id].amount
                                   /\ PriceOf(b)[id] = b.orders[id].price

LEMMA EntriesTyped ==
    ASSUME NEW b, Readable(b)
    PROVE  EntriesMade(b)
<1>1. DOMAIN b.orders \subseteq Nat \ {0} /\ b.orders \in [DOMAIN b.orders -> OrderSet]
  BY DEF Readable, BookInv, TypedBook
<1>2. \A id \in DOMAIN b.orders : b.orders[id] \in OrderSet
  BY <1>1
<1>3. \A id \in DOMAIN b.orders : b.orders[id].price \in Nat /\ b.orders[id].amount \in Nat
  BY <1>2, PricesAreNumbers DEF OrderSet
<1>4. \A id \in DOMAIN b.orders :
        EntryOf(b)[id] = [id |-> id, price |-> b.orders[id].price, amount |-> b.orders[id].amount]
  BY DEF EntryOf
<1>5. ASSUME NEW id \in DOMAIN b.orders
      PROVE  /\ EntryOf(b)[id] \in EntrySet /\ EntryOf(b)[id].id = id
             /\ EntryOf(b)[id].price = b.orders[id].price /\ EntryOf(b)[id].amount = b.orders[id].amount
  <2> DEFINE e == EntryOf(b)[id]
  <2>1. e = [id |-> id, price |-> b.orders[id].price, amount |-> b.orders[id].amount] /\ id \in Nat
    BY <1>1, <1>4
  <2> HIDE DEF e
  <2>2. e \in EntrySet
    BY <1>3, <2>1 DEF EntrySet
  <2> QED BY <2>1, <2>2 DEF e
<1>6. \A id \in DOMAIN b.orders : PriceOf(b)[id] = b.orders[id].price
  BY DEF PriceOf
<1>7. Maps(EntryOf(b), DOMAIN b.orders, EntrySet)
  BY <1>5, Zenon DEF Maps
<1> QED BY <1>1, <1>3, <1>5, <1>6, <1>7, Zenon DEF EntriesMade

\* The side is read as q.
Lists(b, s, q) ==
    /\ Ranked(s, PriceOf(b), OrdersOf(b, s), q) /\ Priced(PriceOf(b), OrdersOf(b, s))
    /\ q \in Seq(OrdersOf(b, s)) /\ q \in Seq(DOMAIN b.orders) /\ Len(q) \in Nat /\ DOMAIN q = 1 .. Len(q)
    /\ \A k \in 1 .. Len(q) : q[k] \in OrdersOf(b, s)

LEMMA SideListed ==
    ASSUME NEW b, Readable(b), NEW s \in Sides
    PROVE  Lists(b, s, FetchOrders(b, s))
<1> DEFINE q == FetchOrders(b, s)
           D == OrdersOf(b, s)
<1>1. Ranked(s, PriceOf(b), D, q)
  BY FetchRanked DEF Readable
<1>2. D \subseteq DOMAIN b.orders
  BY DEF OrdersOf
<1>3. Priced(PriceOf(b), D)
  BY <1>2, EntriesTyped DEF Priced, EntriesMade
<1> HIDE DEF q, D
<1>4. q \in Seq(D)
  BY <1>1 DEF Ranked
<1>5. q \in Seq(DOMAIN b.orders) /\ Len(q) \in Nat /\ DOMAIN q = 1 .. Len(q) /\ \A k \in 1 .. Len(q) : q[k] \in D
  BY <1>2, <1>4
<1> QED BY <1>1, <1>3, <1>4, <1>5 DEF Lists, D, q

LEMMA ListedOnce ==
    ASSUME NEW b, Readable(b), NEW s \in Sides, NEW q, Ranked(s, PriceOf(b), OrdersOf(b, s), q)
    PROVE  FetchOrders(b, s) = q
<1>1. Lists(b, s, FetchOrders(b, s))
  BY SideListed
<1>2. Priced(PriceOf(b), OrdersOf(b, s)) /\ Ranked(s, PriceOf(b), OrdersOf(b, s), FetchOrders(b, s))
  BY <1>1 DEF Lists
<1> QED BY <1>2, RankedUnique

\* Both books have the orders D, at the same places and with the same left.
Alike(b, c, D) ==
    \A i \in D : /\ i \in DOMAIN b.orders /\ i \in DOMAIN c.orders
                 /\ c.orders[i].side = b.orders[i].side /\ c.orders[i].price = b.orders[i].price
                 /\ c.orders[i].amount = b.orders[i].amount

LEMMA AlikeShown ==
    ASSUME NEW b, Readable(b), NEW c, Readable(c), NEW D, Alike(b, c, D), NEW i \in D
    PROVE  EntryOf(c)[i] = EntryOf(b)[i] /\ PriceOf(c)[i] = PriceOf(b)[i] /\ i \in DOMAIN c.orders
<1>1. i \in DOMAIN b.orders /\ i \in DOMAIN c.orders /\ c.orders[i].price = b.orders[i].price
      /\ c.orders[i].amount = b.orders[i].amount
  BY DEF Alike
<1> QED BY <1>1 DEF EntryOf, PriceOf

LEMMA SeenSame ==
    ASSUME NEW b, Readable(b), NEW c, Readable(c), NEW s \in Sides,
           OrdersOf(c, s) = OrdersOf(b, s), Alike(b, c, OrdersOf(b, s))
    PROVE  Seen(c, s) = Seen(b, s)
<1> DEFINE q == FetchOrders(b, s)
           D == OrdersOf(b, s)
           e == EntryOf(b)
           f == EntryOf(c)
<1>1. Lists(b, s, q)
  BY SideListed
<1>2. \A i \in D : f[i] = e[i] /\ PriceOf(c)[i] = PriceOf(b)[i]
  BY AlikeShown
<1>3. Ranked(s, PriceOf(c), D, q)
  <2> HIDE DEF q, D
  <2> QED BY <1>1, <1>2, RankedAgain DEF Lists, D
<1>4. FetchOrders(c, s) = q
  BY <1>3, ListedOnce
<1>5. DOMAIN q = 1 .. Len(q) /\ \A k \in 1 .. Len(q) : q[k] \in D
  BY <1>1 DEF Lists
<1> HIDE DEF q, D, e, f
<1>6. [k \in DOMAIN q |-> f[q[k]]] = [k \in DOMAIN q |-> e[q[k]]]
  BY <1>2, <1>5
<1> QED BY <1>4, <1>6 DEF Seen, Shown, q, e, f

\* Side s of c has the orders of b but for id.
Leaves(b, c, s, id) ==
    /\ id \in OrdersOf(b, s) /\ OrdersOf(c, s) = OrdersOf(b, s) \ {id}
    /\ Alike(b, c, OrdersOf(b, s) \ {id})

\* An order that leaves takes its entry with it.
LEMMA SeenWithout ==
    ASSUME NEW b, Readable(b), NEW c, Readable(c), NEW s \in Sides, NEW id, Leaves(b, c, s, id)
    PROVE  \E k \in 1 .. Len(FetchOrders(b, s)) :
             FetchOrders(b, s)[k] = id /\ Seen(c, s) = RemoveAt(Seen(b, s), k)
<1> DEFINE q == FetchOrders(b, s)
           D == OrdersOf(b, s)
           e == EntryOf(b)
           f == EntryOf(c)
           P == PriceOf(b)
           B0 == DOMAIN b.orders
           C == DOMAIN c.orders
<1>1. Lists(b, s, q)
  BY SideListed
<1>2. \A i \in D \ {id} : f[i] = e[i] /\ PriceOf(c)[i] = P[i] /\ i \in C
  <2>1. Alike(b, c, D \ {id})
    BY DEF Leaves
  <2> QED BY <2>1, AlikeShown
<1>3. Maps(e, B0, EntrySet) /\ Maps(f, C, EntrySet)
  BY EntriesTyped DEF EntriesMade
<1>4. FetchOrders(b, s) = q /\ Seen(b, s) = Shown(e, q) /\ Seen(c, s) = Shown(f, FetchOrders(c, s))
      /\ PriceOf(b) = P /\ OrdersOf(b, s) = D /\ OrdersOf(c, s) = D \ {id} /\ id \in D
  BY DEF Seen, Leaves
<1> HIDE DEF q, D, e, f, P, B0, C
<1>5. /\ Ranked(s, P, D, q) /\ Priced(P, D) /\ q \in Seq(D) /\ q \in Seq(B0)
      /\ Len(q) \in Nat /\ DOMAIN q = 1 .. Len(q) /\ \A k \in 1 .. Len(q) : q[k] \in D
  BY <1>1, <1>4 DEF Lists, B0
<1>6. PICK k \in 1 .. Len(q) : id = q[k]
  BY <1>4, <1>5 DEF Ranked
<1>7. \A j \in 1 .. Len(q) : j # k => q[j] # id
  <2> SUFFICES ASSUME NEW j \in 1 .. Len(q), j # k, q[j] = id PROVE FALSE
    OBVIOUS
  <2>1. j < k \/ k < j
    OBVIOUS
  <2>2. Prec(s, P, id, id)
    BY <1>5, <1>6, <2>1 DEF Ranked
  <2> QED BY <1>4, <1>5, <2>2, PrecOrder
<1> DEFINE fr == SubSeq(q, 1, k - 1)  bk == SubSeq(q, k + 1, Len(q))
           A == {q[j] : j \in 1 .. (k - 1)}
           B == {q[j] : j \in (k + 1) .. Len(q)}
<1>8. 1 \in 1 .. Len(q) + 1 /\ k - 1 \in 0 .. Len(q) /\ k + 1 \in 1 .. Len(q) + 1 /\ Len(q) \in 0 .. Len(q)
  BY <1>5
<1>9. Ranked(s, P, A, fr) /\ Ranked(s, P, B, bk)
  BY <1>5, <1>8, RankedPart
<1>10. \A j \in 1 .. (k - 1) : j \in 1 .. Len(q) /\ j # k /\ j < k
  BY <1>5
<1>11. \A j \in (k + 1) .. Len(q) : j \in 1 .. Len(q) /\ j # k /\ k < j
  BY <1>5
<1>12. \A i \in A, j \in B : Prec(s, P, i, j)
  <2> TAKE i \in A, j \in B
  <2>1. PICK m \in 1 .. (k - 1) : i = q[m]
    OBVIOUS
  <2>2. PICK n \in (k + 1) .. Len(q) : j = q[n]
    OBVIOUS
  <2>3. m \in 1 .. Len(q) /\ n \in 1 .. Len(q) /\ m < n
    BY <1>5, <1>10, <1>11
  <2> QED BY <1>5, <2>1, <2>2, <2>3 DEF Ranked
<1>13. A \cup B = D \ {id}
  <2>1. A \cup B \subseteq D \ {id}
    BY <1>5, <1>7, <1>10, <1>11
  <2>2. ASSUME NEW i \in D \ {id} PROVE i \in A \cup B
    <3>1. PICK j \in 1 .. Len(q) : i = q[j]
      BY <1>5 DEF Ranked
    <3>2. j # k
      BY <1>6, <3>1
    <3>3. j \in 1 .. (k - 1) \/ j \in (k + 1) .. Len(q)
      BY <1>5, <3>2
    <3> QED BY <3>1, <3>3
  <2> QED BY <2>1, <2>2
<1> HIDE DEF A, B
<1>14. Ranked(s, P, D \ {id}, fr \o bk)
  BY <1>9, <1>12, <1>13, RankedJoined
<1>15. FetchOrders(c, s) = fr \o bk
  <2> DEFINE r == fr \o bk
  <2>1. Ranked(s, PriceOf(c), D \ {id}, r)
    <3>1. Ranked(s, P, D \ {id}, r)
      BY <1>14
    <3> HIDE DEF r
    <3> QED BY <1>2, <3>1, RankedAgain
  <2> HIDE DEF r, fr, bk
  <2>2. FetchOrders(c, s) = r
    BY <1>4, <2>1, ListedOnce
  <2> QED BY <2>2 DEF r
<1>16. fr \in Seq(C) /\ Shown(f, fr) = SubSeq(Shown(e, q), 1, k - 1)
  <2>1. Shares(q, 1, k - 1, e, C, f)
    BY <1>2, <1>5, <1>7, <1>10 DEF Shares
  <2> QED BY <1>3, <1>5, <1>8, <2>1, ShownPart
<1>17. bk \in Seq(C) /\ Shown(f, bk) = SubSeq(Shown(e, q), k + 1, Len(q))
  <2>1. Shares(q, k + 1, Len(q), e, C, f)
    BY <1>2, <1>5, <1>7, <1>11 DEF Shares
  <2> QED BY <1>3, <1>5, <1>8, <2>1, ShownPart
<1> HIDE DEF fr, bk
<1>18. Shown(f, fr \o bk) = Shown(f, fr) \o Shown(f, bk)
  <2>1. Maps(f, C, EntrySet) /\ fr \in Seq(C) /\ bk \in Seq(C)
    BY <1>3, <1>16, <1>17
  <2> QED BY <2>1, ShownJoined
<1>19. Len(Shown(e, q)) = Len(q)
  BY <1>3, <1>5, ShownIs DEF Shows
<1>20. Seen(c, s) = RemoveAt(Seen(b, s), k)
  BY <1>4, <1>15, <1>16, <1>17, <1>18, <1>19 DEF RemoveAt
<1> QED BY <1>4, <1>6, <1>20

\* An order that has less left keeps its place.
SeenLess(b, c, s, k) ==
    /\ k \in 1 .. Len(Seen(b, s)) /\ k \in 1 .. Len(FetchOrders(b, s))
    /\ LET id == FetchOrders(b, s)[k] IN
       /\ Seen(b, s)[k] = EntryOf(b)[id]
       /\ Seen(c, s) = [Seen(b, s) EXCEPT ![k].amount = c.orders[id].amount]

LessLeft(b, c, s, id) ==
    /\ id \in OrdersOf(b, s) /\ OrdersOf(c, s) = OrdersOf(b, s) /\ Alike(b, c, OrdersOf(b, s) \ {id})
    /\ c.orders[id].price = b.orders[id].price

LEMMA SeenLessened ==
    ASSUME NEW b, Readable(b), NEW c, Readable(c), NEW s \in Sides, NEW id, LessLeft(b, c, s, id)
    PROVE  \E k \in 1 .. Len(FetchOrders(b, s)) : FetchOrders(b, s)[k] = id /\ SeenLess(b, c, s, k)
<1> DEFINE q == FetchOrders(b, s)
           D == OrdersOf(b, s)
           e == EntryOf(b)
           f == EntryOf(c)
           P == PriceOf(b)
           R == PriceOf(c)
           a == c.orders[id].amount
           x == Seen(b, s)
           y == Seen(c, s)
<1>1. Lists(b, s, q)
  BY SideListed
<1>2. \A i \in D \ {id} : f[i] = e[i] /\ R[i] = P[i]
  <2>1. Alike(b, c, D \ {id})
    BY DEF LessLeft
  <2> QED BY <2>1, AlikeShown
<1>3. id \in DOMAIN b.orders /\ id \in DOMAIN c.orders
  BY DEF OrdersOf, LessLeft
<1>4. R[id] = P[id] /\ f[id] = [e[id] EXCEPT !.amount = a]
  <2>1. e[id] = [id |-> id, price |-> b.orders[id].price, amount |-> b.orders[id].amount]
    BY <1>3 DEF EntryOf
  <2>2. f[id] = [id |-> id, price |-> b.orders[id].price, amount |-> c.orders[id].amount]
    BY <1>3 DEF EntryOf, LessLeft
  <2>3. R[id] = P[id]
    BY <1>3 DEF PriceOf, LessLeft
  <2> HIDE DEF e, f
  <2> QED BY <2>1, <2>2, <2>3
<1>5. Ranked(s, R, D, q)
  <2>1. \A i \in D : R[i] = P[i]
    BY <1>2, <1>4
  <2>2. Ranked(s, P, D, q)
    BY <1>1 DEF Lists
  <2> HIDE DEF R, P, D, q
  <2> QED BY <2>1, <2>2, RankedAgain
<1>6. FetchOrders(c, s) = q
  BY <1>5, ListedOnce DEF LessLeft
<1>7. /\ Ranked(s, P, D, q) /\ Priced(P, D) /\ Len(q) \in Nat /\ DOMAIN q = 1 .. Len(q)
      /\ \A k \in 1 .. Len(q) : q[k] \in D
  BY <1>1 DEF Lists
<1>8. x = [k \in 1 .. Len(q) |-> e[q[k]]] /\ y = [k \in 1 .. Len(q) |-> f[q[k]]]
  BY <1>6, <1>7 DEF Seen, Shown
<1>9. Len(x) = Len(q)
  <2>1. Maps(e, DOMAIN b.orders, EntrySet) /\ q \in Seq(DOMAIN b.orders)
    BY <1>1, EntriesTyped DEF EntriesMade, Lists
  <2>2. Shows(e, q, EntrySet, Shown(e, q))
    BY <2>1, ShownIs
  <2> QED BY <2>2 DEF Shows, Seen
<1> HIDE DEF q, D, e, f, P, R, a, x, y
<1>10. PICK k \in 1 .. Len(q) : id = q[k]
  <2>1. id \in D
    BY DEF D, LessLeft
  <2> QED BY <1>7, <2>1 DEF Ranked
<1>11. \A j \in 1 .. Len(q) : j # k => q[j] # id
  <2> SUFFICES ASSUME NEW j \in 1 .. Len(q), j # k, q[j] = id PROVE FALSE
    OBVIOUS
  <2>1. j < k \/ k < j
    OBVIOUS
  <2>2. Prec(s, P, id, id)
    BY <1>7, <1>10, <2>1 DEF Ranked
  <2>3. id \in D
    BY DEF D, LessLeft
  <2> QED BY <1>7, <2>2, <2>3, PrecOrder
<1>12. \A j \in 1 .. Len(q) : y[j] = IF j = k THEN [x[k] EXCEPT !.amount = a] ELSE x[j]
  <2> TAKE j \in 1 .. Len(q)
  <2>1. CASE j = k
    <3>1. x[k] = e[id] /\ y[k] = f[id]
      BY <1>8, <1>10
    <3> QED BY <1>4, <2>1, <3>1
  <2>2. CASE j # k
    <3>1. x[j] = e[q[j]] /\ y[j] = f[q[j]] /\ q[j] \in D \ {id}
      BY <1>7, <1>8, <1>11, <2>2
    <3> QED BY <1>2, <2>2, <3>1
  <2> QED BY <2>1, <2>2
<1>13. y = [x EXCEPT ![k].amount = a]
  <2>1. x = [j \in 1 .. Len(q) |-> x[j]] /\ y = [j \in 1 .. Len(q) |-> y[j]]
    BY <1>8
  <2>2. [x EXCEPT ![k].amount = a] = [j \in 1 .. Len(q) |-> IF j = k THEN [x[k] EXCEPT !.amount = a] ELSE x[j]]
    BY <1>10, <2>1
  <2> QED BY <1>12, <2>1, <2>2
<1>14. x[k] = e[q[k]]
  BY <1>8
<1>15. SeenLess(b, c, s, k)
  BY <1>9, <1>10, <1>13, <1>14 DEF SeenLess, q, x, y, a, e
<1> QED BY <1>10, <1>15 DEF q

\* The orders lo .. hi, younger than all of side s, are put into the side at price p.
Joined(b, c, s, p, lo, hi) ==
    /\ lo \in Nat /\ hi \in Nat /\ lo <= hi /\ p \in Nat
    /\ OrdersOf(c, s) = OrdersOf(b, s) \cup lo .. hi
    /\ Alike(b, c, OrdersOf(b, s)) /\ \A i \in OrdersOf(b, s) : i < lo
    /\ \A i \in lo .. hi : c.orders[i].price = p /\ c.orders[i].amount > 0

\* Where a price belongs in a queue
Divides(s, P, q, p, k) ==
    /\ k \in 0 .. Len(q)
    /\ \A j \in 1 .. k : AtLeast(s, P[q[j]], p)
    /\ \A j \in (k + 1) .. Len(q) : ~AtLeast(s, P[q[j]], p)

LEMMA Division ==
    ASSUME NEW s \in Sides, NEW P, NEW D, Priced(P, D), NEW q, Ranked(s, P, D, q), NEW p \in Nat
    PROVE  \E k : Divides(s, P, q, p, k)
<1> DEFINE F == {j \in 0 .. Len(q) : j # 0 /\ ~AtLeast(s, P[q[j]], p)}
<1>1. Len(q) \in Nat /\ \A k \in 1 .. Len(q) : q[k] \in D /\ P[q[k]] \in Nat
  <2>1. q \in Seq(D)
    BY DEF Ranked
  <2>2. Len(q) \in Nat /\ \A k \in 1 .. Len(q) : q[k] \in D
    BY <2>1
  <2> QED BY <2>2 DEF Priced
<1>2. CASE F = {}
  <2>1. \A j \in 1 .. Len(q) : AtLeast(s, P[q[j]], p)
    <3> TAKE j \in 1 .. Len(q)
    <3>1. j \in 0 .. Len(q) /\ j # 0 /\ j \notin F
      BY <1>1, <1>2
    <3> QED BY <3>1
  <2>2. Len(q) \in 0 .. Len(q) /\ (Len(q) + 1) .. Len(q) = {}
    BY <1>1
  <2>3. Divides(s, P, q, p, Len(q))
    BY <2>1, <2>2, Zenon DEF Divides
  <2> QED BY <2>3
<1>3. CASE F # {}
  <2>1. PICK m \in F : \A j \in F : m <= j
    <3>1. F \subseteq 0 .. Len(q)
      OBVIOUS
    <3> HIDE DEF F
    <3> QED BY <1>1, <1>3, <3>1, FirstFailure
  <2>2. m \in 1 .. Len(q) /\ m - 1 \in 0 .. Len(q) /\ ~AtLeast(s, P[q[m]], p)
    BY <1>1, <2>1
  <2>3. \A j \in 1 .. (m - 1) : AtLeast(s, P[q[j]], p)
    <3> SUFFICES ASSUME NEW j \in 1 .. (m - 1), ~AtLeast(s, P[q[j]], p) PROVE FALSE
      OBVIOUS
    <3>1. j \in 0 .. Len(q) /\ j # 0 /\ ~(m <= j)
      BY <1>1, <2>2
    <3>2. j \in F
      BY <3>1
    <3> HIDE DEF F
    <3> QED BY <2>1, <3>1, <3>2
  <2>4. ASSUME NEW j \in ((m - 1) + 1) .. Len(q) PROVE ~AtLeast(s, P[q[j]], p)
    <3>1. j \in 1 .. Len(q) /\ (j = m \/ m < j)
      BY <1>1, <2>2
    <3>2. CASE j = m
      BY <2>2, <3>2
    <3>3. CASE m < j
      <4>1. Prec(s, P, q[m], q[j])
        BY <2>2, <3>1, <3>3 DEF Ranked
      <4> QED BY <1>1, <2>2, <3>1, <4>1 DEF Prec, AtLeast, Better, Sides
    <3> QED BY <3>1, <3>2, <3>3
  <2>5. Divides(s, P, q, p, m - 1)
    BY <2>2, <2>3, <2>4 DEF Divides
  <2> QED BY <2>5
<1> QED BY <1>2, <1>3

\* New orders in the order of their numbers
Numbered(lo, hi) == [j \in 1 .. (hi - lo + 1) |-> lo + j - 1]

LEMMA NumberedRanked ==
    ASSUME NEW s, NEW P, NEW lo \in Nat, NEW hi \in Nat, lo <= hi, NEW p, \A i \in lo .. hi : P[i] = p
    PROVE  /\ Ranked(s, P, lo .. hi, Numbered(lo, hi))
           /\ Len(Numbered(lo, hi)) = hi - lo + 1
<1> DEFINE n == Numbered(lo, hi)
           m == hi - lo + 1
<1>1. n = [j \in 1 .. m |-> lo + j - 1] /\ m \in Nat
  BY DEF Numbered
<1>2. \A j \in 1 .. m : lo + j - 1 \in lo .. hi
  OBVIOUS
<1> HIDE DEF n
<1>3. n \in [1 .. m -> lo .. hi] /\ \A j \in 1 .. m : n[j] = lo + j - 1
  BY <1>1, <1>2
<1>4. n \in Seq(lo .. hi) /\ Len(n) = m
  BY <1>1, <1>3
<1>5. ASSUME NEW i \in lo .. hi PROVE \E k \in 1 .. Len(n) : i = n[k]
  <2>1. i - lo + 1 \in 1 .. m /\ lo + (i - lo + 1) - 1 = i
    OBVIOUS
  <2> HIDE DEF m
  <2> QED BY <1>3, <1>4, <2>1
<1>6. ASSUME NEW j \in 1 .. Len(n), NEW k \in 1 .. Len(n), j < k PROVE Prec(s, P, n[j], n[k])
  <2>1. n[j] = lo + j - 1 /\ n[k] = lo + k - 1 /\ n[j] \in lo .. hi /\ n[k] \in lo .. hi
    BY <1>2, <1>3, <1>4
  <2>2. P[n[j]] = P[n[k]] /\ n[j] < n[k]
    BY <1>6, <2>1
  <2> QED BY <2>2 DEF Prec
<1>7. Ranked(s, P, lo .. hi, n)
  BY <1>4, <1>5, <1>6 DEF Ranked
<1> QED BY <1>4, <1>7 DEF n

Divided(b, s, q, p, k) == q = FetchOrders(b, s) /\ Divides(s, PriceOf(b), q, p, k)
ReadWith(c, s, q, k, lo, hi) ==
    FetchOrders(c, s) = (SubSeq(q, 1, k) \o Numbered(lo, hi)) \o SubSeq(q, k + 1, Len(q))

\* The side is read as it was, but for the new orders behind those as good as they are.
LEMMA JoinedRead ==
    ASSUME NEW b, Readable(b), NEW c, Readable(c), NEW s \in Sides, NEW p, NEW lo, NEW hi,
           Joined(b, c, s, p, lo, hi), NEW q, NEW k, Divided(b, s, q, p, k)
    PROVE  ReadWith(c, s, q, k, lo, hi)
<1> DEFINE D == OrdersOf(b, s)
           N == lo .. hi
           n == Numbered(lo, hi)
           P == PriceOf(b)
           R == PriceOf(c)
           fr == SubSeq(q, 1, k)
           bk == SubSeq(q, k + 1, Len(q))
           A == {q[j] : j \in 1 .. k}
           B == {q[j] : j \in (k + 1) .. Len(q)}
<1>1. /\ lo \in Nat /\ hi \in Nat /\ lo <= hi /\ p \in Nat
      /\ OrdersOf(c, s) = D \cup N /\ Alike(b, c, D) /\ \A i \in D : i < lo
  BY DEF Joined
<1>2. \A i \in N : i \in DOMAIN c.orders /\ R[i] = p
  <2>1. \A i \in N : i \in DOMAIN c.orders
    BY <1>1 DEF OrdersOf
  <2> QED BY <2>1 DEF Joined, PriceOf
<1>3. Lists(b, s, q)
  BY SideListed DEF Divided
<1>4. \A i \in D : R[i] = P[i]
  BY <1>1, AlikeShown
<1>5. Ranked(s, P, D, q) /\ Priced(P, D) /\ Len(q) \in Nat /\ \A j \in 1 .. Len(q) : q[j] \in D
  BY <1>3 DEF Lists
<1>6. /\ k \in 0 .. Len(q) /\ (\A j \in 1 .. k : AtLeast(s, P[q[j]], p))
      /\ \A j \in (k + 1) .. Len(q) : ~AtLeast(s, P[q[j]], p)
  BY DEF Divides, Divided
<1> HIDE DEF D, P, R, n
<1>7. Ranked(s, R, N, n)
  BY <1>1, <1>2, NumberedRanked DEF n
<1>8. Ranked(s, R, A, fr) /\ Ranked(s, R, B, bk)
  <2>1. 1 \in 1 .. Len(q) + 1 /\ k + 1 \in 1 .. Len(q) + 1 /\ Len(q) \in 0 .. Len(q)
    BY <1>5, <1>6
  <2>2. Ranked(s, R, D, q)
    BY <1>4, <1>5, RankedAgain
  <2> QED BY <1>6, <2>1, <2>2, RankedPart
<1>9. \A j \in 1 .. k : j \in 1 .. Len(q)
  BY <1>5, <1>6
<1>10. \A j \in (k + 1) .. Len(q) : j \in 1 .. Len(q)
  BY <1>5, <1>6
<1>11. \A i \in A : i \in D /\ R[i] = P[i] /\ AtLeast(s, R[i], p) /\ i < lo
  BY <1>1, <1>4, <1>5, <1>6, <1>9
<1>12. \A i \in B : i \in D /\ R[i] = P[i] /\ ~AtLeast(s, R[i], p) /\ R[i] \in Nat
  <2> TAKE i \in B
  <2>1. PICK j \in (k + 1) .. Len(q) : i = q[j]
    OBVIOUS
  <2>2. i \in D /\ ~AtLeast(s, P[i], p)
    BY <1>5, <1>6, <1>10, <2>1
  <2> QED BY <1>4, <1>5, <2>2 DEF Priced
<1>13. ASSUME NEW i \in A, NEW j \in N PROVE Prec(s, R, i, j)
  <2>1. AtLeast(s, R[i], p) /\ i < lo /\ R[j] = p /\ lo <= j /\ i \in Nat /\ j \in Nat
    <3>1. i \in Nat
      BY <1>5, <1>11 DEF Priced
    <3>2. j \in Nat /\ lo <= j
      BY <1>1
    <3> HIDE DEF A, N
    <3> QED BY <1>2, <1>11, <3>1, <3>2
  <2>2. i < j
    BY <1>1, <2>1
  <2> QED BY <2>1, <2>2 DEF Prec, AtLeast
<1>14. ASSUME NEW i \in N, NEW j \in B PROVE Prec(s, R, i, j)
  <2>1. R[i] = p /\ ~AtLeast(s, R[j], p) /\ R[j] \in Nat
    BY <1>2, <1>12
  <2> QED BY <1>1, <2>1 DEF Prec, AtLeast, Better, Sides
<1>15. ASSUME NEW i \in A, NEW j \in B PROVE Prec(s, R, i, j)
  <2>1. AtLeast(s, R[i], p) /\ ~AtLeast(s, R[j], p) /\ R[j] \in Nat /\ R[i] \in Nat
    BY <1>5, <1>11, <1>12 DEF Priced
  <2> QED BY <1>1, <2>1 DEF Prec, AtLeast, Better, Sides
<1>16. A \cup B = D
  <2>1. A \cup B \subseteq D
    BY <1>11, <1>12
  <2>2. ASSUME NEW i \in D PROVE i \in A \cup B
    <3>1. PICK j \in 1 .. Len(q) : i = q[j]
      BY <1>5 DEF Ranked
    <3>2. j \in 1 .. k \/ j \in (k + 1) .. Len(q)
      BY <1>5, <1>6
    <3> QED BY <3>1, <3>2
  <2> QED BY <2>1, <2>2
<1>17. (A \cup N) \cup B = D \cup N
  BY <1>16
<1> HIDE DEF A, B, N, fr, bk
<1>18. Ranked(s, R, A \cup N, fr \o n)
  BY <1>7, <1>8, <1>13, RankedJoined
<1>19. Ranked(s, R, (A \cup N) \cup B, (fr \o n) \o bk)
  <2>1. \A i \in A \cup N, j \in B : Prec(s, R, i, j)
    BY <1>14, <1>15
  <2> QED BY <1>8, <1>18, <2>1, RankedJoined
<1> DEFINE r == (fr \o n) \o bk
<1>20. Ranked(s, R, D \cup N, r)
  BY <1>17, <1>19
<1> HIDE DEF r
<1>21. FetchOrders(c, s) = r
  BY <1>1, <1>20, ListedOnce DEF R
<1> QED BY <1>21 DEF r, fr, bk, n, ReadWith

-----------------------------------------------------------------------------
(* The steps of the abstract queue                                          *)

\* One side of c is that of b after a step of PriceTimeBook, the other is as it was.
Shifts(b, c) ==
    \E s \in Sides :
        /\ Seen(c, s) # Seen(b, s)
        /\ \A t \in Sides \ {s} : Seen(c, t) = Seen(b, t)
        /\ \/ Abstract!Rest(s, Seen(b, s), Seen(c, s))
           \/ Abstract!Trade(Seen(b, s), Seen(c, s))
           \/ Abstract!Withdraw(Seen(b, s), Seen(c, s))

\* What the sequence seen of a side holds
SeenAs(b, s, q, e) ==
    /\ e \in Seq(EntrySet) /\ Len(e) = Len(q) /\ Len(q) \in Nat /\ DOMAIN e = 1 .. Len(q) /\ DOMAIN q = 1 .. Len(q)
    /\ \A k \in 1 .. Len(q) : /\ q[k] \in OrdersOf(b, s) /\ e[k].id = q[k] /\ e[k] \in EntrySet
                              /\ e[k].price = b.orders[q[k]].price /\ e[k].amount = b.orders[q[k]].amount

LEMMA SeenIs ==
    ASSUME NEW b, Readable(b), NEW s \in Sides
    PROVE  SeenAs(b, s, FetchOrders(b, s), Seen(b, s))
<1> DEFINE q == FetchOrders(b, s)
           e == EntryOf(b)
           x == Seen(b, s)
           D == DOMAIN b.orders
<1>1. Lists(b, s, q)
  BY SideListed
<1>2. Maps(e, D, EntrySet) /\ \A i \in D : e[i].id = i /\ e[i].price = b.orders[i].price /\ e[i].amount = b.orders[i].amount
  BY EntriesTyped DEF EntriesMade
<1>3. q \in Seq(D) /\ DOMAIN q = 1 .. Len(q) /\ \A k \in 1 .. Len(q) : q[k] \in OrdersOf(b, s) /\ q[k] \in D
  BY <1>1 DEF Lists, OrdersOf
<1>4. x = Shown(e, q)
  BY DEF Seen
<1> HIDE DEF q, e, x, D
<1>5. Shows(e, q, EntrySet, x)
  BY <1>2, <1>3, <1>4, ShownIs
<1>6. x \in Seq(EntrySet) /\ Len(x) = Len(q) /\ Len(q) \in Nat /\ DOMAIN x = 1 .. Len(q)
  BY <1>5 DEF Shows
<1>7. \A k \in 1 .. Len(q) : x[k] = e[q[k]] /\ e[q[k]] \in EntrySet
  BY <1>2, <1>3, <1>5 DEF Shows, Maps
<1>8. \A k \in 1 .. Len(q) : /\ q[k] \in OrdersOf(b, s) /\ x[k].id = q[k] /\ x[k] \in EntrySet
                             /\ x[k].price = b.orders[q[k]].price /\ x[k].amount = b.orders[q[k]].amount
  BY <1>2, <1>3, <1>7
<1> QED BY <1>3, <1>6, <1>8 DEF SeenAs, q, x

\* Order id is gone from c; the others are as in b.
Gone(b, c, id) ==
    /\ id \in DOMAIN b.orders /\ b.orders[id].side \in Sides
    /\ DOMAIN c.orders = DOMAIN b.orders \ {id} /\ Alike(b, c, DOMAIN c.orders)

\* Taking an entry out shortens the queue.
LEMMA Shorter ==
    ASSUME NEW S, NEW x \in Seq(S), NEW k \in 1 .. Len(x)
    PROVE  RemoveAt(x, k) # x
<1>1. Len(x) \in Nat /\ k \in Nat /\ k # 0 /\ 1 \in Int /\ k - 1 \in Int /\ k + 1 \in Int /\ Len(x) \in Int
  OBVIOUS
<1>2. (\A i \in 1 .. (k - 1) : i \in 1 .. Len(x)) /\ \A i \in (k + 1) .. Len(x) : i \in 1 .. Len(x)
  BY <1>1
<1> DEFINE y == SubSeq(x, 1, k - 1)  z == SubSeq(x, k + 1, Len(x))
<1>3. y \in Seq(S) /\ Len(y) = IF 1 <= k - 1 THEN (k - 1) - 1 + 1 ELSE 0
  <2>1. \A i \in 1 .. (k - 1) : x[i] \in S
    BY <1>2, ElementOfSeq
  <2> QED BY <1>1, <2>1, SubSeqProperties
<1>4. z \in Seq(S) /\ Len(z) = IF k + 1 <= Len(x) THEN Len(x) - (k + 1) + 1 ELSE 0
  <2>1. \A i \in (k + 1) .. Len(x) : x[i] \in S
    BY <1>2, ElementOfSeq
  <2> QED BY <1>1, <2>1, SubSeqProperties
<1>5. RemoveAt(x, k) = y \o z
  BY DEF RemoveAt
<1> HIDE DEF y, z
<1>6. Len(y \o z) = Len(y) + Len(z)
  BY <1>3, <1>4, ConcatProperties
<1>7. Len(y) = k - 1 /\ Len(z) = Len(x) - k
  BY <1>1, <1>3, <1>4
<1>8. Len(y) + Len(z) # Len(x)
  BY <1>1, <1>7
<1> QED BY <1>5, <1>6, <1>8

LEMMA GoneRemoves ==
    ASSUME NEW b, Readable(b), NEW c, Readable(c), NEW id, Gone(b, c, id), NEW s, s = b.orders[id].side
    PROVE  /\ \E k \in DOMAIN Seen(b, s) : FetchOrders(b, s)[k] = id /\ Seen(c, s) = RemoveAt(Seen(b, s), k)
           /\ Seen(c, s) # Seen(b, s)
           /\ \A t \in Sides \ {s} : Seen(c, t) = Seen(b, t)
<1>1. /\ id \in DOMAIN b.orders /\ s \in Sides /\ DOMAIN c.orders = DOMAIN b.orders \ {id}
      /\ Alike(b, c, DOMAIN b.orders \ {id})
  BY DEF Gone
<1>2. Leaves(b, c, s, id)
  BY <1>1 DEF OrdersOf, Alike, Leaves
<1>3. PICK k \in 1 .. Len(FetchOrders(b, s)) :
        FetchOrders(b, s)[k] = id /\ Seen(c, s) = RemoveAt(Seen(b, s), k)
  BY <1>1, <1>2, SeenWithout
<1>4. SeenAs(b, s, FetchOrders(b, s), Seen(b, s))
  BY <1>1, SeenIs
<1>5. Seen(b, s) \in Seq(EntrySet) /\ k \in 1 .. Len(Seen(b, s)) /\ k \in DOMAIN Seen(b, s)
  BY <1>4 DEF SeenAs
<1>6. Seen(c, s) # Seen(b, s)
  BY <1>3, <1>5, Shorter
<1>7. ASSUME NEW t \in Sides \ {s} PROVE Seen(c, t) = Seen(b, t)
  <2>1. OrdersOf(c, t) = OrdersOf(b, t) /\ Alike(b, c, OrdersOf(b, t))
    BY <1>1 DEF OrdersOf, Alike
  <2> QED BY <2>1, SeenSame
<1> QED BY <1>3, <1>5, <1>6, <1>7

\* A revocation or an eviction withdraws the order.
LEMMA GoneShifts ==
    ASSUME NEW b, Readable(b), NEW c, Readable(c), NEW id, Gone(b, c, id)
    PROVE  Shifts(b, c)
<1> DEFINE s == b.orders[id].side
<1>1. s \in Sides
  BY DEF Gone
<1> HIDE DEF s
<1>2. /\ \E k \in DOMAIN Seen(b, s) : FetchOrders(b, s)[k] = id /\ Seen(c, s) = RemoveAt(Seen(b, s), k)
      /\ Seen(c, s) # Seen(b, s) /\ \A t \in Sides \ {s} : Seen(c, t) = Seen(b, t)
  BY GoneRemoves DEF s
<1>3. Abstract!Withdraw(Seen(b, s), Seen(c, s))
  BY <1>2 DEF Abstract!Withdraw, Abstract!RemoveAt, RemoveAt
<1> QED BY <1>1, <1>2, <1>3 DEF Shifts

\* An order at the best price of its side is priced as the first of the queue is.
LEMMA TopOfQueue ==
    ASSUME NEW b, Readable(b), NEW s \in Sides, NEW q, q = FetchOrders(b, s), NEW k \in 1 .. Len(q),
           b.orders[q[k]].price = b.best[s]
    PROVE  Seen(b, s)[k].price = Seen(b, s)[1].price
<1> DEFINE x == Seen(b, s)
           P == PriceOf(b)
<1>1. SeenAs(b, s, q, x) /\ Lists(b, s, q)
  BY SeenIs, SideListed
<1>2. /\ \A j \in 1 .. Len(q) : q[j] \in OrdersOf(b, s) /\ x[j].price = b.orders[q[j]].price
      /\ \A j, i \in 1 .. Len(q) : j < i => Prec(s, P, q[j], q[i])
      /\ Len(q) \in Nat
  BY <1>1 DEF SeenAs, Lists, Ranked
<1> HIDE DEF x
<1>3. CASE k = 1
  BY <1>3 DEF x
<1>4. CASE k # 1
  <2>1. 1 \in 1 .. Len(q) /\ 1 < k
    BY <1>2, <1>4
  <2>2. Prec(s, P, q[1], q[k]) /\ q[1] \in OrdersOf(b, s) /\ q[k] \in OrdersOf(b, s)
    BY <1>2, <2>1
  <2> DEFINE i == q[1]  j == q[k]
  <2>3. i \in DOMAIN b.orders /\ j \in DOMAIN b.orders /\ b.orders[i].side = s
    BY <2>2 DEF OrdersOf
  <2> HIDE DEF i, j
  <2>4. P[i] = b.orders[i].price /\ P[j] = b.best[s]
    BY <2>3 DEF PriceOf, j
  <2>5. P[i] \in Prices /\ i \in OrdersAt(b, s, P[i])
    BY <2>3, <2>4 DEF OrdersAt, Readable, BookInv, TypedBook, OrderSet
  <2>6. P[i] \in LevelsOf(b, s) /\ IsFirst(s, LevelsOf(b, s), P[j])
    BY <2>4, <2>5 DEF Readable, BookInv, SideInv
  <2>7. ~Better(s, P[i], P[j])
    BY <2>6 DEF IsFirst
  <2>8. P[i] = P[j]
    BY <2>2, <2>7 DEF Prec, i, j
  <2> QED BY <1>2, <2>1, <2>4, <2>8 DEF x, i, j
<1> QED BY <1>3, <1>4

\* Order id has v left in c, less than in b; nothing else has changed.
Lessened(b, c, id, v) ==
    /\ id \in DOMAIN b.orders /\ b.orders[id].side \in Sides
    /\ DOMAIN c.orders = DOMAIN b.orders /\ Alike(b, c, DOMAIN b.orders \ {id})
    /\ c.orders[id].side = b.orders[id].side /\ c.orders[id].price = b.orders[id].price
    /\ c.orders[id].amount = v /\ v \in 1 .. b.orders[id].amount - 1

\* An order at the best price that has less left has traded.
LEMMA LessShifts ==
    ASSUME NEW b, Readable(b), NEW c, Readable(c), NEW id, NEW v, Lessened(b, c, id, v),
           NEW s, s = b.orders[id].side, b.orders[id].price = b.best[s]
    PROVE  Shifts(b, c)
<1> DEFINE q == FetchOrders(b, s)
           x == Seen(b, s)
           y == Seen(c, s)
<1>1. /\ id \in DOMAIN b.orders /\ s \in Sides /\ DOMAIN c.orders = DOMAIN b.orders
      /\ Alike(b, c, DOMAIN b.orders \ {id}) /\ c.orders[id].side = s /\ c.orders[id].price = b.orders[id].price
      /\ c.orders[id].amount = v /\ v \in 1 .. b.orders[id].amount - 1 /\ b.orders[id].amount \in Nat
  <2>1. id \in DOMAIN b.orders
    BY DEF Lessened
  <2>2. b.orders[id].amount \in Nat
    BY <2>1, EntriesTyped DEF EntriesMade
  <2> QED BY <2>2 DEF Lessened
<1>2. id \in OrdersOf(b, s) /\ OrdersOf(c, s) = OrdersOf(b, s) /\ Alike(b, c, OrdersOf(b, s) \ {id})
  BY <1>1 DEF OrdersOf, Alike
<1>3. PICK k \in 1 .. Len(q) : q[k] = id /\ SeenLess(b, c, s, k)
  <2>1. LessLeft(b, c, s, id)
    BY <1>1, <1>2 DEF LessLeft
  <2> QED BY <1>1, <2>1, SeenLessened
<1>4. SeenAs(b, s, q, x)
  BY <1>1, SeenIs
<1>5. k \in DOMAIN x /\ x[k].amount = b.orders[id].amount /\ x[k] \in EntrySet
  BY <1>3, <1>4 DEF SeenAs
<1>6. y = [x EXCEPT ![k].amount = v]
  BY <1>1, <1>3 DEF SeenLess
<1>7. x[k].price = x[1].price
  BY <1>1, <1>3, TopOfQueue
<1> HIDE DEF q, x, y
<1>8. y[k].amount = v
  BY <1>5, <1>6 DEF EntrySet
<1>9. y # x
  BY <1>1, <1>5, <1>8
<1>10. Abstract!Trade(x, y)
  <2>1. v \in 1 .. x[k].amount - 1
    BY <1>1, <1>5
  <2> QED BY <1>5, <1>6, <1>7, <2>1 DEF Abstract!Trade
<1>11. ASSUME NEW t \in Sides \ {s} PROVE Seen(c, t) = Seen(b, t)
  <2>1. OrdersOf(c, t) = OrdersOf(b, t) /\ Alike(b, c, OrdersOf(b, t))
    BY <1>1 DEF OrdersOf, Alike
  <2> QED BY <2>1, SeenSame
<1> QED BY <1>1, <1>9, <1>10, <1>11 DEF Shifts, x, y

\* The orders lo .. hi are new in c, on side s at price p.
Grown(b, c, s, p, lo, hi) ==
    /\ s \in Sides /\ lo \in Nat /\ hi \in Nat /\ lo <= hi /\ p \in Nat
    /\ DOMAIN c.orders = DOMAIN b.orders \cup lo .. hi
    /\ Alike(b, c, DOMAIN b.orders) /\ \A i \in DOMAIN b.orders : i < lo
    /\ \A i \in lo .. hi : c.orders[i].side = s /\ c.orders[i].price = p /\ c.orders[i].amount > 0

LEMMA GrownJoins ==
    ASSUME NEW b, Readable(b), NEW c, NEW s, NEW p, NEW lo, NEW hi, Grown(b, c, s, p, lo, hi)
    PROVE  Joined(b, c, s, p, lo, hi)
<1>1. OrdersOf(c, s) = OrdersOf(b, s) \cup lo .. hi
  BY DEF Grown, OrdersOf, Alike
<1>2. Alike(b, c, OrdersOf(b, s)) /\ \A i \in OrdersOf(b, s) : i < lo
  BY DEF Grown, OrdersOf, Alike
<1> QED BY <1>1, <1>2 DEF Grown, Joined

\* The queue x becomes y when the entries m come at place k.
Entered(s, x, y, p, k, m) ==
    /\ k \in 0 .. Len(x) /\ m \in Seq(EntrySet) /\ Len(m) > 0
    /\ y = (SubSeq(x, 1, k) \o m) \o SubSeq(x, k + 1, Len(x))
    /\ \A j \in 1 .. Len(m) : m[j].price = p /\ m[j].amount > 0 /\ \A i \in 1 .. Len(x) : m[j].id # x[i].id
    /\ \A j \in 1 .. k : AtLeast(s, x[j].price, p)
    /\ \A j \in (k + 1) .. Len(x) : ~AtLeast(s, x[j].price, p)

LEMMA JoinedEnters ==
    ASSUME NEW b, Readable(b), NEW c, Readable(c), NEW s \in Sides, NEW p, NEW lo, NEW hi,
           Joined(b, c, s, p, lo, hi)
    PROVE  \E k, m : Entered(s, Seen(b, s), Seen(c, s), p, k, m)
<1> DEFINE q == FetchOrders(b, s)
           x == Seen(b, s)
           y == Seen(c, s)
           e == EntryOf(b)
           f == EntryOf(c)
           B0 == DOMAIN b.orders
           C == DOMAIN c.orders
           n == Numbered(lo, hi)
           N == lo .. hi
           P == PriceOf(b)
           D == OrdersOf(b, s)
<1>1. /\ lo \in Nat /\ hi \in Nat /\ lo <= hi /\ p \in Nat /\ Alike(b, c, D) /\ (\A i \in D : i < lo)
      /\ OrdersOf(c, s) = D \cup N
      /\ \A i \in N : c.orders[i].price = p /\ c.orders[i].amount > 0
  BY DEF Joined
<1>2. Lists(b, s, q) /\ SeenAs(b, s, q, x)
  BY SideListed, SeenIs
<1>3. /\ Ranked(s, P, D, q) /\ Priced(P, D) /\ q \in Seq(B0) /\ Len(q) \in Nat /\ \A j \in 1 .. Len(q) : q[j] \in D
      /\ Len(x) = Len(q) /\ x \in Seq(EntrySet)
      /\ \A j \in 1 .. Len(q) : x[j].id = q[j] /\ x[j].price = b.orders[q[j]].price
  BY <1>2 DEF Lists, SeenAs
<1>4. Maps(e, B0, EntrySet) /\ Maps(f, C, EntrySet)
  BY EntriesTyped DEF EntriesMade
<1>5. \A i \in D : f[i] = e[i] /\ i \in C
  BY <1>1, AlikeShown
<1>6. \A j \in 1 .. Len(q) : P[q[j]] = x[j].price
  BY <1>3 DEF PriceOf, OrdersOf
<1>7. PICK k : Divides(s, P, q, p, k)
  <2> HIDE DEF P, D, q
  <2> QED BY <1>1, <1>3, Division
<1>8. FetchOrders(c, s) = (SubSeq(q, 1, k) \o n) \o SubSeq(q, k + 1, Len(q))
  <2>1. Divided(b, s, q, p, k)
    BY <1>7 DEF Divided
  <2> HIDE DEF q
  <2>2. ReadWith(c, s, q, k, lo, hi)
    BY <2>1, JoinedRead
  <2> QED BY <2>2 DEF ReadWith
<1>9. /\ k \in 0 .. Len(q) /\ (\A j \in 1 .. k : AtLeast(s, P[q[j]], p))
      /\ \A j \in (k + 1) .. Len(q) : ~AtLeast(s, P[q[j]], p)
  BY <1>7 DEF Divides
<1>10. N \subseteq C /\ \A i \in N : f[i].id = i /\ f[i].price = p /\ f[i].amount > 0
  <2>1. N \subseteq C
    BY <1>1 DEF OrdersOf
  <2>2. \A i \in C : f[i].id = i /\ f[i].price = c.orders[i].price /\ f[i].amount = c.orders[i].amount
    BY EntriesTyped DEF EntriesMade
  <2> HIDE DEF N, C, f
  <2> QED BY <1>1, <2>1, <2>2
<1>11. n \in Seq(N) /\ Len(n) = hi - lo + 1
  <2>1. Ranked(s, [i \in N |-> p], N, n) /\ Len(n) = hi - lo + 1
    <3>1. \A i \in lo .. hi : [j \in N |-> p][i] = p
      OBVIOUS
    <3> DEFINE F == [j \in N |-> p]
    <3> HIDE DEF F
    <3> QED BY <1>1, <3>1, NumberedRanked DEF F
  <2> QED BY <2>1 DEF Ranked
<1>12. y = Shown(f, FetchOrders(c, s)) /\ x = Shown(e, q)
  BY DEF Seen
<1> HIDE DEF q, x, y, e, f, B0, C, n, N, P, D
<1> DEFINE fr == SubSeq(q, 1, k)  bk == SubSeq(q, k + 1, Len(q))  m == Shown(f, n)
<1>13. \A j \in 1 .. k : j \in 1 .. Len(q)
  BY <1>3, <1>9
<1>14. \A j \in (k + 1) .. Len(q) : j \in 1 .. Len(q)
  BY <1>3, <1>9
<1>15. 1 \in 1 .. Len(q) + 1 /\ k + 1 \in 1 .. Len(q) + 1 /\ Len(q) \in 0 .. Len(q)
  BY <1>3, <1>9
<1>16. fr \in Seq(C) /\ Shown(f, fr) = SubSeq(x, 1, k)
  <2>1. Shares(q, 1, k, e, C, f)
    BY <1>3, <1>5, <1>13 DEF Shares
  <2> QED BY <1>3, <1>4, <1>9, <1>12, <1>15, <2>1, ShownPart
<1>17. bk \in Seq(C) /\ Shown(f, bk) = SubSeq(x, k + 1, Len(q))
  <2>1. Shares(q, k + 1, Len(q), e, C, f)
    BY <1>3, <1>5, <1>14 DEF Shares
  <2> QED BY <1>3, <1>4, <1>12, <1>15, <2>1, ShownPart
<1>18. n \in Seq(C)
  BY <1>10, <1>11
<1> HIDE DEF fr, bk, m
<1>19. fr \o n \in Seq(C) /\ Shown(f, fr \o n) = Shown(f, fr) \o m
  <2>1. Maps(f, C, EntrySet) /\ fr \in Seq(C) /\ n \in Seq(C)
    BY <1>4, <1>16, <1>18
  <2> QED BY <2>1, ShownJoined, ConcatProperties DEF m
<1>20. Shown(f, (fr \o n) \o bk) = Shown(f, fr \o n) \o Shown(f, bk)
  <2> DEFINE g == fr \o n
  <2>1. Maps(f, C, EntrySet) /\ g \in Seq(C) /\ bk \in Seq(C)
    BY <1>4, <1>17, <1>19
  <2> HIDE DEF g
  <2>2. Shown(f, g \o bk) = Shown(f, g) \o Shown(f, bk)
    BY <2>1, ShownJoined
  <2> QED BY <2>2 DEF g
<1>21. y = (SubSeq(x, 1, k) \o m) \o SubSeq(x, k + 1, Len(x))
  BY <1>3, <1>8, <1>12, <1>16, <1>17, <1>19, <1>20, Zenon DEF fr, bk
<1>22. Shows(f, n, EntrySet, m)
  BY <1>4, <1>18, ShownIs DEF m
<1>23. m \in Seq(EntrySet) /\ Len(m) = hi - lo + 1 /\ \A j \in 1 .. Len(m) : m[j] = f[n[j]] /\ n[j] \in N
  BY <1>11, <1>22 DEF Shows
<1>24. Len(m) > 0
  BY <1>1, <1>23
<1>25. ASSUME NEW j \in 1 .. Len(m)
       PROVE  m[j].price = p /\ m[j].amount > 0 /\ \A i \in 1 .. Len(x) : m[j].id # x[i].id
  <2>1. m[j].id = n[j] /\ m[j].price = p /\ m[j].amount > 0 /\ n[j] \in N
    BY <1>10, <1>23
  <2>2. ASSUME NEW i \in 1 .. Len(x) PROVE m[j].id # x[i].id
    <3>1. x[i].id \in D
      BY <1>3
    <3>2. x[i].id < lo
      BY <1>1, <3>1
    <3>3. ~(n[j] < lo)
      BY <1>1, <2>1 DEF N
    <3> QED BY <2>1, <3>2, <3>3
  <2> QED BY <2>1, <2>2
<1>26. /\ \A j \in 1 .. k : AtLeast(s, x[j].price, p)
       /\ \A j \in (k + 1) .. Len(x) : ~AtLeast(s, x[j].price, p)
  BY <1>3, <1>6, <1>9, <1>13, <1>14
<1>27. Entered(s, x, y, p, k, m)
  BY <1>3, <1>9, <1>21, <1>23, <1>24, <1>25, <1>26, Zenon DEF Entered
<1> QED BY <1>27, Zenon DEF x, y

LEMMA EntersRests ==
    ASSUME NEW s, NEW x \in Seq(EntrySet), NEW y, NEW p, NEW k, NEW m, Entered(s, x, y, p, k, m)
    PROVE  Abstract!Rest(s, x, y) /\ y # x
<1> DEFINE fr == SubSeq(x, 1, k)
           bk == SubSeq(x, k + 1, Len(x))
           z == (fr \o m) \o bk
<1>1. /\ k \in 0 .. Len(x) /\ k \in Nat /\ Len(x) \in Nat /\ m \in Seq(EntrySet) /\ Len(m) \in Nat /\ Len(m) > 0
      /\ y = z
  BY DEF Entered
<1>2. /\ \A j \in 1 .. Len(m) : m[j].price = p /\ m[j].amount > 0 /\ \A i \in 1 .. Len(x) : m[j].id # x[i].id
      /\ \A j \in 1 .. k : AtLeast(s, x[j].price, p)
      /\ \A j \in (k + 1) .. Len(x) : ~AtLeast(s, x[j].price, p)
  BY DEF Entered
<1>3. /\ \A j \in 1 .. k : j \in 1 .. Len(x)
      /\ \A j \in (k + 1) .. Len(x) : j \in 1 .. Len(x)
  BY <1>1
<1>4. fr \in Seq(EntrySet) /\ Len(fr) = (IF 1 <= k THEN k - 1 + 1 ELSE 0)
      /\ \A j \in 1 .. (k - 1 + 1) : fr[j] = x[1 + j - 1]
  <2>1. 1 \in Int /\ k \in Int /\ \A j \in 1 .. k : x[j] \in EntrySet
    BY <1>1, <1>3, ElementOfSeq
  <2> QED BY <2>1, SubSeqProperties
<1>5. bk \in Seq(EntrySet) /\ Len(bk) = (IF k + 1 <= Len(x) THEN Len(x) - (k + 1) + 1 ELSE 0)
      /\ \A j \in 1 .. (Len(x) - (k + 1) + 1) : bk[j] = x[k + 1 + j - 1]
  <2>1. k + 1 \in Int /\ Len(x) \in Int /\ \A j \in (k + 1) .. Len(x) : x[j] \in EntrySet
    BY <1>1, <1>3, ElementOfSeq
  <2> QED BY <2>1, SubSeqProperties
<1>6. Len(fr) = k /\ Len(bk) = Len(x) - k
  BY <1>1, <1>4, <1>5
<1> HIDE DEF fr, bk
<1>7. Len(z) = Len(fr) + Len(m) + Len(bk) /\ SubSeq(z, Len(fr) + 1, Len(fr) + Len(m)) = m
  BY <1>1, <1>4, <1>5, Middle
<1> HIDE DEF z
<1>8. Len(y) > Len(x) /\ k + Len(y) - Len(x) = Len(fr) + Len(m)
  BY <1>1, <1>6, <1>7
<1>9. SubSeq(y, k + 1, k + Len(y) - Len(x)) = m
  BY <1>1, <1>6, <1>7, <1>8
<1>10. DOMAIN m = 1 .. Len(m) /\ DOMAIN x = 1 .. Len(x) /\ DOMAIN fr = 1 .. k /\ DOMAIN bk = 1 .. (Len(x) - k)
  BY <1>1, <1>4, <1>5, <1>6
<1>11. Abstract!Ids(m) \cap Abstract!Ids(x) = {}
  BY <1>2, <1>10 DEF Abstract!Ids
<1>12. m[1].price = p
  BY <1>1, <1>2
<1>13. \A o \in Abstract!Range(m) : o.price = m[1].price /\ o.amount > 0
  BY <1>2, <1>10, <1>12 DEF Abstract!Range
<1>14. \A o \in Abstract!Range(fr) : AtLeast(s, o.price, m[1].price)
  <2>1. \A j \in 1 .. k : fr[j] = x[j]
    BY <1>1, <1>4
  <2>2. \A j \in DOMAIN fr : AtLeast(s, fr[j].price, p)
    BY <1>2, <1>10, <2>1
  <2> QED BY <1>12, <2>2 DEF Abstract!Range
<1>15. \A o \in Abstract!Range(bk) : ~AtLeast(s, o.price, m[1].price)
  <2>1. \A j \in 1 .. (Len(x) - k) : bk[j] = x[k + j] /\ k + j \in (k + 1) .. Len(x)
    BY <1>1, <1>5
  <2>2. \A j \in DOMAIN bk : ~AtLeast(s, bk[j].price, p)
    BY <1>2, <1>10, <2>1
  <2> QED BY <1>12, <2>2 DEF Abstract!Range
<1>16. Abstract!Rest(s, x, y)
  <2> DEFINE nw == SubSeq(y, k + 1, k + Len(y) - Len(x))
  <2>1. nw = m
    BY <1>9
  <2> HIDE DEF nw
  <2>2. /\ Len(y) > Len(x) /\ y = (fr \o nw) \o bk
        /\ Abstract!Ids(nw) \cap Abstract!Ids(x) = {}
        /\ \A o \in Abstract!Range(nw) : o.price = nw[1].price /\ o.amount > 0
        /\ \A o \in Abstract!Range(fr) : AtLeast(s, o.price, nw[1].price)
        /\ \A o \in Abstract!Range(bk) : ~AtLeast(s, o.price, nw[1].price)
    BY <1>1, <1>8, <1>11, <1>13, <1>14, <1>15, <2>1, Zenon DEF z
  <2> QED BY <1>1, <2>2, Zenon DEF Abstract!Rest, fr, bk, nw
<1>17. y # x
  BY <1>1, <1>8
<1> QED BY <1>16, <1>17

\* Orders that enter the book together, at one price, come to rest in the queue.
LEMMA GrownShifts ==
    ASSUME NEW b, Readable(b), NEW c, Readable(c), NEW s, NEW p, NEW lo, NEW hi, Grown(b, c, s, p, lo, hi)
    PROVE  Shifts(b, c)
<1>1. s \in Sides
  BY DEF Grown
<1>2. Joined(b, c, s, p, lo, hi)
  BY GrownJoins
<1>3. PICK k, m : Entered(s, Seen(b, s), Seen(c, s), p, k, m)
  BY <1>1, <1>2, JoinedEnters
<1>4. Seen(b, s) \in Seq(EntrySet)
  BY <1>1, SeenIs DEF SeenAs
<1>5. Abstract!Rest(s, Seen(b, s), Seen(c, s)) /\ Seen(c, s) # Seen(b, s)
  BY <1>3, <1>4, EntersRests
<1>6. ASSUME NEW t \in Sides \ {s} PROVE Seen(c, t) = Seen(b, t)
  <2>1. OrdersOf(c, t) = OrdersOf(b, t) /\ Alike(b, c, OrdersOf(b, t))
    BY DEF Grown, OrdersOf, Alike
  <2> QED BY <2>1, SeenSame
<1> QED BY <1>1, <1>5, <1>6 DEF Shifts

LEMMA GrownMore ==
    ASSUME NEW b, NEW c, NEW d, NEW s, NEW p, NEW lo, NEW m, NEW n, n = m + 1,
           Grown(b, c, s, p, lo, m), Grown(c, d, s, p, n, n)
    PROVE  Grown(b, d, s, p, lo, n)
<1>1. /\ s \in Sides /\ lo \in Nat /\ m \in Nat /\ lo <= m /\ p \in Nat
      /\ DOMAIN c.orders = DOMAIN b.orders \cup lo .. m /\ DOMAIN d.orders = DOMAIN c.orders \cup n .. n
      /\ Alike(b, c, DOMAIN b.orders) /\ (\A i \in DOMAIN b.orders : i < lo)
      /\ Alike(c, d, DOMAIN c.orders)
  BY DEF Grown
<1>2. /\ \A i \in lo .. m : c.orders[i].side = s /\ c.orders[i].price = p /\ c.orders[i].amount > 0
      /\ \A i \in n .. n : d.orders[i].side = s /\ d.orders[i].price = p /\ d.orders[i].amount > 0
  BY DEF Grown
<1>3. DOMAIN d.orders = DOMAIN b.orders \cup lo .. n /\ n \in Nat /\ lo <= n
  BY <1>1
<1>4. Alike(b, d, DOMAIN b.orders)
  BY <1>1 DEF Alike
<1>5. \A i \in lo .. n : i \in lo .. m \/ i \in n .. n
  BY <1>1
<1>6. \A i \in lo .. m : /\ d.orders[i].side = c.orders[i].side /\ d.orders[i].price = c.orders[i].price
                         /\ d.orders[i].amount = c.orders[i].amount
  BY <1>1 DEF Alike
<1>7. \A i \in lo .. n : d.orders[i].side = s /\ d.orders[i].price = p /\ d.orders[i].amount > 0
  BY <1>2, <1>5, <1>6
<1> QED BY <1>1, <1>3, <1>4, <1>7 DEF Grown

-----------------------------------------------------------------------------
(* The refinement                                                           *)

LEMMA KeptReadable ==
    ASSUME NEW b, NEW n \in Nat, Kept(b, n)
    PROVE  Readable(b)
BY OrdersFinite DEF Kept, Readable

LEMMA RestedGrows ==
    ASSUME NEW b, NEW n \in Nat, Kept(b, n), NEW id \in Nat, id > n, NEW o, Fresh(o)
    PROVE  Grown(b, RestOrder(b, id, o), o.side, o.price, id, id)
<1> DEFINE c == RestOrder(b, id, o)
<1>1. Storable(b, id, o) /\ \A j \in DOMAIN b.orders : j < id
  <2>1. id \in Nat \ {0} /\ \A j \in DOMAIN b.orders : j < id
    BY DEF Kept
  <2> QED BY <2>1 DEF Storable, Kept, Fresh
<1>2. RestedOrders(b, id, o, c)
  BY <1>1, OrderRested
<1> HIDE DEF c
<1>3. DOMAIN c.orders = DOMAIN b.orders \cup {id} /\ SameEntry(c.orders[id], o)
      /\ \A j \in DOMAIN b.orders : SameEntry(c.orders[j], b.orders[j])
  BY <1>2 DEF RestedOrders
<1>4. Alike(b, c, DOMAIN b.orders)
  BY <1>3 DEF Alike, SameEntry
<1>5. \A i \in id .. id : i = id
  OBVIOUS
<1>6. {id} = id .. id /\ id <= id
  OBVIOUS
<1>7. o.side \in Sides /\ o.price \in Nat /\ o.amount > 0
  BY PricesAreNumbers DEF Fresh, OrderSet
<1>8. \A i \in id .. id : c.orders[i].side = o.side /\ c.orders[i].price = o.price /\ c.orders[i].amount > 0
  BY <1>3, <1>5, <1>7 DEF SameEntry
<1> QED BY <1>1, <1>3, <1>4, <1>6, <1>7, <1>8 DEF Grown, c

\* The orders of an issue are new in the book, one after the other.
LEMMA OfferedGrows ==
    ASSUME NEW b, NEW n \in Nat, Kept(b, n), NEW c \in Issuances, c.count # 0
    PROVE  Grown(b, Offered(b, n, c), "sell", c.price, n + 1, n + c.count)
<1> DEFINE o == NewOrder("sell", c.investor, c.price, 1, FALSE)
           lo == n + 1
<1>1. c.count \in Nat /\ c.investor \in Investors /\ c.price \in Prices /\ lo \in Nat
  BY OrderBookAssumption
<1>2. Fresh(o) /\ o.side = "sell" /\ o.price = c.price
  <2>1. "sell" \in Sides /\ 1 \in Nat \ {0} /\ FALSE \in BOOLEAN
    BY DEF Sides
  <2> QED BY <1>1, <2>1, NewOrderFresh DEF NewOrder
<1>3. PICK r : Offers(b, n, c, r) /\ Offered(b, n, c) = r[c.count]
  BY <1>1, OffersExist, OfferedLast
<1>4. \A k \in 0 .. c.count : r[k] = IF k = 0 THEN b ELSE RestOrder(r[k - 1], n + k, o)
  BY <1>3 DEF Offers
<1> HIDE DEF o
<1> DEFINE More(k) == Kept(r[k], n + k) /\ (k # 0 => Grown(b, r[k], "sell", c.price, lo, n + k))
           F == {k \in 0 .. c.count : ~More(k)}
<1>5. F = {}
  <2> SUFFICES ASSUME F # {} PROVE FALSE
    OBVIOUS
  <2>1. PICK m \in F : \A j \in F : m <= j
    <3>1. F \subseteq 0 .. c.count
      OBVIOUS
    <3> HIDE DEF F
    <3> QED BY <1>1, <3>1, FirstFailure
  <2>2. m # 0
    <3>1. More(0)
      BY <1>1, <1>4
    <3> QED BY <2>1, <3>1
  <2>3. m - 1 \in 0 .. c.count /\ More(m - 1) /\ m \in Nat
    BY <1>1, <2>1, <2>2
  <2> DEFINE a == n + (m - 1)
             d == n + m
             s == r[m - 1]
             t == r[m]
  <2>4. a \in Nat /\ d \in Nat /\ d > a /\ d = a + 1 /\ Kept(s, a) /\ t = RestOrder(s, d, o)
    BY <1>4, <2>1, <2>2, <2>3
  <2>5. m - 1 = 0 => s = b /\ d = lo
    BY <1>4, <2>3
  <2>6. m - 1 # 0 => Grown(b, s, "sell", c.price, lo, a)
    BY <2>3
  <2> HIDE DEF a, d, s, t, lo
  <2>7. Kept(t, d) /\ Grown(s, t, "sell", c.price, d, d)
    BY <1>2, <2>4, KeptRested, RestedGrows
  <2>8. Grown(b, t, "sell", c.price, lo, d)
    <3>1. CASE m - 1 = 0
      BY <2>5, <2>7, <3>1
    <3>2. CASE m - 1 # 0
      BY <2>4, <2>6, <2>7, <3>2, GrownMore
    <3> QED BY <3>1, <3>2
  <2>9. More(m)
    BY <2>7, <2>8 DEF t, d
  <2> QED BY <2>1, <2>9
<1>6. c.count \in 0 .. c.count
  BY <1>1
<1>7. More(c.count)
  BY <1>5, <1>6
<1> QED BY <1>3, <1>7

LEMMA RemovedGone ==
    ASSUME NEW b, NEW id, Present(b, id), NEW c, Removed(b, id, c)
    PROVE  Gone(b, c, id)
<1>1. DOMAIN c.orders = DOMAIN b.orders \ {id} /\ \A j \in DOMAIN b.orders \ {id} : SameEntry(c.orders[j], b.orders[j])
  BY Zenon DEF Removed, TakenOrders
<1>2. Alike(b, c, DOMAIN c.orders)
  BY <1>1 DEF Alike, SameEntry
<1>3. b.orders[id].side \in Sides
  BY OrderPresent
<1> QED BY <1>1, <1>2, <1>3 DEF Gone, Present

LEMMA FilledShows ==
    ASSUME NEW b, NEW id, Present(b, id), NEW v \in Nat, v <= b.orders[id].amount, v > 0
    PROVE  \/ Gone(b, FillOrder(b, id, v), id)
           \/ Lessened(b, FillOrder(b, id, v), id, b.orders[id].amount - v)
<1> DEFINE c == FillOrder(b, id, v)
<1>1. Filled(b, id, v, c)
  BY OrderFilled
<1>2. b.orders[id].amount \in Nat /\ b.orders[id].side \in Sides /\ id \in DOMAIN b.orders
  BY OrderPresent DEF OrderSet, Present
<1> HIDE DEF c
<1>3. ASSUME NEW less, Less(b, id, v, less)
      PROVE  /\ Present(less, id) /\ DOMAIN less.orders = DOMAIN b.orders
             /\ Alike(b, less, DOMAIN b.orders \ {id})
             /\ less.orders[id].side = b.orders[id].side /\ less.orders[id].price = b.orders[id].price
             /\ less.orders[id].amount = b.orders[id].amount - v
  <2>1. BookInv(less) /\ DOMAIN less.orders = DOMAIN b.orders
    BY <1>3, Zenon DEF Less
  <2>2. \A j \in DOMAIN b.orders :
          /\ less.orders[j].side = b.orders[j].side /\ less.orders[j].price = b.orders[j].price
          /\ less.orders[j].amount = IF j = id THEN b.orders[id].amount - v ELSE b.orders[j].amount
    BY <1>3 DEF Less
  <2>3. Alike(b, less, DOMAIN b.orders \ {id})
    BY <2>1, <2>2 DEF Alike
  <2> QED BY <1>2, <2>1, <2>2, <2>3 DEF Present
<1>4. CASE v = b.orders[id].amount
  <2>1. PICK less : Less(b, id, v, less) /\ Removed(less, id, c)
    BY <1>1, <1>4 DEF Filled
  <2>2. Gone(less, c, id)
    BY <1>3, <2>1, RemovedGone
  <2>3. DOMAIN c.orders = DOMAIN b.orders \ {id} /\ Alike(less, c, DOMAIN c.orders) /\ Alike(b, less, DOMAIN b.orders \ {id})
    BY <1>3, <2>1, <2>2 DEF Gone
  <2>4. Alike(b, c, DOMAIN c.orders)
    BY <2>3 DEF Alike
  <2>5. Gone(b, c, id)
    BY <1>2, <2>3, <2>4 DEF Gone
  <2> QED BY <2>5 DEF c
<1>5. CASE v # b.orders[id].amount
  <2>1. Less(b, id, v, c)
    BY <1>1, <1>5 DEF Filled
  <2>2. b.orders[id].amount - v \in 1 .. b.orders[id].amount - 1
    BY <1>2, <1>5
  <2>3. Lessened(b, c, id, b.orders[id].amount - v)
    BY <1>2, <1>3, <2>1, <2>2 DEF Lessened
  <2> QED BY <2>3 DEF c
<1> QED BY <1>4, <1>5

\* The order that trades is at the best price of its side.
LEMMA MakerIsBest ==
    ASSUME OBInv, WalkInv, AtMaker
    PROVE  Maker.side \in Sides /\ Maker.price = book.best[Maker.side]
<1>1. /\ taker \in TakerSet /\ taker.phase = "level" /\ taker.at \in DOMAIN book.orders
      /\ Maker.side = Opposite(taker.side) /\ Maker.price = taker.level
  BY MakerIs
<1>2. taker.at \in Facing
  BY <1>1 DEF Facing, OrdersAt, Maker
<1>3. taker.level = Best
  BY <1>1, <1>2 DEF WalkInv
<1> QED BY <1>1, <1>3, Order DEF Best, TakerSet

LEMMA MatchShifts ==
    ASSUME OBInv, OBInv', WalkInv, Match PROVE Shifts(book, book')
<1> DEFINE v == Lower(taker.amount, Maker.amount)
           c == FillOrder(book, taker.at, v)
           id == taker.at
<1>1. AtMaker /\ book' = c
  BY DEF Match
<1>2. Present(book, id) /\ Maker = book.orders[id] /\ Maker.amount > 0 /\ taker.amount > 0
  BY <1>1, MakerIs DEF Maker, AtMaker
<1>3. v \in Nat /\ v <= Maker.amount /\ taker.amount \in Nat /\ Maker.amount \in Nat
  BY <1>1, TradeTyped
<1>4. v > 0
  BY <1>2, <1>3 DEF Lower
<1>5. Readable(book) /\ Readable(c)
  BY <1>1, KeptReadable DEF OBInv, CountersTyped
<1> HIDE DEF v
<1>6. Gone(book, c, id) \/ Lessened(book, c, id, Maker.amount - v)
  BY <1>2, <1>3, <1>4, FilledShows
<1> HIDE DEF c, id
<1>7. CASE Gone(book, c, id)
  BY <1>1, <1>5, <1>7, GoneShifts
<1>8. CASE Lessened(book, c, id, Maker.amount - v)
  <2>1. book.orders[id].price = book.best[book.orders[id].side]
    BY <1>1, <1>2, MakerIsBest
  <2>2. Shifts(book, c)
    BY <1>5, <1>8, <2>1, LessShifts
  <2> QED BY <1>1, <2>2
<1> QED BY <1>6, <1>7, <1>8

LEMMA EvictMakerShifts ==
    ASSUME OBInv, OBInv', EvictMaker PROVE Shifts(book, book')
<1>1. AtMaker /\ book' = RemoveOrder(book, taker.at)
  BY DEF EvictMaker, Failing
<1>2. Present(book, taker.at)
  BY <1>1, MakerIs
<1>3. Gone(book, book', taker.at)
  BY <1>1, <1>2, OrderRemoved, RemovedGone
<1>4. Readable(book) /\ Readable(book')
  BY KeptReadable DEF OBInv, CountersTyped
<1> QED BY <1>3, <1>4, GoneShifts

LEMMA RevokeShifts ==
    ASSUME OBInv, OBInv', NEW id \in DOMAIN book.orders, Revoke(id) PROVE Shifts(book, book')
<1>1. book' = RemoveOrder(book, id) /\ Present(book, id)
  BY DEF Revoke, Present, OBInv, Kept
<1>2. Gone(book, book', id)
  BY <1>1, OrderRemoved, RemovedGone
<1>3. Readable(book) /\ Readable(book')
  BY KeptReadable DEF OBInv, CountersTyped
<1> QED BY <1>2, <1>3, GoneShifts

LEMMA FinishShifts ==
    ASSUME OBInv, OBInv', Finish PROVE book' = book \/ Shifts(book, book')
<1>1. taker \in TakerSet /\ taker.id = nonce /\ nonce \notin DOMAIN book.orders /\ nonce # 0
  BY TakerIs DEF Finish
<1>2. CASE taker.amount = 0
  BY <1>2 DEF Finish
<1>3. CASE taker.amount # 0
  <2> DEFINE o == NewOrder(taker.side, taker.investor, taker.price, taker.amount, TRUE)
  <2>1. book' = RestOrder(book, taker.id, o)
    BY <1>3 DEF Finish
  <2>2. taker.side \in Sides /\ taker.investor \in Investors /\ taker.price \in Prices /\ taker.amount \in Nat \ {0}
    BY <1>1, <1>3 DEF TakerSet
  <2>3. Fresh(o)
    BY <2>2, NewOrderFresh
  <2> HIDE DEF o
  <2>4. nonce \in Nat /\ nonce - 1 \in Nat /\ nonce > nonce - 1 /\ Kept(book, nonce - 1)
    BY <1>1, KeptBefore DEF OBInv, CountersTyped
  <2>5. Grown(book, RestOrder(book, nonce, o), o.side, o.price, nonce, nonce)
    BY <2>3, <2>4, RestedGrows
  <2>6. Readable(book) /\ Readable(book')
    BY KeptReadable DEF OBInv, CountersTyped
  <2> QED BY <1>1, <2>1, <2>5, <2>6, GrownShifts
<1> QED BY <1>2, <1>3

LEMMA InitializeShifts ==
    ASSUME OBInv, OBInv', NEW c \in Issuances, InitializeSellOrders(c)
    PROVE  book' = book \/ Shifts(book, book')
<1>1. nonce \in Nat /\ c.count \in Nat /\ Kept(book, nonce) /\ book' = Offered(book, nonce, c)
  BY OrderBookAssumption DEF OBInv, CountersTyped, InitializeSellOrders
<1>2. CASE c.count = 0
  <2>1. PICK r : Offers(book, nonce, c, r) /\ Offered(book, nonce, c) = r[c.count]
    BY <1>1, OffersExist, OfferedLast
  <2>2. \A k \in 0 .. c.count :
          r[k] = IF k = 0 THEN book
                 ELSE RestOrder(r[k - 1], nonce + k, NewOrder("sell", c.investor, c.price, 1, FALSE))
    BY <2>1 DEF Offers
  <2>3. r[c.count] = book
    BY <1>1, <1>2, <2>2
  <2> QED BY <1>1, <2>1, <2>3
<1>3. CASE c.count # 0
  <2>1. Grown(book, book', "sell", c.price, nonce + 1, nonce + c.count)
    BY <1>1, <1>3, OfferedGrows
  <2>2. Readable(book) /\ Readable(book')
    BY KeptReadable DEF OBInv, CountersTyped
  <2> QED BY <2>1, <2>2, GrownShifts
<1> QED BY <1>2, <1>3

\* A step leaves the book, or shifts one of its queues.
LEMMA BookShifts ==
    ASSUME OBInv, OBInv', WalkInv, [Next]_vars PROVE book' = book \/ Shifts(book, book')
<1>1. ASSUME NEW r \in Requests, Submit(r) PROVE book' = book
  BY <1>1 DEF Submit
<1>2. CASE EnterLevel \/ DropTaker \/ PassMaker \/ LeaveLevel \/ Edit \/ UNCHANGED vars
  BY <1>2 DEF EnterLevel, DropTaker, PassMaker, LeaveLevel, Edit, vars
<1>3. CASE Match
  BY <1>3, MatchShifts
<1>4. CASE EvictMaker
  BY <1>4, EvictMakerShifts
<1>5. CASE Finish
  BY <1>5, FinishShifts
<1>6. ASSUME NEW c \in Issuances, InitializeSellOrders(c) PROVE book' = book \/ Shifts(book, book')
  BY <1>6, InitializeShifts
<1>7. ASSUME NEW id \in DOMAIN book.orders, Revoke(id) PROVE Shifts(book, book')
  BY <1>7, RevokeShifts
<1> QED BY <1>1, <1>2, <1>3, <1>4, <1>5, <1>6, <1>7 DEF Next, Matching, MatchTurn

\* The queues of b, as OrderBookSafety shows them
QueuesOf(b) == [buy |-> Seen(b, "buy"), sell |-> Seen(b, "sell")]

LEMMA EntriesSeen ==
    ASSUME NEW b, Readable(b), NEW s \in Sides, NEW q, q = FetchOrders(b, s)
    PROVE  [k \in DOMAIN q |-> [id |-> q[k], price |-> b.orders[q[k]].price, amount |-> b.orders[q[k]].amount]]
             = Seen(b, s)
<1>1. Lists(b, s, q)
  BY SideListed
<1>2. \A k \in DOMAIN q : q[k] \in DOMAIN b.orders
  BY <1>1 DEF Lists, OrdersOf
<1> QED BY <1>2 DEF Seen, Shown, EntryOf

LEMMA QueueSeen ==
    ASSUME Readable(book) PROVE Queue = QueuesOf(book)
<1>1. ASSUME NEW s \in Sides PROVE Entries(s) = Seen(book, s)
  BY EntriesSeen DEF Entries, Entry
<1> QED BY <1>1 DEF Queue, QueuesOf, Sides

LEMMA QueueSeenNext ==
    ASSUME Readable(book') PROVE Queue' = QueuesOf(book')
<1>1. ASSUME NEW s \in Sides PROVE Entries(s)' = Seen(book', s)
  BY EntriesSeen DEF Entries, Entry
<1> QED BY <1>1 DEF Queue, QueuesOf, Sides

LEMMA QueueInit == Init => Abstract!Init
<1> SUFFICES ASSUME Init PROVE Abstract!Init
  OBVIOUS
<1>1. Readable(book) /\ book = EmptyBook
  BY OBInit, KeptReadable DEF OBInv, CountersTyped, Init
<1>2. DOMAIN book.orders = {}
  BY <1>1 DEF EmptyBook
<1>3. ASSUME NEW s \in Sides PROVE Seen(book, s) = <<>>
  <2>1. OrdersOf(book, s) = {}
    BY <1>2 DEF OrdersOf
  <2>2. <<>> \in Seq({}) /\ Len(<<>>) = 0 /\ 1 .. 0 = {}
    OBVIOUS
  <2>3. Ranked(s, PriceOf(book), OrdersOf(book, s), <<>>)
    BY <2>1, <2>2 DEF Ranked
  <2>4. FetchOrders(book, s) = <<>>
    BY <1>1, <2>3, ListedOnce
  <2>5. Shown(EntryOf(book), <<>>) = <<>>
    BY DEF Shown
  <2> QED BY <2>4, <2>5 DEF Seen
<1>4. Queue = QueuesOf(book)
  BY <1>1, QueueSeen
<1>5. Queue = [s \in Sides |-> <<>>]
  BY <1>3, <1>4 DEF QueuesOf, Sides
<1> QED BY <1>5 DEF Abstract!Init

LEMMA QueueStep ==
    ASSUME OBInv, OBInv', WalkInv, [Next]_vars PROVE [Abstract!Next]_Queue
<1>1. Readable(book) /\ Readable(book')
  BY KeptReadable DEF OBInv, CountersTyped
<1>2. Queue = QueuesOf(book) /\ Queue' = QueuesOf(book')
  BY <1>1, QueueSeen, QueueSeenNext
<1>3. book' = book \/ Shifts(book, book')
  BY BookShifts
<1>4. \A b : QueuesOf(b)["buy"] = Seen(b, "buy") /\ QueuesOf(b)["sell"] = Seen(b, "sell")
  BY DEF QueuesOf
<1>5. \A b, s : s \in Sides => QueuesOf(b)[s] = Seen(b, s)
  BY <1>4 DEF Sides
<1>6. CASE book' = book
  BY <1>2, <1>6
<1>7. CASE Shifts(book, book')
  <2>1. PICK s \in Sides :
          /\ Seen(book', s) # Seen(book, s)
          /\ \A t \in Sides \ {s} : Seen(book', t) = Seen(book, t)
          /\ \/ Abstract!Rest(s, Seen(book, s), Seen(book', s))
             \/ Abstract!Trade(Seen(book, s), Seen(book', s))
             \/ Abstract!Withdraw(Seen(book, s), Seen(book', s))
    BY <1>7 DEF Shifts
  <2>2. /\ Queue'[s] # Queue[s]
        /\ \A t \in Sides \ {s} : Queue'[t] = Queue[t]
        /\ \/ Abstract!Rest(s, Queue[s], Queue'[s])
           \/ Abstract!Trade(Queue[s], Queue'[s])
           \/ Abstract!Withdraw(Queue[s], Queue'[s])
    BY <1>2, <1>5, <2>1
  <2>3. Abstract!Next
    BY <2>2, Zenon DEF Abstract!Next
  <2> QED BY <2>3
<1> QED BY <1>3, <1>6, <1>7

\* Read through its links the book is a queue in price and time order: what rests goes behind
\* every order as good as it is, trades take from the best price only, and no other order
\* changes or moves.
THEOREM QueueTheorem == Spec => ImplementsBook
<1>1. OBInv /\ OBInv' /\ WalkInv /\ [Next]_vars => [Abstract!Next]_Queue
  BY QueueStep
<1> QED BY <1>1, OBAlways, WalkAlways, QueueInit, PTL DEF Spec, ImplementsBook, Abstract!Spec
=============================================================================
