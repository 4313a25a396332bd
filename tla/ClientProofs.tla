---------------------------- MODULE ClientProofs ----------------------------
(***************************************************************************)
(* Whatever the scenarios and bounds of Client: a page at rest shows the   *)
(* truth.  A call changes some fields of the contracts, a request one call *)
(* at most, and what it changes of what a page reads is announced to that  *)
(* page, but for the reserves of the banks; what the page has read, is     *)
(* reading or shows then holds, or it reads again.  And the same of the    *)
(* page by itself (LiveView), however many contents there are.             *)
(***************************************************************************)
EXTENDS ClientSafety, FiniteSetTheorems, SequenceTheorems, TLAPS

CONSTANT Answers    \* what the server of a page by itself may have to answer
VARIABLE answered   \* what it answers now

Page == INSTANCE LiveView WITH content <- answered, Contents <- Answers
-----------------------------------------------------------------------------
(* What a call changes of the contracts                                     *)

MarketFields == {"time", "created", "active", "offering", "matured", "issued", "due", "units",
                 "auctions", "cash", "listed", "tbds", "registry"}

LEMMA NoMarketFields == DOMAIN NoMarket = MarketFields
BY DEF NoMarket, MarketFields

\* The states w and e of the contracts agree but for the fields F.
Changes(w, e, F) == DOMAIN e = MarketFields /\ \A f \in MarketFields \ F : e[f] = w[f]

LEMMA ChangesTwice ==
    ASSUME NEW w, NEW u, NEW e, NEW F, NEW G, Changes(w, u, F), Changes(u, e, G)
    PROVE  Changes(w, e, F \cup G)
BY DEF Changes

LEMMA ChangesMore ==
    ASSUME NEW w, NEW e, NEW F, NEW G, Changes(w, e, F), F \subseteq G
    PROVE  Changes(w, e, G)
BY DEF Changes

LEMMA OneChange ==
    ASSUME NEW w, DOMAIN w = MarketFields, NEW x
    PROVE  /\ Changes(w, [w EXCEPT !.created = x], {"created"}) /\ Changes(w, [w EXCEPT !.active = x], {"active"})
           /\ Changes(w, [w EXCEPT !.offering = x], {"offering"}) /\ Changes(w, [w EXCEPT !.issued = x], {"issued"})
           /\ Changes(w, [w EXCEPT !.cash = x], {"cash"}) /\ Changes(w, [w EXCEPT !.listed = x], {"listed"})
           /\ Changes(w, [w EXCEPT !.auctions = x], {"auctions"}) /\ Changes(w, [w EXCEPT !.tbds = x], {"tbds"})
           /\ Changes(w, [w EXCEPT !.registry = x], {"registry"}) /\ Changes(w, [w EXCEPT !.time = x], {"time"})
BY DEF Changes, MarketFields

LEMMA StatusChanges ==
    ASSUME NEW w, DOMAIN w = MarketFields, NEW status
    PROVE  Changes(w, WithLatest(w, status), {"auctions"})
<1> DEFINE x == [w.auctions EXCEPT ![Len(w.auctions)].status = status]
           e == WithLatest(w, status)
<1>1. e = [w EXCEPT !.auctions = x]
  BY DEF WithLatest
<1> HIDE DEF x, e
<1>2. Changes(w, [w EXCEPT !.auctions = x], {"auctions"})
  BY OneChange
<1>3. Changes(w, e, {"auctions"})
  BY <1>1, <1>2
<1> QED BY <1>3 DEF e

LEMMA BondChanges ==
    ASSUME NEW w, DOMAIN w = MarketFields
    PROVE  Changes(w, DeployBond(w), {"created", "active"}) /\ Changes(w, DisableBond(w), {"active", "offering"})
BY DEF DeployBond, DisableBond, Changes, MarketFields

\* What a new auction adds
NewAuction(c) ==
    [type |-> c.type, status |-> "BIDDING", end |-> c.end,
     size |-> c.size, key |-> c.key, bids |-> <<>>, allocations |-> <<>>]

LEMMA DeployChanges ==
    ASSUME NEW w, DOMAIN w = MarketFields, NEW c
    PROVE  /\ Changes(w, DeployAuction(w, c), {"created", "active", "offering", "auctions"})
           /\ DeployAuction(w, c).auctions = Append(w.auctions, NewAuction(c))
<1> DEFINE w1 == IF c.fresh THEN DeployBond(w) ELSE w
           offering == IF c.type = "BUYBACK" THEN w1.offering ELSE w1.offering + c.size
           auctions == Append(w1.auctions, NewAuction(c))
           d == DeployAuction(w, c)
<1>1. Changes(w, w1, {"created", "active"})
  BY BondChanges DEF Changes
<1>2. d = [w1 EXCEPT !.offering = offering, !.auctions = auctions]
  <2> DEFINE a1 == [w1 EXCEPT !.offering = IF c.type = "BUYBACK" THEN @ ELSE @ + c.size,
                   !.auctions = Append(@, [type |-> c.type, status |-> "BIDDING", end |-> c.end,
                                           size |-> c.size, key |-> c.key, bids |-> <<>>, allocations |-> <<>>])]
  <2>1. d = a1
    BY Zenon DEF DeployAuction
  <2> HIDE DEF w1, d
  <2>2. a1 = [w1 EXCEPT !.offering = offering, !.auctions = auctions]
    BY <1>1 DEF Changes, MarketFields, NewAuction
  <2> QED BY <2>1, <2>2
<1>3. w1.auctions = w.auctions
  BY <1>1 DEF Changes, MarketFields
<1> HIDE DEF w1, offering, d
<1>4. auctions = Append(w.auctions, NewAuction(c))
  BY <1>3
<1> HIDE DEF auctions
<1>5. Changes(w1, d, {"offering", "auctions"}) /\ d.auctions = auctions
  BY <1>1, <1>2 DEF Changes, MarketFields
<1>6. Changes(w, d, {"created", "active"} \cup {"offering", "auctions"})
  BY <1>1, <1>5, ChangesTwice
<1>7. Changes(w, d, {"created", "active", "offering", "auctions"})
  BY <1>6, ChangesMore
<1> QED BY <1>4, <1>5, <1>7 DEF d

LEMMA FinaliseChanges ==
    ASSUME NEW w, DOMAIN w = MarketFields, NEW c, NEW t
    PROVE  /\ Changes(w, Finalise(w, c, t), {"auctions", "units", "issued", "due", "cash"})
           /\ c.type # "BUYBACK" => Finalise(w, c, t).issued
           /\ c.type = "BUYBACK" => Finalise(w, c, t).issued = w.issued
           /\ Finalise(w, c, t).auctions =
                WithLatest([w EXCEPT !.auctions[Len(w.auctions)].allocations = c.allocations], "FINALISED").auctions
<1> DEFINE total  == Allocated(c)
           there  == [w EXCEPT !.auctions[Len(w.auctions)].allocations = c.allocations]
           w0     == there
           w1     == WithLatest(w0, "FINALISED")
           minted == [w1 EXCEPT !.units[Manager] = @ + total, !.issued = TRUE,
                                !.due = IF c.type = "RATE" THEN t + 1 ELSE @]
           bought == FoldLeft(SettleBuyback, w1, c.allocations)
           sold   == FoldLeft(SettleIssuance, minted, c.allocations)
           f      == Finalise(w, c, t)
<1>1. f = IF c.type = "BUYBACK" THEN Settled(w1, bought) ELSE Settled(minted, sold)
  BY Zenon DEF Finalise
<1>2. Changes(w, w0, {"auctions"})
  BY DEF Changes, MarketFields
<1>a. w1 = WithLatest(there, "FINALISED")
  OBVIOUS
<1> HIDE DEF total, w0, bought, sold, f, there
<1>3. Changes(w, w1, {"auctions"})
  <2>1. Changes(w0, w1, {"auctions"})
    BY <1>2, StatusChanges DEF Changes
  <2> QED BY <1>2, <2>1 DEF Changes
<1> HIDE DEF w1
<1>4. Changes(w1, minted, {"units", "issued", "due"}) /\ minted.issued
  BY <1>3 DEF Changes, MarketFields
<1> HIDE DEF minted
<1>5. Changes(w1, Settled(w1, bought), {"units", "cash"}) /\ Changes(minted, Settled(minted, sold), {"units", "cash"})
  BY <1>3, <1>4 DEF Settled, Changes, MarketFields
<1>6. CASE c.type = "BUYBACK"
  <2>1. Changes(w1, f, {"units", "cash"})
    BY <1>1, <1>5, <1>6
  <2>2. Changes(w, f, {"auctions", "units", "issued", "due", "cash"})
    BY <1>3, <2>1 DEF Changes
  <2>3. f.issued = w.issued /\ f.auctions = w1.auctions
    BY <1>3, <2>1 DEF Changes, MarketFields
  <2> QED BY <1>6, <1>a, <2>2, <2>3 DEF f, there
<1>7. CASE c.type # "BUYBACK"
  <2>1. Changes(minted, f, {"units", "cash"})
    BY <1>1, <1>5, <1>7
  <2>2. Changes(w, f, {"auctions", "units", "issued", "due", "cash"})
    BY <1>3, <1>4, <2>1 DEF Changes
  <2>3. f.issued = minted.issued /\ f.auctions = w1.auctions
    BY <1>4, <2>1 DEF Changes, MarketFields
  <2> QED BY <1>4, <1>7, <1>a, <2>2, <2>3 DEF f, there
<1> QED BY <1>6, <1>7

LEMMA CouponChanges ==
    ASSUME NEW w, DOMAIN w = MarketFields, NEW c
    PROVE  Changes(w, PayCoupon(w, c), {"cash", "units", "matured"})
<1> DEFINE payouts == Payouts(w, c.holders)
           paid    == FoldSet(LAMBDA h, u : Pay(u, Reserve, h, payouts[h]), w, DOMAIN payouts)
           cash    == paid.cash
           units   == [a \in Owners |-> 0]
           e       == PayCoupon(w, c)
<1>1. e = [w EXCEPT !.cash = cash, !.units = units, !.matured = TRUE]
  BY Zenon DEF PayCoupon
<1> HIDE DEF cash, units, e
<1>2. Changes(w, e, {"cash", "units", "matured"})
  BY <1>1 DEF Changes, MarketFields
<1> QED BY <1>2 DEF e

CashMoved(w, c, e)      == e = [w EXCEPT !.cash = Moved(@, c.from, c.to)]
CashListed(w, c, e)     == e = [w EXCEPT !.listed = Listing(@, c)]
DepositMoved(w, c, e)   == e = [w EXCEPT !.tbds[c.tbd].deposit = Moved(@, c.from, c.to)]
DepositListed(w, c, e)  == e = [w EXCEPT !.tbds[c.tbd].listed = Listing(@, c)]
TbdDeployed(w, from, e) == e = [w EXCEPT !.tbds = Append(@, NewTbd(from))]
Registered(w, c, e)     == e = [w EXCEPT !.registry[c.name] = c.tbd]

\* The effect of a call, by its name
LEMMA EffectCases ==
    ASSUME NEW w, NEW from, NEW c, NEW t
    PROVE  /\ c.fn = "deployBond" => Effect(w, from, c, t) = DeployBond(w)
           /\ c.fn = "deployAuction" => Effect(w, from, c, t) = DeployAuction(w, c)
           /\ c.fn = "disableBond" => Effect(w, from, c, t) = DisableBond(w)
           /\ c.fn = "closeAuction" => Effect(w, from, c, t) = WithLatest(w, "CLOSED")
           /\ c.fn = "cancelAuction" => Effect(w, from, c, t) = CancelAuction(w)
           /\ c.fn = "finaliseAuction" => Effect(w, from, c, t) = Finalise(w, c, t)
           /\ c.fn = "payCoupon" => Effect(w, from, c, t) = PayCoupon(w, c)
           /\ c.fn = "submitBid" => Effect(w, from, c, t) = SubmitBid(w, from, c)
           /\ c.fn \in MoneyCalls => CashMoved(w, c, Effect(w, from, c, t))
           /\ c.fn \in {"add", "remove"} => CashListed(w, c, Effect(w, from, c, t))
           /\ c.fn \in DepositMoves => DepositMoved(w, c, Effect(w, from, c, t))
           /\ c.fn \in {"tbdAdd", "tbdRemove"} => DepositListed(w, c, Effect(w, from, c, t))
           /\ c.fn = "deployTbd" => TbdDeployed(w, from, Effect(w, from, c, t))
           /\ c.fn = "setContract" => Registered(w, c, Effect(w, from, c, t))
<1> DEFINE cash    == [w EXCEPT !.cash = Moved(@, c.from, c.to)]
           listed  == [w EXCEPT !.listed = Listing(@, c)]
           deposit == [w EXCEPT !.tbds[c.tbd].deposit = Moved(@, c.from, c.to)]
           listing == [w EXCEPT !.tbds[c.tbd].listed = Listing(@, c)]
           tbds    == [w EXCEPT !.tbds = Append(@, NewTbd(from))]
           named   == [w EXCEPT !.registry[c.name] = c.tbd]
           e       == Effect(w, from, c, t)
<1>1. e = CASE c.fn = "deployBond"   -> DeployBond(w)
            [] c.fn = "deployAuction" -> DeployAuction(w, c)
            [] c.fn = "disableBond"  -> DisableBond(w)
            [] c.fn = "closeAuction" -> WithLatest(w, "CLOSED")
            [] c.fn = "cancelAuction" -> CancelAuction(w)
            [] c.fn = "finaliseAuction" -> Finalise(w, c, t)
            [] c.fn = "payCoupon"    -> PayCoupon(w, c)
            [] c.fn = "submitBid"    -> SubmitBid(w, from, c)
            [] c.fn \in MoneyCalls   -> cash
            [] c.fn \in {"add", "remove"} -> listed
            [] c.fn \in DepositMoves -> deposit
            [] c.fn \in {"tbdAdd", "tbdRemove"} -> listing
            [] c.fn = "deployTbd"    -> tbds
            [] c.fn = "setContract"  -> named
  BY Zenon DEF Effect
<1> HIDE DEF e, cash, listed, deposit, listing, tbds, named
<1>2. /\ c.fn = "deployBond" => e = DeployBond(w)
      /\ c.fn = "deployAuction" => e = DeployAuction(w, c)
      /\ c.fn = "disableBond" => e = DisableBond(w)
      /\ c.fn = "closeAuction" => e = WithLatest(w, "CLOSED")
      /\ c.fn = "cancelAuction" => e = CancelAuction(w)
      /\ c.fn = "finaliseAuction" => e = Finalise(w, c, t)
      /\ c.fn = "payCoupon" => e = PayCoupon(w, c)
      /\ c.fn = "submitBid" => e = SubmitBid(w, from, c)
  BY <1>1 DEF MoneyCalls, DepositMoves
<1>3. /\ c.fn \in MoneyCalls => e = cash
      /\ c.fn \in {"add", "remove"} => e = listed
      /\ c.fn \in DepositMoves => e = deposit
      /\ c.fn \in {"tbdAdd", "tbdRemove"} => e = listing
      /\ c.fn = "deployTbd" => e = tbds
      /\ c.fn = "setContract" => e = named
  BY <1>1 DEF MoneyCalls, DepositMoves
<1>4. /\ c.fn \in MoneyCalls => CashMoved(w, c, e)
      /\ c.fn \in {"add", "remove"} => CashListed(w, c, e)
  BY <1>3, Zenon DEF cash, listed, CashMoved, CashListed
<1>5. /\ c.fn \in DepositMoves => DepositMoved(w, c, e)
      /\ c.fn \in {"tbdAdd", "tbdRemove"} => DepositListed(w, c, e)
  BY <1>3, Zenon DEF deposit, listing, DepositMoved, DepositListed
<1>6. /\ c.fn = "deployTbd" => TbdDeployed(w, from, e)
      /\ c.fn = "setContract" => Registered(w, c, e)
  BY <1>3, Zenon DEF tbds, named, TbdDeployed, Registered
<1> QED BY <1>2, <1>4, <1>5, <1>6 DEF e

\* What each call can change
CalmCalls == {"deployBond", "deployAuction", "disableBond", "closeAuction", "cancelAuction", "submitBid"}

LEMMA CalmChanges ==
    ASSUME NEW w, DOMAIN w = MarketFields, NEW from, NEW c, c.fn \in CalmCalls, NEW t
    PROVE  Changes(w, Effect(w, from, c, t), {"created", "active", "offering", "auctions"})
<1> DEFINE e == Effect(w, from, c, t)
           G == {"created", "active", "offering", "auctions"}
<1>1. CASE c.fn = "deployBond"
  <2>1. Changes(w, DeployBond(w), {"created", "active"})
    BY BondChanges
  <2> QED BY <1>1, <2>1, EffectCases, ChangesMore
<1>2. CASE c.fn = "deployAuction"
  BY <1>2, EffectCases, DeployChanges
<1>3. CASE c.fn = "disableBond"
  <2>1. Changes(w, DisableBond(w), {"active", "offering"})
    BY BondChanges
  <2> QED BY <1>3, <2>1, EffectCases, ChangesMore
<1>4. CASE c.fn = "closeAuction"
  <2>1. Changes(w, WithLatest(w, "CLOSED"), {"auctions"})
    BY StatusChanges
  <2> QED BY <1>4, <2>1, EffectCases, ChangesMore
<1>5. CASE c.fn = "cancelAuction"
  <2> DEFINE x == w.offering - Last(w.auctions).size
             u == [w EXCEPT !.offering = x]
  <2>1. CancelAuction(w) = WithLatest(u, "CANCELLED")
    BY DEF CancelAuction
  <2> HIDE DEF x
  <2>2. Changes(w, u, {"offering"})
    BY OneChange
  <2> HIDE DEF u
  <2>3. Changes(u, WithLatest(u, "CANCELLED"), {"auctions"})
    BY <2>2, StatusChanges DEF Changes
  <2>4. Changes(w, CancelAuction(w), {"offering"} \cup {"auctions"})
    BY <2>1, <2>2, <2>3, ChangesTwice
  <2> QED BY <1>5, <2>4, EffectCases, ChangesMore
<1>6. CASE c.fn = "submitBid"
  <2> DEFINE x == [w.auctions EXCEPT ![c.auction].bids = Append(@, [c.bid EXCEPT !.bidder = from])]
  <2>1. SubmitBid(w, from, c) = [w EXCEPT !.auctions = x]
    BY DEF SubmitBid
  <2> HIDE DEF x
  <2>2. Changes(w, [w EXCEPT !.auctions = x], {"auctions"})
    BY OneChange
  <2> QED BY <1>6, <2>1, <2>2, EffectCases, ChangesMore
<1> QED BY <1>1, <1>2, <1>3, <1>4, <1>5, <1>6 DEF CalmCalls

LEMMA OtherChanges ==
    ASSUME NEW w, DOMAIN w = MarketFields, NEW from, NEW c, NEW t, NEW e, e = Effect(w, from, c, t)
    PROVE  /\ c.fn = "finaliseAuction" => Changes(w, e, {"auctions", "units", "issued", "due", "cash"})
           /\ c.fn = "payCoupon" => Changes(w, e, {"cash", "units", "matured"})
           /\ c.fn \in MoneyCalls => Changes(w, e, {"cash"})
           /\ c.fn \in {"add", "remove"} => Changes(w, e, {"listed"})
           /\ c.fn \in DepositCalls \cup {"deployTbd"} => Changes(w, e, {"tbds"})
<1>1. c.fn = "finaliseAuction" => Changes(w, e, {"auctions", "units", "issued", "due", "cash"})
  <2> SUFFICES ASSUME c.fn = "finaliseAuction" PROVE Changes(w, e, {"auctions", "units", "issued", "due", "cash"})
    OBVIOUS
  <2>1. e = Finalise(w, c, t)
    BY EffectCases
  <2>2. Changes(w, Finalise(w, c, t), {"auctions", "units", "issued", "due", "cash"})
    BY FinaliseChanges
  <2> QED BY <2>1, <2>2
<1>10. c.fn = "payCoupon" => Changes(w, e, {"cash", "units", "matured"})
  BY EffectCases, CouponChanges
<1>2. ASSUME c.fn \in MoneyCalls PROVE Changes(w, e, {"cash"})
  <2> DEFINE x == Moved(w.cash, c.from, c.to)
  <2>1. CashMoved(w, c, e)
    BY <1>2, EffectCases
  <2>2. e = [w EXCEPT !.cash = x]
    BY <2>1 DEF CashMoved
  <2> HIDE DEF x
  <2>3. Changes(w, [w EXCEPT !.cash = x], {"cash"})
    BY OneChange
  <2> QED BY <2>2, <2>3
<1>3. ASSUME c.fn \in {"add", "remove"} PROVE Changes(w, e, {"listed"})
  <2> DEFINE x == Listing(w.listed, c)
  <2>1. CashListed(w, c, e)
    BY <1>3, EffectCases
  <2>2. e = [w EXCEPT !.listed = x]
    BY <2>1 DEF CashListed
  <2> HIDE DEF x
  <2>3. Changes(w, [w EXCEPT !.listed = x], {"listed"})
    BY OneChange
  <2> QED BY <2>2, <2>3
<1>4. ASSUME c.fn \in DepositMoves PROVE Changes(w, e, {"tbds"})
  <2> DEFINE x == [w.tbds EXCEPT ![c.tbd].deposit = Moved(@, c.from, c.to)]
  <2>1. DepositMoved(w, c, e)
    BY <1>4, EffectCases
  <2>2. e = [w EXCEPT !.tbds = x]
    BY <2>1 DEF DepositMoved
  <2> HIDE DEF x
  <2>3. Changes(w, [w EXCEPT !.tbds = x], {"tbds"})
    BY OneChange
  <2> QED BY <2>2, <2>3
<1>5. ASSUME c.fn \in {"tbdAdd", "tbdRemove"} PROVE Changes(w, e, {"tbds"})
  <2> DEFINE x == [w.tbds EXCEPT ![c.tbd].listed = Listing(@, c)]
  <2>1. DepositListed(w, c, e)
    BY <1>5, EffectCases
  <2>2. e = [w EXCEPT !.tbds = x]
    BY <2>1 DEF DepositListed
  <2> HIDE DEF x
  <2>3. Changes(w, [w EXCEPT !.tbds = x], {"tbds"})
    BY OneChange
  <2> QED BY <2>2, <2>3
<1>6. ASSUME c.fn = "deployTbd" PROVE Changes(w, e, {"tbds"})
  <2> DEFINE x == Append(w.tbds, NewTbd(from))
  <2>1. TbdDeployed(w, from, e)
    BY <1>6, EffectCases
  <2>2. e = [w EXCEPT !.tbds = x]
    BY <2>1 DEF TbdDeployed
  <2> HIDE DEF x
  <2>3. Changes(w, [w EXCEPT !.tbds = x], {"tbds"})
    BY OneChange
  <2> QED BY <2>2, <2>3
<1> QED BY <1>1, <1>2, <1>3, <1>4, <1>5, <1>6, <1>10 DEF DepositCalls

\* A sequence is one over its own members.
LEMMA OverItsMembers ==
    ASSUME NEW S, NEW s \in Seq(S)
    PROVE  s \in Seq(Range(s))
<1>1. Len(s) \in Nat /\ s \in [1 .. Len(s) -> S]
  OBVIOUS
<1>2. s \in [1 .. Len(s) -> Range(s)]
  BY <1>1 DEF Range
<1> QED BY <1>1, <1>2, SeqDef

\* A sequence over its own members grows by one member.
LEMMA GrownSeq ==
    ASSUME NEW s, s \in Seq(Range(s)), NEW x
    PROVE  /\ Append(s, x) \in Seq(Range(Append(s, x)))
           /\ Len(Append(s, x)) = Len(s) + 1 /\ Len(s) \in Nat
           /\ DOMAIN s = 1 .. Len(s) /\ DOMAIN Append(s, x) = 1 .. Len(s) + 1
           /\ \A k \in 1 .. Len(s) : Append(s, x)[k] = s[k]
           /\ Append(s, x)[Len(s) + 1] = x
<1> DEFINE S == Range(s) \cup {x}
           t == Append(s, x)
<1>1. s \in Seq(S)
  <2>1. s \in [1 .. Len(s) -> S] /\ Len(s) \in Nat
    BY DEF Range
  <2> QED BY <2>1, SeqDef
<1>2. /\ t \in Seq(S) /\ Len(t) = Len(s) + 1 /\ Len(s) \in Nat
      /\ DOMAIN s = 1 .. Len(s) /\ DOMAIN t = 1 .. Len(s) + 1
      /\ \A k \in 1 .. Len(s) : t[k] = s[k]
      /\ t[Len(s) + 1] = x
  BY <1>1
<1> HIDE DEF S, t
<1>3. t \in Seq(Range(t))
  BY <1>2, OverItsMembers
<1> QED BY <1>2, <1>3 DEF t

\* One member of a sequence is replaced.
LEMMA SeqSet ==
    ASSUME NEW s, s \in Seq(Range(s)), NEW k, NEW y
    PROVE  /\ [s EXCEPT ![k] = y] \in Seq(Range([s EXCEPT ![k] = y]))
           /\ Len([s EXCEPT ![k] = y]) = Len(s)
<1> DEFINE u == [s EXCEPT ![k] = y]
           S == Range(s) \cup {y}
<1>1. Len(s) \in Nat /\ s \in [1 .. Len(s) -> Range(s)]
  OBVIOUS
<1>2. u \in [1 .. Len(s) -> S]
  BY <1>1
<1> HIDE DEF u, S
<1>3. u \in Seq(S)
  BY <1>1, <1>2, SeqDef
<1>4. Len(u) = Len(s)
  BY <1>1, <1>2, <1>3, LenProperties
<1> QED BY <1>3, <1>4, OverItsMembers DEF u

\* When no check fails, none of them did.
LEMMA NoneFailed ==
    ASSUME NEW checks, DOMAIN checks \subseteq 1 .. 6,
           \A k \in DOMAIN checks : checks[k][1] # "none", FirstError(checks) = "none"
    PROVE  \A k \in DOMAIN checks : ~checks[k][2]
<1> DEFINE failed == {k \in DOMAIN checks : checks[k][2]}
           m == Min(failed)
<1>1. FirstError(checks) = IF failed = {} THEN "none" ELSE checks[m][1]
  BY Zenon DEF FirstError
<1>2. failed \in SUBSET (1 .. 6) /\ failed \subseteq DOMAIN checks
  OBVIOUS
<1>3. ASSUME failed = {} PROVE \A k \in DOMAIN checks : ~checks[k][2]
  BY <1>3
<1> HIDE DEF failed
<1>4. failed # {} => m \in failed
  <2> SUFFICES ASSUME failed # {} PROVE m \in failed
    OBVIOUS
  <2>1. \E x \in failed : \A y \in failed : x =< y
    <3>1. CASE 1 \in failed
      BY <1>2, <3>1
    <3>2. CASE 1 \notin failed /\ 2 \in failed
      BY <1>2, <3>2
    <3>3. CASE 1 \notin failed /\ 2 \notin failed /\ 3 \in failed
      BY <1>2, <3>3
    <3>4. CASE 1 \notin failed /\ 2 \notin failed /\ 3 \notin failed /\ 4 \in failed
      BY <1>2, <3>4
    <3>5. CASE 1 \notin failed /\ 2 \notin failed /\ 3 \notin failed /\ 4 \notin failed /\ 5 \in failed
      BY <1>2, <3>5
    <3>6. CASE 1 \notin failed /\ 2 \notin failed /\ 3 \notin failed /\ 4 \notin failed /\ 5 \notin failed
      <4>1. \A x \in failed : x = 6
        BY <1>2, <3>6
      <4> QED BY <4>1
    <3> QED BY <3>1, <3>2, <3>3, <3>4, <3>5, <3>6
  <2> QED BY <2>1, Zenon DEF Min
<1> HIDE DEF m
<1>5. failed = {}
  BY <1>1, <1>2, <1>4
<1> QED BY <1>3, <1>5


\* A buyback is deployed of units there are, a coupon paid that is due.
LEMMA DeployAllowed ==
    ASSUME NEW w, NEW c, NEW t, DeployAuctionError(w, c, t) = "none"
    PROVE  ~(c.type = "BUYBACK" /\ c.size > Supply(w))
<1> DEFINE checks == <<
        <<"IncorrectBondState", InFlight(w)>>,
        <<"BondAlreadyDeployed", c.fresh /\ w.active>>,
        <<"BondDoesNotExist", ~c.fresh /\ ~w.active>>,
        <<"BuybackExceedsSupply", c.type = "BUYBACK" /\ c.size > Supply(w)>>,
        <<"EndNotInFuture", c.end <= t>>,
        <<"AuctionType", (c.type = "RATE") # (w.auctions = <<>>)>> >>
<1>1. FirstError(checks) = "none"
  BY DEF DeployAuctionError
<1>2. DOMAIN checks = 1 .. 6 /\ (\A k \in 1 .. 6 : checks[k][1] # "none")
  OBVIOUS
<1>3. checks[4][2] = (c.type = "BUYBACK" /\ c.size > Supply(w))
  BY Zenon
<1> HIDE DEF checks
<1>4. \A k \in DOMAIN checks : ~checks[k][2]
  BY <1>1, <1>2, NoneFailed
<1>5. ~checks[4][2]
  BY <1>2, <1>4
<1> QED BY <1>3, <1>5, Zenon

LEMMA CouponAllowed ==
    ASSUME NEW w, NEW c, NEW t, PayCouponError(w, c, t) = "none"
    PROVE  w.due # 0
<1> DEFINE holders == c.holders
           payouts == Payouts(w, holders)
           paid    == {h \in DOMAIN payouts : payouts[h] > 0}
           short   == \/ ~(paid \subseteq w.listed)
                      \/ paid # {} /\ Reserve \notin w.listed
                      \/ w.cash[Reserve] < SumFunction(payouts)
           other   == SumFunctionOnSet(w.units, holders) # Supply(w)
           checks  == <<
            <<"NoCoupon", w.due = 0>>,
            <<"AllCouponsPaid", w.matured>>,
            <<"CouponNotReady", t < w.due>>,
            <<"SettlementFailure", short>>,
            <<"CouponPaymentBalanceMismatch", other>> >>
<1>1. FirstError(checks) = "none"
  BY Zenon DEF PayCouponError
<1> HIDE DEF short, other
<1>2. DOMAIN checks = 1 .. 5 /\ (\A k \in 1 .. 5 : checks[k][1] # "none")
  OBVIOUS
<1>3. checks[1][2] = (w.due = 0)
  BY Zenon
<1> HIDE DEF checks
<1>4. \A k \in DOMAIN checks : ~checks[k][2]
  BY <1>1, <1>2, NoneFailed
<1>5. ~checks[1][2]
  BY <1>2, <1>4
<1> QED BY <1>3, <1>5, Zenon

-----------------------------------------------------------------------------
(* What a call leaves of the auctions                                       *)

Typed(s)  == s \in Seq(Range(s)) /\ \A k \in DOMAIN s : "type" \in DOMAIN s[k]
Buying(s) == \E k \in DOMAIN s : s[k].type = "BUYBACK"

\* An auction is replaced by one of its type,
LEMMA AuctionSet ==
    ASSUME NEW s, Typed(s), NEW k, NEW y, k \in DOMAIN s => "type" \in DOMAIN y /\ y.type = s[k].type
    PROVE  Typed([s EXCEPT ![k] = y]) /\ (Buying([s EXCEPT ![k] = y]) => Buying(s))
<1> DEFINE u == [s EXCEPT ![k] = y]
<1>1. u \in Seq(Range(u)) /\ Len(u) = Len(s)
  BY SeqSet DEF Typed
<1>2. DOMAIN u = DOMAIN s /\ (k \in DOMAIN s => u[k] = y) /\ \A x \in DOMAIN s : x # k => u[x] = s[x]
  OBVIOUS
<1> HIDE DEF u
<1>3. \A x \in DOMAIN u : "type" \in DOMAIN u[x] /\ u[x].type = s[x].type
  BY <1>2 DEF Typed
<1>4. Typed(u)
  BY <1>1, <1>3 DEF Typed
<1>5. Buying(u) => Buying(s)
  BY <1>2, <1>3 DEF Buying
<1> QED BY <1>4, <1>5 DEF u

\* in one of its fields,
LEMMA AuctionFieldSet ==
    ASSUME NEW s, Typed(s), NEW k, NEW v
    PROVE  /\ Typed([s EXCEPT ![k].status = v]) /\ (Buying([s EXCEPT ![k].status = v]) => Buying(s))
           /\ Typed([s EXCEPT ![k].bids = v]) /\ (Buying([s EXCEPT ![k].bids = v]) => Buying(s))
           /\ Typed([s EXCEPT ![k].allocations = v]) /\ (Buying([s EXCEPT ![k].allocations = v]) => Buying(s))
<1>1. Typed([s EXCEPT ![k].status = v]) /\ (Buying([s EXCEPT ![k].status = v]) => Buying(s))
  <2> DEFINE y == [s[k] EXCEPT !.status = v]
  <2>1. k \in DOMAIN s => "type" \in DOMAIN y /\ y.type = s[k].type
    BY DEF Typed
  <2> HIDE DEF y
  <2>2. Typed([s EXCEPT ![k] = y]) /\ (Buying([s EXCEPT ![k] = y]) => Buying(s))
    BY <2>1, AuctionSet
  <2> QED BY <2>2 DEF y
<1>2. Typed([s EXCEPT ![k].bids = v]) /\ (Buying([s EXCEPT ![k].bids = v]) => Buying(s))
  <2> DEFINE y == [s[k] EXCEPT !.bids = v]
  <2>1. k \in DOMAIN s => "type" \in DOMAIN y /\ y.type = s[k].type
    BY DEF Typed
  <2> HIDE DEF y
  <2>2. Typed([s EXCEPT ![k] = y]) /\ (Buying([s EXCEPT ![k] = y]) => Buying(s))
    BY <2>1, AuctionSet
  <2> QED BY <2>2 DEF y
<1>3. Typed([s EXCEPT ![k].allocations = v]) /\ (Buying([s EXCEPT ![k].allocations = v]) => Buying(s))
  <2> DEFINE y == [s[k] EXCEPT !.allocations = v]
  <2>1. k \in DOMAIN s => "type" \in DOMAIN y /\ y.type = s[k].type
    BY DEF Typed
  <2> HIDE DEF y
  <2>2. Typed([s EXCEPT ![k] = y]) /\ (Buying([s EXCEPT ![k] = y]) => Buying(s))
    BY <2>1, AuctionSet
  <2> QED BY <2>2 DEF y
<1> QED BY <1>1, <1>2, <1>3

\* or one more added.
LEMMA AuctionAdded ==
    ASSUME NEW s, Typed(s), NEW y, "type" \in DOMAIN y
    PROVE  /\ Typed(Append(s, y))
           /\ Buying(Append(s, y)) => Buying(s) \/ y.type = "BUYBACK"
<1> DEFINE u == Append(s, y)
<1>1. /\ u \in Seq(Range(u)) /\ DOMAIN u = 1 .. Len(s) + 1 /\ u[Len(s) + 1] = y
      /\ Len(s) \in Nat /\ DOMAIN s = 1 .. Len(s) /\ \A k \in 1 .. Len(s) : u[k] = s[k]
  BY GrownSeq DEF Typed
<1> HIDE DEF u
<1>2. \A x \in DOMAIN u : x \in DOMAIN s \/ x = Len(s) + 1
  BY <1>1
<1>3. Typed(u)
  BY <1>1, <1>2 DEF Typed
<1>4. Buying(u) => Buying(s) \/ y.type = "BUYBACK"
  BY <1>1, <1>2 DEF Buying
<1> QED BY <1>3, <1>4 DEF u

LEMMA StatusOnAuctions ==
    ASSUME NEW w, DOMAIN w = MarketFields, Typed(w.auctions), NEW status
    PROVE  /\ Typed(WithLatest(w, status).auctions)
           /\ Buying(WithLatest(w, status).auctions) => Buying(w.auctions)
<1> DEFINE x == [w.auctions EXCEPT ![Len(w.auctions)].status = status]
<1>1. WithLatest(w, status) = [w EXCEPT !.auctions = x]
  BY DEF WithLatest
<1>2. Typed(x) /\ (Buying(x) => Buying(w.auctions))
  BY AuctionFieldSet
<1> HIDE DEF x
<1>3. WithLatest(w, status).auctions = x
  BY <1>1 DEF MarketFields
<1> QED BY <1>2, <1>3

LEMMA FinaliseOnAuctions ==
    ASSUME NEW w, DOMAIN w = MarketFields, Typed(w.auctions), NEW c, NEW t
    PROVE  /\ Typed(Finalise(w, c, t).auctions)
           /\ Buying(Finalise(w, c, t).auctions) => Buying(w.auctions)
<1> DEFINE x == [w.auctions EXCEPT ![Len(w.auctions)].allocations = c.allocations]
           u == [w EXCEPT !.auctions = x]
<1>1. Finalise(w, c, t).auctions = WithLatest([w EXCEPT !.auctions[Len(w.auctions)].allocations = c.allocations], "FINALISED").auctions
  BY FinaliseChanges
<1>2. [w EXCEPT !.auctions[Len(w.auctions)].allocations = c.allocations] = u
  OBVIOUS
<1>3. Typed(x) /\ (Buying(x) => Buying(w.auctions))
  BY AuctionFieldSet
<1> HIDE DEF x
<1>4. u.auctions = x /\ DOMAIN u = MarketFields
  BY DEF MarketFields
<1> HIDE DEF u
<1>5. /\ Typed(WithLatest(u, "FINALISED").auctions)
      /\ Buying(WithLatest(u, "FINALISED").auctions) => Buying(u.auctions)
  BY <1>3, <1>4, StatusOnAuctions
<1> QED BY <1>1, <1>2, <1>3, <1>4, <1>5

\* What a calm call leaves of the auctions
LEMMA CalmOnAuctions ==
    ASSUME NEW w, DOMAIN w = MarketFields, Typed(w.auctions), NEW from, NEW c, c.fn \in CalmCalls, NEW t
    PROVE  /\ Typed(Effect(w, from, c, t).auctions)
           /\ Buying(Effect(w, from, c, t).auctions) =>
                 Buying(w.auctions) \/ (c.fn = "deployAuction" /\ c.type = "BUYBACK")
<1> DEFINE e == Effect(w, from, c, t)
<1>1. CASE c.fn \in {"deployBond", "disableBond"}
  <2>1. /\ Changes(w, DeployBond(w), {"created", "active"})
        /\ Changes(w, DisableBond(w), {"active", "offering"})
    BY BondChanges
  <2>2. DeployBond(w).auctions = w.auctions /\ DisableBond(w).auctions = w.auctions
    BY <2>1 DEF Changes, MarketFields
  <2> QED BY <1>1, <2>2, EffectCases
<1>2. CASE c.fn = "deployAuction"
  <2>1. e.auctions = Append(w.auctions, NewAuction(c))
    BY <1>2, EffectCases, DeployChanges
  <2>2. "type" \in DOMAIN NewAuction(c) /\ NewAuction(c).type = c.type
    BY DEF NewAuction
  <2> QED BY <1>2, <2>1, <2>2, AuctionAdded
<1>3. CASE c.fn = "closeAuction"
  BY <1>3, EffectCases, StatusOnAuctions
<1>4. CASE c.fn = "cancelAuction"
  <2> DEFINE x == w.offering - Last(w.auctions).size
             u == [w EXCEPT !.offering = x]
  <2>1. e = WithLatest(u, "CANCELLED")
    BY <1>4, EffectCases DEF CancelAuction
  <2> HIDE DEF x
  <2>2. u.auctions = w.auctions /\ DOMAIN u = MarketFields
    BY DEF MarketFields
  <2> HIDE DEF u, e
  <2>3. Typed(e.auctions) /\ (Buying(e.auctions) => Buying(w.auctions))
    BY <2>1, <2>2, StatusOnAuctions
  <2> QED BY <2>3 DEF e
<1>5. CASE c.fn = "submitBid"
  <2> DEFINE v == Append(w.auctions[c.auction].bids, [c.bid EXCEPT !.bidder = from])
             x == [w.auctions EXCEPT ![c.auction].bids = v]
  <2>0. e = SubmitBid(w, from, c)
    BY <1>5, EffectCases
  <2>1. e = [w EXCEPT !.auctions = x]
    BY <2>0 DEF SubmitBid
  <2> HIDE DEF v
  <2>2. Typed(x) /\ (Buying(x) => Buying(w.auctions))
    BY AuctionFieldSet
  <2> HIDE DEF x, e
  <2>3. e.auctions = x
    BY <2>1 DEF MarketFields
  <2> QED BY <2>2, <2>3 DEF e
<1> QED BY <1>1, <1>2, <1>3, <1>4, <1>5 DEF CalmCalls


-----------------------------------------------------------------------------
(* A call keeps the states sound                                            *)

Sound(w) == DOMAIN w = MarketFields /\ Typed(w.auctions) /\ IssuedFirst(w)

\* Error of the three calls whose checks matter here
LEMMA ErrorCases ==
    ASSUME NEW w, NEW from, NEW c, NEW t
    PROVE  /\ c.fn = "deployAuction" => Error(w, from, c, t) = DeployAuctionError(w, c, t)
           /\ c.fn = "payCoupon" => Error(w, from, c, t) = PayCouponError(w, c, t)
BY DEF Error, MoneyCalls, DepositCalls, DepositMoves

\* Before an issue only a buyback of nothing could be deployed, and no coupon is due.
LEMMA CalmSound ==
    ASSUME NEW w, Sound(w), NEW from, NEW c, c.fn \in CalmCalls, NEW t, Error(w, from, c, t) = "none",
           c.fn = "deployAuction" => c.size \in Nat \ {0}
    PROVE  Sound(Effect(w, from, c, t)) /\ Effect(w, from, c, t).issued = w.issued
<1> DEFINE e == Effect(w, from, c, t)
<1>1. Changes(w, e, {"created", "active", "offering", "auctions"})
  BY CalmChanges DEF Sound
<1>2. Typed(e.auctions) /\ (Buying(e.auctions) => Buying(w.auctions) \/ (c.fn = "deployAuction" /\ c.type = "BUYBACK"))
  BY CalmOnAuctions DEF Sound
<1>3. c.fn = "deployAuction" /\ c.type = "BUYBACK" => w.issued
  <2> SUFFICES ASSUME c.fn = "deployAuction", c.type = "BUYBACK", ~w.issued PROVE FALSE
    OBVIOUS
  <2>1. DeployAuctionError(w, c, t) = "none"
    BY ErrorCases
  <2>2. ~(c.size > Supply(w))
    BY <2>1, DeployAllowed
  <2>3. Supply(w) = 0
    BY DEF Sound, IssuedFirst
  <2>4. c.size \in Nat /\ c.size # 0
    OBVIOUS
  <2> QED BY <2>2, <2>3, <2>4
<1>4. Buying(w.auctions) => w.issued
  BY DEF Sound, IssuedFirst, Buying
<1> HIDE DEF e
<1>5. e.issued = w.issued /\ e.due = w.due /\ e.units = w.units /\ DOMAIN e = MarketFields
  BY <1>1 DEF Changes, MarketFields
<1>6. Supply(e) = Supply(w)
  BY <1>5 DEF Supply
<1>7. w.issued \/ (Supply(w) = 0 /\ w.due = 0)
  BY DEF Sound, IssuedFirst
<1>8. IssuedFirst(e)
  BY <1>2, <1>3, <1>4, <1>5, <1>6, <1>7 DEF IssuedFirst, Buying
<1> QED BY <1>2, <1>5, <1>8 DEF Sound, e

\* A state that differs from a sound one in money alone is sound.
LEMMA MoneySound ==
    ASSUME NEW w, Sound(w), NEW e, Changes(w, e, {"time", "cash", "listed", "tbds", "registry"})
    PROVE  Sound(e) /\ e.issued = w.issued
<1>1. /\ e.issued = w.issued /\ e.due = w.due /\ e.units = w.units /\ e.auctions = w.auctions
      /\ DOMAIN e = MarketFields
  BY DEF Changes, MarketFields
<1>2. Supply(e) = Supply(w)
  BY <1>1 DEF Supply
<1> QED BY <1>1, <1>2 DEF Sound, IssuedFirst

\* Whatever was issued
LEMMA IssuedSound ==
    ASSUME NEW e, DOMAIN e = MarketFields, Typed(e.auctions), e.issued
    PROVE  Sound(e)
BY DEF Sound, IssuedFirst

LEMMA FinaliseSound ==
    ASSUME NEW w, Sound(w), NEW from, NEW c, c.fn = "finaliseAuction", NEW t, c.type = "BUYBACK" => w.issued
    PROVE  Sound(Effect(w, from, c, t)) /\ Effect(w, from, c, t).issued
<1> DEFINE f == Finalise(w, c, t)
<1>1. Effect(w, from, c, t) = f
  BY EffectCases
<1>2. DOMAIN w = MarketFields /\ Typed(w.auctions)
  BY DEF Sound
<1>3. Typed(f.auctions)
  BY <1>2, FinaliseOnAuctions
<1>4. Changes(w, f, {"auctions", "units", "issued", "due", "cash"})
  BY <1>2, FinaliseChanges
<1>5. (c.type # "BUYBACK" => f.issued) /\ (c.type = "BUYBACK" => f.issued = w.issued)
  BY <1>2, FinaliseChanges
<1> HIDE DEF f
<1>6. f.issued /\ DOMAIN f = MarketFields
  BY <1>4, <1>5 DEF Changes
<1> QED BY <1>1, <1>3, <1>6, IssuedSound

LEMMA CouponSound ==
    ASSUME NEW w, Sound(w), NEW from, NEW c, c.fn = "payCoupon", NEW t, Error(w, from, c, t) = "none"
    PROVE  Sound(Effect(w, from, c, t)) /\ Effect(w, from, c, t).issued
<1> DEFINE e == Effect(w, from, c, t)
<1>1. e = PayCoupon(w, c)
  BY EffectCases
<1>2. Changes(w, e, {"cash", "units", "matured"})
  BY <1>1, CouponChanges DEF Sound
<1>3. w.due # 0
  BY ErrorCases, CouponAllowed
<1>4. w.issued
  BY <1>3 DEF Sound, IssuedFirst
<1> HIDE DEF e
<1>5. e.issued /\ e.auctions = w.auctions /\ DOMAIN e = MarketFields
  BY <1>2, <1>4 DEF Changes, MarketFields
<1> QED BY <1>5, IssuedSound DEF e, Sound

-----------------------------------------------------------------------------
(* What a handler plans                                                     *)

CalmKinds   == {"BOND_CREATE", "BOND_DISABLE", "AUCTION_CREATE", "AUCTION_CANCEL", "AUCTION_CLOSE", "BID_SUBMISSION"}
BidderKinds == {"BIDDER_CREATE", "BIDDER_DELETE"}

LEMMA KindDomains ==
    /\ DOMAIN Wnok = {"WNOK_MINT", "WNOK_BURN", "WNOK_TRANSFER", "WNOK_ALLOWLIST_ADD",
                      "WNOK_ALLOWLIST_REMOVE"}
    /\ DOMAIN TbdCalls = {"TBD_MINT", "TBD_BURN", "TBD_TRANSFER", "TBD_ALLOWLIST_ADD",
                          "TBD_ALLOWLIST_REMOVE"}
BY DEF Wnok, TbdCalls

\* A plan refuses, or sends the call.
Sends(plan, call) == plan.answer = 0 => plan.call = call

LEMMA RefusalSends ==
    ASSUME NEW call
    PROVE  \A code \in {400, 404, 409, 500} : Sends(Refuse(code), call) /\ Sends(FailWith(code), call)
BY DEF Sends, Refuse, FailWith

LEMMA GoSends ==
    ASSUME NEW key, NEW call
    PROVE  Sends(Go(key, call), call)
BY DEF Sends, Go

\* The call of a new auction has its size,
LEMMA CreatePlanned ==
    ASSUME NEW c, NEW op, PlanAuctionCreate(c, op).answer = 0
    PROVE  /\ PlanAuctionCreate(c, op).call.fn = "deployAuction"
           /\ PlanAuctionCreate(c, op).call.size = op.size
<1> DEFINE call == [fn |-> "deployAuction", type |-> op.type, size |-> op.size, end |-> op.end,
                    key |-> c.sealing, fresh |-> op.type = "RATE" /\ ~c.head.active]
           plan == PlanAuctionCreate(c, op)
<1>1. Sends(Go(Admin, call), call)
  BY GoSends
<1>2. plan = Refuse(400) \/ plan = Go(Admin, call)
  BY Zenon DEF PlanAuctionCreate
<1>3. call.fn = "deployAuction" /\ call.size = op.size
  OBVIOUS
<1> HIDE DEF call
<1>4. Sends(plan, call)
  BY <1>1, <1>2, RefusalSends
<1> QED BY <1>3, <1>4 DEF Sends

\* that of a finalisation the type the projection has of the auction.
LEMMA FinalisePlanned ==
    ASSUME NEW c, NEW op, PlanFinalise(c, op).answer = 0
    PROVE  /\ PlanFinalise(c, op).call.fn = "finaliseAuction"
           /\ op.auction \in DOMAIN c.seen.auctions
           /\ PlanFinalise(c, op).call.type = c.seen.auctions[op.auction].type
<1> DEFINE auction == c.seen.auctions[op.auction]
           sealed  == UnsealedBids(Last(c.head.auctions), c.sealing)
           picked  == SelectSeq(sealed, LAMBDA b : b.index \in op.winners)
           result  == ComputeAllocation(picked, auction.type, auction.size)
           call    == [fn |-> "finaliseAuction", auction |-> Len(c.head.auctions),
                       type |-> auction.type, allocations |-> result.allocations]
           plan    == PlanFinalise(c, op)
<1>1. plan =
          IF op.auction \notin DOMAIN c.seen.auctions THEN Refuse(404)
          ELSE IF auction.status # "CLOSED" THEN Refuse(409)
          ELSE IF ~Opens(Last(c.head.auctions), c.sealing) THEN Refuse(500)
          ELSE IF ~(op.winners \subseteq DOMAIN sealed) THEN Refuse(400)
          ELSE IF picked = <<>> THEN Refuse(500)
          ELSE IF result.clearingRate # op.rate THEN Refuse(400)
          ELSE Go(Admin, call)
  BY Zenon DEF PlanFinalise
<1>2. Sends(Go(Admin, call), call)
  BY GoSends
<1>3. call.fn = "finaliseAuction" /\ call.type = c.seen.auctions[op.auction].type
  OBVIOUS
<1> HIDE DEF auction, sealed, picked, result, call, plan
<1>4. plan \in {Refuse(400), Refuse(404), Refuse(409), Refuse(500), Go(Admin, call)}
  BY <1>1
<1>5. Sends(plan, call)
  BY <1>2, <1>4, RefusalSends
<1>6. Refuse(404).answer # 0
  BY DEF Refuse
<1>7. op.auction \in DOMAIN c.seen.auctions
  BY <1>1, <1>6 DEF plan
<1> QED BY <1>3, <1>5, <1>7 DEF Sends, plan

LEMMA TbdPlanned ==
    ASSUME NEW c, NEW op, PlanTbd(c, op).answer = 0
    PROVE  PlanTbd(c, op).call.fn = TbdCalls[op.kind]
<1> DEFINE found == {b \in Roster(c) : c.head.registry[b.name] = op.tbd}
           bank  == CHOOSE b \in found : TRUE
           ends  == Ends(op.kind, bank.key, op.who)
           call  == [fn |-> TbdCalls[op.kind], tbd |-> op.tbd, who |-> op.who,
                     from |-> ends.from, to |-> ends.to]
           plan  == PlanTbd(c, op)
<1>1. plan = IF found = {} THEN FailWith(404) ELSE Go(bank.key, call)
  BY Zenon DEF PlanTbd
<1>2. Sends(Go(bank.key, call), call)
  BY GoSends
<1>3. call.fn = TbdCalls[op.kind]
  OBVIOUS
<1> HIDE DEF found, bank, call, plan
<1>4. Sends(plan, call)
  BY <1>1, <1>2, RefusalSends
<1> QED BY <1>3, <1>4 DEF Sends, plan

LEMMA BidPlanned ==
    ASSUME NEW c, NEW op, PlanBid(c, op).answer = 0
    PROVE  PlanBid(c, op).call.fn = "submitBid"
<1> DEFINE auction == c.head.auctions[op.auction]
           bid  == BuildSealedBid(op.bidder, Isin, op.auction, op.rate, op.units, auction.key)
           call == [fn |-> "submitBid", auction |-> op.auction, bid |-> bid]
           plan == PlanBid(c, op)
<1>1. plan = IF op.bidder \notin c.bidders THEN Refuse(404)
             ELSE IF op.auction \notin DOMAIN c.head.auctions THEN FailWith(404)
             ELSE IF auction.status # "BIDDING" \/ auction.end <= c.clock THEN FailWith(409)
             ELSE Go(op.bidder, call)
  BY Zenon DEF PlanBid
<1> HIDE DEF auction, bid, plan
<1>2. Sends(Go(op.bidder, call), call)
  BY GoSends
<1>3. call.fn = "submitBid"
  OBVIOUS
<1> HIDE DEF call
<1>4. Sends(plan, call)
  BY <1>1, <1>2, RefusalSends
<1> QED BY <1>3, <1>4 DEF Sends, plan

LEMMA CouponPlanned ==
    ASSUME NEW c, NEW op, PlanCoupon(c, op).answer = 0
    PROVE  PlanCoupon(c, op).call.fn = "payCoupon"
<1> DEFINE holders == IF op.holders = {} THEN ActiveHolders(c) ELSE op.holders
           call == [fn |-> "payCoupon", holders |-> holders]
           plan == PlanCoupon(c, op)
<1>1. plan = IF holders = {} /\ (~c.seen.created \/ Supply(c.seen) # 0) THEN Refuse(404) ELSE Go(Admin, call)
  BY Zenon DEF PlanCoupon
<1> HIDE DEF holders, plan
<1>2. Sends(Go(Admin, call), call)
  BY GoSends
<1>3. call.fn = "payCoupon"
  OBVIOUS
<1> HIDE DEF call
<1>4. Sends(plan, call)
  BY <1>1, <1>2, RefusalSends
<1> QED BY <1>3, <1>4 DEF Sends, plan

LEMMA BankPlanned ==
    ASSUME NEW c, NEW op, PlanBankCreate(c, op).answer = 0
    PROVE  PlanBankCreate(c, op).call.fn = "deployTbd"
<1> DEFINE call == [fn |-> "deployTbd"]
           plan == PlanBankCreate(c, op)
<1>1. plan = FailWith(409) \/ plan = Go(op.key, call)
  BY Zenon DEF PlanBankCreate
<1>2. Sends(Go(op.key, call), call) /\ call.fn = "deployTbd"
  BY GoSends
<1> HIDE DEF call
<1>3. Sends(plan, call)
  BY <1>1, <1>2, RefusalSends
<1> QED BY <1>2, <1>3 DEF Sends

LEMMA RoutePlanned ==
    ASSUME NEW c, NEW op, op.kind \in {"AUCTION_CANCEL", "AUCTION_CLOSE"}, PlanOfAuction(c, op).answer = 0
    PROVE  PlanOfAuction(c, op).call.fn \in CalmCalls \ {"deployAuction"}
<1> DEFINE cancel == [fn |-> "cancelAuction"]
           close  == [fn |-> "closeAuction"]
           plan == PlanOfAuction(c, op)
<1>1. plan \in {Refuse(404), Refuse(409), Go(Admin, cancel), Go(Admin, close)}
  BY DEF PlanOfAuction, PlanCancel, PlanClose
<1>2. Refuse(404).answer # 0 /\ Refuse(409).answer # 0
  BY DEF Refuse
<1>3. Go(Admin, cancel).call = cancel /\ Go(Admin, close).call = close
  BY DEF Go
<1>4. cancel.fn \in CalmCalls \ {"deployAuction"} /\ close.fn \in CalmCalls \ {"deployAuction"}
  BY DEF CalmCalls
<1> HIDE DEF cancel, close
<1> QED BY <1>1, <1>2, <1>3, <1>4

\* The call each kind of request makes
LEMMA CallOfKind ==
    ASSUME NEW c, NEW op, op.kind \in Kinds \ BidderKinds, Plan(c, op).answer = 0
    PROVE  /\ op.kind \in CalmKinds => /\ Plan(c, op).call.fn \in CalmCalls
                                       /\ Plan(c, op).call.fn = "deployAuction" =>
                                            op.kind = "AUCTION_CREATE" /\ Plan(c, op).call.size = op.size
           /\ op.kind = "AUCTION_FINALISE" => /\ Plan(c, op).call.fn = "finaliseAuction"
                                              /\ op.auction \in DOMAIN c.seen.auctions
                                              /\ Plan(c, op).call.type = c.seen.auctions[op.auction].type
           /\ op.kind = "COUPON_PAYMENT" => Plan(c, op).call.fn = "payCoupon"
           /\ op.kind \in DOMAIN Wnok => Plan(c, op).call.fn \in MoneyCalls \cup {"add", "remove"}
           /\ op.kind \in DOMAIN TbdCalls => Plan(c, op).call.fn \in DepositCalls
           /\ op.kind = "BANK_CREATE" => Plan(c, op).call.fn = "deployTbd"
<1> USE KindDomains DEF Managed, AuctionRoutes
<1>1. CASE op.kind = "BOND_CREATE"
  <2> DEFINE call == [fn |-> "deployBond"]
  <2>1. Plan(c, op) = Go(Admin, call)
    BY <1>1 DEF Plan
  <2>2. Go(Admin, call).call.fn = "deployBond" /\ "deployBond" \in CalmCalls /\ "deployBond" # "deployAuction"
    BY DEF Go, CalmCalls
  <2> QED BY <1>1, <2>1, <2>2
<1>2. CASE op.kind = "BOND_DISABLE"
  <2> DEFINE call == [fn |-> "disableBond"]
  <2>1. Plan(c, op) = Go(Admin, call)
    BY <1>2 DEF Plan
  <2>2. Go(Admin, call).call.fn = "disableBond" /\ "disableBond" \in CalmCalls /\ "disableBond" # "deployAuction"
    BY DEF Go, CalmCalls
  <2> QED BY <1>2, <2>1, <2>2
<1>3. CASE op.kind = "AUCTION_CREATE"
  <2>1. Plan(c, op) = PlanAuctionCreate(c, op)
    BY <1>3 DEF Plan
  <2>2. "deployAuction" \in CalmCalls
    BY DEF CalmCalls
  <2> QED BY <1>3, <2>1, <2>2, CreatePlanned
<1>4. CASE op.kind \in {"AUCTION_CANCEL", "AUCTION_CLOSE"}
  <2>1. Plan(c, op) = PlanOfAuction(c, op)
    BY <1>4 DEF Plan
  <2> QED BY <1>4, <2>1, RoutePlanned
<1>5. CASE op.kind = "AUCTION_FINALISE"
  <2>1. Plan(c, op) = PlanFinalise(c, op)
    BY <1>5 DEF Plan, PlanOfAuction
  <2> QED BY <1>5, <2>1, FinalisePlanned DEF CalmKinds
<1>6. CASE op.kind = "COUPON_PAYMENT"
  <2>1. Plan(c, op) = PlanCoupon(c, op)
    BY <1>6 DEF Plan
  <2> QED BY <1>6, <2>1, CouponPlanned DEF CalmKinds
<1>7. CASE op.kind = "BID_SUBMISSION"
  <2>1. Plan(c, op) = PlanBid(c, op)
    BY <1>7 DEF Plan
  <2>2. "submitBid" \in CalmCalls
    BY DEF CalmCalls
  <2> QED BY <1>7, <2>1, <2>2, BidPlanned
<1>8. CASE op.kind = "BANK_CREATE"
  <2>1. Plan(c, op) = PlanBankCreate(c, op)
    BY <1>8 DEF Plan
  <2> QED BY <1>8, <2>1, BankPlanned DEF CalmKinds
<1>9. CASE op.kind \in DOMAIN Wnok
  <2> DEFINE ends == Ends(op.kind, CentralBank, op.who)
             call == [fn |-> Wnok[op.kind], who |-> op.who, from |-> ends.from, to |-> ends.to]
  <2>1. Plan(c, op) = PlanWnok(c, op)
    BY <1>9 DEF Plan
  <2>2. PlanWnok(c, op) = Go(CentralBank, call)
    BY Zenon DEF PlanWnok
  <2>3. call.fn = Wnok[op.kind]
    OBVIOUS
  <2> HIDE DEF call
  <2>4. Plan(c, op).call = call
    BY <2>1, <2>2 DEF Go
  <2>5. Wnok[op.kind] \in MoneyCalls \cup {"add", "remove"}
    BY <1>9 DEF Wnok, MoneyCalls
  <2> QED BY <1>9, <2>3, <2>4, <2>5 DEF CalmKinds
<1>10. CASE op.kind \in DOMAIN TbdCalls
  <2>1. Plan(c, op) = PlanTbd(c, op)
    BY <1>10 DEF Plan
  <2>2. TbdCalls[op.kind] \in DepositCalls
    BY <1>10 DEF TbdCalls, DepositCalls, DepositMoves
  <2> QED BY <1>10, <2>1, <2>2, TbdPlanned DEF CalmKinds
<1> QED BY <1>1, <1>2, <1>3, <1>4, <1>5, <1>6, <1>7, <1>8, <1>9, <1>10 DEF Kinds, BidderKinds


-----------------------------------------------------------------------------
(* What a request leaves                                                    *)

\* What requests of a kind can change of the contracts
Reach(kind) ==
    CASE kind \in CalmKinds            -> {"created", "active", "offering", "auctions"}
      [] kind = "AUCTION_FINALISE"     -> {"auctions", "units", "issued", "due", "cash"}
      [] kind = "COUPON_PAYMENT"       -> {"cash", "units", "matured"}
      [] kind \in DOMAIN Wnok          -> {"cash", "listed"}
      [] kind \in DOMAIN TbdCalls      -> {"tbds"}
      [] kind = "BANK_CREATE"          -> {"tbds", "registry", "listed"}
      [] kind \in BidderKinds          -> {}
Issuing == {"AUCTION_FINALISE", "COUPON_PAYMENT"}

LEMMA ReachCases ==
    ASSUME NEW kind
    PROVE  /\ kind \in CalmKinds => Reach(kind) = {"created", "active", "offering", "auctions"}
           /\ kind = "AUCTION_FINALISE" => Reach(kind) = {"auctions", "units", "issued", "due", "cash"}
           /\ kind = "COUPON_PAYMENT" => Reach(kind) = {"cash", "units", "matured"}
           /\ kind \in DOMAIN Wnok => Reach(kind) = {"cash", "listed"}
           /\ kind \in DOMAIN TbdCalls => Reach(kind) = {"tbds"}
           /\ kind = "BANK_CREATE" => Reach(kind) = {"tbds", "registry", "listed"}
           /\ kind \in BidderKinds => Reach(kind) = {}
BY KindDomains DEF Reach, CalmKinds, BidderKinds

\* Outcome o of a request of this kind, met by state c of the server
Outcome(c, o, kind) ==
    /\ Sound(o.head) /\ (c.head.issued => o.head.issued)
    /\ Changes(c.head, o.head, Reach(kind))
    /\ kind \in Issuing => o.head = c.head \/ o.head.issued
    /\ kind \notin BidderKinds => o.bidders = c.bidders
    /\ kind # "BANK_CREATE" => o.banks = c.banks
    /\ Accepted(o.answer) \/ (o.head = c.head /\ o.bidders = c.bidders /\ o.banks = c.banks)

\* A request that changes nothing
LEMMA StaysOutcome ==
    ASSUME NEW c, Sound(c.head), NEW code, NEW status, NEW kind
    PROVE  Outcome(c, Unchanged(c, code, status), kind)
<1>1. /\ Unchanged(c, code, status).head = c.head /\ Unchanged(c, code, status).bidders = c.bidders
      /\ Unchanged(c, code, status).banks = c.banks
  BY DEF Unchanged
<1>2. Changes(c.head, c.head, Reach(kind))
  BY DEF Changes, Sound
<1> QED BY <1>1, <1>2 DEF Outcome

\* A call that is carried out
LEMMA DoneOutcome ==
    ASSUME NEW c, NEW kind, NEW e, Sound(e), c.head.issued => e.issued, Changes(c.head, e, Reach(kind)),
           kind \in Issuing => e.issued
    PROVE  Outcome(c, Done(c, e), kind)
<1> DEFINE o == Done(c, e)
<1>1. o.head = e /\ o.bidders = c.bidders /\ o.banks = c.banks /\ o.answer = 200
  BY DEF Done, Unchanged
<1>2. Accepted(200)
  BY DEF Accepted
<1> HIDE DEF o
<1>3. Outcome(c, o, kind)
  BY <1>1, <1>2 DEF Outcome
<1> QED BY <1>3 DEF o

\* What the call of an accepted request leaves
LEMMA EffectOutcome ==
    ASSUME NEW c, Sound(c.head), Sound(c.seen), c.seen.issued => c.head.issued, NEW op, Served(op),
           op.kind \notin BidderKinds \cup {"BANK_CREATE"}, NEW plan, plan = Plan(c, op), plan.answer = 0,
           Error(c.head, plan.key, plan.call, c.clock) = "none"
    PROVE  Outcome(c, Done(c, Effect(c.head, plan.key, plan.call, c.clock)), op.kind)
<1> DEFINE w == c.head
           e == Effect(w, plan.key, plan.call, c.clock)
           kind == op.kind
<1>1. kind \in Kinds \ BidderKinds /\ (kind = "AUCTION_CREATE" => op.size \in Nat \ {0})
  BY DEF Served
<1>2. DOMAIN w = MarketFields
  BY DEF Sound
<1>3. CASE kind \in CalmKinds
  <2>1. plan.call.fn \in CalmCalls /\ (plan.call.fn = "deployAuction" => plan.call.size \in Nat \ {0})
    BY <1>1, <1>3, CallOfKind
  <2>2. Sound(e) /\ e.issued = w.issued
    BY <2>1, CalmSound
  <2>3. Changes(w, e, {"created", "active", "offering", "auctions"})
    BY <1>2, <2>1, CalmChanges
  <2>4. Reach(kind) = {"created", "active", "offering", "auctions"} /\ kind \notin Issuing
    BY <1>3, ReachCases DEF CalmKinds, Issuing
  <2> HIDE DEF e, kind
  <2>5. Outcome(c, Done(c, e), kind)
    BY <2>2, <2>3, <2>4, DoneOutcome
  <2> QED BY <2>5 DEF e, kind
<1>4. CASE kind = "AUCTION_FINALISE"
  <2>1. /\ plan.call.fn = "finaliseAuction" /\ op.auction \in DOMAIN c.seen.auctions
        /\ plan.call.type = c.seen.auctions[op.auction].type
    BY <1>1, <1>4, CallOfKind
  <2>2. plan.call.type = "BUYBACK" => w.issued
    BY <2>1 DEF Sound, IssuedFirst
  <2>3. Sound(e) /\ e.issued
    BY <2>1, <2>2, FinaliseSound
  <2>4. Changes(w, e, {"auctions", "units", "issued", "due", "cash"})
    BY <1>2, <2>1, OtherChanges
  <2>5. Reach(kind) = {"auctions", "units", "issued", "due", "cash"}
    BY <1>4, ReachCases
  <2> HIDE DEF e, kind
  <2>6. Outcome(c, Done(c, e), kind)
    BY <2>3, <2>4, <2>5, DoneOutcome
  <2> QED BY <2>6 DEF e, kind
<1>5. CASE kind = "COUPON_PAYMENT"
  <2>1. plan.call.fn = "payCoupon"
    BY <1>1, <1>5, CallOfKind
  <2>2. Sound(e) /\ e.issued
    BY <2>1, CouponSound
  <2>3. Changes(w, e, {"cash", "units", "matured"})
    BY <1>2, <2>1, OtherChanges
  <2>4. Reach(kind) = {"cash", "units", "matured"}
    BY <1>5, ReachCases
  <2> HIDE DEF e, kind
  <2>5. Outcome(c, Done(c, e), kind)
    BY <2>2, <2>3, <2>4, DoneOutcome
  <2> QED BY <2>5 DEF e, kind
<1>6. CASE kind \in DOMAIN Wnok
  <2>1. plan.call.fn \in MoneyCalls \cup {"add", "remove"}
    BY <1>1, <1>6, CallOfKind
  <2>2. Changes(w, e, {"cash"}) \/ Changes(w, e, {"listed"})
    BY <1>2, <2>1, OtherChanges
  <2>3. Reach(kind) = {"cash", "listed"} /\ kind \notin Issuing
    BY <1>6, ReachCases, KindDomains DEF Issuing
  <2> HIDE DEF e, kind, w
  <2>4. Changes(w, e, {"cash", "listed"}) /\ Changes(w, e, {"time", "cash", "listed", "tbds", "registry"})
    BY <2>2, ChangesMore
  <2>5. Sound(e) /\ e.issued = w.issued
    BY <2>4, MoneySound DEF w
  <2>6. Outcome(c, Done(c, e), kind)
    BY <2>3, <2>4, <2>5, DoneOutcome DEF w
  <2> QED BY <2>6 DEF e, kind, w
<1>7. CASE kind \in DOMAIN TbdCalls
  <2>1. plan.call.fn \in DepositCalls
    BY <1>1, <1>7, CallOfKind
  <2>2. Changes(w, e, {"tbds"})
    BY <1>2, <2>1, OtherChanges
  <2>3. Reach(kind) = {"tbds"} /\ kind \notin Issuing
    BY <1>7, ReachCases, KindDomains DEF Issuing
  <2> HIDE DEF e, kind, w
  <2>4. Changes(w, e, {"time", "cash", "listed", "tbds", "registry"})
    BY <2>2, ChangesMore
  <2>5. Sound(e) /\ e.issued = w.issued
    BY <2>4, MoneySound DEF w
  <2>6. Outcome(c, Done(c, e), kind)
    BY <2>2, <2>3, <2>5, DoneOutcome DEF w
  <2> QED BY <2>6 DEF e, kind, w
<1> QED BY <1>1, <1>3, <1>4, <1>5, <1>6, <1>7, KindDomains DEF Kinds, Managed, CalmKinds, BidderKinds

\* A new bank: its contract, its name, the allowlist and its row
LEMMA NamedOutcome ==
    ASSUME NEW c, Sound(c.head), NEW op, op.kind = "BANK_CREATE", NEW plan, plan.call.fn = "deployTbd"
    PROVE  Outcome(c, Named(c, op, Effect(c.head, plan.key, plan.call, c.clock)), op.kind)
<1> DEFINE w == c.head
           d == Effect(w, plan.key, plan.call, c.clock)
           names == [d.registry EXCEPT ![op.name] = Len(d.tbds)]
           list  == IF op.settle THEN d.listed \cup {op.key} ELSE d.listed
           e     == [d EXCEPT !.registry = names, !.listed = list]
           rows  == c.banks \cup {[name |-> op.name, key |-> op.key, tbd |-> Len(d.tbds)]}
           o     == Named(c, op, d)
<1>1. Changes(w, d, {"tbds"})
  BY OtherChanges DEF Sound
<1>2. o = [Done(c, [d EXCEPT !.registry[op.name] = Len(d.tbds),
                             !.listed = IF op.settle THEN @ \cup {op.key} ELSE @])
             EXCEPT !.banks = @ \cup {[name |-> op.name, key |-> op.key, tbd |-> Len(d.tbds)]}]
  BY Zenon DEF Named
<1>3. [d EXCEPT !.registry[op.name] = Len(d.tbds),
                !.listed = IF op.settle THEN @ \cup {op.key} ELSE @] = e
  <2> HIDE DEF d
  <2> QED BY <1>1 DEF Changes, MarketFields
<1> HIDE DEF d, names, list, o, e
<1>4. o.head = e /\ o.bidders = c.bidders /\ o.answer = 200
  BY <1>2, <1>3 DEF Done, Unchanged
<1>5. Changes(w, e, {"tbds", "registry", "listed"})
  BY <1>1 DEF Changes, MarketFields, e
<1> HIDE DEF w
<1>6. Changes(w, e, {"time", "cash", "listed", "tbds", "registry"})
  BY <1>5, ChangesMore
<1>7. Sound(e) /\ e.issued = w.issued
  BY <1>6, MoneySound DEF w
<1>8. Reach(op.kind) = {"tbds", "registry", "listed"} /\ op.kind \notin Issuing
  BY ReachCases DEF Issuing
<1>9. Accepted(200)
  BY DEF Accepted
<1>10. Outcome(c, o, op.kind)
  BY <1>4, <1>5, <1>7, <1>8, <1>9 DEF Outcome, w
<1> QED BY <1>10 DEF o, d, w

\* Every request of every user
LEMMA Performed ==
    ASSUME NEW c, Sound(c.head), Sound(c.seen), c.seen.issued => c.head.issued, NEW op, Served(op), NEW role
    PROVE  Outcome(c, Perform(c, role, op), op.kind)
<1> DEFINE plan == Plan(c, op)
           kind == op.kind
           o    == Perform(c, role, op)
<1>1. CASE kind \in OperatorOnly /\ role # "operator"
  <2>1. o = Unchanged(c, 403, "none")
    BY <1>1 DEF Perform
  <2> QED BY <2>1, StaysOutcome
<1>2. CASE ~(kind \in OperatorOnly /\ role # "operator")
  <2>1. o = Carried(c, op, plan)
    BY <1>2 DEF Perform
  <2>2. CASE kind = "BIDDER_CREATE"
    <3> DEFINE u == Unchanged(c, 200, "none")
               x == [u EXCEPT !.bidders = @ \cup {op.who}]
    <3>1. o = Unchanged(c, 409, "none") \/ o = x
      BY <2>1, <2>2 DEF Carried
    <3>2. x.head = c.head /\ x.banks = c.banks /\ x.answer = 200
      BY DEF Unchanged
    <3> HIDE DEF x
    <3>3. Accepted(200) /\ kind \in BidderKinds /\ kind # "BANK_CREATE" /\ kind \notin Issuing
      BY <2>2 DEF Accepted, BidderKinds, Issuing
    <3>4. Changes(c.head, c.head, Reach(kind))
      BY DEF Changes, Sound
    <3>5. Outcome(c, x, kind)
      BY <3>2, <3>3, <3>4 DEF Outcome
    <3> QED BY <3>1, <3>5, StaysOutcome
  <2>3. CASE kind = "BIDDER_DELETE"
    <3> DEFINE u == Unchanged(c, 204, "none")
               x == [u EXCEPT !.bidders = @ \ {op.who}]
    <3>1. o = Unchanged(c, 404, "none") \/ o = Unchanged(c, 409, "none") \/ o = x
      BY <2>1, <2>3 DEF Carried
    <3>2. x.head = c.head /\ x.banks = c.banks /\ x.answer = 204
      BY DEF Unchanged
    <3> HIDE DEF x
    <3>3. Accepted(204) /\ kind \in BidderKinds /\ kind # "BANK_CREATE" /\ kind \notin Issuing
      BY <2>3 DEF Accepted, BidderKinds, Issuing
    <3>4. Changes(c.head, c.head, Reach(kind))
      BY DEF Changes, Sound
    <3>5. Outcome(c, x, kind)
      BY <3>2, <3>3, <3>4 DEF Outcome
    <3> QED BY <3>1, <3>5, StaysOutcome
  <2>4. ASSUME plan.answer # 0, o = Early(c, plan) PROVE Outcome(c, o, kind)
    BY <2>4, StaysOutcome DEF Early
  <2>5. CASE kind = "BANK_CREATE"
    <3>1. o = IF plan.answer # 0 THEN Early(c, plan)
              ELSE Named(c, op, Effect(c.head, plan.key, plan.call, c.clock))
      BY <2>1, <2>5 DEF Carried
    <3>2. CASE plan.answer # 0
      BY <2>4, <3>1, <3>2
    <3>3. CASE plan.answer = 0
      <4>1. kind \in Kinds \ BidderKinds
        BY <2>5 DEF Served, BidderKinds
      <4>2. plan.call.fn = "deployTbd"
        BY <2>5, <3>3, <4>1, CallOfKind
      <4> HIDE DEF plan, o
      <4>3. Outcome(c, Named(c, op, Effect(c.head, plan.key, plan.call, c.clock)), op.kind)
        BY <2>5, <4>2, NamedOutcome
      <4> QED BY <3>1, <3>3, <4>3 DEF o
    <3> QED BY <3>2, <3>3
  <2>6. CASE kind \notin BidderKinds \cup {"BANK_CREATE"}
    <3> DEFINE error == Error(c.head, plan.key, plan.call, c.clock)
    <3>1. o = Sent(c, op, plan, error)
      BY <2>1, <2>6 DEF Carried, BidderKinds
    <3>2. CASE plan.answer # 0
      <4>1. o = Early(c, plan)
        BY <3>1, <3>2 DEF Sent
      <4> QED BY <2>4, <3>2, <4>1
    <3>3. CASE plan.answer = 0 /\ error # "none"
      <4>1. o = Refusal(c, op, error)
        BY <3>1, <3>3 DEF Sent
      <4>2. \E code, status : o = Unchanged(c, code, status)
        BY <4>1 DEF Refusal
      <4> QED BY <4>2, StaysOutcome
    <3>4. CASE plan.answer = 0 /\ error = "none"
      <4>1. o = Done(c, Effect(c.head, plan.key, plan.call, c.clock))
        BY <3>1, <3>4 DEF Sent
      <4>2. Outcome(c, Done(c, Effect(c.head, plan.key, plan.call, c.clock)), op.kind)
        BY <2>6, <3>4, EffectOutcome
      <4> QED BY <4>1, <4>2
    <3> QED BY <3>2, <3>3, <3>4
  <2> QED BY <2>2, <2>3, <2>5, <2>6 DEF BidderKinds
<1> QED BY <1>1, <1>2


-----------------------------------------------------------------------------
(* What a page depends on                                                   *)

BondPages == {"bonds", "coupon-payout", "bond", "auctions"}
Pages     == BondPages \cup {"bidders", "tbd", "central-bank", "registry", "operations"}

\* The states w and e of the contracts look alike in the projection.
SameBond(w, e) ==
    /\ e.created = w.created /\ e.active = w.active /\ e.matured = w.matured /\ e.issued = w.issued
    /\ e.due = w.due /\ e.units = w.units /\ e.auctions = w.auctions /\ e.time = w.time

LEMMA SameBonds ==
    ASSUME NEW w, NEW e, SameBond(w, e), NEW s
    PROVE  Bonds(w, s) = Bonds(e, s) /\ \A r : Auctions(w, r, s) = Auctions(e, r, s)
<1>1. \A k, r : AuctionView(w, k, r, s) = AuctionView(e, k, r, s)
  <2> SUFFICES ASSUME NEW k, NEW r PROVE AuctionView(w, k, r, s) = AuctionView(e, k, r, s)
    OBVIOUS
  <2> DEFINE view(a) ==
         LET auction == a
             sealed  == (auction.status = "BIDDING" /\ ~r) \/ ~Opens(auction, s)
         IN  [type |-> auction.type, status |-> StatusView[auction.status],
              end |-> auction.end, size |-> auction.size,
              sealed |-> sealed, bids |-> IF sealed THEN auction.bids ELSE UnsealedBids(auction, s),
              allocation |-> AllocationView(auction, s)]
  <2>1. AuctionView(w, k, r, s) = view(w.auctions[k]) /\ AuctionView(e, k, r, s) = view(e.auctions[k])
    BY Zenon DEF AuctionView
  <2>2. w.auctions[k] = e.auctions[k]
    BY DEF SameBond
  <2> HIDE DEF view
  <2> QED BY <2>1, <2>2
<1>2. \A r : Auctions(w, r, s) = Auctions(e, r, s)
  BY <1>1 DEF Auctions, SameBond
<1>3. Supply(w) = Supply(e) /\ InFlight(w) = InFlight(e) /\ RemainingPayments(w) = RemainingPayments(e)
  BY DEF SameBond, Supply, InFlight, LatestStatus, RemainingPayments
<1>4. BondStatus(w) = BondStatus(e)
  BY <1>3 DEF SameBond, BondStatus
<1>5. BondView(w, s) = BondView(e, s)
  BY <1>2, <1>3, <1>4 DEF SameBond, BondView
<1> QED BY <1>2, <1>5 DEF Bonds, SameBond

LEMMA PageCases ==
    ASSUME NEW u, NEW c
    PROVE  /\ u.page = "bonds" => PageContent(u, c) = GetBonds(c, u.showDisabled)
           /\ u.page = "coupon-payout" => PageContent(u, c) = GetBonds(c, FALSE)
           /\ u.page = "bond" => PageContent(u, c) = GetBond(c)
           /\ u.page = "auctions" => PageContent(u, c) = GetAuctions(c, u.testMode)
           /\ u.page = "bidders" => PageContent(u, c) = GetBidders(c)
           /\ u.page = "tbd" => PageContent(u, c) = GetBanking(c)
           /\ u.page = "central-bank" => PageContent(u, c) = GetCentralBank(c)
           /\ u.page = "registry" => PageContent(u, c) = GetRegistry(c)
           /\ u.page = "operations" => PageContent(u, c) = GetOperations(c)
BY DEF PageContent

\* The bond pages read the projection,
LEMMA BondPageSame ==
    ASSUME NEW u, u.page \in BondPages, NEW c, NEW d, SameBond(c.seen, d.seen), d.sealing = c.sealing
    PROVE  PageContent(u, d) = PageContent(u, c)
<1>1. Bonds(c.seen, c.sealing) = Bonds(d.seen, d.sealing)
  BY SameBonds
<1>2. Auctions(c.seen, u.testMode, c.sealing) = Auctions(d.seen, u.testMode, d.sealing)
  BY SameBonds
<1>3. \A i : GetBonds(c, i) = GetBonds(d, i)
  BY <1>1 DEF GetBonds
<1>4. GetBond(c) = GetBond(d) /\ GetAuctions(c, u.testMode) = GetAuctions(d, u.testMode)
  BY <1>1, <1>2 DEF GetBond, GetAuctions
<1> QED BY <1>3, <1>4, PageCases DEF BondPages

\* the others the head of the chain and the rows.
LEMMA OtherPageSame ==
    ASSUME NEW u, NEW c, NEW d
    PROVE  /\ u.page = "bidders" /\ d.head.cash = c.head.cash /\ d.bidders = c.bidders =>
                 PageContent(u, d) = PageContent(u, c)
           /\ u.page = "central-bank" /\ d.head.cash = c.head.cash /\ d.head.listed = c.head.listed =>
                 PageContent(u, d) = PageContent(u, c)
           /\ u.page = "registry" /\ d.head.registry = c.head.registry => PageContent(u, d) = PageContent(u, c)
           /\ u.page = "operations" /\ d.trail = c.trail => PageContent(u, d) = PageContent(u, c)
<1>1. ASSUME u.page = "bidders", d.head.cash = c.head.cash, d.bidders = c.bidders PROVE PageContent(u, d) = PageContent(u, c)
  <2>1. BiddersView(d.head, d.bidders) = BiddersView(c.head, c.bidders)
    BY <1>1, Zenon DEF BiddersView
  <2> QED BY <1>1, <2>1, PageCases DEF GetBidders
<1>2. ASSUME u.page = "central-bank", d.head.cash = c.head.cash, d.head.listed = c.head.listed
      PROVE  PageContent(u, d) = PageContent(u, c)
  BY <1>2, PageCases DEF GetCentralBank, CentralBankView
<1>3. ASSUME u.page = "registry", d.head.registry = c.head.registry PROVE PageContent(u, d) = PageContent(u, c)
  <2>1. RegistryView(d.head) = RegistryView(c.head)
    BY <1>3, Zenon DEF RegistryView
  <2> QED BY <1>3, <2>1, PageCases DEF GetRegistry
<1>4. ASSUME u.page = "operations", d.trail = c.trail PROVE PageContent(u, d) = PageContent(u, c)
  BY <1>4, PageCases DEF GetOperations
<1> QED BY <1>1, <1>2, <1>3, <1>4

\* But for the reserves of the banks the page of the deposits does not depend on the cash.
LEMMA BankingPageSame ==
    ASSUME NEW u, u.page = "tbd", NEW c, NEW d, d.banks = c.banks, d.head.listed = c.head.listed,
           d.head.tbds = c.head.tbds, d.head.registry = c.head.registry
    PROVE  /\ WithoutReserves(PageContent(u, d)) = WithoutReserves(PageContent(u, c))
           /\ d.head.cash = c.head.cash => PageContent(u, d) = PageContent(u, c)
<1> DEFINE R == RosterTbds(c.head, Roster(c))
           row(w, k) == [tbd |-> w.tbds[k], reserve |-> w.cash[w.tbds[k].bank], settles |-> w.tbds[k].bank \in w.listed]
           bare(w, k) == [tbd |-> w.tbds[k], reserve |-> 0, settles |-> w.tbds[k].bank \in w.listed]
<1>1. Roster(d) = Roster(c)
  BY DEF Roster
<1>2. RosterTbds(d.head, Roster(d)) = R
  BY <1>1 DEF RosterTbds
<1>3. PageContent(u, c) = [k \in R |-> row(c.head, k)] /\ PageContent(u, d) = [k \in R |-> row(d.head, k)]
  <2>1. PageContent(u, c) = BankingView(c.head, Roster(c)) /\ PageContent(u, d) = BankingView(d.head, Roster(d))
    BY PageCases DEF GetBanking
  <2>2. BankingView(c.head, Roster(c)) = [k \in R |-> row(c.head, k)]
    BY Zenon DEF BankingView
  <2>3. BankingView(d.head, Roster(d)) = [k \in RosterTbds(d.head, Roster(d)) |-> row(d.head, k)]
    BY Zenon DEF BankingView
  <2> QED BY <1>2, <2>1, <2>2, <2>3, Zenon
<1>4. \A w, k : [row(w, k) EXCEPT !.reserve = 0] = bare(w, k)
  OBVIOUS
<1>5. \A k \in R : bare(d.head, k) = bare(c.head, k)
  OBVIOUS
<1>6. d.head.cash = c.head.cash => \A k \in R : row(d.head, k) = row(c.head, k)
  OBVIOUS
<1> HIDE DEF R, row, bare
<1>7. /\ WithoutReserves(PageContent(u, c)) = [k \in R |-> bare(c.head, k)]
      /\ WithoutReserves(PageContent(u, d)) = [k \in R |-> bare(d.head, k)]
  BY <1>3, <1>4 DEF WithoutReserves
<1> QED BY <1>3, <1>5, <1>6, <1>7


\* The resources of the pages
LEMMA PageResources ==
    /\ DOMAIN PageKeys = Pages
    /\ PageKeys["bonds"] = {"bonds", "auctions"} /\ PageKeys["bond"] = {"bonds", "auctions"}
    /\ PageKeys["auctions"] = {"auctions"} /\ PageKeys["bidders"] = {"bidders"}
    /\ PageKeys["coupon-payout"] = {"bonds"} /\ PageKeys["tbd"] = {"banking"}
    /\ PageKeys["central-bank"] = {"central-bank"} /\ PageKeys["registry"] = {"registry"}
    /\ PageKeys["operations"] = {"operations"}
BY DEF PageKeys, Pages, BondPages


-----------------------------------------------------------------------------
(* What holds of a body                                                     *)

\* A body that is what the server would answer now, but for the time that has passed or
\* for reserves that moved
Holds(b) ==
    IF user.page \in BondPages THEN \E t \in 0 .. clock : b = ContentAt(t)
    ELSE \/ b = content
         \/ user.page = "tbd" /\ head.issued /\ WithoutReserves(b) = WithoutReserves(content)

MarketInv ==
    /\ Sound(head) /\ Sound(seen) /\ (seen.issued => head.issued)
    /\ clock \in Nat /\ head.time \in 0 .. clock /\ seen.time \in 0 .. clock
UserInv == DOMAIN user = {"page", "role", "testMode", "showDisabled"} /\ user.page \in Pages /\ MayOpen(user)

LEMMA HereFields ==
    /\ Here.head = head /\ Here.seen = seen /\ Here.clock = clock /\ Here.bidders = bidders
    /\ Here.banks = banks /\ Here.trail = trail /\ Here.sealing = SealingKey
BY DEF Here

LEMMA NextHereFields ==
    /\ Here'.head = head' /\ Here'.seen = seen' /\ Here'.clock = clock' /\ Here'.bidders = bidders'
    /\ Here'.banks = banks' /\ Here'.trail = trail' /\ Here'.sealing = SealingKey
BY DEF Here

\* What the server answers holds.
LEMMA ContentHolds ==
    ASSUME MarketInv, UserInv
    PROVE  Holds(content)
<1>1. CASE user.page \notin BondPages
  BY <1>1 DEF Holds
<1>2. CASE user.page \in BondPages
  <2> DEFINE t == seen.time
             c == [Here EXCEPT !.head.time = t, !.seen.time = t]
  <2>1. ContentAt(t) = PageContent(user, c)
    BY DEF ContentAt
  <2>2. c.seen = [seen EXCEPT !.time = t] /\ c.sealing = Here.sealing
    BY DEF Here
  <2>3. SameBond(c.seen, Here.seen)
    BY <2>2, HereFields DEF SameBond, MarketInv, Sound, MarketFields
  <2> HIDE DEF c
  <2>4. PageContent(user, Here) = PageContent(user, c)
    BY <1>2, <2>2, <2>3, BondPageSame
  <2>5. content = ContentAt(t)
    BY <2>1, <2>4 DEF content
  <2>6. t \in 0 .. clock
    BY DEF MarketInv
  <2> HIDE DEF t
  <2> QED BY <1>2, <2>5, <2>6 DEF Holds
<1> QED BY <1>1, <1>2

\* On a bond page whatever held holds as long as the projection shows no change.
LEMMA BondHolds ==
    ASSUME MarketInv, DOMAIN seen' = MarketFields, clock' \in Nat, clock <= clock', user' = user, user.page \in BondPages,
           BondPart(seen') = BondPart(seen)
    PROVE  \A b : Holds(b) => Holds(b)'
<1>1. \A t : ContentAt(t)' = ContentAt(t)
  <2> SUFFICES ASSUME NEW t PROVE ContentAt(t)' = ContentAt(t)
    OBVIOUS
  <2> DEFINE c == [Here EXCEPT !.head.time = t, !.seen.time = t]
             d == [Here' EXCEPT !.head.time = t, !.seen.time = t]
  <2>1. ContentAt(t) = PageContent(user, c)
    BY DEF ContentAt
  <2>2. ContentAt(t)' = PageContent(user', d)
    BY DEF ContentAt
  <2>3. /\ c.seen = [seen EXCEPT !.time = t] /\ c.sealing = SealingKey
        /\ d.seen = [seen' EXCEPT !.time = t] /\ d.sealing = SealingKey
    BY DEF Here
  <2>4. DOMAIN seen = MarketFields
    BY DEF MarketInv, Sound
  <2> HIDE DEF c, d
  <2>5. SameBond(c.seen, d.seen)
    BY <2>3, <2>4 DEF SameBond, MarketFields, BondPart
  <2>6. PageContent(user, d) = PageContent(user, c)
    BY <2>3, <2>5, BondPageSame
  <2> QED BY <2>1, <2>2, <2>6
<1>2. 0 .. clock \subseteq 0 .. clock'
  BY DEF MarketInv
<1>3. user'.page \in BondPages
  OBVIOUS
<1> QED BY <1>1, <1>2, <1>3 DEF Holds

\* On another page whatever held holds as long as what the page reads does not change, or
\* the reserves alone once the bond is issued.
LEMMA OtherHolds ==
    ASSUME user' = user, user.page \notin BondPages, head.issued => head'.issued,
           \/ content' = content
           \/ user.page = "tbd" /\ head'.issued /\ WithoutReserves(content') = WithoutReserves(content)
    PROVE  \A b : Holds(b) => Holds(b)'
<1>1. user'.page = user.page
  OBVIOUS
<1> QED BY <1>1 DEF Holds


-----------------------------------------------------------------------------
(* What the server does                                                     *)

\* The page is told of a change, or whatever held holds.
Told == frames' = IF conn # "down" THEN frames + 1 ELSE frames
Calm == frames' = frames /\ \A b : Holds(b) => Holds(b)'

\* Where each kind of request is announced
LEMMA ResourcesOfKind ==
    ASSUME NEW op
    PROVE  /\ op.kind \in DOMAIN Wnok \cup DOMAIN TbdCalls => Resources(op) = {"central-bank", "bidders", "banking"}
           /\ op.kind \in Issuing => Resources(op) = {"bidders", "central-bank"}
           /\ op.kind = "BANK_CREATE" => Resources(op) = {"banking", "registry", "central-bank"}
           /\ op.kind \in BidderKinds => Resources(op) = {"bidders"}
<1>1. op.kind \in DOMAIN Wnok \cup DOMAIN TbdCalls \cup Issuing \cup {"BANK_CREATE"} =>
        Resources(op) = ChangedResources(op.kind)
  BY KindDomains DEF Resources, Issuing
<1>2. op.kind \in BidderKinds => Resources(op) = {"bidders"}
  BY DEF Resources, BidderKinds
<1> QED BY <1>1, <1>2, KindDomains DEF ChangedResources, Issuing

LEMMA KindSplit ==
    ASSUME NEW kind \in Kinds
    PROVE  kind \in CalmKinds \cup Issuing \cup DOMAIN Wnok \cup DOMAIN TbdCalls \cup BidderKinds \cup {"BANK_CREATE"}
BY KindDomains DEF Kinds, Managed, CalmKinds, Issuing, BidderKinds

\* On a page that is not of the bond, what an outcome changes is announced there, but for
\* the reserves of the banks.
LEMMA OutcomeTold ==
    ASSUME UserInv, user' = user, user.page \in {"bidders", "tbd", "central-bank", "registry"}, NEW op, op.kind \in Kinds,
           NEW o, Outcome(Here, o, op.kind), head' = o.head, bidders' = o.bidders, banks' = o.banks,
           Accepted(o.answer) => Resources(op) \cap PageKeys[user.page] = {}
    PROVE  \A b : Holds(b) => Holds(b)'
<1> DEFINE kind == op.kind
<1>1. /\ head.issued => head'.issued
      /\ Changes(head, head', Reach(kind))
      /\ kind \in Issuing => head' = head \/ head'.issued
      /\ kind \notin BidderKinds => bidders' = bidders
      /\ kind # "BANK_CREATE" => banks' = banks
      /\ Accepted(o.answer) \/ (head' = head /\ bidders' = bidders /\ banks' = banks)
  BY HereFields DEF Outcome
<1>2. content = PageContent(user, Here) /\ content' = PageContent(user, Here')
  BY DEF content
<1>3. /\ kind \in CalmKinds => Reach(kind) = {"created", "active", "offering", "auctions"}
      /\ kind = "AUCTION_FINALISE" => Reach(kind) = {"auctions", "units", "issued", "due", "cash"}
      /\ kind = "COUPON_PAYMENT" => Reach(kind) = {"cash", "units", "matured"}
      /\ kind \in DOMAIN Wnok => Reach(kind) = {"cash", "listed"}
      /\ kind \in DOMAIN TbdCalls => Reach(kind) = {"tbds"}
      /\ kind = "BANK_CREATE" => Reach(kind) = {"tbds", "registry", "listed"}
      /\ kind \in BidderKinds => Reach(kind) = {}
  BY ReachCases
<1>4. /\ kind \in DOMAIN Wnok \cup DOMAIN TbdCalls => Resources(op) = {"central-bank", "bidders", "banking"}
      /\ kind \in Issuing => Resources(op) = {"bidders", "central-bank"}
      /\ kind = "BANK_CREATE" => Resources(op) = {"banking", "registry", "central-bank"}
      /\ kind \in BidderKinds => Resources(op) = {"bidders"}
  BY ResourcesOfKind
<1>5. kind \in CalmKinds \cup Issuing \cup DOMAIN Wnok \cup DOMAIN TbdCalls \cup BidderKinds \cup {"BANK_CREATE"}
  BY KindSplit
<1>6. user.page \notin BondPages
  BY DEF BondPages
<1>7. \A f \in {"cash", "listed", "tbds", "registry"} : f \notin Reach(kind) => head'[f] = head[f]
  BY <1>1 DEF Changes, MarketFields
<1>8. /\ BidderKinds \cap CalmKinds = {} /\ BidderKinds \cap Issuing = {}
      /\ "BANK_CREATE" \notin CalmKinds \cup BidderKinds \cup Issuing
  BY DEF BidderKinds, CalmKinds, Issuing
<1>e. kind \in Issuing => kind \in {"AUCTION_FINALISE", "COUPON_PAYMENT"}
  BY DEF Issuing
<1> HIDE DEF kind
<1>9. CASE user.page = "bidders"
  <2>1. Accepted(o.answer) => "bidders" \notin Resources(op)
    BY <1>9, PageResources
  <2>2. head'.cash = head.cash /\ bidders' = bidders
    BY <2>1, <1>1, <1>3, <1>4, <1>5, <1>7, <1>8
  <2>3. content' = content
    BY <1>2, <1>9, <2>2, HereFields, NextHereFields, OtherPageSame
  <2> QED BY <1>1, <1>6, <2>3, OtherHolds
<1>10. CASE user.page = "central-bank"
  <2>1. Accepted(o.answer) => "central-bank" \notin Resources(op)
    BY <1>10, PageResources
  <2>2. head'.cash = head.cash /\ head'.listed = head.listed
    BY <2>1, <1>1, <1>3, <1>4, <1>5, <1>7, <1>8
  <2>3. content' = content
    BY <1>2, <1>10, <2>2, HereFields, NextHereFields, OtherPageSame
  <2> QED BY <1>1, <1>6, <2>3, OtherHolds
<1>11. CASE user.page = "registry"
  <2>1. Accepted(o.answer) => "registry" \notin Resources(op)
    BY <1>11, PageResources
  <2>2. head'.registry = head.registry
    BY <2>1, <1>1, <1>3, <1>4, <1>5, <1>7, <1>8, <1>e
  <2>3. content' = content
    BY <1>2, <1>11, <2>2, HereFields, NextHereFields, OtherPageSame
  <2> QED BY <1>1, <1>6, <2>3, OtherHolds
<1>12. CASE user.page = "tbd"
  <2>1. Accepted(o.answer) => "banking" \notin Resources(op)
    BY <1>12, PageResources
  <2>2. /\ banks' = banks /\ head'.listed = head.listed /\ head'.tbds = head.tbds /\ head'.registry = head.registry
        /\ head'.cash = head.cash \/ head'.issued
    BY <2>1, <1>1, <1>3, <1>4, <1>5, <1>7, <1>8, <1>e
  <2>3. /\ WithoutReserves(content') = WithoutReserves(content)
        /\ head'.cash = head.cash => content' = content
    BY <1>2, <1>12, <2>2, HereFields, NextHereFields, BankingPageSame
  <2> QED BY <1>1, <1>6, <1>12, <2>2, <2>3, OtherHolds
<1> QED BY <1>9, <1>10, <1>11, <1>12

\* A request of whatever user is announced on the page, or what held there holds.
LEMMA ServerStep ==
    ASSUME MarketInv, UserInv, user' = user, clock' = clock, NEW role, NEW op, Served(op), NEW code,
           TakeEffect(role, op, code)
    PROVE  MarketInv' /\ (Told \/ Calm)
<1> PICK o \in {Perform(Here, role, op)} :
        /\ head' = o.head /\ bidders' = o.bidders /\ banks' = o.banks
        /\ trail' = IF o.status = "none" THEN trail ELSE Append(trail, [kind |-> op.kind, status |-> o.status])
        /\ seen' \in {seen, o.head}
        /\ code = IF Accepted(o.answer) /\ op.kind \in Awaiting /\ BondPart(seen') # BondPart(head') THEN 202 ELSE o.answer
        /\ View!Announce(Announced(op, code, o.status, BondPart(seen') # BondPart(seen)) \cap PageKeys[user.page] # {})
  BY Zenon DEF TakeEffect
<1> DEFINE named == Announced(op, code, o.status, BondPart(seen') # BondPart(seen)) \cap PageKeys[user.page]
<1>1. Outcome(Here, o, op.kind)
  <2>1. Outcome(Here, Perform(Here, role, op), op.kind)
    BY Performed, HereFields DEF MarketInv
  <2> QED BY <2>1
<1>2. Accepted(code) <=> Accepted(o.answer)
  BY DEF Accepted
<1>3. MarketInv'
  <2>1. Sound(head') /\ (head.issued => head'.issued) /\ Changes(head, head', Reach(op.kind))
    BY <1>1, HereFields DEF Outcome
  <2>2. "time" \notin Reach(op.kind)
    <3>1. op.kind \in CalmKinds \cup Issuing \cup DOMAIN Wnok \cup DOMAIN TbdCalls \cup BidderKinds \cup {"BANK_CREATE"}
      BY KindSplit DEF Served
    <3> QED BY <3>1, ReachCases DEF Issuing
  <2>3. head'.time = head.time
    BY <2>1, <2>2 DEF Changes, MarketFields
  <2>4. seen' = seen \/ seen' = head'
    OBVIOUS
  <2> QED BY <2>1, <2>3, <2>4 DEF MarketInv
<1>4. frames' = IF named # {} /\ conn # "down" THEN frames + 1 ELSE frames
  BY Zenon DEF View!Announce
<1>5. CASE named # {}
  BY <1>3, <1>4, <1>5 DEF Told
<1>6. CASE named = {}
  <2>1. /\ Accepted(o.answer) => Resources(op) \cap PageKeys[user.page] = {}
        /\ BondPart(seen') # BondPart(seen) => {"bonds", "auctions"} \cap PageKeys[user.page] = {}
        /\ o.status # "none" => "operations" \notin PageKeys[user.page]
    BY <1>2, <1>6 DEF Announced
  <2> HIDE DEF named
  <2>2. frames' = frames
    BY <1>4, <1>6
  <2>3. CASE user.page \in BondPages
    <3>1. BondPart(seen') = BondPart(seen)
      BY <2>1, <2>3, PageResources DEF BondPages
    <3>2. DOMAIN seen' = MarketFields /\ clock' \in Nat /\ clock <= clock'
      BY <1>3 DEF MarketInv, Sound
    <3>3. \A b : Holds(b) => Holds(b)'
      BY <2>3, <3>1, <3>2, BondHolds
    <3> QED BY <1>3, <2>2, <3>3 DEF Calm
  <2>4. CASE user.page = "operations"
    <3>1. trail' = trail
      BY <2>1, <2>4, PageResources
    <3>2. PageContent(user, Here') = PageContent(user, Here)
      BY <2>4, <3>1, HereFields, NextHereFields, OtherPageSame
    <3>3. content' = content
      BY <3>2 DEF content
    <3>4. user.page \notin BondPages /\ (head.issued => head'.issued)
      BY <2>4, <1>1, HereFields DEF BondPages, Outcome
    <3>5. \A b : Holds(b) => Holds(b)'
      BY <3>3, <3>4, OtherHolds
    <3> QED BY <1>3, <2>2, <3>5 DEF Calm
  <2>5. CASE user.page \in {"bidders", "tbd", "central-bank", "registry"}
    <3>1. op.kind \in Kinds
      BY DEF Served
    <3>2. \A b : Holds(b) => Holds(b)'
      BY <1>1, <2>1, <2>5, <3>1, OutcomeTold
    <3> QED BY <1>3, <2>2, <3>2 DEF Calm
  <2> QED BY <2>3, <2>4, <2>5, <1>3 DEF UserInv, Pages
<1> QED BY <1>3, <1>5, <1>6

\* The projection moves on: the bond pages are told, the others do not read it.
LEMMA ProjectStep ==
    ASSUME MarketInv, UserInv, Project
    PROVE  MarketInv' /\ (Told \/ Calm)
<1>1. /\ seen' = head /\ head' = head /\ bidders' = bidders /\ banks' = banks /\ trail' = trail
      /\ clock' = clock /\ user' = user
      /\ View!Announce(PageKeys[user.page] \cap {"bonds", "auctions"} # {})
  BY DEF Project, userVars
<1>2. MarketInv'
  BY <1>1 DEF MarketInv
<1>3. frames' = IF PageKeys[user.page] \cap {"bonds", "auctions"} # {} /\ conn # "down" THEN frames + 1 ELSE frames
  BY <1>1, Zenon DEF View!Announce
<1>4. CASE user.page \in BondPages
  BY <1>2, <1>3, <1>4, PageResources DEF BondPages, Told
<1>5. CASE user.page \notin BondPages
  <2>1. user.page \in {"bidders", "tbd", "central-bank", "registry", "operations"}
    BY <1>5 DEF UserInv, Pages
  <2>2. frames' = frames
    BY <1>3, <2>1, PageResources
  <2>3. content = PageContent(user, Here) /\ content' = PageContent(user, Here')
    BY <1>1 DEF content
  <2>4. content' = content
    BY <1>1, <2>1, <2>3, HereFields, NextHereFields, OtherPageSame, BankingPageSame
  <2>5. \A b : Holds(b) => Holds(b)'
    BY <1>1, <1>5, <2>4, OtherHolds
  <2> QED BY <1>2, <2>2, <2>5 DEF Calm
<1> QED BY <1>2, <1>4, <1>5

\* Time passes: nobody is told.
LEMMA TickStep ==
    ASSUME MarketInv, UserInv, Tick
    PROVE  MarketInv' /\ Calm
<1>1. /\ clock' = clock + 1 /\ head' = [head EXCEPT !.time = clock + 1] /\ (seen' = seen \/ seen' = head')
      /\ seen' = IF seen = head THEN head' ELSE seen
      /\ bidders' = bidders /\ banks' = banks /\ trail' = trail /\ user' = user /\ frames' = frames
  BY DEF Tick, userVars
<1>2. Changes(head, head', {"time"}) /\ head'.time = clock + 1
  BY <1>1, OneChange DEF MarketInv, Sound, MarketFields
<1>3. Sound(head') /\ head'.issued = head.issued
  BY <1>2, MoneySound, ChangesMore DEF MarketInv
<1>4. MarketInv'
  BY <1>1, <1>2, <1>3 DEF MarketInv
<1>5. BondPart(seen') = BondPart(seen)
  <2>1. BondPart(head') = BondPart(head)
    BY <1>2 DEF Changes, BondPart, MarketFields
  <2> QED BY <2>1, <1>1
<1>6. CASE user.page \in BondPages
  <2>1. DOMAIN seen' = MarketFields /\ clock' \in Nat /\ clock <= clock'
    BY <1>1, <1>4 DEF MarketInv, Sound
  <2>2. \A b : Holds(b) => Holds(b)'
    BY <1>1, <1>5, <1>6, <2>1, BondHolds
  <2> QED BY <1>1, <1>4, <2>2 DEF Calm
<1>7. CASE user.page \notin BondPages
  <2>1. user.page \in {"bidders", "tbd", "central-bank", "registry", "operations"}
    BY <1>7 DEF UserInv, Pages
  <2>2. /\ head'.cash = head.cash /\ head'.listed = head.listed /\ head'.tbds = head.tbds
        /\ head'.registry = head.registry
    BY <1>2 DEF Changes, MarketFields
  <2>3. content = PageContent(user, Here) /\ content' = PageContent(user, Here')
    BY <1>1 DEF content
  <2> DEFINE c == Here
             d == Here'
  <2>e. /\ d.head.cash = c.head.cash /\ d.head.listed = c.head.listed /\ d.head.tbds = c.head.tbds
        /\ d.head.registry = c.head.registry /\ d.banks = c.banks /\ d.bidders = c.bidders /\ d.trail = c.trail
    BY <1>1, <2>2, HereFields, NextHereFields
  <2> HIDE DEF c, d
  <2>f. PageContent(user, d) = PageContent(user, c)
    BY <2>1, <2>e, OtherPageSame, BankingPageSame
  <2>4. content' = content
    BY <2>3, <2>f DEF c, d
  <2>5. \A b : Holds(b) => Holds(b)'
    BY <1>1, <1>3, <1>7, <2>4, OtherHolds
  <2> QED BY <1>1, <1>4, <2>5 DEF Calm
<1> QED BY <1>6, <1>7


-----------------------------------------------------------------------------
(* What the page may wait for                                               *)

\* A set that holds one body or none
Single(s) == s = {} \/ \E b : s = {b}

\* What reads the page again later: the stream when it opens, or an announcement.
Pending == conn # "open" \/ frames > 0

IsRequest(f) ==
    /\ DOMAIN f = {"gen", "tag", "refreshing", "status", "body"}
    /\ f.gen \in 1 .. generation /\ f.status \in {0, 200, 304}
    /\ (f.body # {}) <=> (f.status = 200)
    /\ Single(f.tag) /\ Single(f.body)

\* Types, and the bounds: one request of the present run at most, which knows whether there
\* is something to refresh; an error only as long as nothing is shown.
ViewType ==
    /\ conn \in {"down", "subscribed", "open"} /\ frames \in Nat /\ (conn = "down" => frames = 0)
    /\ generation \in Nat \ {0}
    /\ IsFiniteSet(fetches) /\ Cardinality(fetches) <= MaxFetches
    /\ Single(cache) /\ Single(shown)
    /\ \A f \in fetches : IsRequest(f)
    /\ \A f, g \in fetches : View!Current(f) /\ View!Current(g) => f = g
    /\ \A f \in fetches : View!Current(f) /\ ~f.refreshing => shown = {}
    /\ problem \in {"none", "error", "refresh"} /\ (problem = "error" => shown = {})

\* What the request that counts has been answered holds, or a page that is not yet up to
\* date will read again.
AnswersHold ==
    \A f \in fetches : View!Current(f) =>
        /\ f.status = 200 => Pending \/ \E b : f.body = {b} /\ Holds(b)
        /\ f.status = 304 => Pending \/ \E b : f.tag = {b} /\ Holds(b)

\* As long as the page shows nothing that holds there is a reason.
ReasonGiven ==
    \/ \E f \in fetches : View!Current(f)
    \/ problem # "none" \/ overtaken \/ Pending
    \/ \E b : shown = {b} /\ Holds(b)

ViewInv == ViewType /\ AnswersHold /\ ReasonGiven

\* Nothing but the page moves.
Still == UNCHANGED <<serverVars, clock, user>>

LEMMA StillHolds == Still => content' = content /\ \A b : Holds(b) => Holds(b)'
<1> SUFFICES ASSUME Still PROVE content' = content /\ \A b : Holds(b) => Holds(b)'
  OBVIOUS
<1>1. Here' = Here /\ user' = user /\ clock' = clock /\ head' = head
  BY DEF Still, serverVars, Here
<1>2. content' = content
  BY <1>1 DEF content
<1>3. \A t : ContentAt(t)' = ContentAt(t)
  BY <1>1 DEF ContentAt
<1> QED BY <1>1, <1>2, <1>3 DEF Holds

\* A request takes the place of another.
LEMMA Replaced ==
    ASSUME NEW S, IsFiniteSet(S), NEW n \in Nat, Cardinality(S) <= n, NEW f \in S, NEW g
    PROVE  /\ IsFiniteSet((S \ {f}) \cup {g}) /\ Cardinality((S \ {f}) \cup {g}) <= n
           /\ IsFiniteSet(S \ {f}) /\ Cardinality(S \ {f}) <= n
<1> DEFINE T == S \ {f}
<1>1. IsFiniteSet(T) /\ Cardinality(T) = Cardinality(S) - 1 /\ Cardinality(S) \in Nat
  BY FS_RemoveElement, FS_CardinalityType
<1> HIDE DEF T
<1>2. IsFiniteSet(T \cup {g}) /\ (Cardinality(T \cup {g}) = Cardinality(T) \/ Cardinality(T \cup {g}) = Cardinality(T) + 1)
  BY <1>1, FS_AddElement
<1>3. IsFiniteSet(T \cup {g}) /\ Cardinality(T \cup {g}) <= n /\ IsFiniteSet(T) /\ Cardinality(T) <= n
  BY <1>1, <1>2
<1> QED BY <1>3 DEF T

LEMMA SameCardinality == \A s : View!Cardinality(s) = Cardinality(s)
BY Zenon DEF View!Cardinality, Cardinality

LEMMA Bounds == MaxFetches \in Nat /\ MaxFetches >= 1
BY BrowserAssumption

-----------------------------------------------------------------------------

\* A new run of the effect has an unanswered request of its own, and no other counts.
LEMMA ReloadKeeps ==
    ASSUME ViewInv, NEW tag, Single(tag), View!Reload(tag), Single(cache'),
           conn' \in {"down", "subscribed", "open"}, frames' \in Nat, conn' = "down" => frames' = 0
    PROVE  ViewInv'
<1> DEFINE mine == View!Fetch(generation + 1, tag)
           empty == shown # {}
<1>1. /\ mine = [gen |-> generation + 1, tag |-> tag, refreshing |-> empty, status |-> 0, body |-> {}]
      /\ generation \in Nat \ {0}
  BY DEF View!Fetch, ViewInv, ViewType
<1> HIDE DEF empty
<1>2. /\ DOMAIN mine = {"gen", "tag", "refreshing", "status", "body"}
      /\ mine.gen = generation + 1 /\ mine.status = 0 /\ mine.tag = tag /\ mine.body = {}
      /\ mine.refreshing = empty
  BY <1>1
<1>3. /\ generation' = generation + 1 /\ fetches' = fetches \cup {mine} /\ Cardinality(fetches) < MaxFetches
      /\ problem' = "none" /\ shown' = shown /\ overtaken' = overtaken
  BY SameCardinality DEF View!Reload
<1> HIDE DEF mine
<1>4. \A f \in fetches' : View!Current(f)' <=> f = mine
  BY <1>2, <1>3 DEF ViewInv, ViewType, View!Current, IsRequest
<1>5. IsFiniteSet(fetches') /\ Cardinality(fetches') <= MaxFetches
  <2>1. IsFiniteSet(fetches) /\ Cardinality(fetches) \in Nat
    BY FS_CardinalityType DEF ViewInv, ViewType
  <2>2. /\ IsFiniteSet(fetches \cup {mine})
        /\ \/ Cardinality(fetches \cup {mine}) = Cardinality(fetches)
           \/ Cardinality(fetches \cup {mine}) = Cardinality(fetches) + 1
    BY <2>1, FS_AddElement
  <2> QED BY <2>1, <2>2, <1>3, Bounds
<1>6. \A f \in fetches' : IsRequest(f)'
  BY <1>1, <1>2, <1>3 DEF ViewInv, ViewType, IsRequest, Single
<1>7. ~mine.refreshing => shown = {}
  <2>1. CASE shown = {}
    BY <2>1
  <2>2. CASE shown # {}
    BY <2>2, <1>2 DEF empty
  <2> QED BY <2>1, <2>2
<1>8. ViewType'
  <2>1. \A f \in fetches' : View!Current(f)' /\ ~f.refreshing => shown' = {}
    BY <1>3, <1>4, <1>7
  <2>2. \A f, g \in fetches' : View!Current(f)' /\ View!Current(g)' => f = g
    BY <1>4
  <2>3. /\ generation' \in Nat \ {0} /\ Single(shown') /\ problem' \in {"none", "error", "refresh"}
        /\ problem' # "error"
    BY <1>1, <1>3 DEF ViewInv, ViewType
  <2> QED BY <2>1, <2>2, <2>3, <1>5, <1>6 DEF ViewType
<1>9. AnswersHold'
  BY <1>2, <1>4 DEF AnswersHold
<1>10. ReasonGiven'
  BY <1>3, <1>4 DEF ReasonGiven
<1> QED BY <1>8, <1>9, <1>10 DEF ViewInv

\* Another request in the place of f, with what f was answered
LEMMA SwapKeeps ==
    ASSUME ViewInv, Still, NEW f \in fetches, NEW g, fetches' = (fetches \ {f}) \cup {g},
           IsRequest(g), g.gen = f.gen, g.refreshing = f.refreshing,
           View!Current(g) => /\ g.status = 200 => Pending \/ \E b : g.body = {b} /\ Holds(b)
                              /\ g.status = 304 => Pending \/ \E b : g.tag = {b} /\ Holds(b),
           UNCHANGED <<conn, frames, generation, cache, shown, problem, overtaken>>
    PROVE  ViewInv'
<1>1. IsFiniteSet(fetches') /\ Cardinality(fetches') <= MaxFetches
  BY Replaced, Bounds DEF ViewInv, ViewType
<1>2. \A h : (IsRequest(h)' <=> IsRequest(h)) /\ (View!Current(h)' <=> View!Current(h))
  BY DEF IsRequest, View!Current
<1>3. View!Current(g) <=> View!Current(f)
  BY DEF View!Current
<1>4. ViewType'
  <2>1. \A h \in fetches' : IsRequest(h)'
    BY <1>2 DEF ViewInv, ViewType
  <2>2. \A h, k \in fetches' : View!Current(h)' /\ View!Current(k)' => h = k
    BY <1>2, <1>3 DEF ViewInv, ViewType
  <2>3. \A h \in fetches' : View!Current(h)' /\ ~h.refreshing => shown' = {}
    BY <1>2, <1>3 DEF ViewInv, ViewType
  <2> QED BY <1>1, <2>1, <2>2, <2>3 DEF ViewInv, ViewType
<1>5. Pending' <=> Pending
  BY DEF Pending
<1>6. AnswersHold'
  BY <1>2, <1>5, StillHolds DEF ViewInv, AnswersHold
<1>7. ReasonGiven'
  <2>1. CASE \E h \in fetches : View!Current(h)
    <3>1. \E h \in fetches' : View!Current(h)
      BY <1>3, <2>1
    <3> QED BY <3>1, <1>2 DEF ReasonGiven
  <2>2. CASE ~\E h \in fetches : View!Current(h)
    BY <2>2, <1>5, StillHolds DEF ViewInv, ReasonGiven
  <2> QED BY <2>1, <2>2
<1> QED BY <1>4, <1>6, <1>7 DEF ViewInv

\* The server answers with what it has, or confirms a tag that is what it has.
LEMMA AnswerKeeps ==
    ASSUME MarketInv, UserInv, ViewInv, Still, NEW f \in fetches, View!Answer(f)
    PROVE  ViewInv'
<1>1. /\ f.status = 0 /\ UNCHANGED <<conn, frames, generation, cache, shown, problem, overtaken>>
      /\ IsRequest(f) /\ Holds(content)
  BY ContentHolds DEF View!Answer, ViewInv, ViewType
<1>2. CASE f.tag = {content}
  <2> DEFINE g == [f EXCEPT !.status = 304]
  <2>1. fetches' = (fetches \ {f}) \cup {g}
    BY <1>2 DEF View!Answer
  <2>2. IsRequest(g) /\ g.gen = f.gen /\ g.refreshing = f.refreshing /\ g.status = 304 /\ g.tag = f.tag
    BY <1>1 DEF IsRequest
  <2> HIDE DEF g
  <2>3. View!Current(g) => /\ g.status = 200 => Pending \/ \E b : g.body = {b} /\ Holds(b)
                           /\ g.status = 304 => Pending \/ \E b : g.tag = {b} /\ Holds(b)
    BY <1>1, <1>2, <2>2
  <2> QED BY <1>1, <2>1, <2>2, <2>3, SwapKeeps
<1>3. CASE f.tag # {content}
  <2> DEFINE new == {content}
             g   == [f EXCEPT !.status = 200, !.body = new]
  <2>1. fetches' = (fetches \ {f}) \cup {g}
    BY <1>3 DEF View!Answer
  <2>2. new = {content} /\ Single(new) /\ new # {}
    BY DEF Single
  <2> HIDE DEF new
  <2>3. IsRequest(g) /\ g.gen = f.gen /\ g.refreshing = f.refreshing /\ g.status = 200 /\ g.body = new
    BY <1>1, <2>2 DEF IsRequest
  <2> HIDE DEF g
  <2>4. View!Current(g) => /\ g.status = 200 => Pending \/ \E b : g.body = {b} /\ Holds(b)
                           /\ g.status = 304 => Pending \/ \E b : g.tag = {b} /\ Holds(b)
    BY <1>1, <2>2, <2>3
  <2> QED BY <1>1, <2>1, <2>3, <2>4, SwapKeeps
<1> QED BY <1>2, <1>3

\* An answer that counts is shown; one that does not leaves the one that does under way.
LEMMA ReceiveKeeps ==
    ASSUME ViewInv, Still, NEW f \in fetches, View!Receive(f)
    PROVE  ViewInv'
<1>1. /\ f.status # 0 /\ UNCHANGED <<conn, frames, generation>>
      /\ IsRequest(f) /\ Single(cache)
  BY DEF View!Receive, ViewInv, ViewType
<1>2. CASE View!Body(f) = {}
  <2> DEFINE g == [f EXCEPT !.tag = {}, !.status = 0]
  <2>1. /\ fetches' = (fetches \ {f}) \cup {g}
        /\ UNCHANGED <<cache, shown, problem, overtaken>>
    BY <1>2 DEF View!Receive
  <2>2. f.status = 304 /\ f.body = {}
    BY <1>1, <1>2 DEF View!Body, IsRequest
  <2>3. IsRequest(g) /\ g.gen = f.gen /\ g.refreshing = f.refreshing /\ g.status = 0
    BY <1>1, <2>2 DEF IsRequest, Single
  <2> HIDE DEF g
  <2> QED BY <1>1, <2>1, <2>3, SwapKeeps
<1>3. CASE View!Body(f) # {}
  <2>1. fetches' = fetches \ {f} /\ cache' = View!Body(f)
    BY <1>3 DEF View!Receive
  <2>2. Single(View!Body(f))
    BY <1>1 DEF View!Body, IsRequest
  <2>3. IsFiniteSet(fetches') /\ Cardinality(fetches') <= MaxFetches
    BY <2>1, Replaced, Bounds DEF ViewInv, ViewType
  <2>4. \A h : (IsRequest(h)' <=> IsRequest(h)) /\ (View!Current(h)' <=> View!Current(h))
    BY <1>1 DEF IsRequest, View!Current
  <2>5. Pending' <=> Pending
    BY <1>1 DEF Pending
  <2>6. AnswersHold'
    BY <2>1, <2>4, <2>5, StillHolds DEF ViewInv, AnswersHold
  <2>7. CASE ~View!Current(f)
    <3>1. UNCHANGED <<shown, problem, overtaken>>
      BY <2>7, <1>3 DEF View!Receive
    <3>2. ViewType'
      BY <1>1, <2>1, <2>2, <2>3, <2>4, <3>1 DEF ViewInv, ViewType
    <3>3. ReasonGiven'
      BY <2>1, <2>4, <2>5, <2>7, <3>1, StillHolds DEF ViewInv, ReasonGiven
    <3> QED BY <2>6, <3>2, <3>3 DEF ViewInv
  <2>8. CASE View!Current(f)
    <3>1. /\ shown' = View!Body(f) /\ problem' = "none"
          /\ overtaken' = (f.status = 304 /\ cache # f.tag)
      BY <2>8, <1>3 DEF View!Receive
    <3>2. \A h \in fetches' : ~View!Current(h)'
      BY <2>1, <2>4, <2>8 DEF ViewInv, ViewType
    <3>3. ViewType'
      BY <1>1, <2>1, <2>2, <2>3, <2>4, <3>1, <3>2 DEF ViewInv, ViewType
    <3>4. CASE f.status = 200
      <4>1. Pending \/ \E b : f.body = {b} /\ Holds(b)
        BY <2>8, <3>4 DEF ViewInv, AnswersHold
      <4>2. View!Body(f) = f.body
        BY <3>4 DEF View!Body
      <4>3. ReasonGiven'
        BY <2>5, <3>1, <4>1, <4>2, StillHolds DEF ReasonGiven
      <4> QED BY <2>6, <3>3, <4>3 DEF ViewInv
    <3>5. CASE f.status = 304
      <4>1. Pending \/ \E b : f.tag = {b} /\ Holds(b)
        BY <2>8, <3>5 DEF ViewInv, AnswersHold
      <4>2. View!Body(f) = cache
        BY <3>5 DEF View!Body
      <4>3. cache # f.tag => overtaken'
        BY <3>1, <3>5, Zenon
      <4>4. ReasonGiven'
        BY <2>5, <3>1, <4>1, <4>2, <4>3, StillHolds DEF ReasonGiven
      <4> QED BY <2>6, <3>3, <4>4 DEF ViewInv
    <3> QED BY <3>4, <3>5, <1>1 DEF IsRequest
  <2> QED BY <2>7, <2>8
<1> QED BY <1>2, <1>3

\* A request that counts and fails leaves its problem.
LEMMA FailKeeps ==
    ASSUME ViewInv, Still, NEW f \in fetches, View!FailFetch(f)
    PROVE  ViewInv'
<1>1. /\ fetches' = fetches \ {f}
      /\ problem' = IF ~View!Current(f) THEN problem ELSE IF f.refreshing THEN "refresh" ELSE "error"
      /\ UNCHANGED <<conn, frames, generation, cache, shown, overtaken>>
  BY DEF View!FailFetch
<1>2. IsFiniteSet(fetches') /\ Cardinality(fetches') <= MaxFetches
  BY <1>1, Replaced, Bounds DEF ViewInv, ViewType
<1>3. \A h : (IsRequest(h)' <=> IsRequest(h)) /\ (View!Current(h)' <=> View!Current(h))
  BY <1>1 DEF IsRequest, View!Current
<1>4. Pending' <=> Pending
  BY <1>1 DEF Pending
<1>5. problem' \in {"none", "error", "refresh"} /\ (problem' = "error" => shown = {})
  BY <1>1 DEF ViewInv, ViewType
<1>6. ViewType'
  BY <1>1, <1>2, <1>3, <1>5 DEF ViewInv, ViewType
<1>7. AnswersHold'
  BY <1>1, <1>3, <1>4, StillHolds DEF ViewInv, AnswersHold
<1>8. ReasonGiven'
  <2>1. CASE View!Current(f)
    BY <2>1, <1>1 DEF ReasonGiven
  <2>2. CASE ~View!Current(f)
    BY <2>2, <1>1, <1>3, <1>4, StillHolds DEF ViewInv, ReasonGiven
  <2> QED BY <2>1, <2>2
<1> QED BY <1>6, <1>7, <1>8 DEF ViewInv

\* While the stream is not open the page has a reason, and its opening reads again; an
\* announcement is a reason until it is noticed, and then the page reads again.
LEMMA StreamKeeps ==
    ASSUME ViewInv, Still, View!Stream
    PROVE  ViewInv'
<1>0. ViewType
  BY DEF ViewInv
<1>1. CASE View!Connect \/ View!Drop
  <2>1. /\ UNCHANGED <<fetches, generation, cache, shown, problem, overtaken>> /\ conn' # "open"
        /\ conn' \in {"down", "subscribed", "open"} /\ frames' \in Nat /\ (conn' = "down" => frames' = 0)
    BY <1>0, <1>1 DEF View!Connect, View!Drop, View!viewVars, View!cacheVars, ViewType
  <2>2. \A h : (IsRequest(h)' <=> IsRequest(h)) /\ (View!Current(h)' <=> View!Current(h))
    BY <2>1 DEF IsRequest, View!Current
  <2>3. ViewType'
    BY <1>0, <2>1, <2>2 DEF ViewType
  <2>4. Pending'
    BY <2>1 DEF Pending
  <2>5. AnswersHold' /\ ReasonGiven'
    BY <2>4 DEF AnswersHold, ReasonGiven
  <2> QED BY <2>3, <2>5 DEF ViewInv
<1>2. CASE View!Open
  <2>1. conn' = "open" /\ View!Reload(cache) /\ frames' = frames /\ cache' = cache
    BY <1>2 DEF View!Open
  <2>2. Single(cache) /\ Single(cache') /\ frames' \in Nat
    BY <1>0, <2>1 DEF ViewType
  <2> QED BY <2>1, <2>2, ReloadKeeps
<1>3. CASE View!Notice
  <2>1. conn' = "open" /\ View!Reload(cache) /\ frames > 0 /\ frames' = frames - 1 /\ cache' = cache
    BY <1>3 DEF View!Notice
  <2>2. Single(cache) /\ Single(cache') /\ frames' \in Nat
    BY <1>0, <2>1 DEF ViewType
  <2> QED BY <2>1, <2>2, ReloadKeeps
<1> QED BY <1>1, <1>2, <1>3 DEF View!Stream

\* A page told of a change reads again, connected or once it is; one that is not told is
\* left with what holds.
LEMMA ServerKeeps ==
    ASSUME ViewInv, Told \/ Calm, UNCHANGED <<conn, fetches, generation, cache, shown, problem, overtaken>>
    PROVE  ViewInv'
<1>0. ViewType
  BY DEF ViewInv
<1>1. \A h : (IsRequest(h)' <=> IsRequest(h)) /\ (View!Current(h)' <=> View!Current(h))
  BY DEF IsRequest, View!Current
<1>2. frames' \in Nat /\ (conn' = "down" => frames' = 0)
  BY <1>0 DEF ViewType, Told, Calm
<1>3. ViewType'
  BY <1>0, <1>1, <1>2 DEF ViewType
<1>4. CASE Told
  <2>1. Pending'
    BY <1>0, <1>4 DEF ViewType, Told, Pending
  <2> QED BY <1>3, <2>1 DEF ViewInv, AnswersHold, ReasonGiven
<1>5. CASE Calm
  <2>1. (Pending' <=> Pending) /\ \A b : Holds(b) => Holds(b)'
    BY <1>5 DEF Calm, Pending
  <2>2. AnswersHold'
    BY <1>1, <2>1 DEF ViewInv, AnswersHold
  <2>3. ReasonGiven'
    BY <1>1, <2>1 DEF ViewInv, ReasonGiven
  <2> QED BY <1>3, <2>2, <2>3 DEF ViewInv
<1> QED BY <1>4, <1>5

\* A page just opened: its first request counts and is unanswered.
LEMMA OpenedKeeps ==
    ASSUME NEW g \in Nat \ {0}, generation' = g,
           fetches' = {[gen |-> g, tag |-> {}, refreshing |-> FALSE, status |-> 0, body |-> {}]},
           cache' = {}, shown' = {}, problem' = "none",
           conn' \in {"down", "subscribed", "open"}, frames' \in Nat, conn' = "down" => frames' = 0
    PROVE  ViewInv'
<1> DEFINE f == [gen |-> g, tag |-> {}, refreshing |-> FALSE, status |-> 0, body |-> {}]
<1>1. /\ DOMAIN f = {"gen", "tag", "refreshing", "status", "body"}
      /\ f.gen = g /\ f.tag = {} /\ f.status = 0 /\ f.body = {}
  OBVIOUS
<1>2. fetches' = {f}
  OBVIOUS
<1> HIDE DEF f
<1>3. IsFiniteSet(fetches') /\ Cardinality(fetches') <= MaxFetches
  <2>1. IsFiniteSet({f}) /\ Cardinality({f}) = 1
    BY FS_Singleton
  <2> QED BY <1>2, <2>1, Bounds
<1>4. IsRequest(f)' /\ View!Current(f)'
  BY <1>1 DEF IsRequest, View!Current, Single
<1>5. ViewType'
  BY <1>2, <1>3, <1>4 DEF ViewType, Single
<1>6. AnswersHold' /\ ReasonGiven'
  BY <1>1, <1>2, <1>4 DEF AnswersHold, ReasonGiven
<1> QED BY <1>5, <1>6 DEF ViewInv


-----------------------------------------------------------------------------
(* Requests                                                                 *)

\* The user's write and those of others are requests the routes serve.
MutationInv ==
    mutation = {} \/ \E m : mutation = {m} /\ DOMAIN m = {"op", "answer"} /\ Served(m.op)
OthersInv == \E S : others \in Seq(S) /\ \A op \in S : Served(op)

ClientInv == MarketInv /\ UserInv /\ MutationInv /\ OthersInv /\ ViewInv

\* Whatever a page offers is served.
LEMMA BidsServed ==
    ASSUME NEW u, NEW c, NEW auctions, NEW who
    PROVE  \A op \in BidOffers(u, c, auctions, who) : Served(op)
<1>1. \A op \in BidOffers(u, c, auctions, who) : op.kind = "BID_SUBMISSION"
  BY DEF BidOffers
<1> QED BY <1>1 DEF Served, Kinds

LEMMA AuctionsServed ==
    ASSUME NEW u, NEW c, NEW data
    PROVE  \A op \in OffersOfAuctions(u, c, data) : Served(op)
<1>1. \A op \in NewAuctions(u, c) : op.kind = "AUCTION_CREATE" /\ op.size = 1
  <2> DEFINE listed == GetBonds(c, FALSE)
  <2>1. NewAuctions(u, c) =
          LET types(bond) == IF bond.auctions = <<>> THEN {"RATE"} ELSE {"PRICE", "BUYBACK"}
          IN  IF ~CanOperate(u) THEN {}
              ELSE UNION {{[kind |-> "AUCTION_CREATE", type |-> t, size |-> 1, end |-> c.clock + 1] : t \in types(b)}
                            : b \in listed}
    BY Zenon DEF NewAuctions
  <2> HIDE DEF listed
  <2> QED BY <2>1
<1>2. \A k, auction : \A op \in Finalisations(k, auction) : op.kind = "AUCTION_FINALISE"
  <2> SUFFICES ASSUME NEW k, NEW auction, NEW op \in Finalisations(k, auction) PROVE op.kind = "AUCTION_FINALISE"
    OBVIOUS
  <2> DEFINE rate(winners) == MarginalClearingRate(SelectSeq(auction.bids, LAMBDA b : b.index \in winners),
                                                   auction.type, auction.size)
             W == {x \in (SUBSET DOMAIN auction.bids) \ {{}} : ~auction.sealed}
  <2>1. op \in {[kind |-> "AUCTION_FINALISE", auction |-> k, winners |-> winners, rate |-> rate(winners)] : winners \in W}
    BY Zenon DEF Finalisations
  <2> HIDE DEF rate, W
  <2> QED BY <2>1
<1>3. \A k, auction : \A op \in LifecycleOffers(u, k, auction) :
          op.kind \in {"AUCTION_CLOSE", "AUCTION_CANCEL", "AUCTION_FINALISE"}
  BY <1>2 DEF LifecycleOffers
<1>4. \A k : \A op \in OffersOfAuction(u, c, k, data) : Served(op)
  <2>1. \A k : \A op \in LifecycleOffers(u, k, data[k]) : Served(op)
    BY <1>3 DEF Served, Kinds, Managed
  <2> QED BY <2>1, BidsServed DEF OffersOfAuction
<1>5. \A op \in NewAuctions(u, c) : Served(op)
  BY <1>1 DEF Served, Kinds, Managed
<1> QED BY <1>4, <1>5 DEF OffersOfAuctions

LEMMA MoneyServed ==
    ASSUME NEW c, NEW data
    PROVE  /\ \A op \in OffersOfCentralBank(data) : Served(op)
           /\ \A op \in OffersOfBanking(c, data) : Served(op)
<1>1. \A op \in OffersOfCentralBank(data) : op.kind \in DOMAIN Wnok
  BY KindDomains DEF OffersOfCentralBank, WnokMints, WnokBurns, WnokTransfers, WnokAdditions
<1>2. ASSUME NEW op \in OffersOfBanking(c, data) PROVE op.kind \in DOMAIN TbdCalls \cup {"BANK_CREATE"}
  <2>1. CASE op \in NewBanks(c, data)
    <3>1. op.kind = "BANK_CREATE"
      BY <2>1 DEF NewBanks
    <3> QED BY <3>1
  <2>2. CASE op \notin NewBanks(c, data)
    <3> PICK k : \/ op \in DepositMints(k) \/ op \in DepositTransfers(k)
                 \/ op \in DepositAdditions(k, data[k].tbd.listed)
                 \/ op \in {[kind |-> "TBD_ALLOWLIST_REMOVE", tbd |-> k, who |-> a] : a \in data[k].tbd.listed}
      BY <1>2, <2>2 DEF OffersOfBanking
    <3>1. op.kind \in {"TBD_MINT", "TBD_BURN", "TBD_TRANSFER", "TBD_ALLOWLIST_ADD", "TBD_ALLOWLIST_REMOVE"}
      BY DEF DepositMints, DepositTransfers, DepositAdditions
    <3> QED BY <3>1, KindDomains
  <2> QED BY <2>1, <2>2
<1>3. \A op : op.kind \in DOMAIN Wnok \cup DOMAIN TbdCalls \cup {"BANK_CREATE"} => Served(op)
  BY KindDomains DEF Served, Kinds
<1> QED BY <1>1, <1>2, <1>3

LEMMA OffersServed ==
    ASSUME NEW u, u.page \in Pages, NEW c, NEW data
    PROVE  \A op \in Offers(u, c, data) : Served(op)
<1>1. u.page = "bonds" => Offers(u, c, data) = OffersOfBonds(u, data)
  BY DEF Offers
<1>2. u.page = "bond" => Offers(u, c, data) = OffersOfBond(u, data)
  BY DEF Offers
<1>3. u.page = "auctions" => Offers(u, c, data) = OffersOfAuctions(u, c, data)
  BY DEF Offers
<1>4. u.page = "coupon-payout" => Offers(u, c, data) = OffersOfCoupons(data)
  BY DEF Offers
<1>5. u.page = "bidders" => Offers(u, c, data) = OffersOfBidders(u, c, data)
  BY DEF Offers
<1>6. u.page = "tbd" => Offers(u, c, data) = OffersOfBanking(c, data)
  BY DEF Offers
<1>7. u.page = "central-bank" => Offers(u, c, data) = OffersOfCentralBank(data)
  BY DEF Offers
<1>8. u.page \in {"registry", "operations"} => Offers(u, c, data) = {}
  BY DEF Offers
<1>9. \A op : op.kind \in {"BOND_CREATE", "BOND_DISABLE", "COUPON_PAYMENT", "BIDDER_CREATE", "BIDDER_DELETE"} => Served(op)
  BY DEF Served, Kinds, Managed
<1>10. \A op \in OffersOfBonds(u, data) \cup OffersOfBond(u, data) \cup OffersOfCoupons(data) : Served(op)
  <2>1. \A op \in OffersOfBonds(u, data) : op.kind = "BOND_CREATE"
    BY DEF OffersOfBonds, NewBonds
  <2>2. \A op \in OffersOfBond(u, data) : op.kind = "BOND_DISABLE"
    BY DEF OffersOfBond
  <2>3. \A op \in OffersOfCoupons(data) : op.kind = "COUPON_PAYMENT"
    BY DEF OffersOfCoupons
  <2> QED BY <2>1, <2>2, <2>3, <1>9
<1>11. \A op \in OffersOfBidders(u, c, data) : Served(op)
  <2> DEFINE rows == {[kind |-> "BIDDER_DELETE", who |-> a] : a \in DOMAIN data}
             listed == GetBonds(c, FALSE)
             bids == UNION {BidOffers(u, c, b.auctions, DOMAIN data) : b \in listed}
  <2>1. \A op \in rows : op.kind = "BIDDER_DELETE"
    OBVIOUS
  <2>2. \A op \in NewBidders(data) : op.kind = "BIDDER_CREATE"
    BY DEF NewBidders
  <2>3. \A op \in bids : Served(op)
    <3> HIDE DEF listed
    <3> QED BY BidsServed
  <2>4. OffersOfBidders(u, c, data) = rows \cup NewBidders(data) \cup bids
    BY DEF OffersOfBidders
  <2> HIDE DEF rows, bids
  <2> QED BY <2>1, <2>2, <2>3, <2>4, <1>9
<1>12. \/ u.page = "bonds" \/ u.page = "bond" \/ u.page = "auctions" \/ u.page = "coupon-payout"
       \/ u.page = "bidders" \/ u.page = "tbd" \/ u.page = "central-bank"
       \/ u.page \in {"registry", "operations"}
  BY DEF Pages, BondPages
<1> QED BY <1>1, <1>2, <1>3, <1>4, <1>5, <1>6, <1>7, <1>8, <1>10, <1>11, <1>12, AuctionsServed, MoneyServed

LEMMA WriteMember ==
    ASSUME MutationInv, mutation # {}
    PROVE  mutation = {Write} /\ DOMAIN Write = {"op", "answer"} /\ Served(Write.op)
<1> PICK m : mutation = {m} /\ DOMAIN m = {"op", "answer"} /\ Served(m.op)
  BY DEF MutationInv
<1>1. Write \in mutation
  <2>1. m \in mutation
    OBVIOUS
  <2> QED BY <2>1, Zenon DEF Write
<1>2. Write = m
  BY <1>1
<1> HIDE DEF Write
<1> QED BY <1>2

-----------------------------------------------------------------------------
(* Steps                                                                    *)

LEMMA ClientInit == Init => ClientInv
<1> SUFFICES ASSUME Init PROVE ClientInv
  OBVIOUS
<1> PICK s \in Scenarios :
        /\ head = Last(s.history)
        /\ seen = s.history[Len(s.history) - s.lag]
        /\ clock = head.time
        /\ user = s.user /\ others = s.others /\ mutation = {}
        /\ conn = "down" /\ frames = 0 /\ generation = 1
        /\ fetches = {[gen |-> 1, tag |-> {}, refreshing |-> FALSE, status |-> 0, body |-> {}]}
        /\ cache = {} /\ shown = {} /\ problem = "none" /\ overtaken = FALSE
  BY DEF Init
<1> DEFINE h == s.history
           n == Len(h)
<1>1. /\ h \in Seq(Range(h)) /\ s.lag \in 0 .. n - 1
      /\ \A b \in DOMAIN h : IsMarket(h[b]) /\ IssuedFirst(h[b]) /\ h[b].time \in Nat
      /\ \A a, b \in DOMAIN h : a <= b => Later(h[b], h[a])
      /\ DOMAIN s.user = {"page", "role", "testMode", "showDisabled"} /\ s.user.page \in DOMAIN PageKeys /\ MayOpen(s.user)
      /\ s.others \in Seq(Range(s.others)) /\ \A k \in DOMAIN s.others : Served(s.others[k])
  BY BrowserAssumption
<1>2. /\ n \in Nat /\ DOMAIN h = 1 .. n /\ n \in DOMAIN h /\ n - s.lag \in DOMAIN h /\ n - s.lag <= n
      /\ head = h[n] /\ seen = h[n - s.lag]
  BY <1>1 DEF Last
<1>3. MarketInv
  <2>1. \A w : IsMarket(w) /\ IssuedFirst(w) => Sound(w)
    BY NoMarketFields DEF IsMarket, Sound, Typed
  <2>2. Sound(head) /\ Sound(seen) /\ head.time \in Nat /\ seen.time \in Nat
    BY <1>1, <1>2, <2>1
  <2>3. Later(head, seen)
    BY <1>1, <1>2
  <2> QED BY <2>2, <2>3 DEF MarketInv, Later
<1>4. UserInv
  BY <1>1, PageResources DEF UserInv
<1>5. MutationInv
  BY DEF MutationInv
<1>6. OthersInv
  <2>1. \A op \in Range(s.others) : Served(op)
    BY <1>1 DEF Range
  <2> QED BY <1>1, <2>1 DEF OthersInv
<1>7. ViewInv
  <2> DEFINE f == [gen |-> 1, tag |-> {}, refreshing |-> FALSE, status |-> 0, body |-> {}]
  <2>1. /\ DOMAIN f = {"gen", "tag", "refreshing", "status", "body"}
        /\ f.gen = 1 /\ f.tag = {} /\ f.status = 0 /\ f.body = {} /\ fetches = {f}
    OBVIOUS
  <2> HIDE DEF f
  <2>2. IsFiniteSet(fetches) /\ Cardinality(fetches) <= MaxFetches
    <3>1. IsFiniteSet({f}) /\ Cardinality({f}) = 1
      BY FS_Singleton
    <3> QED BY <2>1, <3>1, Bounds
  <2>3. IsRequest(f) /\ View!Current(f)
    BY <2>1 DEF IsRequest, View!Current, Single
  <2>4. ViewType
    BY <2>1, <2>2, <2>3 DEF ViewType, Single
  <2>5. AnswersHold /\ ReasonGiven
    BY <2>1, <2>3 DEF AnswersHold, ReasonGiven
  <2> QED BY <2>4, <2>5 DEF ViewInv
<1> QED BY <1>3, <1>4, <1>5, <1>6, <1>7 DEF ClientInv

LEMMA PageStep == ClientInv /\ OfPage => ClientInv'
<1> SUFFICES ASSUME ClientInv, OfPage PROVE ClientInv'
  OBVIOUS
<1>1. Still /\ UNCHANGED <<serverVars, clock, userVars>> /\ (View!Transfer \/ View!Stream)
  BY DEF OfPage, Still, userVars
<1>2. MarketInv' /\ UserInv' /\ MutationInv' /\ OthersInv'
  BY <1>1 DEF ClientInv, MarketInv, UserInv, MutationInv, OthersInv, serverVars, userVars
<1>3. ViewInv'
  <2>1. CASE View!Transfer
    <3> PICK f \in fetches : View!Answer(f) \/ View!Receive(f) \/ View!FailFetch(f)
      BY <2>1 DEF View!Transfer
    <3> QED BY <1>1, AnswerKeeps, ReceiveKeeps, FailKeeps DEF ClientInv
  <2>2. CASE View!Stream
    BY <1>1, <2>2, StreamKeeps DEF ClientInv
  <2> QED BY <1>1, <2>1, <2>2
<1> QED BY <1>2, <1>3 DEF ClientInv

\* A step that leaves the page alone
LEMMA ViewStays ==
    ASSUME ViewInv, Still, UNCHANGED viewVars, UNCHANGED <<conn, frames>>
    PROVE  ViewInv'
<1>1. Calm
  BY StillHolds DEF Calm
<1> QED BY <1>1, ServerKeeps DEF viewVars

LEMMA ClickStep == ClientInv /\ Click => ClientInv'
<1> SUFFICES ASSUME ClientInv, Click PROVE ClientInv'
  OBVIOUS
<1>1. /\ UNCHANGED <<serverVars, clock, user, others, viewVars, conn, frames, faults>>
      /\ \E op \in Offers(user, Here, Data) : mutation' = {[op |-> op, answer |-> 0]}
  BY Zenon DEF Click
<1>2. MarketInv' /\ UserInv' /\ OthersInv'
  BY <1>1 DEF ClientInv, MarketInv, UserInv, OthersInv, serverVars
<1>3. MutationInv'
  <2> PICK op \in Offers(user, Here, Data) : mutation' = {[op |-> op, answer |-> 0]}
    BY <1>1
  <2>1. user.page \in Pages
    BY DEF ClientInv, UserInv
  <2>2. Served(op)
    BY <2>1, OffersServed
  <2> DEFINE m == [op |-> op, answer |-> 0]
  <2>3. mutation' = {m} /\ DOMAIN m = {"op", "answer"} /\ m.op = op
    OBVIOUS
  <2> HIDE DEF m
  <2> QED BY <2>2, <2>3 DEF MutationInv
<1>4. ViewInv'
  BY <1>1, ViewStays DEF ClientInv, Still
<1> QED BY <1>2, <1>3, <1>4 DEF ClientInv

LEMMA HandleStep == ClientInv /\ Handle => ClientInv'
<1> SUFFICES ASSUME ClientInv, Handle PROVE ClientInv'
  OBVIOUS
<1>1. mutation = {Write} /\ DOMAIN Write = {"op", "answer"} /\ Served(Write.op)
  BY WriteMember DEF ClientInv, Handle
<1> PICK code \in {200, 202, 204, 400, 403, 404, 409, 500} :
        /\ TakeEffect(user.role, Write.op, code)
        /\ mutation' = {[Write EXCEPT !.answer = code]}
  BY Zenon DEF Handle
<1>2. UNCHANGED <<clock, user, clicks, others, viewVars, conn, faults>>
  BY DEF Handle
<1>3. MarketInv' /\ (Told \/ Calm)
  BY <1>1, <1>2, ServerStep DEF ClientInv
<1>4. MutationInv'
  <2> DEFINE w == Write
             m == [w EXCEPT !.answer = code]
  <2>1. mutation' = {m} /\ DOMAIN w = {"op", "answer"} /\ Served(w.op)
    BY <1>1
  <2> HIDE DEF w
  <2>2. DOMAIN m = {"op", "answer"} /\ m.op = w.op
    BY <2>1
  <2> HIDE DEF m
  <2> QED BY <2>1, <2>2 DEF MutationInv
<1>5. UserInv' /\ OthersInv'
  BY <1>2 DEF ClientInv, UserInv, OthersInv
<1>6. ViewInv'
  BY <1>2, <1>3, ServerKeeps DEF ClientInv, viewVars
<1> QED BY <1>3, <1>4, <1>5, <1>6 DEF ClientInv

LEMMA OtherUserStep == ClientInv /\ OtherUser => ClientInv'
<1> SUFFICES ASSUME ClientInv, OtherUser PROVE ClientInv'
  OBVIOUS
<1>1. /\ others # <<>> /\ others' = Tail(others)
      /\ UNCHANGED <<clock, user, clicks, mutation, viewVars, conn, faults>>
  BY DEF OtherUser
<1> PICK S : others \in Seq(S) /\ \A op \in S : Served(op)
  BY DEF ClientInv, OthersInv
<1>2. Head(others) \in S /\ Tail(others) \in Seq(S)
  BY <1>1
<1> PICK code : TakeEffect("operator", Head(others), code)
  BY Zenon DEF OtherUser
<1>3. MarketInv' /\ (Told \/ Calm)
  BY <1>1, <1>2, ServerStep DEF ClientInv
<1>4. OthersInv'
  BY <1>1, <1>2 DEF OthersInv
<1>5. UserInv' /\ MutationInv'
  BY <1>1 DEF ClientInv, UserInv, MutationInv
<1>6. ViewInv'
  BY <1>1, <1>3, ServerKeeps DEF ClientInv, viewVars
<1> QED BY <1>3, <1>4, <1>5, <1>6 DEF ClientInv

LEMMA TimeStep == ClientInv /\ (Project \/ Tick) => ClientInv'
<1> SUFFICES ASSUME ClientInv, Project \/ Tick PROVE ClientInv'
  OBVIOUS
<1>1. UNCHANGED <<userVars, viewVars, conn>>
  BY DEF Project, Tick
<1>2. MarketInv' /\ (Told \/ Calm)
  BY ProjectStep, TickStep DEF ClientInv
<1>3. UserInv' /\ MutationInv' /\ OthersInv'
  BY <1>1 DEF ClientInv, UserInv, MutationInv, OthersInv, userVars
<1>4. ViewInv'
  BY <1>1, <1>2, ServerKeeps DEF ClientInv, viewVars
<1> QED BY <1>2, <1>3, <1>4 DEF ClientInv

LEMMA ReturnStep == ClientInv /\ Return => ClientInv'
<1> SUFFICES ASSUME ClientInv, Return PROVE ClientInv'
  OBVIOUS
<1>1. mutation' = {} /\ UNCHANGED <<serverVars, clock, clicks, others, conn, frames, faults>>
  BY DEF Return
<1>2. MarketInv' /\ MutationInv' /\ OthersInv'
  BY <1>1 DEF ClientInv, MarketInv, MutationInv, OthersInv, serverVars
<1>3. /\ conn' \in {"down", "subscribed", "open"} /\ frames' \in Nat /\ (conn' = "down" => frames' = 0)
      /\ generation \in Nat \ {0}
  BY <1>1 DEF ClientInv, ViewInv, ViewType
<1>4. \/ UNCHANGED <<user, viewVars>>
      \/ cache' = {} /\ UNCHANGED <<user, fetches, generation, shown, problem, overtaken>>
      \/ Visit([user EXCEPT !.page = "bond"])
      \/ Visit([user EXCEPT !.page = "bonds", !.showDisabled = TRUE])
      \/ cache' = {} /\ View!Reload({}) /\ UNCHANGED user
  BY Zenon DEF Return
<1>5. CASE UNCHANGED <<user, viewVars>>
  BY <1>1, <1>2, <1>5, ViewStays DEF ClientInv, UserInv, Still
<1>6. CASE cache' = {} /\ UNCHANGED <<user, fetches, generation, shown, problem, overtaken>>
  <2>1. Still
    BY <1>1, <1>6 DEF Still
  <2>2. \A h : (IsRequest(h)' <=> IsRequest(h)) /\ (View!Current(h)' <=> View!Current(h))
    BY <1>6 DEF IsRequest, View!Current
  <2>3. Pending' <=> Pending
    BY <1>1 DEF Pending
  <2>4. ViewType'
    BY <1>1, <1>6, <2>2 DEF ClientInv, ViewInv, ViewType, Single
  <2>5. AnswersHold'
    BY <1>6, <2>1, <2>2, <2>3, StillHolds DEF ClientInv, ViewInv, AnswersHold
  <2>6. ReasonGiven'
    BY <1>6, <2>1, <2>2, <2>3, StillHolds DEF ClientInv, ViewInv, ReasonGiven
  <2>7. UserInv'
    BY <1>6 DEF ClientInv, UserInv
  <2> QED BY <1>2, <2>4, <2>5, <2>6, <2>7 DEF ClientInv, ViewInv
<1>7. ASSUME NEW u, Visit(u), DOMAIN u = DOMAIN user, u.page \in {"bond", "bonds"} PROVE ClientInv'
  <2>1. /\ user' = u /\ generation' = generation + 1
        /\ fetches' = {[gen |-> generation + 1, tag |-> {}, refreshing |-> FALSE, status |-> 0, body |-> {}]}
        /\ cache' = {} /\ shown' = {} /\ problem' = "none"
    BY <1>7 DEF Visit
  <2>2. UserInv'
    BY <1>7, <2>1 DEF ClientInv, UserInv, Pages, BondPages, MayOpen, OperatorOnlyPages
  <2>3. generation + 1 \in Nat \ {0}
    BY <1>3
  <2>4. ViewInv'
    BY <1>3, <2>1, <2>3, OpenedKeeps
  <2> QED BY <1>2, <2>2, <2>4 DEF ClientInv
<1>8. CASE cache' = {} /\ View!Reload({}) /\ UNCHANGED user
  <2>1. Single({}) /\ Single(cache')
    BY <1>8 DEF Single
  <2>2. ViewInv'
    BY <1>3, <1>8, <2>1, ReloadKeeps DEF ClientInv
  <2>3. UserInv'
    BY <1>8 DEF ClientInv, UserInv
  <2> QED BY <1>2, <2>2, <2>3 DEF ClientInv
<1>9. CASE Visit([user EXCEPT !.page = "bond"])
  <2> DEFINE u == [user EXCEPT !.page = "bond"]
  <2>1. DOMAIN u = DOMAIN user /\ u.page = "bond" /\ Visit(u)
    BY <1>9 DEF ClientInv, UserInv
  <2> HIDE DEF u
  <2> QED BY <1>7, <2>1
<1>10. CASE Visit([user EXCEPT !.page = "bonds", !.showDisabled = TRUE])
  <2> DEFINE u == [user EXCEPT !.page = "bonds", !.showDisabled = TRUE]
  <2>1. DOMAIN u = DOMAIN user /\ u.page = "bonds" /\ Visit(u)
    BY <1>10 DEF ClientInv, UserInv
  <2> HIDE DEF u
  <2> QED BY <1>7, <2>1
<1> QED BY <1>4, <1>5, <1>6, <1>8, <1>9, <1>10

LEMMA ClientStep == ClientInv /\ [Next]_vars => ClientInv'
<1> SUFFICES ASSUME ClientInv, [Next]_vars PROVE ClientInv'
  OBVIOUS
<1>1. CASE UNCHANGED vars
  <2>1. Still /\ UNCHANGED <<serverVars, clock, userVars, viewVars, conn, frames>>
    BY <1>1 DEF vars, userVars, Still
  <2>2. MarketInv' /\ UserInv' /\ MutationInv' /\ OthersInv'
    BY <2>1 DEF ClientInv, MarketInv, UserInv, MutationInv, OthersInv, serverVars, userVars
  <2>3. ViewInv'
    BY <2>1, ViewStays DEF ClientInv
  <2> QED BY <2>2, <2>3 DEF ClientInv
<1>2. CASE Stop
  BY <1>1, <1>2 DEF Stop
<1> QED BY <1>1, <1>2, PageStep, ClickStep, HandleStep, ReturnStep, OtherUserStep, TimeStep DEF Next

LEMMA ClientAlways == Spec => []ClientInv
BY ClientInit, ClientStep, PTL DEF Spec

-----------------------------------------------------------------------------

\* The type invariant of Client, for any scenarios and bounds: one write at a time, an error
\* only as long as nothing is shown, requests of the present or an earlier run of the effect,
\* nobody on a page closed to them (useApi.js:22-66, App.jsx, httpClient.js:122-152).
THEOREM ClientTypeTheorem == Spec => []TypeOK
<1>1. ClientInv => TypeOK
  <2> SUFFICES ASSUME ClientInv PROVE TypeOK
    OBVIOUS
  <2>1. ASSUME NEW S, Single(S) PROVE Cardinality(S) <= 1
    <3>1. CASE S = {}
      BY <3>1, FS_EmptySet
    <3>2. CASE S # {}
      <4> PICK b : S = {b}
        BY <2>1, <3>2 DEF Single
      <4>1. Cardinality({b}) = 1
        BY FS_Singleton
      <4> QED BY <4>1
    <3> QED BY <3>1, <3>2
  <2>2. Single(mutation) /\ Single(cache) /\ Single(shown)
    BY DEF ClientInv, MutationInv, ViewInv, ViewType, Single
  <2>3. Cardinality(mutation) <= 1 /\ Cardinality(cache) <= 1 /\ Cardinality(shown) <= 1
    BY <2>1, <2>2
  <2>4. MayOpen(user)
    BY DEF ClientInv, UserInv
  <2>5. \A f \in fetches : f.gen \in 1 .. generation /\ f.status \in {0, 200, 304} /\ (f.body # {} <=> f.status = 200)
    BY DEF ClientInv, ViewInv, ViewType, IsRequest
  <2> QED BY <2>3, <2>4, <2>5 DEF TypeOK, ClientInv, ViewInv, ViewType
<1> QED BY ClientAlways, <1>1, PTL

\* A page at rest shows what the server would answer, or differs by the time that has
\* passed or by reserves that moved, for any states of the contracts, requests of others,
\* broken streams and failed reads: every change that a page can show is announced to it
\* (app.ts, features/auctions/service.ts, live-events.ts, LiveUpdatesProvider.jsx:53-56).
THEOREM TruthTheorem == Spec => []ShowsTheTruth
<1>1. ClientInv => ShowsTheTruth
  <2> SUFFICES ASSUME ClientInv, AtRest, problem = "none", ~overtaken
               PROVE  shown = {content} \/ OnlyTimePassed \/ OnlyReservesMoved
    BY DEF ShowsTheTruth
  <2>1. conn = "open" /\ frames = 0 /\ fetches = {}
    BY DEF AtRest, View!Quiet
  <2>2. ~Pending
    BY <2>1 DEF Pending
  <2> PICK b : shown = {b} /\ Holds(b)
    BY <2>1, <2>2 DEF ClientInv, ViewInv, ReasonGiven
  <2>3. CASE user.page \in BondPages
    BY <2>3 DEF Holds, OnlyTimePassed
  <2>4. CASE user.page \notin BondPages
    <3>1. Data = b
      <4>1. b \in shown
        OBVIOUS
      <4>2. Data \in shown
        BY <4>1, Zenon DEF Data
      <4> HIDE DEF Data
      <4> QED BY <4>2
    <3> QED BY <2>4, <3>1 DEF Holds, OnlyReservesMoved
  <2> QED BY <2>3, <2>4
<1> QED BY ClientAlways, <1>1, PTL

-----------------------------------------------------------------------------
(* A page by itself                                                         *)

\* What reads the page again later: the stream when it opens, or an announcement.
PagePending == conn # "open" \/ frames > 0

PageRequest == [gen : Nat, tag : SUBSET Answers, refreshing : BOOLEAN, status : {0, 200, 304},
            body : SUBSET Answers]

PageType ==
    /\ answered \in Answers /\ cache \in SUBSET Answers
    /\ frames \in Nat /\ generation \in Nat
    /\ fetches \in SUBSET PageRequest
    /\ \A f \in fetches : f.gen \in 0 .. generation

\* What the request that counts has been answered is what the server would answer now, or
\* a page that is not yet up to date will read again.
PageAnswers ==
    \A f \in fetches : Page!Current(f) =>
        /\ f.status = 200 => f.body = {answered} \/ PagePending
        /\ f.status = 304 => f.tag = {answered} \/ PagePending

\* As long as the page does not show the truth there is a reason.
PageReason ==
    \/ \E f \in fetches : Page!Current(f)
    \/ problem # "none" \/ overtaken \/ shown = {answered} \/ PagePending

PageInv == PageType /\ PageAnswers /\ PageReason

-----------------------------------------------------------------------------

\* The first request of a mounted page counts and is unanswered.
LEMMA PageInit == Page!Init => PageInv
<1> SUFFICES ASSUME Page!Init PROVE PageInv
  OBVIOUS
<1>1. PageType
  BY DEF Page!Init, PageType, PageRequest
<1>2. PageAnswers
  BY DEF Page!Init, PageAnswers
<1>3. PageReason
  BY DEF Page!Init, PageReason, PagePending
<1> QED BY <1>1, <1>2, <1>3 DEF PageInv

\* A new run of the effect has an unanswered request of its own, and no other counts.
LEMMA PageReloads ==
    ASSUME PageInv, NEW tag \in SUBSET Answers, Page!Reload(tag),
           answered' = answered, cache' \in SUBSET Answers, frames' \in Nat
    PROVE  PageInv'
<1> DEFINE mine == Page!Fetch(generation + 1, tag)
<1>1. /\ mine \in PageRequest /\ mine.gen = generation + 1 /\ mine.status = 0
  BY DEF Page!Fetch, PageRequest, PageInv, PageType
<1>2. /\ generation' = generation + 1 /\ fetches' = fetches \cup {mine}
  BY DEF Page!Reload
<1> HIDE DEF mine
<1>3. PageType'
  BY <1>1, <1>2 DEF PageInv, PageType
<1>4. \A f \in fetches' : Page!Current(f)' => f = mine
  BY <1>1, <1>2 DEF PageInv, PageType, Page!Current
<1>5. PageAnswers'
  BY <1>1, <1>4 DEF PageAnswers
<1>6. PageReason'
  BY <1>1, <1>2 DEF PageReason, Page!Current
<1> QED BY <1>3, <1>5, <1>6 DEF PageInv

\* The server answers with what it has, or confirms a tag that is what it has.
LEMMA PageAnswer ==
    ASSUME PageInv, UNCHANGED answered, NEW f \in fetches, Page!Answer(f)
    PROVE  PageInv'
<1> DEFINE g == IF f.tag = {answered} THEN [f EXCEPT !.status = 304]
                ELSE [f EXCEPT !.status = 200, !.body = {answered}]
<1>1. /\ f \in PageRequest /\ f.gen \in 0 .. generation /\ answered \in Answers
  BY DEF PageInv, PageType
<1>2. /\ fetches' = (fetches \ {f}) \cup {g}
      /\ UNCHANGED <<conn, frames, generation, cache, shown, problem, overtaken>>
  BY DEF Page!Answer
<1>3. /\ g \in PageRequest /\ g.gen = f.gen
      /\ g.status = 200 => g.body = {answered}
      /\ g.status = 304 => g.tag = {answered}
  <2>1. CASE f.tag = {answered}
    <3>1. g = [f EXCEPT !.status = 304]
      BY <2>1
    <3> QED BY <2>1, <3>1, <1>1 DEF PageRequest
  <2>2. CASE f.tag # {answered}
    <3> DEFINE new == {answered}
               h   == [f EXCEPT !.status = 200, !.body = new]
    <3>1. new \in SUBSET Answers
      BY <1>1
    <3>2. h.body = {answered} /\ g = h
      BY <2>2, <1>1 DEF PageRequest
    <3> HIDE DEF new, g
    <3>3. h \in PageRequest /\ h.gen = f.gen /\ h.status = 200
      BY <1>1, <3>1 DEF PageRequest
    <3> HIDE DEF h
    <3> QED BY <3>2, <3>3
  <2> QED BY <2>1, <2>2
<1> HIDE DEF g
<1>4. PageType'
  BY <1>1, <1>2, <1>3 DEF PageInv, PageType
<1>5. PageAnswers'
  BY <1>2, <1>3 DEF PageInv, PageAnswers, Page!Current, PagePending
<1>6. PageReason'
  <2>1. CASE \E h \in fetches : Page!Current(h)
    BY <2>1, <1>2, <1>3 DEF PageReason, Page!Current
  <2>2. CASE ~\E h \in fetches : Page!Current(h)
    BY <2>2, <1>2 DEF PageInv, PageReason, PagePending
  <2> QED BY <2>1, <2>2
<1> QED BY <1>4, <1>5, <1>6 DEF PageInv

\* An answer that counts is shown; one that does not leaves the one that does under way.
LEMMA PageReceives ==
    ASSUME PageInv, UNCHANGED answered, NEW f \in fetches, Page!Receive(f)
    PROVE  PageInv'
<1>1. /\ f \in PageRequest /\ f.gen \in 0 .. generation /\ answered \in Answers /\ cache \in SUBSET Answers
      /\ f.status # 0 /\ UNCHANGED <<conn, frames, generation>>
  BY DEF PageInv, PageType, Page!Receive
<1>2. CASE Page!Body(f) = {}
  <2> DEFINE g == [f EXCEPT !.tag = {}, !.status = 0]
  <2>1. /\ fetches' = (fetches \ {f}) \cup {g}
        /\ UNCHANGED <<cache, shown, problem, overtaken>>
    BY <1>2 DEF Page!Receive
  <2>2. g \in PageRequest /\ g.gen = f.gen /\ g.status = 0
    BY <1>1 DEF PageRequest
  <2> HIDE DEF g
  <2>3. PageType'
    BY <1>1, <2>1, <2>2 DEF PageInv, PageType
  <2>4. PageAnswers'
    BY <1>1, <2>1, <2>2 DEF PageInv, PageAnswers, Page!Current, PagePending
  <2>5. PageReason'
    <3>1. CASE \E h \in fetches : Page!Current(h)
      BY <3>1, <1>1, <2>1, <2>2 DEF PageReason, Page!Current
    <3>2. CASE ~\E h \in fetches : Page!Current(h)
      BY <3>2, <1>1, <2>1 DEF PageInv, PageReason, PagePending
    <3> QED BY <3>1, <3>2
  <2> QED BY <2>3, <2>4, <2>5 DEF PageInv
<1>3. CASE Page!Body(f) # {}
  <2>1. fetches' = fetches \ {f} /\ cache' = Page!Body(f)
    BY <1>3 DEF Page!Receive
  <2>2. Page!Body(f) \in SUBSET Answers
    BY <1>1 DEF Page!Body, PageRequest
  <2>3. PageType'
    BY <1>1, <2>1, <2>2 DEF PageInv, PageType
  <2>4. PageAnswers'
    BY <1>1, <2>1 DEF PageInv, PageAnswers, Page!Current, PagePending
  <2>5. PageReason'
    <3>1. CASE ~Page!Current(f)
      <4>1. UNCHANGED <<shown, problem, overtaken>>
        BY <3>1, <1>3 DEF Page!Receive
      <4> QED BY <3>1, <4>1, <1>1, <2>1 DEF PageInv, PageReason, Page!Current, PagePending
    <3>2. CASE Page!Current(f)
      <4>1. /\ shown' = Page!Body(f)
            /\ overtaken' = (f.status = 304 /\ cache # f.tag)
        BY <3>2, <1>3 DEF Page!Receive
      <4>2. CASE f.status = 200
        <5>1. f.body = {answered} \/ PagePending
          BY <3>2, <4>2 DEF PageInv, PageAnswers
        <5> QED BY <5>1, <4>1, <4>2, <1>1 DEF Page!Body, PageReason, PagePending
      <4>3. CASE f.status = 304
        <5>1. f.tag = {answered} \/ PagePending
          BY <3>2, <4>3 DEF PageInv, PageAnswers
        <5> QED BY <5>1, <4>1, <4>3, <1>1 DEF Page!Body, PageReason, PagePending
      <4> QED BY <4>2, <4>3, <1>1 DEF PageRequest
    <3> QED BY <3>1, <3>2
  <2> QED BY <2>3, <2>4, <2>5 DEF PageInv
<1> QED BY <1>2, <1>3

\* A request that counts and fails leaves its problem.
LEMMA PageFails ==
    ASSUME PageInv, UNCHANGED answered, NEW f \in fetches, Page!FailFetch(f)
    PROVE  PageInv'
<1>1. /\ fetches' = fetches \ {f}
      /\ problem' = IF ~Page!Current(f) THEN problem ELSE IF f.refreshing THEN "refresh" ELSE "error"
      /\ UNCHANGED <<conn, frames, generation, cache, shown, overtaken>>
  BY DEF Page!FailFetch
<1>2. PageType'
  BY <1>1 DEF PageInv, PageType
<1>3. PageAnswers'
  BY <1>1 DEF PageInv, PageAnswers, Page!Current, PagePending
<1>4. PageReason'
  <2>1. CASE Page!Current(f)
    BY <2>1, <1>1 DEF PageReason
  <2>2. CASE ~Page!Current(f)
    BY <2>2, <1>1 DEF PageInv, PageReason, Page!Current, PagePending
  <2> QED BY <2>1, <2>2
<1> QED BY <1>2, <1>3, <1>4 DEF PageInv

\* While the stream is not open the page has a reason, and its opening reads again; an
\* announcement is a reason until it is noticed, and then the page reads again.
LEMMA PageStreams ==
    ASSUME PageInv, UNCHANGED answered, Page!Stream
    PROVE  PageInv'
<1>1. CASE Page!Connect
  BY <1>1 DEF Page!Connect, Page!viewVars, Page!cacheVars, PageInv, PageType, PageAnswers, PageReason, Page!Current, PagePending
<1>2. CASE Page!Open
  <2>1. cache \in SUBSET Answers /\ frames \in Nat
    BY DEF PageInv, PageType
  <2> QED BY <1>2, <2>1, PageReloads DEF Page!Open
<1>3. CASE Page!Notice
  <2>1. cache \in SUBSET Answers /\ frames' \in Nat
    BY <1>3 DEF PageInv, PageType, Page!Notice
  <2> QED BY <1>3, <2>1, PageReloads DEF Page!Notice
<1>4. CASE Page!Drop
  BY <1>4 DEF Page!Drop, Page!viewVars, Page!cacheVars, PageInv, PageType, PageAnswers, PageReason, Page!Current, PagePending
<1> QED BY <1>1, <1>2, <1>3, <1>4 DEF Page!Stream

\* A change is announced to whoever is connected; whoever is not reads again on connecting.
LEMMA PageChanges ==
    ASSUME PageInv, Page!Change
    PROVE  PageInv'
<1>1. /\ answered' \in Answers
      /\ frames' = IF conn # "down" THEN frames + 1 ELSE frames
      /\ UNCHANGED <<conn, fetches, generation, cache, shown, problem, overtaken>>
  BY DEF Page!Change, Page!Announce, Page!viewVars, Page!cacheVars
<1>2. PagePending'
  BY <1>1 DEF PagePending, PageInv, PageType
<1>3. PageType'
  BY <1>1 DEF PageInv, PageType
<1>4. PageAnswers' /\ PageReason'
  BY <1>2 DEF PageAnswers, PageReason
<1> QED BY <1>3, <1>4 DEF PageInv

\* The page's own write empties the cache and reads again.
LEMMA PageWrites ==
    ASSUME PageInv, UNCHANGED answered, Page!WriteDone
    PROVE  PageInv'
<1>1. /\ {} \in SUBSET Answers /\ cache' \in SUBSET Answers /\ frames' \in Nat
  BY DEF Page!WriteDone, PageInv, PageType
<1> QED BY <1>1, PageReloads DEF Page!WriteDone

LEMMA PageKeeps == PageInv /\ [Page!Next]_(Page!vars) => PageInv'
<1> SUFFICES ASSUME PageInv, [Page!Next]_(Page!vars) PROVE PageInv'
  OBVIOUS
<1>1. CASE Page!Change
  BY <1>1, PageChanges
<1>2. CASE UNCHANGED answered /\ Page!Transfer
  <2> PICK f \in fetches : Page!Answer(f) \/ Page!Receive(f) \/ Page!FailFetch(f)
    BY <1>2 DEF Page!Transfer
  <2> QED BY <1>2, PageAnswer, PageReceives, PageFails
<1>3. CASE UNCHANGED answered /\ Page!Stream
  BY <1>3, PageStreams
<1>4. CASE UNCHANGED answered /\ Page!WriteDone
  BY <1>4, PageWrites
<1>5. CASE UNCHANGED Page!vars
  BY <1>5 DEF Page!vars, Page!viewVars, Page!cacheVars, PageInv, PageType, PageAnswers, PageReason, Page!Current, PagePending
<1> QED BY <1>1, <1>2, <1>3, <1>4, <1>5 DEF Page!Next

-----------------------------------------------------------------------------

\* A page at rest shows what the server would answer, unless it says that it could not
\* read or a 304 was overtaken, for any contents, any number of requests under way and
\* any number of failures (useApi.js:22-66, LiveUpdatesProvider.jsx:53-56).
THEOREM PageShowsTheTruth == Page!Spec => []Page!ShowsTheTruth
<1>1. PageInv => Page!ShowsTheTruth
  BY DEF PageInv, PageReason, Page!ShowsTheTruth, Page!Quiet, PagePending
<1> QED BY PageInit, PageKeeps, <1>1, PTL DEF Page!Spec
=============================================================================
