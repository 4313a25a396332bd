------------------------------ MODULE BondProofs ------------------------------
(***************************************************************************)
(* The safety of the bond contracts for every value of the constants.      *)
(*                                                                         *)
(* First type correctness, the invariant every other proof rests on: its   *)
(* lemmas come per component, in the order in which the components build   *)
(* on each other.                                                          *)
(*                                                                         *)
(* The other invariants of BondSafety hold together or not at all: the     *)
(* lock tells that no auction is open when one is created, the history of  *)
(* the auctions tells that a RATE auction is finalised at most once, and a *)
(* partition that was disabled is safe to create again only because        *)
(* nothing of it is left.  IInv is their conjunction per ISIN, with the    *)
(* fact that RATE is the type of the first auction and of no other.  The   *)
(* coupons come next: when they are paid and when a bond matures.          *)
(*                                                                         *)
(* Last, what becomes of auctions: those that are over stay as they are,   *)
(* bids are never lost, none is allocated twice, and an allocation is      *)
(* settled whole or not at all.  And where the units and the cash come     *)
(* from and go to: every unit was allocated by a finalised auction, the    *)
(* manager holds what it has still to deliver, the supply is what the      *)
(* holders hold, and a coupon pays each of them.                           *)
(***************************************************************************)
EXTENDS BondSafety, Sums, SequenceTheorems, TLAPS

-----------------------------------------------------------------------------
(* A sequence is one over any set that has all its members.                 *)

LEMMA SeqOfMembers ==
    ASSUME NEW S, NEW T, NEW s \in Seq(S), \A k \in 1 .. Len(s) : s[k] \in T
    PROVE  s \in Seq(T)
<1>1. Len(s) \in Nat /\ s \in [1 .. Len(s) -> S]
  OBVIOUS
<1>2. s \in [1 .. Len(s) -> T]
  BY <1>1
<1> QED BY <1>1, <1>2, SeqDef

\* A function on an initial segment is a sequence.
LEMMA FunctionIsSeq ==
    ASSUME NEW S, NEW n \in Nat, NEW s \in [1 .. n -> S]
    PROVE  s \in Seq(S)
BY SeqDef

-----------------------------------------------------------------------------
(* The ledger                                                               *)

\* Minting keeps the ledger well typed.
LEMMA MintType ==
    ASSUME LedgerTypeOK, NEW i \in Isins, NEW a \in Accounts, NEW v \in Nat, Mint(i, a, v)
    PROVE  LedgerTypeOK'
<1>1. bal[i][a] + v \in Nat /\ supply[i] + v \in Nat
  BY DEF LedgerTypeOK
<1>2. bal' = [bal EXCEPT ![i] = [bal[i] EXCEPT ![a] = bal[i][a] + v]]
  BY DEF Mint, LedgerTypeOK
<1> QED BY <1>1, <1>2 DEF Mint, LedgerTypeOK

\* Burning keeps the ledger well typed: no balance and no supply becomes negative.
LEMMA BurnType ==
    ASSUME LedgerTypeOK, NEW i \in Isins, NEW a \in Accounts, NEW v \in Nat, Burn(i, a, v)
    PROVE  LedgerTypeOK'
<1>1. bal[i][a] - v \in Nat /\ supply[i] - v \in Nat
  BY DEF LedgerTypeOK, Burn
<1>2. bal' = [bal EXCEPT ![i] = [bal[i] EXCEPT ![a] = bal[i][a] - v]]
  BY DEF Burn, LedgerTypeOK
<1> QED BY <1>1, <1>2 DEF Burn, LedgerTypeOK

\* Moving units keeps the ledger well typed.
LEMMA MoveType ==
    ASSUME LedgerTypeOK, NEW i \in Isins, NEW from \in Accounts, NEW to \in Accounts,
           NEW v \in Nat, Move(i, from, to, v)
    PROVE  LedgerTypeOK'
<1>1. CASE from = to
  BY <1>1 DEF Move, LedgerTypeOK
<1>2. CASE from # to
  <2>1. bal[i][from] - v \in Nat /\ bal[i][to] + v \in Nat
    BY DEF LedgerTypeOK, Move
  <2>2. bal' = [bal EXCEPT ![i] = [bal[i] EXCEPT ![from] = bal[i][from] - v,
                                                 ![to] = bal[i][to] + v]]
    BY <1>2 DEF Move, LedgerTypeOK
  <2> QED BY <2>1, <2>2 DEF Move, LedgerTypeOK
<1> QED BY <1>1, <1>2

-----------------------------------------------------------------------------
(* The terms and coupon of a partition                                      *)

\* Growing the offering keeps the terms well typed.
LEMMA ExtendType ==
    ASSUME terms \in [Isins -> Terms], NEW i \in Isins, NEW delta \in Nat,
           ExtendPartitionOffering(i, delta)
    PROVE  terms' \in [Isins -> Terms]
<1>1. [terms[i] EXCEPT !.offering = @ + delta] \in Terms
  BY DEF Terms
<1> QED BY <1>1 DEF ExtendPartitionOffering

\* Reducing the offering keeps the terms well typed: it never becomes negative.
LEMMA ReduceType ==
    ASSUME terms \in [Isins -> Terms], NEW i \in Isins, NEW delta \in Nat,
           ReducePartitionOffering(i, delta)
    PROVE  terms' \in [Isins -> Terms]
<1>1. [terms[i] EXCEPT !.offering = @ - delta] \in Terms
  BY DEF Terms, ReducePartitionOffering, CanReduceOffering
<1> QED BY <1>1 DEF ReducePartitionOffering

\* Starting the coupon clock keeps the coupon well typed.
LEMMA EnableType ==
    ASSUME terms \in [Isins -> Terms], coupon \in [Isins -> Coupon], NEW i \in Isins,
           NEW t \in Nat, NEW duration \in Nat, NEW yield \in Nat,
           EnableByIsin(i, t, duration, yield)
    PROVE  coupon' \in [Isins -> Coupon]
<1>1. t + terms[i].maturityDuration \in Nat
  BY DEF Terms
<1>2. [coupon[i] EXCEPT !.duration = duration, !.yield = yield, !.lastPayment = t,
          !.paymentCount = 0, !.maturityDate = t + terms[i].maturityDuration] \in Coupon
  BY <1>1 DEF Coupon
<1> QED BY <1>2 DEF EnableByIsin

\* Recording a payment keeps the coupon well typed.
LEMMA RecordType ==
    ASSUME coupon \in [Isins -> Coupon], NEW i \in Isins, NEW t \in Nat, NEW count \in Nat,
           NEW final \in BOOLEAN, RecordCouponPayment(i, t, count, final)
    PROVE  coupon' \in [Isins -> Coupon]
<1> DEFINE paid == [coupon[i] EXCEPT !.lastPayment = t, !.paymentCount = count]
<1>1. paid \in Coupon /\ [paid EXCEPT !.matured = TRUE] \in Coupon
  BY DEF Coupon
<1> QED BY <1>1 DEF RecordCouponPayment

-----------------------------------------------------------------------------
(* Auctions                                                                 *)

\* An ISIN that has an auction has a latest one.
LEMMA LatestType ==
    ASSUME AuctionTypeOK, NEW i \in Isins, auctions[i] # <<>>
    PROVE  /\ Len(auctions[i]) \in Nat \ {0}
           /\ Latest(i) \in Auctions
BY DEF AuctionTypeOK, Latest

\* Overwriting the latest auction with an auction keeps the history well typed.
LEMMA UpdateLatestType ==
    ASSUME AuctionTypeOK, NEW i \in Isins, auctions[i] # <<>>, NEW a \in Auctions,
           UpdateLatest(i, a)
    PROVE  AuctionTypeOK'
<1>1. [auctions[i] EXCEPT ![Len(auctions[i])] = a] \in Seq(Auctions)
  BY LatestType DEF AuctionTypeOK
<1>2. auctions' = [auctions EXCEPT ![i] = [auctions[i] EXCEPT ![Len(auctions[i])] = a]]
  BY DEF UpdateLatest, AuctionTypeOK
<1> QED BY <1>1, <1>2 DEF AuctionTypeOK

\* Creating an auction keeps the history well typed.
LEMMA CreateAuctionType ==
    ASSUME AuctionTypeOK, NEW i \in Isins, NEW t, NEW end \in Nat, NEW offering \in Nat,
           NEW type \in AuctionTypes, CreateAuction(i, t, end, offering, type)
    PROVE  AuctionTypeOK'
<1> DEFINE new == [type |-> type, status |-> "BIDDING", offering |-> offering, end |-> end,
                   bids |-> <<>>, allocations |-> <<>>]
<1>1. new \in Auctions
  BY DEF CreateAuction, Auctions, Statuses
<1>2. Append(auctions[i], new) \in Seq(Auctions)
  BY <1>1 DEF AuctionTypeOK
<1>3. auctions' = [auctions EXCEPT ![i] = Append(auctions[i], new)]
  BY DEF CreateAuction
<1> QED BY <1>2, <1>3 DEF AuctionTypeOK

\* A bid, a phase change and a finalisation keep the history well typed.
LEMMA SubmitBidType ==
    ASSUME AuctionTypeOK, NEW i \in Isins, NEW t, NEW hash \in Hashes, SubmitBid(i, t, hash)
    PROVE  AuctionTypeOK'
<1>1. Latest(i) \in Auctions
  BY LatestType DEF SubmitBid
<1>2. Append(Latest(i).bids, hash) \in Seq(Hashes)
  BY <1>1 DEF Auctions
<1>3. [Latest(i) EXCEPT !.bids = Append(@, hash)] \in Auctions
  BY <1>1, <1>2 DEF Auctions
<1> QED BY <1>3, UpdateLatestType DEF SubmitBid

LEMMA CloseAuctionType ==
    ASSUME AuctionTypeOK, NEW i \in Isins, NEW t, CloseAuction(i, t)
    PROVE  AuctionTypeOK'
<1>1. [Latest(i) EXCEPT !.status = "CLOSED"] \in Auctions
  BY LatestType DEF CloseAuction, Auctions, Statuses
<1> QED BY <1>1, UpdateLatestType DEF CloseAuction

LEMMA CancelAuctionType ==
    ASSUME AuctionTypeOK, NEW i \in Isins, CancelAuction(i)
    PROVE  AuctionTypeOK'
<1>1. [Latest(i) EXCEPT !.status = "CANCELLED"] \in Auctions
  BY LatestType DEF CancelAuction, HasOpenAuction, Auctions, Statuses
<1> QED BY <1>1, UpdateLatestType DEF CancelAuction, HasOpenAuction

LEMMA FinaliseAuctionType ==
    ASSUME AuctionTypeOK, NEW i \in Isins, NEW type, NEW indexes, NEW total,
           NEW S, NEW alloc \in Seq(S),
           S \subseteq [bidder : Bidders, nonce : Nonces, units : Nat, rate : Nat],
           FinaliseAuction(i, type, alloc, indexes, total)
    PROVE  /\ AuctionTypeOK'
           /\ alloc \in Seq(Allocations)
<1>1. \A k \in 1 .. Len(alloc) : alloc[k] \in Allocations
  BY DEF FinaliseAuction, Allocations
<1>2. alloc \in Seq(Allocations)
  BY <1>1, SeqOfMembers
<1>3. [Latest(i) EXCEPT !.status = "FINALISED", !.allocations = alloc] \in Auctions
  BY <1>2, LatestType DEF FinaliseAuction, Auctions, Statuses
<1> QED BY <1>2, <1>3, UpdateLatestType DEF FinaliseAuction

-----------------------------------------------------------------------------
(* Cash and settlement                                                      *)

\* Moving cash keeps the balances well typed: none becomes negative.
LEMMA TransferCashType ==
    ASSUME CashTypeOK, NEW from \in CashAccounts, NEW to \in CashAccounts, NEW v \in Nat,
           TransferCash(from, to, v)
    PROVE  CashTypeOK'
<1>1. cash[from] - v \in Nat /\ cash[to] + v \in Nat
  BY DEF CashTypeOK, TransferCash, CanTransferCash
<1> QED BY <1>1 DEF CashTypeOK, TransferCash, MovedCash

\* Settling, or failing to settle, keeps the ledger and the cash well typed.
LEMMA TrySettleType ==
    ASSUME LedgerTypeOK, CashTypeOK, NEW s \in Settlements, TrySettle(s)
    PROVE  LedgerTypeOK' /\ CashTypeOK'
<1>1. CASE Settle(s)
  <2>1. CashTypeOK'
    BY <1>1, TransferCashType DEF Settle, Settlements
  <2>2. LedgerTypeOK'
    <3>1. CASE UNCHANGED ledgerVars
      BY <3>1 DEF ledgerVars, LedgerTypeOK
    <3>2. CASE Move(s.isin, s.bondFrom, s.bondTo, s.units)
      BY <3>2, MoveType DEF Settlements
    <3>3. CASE Burn(s.isin, s.bondFrom, s.units)
      BY <3>3, BurnType DEF Settlements
    <3> QED BY <1>1, <3>1, <3>2, <3>3 DEF Settle, SettleSecurityLeg
  <2> QED BY <2>1, <2>2
<1>2. CASE UNCHANGED <<ledgerVars, cashVars>>
  BY <1>2 DEF ledgerVars, cashVars, LedgerTypeOK, CashTypeOK
<1> QED BY <1>1, <1>2 DEF TrySettle

\* A payment is a natural number: a product, or a quotient by the precision.
LEMMA PaymentDueType ==
    ASSUME NEW type, NEW units \in Nat, NEW rate \in Nat
    PROVE  PaymentDue(type, units, rate) \in Nat
<1>1. units * UnitNominal \in Nat
  BY UnitNominalAssumption DEF UnitNominalAssumption
<1> DEFINE face == units * UnitNominal
<1>2. rate * face \in Nat
  BY <1>1
<1> HIDE DEF face
<1> DEFINE priced == rate * face
<1> HIDE DEF priced
<1>3. priced \div PercentagePrecision \in Nat
  BY <1>2, ManagerAssumption DEF ManagerAssumption, priced
<1> QED BY <1>1, <1>3 DEF PaymentDue, face, priced

LEMMA SettlementType ==
    ASSUME NEW i \in Isins, NEW type, NEW a \in Allocations
    PROVE  SettlementOf(i, type, a) \in Settlements
<1>1. PaymentDue(type, a.units, a.rate) \in Nat
  BY PaymentDueType DEF Allocations
<1>2. a.bidder \in Accounts /\ a.bidder \in CashAccounts
  BY ManagerAssumption DEF ManagerAssumption, Allocations
<1> QED BY <1>1, <1>2, ManagerAssumption
        DEF SettlementOf, Settlements, Operations, Allocations, ManagerAssumption

\* What a coupon pays an account is a natural number.
LEMMA PayoutType ==
    ASSUME TypeOK, NEW i \in Isins, NEW final, NEW listed \in SUBSET Accounts,
           coupon[i].duration # 0
    PROVE  Payout(i, final, listed) \in [CashAccounts -> Nat]
<1>1. UnitNominal * coupon[i].yield \in Nat
  BY UnitNominalAssumption DEF UnitNominalAssumption, TypeOK, TokenTypeOK, Coupon
<1>2. CouponPerUnit(i) \in Nat
  <2> DEFINE numerator == UnitNominal * coupon[i].yield
  <2>1. numerator \in Nat
    BY <1>1
  <2> HIDE DEF numerator
  <2>2. numerator \div PercentagePrecision \in Nat
    BY <2>1, ManagerAssumption DEF ManagerAssumption
  <2> QED BY <2>2 DEF CouponPerUnit, numerator
<1>3. ASSUME NEW a \in listed
      PROVE  bal[i][a] * (CouponPerUnit(i) + (IF final THEN UnitNominal ELSE 0)) \in Nat
  <2>1. bal[i][a] \in Nat
    BY DEF TypeOK, TokenTypeOK, LedgerTypeOK
  <2>2. CouponPerUnit(i) + (IF final THEN UnitNominal ELSE 0) \in Nat
    BY <1>2, UnitNominalAssumption DEF UnitNominalAssumption
  <2> QED BY <2>1, <2>2
<1> QED BY <1>3 DEF Payout

-----------------------------------------------------------------------------
(* The contracts together                                                   *)

\* What an operator may submit as allocations is a sequence of records.
LEMMA AllocationListType ==
    ASSUME AuctionTypeOK, NEW i \in Isins, HasOpenAuction(i),
           NEW indexes \in BidIndexLists(i), NEW alloc \in AllocationLists(indexes)
    PROVE  alloc \in Seq([bidder : Bidders, nonce : Nonces, units : Units, rate : Rates])
<1> DEFINE R == [bidder : Bidders, nonce : Nonces, units : Units, rate : Rates]
<1>1. PICK m \in Nat : indexes \in [1 .. m -> 1 .. Len(Latest(i).bids) + 1]
  BY ManagerAssumption DEF ManagerAssumption, BidIndexLists, SeqOf
<1>2. Len(indexes) = m
  BY <1>1
<1>3. alloc \in [1 .. m -> R]
  BY <1>2 DEF AllocationLists
<1> HIDE DEF R
<1>4. alloc \in Seq(R)
  BY <1>1, <1>3, FunctionIsSeq
<1> QED BY <1>4 DEF R

\* Finalising an auction keeps every part of the state well typed.
LEMMA FinaliseType ==
    ASSUME TypeOK, NEW i \in Isins, Finalise(i)
    PROVE  TypeOK'
<1> USE DEF TypeOK
<1> DEFINE R == [bidder : Bidders, nonce : Nonces, units : Units, rate : Rates]
<1>1. PICK type \in AuctionTypes, indexes \in BidIndexLists(i) :
          \E alloc \in AllocationLists(indexes) : FinaliseBondAuction(i, type, alloc, indexes)
  BY DEF Finalise
<1>2. PICK alloc \in AllocationLists(indexes) : FinaliseBondAuction(i, type, alloc, indexes)
  BY <1>1
<1>3. alloc \in Seq(R)
  BY AllocationListType DEF Finalise
<1>4. R \subseteq [bidder : Bidders, nonce : Nonces, units : Nat, rate : Nat]
  BY ManagerAssumption DEF ManagerAssumption
<1>5. PICK total \in 1 .. Latest(i).offering :
          /\ FinaliseAuction(i, type, alloc, indexes, total)
          /\ IF type = "BUYBACK" THEN PrepareBuyback(i, total)
                                 ELSE PrepareIssuance(i, type, total, alloc[1].rate)
  BY <1>2 DEF FinaliseBondAuction
<1>6. AuctionTypeOK' /\ alloc \in Seq(Allocations)
  BY <1>3, <1>4, <1>5, FinaliseAuctionType
<1>7. total \in Nat
  BY <1>5, LatestType DEF Finalise, HasOpenAuction, Auctions
<1>8. alloc[1].rate \in Nat
  <2>1. alloc # <<>>
    BY <1>2 DEF FinaliseBondAuction
  <2>2. alloc[1] \in Allocations
    BY <1>6, <2>1
  <2> QED BY <2>2 DEF Allocations
<1>9. LedgerTypeOK' /\ coupon' \in [Isins -> Coupon]
  <2>1. CASE type = "BUYBACK"
    BY <1>5, <2>1 DEF PrepareBuyback, ledgerVars, TokenTypeOK, LedgerTypeOK
  <2>2. CASE type # "BUYBACK"
    <3>1. PrepareIssuance(i, type, total, alloc[1].rate)
      BY <1>5, <2>2
    <3>2. LedgerTypeOK'
      BY <1>7, <3>1, MintType, ManagerAssumption
         DEF ManagerAssumption, PrepareIssuance, MintByIsin, TokenTypeOK
    <3>3. coupon' \in [Isins -> Coupon]
      BY <1>8, <3>1, EnableType, ManagerAssumption
         DEF ManagerAssumption, PrepareIssuance, TokenTypeOK
    <3> QED BY <3>2, <3>3
  <2> QED BY <2>1, <2>2
<1>10. pending' \in Seq(Settlements)
  <2>1. \A k \in 1 .. Len(alloc) : SettlementOf(i, type, alloc[k]) \in Settlements
    BY <1>6, SettlementType
  <2>2. pending' \in [1 .. Len(alloc) -> Settlements]
    BY <1>2, <2>1 DEF FinaliseBondAuction
  <2> QED BY <1>6, <2>2, FunctionIsSeq
<1> QED BY <1>2, <1>6, <1>9, <1>10 DEF FinaliseBondAuction, TokenTypeOK, CashTypeOK, cashVars

\* Paying a coupon keeps every part of the state well typed; the reserve is not overdrawn.
LEMMA PayCouponType ==
    ASSUME TypeOK, NEW i \in Isins, NEW listed \in SUBSET Accounts, PayCoupon(i, listed)
    PROVE  TypeOK'
<1> USE DEF TypeOK
<1> DEFINE number == coupon[i].paymentCount + 1
           final  == number = ExpectedPayments(i)
           payout == Payout(i, final, listed)
<1>1. payout \in [CashAccounts -> Nat]
  BY PayoutType DEF PayCoupon
<1>2. PICK total \in 0 .. cash[GovReserve] :
          cash' = [a \in CashAccounts |->
                     IF a = GovReserve THEN cash[a] - total ELSE cash[a] + payout[a]]
  BY DEF PayCoupon
<1>3. CashTypeOK'
  <2>1. cash[GovReserve] - total \in Nat
    BY <1>2, ManagerAssumption DEF ManagerAssumption, CashTypeOK
  <2> QED BY <1>1, <1>2, <2>1 DEF PayCoupon, CashTypeOK
<1>4. coupon' \in [Isins -> Coupon]
  <2>1. number \in Nat /\ final \in BOOLEAN
    BY DEF TokenTypeOK, Coupon
  <2>2. RecordCouponPayment(i, now, number, final)
    BY DEF PayCoupon
  <2> QED BY <2>1, <2>2, RecordType DEF TokenTypeOK
<1>5. LedgerTypeOK'
  <2>1. CASE final
    <3>1. [a \in Accounts |-> IF a \in listed THEN 0 ELSE bal[i][a]] \in [Accounts -> Nat]
      BY DEF TokenTypeOK, LedgerTypeOK
    <3>2. /\ bal' = [bal EXCEPT ![i] = [a \in Accounts |-> IF a \in listed THEN 0 ELSE bal[i][a]]]
          /\ supply' = [supply EXCEPT ![i] = 0]
      BY <2>1 DEF PayCoupon, TokenTypeOK, LedgerTypeOK
    <3> QED BY <3>1, <3>2 DEF TokenTypeOK, LedgerTypeOK
  <2>2. CASE ~final
    BY <2>2 DEF PayCoupon, TokenTypeOK, LedgerTypeOK, ledgerVars
  <2> QED BY <2>1, <2>2
<1> QED BY <1>3, <1>4, <1>5 DEF PayCoupon, TokenTypeOK, AuctionTypeOK, managerVars

\* The constants give a first state that is well typed.
LEMMA InitType == Init => TypeOK
<1> SUFFICES ASSUME Init PROVE TypeOK
  OBVIOUS
<1>1. NoTerms \in Terms /\ NoCoupon \in Coupon
  BY DEF NoTerms, NoCoupon, Terms, Coupon
<1>2. TokenTypeOK
  BY <1>1 DEF Init, TokenInit, LedgerInit, TokenTypeOK, LedgerTypeOK
<1>3. CashTypeOK
  BY ManagerAssumption DEF ManagerAssumption, Init, CashTypeOK
<1>4. AuctionTypeOK
  BY DEF Init, AuctionInit, AuctionTypeOK
<1> QED BY <1>2, <1>3, <1>4 DEF Init, TypeOK

\* Creating a partition keeps the terms well typed.
LEMMA CreatePartitionType ==
    ASSUME terms \in [Isins -> Terms], NEW i \in Isins, NEW offering \in Nat,
           NEW years \in Years, CreatePartition(i, offering, years * DurationScalar)
    PROVE  terms' \in [Isins -> Terms]
<1>1. years * DurationScalar \in Nat
  BY ManagerAssumption DEF ManagerAssumption
<1> DEFINE duration == years * DurationScalar
<1> HIDE DEF duration
<1>2. [active |-> TRUE, offering |-> offering, maturityDuration |-> duration] \in Terms
  BY <1>1 DEF Terms, duration
<1> QED BY <1>2 DEF CreatePartition, duration

\* Every step keeps every part of the state well typed.
LEMMA NextType ==
    ASSUME TypeOK, [Next]_vars
    PROVE  TypeOK'
<1> USE DEF TypeOK, TokenTypeOK
<1>1. ASSUME NEW i \in Isins, NEW years \in Years, DeployBond(i, years)
      PROVE  TypeOK'
  BY <1>1, CreatePartitionType
     DEF DeployBond, ledgerVars, cashVars, managerVars, LedgerTypeOK, CashTypeOK, AuctionTypeOK
<1>2. ASSUME NEW i \in Isins, NEW size \in Sizes, NEW type \in AuctionTypes,
             DeployAuctionForBond(i, now + 1, size, type)
      PROVE  TypeOK'
  <2>1. size \in Nat
    BY ManagerAssumption DEF ManagerAssumption
  <2>2. terms' \in [Isins -> Terms]
    BY <1>2, <2>1, ExtendType DEF DeployAuctionForBond, GrowOffering
  <2>3. AuctionTypeOK'
    BY <1>2, <2>1, CreateAuctionType DEF DeployAuctionForBond
  <2> QED BY <1>2, <2>2, <2>3
          DEF DeployAuctionForBond, ledgerVars, cashVars, LedgerTypeOK, CashTypeOK
<1>3. ASSUME NEW i \in Isins, NEW size \in Sizes, NEW years \in Years,
             DeployBondWithAuction(i, now + 1, size, years)
      PROVE  TypeOK'
  <2>1. size \in Nat
    BY ManagerAssumption DEF ManagerAssumption
  <2>2. terms' \in [Isins -> Terms]
    BY <1>3, <2>1, CreatePartitionType DEF DeployBondWithAuction
  <2>3. AuctionTypeOK'
    BY <1>3, <2>1, CreateAuctionType DEF DeployBondWithAuction, AuctionTypes
  <2> QED BY <1>3, <2>2, <2>3
          DEF DeployBondWithAuction, ledgerVars, cashVars, LedgerTypeOK, CashTypeOK
<1>4. ASSUME NEW i \in Isins, DisableBond(i)
      PROVE  TypeOK'
  <2>1. NoTerms \in Terms /\ NoCoupon \in Coupon
    BY DEF NoTerms, NoCoupon, Terms, Coupon
  <2> QED BY <1>4, <2>1 DEF DisableBond, DisablePartition, ledgerVars, cashVars, managerVars,
                            LedgerTypeOK, CashTypeOK, AuctionTypeOK
<1>5. ASSUME NEW i \in Isins, NEW hash \in Hashes, PlaceBid(i, hash)
      PROVE  TypeOK'
  BY <1>5, SubmitBidType
     DEF PlaceBid, tokenVars, cashVars, managerVars, LedgerTypeOK, CashTypeOK
<1>6. ASSUME NEW i \in Isins, CloseBidding(i)
      PROVE  TypeOK'
  BY <1>6, CloseAuctionType
     DEF CloseBidding, tokenVars, cashVars, managerVars, LedgerTypeOK, CashTypeOK
<1>7. ASSUME NEW i \in Isins, CancelBondAuction(i)
      PROVE  TypeOK'
  <2>1. AuctionTypeOK'
    BY <1>7, CancelAuctionType DEF CancelBondAuction
  <2>2. Latest(i).offering \in Nat
    BY <1>7, LatestType DEF CancelBondAuction, CancelAuction, HasOpenAuction, Auctions
  <2>3. terms' \in [Isins -> Terms]
    BY <1>7, <2>2, ReduceType DEF CancelBondAuction
  <2> QED BY <1>7, <2>1, <2>3
          DEF CancelBondAuction, ledgerVars, cashVars, LedgerTypeOK, CashTypeOK
<1>8. ASSUME NEW i \in Isins, Finalise(i)
      PROVE  TypeOK'
  BY <1>8, FinaliseType
<1>9. ASSUME NEW i \in Isins, NEW listed \in SUBSET Accounts, PayCoupon(i, listed)
      PROVE  TypeOK'
  BY <1>9, PayCouponType
<1>10. ASSUME NEW i \in Isins, NEW from \in Accounts, NEW to \in Accounts, NEW v \in Amounts,
              TransferUnits(i, from, to, v)
       PROVE  TypeOK'
  <2>1. LedgerTypeOK'
    BY <1>10, MoveType, ManagerAssumption DEF ManagerAssumption, TransferUnits
  <2> QED BY <1>10, <2>1
          DEF TransferUnits, cashVars, managerVars, CashTypeOK, AuctionTypeOK
<1>11. ASSUME SettleAllocation
       PROVE  TypeOK'
  <2>1. Head(pending) \in Settlements /\ Tail(pending) \in Seq(Settlements)
    BY <1>11 DEF SettleAllocation, Idle
  <2>2. LedgerTypeOK' /\ CashTypeOK'
    BY <1>11, <2>1, TrySettleType DEF SettleAllocation
  <2> QED BY <1>11, <2>1, <2>2 DEF SettleAllocation, AuctionTypeOK
<1>12. ASSUME MoveCash
       PROVE  TypeOK'
  <2>1. PICK v \in CashAmounts, a \in CashAccounts :
            \/ MintCash(a, v)
            \/ BurnCash(a, v)
            \/ \E to \in CashAccounts : TransferCash(a, to, v)
    BY <1>12 DEF MoveCash
  <2>2. v \in Nat /\ cash[a] \in Nat
    BY ManagerAssumption DEF ManagerAssumption, CashTypeOK
  <2>3. CASE MintCash(a, v)
    BY <1>12, <2>2, <2>3 DEF MoveCash, MintCash, tokenVars, managerVars,
                             LedgerTypeOK, CashTypeOK, AuctionTypeOK
  <2>4. CASE BurnCash(a, v)
    <3>1. cash[a] - v \in Nat
      BY <2>2, <2>4 DEF BurnCash
    <3> QED BY <1>12, <2>2, <2>4, <3>1 DEF MoveCash, BurnCash, tokenVars, managerVars,
                                           LedgerTypeOK, CashTypeOK, AuctionTypeOK
  <2>5. CASE \E to \in CashAccounts : TransferCash(a, to, v)
    <3>1. CashTypeOK'
      BY <2>2, <2>5, TransferCashType
    <3> QED BY <1>12, <3>1 DEF MoveCash, tokenVars, managerVars, LedgerTypeOK, AuctionTypeOK
  <2> QED BY <2>1, <2>3, <2>4, <2>5
<1>13. ASSUME EditAllowlist
       PROVE  TypeOK'
  BY <1>13, ManagerAssumption
     DEF ManagerAssumption, EditAllowlist, Allow, Disallow, tokenVars, managerVars,
         LedgerTypeOK, CashTypeOK, AuctionTypeOK
<1>14. ASSUME Tick
       PROVE  TypeOK'
  BY <1>14 DEF Tick, tokenVars, cashVars, managerVars, LedgerTypeOK, CashTypeOK, AuctionTypeOK
<1>15. CASE UNCHANGED vars
  BY <1>15 DEF vars, tokenVars, cashVars, managerVars, LedgerTypeOK, CashTypeOK, AuctionTypeOK
<1> QED BY <1>1, <1>2, <1>3, <1>4, <1>5, <1>6, <1>7, <1>8, <1>9, <1>10, <1>11, <1>12,
           <1>13, <1>14, <1>15 DEF Next

\* Every reachable state of the bond contracts is well typed: in particular no balance,
\* supply, offering or amount of cash is ever negative.
THEOREM TypeCorrect == Spec => []TypeOK
<1>1. Init => TypeOK
  BY InitType
<1>2. TypeOK /\ [Next]_vars => TypeOK'
  BY NextType
<1> QED BY <1>1, <1>2, PTL DEF Spec

-----------------------------------------------------------------------------
(* The inductive invariant                                                  *)

\* The manager's lock, the state of the latest auction and the older auctions of i
LockInv(i) ==
    /\ bondActive[i] <=> HasOpenAuction(i)
    /\ \A n \in 1 .. Len(auctions[i]) - 1 : auctions[i][n].status \notin Open

\* Only the first auction of i is a RATE auction.
RateInv(i) == \A n \in 1 .. Len(auctions[i]) : auctions[i][n].type = "RATE" <=> n = 1

\* The offering of i covers its supply and its open auction.
OfferingInv(i) == supply[i] + OpenIssuance(i) <= terms[i].offering

\* Nothing is left of a disabled partition.
DisabledInv(i) ==
    ~terms[i].active =>
        /\ supply[i] = 0
        /\ coupon[i] = NoCoupon
        /\ \A n \in 1 .. Len(auctions[i]) : auctions[i][n].status = "CANCELLED"

\* Coupon terms come from the first auction.
CouponInv(i) ==
    coupon[i].duration # 0 <=> auctions[i] # <<>> /\ auctions[i][1].status = "FINALISED"

InvOf(i) == LockInv(i) /\ RateInv(i) /\ OfferingInv(i) /\ DisabledInv(i) /\ CouponInv(i)

IInv == TypeOK /\ \A i \in Isins : InvOf(i)

-----------------------------------------------------------------------------
(* What a step may do to an ISIN without disturbing its invariant           *)

\* The facts about one ISIN that the steps below rely on
LEMMA TypeFacts ==
    ASSUME TypeOK, NEW i \in Isins
    PROVE  /\ supply[i] \in Nat
           /\ terms[i] \in Terms
           /\ coupon[i] \in Coupon
           /\ auctions[i] \in Seq(Auctions)
           /\ Len(auctions[i]) \in Nat
           /\ bondActive[i] \in BOOLEAN
BY DEF TypeOK, TokenTypeOK, LedgerTypeOK, AuctionTypeOK

\* Units may go, and the coupon of an active partition may be paid, without disturbing
\* anything else about the ISIN.
LEMMA UnitsGone ==
    ASSUME TypeOK, NEW i \in Isins, InvOf(i),
           supply'[i] \in Nat, supply'[i] <= supply[i],
           terms'[i] = terms[i], auctions'[i] = auctions[i], bondActive'[i] = bondActive[i],
           \/ coupon'[i] = coupon[i]
           \/ terms[i].active /\ coupon'[i].duration = coupon[i].duration
    PROVE  InvOf(i)'
<1>1. LockInv(i)' /\ RateInv(i)' /\ CouponInv(i)'
  BY DEF InvOf, LockInv, RateInv, CouponInv, HasOpenAuction, Latest
<1>2. OpenIssuance(i)' = OpenIssuance(i)
  BY DEF OpenIssuance, HasOpenAuction, Latest
<1>3. OpenIssuance(i) \in Nat
  BY LatestType DEF TypeOK, OpenIssuance, HasOpenAuction, Auctions
<1>4. OfferingInv(i)'
  BY <1>2, <1>3, TypeFacts DEF InvOf, OfferingInv, Terms
<1>5. DisabledInv(i)'
  BY TypeFacts DEF InvOf, DisabledInv
<1> QED BY <1>1, <1>4, <1>5 DEF InvOf

\* An ISIN that a step does not touch keeps its invariant.
LEMMA Untouched ==
    ASSUME TypeOK, NEW i \in Isins, InvOf(i), supply'[i] = supply[i], terms'[i] = terms[i],
           coupon'[i] = coupon[i], auctions'[i] = auctions[i], bondActive'[i] = bondActive[i]
    PROVE  InvOf(i)'
BY TypeFacts, UnitsGone

\* Rewriting the latest auction of i leaves the older ones and the other ISINs alone.
LEMMA LatestRewritten ==
    ASSUME AuctionTypeOK, NEW i \in Isins, auctions[i] # <<>>, NEW a \in Auctions,
           UpdateLatest(i, a)
    PROVE  /\ auctions'[i] # <<>>
           /\ Len(auctions'[i]) = Len(auctions[i])
           /\ Latest(i)' = a
           /\ auctions'[i][Len(auctions[i])] = a
           /\ \A n \in 1 .. Len(auctions[i]) - 1 : auctions'[i][n] = auctions[i][n]
           /\ \A j \in Isins \ {i} : auctions'[j] = auctions[j]
<1> DEFINE rewritten == [auctions[i] EXCEPT ![Len(auctions[i])] = a]
<1>1. auctions[i] \in Seq(Auctions) /\ Len(auctions[i]) \in Nat \ {0}
  BY LatestType DEF AuctionTypeOK
<1>2. auctions' = [auctions EXCEPT ![i] = rewritten]
  BY DEF UpdateLatest, AuctionTypeOK
<1>3. auctions'[i] = rewritten /\ \A j \in Isins \ {i} : auctions'[j] = auctions[j]
  BY <1>2 DEF AuctionTypeOK
<1>4. /\ Len(rewritten) = Len(auctions[i])
      /\ rewritten[Len(auctions[i])] = a
      /\ \A n \in 1 .. Len(auctions[i]) - 1 : rewritten[n] = auctions[i][n]
  BY <1>1
<1> HIDE DEF rewritten
<1>5. auctions'[i] # <<>>
  BY <1>1, <1>3, <1>4
<1> QED BY <1>3, <1>4, <1>5 DEF Latest

\* Rewriting a later auction leaves the first one alone.
LEMMA FirstKept ==
    ASSUME AuctionTypeOK, NEW i \in Isins, auctions[i] # <<>>, NEW a \in Auctions,
           UpdateLatest(i, a), Len(auctions[i]) # 1
    PROVE  auctions'[i][1] = auctions[i][1]
<1> DEFINE len == Len(auctions[i])
<1>1. len \in Nat \ {0} /\ len # 1
  BY LatestType
<1>2. \A n \in 1 .. len - 1 : auctions'[i][n] = auctions[i][n]
  BY LatestRewritten
<1> HIDE DEF len
<1>3. 1 \in 1 .. len - 1
  BY <1>1
<1> QED BY <1>2, <1>3

\* A rewritten latest auction keeps its type, so RATE stays the type of the first only.
LEMMA RateKept ==
    ASSUME TypeOK, NEW i \in Isins, RateInv(i), auctions[i] # <<>>, NEW a \in Auctions,
           UpdateLatest(i, a), a.type = Latest(i).type
    PROVE  RateInv(i)'
<1>1. Len(auctions[i]) \in Nat \ {0}
  BY LatestType DEF TypeOK
<1>2. /\ Len(auctions'[i]) = Len(auctions[i])
      /\ auctions'[i][Len(auctions[i])] = a
      /\ \A n \in 1 .. Len(auctions[i]) - 1 : auctions'[i][n] = auctions[i][n]
  BY LatestRewritten DEF TypeOK
<1> SUFFICES ASSUME NEW n \in 1 .. Len(auctions[i])
             PROVE  auctions'[i][n].type = "RATE" <=> n = 1
  BY <1>2 DEF RateInv
<1>3. CASE n = Len(auctions[i])
  BY <1>1, <1>2, <1>3 DEF RateInv, Latest
<1>4. CASE n # Len(auctions[i])
  <2>1. n \in 1 .. Len(auctions[i]) - 1
    BY <1>1, <1>4
  <2> QED BY <1>2, <2>1 DEF RateInv
<1> QED BY <1>3, <1>4

\* A bid and the end of the bidding leave the latest auction open.
LEMMA StillOpen ==
    ASSUME TypeOK, NEW i \in Isins, InvOf(i), HasOpenAuction(i), NEW a \in Auctions,
           UpdateLatest(i, a), a.status \in Open, a.type = Latest(i).type,
           a.offering = Latest(i).offering, supply'[i] = supply[i], terms'[i] = terms[i],
           coupon'[i] = coupon[i], bondActive'[i] = bondActive[i]
    PROVE  InvOf(i)'
<1>1. auctions[i] # <<>> /\ Len(auctions[i]) \in Nat \ {0}
  BY LatestType DEF TypeOK, HasOpenAuction
<1>2. /\ auctions'[i] # <<>>
      /\ Len(auctions'[i]) = Len(auctions[i])
      /\ Latest(i)' = a
      /\ auctions'[i][Len(auctions[i])] = a
      /\ \A n \in 1 .. Len(auctions[i]) - 1 : auctions'[i][n] = auctions[i][n]
  BY <1>1, LatestRewritten DEF TypeOK
<1>3. HasOpenAuction(i)'
  BY <1>2 DEF HasOpenAuction
<1>4. LockInv(i)'
  BY <1>2, <1>3 DEF InvOf, LockInv
<1>5. RateInv(i)'
  BY <1>1, RateKept DEF InvOf
<1>6. OfferingInv(i)'
  <2>1. OpenIssuance(i)' = OpenIssuance(i)
    BY <1>2, <1>3 DEF OpenIssuance
  <2> QED BY <2>1 DEF InvOf, OfferingInv
<1>7. terms[i].active
  BY <1>1 DEF InvOf, DisabledInv, HasOpenAuction, Latest, Open
<1>8. CouponInv(i)'
  <2>1. CASE Len(auctions[i]) = 1
    <3>1. auctions[i][1].status \in Open /\ auctions'[i][1].status \in Open
      BY <1>2, <2>1 DEF HasOpenAuction, Latest
    <3>2. "FINALISED" \notin Open
      BY DEF Open
    <3> QED BY <3>1, <3>2 DEF InvOf, CouponInv
  <2>2. CASE Len(auctions[i]) # 1
    <3>1. auctions'[i][1] = auctions[i][1]
      BY <1>1, <2>2, FirstKept DEF TypeOK
    <3> QED BY <1>1, <1>2, <3>1 DEF InvOf, CouponInv
  <2> QED BY <2>1, <2>2
<1> QED BY <1>4, <1>5, <1>6, <1>7, <1>8 DEF InvOf, DisabledInv

\* When the latest auction is over and the lock is released, nothing is open any more.
LEMMA NowOver ==
    ASSUME TypeOK, NEW i \in Isins, InvOf(i), HasOpenAuction(i), NEW a \in Auctions,
           UpdateLatest(i, a), a.status \notin Open, ~bondActive'[i]
    PROVE  /\ LockInv(i)'
           /\ OpenIssuance(i)' = 0
           /\ auctions'[i] # <<>>
           /\ terms[i].active
<1>1. auctions[i] # <<>> /\ Len(auctions[i]) \in Nat \ {0}
  BY LatestType DEF TypeOK, HasOpenAuction
<1>2. /\ auctions'[i] # <<>>
      /\ Len(auctions'[i]) = Len(auctions[i])
      /\ Latest(i)' = a
      /\ \A n \in 1 .. Len(auctions[i]) - 1 : auctions'[i][n] = auctions[i][n]
  BY <1>1, LatestRewritten DEF TypeOK
<1>3. ~HasOpenAuction(i)'
  BY <1>2 DEF HasOpenAuction
<1>4. terms[i].active
  BY <1>1 DEF InvOf, DisabledInv, HasOpenAuction, Latest, Open
<1> QED BY <1>2, <1>3, <1>4 DEF InvOf, LockInv, OpenIssuance

\* A new auction becomes the latest one; the others stay as they are.
LEMMA AuctionAdded ==
    ASSUME TypeOK, NEW i \in Isins, InvOf(i), ~bondActive[i], bondActive'[i],
           NEW t, NEW end \in Nat, NEW size \in Nat, NEW type \in AuctionTypes,
           CreateAuction(i, t, end, size, type)
    PROVE  /\ LockInv(i)'
           /\ RateInv(i)'
           /\ coupon'[i] = coupon[i] => CouponInv(i)'
           /\ OpenIssuance(i)' = IF type = "BUYBACK" THEN 0 ELSE size
           /\ \A j \in Isins \ {i} : auctions'[j] = auctions[j]
<1> DEFINE new == [type |-> type, status |-> "BIDDING", offering |-> size, end |-> end,
                   bids |-> <<>>, allocations |-> <<>>]
<1>1. auctions[i] \in Seq(Auctions) /\ Len(auctions[i]) \in Nat
  BY TypeFacts
<1>2. /\ auctions'[i] = Append(auctions[i], new)
      /\ \A j \in Isins \ {i} : auctions'[j] = auctions[j]
  BY DEF CreateAuction, TypeOK, AuctionTypeOK
<1>3. /\ Len(auctions'[i]) = Len(auctions[i]) + 1
      /\ auctions'[i][Len(auctions[i]) + 1] = new
      /\ \A n \in 1 .. Len(auctions[i]) : auctions'[i][n] = auctions[i][n]
  BY <1>1, <1>2
<1>4. auctions'[i] # <<>> /\ Latest(i)' = new
  BY <1>1, <1>3 DEF Latest
<1>5. new.type = type /\ new.status = "BIDDING" /\ new.offering = size
  OBVIOUS
<1> HIDE DEF new
<1>6. HasOpenAuction(i)'
  BY <1>4, <1>5 DEF HasOpenAuction, Open
<1>7. LockInv(i)'
  <2>1. \A n \in 1 .. Len(auctions[i]) : auctions[i][n].status \notin Open
    BY <1>1 DEF InvOf, LockInv, HasOpenAuction, Latest
  <2>2. 1 .. Len(auctions'[i]) - 1 = 1 .. Len(auctions[i])
    BY <1>1, <1>3
  <2> QED BY <1>3, <1>6, <2>1, <2>2 DEF LockInv
<1>8. RateInv(i)'
  <2> SUFFICES ASSUME NEW n \in 1 .. Len(auctions[i]) + 1
               PROVE  auctions'[i][n].type = "RATE" <=> n = 1
    BY <1>3 DEF RateInv
  <2>1. CASE n = Len(auctions[i]) + 1
    <3>1. n = 1 <=> auctions[i] = <<>>
      BY <1>1, <2>1
    <3> QED BY <1>3, <1>5, <2>1, <3>1 DEF CreateAuction
  <2>2. CASE n # Len(auctions[i]) + 1
    <3>1. n \in 1 .. Len(auctions[i])
      BY <1>1, <2>2
    <3> QED BY <1>3, <3>1 DEF InvOf, RateInv
  <2> QED BY <2>1, <2>2
<1>9. ASSUME coupon'[i] = coupon[i]
      PROVE  CouponInv(i)'
  <2>1. CASE auctions[i] = <<>>
    BY <1>3, <1>4, <1>5, <1>9, <2>1 DEF InvOf, CouponInv
  <2>2. CASE auctions[i] # <<>>
    <3>1. auctions'[i][1] = auctions[i][1]
      BY <1>1, <1>3, <2>2
    <3> QED BY <1>4, <1>9, <2>2, <3>1 DEF InvOf, CouponInv
  <2> QED BY <2>1, <2>2
<1> QED BY <1>2, <1>4, <1>5, <1>6, <1>7, <1>8, <1>9 DEF OpenIssuance

-----------------------------------------------------------------------------
(* The steps that disturb the invariant of an ISIN and restore it           *)

\* A partition that can be created has nothing left of an earlier life.
LEMMA CreatableIsClean ==
    ASSUME TypeOK, NEW i \in Isins, InvOf(i), ~terms[i].active
    PROVE  /\ supply[i] = 0
           /\ coupon[i] = NoCoupon
           /\ ~HasOpenAuction(i)
           /\ OpenIssuance(i) = 0
<1>1. ~HasOpenAuction(i)
  BY LatestType DEF InvOf, DisabledInv, HasOpenAuction, Latest, Open, TypeOK
<1> QED BY <1>1 DEF InvOf, DisabledInv, OpenIssuance

LEMMA DeployBondInv ==
    ASSUME TypeOK, NEW i \in Isins, InvOf(i), NEW years, DeployBond(i, years)
    PROVE  InvOf(i)'
<1>1. supply[i] = 0 /\ OpenIssuance(i) = 0
  BY CreatableIsClean DEF DeployBond, CreatePartition
<1>2. /\ terms'[i].active /\ terms'[i].offering = 0
      /\ supply' = supply /\ coupon' = coupon /\ auctions' = auctions
      /\ bondActive' = bondActive
  BY DEF DeployBond, CreatePartition, ledgerVars, managerVars, TypeOK, TokenTypeOK
<1>3. LockInv(i)' /\ RateInv(i)' /\ CouponInv(i)' /\ OpenIssuance(i)' = OpenIssuance(i)
  BY <1>2 DEF InvOf, LockInv, RateInv, CouponInv, OpenIssuance, HasOpenAuction, Latest
<1> QED BY <1>1, <1>2, <1>3 DEF InvOf, OfferingInv, DisabledInv

LEMMA DeployAuctionInv ==
    ASSUME TypeOK, NEW i \in Isins, InvOf(i), NEW size \in Nat, NEW type \in AuctionTypes,
           DeployAuctionForBond(i, now + 1, size, type)
    PROVE  InvOf(i)'
<1>1. now + 1 \in Nat /\ CreateAuction(i, now, now + 1, size, type)
  BY DEF TypeOK, DeployAuctionForBond
<1>2. ~bondActive[i] /\ bondActive'[i] /\ coupon'[i] = coupon[i] /\ supply'[i] = supply[i]
  BY DEF DeployAuctionForBond, TypeOK, ledgerVars
<1>3. /\ LockInv(i)' /\ RateInv(i)' /\ CouponInv(i)'
      /\ OpenIssuance(i)' = IF type = "BUYBACK" THEN 0 ELSE size
  BY <1>1, <1>2, AuctionAdded
<1>4. terms[i] \in Terms /\ terms[i].active
  BY TypeFacts DEF DeployAuctionForBond
<1>5. /\ terms'[i].active
      /\ terms'[i].offering = terms[i].offering + (IF type = "BUYBACK" THEN 0 ELSE size)
  <2>1. CASE type = "BUYBACK"
    BY <1>4, <2>1 DEF DeployAuctionForBond, GrowOffering, Terms
  <2>2. CASE type # "BUYBACK"
    <3>1. terms' = [terms EXCEPT ![i].offering = terms[i].offering + size]
      BY <2>2 DEF DeployAuctionForBond, GrowOffering, ExtendPartitionOffering,
                  TypeOK, TokenTypeOK
    <3> QED BY <1>4, <2>2, <3>1 DEF TypeOK, TokenTypeOK, Terms
  <2> QED BY <2>1, <2>2
<1>6. supply[i] <= terms[i].offering
  <2>1. ~HasOpenAuction(i)
    BY <1>2 DEF InvOf, LockInv
  <2> QED BY <2>1, TypeFacts DEF InvOf, OfferingInv, OpenIssuance
<1>7. OfferingInv(i)'
  BY <1>2, <1>3, <1>4, <1>5, <1>6, TypeFacts DEF OfferingInv, Terms
<1> QED BY <1>3, <1>5, <1>7 DEF InvOf, DisabledInv

LEMMA DeployBondWithAuctionInv ==
    ASSUME TypeOK, NEW i \in Isins, InvOf(i), NEW size \in Nat, NEW years,
           DeployBondWithAuction(i, now + 1, size, years)
    PROVE  InvOf(i)'
<1>1. now + 1 \in Nat /\ CreateAuction(i, now, now + 1, size, "RATE")
  BY DEF TypeOK, DeployBondWithAuction
<1>2. ~bondActive[i] /\ bondActive'[i] /\ coupon'[i] = coupon[i] /\ supply'[i] = supply[i]
  BY DEF DeployBondWithAuction, TypeOK, ledgerVars
<1>3. LockInv(i)' /\ RateInv(i)' /\ CouponInv(i)' /\ OpenIssuance(i)' = size
  BY <1>1, <1>2, AuctionAdded DEF AuctionTypes
<1>4. supply[i] = 0
  BY CreatableIsClean DEF DeployBondWithAuction, CreatePartition
<1>5. terms'[i].active /\ terms'[i].offering = size
  BY DEF DeployBondWithAuction, CreatePartition, TypeOK, TokenTypeOK
<1> QED BY <1>2, <1>3, <1>4, <1>5 DEF InvOf, OfferingInv, DisabledInv

\* Disabling: the auctions of a bond that is not in flight and was never issued are
\* all cancelled.
LEMMA DisableBondInv ==
    ASSUME TypeOK, NEW i \in Isins, InvOf(i), DisableBond(i)
    PROVE  InvOf(i)' /\ coupon[i].duration = 0
<1>1. /\ supply'[i] = 0 /\ coupon'[i] = NoCoupon /\ terms'[i] = NoTerms
      /\ auctions' = auctions /\ bondActive' = bondActive
  BY DEF DisableBond, DisablePartition, ledgerVars, managerVars, TypeOK, TokenTypeOK
<1>2. auctions[i] \in Seq(Auctions) /\ Len(auctions[i]) \in Nat
  BY TypeFacts
<1>3. ~HasOpenAuction(i) /\ OpenIssuance(i) = 0
  BY DEF DisableBond, InvOf, LockInv, OpenIssuance
<1>4. ASSUME NEW n \in 1 .. Len(auctions[i])
      PROVE  auctions[i][n].status = "CANCELLED"
  <2>1. auctions[i][n].status \in Statuses
    <3>1. auctions[i][n] \in Auctions
      BY <1>2
    <3> QED BY <3>1 DEF Auctions
  <2>2. auctions[i][n].status # "FINALISED"
    BY DEF DisableBond
  <2>3. auctions[i][n].status \notin Open
    <3>1. CASE n = Len(auctions[i])
      BY <1>2, <1>3, <3>1 DEF HasOpenAuction, Latest
    <3>2. CASE n # Len(auctions[i])
      <4>1. n \in 1 .. Len(auctions[i]) - 1
        BY <1>2, <3>2
      <4> QED BY <4>1 DEF InvOf, LockInv
    <3> QED BY <3>1, <3>2
  <2> QED BY <2>1, <2>2, <2>3 DEF Statuses, Open
<1>5. LockInv(i)' /\ RateInv(i)' /\ OpenIssuance(i)' = 0
  BY <1>1, <1>3 DEF InvOf, LockInv, RateInv, OpenIssuance, HasOpenAuction, Latest
<1>6. ~(auctions[i] # <<>> /\ auctions[i][1].status = "FINALISED")
  BY <1>2 DEF DisableBond
<1>7. CouponInv(i)'
  BY <1>1, <1>6 DEF CouponInv, NoCoupon
<1>8. coupon[i].duration = 0
  BY <1>6 DEF InvOf, CouponInv
<1> QED BY <1>1, <1>4, <1>5, <1>7, <1>8 DEF InvOf, OfferingInv, DisabledInv, NoTerms

\* Until the latest auction of an ISIN is over, the first one is only if it is another.
LEMMA FirstIfLatest ==
    ASSUME TypeOK, NEW i \in Isins, HasOpenAuction(i), NEW a \in Auctions, UpdateLatest(i, a)
    PROVE  /\ auctions[i] # <<>> /\ auctions'[i] # <<>>
           /\ IF Len(auctions[i]) = 1
                THEN auctions[i][1].status # "FINALISED" /\ auctions'[i][1] = a
                ELSE auctions'[i][1] = auctions[i][1]
<1>1. auctions[i] # <<>>
  BY DEF HasOpenAuction
<1>2. /\ auctions'[i] # <<>>
      /\ auctions'[i][Len(auctions[i])] = a
  BY <1>1, LatestRewritten DEF TypeOK
<1>3. auctions[i][Len(auctions[i])].status # "FINALISED"
  BY DEF HasOpenAuction, Latest, Open
<1>4. Len(auctions[i]) # 1 => auctions'[i][1] = auctions[i][1]
  BY <1>1, FirstKept DEF TypeOK
<1> QED BY <1>1, <1>2, <1>3, <1>4

LEMMA CancelInv ==
    ASSUME TypeOK, NEW i \in Isins, InvOf(i), CancelBondAuction(i)
    PROVE  InvOf(i)'
<1> DEFINE a == [Latest(i) EXCEPT !.status = "CANCELLED"]
<1>1. HasOpenAuction(i) /\ UpdateLatest(i, a)
  BY DEF CancelBondAuction, CancelAuction
<1>2. Latest(i) \in Auctions
  BY <1>1, LatestType DEF HasOpenAuction, TypeOK
<1>3. a \in Auctions /\ a.status = "CANCELLED" /\ a.type = Latest(i).type
  BY <1>2 DEF Auctions, Statuses
<1> HIDE DEF a
<1>4. ~bondActive'[i] /\ coupon'[i] = coupon[i] /\ supply'[i] = supply[i]
  BY DEF CancelBondAuction, TypeOK, ledgerVars
<1>5. LockInv(i)' /\ OpenIssuance(i)' = 0 /\ terms[i].active
  BY <1>1, <1>3, <1>4, NowOver DEF Open
<1>6. RateInv(i)'
  BY <1>1, <1>3, RateKept DEF InvOf, HasOpenAuction
<1>7. /\ terms'[i].active
      /\ terms'[i].offering = terms[i].offering - Latest(i).offering
      /\ terms[i].offering - Latest(i).offering >= supply[i]
  <2>1. terms[i] \in Terms
    BY TypeFacts
  <2>2. terms' = [terms EXCEPT ![i].offering = terms[i].offering - Latest(i).offering]
    BY DEF CancelBondAuction, ReducePartitionOffering, TypeOK, TokenTypeOK
  <2> QED BY <1>5, <2>1, <2>2 DEF CancelBondAuction, ReducePartitionOffering,
                                  CanReduceOffering, TypeOK, TokenTypeOK, Terms
<1>8. OfferingInv(i)'
  <2>1. supply'[i] + 0 = supply'[i]
    BY <1>4, TypeFacts
  <2> QED BY <1>2, <1>4, <1>5, <1>7, <2>1, TypeFacts DEF OfferingInv, Terms, Auctions
<1>9. CouponInv(i)'
  BY <1>1, <1>3, <1>4, FirstIfLatest DEF InvOf, CouponInv
<1> QED BY <1>5, <1>6, <1>7, <1>8, <1>9 DEF InvOf, DisabledInv

\* Finalising: a RATE auction is the first, so the coupon starts exactly when the first
\* auction is finalised; the units minted were offered.
LEMMA FinaliseInv ==
    ASSUME TypeOK, NEW i \in Isins, InvOf(i), Finalise(i)
    PROVE  /\ InvOf(i)'
           /\ \/ coupon'[i] = coupon[i]
              \/ coupon[i].duration = 0
           /\ \A j \in Isins \ {i} : /\ supply'[j] = supply[j]
                                     /\ coupon'[j] = coupon[j]
                                     /\ auctions'[j] = auctions[j]
                                     /\ bondActive'[j] = bondActive[j]
<1>1. HasOpenAuction(i)
  BY DEF Finalise
<1>2. PICK type \in AuctionTypes, indexes \in BidIndexLists(i) :
          \E alloc \in AllocationLists(indexes) : FinaliseBondAuction(i, type, alloc, indexes)
  BY DEF Finalise
<1>3. PICK alloc \in AllocationLists(indexes) : FinaliseBondAuction(i, type, alloc, indexes)
  BY <1>2
<1>4. PICK total \in 1 .. Latest(i).offering :
          /\ FinaliseAuction(i, type, alloc, indexes, total)
          /\ IF type = "BUYBACK" THEN PrepareBuyback(i, total)
                                 ELSE PrepareIssuance(i, type, total, alloc[1].rate)
  BY <1>3 DEF FinaliseBondAuction
<1> DEFINE a == [Latest(i) EXCEPT !.status = "FINALISED", !.allocations = alloc]
<1>5. UpdateLatest(i, a) /\ type = Latest(i).type
  BY <1>4 DEF FinaliseAuction
<1>6. Latest(i) \in Auctions /\ Len(auctions[i]) \in Nat \ {0}
  BY <1>1, LatestType DEF HasOpenAuction, TypeOK
<1>7. a \in Auctions /\ a.status = "FINALISED" /\ a.type = Latest(i).type
  <2>1. alloc \in Seq([bidder : Bidders, nonce : Nonces, units : Units, rate : Rates])
    BY <1>1, AllocationListType DEF TypeOK
  <2>2. [bidder : Bidders, nonce : Nonces, units : Units, rate : Rates]
            \subseteq [bidder : Bidders, nonce : Nonces, units : Nat, rate : Nat]
    BY ManagerAssumption DEF ManagerAssumption
  <2>3. alloc \in Seq(Allocations)
    BY <1>4, <2>1, <2>2, FinaliseAuctionType DEF TypeOK
  <2> QED BY <1>6, <2>3 DEF Auctions, Statuses
<1> HIDE DEF a
<1>8. ~bondActive'[i] /\ terms'[i] = terms[i] /\ total \in Nat /\ total <= Latest(i).offering
  BY <1>3, <1>6 DEF FinaliseBondAuction, TypeOK, Auctions
<1>9. LockInv(i)' /\ OpenIssuance(i)' = 0 /\ terms[i].active
  BY <1>1, <1>5, <1>7, <1>8, NowOver DEF Open
<1>10. RateInv(i)'
  BY <1>1, <1>5, <1>7, RateKept DEF InvOf, HasOpenAuction
<1>11. OfferingInv(i)'
  <2>1. CASE type = "BUYBACK"
    <3>1. supply' = supply
      BY <1>4, <2>1 DEF PrepareBuyback, ledgerVars
    <3> QED BY <1>1, <1>5, <1>8, <1>9, <2>1, <3>1, TypeFacts
            DEF InvOf, OfferingInv, OpenIssuance
  <2>2. CASE type # "BUYBACK"
    <3>1. supply'[i] = supply[i] + total /\ supply[i] + total <= terms[i].offering
      BY <1>4, <2>2 DEF PrepareIssuance, MintByIsin, Mint, TypeOK, TokenTypeOK, LedgerTypeOK
    <3> QED BY <1>8, <1>9, <3>1, TypeFacts DEF OfferingInv
  <2> QED BY <2>1, <2>2
<1>12. type = "RATE" <=> Len(auctions[i]) = 1
  <2> DEFINE len == Len(auctions[i])
  <2>1. len \in Nat \ {0} /\ \A n \in 1 .. len : auctions[i][n].type = "RATE" <=> n = 1
    BY <1>6 DEF InvOf, RateInv
  <2> HIDE DEF len
  <2>2. auctions[i][len].type = "RATE" <=> len = 1
    BY <2>1
  <2> QED BY <1>5, <2>2 DEF Latest, len
<1>13. CASE type = "RATE"
  <2>1. auctions'[i] # <<>> /\ auctions'[i][1].status = "FINALISED"
    BY <1>1, <1>5, <1>7, <1>12, <1>13, FirstIfLatest
  <2>2. coupon[i].duration = 0
    BY <1>1, <1>5, <1>7, <1>12, <1>13, FirstIfLatest DEF InvOf, CouponInv
  <2>3. PrepareIssuance(i, type, total, alloc[1].rate) /\ coupon[i] \in Coupon
    BY <1>4, <1>13, TypeFacts
  <2>4. /\ coupon'[i].duration = DurationScalar
        /\ \A j \in Isins \ {i} : coupon'[j] = coupon[j] /\ supply'[j] = supply[j]
    <3>1. EnableByIsin(i, now, DurationScalar, alloc[1].rate)
      BY <1>13, <2>3 DEF PrepareIssuance
    <3>2. coupon' = [coupon EXCEPT ![i] =
             [coupon[i] EXCEPT !.duration = DurationScalar, !.yield = alloc[1].rate,
                 !.lastPayment = now, !.paymentCount = 0,
                 !.maturityDate = now + terms[i].maturityDuration]]
      BY <3>1 DEF EnableByIsin
    <3>3. coupon'[i].duration = DurationScalar /\ \A j \in Isins \ {i} : coupon'[j] = coupon[j]
      BY <2>3, <3>2 DEF TypeOK, TokenTypeOK, Coupon
    <3>4. \A j \in Isins \ {i} : supply'[j] = supply[j]
      BY <2>3 DEF PrepareIssuance, MintByIsin, Mint, TypeOK, TokenTypeOK, LedgerTypeOK
    <3> QED BY <3>3, <3>4
  <2>5. CouponInv(i)'
    BY <2>1, <2>4, ManagerAssumption DEF ManagerAssumption, CouponInv
  <2>6. \A j \in Isins \ {i} : auctions'[j] = auctions[j] /\ bondActive'[j] = bondActive[j]
    BY <1>1, <1>3, <1>5, <1>7, LatestRewritten
       DEF FinaliseBondAuction, HasOpenAuction, TypeOK
  <2> QED BY <1>8, <1>9, <1>10, <1>11, <2>2, <2>4, <2>5, <2>6 DEF InvOf, DisabledInv
<1>14. CASE type # "RATE"
  <2>1. coupon' = coupon /\ \A j \in Isins \ {i} : supply'[j] = supply[j]
    BY <1>4, <1>14 DEF PrepareBuyback, PrepareIssuance, MintByIsin, Mint, ledgerVars,
                       TypeOK, TokenTypeOK, LedgerTypeOK
  <2>2. auctions[i] # <<>> /\ auctions'[i] # <<>> /\ auctions'[i][1] = auctions[i][1]
    BY <1>1, <1>5, <1>7, <1>12, <1>14, FirstIfLatest
  <2>3. CouponInv(i)'
    BY <2>1, <2>2 DEF InvOf, CouponInv
  <2>4. \A j \in Isins \ {i} : auctions'[j] = auctions[j] /\ bondActive'[j] = bondActive[j]
    BY <1>1, <1>3, <1>5, <1>7, LatestRewritten
       DEF FinaliseBondAuction, HasOpenAuction, TypeOK
  <2> QED BY <1>8, <1>9, <1>10, <1>11, <2>1, <2>3, <2>4 DEF InvOf, DisabledInv
<1> QED BY <1>13, <1>14

\* What a coupon payment does to the ISIN it pays and to the others
LEMMA PayCouponEffect ==
    ASSUME TypeOK, NEW i \in Isins, InvOf(i), NEW listed, PayCoupon(i, listed)
    PROVE  /\ terms' = terms /\ auctions' = auctions /\ bondActive' = bondActive
           /\ terms[i].active
           /\ supply'[i] \in Nat /\ supply'[i] <= supply[i]
           /\ coupon'[i].duration = coupon[i].duration
           /\ coupon'[i].yield = coupon[i].yield
           /\ coupon'[i].paymentCount = coupon[i].paymentCount + 1
           /\ coupon[i].matured => coupon'[i].matured
           /\ \A j \in Isins \ {i} : supply'[j] = supply[j] /\ coupon'[j] = coupon[j]
<1> DEFINE number == coupon[i].paymentCount + 1
           final  == number = ExpectedPayments(i)
           paid   == [coupon[i] EXCEPT !.lastPayment = now, !.paymentCount = number]
<1>1. coupon[i] \in Coupon /\ supply[i] \in Nat
  BY TypeFacts
<1>2. coupon' = [coupon EXCEPT ![i] = IF final THEN [paid EXCEPT !.matured = TRUE] ELSE paid]
  BY DEF PayCoupon, RecordCouponPayment
<1>3. /\ coupon'[i] = IF final THEN [paid EXCEPT !.matured = TRUE] ELSE paid
      /\ \A j \in Isins \ {i} : coupon'[j] = coupon[j]
  BY <1>2 DEF TypeOK, TokenTypeOK
<1>4. /\ paid.duration = coupon[i].duration /\ paid.yield = coupon[i].yield
      /\ paid.paymentCount = number /\ paid.matured = coupon[i].matured
      /\ [paid EXCEPT !.matured = TRUE].duration = coupon[i].duration
      /\ [paid EXCEPT !.matured = TRUE].yield = coupon[i].yield
      /\ [paid EXCEPT !.matured = TRUE].paymentCount = number
      /\ [paid EXCEPT !.matured = TRUE].matured
  BY <1>1 DEF Coupon
<1> HIDE DEF paid
<1>5. terms[i].active
  BY DEF InvOf, DisabledInv, NoCoupon, PayCoupon
<1>6. supply' = supply \/ supply' = [supply EXCEPT ![i] = 0]
  BY DEF PayCoupon, ledgerVars
<1>7. /\ supply'[i] \in Nat /\ supply'[i] <= supply[i]
      /\ \A j \in Isins \ {i} : supply'[j] = supply[j]
  BY <1>1, <1>6 DEF TypeOK, TokenTypeOK, LedgerTypeOK
<1>8. terms' = terms /\ auctions' = auctions /\ bondActive' = bondActive
  BY DEF PayCoupon, managerVars
<1> QED BY <1>3, <1>4, <1>5, <1>7, <1>8

\* Settling an allocation burns units or moves them, and touches nothing else.
LEMMA SettleEffect ==
    ASSUME TypeOK, SettleAllocation, NEW j \in Isins
    PROVE  /\ terms' = terms /\ coupon' = coupon /\ auctions' = auctions
           /\ bondActive' = bondActive
           /\ supply'[j] \in Nat /\ supply'[j] <= supply[j]
<1> DEFINE s == Head(pending)
<1>1. s \in Settlements
  BY DEF SettleAllocation, Idle, TypeOK
<1>2. TrySettle(s)
  BY DEF SettleAllocation
<1> HIDE DEF s
<1>3. CASE supply' = supply
  BY <1>3, TypeFacts DEF SettleAllocation
<1>4. CASE Burn(s.isin, s.bondFrom, s.units)
  <2>1. s.isin \in Isins /\ s.units \in Nat
    BY <1>1 DEF Settlements
  <2>2. /\ supply' = [supply EXCEPT ![s.isin] = supply[s.isin] - s.units]
        /\ s.units <= supply[s.isin]
    BY <1>4 DEF Burn
  <2> QED BY <2>1, <2>2 DEF SettleAllocation, TypeOK, TokenTypeOK, LedgerTypeOK
<1> QED BY <1>2, <1>3, <1>4 DEF TrySettle, Settle, SettleSecurityLeg, Move, ledgerVars

\* Every step preserves the invariant of every ISIN: the one it is about, by the lemmas
\* above, and the others, which it does not touch.
LEMMA NextInv ==
    ASSUME IInv, [Next]_vars
    PROVE  IInv'
<1> USE DEF IInv
<1>1. TypeOK'
  BY NextType
<1> SUFFICES ASSUME NEW j \in Isins
             PROVE  InvOf(j)'
  BY <1>1
<1>2. ASSUME NEW i \in Isins, NEW years \in Years, DeployBond(i, years)
      PROVE  InvOf(j)'
  <2>1. CASE j = i
    BY <1>2, <2>1, DeployBondInv
  <2>2. CASE j # i
    BY <1>2, <2>2, Untouched DEF DeployBond, CreatePartition, ledgerVars, managerVars,
                                 TypeOK, TokenTypeOK
  <2> QED BY <2>1, <2>2
<1>3. ASSUME NEW i \in Isins, NEW size \in Sizes, NEW type \in AuctionTypes,
             DeployAuctionForBond(i, now + 1, size, type)
      PROVE  InvOf(j)'
  <2>1. CASE j = i
    BY <1>3, <2>1, DeployAuctionInv, ManagerAssumption DEF ManagerAssumption
  <2>2. CASE j # i
    <3>1. /\ auctions'[j] = auctions[j] /\ terms'[j] = terms[j]
          /\ bondActive'[j] = bondActive[j]
      BY <1>3, <2>2 DEF DeployAuctionForBond, GrowOffering, ExtendPartitionOffering,
                        CreateAuction, TypeOK, TokenTypeOK, AuctionTypeOK
    <3> QED BY <1>3, <3>1, Untouched DEF DeployAuctionForBond, ledgerVars
  <2> QED BY <2>1, <2>2
<1>4. ASSUME NEW i \in Isins, NEW size \in Sizes, NEW years \in Years,
             DeployBondWithAuction(i, now + 1, size, years)
      PROVE  InvOf(j)'
  <2>1. CASE j = i
    BY <1>4, <2>1, DeployBondWithAuctionInv, ManagerAssumption DEF ManagerAssumption
  <2>2. CASE j # i
    BY <1>4, <2>2, Untouched DEF DeployBondWithAuction, CreatePartition, CreateAuction,
                                 ledgerVars, TypeOK, TokenTypeOK, AuctionTypeOK
  <2> QED BY <2>1, <2>2
<1>5. ASSUME NEW i \in Isins, DisableBond(i)
      PROVE  InvOf(j)'
  <2>1. CASE j = i
    BY <1>5, <2>1, DisableBondInv
  <2>2. CASE j # i
    BY <1>5, <2>2, Untouched DEF DisableBond, DisablePartition, ledgerVars, managerVars,
                                 TypeOK, TokenTypeOK
  <2> QED BY <2>1, <2>2
<1>6. ASSUME NEW i \in Isins, NEW hash \in Hashes, PlaceBid(i, hash)
      PROVE  InvOf(j)'
  <2> DEFINE a == [Latest(i) EXCEPT !.bids = Append(@, hash)]
  <2>1. HasOpenAuction(i) /\ UpdateLatest(i, a) /\ Latest(i).status = "BIDDING"
    BY <1>6 DEF PlaceBid, SubmitBid, HasOpenAuction, Open
  <2>2. Latest(i) \in Auctions
    BY <2>1, LatestType DEF HasOpenAuction, TypeOK
  <2>3. Append(Latest(i).bids, hash) \in Seq(Hashes)
    BY <2>2 DEF Auctions
  <2>4. /\ a \in Auctions /\ a.status = "BIDDING" /\ a.type = Latest(i).type
        /\ a.offering = Latest(i).offering
    BY <2>1, <2>2, <2>3 DEF Auctions
  <2> HIDE DEF a
  <2>5. supply' = supply /\ terms' = terms /\ coupon' = coupon /\ bondActive' = bondActive
    BY <1>6 DEF PlaceBid, tokenVars, managerVars
  <2>6. CASE j = i
    BY <2>1, <2>4, <2>5, <2>6, StillOpen DEF Open
  <2>7. CASE j # i
    BY <2>1, <2>4, <2>5, <2>7, LatestRewritten, Untouched DEF HasOpenAuction, TypeOK
  <2> QED BY <2>6, <2>7
<1>7. ASSUME NEW i \in Isins, CloseBidding(i)
      PROVE  InvOf(j)'
  <2> DEFINE a == [Latest(i) EXCEPT !.status = "CLOSED"]
  <2>1. HasOpenAuction(i) /\ UpdateLatest(i, a)
    BY <1>7 DEF CloseBidding, CloseAuction, HasOpenAuction, Open
  <2>2. Latest(i) \in Auctions
    BY <2>1, LatestType DEF HasOpenAuction, TypeOK
  <2>3. /\ a \in Auctions /\ a.status = "CLOSED" /\ a.type = Latest(i).type
        /\ a.offering = Latest(i).offering
    BY <2>2 DEF Auctions, Statuses
  <2> HIDE DEF a
  <2>4. supply' = supply /\ terms' = terms /\ coupon' = coupon /\ bondActive' = bondActive
    BY <1>7 DEF CloseBidding, tokenVars, managerVars
  <2>5. CASE j = i
    BY <2>1, <2>3, <2>4, <2>5, StillOpen DEF Open
  <2>6. CASE j # i
    BY <2>1, <2>3, <2>4, <2>6, LatestRewritten, Untouched DEF HasOpenAuction, TypeOK
  <2> QED BY <2>5, <2>6
<1>8. ASSUME NEW i \in Isins, CancelBondAuction(i)
      PROVE  InvOf(j)'
  <2>1. CASE j = i
    BY <1>8, <2>1, CancelInv
  <2>2. CASE j # i
    BY <1>8, <2>2, Untouched
       DEF CancelBondAuction, CancelAuction, UpdateLatest, ReducePartitionOffering,
           ledgerVars, TypeOK, TokenTypeOK, AuctionTypeOK
  <2> QED BY <2>1, <2>2
<1>9. ASSUME NEW i \in Isins, Finalise(i)
      PROVE  InvOf(j)'
  <2>1. CASE j = i
    BY <1>9, <2>1, FinaliseInv
  <2>2. CASE j # i
    <3>1. terms' = terms
      BY <1>9 DEF Finalise, FinaliseBondAuction
    <3> QED BY <1>9, <2>2, <3>1, FinaliseInv, Untouched
  <2> QED BY <2>1, <2>2
<1>10. ASSUME NEW i \in Isins, NEW listed \in SUBSET Accounts, PayCoupon(i, listed)
       PROVE  InvOf(j)'
  BY <1>10, PayCouponEffect, UnitsGone, Untouched
<1>11. ASSUME SettleAllocation
       PROVE  InvOf(j)'
  BY <1>11, SettleEffect, UnitsGone
<1>12. CASE UNCHANGED <<supply, terms, coupon, auctions, bondActive>>
  BY <1>12, Untouched
<1>13. ASSUME \/ \E i \in Isins, from, to \in Accounts, v \in Amounts : TransferUnits(i, from, to, v)
              \/ MoveCash \/ EditAllowlist \/ Tick \/ UNCHANGED vars
       PROVE  UNCHANGED <<supply, terms, coupon, auctions, bondActive>>
  BY <1>13 DEF TransferUnits, Move, MoveCash, EditAllowlist, Tick, vars, tokenVars, managerVars
<1> QED BY <1>2, <1>3, <1>4, <1>5, <1>6, <1>7, <1>8, <1>9, <1>10, <1>11, <1>12, <1>13 DEF Next

\* At the start no ISIN has an auction, units or terms.
LEMMA InitInv == Init => IInv
<1> SUFFICES ASSUME Init PROVE IInv
  OBVIOUS
<1>1. TypeOK
  BY InitType
<1> SUFFICES ASSUME NEW i \in Isins PROVE InvOf(i)
  BY <1>1 DEF IInv
<1>2. /\ supply[i] = 0 /\ terms[i] = NoTerms /\ coupon[i] = NoCoupon
      /\ auctions[i] = <<>> /\ ~bondActive[i]
  BY DEF Init, TokenInit, LedgerInit, AuctionInit
<1>3. ~HasOpenAuction(i) /\ OpenIssuance(i) = 0
  BY <1>2 DEF HasOpenAuction, OpenIssuance
<1> QED BY <1>2, <1>3 DEF InvOf, LockInv, RateInv, OfferingInv, DisabledInv, CouponInv,
                          NoTerms, NoCoupon

-----------------------------------------------------------------------------
(* The theorems                                                             *)

\* The invariant holds in every reachable state.
THEOREM Inductive == Spec => []IInv
<1>1. Init => IInv
  BY InitInv
<1>2. IInv /\ [Next]_vars => IInv'
  BY NextInv
<1> QED BY <1>1, <1>2, PTL DEF Spec

\* The manager's in-flight lock and the auction contract never disagree: bondActive is
\* set exactly while the latest auction of the ISIN is open, and no older one is open.
THEOREM LockTheorem == Spec => []LockMatchesAuction
<1>1. IInv => LockMatchesAuction
  BY DEF IInv, InvOf, LockInv, LockMatchesAuction
<1> QED BY <1>1, Inductive, PTL

\* The offering always covers the supply together with what the open auction may add,
\* so that no auction that was opened can fail at its finalisation for want of offering.
THEOREM OfferingTheorem == Spec => []IssuanceCovered
<1>1. IInv => IssuanceCovered
  BY DEF IInv, InvOf, OfferingInv, IssuanceCovered
<1> QED BY <1>1, Inductive, PTL

\* A disabled ISIN has no units, no coupon terms and no auction but cancelled ones, so
\* that creating it again starts from nothing.
THEOREM DisabledTheorem == Spec => []DisabledLeavesNothing
<1>1. IInv => DisabledLeavesNothing
  BY DEF IInv, InvOf, DisabledInv, DisabledLeavesNothing
<1> QED BY <1>1, Inductive, PTL

\* Coupon terms exist exactly when the first auction of the ISIN was finalised: no later
\* auction, and no disabling and creating again, starts or clears them.
THEOREM CouponTheorem == Spec => []CouponFromFirstAuction
<1>1. IInv => CouponFromFirstAuction
  BY DEF IInv, InvOf, CouponInv, CouponFromFirstAuction
<1> QED BY <1>1, Inductive, PTL

\* One step and the coupon of one ISIN: only RATE auctions, which come first, and
\* disabling, which comes before any issuance, overwrite the coupon terms.
LEMMA CouponStep ==
    ASSUME IInv, [Next]_vars, NEW j \in Isins, coupon[j].duration # 0
    PROVE  /\ coupon'[j].duration = coupon[j].duration
           /\ coupon'[j].yield = coupon[j].yield
           /\ coupon'[j].paymentCount \in {coupon[j].paymentCount, coupon[j].paymentCount + 1}
           /\ coupon[j].matured => coupon'[j].matured
<1> USE DEF IInv
<1>1. CASE coupon'[j] = coupon[j]
  BY <1>1
<1>2. ASSUME NEW i \in Isins, DisableBond(i)
      PROVE  coupon'[j] = coupon[j]
  <2>1. j # i
    BY <1>2, DisableBondInv
  <2> QED BY <1>2, <2>1 DEF DisableBond, DisablePartition
<1>3. ASSUME NEW i \in Isins, Finalise(i)
      PROVE  coupon'[j] = coupon[j]
  BY <1>3, FinaliseInv
<1>4. ASSUME NEW i \in Isins, NEW listed \in SUBSET Accounts, PayCoupon(i, listed), j # i
      PROVE  coupon'[j] = coupon[j]
  BY <1>4, PayCouponEffect
<1>5. ASSUME NEW listed \in SUBSET Accounts, PayCoupon(j, listed)
      PROVE  /\ coupon'[j].duration = coupon[j].duration
             /\ coupon'[j].yield = coupon[j].yield
             /\ coupon'[j].paymentCount = coupon[j].paymentCount + 1
             /\ coupon[j].matured => coupon'[j].matured
  BY <1>5, PayCouponEffect
<1>6. ASSUME NEW i \in Isins,
             \/ \E years \in Years : DeployBond(i, years)
             \/ \E size \in Sizes, type \in AuctionTypes :
                   DeployAuctionForBond(i, now + 1, size, type)
             \/ \E size \in Sizes, years \in Years :
                   DeployBondWithAuction(i, now + 1, size, years)
             \/ CancelBondAuction(i)
      PROVE  coupon' = coupon
  BY <1>6 DEF DeployBond, DeployAuctionForBond, DeployBondWithAuction, CancelBondAuction
<1>7. ASSUME NEW i \in Isins,
             \/ \E hash \in Hashes : PlaceBid(i, hash)
             \/ CloseBidding(i)
             \/ \E from, to \in Accounts, v \in Amounts : TransferUnits(i, from, to, v)
      PROVE  coupon' = coupon
  BY <1>7 DEF PlaceBid, CloseBidding, TransferUnits, tokenVars
<1>8. ASSUME SettleAllocation \/ MoveCash \/ EditAllowlist \/ Tick \/ UNCHANGED vars
      PROVE  coupon' = coupon
  BY <1>8 DEF SettleAllocation, MoveCash, EditAllowlist, Tick, vars, tokenVars
<1> QED BY <1>1, <1>2, <1>3, <1>4, <1>5, <1>6, <1>7, <1>8 DEF Next

\* Once a bond is issued its coupon terms are fixed, its payments are counted one at a
\* time, and maturity is for good.
THEOREM CouponHistoryTheorem == Spec => CouponHistoryIsFinal
<1>1. IInv /\ [Next]_vars =>
          [\A i \in Isins : coupon[i].duration # 0 =>
              /\ coupon'[i].duration = coupon[i].duration
              /\ coupon'[i].yield = coupon[i].yield
              /\ coupon'[i].paymentCount \in {coupon[i].paymentCount, coupon[i].paymentCount + 1}
              /\ coupon[i].matured => coupon'[i].matured]_vars
  BY CouponStep
<1> QED BY <1>1, Inductive, PTL DEF Spec, CouponHistoryIsFinal

-----------------------------------------------------------------------------
(* The timing of coupons.  Both theorems follow from ClockInv, which adds   *)
(* to IInv that a maturity is a whole number of coupon periods, so that     *)
(* dividing by the period leaves no remainder.                              *)

\* A maturity is a number of years, and a partition that is active has one.
WholeYears(i) ==
    /\ \E y \in Nat : terms[i].maturityDuration = y * DurationScalar
    /\ terms[i].active => terms[i].maturityDuration # 0

\* The payments of i are those that are due and not more
PaymentsInv(i) ==
    IF coupon[i].duration = 0
      THEN coupon[i].paymentCount = 0 /\ ~coupon[i].matured
      ELSE /\ coupon[i].duration = DurationScalar
           /\ coupon[i].paymentCount <= ExpectedPayments(i)
           /\ coupon[i].matured <=> coupon[i].paymentCount = ExpectedPayments(i)

\* No period was paid before it had passed.
TimelyInv(i) ==
    coupon[i].duration # 0 =>
        /\ coupon[i].lastPayment <= now
        /\ coupon[i].maturityDate + coupon[i].paymentCount * coupon[i].duration
             <= coupon[i].lastPayment + terms[i].maturityDuration
        /\ coupon[i].matured => now >= coupon[i].maturityDate

ClockInv(i) == WholeYears(i) /\ PaymentsInv(i) /\ TimelyInv(i)

\* Dividing a whole number of years into years leaves no remainder.
LEMMA WholeDivision ==
    ASSUME NEW y \in Nat, NEW d \in Nat \ {0}
    PROVE  (y * d) \div d = y
OBVIOUS

\* A whole number of years makes as many payments.
LEMMA PaymentsOfYears ==
    ASSUME NEW i \in Isins, NEW y \in Nat, coupon[i].duration = DurationScalar,
           terms[i].maturityDuration = y * DurationScalar
    PROVE  ExpectedPayments(i) = y
BY WholeDivision, ManagerAssumption DEF ManagerAssumption, ExpectedPayments

\* As long as the coupon and the maturity stay, time may pass.
LEMMA ClockRuns ==
    ASSUME TypeOK, NEW i \in Isins, ClockInv(i), now' \in Nat, now' >= now,
           coupon'[i] = coupon[i], terms'[i].maturityDuration = terms[i].maturityDuration,
           terms'[i].active => terms[i].active
    PROVE  ClockInv(i)'
<1>1. WholeYears(i)'
  BY DEF ClockInv, WholeYears
<1>2. PaymentsInv(i)'
  BY DEF ClockInv, PaymentsInv, ExpectedPayments
<1>3. TimelyInv(i)'
  BY TypeFacts DEF ClockInv, TimelyInv, TypeOK, Coupon
<1> QED BY <1>1, <1>2, <1>3 DEF ClockInv

\* A partition that is created, or disabled, has no coupon.
LEMMA ClockRestarts ==
    ASSUME TypeOK, NEW i \in Isins, coupon'[i] = NoCoupon, WholeYears(i)'
    PROVE  ClockInv(i)'
BY DEF ClockInv, PaymentsInv, TimelyInv, NoCoupon

LEMMA CreatedClock ==
    ASSUME TypeOK, NEW i \in Isins, InvOf(i), NEW years \in Years, NEW offering,
           CreatePartition(i, offering, years * DurationScalar), coupon' = coupon
    PROVE  ClockInv(i)'
<1>1. /\ terms'[i].maturityDuration = years * DurationScalar
      /\ years * DurationScalar # 0
  BY DEF CreatePartition, TypeOK, TokenTypeOK
<1>2. WholeYears(i)'
  BY <1>1, ManagerAssumption DEF ManagerAssumption, WholeYears
<1>3. coupon'[i] = NoCoupon
  BY DEF CreatePartition, InvOf, DisabledInv
<1> QED BY <1>2, <1>3, ClockRestarts

LEMMA DisabledClock ==
    ASSUME TypeOK, NEW i \in Isins, DisableBond(i)
    PROVE  ClockInv(i)'
<1>1. terms'[i] = NoTerms /\ coupon'[i] = NoCoupon
  BY DEF DisableBond, DisablePartition, TypeOK, TokenTypeOK
<1>2. 0 = 0 * DurationScalar
  BY ManagerAssumption DEF ManagerAssumption
<1>3. WholeYears(i)'
  BY <1>1, <1>2 DEF WholeYears, NoTerms
<1> QED BY <1>1, <1>3, ClockRestarts

\* Issuance starts the clock: no payment has been made and some is to come.
LEMMA EnabledClock ==
    ASSUME TypeOK, NEW i \in Isins, ClockInv(i), coupon[i].duration = 0,
           NEW yield, EnableByIsin(i, now, DurationScalar, yield),
           terms'[i] = terms[i], now' = now
    PROVE  ClockInv(i)'
<1> DEFINE c == [coupon[i] EXCEPT !.duration = DurationScalar, !.yield = yield,
                     !.lastPayment = now, !.paymentCount = 0,
                     !.maturityDate = now + terms[i].maturityDuration]
<1>1. coupon'[i] = c
  BY DEF EnableByIsin, TypeOK, TokenTypeOK
<1>2. coupon[i] \in Coupon /\ terms[i] \in Terms
  BY TypeFacts
<1>3. /\ c.duration = DurationScalar /\ c.lastPayment = now /\ c.paymentCount = 0
      /\ c.maturityDate = now + terms[i].maturityDuration
      /\ c.matured = coupon[i].matured
  BY <1>2 DEF Coupon
<1> HIDE DEF c
<1>4. ~coupon[i].matured
  BY DEF ClockInv, PaymentsInv
<1>5. PICK y \in Nat : terms[i].maturityDuration = y * DurationScalar
  BY DEF ClockInv, WholeYears
<1>6. y # 0
  BY <1>5, ManagerAssumption DEF ManagerAssumption, EnableByIsin
<1>7. ExpectedPayments(i)' = y
  BY <1>1, <1>3, <1>5, WholeDivision, ManagerAssumption DEF ManagerAssumption, ExpectedPayments
<1>8. DurationScalar \in Nat \ {0}
  BY ManagerAssumption DEF ManagerAssumption
<1>9. PaymentsInv(i)'
  BY <1>1, <1>3, <1>4, <1>6, <1>7, <1>8 DEF PaymentsInv
<1>10. TimelyInv(i)'
  BY <1>1, <1>2, <1>3, <1>4, <1>8 DEF TimelyInv, TypeOK, Terms
<1>11. WholeYears(i)'
  BY DEF ClockInv, WholeYears
<1> QED BY <1>9, <1>10, <1>11 DEF ClockInv

\* A payment is made after its period, and the last one at or after the maturity date.
LEMMA PaidClock ==
    ASSUME TypeOK, NEW i \in Isins, InvOf(i), ClockInv(i), NEW listed, PayCoupon(i, listed)
    PROVE  ClockInv(i)'
<1> DEFINE number == coupon[i].paymentCount + 1
           final  == number = ExpectedPayments(i)
           paid   == [coupon[i] EXCEPT !.lastPayment = now, !.paymentCount = number]
<1>1. coupon[i] \in Coupon /\ terms[i] \in Terms /\ now \in Nat
  BY TypeFacts DEF TypeOK
<1>2. coupon'[i] = IF final THEN [paid EXCEPT !.matured = TRUE] ELSE paid
  BY DEF PayCoupon, RecordCouponPayment, TypeOK, TokenTypeOK
<1>3. terms' = terms /\ now' = now
  BY DEF PayCoupon
<1>4. /\ coupon[i].duration # 0
      /\ coupon[i].paymentCount < ExpectedPayments(i)
      /\ now >= coupon[i].lastPayment + coupon[i].duration
  BY DEF PayCoupon, CouponDue
<1>5. /\ coupon[i].duration = DurationScalar
      /\ ~coupon[i].matured
  BY <1>1, <1>4 DEF ClockInv, PaymentsInv, Coupon
<1>6. DurationScalar \in Nat \ {0}
  BY ManagerAssumption DEF ManagerAssumption
<1>7. PICK y \in Nat : terms[i].maturityDuration = y * DurationScalar
  BY DEF ClockInv, WholeYears
<1>8. ExpectedPayments(i) = y
  BY <1>5, <1>7, PaymentsOfYears
<1>9. /\ coupon'[i].duration = DurationScalar /\ coupon'[i].lastPayment = now
      /\ coupon'[i].paymentCount = number
      /\ coupon'[i].maturityDate = coupon[i].maturityDate
      /\ coupon'[i].matured = final
  BY <1>1, <1>2, <1>5 DEF Coupon
<1> HIDE DEF paid
<1>10. ExpectedPayments(i)' = y
  BY <1>3, <1>7, <1>9, WholeDivision, <1>6 DEF ExpectedPayments
<1>11. PaymentsInv(i)'
  <2>1. coupon'[i].duration = DurationScalar /\ DurationScalar # 0
    BY <1>6, <1>9
  <2>2. coupon[i].paymentCount \in Nat /\ coupon[i].paymentCount < y
    BY <1>1, <1>4, <1>8 DEF Coupon
  <2>3. coupon'[i].paymentCount <= ExpectedPayments(i)'
    BY <1>9, <1>10, <2>2
  <2>4. coupon'[i].matured <=> coupon'[i].paymentCount = ExpectedPayments(i)'
    BY <1>8, <1>9, <1>10
  <2> QED BY <2>1, <2>3, <2>4 DEF PaymentsInv
<1>12. /\ coupon[i].lastPayment \in Nat /\ coupon[i].paymentCount \in Nat
       /\ coupon[i].maturityDate \in Nat /\ terms[i].maturityDuration \in Nat
  BY <1>1 DEF Coupon, Terms
<1>13. coupon[i].maturityDate + number * DurationScalar <= now + terms[i].maturityDuration
  <2>1. coupon[i].maturityDate + coupon[i].paymentCount * DurationScalar
            <= coupon[i].lastPayment + terms[i].maturityDuration
    BY <1>4, <1>5 DEF ClockInv, TimelyInv
  <2>2. number * DurationScalar = coupon[i].paymentCount * DurationScalar + DurationScalar
    BY <1>6, <1>12
  <2>3. coupon[i].paymentCount * DurationScalar \in Nat
    BY <1>6, <1>12
  <2> QED BY <1>1, <1>4, <1>5, <1>6, <1>12, <2>1, <2>2, <2>3
<1>14. final => now >= coupon[i].maturityDate
  BY <1>1, <1>7, <1>8, <1>12, <1>13
<1>15. TimelyInv(i)'
  <2>1. coupon'[i].lastPayment <= now'
    BY <1>1, <1>3, <1>9
  <2>2. coupon'[i].maturityDate + coupon'[i].paymentCount * coupon'[i].duration
            <= coupon'[i].lastPayment + terms'[i].maturityDuration
    BY <1>3, <1>9, <1>13
  <2>3. coupon'[i].matured => now' >= coupon'[i].maturityDate
    BY <1>3, <1>9, <1>14
  <2> QED BY <2>1, <2>2, <2>3 DEF TimelyInv
<1>16. WholeYears(i)'
  BY <1>3 DEF ClockInv, WholeYears
<1> QED BY <1>11, <1>15, <1>16 DEF ClockInv

\* Finalising starts the clock of a RATE auction and touches no other coupon.
LEMMA FinalisedClock ==
    ASSUME TypeOK, NEW i \in Isins, InvOf(i), ClockInv(i), Finalise(i)
    PROVE  ClockInv(i)'
<1>1. terms' = terms /\ now' = now
  BY DEF Finalise, FinaliseBondAuction
<1>2. CASE coupon'[i] = coupon[i]
  BY <1>1, <1>2, ClockRuns DEF TypeOK
<1>3. CASE coupon'[i] # coupon[i]
  <2>1. coupon[i].duration = 0
    BY <1>3, FinaliseInv
  <2>2. \E yield : EnableByIsin(i, now, DurationScalar, yield)
    BY <1>3 DEF Finalise, FinaliseBondAuction, PrepareBuyback, PrepareIssuance
  <2> QED BY <1>1, <2>1, <2>2, EnabledClock
<1> QED BY <1>2, <1>3

\* Every step keeps the clock of every ISIN.
LEMMA ClockStep ==
    ASSUME IInv, \A i \in Isins : ClockInv(i), [Next]_vars
    PROVE  \A i \in Isins : ClockInv(i)'
<1> USE DEF IInv
<1> SUFFICES ASSUME NEW j \in Isins PROVE ClockInv(j)'
  OBVIOUS
<1>1. now \in Nat
  BY DEF TypeOK
<1>2. ASSUME NEW i \in Isins, NEW years \in Years, DeployBond(i, years)
      PROVE  ClockInv(j)'
  <2>1. CASE j = i
    BY <1>2, <2>1, CreatedClock DEF DeployBond
  <2>2. CASE j # i
    BY <1>1, <1>2, <2>2, ClockRuns DEF DeployBond, CreatePartition, TypeOK, TokenTypeOK
  <2> QED BY <2>1, <2>2
<1>3. ASSUME NEW i \in Isins, NEW size \in Sizes, NEW years \in Years,
             DeployBondWithAuction(i, now + 1, size, years)
      PROVE  ClockInv(j)'
  <2>1. CASE j = i
    BY <1>3, <2>1, CreatedClock DEF DeployBondWithAuction
  <2>2. CASE j # i
    BY <1>1, <1>3, <2>2, ClockRuns
       DEF DeployBondWithAuction, CreatePartition, TypeOK, TokenTypeOK
  <2> QED BY <2>1, <2>2
<1>4. ASSUME NEW i \in Isins, DisableBond(i)
      PROVE  ClockInv(j)'
  <2>1. CASE j = i
    BY <1>4, <2>1, DisabledClock
  <2>2. CASE j # i
    BY <1>1, <1>4, <2>2, ClockRuns DEF DisableBond, DisablePartition, TypeOK, TokenTypeOK
  <2> QED BY <2>1, <2>2
<1>5. ASSUME NEW i \in Isins, Finalise(i)
      PROVE  ClockInv(j)'
  <2>1. CASE j = i
    BY <1>5, <2>1, FinalisedClock
  <2>2. CASE j # i
    <3>1. terms' = terms /\ now' = now
      BY <1>5 DEF Finalise, FinaliseBondAuction
    <3>2. coupon'[j] = coupon[j]
      BY <1>5, <2>2, FinaliseInv
    <3> QED BY <1>1, <3>1, <3>2, ClockRuns
  <2> QED BY <2>1, <2>2
<1>6. ASSUME NEW i \in Isins, NEW listed \in SUBSET Accounts, PayCoupon(i, listed)
      PROVE  ClockInv(j)'
  <2>1. CASE j = i
    BY <1>6, <2>1, PaidClock
  <2>2. CASE j # i
    BY <1>1, <1>6, <2>2, PayCouponEffect, ClockRuns DEF PayCoupon
  <2> QED BY <2>1, <2>2
<1>7. ASSUME NEW i \in Isins,
             \/ \E size \in Sizes, type \in AuctionTypes :
                   DeployAuctionForBond(i, now + 1, size, type)
             \/ CancelBondAuction(i)
      PROVE  ClockInv(j)'
  <2>1. coupon' = coupon /\ now' = now
    BY <1>7 DEF DeployAuctionForBond, CancelBondAuction
  <2>2. \/ terms' = terms
        \/ \E offering : terms' = [terms EXCEPT ![i].offering = offering]
    BY <1>7 DEF DeployAuctionForBond, GrowOffering, ExtendPartitionOffering,
                CancelBondAuction, ReducePartitionOffering
  <2>3. /\ terms'[j].maturityDuration = terms[j].maturityDuration
        /\ terms'[j].active = terms[j].active
    BY <2>2, TypeFacts DEF TypeOK, TokenTypeOK, Terms
  <2> QED BY <1>1, <2>1, <2>3, ClockRuns
<1>8. ASSUME coupon' = coupon, terms' = terms, now' \in Nat, now' >= now
      PROVE  ClockInv(j)'
  BY <1>8, ClockRuns
<1>9. ASSUME NEW i \in Isins,
             \/ \E hash \in Hashes : PlaceBid(i, hash)
             \/ CloseBidding(i)
             \/ \E from, to \in Accounts, v \in Amounts : TransferUnits(i, from, to, v)
      PROVE  coupon' = coupon /\ terms' = terms /\ now' = now
  BY <1>9 DEF PlaceBid, CloseBidding, TransferUnits, tokenVars
<1>10. ASSUME SettleAllocation \/ MoveCash \/ EditAllowlist \/ Tick \/ UNCHANGED vars
       PROVE  coupon' = coupon /\ terms' = terms /\ now' \in {now, now + 1}
  BY <1>10 DEF SettleAllocation, MoveCash, EditAllowlist, Tick, vars, tokenVars
<1> QED BY <1>1, <1>2, <1>3, <1>4, <1>5, <1>6, <1>7, <1>8, <1>9, <1>10 DEF Next

LEMMA ClockInit == Init => \A i \in Isins : ClockInv(i)
<1> SUFFICES ASSUME Init, NEW i \in Isins PROVE ClockInv(i)
  OBVIOUS
<1>1. terms[i] = NoTerms /\ coupon[i] = NoCoupon
  BY DEF Init, TokenInit
<1>2. 0 = 0 * DurationScalar
  BY ManagerAssumption DEF ManagerAssumption
<1> QED BY <1>1, <1>2 DEF ClockInv, WholeYears, PaymentsInv, TimelyInv, NoTerms, NoCoupon

ClocksInv == \A i \in Isins : ClockInv(i)

LEMMA ClockInvariance == Spec => []ClocksInv
<1>1. Init => ClocksInv
  BY ClockInit DEF ClocksInv
<1>2. IInv /\ ClocksInv /\ [Next]_vars => ClocksInv'
  BY ClockStep DEF ClocksInv
<1> QED BY <1>1, <1>2, Inductive, PTL DEF Spec

\* A bond is matured exactly when its last coupon has been paid: no payment is missing
\* and none is made twice.
THEOREM MaturityTheorem == Spec => []MaturedIffAllPaid
<1>1. ClocksInv => MaturedIffAllPaid
  BY DEF ClocksInv, ClockInv, PaymentsInv, MaturedIffAllPaid
<1> QED BY <1>1, ClockInvariance, PTL

\* However payments are timed, a coupon is never paid before its period has passed, and
\* no bond matures before its maturity date.
THEOREM CouponTimingTheorem == Spec => []CouponsNotEarly
<1>1. ClocksInv => CouponsNotEarly
  BY DEF ClocksInv, ClockInv, TimelyInv, CouponsNotEarly
<1> QED BY <1>1, ClockInvariance, PTL

-----------------------------------------------------------------------------
(* The units of a list                                                      *)

\* g folds the units of q, the last element on top.
UnitsOnTop(g, q) ==
    g = [s \in SUBSET DOMAIN q |-> IF s = {} THEN 0 ELSE g[s \ {Max(s)}] + q[Max(s)].units]

FoldOfUnits(q) == (CHOOSE g : UnitsOnTop(g, q))[DOMAIN q]

LEMMA TotalIsFolded ==
    ASSUME NEW q
    PROVE  TotalUnits(q) = FoldOfUnits(q)
BY Zenon DEF TotalUnits, FoldLeft, MapThenFoldSet, UnitsOnTop, FoldOfUnits

LEMMA PendingIsFolded == PendingUnits = FoldOfUnits(pending)
BY Zenon DEF PendingUnits, FoldLeft, MapThenFoldSet, UnitsOnTop, FoldOfUnits

\* What a list of things with units adds up to
UnitsIn(q) == [k \in 1 .. Len(q) |-> q[k].units]
SumOfUnits(q) == SumFunctionOnSet(UnitsIn(q), 1 .. Len(q))

LEMMA UnitsSummed ==
    ASSUME NEW T, NEW q \in Seq(T), \A x \in T : x.units \in Int
    PROVE  /\ FoldOfUnits(q) = SumOfUnits(q)
           /\ SumOfUnits(q) \in Int
<1> DEFINE S == 1 .. Len(q)
<1>1. DOMAIN q = S /\ Len(q) \in Nat
  OBVIOUS
<1>2. S \subseteq Int /\ IsFiniteSet(S)
  BY <1>1, FS_Interval
<1>3. \A x \in S : UnitsIn(q)[x] \in Int /\ UnitsIn(q)[x] = q[x].units
  BY <1>1 DEF UnitsIn
<1> HIDE DEF S
<1>4. \A s \in SUBSET S : s # {} => Max(s) \in S
  BY <1>2, <1>3, LastOnTop
<1>5. ASSUME NEW g
      PROVE  UnitsOnTop(g, q) <=> OnTop(g, UnitsIn(q), S)
  <2>1. [s \in SUBSET S |-> IF s = {} THEN 0 ELSE g[s \ {Max(s)}] + UnitsIn(q)[Max(s)]]
          = [s \in SUBSET S |-> IF s = {} THEN 0 ELSE g[s \ {Max(s)}] + q[Max(s)].units]
    BY <1>3, <1>4
  <2> QED BY <1>1, <2>1, Zenon DEF UnitsOnTop, OnTop
<1>6. \E g : OnTop(g, UnitsIn(q), S)
  BY <1>2, <1>3, OnTopExists
<1>7. \A g : OnTop(g, UnitsIn(q), S) => g[S] = SumFunctionOnSet(UnitsIn(q), S)
  BY <1>2, <1>3, OnTopIsSum
<1>8. \E g : UnitsOnTop(g, q)
  BY <1>5, <1>6
<1>9. UnitsOnTop((CHOOSE g : UnitsOnTop(g, q)), q)
  BY <1>8, Zenon
<1>10. FoldOfUnits(q) = SumFunctionOnSet(UnitsIn(q), S)
  BY <1>1, <1>5, <1>7, <1>9, Zenon DEF FoldOfUnits
<1>11. SumFunctionOnSet(UnitsIn(q), S) \in Int
  BY <1>2, <1>3, SumInt
<1> QED BY <1>10, <1>11, Zenon DEF S, SumOfUnits

\* An auction without allocations has allocated nothing.
LEMMA NoUnits == TotalUnits(<<>>) = 0
<1>1. <<>> \in Seq({}) /\ Len(<<>>) = 0 /\ 1 .. 0 = {}
  OBVIOUS
<1>2. TotalUnits(<<>>) = SumOfUnits(<<>>)
  BY <1>1, TotalIsFolded, UnitsSummed
<1>3. SumOfUnits(<<>>) = 0
  BY <1>1, SumEmpty, Zenon DEF SumOfUnits
<1> QED BY <1>2, <1>3, Zenon

\* The units of what is left once the first is taken
LEMMA UnitsOfTail ==
    ASSUME NEW T, NEW q \in Seq(T), \A x \in T : x.units \in Int, q # <<>>
    PROVE  SumOfUnits(q) = Head(q).units + SumOfUnits(Tail(q))
<1> DEFINE n == Len(q) - 1
<1>1. n \in Nat /\ Len(q) = n + 1 /\ Tail(q) \in Seq(T) /\ Len(Tail(q)) = n
  OBVIOUS
<1>2. /\ \A k \in 1 .. n : Tail(q)[k] = q[k + 1] /\ q[k + 1] \in T
      /\ q[1] = Head(q) /\ q[1] \in T
  OBVIOUS
<1> HIDE DEF n
<1>3. /\ \A k \in 1 .. n : /\ UnitsIn(Tail(q))[k] \in Int
                           /\ UnitsIn(q)[k + 1] = UnitsIn(Tail(q))[k]
      /\ UnitsIn(q)[1] = Head(q).units /\ Head(q).units \in Int
  BY <1>1, <1>2 DEF UnitsIn
<1>4. SumFunctionOnSet(UnitsIn(q), 1 .. n + 1)
        = UnitsIn(q)[1] + SumFunctionOnSet(UnitsIn(Tail(q)), 1 .. n)
  BY <1>1, <1>3, SumOfTail
<1> QED BY <1>1, <1>3, <1>4, Zenon DEF SumOfUnits

-----------------------------------------------------------------------------
(* The history of an auction                                                *)

\* What a step may do to the auctions of i
HistoryKept(i) ==
    /\ Len(auctions'[i]) >= Len(auctions[i])
    /\ \A n \in 1 .. Len(auctions[i]) :
          /\ auctions[i][n].status \notin Open => auctions'[i][n] = auctions[i][n]
          /\ IsPrefix(auctions[i][n].bids, auctions'[i][n].bids)

LEMMA PrefixOfItself ==
    ASSUME NEW S, NEW s \in Seq(S)
    PROVE  IsPrefix(s, s)
BY DEF IsPrefix

LEMMA PrefixOfAppended ==
    ASSUME NEW S, NEW s \in Seq(S), NEW e \in S
    PROVE  IsPrefix(s, Append(s, e))
BY DEF IsPrefix

\* The bids of an auction that stays are a prefix of themselves.
LEMMA BidsKept ==
    ASSUME TypeOK, NEW i \in Isins, NEW n \in 1 .. Len(auctions[i])
    PROVE  IsPrefix(auctions[i][n].bids, auctions[i][n].bids)
<1>1. auctions[i] \in Seq(Auctions)
  BY TypeFacts
<1>2. auctions[i][n] \in Auctions
  BY <1>1
<1>3. auctions[i][n].bids \in Seq(Hashes)
  BY <1>2 DEF Auctions
<1> QED BY <1>3, PrefixOfItself

\* Auctions that a step does not touch keep their history.
LEMMA HistoryUntouched ==
    ASSUME TypeOK, NEW i \in Isins, auctions'[i] = auctions[i]
    PROVE  HistoryKept(i)
<1>1. auctions[i] \in Seq(Auctions) /\ Len(auctions[i]) \in Nat
  BY TypeFacts
<1>2. ASSUME NEW n \in 1 .. Len(auctions[i])
      PROVE  IsPrefix(auctions[i][n].bids, auctions[i][n].bids)
  BY BidsKept
<1> QED BY <1>1, <1>2 DEF HistoryKept

\* The latest auction of i may change as long as it is open and keeps its bids.
LEMMA HistoryOfLatest ==
    ASSUME TypeOK, NEW i \in Isins, HasOpenAuction(i), NEW a \in Auctions,
           UpdateLatest(i, a), IsPrefix(Latest(i).bids, a.bids)
    PROVE  \A j \in Isins : HistoryKept(j)
<1>1. auctions[i] # <<>> /\ auctions[i] \in Seq(Auctions) /\ Len(auctions[i]) \in Nat \ {0}
  BY LatestType DEF TypeOK, AuctionTypeOK, HasOpenAuction
<1>2. /\ Len(auctions'[i]) = Len(auctions[i])
      /\ auctions'[i][Len(auctions[i])] = a
      /\ \A n \in 1 .. Len(auctions[i]) - 1 : auctions'[i][n] = auctions[i][n]
      /\ \A j \in Isins \ {i} : auctions'[j] = auctions[j]
  BY <1>1, LatestRewritten DEF TypeOK
<1>3. ASSUME NEW n \in 1 .. Len(auctions[i])
      PROVE  /\ auctions[i][n].status \notin Open => auctions'[i][n] = auctions[i][n]
             /\ IsPrefix(auctions[i][n].bids, auctions'[i][n].bids)
  <2>1. CASE n = Len(auctions[i])
    BY <1>2, <2>1 DEF HasOpenAuction, Latest
  <2>2. CASE n # Len(auctions[i])
    <3>1. n \in 1 .. Len(auctions[i]) - 1
      BY <1>1, <2>2
    <3> QED BY <1>2, <3>1, BidsKept
  <2> QED BY <2>1, <2>2
<1>4. HistoryKept(i)
  BY <1>1, <1>2, <1>3 DEF HistoryKept
<1> QED BY <1>2, <1>4, HistoryUntouched

\* A new auction leaves the others as they are.
LEMMA HistoryOfAdded ==
    ASSUME TypeOK, NEW i \in Isins, NEW t, NEW end, NEW size, NEW type,
           CreateAuction(i, t, end, size, type)
    PROVE  \A j \in Isins : HistoryKept(j)
<1> DEFINE new == [type |-> type, status |-> "BIDDING", offering |-> size, end |-> end,
                   bids |-> <<>>, allocations |-> <<>>]
<1>1. auctions[i] \in Seq(Auctions) /\ Len(auctions[i]) \in Nat
  BY TypeFacts
<1>2. /\ auctions'[i] = Append(auctions[i], new)
      /\ \A j \in Isins \ {i} : auctions'[j] = auctions[j]
  BY DEF CreateAuction, TypeOK, AuctionTypeOK
<1> HIDE DEF new
<1>3. /\ Len(auctions'[i]) = Len(auctions[i]) + 1
      /\ \A n \in 1 .. Len(auctions[i]) : auctions'[i][n] = auctions[i][n]
  BY <1>1, <1>2
<1>4. ASSUME NEW n \in 1 .. Len(auctions[i])
      PROVE  IsPrefix(auctions[i][n].bids, auctions[i][n].bids)
  BY BidsKept
<1>5. HistoryKept(i)
  BY <1>1, <1>3, <1>4 DEF HistoryKept
<1> QED BY <1>2, <1>5, HistoryUntouched

\* The allocations that a finalisation writes are well typed.
LEMMA FinalisedAllocations ==
    ASSUME TypeOK, NEW i \in Isins, HasOpenAuction(i), NEW type,
           NEW indexes \in BidIndexLists(i), NEW alloc \in AllocationLists(indexes),
           NEW total, FinaliseAuction(i, type, alloc, indexes, total)
    PROVE  alloc \in Seq(Allocations)
<1>1. alloc \in Seq([bidder : Bidders, nonce : Nonces, units : Units, rate : Rates])
  BY AllocationListType DEF TypeOK
<1>2. [bidder : Bidders, nonce : Nonces, units : Units, rate : Rates]
          \subseteq [bidder : Bidders, nonce : Nonces, units : Nat, rate : Nat]
  BY ManagerAssumption DEF ManagerAssumption
<1> QED BY <1>1, <1>2, FinaliseAuctionType DEF TypeOK

\* Finalising writes the allocations into the latest auction and nothing else.
LEMMA FinaliseRewrites ==
    ASSUME TypeOK, NEW i \in Isins, Finalise(i)
    PROVE  \E a \in Auctions : UpdateLatest(i, a) /\ a.bids = Latest(i).bids
<1>1. PICK type \in AuctionTypes, indexes \in BidIndexLists(i) :
          \E alloc \in AllocationLists(indexes) : FinaliseBondAuction(i, type, alloc, indexes)
  BY DEF Finalise
<1>2. PICK alloc \in AllocationLists(indexes) : FinaliseBondAuction(i, type, alloc, indexes)
  BY <1>1
<1>3. PICK total \in 1 .. Latest(i).offering : FinaliseAuction(i, type, alloc, indexes, total)
  BY <1>2 DEF FinaliseBondAuction
<1> DEFINE a == [Latest(i) EXCEPT !.status = "FINALISED", !.allocations = alloc]
<1>4. HasOpenAuction(i) /\ Latest(i) \in Auctions
  BY LatestType DEF Finalise, HasOpenAuction, TypeOK
<1>5. alloc \in Seq(Allocations)
  BY <1>3, <1>4, FinalisedAllocations
<1>6. a \in Auctions /\ a.bids = Latest(i).bids
  BY <1>4, <1>5 DEF Auctions, Statuses
<1>7. UpdateLatest(i, a)
  BY <1>3 DEF FinaliseAuction
<1> QED BY <1>6, <1>7

\* Every step keeps the history of every ISIN.
LEMMA HistoryStep ==
    ASSUME TypeOK, [Next]_vars
    PROVE  \A j \in Isins : HistoryKept(j)
<1>1. ASSUME NEW i \in Isins, NEW size, NEW type, DeployAuctionForBond(i, now + 1, size, type)
      PROVE  \A j \in Isins : HistoryKept(j)
  BY <1>1, HistoryOfAdded DEF DeployAuctionForBond
<1>2. ASSUME NEW i \in Isins, NEW size, NEW years,
             DeployBondWithAuction(i, now + 1, size, years)
      PROVE  \A j \in Isins : HistoryKept(j)
  BY <1>2, HistoryOfAdded DEF DeployBondWithAuction
<1>3. ASSUME NEW i \in Isins, NEW hash \in Hashes, PlaceBid(i, hash)
      PROVE  \A j \in Isins : HistoryKept(j)
  <2> DEFINE a == [Latest(i) EXCEPT !.bids = Append(@, hash)]
  <2>1. HasOpenAuction(i) /\ UpdateLatest(i, a)
    BY <1>3 DEF PlaceBid, SubmitBid, HasOpenAuction, Open
  <2>2. Latest(i) \in Auctions
    BY <2>1, LatestType DEF HasOpenAuction, TypeOK
  <2>3. Latest(i).bids \in Seq(Hashes) /\ Append(Latest(i).bids, hash) \in Seq(Hashes)
    BY <2>2 DEF Auctions
  <2>4. a \in Auctions /\ a.bids = Append(Latest(i).bids, hash)
    BY <2>2, <2>3 DEF Auctions
  <2> HIDE DEF a
  <2>5. IsPrefix(Latest(i).bids, a.bids)
    BY <2>2, <2>3, <2>4, PrefixOfAppended
  <2> QED BY <2>1, <2>4, <2>5, HistoryOfLatest
<1>4. ASSUME NEW i \in Isins, HasOpenAuction(i), NEW a \in Auctions, UpdateLatest(i, a),
             a.bids = Latest(i).bids
      PROVE  \A j \in Isins : HistoryKept(j)
  <2>1. Latest(i).bids \in Seq(Hashes)
    BY <1>4, LatestType DEF HasOpenAuction, TypeOK, Auctions
  <2> QED BY <1>4, <2>1, PrefixOfItself, HistoryOfLatest
<1>5. ASSUME NEW i \in Isins, CloseBidding(i)
      PROVE  \A j \in Isins : HistoryKept(j)
  <2> DEFINE a == [Latest(i) EXCEPT !.status = "CLOSED"]
  <2>1. HasOpenAuction(i) /\ UpdateLatest(i, a)
    BY <1>5 DEF CloseBidding, CloseAuction, HasOpenAuction, Open
  <2>2. a \in Auctions /\ a.bids = Latest(i).bids
    BY <2>1, LatestType DEF HasOpenAuction, TypeOK, Auctions, Statuses
  <2> QED BY <1>4, <2>1, <2>2
<1>6. ASSUME NEW i \in Isins, CancelBondAuction(i)
      PROVE  \A j \in Isins : HistoryKept(j)
  <2> DEFINE a == [Latest(i) EXCEPT !.status = "CANCELLED"]
  <2>1. HasOpenAuction(i) /\ UpdateLatest(i, a)
    BY <1>6 DEF CancelBondAuction, CancelAuction
  <2>2. a \in Auctions /\ a.bids = Latest(i).bids
    BY <2>1, LatestType DEF HasOpenAuction, TypeOK, Auctions, Statuses
  <2> QED BY <1>4, <2>1, <2>2
<1>7. ASSUME NEW i \in Isins, Finalise(i)
      PROVE  \A j \in Isins : HistoryKept(j)
  <2>1. HasOpenAuction(i)
    BY <1>7 DEF Finalise
  <2> QED BY <1>4, <1>7, <2>1, FinaliseRewrites
<1>8. CASE auctions' = auctions
  BY <1>8, HistoryUntouched
<1>9. ASSUME NEW i \in Isins,
             \/ \E years \in Years : DeployBond(i, years)
             \/ DisableBond(i)
             \/ \E listed \in SUBSET Accounts : PayCoupon(i, listed)
             \/ \E from, to \in Accounts, v \in Amounts : TransferUnits(i, from, to, v)
      PROVE  auctions' = auctions
  BY <1>9 DEF DeployBond, DisableBond, PayCoupon, TransferUnits
<1>10. ASSUME SettleAllocation \/ MoveCash \/ EditAllowlist \/ Tick \/ UNCHANGED vars
       PROVE  auctions' = auctions
  BY <1>10 DEF SettleAllocation, MoveCash, EditAllowlist, Tick, vars
<1> QED BY <1>1, <1>2, <1>3, <1>5, <1>6, <1>7, <1>8, <1>9, <1>10 DEF Next

\* Whatever happens, an auction that is over is never reopened or edited, and no bid is
\* ever dropped, replaced or reordered.
THEOREM AuctionHistoryTheorem == Spec => AuctionHistoryIsFinal
<1>1. TypeOK /\ [Next]_vars =>
          [\A i \in Isins :
              /\ Len(auctions'[i]) >= Len(auctions[i])
              /\ \A n \in 1 .. Len(auctions[i]) :
                    /\ auctions[i][n].status \notin Open => auctions'[i][n] = auctions[i][n]
                    /\ IsPrefix(auctions[i][n].bids, auctions'[i][n].bids)]_vars
  BY HistoryStep DEF HistoryKept
<1> QED BY <1>1, TypeCorrect, PTL DEF Spec, AuctionHistoryIsFinal

-----------------------------------------------------------------------------
(* The consent of the bidders                                               *)

\* The allocations of a, the n-th auction of i, stay within what a offers, and each
\* rests on an intent of its own that its bidder signed for a over a bid of a.
Consented(i, n, a) ==
    /\ TotalUnits(a.allocations) <= a.offering
    /\ \A k \in 1 .. Len(a.allocations) :
          /\ \E b \in 1 .. Len(a.bids) : IntentOf(i, n, a.allocations[k], a.bids[b]) \in Signed
          /\ \A m \in 1 .. k - 1 : a.allocations[m].bidder = a.allocations[k].bidder =>
                a.allocations[m].nonce # a.allocations[k].nonce

ConsentInv == \A i \in Isins : \A n \in 1 .. Len(auctions[i]) : Consented(i, n, auctions[i][n])

\* Rewriting the latest auction with one whose bidders consented keeps the invariant.
LEMMA ConsentOfLatest ==
    ASSUME TypeOK, ConsentInv, NEW i \in Isins, auctions[i] # <<>>, NEW a \in Auctions,
           UpdateLatest(i, a), Consented(i, Len(auctions[i]), a)
    PROVE  ConsentInv'
<1>1. Len(auctions[i]) \in Nat \ {0}
  BY LatestType DEF TypeOK
<1>2. /\ Len(auctions'[i]) = Len(auctions[i])
      /\ auctions'[i][Len(auctions[i])] = a
      /\ \A n \in 1 .. Len(auctions[i]) - 1 : auctions'[i][n] = auctions[i][n]
      /\ \A j \in Isins \ {i} : auctions'[j] = auctions[j]
  BY LatestRewritten DEF TypeOK
<1>3. ASSUME NEW n \in 1 .. Len(auctions[i])
      PROVE  Consented(i, n, auctions'[i][n])
  <2>1. n = Len(auctions[i]) \/ n \in 1 .. Len(auctions[i]) - 1
    BY <1>1
  <2> QED BY <1>2, <2>1 DEF ConsentInv
<1> QED BY <1>2, <1>3 DEF ConsentInv

\* A new auction has allocated nothing.
LEMMA ConsentOfAdded ==
    ASSUME TypeOK, ConsentInv, NEW i \in Isins, NEW t, NEW end, NEW size \in Nat, NEW type,
           CreateAuction(i, t, end, size, type)
    PROVE  ConsentInv'
<1> DEFINE new == [type |-> type, status |-> "BIDDING", offering |-> size, end |-> end,
                   bids |-> <<>>, allocations |-> <<>>]
<1>1. auctions[i] \in Seq(Auctions) /\ Len(auctions[i]) \in Nat
  BY TypeFacts
<1>2. /\ auctions'[i] = Append(auctions[i], new)
      /\ \A j \in Isins \ {i} : auctions'[j] = auctions[j]
  BY DEF CreateAuction, TypeOK, AuctionTypeOK
<1>3. ASSUME NEW n
      PROVE  Consented(i, n, new)
  <2>1. new.allocations = <<>> /\ new.offering = size
    OBVIOUS
  <2> HIDE DEF new
  <2> QED BY <2>1, NoUnits DEF Consented
<1> HIDE DEF new
<1>4. /\ Len(auctions'[i]) = Len(auctions[i]) + 1
      /\ auctions'[i][Len(auctions[i]) + 1] = new
      /\ \A n \in 1 .. Len(auctions[i]) : auctions'[i][n] = auctions[i][n]
  BY <1>1, <1>2
<1>5. ASSUME NEW n \in 1 .. Len(auctions'[i])
      PROVE  Consented(i, n, auctions'[i][n])
  <2>1. n = Len(auctions[i]) + 1 \/ n \in 1 .. Len(auctions[i])
    BY <1>1, <1>4
  <2> QED BY <1>3, <1>4, <2>1 DEF ConsentInv
<1> QED BY <1>2, <1>5 DEF ConsentInv

\* The bidders of an auction go on consenting while bids are added to it.
LEMMA ConsentWithMoreBids ==
    ASSUME NEW i, NEW n, NEW a \in Auctions, NEW b \in Auctions, Consented(i, n, a),
           b.allocations = a.allocations, b.offering = a.offering,
           Len(a.bids) <= Len(b.bids), \A m \in 1 .. Len(a.bids) : b.bids[m] = a.bids[m]
    PROVE  Consented(i, n, b)
<1>1. Len(a.bids) \in Nat /\ Len(b.bids) \in Nat
  BY DEF Auctions
<1> DEFINE alloc == a.allocations
<1>2. ASSUME NEW k \in 1 .. Len(alloc)
      PROVE  \E m \in 1 .. Len(b.bids) : IntentOf(i, n, alloc[k], b.bids[m]) \in Signed
  <2>1. PICK m \in 1 .. Len(a.bids) : IntentOf(i, n, alloc[k], a.bids[m]) \in Signed
    BY DEF Consented
  <2>2. m \in 1 .. Len(b.bids) /\ b.bids[m] = a.bids[m]
    BY <1>1
  <2> QED BY <2>1, <2>2
<1>3. /\ TotalUnits(alloc) <= a.offering
      /\ \A k \in 1 .. Len(alloc) : \A m \in 1 .. k - 1 :
            alloc[m].bidder = alloc[k].bidder => alloc[m].nonce # alloc[k].nonce
  BY DEF Consented
<1>4. alloc = b.allocations
  OBVIOUS
<1> HIDE DEF alloc
<1>5. Consented(i, n, b) <=>
          /\ TotalUnits(alloc) <= a.offering
          /\ \A k \in 1 .. Len(alloc) :
                /\ \E m \in 1 .. Len(b.bids) : IntentOf(i, n, alloc[k], b.bids[m]) \in Signed
                /\ \A m \in 1 .. k - 1 : alloc[m].bidder = alloc[k].bidder =>
                      alloc[m].nonce # alloc[k].nonce
  BY <1>4, Zenon DEF Consented
<1> QED BY <1>2, <1>3, <1>5

\* Verifying the proofs of a list of allocations makes each rest on an intent of its own.
LEMMA VerifiedConsented ==
    ASSUME NEW i, NEW n, NEW a, NEW indexes,
           BidIntentsVerified(i, n, a.bids, a.allocations, indexes),
           Len(a.allocations) \in Nat, TotalUnits(a.allocations) <= a.offering
    PROVE  Consented(i, n, a)
<1> DEFINE alloc == a.allocations
<1>1. ASSUME NEW k \in 1 .. Len(alloc)
      PROVE  \E b \in 1 .. Len(a.bids) : IntentOf(i, n, alloc[k], a.bids[b]) \in Signed
  BY <1>1 DEF BidIntentsVerified
<1>2. ASSUME NEW k \in 1 .. Len(alloc), NEW m \in 1 .. k - 1,
             alloc[m].bidder = alloc[k].bidder
      PROVE  alloc[m].nonce # alloc[k].nonce
  <2>1. m \in 1 .. Len(alloc) /\ m # k
    OBVIOUS
  <2>2. <<alloc[m].bidder, alloc[m].nonce>> # <<alloc[k].bidder, alloc[k].nonce>>
    BY <2>1 DEF BidIntentsVerified
  <2> QED BY <1>2, <2>2
<1> QED BY <1>1, <1>2 DEF Consented

\* The bidders of a finalised auction consented to its allocations.
LEMMA FinalisedConsented ==
    ASSUME TypeOK, NEW i \in Isins, Finalise(i)
    PROVE  \E a \in Auctions : UpdateLatest(i, a) /\ Consented(i, Len(auctions[i]), a)
<1>1. PICK type \in AuctionTypes, indexes \in BidIndexLists(i) :
          \E alloc \in AllocationLists(indexes) : FinaliseBondAuction(i, type, alloc, indexes)
  BY DEF Finalise
<1>2. PICK alloc \in AllocationLists(indexes) : FinaliseBondAuction(i, type, alloc, indexes)
  BY <1>1
<1>3. PICK total \in 1 .. Latest(i).offering : FinaliseAuction(i, type, alloc, indexes, total)
  BY <1>2 DEF FinaliseBondAuction
<1> DEFINE a == [Latest(i) EXCEPT !.status = "FINALISED", !.allocations = alloc]
<1>4. HasOpenAuction(i) /\ Latest(i) \in Auctions
  BY LatestType DEF Finalise, HasOpenAuction, TypeOK
<1>5. alloc \in Seq(Allocations)
  BY <1>2, <1>3, <1>4, FinalisedAllocations
<1>6. /\ a \in Auctions /\ a.bids = Latest(i).bids /\ a.allocations = alloc
      /\ a.offering = Latest(i).offering
  BY <1>4, <1>5 DEF Auctions, Statuses
<1>7. /\ UpdateLatest(i, a)
      /\ BidIntentsVerified(i, Len(auctions[i]), Latest(i).bids, alloc, indexes)
      /\ TotalUnits(alloc) <= Latest(i).offering
  BY <1>3 DEF FinaliseAuction
<1> HIDE DEF a
<1>8. Consented(i, Len(auctions[i]), a)
  <2>1. Len(a.allocations) \in Nat /\ TotalUnits(a.allocations) <= a.offering
    BY <1>5, <1>6, <1>7
  <2>2. BidIntentsVerified(i, Len(auctions[i]), a.bids, a.allocations, indexes)
    BY <1>6, <1>7
  <2> QED BY <2>1, <2>2, VerifiedConsented
<1> QED BY <1>6, <1>7, <1>8

\* Every step keeps the consent of the bidders.
LEMMA ConsentStep ==
    ASSUME TypeOK, ConsentInv, [Next]_vars
    PROVE  ConsentInv'
<1>1. ASSUME NEW i \in Isins, NEW size \in Sizes, NEW type,
             DeployAuctionForBond(i, now + 1, size, type)
      PROVE  ConsentInv'
  BY <1>1, ConsentOfAdded, ManagerAssumption DEF ManagerAssumption, DeployAuctionForBond
<1>2. ASSUME NEW i \in Isins, NEW size \in Sizes, NEW years,
             DeployBondWithAuction(i, now + 1, size, years)
      PROVE  ConsentInv'
  BY <1>2, ConsentOfAdded, ManagerAssumption DEF ManagerAssumption, DeployBondWithAuction
<1>3. ASSUME NEW i \in Isins, HasOpenAuction(i), NEW a \in Auctions, UpdateLatest(i, a),
             a.allocations = Latest(i).allocations, a.offering = Latest(i).offering,
             Len(Latest(i).bids) <= Len(a.bids),
             \A n \in 1 .. Len(Latest(i).bids) : a.bids[n] = Latest(i).bids[n]
      PROVE  ConsentInv'
  <2>1. auctions[i] # <<>> /\ Latest(i) \in Auctions /\ Len(auctions[i]) \in Nat \ {0}
    BY <1>3, LatestType DEF HasOpenAuction, TypeOK
  <2>2. Consented(i, Len(auctions[i]), Latest(i))
    BY <2>1 DEF ConsentInv, Latest
  <2>3. Consented(i, Len(auctions[i]), a)
    BY <1>3, <2>1, <2>2, ConsentWithMoreBids
  <2> QED BY <1>3, <2>1, <2>3, ConsentOfLatest
<1>4. ASSUME NEW i \in Isins, NEW hash \in Hashes, PlaceBid(i, hash)
      PROVE  ConsentInv'
  <2> DEFINE a == [Latest(i) EXCEPT !.bids = Append(@, hash)]
  <2>1. HasOpenAuction(i) /\ UpdateLatest(i, a)
    BY <1>4 DEF PlaceBid, SubmitBid, HasOpenAuction, Open
  <2>2. Latest(i) \in Auctions
    BY <2>1, LatestType DEF HasOpenAuction, TypeOK
  <2>3. Latest(i).bids \in Seq(Hashes) /\ Append(Latest(i).bids, hash) \in Seq(Hashes)
    BY <2>2 DEF Auctions
  <2>4. /\ a \in Auctions /\ a.bids = Append(Latest(i).bids, hash)
        /\ a.allocations = Latest(i).allocations /\ a.offering = Latest(i).offering
    BY <2>2, <2>3 DEF Auctions
  <2> HIDE DEF a
  <2>5. /\ Len(Latest(i).bids) <= Len(a.bids)
        /\ \A n \in 1 .. Len(Latest(i).bids) : a.bids[n] = Latest(i).bids[n]
    BY <2>2, <2>3, <2>4
  <2> QED BY <1>3, <2>1, <2>4, <2>5
<1>5. ASSUME NEW i \in Isins, HasOpenAuction(i), NEW status \in Statuses,
             UpdateLatest(i, [Latest(i) EXCEPT !.status = status])
      PROVE  ConsentInv'
  <2> DEFINE a == [Latest(i) EXCEPT !.status = status]
  <2>1. Latest(i) \in Auctions
    BY <1>5, LatestType DEF HasOpenAuction, TypeOK
  <2>2. /\ a \in Auctions /\ a.bids = Latest(i).bids
        /\ a.allocations = Latest(i).allocations /\ a.offering = Latest(i).offering
    BY <2>1 DEF Auctions
  <2>3. Len(Latest(i).bids) <= Len(Latest(i).bids)
    BY <2>1 DEF Auctions
  <2>4. UpdateLatest(i, a)
    BY <1>5
  <2> HIDE DEF a
  <2> QED BY <1>3, <1>5, <2>2, <2>3, <2>4
<1>6. ASSUME NEW i \in Isins, CloseBidding(i) \/ CancelBondAuction(i)
      PROVE  ConsentInv'
  <2>1. /\ HasOpenAuction(i)
        /\ \/ UpdateLatest(i, [Latest(i) EXCEPT !.status = "CLOSED"])
           \/ UpdateLatest(i, [Latest(i) EXCEPT !.status = "CANCELLED"])
    BY <1>6 DEF CloseBidding, CloseAuction, CancelBondAuction, CancelAuction, HasOpenAuction, Open
  <2> QED BY <1>5, <2>1 DEF Statuses
<1>7. ASSUME NEW i \in Isins, Finalise(i)
      PROVE  ConsentInv'
  <2>1. auctions[i] # <<>>
    BY <1>7 DEF Finalise, HasOpenAuction
  <2> QED BY <1>7, <2>1, FinalisedConsented, ConsentOfLatest
<1>8. CASE auctions' = auctions
  BY <1>8 DEF ConsentInv
<1>9. ASSUME NEW i \in Isins,
             \/ \E years \in Years : DeployBond(i, years)
             \/ DisableBond(i)
             \/ \E listed \in SUBSET Accounts : PayCoupon(i, listed)
             \/ \E from, to \in Accounts, v \in Amounts : TransferUnits(i, from, to, v)
      PROVE  auctions' = auctions
  BY <1>9 DEF DeployBond, DisableBond, PayCoupon, TransferUnits
<1>10. ASSUME SettleAllocation \/ MoveCash \/ EditAllowlist \/ Tick \/ UNCHANGED vars
       PROVE  auctions' = auctions
  BY <1>10 DEF SettleAllocation, MoveCash, EditAllowlist, Tick, vars
<1> QED BY <1>1, <1>2, <1>4, <1>6, <1>7, <1>8, <1>9, <1>10 DEF Next

\* Whatever allocations and proofs an operator submits, over bids of whomever: a
\* finalised auction allocates no more than it offered, and to nobody that has not signed
\* for it; no intent serves twice, and a bidder that signs each of its bids once is not
\* allocated one bid twice.
THEOREM AllocationTheorem == Spec => []AllocationsConsented
<1>1. Init => ConsentInv
  BY DEF Init, AuctionInit, ConsentInv
<1>2. TypeOK /\ ConsentInv /\ [Next]_vars => ConsentInv'
  BY ConsentStep
<1>3. ASSUME NEW i, NEW n, NEW a, NEW b, a.bidder = b.bidder, a.nonce # b.nonce,
             SignsEachBidOnce(i, n, b.bidder)
      PROVE  SignedFor(i, n, a) \cap SignedFor(i, n, b) = {}
  <2> SUFFICES ASSUME NEW h, IntentOf(i, n, a, h) \in Signed, IntentOf(i, n, b, h) \in Signed
               PROVE  FALSE
    BY DEF SignedFor
  <2> QED BY <1>3 DEF SignsEachBidOnce, IntentOf
<1>4. ASSUME ConsentInv
      PROVE  AllocationsConsented
  <2> SUFFICES ASSUME NEW i \in Isins, NEW n \in 1 .. Len(auctions[i])
               PROVE  LET a == auctions[i][n] IN
                      /\ TotalUnits(a.allocations) <= a.offering
                      /\ \A k \in 1 .. Len(a.allocations) :
                            /\ \E b \in 1 .. Len(a.bids) :
                                  IntentOf(i, n, a.allocations[k], a.bids[b]) \in Signed
                            /\ \A m \in 1 .. k - 1 :
                                  a.allocations[m].bidder = a.allocations[k].bidder =>
                                  /\ a.allocations[m].nonce # a.allocations[k].nonce
                                  /\ SignsEachBidOnce(i, n, a.allocations[k].bidder) =>
                                        SignedFor(i, n, a.allocations[m])
                                            \cap SignedFor(i, n, a.allocations[k]) = {}
    BY DEF AllocationsConsented
  <2> DEFINE a == auctions[i][n]
  <2>1. Consented(i, n, a)
    BY <1>4 DEF ConsentInv
  <2> HIDE DEF a
  <2>2. ASSUME NEW k \in 1 .. Len(a.allocations), NEW m \in 1 .. k - 1,
               a.allocations[m].bidder = a.allocations[k].bidder
        PROVE  /\ a.allocations[m].nonce # a.allocations[k].nonce
               /\ SignsEachBidOnce(i, n, a.allocations[k].bidder) =>
                     SignedFor(i, n, a.allocations[m])
                         \cap SignedFor(i, n, a.allocations[k]) = {}
    <3>1. a.allocations[m].nonce # a.allocations[k].nonce
      BY <2>1, <2>2 DEF Consented
    <3> QED BY <1>3, <2>2, <3>1
  <2>3. /\ TotalUnits(a.allocations) <= a.offering
        /\ \A k \in 1 .. Len(a.allocations) :
              \E b \in 1 .. Len(a.bids) : IntentOf(i, n, a.allocations[k], a.bids[b]) \in Signed
    BY <2>1 DEF Consented
  <2> QED BY <2>2, <2>3 DEF a
<1> QED BY <1>1, <1>2, <1>4, TypeCorrect, PTL DEF Spec

-----------------------------------------------------------------------------
(* The settlements of a finalisation: each is delivery against payment or   *)
(* nothing, whatever fails.                                                 *)

\* A settlement that a finalisation leaves to its loop: a sale from the manager's units
\* against the bidder's cash, or a purchase from a bidder against the reserve's.
Sale(s) == /\ s.op = "TransferPartition" /\ s.bondFrom = Manager
           /\ s.cashFrom = s.bondTo /\ s.cashTo = GovReserve

Purchase(s) == /\ s.op = "Buyback"
               /\ s.cashFrom = GovReserve /\ s.cashTo = s.bondFrom

Holder(s) == IF s.op = "Buyback" THEN s.bondFrom ELSE s.bondTo

Pending == {s \in Settlements : Holder(s) \in Accounts \ {Manager} /\ (Sale(s) \/ Purchase(s))}

\* What is pending is of that kind.
PendingInv == pending \in Seq(Pending)

LEMMA SettlementIsPending ==
    ASSUME NEW i \in Isins, NEW type, NEW a \in Allocations
    PROVE  SettlementOf(i, type, a) \in Pending
<1> DEFINE s == SettlementOf(i, type, a)
<1>1. s \in Settlements
  BY SettlementType
<1>2. a.bidder \in Accounts \ {Manager}
  BY ManagerAssumption DEF ManagerAssumption, Allocations
<1>3. Holder(s) = a.bidder /\ (Sale(s) \/ Purchase(s))
  BY DEF SettlementOf, Holder, Sale, Purchase
<1> QED BY <1>1, <1>2, <1>3 DEF Pending

\* Finalising leaves one settlement per allocation.
LEMMA FinalisePending ==
    ASSUME TypeOK, NEW i \in Isins, Finalise(i)
    PROVE  PendingInv'
<1>1. PICK type \in AuctionTypes, indexes \in BidIndexLists(i) :
          \E alloc \in AllocationLists(indexes) : FinaliseBondAuction(i, type, alloc, indexes)
  BY DEF Finalise
<1>2. PICK alloc \in AllocationLists(indexes) : FinaliseBondAuction(i, type, alloc, indexes)
  BY <1>1
<1>3. PICK total \in 1 .. Latest(i).offering : FinaliseAuction(i, type, alloc, indexes, total)
  BY <1>2 DEF FinaliseBondAuction
<1>4. alloc \in Seq([bidder : Bidders, nonce : Nonces, units : Units, rate : Rates])
  BY AllocationListType DEF TypeOK, Finalise
<1>5. [bidder : Bidders, nonce : Nonces, units : Units, rate : Rates]
          \subseteq [bidder : Bidders, nonce : Nonces, units : Nat, rate : Nat]
  BY ManagerAssumption DEF ManagerAssumption
<1>6. alloc \in Seq(Allocations)
  BY <1>3, <1>4, <1>5, FinaliseAuctionType DEF TypeOK
<1>7. Len(alloc) \in Nat /\ \A k \in 1 .. Len(alloc) : alloc[k] \in Allocations
  BY <1>6
<1>8. pending' = [k \in 1 .. Len(alloc) |-> SettlementOf(i, type, alloc[k])]
  BY <1>2 DEF FinaliseBondAuction
<1>9. pending' \in [1 .. Len(alloc) -> Pending]
  BY <1>7, <1>8, SettlementIsPending
<1> QED BY <1>7, <1>9, FunctionIsSeq DEF PendingInv

\* The loop takes the settlements one by one, and nothing else touches them.
LEMMA PendingStep ==
    ASSUME TypeOK, PendingInv, [Next]_vars
    PROVE  PendingInv'
<1>1. ASSUME NEW i \in Isins, Finalise(i)
      PROVE  PendingInv'
  BY <1>1, FinalisePending
<1>2. CASE SettleAllocation
  BY <1>2 DEF SettleAllocation, Idle, PendingInv
<1>3. CASE pending' = pending
  BY <1>3 DEF PendingInv
<1>4. ASSUME NEW i \in Isins,
             \/ \E years \in Years : DeployBond(i, years)
             \/ \E size \in Sizes, type \in AuctionTypes :
                   DeployAuctionForBond(i, now + 1, size, type)
             \/ \E size \in Sizes, years \in Years :
                   DeployBondWithAuction(i, now + 1, size, years)
             \/ DisableBond(i)
             \/ \E hash \in Hashes : PlaceBid(i, hash)
             \/ CloseBidding(i)
             \/ CancelBondAuction(i)
             \/ \E listed \in SUBSET Accounts : PayCoupon(i, listed)
             \/ \E from, to \in Accounts, v \in Amounts : TransferUnits(i, from, to, v)
      PROVE  pending' = pending
  BY <1>4 DEF DeployBond, DeployAuctionForBond, DeployBondWithAuction, DisableBond, PlaceBid,
              CloseBidding, CancelBondAuction, PayCoupon, TransferUnits, managerVars
<1>5. ASSUME MoveCash \/ EditAllowlist \/ Tick \/ UNCHANGED vars
      PROVE  pending' = pending
  BY <1>5 DEF MoveCash, EditAllowlist, Tick, vars, managerVars
<1> QED BY <1>1, <1>2, <1>3, <1>4, <1>5 DEF Next

-----------------------------------------------------------------------------
Delivered(s) == bal'[s.isin][Holder(s)] - bal[s.isin][Holder(s)]
Paid(s)      == cash[Holder(s)] - cash'[Holder(s)]
Received     == cash'[GovReserve] - cash[GovReserve]

Exchanged(s) ==
    /\ Received = Paid(s)
    /\ \/ Delivered(s) = 0 /\ Paid(s) = 0
       \/ Delivered(s) = s.units  /\ Paid(s) = s.amount  /\ s.op = "TransferPartition"
       \/ Delivered(s) = -s.units /\ Paid(s) = -s.amount /\ s.op = "Buyback"

\* The types of what a pending settlement moves
LEMMA PendingTypes ==
    ASSUME TypeOK, NEW s \in Pending
    PROVE  /\ s \in Settlements /\ s.isin \in Isins /\ s.units \in Nat /\ s.amount \in Nat
           /\ Holder(s) \in Accounts \ {Manager}
           /\ Holder(s) \in CashAccounts \ {GovReserve} /\ GovReserve \in CashAccounts
           /\ Manager \in Accounts
           /\ bal[s.isin][Holder(s)] \in Nat
           /\ cash[Holder(s)] \in Nat /\ cash[GovReserve] \in Nat
<1>1. /\ s \in Settlements /\ s.isin \in Isins /\ s.units \in Nat /\ s.amount \in Nat
      /\ Holder(s) \in Accounts \ {Manager}
  BY DEF Pending, Settlements
<1>2. /\ Holder(s) \in CashAccounts \ {GovReserve} /\ GovReserve \in CashAccounts
      /\ Manager \in Accounts
  BY <1>1, ManagerAssumption DEF ManagerAssumption
<1> QED BY <1>1, <1>2 DEF TypeOK, TokenTypeOK, LedgerTypeOK, CashTypeOK

LEMMA NothingExchanged ==
    ASSUME TypeOK, NEW s \in Pending, bal' = bal, cash' = cash
    PROVE  Exchanged(s)
BY PendingTypes DEF Exchanged, Delivered, Paid, Received

LEMMA SaleExchanged ==
    ASSUME TypeOK, NEW s \in Pending, Sale(s), Settle(s)
    PROVE  Exchanged(s)
<1>1. Holder(s) = s.bondTo /\ s.op = "TransferPartition"
  BY DEF Sale, Holder
<1>2. Move(s.isin, Manager, s.bondTo, s.units)
  BY <1>1 DEF Settle, SettleSecurityLeg, Sale
<1>3. bal' = [bal EXCEPT ![s.isin] =
                 [bal[s.isin] EXCEPT ![Manager] = @ - s.units, ![s.bondTo] = @ + s.units]]
  BY <1>1, <1>2, PendingTypes DEF Move, TypeOK, TokenTypeOK, LedgerTypeOK
<1>4. bal'[s.isin][s.bondTo] = bal[s.isin][s.bondTo] + s.units
  BY <1>1, <1>3, PendingTypes DEF TypeOK, TokenTypeOK, LedgerTypeOK
<1>5. cash' = [cash EXCEPT ![s.bondTo] = @ - s.amount, ![GovReserve] = @ + s.amount]
  BY <1>1, PendingTypes DEF Settle, TransferCash, MovedCash, Sale
<1>6. /\ cash'[s.bondTo] = cash[s.bondTo] - s.amount
      /\ cash'[GovReserve] = cash[GovReserve] + s.amount
  BY <1>1, <1>5, PendingTypes DEF TypeOK, CashTypeOK
<1> QED BY <1>1, <1>4, <1>6, PendingTypes DEF Exchanged, Delivered, Paid, Received

LEMMA PurchaseExchanged ==
    ASSUME TypeOK, NEW s \in Pending, Purchase(s), Settle(s)
    PROVE  Exchanged(s)
<1>1. Holder(s) = s.bondFrom /\ s.op = "Buyback"
  BY DEF Purchase, Holder
<1>2. Burn(s.isin, s.bondFrom, s.units)
  BY <1>1 DEF Settle, SettleSecurityLeg
<1>3. bal' = [bal EXCEPT ![s.isin] = [bal[s.isin] EXCEPT ![s.bondFrom] = @ - s.units]]
  BY <1>1, <1>2, PendingTypes DEF Burn, TypeOK, TokenTypeOK, LedgerTypeOK
<1>4. bal'[s.isin][s.bondFrom] = bal[s.isin][s.bondFrom] - s.units
  BY <1>1, <1>3, PendingTypes DEF TypeOK, TokenTypeOK, LedgerTypeOK
<1>5. cash' = [cash EXCEPT ![GovReserve] = @ - s.amount, ![s.bondFrom] = @ + s.amount]
  BY <1>1, PendingTypes DEF Settle, TransferCash, MovedCash, Purchase
<1>6. /\ cash'[s.bondFrom] = cash[s.bondFrom] + s.amount
      /\ cash'[GovReserve] = cash[GovReserve] - s.amount
  BY <1>1, <1>5, PendingTypes DEF TypeOK, CashTypeOK
<1> QED BY <1>1, <1>4, <1>6, PendingTypes DEF Exchanged, Delivered, Paid, Received

\* While settlements are pending nothing but the loop runs, and a turn of it exchanges
\* all or nothing.
LEMMA ExchangeStep ==
    ASSUME TypeOK, PendingInv, ~Idle, [Next]_vars
    PROVE  Exchanged(Head(pending))
<1>1. Head(pending) \in Pending
  BY DEF PendingInv, Idle
<1>2. SettleAllocation \/ UNCHANGED vars
  BY DEF Next, DeployBond, DeployAuctionForBond, DeployBondWithAuction, DisableBond, PlaceBid,
         CloseBidding, CancelBondAuction, Finalise, FinaliseBondAuction, PayCoupon,
         TransferUnits, MoveCash, EditAllowlist, Tick
<1>3. \/ Settle(Head(pending))
      \/ bal' = bal /\ cash' = cash
  BY <1>2 DEF SettleAllocation, TrySettle, vars, tokenVars, ledgerVars, cashVars
<1>4. Sale(Head(pending)) \/ Purchase(Head(pending))
  BY <1>1 DEF Pending
<1> QED BY <1>1, <1>3, <1>4, NothingExchanged, SaleExchanged, PurchaseExchanged

LEMMA PendingInvariance == Spec => []PendingInv
<1>1. Init => PendingInv
  BY DEF Init, PendingInv
<1>2. TypeOK /\ PendingInv /\ [Next]_vars => PendingInv'
  BY PendingStep
<1> QED BY <1>1, <1>2, TypeCorrect, PTL DEF Spec

\* No allocation is ever half settled: all of its units change hands against all of its
\* cash, which the reserve receives or pays, or nothing does (BondDvP.settle under the
\* try/catch of BondManager).
THEOREM DeliveryTheorem == Spec => DeliveryVersusPayment
<1>1. TypeOK /\ PendingInv /\ [Next]_vars =>
          [~Idle =>
             LET s         == Head(pending)
                 holder    == IF s.op = "Buyback" THEN s.bondFrom ELSE s.bondTo
                 delivered == bal'[s.isin][holder] - bal[s.isin][holder]
                 paid      == cash[holder] - cash'[holder]
                 received  == cash'[GovReserve] - cash[GovReserve]
             IN  /\ received = paid
                 /\ \/ delivered = 0 /\ paid = 0
                    \/ delivered = s.units  /\ paid = s.amount  /\ s.op = "TransferPartition"
                    \/ delivered = -s.units /\ paid = -s.amount /\ s.op = "Buyback"]_vars
  BY ExchangeStep DEF Exchanged, Delivered, Paid, Received, Holder
<1> QED BY <1>1, TypeCorrect, PendingInvariance, PTL DEF Spec, DeliveryVersusPayment

-----------------------------------------------------------------------------
(* The units of an issuance                                                 *)

\* What an auction adds to the units in existence
IssuedBy(a) == IF a.type = "BUYBACK" THEN 0 ELSE TotalUnits(a.allocations)

\* g folds what the auctions of q issued, the latest on top.
IssuedOnTop(g, q) ==
    g = [s \in SUBSET DOMAIN q |->
            IF s = {} THEN 0
            ELSE IF q[Max(s)].type = "BUYBACK" THEN g[s \ {Max(s)}]
                 ELSE g[s \ {Max(s)}] + TotalUnits(q[Max(s)].allocations)]

FoldOfIssued(q) == (CHOOSE g : IssuedOnTop(g, q))[DOMAIN q]

LEMMA IssuedIsFolded ==
    ASSUME NEW i
    PROVE  UnitsIssued(i) = FoldOfIssued(auctions[i])
BY Zenon DEF UnitsIssued, FoldLeft, MapThenFoldSet, IssuedOnTop, FoldOfIssued

IssuedOf(q) == [k \in 1 .. Len(q) |-> IssuedBy(q[k])]
IssuedIn(q) == SumFunctionOnSet(IssuedOf(q), 1 .. Len(q))

\* An auction issues a number of units.
LEMMA IssuedType ==
    ASSUME NEW a \in Auctions
    PROVE  IssuedBy(a) \in Int /\ TotalUnits(a.allocations) \in Int
<1>1. a.allocations \in Seq(Allocations)
  BY DEF Auctions
<1>2. \A x \in Allocations : x.units \in Int
  BY DEF Allocations
<1>3. TotalUnits(a.allocations) \in Int
  BY <1>1, <1>2, TotalIsFolded, UnitsSummed
<1> QED BY <1>3 DEF IssuedBy

\* UnitsIssued is the sum of what the auctions issued.
LEMMA IssuedSummed ==
    ASSUME NEW q \in Seq(Auctions)
    PROVE  /\ FoldOfIssued(q) = IssuedIn(q)
           /\ IssuedIn(q) \in Int
<1> DEFINE S == 1 .. Len(q)
<1>1. DOMAIN q = S /\ Len(q) \in Nat /\ \A k \in S : q[k] \in Auctions
  OBVIOUS
<1>2. S \subseteq Int /\ IsFiniteSet(S)
  BY <1>1, FS_Interval
<1>3. \A x \in S : /\ IssuedOf(q)[x] \in Int
                    /\ TotalUnits(q[x].allocations) \in Int
                    /\ IssuedOf(q)[x] = IF q[x].type = "BUYBACK" THEN 0
                                                        ELSE TotalUnits(q[x].allocations)
  BY <1>1, IssuedType DEF IssuedOf, IssuedBy
<1> HIDE DEF S
<1>4. \A s \in SUBSET S : s # {} => Max(s) \in S
  BY <1>2, <1>3, LastOnTop
<1>5. \A s \in SUBSET S : /\ s = {} => SumFunctionOnSet(IssuedOf(q), s) = 0
                          /\ s # {} => /\ SumFunctionOnSet(IssuedOf(q), s \ {Max(s)}) \in Int
                                       /\ SumFunctionOnSet(IssuedOf(q), s)
                                            = SumFunctionOnSet(IssuedOf(q), s \ {Max(s)})
                                                + IssuedOf(q)[Max(s)]
  BY <1>2, <1>3, LastOnTop
<1>7. \E g : IssuedOnTop(g, q)
  <2> DEFINE sum(s) == SumFunctionOnSet(IssuedOf(q), s)
             g == [s \in SUBSET S |-> sum(s)]
  <2>1. \A s \in SUBSET S : /\ s = {} => sum(s) = 0
                            /\ s # {} => /\ sum(s \ {Max(s)}) \in Int
                                         /\ sum(s) = sum(s \ {Max(s)}) + IssuedOf(q)[Max(s)]
    BY <1>5
  <2> HIDE DEF sum
  <2>2. ASSUME NEW s \in SUBSET S
        PROVE  g[s] = IF s = {} THEN 0
                      ELSE IF q[Max(s)].type = "BUYBACK" THEN g[s \ {Max(s)}]
                           ELSE g[s \ {Max(s)}] + TotalUnits(q[Max(s)].allocations)
    <3>1. g[s] = sum(s) /\ g[s \ {Max(s)}] = sum(s \ {Max(s)})
      OBVIOUS
    <3> HIDE DEF g
    <3>2. CASE s = {}
      BY <2>1, <3>1, <3>2
    <3>3. CASE s # {}
      <4> DEFINE m == Max(s)
      <4>1. m \in S
        BY <1>4, <3>3
      <4>2. sum(s \ {m}) \in Int /\ sum(s) = sum(s \ {m}) + IssuedOf(q)[m]
        BY <2>1, <3>3
      <4> HIDE DEF m
      <4>3. sum(s) = IF q[m].type = "BUYBACK" THEN sum(s \ {m})
                     ELSE sum(s \ {m}) + TotalUnits(q[m].allocations)
        BY <1>3, <4>1, <4>2
      <4> QED BY <3>1, <3>3, <4>3 DEF m
    <3> QED BY <3>2, <3>3
  <2>3. g = [s \in SUBSET S |-> g[s]]
    OBVIOUS
  <2> HIDE DEF g
  <2>4. IssuedOnTop(g, q)
    BY <1>1, <2>2, <2>3, Zenon DEF IssuedOnTop
  <2> QED BY <2>4, Zenon
<1>8. IssuedOnTop((CHOOSE g : IssuedOnTop(g, q)), q)
  BY <1>7, Zenon
<1>9. PICK g : IssuedOnTop(g, q) /\ FoldOfIssued(q) = g[S]
  BY <1>1, <1>8, Zenon DEF FoldOfIssued
<1>10. \A s \in SUBSET S :
          g[s] = IF s = {} THEN 0
                 ELSE IF q[Max(s)].type = "BUYBACK" THEN g[s \ {Max(s)}]
                      ELSE g[s \ {Max(s)}] + TotalUnits(q[Max(s)].allocations)
  BY <1>1, <1>9, Zenon DEF IssuedOnTop
<1>11. g[{}] = 0
  BY <1>10
<1>12. ASSUME NEW s \in SUBSET S, s # {}, g[s \ {Max(s)}] \in Int
       PROVE  g[s] = g[s \ {Max(s)}] + IssuedOf(q)[Max(s)]
  <2> DEFINE m == Max(s)
  <2>1. m \in S
    BY <1>4, <1>12
  <2>2. /\ g[s \ {m}] \in Int
        /\ g[s] = IF q[m].type = "BUYBACK" THEN g[s \ {m}]
                  ELSE g[s \ {m}] + TotalUnits(q[m].allocations)
    BY <1>10, <1>12
  <2> HIDE DEF m
  <2>3. g[s] = g[s \ {m}] + IssuedOf(q)[m]
    BY <1>3, <2>1, <2>2
  <2> QED BY <2>3 DEF m
<1>13. g[S] = SumFunctionOnSet(IssuedOf(q), S)
  BY <1>2, <1>3, <1>11, <1>12, FoldIsSum
<1>14. SumFunctionOnSet(IssuedOf(q), S) \in Int
  BY <1>2, <1>3, SumInt
<1> QED BY <1>9, <1>13, <1>14, Zenon DEF S, IssuedIn
\* Writing the latest auction changes what was issued by the difference.
LEMMA IssuedOfLatest ==
    ASSUME TypeOK, NEW i \in Isins, auctions[i] # <<>>, NEW a \in Auctions, UpdateLatest(i, a)
    PROVE  /\ IssuedIn(auctions'[i])
                = IssuedIn(auctions[i]) - IssuedBy(Latest(i)) + IssuedBy(a)
           /\ Latest(i)' = a /\ auctions'[i] # <<>>
           /\ \A j \in Isins \ {i} : auctions'[j] = auctions[j]
<1> DEFINE n == Len(auctions[i])
           S == 1 .. n
           f == IssuedOf(auctions[i])
           g == IssuedOf(auctions'[i])
<1>1. n \in Nat \ {0} /\ auctions[i] \in Seq(Auctions)
  BY LatestType DEF TypeOK, AuctionTypeOK
<1>2. /\ Len(auctions'[i]) = n
      /\ auctions'[i][n] = a
      /\ \A k \in 1 .. n - 1 : auctions'[i][k] = auctions[i][k]
      /\ Latest(i)' = a /\ auctions'[i] # <<>>
      /\ \A j \in Isins \ {i} : auctions'[j] = auctions[j]
  BY LatestRewritten DEF TypeOK
<1>3. /\ n \in S /\ IsFiniteSet(S)
      /\ \A k \in S : auctions[i][k] \in Auctions /\ (k = n \/ k \in 1 .. n - 1)
  <2>1. IsFiniteSet(S)
    BY <1>1, FS_Interval
  <2>2. \A k \in S : auctions[i][k] \in Auctions
    BY <1>1
  <2>3. n \in S /\ \A k \in S : k = n \/ k \in 1 .. n - 1
    <3> HIDE DEF n
    <3> QED BY <1>1
  <2> QED BY <2>1, <2>2, <2>3
<1>4. Latest(i) = auctions[i][n]
  BY DEF Latest
<1> HIDE DEF n
<1>5. /\ f[n] = IssuedBy(Latest(i)) /\ g[n] = IssuedBy(a)
      /\ \A k \in S : f[k] = IssuedBy(auctions[i][k]) /\ g[k] = IssuedBy(auctions'[i][k])
      /\ IssuedIn(auctions[i]) = SumFunctionOnSet(f, S)
      /\ IssuedIn(auctions'[i]) = SumFunctionOnSet(g, S)
  BY <1>2, <1>3, <1>4 DEF IssuedOf, IssuedIn, n
<1>6. \A k \in S : IssuedBy(auctions[i][k]) \in Int /\ IssuedBy(auctions'[i][k]) \in Int
  BY <1>2, <1>3, IssuedType
<1>7. \A k \in S \ {n} : g[k] = f[k]
  BY <1>2, <1>3, <1>5
<1> HIDE DEF f, g, S
<1>8. SumFunctionOnSet(g, S) = SumFunctionOnSet(f, S) - f[n] + g[n]
  <2>1. ChangedAt(f, g, S, n)
    BY <1>3, <1>5, <1>6, <1>7 DEF ChangedAt
  <2> QED BY <2>1, SumChange
<1> QED BY <1>2, <1>5, <1>8

\* A new auction has issued nothing yet.
LEMMA IssuedOfAdded ==
    ASSUME TypeOK, NEW i \in Isins, NEW t, NEW end, NEW size, NEW type,
           CreateAuction(i, t, end, size, type)
    PROVE  /\ IssuedIn(auctions'[i]) = IssuedIn(auctions[i])
           /\ Latest(i)'.allocations = <<>> /\ auctions'[i] # <<>>
           /\ \A j \in Isins \ {i} : auctions'[j] = auctions[j]
<1> DEFINE new == [type |-> type, status |-> "BIDDING", offering |-> size, end |-> end,
                   bids |-> <<>>, allocations |-> <<>>]
           n == Len(auctions[i])
           f == IssuedOf(auctions[i])
           g == IssuedOf(auctions'[i])
<1>1. n \in Nat /\ auctions[i] \in Seq(Auctions)
  BY TypeFacts
<1>2. /\ auctions'[i] = Append(auctions[i], new)
      /\ \A j \in Isins \ {i} : auctions'[j] = auctions[j]
  BY DEF CreateAuction, TypeOK, AuctionTypeOK
<1>3. new.allocations = <<>> /\ IssuedBy(new) = 0
  BY NoUnits DEF IssuedBy
<1> HIDE DEF new
<1>4. /\ Len(auctions'[i]) = n + 1 /\ auctions'[i] # <<>>
      /\ auctions'[i][n + 1] = new
      /\ \A k \in 1 .. n : auctions'[i][k] = auctions[i][k] /\ auctions[i][k] \in Auctions
  BY <1>1, <1>2
<1>5. Latest(i)' = new
  BY <1>4 DEF Latest
<1> HIDE DEF n
<1>6. /\ g[n + 1] = 0
      /\ \A k \in 1 .. n : f[k] \in Int /\ g[k] = f[k]
      /\ IssuedIn(auctions[i]) = SumFunctionOnSet(f, 1 .. n)
      /\ IssuedIn(auctions'[i]) = SumFunctionOnSet(g, 1 .. n + 1)
  <2>1. n + 1 \in 1 .. n + 1 /\ \A k \in 1 .. n : k \in 1 .. n + 1
    BY <1>1
  <2>2. g[n + 1] = IssuedBy(new) /\ \A k \in 1 .. n : g[k] = f[k] /\ f[k] = IssuedBy(auctions[i][k])
    BY <1>4, <2>1 DEF IssuedOf, n
  <2>3. \A k \in 1 .. n : IssuedBy(auctions[i][k]) \in Int
    BY <1>4, IssuedType
  <2>4. /\ IssuedIn(auctions[i]) = SumFunctionOnSet(f, 1 .. n)
        /\ IssuedIn(auctions'[i]) = SumFunctionOnSet(g, 1 .. n + 1)
    BY <1>4 DEF IssuedIn, n
  <2> QED BY <1>3, <2>2, <2>3, <2>4
<1> HIDE DEF f, g
<1>7. SumFunctionOnSet(g, 1 .. n + 1) = SumFunctionOnSet(f, 1 .. n) + g[n + 1]
  <2>1. OneMore(f, g, n)
    BY <1>1, <1>6 DEF OneMore
  <2> QED BY <2>1, SumExtended
<1>8. IssuedIn(auctions[i]) \in Int
  BY <1>1, IssuedSummed
<1> QED BY <1>2, <1>3, <1>4, <1>5, <1>6, <1>7, <1>8

-----------------------------------------------------------------------------
(* The supply                                                               *)

\* An open auction has allocated nothing, and the units of an ISIN were all issued.
SupplyInv ==
    \A i \in Isins : /\ HasOpenAuction(i) => Latest(i).allocations = <<>>
                     /\ supply[i] <= IssuedIn(auctions[i])

\* As long as auctions stay and no unit is added, nothing changes.
LEMMA SupplyFalls ==
    ASSUME SupplyInv, TypeOK, auctions' = auctions,
           \A j \in Isins : supply'[j] \in Nat /\ supply'[j] <= supply[j]
    PROVE  SupplyInv'
<1>1. ASSUME NEW i \in Isins
      PROVE  supply'[i] <= IssuedIn(auctions[i])
  <2>1. IssuedIn(auctions[i]) \in Int
    BY TypeFacts, IssuedSummed
  <2> QED BY <2>1, TypeFacts DEF SupplyInv
<1> QED BY <1>1 DEF SupplyInv, HasOpenAuction, Latest

\* Editing an open auction that stays unallocated, or closes unallocated, neither.
LEMMA SupplyOfEdited ==
    ASSUME SupplyInv, TypeOK, NEW i \in Isins, HasOpenAuction(i), NEW a \in Auctions,
           UpdateLatest(i, a), a.allocations = Latest(i).allocations, a.type = Latest(i).type,
           supply' = supply
    PROVE  SupplyInv'
<1>1. IssuedBy(a) = IssuedBy(Latest(i))
  BY DEF IssuedBy
<1>2. Latest(i) \in Auctions /\ auctions[i] # <<>> /\ auctions[i] \in Seq(Auctions)
  BY LatestType, TypeFacts DEF HasOpenAuction, TypeOK
<1>3. IssuedIn(auctions[i]) \in Int /\ IssuedBy(Latest(i)) \in Int
  BY <1>2, IssuedSummed, IssuedType
<1>4. /\ IssuedIn(auctions'[i]) = IssuedIn(auctions[i]) - IssuedBy(Latest(i)) + IssuedBy(a)
      /\ Latest(i)' = a
      /\ \A j \in Isins \ {i} : auctions'[j] = auctions[j]
  BY <1>2, IssuedOfLatest
<1>5. IssuedIn(auctions'[i]) = IssuedIn(auctions[i])
  BY <1>1, <1>3, <1>4
<1>6. ASSUME NEW j \in Isins
      PROVE  /\ HasOpenAuction(j)' => Latest(j)'.allocations = <<>>
             /\ supply'[j] <= IssuedIn(auctions'[j])
  <2>1. CASE j = i
    BY <1>4, <1>5, <2>1 DEF SupplyInv
  <2>2. CASE j # i
    BY <1>4, <2>2 DEF SupplyInv, HasOpenAuction, Latest
  <2> QED BY <2>1, <2>2
<1> QED BY <1>6 DEF SupplyInv

LEMMA SupplyOfAdded ==
    ASSUME SupplyInv, TypeOK, NEW i \in Isins, NEW t, NEW end, NEW size, NEW type,
           CreateAuction(i, t, end, size, type), supply' = supply
    PROVE  SupplyInv'
<1>1. /\ IssuedIn(auctions'[i]) = IssuedIn(auctions[i])
      /\ Latest(i)'.allocations = <<>>
      /\ \A j \in Isins \ {i} : auctions'[j] = auctions[j]
  BY IssuedOfAdded
<1>2. ASSUME NEW j \in Isins
      PROVE  /\ HasOpenAuction(j)' => Latest(j)'.allocations = <<>>
             /\ supply'[j] <= IssuedIn(auctions'[j])
  <2>1. CASE j = i
    BY <1>1, <2>1 DEF SupplyInv
  <2>2. CASE j # i
    BY <1>1, <2>2 DEF SupplyInv, HasOpenAuction, Latest
  <2> QED BY <2>1, <2>2
<1> QED BY <1>2 DEF SupplyInv

\* Finalising issues what it allocates: for an issuance that much is minted to the
\* manager, and every allocation is left to be settled.
Finalised(i, type, alloc) ==
    /\ type = Latest(i).type
    /\ alloc \in Seq(Allocations)
    /\ \E a \in Auctions : /\ UpdateLatest(i, a)
                           /\ a.type = type /\ a.allocations = alloc /\ a.status = "FINALISED"
    /\ IF type = "BUYBACK"
         THEN supply' = supply /\ bal' = bal
         ELSE /\ supply' = [supply EXCEPT ![i] = @ + TotalUnits(alloc)]
              /\ bal' = [bal EXCEPT ![i][Manager] = @ + TotalUnits(alloc)]
    /\ pending' = [k \in 1 .. Len(alloc) |-> SettlementOf(i, type, alloc[k])]

LEMMA FinaliseEffect ==
    ASSUME TypeOK, NEW i \in Isins, Finalise(i)
    PROVE  \E type \in AuctionTypes : \E alloc \in Seq(Allocations) : Finalised(i, type, alloc)
<1>1. PICK type \in AuctionTypes, indexes \in BidIndexLists(i) :
          \E alloc \in AllocationLists(indexes) : FinaliseBondAuction(i, type, alloc, indexes)
  BY DEF Finalise
<1>2. PICK alloc \in AllocationLists(indexes) : FinaliseBondAuction(i, type, alloc, indexes)
  BY <1>1
<1>3. PICK total \in 1 .. Latest(i).offering :
          /\ FinaliseAuction(i, type, alloc, indexes, total)
          /\ IF type = "BUYBACK" THEN PrepareBuyback(i, total)
                                 ELSE PrepareIssuance(i, type, total, alloc[1].rate)
  BY <1>2 DEF FinaliseBondAuction
<1> DEFINE a == [Latest(i) EXCEPT !.status = "FINALISED", !.allocations = alloc]
<1>4. HasOpenAuction(i) /\ Latest(i) \in Auctions
  BY LatestType DEF Finalise, HasOpenAuction, TypeOK
<1>5. alloc \in Seq(Allocations)
  BY <1>3, <1>4, FinalisedAllocations
<1>6. type = Latest(i).type /\ total = TotalUnits(alloc) /\ UpdateLatest(i, a)
  BY <1>3 DEF FinaliseAuction
<1>7. a \in Auctions /\ a.type = type /\ a.allocations = alloc /\ a.status = "FINALISED"
  BY <1>4, <1>5, <1>6 DEF Auctions, Statuses
<1>8. pending' = [k \in 1 .. Len(alloc) |-> SettlementOf(i, type, alloc[k])]
  BY <1>2 DEF FinaliseBondAuction
<1>9. IF type = "BUYBACK"
        THEN supply' = supply /\ bal' = bal
        ELSE /\ supply' = [supply EXCEPT ![i] = @ + total]
             /\ bal' = [bal EXCEPT ![i][Manager] = @ + total]
  <2>1. CASE type = "BUYBACK"
    BY <1>3, <2>1 DEF PrepareBuyback, ledgerVars
  <2>2. CASE type # "BUYBACK"
    <3>1. Mint(i, Manager, total)
      BY <1>3, <2>2 DEF PrepareIssuance, MintByIsin
    <3> QED BY <2>2, <3>1, Zenon DEF Mint
  <2> QED BY <2>1, <2>2
<1> HIDE DEF a
<1>10. Finalised(i, type, alloc)
  BY <1>5, <1>6, <1>7, <1>8, <1>9, Zenon DEF Finalised
<1> QED BY <1>5, <1>10

\* What an issuance adds to the supply is what its auction allocates.
LEMMA SupplyOfFinalised ==
    ASSUME SupplyInv, TypeOK, NEW i \in Isins, HasOpenAuction(i), NEW type, NEW alloc,
           Finalised(i, type, alloc)
    PROVE  SupplyInv'
<1>1. PICK a \in Auctions : UpdateLatest(i, a) /\ a.type = type /\ a.allocations = alloc
                            /\ a.status = "FINALISED"
  BY DEF Finalised
<1>2. Latest(i) \in Auctions /\ auctions[i] # <<>> /\ auctions[i] \in Seq(Auctions)
  BY LatestType, TypeFacts DEF HasOpenAuction, TypeOK
<1>3. Latest(i).allocations = <<>>
  BY DEF SupplyInv
<1>4. IssuedBy(Latest(i)) = 0
  BY <1>3, NoUnits DEF IssuedBy
<1>5. IssuedIn(auctions[i]) \in Int /\ TotalUnits(alloc) \in Int
  BY <1>1, <1>2, IssuedSummed, IssuedType
<1>6. /\ IssuedIn(auctions'[i]) = IssuedIn(auctions[i]) - IssuedBy(Latest(i)) + IssuedBy(a)
      /\ Latest(i)' = a
      /\ \A j \in Isins \ {i} : auctions'[j] = auctions[j]
  BY <1>1, <1>2, IssuedOfLatest
<1>7. IssuedBy(a) = IF type = "BUYBACK" THEN 0 ELSE TotalUnits(alloc)
  BY <1>1 DEF IssuedBy
<1>8. supply[i] <= IssuedIn(auctions[i]) /\ supply[i] \in Nat
  BY TypeFacts DEF SupplyInv
<1>9. /\ supply'[i] = supply[i] + IssuedBy(a)
      /\ \A j \in Isins \ {i} : supply'[j] = supply[j]
  <2>1. CASE type = "BUYBACK"
    BY <1>7, <1>8, <2>1 DEF Finalised
  <2>2. CASE type # "BUYBACK"
    BY <1>7, <2>2 DEF Finalised, TypeOK, TokenTypeOK, LedgerTypeOK
  <2> QED BY <2>1, <2>2
<1>10. IssuedBy(a) \in Int
  BY IssuedType
<1>11. supply'[i] <= IssuedIn(auctions'[i])
  BY <1>4, <1>5, <1>6, <1>8, <1>9, <1>10
<1>12. ASSUME NEW j \in Isins
       PROVE  /\ HasOpenAuction(j)' => Latest(j)'.allocations = <<>>
              /\ supply'[j] <= IssuedIn(auctions'[j])
  <2>1. CASE j = i
    BY <1>1, <1>6, <1>11, <2>1 DEF HasOpenAuction, Open
  <2>2. CASE j # i
    BY <1>6, <1>9, <2>2 DEF SupplyInv, HasOpenAuction, Latest
  <2> QED BY <2>1, <2>2
<1> QED BY <1>12 DEF SupplyInv

\* Every step keeps the supply within what was issued.
LEMMA SupplyStep ==
    ASSUME SupplyInv, TypeOK, IInv, [Next]_vars
    PROVE  SupplyInv'
<1>1. ASSUME NEW i \in Isins, NEW size, NEW type, DeployAuctionForBond(i, now + 1, size, type)
      PROVE  SupplyInv'
  BY <1>1, SupplyOfAdded DEF DeployAuctionForBond, ledgerVars
<1>2. ASSUME NEW i \in Isins, NEW size, NEW years,
             DeployBondWithAuction(i, now + 1, size, years)
      PROVE  SupplyInv'
  BY <1>2, SupplyOfAdded DEF DeployBondWithAuction, ledgerVars
<1>3. ASSUME NEW i \in Isins, NEW hash \in Hashes, PlaceBid(i, hash)
      PROVE  SupplyInv'
  <2> DEFINE a == [Latest(i) EXCEPT !.bids = Append(@, hash)]
  <2>1. HasOpenAuction(i) /\ UpdateLatest(i, a) /\ supply' = supply
    BY <1>3 DEF PlaceBid, SubmitBid, HasOpenAuction, Open, tokenVars
  <2>2. Latest(i) \in Auctions
    BY <2>1, LatestType DEF HasOpenAuction, TypeOK
  <2>3. Latest(i).bids \in Seq(Hashes) /\ Append(Latest(i).bids, hash) \in Seq(Hashes)
    BY <2>2 DEF Auctions
  <2>4. a \in Auctions /\ a.allocations = Latest(i).allocations /\ a.type = Latest(i).type
    BY <2>2, <2>3 DEF Auctions
  <2> HIDE DEF a
  <2> QED BY <2>1, <2>4, SupplyOfEdited
<1>4. ASSUME NEW i \in Isins, CloseBidding(i) \/ CancelBondAuction(i)
      PROVE  SupplyInv'
  <2>1. PICK status \in Statuses : UpdateLatest(i, [Latest(i) EXCEPT !.status = status])
    BY <1>4 DEF CloseBidding, CloseAuction, CancelBondAuction, CancelAuction, Statuses
  <2> DEFINE a == [Latest(i) EXCEPT !.status = status]
  <2>2. HasOpenAuction(i) /\ supply' = supply
    BY <1>4 DEF CloseBidding, CloseAuction, CancelBondAuction, CancelAuction, HasOpenAuction,
                Open, tokenVars, ledgerVars
  <2>3. Latest(i) \in Auctions
    BY <2>2, LatestType DEF HasOpenAuction, TypeOK
  <2>4. a \in Auctions /\ a.allocations = Latest(i).allocations /\ a.type = Latest(i).type
    BY <2>3 DEF Auctions
  <2>5. UpdateLatest(i, a)
    BY <2>1
  <2> HIDE DEF a
  <2> QED BY <2>2, <2>4, <2>5, SupplyOfEdited
<1>5. ASSUME NEW i \in Isins, Finalise(i)
      PROVE  SupplyInv'
  <2>1. HasOpenAuction(i)
    BY <1>5 DEF Finalise
  <2> QED BY <1>5, <2>1, FinaliseEffect, SupplyOfFinalised
<1>6. ASSUME NEW i \in Isins, NEW listed \in SUBSET Accounts, PayCoupon(i, listed)
      PROVE  SupplyInv'
  <2>1. InvOf(i)
    BY DEF IInv
  <2>2. auctions' = auctions /\ \A j \in Isins : supply'[j] \in Nat /\ supply'[j] <= supply[j]
    BY <1>6, <2>1, PayCouponEffect, TypeFacts
  <2> QED BY <2>2, SupplyFalls
<1>7. CASE SettleAllocation
  <2>1. auctions' = auctions
    BY <1>7 DEF SettleAllocation
  <2>2. \A j \in Isins : supply'[j] \in Nat /\ supply'[j] <= supply[j]
    BY <1>7, SettleEffect
  <2> QED BY <2>1, <2>2, SupplyFalls
<1>8. ASSUME NEW i \in Isins,
             \/ \E years \in Years : DeployBond(i, years)
             \/ DisableBond(i)
             \/ \E from, to \in Accounts, v \in Amounts : TransferUnits(i, from, to, v)
      PROVE  SupplyInv'
  <2>1. auctions' = auctions /\ supply' = supply
    BY <1>8 DEF DeployBond, DisableBond, TransferUnits, Move, ledgerVars
  <2> QED BY <2>1 DEF SupplyInv, HasOpenAuction, Latest
<1>9. ASSUME MoveCash \/ EditAllowlist \/ Tick \/ UNCHANGED vars
      PROVE  SupplyInv'
  <2>1. auctions' = auctions /\ supply' = supply
    BY <1>9 DEF MoveCash, EditAllowlist, Tick, vars, tokenVars
  <2> QED BY <2>1 DEF SupplyInv, HasOpenAuction, Latest
<1> QED BY <1>1, <1>2, <1>3, <1>4, <1>5, <1>6, <1>7, <1>8, <1>9 DEF Next

-----------------------------------------------------------------------------
(* The deliveries                                                           *)

\* What is pending is of one finalisation; while it is a sale, the manager holds all that
\* is to be delivered.
DeliveryInv ==
    /\ \A k \in 1 .. Len(pending) : /\ pending[k].isin = Head(pending).isin
                                    /\ pending[k].op = Head(pending).op
    /\ pending # <<>> /\ Head(pending).op = "TransferPartition"
         => SumOfUnits(pending) <= bal[Head(pending).isin][Manager]

\* The units to deliver are those allocated, which the manager has just been minted.
LEMMA DeliveryOfFinalised ==
    ASSUME TypeOK, NEW i \in Isins, NEW type, NEW alloc, Finalised(i, type, alloc)
    PROVE  DeliveryInv'
<1> DEFINE n == Len(alloc)
<1>1. alloc \in Seq(Allocations) /\ n \in Nat /\ \A k \in 1 .. n : alloc[k] \in Allocations
  BY DEF Finalised
<1>2. pending' = [k \in 1 .. n |-> SettlementOf(i, type, alloc[k])]
  BY DEF Finalised
<1>3. Len(pending') = n /\ \A k \in 1 .. n : pending'[k] = SettlementOf(i, type, alloc[k])
  BY <1>1, <1>2
<1>4. \A k \in 1 .. n : /\ pending'[k].isin = i
                        /\ pending'[k].op = IF type = "BUYBACK" THEN "Buyback"
                                                                ELSE "TransferPartition"
                        /\ pending'[k].units = alloc[k].units
  <2> TAKE k \in 1 .. n
  <2> DEFINE s == SettlementOf(i, type, alloc[k])
  <2>1. /\ s.isin = i /\ s.units = alloc[k].units
        /\ s.op = IF type = "BUYBACK" THEN "Buyback" ELSE "TransferPartition"
    BY DEF SettlementOf
  <2> QED BY <1>3, <2>1
<1>5. pending' # <<>> => 1 \in 1 .. n /\ Head(pending') = pending'[1]
  BY <1>1, <1>2
<1>6. 1 .. n # {} => pending' # <<>>
  BY <1>1, <1>3
<1> HIDE DEF n
<1>7. \A k \in 1 .. n : /\ pending'[k].isin = Head(pending').isin
                        /\ pending'[k].op = Head(pending').op
  BY <1>4, <1>5, <1>6
<1>8. SumOfUnits(pending') = SumOfUnits(alloc)
  <2>1. UnitsIn(pending') = UnitsIn(alloc)
    BY <1>3, <1>4 DEF UnitsIn, n
  <2> QED BY <1>3, <2>1, Zenon DEF SumOfUnits, n
<1>9. SumOfUnits(alloc) = TotalUnits(alloc) /\ TotalUnits(alloc) \in Int
  <2>1. \A x \in Allocations : x.units \in Int
    BY DEF Allocations
  <2> QED BY <1>1, <2>1, TotalIsFolded, UnitsSummed
<1>10. ASSUME pending' # <<>>, Head(pending').op = "TransferPartition"
       PROVE  SumOfUnits(pending') <= bal'[Head(pending').isin][Manager]
  <2>1. type # "BUYBACK" /\ Head(pending').isin = i
    BY <1>4, <1>5, <1>10
  <2>2. bal[i][Manager] \in Nat /\ Manager \in Accounts
    BY ManagerAssumption DEF ManagerAssumption, TypeOK, TokenTypeOK, LedgerTypeOK
  <2>3. bal'[i][Manager] = bal[i][Manager] + TotalUnits(alloc)
    BY <2>1, <2>2 DEF Finalised, TypeOK, TokenTypeOK, LedgerTypeOK
  <2> QED BY <1>8, <1>9, <2>1, <2>2, <2>3
<1> QED BY <1>3, <1>7, <1>10 DEF DeliveryInv

\* A turn of the loop delivers its units or leaves the manager with more than it needs.
LEMMA DeliveryOfSettled ==
    ASSUME DeliveryInv, TypeOK, PendingInv, SettleAllocation
    PROVE  DeliveryInv'
<1> DEFINE s == Head(pending)
           rest == Tail(pending)
<1>1. /\ pending # <<>> /\ pending' = rest /\ TrySettle(s)
      /\ pending \in Seq(Pending)
  BY DEF SettleAllocation, Idle, PendingInv
<1>2. /\ Len(pending) \in Nat /\ Len(rest) = Len(pending) - 1
      /\ \A k \in 1 .. Len(rest) : rest[k] = pending[k + 1] /\ k + 1 \in 1 .. Len(pending)
      /\ s \in Pending /\ rest # <<>> => Head(rest) = rest[1] /\ 1 \in 1 .. Len(rest)
  BY <1>1
<1>3. \A k \in 1 .. Len(rest) : rest[k].isin = s.isin /\ rest[k].op = s.op
  BY <1>2 DEF DeliveryInv
<1>4. s \in Pending
  BY <1>1
<1>5. rest # <<>> => Head(rest).isin = s.isin /\ Head(rest).op = s.op
  BY <1>1, <1>2, <1>3, <1>4
<1>6. \A k \in 1 .. Len(rest) : rest # <<>>
  <2>1. rest \in Seq(Pending)
    BY <1>1
  <2> HIDE DEF rest
  <2> QED BY <2>1
<1>7. ASSUME rest # <<>>, Head(rest).op = "TransferPartition"
      PROVE  SumOfUnits(rest) <= bal'[s.isin][Manager]
  <2>1. s.op = "TransferPartition"
    BY <1>5, <1>7
  <2>2. Sale(s)
    BY <1>4, <2>1 DEF Pending, Purchase
  <2>3. SumOfUnits(pending) <= bal[s.isin][Manager]
    BY <1>1, <2>1 DEF DeliveryInv
  <2>4. \A x \in Pending : x.units \in Nat
    BY DEF Pending, Settlements
  <2>5. SumOfUnits(pending) = s.units + SumOfUnits(rest) /\ SumOfUnits(rest) \in Int
    <3>1. \A x \in Pending : x.units \in Int
      BY <2>4
    <3>2. rest \in Seq(Pending)
      BY <1>1
    <3>3. SumOfUnits(rest) \in Int
      BY <3>1, <3>2, UnitsSummed
    <3> QED BY <1>1, <3>1, <3>3, UnitsOfTail
  <2>6. /\ s.units \in Nat /\ s.isin \in Isins /\ Manager \in Accounts
        /\ Holder(s) \in Accounts \ {Manager} /\ bal[s.isin][Manager] \in Nat
    BY <1>4, PendingTypes DEF TypeOK, TokenTypeOK, LedgerTypeOK
  <2>7. \/ bal' = bal
        \/ Move(s.isin, Manager, s.bondTo, s.units)
    BY <1>1, <2>1, <2>2 DEF TrySettle, Settle, SettleSecurityLeg, Sale, ledgerVars
  <2>8. s.bondTo \in Accounts \ {Manager}
    BY <2>1, <2>6 DEF Holder
  <2>9. bal'[s.isin][Manager] = bal[s.isin][Manager] \/
        bal'[s.isin][Manager] = bal[s.isin][Manager] - s.units
    <3>1. CASE Move(s.isin, Manager, s.bondTo, s.units)
      <4> HIDE DEF s
      <4>1. bal' = [bal EXCEPT ![s.isin] = [bal[s.isin] EXCEPT ![Manager] = @ - s.units,
                                                             ![s.bondTo] = @ + s.units]]
        BY <2>6, <2>8, <3>1 DEF Move, TypeOK, TokenTypeOK, LedgerTypeOK
      <4> QED BY <2>6, <2>8, <4>1 DEF TypeOK, TokenTypeOK, LedgerTypeOK
    <3> QED BY <2>7, <3>1
  <2> HIDE DEF s, rest
  <2> QED BY <2>3, <2>5, <2>6, <2>9
<1> HIDE DEF rest, s
<1> QED BY <1>1, <1>3, <1>5, <1>6, <1>7 DEF DeliveryInv

\* Outside the loop nothing is pending.
LEMMA DeliveryStep ==
    ASSUME DeliveryInv, TypeOK, PendingInv, [Next]_vars
    PROVE  DeliveryInv'
<1>1. ASSUME NEW i \in Isins, Finalise(i)
      PROVE  DeliveryInv'
  BY <1>1, FinaliseEffect, DeliveryOfFinalised
<1>2. CASE SettleAllocation
  BY <1>2, DeliveryOfSettled
<1>3. CASE pending' = pending /\ pending = <<>>
  BY <1>3 DEF DeliveryInv
<1>4. CASE UNCHANGED vars
  BY <1>4 DEF DeliveryInv, vars, tokenVars, managerVars
<1>5. ASSUME NEW i \in Isins,
             \/ \E years \in Years : DeployBond(i, years)
             \/ \E size \in Sizes, type \in AuctionTypes :
                   DeployAuctionForBond(i, now + 1, size, type)
             \/ \E size \in Sizes, years \in Years :
                   DeployBondWithAuction(i, now + 1, size, years)
             \/ DisableBond(i)
             \/ \E hash \in Hashes : PlaceBid(i, hash)
             \/ CloseBidding(i)
             \/ CancelBondAuction(i)
             \/ \E listed \in SUBSET Accounts : PayCoupon(i, listed)
             \/ \E from, to \in Accounts, v \in Amounts : TransferUnits(i, from, to, v)
      PROVE  pending' = pending /\ pending = <<>>
  BY <1>5 DEF DeployBond, DeployAuctionForBond, DeployBondWithAuction, DisableBond, PlaceBid,
              CloseBidding, CancelBondAuction, PayCoupon, TransferUnits, managerVars, Idle
<1>6. ASSUME MoveCash \/ EditAllowlist \/ Tick
      PROVE  pending' = pending /\ pending = <<>>
  BY <1>6 DEF MoveCash, EditAllowlist, Tick, managerVars, Idle
<1> QED BY <1>1, <1>2, <1>3, <1>4, <1>5, <1>6 DEF Next

\* Every unit in existence was allocated by a finalised issuance, and an allocation is
\* never short of units: whatever fails in the loop of finaliseAuction, the manager holds
\* all the units that are still to be delivered (BondManager.sol:317-378).
THEOREM SupplyTheorem == Spec => []SupplyWasAllocated
<1>1. Init => SupplyInv /\ DeliveryInv
  <2> SUFFICES ASSUME Init PROVE SupplyInv /\ DeliveryInv
    OBVIOUS
  <2>1. ASSUME NEW i \in Isins
        PROVE  /\ ~HasOpenAuction(i)
               /\ supply[i] <= IssuedIn(auctions[i])
    <3>1. auctions[i] = <<>> /\ supply[i] = 0
      BY DEF Init, AuctionInit, TokenInit, LedgerInit
    <3>2. IssuedIn(<<>>) = 0
      <4>1. Len(<<>>) = 0 /\ 1 .. 0 = {}
        OBVIOUS
      <4> QED BY <4>1, SumEmpty, Zenon DEF IssuedIn
    <3> QED BY <3>1, <3>2 DEF HasOpenAuction
  <2>2. pending = <<>> /\ 1 .. Len(pending) = {}
    BY DEF Init
  <2> QED BY <2>1, <2>2 DEF SupplyInv, DeliveryInv
<1>2. TypeOK /\ IInv /\ PendingInv /\ SupplyInv /\ DeliveryInv /\ [Next]_vars
          => SupplyInv' /\ DeliveryInv'
  BY SupplyStep, DeliveryStep
<1>3. TypeOK /\ PendingInv /\ SupplyInv /\ DeliveryInv => SupplyWasAllocated
  <2> SUFFICES ASSUME TypeOK, PendingInv, SupplyInv, DeliveryInv PROVE SupplyWasAllocated
    OBVIOUS
  <2>1. ASSUME NEW i \in Isins
        PROVE  supply[i] <= UnitsIssued(i)
    <3>1. auctions[i] \in Seq(Auctions)
      BY TypeFacts
    <3>2. UnitsIssued(i) = IssuedIn(auctions[i])
      BY <3>1, IssuedIsFolded, IssuedSummed
    <3> QED BY <3>2 DEF SupplyInv
  <2>2. PendingUnits = SumOfUnits(pending)
    <3>1. pending \in Seq(Pending) /\ \A x \in Pending : x.units \in Int
      BY DEF PendingInv, Pending, Settlements
    <3> QED BY <3>1, PendingIsFolded, UnitsSummed
  <2> QED BY <2>1, <2>2 DEF SupplyWasAllocated, DeliveryInv, Idle
<1> QED BY <1>1, <1>2, <1>3, TypeCorrect, Inductive, PendingInvariance, PTL DEF Spec

-----------------------------------------------------------------------------
(* The holdings                                                             *)

\* Everybody's units together are the supply.
HoldingsInv == \A i \in Isins : supply[i] = SumFunction(bal[i])

\* Only the ledger of i changes, and that by the same v at an account and in the supply.
LedgerUp(i, a, v) ==
    /\ bal' = [bal EXCEPT ![i] = [bal[i] EXCEPT ![a] = bal[i][a] + v]]
    /\ supply' = [supply EXCEPT ![i] = supply[i] + v]

\* A table of units of which one entry changes
LEMMA HoldingUp ==
    ASSUME NEW f \in [Accounts -> Int], NEW a \in Accounts, NEW v \in Int
    PROVE  /\ SumFunction([f EXCEPT ![a] = f[a] + v]) = SumFunction(f) + v
           /\ SumFunction(f) \in Int
<1> DEFINE g == [f EXCEPT ![a] = f[a] + v]
<1>1. g \in [Accounts -> Int] /\ g[a] = f[a] + v
  OBVIOUS
<1>2. SameBut(f, g, Accounts, a)
  BY <1>1, AccountsAssumption DEF AccountsAssumption, SameBut
<1>3. f[a] \in Int
  OBVIOUS
<1> HIDE DEF g
<1>4. SumFunction(g) = SumFunction(f) + (g[a] - f[a]) /\ SumFunction(f) \in Int
  BY <1>2, SumUp
<1>5. SumFunction(g) = SumFunction(f) + v
  BY <1>1, <1>3, <1>4
<1> QED BY <1>4, <1>5 DEF g

LEMMA LedgerUpHoldings ==
    ASSUME LedgerTypeOK, HoldingsInv, NEW i \in Isins, NEW a \in Accounts, NEW v \in Int,
           LedgerUp(i, a, v)
    PROVE  HoldingsInv'
<1> DEFINE g == [bal[i] EXCEPT ![a] = bal[i][a] + v]
<1>1. bal[i] \in [Accounts -> Int]
  BY DEF LedgerTypeOK
<1>2. SumFunction(g) = SumFunction(bal[i]) + v
  BY <1>1, HoldingUp
<1>3. bal'[i] = g /\ \A j \in Isins \ {i} : bal'[j] = bal[j]
  BY DEF LedgerUp, LedgerTypeOK
<1>4. supply'[i] = supply[i] + v /\ \A j \in Isins \ {i} : supply'[j] = supply[j]
  BY DEF LedgerUp, LedgerTypeOK
<1> HIDE DEF g
<1> QED BY <1>2, <1>3, <1>4 DEF HoldingsInv

LEMMA MintHoldings ==
    ASSUME LedgerTypeOK, HoldingsInv, NEW i \in Isins, NEW a \in Accounts, NEW v \in Nat,
           Mint(i, a, v)
    PROVE  HoldingsInv'
<1>1. LedgerUp(i, a, v)
  BY DEF Mint, LedgerUp, LedgerTypeOK
<1> QED BY <1>1, LedgerUpHoldings

LEMMA BurnHoldings ==
    ASSUME LedgerTypeOK, HoldingsInv, NEW i \in Isins, NEW a \in Accounts, NEW v \in Nat,
           Burn(i, a, v)
    PROVE  HoldingsInv'
<1> DEFINE w == 0 - v
<1>1. /\ w \in Int
      /\ \A n \in Nat : n - v = n + w
  OBVIOUS
<1>2. bal[i][a] \in Nat /\ supply[i] \in Nat
  BY DEF LedgerTypeOK
<1>3. /\ bal' = [bal EXCEPT ![i] = [bal[i] EXCEPT ![a] = bal[i][a] - v]]
      /\ supply' = [supply EXCEPT ![i] = supply[i] - v]
  BY DEF Burn, LedgerTypeOK
<1> HIDE DEF w
<1>4. LedgerUp(i, a, w)
  BY <1>1, <1>2, <1>3 DEF LedgerUp
<1> QED BY <1>1, <1>4, LedgerUpHoldings

LEMMA MoveHoldings ==
    ASSUME LedgerTypeOK, HoldingsInv, NEW i \in Isins, NEW from \in Accounts,
           NEW to \in Accounts, NEW v \in Nat, Move(i, from, to, v)
    PROVE  HoldingsInv'
<1>1. CASE from = to
  BY <1>1 DEF Move, HoldingsInv
<1>2. CASE from # to
  <2> DEFINE w == 0 - v
             f == bal[i]
             g == [f EXCEPT ![from] = f[from] + w]
             h == [g EXCEPT ![to] = g[to] + v]
  <2>1. f \in [Accounts -> Int] /\ f[from] \in Nat /\ w \in Int
        /\ f[from] - v = f[from] + w
    BY DEF LedgerTypeOK
  <2>2. bal' = [bal EXCEPT ![i] = [f EXCEPT ![from] = f[from] - v, ![to] = f[to] + v]]
    BY <1>2 DEF Move, LedgerTypeOK
  <2>3. g \in [Accounts -> Int] /\ g[to] = f[to]
    BY <1>2, <2>1
  <2>4. bal' = [bal EXCEPT ![i] = h]
    BY <1>2, <2>1, <2>2, <2>3
  <2>5. bal'[i] = h /\ \A j \in Isins \ {i} : bal'[j] = bal[j]
    <3> HIDE DEF h
    <3> QED BY <2>4 DEF LedgerTypeOK
  <2>6. SumFunction(g) = SumFunction(f) + w /\ SumFunction(f) \in Int
    BY <2>1, HoldingUp
  <2>7. SumFunction(h) = SumFunction(g) + v
    <3>1. v \in Int /\ g \in [Accounts -> Int]
      BY <2>3
    <3> HIDE DEF g
    <3>2. SumFunction([g EXCEPT ![to] = g[to] + v]) = SumFunction(g) + v
      BY <3>1, HoldingUp
    <3> QED BY <3>2
  <2> HIDE DEF g, h
  <2>8. SumFunction(h) = SumFunction(f)
    BY <2>6, <2>7
  <2> QED BY <2>5, <2>8 DEF Move, HoldingsInv
<1> QED BY <1>1, <1>2

\* Nobody who is left out of a list that covers the supply holds any units.
LEMMA NobodyLeftOut ==
    ASSUME TypeOK, HoldingsInv, NEW i \in Isins, NEW listed \in SUBSET Accounts,
           AllUnitsListed(i, listed)
    PROVE  \A a \in Accounts \ listed : bal[i][a] = 0
<1>1. bal[i] \in [Accounts -> Nat]
  BY DEF TypeOK, TokenTypeOK, LedgerTypeOK
<1>2. SumFunction(bal[i]) = SumFunctionOnSet(bal[i], Accounts)
  <2>1. DOMAIN bal[i] = Accounts
    BY <1>1
  <2> QED BY <2>1, Zenon DEF SumFunction
<1>3. SumFunctionOnSet(bal[i], listed) = SumFunctionOnSet(bal[i], Accounts)
  BY <1>2 DEF AllUnitsListed, UnitsOf, HoldingsInv
<1>4. CountsPart(bal[i], Accounts, listed)
  BY <1>1, AccountsAssumption DEF AccountsAssumption, CountsPart
<1> QED BY <1>3, <1>4, NothingLeftOut

\* The final coupon takes every unit away.
LEMMA RedeemedHoldings ==
    ASSUME TypeOK, HoldingsInv, NEW i \in Isins, NEW listed \in SUBSET Accounts,
           AllUnitsListed(i, listed),
           bal' = [bal EXCEPT ![i] = [a \in Accounts |-> IF a \in listed THEN 0 ELSE @[a]]],
           supply' = [supply EXCEPT ![i] = 0]
    PROVE  HoldingsInv' /\ \A a \in Accounts : bal'[i][a] = 0
<1> DEFINE g == [a \in Accounts |-> IF a \in listed THEN 0 ELSE bal[i][a]]
<1>1. bal'[i] = g /\ \A j \in Isins \ {i} : bal'[j] = bal[j]
  BY DEF TypeOK, TokenTypeOK, LedgerTypeOK
<1>2. supply'[i] = 0 /\ \A j \in Isins \ {i} : supply'[j] = supply[j]
  BY DEF TypeOK, TokenTypeOK, LedgerTypeOK
<1>3. \A a \in Accounts : g[a] = 0
  BY NobodyLeftOut
<1>4. DOMAIN g = Accounts
  OBVIOUS
<1> HIDE DEF g
<1>5. SumFunctionOnSet(g, Accounts) = 0
  BY <1>3, AccountsAssumption, SumZero DEF AccountsAssumption
<1>6. SumFunction(g) = 0
  BY <1>4, <1>5, Zenon DEF SumFunction
<1> QED BY <1>1, <1>2, <1>3, <1>6 DEF HoldingsInv

\* Every step keeps the supply what the holders hold.
LEMMA HoldingsStep ==
    ASSUME TypeOK, HoldingsInv, [Next]_vars
    PROVE  HoldingsInv'
<1>0. LedgerTypeOK
  BY DEF TypeOK, TokenTypeOK
<1>1. CASE UNCHANGED ledgerVars
  BY <1>1 DEF ledgerVars, HoldingsInv
<1>2. ASSUME NEW i \in Isins, Finalise(i)
      PROVE  HoldingsInv'
  <2>1. PICK type \in AuctionTypes, alloc \in Seq(Allocations) : Finalised(i, type, alloc)
    BY <1>2, FinaliseEffect
  <2>2. CASE type = "BUYBACK"
    BY <2>1, <2>2 DEF Finalised, HoldingsInv
  <2>3. CASE type # "BUYBACK"
    <3>1. TotalUnits(alloc) \in Int
      <4>1. \A x \in Allocations : x.units \in Int
        BY DEF Allocations
      <4> QED BY <4>1, TotalIsFolded, UnitsSummed
    <3>2. Manager \in Accounts
      BY ManagerAssumption DEF ManagerAssumption
    <3>3. LedgerUp(i, Manager, TotalUnits(alloc))
      BY <1>0, <2>1, <2>3, <3>2 DEF Finalised, LedgerUp, LedgerTypeOK
    <3> QED BY <1>0, <3>1, <3>2, <3>3, LedgerUpHoldings
  <2> QED BY <2>2, <2>3
<1>3. ASSUME NEW i \in Isins, NEW listed \in SUBSET Accounts, PayCoupon(i, listed)
      PROVE  HoldingsInv'
  <2>1. AllUnitsListed(i, listed)
    BY <1>3 DEF PayCoupon
  <2>2. \/ UNCHANGED ledgerVars
        \/ /\ bal' = [bal EXCEPT ![i] = [a \in Accounts |-> IF a \in listed THEN 0 ELSE @[a]]]
           /\ supply' = [supply EXCEPT ![i] = 0]
    BY <1>3, Zenon DEF PayCoupon
  <2> QED BY <1>1, <2>1, <2>2, RedeemedHoldings
<1>4. ASSUME NEW i \in Isins, NEW from \in Accounts, NEW to \in Accounts, NEW v \in Amounts,
             TransferUnits(i, from, to, v)
      PROVE  HoldingsInv'
  BY <1>0, <1>4, MoveHoldings, ManagerAssumption DEF ManagerAssumption, TransferUnits
<1>5. CASE SettleAllocation
  <2> DEFINE s == Head(pending)
  <2>1. s \in Settlements /\ TrySettle(s)
    BY <1>5 DEF SettleAllocation, Idle, TypeOK
  <2> HIDE DEF s
  <2>2. \/ UNCHANGED ledgerVars
        \/ Move(s.isin, s.bondFrom, s.bondTo, s.units)
        \/ Burn(s.isin, s.bondFrom, s.units)
    BY <2>1 DEF TrySettle, Settle, SettleSecurityLeg
  <2>3. /\ s.isin \in Isins /\ s.bondFrom \in Accounts /\ s.bondTo \in Accounts
        /\ s.units \in Nat
    BY <2>1 DEF Settlements
  <2> QED BY <1>0, <1>1, <2>2, <2>3, MoveHoldings, BurnHoldings
<1>6. ASSUME NEW i \in Isins,
             \/ \E years \in Years : DeployBond(i, years)
             \/ \E size \in Sizes, type \in AuctionTypes :
                   DeployAuctionForBond(i, now + 1, size, type)
             \/ \E size \in Sizes, years \in Years :
                   DeployBondWithAuction(i, now + 1, size, years)
             \/ DisableBond(i)
             \/ \E hash \in Hashes : PlaceBid(i, hash)
             \/ CloseBidding(i)
             \/ CancelBondAuction(i)
      PROVE  UNCHANGED ledgerVars
  BY <1>6 DEF DeployBond, DeployAuctionForBond, DeployBondWithAuction, DisableBond, PlaceBid,
              CloseBidding, CancelBondAuction, tokenVars, ledgerVars
<1>7. ASSUME MoveCash \/ EditAllowlist \/ Tick \/ UNCHANGED vars
      PROVE  UNCHANGED ledgerVars
  BY <1>7 DEF MoveCash, EditAllowlist, Tick, vars, tokenVars, ledgerVars
<1> QED BY <1>1, <1>2, <1>3, <1>4, <1>5, <1>6, <1>7 DEF Next

LEMMA HoldingsInvariance == Spec => []HoldingsInv
<1>1. Init => HoldingsInv
  <2> SUFFICES ASSUME Init, NEW i \in Isins PROVE supply[i] = SumFunction(bal[i])
    BY DEF HoldingsInv
  <2>1. DOMAIN bal[i] = Accounts /\ (\A a \in Accounts : bal[i][a] = 0) /\ supply[i] = 0
    BY DEF Init, TokenInit, LedgerInit
  <2>2. SumFunctionOnSet(bal[i], Accounts) = 0
    BY <2>1, AccountsAssumption, SumZero DEF AccountsAssumption
  <2>3. SumFunction(bal[i]) = 0
    BY <2>1, <2>2, Zenon DEF SumFunction
  <2> QED BY <2>1, <2>3
<1>2. TypeOK /\ HoldingsInv /\ [Next]_vars => HoldingsInv'
  BY HoldingsStep
<1> QED BY <1>1, <1>2, TypeCorrect, PTL DEF Spec

-----------------------------------------------------------------------------
(* The coupons                                                              *)

\* What a coupon owes to a holder of i
Due(i, a) == bal[i][a] * (CouponPerUnit(i) + (IF coupon'[i].matured THEN UnitNominal ELSE 0))

PaidToAll(i) ==
    /\ \A a \in Accounts \ {Manager} : cash'[a] - cash[a] = Due(i, a)
    /\ coupon'[i].matured => \A a \in Accounts : bal'[i][a] = 0
    /\ SumFunction(cash') = SumFunction(cash)

\* A payment out of the reserve moves cash and neither makes nor loses any.
LEMMA PayoutConserves ==
    ASSUME CashTypeOK, NEW p \in [CashAccounts -> Nat], p[GovReserve] = 0, NEW total \in Int,
           total = SumFunction(p),
           cash' = [a \in CashAccounts |->
                      IF a = GovReserve THEN cash[a] - total ELSE cash[a] + p[a]]
    PROVE  SumFunction(cash') = SumFunction(cash)
<1> DEFINE given == [a \in CashAccounts |-> cash[a] + p[a]]
<1>1. /\ IsFiniteSet(CashAccounts) /\ GovReserve \in CashAccounts
      /\ cash \in [CashAccounts -> Nat]
  <2>1. CashAccounts = (Accounts \ {Manager}) \cup {GovReserve}
    BY ManagerAssumption DEF ManagerAssumption
  <2>2. IsFiniteSet(Accounts \ {Manager})
    BY AccountsAssumption, FS_Subset DEF AccountsAssumption
  <2>3. IsFiniteSet(CashAccounts)
    BY <2>1, <2>2, FS_AddElement
  <2> QED BY <2>3, ManagerAssumption DEF ManagerAssumption, CashTypeOK
<1>2. \A a \in CashAccounts : cash[a] \in Int /\ p[a] \in Int /\ given[a] = cash[a] + p[a]
  BY <1>1
<1>3. /\ given[GovReserve] = cash[GovReserve]
      /\ cash'[GovReserve] = cash[GovReserve] - total
      /\ \A a \in CashAccounts \ {GovReserve} : cash'[a] = given[a]
      /\ \A a \in CashAccounts : given[a] \in Int /\ cash'[a] \in Int
  BY <1>1, <1>2
<1>4. /\ DOMAIN cash' = CashAccounts /\ DOMAIN cash = CashAccounts /\ DOMAIN p = CashAccounts
  BY <1>1
<1> HIDE DEF given
<1>5. ChangedAt(given, cash', CashAccounts, GovReserve)
  BY <1>1, <1>3 DEF ChangedAt
<1>6. SumFunctionOnSet(cash', CashAccounts)
        = SumFunctionOnSet(given, CashAccounts) - given[GovReserve] + cash'[GovReserve]
  BY <1>5, SumChange
<1>7. SumFunctionOnSet(given, CashAccounts)
        = SumFunctionOnSet(cash, CashAccounts) + SumFunctionOnSet(p, CashAccounts)
  BY <1>1, <1>2, SumPlus
<1>8. SumFunctionOnSet(cash, CashAccounts) \in Int
  BY <1>1, <1>2, SumInt
<1>9. /\ SumFunction(cash') = SumFunctionOnSet(cash', CashAccounts)
      /\ SumFunction(cash) = SumFunctionOnSet(cash, CashAccounts)
      /\ SumFunction(p) = SumFunctionOnSet(p, CashAccounts)
  BY <1>4, Zenon DEF SumFunction
<1>10. cash[GovReserve] \in Int
  BY <1>1, <1>2
<1> QED BY <1>3, <1>6, <1>7, <1>8, <1>9, <1>10

\* A coupon pays everybody who holds units.
LEMMA CouponPaysAll ==
    ASSUME TypeOK, HoldingsInv, MaturedIffAllPaid, NEW i \in Isins,
           NEW listed \in SUBSET Accounts, PayCoupon(i, listed)
    PROVE  PaidToAll(i)
<1> DEFINE number == coupon[i].paymentCount + 1
           final  == number = ExpectedPayments(i)
           payout == Payout(i, final, listed)
           paid   == [coupon[i] EXCEPT !.lastPayment = now, !.paymentCount = number]
<1>1. coupon[i] \in Coupon /\ coupon \in [Isins -> Coupon]
  BY TypeFacts DEF TypeOK, TokenTypeOK
<1>2. coupon'[i] = IF final THEN [paid EXCEPT !.matured = TRUE] ELSE paid
  BY <1>1 DEF PayCoupon, RecordCouponPayment
<1>3. paid.matured = coupon[i].matured /\ [paid EXCEPT !.matured = TRUE].matured
  BY <1>1 DEF Coupon
<1> HIDE DEF paid
<1>4. coupon[i].duration # 0 /\ coupon[i].paymentCount < ExpectedPayments(i)
      /\ AllUnitsListed(i, listed)
  BY DEF PayCoupon
<1>5. ~coupon[i].matured
  <2>1. coupon[i].paymentCount \in Nat
    BY <1>1 DEF Coupon
  <2>2. coupon[i].matured <=> coupon[i].paymentCount = ExpectedPayments(i)
    BY <1>4 DEF MaturedIffAllPaid
  <2>3. coupon[i].paymentCount # ExpectedPayments(i)
    BY <1>4, <2>1
  <2> QED BY <2>2, <2>3
<1>6. coupon'[i].matured <=> final
  BY <1>2, <1>3, <1>5
<1>7. PICK total \in 0 .. cash[GovReserve] :
          /\ total = SumFunction(payout)
          /\ cash' = [a \in CashAccounts |->
                        IF a = GovReserve THEN cash[a] - total ELSE cash[a] + payout[a]]
  BY DEF PayCoupon
<1>8. payout \in [CashAccounts -> Nat]
  BY <1>4, PayoutType
<1>9. payout[GovReserve] = 0
  BY ManagerAssumption DEF ManagerAssumption, Payout
<1>10. ASSUME NEW a \in Accounts \ {Manager}
       PROVE  cash'[a] - cash[a] = Due(i, a)
  <2> DEFINE rate == CouponPerUnit(i) + (IF final THEN UnitNominal ELSE 0)
  <2>1. a \in CashAccounts \ {GovReserve}
    BY ManagerAssumption DEF ManagerAssumption
  <2>2. payout[a] = IF a \in listed THEN bal[i][a] * rate ELSE 0
    BY <2>1 DEF Payout
  <2>3. Due(i, a) = bal[i][a] * rate
    BY <1>6 DEF Due
  <2>4. rate \in Int
    <3>1. CouponPerUnit(i) \in Int
      <4>1. UnitNominal * coupon[i].yield \in Nat
        BY <1>1, UnitNominalAssumption DEF UnitNominalAssumption, Coupon
      <4> DEFINE numerator == UnitNominal * coupon[i].yield
      <4>2. numerator \in Nat
        BY <4>1
      <4> HIDE DEF numerator
      <4>3. numerator \div PercentagePrecision \in Int
        BY <4>2, ManagerAssumption DEF ManagerAssumption
      <4> QED BY <4>3 DEF CouponPerUnit, numerator
    <3> QED BY <3>1, UnitNominalAssumption DEF UnitNominalAssumption
  <2> HIDE DEF rate
  <2>5. payout[a] = bal[i][a] * rate
    <3>1. CASE a \in listed
      BY <2>2, <3>1
    <3>2. CASE a \notin listed
      <4>1. bal[i][a] = 0
        BY <1>4, <3>2, NobodyLeftOut
      <4> QED BY <2>2, <2>4, <3>2, <4>1
    <3> QED BY <3>1, <3>2
  <2>6. cash'[a] = cash[a] + payout[a] /\ cash[a] \in Nat /\ payout[a] \in Nat
    <3> HIDE DEF payout
    <3> QED BY <1>7, <1>8, <2>1 DEF TypeOK, CashTypeOK
  <2> HIDE DEF payout
  <2> QED BY <2>3, <2>5, <2>6
<1>11. SumFunction(cash') = SumFunction(cash)
  <2>1. CashTypeOK /\ total \in Int
    BY DEF TypeOK
  <2> HIDE DEF payout
  <2> QED BY <1>7, <1>8, <1>9, <2>1, PayoutConserves
<1>12. ASSUME coupon'[i].matured
       PROVE  \A a \in Accounts : bal'[i][a] = 0
  <2>1. /\ bal' = [bal EXCEPT ![i] = [a \in Accounts |-> IF a \in listed THEN 0 ELSE @[a]]]
        /\ supply' = [supply EXCEPT ![i] = 0]
    BY <1>6, <1>12, Zenon DEF PayCoupon
  <2> QED BY <1>4, <2>1, RedeemedHoldings
<1> HIDE DEF payout, number, final
<1> QED BY <1>10, <1>11, <1>12 DEF PaidToAll

\* Nothing else pays a coupon.
LEMMA OnlyPayCouponPays ==
    ASSUME TypeOK, [Next]_vars, NEW i \in Isins,
           coupon'[i].paymentCount > coupon[i].paymentCount
    PROVE  \E listed \in SUBSET Accounts : PayCoupon(i, listed)
<1>1. coupon \in [Isins -> Coupon] /\ coupon[i].paymentCount \in Nat
  BY DEF TypeOK, TokenTypeOK, Coupon
<1>2. coupon' # coupon
  BY <1>1
<1>3. ASSUME NEW j \in Isins, NEW listed \in SUBSET Accounts, PayCoupon(j, listed)
      PROVE  \E l \in SUBSET Accounts : PayCoupon(i, l)
  <2>1. \A k \in Isins \ {j} : coupon'[k] = coupon[k]
    BY <1>1, <1>3 DEF PayCoupon, RecordCouponPayment
  <2>2. i = j
    BY <1>1, <2>1
  <2> QED BY <1>3, <2>2
<1>4. ASSUME NEW j \in Isins, Finalise(j)
      PROVE  FALSE
  <2>1. PICK type \in AuctionTypes, indexes \in BidIndexLists(j) :
            \E alloc \in AllocationLists(indexes) : FinaliseBondAuction(j, type, alloc, indexes)
    BY <1>4 DEF Finalise
  <2>2. PICK alloc \in AllocationLists(indexes) : FinaliseBondAuction(j, type, alloc, indexes)
    BY <2>1
  <2>3. coupon' = coupon \/ EnableByIsin(j, now, DurationScalar, alloc[1].rate)
    BY <2>2 DEF FinaliseBondAuction, PrepareBuyback, PrepareIssuance
  <2> DEFINE c == [coupon[j] EXCEPT !.duration = DurationScalar, !.yield = alloc[1].rate,
                      !.lastPayment = now, !.paymentCount = 0,
                      !.maturityDate = now + terms[j].maturityDuration]
  <2>4. coupon' = [coupon EXCEPT ![j] = c]
    BY <1>1, <1>2, <2>3 DEF EnableByIsin
  <2>5. c.paymentCount = 0
    BY <1>1 DEF Coupon
  <2> HIDE DEF c
  <2>6. coupon'[j] = c /\ \A k \in Isins \ {j} : coupon'[k] = coupon[k]
    BY <1>1, <2>4
  <2> QED BY <1>1, <2>5, <2>6
<1>5. ASSUME NEW j \in Isins, DisableBond(j)
      PROVE  FALSE
  <2>1. coupon' = [coupon EXCEPT ![j] = NoCoupon]
    BY <1>5 DEF DisableBond, DisablePartition
  <2>2. coupon'[j] = NoCoupon /\ \A k \in Isins \ {j} : coupon'[k] = coupon[k]
    BY <1>1, <2>1
  <2>3. NoCoupon.paymentCount = 0
    BY DEF NoCoupon
  <2> QED BY <1>1, <2>2, <2>3
<1>6. ASSUME NEW j \in Isins,
             \/ \E years \in Years : DeployBond(j, years)
             \/ \E size \in Sizes, type \in AuctionTypes :
                   DeployAuctionForBond(j, now + 1, size, type)
             \/ \E size \in Sizes, years \in Years :
                   DeployBondWithAuction(j, now + 1, size, years)
             \/ \E hash \in Hashes : PlaceBid(j, hash)
             \/ CloseBidding(j)
             \/ CancelBondAuction(j)
             \/ \E from, to \in Accounts, v \in Amounts : TransferUnits(j, from, to, v)
      PROVE  coupon' = coupon
  BY <1>6 DEF DeployBond, DeployAuctionForBond, DeployBondWithAuction, PlaceBid, CloseBidding,
              CancelBondAuction, TransferUnits, tokenVars
<1>7. ASSUME SettleAllocation \/ MoveCash \/ EditAllowlist \/ Tick \/ UNCHANGED vars
      PROVE  coupon' = coupon
  BY <1>7 DEF SettleAllocation, MoveCash, EditAllowlist, Tick, vars, tokenVars
<1> QED BY <1>2, <1>3, <1>4, <1>5, <1>6, <1>7 DEF Next

\* A coupon pays everybody who holds units, whatever list of holders the caller gives, and
\* the last one leaves nobody with units; no cash is made or lost (BondManager.payCoupon).
THEOREM CouponPaymentTheorem == Spec => EveryHolderPaid
<1>1. TypeOK /\ HoldingsInv /\ MaturedIffAllPaid /\ [Next]_vars =>
        [\A i \in Isins : coupon'[i].paymentCount > coupon[i].paymentCount =>
          /\ \A a \in Accounts \ {Manager} :
                cash'[a] - cash[a] =
                    bal[i][a] * (CouponPerUnit(i) + (IF coupon'[i].matured THEN UnitNominal ELSE 0))
          /\ coupon'[i].matured => \A a \in Accounts : bal'[i][a] = 0
          /\ SumFunction(cash') = SumFunction(cash)]_vars
  <2> SUFFICES ASSUME TypeOK, HoldingsInv, MaturedIffAllPaid, [Next]_vars, NEW i \in Isins,
                      coupon'[i].paymentCount > coupon[i].paymentCount
               PROVE  PaidToAll(i)
    BY Zenon DEF PaidToAll, Due
  <2> QED BY OnlyPayCouponPays, CouponPaysAll
<1> QED BY <1>1, TypeCorrect, HoldingsInvariance, MaturityTheorem, PTL DEF Spec, EveryHolderPaid
===============================================================================
