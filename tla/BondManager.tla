----------------------------- MODULE BondManager -----------------------------
(***************************************************************************)
(* contracts/src/norges-bank/BondManager.sol with the contracts it drives: *)
(* BondToken, BondAuction, BondDvP and WNOK.                               *)
(*                                                                         *)
(* A transaction is one action: the EVM runs it alone and a revert undoes  *)
(* it, so a call that reverts is a call that is not enabled.  The one      *)
(* exception is finaliseAuction, whose settlement loop catches the failure *)
(* of each allocation: once the loop has begun the transaction cannot      *)
(* fail, and the model takes one step per allocation, with every other     *)
(* action waiting until the loop is over.                                  *)
(***************************************************************************)
EXTENDS BondDvP, BondAuction

CONSTANTS
    Manager,                \* the BondManager contract, holder of unsold units
    GovReserve,             \* GOV_RESERVE: receives proceeds, pays everything else
    DurationScalar,         \* DURATION_SCALAR: length of one year
    PercentagePrecision,    \* PERCENTAGE_PRECISION
    Sizes,                  \* auction sizes the issuer chooses from
    Units,                  \* units of one allocation
    Rates,                  \* rates and prices of an allocation
    Years,                  \* maturities the issuer chooses from
    CashAmounts,            \* amounts of WNOK moved outside the bond system
    Screened,               \* accounts whose place on the allowlist may change
    InitialCash,            \* WNOK of every account at the start
    MaxAllocations,         \* bound on the allocations of one auction
    MaxTime                 \* bound on block.timestamp

\* Accounts are addresses, of which there are finitely many.
ASSUME AccountsAssumption == IsFiniteSet(Accounts)

ASSUME ManagerAssumption ==
    /\ Manager \in Accounts
    /\ GovReserve \in CashAccounts
    /\ CashAccounts \ {GovReserve} = Accounts \ {Manager}
    /\ GovReserve \notin Accounts
    /\ Bidders \subseteq Accounts \ {Manager}
    /\ DurationScalar \in Nat \ {0}
    /\ PercentagePrecision \in Nat \ {0}
    /\ Sizes \subseteq Nat /\ Units \subseteq Nat /\ Rates \subseteq Nat
    /\ Years \subseteq Nat /\ Amounts \subseteq Nat /\ CashAmounts \subseteq Nat
    /\ Screened \subseteq CashAccounts
    /\ InitialCash \in [CashAccounts -> Nat]
    /\ MaxAllocations \in Nat /\ MaxTime \in Nat

VARIABLES
    bondActive,     \* bondActive[i]: an auction of i is in flight
    pending,        \* settlements the running finaliseAuction has still to try
    now             \* block.timestamp

managerVars == <<bondActive, pending>>
vars == <<tokenVars, cashVars, auctions, managerVars, now>>

TypeOK ==
    /\ TokenTypeOK
    /\ CashTypeOK
    /\ AuctionTypeOK
    /\ bondActive \in [Isins -> BOOLEAN]
    /\ pending \in Seq(Settlements)
    /\ now \in Nat

Init ==
    /\ TokenInit
    /\ AuctionInit
    /\ cash = InitialCash
    /\ allowed = CashAccounts
    /\ bondActive = [i \in Isins |-> FALSE]
    /\ pending = <<>>
    /\ now = 0

\* No transaction is running.
Idle == pending = <<>>

-----------------------------------------------------------------------------
(* Staging bonds and auctions                                               *)

\* deployBond
DeployBond(i, years) ==
    /\ Idle
    /\ ~bondActive[i]
    /\ CreatePartition(i, 0, years * DurationScalar)
    /\ UNCHANGED <<ledgerVars, coupon, cashVars, auctions, managerVars, now>>

\* _deployAuctionForBond: a RATE or PRICE auction grows the offering, a BUYBACK needs the supply
GrowOffering(i, size, type) ==
    IF type = "BUYBACK"
      THEN size <= supply[i] /\ UNCHANGED terms
      ELSE ExtendPartitionOffering(i, size)

\* deployAuctionForBond, extendBondWithAuction (PRICE) and buybackWithAuction (BUYBACK)
DeployAuctionForBond(i, end, size, type) ==
    /\ Idle
    /\ ~bondActive[i]
    /\ terms[i].active
    /\ size # 0
    /\ GrowOffering(i, size, type)
    /\ CreateAuction(i, now, end, size, type)
    /\ bondActive' = [bondActive EXCEPT ![i] = TRUE]
    /\ UNCHANGED <<ledgerVars, coupon, cashVars, pending, now>>

\* deployBondWithAuction: createPartition with offering 0, then extended by the RATE auction
DeployBondWithAuction(i, end, size, years) ==
    /\ Idle
    /\ ~bondActive[i]
    /\ size # 0
    /\ CreatePartition(i, size, years * DurationScalar)
    /\ CreateAuction(i, now, end, size, "RATE")
    /\ bondActive' = [bondActive EXCEPT ![i] = TRUE]
    /\ UNCHANGED <<ledgerVars, coupon, cashVars, pending, now>>

\* Mutant: the auction history is not looked at.
DisableBondAnyHistory(i) ==
    /\ Idle
    /\ ~bondActive[i]
    /\ DisablePartition(i)
    /\ UNCHANGED <<ledgerVars, cashVars, auctions, managerVars, now>>

\* disableBond
DisableBond(i) ==
    /\ Idle
    /\ ~bondActive[i]
    /\ \A n \in 1 .. Len(auctions[i]) : auctions[i][n].status # "FINALISED"
    /\ DisablePartition(i)
    /\ UNCHANGED <<ledgerVars, cashVars, auctions, managerVars, now>>

-----------------------------------------------------------------------------
(* Running an auction                                                       *)

\* BondAuction.submitBid, called by anybody
PlaceBid(i, hash) ==
    /\ Idle
    /\ SubmitBid(i, now, hash)
    /\ UNCHANGED <<tokenVars, cashVars, managerVars, now>>

\* closeAuction
CloseBidding(i) ==
    /\ Idle
    /\ bondActive[i]
    /\ CloseAuction(i, now)
    /\ UNCHANGED <<tokenVars, cashVars, managerVars, now>>

\* Mutant: the in-flight lock is not released.
CancelKeepsLock(i) ==
    /\ Idle
    /\ bondActive[i]
    /\ CancelAuction(i)
    /\ ReducePartitionOffering(i, Latest(i).offering)
    /\ UNCHANGED <<ledgerVars, coupon, cashVars, managerVars, now>>

\* cancelAuction: the size of the auction is taken off the offering, whatever its type
CancelBondAuction(i) ==
    /\ Idle
    /\ bondActive[i]
    /\ CancelAuction(i)
    /\ ReducePartitionOffering(i, Latest(i).offering)
    /\ bondActive' = [bondActive EXCEPT ![i] = FALSE]
    /\ UNCHANGED <<ledgerVars, coupon, cashVars, pending, now>>

\* Face value for RATE, a price in units of 1/PercentagePrecision otherwise
PaymentDue(type, units, rate) ==
    IF type = "RATE" THEN units * UnitNominal
                     ELSE (rate * (units * UnitNominal)) \div PercentagePrecision

\* The settlement of one allocation: sold from the manager's units, or bought back and burned.
SettlementOf(i, type, a) ==
    IF type = "BUYBACK"
      THEN [op |-> "Buyback", isin |-> i, bondFrom |-> a.bidder, bondTo |-> a.bidder,
            units |-> a.units, cashFrom |-> GovReserve, cashTo |-> a.bidder,
            amount |-> PaymentDue(type, a.units, a.rate)]
      ELSE [op |-> "TransferPartition", isin |-> i, bondFrom |-> Manager,
            bondTo |-> a.bidder, units |-> a.units, cashFrom |-> a.bidder,
            cashTo |-> GovReserve, amount |-> PaymentDue(type, a.units, a.rate)]

\* Mutants: the whole offering is minted; every issuance auction restarts the coupon
\* clock.
PrepareWholeOffering(i, type, total, clearingRate) ==
    /\ MintByIsin(i, Manager, Latest(i).offering)
    /\ IF type = "RATE" THEN EnableByIsin(i, now, DurationScalar, clearingRate)
                        ELSE UNCHANGED coupon
PrepareAndEnable(i, type, total, clearingRate) ==
    /\ MintByIsin(i, Manager, total)
    /\ EnableByIsin(i, now, DurationScalar, clearingRate)

\* _settleIssuance before its loop: mint the total, and for RATE start the coupon clock
PrepareIssuance(i, type, total, clearingRate) ==
    /\ MintByIsin(i, Manager, total)
    /\ IF type = "RATE" THEN EnableByIsin(i, now, DurationScalar, clearingRate)
                        ELSE UNCHANGED coupon

\* _settleBuyback before its loop
PrepareBuyback(i, total) ==
    /\ total <= supply[i]
    /\ UNCHANGED <<ledgerVars, coupon>>

\* finaliseAuction up to the settlement loop.  Exceeding the offering of the auction
\* reverts, so total ranges over what the offering allows.
FinaliseBondAuction(i, type, alloc, indexes) ==
    /\ Idle
    /\ bondActive[i]
    /\ terms[i].active
    /\ alloc # <<>>
    /\ \E total \in 1 .. Latest(i).offering :
          /\ FinaliseAuction(i, type, alloc, indexes, total)
          /\ IF type = "BUYBACK" THEN PrepareBuyback(i, total)
                                 ELSE PrepareIssuance(i, type, total, alloc[1].rate)
    /\ bondActive' = [bondActive EXCEPT ![i] = FALSE]
    /\ pending' = [k \in 1 .. Len(alloc) |-> SettlementOf(i, type, alloc[k])]
    /\ UNCHANGED <<terms, cashVars, now>>

\* One turn of the settlement loop.
SettleAllocation ==
    /\ ~Idle
    /\ TrySettle(Head(pending))
    /\ pending' = Tail(pending)
    /\ UNCHANGED <<terms, coupon, auctions, bondActive, now>>

-----------------------------------------------------------------------------
(* Coupons and redemption                                                   *)

ExpectedPayments(i) == terms[i].maturityDuration \div coupon[i].duration

CouponPerUnit(i) == (UnitNominal * coupon[i].yield) \div PercentagePrecision

\* What each account is paid for the next period of i
Payout(i, final, listed) ==
    [a \in CashAccounts |->
        IF a \in listed THEN bal[i][a] * (CouponPerUnit(i) + (IF final THEN UnitNominal ELSE 0))
                        ELSE 0]

UnitsOf(i, listed) == SumFunctionOnSet(bal[i], listed)

\* Mutants: no waiting between coupons; the units of the listed holders are not counted.
CouponAlwaysDue(i) == now >= coupon[i].lastPayment
AnyUnitsListed(i, listed) == UnitsOf(i, listed) <= supply[i]

\* A coupon period has passed since the last payment.
CouponDue(i) == now >= coupon[i].lastPayment + coupon[i].duration

\* processed + unsold = supply: nobody who holds units is missing from the list.
AllUnitsListed(i, listed) == UnitsOf(i, listed) = supply[i]

\* payCoupon: listed is the array of holders, which may not repeat an address.  The
\* payments are one DvP settlement each and any failure reverts them all.  They all
\* draw on the reserve and each burns its own holder's units, so together they succeed
\* iff every holder paid is on the allowlist and the reserve covers their sum.
PayCoupon(i, listed) ==
    /\ Idle
    /\ coupon[i].duration # 0       \* otherwise the division by it reverts
    /\ coupon[i].paymentCount < ExpectedPayments(i)
    /\ CouponDue(i)
    /\ LET number == coupon[i].paymentCount + 1
           final  == number = ExpectedPayments(i)
           payout == Payout(i, final, listed)
           paid   == {a \in listed \ {Manager} : bal[i][a] > 0}
       IN  /\ AllUnitsListed(i, listed)
           /\ paid # {} => GovReserve \in allowed /\ paid \subseteq allowed
           /\ final /\ supply[i] > 0 => terms[i].active
           /\ \E total \in 0 .. cash[GovReserve] :
                 /\ total = SumFunction(payout)
                 /\ cash' = [a \in CashAccounts |->
                               IF a = GovReserve THEN cash[a] - total ELSE cash[a] + payout[a]]
           /\ RecordCouponPayment(i, now, number, final)
           /\ IF final
                THEN /\ bal' = [bal EXCEPT ![i] =
                                  [a \in Accounts |-> IF a \in listed THEN 0 ELSE @[a]]]
                     /\ supply' = [supply EXCEPT ![i] = 0]
                ELSE UNCHANGED ledgerVars
    /\ UNCHANGED <<terms, allowed, auctions, managerVars, now>>

-----------------------------------------------------------------------------
(* Outside the bond manager                                                 *)

\* transferByPartition: a holder gives units away
TransferUnits(i, from, to, v) ==
    /\ Idle
    /\ from # Manager
    /\ Move(i, from, to, v)
    /\ UNCHANGED <<terms, coupon, cashVars, auctions, managerVars, now>>

\* the WNOK of an account changes hands, or the central bank issues or withdraws some
MoveCash ==
    /\ Idle
    /\ \E v \in CashAmounts, a \in CashAccounts :
          \/ MintCash(a, v)
          \/ BurnCash(a, v)
          \/ \E to \in CashAccounts : TransferCash(a, to, v)
    /\ UNCHANGED <<tokenVars, auctions, managerVars, now>>

\* the central bank edits the allowlist
EditAllowlist ==
    /\ Idle
    /\ \E a \in Screened : Allow(a) \/ Disallow(a)
    /\ UNCHANGED <<tokenVars, auctions, managerVars, now>>

Tick ==
    /\ Idle
    /\ now < MaxTime
    /\ now' = now + 1
    /\ UNCHANGED <<tokenVars, cashVars, auctions, managerVars>>

-----------------------------------------------------------------------------
\* What an operator may submit for the latest auction of i: proofs that name any bids,
\* in any order, repeated, or past the last one, and allocations to any bidder under any
\* nonce, with any units and rates.
BidIndexLists(i) == SeqOf(1 .. Len(Latest(i).bids) + 1, MaxAllocations)

AllocationLists(indexes) ==
    [1 .. Len(indexes) -> [bidder : Bidders, nonce : Nonces, units : Units, rate : Rates]]

Finalise(i) ==
    /\ HasOpenAuction(i)
    /\ \E type \in AuctionTypes, indexes \in BidIndexLists(i) :
          \E alloc \in AllocationLists(indexes) : FinaliseBondAuction(i, type, alloc, indexes)

Next ==
    \/ \E i \in Isins :
          \/ \E years \in Years : DeployBond(i, years)
          \/ \E size \in Sizes, type \in AuctionTypes :
                DeployAuctionForBond(i, now + 1, size, type)
          \/ \E size \in Sizes, years \in Years : DeployBondWithAuction(i, now + 1, size, years)
          \/ DisableBond(i)
          \/ \E hash \in Hashes : PlaceBid(i, hash)
          \/ CloseBidding(i)
          \/ CancelBondAuction(i)
          \/ Finalise(i)
          \/ \E listed \in SUBSET Accounts : PayCoupon(i, listed)
          \/ \E from, to \in Accounts, v \in Amounts : TransferUnits(i, from, to, v)
    \/ SettleAllocation
    \/ MoveCash
    \/ EditAllowlist
    \/ Tick

Spec == Init /\ [][Next]_vars
=============================================================================
