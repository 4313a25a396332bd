------------------------------ MODULE BondToken ------------------------------
(***************************************************************************)
(* contracts/src/norges-bank/BondToken.sol: the lifecycle of a partition   *)
(* (one per ISIN) on top of the unit ledger, which is kept here as         *)
(* PartitionLedger describes it (Erc1410 shows that the token's            *)
(* bookkeeping implements that).                                           *)
(*                                                                         *)
(* Every operation is reserved to the controller, the bond manager, which  *)
(* calls several of them in one transaction; BondManager composes them.    *)
(* The per-partition mappings of the contract are the fields of one        *)
(* record, because disablePartition clears them all together.  They are    *)
(* split in two variables, terms and coupon, because no operation but      *)
(* disablePartition writes fields of both.  The argument t of an operation *)
(* is block.timestamp.                                                     *)
(***************************************************************************)
EXTENDS PartitionLedger

CONSTANTS
    UnitNominal     \* UNIT_NOMINAL: WNOK per unit

ASSUME UnitNominalAssumption == UnitNominal \in Nat \ {0}

VARIABLES
    terms,      \* terms[i]: activePartitions, partitionOffering, maturityDuration
    coupon      \* coupon[i]: coupon parameters, payment tracking, maturity

Terms  == [active : BOOLEAN, offering : Nat, maturityDuration : Nat]
Coupon == [duration : Nat, yield : Nat, lastPayment : Nat, paymentCount : Nat,
           maturityDate : Nat, matured : BOOLEAN]

NoTerms  == [active |-> FALSE, offering |-> 0, maturityDuration |-> 0]
NoCoupon == [duration |-> 0, yield |-> 0, lastPayment |-> 0, paymentCount |-> 0,
             maturityDate |-> 0, matured |-> FALSE]

tokenVars == <<bal, supply, terms, coupon>>

TokenTypeOK ==
    /\ LedgerTypeOK
    /\ terms \in [Isins -> Terms]
    /\ coupon \in [Isins -> Coupon]

TokenInit ==
    /\ LedgerInit
    /\ terms = [i \in Isins |-> NoTerms]
    /\ coupon = [i \in Isins |-> NoCoupon]

-----------------------------------------------------------------------------
(* Partition terms                                                          *)

\* createPartition: the coupon fields keep what they hold
CreatePartition(i, offering, duration) ==
    /\ ~terms[i].active
    /\ duration # 0
    /\ terms' = [terms EXCEPT ![i] = [active |-> TRUE, offering |-> offering,
                                      maturityDuration |-> duration]]

\* extendPartitionOffering
ExtendPartitionOffering(i, delta) ==
    /\ terms[i].active
    /\ delta # 0
    /\ terms' = [terms EXCEPT ![i].offering = @ + delta]

\* Mutant: the offering may fall below the supply.
CanReduceBelowSupply(i, delta) ==
    /\ terms[i].active
    /\ delta # 0
    /\ terms[i].offering >= delta

\* What _updatePartitionOffering requires of a reduction
CanReduceOffering(i, delta) ==
    /\ terms[i].active
    /\ delta # 0
    /\ terms[i].offering >= delta
    /\ terms[i].offering - delta >= supply[i]

\* reducePartitionOffering
ReducePartitionOffering(i, delta) ==
    /\ CanReduceOffering(i, delta)
    /\ terms' = [terms EXCEPT ![i].offering = @ - delta]

\* disablePartition: a soft delete that clears every mapping of the partition
DisablePartition(i) ==
    /\ terms[i].active
    /\ supply[i] = 0
    /\ terms' = [terms EXCEPT ![i] = NoTerms]
    /\ coupon' = [coupon EXCEPT ![i] = NoCoupon]

-----------------------------------------------------------------------------
(* Units                                                                    *)

\* mintByIsin: never above the offering
MintByIsin(i, account, v) ==
    /\ terms[i].active
    /\ supply[i] + v <= terms[i].offering
    /\ Mint(i, account, v)

\* What redeemFor and buybackRedeemFor require before they burn
CanRedeemFor(i)        == terms[i].active /\ coupon[i].matured
CanBuybackRedeemFor(i) == terms[i].active

-----------------------------------------------------------------------------
(* Coupon                                                                   *)

\* enableByIsin: _setCouponParameters, then _startMaturityTimer
EnableByIsin(i, t, duration, yield) ==
    /\ terms[i].active
    /\ duration # 0
    /\ yield # 0
    /\ terms[i].maturityDuration # 0
    /\ coupon' = [coupon EXCEPT ![i] =
          [@ EXCEPT !.duration = duration, !.yield = yield, !.lastPayment = t,
                    !.paymentCount = 0, !.maturityDate = t + terms[i].maturityDuration]]

\* Mutant: setMatured is never called.
RecordCouponPaymentOnly(i, t, count, final) ==
    coupon' = [coupon EXCEPT ![i] = [@ EXCEPT !.lastPayment = t, !.paymentCount = count]]

\* updateCouponPayment, after setMatured when the period is the final one
RecordCouponPayment(i, t, count, final) ==
    LET paid == [coupon[i] EXCEPT !.lastPayment = t, !.paymentCount = count]
    IN  coupon' = [coupon EXCEPT ![i] = IF final THEN [paid EXCEPT !.matured = TRUE] ELSE paid]
=============================================================================
