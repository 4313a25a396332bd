------------------------------- MODULE BondDvP -------------------------------
(***************************************************************************)
(* contracts/src/norges-bank/BondDvP.sol: delivery versus payment of bond  *)
(* units against WNOK.  settle() moves the security leg, then the cash     *)
(* leg; a leg that fails reverts the call and with it the leg before.      *)
(* The contract is a controller of the bond token and holds                *)
(* TRANSFER_FROM_ROLE of the cash token.                                   *)
(***************************************************************************)
EXTENDS BondToken, Wnok

Operations == {"None", "TransferPartition", "Redeem", "Buyback"}

\* The legs of one settlement (IBondDvP.Settlement).
Settlements ==
    [op : Operations, isin : Isins, bondFrom : Accounts, bondTo : Accounts, units : Nat,
     cashFrom : CashAccounts, cashTo : CashAccounts, amount : Nat]

CanBurn(s) == s.units # 0 /\ s.units <= bal[s.isin][s.bondFrom] /\ s.units <= supply[s.isin]

CanSettleSecurityLeg(s) ==
    \/ s.op = "None"
    \/ s.op = "TransferPartition" /\ s.units <= bal[s.isin][s.bondFrom]
    \/ s.op = "Redeem"  /\ CanRedeemFor(s.isin) /\ CanBurn(s)
    \/ s.op = "Buyback" /\ CanBuybackRedeemFor(s.isin) /\ CanBurn(s)

\* The cash leg does not depend on the security leg, which moves no cash.
CanSettle(s) == CanSettleSecurityLeg(s) /\ CanTransferCash(s.cashFrom, s.cashTo, s.amount)

\* _settleSecurityLeg
SettleSecurityLeg(s) ==
    \/ s.op = "None" /\ UNCHANGED ledgerVars
    \/ s.op = "TransferPartition" /\ Move(s.isin, s.bondFrom, s.bondTo, s.units)
    \/ s.op \in {"Redeem", "Buyback"} /\ Burn(s.isin, s.bondFrom, s.units)

\* settle
Settle(s) ==
    /\ CanSettle(s)
    /\ SettleSecurityLeg(s)
    /\ TransferCash(s.cashFrom, s.cashTo, s.amount)

\* Mutant: the failure of the cash leg is caught inside settle and the security leg stays.
TrySettleEachLeg(s) ==
    \/ Settle(s)
    \/ /\ CanSettleSecurityLeg(s)
       /\ ~CanSettle(s)
       /\ SettleSecurityLeg(s)
       /\ UNCHANGED cashVars
    \/ ~CanSettleSecurityLeg(s) /\ UNCHANGED <<ledgerVars, cashVars>>

\* settle under the caller's try/catch: a failed settlement leaves no trace
TrySettle(s) ==
    \/ Settle(s)
    \/ ~CanSettle(s) /\ UNCHANGED <<ledgerVars, cashVars>>
=============================================================================
