--------------------------- MODULE PartitionLedger ---------------------------
(***************************************************************************)
(* What the bond ledger promises: per ISIN, how many units each account    *)
(* holds and how many exist.  Units of one ISIN never become units of      *)
(* another.  A partition is the keccak256 hash of its ISIN, so the model   *)
(* uses the ISIN itself as the partition identifier.                       *)
(*                                                                         *)
(* Erc1410 implements this specification; BondToken builds on it.          *)
(***************************************************************************)
EXTENDS Securities, Integers

CONSTANT
    Accounts    \* every account that may hold bond units

VARIABLES
    bal,        \* bal[i][a]: units of partition i held by account a
    supply      \* supply[i]: total supply of partition i

ledgerVars == <<bal, supply>>

LedgerTypeOK ==
    /\ bal \in [Isins -> [Accounts -> Nat]]
    /\ supply \in [Isins -> Nat]

LedgerInit ==
    /\ bal = [i \in Isins |-> [a \in Accounts |-> 0]]
    /\ supply = [i \in Isins |-> 0]

Mint(i, a, v) ==
    /\ v > 0
    /\ bal' = [bal EXCEPT ![i][a] = @ + v]
    /\ supply' = [supply EXCEPT ![i] = @ + v]

\* The two subtractions of a burn are checked arithmetic: neither may underflow.
Burn(i, a, v) ==
    /\ v > 0
    /\ v <= bal[i][a]
    /\ v <= supply[i]
    /\ bal' = [bal EXCEPT ![i][a] = @ - v]
    /\ supply' = [supply EXCEPT ![i] = @ - v]

\* Moving nothing, or moving units to their own holder, changes nothing.
Move(i, from, to, v) ==
    /\ v <= bal[i][from]
    /\ bal' = IF from = to THEN bal
                           ELSE [bal EXCEPT ![i][from] = @ - v, ![i][to] = @ + v]
    /\ UNCHANGED supply

-----------------------------------------------------------------------------
CONSTANT Amounts    \* the amounts an operation may name

LedgerNext ==
    \E i \in Isins, v \in Amounts :
        \/ \E a \in Accounts : Mint(i, a, v) \/ Burn(i, a, v)
        \/ \E from, to \in Accounts : Move(i, from, to, v)

LedgerSpec == LedgerInit /\ [][LedgerNext]_ledgerVars
=============================================================================
