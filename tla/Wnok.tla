-------------------------------- MODULE Wnok --------------------------------
(***************************************************************************)
(* contracts/src/norges-bank/Wnok.sol and common/Allowlist.sol: wholesale  *)
(* central-bank money.  Both ends of every movement must be on the         *)
(* allowlist.  Holders have given the settlement contract a standing       *)
(* allowance, so allowances are not modelled.                              *)
(***************************************************************************)
EXTENDS Integers, Functions

CONSTANTS
    CashAccounts,   \* accounts that may hold WNOK
    MaxCash         \* bound on the WNOK in existence

VARIABLES
    cash,           \* cash[a]: WNOK balance of account a
    allowed         \* the allowlist

cashVars == <<cash, allowed>>

CashTypeOK ==
    /\ cash \in [CashAccounts -> Nat]
    /\ allowed \subseteq CashAccounts

\* mint, by the central bank
MintCash(a, v) ==
    /\ a \in allowed
    /\ SumFunction(cash) + v <= MaxCash
    /\ cash' = [cash EXCEPT ![a] = @ + v]
    /\ UNCHANGED allowed

\* burn, by the central bank
BurnCash(a, v) ==
    /\ a \in allowed
    /\ cash[a] >= v
    /\ cash' = [cash EXCEPT ![a] = @ - v]
    /\ UNCHANGED allowed

\* Mutant: the allowlist is checked, the balance is not.
CanOverdraw(from, to, v) == from \in allowed /\ to \in allowed

\* What transfer and transferFrom require
CanTransferCash(from, to, v) ==
    /\ from \in allowed
    /\ to \in allowed
    /\ cash[from] >= v

MovedCash(from, to, v) ==
    IF from = to THEN cash ELSE [cash EXCEPT ![from] = @ - v, ![to] = @ + v]

\* transfer and transferFrom
TransferCash(from, to, v) ==
    /\ CanTransferCash(from, to, v)
    /\ cash' = MovedCash(from, to, v)
    /\ UNCHANGED allowed

\* Allowlist.add
Allow(a) ==
    /\ allowed' = allowed \cup {a}
    /\ UNCHANGED cash

\* Allowlist.remove: balances stay where they are
Disallow(a) ==
    /\ allowed' = allowed \ {a}
    /\ UNCHANGED cash
=============================================================================
