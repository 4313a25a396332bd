-------------------------------- MODULE Tbd --------------------------------
(***************************************************************************)
(* contracts/src/private-bank/Tbd.sol: deposits, one contract per bank.    *)
(* A payment between two banks burns at the payer's, moves WNOK from bank  *)
(* to bank and mints at the payee's in the callback of that movement: the  *)
(* three happen in one transaction or not at all.  Whom to credit is noted *)
(* with the payee's contract in the same call, so the note is not state    *)
(* here.  Banks have given their contract a standing WNOK allowance.       *)
(***************************************************************************)
EXTENDS Wnok

CONSTANTS
    Investors,
    Banks,
    BankOf,         \* BankOf[i]: the bank whose contract holds the deposit of i
    TbdContract     \* TbdContract[b]: the WNOK account of bank b's contract

ASSUME TbdAssumption ==
    /\ BankOf \in [Investors -> Banks]
    /\ TbdContract \in [Banks -> CashAccounts \ Banks]
    /\ Banks \subseteq CashAccounts

VARIABLES
    deposit,    \* deposit[i]: balance of investor i at its bank
    tbdListed   \* investors on the allowlist of their bank's contract

tbdVars == <<deposit, tbdListed>>

TbdTypeOK ==
    /\ deposit \in [Investors -> Nat]
    /\ tbdListed \subseteq Investors

\* mint and burn, by the bank
MintDeposit(i, v) ==
    /\ i \in tbdListed
    /\ deposit' = [deposit EXCEPT ![i] = @ + v]
    /\ UNCHANGED tbdListed

BurnDeposit(i, v) ==
    /\ i \in tbdListed
    /\ deposit[i] >= v
    /\ deposit' = [deposit EXCEPT ![i] = @ - v]
    /\ UNCHANGED tbdListed

ListDepositor(i) ==
    /\ tbdListed' = (IF i \in tbdListed THEN tbdListed \ {i} ELSE tbdListed \cup {i})
    /\ UNCHANGED deposit

\* The error cctFrom reverts with, or "none".  What is checked first counts, since
\* the caller tells who is at fault from the error.
CctError(from, to, v) ==
    LET payer == BankOf[from]  payee == BankOf[to] IN
    IF from \notin tbdListed THEN "payerNotListed"
    ELSE IF payer = payee
         THEN IF to \notin tbdListed THEN "payeeNotListed"
              ELSE IF deposit[from] < v THEN "balance" ELSE "none"
    ELSE IF deposit[from] < v THEN "balance"
    ELSE IF ~({payer, TbdContract[payee]} \subseteq allowed) THEN "bankNotListed"
    ELSE IF cash[payer] < v THEN "balance"
    ELSE IF to \notin tbdListed THEN "payeeNotListed"
    ELSE IF payee \notin allowed THEN "bankNotListed"
    ELSE "none"

\* Mutant: between two banks the payee is credited and no reserves move.
CctWithoutReserves(from, to, v) ==
    /\ deposit' = (IF from = to THEN deposit
                                ELSE [deposit EXCEPT ![from] = @ - v, ![to] = @ + v])
    /\ cash' = cash
    /\ UNCHANGED <<tbdListed, allowed>>

\* cctFrom, once nothing reverts
Cct(from, to, v) ==
    /\ deposit' = (IF from = to THEN deposit
                                ELSE [deposit EXCEPT ![from] = @ - v, ![to] = @ + v])
    /\ cash' = MovedCash(BankOf[from], BankOf[to], v)
    /\ UNCHANGED <<tbdListed, allowed>>

\* The deposits a bank owes beyond the reserves it has
Unbacked(b) ==
    SumFunction([i \in {j \in Investors : BankOf[j] = b} |-> deposit[i]]) - cash[b]
=============================================================================
