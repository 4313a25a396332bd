------------------------------- MODULE Erc1410 -------------------------------
(***************************************************************************)
(* contracts/src/norges-bank/ERC1410/ERC1410.sol, the partitioned token    *)
(* BondToken inherits from, with the two ways BondToken touches its        *)
(* bookkeeping outside a mint or a burn: createPartition tracks a          *)
(* partition that has no supply yet, disablePartition untracks one.        *)
(*                                                                         *)
(* The contract keeps every fact several times: a balance per holder and   *)
(* partition, a balance per holder, a supply per partition, a supply, and  *)
(* two enumerations (the partitions of a holder, the partitions of the     *)
(* token), each an array plus a 1-based position map kept in step by       *)
(* push and swap-and-pop.  Nothing on chain ever recomputes one from the   *)
(* other.                                                                  *)
(***************************************************************************)
EXTENDS Integers, Sequences, FiniteSets, Functions

CONSTANTS
    Isins,      \* partitions
    Accounts,   \* holders
    Amounts,    \* amounts a call may name
    MaxSupply   \* bound on the units of one partition, for model checking

ASSUME Erc1410Assumption == Amounts \subseteq Nat /\ MaxSupply \in Nat

\* A partition is a bytes32 and a holder an address: there are finitely many of each.
ASSUME FiniteAssumption == IsFiniteSet(Isins) /\ IsFiniteSet(Accounts)

VARIABLES
    balances,                \* balances[a]: units of a over all partitions
    totalSupply,             \* units over all partitions and holders
    balanceOfByPartition,    \* balanceOfByPartition[a][i]
    totalSupplyByPartition,  \* totalSupplyByPartition[i]
    partitionsOf,            \* partitionsOf[a]: enumeration of a's partitions
    totalPartitions          \* enumeration of the token's partitions

vars == <<balances, totalSupply, balanceOfByPartition,
          totalSupplyByPartition, partitionsOf, totalPartitions>>

-----------------------------------------------------------------------------
(* An enumeration: the array and the 1-based position of each member (0 for *)
(* a value that is not in the array).                                       *)

Enumerations == [list : Seq(Isins), index : [Isins -> Nat]]

Empty == [list |-> <<>>, index |-> [i \in Isins |-> 0]]

\* push, unless the position map says the value is there already
Track(e, i) ==
    IF e.index[i] # 0 THEN e
    ELSE [list  |-> Append(e.list, i),
          index |-> [e.index EXCEPT ![i] = Len(e.list) + 1]]

\* Mutant: the element swapped into the hole keeps its old position.
UntrackStalePosition(e, i) ==
    LET k == e.index[i]
        n == Len(e.list)
    IN  IF k = 0 THEN e
        ELSE [list  |-> [j \in 1 .. n - 1 |-> IF j = k THEN e.list[n] ELSE e.list[j]],
              index |-> [e.index EXCEPT ![i] = 0]]

\* swap the last element into the hole, pop, forget the position
Untrack(e, i) ==
    LET k == e.index[i]
        n == Len(e.list)
        last == e.list[n]
    IN  IF k = 0 THEN e
        ELSE [list  |-> [j \in 1 .. n - 1 |-> IF j = k THEN last ELSE e.list[j]],
              index |-> [e.index EXCEPT ![last] = k, ![i] = 0]]

-----------------------------------------------------------------------------
Init ==
    /\ balances = [a \in Accounts |-> 0]
    /\ totalSupply = 0
    /\ balanceOfByPartition = [a \in Accounts |-> [i \in Isins |-> 0]]
    /\ totalSupplyByPartition = [i \in Isins |-> 0]
    /\ partitionsOf = [a \in Accounts |-> Empty]
    /\ totalPartitions = Empty

\* _addPartition of an account whose new balance is positive, and of one whose is not
AddPartition(e, i, balance) == IF balance = 0 THEN e ELSE Track(e, i)

\* _removePartition, called when the balance has become zero
RemovePartition(e, i, balance) == IF balance = 0 THEN Untrack(e, i) ELSE e

\* Mutant: any amount may be burned.
CanRedeemAny(i, from, v) == v # 0

\* What _burn requires: every subtraction is checked arithmetic.
CanRedeem(i, from, v) ==
    /\ v # 0
    /\ balanceOfByPartition[from][i] >= v
    /\ totalSupply >= v
    /\ balances[from] >= v
    /\ totalSupplyByPartition[i] >= v

\* Mutant: a move looks only at the holder's balance over all partitions.
CanMoveTotal(i, from, v) == balances[from] >= v

\* What _move requires
CanMove(i, from, v) ==
    /\ balances[from] >= v
    /\ balanceOfByPartition[from][i] >= v

\* BondToken.mintByIsin -> _issueByPartition -> _mint
IssueByPartition(i, to, v) ==
    /\ v # 0
    /\ totalSupply' = totalSupply + v
    /\ balances' = [balances EXCEPT ![to] = @ + v]
    /\ balanceOfByPartition' = [balanceOfByPartition EXCEPT ![to][i] = @ + v]
    /\ totalSupplyByPartition' = [totalSupplyByPartition EXCEPT ![i] = @ + v]
    /\ partitionsOf' = [partitionsOf EXCEPT
                          ![to] = AddPartition(@, i, balanceOfByPartition[to][i] + v)]
    /\ totalPartitions' = Track(totalPartitions, i)

\* Mutant: the burn forgets the supply over all partitions.
RedeemForgetsTotal(i, from, v) ==
    /\ CanRedeem(i, from, v)
    /\ balances' = [balances EXCEPT ![from] = @ - v]
    /\ balanceOfByPartition' = [balanceOfByPartition EXCEPT ![from][i] = @ - v]
    /\ totalSupplyByPartition' = [totalSupplyByPartition EXCEPT ![i] = @ - v]
    /\ partitionsOf' = [partitionsOf EXCEPT
                          ![from] = RemovePartition(@, i, balanceOfByPartition[from][i] - v)]
    /\ totalPartitions' = RemovePartition(totalPartitions, i, totalSupplyByPartition[i] - v)
    /\ UNCHANGED totalSupply

\* BondToken.redeemFor and buybackRedeemFor -> _redeemByPartition -> _burn
RedeemByPartition(i, from, v) ==
    /\ CanRedeem(i, from, v)
    /\ totalSupply' = totalSupply - v
    /\ balances' = [balances EXCEPT ![from] = @ - v]
    /\ balanceOfByPartition' = [balanceOfByPartition EXCEPT ![from][i] = @ - v]
    /\ totalSupplyByPartition' = [totalSupplyByPartition EXCEPT ![i] = @ - v]
    /\ partitionsOf' = [partitionsOf EXCEPT
                          ![from] = RemovePartition(@, i, balanceOfByPartition[from][i] - v)]
    /\ totalPartitions' = RemovePartition(totalPartitions, i, totalSupplyByPartition[i] - v)

\* transferByPartition and operatorTransferByPartition -> _transferByPartition -> _move
TransferByPartition(i, from, to, v) ==
    /\ CanMove(i, from, v)
    /\ IF from = to
         THEN UNCHANGED <<balances, balanceOfByPartition, partitionsOf>>
         ELSE /\ balances' = [balances EXCEPT ![from] = @ - v, ![to] = @ + v]
              /\ balanceOfByPartition' =
                   [balanceOfByPartition EXCEPT ![from][i] = @ - v, ![to][i] = @ + v]
              /\ partitionsOf' = [partitionsOf EXCEPT
                   ![from] = RemovePartition(@, i, balanceOfByPartition[from][i] - v),
                   ![to]   = AddPartition(@, i, balanceOfByPartition[to][i] + v)]
    /\ UNCHANGED <<totalSupply, totalSupplyByPartition, totalPartitions>>

\* BondToken.createPartition -> _initializePartition
InitializePartition(i) ==
    /\ totalPartitions' = Track(totalPartitions, i)
    /\ UNCHANGED <<balances, totalSupply, balanceOfByPartition,
                   totalSupplyByPartition, partitionsOf>>

\* BondToken.disablePartition -> _untrackPartition, after its own check of the supply
UntrackPartition(i) ==
    /\ totalSupplyByPartition[i] = 0
    /\ totalPartitions' = Untrack(totalPartitions, i)
    /\ UNCHANGED <<balances, totalSupply, balanceOfByPartition,
                   totalSupplyByPartition, partitionsOf>>

Next ==
    \E i \in Isins :
        \/ InitializePartition(i)
        \/ UntrackPartition(i)
        \/ \E v \in Amounts, a \in Accounts :
              \/ /\ totalSupplyByPartition[i] + v <= MaxSupply
                 /\ IssueByPartition(i, a, v)
              \/ RedeemByPartition(i, a, v)
              \/ \E to \in Accounts : TransferByPartition(i, a, to, v)

Spec == Init /\ [][Next]_vars

-----------------------------------------------------------------------------
TypeOK ==
    /\ balances \in [Accounts -> Nat]
    /\ totalSupply \in Nat
    /\ balanceOfByPartition \in [Accounts -> [Isins -> Nat]]
    /\ totalSupplyByPartition \in [Isins -> Nat]
    /\ partitionsOf \in [Accounts -> Enumerations]
    /\ totalPartitions \in Enumerations

\* The array and the position map of an enumeration describe the same set, each member once.
Consistent(e) ==
    /\ \A k \in 1 .. Len(e.list) : e.index[e.list[k]] = k
    /\ \A i \in Isins : e.index[i] # 0 =>
          /\ e.index[i] \in 1 .. Len(e.list)
          /\ e.list[e.index[i]] = i

\* Both enumerations stay consistent through every push and swap-and-pop, in any order:
\* partitionsOf lists exactly the partitions a holder has units of, and no partition with
\* supply is missing from totalPartitions (ERC1410.sol:264, 418).
EnumerationsExact ==
    /\ \A a \in Accounts : Consistent(partitionsOf[a])
    /\ Consistent(totalPartitions)
    /\ \A a \in Accounts, i \in Isins :
          partitionsOf[a].index[i] # 0 <=> balanceOfByPartition[a][i] > 0
    /\ \A i \in Isins : totalSupplyByPartition[i] > 0 => totalPartitions.index[i] # 0

\* The four ways the contract counts units agree.
TotalsAgree ==
    /\ \A a \in Accounts : balances[a] = SumFunction(balanceOfByPartition[a])
    /\ \A i \in Isins :
          totalSupplyByPartition[i] = SumFunction([a \in Accounts |-> balanceOfByPartition[a][i]])
    /\ totalSupply = SumFunction(totalSupplyByPartition)

\* The whole of it implements the plain ledger.
Ledger == INSTANCE PartitionLedger WITH
    bal    <- [i \in Isins |-> [a \in Accounts |-> balanceOfByPartition[a][i]]],
    supply <- totalSupplyByPartition

ImplementsLedger == Ledger!LedgerSpec
=============================================================================
