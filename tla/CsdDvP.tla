------------------------------- MODULE CsdDvP -------------------------------
(***************************************************************************)
(* contracts/src/csd/DvP.sol over BaseSecurityToken.sol and Tbd: one trade *)
(* moves units of the security one way and deposits the other.  A revert   *)
(* undoes both legs, and its error is turned into the side that is to      *)
(* blame, which decides what the order book does with the two orders.      *)
(***************************************************************************)
EXTENDS Tbd

VARIABLES
    units,      \* units[i]: units of the security held by i
    secListed   \* investors on the allowlist of the security

csdVars == <<units, secListed>>

CsdTypeOK ==
    /\ units \in [Investors -> Nat]
    /\ secListed \subseteq Investors

\* transfer of the security token, by its holder
MoveUnits(from, to, v) ==
    /\ {from, to} \subseteq secListed
    /\ units[from] >= v
    /\ units' = [units EXCEPT ![from] = @ - v, ![to] = @ + v]
    /\ UNCHANGED secListed

ListHolder(i) ==
    /\ secListed' = (IF i \in secListed THEN secListed \ {i} ELSE secListed \cup {i})
    /\ UNCHANGED units

\* The error custodialTransfer reverts with, or "none"
CustodialError(seller, buyer, v) ==
    IF seller \notin secListed THEN "sellerNotListed"
    ELSE IF buyer \notin secListed THEN "buyerNotListed"
    ELSE IF units[seller] < v THEN "balance" ELSE "none"

\* Mutant: a balance that is too small is always the seller's.
FailureBlamesSeller(seller, buyer, amount, value) ==
    LET sec == CustodialError(seller, buyer, amount)
        cct == CctError(buyer, seller, value)
    IN  CASE sec = "none" /\ cct = "none"                             -> "none"
          [] sec = "buyerNotListed"                                   -> "buyer"
          [] sec \in {"sellerNotListed", "balance"}                   -> "seller"
          [] sec = "none" /\ cct \in {"balance", "payeeNotListed"}    -> "seller"
          [] OTHER                                                    -> "unknown"

\* The FailureReason settle reverts with, or "none" when it settles.  An error that
\* names an account is compared with the buyer's first in the security leg; in the
\* cash leg only the seller's is looked for.
Failure(seller, buyer, amount, value) ==
    LET sec == CustodialError(seller, buyer, amount)
        cct == CctError(buyer, seller, value)
        Same == seller = buyer
    IN  CASE sec = "buyerNotListed"                               -> "buyer"
          [] sec = "sellerNotListed"                              -> IF Same THEN "buyer" ELSE "seller"
          [] sec = "balance"                                      -> "seller"
          [] sec = "none" /\ cct = "none"                         -> "none"
          [] sec = "none" /\ cct = "balance"                      -> "buyer"
          [] sec = "none" /\ cct = "payeeNotListed"               -> "seller"
          [] sec = "none" /\ cct = "payerNotListed"               -> IF Same THEN "seller" ELSE "unknown"
          [] sec = "none" /\ cct = "bankNotListed"                -> "unknown"

\* settle, when nothing fails
Settle(seller, buyer, amount, value) ==
    /\ units' = (IF seller = buyer THEN units
                 ELSE [units EXCEPT ![seller] = @ - amount, ![buyer] = @ + amount])
    /\ UNCHANGED secListed
    /\ Cct(buyer, seller, value)
=============================================================================
