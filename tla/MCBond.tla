------------------------------- MODULE MCBond -------------------------------
(* Instances of the bond contracts for TLC.                                  *)
EXTENDS BondSafety, TLC

CONSTANTS i1, h1, h2, cbm, gov

MCAccounts == {h1, h2, cbm}
MCCash == {h1, h2, gov}

\* Every bidder signs every bid under every nonce.
MCSignedAll ==
    [isin : Isins, auction : 1 .. MaxAuctions, bidder : Bidders, hash : Hashes, nonce : Nonces]

\* h1 signs each of its bids once; h2 signs one bid under two nonces.
MCSignedSome ==
    LET Intent(n, bidder, hash, nonce) ==
            [isin |-> i1, auction |-> n, bidder |-> bidder, hash |-> hash, nonce |-> nonce]
    IN  {Intent(1, h1, 1, 1), Intent(1, h1, 2, 2), Intent(2, h1, 2, 1),
         Intent(1, h2, 1, 1), Intent(1, h2, 1, 2)}

MCInitialCash == [a \in MCCash |-> IF a = h1 THEN 2 ELSE 4]
=============================================================================
