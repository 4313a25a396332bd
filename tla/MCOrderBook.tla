----------------------------- MODULE MCOrderBook -----------------------------
(* Two clients of one bank and one of another trade at two or three prices.  *)
EXTENDS OrderBookSafety

CONSTANTS ann, bea, cid, bankA, bankB, tbdA, tbdB

MCBankOf == (ann :> bankA) @@ (bea :> bankA) @@ (cid :> bankB)
MCTbdContract == (bankA :> tbdA) @@ (bankB :> tbdB)
MCUnits == (ann :> 2) @@ (bea :> 1) @@ (cid :> 1)
MCDeposits == (ann :> 1) @@ (bea :> 4) @@ (cid :> 6)
MCCash == (bankA :> 3) @@ (bankB :> 4) @@ (tbdA :> 0) @@ (tbdB :> 0)
Order(s, i, p, v) == [side |-> s, investor |-> i, price |-> p, amount |-> v]
MCRequests ==
    {Order("sell", ann, p, 1) : p \in 1 .. 3}
      \cup {Order("sell", cid, 2, 1), Order("buy", bea, 2, 2),
            Order("buy", cid, 3, 2)}
MCIssuances == {[investor |-> ann, price |-> 2, count |-> 2]}
MCDisturbed == {ann, cid, bankB, tbdA}
=============================================================================
