---------------------------- MODULE PriceTimeBook ----------------------------
(***************************************************************************)
(* What an order book promises: per side a queue of orders, better prices  *)
(* first and older orders first among equals.  New orders take the place   *)
(* their price gives them, a trade takes from an order at the best price,  *)
(* and nothing else changes an order or its place.                         *)
(* OrderBook implements this specification with linked lists.              *)
(***************************************************************************)
EXTENDS Sequences, SequencesExt

CONSTANTS
    Sides,              \* {"buy", "sell"}
    AtLeast(_, _, _)    \* AtLeast(s, p, q): on side s, price p is as good as q

VARIABLE queue  \* queue[s]: the orders of side s, [id, price, amount], best first

Ids(q) == {q[k].id : k \in DOMAIN q}

\* New orders, all at one price, go behind every order as good as they are.
Rest(s, q, after) ==
    \E k \in 0 .. Len(q) :
        LET front == SubSeq(q, 1, k)
            new   == SubSeq(after, k + 1, k + Len(after) - Len(q))
            back  == SubSeq(q, k + 1, Len(q))
        IN  /\ Len(after) > Len(q) /\ after = front \o new \o back
            /\ Ids(new) \cap Ids(q) = {}
            /\ \A o \in Range(new) : o.price = new[1].price /\ o.amount > 0
            /\ \A o \in Range(front) : AtLeast(s, o.price, new[1].price)
            /\ \A o \in Range(back) : ~AtLeast(s, o.price, new[1].price)

Trade(q, after) ==
    \E k \in DOMAIN q :
        /\ q[k].price = q[1].price
        /\ \/ after = RemoveAt(q, k)
           \/ \E v \in 1 .. q[k].amount - 1 : after = [q EXCEPT ![k].amount = v]

Withdraw(q, after) == \E k \in DOMAIN q : after = RemoveAt(q, k)

Init == queue = [s \in Sides |-> <<>>]

Next ==
    LET before == queue
        after  == queue'
    IN  \E s \in Sides :
            /\ after[s] # before[s]
            /\ \A t \in Sides \ {s} : after[t] = before[t]
            /\ \/ Rest(s, before[s], after[s])
               \/ Trade(before[s], after[s])
               \/ Withdraw(before[s], after[s])

Spec == Init /\ [][Next]_queue
=============================================================================
