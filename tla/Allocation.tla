----------------------------- MODULE Allocation -----------------------------
(***************************************************************************)
(* How bids are ranked and filled, twice: allocation.ts, which the server  *)
(* submits, and domain/auctionAllocation.js, by which the operator's       *)
(* browser previews the clearing rate the server is then asked to confirm. *)
(* A bid is [bidder, rate, units, index].                                  *)
(***************************************************************************)
EXTENDS Integers, SequencesExt

\* compareBidPlaintextByAuctionType: PRICE prefers the higher rate, RATE and BUYBACK
\* the lower; equal rates prefer more units, then the order given (sort is stable).
Precedes(bids, type, i, j) ==
    \/ IF type = "PRICE" THEN bids[i].rate > bids[j].rate ELSE bids[i].rate < bids[j].rate
    \/ bids[i].rate = bids[j].rate /\ bids[i].units > bids[j].units
    \/ bids[i].rate = bids[j].rate /\ bids[i].units = bids[j].units /\ i < j

\* sortBidsByAuctionType
Ranked(bids, type) ==
    FoldLeft(LAMBDA s, i : Append(s, bids[i]), <<>>,
             SetToSortSeq(DOMAIN bids, LAMBDA i, j : Precedes(bids, type, i, j)))

\* The loop over the ranked bids: each takes what it asks for, as far as size lasts.
Filled(bids, type, size) ==
    FoldLeft(LAMBDA f, b :
                LET units == IF b.units > f.left THEN f.left ELSE b.units IN
                IF f.left = 0 THEN f
                ELSE [left |-> f.left - units,
                      fills |-> Append(f.fills, [bidder |-> b.bidder, units |-> units, rate |-> b.rate,
                                                 index |-> b.index, type |-> type])],
             [left |-> size, fills |-> <<>>], Ranked(bids, type)).fills

\* computeUniformAllocation: everybody at the rate of the last bid filled
UniformAllocation(bids, type, size) ==
    LET fills == Filled(bids, type, size)
        rate  == Last(fills).rate
    IN  [clearingRate |-> rate,
         allocations |-> FoldLeft(LAMBDA s, a : Append(s, [a EXCEPT !.rate = rate]), <<>>, fills)]

\* computeBuybackAllocation: everybody at the price it bid; the lowest is reported
BuybackAllocation(bids, size) ==
    LET fills == Filled(bids, "BUYBACK", size)
    IN  [clearingRate |-> fills[1].rate, allocations |-> fills]

ComputeAllocation(bids, type, size) ==
    IF type = "BUYBACK" THEN BuybackAllocation(bids, size)
                        ELSE UniformAllocation(bids, type, size)

-----------------------------------------------------------------------------
(* The browser's                                                            *)

\* compareAuctionBids
ComesFirst(bids, type, i, j) ==
    LET left  == bids[i]
        right == bids[j]
        order == IF type = "PRICE" THEN right.rate - left.rate ELSE left.rate - right.rate
    IN  order < 0 \/ (order = 0 /\ (left.units > right.units \/ (left.units = right.units /\ i < j)))

\* sortAuctionBids
SortAuctionBids(bids, type) ==
    FoldLeft(LAMBDA s, i : Append(s, bids[i]), <<>>,
             SetToSortSeq(DOMAIN bids, LAMBDA i, j : ComesFirst(bids, type, i, j)))

\* marginalClearingRate: the rate of the last bid that gets a unit, whatever the type
MarginalClearingRate(picked, type, size) ==
    FoldLeft(LAMBDA f, b :
                IF f.remaining = 0 \/ b.units = 0 THEN f
                ELSE [remaining |-> f.remaining - (IF b.units > f.remaining THEN f.remaining ELSE b.units),
                      rate |-> b.rate],
             [remaining |-> size, rate |-> 0], SortAuctionBids(picked, type)).rate
=============================================================================
