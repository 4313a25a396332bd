----------------------------- MODULE ReadModel ------------------------------
(***************************************************************************)
(* What the API answers to a read (projection/compose-projection.ts over   *)
(* compose.ts and snapshots.ts): the projection checkpoint has reached a   *)
(* block, and w is the state of the contracts at that block, which is what *)
(* the projection then holds (ProjectionMatchesChain of Ingestion).        *)
(***************************************************************************)
EXTENDS BondMarket, Allocation

\* auctionStatus
StatusView == [BIDDING |-> "open", CLOSED |-> "closed",
               FINALISED |-> "finalised", CANCELLED |-> "cancelled"]

\* activeUnsealedBids: with the index the chain keeps them under; all of them or none
UnsealedBids(auction, sealing) ==
    FoldLeft(LAMBDA s, i : Append(s, UnsealBid(Isin, auction.bids[i], i, sealing)),
             <<>>, [i \in DOMAIN auction.bids |-> i])
Opens(auction, sealing) ==
    \A i \in DOMAIN auction.bids : UnsealBid(Isin, auction.bids[i], i, sealing) # Unreadable

\* allocationFromSnapshot: what was allocated, or what closing every bid would allocate
AllocationView(auction, sealing) ==
    IF auction.allocations # <<>>
      THEN [clearingRate |-> auction.allocations[1].rate, allocations |-> auction.allocations]
      ELSE IF auction.status = "CLOSED" /\ auction.size > 0 /\ auction.bids # <<>> /\ Opens(auction, sealing)
             THEN ComputeAllocation(UnsealedBids(auction, sealing), auction.type, auction.size)
             ELSE [clearingRate |-> 0, allocations |-> <<>>]

\* composeProjectedAuction: an open auction shows its bids sealed, except in test mode,
\* and so does any auction whose bids this process cannot open.
AuctionView(w, k, reveal, sealing) ==
    LET auction == w.auctions[k]
        sealed  == (auction.status = "BIDDING" /\ ~reveal) \/ ~Opens(auction, sealing)
    IN  [type |-> auction.type, status |-> StatusView[auction.status],
         end |-> auction.end, size |-> auction.size,
         sealed |-> sealed, bids |-> IF sealed THEN auction.bids ELSE UnsealedBids(auction, sealing),
         allocation |-> AllocationView(auction, sealing)]

\* composeAllAuctions
Auctions(w, reveal, sealing) == [k \in DOMAIN w.auctions |-> AuctionView(w, k, reveal, sealing)]

\* remainingCouponPeriods
RemainingPayments(w) == IF w.due > 0 /\ ~w.matured THEN 1 ELSE 0

\* bondStatus
BondStatus(w) ==
    CASE w.matured  -> "matured"
      [] InFlight(w) -> "auctioning"
      [] ~w.matured /\ ~InFlight(w) /\ w.issued /\ (Supply(w) > 0 \/ RemainingPayments(w) > 0)
                    -> "outstanding"
      [] OTHER      -> "staged"

\* composeProjectedBond: a coupon is payable by the time of the checkpoint, not of the clock.
BondView(w, sealing) ==
    [status |-> BondStatus(w), disabled |-> ~w.active, totalSupply |-> Supply(w),
     holders |-> [a \in {o \in Owners : w.units[o] > 0} |-> w.units[a]],
     payable |-> RemainingPayments(w) > 0 /\ w.time >= w.due,
     auctions |-> Auctions(w, FALSE, sealing)]

\* composeBond and composeAllBonds: nothing before the first bond event
Bonds(w, sealing) == IF w.created THEN {BondView(w, sealing)} ELSE {}

-----------------------------------------------------------------------------
(* Reads that go to the contracts and not to the projection                  *)

\* composeBidderDto for each bidder row
BiddersView(w, rows) == [a \in rows |-> w.cash[a]]

\* The status of the central bank and the allowlist with balances
CentralBankView(w) == [listed |-> w.listed, balances |-> w.cash]

\* listRegisteredContracts: the names that resolve
RegistryView(w) == [n \in {x \in Names : w.registry[x] # 0} |-> w.registry[n]]

\* resolveRosterTbds: the contracts found under the names of the roster
RosterTbds(w, roster) == {w.registry[bank.name] : bank \in roster} \ {0}

\* composeToken for each, with the reserve of the bank that owns it
BankingView(w, roster) ==
    [k \in RosterTbds(w, roster) |->
        [tbd |-> w.tbds[k], reserve |-> w.cash[w.tbds[k].bank], settles |-> w.tbds[k].bank \in w.listed]]

\* composeBankInfo: the operator can act as a bank when the roster holds its key.
ActAsAvailable(w, bank) == w.tbds[w.registry[bank.name]].bank = bank.key
=============================================================================
