----------------------------- MODULE Projection -----------------------------
(***************************************************************************)
(* The projection nb-bond-api keeps in SQLite: what ingestion.ts           *)
(* (processBlockRange) and projection/bond-state.ts make of the logs of a  *)
(* window of blocks.  A column that is null in an empty row is 0 here.     *)
(*                                                                         *)
(* A window is applied in one SQLite transaction, source by source: every  *)
(* log of the manager, then of the auction contract, then the lifecycle    *)
(* logs of the token, then its transfers.  A history row is the block and  *)
(* the place of the log it was made from.                                  *)
(***************************************************************************)
EXTENDS BondChain

\* A row of bond_state
EmptyBondState ==
    [disabled |-> FALSE, offering |-> 0, supply |-> 0, maturityDuration |-> 0,
     maturityDate |-> 0, lastPayment |-> 0, count |-> 0, matured |-> FALSE, issued |-> FALSE]

\* A row of auctions, with its rows in auction_bids and auction_allocations
EmptyAuction == [status |-> "none", type |-> "none", bids |-> <<>>, allocations |-> <<>>]

\* listed and hidden: the row of partitions exists, and its disabled flag.
\* applied: the blocks whose transfers have rows in balance_events.
\* history: the rows of auction_events and bond_events.
\* failed: the SQLite transaction throws.
EmptyProjection ==
    [listed |-> FALSE, hidden |-> FALSE, bond |-> EmptyBondState,
     auction |-> [n \in 1 .. MaxAuctions |-> EmptyAuction], bal |-> [a \in Owners |-> 0],
     applied |-> {}, history |-> {}, failed |-> FALSE]

-----------------------------------------------------------------------------
\* Mutant: the enable timestamp overwrites the time of a coupon already projected.
ReduceEnabledAlways(b, t) ==
    [b EXCEPT !.lastPayment = t, !.maturityDate = t + b.maturityDuration]

\* reduceBondState, one operator per event it distinguishes
ReduceCreated == [EmptyBondState EXCEPT !.maturityDuration = Periods]

ReduceEnabled(b, t) ==
    [b EXCEPT !.lastPayment = IF b.count = 0 THEN t ELSE @,
              !.maturityDate = t + b.maturityDuration]

ReduceCouponPaid(b, number, t) ==
    IF number > b.count THEN [b EXCEPT !.count = number, !.lastPayment = t] ELSE b

\* applyBondStateEvent saves the state an event makes of the one it loads
ApplyBondStateEvent(p, state) == [p EXCEPT !.bond = state]

\* insertBondEvent, and the rows of auction_events: a log is recorded once.
HistoryRow(e) == [block |-> e.block, logIndex |-> e.logIndex]
Recorded(p, e) == [p EXCEPT !.history = @ \cup {HistoryRow(e)}]

\* upsertAuctionEvent: a new auction has the type the event names.
UpsertAuctionEvent(p, n, type) == [p EXCEPT !.auction[n].type = IF @ = "none" THEN type ELSE @]

SetAuctionStatus(p, n, status) == [p EXCEPT !.auction[n].status = status]

UpsertPartition(p) == [p EXCEPT !.listed = TRUE]

\* setPartitionDisabled updates the row, if there is one.
SetPartitionDisabled(p, disabled) == [p EXCEPT !.hidden = disabled /\ p.listed]

\* The manager's logs about an auction
Opened(p, n, type) ==
    SetAuctionStatus(UpsertAuctionEvent(SetPartitionDisabled(UpsertPartition(p), FALSE), n, type), n, "open")
ApplyAuctionStatus(p, e) ==
    CASE e.event = "BondAuctionInitialised"          -> Opened(p, e.v, "RATE")
      [] e.event = "BondExtensionAuctionInitialised" -> Opened(p, e.v, "PRICE")
      [] e.event = "BondBuybackAuctionInitialised"   -> Opened(p, e.v, "BUYBACK")
      [] e.event = "BondAuctionClosed"    -> SetAuctionStatus(p, e.v, "closed")
      [] e.event = "BondAuctionFinalised" -> SetAuctionStatus(p, e.v, "finalised")
      [] e.event = "BondAuctionCancelled" -> SetAuctionStatus(p, e.v, "cancelled")
      [] OTHER -> p

\* and about coupons
ApplyCoupon(p, e) ==
    CASE e.event \in {"CouponPaid", "CouponPeriodPaid"} ->
           ApplyBondStateEvent(p, ReduceCouponPaid(p.bond, e.v, e.block))
      [] e.event = "BondMatured" -> ApplyBondStateEvent(p, [p.bond EXCEPT !.matured = TRUE])
      [] OTHER -> p

\* and about the life of the bond
ApplyBondLife(p, e) ==
    CASE e.event = "BondIssuanceComplete" -> ApplyBondStateEvent(p, [p.bond EXCEPT !.issued = TRUE])
      [] e.event = "BondCreated" ->
           ApplyBondStateEvent(SetPartitionDisabled(UpsertPartition(p), FALSE), ReduceCreated)
      [] e.event = "BondDisabled" ->
           ApplyBondStateEvent(SetPartitionDisabled(p, TRUE), [p.bond EXCEPT !.disabled = TRUE])
      [] OTHER -> p

\* Logs of the manager that ingestion has no branch for.  BondRedeemed has one that
\* records it and changes nothing else.
Unprojected == {"BondBuybackComplete", "BondAllocationFailed"}

ApplyManager(p, e) ==
    IF e.event \in Unprojected
      THEN p
      ELSE Recorded(ApplyBondLife(ApplyCoupon(ApplyAuctionStatus(p, e), e), e), e)

\* upsertAuctionMetadata: the status of a known auction stays.
UpsertAuction(row, type) == [row EXCEPT !.type = type, !.status = IF @ = "none" THEN "open" ELSE @]

\* upsertAuctionBid: a bid is kept under its index.
UpsertBid(row, k, bidder) ==
    [row EXCEPT !.bids = IF k > Len(@) THEN Append(@, bidder) ELSE [@ EXCEPT ![k] = bidder]]

\* getAllocations as of the block of the log
AllocationsAt(block, n) == chain[block].state.auctions[n].allocations
ReplaceAuctionAllocations(p, n, rows) == [p EXCEPT !.auction[n].allocations = rows]

\* The logs of the auction contract
ApplyAuction(p, e) ==
    CASE e.event = "AuctionCreated"   -> [p EXCEPT !.auction[e.v] = UpsertAuction(@, e.type)]
      [] e.event = "BidSubmitted"     -> [p EXCEPT !.auction[e.v] = UpsertBid(@, e.bid, e.from)]
      [] e.event = "AuctionFinalized" -> ReplaceAuctionAllocations(p, e.v, AllocationsAt(e.block, e.v))

\* The lifecycle logs of the token
ApplyLifecycle(p, e) ==
    CASE e.event \in {"IsinIssued", "IsinExtended", "IsinReduced"} ->
           ApplyBondStateEvent(p, [p.bond EXCEPT !.offering = e.v])
      [] e.event = "IsinEnabled"  -> ApplyBondStateEvent(p, ReduceEnabled(p.bond, e.block))
      [] e.event = "IsinDisabled" -> ApplyBondStateEvent(p, [p.bond EXCEPT !.disabled = TRUE])
      [] OTHER -> p

\* Mutant: a replayed transfer is applied again.
IsNewAlways(p, e) == p.listed

\* applyBalanceDelta: a transfer counts once, and only for a known partition.
IsNew(p, e) == p.listed /\ e.block \notin p.applied

\* reducePartitionTransfer: what a holder gains; a mint has no sender, a burn no receiver.
ReducePartitionTransfer(e, holder) ==
    (IF holder = e.to THEN e.v ELSE 0) - (IF holder = e.from THEN e.v ELSE 0)

\* Each holder's delta, and the supply delta of a mint or a burn
ApplyTransfer(p, e) ==
    LET supply == p.bond.supply - ReducePartitionTransfer(e, NoOne)
        bal    == [a \in Owners |-> p.bal[a] + ReducePartitionTransfer(e, a)]
    IN  IF e.event = "TransferByPartition" /\ IsNew(p, e)
          THEN [p EXCEPT !.bal = bal, !.bond.supply = supply, !.failed = @ \/ supply < 0]
          ELSE p

-----------------------------------------------------------------------------
\* What is applied, in this order, and the contract whose logs it is made of
Source == [manager |-> "manager", auction |-> "auction", lifecycle |-> "token", transfers |-> "token"]
ApplyLog(what, p, e) ==
    CASE what = "manager"   -> ApplyManager(p, e)
      [] what = "auction"   -> ApplyAuction(p, e)
      [] what = "lifecycle" -> ApplyLifecycle(p, e)
      [] what = "transfers" -> ApplyTransfer(p, e)

\* A block's logs of one contract, from the first to the last
ApplyLogs(what, p, logs) ==
    LET upTo[k \in 0 .. Len(logs)] == IF k = 0 THEN p ELSE ApplyLog(what, upTo[k - 1], logs[k])
    IN  upTo[Len(logs)]

\* What provider.getLogs returns of one contract in blocks from .. to
ApplyBlocks(what, p, from, to) ==
    LET upTo[b \in from - 1 .. to] ==
            IF b = from - 1 THEN p ELSE ApplyLogs(what, upTo[b - 1], chain[b][Source[what]])
    IN  upTo[to]

\* Every log but a plain transfer names its ISIN: a mint or burn by IsinMinted or
\* IsinRedeemed, a coupon by a hash that is looked up on the chain.
NamesIsin(e) == e.event # "TransferByPartition" \/ NoOne \in {e.from, e.to}

\* processBlockRange: the projection after a window
ApplyWindow(p, from, to) ==
    LET named     == \E b \in from .. to :
                        \/ chain[b].manager # <<>>
                        \/ \E k \in DOMAIN chain[b].token : NamesIsin(chain[b].token[k])
        mapped    == [p EXCEPT !.listed = @ \/ named]
        managed   == ApplyBlocks("manager", mapped, from, to)
        auctioned == ApplyBlocks("auction", managed, from, to)
        enabled   == ApplyBlocks("lifecycle", auctioned, from, to)
        moved     == ApplyBlocks("transfers", enabled, from, to)
    IN  [moved EXCEPT !.applied = IF moved.listed THEN @ \cup from .. to ELSE @]
=============================================================================
