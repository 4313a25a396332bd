----------------------------- MODULE BondAuction -----------------------------
(***************************************************************************)
(* contracts/src/norges-bank/BondAuction.sol: the sealed-bid auctions of   *)
(* every ISIN.  The contract's auction id is keccak256(ISIN, index), so    *)
(* auctions[i][n] is the n-th auction of ISIN i and Len(auctions[i]) is    *)
(* isinToAuctionCount; an auction that does not exist has status NONE.     *)
(*                                                                         *)
(* A bid is stored encrypted, with the hash of its plaintext, which        *)
(* anybody may read and submit again.  Its submitter is stored too, but no *)
(* contract ever reads it, so a bid is modelled as its hash.  Bidders sign *)
(* their intents outside the contracts (EIP-712: bidder, auction id, hash, *)
(* nonce), any number of them and over any bid.  Signatures cannot be      *)
(* forged and hashes do not collide, so a signature that recovers to a     *)
(* bidder is of one of the intents it signs, Signed.  The argument t of an *)
(* operation is block.timestamp.                                           *)
(***************************************************************************)
EXTENDS Securities, Integers, Sequences, SequencesExt, FiniteSets

CONSTANTS
    Bidders,        \* accounts that sign bids
    Hashes,         \* hashes of the plaintexts of bids
    Nonces,         \* nonces bidders choose
    Signed,         \* the intents the bidders sign
    MaxAuctions,    \* bound on the auctions of one ISIN
    MaxBids         \* bound on the bids of one auction

\* An intent names its auction by ISIN and number, which its id is the hash of.
ASSUME SignedAssumption ==
    Signed \subseteq [isin : Isins, auction : Nat, bidder : Bidders, hash : Hashes, nonce : Nonces]

VARIABLE
    auctions        \* auctions[i]: the auctions of ISIN i, oldest first

AuctionTypes == {"RATE", "PRICE", "BUYBACK"}
Statuses     == {"BIDDING", "CLOSED", "FINALISED", "CANCELLED"}
Open         == {"BIDDING", "CLOSED"}    \* the statuses before FINALISED

Allocations == [bidder : Bidders, nonce : Nonces, units : Nat \ {0}, rate : Nat \ {0}]
Auctions    == [type : AuctionTypes, status : Statuses, offering : Nat \ {0}, end : Nat,
                bids : Seq(Hashes), allocations : Seq(Allocations)]

AuctionTypeOK == auctions \in [Isins -> Seq(Auctions)]

AuctionInit == auctions = [i \in Isins |-> <<>>]

Latest(i) == auctions[i][Len(auctions[i])]

\* The latest auction of i is neither finalised nor cancelled.
HasOpenAuction(i) == auctions[i] # <<>> /\ Latest(i).status \in Open

\* Write the latest auction of i.
UpdateLatest(i, a) == auctions' = [auctions EXCEPT ![i][Len(auctions[i])] = a]

-----------------------------------------------------------------------------
\* Mutant: later auctions may be of any type.
CreateAuctionOfAnyType(i, t, end, offering, type) ==
    /\ Len(auctions[i]) < MaxAuctions
    /\ end > t
    /\ offering # 0
    /\ IF auctions[i] = <<>> THEN type = "RATE" ELSE Latest(i).status \notin Open
    /\ auctions' = [auctions EXCEPT ![i] = Append(@,
          [type |-> type, status |-> "BIDDING", offering |-> offering, end |-> end,
           bids |-> <<>>, allocations |-> <<>>])]

\* createAuction: RATE first, afterwards PRICE or BUYBACK once the previous one is over
CreateAuction(i, t, end, offering, type) ==
    /\ Len(auctions[i]) < MaxAuctions
    /\ end > t
    /\ offering # 0
    /\ IF auctions[i] = <<>>
         THEN type = "RATE"
         ELSE Latest(i).status \notin Open /\ type \in {"PRICE", "BUYBACK"}
    /\ auctions' = [auctions EXCEPT ![i] = Append(@,
          [type |-> type, status |-> "BIDDING", offering |-> offering, end |-> end,
           bids |-> <<>>, allocations |-> <<>>])]

\* Mutant: only the clock closes the bidding.
SubmitBidAnyPhase(i, t, hash) ==
    /\ auctions[i] # <<>>
    /\ t <= Latest(i).end
    /\ Len(Latest(i).bids) < MaxBids
    /\ UpdateLatest(i, [Latest(i) EXCEPT !.bids = Append(@, hash)])

\* submitBid: open to anybody until the end of bidding
SubmitBid(i, t, hash) ==
    /\ auctions[i] # <<>>
    /\ Latest(i).status = "BIDDING"
    /\ t <= Latest(i).end
    /\ Len(Latest(i).bids) < MaxBids
    /\ UpdateLatest(i, [Latest(i) EXCEPT !.bids = Append(@, hash)])

\* closeAuction
CloseAuction(i, t) ==
    /\ auctions[i] # <<>>
    /\ Latest(i).status = "BIDDING"
    /\ t > Latest(i).end
    /\ UpdateLatest(i, [Latest(i) EXCEPT !.status = "CLOSED"])

\* cancelAuction
CancelAuction(i) ==
    /\ HasOpenAuction(i)
    /\ UpdateLatest(i, [Latest(i) EXCEPT !.status = "CANCELLED"])

\* The intent that the proof of allocation a is checked against: the hash is that of the
\* bid the proof names, bidder and nonce are the allocation's.
IntentOf(i, n, a, hash) ==
    [isin |-> i, auction |-> n, bidder |-> a.bidder, hash |-> hash, nonce |-> a.nonce]

\* Mutant: nonces are not marked as used.
BidIntentsReplayable(i, n, bids, alloc, indexes) ==
    /\ Len(indexes) = Len(alloc)
    /\ \A k \in 1 .. Len(alloc) :
          /\ indexes[k] \in 1 .. Len(bids)
          /\ IntentOf(i, n, alloc[k], bids[indexes[k]]) \in Signed

\* _verifyBidIntent over the whole list, for the n-th auction of i: every allocation
\* comes with the index of a bid and a signature of its own bidder over that bid, and
\* no signed nonce of a bidder is used twice in the auction.
BidIntentsVerified(i, n, bids, alloc, indexes) ==
    /\ Len(indexes) = Len(alloc)
    /\ \A k \in 1 .. Len(alloc) :
          /\ indexes[k] \in 1 .. Len(bids)
          /\ IntentOf(i, n, alloc[k], bids[indexes[k]]) \in Signed
    /\ \A k, m \in 1 .. Len(alloc) :
          k # m => <<alloc[k].bidder, alloc[k].nonce>> # <<alloc[m].bidder, alloc[m].nonce>>

TotalUnits(alloc) == FoldLeft(LAMBDA total, a : total + a.units, 0, alloc)

\* finaliseAuction: type is the auction type every allocation names, total the sum of units
FinaliseAuction(i, type, alloc, indexes, total) ==
    /\ auctions[i] # <<>>
    /\ Latest(i).status = "CLOSED"
    /\ alloc # <<>>
    /\ type = Latest(i).type
    /\ \A k \in 1 .. Len(alloc) : alloc[k].units # 0 /\ alloc[k].rate # 0
    /\ type # "BUYBACK" => \A k \in 1 .. Len(alloc) : alloc[k].rate = alloc[1].rate
    /\ BidIntentsVerified(i, Len(auctions[i]), Latest(i).bids, alloc, indexes)
    /\ total = TotalUnits(alloc)
    /\ total <= Latest(i).offering
    /\ UpdateLatest(i, [Latest(i) EXCEPT !.status = "FINALISED", !.allocations = alloc])
=============================================================================
