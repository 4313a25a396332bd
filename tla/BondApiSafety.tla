--------------------------- MODULE BondApiSafety ----------------------------
(* What the handlers of BondApi promise to whoever called them.             *)
EXTENDS BondApi

Steps == {"arrived", "planned", "simulated", "queued", "prepared", "sent", "mined", "composing",
          "checked", "answered", "lost"}
Answers == {200, 201, 202, 204, 400, 404, 409, 500}

\* The type invariant: the lock holds each waiting request once, the projection is a
\* block of the chain, and a request has an answer when it is answered and only then.
TypeOK ==
    /\ projected \in 1 .. Len(blocks)
    /\ IsInjective(lock) /\ Range(lock) \subseteq Requests
    /\ \A r \in Requests :
         /\ requests[r].step \in Steps
         /\ requests[r].answer \in IF requests[r].step = "answered" THEN Answers ELSE {0}
         /\ r \in Range(lock) <=> requests[r].op.kind \in Managed
                                  /\ requests[r].step \in {"queued", "prepared", "sent"}
         /\ Range(trail[r]) \subseteq {"SUCCEEDED", "REVERTED", "FAILED"}
    /\ bidderRows \subseteq Wallets
    /\ cachedNonce \in Nat \cup {NoNonce}

\* The nonce the operator's wallet is about to use is the one the node expects next,
\* after a broken connection and after a restart too, when transactions nobody waits for
\* may still be in the pool (chain.ts:69-93, "reload from chain on next send to avoid
\* gaps after failures"); and only the head of the lock sends.
ManagedNonces ==
    \A r \in Requests :
        requests[r].op.kind \in Managed /\ requests[r].step \in {"prepared", "sent"} =>
            /\ lock[1] = r
            /\ requests[r].step = "prepared" => requests[r].nonce = PendingCount(Admin)

-----------------------------------------------------------------------------
\* The blocks in which transactions of r took effect
Effects(r) == {b \in DOMAIN blocks : /\ blocks[b].tx # NoTx /\ blocks[b].tx.req = r
                                     /\ blocks[b].error = "none"}
Unrecorded == {"BIDDER_CREATE", "BIDDER_DELETE"}

\* What r set out to do is done; of a bank creation that is the row of its contract,
\* written last.
BankRow(r) == [name |-> requests[r].op.name, key |-> requests[r].op.key, tbd |-> requests[r].tbd]
Done(r) ==
    IF requests[r].op.kind = "BANK_CREATE" THEN BankRow(r) \in bankRows ELSE Effects(r) # {}

\* The operation trail and the answer tell what happened on the chain.  SUCCEEDED: it was
\* done, REVERTED: it was not and never will be.  While no connection breaks and the
\* process lives, a request is recorded once at most, it succeeded by its record and by
\* its answer if and only if it was done, and no transaction of an answered request is
\* left in the pool; the one answer of success without a deed is the 204 of a bond that
\* was found disabled (operations.ts:165-205, app.ts:472-556).
RecordTellsTheTruth ==
    \A r \in Requests :
        LET done      == Done(r)
            succeeded == "SUCCEEDED" \in Range(trail[r])
            answered  == requests[r].step = "answered"
            pending   == \E tx \in pool : tx.req = r
        IN  requests[r].op.kind \notin Unrecorded =>
            /\ succeeded => done
            /\ "REVERTED" \in Range(trail[r]) => ~pending /\ ~done
            /\ faults = 0 /\ answered =>
                 /\ Len(trail[r]) <= 1 /\ ~pending
                 /\ succeeded <=> done
                 /\ done => requests[r].answer \in {200, 201, 202, 204}
                 /\ requests[r].answer \in {200, 201, 202} => done
                 /\ requests[r].answer = 204 =>
                        done \/ \E b \in requests[r].read .. Len(blocks) : ~blocks[b].state.active

\* A close, cancel or finalisation changes the auction it was asked to change, although
\* the transaction names only the ISIN, unless a newer auction has been created since the
\* state its handler read: the chain's for close and cancel, the projection's for a
\* finalisation (service.ts:163-187, 195-252, 254-340).
ReadOf(r) == IF requests[r].op.kind = "AUCTION_FINALISE" THEN requests[r].seen ELSE requests[r].read
NamedAuctionChanges ==
    \A r \in Requests : \A b \in Effects(r) :
        requests[r].op.kind \in {"AUCTION_CANCEL", "AUCTION_CLOSE", "AUCTION_FINALISE"} =>
            LET before == blocks[b - 1].state.auctions
                named  == requests[r].op.auction
            IN  \/ blocks[b].state.auctions[named].status # before[named].status
                \/ Len(blocks[ReadOf(r)].state.auctions) < Len(before)

-----------------------------------------------------------------------------
\* The bank a created row names can act: the contract registered under its name was
\* deployed with its key ("A just-created bank's key deployed its own TBD, so it can
\* always act", app.ts:1289), unless another creation, which had found the name free
\* before this one registered it, registered the name over it (banks.ts:286-313).
Registration(b, name) ==
    /\ blocks[b].tx # NoTx /\ blocks[b].error = "none"
    /\ blocks[b].tx.call.fn = "setContract" /\ blocks[b].tx.call.name = name
BanksActForThemselves ==
    \A row \in bankRows :
        \/ ActAsAvailable(HeadState, row)
        \/ \E b1, b2 \in DOMAIN blocks :
             /\ b1 < b2 /\ Registration(b1, row.name) /\ Registration(b2, row.name)
             /\ requests[blocks[b2].tx.req].read < b1

\* When nothing is under way and nothing has failed, whatever changed has been announced
\* to the browsers since, with these exceptions: the cash of a finalisation or a coupon,
\* which the deposit contracts' page shows as the reserve of a bank (app.ts:598,
\* service.ts:328 announce bidders and central-bank only); a coupon that became payable
\* by the passing of time (ingestion.ts:1257 announces events only); and what a bank
\* creation did before it failed.
HalfCreated == \E r \in Requests : requests[r].op.kind = "BANK_CREATE" /\ requests[r].answer = 500
Excused(s) ==
    \/ s[1] = "banking" /\ s[2] \in {"finaliseAuction", "payCoupon"}
    \/ s = <<"bonds", "time">>
    \/ HalfCreated /\ s[2] \in {"setContract", "add"}
ChangesAnnounced ==
    Finished /\ faults = 0 /\ projected = Len(blocks) => \A s \in stale : Excused(s)
=============================================================================
