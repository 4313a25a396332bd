------------------------------ MODULE BondApi -------------------------------
(***************************************************************************)
(* The handlers of nb-bond-api between a request and its answer: what a    *)
(* handler reads before it sends (app.ts, features/auctions/service.ts,    *)
(* bidder-bid.ts, central-bank.ts, banking-tbd.ts, banks.ts), the nonce    *)
(* lock of the operator's wallet (chain.ts), the record of the operation   *)
(* (operations.ts), the wait for the projection, and the resources it      *)
(* announces to the browsers.                                              *)
(*                                                                         *)
(* A block holds the state of the contracts after it, the transaction it   *)
(* mined and the error that transaction reverted with.  A step of a        *)
(* request is what happens up to the next await.                           *)
(***************************************************************************)
EXTENDS Handlers

CONSTANTS
    Scenarios,      \* [history: states of the contracts, lag: Nat, ops: Seq of operations]
    MaxClock,       \* bound: how far the clock runs
    MaxFaults       \* bound: crashes and lost connections

\* What a process of the API can meet: a history to start from, requests of the kinds the
\* routes serve, and wallets of their own for the bidders, the banks and the central bank:
\* the operator's key is not one of theirs.
ASSUME ScenariosAssumption ==
    \A s \in Scenarios :
        /\ s.history \in Seq(Range(s.history)) /\ s.lag \in 0 .. Len(s.history) - 1
        /\ \A b \in DOMAIN s.history : IsMarket(s.history[b]) /\ Resolves(s.history[b])
        /\ \A a, b \in DOMAIN s.history : a <= b => Follows(s.history[b], s.history[a])
        /\ \A r \in DOMAIN s.ops :
             /\ s.ops[r].kind \in Kinds
             /\ s.ops[r].kind = "BIDDER_CREATE" => s.ops[r].who \in Wallets
             /\ s.ops[r].kind = "BANK_CREATE" => s.ops[r].key # Admin /\ s.ops[r].name \in Names
ASSUME KeysAssumption == Admin \notin Wallets /\ \A b \in FixtureBanks : b.key # Admin /\ b.name \in Names

VARIABLES
    blocks,         \* the chain: Seq of [state, tx, error]
    clock,          \* the time of day
    pool,           \* transactions the node holds
    projected,      \* the block the projection has reached
    cachedNonce, lock,   \* cachedNonce and the order of the nonceMutex
    requests,       \* one per operation
    trail,          \* the operation records of each request
    bankRows,       \* bank_rows: [name, key, tbd]
    bidderRows,     \* the wallets in bidder_rows
    sealing,        \* the sealing keypair of the process, by number
    stale,          \* <<resource, call>>: changed by the call, not announced since
    faults

vars == <<blocks, clock, pool, projected, cachedNonce, lock, requests, trail,
          bankRows, bidderRows, sealing, stale, faults>>

NoNonce == -1
NoTx    == [fn |-> "none"]
NoCall  == [fn |-> "none"]

Requests == DOMAIN requests
HeadState == Last(blocks).state
Seen      == blocks[projected].state
\* What a handler can read between two awaits
Here == [head |-> HeadState, seen |-> Seen, clock |-> clock, bidders |-> bidderRows, banks |-> bankRows,
         sealing |-> sealing]

-----------------------------------------------------------------------------
(* The steps of a request                                                   *)

\* publishLiveChange: whoever is connected reads the resources again.
Announced(resources) == {s \in stale : s[1] \notin resources}

Request(op) == [op |-> op, step |-> "arrived", read |-> 0, seen |-> 0, key |-> Admin, call |-> NoCall,
                nonce |-> NoNonce, tbd |-> 0, forced |-> FALSE, block |-> 0, answer |-> 0]

OfChain == <<blocks, clock, pool, projected, faults>>
OfNonce == <<cachedNonce, lock>>
OfRows  == <<bankRows, bidderRows, sealing>>

Step(r, step)  == requests' = [requests EXCEPT ![r].step = step]
Answer(r, code) == requests' = [requests EXCEPT ![r].step = "answered", ![r].answer = code]
Record(r, status) == trail' = [trail EXCEPT ![r] = Append(@, status)]

\* Mutant of ReleaseLock: the lock released only after a success
ReleaseLockOnSuccess(r, nonce) ==
    IF requests[r].op.kind \in Managed
      THEN /\ lock' = IF nonce = NoNonce THEN lock ELSE Tail(lock)
           /\ cachedNonce' = nonce
      ELSE UNCHANGED OfNonce

\* The one that holds the lock, its head, releases it and leaves a nonce behind.
ReleaseLock(r, nonce) ==
    IF requests[r].op.kind \in Managed THEN lock' = Tail(lock) /\ cachedNonce' = nonce
    ELSE UNCHANGED OfNonce

\* The request ends in an error; the lock is released and the cached nonce dropped.
Fail(r, status, code) ==
    /\ ReleaseLock(r, NoNonce)
    /\ Record(r, status)
    /\ Answer(r, code)

Arrive(r) ==
    LET plan == Plan(Here, requests[r].op) IN
    /\ requests[r].step = "arrived"
    /\ requests[r].op.kind \notin {"BIDDER_CREATE", "BIDDER_DELETE"}
    /\ IF plan.answer = 0
         THEN /\ requests' = [requests EXCEPT ![r].step = "planned", ![r].read = Len(blocks), ![r].seen = projected,
                                              ![r].key = plan.key, ![r].call = plan.call]
              /\ UNCHANGED trail
         ELSE /\ Answer(r, plan.answer)
              /\ IF plan.recorded THEN Record(r, "FAILED") ELSE UNCHANGED trail
    /\ UNCHANGED <<OfChain, OfNonce, OfRows, stale>>

\* staticCall before the lock is taken
Simulate(r) ==
    LET request == requests[r]
        error   == Error(HeadState, Admin, request.call, HeadState.time)
    IN  /\ request.step = "planned" /\ request.op.kind \in Simulated
        /\ IF error = "none" THEN Step(r, "simulated") /\ UNCHANGED trail
           ELSE /\ Answer(r, SimulationAnswer(request.op.kind, error))
                /\ IF SimulationStatus(request.op.kind) = "none" THEN UNCHANGED trail
                   ELSE Record(r, SimulationStatus(request.op.kind))
        /\ UNCHANGED <<OfChain, OfNonce, OfRows, stale>>

\* withNonceLock: behind whoever asked before
Enqueue(r) ==
    /\ requests[r].op.kind \in Managed
    /\ requests[r].step = IF requests[r].op.kind \in Simulated THEN "simulated" ELSE "planned"
    /\ lock' = Append(lock, r)
    /\ Step(r, "queued")
    /\ UNCHANGED <<OfChain, cachedNonce, OfRows, trail, stale>>

MinedCount(key)   == Cardinality({b \in DOMAIN blocks : blocks[b].tx # NoTx /\ blocks[b].tx.key = key})
\* Mutant of PendingCount: the count as of the latest block
LatestCount(key)  == MinedCount(key)
PendingCount(key) == MinedCount(key) + Cardinality({tx \in pool : tx.key = key})

\* nextNonce for the managed wallet; any other asks the node each time.
NextNonce(request) ==
    IF request.op.kind \in Managed /\ cachedNonce # NoNonce THEN cachedNonce
    ELSE PendingCount(request.key)

MySend(r) ==
    IF requests[r].op.kind \in Managed THEN requests[r].step = "queued" /\ lock[1] = r
    ELSE requests[r].step = "planned"

\* The gas estimate refused the call: answered, or sent again without an estimate.
Refused(r, error) ==
    LET request == requests[r] IN
    IF SentAnyway(request.op, error)
      THEN /\ requests' = [requests EXCEPT ![r].step = "planned", ![r].forced = TRUE]
           /\ ReleaseLock(r, NoNonce)
           /\ UNCHANGED trail
      ELSE Fail(r, EstimateStatus(request.op.kind), EstimateAnswer(request.op.kind))

\* The nonce and the gas estimate, on the latest block
Prepare(r) ==
    LET request == requests[r]
        error   == IF request.forced THEN "none"
                   ELSE Error(HeadState, request.key, request.call, HeadState.time)
    IN  /\ MySend(r)
        /\ IF error = "none"
             THEN /\ requests' = [requests EXCEPT ![r].step = "prepared", ![r].nonce = NextNonce(request)]
                  /\ cachedNonce' = IF request.op.kind \in Managed THEN NextNonce(request) ELSE cachedNonce
                  /\ UNCHANGED <<lock, trail>>
             ELSE Refused(r, error)
        /\ UNCHANGED <<OfChain, OfRows, stale>>

Transaction(r) == [req |-> r, key |-> requests[r].key, nonce |-> requests[r].nonce, call |-> requests[r].call]

\* The node refuses a nonce it has mined and one it already holds.
Acceptable(tx) == tx.nonce >= MinedCount(tx.key) /\ ~\E x \in pool : x.key = tx.key /\ x.nonce = tx.nonce

Broadcast(r) ==
    /\ requests[r].step = "prepared"
    /\ IF Acceptable(Transaction(r))
         THEN pool' = pool \cup {Transaction(r)} /\ Step(r, "sent") /\ UNCHANGED <<OfNonce, trail>>
         ELSE Fail(r, "FAILED", 500) /\ UNCHANGED pool
    /\ UNCHANGED <<blocks, clock, projected, faults, OfRows, stale>>

-----------------------------------------------------------------------------
(* The steps of a bank creation after each of its transactions              *)

NextBankCall(request, b) ==
    CASE request.call.fn = "deployTbd" ->
             [fn |-> "setContract", name |-> request.op.name, tbd |-> Len(blocks[b].state.tbds)]
      [] request.call.fn = "setContract" /\ request.op.settle -> [fn |-> "add", who |-> request.op.key]
      [] OTHER -> NoCall


\* insertBankRow: the address is the primary key, name and contract are unique.
Duplicate(row) == \E b \in bankRows : b.name = row.name \/ b.key = row.key \/ b.tbd = row.tbd

\* After the last transaction of a creation the row is inserted, and then only recorded.
Created(r, row) ==
    IF Duplicate(row)
      THEN Fail(r, "FAILED", 500) /\ UNCHANGED <<bankRows, stale>>
      ELSE /\ bankRows' = bankRows \cup {row}
           /\ Record(r, "SUCCEEDED")
           /\ Answer(r, 200)
           /\ stale' = Announced(ChangedResources("BANK_CREATE"))
           /\ UNCHANGED OfNonce

-----------------------------------------------------------------------------
(* tx.wait and what follows it up to the next await                          *)

\* Success: recorded, announced, and for most managed calls the projection awaited
Succeed(r, b) ==
    LET kind == requests[r].op.kind IN
    /\ ReleaseLock(r, requests[r].nonce + 1)
    /\ Record(r, "SUCCEEDED")
    /\ stale' = Announced(ChangedResources(kind))
    /\ IF kind \in Awaiting
         THEN requests' = [requests EXCEPT ![r].step = "mined", ![r].block = b]
         ELSE Answer(r, IF kind = "BOND_DISABLE" THEN 204 ELSE 200)
    /\ UNCHANGED bankRows

Continue(r, b) ==
    LET request == requests[r]
        next    == NextBankCall(request, b)
        tbd     == IF request.call.fn = "deployTbd" THEN next.tbd ELSE request.tbd
    IN  IF next # NoCall
          THEN /\ requests' = [requests EXCEPT ![r].step = "planned", ![r].call = next,
                                               ![r].key = CentralBank, ![r].tbd = tbd]
               /\ UNCHANGED <<OfNonce, trail, bankRows, stale>>
          ELSE Created(r, [name |-> request.op.name, key |-> request.op.key, tbd |-> tbd])

\* Mutant of Confirm: any receipt taken for success
ConfirmAnyReceipt(r) ==
    /\ requests[r].step = "sent"
    /\ \E b \in DOMAIN blocks :
         /\ blocks[b].tx = Transaction(r)
         /\ IF requests[r].op.kind = "BANK_CREATE" THEN Continue(r, b) ELSE Succeed(r, b)
    /\ UNCHANGED <<OfChain, bidderRows, sealing>>

\* A mined revert carries a receipt and no data: nothing to decode, whatever the handler.
Confirm(r) ==
    /\ requests[r].step = "sent"
    /\ \E b \in DOMAIN blocks :
         /\ blocks[b].tx = Transaction(r)
         /\ IF blocks[b].error # "none"
              THEN Fail(r, "REVERTED", 500) /\ UNCHANGED <<bankRows, stale>>
              ELSE IF requests[r].op.kind = "BANK_CREATE" THEN Continue(r, b) ELSE Succeed(r, b)
    /\ UNCHANGED <<OfChain, bidderRows, sealing>>

\* awaitMutationProjection: in time the answer is composed from the projection, else 202.
AnswerMined(r) ==
    /\ requests[r].step = "mined"
    /\ \/ /\ projected >= requests[r].block
          /\ Answer(r, IF requests[r].op.kind = "BOND_CREATE" THEN 201 ELSE 200)
       \/ Answer(r, 202)
    /\ UNCHANGED <<OfChain, OfNonce, OfRows, trail, stale>>

-----------------------------------------------------------------------------
(* Bidders: rows without transactions                                       *)

\* createBidder, up to the reads of the answer
CreateBidder(r) ==
    LET op == requests[r].op IN
    /\ requests[r].step = "arrived" /\ op.kind = "BIDDER_CREATE"
    /\ IF op.who \in bidderRows
         THEN Answer(r, 409) /\ UNCHANGED <<bidderRows, stale>>
         ELSE /\ bidderRows' = bidderRows \cup {op.who}
              /\ stale' = stale \cup {<<"bidders", "row">>}
              /\ Step(r, "composing")
    /\ UNCHANGED <<OfChain, OfNonce, bankRows, sealing, trail>>

AnnounceBidder(r) ==
    /\ requests[r].step = "composing"
    /\ stale' = Announced({"bidders"})
    /\ Answer(r, 200)
    /\ UNCHANGED <<OfChain, OfNonce, OfRows, trail>>

CheckBidder(r) ==
    LET op == requests[r].op IN
    /\ requests[r].step = "arrived" /\ op.kind = "BIDDER_DELETE"
    /\ IF op.who \notin bidderRows THEN Answer(r, 404)
       ELSE IF Committed(Here, op.who) THEN Answer(r, 409)
       ELSE requests' = [requests EXCEPT ![r].step = "checked",
                                          ![r].read = Len(blocks), ![r].seen = projected]
    /\ UNCHANGED <<OfChain, OfNonce, OfRows, trail, stale>>

DeleteBidder(r) ==
    LET op == requests[r].op IN
    /\ requests[r].step = "checked"
    /\ bidderRows' = bidderRows \ {op.who}
    /\ IF op.who \in bidderRows
         THEN Answer(r, 204) /\ stale' = Announced({"bidders"})
         ELSE Answer(r, 404) /\ UNCHANGED stale
    /\ UNCHANGED <<OfChain, OfNonce, bankRows, sealing, trail>>

-----------------------------------------------------------------------------
(* The chain, the projection, and what fails                                *)

Mine(tx) ==
    LET error == Error(HeadState, tx.key, tx.call, clock)
        new   == IF error = "none" THEN Effect(HeadState, tx.key, tx.call, clock) ELSE HeadState
    IN  /\ tx.nonce = MinedCount(tx.key)
        /\ blocks' = Append(blocks, [state |-> [new EXCEPT !.time = clock], tx |-> tx, error |-> error])
        /\ pool' = pool \ {tx}
        /\ stale' = stale \cup (Touched(Here, HeadState, new) \X {tx.call.fn})
        /\ UNCHANGED <<clock, projected, faults, OfNonce, OfRows, requests, trail>>

\* A block without transactions, by which the contracts learn the time
EmptyBlock ==
    /\ clock > HeadState.time
    /\ blocks' = Append(blocks, [state |-> [HeadState EXCEPT !.time = clock], tx |-> NoTx, error |-> "none"])
    /\ UNCHANGED <<clock, pool, projected, faults, OfNonce, OfRows, requests, trail, stale>>

Tick ==
    /\ clock < MaxClock
    /\ clock' = clock + 1
    /\ UNCHANGED <<blocks, pool, projected, faults, OfNonce, OfRows, requests, trail, stale>>

\* A window of blocks enters the projection (Ingestion): announced if it held events.
BondCalls == {"deployBond", "deployAuction", "disableBond", "closeAuction", "cancelAuction",
              "finaliseAuction", "payCoupon", "submitBid"}
HasEvents(b) == blocks[b].tx # NoTx /\ blocks[b].error = "none" /\ blocks[b].tx.call.fn \in BondCalls

Project(to) ==
    /\ projected' = to
    /\ stale' = IF \E b \in projected + 1 .. to : HasEvents(b) THEN Announced({"bonds", "auctions"})
                ELSE IF Bonds(blocks[to].state, sealing) # Bonds(Seen, sealing) THEN stale \cup {<<"bonds", "time">>}
                ELSE stale
    /\ UNCHANGED <<blocks, clock, pool, faults, OfNonce, OfRows, requests, trail>>

\* The connection to the node breaks over a transaction sent: it arrived or it did not.
LoseConnection(r) ==
    /\ faults < MaxFaults
    /\ faults' = faults + 1
    /\ requests[r].step = "prepared"
    /\ \/ UNCHANGED pool
       \/ (Acceptable(Transaction(r)) /\ pool' = pool \cup {Transaction(r)})
    /\ Fail(r, "FAILED", 500)
    /\ UNCHANGED <<blocks, clock, projected, OfRows, stale>>

\* initSealingKeypair: the key of AUCTION_OWNER_SEAL_PK, or a fresh one if that is unset
InitSealingKeypair == sealing' \in {sealing, sealing + 1}

\* seedFixtureBiddersIfEmpty
SeedFixtureBidders == bidderRows' = IF bidderRows = {} THEN Bidders ELSE bidderRows

\* The process ends and starts again: requests under way are gone, and every browser
\* connects again and reads everything.
Crash ==
    /\ faults < MaxFaults
    /\ faults' = faults + 1
    /\ \E r \in Requests : requests[r].step \notin {"arrived", "answered", "lost"}
    /\ requests' = [r \in Requests |-> IF requests[r].step \in {"arrived", "answered"} THEN requests[r]
                                       ELSE [requests[r] EXCEPT !.step = "lost"]]
    /\ cachedNonce' = NoNonce /\ lock' = <<>> /\ stale' = {}
    /\ InitSealingKeypair /\ SeedFixtureBidders
    /\ UNCHANGED <<blocks, clock, pool, projected, bankRows, trail>>

-----------------------------------------------------------------------------

ToBlocks(history) == [b \in DOMAIN history |-> [state |-> history[b], tx |-> NoTx, error |-> "none"]]

Init ==
    \E scenario \in Scenarios :
        /\ blocks = ToBlocks(scenario.history)
        /\ clock = Last(scenario.history).time
        /\ projected = Len(scenario.history) - scenario.lag
        /\ requests = [r \in DOMAIN scenario.ops |-> Request(scenario.ops[r])]
        /\ trail = [r \in DOMAIN scenario.ops |-> <<>>]
        /\ pool = {} /\ cachedNonce = NoNonce /\ lock = <<>>
        /\ bankRows = {} /\ bidderRows = Bidders /\ sealing = 1
        /\ stale = {} /\ faults = 0

Serve(r) ==
    \/ Arrive(r) \/ Simulate(r) \/ Enqueue(r) \/ Prepare(r) \/ Broadcast(r) \/ Confirm(r) \/ AnswerMined(r)
    \/ CreateBidder(r) \/ AnnounceBidder(r) \/ CheckBidder(r) \/ DeleteBidder(r)

Finished == pool = {} /\ \A r \in Requests : requests[r].step \in {"answered", "lost"}
Stop == Finished /\ UNCHANGED vars

Next ==
    \/ \E r \in Requests : Serve(r) \/ LoseConnection(r)
    \/ \E tx \in pool : Mine(tx)
    \/ \E to \in projected + 1 .. Len(blocks) : Project(to)
    \/ EmptyBlock \/ Tick \/ Crash \/ Stop

Spec == Init /\ [][Next]_vars
=============================================================================
