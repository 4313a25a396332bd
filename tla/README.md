# Verification of the bond tokenization sandbox

TLA+ models of the bond contracts, of the secondary market, of the ingestion that
projects the chain into a database, of the API that submits operations and answers
reads, and of the browser in front of it. They are checked with TLC on small
instances and, where the prover reaches, proved with TLAPS for every instance.
Every definition is written from the source; `PROJECT.json` (`map`) names the
lines each one stands for, `hazards` what in the code is hard to test, and
`findings` where code and documentation disagree.

## 1. The system

| Component | Source | State | Operations | What makes it correct |
|---|---|---|---|---|
| ERC1410 | `norges-bank/ERC1410/ERC1410.sol` | balances per holder and partition, four kinds of totals, two enumerations | issue, redeem, transfer, track, untrack | totals agree, each holder's list is exactly the partitions it holds, every partition with supply is tracked |
| BondToken | `norges-bank/BondToken.sol` | per ISIN: active flag, offering, maturity, coupon terms and payments | create, extend, reduce, mint, enable, pay record, mature, redeem, disable | supply within offering, nothing survives disabling |
| BondAuction | `norges-bank/BondAuction.sol` | per ISIN the sequence of auctions: type, status, size, bids, allocations | create, bid, close, cancel, finalise | one open auction, allocations rest on signed intents, history final |
| BondDvP | `norges-bank/BondDvP.sol` | none | settle | both legs or neither |
| Wnok, Allowlist | `norges-bank/Wnok.sol`, `common/Allowlist.sol` | WNOK balances, allowlist | mint, burn, transfer, add, remove | no overdraft |
| BondManager | `norges-bank/BondManager.sol` | the in-flight lock per ISIN | deploy, schedule, close, cancel, finalise, pay coupon, disable | the five contracts never disagree |
| OrderBook, Broker | `csd/OrderBook.sol`, `broker/` | linked price levels and orders, registered clients | buy, sell, revoke, initial sell orders | linked lists whole, price-time order, matching ends |
| DvP, BaseSecurityToken | `csd/` | units per investor, register | settle a trade | three legs or none, the failing side is blamed |
| Tbd | `private-bank/Tbd.sol` | deposits per bank | mint, burn, cross-bank transfer | deposits backed by the WNOK moved |
| Ingestion and projection | `nb-bond-api/src/ingestion.ts`, `projection/`, `admin.ts` | SQLite projection, checkpoint, queue, loop | batch, restart, reset, advance | the projection equals the chain's history |
| Read model | `compose.ts`, `snapshots.ts`, `compose-projection.ts`, `allocation.ts` | none | the reads of the API | answers are what the projection holds |
| API operations | `nb-bond-api/src/app.ts`, `operations.ts`, `chain.ts`, `features/`, `banks.ts`, `bidders.ts` | nonce and its lock, audit trail, rows of banks and bidders, sealing keypair | one handler per operation | the record and the answer tell what happened on the chain |
| Sealed bids | `encryption.ts`, `bid.ts`, `bidder-bid.ts` | none | seal, open | the auctioneer reads exactly what the bidder sealed |
| Browser | `nb-ui/src` | cached read, event stream, the user's write | one page, one query, the buttons it offers | the page shows the truth and offers what will be accepted |
| Explorer, deployment, scripts | `blockscout`, `infra`, `scripts` | | | not modelled |

How they interact. `BondManager` is the only caller of `BondToken`'s
controller functions, of `BondAuction`'s admin functions and of `BondDvP`; a
call of the manager is one transaction over all of them. Bidders call
`BondAuction.submitBid` themselves, holders transfer units themselves, the
central bank moves WNOK and edits the allowlist, and all of this happens between
the manager's calls. On the secondary market a broker submits a client's order;
the book matches it against resting orders, and each match calls the csd's DvP,
which moves units one way and deposits the other, through WNOK when the two
clients bank apart. The API submits the manager's calls under one nonce lock,
reads the state of the world from a projection that ingestion builds from the
contracts' events, and announces what changed to the browsers, which then read
again.

What is hard: the same fact kept by two contracts (the lock and the auction
status; the offering and the open auction; the coupon terms and the auction
history); a finalisation and an order matching that swallow failures one
settlement at a time; lists kept by hand through links; lists the caller
supplies (allocations, holders) that may omit or repeat; ISINs used again after
disabling; the clock; and off chain, batches, restarts and replays of
ingestion, a wallet shared by every request, workflows of several transactions,
a process that forgets its keypair, and browsers whose picture is always a
little old.

## 2. Modules

| Module | Models | Role |
|---|---|---|
| `Securities` | the set of ISINs | shared constant |
| `PartitionLedger` | what a bond ledger promises: `bal`, `supply`, `Mint`, `Burn`, `Move` | abstract specification |
| `Erc1410` | ERC1410.sol with all its redundant bookkeeping | detailed specification, refines `PartitionLedger` |
| `BondToken` | BondToken.sol on top of `PartitionLedger` | operators, composed below |
| `BondAuction` | BondAuction.sol | operators, composed below |
| `Wnok` | Wnok.sol and Allowlist.sol | operators, composed below and under `Tbd` |
| `BondDvP` | BondDvP.sol over `BondToken` and `Wnok` | operators, composed below |
| `BondManager` | BondManager.sol over all of them | the specification `Spec` |
| `BondSafety` | | the properties of `BondManager` |
| `Tbd` | Tbd.sol over `Wnok` | operators, composed below |
| `CsdDvP` | DvP.sol and BaseSecurityToken.sol over `Tbd` | operators, composed below |
| `PriceTimeBook` | what an order book promises: two queues by price and time | abstract specification |
| `OrderBook` | OrderBook.sol and Broker.sol over `CsdDvP` | detailed specification, refines `PriceTimeBook` |
| `OrderBookSafety` | | its properties and the refinement mapping |
| `BondChain` | the blocks of the chain, with the logs the contracts emit about one ISIN and the state they leave | operators, composed below |
| `Projection` | the reduction of a window of logs to the SQLite tables | operators, composed below |
| `Ingestion` | the loops of `ingestion.ts` and the restarts of `admin.ts` | the specification `Spec` |
| `SealedBids` | sealing and opening of bids, symbolically | operators |
| `BondMarket` | the contracts as the API meets them: for each call the error it reverts with or the state it leaves | operators over `SealedBids` |
| `Allocation` | ranking and filling of bids, on the server and again in the browser | operators |
| `ReadModel` | what each read of the API answers | operators over `BondMarket`, `Allocation` |
| `Handlers` | what each handler makes of what it reads: an answer, or a call to send | operators over `ReadModel` |
| `BondApi` | requests step by step between awaits, nonce lock, node, projection, announcements | the specification `Spec` |
| `BondApiSafety` | | its properties |
| `LiveView` | the cached conditional read of a page and its event stream | specification, used by `Client` |
| `OperatorPages` | what the pages of nb-ui read and offer | operators over `Handlers` |
| `Client` | a user on a page, `LiveView` under it, other users beside it | the specification `Spec` |
| `ClientSafety` | | its properties |
| `Histories` | two bidders, a bank, and the stages of a bond's life | where `MCBondApi` and `MCClient` begin |
| `MC*` | | instances for TLC |
| `BondProofs`, `Erc1410Proofs`, `BondApiProofs`, `OrderBookProofs`, `OrderMatchingProofs`, `IngestionProofs`, `ClientProofs`, `Sums` | | theorems and proofs |

Contracts. The per-partition mappings of BondToken are the records `terms[i]` and
`coupon[i]`; `bal` and `supply` are its ledger; `auctions[i]` is the sequence of
auctions of ISIN `i`, so `Len(auctions[i])` is `isinToAuctionCount`; `cash` and
`allowed` are WNOK; `bondActive` is the manager's lock; `now` is
`block.timestamp`. The EVM runs a transaction alone and a revert undoes it, so a
call is one action and a call that reverts is not enabled. `finaliseAuction`
is finer: its loop settles allocation after allocation under try/catch, so from
its first turn the transaction cannot fail. `FinaliseBondAuction` runs up to the
loop and leaves the settlements in `pending`; `SettleAllocation` runs one turn;
every other action waits for `Idle`. This makes the state between two
allocations visible to the properties.

Order book. `book.levels[s][p]` and `book.orders[id]` are the structs with their
`next` and `prev`, `book.best[s]` the best price of a side. The source has every
helper twice, for buying and for selling; here the side is a parameter. A
submission is one transaction, cut into the turns of its loops: `taker` is the
incoming order, `Match` and the evictions are turns, and no other action is
enabled until `Idle`. The refinement maps a side to the orders met by following
the links. `Edit` is the other callers: it moves balances, edits allowlists and
registrations between submissions, so that resting orders become undeliverable.

Ingestion. `chain` is the log; `contracts` is what `BondManager` says its calls
do, reduced to what their events depend on. A loop `r` is one run of
`startIngestionLoop`, with its own `next[r]` (`nextBlock`); `queue` is the chain of
promises behind `ingestionQueue`, which outlives the loops, as do `handle`
(`intervalHandle`), `advancer` (`projectionAdvancer`) and `lastBlock`
(`lastBlockProcessed`). `db`, `checkpoint` and `tables` are in SQLite and survive a
crash. An action is what Node runs between two awaits, except that the RPC
reads of a window are taken together with the SQLite transaction they end in:
blocks never change, so it does not matter when they are read. `ApplyWindow`
keeps the order of the code: manager, auction contract, token lifecycle,
transfers. `RestartIngestion` is `stopIngestionLoop`, the drop of the tables for a
reset, and the start of another loop; nothing in it waits for work in the
queue. `overlapped` records that some restart came while a loop was starting or
had work, which is where the promises of the projection end (findings 4).

API. A block of `blocks` holds the state of the contracts after it, its
transaction and the error that reverted it. A request walks through `step`:
arrived, planned (what `Handlers` made of what it read), simulated, queued for
the lock, prepared (nonce chosen), sent, mined, composing, answered; every step
ends where the code awaits, and requests interleave with each other, with
mining, with other wallets' transactions, with the projection, with one broken
connection, and with one restart of the process. `lock` is the order of
`nonceMutex`, `cachedNonce` the module variable, `pool` the node's pending
transactions. `stale` holds what changed and was not announced.

Browser. A page is one query (`useLiveQuery`): `cache` the ETag cache of
`httpClient.js`, `shown` the data of the hook, `generation` its effect runs,
`fetches` the requests under way, `conn` and `frames` the event stream. What the
page reads and what it offers are `PageContent` and `Offers` of `OperatorPages`;
`Perform` of `Client` runs a request of any user from its role gate to its rows.

What the models leave out, and why that is sound for the properties stated:

- A partition is identified with its ISIN: the hash is taken to be injective.
- In `BondManager` a bid is the hash of its plaintext: no contract reads the ciphertext,
  nor the submitter, which `_verifyBidIntent` does not compare with the bidder of an
  allocation. What the bidders sign outside the contracts is the constant `Signed`, any
  set of intents (auction, bidder, hash, nonce), over bids of others and over one bid twice
  included; signatures cannot be forged and hashes do not collide.
- In `SealedBids` cryptography is symbolic: what is
  wrapped for a key opens with that key only; byte layouts are left out.
- Role checks are assumed to pass for the one issuer; calls by others revert.
  The manager and the DvP hold their controller roles, and WNOK holders have
  given the DvP contract a standing allowance, banks their Tbd contract.
- The reserve holds no units and the manager does not bid, transfer units away or hold WNOK.
- Operators and controllers of ERC1410 only decide who may call.
- The auction's public key, its bond address and every event are dropped in `BondManager`;
  `BondChain` has the events, `BondMarket` the key. The manager's logs in `BondChain` are all it emits about
  an ISIN, one `CouponPaid` and, with the last coupon, one `BondRedeemed` per holder and one `BondAllocationFailed`
  per failed settlement included.
- Order book: one security, prices and amounts as small numbers, and a client
  keeps its broker and its bank.
- Ingestion: one ISIN, one transaction a block, the number of a block as its
  timestamp, final blocks, metadata left out. Applied rows are remembered per block. A
  request that times out is one that does not look at its answer, and one
  polling of a loop is queued at a time. The first bids of an auction may come in
  the block that opens it. The check that a database belongs to the chain is left out.
- `BondMarket`: one ISIN, a unit worth one WNOK, one coupon period. It states
  again, call by call, what `BondManager` does; the manager's lock is read off
  the latest auction, as `LockMatchesAuction` allows. Allocations are built by the API, so
  `FinaliseError` has the type, the size of the auction and the supply for a buyback to check,
  not the signatures.
- `BondApi`: schema validation, health and the OpenAPI document are left out;
  environment overrides of the fixture bidders' keys too.
- `Client`: a request is handled and announced in one step, one clock serves
  browser, server and chain, a page has one query, the tag of a conditional
  request is read when the request is made, and only the frames that name a resource of the page are
  counted. The switch that shows disabled bonds is part of the user: a user may come with it, and disabling a bond
  sets it; nobody switches it on an open page. A bidder's name stands for its key, amounts are 1, tokens
  do not expire. The API's keypair is fixed; that bids may have been sealed for
  an earlier one comes in through the histories, and `BondApi` has the restart itself.
- The history page is not modelled.

Two things met on the way have no run. A bidder may submit a bid between the
check of its deletion and the deletion (app.ts:810); nothing promises
otherwise, and the bid stays valid on chain. And the operator's bid dialog offers bids on
an ended auction in test mode, which the server refuses all the same: it is
among the refusals that `OfferAccepted` foresees (`TestModeBid`).

## 3. Runs

| Run | Instance | Shows |
|---|---|---|
| `erc1410` | 3 partitions, 2 holders, at most 2 units of each | redundant bookkeeping stays in step and refines the ledger |
| `bond_auction` | 2 bidders, 2 nonces, 2 bids, 2 allocations, 2 auctions, five signed intents, one bidder with money for one unit only | no allocation without an intent of its bidder and none twice; finalisation, allocation by allocation |
| `bond_life` | 3 auctions, maturities of 1 and 2 years, time up to 5, transfers, allowlist edits, every subset of accounts as the list of holders | lock, offering, coupon and history invariants; coupons are complete and never early |
| `ingestion` | two loops, chains of up to 6 blocks, of up to 3 once a restart or a request has come in, 2 holders, windows of 1 block or 2, one RPC failure, one crash, one request, restarts and resets at any time | the projection is the contracts' state at its checkpoint and converges; balances and answers hold under overlapping loops |
| `order_book` | 3 clients of 2 banks, 3 prices, 4 orders, an initial pair of sell orders, one edit by another caller | the lists stay whole, the book refines price-time queues, orders leave for cause, reserves follow deposits, every submission ends |
| `bond_api` | two or three requests at each stage of a bond, of WNOK, of deposits and of bank creation, a projection up to 4 blocks behind, one fault | nonces, records, answers, announcements |
| `client` | a user on each page at the stages that matter to it, one write or one fault, one or two writes of others | what a page at rest shows and offers; every auction can be brought to an end |
| `ingestion_restart`, `ingestion_recreate` | as `ingestion`, smaller | findings 4 and 5 |
| `bond_uncouponed`, `bond_matured`, `bond_buyback` | as `bond_life`, smaller | findings 1 to 3 |

Bounds. Three partitions are the fewest for which swap-and-pop moves an element
that is neither removed nor alone. Two bids and two allocations are the fewest
with a repeated intent, a row over another's bid and one failure before one success. Every list of
up to two bid indexes, one past the last bid included, is tried with every allocation; the intents
of `MCSignedSome` have one bid under two nonces and one bid signed by both bidders, and leave most rows unsigned. Three
auctions give issuance, extension and buyback, with any of them cancelled. Two
coupon periods separate the final one from the others. A unit is worth 2 WNOK,
so half-price buybacks and sales exist. `MaxSupply`, `MaxAuctions`, `MaxBids`,
`MaxAllocations`, `MaxTime` and `MaxCash` bound counters and appear only as
guards. An auction ends one tick after it is scheduled: `Tick` may then happen
early or late.

Three prices are the fewest with a level inserted between two others, and three
orders of one price the fewest with one leaving from the middle of a level
(`MaxOrders` is 4, so a taker may meet them). Amounts of 1 and 2 give partial
fills on either side, and the balances are such that each kind of failure occurs:
units, deposit, bank reserve, allowlist. One edit (`MaxEdits`) is enough to make a resting
order undeliverable.

Six blocks hold a bond from creation to maturity (five), or an issuance
and a whole buyback or extension (six), and a window ends at every block of
them. Three blocks are an issuance; overlapping loops need no more to replay a
creation and a transfer, so a chain grows past `MaxBusyHeight` (3) only under a
single loop without requests. `MaxBlocks`, `MaxFailures`, `MaxCrashes`,
`MaxRequests` and `Upsets` (two faults or restarts in all) are guards too.

Each scenario of `bond_api` is a history of calls and the requests that arrive after it. Two
requests are the fewest that race for the lock or for an auction; three let one
act while two others are between check and send. A scenario's `lag` is how many blocks the
projection is behind. A scenario of `client` spends the bounds `MaxClicks` and `MaxFaults` by
itself: in one half the user writes and nothing breaks, in the other the user
watches and one thing breaks.

Deadlock is checked in every run but `order_book`. For the bonds, amounts of 0 or the
idempotent allowlist edit keep a step enabled once the clock has stopped.
`BondApi` and `Client` may stop only where `Stop` says: every request answered or
lost, the page and its writes at rest. As long as its fault is unspent a state of
`bond_api` can still crash, so there the deadlock check bites after the fault; the
instance with `MaxFaults = 0` (not a run of its own: 114 804 states) has no
deadlock either. No request waits for ever for the lock, and no page hangs in
a refresh. `order_book` may stop: the book fills up to `MaxOrders`.

Fairness. None for the bond contracts, the API and the browser: nothing is obliged to
happen, and their properties are safety. For
`Ingestion`, weak fairness of each step of a loop and of the work at the head of the queue: Node runs a
settled promise, the interval of a running loop keeps firing, and a window that can be
read is read unless its work fails. Blocks, requests, restarts, failures
and crashes are not fair, and finitely many. `Converges` then says that the
checkpoint reaches the end of the chain and stays there, whatever failed before,
if no restart overlapped work. For `OrderBook`, `FairSpec` is weak fairness of
`Matching`, the turns of a submission, since a submission is one transaction;
`SubmissionEnds` says that its loops terminate.

## 4. Proofs

Assumptions. `UnitNominalAssumption` and `ManagerAssumption` give the constants
their types and say that the reserve is no holder of units, that the manager
neither bids nor holds WNOK, and that everybody else may hold both;
`SignedAssumption` types the intents, any set of which the bidders may have signed;
`Erc1410Assumption` says that amounts are numbers. `AccountsAssumption` and `FiniteAssumption`
say that there are finitely many accounts and partitions, as both are fixed-length
numbers on chain; only the theorems about sums use them. `KeysAssumption` says that the
operator's key is no bidder's, bank's or central bank's
(`docs/plans/archive/bidders-and-central-bank-plan.md:129` gives each its own).
`ScenariosAssumption` describes the requests and the chain `BondApi` may begin with: any
sequence of contract states each of which is a state of these contracts (`IsMarket`: only the latest
auction may be in flight, which is `LockMatchesAuction` of the bonds) and follows
those before it (`Follows`: no auction is dropped and no name given up, as the contracts can do
neither) and in which every bank name stands for a contract that was deployed or for none
(`Resolves`: an address is registered after the deployment that returned it), with any projection behind it,
any requests of the known kinds, and bank keys other than the operator's. `OrderBookAssumption` gives the constants
of the order book their types: prices and amounts are positive (`OrderBook.sol:353`), investors finitely many.
`BondChainAssumption` says that the holders are finitely many, that the manager and the zero address are none of
them, and that an auction has a positive size; `IngestionAssumption` that the loops are numbered from 1.
`BrowserAssumption` describes what a browser of `Client` can meet: contract states one after the other, the projection at one of them
(before an issue there is nothing to buy back, hold or owe, `BondManager.sol` refusing a buyback beyond the supply, and an issue is not
undone), a user on a page open to it, and requests of others that the routes serve.
The other proof modules need none but what their theorems state. The bounds on supply,
auctions, bids, requests and time are constants of any value.

**Bonds.** `BondProofs` begins with `TypeCorrect`; as balances, supplies, offerings and WNOK are
natural numbers in it, it says that no checked subtraction underflows. Most of the rest
needs `IInv`, which is per ISIN the conjunction of

- `LockInv`: the manager's lock is set exactly while the latest auction is open, and no older one is;
- `RateInv`: the first auction is a RATE auction and no other is;
- `OfferingInv`: the offering covers the supply and what the open auction may add;
- `DisabledInv`: nothing is left of a disabled partition, all its auctions were cancelled;
- `CouponInv`: there are coupon terms exactly when the first auction was finalised.

`LockMatchesAuction` alone is inductive. The others are not: `OfferingInv` would break
when a disabled partition is created again with an offering of zero, unless
`DisabledInv` says that it has no supply; `DisabledInv` would break when an auction
of a partition that has coupon terms is cancelled and the partition disabled,
unless `CouponInv` ties the terms to a finalised auction; and `CouponInv`
would break if a later auction were a RATE auction and enabled the coupon again,
which `RateInv` excludes. `Inductive` proves their conjunction, action by action, with a
lemma for each kind of change to the latest auction; the theorems on lock,
offering, disabling, coupon terms and coupon history follow.

`ClockInv` is added per ISIN: a maturity is a whole number of coupon periods,
so the division that gives the number of payments leaves no remainder, and the periods paid for
have passed (`MaturedIffAllPaid`, `CouponsNotEarly`). It needs `DisabledInv`, as creating a partition
changes a maturity, and `CouponInv` by way of `FinaliseInv`, as enabling resets the payments.

What becomes of auctions needs only types: no step writes an auction
but the latest, and only an open one (`AuctionHistoryIsFinal`); the verification of bid intents makes each
allocation the use of another intent that its bidder signed for this auction over one of its bids
(`AllocationsConsented`). That is all the contract promises: a bidder may be allocated a bid that another submitted,
if it signed for it, and one bid twice, if it signed for it under two nonces. Of a bidder that signs each hash
once, as the API does (`bidder-bid.ts`), it follows that no bid is allocated to it twice.
`PendingInv` says that what a finalisation leaves to its loop is a
sale by the manager or a purchase by the reserve, never a settlement with
itself (`DeliveryVersusPayment`).

Units and cash are about sums. `SupplyInv`: an auction that is open has allocated
nothing yet, and the supply is at most what the issuance auctions allocated; without the first half
finalising could overwrite allocations whose units exist. `DeliveryInv`: what is
pending is of one ISIN and one direction, and while it is a sale the manager holds all of
it (`SupplyWasAllocated`). `HoldingsInv`: the supply of an ISIN is the sum of its holdings, so
a list whose holders account for the whole supply leaves nobody out who holds
anything (`EveryHolderPaid`; with `MaturedIffAllPaid`, as the rate of a payment depends on its being the last).

**Sums.** The models add with `SumFunctionOnSet` and `FoldLeft`, both defined by a
recursion of which the library says nothing. `Sums` proves what they compute: an induction over
finite sets is possible without the library's induction theorems, as a set of counterexamples
has a minimal member (`MinimalSubset`). From it come that the recursive function exists, that the
order of the elements does not matter, and how a sum changes with a member, a part, a renaming or
the tail of a sequence.

**ERC1410.** `Erc1410Proofs` proves `TypeOK` and `EnumerationsExact` together, as neither
is inductive without the other: a position read from `index` is only known
to be within the array because the enumeration is exact. Lemmas say what a
push and a swap-and-pop do to one enumeration, whatever its length, also when the
element removed is the last one. `Erc1410Refines` shows step by step that the token implements
`PartitionLedger`, over which the bond contracts are modelled and the theorems above proved.
`TotalsAgree` is inductive once the sums are written as four conjuncts: every operation changes one entry
of the table and its three totals by the same amount.

**API.** Four invariants, each on the one before, for any requests, any
chain to begin with, any number of crashes and lost connections.

`BondApiProofs` has first `IInv`, the conjunction of `ChainInv` (types of blocks, pool and
projection), `RequestInv` (types of requests), `LockInv` (the lock holds the managed requests
between queue and receipt, each once), `RowInv` (rows and trails) and `NonceInv`. The last one carries
`ManagedNonces`: only the head of the lock has a nonce; until it has sent, that nonce is the
number of the operator's transactions the node has, mined and pending, and one less
afterwards; and a cached nonce is the node's next one unless a transaction is on its way.
A restart empties lock and cache together and a failure the cache, which is why both keep it.

It then adds `RecordInv` for `RecordTellsTheTruth`. The node mines each nonce of a key
once (`NodeInv`), so a transaction that was mined is not pending; `Traced` says for each step and record
of a request what chain and pool hold of it; contract numbers are unique and grow
(`MarketInv`), so that the row of a bank identifies the deployment (`BanksInv`); `Called` and `Banked` say
which of its three transactions a bank creation has got to.

The third, `OutcomeInv`: every block follows the blocks before it (`HistoryInv`); the
auction a request names was the latest in the state its handler read (`Named`), so that when its transaction
is mined it is the latest still or a newer one exists (`NamedAuctionChanges`); only creations deploy and
register, each under its own key and a name it found free (`TxInv`, `Founding`); a contract stays with the bank that
deployed it (`DeployedInv`) and under its name until the name is registered again
(`RegisteredInv`); and every row has a deployment and a registration behind it (`FoundedInv`), from which
`BanksActForThemselves` follows. The many steps of the handlers are first reduced to a few
shapes (`StepShape`): a request keeps its task, plans, checks, moves on to its next call or is answered while
the chain rests, or a block is added while the requests rest.

`AnnouncedInv` proves `ChangesAnnounced`, which speaks of the moment when all requests have ended. While they run, whatever was
changed and not announced is owed by a request: `Owes` says by which and since when, for a request of one transaction
from its mining to its receipt, for a bank creation until it comes to an end that announces. It needs that a transaction
in the pool is one its request makes (`PoolInv`), so that a block changes only what its request announces on success, and
`Resolves`, so that a coupon pays into deposit contracts that exist.

**Browser.** `ClientProofs` proves `TypeOK` and `ShowsTheTruth` of a user, others and the server together, for any contract states to
begin with and any requests of others; it has three layers.

- *Requests.* `Changes` says which fields of the contracts a call may change. From what each handler plans (`CallOfKind`) and what
  the request leaves (`Performed`) follows the reach of each kind of request: which part of contracts and rows it can change, and that it changes
  none unless it is accepted. `Sound`, kept by all of them, says that before an issue there is nothing to buy back: it is what makes every change
  of a reserve that the page of the deposits does not hear of a change after the issue, as `OnlyReservesMoved` demands.
- *Pages.* `Holds` of a body: it is what the server would answer, but for the time that passed or for reserves. What a page reads is
  compared with the reach of the request and the resources its answer names: either the page is told (`Told`), or whatever held of a body holds
  still (`Calm`). That is one lemma for a request (`ServerStep`), one for the projection, one for the clock.
- *View.* `ViewInv` adds to the types that whatever the request that counts was answered holds or will be read again
  (`AnswersHold`), and that a page not showing what holds has a reason (`ReasonGiven`): a request under way, an announcement under way, a closed
  stream, a failed read, or a 304 that met a cache overwritten in the meantime. Two requests of the present run are one, and it knows whether
  there is something to refresh, which is why an error is never shown beside data.

The last part of `ClientProofs` proves the same of `LiveView` alone, whatever the contents and however they change (`PageShowsTheTruth`).

**Sealed bids.** At the head of `BondApiProofs`: what a bidder seals the auctioneer reads back, and the
bidder too; another key reads nothing; and a ciphertext taken from the chain and
submitted beside another hash, by another account or for another ISIN is read only
if all of it is the bid that was sealed.

**Order book.** `OrderBookProofs` is about the data structure, for any prices and any number
of orders. A list is a set with two link functions, and `Linked` says of each element that its links lead to
its neighbours in the order of the list, which for orders is the order of their numbers. Lemmas say
what taking an element out and putting one in does to such a list; then each assignment
of the code is a change of one field, and each operation the sequence of its assignments.
`Kept` is what every operation preserves: levels and orders are linked, a level exists
exactly when an order is at its price, every order has something left, and the volume of a level
is the sum of what its orders have left.

`OrderMatchingProofs` has `OBInv`: `Kept`, ledgers that never go negative, and a taker that, while it walks a level,
looks at an order of that level. It gives `TypeOK` and, as a chain read from a list's first element
has each element once and in order (`ChainReads`), `LinksConsistent`. `ReservesFollowDeposits` and
`LeavesForCause` follow from what a settlement checks before it moves anything. `WalkInv` adds
that the orders the taker has passed cannot be settled with it, whatever the amount, and that it passes one without
evicting it only after it has traded. This gives `CrossedOnlyByFailure`: a submission that leaves the book
crossed has either traded, and could settle with no order at the best price, or has traded nothing, and was stopped by the oldest
order there with a failure that blames neither side. It does not say that nothing tradable is left facing it. In the first case
the worse levels (`OrderBook.sol:208-222`), in the second also the younger orders of the level (`OrderBook.sol:130-144`) have
not been tried, and in the instance of `order_book` some of them could trade.

A side read through its links, level by level and order by order, is a sequence that holds each of its orders once, by price and then
age; and there is only one such sequence. So what a step does to the set of orders determines what it does to the
sequence: `OldestFirst` follows, and `QueueTheorem` shows step by step that the book implements `PriceTimeBook`. Resting an
order and issuing many are its `Rest`, a fill its `Trade`, an eviction and a revocation its `Withdraw`, and
a turn of the walk that only moves the taker a stutter.

**Ingestion.** `IngestionProofs` is about chains of any length, windows of any size and any number of restarts, in layers.

- *Runs.* `ApplyLogs` and `ApplyBlocks` fold over logs. First they are unfolded into a sequence of tables, one per log, so that
  what holds before the first log and is kept by each holds after the last.
- *Loops.* `LoopsOK` types loops and queue, and says that where a loop waits for its work, that work is in the queue, and that
  `lastBlock`, which answers requests, is below the checkpoint; `ReadYourWrites` follows. `Alone` says
  that, unless a restart overlapped work, one loop owns timer, advancer and queue.
- *Chain.* `ChainOK`: every block takes the contracts from one state to the next (`Passage`), both orderly (`StateOK`: the supply is
  the sum of the balances, a bond without a finalised auction has not been issued, only the first auction may be a RATE auction),
  and emits logs that tell each contract's part of that passage and nothing else (`Emits`). The state has to hold
  the supply as a sum, as the projection adds it up from transfers that do not name it.
- *Ledger.* `LedgerOK`: the tables count each ingested block once, whatever loops overlap and wherever their windows begin, because a
  block in `applied` is skipped. It gives `TypeOK` and `BalancesAppliedOnce`.
- *Match.* `MatchOK` adds `FollowsChain`: with no overlap the tables are what the contracts were one block below the checkpoint.
  It is kept by a whole window and by no step inside one, because the manager's pass applies the window's last block before the auction
  contract's pass applies its first. So each pass has an invariant of its own, which says which columns are already at block `j` of
  this pass, which at the window's end and which still at its beginning (`ManagerAt`, `AuctionAt`, `LifeAt`, `MoneyAt`). The passes
  write columns in common: a `BondCreated` clears supply, maturity and last payment, and a last payment is written by two of them.
  That a creation finds nothing to clear needs `StateOK`; that the last writer is right
  whichever pass it is in needs the order of coupons in `Passage`. `ProjectionMatchesChain` follows. Its
  history has one row for each log of the manager that `ingestion.ts:728-1002` has a branch for, `BondRedeemed` among them, which
  is recorded and changes nothing else. `BondBuybackComplete` and `BondAllocationFailed` have no branch and leave no row
  (`Unprojected`), so a settlement that failed is not in the history a reader of the database sees.

Only model-checked. `OfferAccepted` and `AuctionResolvable` of `Client`: in contract states that no history leads to (bids that no bidder
could have submitted, balances that no payment left) more is refused than `Foreseen` lists, so that a proof would need an invariant of
everything the states of `Histories` can be, bids, allocations and balances included.
Liveness under fairness: `Converges`, `SubmissionEnds`.

## 5. Findings

1. `bond_buyback`. `cancelAuction` takes the size of the auction off the offering whatever its
   type, though a BUYBACK never added it. For a fully issued bond the reduction falls
   below the supply and reverts: the BUYBACK cannot be cancelled, and for others the offering shrinks.
2. `bond_uncouponed`. After a cancelled first RATE auction the auction contract accepts only PRICE
   and BUYBACK. A PRICE issuance then creates units without coupon terms, and
   `payCoupon` divides by a duration of zero.
3. `bond_matured`. A PRICE auction that is open when the final coupon is paid, or
   scheduled afterwards, mints units of a matured bond, which nothing redeems any more.
4. `ingestion_restart`. A restart without reset does not wait for the batch of the
   old loop: blocks are applied twice. Balances survive (`BalancesAppliedOnce`), but a replayed
   `BondCreated` zeroes the supply and the transfers that made it are skipped.
5. `ingestion_recreate`. When an ISIN is disabled and created again within one
   window, the token's `IsinDisabled` is applied after the manager's
   `BondCreated`, and `bond_state` keeps the live bond disabled. `Agrees` therefore does
   not speak of that flag, only of the one in `partitions`.

## 6. Plan

Done, in this order: the bond contracts and their inductive invariant; the ledger
and its refinement; ingestion; the secondary market over an abstract book; sealed
bids, allocation and read model; the API with its shared wallet; the browser; the
proofs of section 4, ingestion and browser last.

Left, in the order of what it would add:

- what `OfferAccepted` and `AuctionResolvable` need of the contract states a browser can meet, as an assumption on `Scenarios`;
- the history page, and several ISINs in one projection.

## 7. Not modelled

- `Roles.sol`, `Errors.sol`: constants and declarations.
- The factories of order books and stock tokens: they deploy and keep nothing an order depends on.
- ERC20 allowances and the operators of ERC1410: they gate who may call and move nothing.
- The history page: `compose.ts:122` reads the oldest `limit * 4` rows and sorts them newest first.
- Ingestion: metadata, the check that a database belongs to the chain, the error ring of the health page.
- API: schema validation, health, the OpenAPI document; tokens, their expiry and the 401 that follows.
- UI: layout, formatting, login, the health badge.
- Explorer, deployment, infrastructure and scripts: shell orchestration around third-party services.
