------------------------------ MODULE Ingestion ------------------------------
(***************************************************************************)
(* services/nb-bond-api/src/ingestion.ts and admin.ts: how the projection  *)
(* follows the chain.                                                      *)
(*                                                                         *)
(* A loop is one run of startIngestionLoop: it opens the database, loads   *)
(* the checkpoint, and then puts work on a queue, once at its start, at    *)
(* every poll, and whenever a request waits for a block.  The queue and    *)
(* the module variables are shared by every loop of the process; the next  *)
(* block to read is the loop's own.  Node runs one piece of code at a time *)
(* and switches at an await, so an action is what runs between two awaits. *)
(* Blocks never change, so the reads of a window are taken together with   *)
(* the SQLite transaction they end in.                                     *)
(***************************************************************************)
EXTENDS Projection, Functions, FiniteSetsExt

CONSTANTS
    Loops,          \* the runs of startIngestionLoop, 1 .. number of them
    BatchSize,      \* batchSize of computeIngestionWindow
    MaxFailures,    \* bound on the failures of the chain's RPC
    MaxCrashes,     \* bound on the crashes of the process
    MaxRequests,    \* bound on the requests that are waiting or were answered
    Resets,         \* whether a restart may drop the projection (fromBlock=0)
    MaxBusyHeight   \* bound on the length of a chain that has seen a restart, a request or two failures

ASSUME IngestionAssumption ==
    /\ IsFiniteSet(Loops) /\ Loops = 1 .. Cardinality(Loops) /\ Loops # {}
    /\ BatchSize \in Nat

VARIABLES
    db,         \* the projection tables
    checkpoint, \* ingestion_state.last_block: the next block to ingest; 0 without a row
    tables,     \* the projection tables exist
    phase,      \* phase[r]: how far loop r has come
    next,       \* next[r]: nextBlock of loop r
    timers,     \* loops whose interval is running
    handle,     \* intervalHandle: the loop whose interval stop clears, or 0
    advancer,   \* projectionAdvancer: the loop requests enqueue with, or 0
    lastBlock,  \* lastBlockProcessed
    queue,      \* ingestionQueue: the work waiting, [loop, target, latest]
    caughtUp,   \* blocks some request was told are projected
    overlapped, \* a restart has come while a loop was at work or starting
    failures,   \* failures of the RPC so far
    crashes     \* crashes so far

dbVars   == <<db, checkpoint, tables>>
loopVars == <<phase, next, timers, handle, advancer, lastBlock, queue>>
vars     == <<chainVars, dbVars, loopVars, caughtUp, overlapped, failures, crashes>>

StartBlock == 1     \* START_BLOCK
Phases     == {"unused", "starting", "opened", "first", "polling"}

\* Work without a target (0) runs to the head of the chain.
NotBegun == -1
Work(r, target) == [loop |-> r, target |-> target, latest |-> NotBegun]

Init ==
    /\ ChainInit
    /\ db = EmptyProjection /\ checkpoint = 0 /\ tables = FALSE
    /\ phase = [r \in Loops |-> IF r = 1 THEN "starting" ELSE "unused"]
    /\ next = [r \in Loops |-> 0]
    /\ timers = {} /\ handle = 0 /\ advancer = 0 /\ lastBlock = 0
    /\ queue = <<>> /\ caughtUp = {} /\ overlapped = FALSE /\ failures = 0 /\ crashes = 0

\* A loop has been started again.
Restarted == \E r \in Loops \ {1} : phase[r] # "unused"
Requests  == Cardinality(caughtUp) + Quantify(DOMAIN queue, LAMBDA k : queue[k].target # 0)

\* Bounds: a behaviour sees two of restarts, requests, failures and crashes at most, not a
\* crash and a restart, and a long chain only one failure or crash.
Upsets   == failures + crashes + Requests + (IF Restarted THEN 1 ELSE 0)
MayUpset == Upsets < 2 /\ (Upsets > 0 => Height <= MaxBusyHeight)
Busy     == Restarted \/ Requests > 0 \/ Upsets > 1

RpcFault == MayUpset /\ failures < MaxFailures /\ failures' = failures + 1

-----------------------------------------------------------------------------
(* A loop starts                                                            *)

\* Mutant: the tables a reset has dropped are not created again.
OpenExisting(r) ==
    /\ phase[r] = "starting"
    /\ phase' = [phase EXCEPT ![r] = "opened"]
    /\ UNCHANGED <<chainVars, db, checkpoint, tables, next, timers, handle, advancer, lastBlock,
                   queue, caughtUp, overlapped, failures, crashes>>

\* openDatabase creates what tables are missing
Open(r) ==
    /\ phase[r] = "starting"
    /\ phase' = [phase EXCEPT ![r] = "opened"]
    /\ tables' = TRUE
    /\ UNCHANGED <<chainVars, db, checkpoint, next, timers, handle, advancer, lastBlock, queue,
                   caughtUp, overlapped, failures, crashes>>

\* loadCheckpoint
FirstBlock == IF checkpoint = 0 THEN StartBlock ELSE checkpoint

\* The loop reads its first block's number and enqueues its first work.
Load(r) ==
    /\ phase[r] = "opened"
    /\ tables
    /\ next' = [next EXCEPT ![r] = FirstBlock]
    /\ lastBlock' = FirstBlock - 1
    /\ phase' = [phase EXCEPT ![r] = "first"]
    /\ advancer' = r
    /\ queue' = Append(queue, Work(r, 0))
    /\ UNCHANGED <<chainVars, dbVars, timers, handle, caughtUp, overlapped, failures, crashes>>

\* startIngestionLoopWithRetry: a start that fails begins again
StartFails(r) ==
    /\ phase[r] = "opened"
    /\ \/ ~tables /\ UNCHANGED failures
       \/ RpcFault
    /\ phase' = [phase EXCEPT ![r] = "starting"]
    /\ UNCHANGED <<chainVars, dbVars, next, timers, handle, advancer, lastBlock, queue,
                   caughtUp, overlapped, crashes>>

\* Loop r has work without a target in the queue.
Queued(r) == \E k \in DOMAIN queue : queue[k].loop = r /\ queue[k].target = 0

\* The first work is done: set the interval.
Polling(r) ==
    /\ phase[r] = "first"
    /\ ~Queued(r)
    /\ phase' = [phase EXCEPT ![r] = "polling"]
    /\ timers' = timers \cup {r}
    /\ handle' = r
    /\ UNCHANGED <<chainVars, dbVars, next, advancer, lastBlock, queue, caughtUp, overlapped, failures, crashes>>

-----------------------------------------------------------------------------
(* Work                                                                     *)

\* The interval fires.  One polling of a loop is in the queue at a time.
Poll(r) ==
    /\ r \in timers
    /\ ~Queued(r)
    /\ queue' = Append(queue, Work(r, 0))
    /\ UNCHANGED <<chainVars, dbVars, phase, next, timers, handle, advancer, lastBlock,
                   caughtUp, overlapped, failures, crashes>>

\* processTo begins: work without a target asks for the head of the chain.
Begin ==
    /\ queue # <<>>
    /\ Head(queue).latest = NotBegun
    /\ LET target == Head(queue).target
       IN  queue' = [queue EXCEPT ![1].latest = IF target # 0 THEN target ELSE Height]
    /\ UNCHANGED <<chainVars, dbVars, phase, next, timers, handle, advancer, lastBlock,
                   caughtUp, overlapped, failures, crashes>>

\* computeIngestionWindow, as the set of its blocks
Window(from, latest) ==
    IF latest < from THEN {} ELSE from .. (IF latest < from + BatchSize THEN latest
                                                                        ELSE from + BatchSize)

Running == queue # <<>> /\ Head(queue).latest # NotBegun
Current == Window(next[Head(queue).loop], Head(queue).latest)
Ingested ==
    LET from == next[Head(queue).loop]
    IN  ApplyWindow(db, from, from + Cardinality(Current) - 1)

\* A window has been read: the loop goes on behind it.
Advancing ==
    /\ Running
    /\ Current # {}
    /\ tables
    /\ next' = [next EXCEPT ![Head(queue).loop] = @ + Cardinality(Current)]

SaveCheckpoint(block) == checkpoint' = block

\* One turn of processTo: a window and its checkpoint in one transaction
Ingest ==
    /\ Advancing
    /\ LET to == next[Head(queue).loop] + Cardinality(Current) - 1
       IN  /\ db' = Ingested
           /\ ~db'.failed
           /\ SaveCheckpoint(to + 1)
           /\ lastBlock' = to
    /\ UNCHANGED <<chainVars, tables, phase, timers, handle, advancer, queue, caughtUp,
                   overlapped, failures, crashes>>

\* The blocks a request is told are projected when its work has succeeded
Answer(w) == IF w.target # 0 /\ lastBlock >= w.target THEN {w.target} ELSE {}

\* processTo ends with nothing left to do.  The request may have stopped waiting.
Done ==
    /\ Running
    /\ Current = {}
    /\ queue' = Tail(queue)
    /\ caughtUp' = caughtUp \cup Answer(Head(queue))
    /\ UNCHANGED <<chainVars, dbVars, phase, next, timers, handle, advancer, lastBlock,
                   overlapped, failures, crashes>>

\* Mutant: the request of a failed work is answered all the same.
FailAnswered ==
    /\ queue # <<>>
    /\ RpcFault
    /\ queue' = Tail(queue)
    /\ caughtUp' = caughtUp \cup ({Head(queue).target} \ {0})
    /\ UNCHANGED <<chainVars, dbVars, phase, next, timers, handle, advancer, lastBlock,
                   overlapped, crashes>>

\* processTo ends with an error: of the RPC, or thrown inside the transaction.
Fail ==
    /\ queue # <<>>
    /\ \/ RpcFault
       \/ /\ Running
          /\ Current # {}
          /\ ~tables \/ Ingested.failed
          /\ UNCHANGED failures
    /\ queue' = Tail(queue)
    /\ UNCHANGED <<chainVars, dbVars, phase, next, timers, handle, advancer, lastBlock,
                   caughtUp, overlapped, crashes>>

\* advanceProjectionTo for the block of a mutation that was just mined
Advance ==
    /\ Height \in 1 .. MaxBusyHeight
    /\ MayUpset /\ Requests < MaxRequests
    /\ \/ /\ lastBlock >= Height
          /\ caughtUp' = caughtUp \cup {Height}
          /\ UNCHANGED queue
       \/ /\ lastBlock < Height
          /\ advancer # 0
          /\ queue' = Append(queue, Work(advancer, Height))
          /\ UNCHANGED caughtUp
    /\ UNCHANGED <<chainVars, dbVars, phase, next, timers, handle, advancer, lastBlock,
                   overlapped, failures, crashes>>

-----------------------------------------------------------------------------
(* Restarts                                                                 *)

\* No loop is starting or at work.
Quiet == queue = <<>> /\ \A r \in Loops : phase[r] \in {"unused", "polling"}

\* Mutant: the interval that was stopped is still taken for the running one.
StopKeepsHandle == timers' = timers \ {handle} /\ advancer' = 0 /\ UNCHANGED handle

\* stopIngestionLoop: it clears the interval and waits for nothing.
StopIngestionLoop == timers' = timers \ {handle} /\ handle' = 0 /\ advancer' = 0

\* dropProjectionTables, the checkpoint among them
DropProjectionTables == db' = EmptyProjection /\ checkpoint' = 0 /\ tables' = FALSE

\* restartIngestionLoop and resetProjectionAndRestart: stop, perhaps drop the tables, and
\* start another loop
Restart(r, reset) ==
    /\ phase[r] = "unused"
    /\ overlapped' = (overlapped \/ ~Quiet)
    /\ phase' = [phase EXCEPT ![r] = "starting"]
    /\ StopIngestionLoop
    /\ IF reset THEN DropProjectionTables ELSE UNCHANGED dbVars
    /\ UNCHANGED <<chainVars, next, lastBlock, queue, caughtUp, failures, crashes>>

\* POST /v1/admin/restart-ingestion: fromBlock=0 is the reset.
RestartIngestion ==
    /\ Height <= MaxBusyHeight /\ MayUpset /\ crashes = 0
    /\ \E r \in Loops : Restart(r, FALSE) \/ (Resets /\ Restart(r, TRUE))

\* The process dies and index.ts starts the first loop of another.
Crash ==
    /\ MayUpset /\ crashes < MaxCrashes /\ ~Restarted
    /\ crashes' = crashes + 1
    /\ phase' = [r \in Loops |-> IF r = 1 THEN "starting" ELSE "unused"]
    /\ next' = [r \in Loops |-> 0]
    /\ timers' = {} /\ handle' = 0 /\ advancer' = 0 /\ lastBlock' = 0 /\ queue' = <<>>
    /\ UNCHANGED <<chainVars, dbVars, caughtUp, overlapped, failures>>

-----------------------------------------------------------------------------
Mining ==
    /\ Busy => Height < MaxBusyHeight
    /\ ChainNext
    /\ UNCHANGED <<dbVars, loopVars, caughtUp, overlapped, failures, crashes>>

LoopStep ==
    \/ \E r \in Loops : Open(r) \/ Load(r) \/ Polling(r) \/ Poll(r)
    \/ Begin \/ Ingest \/ Done

Next ==
    \/ Mining
    \/ LoopStep
    \/ \E r \in Loops : StartFails(r)
    \/ Fail
    \/ Advance
    \/ RestartIngestion
    \/ Crash

\* The event loop runs what is ready, the interval of a running loop fires, and a window
\* is read unless its work fails.
Fairness ==
    /\ \A r \in Loops : WF_vars(Open(r)) /\ WF_vars(Load(r)) /\ WF_vars(Polling(r)) /\ WF_vars(Poll(r))
    /\ WF_vars(Begin) /\ WF_next(Advancing) /\ WF_vars(Done)

Spec == Init /\ [][Next]_vars /\ Fairness

-----------------------------------------------------------------------------
TypeOK ==
    /\ db.bond.supply \in Nat /\ db.bal \in [Owners -> Int] /\ db.applied \subseteq 1 .. Height
    /\ checkpoint \in 0 .. Height + 1 /\ tables \in BOOLEAN
    /\ phase \in [Loops -> Phases] /\ next \in [Loops -> 0 .. Height + 1]
    /\ timers \subseteq Loops /\ handle \in {0} \cup timers /\ advancer \in {0} \cup Loops
    /\ lastBlock \in 0 .. Height /\ caughtUp \subseteq 1 .. Height
    /\ \A k \in DOMAIN queue : queue[k].loop \in Loops /\ queue[k].target \in 0 .. Height

\* What the tables say agrees with contract state s.
Agrees(s) ==
    /\ db.bond.supply = s.bond.supply
    /\ db.bond.offering = s.bond.offering
    /\ db.bond.maturityDate = s.bond.maturityDate
    /\ db.bond.lastPayment = s.bond.lastPayment
    /\ db.bond.count = s.bond.count
    /\ db.bond.matured = s.bond.matured
    /\ db.bond.issued = s.bond.issued
    /\ db.listed /\ db.hidden = ~s.bond.active
    /\ \A n \in 1 .. MaxAuctions :
          db.auction[n] = IF n <= Len(s.auctions) THEN s.auctions[n] ELSE EmptyAuction
    /\ db.bal = s.bal

\* One history row for each of the manager's logs up to block b, but for the two events
\* that ingestion has no branch for, and no other row
HistoryComplete(b) ==
    db.history = UNION {{HistoryRow(e) : e \in {x \in Range(chain[k].manager) : x.event \notin Unprojected}} :
                          k \in 1 .. b}

\* Wherever the windows begin and end, and whatever crashes, failures and restarts at rest
\* come between them, the projection is the state of the contracts at its checkpoint, bids
\* and allocations included, with the whole history up to there.
ProjectionMatchesChain ==
    ~overlapped /\ checkpoint > StartBlock =>
        Agrees(chain[checkpoint - 1].state) /\ HistoryComplete(checkpoint - 1)

\* A balance counts the transfers of the ingested blocks once each, even when loops overlap
\* and windows are replayed.
BalancesAppliedOnce ==
    \A a \in Owners :
        LET before(b) == IF b = 1 THEN 0 ELSE chain[b - 1].state.bal[a]
            gain      == [b \in 1 .. Height |-> chain[b].state.bal[a] - before(b)]
        IN  db.bal[a] = SumFunctionOnSet(gain, db.applied)

\* A request that is told its mutation is projected finds it in the projection, unless the
\* projection is being reset: lastBlockProcessed outlives the tables until the checkpoint
\* is loaded again.
ReadYourWrites ==
    [][~overlapped /\ checkpoint # 0 => \A b \in caughtUp' \ caughtUp : b < checkpoint]_vars

\* Once the chain rests, the projection reaches its head and stays there.
Converges == <>[](overlapped \/ checkpoint = Height + 1 \/ Height = 0)

-----------------------------------------------------------------------------
\* admin.ts: a restart is "non-destructive ... Projection survives".
RestartKeepsSupply == db.bond.supply = SumFunction(db.bal)

\* ingestion.ts: a re-created ISIN is no longer disabled.
RecreatedIsEnabled ==
    checkpoint > StartBlock => (db.bond.disabled => ~chain[checkpoint - 1].state.bond.active)
=============================================================================
