------------------------------- MODULE Client -------------------------------
(***************************************************************************)
(* A browser at work: a user on a page of nb-ui (OperatorPages), the read  *)
(* that keeps the page current (LiveView), the write the user sends, and   *)
(* what others do to the server meanwhile.                                 *)
(*                                                                         *)
(* A request is handled in one step here, announcement included; BondApi   *)
(* takes it apart.  One clock serves the browser, the server and the chain.*)
(***************************************************************************)
EXTENDS OperatorPages

CONSTANTS
    Scenarios,      \* [history, lag, user, others: Seq of operations of other users,
                    \*  clicks, faults: how much of the two bounds is spent]
    SealingKey,     \* the sealing keypair of the API, by number
    MaxClicks,      \* bound: writes of the user
    MaxClock, MaxFetches, MaxFaults

\* Before an issue nothing is offered to be bought back, held or due (BondManager.sol,
\* BuybackExceedsSupply); later, neither time nor issuance is taken back.
IssuedFirst(w) ==
    /\ \A k \in DOMAIN w.auctions : w.auctions[k].type = "BUYBACK" => w.issued
    /\ w.issued \/ (Supply(w) = 0 /\ w.due = 0)
Later(w, u) == u.time <= w.time /\ (u.issued => w.issued)

\* A request the routes serve: sizes are positive (service.ts:62).
Served(op) == op.kind \in Kinds /\ (op.kind = "AUCTION_CREATE" => op.size \in Nat \ {0})

\* What a browser can meet: states of the contracts one after the other, a user on a page
\* open to it, and requests of others.
ASSUME BrowserAssumption ==
    /\ MaxFetches \in Nat \ {0}
    /\ \A s \in Scenarios :
         /\ s.history \in Seq(Range(s.history)) /\ s.lag \in 0 .. Len(s.history) - 1
         /\ \A b \in DOMAIN s.history :
              IsMarket(s.history[b]) /\ IssuedFirst(s.history[b]) /\ s.history[b].time \in Nat
         /\ \A a, b \in DOMAIN s.history : a <= b => Later(s.history[b], s.history[a])
         /\ DOMAIN s.user = {"page", "role", "testMode", "showDisabled"}
         /\ s.user.page \in DOMAIN PageKeys /\ MayOpen(s.user)
         /\ s.others \in Seq(Range(s.others)) /\ \A k \in DOMAIN s.others : Served(s.others[k])

VARIABLES
    head, seen,     \* the contracts at the head of the chain, and as far as the projection
    bidders, banks, \* bidder_rows and bank_rows
    trail,          \* operation_attempts: Seq of [kind, status]
    clock,
    user, clicks,
    mutation,       \* the user's write: {} or {[op, answer]}, answer 0 until handled
    others,         \* what other users have yet to do
    conn, frames, fetches, generation, cache, shown, problem, overtaken, faults

Here    == [head |-> head, seen |-> seen, clock |-> clock, bidders |-> bidders, banks |-> banks,
            trail |-> trail, sealing |-> SealingKey]
content == PageContent(user, Here)

View == INSTANCE LiveView WITH Contents <- {}

serverVars == <<head, seen, bidders, banks, trail>>
userVars   == <<user, clicks, mutation, others>>
viewVars   == <<fetches, generation, cache, shown, problem, overtaken>>
vars == <<serverVars, clock, userVars, viewVars, conn, frames, faults>>

-----------------------------------------------------------------------------
(* A request handled at once                                                *)

\* An answer, with what the trail says of it, that leaves everything as it is
Unchanged(c, code, status) ==
    [answer |-> code, status |-> status, head |-> c.head, bidders |-> c.bidders, banks |-> c.banks]
Done(c, w) == [Unchanged(c, 200, "SUCCEEDED") EXCEPT !.head = w]

\* The plan answers by itself.
Early(c, plan) == Unchanged(c, plan.answer, IF plan.recorded THEN "FAILED" ELSE "none")

\* Simulated first, if the handler simulates, then estimated, then mined
Refusal(c, op, error) ==
    CASE SentAnyway(op, error)   -> Unchanged(c, 500, "REVERTED")
      [] op.kind \in Simulated   -> Unchanged(c, SimulationAnswer(op.kind, error), SimulationStatus(op.kind))
      [] OTHER -> Unchanged(c, EstimateAnswer(op.kind), EstimateStatus(op.kind))

\* error is what the call of the plan reverts with.
Sent(c, op, plan, error) ==
    IF plan.answer # 0 THEN Early(c, plan)
    ELSE IF error # "none" THEN Refusal(c, op, error)
    ELSE Done(c, Effect(c.head, plan.key, plan.call, c.clock))

\* createBank once its contract is there: its name, the allowlist if asked for, the row
Named(c, op, deployed) ==
    [Done(c, [deployed EXCEPT !.registry[op.name] = Len(deployed.tbds),
                              !.listed = IF op.settle THEN @ \cup {op.key} ELSE @])
       EXCEPT !.banks = @ \cup {[name |-> op.name, key |-> op.key, tbd |-> Len(deployed.tbds)]}]

\* plan is that of the request.
Carried(c, op, plan) ==
    CASE op.kind = "BIDDER_CREATE" ->
             IF op.who \in c.bidders THEN Unchanged(c, 409, "none")
             ELSE [Unchanged(c, 200, "none") EXCEPT !.bidders = @ \cup {op.who}]
      [] op.kind = "BIDDER_DELETE" ->
             IF op.who \notin c.bidders THEN Unchanged(c, 404, "none")
             ELSE IF Committed(c, op.who) THEN Unchanged(c, 409, "none")
             ELSE [Unchanged(c, 204, "none") EXCEPT !.bidders = @ \ {op.who}]
      [] op.kind = "BANK_CREATE" ->
             IF plan.answer # 0 THEN Early(c, plan)
             ELSE Named(c, op, Effect(c.head, plan.key, plan.call, c.clock))
      [] OTHER -> Sent(c, op, plan, Error(c.head, plan.key, plan.call, c.clock))

\* Role, plan, call and rows of request op of a user with this role
Perform(c, role, op) ==
    IF op.kind \in OperatorOnly /\ role # "operator" THEN Unchanged(c, 403, "none")
    ELSE Carried(c, op, Plan(c, op))

Accepted(code) == code \in {200, 202, 204}

\* What the projection reads
BondPart(w) == [created |-> w.created, active |-> w.active, matured |-> w.matured, issued |-> w.issued,
                due |-> w.due, units |-> w.units, auctions |-> w.auctions]

Resources(op) ==
    IF op.kind \in {"BIDDER_CREATE", "BIDDER_DELETE"} THEN {"bidders"} ELSE ChangedResources(op.kind)

\* The resources named to the browsers: what an accepted request changed, what entered the
\* projection, and the trail, which a failed request enters too.
Announced(op, code, status, projected) ==
    (IF Accepted(code) THEN Resources(op) ELSE {})
    \cup (IF projected THEN {"bonds", "auctions"} ELSE {})
    \cup (IF status = "none" THEN {} ELSE {"operations"})

\* Request op takes effect, answered code by the time the projection is at reached: the
\* block of its transaction, or an earlier one.
TakeEffect(role, op, code) ==
    \E outcome \in {Perform(Here, role, op)} :
        /\ head' = outcome.head /\ bidders' = outcome.bidders /\ banks' = outcome.banks
        /\ trail' = IF outcome.status = "none" THEN trail
                    ELSE Append(trail, [kind |-> op.kind, status |-> outcome.status])
        /\ seen' \in {seen, outcome.head}
        /\ code = IF Accepted(outcome.answer) /\ op.kind \in Awaiting /\ BondPart(seen') # BondPart(head')
                   THEN 202 ELSE outcome.answer
        /\ IF BondPart(head') = BondPart(seen) THEN seen' = head'
             ELSE seen' = seen \/ (op.kind \in Awaiting /\ Accepted(outcome.answer))
        /\ View!Announce(Announced(op, code, outcome.status, BondPart(seen') # BondPart(seen))
                           \cap PageKeys[user.page] # {})

-----------------------------------------------------------------------------
(* The user                                                                 *)

Write == CHOOSE m \in mutation : TRUE
Data  == CHOOSE d \in shown : TRUE

Click ==
    /\ clicks < MaxClicks /\ mutation = {} /\ shown # {}
    /\ \E op \in Offers(user, Here, Data) : mutation' = {[op |-> op, answer |-> 0]}
    /\ clicks' = clicks + 1
    /\ UNCHANGED <<serverVars, clock, user, others, viewVars, conn, frames, faults>>

Handle ==
    /\ mutation # {} /\ Write.answer = 0
    /\ \E code \in {200, 202, 204, 400, 403, 404, 409, 500} :
         /\ TakeEffect(user.role, Write.op, code)
         /\ mutation' = {[Write EXCEPT !.answer = code]}
    /\ UNCHANGED <<clock, user, clicks, others, viewVars, conn, faults>>

\* The dialogs that close on a 202 without reading again
WaitsForEvent == {"BOND_CREATE", "AUCTION_CREATE", "COUPON_PAYMENT"}

\* Another page, of the user as u: what is under way for the old one no longer matters.
Visit(u) ==
    /\ user' = u
    /\ generation' = generation + 1
    /\ fetches' = {[gen |-> generation + 1, tag |-> {}, refreshing |-> FALSE, status |-> 0, body |-> {}]}
    /\ cache' = {} /\ shown' = {} /\ problem' = "none" /\ overtaken' = FALSE

\* The answer arrives.  A refusal leaves the page as it is.
Return ==
    /\ mutation # {} /\ Write.answer # 0
    /\ mutation' = {}
    /\ CASE ~Accepted(Write.answer) -> UNCHANGED <<user, viewVars>>
         [] Write.answer = 202 /\ Write.op.kind \in WaitsForEvent ->
                cache' = {} /\ UNCHANGED <<user, fetches, generation, shown, problem, overtaken>>
         [] Write.op.kind = "BOND_CREATE" /\ Write.answer = 200 -> Visit([user EXCEPT !.page = "bond"])
         [] Write.op.kind = "BOND_DISABLE" /\ Accepted(Write.answer) ->
                Visit([user EXCEPT !.page = "bonds", !.showDisabled = TRUE])
         [] OTHER -> cache' = {} /\ View!Reload({}) /\ UNCHANGED user
    /\ UNCHANGED <<serverVars, clock, clicks, others, conn, frames, faults>>

-----------------------------------------------------------------------------
(* Everybody else                                                           *)

OtherUser ==
    /\ others # <<>>
    /\ \E code \in {200, 202, 204, 400, 404, 409, 500} : TakeEffect("operator", Head(others), code)
    /\ others' = Tail(others)
    /\ UNCHANGED <<clock, user, clicks, mutation, viewVars, conn, faults>>

Project ==
    /\ seen # head
    /\ seen' = head
    /\ View!Announce(PageKeys[user.page] \cap {"bonds", "auctions"} # {})
    /\ UNCHANGED <<head, bidders, banks, trail, clock, userVars, viewVars, conn, faults>>

\* Time passes, for a projection that has caught up too; nobody announces it.
Tick ==
    /\ clock < MaxClock
    /\ clock' = clock + 1
    /\ head' = [head EXCEPT !.time = clock + 1]
    /\ seen' = IF seen = head THEN head' ELSE seen
    /\ UNCHANGED <<bidders, banks, trail, userVars, viewVars, conn, frames, faults>>

-----------------------------------------------------------------------------

Init ==
    \E scenario \in Scenarios :
        /\ head = Last(scenario.history)
        /\ seen = scenario.history[Len(scenario.history) - scenario.lag]
        /\ clock = head.time
        /\ bidders = Bidders /\ banks = {} /\ trail = <<>>
        /\ user = scenario.user /\ others = scenario.others
        /\ clicks = scenario.clicks /\ faults = scenario.faults /\ mutation = {}
        /\ conn = "down" /\ frames = 0 /\ generation = 1
        /\ fetches = {[gen |-> 1, tag |-> {}, refreshing |-> FALSE, status |-> 0, body |-> {}]}
        /\ cache = {} /\ shown = {} /\ problem = "none" /\ overtaken = FALSE

OfPage == UNCHANGED <<serverVars, clock, userVars>> /\ (View!Transfer \/ View!Stream)
AtRest == View!Quiet /\ mutation = {} /\ seen = head
Stop   == AtRest /\ others = <<>> /\ UNCHANGED vars

Next == OfPage \/ Click \/ Handle \/ Return \/ OtherUser \/ Project \/ Tick \/ Stop
Spec == Init /\ [][Next]_vars
=============================================================================
