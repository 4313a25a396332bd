--------------------------- MODULE IngestionProofs ---------------------------
(***************************************************************************)
(* Theorems about Ingestion: what the loops know of each other, what the   *)
(* logs of the chain tell of the contracts, and what the projection makes  *)
(* of them.                                                                *)
(*                                                                         *)
(* The proof goes up in six layers.  Applying logs is unfolded into runs,  *)
(* one table after the other.  For each of the four passes over a window   *)
(* an effect says what the logs of one block do to tables that told of the *)
(* contracts before it.  LoopsOK and Alone are inductive invariants of the *)
(* loops.  ChainOK is one of the chain: each block takes the contracts     *)
(* from a state to the next and emits logs of that passage.  LedgerOK adds *)
(* that the tables count every ingested block once, whatever loops         *)
(* overlap.  MatchOK adds that they follow the chain up to the checkpoint  *)
(* while no loop was overlapped by a restart.                              *)
(***************************************************************************)
EXTENDS Ingestion, Sums, SequenceTheorems, TLAPS

-----------------------------------------------------------------------------
(* Applying logs one after the other                                        *)

\* A set of numbers between two numbers has a least member.
LEMMA LeastOf ==
    ASSUME NEW m \in Int, NEW n \in Int, NEW F, F \subseteq m .. n, F # {}
    PROVE  \E j \in F : \A i \in F : j <= i
<1> DEFINE T == {-x : x \in F}
<1>0. \A x \in F : x \in Int /\ m <= x /\ x <= n
  OBVIOUS
<1>1. T \subseteq Int /\ T # {} /\ T \subseteq (-n) .. (-m)
  <2>1. ASSUME NEW y \in T PROVE y \in Int /\ y \in (-n) .. (-m)
    <3>1. PICK x \in F : y = -x
      OBVIOUS
    <3> QED BY <1>0, <3>1
  <2>2. PICK x \in F : TRUE
    OBVIOUS
  <2>3. -x \in T
    BY <2>2
  <2> QED BY <2>1, <2>3
<1>2. IsFiniteSet(T)
  <2>1. IsFiniteSet((-n) .. (-m))
    BY FS_Interval
  <2> QED BY <1>1, <2>1, FS_Subset
<1> HIDE DEF T
<1>3. Max(T) \in T /\ \A x \in T : x <= Max(T)
  BY <1>1, <1>2, MaxOfSet
<1>4. PICK j \in F : Max(T) = -j
  BY <1>3 DEF T
<1>5. \A i \in F : -i \in T
  BY DEF T
<1>6. \A i \in F : j <= i
  BY <1>3, <1>4, <1>5
<1> QED BY <1>6

\* u holds what the first n logs make of p, for every n up to m.
Applies(what, p, logs, m, u) ==
    u = [k \in 0 .. m |-> IF k = 0 THEN p ELSE ApplyLog(what, u[k - 1], logs[k])]

Steps(what, p, logs, m, u) ==
    /\ u[0] = p
    /\ \A k \in 1 .. m : u[k] = ApplyLog(what, u[k - 1], logs[k])

LEMMA AppliesAt ==
    ASSUME NEW what, NEW p, NEW logs, NEW m \in Nat, NEW u, Applies(what, p, logs, m, u)
    PROVE  Steps(what, p, logs, m, u)
<1>1. \A k \in 0 .. m : u[k] = IF k = 0 THEN p ELSE ApplyLog(what, u[k - 1], logs[k])
  BY Zenon DEF Applies
<1>2. 0 \in 0 .. m /\ \A k \in 1 .. m : k \in 0 .. m /\ k # 0
  OBVIOUS
<1> QED BY <1>1, <1>2, Zenon DEF Steps

LEMMA AppliesExists ==
    ASSUME NEW what, NEW p, NEW logs, NEW m \in Nat
    PROVE  \E u : Applies(what, p, logs, m, u)
<1> DEFINE F == {n \in 0 .. m : ~\E u : Applies(what, p, logs, n, u)}
<1> SUFFICES ASSUME F # {} PROVE FALSE
  <2>1. m \in 0 .. m
    OBVIOUS
  <2> QED BY <2>1, Zenon
<1>1. PICK n \in F : \A i \in F : n <= i
  <2>1. F \subseteq 0 .. m /\ 0 \in Int /\ m \in Int
    OBVIOUS
  <2> HIDE DEF F
  <2> QED BY <2>1, LeastOf
<1>2. n \in 0 .. m /\ ~\E u : Applies(what, p, logs, n, u)
  OBVIOUS
<1>3. CASE n = 0
  <2> DEFINE u == [k \in 0 .. 0 |-> p]
  <2>1. \A k \in 0 .. 0 : k = 0
    OBVIOUS
  <2>2. u = [k \in 0 .. 0 |-> IF k = 0 THEN p ELSE ApplyLog(what, u[k - 1], logs[k])]
    BY <2>1, Zenon
  <2>3. Applies(what, p, logs, 0, u)
    BY <2>2, Zenon DEF Applies
  <2> QED BY <1>2, <1>3, <2>3, Zenon
<1>4. CASE n # 0
  <2>1. n - 1 \in 0 .. m /\ n \in Nat /\ ~(n <= n - 1)
    BY <1>2, <1>4
  <2>2. n - 1 \notin F
    BY <1>1, <2>1, Zenon
  <2>3. PICK w : Applies(what, p, logs, n - 1, w)
    BY <2>1, <2>2, Zenon
  <2> DEFINE u == [k \in 0 .. n |-> IF k = n THEN ApplyLog(what, w[n - 1], logs[n]) ELSE w[k]]
  <2>4. \A k \in 0 .. n : k # 0 => k - 1 \in 0 .. n /\ k - 1 # n
    BY <2>1
  <2>5. \A k \in 0 .. n : k # n => k \in 0 .. (n - 1)
    BY <2>1
  <2>6. \A k \in 0 .. (n - 1) : w[k] = IF k = 0 THEN p ELSE ApplyLog(what, w[k - 1], logs[k])
    BY <2>3, Zenon DEF Applies
  <2>7. \A k \in 0 .. n : u[k] = IF k = n THEN ApplyLog(what, w[n - 1], logs[n]) ELSE w[k]
    BY Zenon
  <2>8. \A k \in 0 .. n : u[k] = IF k = 0 THEN p ELSE ApplyLog(what, u[k - 1], logs[k])
    <3> TAKE k \in 0 .. n
    <3> HIDE DEF u
    <3>1. CASE k = n
      <4>1. u[k] = ApplyLog(what, w[n - 1], logs[n]) /\ k # 0 /\ u[k - 1] = w[k - 1]
        BY <1>4, <2>4, <2>7, <3>1, Zenon
      <4> QED BY <3>1, <4>1, Zenon
    <3>2. CASE k # n
      <4>1. u[k] = w[k] /\ k \in 0 .. (n - 1)
        BY <2>5, <2>7, <3>2, Zenon
      <4>2. k # 0 => u[k - 1] = w[k - 1]
        BY <2>4, <2>7, Zenon
      <4> QED BY <2>6, <4>1, <4>2, Zenon
    <3> QED BY <3>1, <3>2, Zenon
  <2>9. u = [k \in 0 .. n |-> IF k = 0 THEN p ELSE ApplyLog(what, u[k - 1], logs[k])]
    <3> DEFINE v == [k \in 0 .. n |-> IF k = 0 THEN p ELSE ApplyLog(what, u[k - 1], logs[k])]
    <3>1. \A k \in 0 .. n : v[k] = u[k]
      BY <2>8, Zenon
    <3>2. u = [k \in 0 .. n |-> u[k]]
      BY Zenon
    <3> QED BY <2>8, <3>2, Zenon
  <2>10. Applies(what, p, logs, n, u)
    BY <2>9, Zenon DEF Applies
  <2> QED BY <1>2, <2>10, Zenon
<1> QED BY <1>3, <1>4

LEMMA AppliesLast ==
    ASSUME NEW what, NEW p, NEW logs, Len(logs) \in Nat
    PROVE  \E u : Applies(what, p, logs, Len(logs), u) /\ ApplyLogs(what, p, logs) = u[Len(logs)]
<1> DEFINE u == CHOOSE x : Applies(what, p, logs, Len(logs), x)
<1>1. Applies(what, p, logs, Len(logs), u)
  BY AppliesExists, Zenon
<1>2. ApplyLogs(what, p, logs) = u[Len(logs)]
  BY Zenon DEF ApplyLogs, Applies
<1> QED BY <1>1, <1>2, Zenon

\* Logs that begin alike make the same of p so far.
LEMMA AppliesAlike ==
    ASSUME NEW what, NEW p, NEW logs, NEW more, NEW m \in Nat, NEW n \in Nat, m <= n,
           NEW u, Applies(what, p, logs, m, u), NEW w, Applies(what, p, more, n, w),
           \A k \in 1 .. m : logs[k] = more[k]
    PROVE  u[m] = w[m]
<1> DEFINE F == {k \in 0 .. m : u[k] # w[k]}
<1> SUFFICES ASSUME F # {} PROVE FALSE
  <2>1. m \in 0 .. m
    OBVIOUS
  <2> QED BY <2>1, Zenon
<1>1. PICK k \in F : \A i \in F : k <= i
  <2>1. F \subseteq 0 .. m /\ 0 \in Int /\ m \in Int
    OBVIOUS
  <2> HIDE DEF F
  <2> QED BY <2>1, LeastOf
<1>2. k \in 0 .. m /\ u[k] # w[k]
  OBVIOUS
<1> HIDE DEF F
<1>7. Steps(what, p, logs, m, u) /\ Steps(what, p, more, n, w)
  BY AppliesAt
<1>3. k # 0
  BY <1>2, <1>7, Zenon DEF Steps
<1>4. k \in 1 .. m /\ k \in 1 .. n /\ k - 1 \in 0 .. m /\ ~(k <= k - 1)
  BY <1>2, <1>3
<1>5. u[k - 1] = w[k - 1]
  BY <1>1, <1>4, Zenon DEF F
<1>6. u[k] = ApplyLog(what, u[k - 1], logs[k]) /\ w[k] = ApplyLog(what, w[k - 1], more[k])
  BY <1>4, <1>7, Zenon DEF Steps
<1> QED BY <1>2, <1>4, <1>5, <1>6, Zenon

LEMMA ApplyNone ==
    ASSUME NEW what, NEW p
    PROVE  ApplyLogs(what, p, <<>>) = p
<1>1. Len(<<>>) = 0 /\ Len(<<>>) \in Nat
  OBVIOUS
<1>2. PICK u : Applies(what, p, <<>>, 0, u) /\ ApplyLogs(what, p, <<>>) = u[0]
  BY <1>1, AppliesLast, Zenon
<1>3. 0 \in Nat
  OBVIOUS
<1>4. Steps(what, p, <<>>, 0, u)
  BY <1>2, <1>3, AppliesAt
<1> QED BY <1>2, <1>4, Zenon DEF Steps

\* more is logs and then e.
Longer(logs, more, e) ==
    /\ Len(logs) \in Nat /\ Len(more) = Len(logs) + 1 /\ more[Len(more)] = e
    /\ \A k \in 1 .. Len(logs) : logs[k] = more[k]

LEMMA ApplyOneMore ==
    ASSUME NEW what, NEW p, NEW logs, NEW more, NEW e, Longer(logs, more, e)
    PROVE  ApplyLogs(what, p, more) = ApplyLog(what, ApplyLogs(what, p, logs), e)
<1> DEFINE m == Len(logs)
           n == Len(more)
<1>1. n \in Nat /\ m <= n /\ n \in 1 .. n /\ n - 1 = m /\ m \in Nat
  BY DEF Longer
<1>0. more[n] = e /\ \A k \in 1 .. m : logs[k] = more[k]
  BY DEF Longer
<1>2. PICK u : Applies(what, p, logs, m, u) /\ ApplyLogs(what, p, logs) = u[m]
  BY <1>1, AppliesLast, Zenon
<1>3. PICK w : Applies(what, p, more, n, w) /\ ApplyLogs(what, p, more) = w[n]
  BY <1>1, AppliesLast, Zenon
<1> HIDE DEF m, n
<1>4. u[m] = w[m]
  BY <1>0, <1>1, <1>2, <1>3, AppliesAlike
<1>7. Steps(what, p, more, n, w)
  BY <1>1, <1>3, AppliesAt
<1>5. w[n] = ApplyLog(what, w[n - 1], more[n])
  BY <1>1, <1>7, Zenon DEF Steps
<1>6. ApplyLogs(what, p, more) = ApplyLog(what, u[m], e)
  BY <1>0, <1>1, <1>3, <1>4, <1>5, Zenon
<1> QED BY <1>2, <1>6, Zenon DEF m

LEMMA ApplyOne ==
    ASSUME NEW what, NEW p, NEW e
    PROVE  ApplyLogs(what, p, <<e>>) = ApplyLog(what, p, e)
<1>1. Longer(<<>>, <<e>>, e)
  BY DEF Longer
<1>2. ApplyLogs(what, p, <<e>>) = ApplyLog(what, ApplyLogs(what, p, <<>>), e)
  BY <1>1, ApplyOneMore
<1> QED BY <1>2, ApplyNone

LEMMA ApplyTwo ==
    ASSUME NEW what, NEW p, NEW e, NEW f
    PROVE  ApplyLogs(what, p, <<e, f>>) = ApplyLog(what, ApplyLog(what, p, e), f)
<1>1. Longer(<<e>>, <<e, f>>, f)
  BY DEF Longer
<1>2. ApplyLogs(what, p, <<e, f>>) = ApplyLog(what, ApplyLogs(what, p, <<e>>), f)
  BY <1>1, ApplyOneMore
<1> QED BY <1>2, ApplyOne

LEMMA ApplyThree ==
    ASSUME NEW what, NEW p, NEW e, NEW f, NEW g
    PROVE  ApplyLogs(what, p, <<e, f, g>>) = ApplyLog(what, ApplyLog(what, ApplyLog(what, p, e), f), g)
<1>1. Longer(<<e, f>>, <<e, f, g>>, g)
  BY DEF Longer
<1>2. ApplyLogs(what, p, <<e, f, g>>) = ApplyLog(what, ApplyLogs(what, p, <<e, f>>), g)
  BY <1>1, ApplyOneMore
<1> QED BY <1>2, ApplyTwo

-----------------------------------------------------------------------------
(* Applying the blocks of a window                                          *)

\* u holds what a source's logs make of p up to each block of a window.
BlocksTo(what, p, from, to, u) ==
    u = [b \in from - 1 .. to |->
            IF b = from - 1 THEN p ELSE ApplyLogs(what, u[b - 1], chain[b][Source[what]])]

LEMMA BlocksExist ==
    ASSUME NEW what, NEW p, NEW from \in Int, NEW to \in Int, from - 1 <= to
    PROVE  \E u : BlocksTo(what, p, from, to, u)
<1> DEFINE o == from - 1
           F == {n \in o .. to : ~\E u : BlocksTo(what, p, from, n, u)}
<1> SUFFICES ASSUME F # {} PROVE FALSE
  <2>1. to \in o .. to
    OBVIOUS
  <2> QED BY <2>1, Zenon
<1>1. PICK n \in F : \A i \in F : n <= i
  <2>1. F \subseteq o .. to /\ o \in Int /\ to \in Int
    OBVIOUS
  <2> HIDE DEF F
  <2> QED BY <2>1, LeastOf
<1>2. n \in o .. to /\ ~\E u : BlocksTo(what, p, from, n, u)
  OBVIOUS
<1>3. CASE n = o
  <2> DEFINE u == [k \in o .. o |-> p]
  <2>1. \A k \in o .. o : k = o
    OBVIOUS
  <2>2. u = [k \in o .. o |-> IF k = o THEN p ELSE ApplyLogs(what, u[k - 1], chain[k][Source[what]])]
    BY <2>1, Zenon
  <2>3. BlocksTo(what, p, from, o, u)
    BY <2>2, Zenon DEF BlocksTo
  <2> QED BY <1>2, <1>3, <2>3, Zenon
<1>4. CASE n # o
  <2>1. n - 1 \in o .. to /\ n \in Int /\ ~(n <= n - 1)
    BY <1>2, <1>4
  <2>2. n - 1 \notin F
    BY <1>1, <2>1, Zenon
  <2>3. PICK w : BlocksTo(what, p, from, n - 1, w)
    BY <2>1, <2>2, Zenon
  <2> DEFINE u == [k \in o .. n |-> IF k = n THEN ApplyLogs(what, w[n - 1], chain[n][Source[what]]) ELSE w[k]]
  <2>4. \A k \in o .. n : k # o => k - 1 \in o .. n /\ k - 1 # n
    BY <2>1
  <2>5. \A k \in o .. n : k # n => k \in o .. (n - 1)
    BY <2>1
  <2>6. \A k \in o .. (n - 1) : w[k] = IF k = o THEN p ELSE ApplyLogs(what, w[k - 1], chain[k][Source[what]])
    BY <2>3, Zenon DEF BlocksTo
  <2>7. \A k \in o .. n : u[k] = IF k = n THEN ApplyLogs(what, w[n - 1], chain[n][Source[what]]) ELSE w[k]
    BY Zenon
  <2>8. \A k \in o .. n : u[k] = IF k = o THEN p ELSE ApplyLogs(what, u[k - 1], chain[k][Source[what]])
    <3> TAKE k \in o .. n
    <3> HIDE DEF u
    <3>1. CASE k = n
      <4>1. u[k] = ApplyLogs(what, w[n - 1], chain[n][Source[what]]) /\ k # o /\ u[k - 1] = w[k - 1]
        BY <1>4, <2>4, <2>7, <3>1, Zenon
      <4> QED BY <3>1, <4>1, Zenon
    <3>2. CASE k # n
      <4>1. u[k] = w[k] /\ k \in o .. (n - 1)
        BY <2>5, <2>7, <3>2, Zenon
      <4>2. k # o => u[k - 1] = w[k - 1]
        BY <2>4, <2>7, Zenon
      <4> QED BY <2>6, <4>1, <4>2, Zenon
    <3> QED BY <3>1, <3>2, Zenon
  <2>9. u = [k \in o .. n |-> IF k = o THEN p ELSE ApplyLogs(what, u[k - 1], chain[k][Source[what]])]
    <3> DEFINE v == [k \in o .. n |-> IF k = o THEN p ELSE ApplyLogs(what, u[k - 1], chain[k][Source[what]])]
    <3>1. \A k \in o .. n : v[k] = u[k]
      BY <2>8, Zenon
    <3>2. u = [k \in o .. n |-> u[k]]
      BY Zenon
    <3> QED BY <2>8, <3>2, Zenon
  <2>10. BlocksTo(what, p, from, n, u)
    BY <2>9, Zenon DEF BlocksTo
  <2> QED BY <1>2, <2>10, Zenon
<1> QED BY <1>3, <1>4

\* The run of a source through a window: p first, then what each block makes of it.
Run(what, p, from, to, u) ==
    /\ u[from - 1] = p
    /\ \A b \in from .. to : u[b] = ApplyLogs(what, u[b - 1], chain[b][Source[what]])

LEMMA BlocksRun ==
    ASSUME NEW what, NEW p, NEW from \in Int, NEW to \in Int, from - 1 <= to
    PROVE  \E u : Run(what, p, from, to, u) /\ ApplyBlocks(what, p, from, to) = u[to]
<1> DEFINE u == CHOOSE x : BlocksTo(what, p, from, to, x)
<1>1. BlocksTo(what, p, from, to, u)
  BY BlocksExist, Zenon
<1>2. ApplyBlocks(what, p, from, to) = u[to]
  BY Zenon DEF ApplyBlocks, BlocksTo
<1> HIDE DEF u
<1>3. \A b \in from - 1 .. to :
         u[b] = IF b = from - 1 THEN p ELSE ApplyLogs(what, u[b - 1], chain[b][Source[what]])
  BY <1>1, Zenon DEF BlocksTo
<1>4. from - 1 \in from - 1 .. to /\ \A b \in from .. to : b \in from - 1 .. to /\ b # from - 1
  OBVIOUS
<1>5. Run(what, p, from, to, u)
  BY <1>3, <1>4, Zenon DEF Run
<1> QED BY <1>2, <1>5, Zenon

-----------------------------------------------------------------------------
(* What a log does                                                          *)

BondRows == [disabled : BOOLEAN, offering : Int, supply : Int, maturityDuration : Int, maturityDate : Int,
             lastPayment : Int, count : Int, matured : BOOLEAN, issued : BOOLEAN]
Statuses == {"none", "open", "closed", "finalised", "cancelled"}
Types    == {"none", "RATE", "PRICE", "BUYBACK"}
AuctionRows == [status : Statuses, type : Types, bids : Seq(Holders),
                allocations : Seq([bidder : Holders, units : Nat])]
Tables == [listed : BOOLEAN, hidden : BOOLEAN, bond : BondRows, auction : [1 .. MaxAuctions -> AuctionRows],
           bal : [Owners -> Int], applied : SUBSET Int, history : SUBSET [block : Nat, logIndex : Nat],
           failed : BOOLEAN]

\* The parts of the tables that a log may leave alone
SameBonds(p, q)    == q.bond = p.bond
SameAuctions(p, q) == q.auction = p.auction
SameFlags(p, q)    == q.listed = p.listed /\ q.hidden = p.hidden
SameMoney(p, q)    == q.bal = p.bal /\ q.applied = p.applied /\ q.failed = p.failed

Places(e) == HistoryRow(e) \in [block : Nat, logIndex : Nat]
Notes(p, q, e) == q.history = p.history \cup {HistoryRow(e)}

LEMMA RecordedLog ==
    ASSUME NEW p \in Tables, NEW e, Places(e)
    PROVE  /\ Recorded(p, e) \in Tables /\ Notes(p, Recorded(p, e), e)
           /\ SameBonds(p, Recorded(p, e)) /\ SameAuctions(p, Recorded(p, e))
           /\ SameFlags(p, Recorded(p, e)) /\ SameMoney(p, Recorded(p, e))
<1>1. p.history \cup {HistoryRow(e)} \in SUBSET [block : Nat, logIndex : Nat]
  BY DEF Places, Tables
<1> QED BY <1>1 DEF Recorded, Tables, Notes, SameBonds, SameAuctions, SameFlags, SameMoney

\* Rows of p and q agree on what bidders bid and got.
SameBids(p, q) ==
    \A n \in 1 .. MaxAuctions : /\ q.auction[n].bids = p.auction[n].bids
                                /\ q.auction[n].allocations = p.auction[n].allocations

\* Auction n of q is of this type and status; the others are those of p.
OtherRows(p, q, n) == \A m \in (1 .. MaxAuctions) \ {n} : q.auction[m] = p.auction[m]
RowIs(p, q, n, type, status) ==
    q.auction[n].type = type /\ q.auction[n].status = status /\ OtherRows(p, q, n)

LEMMA StatusSet ==
    ASSUME NEW p \in Tables, NEW n \in 1 .. MaxAuctions, NEW status \in Statuses,
           NEW q, q = SetAuctionStatus(p, n, status)
    PROVE  /\ q \in Tables /\ SameBonds(p, q) /\ SameFlags(p, q) /\ SameMoney(p, q) /\ SameBids(p, q)
           /\ q.history = p.history /\ RowIs(p, q, n, p.auction[n].type, status)
<1> DEFINE row == [p.auction[n] EXCEPT !.status = status]
           rows == [p.auction EXCEPT ![n] = row]
<1>1. p.auction \in [1 .. MaxAuctions -> AuctionRows] /\ p.auction[n] \in AuctionRows
  BY DEF Tables
<1>2. /\ row \in AuctionRows /\ row.status = status /\ row.type = p.auction[n].type
      /\ row.bids = p.auction[n].bids /\ row.allocations = p.auction[n].allocations
  BY <1>1 DEF AuctionRows
<1> HIDE DEF row
<1>3. rows \in [1 .. MaxAuctions -> AuctionRows] /\ rows[n] = row /\ \A m \in (1 .. MaxAuctions) \ {n} : rows[m] = p.auction[m]
  BY <1>1, <1>2
<1>4. q = [p EXCEPT !.auction = rows]
  BY DEF SetAuctionStatus, row, Tables
<1> HIDE DEF rows
<1>5. /\ q \in Tables /\ q.auction = rows /\ SameBonds(p, q) /\ SameFlags(p, q) /\ SameMoney(p, q)
      /\ q.history = p.history
  BY <1>3, <1>4 DEF Tables, SameBonds, SameFlags, SameMoney
<1>6. RowIs(p, q, n, p.auction[n].type, status) /\ SameBids(p, q)
  BY <1>2, <1>3, <1>5 DEF RowIs, SameBids, OtherRows
<1> QED BY <1>5, <1>6

LEMMA AuctionUpserted ==
    ASSUME NEW p \in Tables, NEW n \in 1 .. MaxAuctions, NEW type \in Types \ {"none"},
           NEW q, q = UpsertAuctionEvent(p, n, type)
    PROVE  /\ q \in Tables /\ SameBonds(p, q) /\ SameFlags(p, q) /\ SameMoney(p, q) /\ SameBids(p, q)
           /\ q.history = p.history /\ OtherRows(p, q, n)
           /\ p.auction[n].type \in {"none", type} => RowIs(p, q, n, type, p.auction[n].status)
<1> DEFINE kept == IF p.auction[n].type = "none" THEN type ELSE p.auction[n].type
           row == [p.auction[n] EXCEPT !.type = kept]
           rows == [p.auction EXCEPT ![n] = row]
<1>1. p.auction \in [1 .. MaxAuctions -> AuctionRows] /\ p.auction[n] \in AuctionRows
  BY DEF Tables
<1>2. kept \in Types /\ (p.auction[n].type \in {"none", type} => kept = type)
  BY <1>1 DEF AuctionRows, Types
<1>3. q = [p EXCEPT !.auction = rows]
  BY DEF UpsertAuctionEvent, Tables
<1> HIDE DEF kept
<1>4. /\ row \in AuctionRows /\ row.type = kept /\ row.status = p.auction[n].status
      /\ row.bids = p.auction[n].bids /\ row.allocations = p.auction[n].allocations
  BY <1>1, <1>2 DEF AuctionRows
<1> HIDE DEF row
<1>5. rows \in [1 .. MaxAuctions -> AuctionRows] /\ rows[n] = row /\ \A m \in (1 .. MaxAuctions) \ {n} : rows[m] = p.auction[m]
  BY <1>1, <1>4
<1> HIDE DEF rows
<1>6. /\ q \in Tables /\ q.auction = rows /\ SameBonds(p, q) /\ SameFlags(p, q) /\ SameMoney(p, q)
      /\ q.history = p.history
  BY <1>3, <1>5 DEF Tables, SameBonds, SameFlags, SameMoney
<1>7. SameBids(p, q) /\ OtherRows(p, q, n) /\ (p.auction[n].type \in {"none", type} => RowIs(p, q, n, type, p.auction[n].status))
  BY <1>2, <1>4, <1>5, <1>6 DEF RowIs, SameBids, OtherRows
<1> QED BY <1>6, <1>7

LEMMA Flagged ==
    ASSUME NEW p \in Tables
    PROVE  /\ LET q == SetPartitionDisabled(UpsertPartition(p), FALSE)
              IN  /\ q \in Tables /\ SameBonds(p, q) /\ SameAuctions(p, q) /\ SameMoney(p, q)
                  /\ q.history = p.history /\ q.listed /\ ~q.hidden
           /\ LET q == SetPartitionDisabled(p, TRUE)
              IN  /\ q \in Tables /\ SameBonds(p, q) /\ SameAuctions(p, q) /\ SameMoney(p, q)
                  /\ q.history = p.history /\ q.listed = p.listed /\ q.hidden = p.listed
BY DEF SetPartitionDisabled, UpsertPartition, Tables, SameBonds, SameAuctions, SameMoney

LEMMA StateSaved ==
    ASSUME NEW p \in Tables, NEW state \in BondRows, NEW q, q = ApplyBondStateEvent(p, state)
    PROVE  /\ q \in Tables /\ q.bond = state /\ SameFlags(p, q) /\ SameAuctions(p, q) /\ SameMoney(p, q)
           /\ q.history = p.history
BY DEF ApplyBondStateEvent, Tables, SameFlags, SameAuctions, SameMoney

\* What the manager's logs have in common: they leave money and bids alone.
Managed(p, q, e) == q \in Tables /\ SameMoney(p, q) /\ SameBids(p, q) /\ Notes(p, q, e)

LEMMA SameAuctionsBids ==
    ASSUME NEW p, NEW q, SameAuctions(p, q)
    PROVE  SameBids(p, q)
BY DEF SameAuctions, SameBids

\* The three parts of ApplyManager
LEMMA OtherLogs ==
    ASSUME NEW p, NEW e
    PROVE  /\ e.event \in {"BondIssuanceComplete", "BondCreated", "BondDisabled", "CouponPaid", "CouponPeriodPaid",
                           "BondMatured", "BondRedeemed"} => ApplyAuctionStatus(p, e) = p
           /\ e.event \notin {"CouponPaid", "CouponPeriodPaid", "BondMatured"} => ApplyCoupon(p, e) = p
           /\ e.event \notin {"BondIssuanceComplete", "BondCreated", "BondDisabled"} => ApplyBondLife(p, e) = p
<1>1. e.event \in {"BondIssuanceComplete", "BondCreated", "BondDisabled", "CouponPaid", "CouponPeriodPaid",
                   "BondMatured", "BondRedeemed"} => ApplyAuctionStatus(p, e) = p
  BY DEF ApplyAuctionStatus
<1>2. e.event \notin {"CouponPaid", "CouponPeriodPaid", "BondMatured"} => ApplyCoupon(p, e) = p
  BY DEF ApplyCoupon
<1>3. e.event \notin {"BondIssuanceComplete", "BondCreated", "BondDisabled"} => ApplyBondLife(p, e) = p
  BY DEF ApplyBondLife
<1> QED BY <1>1, <1>2, <1>3

LEMMA NewRow ==
    /\ ReduceCreated \in BondRows /\ ReduceCreated.maturityDuration = Periods
    /\ ReduceCreated.offering = 0 /\ ReduceCreated.supply = 0 /\ ReduceCreated.maturityDate = 0
    /\ ReduceCreated.lastPayment = 0 /\ ReduceCreated.count = 0 /\ ~ReduceCreated.matured /\ ~ReduceCreated.issued
<1>1. Periods \in Int
  BY BondChainAssumption
<1>2. /\ EmptyBondState \in BondRows /\ EmptyBondState.offering = 0 /\ EmptyBondState.supply = 0
      /\ EmptyBondState.maturityDate = 0 /\ EmptyBondState.lastPayment = 0 /\ EmptyBondState.count = 0
      /\ ~EmptyBondState.matured /\ ~EmptyBondState.issued
  BY DEF EmptyBondState, BondRows
<1> QED BY <1>1, <1>2 DEF ReduceCreated, BondRows

LEMMA CreatedLog ==
    ASSUME NEW p \in Tables, NEW e, Places(e), e.event = "BondCreated", NEW q, q = ApplyManager(p, e)
    PROVE  Managed(p, q, e) /\ SameAuctions(p, q) /\ q.listed /\ ~q.hidden /\ q.bond = ReduceCreated
<1>1. ApplyAuctionStatus(p, e) = p /\ ApplyCoupon(p, e) = p
  BY OtherLogs
<1> DEFINE u == SetPartitionDisabled(UpsertPartition(p), FALSE)
           v == ApplyBondStateEvent(u, ReduceCreated)
<1>2. ApplyBondLife(p, e) = v
  BY DEF ApplyBondLife
<1>3. u \in Tables /\ SameAuctions(p, u) /\ SameMoney(p, u) /\ u.history = p.history /\ u.listed /\ ~u.hidden
  BY Flagged
<1> HIDE DEF u
<1>4. ReduceCreated \in BondRows
  BY NewRow
<1>5. v \in Tables /\ v.bond = ReduceCreated /\ SameFlags(u, v) /\ SameAuctions(u, v) /\ SameMoney(u, v)
      /\ v.history = u.history
  BY <1>3, <1>4, StateSaved
<1>6. q = Recorded(v, e)
  BY <1>1, <1>2 DEF ApplyManager, Unprojected
<1> HIDE DEF v
<1>7. /\ q \in Tables /\ Notes(v, q, e) /\ SameBonds(v, q) /\ SameAuctions(v, q) /\ SameFlags(v, q) /\ SameMoney(v, q)
  BY <1>5, <1>6, RecordedLog
<1>8. /\ q.listed /\ ~q.hidden /\ q.bond = ReduceCreated /\ SameAuctions(p, q) /\ SameMoney(p, q) /\ Notes(p, q, e)
  BY <1>3, <1>5, <1>7 DEF Notes, SameBonds, SameAuctions, SameFlags, SameMoney
<1> QED BY <1>7, <1>8, SameAuctionsBids DEF Managed

LEMMA OpenedLog ==
    ASSUME NEW p \in Tables, NEW e, Places(e), NEW type \in {"RATE", "PRICE", "BUYBACK"},
           e.event = Initialised[type], NEW n \in 1 .. MaxAuctions, e.v = n, NEW q, q = ApplyManager(p, e)
    PROVE  /\ Managed(p, q, e) /\ SameBonds(p, q) /\ q.listed /\ ~q.hidden /\ OtherRows(p, q, n)
           /\ p.auction[n].type \in {"none", type} => RowIs(p, q, n, type, "open")
<1>1. \/ type = "RATE" /\ e.event = "BondAuctionInitialised"
      \/ type = "PRICE" /\ e.event = "BondExtensionAuctionInitialised"
      \/ type = "BUYBACK" /\ e.event = "BondBuybackAuctionInitialised"
  BY DEF Initialised
<1> DEFINE u == SetPartitionDisabled(UpsertPartition(p), FALSE)
           v == UpsertAuctionEvent(u, n, type)
           w == SetAuctionStatus(v, n, "open")
<1>2. ApplyAuctionStatus(p, e) = w
  <2>1. ApplyAuctionStatus(p, e) = Opened(p, n, type)
    BY <1>1 DEF ApplyAuctionStatus
  <2> QED BY <2>1 DEF Opened
<1>3. u \in Tables /\ SameBonds(p, u) /\ SameAuctions(p, u) /\ SameMoney(p, u) /\ u.history = p.history
      /\ u.listed /\ ~u.hidden
  BY Flagged
<1> HIDE DEF u
<1>4. type \in Types \ {"none"}
  BY DEF Types
<1>5. /\ v \in Tables /\ SameBonds(u, v) /\ SameFlags(u, v) /\ SameMoney(u, v) /\ SameBids(u, v) /\ v.history = u.history
      /\ OtherRows(u, v, n)
      /\ u.auction[n].type \in {"none", type} => RowIs(u, v, n, type, u.auction[n].status)
  BY <1>3, <1>4, AuctionUpserted
<1> HIDE DEF v
<1>6. "open" \in Statuses
  BY DEF Statuses
<1>7. /\ w \in Tables /\ SameBonds(v, w) /\ SameFlags(v, w) /\ SameMoney(v, w) /\ SameBids(v, w) /\ w.history = v.history
      /\ RowIs(v, w, n, v.auction[n].type, "open")
  BY <1>5, <1>6, StatusSet
<1> HIDE DEF w
<1>8. q = Recorded(w, e)
  <2>1. ApplyCoupon(w, e) = w /\ ApplyBondLife(w, e) = w
    BY <1>1, OtherLogs
  <2>2. e.event \notin Unprojected
    BY <1>1 DEF Unprojected
  <2> QED BY <1>2, <2>1, <2>2 DEF ApplyManager
<1>9. /\ q \in Tables /\ Notes(w, q, e) /\ SameBonds(w, q) /\ SameAuctions(w, q) /\ SameFlags(w, q) /\ SameMoney(w, q)
  BY <1>7, <1>8, RecordedLog
<1>10. /\ q.listed /\ ~q.hidden /\ SameBonds(p, q) /\ SameMoney(p, q) /\ Notes(p, q, e)
  BY <1>3, <1>5, <1>7, <1>9 DEF Notes, SameBonds, SameFlags, SameMoney
<1>11. SameBids(p, q)
  BY <1>3, <1>5, <1>7, <1>9 DEF SameBids, SameAuctions
<1>12. OtherRows(p, q, n) /\ (p.auction[n].type \in {"none", type} => RowIs(p, q, n, type, "open"))
  BY <1>3, <1>5, <1>7, <1>9 DEF RowIs, SameAuctions, OtherRows
<1> QED BY <1>9, <1>10, <1>11, <1>12 DEF Managed

StatusAfter(event) ==
    CASE event = "BondAuctionClosed" -> "closed" [] event = "BondAuctionFinalised" -> "finalised"
      [] event = "BondAuctionCancelled" -> "cancelled"

LEMMA StatusLog ==
    ASSUME NEW p \in Tables, NEW e, Places(e),
           e.event \in {"BondAuctionClosed", "BondAuctionFinalised", "BondAuctionCancelled"},
           NEW n \in 1 .. MaxAuctions, e.v = n, NEW q, q = ApplyManager(p, e)
    PROVE  /\ Managed(p, q, e) /\ SameBonds(p, q) /\ SameFlags(p, q)
           /\ RowIs(p, q, n, p.auction[n].type, StatusAfter(e.event))
<1> DEFINE status == StatusAfter(e.event)
           w == SetAuctionStatus(p, n, status)
<1>1. status \in Statuses /\ ApplyAuctionStatus(p, e) = w
  BY DEF StatusAfter, ApplyAuctionStatus, Statuses
<1> HIDE DEF status
<1>2. /\ w \in Tables /\ SameBonds(p, w) /\ SameFlags(p, w) /\ SameMoney(p, w) /\ SameBids(p, w) /\ w.history = p.history
      /\ RowIs(p, w, n, p.auction[n].type, status)
  BY <1>1, StatusSet
<1> HIDE DEF w
<1>3. q = Recorded(w, e)
  <2>1. ApplyCoupon(w, e) = w /\ ApplyBondLife(w, e) = w
    BY OtherLogs
  <2> QED BY <1>1, <2>1 DEF ApplyManager, Unprojected
<1>4. /\ q \in Tables /\ Notes(w, q, e) /\ SameBonds(w, q) /\ SameAuctions(w, q) /\ SameFlags(w, q) /\ SameMoney(w, q)
  BY <1>2, <1>3, RecordedLog
<1>5. /\ SameBonds(p, q) /\ SameFlags(p, q) /\ SameMoney(p, q) /\ Notes(p, q, e)
  BY <1>2, <1>4 DEF Notes, SameBonds, SameFlags, SameMoney
<1>6. SameBids(p, q)
  BY <1>2, <1>4 DEF SameBids, SameAuctions
<1>7. RowIs(p, q, n, p.auction[n].type, status)
  BY <1>2, <1>4 DEF RowIs, OtherRows, SameAuctions
<1> QED BY <1>4, <1>5, <1>6, <1>7 DEF Managed, status

\* The logs that only save another state of the bond
LEMMA SavedLog ==
    ASSUME NEW p \in Tables, NEW e, Places(e), NEW state \in BondRows,
           NEW q, q = Recorded(ApplyBondStateEvent(p, state), e)
    PROVE  Managed(p, q, e) /\ SameFlags(p, q) /\ SameAuctions(p, q) /\ q.bond = state
<1> DEFINE v == ApplyBondStateEvent(p, state)
<1>1. v \in Tables /\ v.bond = state /\ SameFlags(p, v) /\ SameAuctions(p, v) /\ SameMoney(p, v) /\ v.history = p.history
  BY StateSaved
<1> HIDE DEF v
<1>2. /\ q \in Tables /\ Notes(v, q, e) /\ SameBonds(v, q) /\ SameAuctions(v, q) /\ SameFlags(v, q) /\ SameMoney(v, q)
  BY <1>1, RecordedLog DEF v
<1>3. /\ q.bond = state /\ SameFlags(p, q) /\ SameAuctions(p, q) /\ SameMoney(p, q) /\ Notes(p, q, e)
  BY <1>1, <1>2 DEF Notes, SameBonds, SameFlags, SameMoney, SameAuctions
<1> QED BY <1>2, <1>3, SameAuctionsBids DEF Managed

LEMMA CouponLog ==
    ASSUME NEW p \in Tables, NEW e, Places(e), e.event \in {"CouponPaid", "CouponPeriodPaid"},
           e.v \in Int, e.block \in Int, NEW q, q = ApplyManager(p, e)
    PROVE  /\ Managed(p, q, e) /\ SameFlags(p, q) /\ SameAuctions(p, q)
           /\ q.bond = ReduceCouponPaid(p.bond, e.v, e.block)
<1> DEFINE state == ReduceCouponPaid(p.bond, e.v, e.block)
<1>1. state \in BondRows
  <2>1. p.bond \in BondRows
    BY DEF Tables
  <2> QED BY <2>1 DEF ReduceCouponPaid, BondRows
<1>2. ApplyAuctionStatus(p, e) = p /\ ApplyCoupon(p, e) = ApplyBondStateEvent(p, state)
  BY OtherLogs DEF ApplyCoupon
<1> HIDE DEF state
<1>3. q = Recorded(ApplyBondStateEvent(p, state), e)
  <2> DEFINE v == ApplyBondStateEvent(p, state)
  <2>1. ApplyBondLife(v, e) = v
    <3> HIDE DEF v
    <3> QED BY OtherLogs
  <2> QED BY <1>2, <2>1 DEF ApplyManager, Unprojected
<1> QED BY <1>1, <1>3, SavedLog DEF state

LEMMA MaturedLog ==
    ASSUME NEW p \in Tables, NEW e, Places(e), e.event = "BondMatured", NEW q, q = ApplyManager(p, e)
    PROVE  /\ Managed(p, q, e) /\ SameFlags(p, q) /\ SameAuctions(p, q)
           /\ q.bond = [p.bond EXCEPT !.matured = TRUE]
<1> DEFINE state == [p.bond EXCEPT !.matured = TRUE]
<1>1. state \in BondRows
  <2>1. p.bond \in BondRows
    BY DEF Tables
  <2> QED BY <2>1 DEF BondRows
<1>2. ApplyAuctionStatus(p, e) = p /\ ApplyCoupon(p, e) = ApplyBondStateEvent(p, state)
  BY OtherLogs DEF ApplyCoupon
<1> HIDE DEF state
<1>3. q = Recorded(ApplyBondStateEvent(p, state), e)
  <2> DEFINE v == ApplyBondStateEvent(p, state)
  <2>1. ApplyBondLife(v, e) = v
    <3> HIDE DEF v
    <3> QED BY OtherLogs
  <2> QED BY <1>2, <2>1 DEF ApplyManager, Unprojected
<1> QED BY <1>1, <1>3, SavedLog DEF state

LEMMA IssuedLog ==
    ASSUME NEW p \in Tables, NEW e, Places(e), e.event = "BondIssuanceComplete", NEW q, q = ApplyManager(p, e)
    PROVE  /\ Managed(p, q, e) /\ SameFlags(p, q) /\ SameAuctions(p, q)
           /\ q.bond = [p.bond EXCEPT !.issued = TRUE]
<1> DEFINE state == [p.bond EXCEPT !.issued = TRUE]
<1>1. state \in BondRows
  <2>1. p.bond \in BondRows
    BY DEF Tables
  <2> QED BY <2>1 DEF BondRows
<1>2. ApplyAuctionStatus(p, e) = p /\ ApplyCoupon(p, e) = p /\ ApplyBondLife(p, e) = ApplyBondStateEvent(p, state)
  BY OtherLogs DEF ApplyBondLife
<1>3. q = Recorded(ApplyBondStateEvent(p, state), e)
  BY <1>2 DEF ApplyManager, Unprojected
<1> HIDE DEF state
<1> QED BY <1>1, <1>3, SavedLog DEF state

LEMMA DisabledLog ==
    ASSUME NEW p \in Tables, NEW e, Places(e), e.event = "BondDisabled", NEW q, q = ApplyManager(p, e)
    PROVE  /\ Managed(p, q, e) /\ SameAuctions(p, q) /\ q.listed = p.listed /\ q.hidden = p.listed
           /\ q.bond = [p.bond EXCEPT !.disabled = TRUE]
<1> DEFINE state == [p.bond EXCEPT !.disabled = TRUE]
           u == SetPartitionDisabled(p, TRUE)
<1>1. state \in BondRows
  <2>1. p.bond \in BondRows
    BY DEF Tables
  <2> QED BY <2>1 DEF BondRows
<1>2. u \in Tables /\ SameAuctions(p, u) /\ SameMoney(p, u) /\ u.history = p.history
      /\ u.listed = p.listed /\ u.hidden = p.listed
  BY Flagged
<1>3. ApplyAuctionStatus(p, e) = p /\ ApplyCoupon(p, e) = p /\ ApplyBondLife(p, e) = ApplyBondStateEvent(u, state)
  BY OtherLogs DEF ApplyBondLife
<1>4. q = Recorded(ApplyBondStateEvent(u, state), e)
  BY <1>3 DEF ApplyManager, Unprojected
<1> HIDE DEF state, u
<1>5. Managed(u, q, e) /\ SameFlags(u, q) /\ SameAuctions(u, q) /\ q.bond = state
  BY <1>1, <1>2, <1>4, SavedLog
<1>6. /\ SameAuctions(p, q) /\ q.listed = p.listed /\ q.hidden = p.listed /\ SameMoney(p, q) /\ Notes(p, q, e)
      /\ q \in Tables
  BY <1>2, <1>5 DEF Notes, SameFlags, SameMoney, SameAuctions, Managed
<1> QED BY <1>5, <1>6, SameAuctionsBids DEF Managed, state

LEMMA RedeemedLog ==
    ASSUME NEW p \in Tables, NEW e, Places(e), e.event = "BondRedeemed", NEW q, q = ApplyManager(p, e)
    PROVE  Managed(p, q, e) /\ SameFlags(p, q) /\ SameAuctions(p, q) /\ q.bond = p.bond
<1>1. ApplyAuctionStatus(p, e) = p /\ ApplyCoupon(p, e) = p /\ ApplyBondLife(p, e) = p
  BY OtherLogs
<1>2. q = Recorded(p, e)
  BY <1>1 DEF ApplyManager, Unprojected
<1>3. /\ q \in Tables /\ Notes(p, q, e) /\ SameBonds(p, q) /\ SameAuctions(p, q) /\ SameFlags(p, q) /\ SameMoney(p, q)
  BY <1>2, RecordedLog
<1> QED BY <1>3, SameAuctionsBids DEF Managed, SameBonds

LEMMA UnreadLog ==
    ASSUME NEW p, NEW e, e.event \in Unprojected
    PROVE  ApplyManager(p, e) = p
BY DEF ApplyManager

-----------------------------------------------------------------------------
(* What the manager's logs of a block do                                    *)

StatusIn(s, n)      == IF n \in DOMAIN s.auctions THEN s.auctions[n].status ELSE "none"
TypeIn(s, n)        == IF n \in DOMAIN s.auctions THEN s.auctions[n].type ELSE "none"
BidsIn(s, n)        == IF n \in DOMAIN s.auctions THEN s.auctions[n].bids ELSE <<>>
AllocationsIn(s, n) == IF n \in DOMAIN s.auctions THEN s.auctions[n].allocations ELSE <<>>

\* The block after s and before t deploys the bond.
Deploys(s, t) == ~s.bond.active /\ t.bond.active

\* Row n tells of auction n what s does.
Tells(p, s, n) == p.auction[n].status = StatusIn(s, n) /\ p.auction[n].type = TypeIn(s, n)
RowsFollow(p, q, s, t) == \A n \in 1 .. MaxAuctions : Tells(p, s, n) => Tells(q, t, n)

\* Columns the manager's logs leave alone unless they deploy the bond
Kept(r, u) == /\ u.offering = r.offering /\ u.supply = r.supply
              /\ u.maturityDate = r.maturityDate /\ u.maturityDuration = r.maturityDuration
\* and those they keep in step with the contracts
CountFollows(r, u, s, t, b) ==
    r.count = s.bond.count =>
        /\ u.count = t.bond.count
        /\ u.lastPayment = IF t.bond.count > s.bond.count THEN b ELSE r.lastPayment
FlagsFollow(r, u, s, t) ==
    /\ r.matured = s.bond.matured => u.matured = t.bond.matured
    /\ r.issued = s.bond.issued => u.issued = t.bond.issued

Read(e) == e.event \notin Unprojected
Told(logs) == {HistoryRow(logs[k]) : k \in {j \in DOMAIN logs : Read(logs[j])}}
Noted(p, q, logs) == q.history = p.history \cup Told(logs)

\* What applying the manager's logs of block b makes of p
ManagerEffect(s, t, b, logs, p, q) ==
    /\ q \in Tables /\ SameMoney(p, q) /\ SameBids(p, q) /\ Noted(p, q, logs)
    /\ p.listed \/ Deploys(s, t) => q.listed
    /\ p.listed /\ (p.hidden <=> ~s.bond.active) => (q.hidden <=> ~t.bond.active)
    /\ Deploys(s, t) => ~q.hidden /\ q.bond = ReduceCreated
    /\ ~Deploys(s, t) => /\ Kept(p.bond, q.bond) /\ CountFollows(p.bond, q.bond, s, t, b)
                         /\ FlagsFollow(p.bond, q.bond, s, t)
    /\ RowsFollow(p, q, s, t)
ManagerFact(s, t, b, logs) ==
    \A p \in Tables : ManagerEffect(s, t, b, logs, p, ApplyLogs("manager", p, logs))

\* From s to t nothing changes of what the manager keeps of a bond, or of auctions but
\* the status and type of auction n.
SameLife(s, t) == /\ t.bond.active = s.bond.active /\ t.bond.count = s.bond.count
                  /\ t.bond.matured = s.bond.matured /\ t.bond.issued = s.bond.issued
SameRows(s, t) == \A n \in 1 .. MaxAuctions : StatusIn(t, n) = StatusIn(s, n) /\ TypeIn(t, n) = TypeIn(s, n)
RowBecomes(s, t, n, type, status) ==
    /\ StatusIn(t, n) = status /\ TypeIn(t, n) = type
    /\ \A m \in (1 .. MaxAuctions) \ {n} : StatusIn(t, m) = StatusIn(s, m) /\ TypeIn(t, m) = TypeIn(s, m)

LEMMA RowFollows ==
    ASSUME NEW p, NEW q, NEW s, NEW t, NEW n \in 1 .. MaxAuctions, NEW type, NEW status,
           RowBecomes(s, t, n, type, status), Tells(p, s, n) => RowIs(p, q, n, type, status),
           OtherRows(p, q, n)
    PROVE  RowsFollow(p, q, s, t)
BY DEF RowsFollow, RowBecomes, Tells, RowIs, OtherRows

LEMMA SameRowsFollow ==
    ASSUME NEW p, NEW q, NEW s, NEW t, SameRows(s, t), SameAuctions(p, q)
    PROVE  RowsFollow(p, q, s, t)
BY DEF RowsFollow, SameRows, Tells, SameAuctions

LEMMA ApplyLogManager == ASSUME NEW p, NEW e PROVE ApplyLog("manager", p, e) = ApplyManager(p, e)
BY DEF ApplyLog

\* No log
LEMMA NoManagerLog ==
    ASSUME NEW s, NEW t, NEW b, SameLife(s, t), SameRows(s, t)
    PROVE  ManagerFact(s, t, b, <<>>)
<1> SUFFICES ASSUME NEW p \in Tables PROVE ManagerEffect(s, t, b, <<>>, p, p)
  BY ApplyNone DEF ManagerFact
<1>1. SameMoney(p, p) /\ SameBids(p, p) /\ SameAuctions(p, p)
  BY DEF SameMoney, SameBids, SameAuctions
<1>2. Noted(p, p, <<>>)
  BY DEF Noted, Told
<1>3. RowsFollow(p, p, s, t)
  BY <1>1, SameRowsFollow
<1>4. ~Deploys(s, t)
  BY DEF Deploys, SameLife
<1>5. Kept(p.bond, p.bond) /\ CountFollows(p.bond, p.bond, s, t, b) /\ FlagsFollow(p.bond, p.bond, s, t)
  <2>1. p.bond.count = s.bond.count => ~(t.bond.count > s.bond.count)
    <3>1. p.bond.count \in Int
      BY DEF Tables, BondRows
    <3> QED BY <3>1 DEF SameLife
  <2> QED BY <2>1 DEF Kept, CountFollows, FlagsFollow, SameLife
<1>6. (p.hidden <=> ~s.bond.active) => (p.hidden <=> ~t.bond.active)
  BY DEF SameLife
<1> QED BY <1>1, <1>2, <1>3, <1>4, <1>5, <1>6 DEF ManagerEffect

LEMMA OneManagerLog ==
    ASSUME NEW s, NEW t, NEW b, NEW e,
           \A p \in Tables : ManagerEffect(s, t, b, <<e>>, p, ApplyManager(p, e))
    PROVE  ManagerFact(s, t, b, <<e>>)
<1> SUFFICES ASSUME NEW p \in Tables PROVE ManagerEffect(s, t, b, <<e>>, p, ApplyLogs("manager", p, <<e>>))
  BY DEF ManagerFact
<1>1. ApplyLogs("manager", p, <<e>>) = ApplyManager(p, e)
  BY ApplyOne, ApplyLogManager
<1> QED BY <1>1

LEMMA TwoManagerLogs ==
    ASSUME NEW s, NEW t, NEW b, NEW e, NEW f,
           \A p \in Tables : ManagerEffect(s, t, b, <<e, f>>, p, ApplyManager(ApplyManager(p, e), f))
    PROVE  ManagerFact(s, t, b, <<e, f>>)
<1> SUFFICES ASSUME NEW p \in Tables PROVE ManagerEffect(s, t, b, <<e, f>>, p, ApplyLogs("manager", p, <<e, f>>))
  BY DEF ManagerFact
<1>1. ApplyLogs("manager", p, <<e, f>>) = ApplyManager(ApplyManager(p, e), f)
  BY ApplyTwo, ApplyLogManager
<1> QED BY <1>1

LEMMA NotedOne ==
    ASSUME NEW p, NEW q, NEW e, Notes(p, q, e), Read(e)
    PROVE  Noted(p, q, <<e>>)
<1>1. DOMAIN <<e>> = {1} /\ <<e>>[1] = e
  OBVIOUS
<1>2. Told(<<e>>) = {HistoryRow(e)}
  BY <1>1 DEF Told
<1> QED BY <1>2 DEF Notes, Noted

LEMMA NotedTwo ==
    ASSUME NEW p, NEW r, NEW q, NEW e, NEW f, Notes(p, r, e), Notes(r, q, f), Read(e), Read(f)
    PROVE  Noted(p, q, <<e, f>>)
<1>1. DOMAIN <<e, f>> = {1, 2} /\ <<e, f>>[1] = e /\ <<e, f>>[2] = f
  OBVIOUS
<1>2. Told(<<e, f>>) = {HistoryRow(e), HistoryRow(f)}
  BY <1>1 DEF Told
<1> QED BY <1>2 DEF Notes, Noted

LEMMA SameMoneyTwice ==
    ASSUME NEW p, NEW r, NEW q, SameMoney(p, r), SameMoney(r, q)
    PROVE  SameMoney(p, q)
BY DEF SameMoney

LEMMA SameBidsTwice ==
    ASSUME NEW p, NEW r, NEW q, SameBids(p, r), SameBids(r, q)
    PROVE  SameBids(p, q)
BY DEF SameBids

\* deployBond
LEMMA DeployLog ==
    ASSUME NEW s, NEW t, NEW b, Deploys(s, t), SameRows(s, t), NEW e, Places(e), e.event = "BondCreated"
    PROVE  ManagerFact(s, t, b, <<e>>)
<1> SUFFICES ASSUME NEW p \in Tables, NEW q, q = ApplyManager(p, e) PROVE ManagerEffect(s, t, b, <<e>>, p, q)
  BY OneManagerLog
<1>1. Managed(p, q, e) /\ SameAuctions(p, q) /\ q.listed /\ ~q.hidden /\ q.bond = ReduceCreated
  BY CreatedLog
<1>2. RowsFollow(p, q, s, t)
  BY <1>1, SameRowsFollow
<1>3. Noted(p, q, <<e>>)
  BY <1>1, NotedOne DEF Managed, Read, Unprojected, Initialised
<1> QED BY <1>1, <1>2, <1>3 DEF Managed, ManagerEffect, Deploys

\* deployBondWithAuction
LEMMA DeployOpenLogs ==
    ASSUME NEW s, NEW t, NEW b, Deploys(s, t), NEW type \in {"RATE", "PRICE", "BUYBACK"}, NEW n \in 1 .. MaxAuctions,
           RowBecomes(s, t, n, type, "open"), TypeIn(s, n) = "none",
           NEW e, Places(e), e.event = "BondCreated", NEW f, Places(f), f.event = Initialised[type], f.v = n
    PROVE  ManagerFact(s, t, b, <<e, f>>)
<1> SUFFICES ASSUME NEW p \in Tables, NEW q, q = ApplyManager(ApplyManager(p, e), f)
             PROVE  ManagerEffect(s, t, b, <<e, f>>, p, q)
  BY TwoManagerLogs
<1> DEFINE r == ApplyManager(p, e)
<1>1. Managed(p, r, e) /\ SameAuctions(p, r) /\ r.listed /\ ~r.hidden /\ r.bond = ReduceCreated
  BY CreatedLog
<1> HIDE DEF r
<1>2. /\ Managed(r, q, f) /\ SameBonds(r, q) /\ q.listed /\ ~q.hidden /\ OtherRows(r, q, n)
      /\ r.auction[n].type \in {"none", type} => RowIs(r, q, n, type, "open")
  <2>1. r \in Tables /\ q = ApplyManager(r, f)
    BY <1>1 DEF Managed, r
  <2> QED BY <2>1, OpenedLog
<1>3. RowsFollow(p, q, s, t)
  <2>1. OtherRows(p, q, n)
    BY <1>1, <1>2 DEF OtherRows, SameAuctions
  <2>2. Tells(p, s, n) => RowIs(p, q, n, type, "open")
    BY <1>1, <1>2, <2>1 DEF Tells, RowIs, SameAuctions
  <2> QED BY <2>1, <2>2, RowFollows
<1>4. Noted(p, q, <<e, f>>)
  BY <1>1, <1>2, NotedTwo DEF Managed, Read, Unprojected, Initialised
<1>5. SameMoney(p, q) /\ SameBids(p, q)
  BY <1>1, <1>2, SameMoneyTwice, SameBidsTwice DEF Managed
<1>6. q \in Tables /\ q.listed /\ ~q.hidden /\ q.bond = ReduceCreated
  BY <1>1, <1>2 DEF Managed, SameBonds
<1> QED BY <1>3, <1>4, <1>5, <1>6 DEF ManagerEffect, Deploys

\* deployAuctionForBond
LEMMA OpenLog ==
    ASSUME NEW s, NEW t, NEW b, s.bond.active, SameLife(s, t), NEW type \in {"RATE", "PRICE", "BUYBACK"},
           NEW n \in 1 .. MaxAuctions, RowBecomes(s, t, n, type, "open"), TypeIn(s, n) = "none",
           NEW e, Places(e), e.event = Initialised[type], e.v = n
    PROVE  ManagerFact(s, t, b, <<e>>)
<1> SUFFICES ASSUME NEW p \in Tables, NEW q, q = ApplyManager(p, e) PROVE ManagerEffect(s, t, b, <<e>>, p, q)
  BY OneManagerLog
<1>1. /\ Managed(p, q, e) /\ SameBonds(p, q) /\ q.listed /\ ~q.hidden /\ OtherRows(p, q, n)
      /\ p.auction[n].type \in {"none", type} => RowIs(p, q, n, type, "open")
  BY OpenedLog
<1>2. RowsFollow(p, q, s, t)
  <2>1. Tells(p, s, n) => RowIs(p, q, n, type, "open")
    BY <1>1 DEF Tells
  <2> QED BY <1>1, <2>1, RowFollows
<1>3. Noted(p, q, <<e>>)
  BY <1>1, NotedOne DEF Managed, Read, Unprojected, Initialised
<1>4. Kept(p.bond, q.bond) /\ CountFollows(p.bond, q.bond, s, t, b) /\ FlagsFollow(p.bond, q.bond, s, t)
  <2>1. p.bond.count = s.bond.count => ~(t.bond.count > s.bond.count)
    <3>1. p.bond.count \in Int
      BY DEF Tables, BondRows
    <3> QED BY <3>1 DEF SameLife
  <2> QED BY <1>1, <2>1 DEF Kept, CountFollows, FlagsFollow, SameLife, SameBonds
<1>5. ~Deploys(s, t) /\ t.bond.active
  BY DEF Deploys, SameLife
<1> QED BY <1>1, <1>2, <1>3, <1>4, <1>5 DEF Managed, ManagerEffect

\* closeAuction, cancelAuction, and finaliseAuction of a buyback
LEMMA ChangeLog ==
    ASSUME NEW s, NEW t, NEW b, SameLife(s, t), NEW e, Places(e),
           e.event \in {"BondAuctionClosed", "BondAuctionFinalised", "BondAuctionCancelled"},
           NEW n \in 1 .. MaxAuctions, e.v = n, RowBecomes(s, t, n, TypeIn(s, n), StatusAfter(e.event))
    PROVE  ManagerFact(s, t, b, <<e>>)
<1> SUFFICES ASSUME NEW p \in Tables, NEW q, q = ApplyManager(p, e) PROVE ManagerEffect(s, t, b, <<e>>, p, q)
  BY OneManagerLog
<1>1. /\ Managed(p, q, e) /\ SameBonds(p, q) /\ SameFlags(p, q)
      /\ RowIs(p, q, n, p.auction[n].type, StatusAfter(e.event))
  BY StatusLog
<1>2. RowsFollow(p, q, s, t)
  <2>1. OtherRows(p, q, n) /\ (Tells(p, s, n) => RowIs(p, q, n, TypeIn(s, n), StatusAfter(e.event)))
    BY <1>1 DEF Tells, RowIs
  <2> QED BY <2>1, RowFollows
<1>3. Noted(p, q, <<e>>)
  BY <1>1, NotedOne DEF Managed, Read, Unprojected, Initialised
<1>4. Kept(p.bond, q.bond) /\ CountFollows(p.bond, q.bond, s, t, b) /\ FlagsFollow(p.bond, q.bond, s, t)
  <2>1. p.bond.count = s.bond.count => ~(t.bond.count > s.bond.count)
    <3>1. p.bond.count \in Int
      BY DEF Tables, BondRows
    <3> QED BY <3>1 DEF SameLife
  <2> QED BY <1>1, <2>1 DEF Kept, CountFollows, FlagsFollow, SameLife, SameBonds
<1>5. ~Deploys(s, t) /\ (p.hidden <=> ~s.bond.active) => (q.hidden <=> ~t.bond.active)
  BY <1>1 DEF Deploys, SameLife, SameFlags
<1>6. q.listed = p.listed
  BY <1>1 DEF SameFlags
<1>7. ~Deploys(s, t)
  BY DEF Deploys, SameLife
<1> QED BY <1>1, <1>2, <1>3, <1>4, <1>5, <1>6, <1>7 DEF Managed, ManagerEffect

\* finaliseAuction of an issuance
LEMMA IssueLogs ==
    ASSUME NEW s, NEW t, NEW b, t.bond.active = s.bond.active, t.bond.count = s.bond.count,
           t.bond.matured = s.bond.matured, t.bond.issued = TRUE,
           NEW e, Places(e), e.event = "BondIssuanceComplete", NEW f, Places(f), f.event = "BondAuctionFinalised",
           NEW n \in 1 .. MaxAuctions, f.v = n, RowBecomes(s, t, n, TypeIn(s, n), "finalised")
    PROVE  ManagerFact(s, t, b, <<e, f>>)
<1> SUFFICES ASSUME NEW p \in Tables, NEW q, q = ApplyManager(ApplyManager(p, e), f)
             PROVE  ManagerEffect(s, t, b, <<e, f>>, p, q)
  BY TwoManagerLogs
<1> DEFINE r == ApplyManager(p, e)
<1>1. /\ Managed(p, r, e) /\ SameFlags(p, r) /\ SameAuctions(p, r)
      /\ r.bond = [p.bond EXCEPT !.issued = TRUE]
  BY IssuedLog
<1> HIDE DEF r
<1>2. /\ Managed(r, q, f) /\ SameBonds(r, q) /\ SameFlags(r, q)
      /\ RowIs(r, q, n, r.auction[n].type, StatusAfter(f.event))
  <2>1. r \in Tables /\ q = ApplyManager(r, f)
    BY <1>1 DEF Managed, r
  <2> QED BY <2>1, StatusLog
<1>0. StatusAfter(f.event) = "finalised"
  BY DEF StatusAfter
<1>3. RowsFollow(p, q, s, t)
  <2>1. OtherRows(p, q, n)
    BY <1>1, <1>2 DEF OtherRows, RowIs, SameAuctions
  <2>2. Tells(p, s, n) => RowIs(p, q, n, TypeIn(s, n), "finalised")
    BY <1>0, <1>1, <1>2, <2>1 DEF Tells, RowIs, SameAuctions
  <2> QED BY <2>1, <2>2, RowFollows
<1>4. Noted(p, q, <<e, f>>)
  BY <1>1, <1>2, NotedTwo DEF Managed, Read, Unprojected, Initialised
<1>5. SameMoney(p, q) /\ SameBids(p, q)
  BY <1>1, <1>2, SameMoneyTwice, SameBidsTwice DEF Managed
<1>6. Kept(p.bond, q.bond) /\ CountFollows(p.bond, q.bond, s, t, b) /\ FlagsFollow(p.bond, q.bond, s, t)
  <2>1. p.bond \in BondRows
    BY DEF Tables
  <2>2. /\ Kept(p.bond, r.bond) /\ r.bond.count = p.bond.count /\ r.bond.lastPayment = p.bond.lastPayment
        /\ r.bond.matured = p.bond.matured /\ r.bond.issued = TRUE
    BY <1>1, <2>1 DEF Kept, BondRows
  <2>3. p.bond.count = s.bond.count => ~(t.bond.count > s.bond.count)
    BY <2>1 DEF BondRows
  <2> QED BY <1>2, <2>2, <2>3 DEF Kept, CountFollows, FlagsFollow, SameBonds
<1>7. (p.hidden <=> ~s.bond.active) => (q.hidden <=> ~t.bond.active)
  BY <1>1, <1>2 DEF SameFlags
<1>8. ~Deploys(s, t) /\ q.listed = p.listed
  BY <1>1, <1>2 DEF Deploys, SameFlags
<1>9. q \in Tables
  BY <1>2 DEF Managed
<1> QED BY <1>3, <1>4, <1>5, <1>6, <1>7, <1>8, <1>9 DEF ManagerEffect

\* disableBond
LEMMA DisableLog ==
    ASSUME NEW s, NEW t, NEW b, s.bond.active, ~t.bond.active, t.bond.count = s.bond.count,
           t.bond.matured = s.bond.matured, t.bond.issued = s.bond.issued, SameRows(s, t),
           NEW e, Places(e), e.event = "BondDisabled"
    PROVE  ManagerFact(s, t, b, <<e>>)
<1> SUFFICES ASSUME NEW p \in Tables, NEW q, q = ApplyManager(p, e) PROVE ManagerEffect(s, t, b, <<e>>, p, q)
  BY OneManagerLog
<1>1. /\ Managed(p, q, e) /\ SameAuctions(p, q) /\ q.listed = p.listed /\ q.hidden = p.listed
      /\ q.bond = [p.bond EXCEPT !.disabled = TRUE]
  BY DisabledLog
<1>2. RowsFollow(p, q, s, t)
  BY <1>1, SameRowsFollow
<1>3. Noted(p, q, <<e>>)
  BY <1>1, NotedOne DEF Managed, Read, Unprojected, Initialised
<1>4. Kept(p.bond, q.bond) /\ CountFollows(p.bond, q.bond, s, t, b) /\ FlagsFollow(p.bond, q.bond, s, t)
  <2>1. p.bond \in BondRows
    BY DEF Tables
  <2>2. /\ Kept(p.bond, q.bond) /\ q.bond.count = p.bond.count /\ q.bond.lastPayment = p.bond.lastPayment
        /\ q.bond.matured = p.bond.matured /\ q.bond.issued = p.bond.issued
    BY <1>1, <2>1 DEF Kept, BondRows
  <2>3. p.bond.count = s.bond.count => ~(t.bond.count > s.bond.count)
    BY <2>1 DEF BondRows
  <2> QED BY <2>2, <2>3 DEF CountFollows, FlagsFollow
<1>5. ~Deploys(s, t) /\ (p.listed => q.hidden)
  BY <1>1 DEF Deploys
<1> QED BY <1>1, <1>2, <1>3, <1>4, <1>5 DEF Managed, ManagerEffect

\* A log that ingestion has no branch for changes nothing.
LEMMA UnreadBeforeOne ==
    ASSUME NEW s, NEW t, NEW b, NEW x, ~Read(x), NEW e, ManagerFact(s, t, b, <<e>>)
    PROVE  ManagerFact(s, t, b, <<x, e>>)
<1> SUFFICES ASSUME NEW p \in Tables PROVE ManagerEffect(s, t, b, <<x, e>>, p, ApplyLogs("manager", p, <<x, e>>))
  BY DEF ManagerFact
<1>1. ApplyLogs("manager", p, <<x, e>>) = ApplyLogs("manager", p, <<e>>)
  BY ApplyOne, ApplyTwo, ApplyLogManager, UnreadLog DEF Read
<1>2. Told(<<x, e>>) = Told(<<e>>)
  <2>1. /\ DOMAIN <<x, e>> = {1, 2} /\ <<x, e>>[1] = x /\ <<x, e>>[2] = e
        /\ DOMAIN <<e>> = {1} /\ <<e>>[1] = e
    OBVIOUS
  <2> QED BY <2>1 DEF Told
<1>3. ManagerEffect(s, t, b, <<e>>, p, ApplyLogs("manager", p, <<e>>))
  BY DEF ManagerFact
<1> QED BY <1>1, <1>2, <1>3 DEF ManagerEffect, Noted

LEMMA UnreadBeforeTwo ==
    ASSUME NEW s, NEW t, NEW b, NEW x, ~Read(x), NEW e, NEW f, ManagerFact(s, t, b, <<e, f>>)
    PROVE  ManagerFact(s, t, b, <<x, e, f>>)
<1> SUFFICES ASSUME NEW p \in Tables
             PROVE  ManagerEffect(s, t, b, <<x, e, f>>, p, ApplyLogs("manager", p, <<x, e, f>>))
  BY DEF ManagerFact
<1>1. ApplyLogs("manager", p, <<x, e, f>>) = ApplyLogs("manager", p, <<e, f>>)
  BY ApplyTwo, ApplyThree, ApplyLogManager, UnreadLog DEF Read
<1>2. Told(<<x, e, f>>) = Told(<<e, f>>)
  <2>1. /\ DOMAIN <<x, e, f>> = {1, 2, 3} /\ <<x, e, f>>[1] = x /\ <<x, e, f>>[2] = e /\ <<x, e, f>>[3] = f
        /\ DOMAIN <<e, f>> = {1, 2} /\ <<e, f>>[1] = e /\ <<e, f>>[2] = f
    OBVIOUS
  <2> QED BY <2>1 DEF Told
<1>3. ManagerEffect(s, t, b, <<e, f>>, p, ApplyLogs("manager", p, <<e, f>>))
  BY DEF ManagerFact
<1> QED BY <1>1, <1>2, <1>3 DEF ManagerEffect, Noted

\* The coupon logs of a block up to the k-th
CouponsTo(p, q, logs, k, v, b) ==
    /\ q \in Tables /\ SameFlags(p, q) /\ SameAuctions(p, q) /\ SameMoney(p, q)
    /\ q.history = p.history \cup {HistoryRow(logs[j]) : j \in 1 .. k}
    /\ q.bond = ReduceCouponPaid(p.bond, v, b)

IsCoupon(e, v, b) == Places(e) /\ e.event \in {"CouponPaid", "CouponPeriodPaid"} /\ e.v = v /\ e.block = b
IsPayout(e, v, b) == IsCoupon(e, v, b) \/ (Places(e) /\ e.event = "BondRedeemed")

LEMMA ReducedOnce ==
    ASSUME NEW r \in BondRows, NEW v \in Int, NEW b \in Int
    PROVE  ReduceCouponPaid(ReduceCouponPaid(r, v, b), v, b) = ReduceCouponPaid(r, v, b)
<1> DEFINE u == ReduceCouponPaid(r, v, b)
<1>1. u \in BondRows /\ ~(v > u.count)
  <2>1. CASE v > r.count
    <3>1. u = [r EXCEPT !.count = v, !.lastPayment = b]
      BY <2>1 DEF ReduceCouponPaid
    <3>2. u \in BondRows /\ u.count = v
      BY <3>1 DEF BondRows
    <3> QED BY <3>2
  <2>2. CASE ~(v > r.count)
    <3>1. u = r
      BY <2>2 DEF ReduceCouponPaid
    <3> QED BY <2>2, <3>1
  <2> QED BY <2>1, <2>2
<1> HIDE DEF u
<1>2. ReduceCouponPaid(u, v, b) = u
  BY <1>1 DEF ReduceCouponPaid
<1> QED BY <1>2 DEF u

LEMMA CouponStep ==
    ASSUME NEW p \in Tables, NEW r, NEW q, NEW logs, NEW k \in Nat \ {0}, NEW v \in Int, NEW b \in Int,
           IsPayout(logs[k], v, b), q = ApplyManager(r, logs[k]),
           k = 1 => r = p /\ IsCoupon(logs[k], v, b), k # 1 => CouponsTo(p, r, logs, k - 1, v, b)
    PROVE  CouponsTo(p, q, logs, k, v, b)
<1>0. r \in Tables
  BY DEF CouponsTo
<1>1. /\ Managed(r, q, logs[k]) /\ SameFlags(r, q) /\ SameAuctions(r, q)
      /\ \/ q.bond = ReduceCouponPaid(r.bond, v, b)
         \/ k # 1 /\ q.bond = r.bond
  <2>1. CASE IsCoupon(logs[k], v, b)
    BY <1>0, <2>1, CouponLog DEF IsCoupon
  <2>2. CASE k # 1 /\ Places(logs[k]) /\ logs[k].event = "BondRedeemed"
    BY <1>0, <2>2, RedeemedLog
  <2> QED BY <2>1, <2>2 DEF IsPayout
<1>2. CASE k = 1
  <2>1. {HistoryRow(logs[j]) : j \in 1 .. k} = {HistoryRow(logs[k])}
    BY <1>2
  <2> QED BY <1>1, <1>2, <2>1 DEF CouponsTo, Managed, Notes
<1>3. CASE k # 1
  <2>0. CouponsTo(p, r, logs, k - 1, v, b)
    BY <1>3
  <2>1. 1 .. k = (1 .. (k - 1)) \cup {k}
    BY <1>3
  <2>2. {HistoryRow(logs[j]) : j \in 1 .. k}
          = {HistoryRow(logs[j]) : j \in 1 .. (k - 1)} \cup {HistoryRow(logs[k])}
    BY <2>1
  <2>3. q.history = p.history \cup {HistoryRow(logs[j]) : j \in 1 .. k}
    <3>1. r.history = p.history \cup {HistoryRow(logs[j]) : j \in 1 .. (k - 1)}
      BY <2>0 DEF CouponsTo
    <3>2. q.history = r.history \cup {HistoryRow(logs[k])}
      BY <1>1 DEF Managed, Notes
    <3> QED BY <2>2, <3>1, <3>2
  <2>4. q.bond = ReduceCouponPaid(p.bond, v, b)
    <3>1. p.bond \in BondRows /\ r.bond = ReduceCouponPaid(p.bond, v, b)
      BY <2>0 DEF CouponsTo, Tables
    <3> QED BY <1>1, <3>1, ReducedOnce
  <2>5. SameFlags(p, q) /\ SameAuctions(p, q) /\ SameMoney(p, q) /\ q \in Tables
    BY <1>1, <2>0 DEF CouponsTo, SameFlags, SameAuctions, SameMoney, Managed
  <2> QED BY <2>3, <2>4, <2>5 DEF CouponsTo
<1> QED BY <1>2, <1>3

\* payCoupon: m logs of the payment, and one more when the bond matures
Coupons(s, t, b, logs, m) ==
    /\ m \in Nat \ {0} /\ b \in Int /\ s.bond.count \in Int
    /\ t.bond.count = s.bond.count + 1 /\ t.bond.active = s.bond.active /\ t.bond.issued = s.bond.issued
    /\ SameRows(s, t)
    /\ \A k \in 1 .. m : IsPayout(logs[k], t.bond.count, b)
    /\ IsCoupon(logs[1], t.bond.count, b)
    /\ DOMAIN logs = 1 .. Len(logs)
CouponTail(s, t, logs, m) ==
    \/ Len(logs) = m /\ s.bond.matured = FALSE /\ t.bond.matured = FALSE
    \/ /\ Len(logs) = m + 1 /\ t.bond.matured = TRUE
       /\ logs[m + 1].event = "BondMatured" /\ Places(logs[m + 1])

LEMMA CouponsApplied ==
    ASSUME NEW p \in Tables, NEW s, NEW t, NEW b, NEW logs, NEW m, Coupons(s, t, b, logs, m),
           NEW n \in Nat, m <= n, NEW u, Steps("manager", p, logs, n, u)
    PROVE  CouponsTo(p, u[m], logs, m, t.bond.count, b)
<1> DEFINE v == t.bond.count
           F == {k \in 1 .. m : ~CouponsTo(p, u[k], logs, k, v, b)}
<1>0. m \in Nat \ {0} /\ b \in Int /\ v \in Int /\ m \in 1 .. m
  BY DEF Coupons
<1> SUFFICES ASSUME F # {} PROVE FALSE
  BY <1>0, Zenon
<1>1. PICK k \in F : \A i \in F : k <= i
  <2>1. F \subseteq 1 .. m /\ 1 \in Int /\ m \in Int
    BY <1>0
  <2> HIDE DEF F
  <2> QED BY <2>1, LeastOf
<1>2. k \in 1 .. m /\ ~CouponsTo(p, u[k], logs, k, v, b)
  OBVIOUS
<1>3. IsPayout(logs[k], v, b) /\ u[0] = p /\ u[k] = ApplyManager(u[k - 1], logs[k])
  <2>1. k \in 1 .. n
    BY <1>0, <1>2
  <2> QED BY <1>2, <2>1, ApplyLogManager, Zenon DEF Coupons, Steps
<1>4. k = 1 => u[k - 1] = p /\ IsCoupon(logs[k], v, b)
  BY <1>3 DEF Coupons
<1>5. k # 1 => CouponsTo(p, u[k - 1], logs, k - 1, v, b)
  <2> SUFFICES ASSUME k # 1 PROVE CouponsTo(p, u[k - 1], logs, k - 1, v, b)
    OBVIOUS
  <2>1. k - 1 \in 1 .. m /\ ~(k <= k - 1)
    BY <1>0, <1>2
  <2>2. k - 1 \notin F
    BY <1>1, <2>1, Zenon
  <2> QED BY <2>1, <2>2, Zenon
<1> HIDE DEF F, v
<1>6. PICK r, q : r = u[k - 1] /\ q = u[k]
  OBVIOUS
<1>7. k \in Nat \ {0}
  BY <1>0, <1>2
<1>8. /\ q = ApplyManager(r, logs[k]) /\ (k = 1 => r = p /\ IsCoupon(logs[k], v, b))
      /\ (k # 1 => CouponsTo(p, r, logs, k - 1, v, b))
  BY <1>3, <1>4, <1>5, <1>6, Zenon
<1>9. CouponsTo(p, q, logs, k, v, b)
  BY <1>0, <1>3, <1>7, <1>8, CouponStep
<1> QED BY <1>2, <1>6, <1>9

LEMMA CouponLogs ==
    ASSUME NEW s, NEW t, NEW b, NEW logs, NEW m, Coupons(s, t, b, logs, m), CouponTail(s, t, logs, m)
    PROVE  ManagerFact(s, t, b, logs)
<1> SUFFICES ASSUME NEW p \in Tables, NEW z, z = ApplyLogs("manager", p, logs) PROVE ManagerEffect(s, t, b, logs, p, z)
  BY DEF ManagerFact
<1> DEFINE n == Len(logs)
           v == t.bond.count
<1>0. m \in Nat \ {0} /\ n \in Nat /\ m <= n /\ b \in Int /\ v \in Int
  <2>1. m \in Nat \ {0} /\ b \in Int /\ v \in Int
    BY DEF Coupons
  <2>2. Len(logs) = m \/ Len(logs) = m + 1
    BY Zenon DEF CouponTail
  <2> QED BY <2>1, <2>2
<1>1. PICK u : Steps("manager", p, logs, n, u) /\ z = u[n]
  <2>1. PICK u : Applies("manager", p, logs, n, u) /\ ApplyLogs("manager", p, logs) = u[n]
    BY <1>0, AppliesLast
  <2> HIDE DEF n
  <2>2. Steps("manager", p, logs, n, u)
    BY <1>0, <2>1, AppliesAt
  <2> QED BY <2>1, <2>2
<1> HIDE DEF n
<1>2. CouponsTo(p, u[m], logs, m, v, b)
  BY <1>0, <1>1, CouponsApplied
<1> DEFINE r == u[m]
<1>3. /\ r \in Tables /\ SameFlags(p, r) /\ SameAuctions(p, r) /\ SameMoney(p, r)
      /\ r.history = p.history \cup {HistoryRow(logs[j]) : j \in 1 .. m}
      /\ r.bond = ReduceCouponPaid(p.bond, v, b)
  BY <1>2 DEF CouponsTo
<1>4. /\ z \in Tables /\ SameFlags(p, z) /\ SameAuctions(p, z) /\ SameMoney(p, z)
      /\ z.history = p.history \cup {HistoryRow(logs[j]) : j \in 1 .. n}
      /\ Kept(r.bond, z.bond) /\ z.bond.count = r.bond.count /\ z.bond.lastPayment = r.bond.lastPayment
      /\ z.bond.issued = r.bond.issued
      /\ z.bond.matured = IF n = m THEN r.bond.matured ELSE TRUE
  <2>1. CASE n = m
    BY <1>1, <1>3, <2>1 DEF Kept
  <2>2. CASE n # m
    <3>1. n = m + 1 /\ logs[n].event = "BondMatured" /\ Places(logs[n])
      BY <2>2 DEF CouponTail, n
    <3>2. z = ApplyManager(r, logs[n])
      <4>1. n \in 1 .. n /\ n - 1 = m
        BY <1>0, <3>1
      <4> QED BY <1>1, <4>1, ApplyLogManager, Zenon DEF Steps
    <3> HIDE DEF r
    <3>3. /\ Managed(r, z, logs[n]) /\ SameFlags(r, z) /\ SameAuctions(r, z)
          /\ z.bond = [r.bond EXCEPT !.matured = TRUE]
      BY <1>3, <3>1, <3>2, MaturedLog
    <3>4. SameFlags(p, z) /\ SameAuctions(p, z) /\ SameMoney(p, z) /\ z \in Tables
      BY <1>3, <3>3 DEF Managed, SameFlags, SameAuctions, SameMoney
    <3>5. z.history = p.history \cup {HistoryRow(logs[j]) : j \in 1 .. n}
      <4>1. 1 .. n = (1 .. m) \cup {n}
        BY <1>0, <3>1
      <4>2. {HistoryRow(logs[j]) : j \in 1 .. n} = {HistoryRow(logs[j]) : j \in 1 .. m} \cup {HistoryRow(logs[n])}
        BY <4>1
      <4>3. z.history = r.history \cup {HistoryRow(logs[n])}
        BY <3>3 DEF Managed, Notes
      <4> QED BY <1>3, <4>2, <4>3
    <3>6. r.bond \in BondRows
      BY <1>3 DEF Tables
    <3>7. /\ Kept(r.bond, z.bond) /\ z.bond.count = r.bond.count /\ z.bond.lastPayment = r.bond.lastPayment
          /\ z.bond.issued = r.bond.issued /\ z.bond.matured = TRUE
      BY <3>3, <3>6 DEF Kept, BondRows
    <3> QED BY <2>2, <3>4, <3>5, <3>7
  <2> QED BY <2>1, <2>2
<1>5. /\ Kept(p.bond, r.bond) /\ r.bond.matured = p.bond.matured /\ r.bond.issued = p.bond.issued
      /\ v > p.bond.count => r.bond.count = v /\ r.bond.lastPayment = b
  <2> HIDE DEF r
  <2>1. p.bond \in BondRows
    BY DEF Tables
  <2>2. CASE v > p.bond.count
    <3>1. r.bond = [p.bond EXCEPT !.count = v, !.lastPayment = b]
      BY <1>3, <2>2 DEF ReduceCouponPaid
    <3> QED BY <2>1, <2>2, <3>1 DEF Kept, BondRows
  <2>3. CASE ~(v > p.bond.count)
    <3>1. r.bond = p.bond
      BY <1>3, <2>3 DEF ReduceCouponPaid
    <3> QED BY <2>3, <3>1 DEF Kept
  <2> QED BY <2>2, <2>3
<1> HIDE DEF r
<1>6. v = s.bond.count + 1 /\ v > s.bond.count /\ t.bond.active = s.bond.active /\ t.bond.issued = s.bond.issued
      /\ SameRows(s, t) /\ DOMAIN logs = 1 .. n /\ ~Deploys(s, t)
  BY DEF Coupons, n, Deploys
<1>12. Told(logs) = {HistoryRow(logs[j]) : j \in 1 .. n}
  <2>1. \A j \in 1 .. m : Read(logs[j])
    BY DEF Coupons, IsPayout, IsCoupon, Read, Unprojected
  <2>2. n # m => n = m + 1 /\ Read(logs[n])
    BY DEF CouponTail, n, Read, Unprojected
  <2>3. \A j \in 1 .. n : Read(logs[j])
    <3> TAKE j \in 1 .. n
    <3>1. j \in 1 .. m \/ (n # m /\ j = n)
      BY <1>0, <2>2
    <3> QED BY <2>1, <2>2, <3>1
  <2>4. {j \in DOMAIN logs : Read(logs[j])} = 1 .. n
    BY <1>6, <2>3
  <2> QED BY <2>4 DEF Told
<1>7. Noted(p, z, logs) /\ SameBids(p, z) /\ RowsFollow(p, z, s, t)
  BY <1>4, <1>6, <1>12, SameAuctionsBids, SameRowsFollow DEF Noted
<1>8. Kept(p.bond, z.bond) /\ CountFollows(p.bond, z.bond, s, t, b)
  BY <1>4, <1>5, <1>6 DEF Kept, CountFollows
<1>9. FlagsFollow(p.bond, z.bond, s, t)
  <2>1. p.bond.issued = s.bond.issued => z.bond.issued = t.bond.issued
    BY <1>4, <1>5, <1>6
  <2>2. p.bond.matured = s.bond.matured => z.bond.matured = t.bond.matured
    <3>1. CASE n = m
      <4>1. s.bond.matured = FALSE /\ t.bond.matured = FALSE
        BY <1>0, <3>1 DEF CouponTail, n
      <4> QED BY <1>4, <1>5, <3>1, <4>1
    <3>2. CASE n # m
      <4>1. t.bond.matured = TRUE
        BY <1>0, <3>2 DEF CouponTail, n
      <4> QED BY <1>4, <3>2, <4>1
    <3> QED BY <3>1, <3>2
  <2> QED BY <2>1, <2>2 DEF FlagsFollow
<1>10. (p.hidden <=> ~s.bond.active) => (z.hidden <=> ~t.bond.active)
  BY <1>4, <1>6 DEF SameFlags
<1>11. z.listed = p.listed
  BY <1>4 DEF SameFlags
<1> QED BY <1>4, <1>6, <1>7, <1>8, <1>9, <1>10, <1>11 DEF ManagerEffect

\* The manager's logs of block b, as a transaction that takes the contracts from s to t emits
\* them, transaction by transaction
DeployLogs(s, t, logs, e) ==
    logs = <<e>> /\ Deploys(s, t) /\ SameRows(s, t) /\ Places(e) /\ e.event = "BondCreated"
OpenLogs(s, t, e, type, n) ==
    /\ type \in {"RATE", "PRICE", "BUYBACK"} /\ n \in 1 .. MaxAuctions
    /\ RowBecomes(s, t, n, type, "open") /\ TypeIn(s, n) = "none"
    /\ Places(e) /\ e.event = Initialised[type] /\ e.v = n
DeployOpenedLogs(s, t, logs, e, f, type, n) ==
    logs = <<e, f>> /\ Deploys(s, t) /\ Places(e) /\ e.event = "BondCreated" /\ OpenLogs(s, t, f, type, n)
OpenedLogs(s, t, logs, e, type, n) ==
    logs = <<e>> /\ s.bond.active /\ SameLife(s, t) /\ OpenLogs(s, t, e, type, n)
ChangedLogs(s, t, logs, e, n) ==
    /\ logs = <<e>> /\ SameLife(s, t) /\ Places(e)
    /\ e.event \in {"BondAuctionClosed", "BondAuctionFinalised", "BondAuctionCancelled"}
    /\ n \in 1 .. MaxAuctions /\ e.v = n /\ RowBecomes(s, t, n, TypeIn(s, n), StatusAfter(e.event))
IssuedLogs(s, t, logs, e, f, n) ==
    /\ logs = <<e, f>> /\ t.bond.active = s.bond.active /\ t.bond.count = s.bond.count
    /\ t.bond.matured = s.bond.matured /\ t.bond.issued = TRUE
    /\ Places(e) /\ e.event = "BondIssuanceComplete" /\ Places(f) /\ f.event = "BondAuctionFinalised"
    /\ n \in 1 .. MaxAuctions /\ f.v = n /\ RowBecomes(s, t, n, TypeIn(s, n), "finalised")
DisabledLogs(s, t, logs, e) ==
    /\ logs = <<e>> /\ s.bond.active /\ ~t.bond.active /\ t.bond.count = s.bond.count
    /\ t.bond.matured = s.bond.matured /\ t.bond.issued = s.bond.issued /\ SameRows(s, t)
    /\ Places(e) /\ e.event = "BondDisabled"
NoLogs(s, t, logs) == logs = <<>> /\ SameLife(s, t) /\ SameRows(s, t)
\* with logs before them that ingestion has no branch for
FailedIssue(s, t, logs, x, e, f, n) ==
    logs = <<x, e, f>> /\ ~Read(x) /\ IssuedLogs(s, t, <<e, f>>, e, f, n)
BoughtLogs(s, t, logs, x, e, n) == logs = <<x, e>> /\ ~Read(x) /\ ChangedLogs(s, t, <<e>>, e, n)
FailedBuyback(s, t, logs, x, f, e, n) ==
    logs = <<x, f, e>> /\ ~Read(x) /\ BoughtLogs(s, t, <<f, e>>, f, e, n)

ManagerLogs(s, t, b, logs) ==
    \/ NoLogs(s, t, logs)
    \/ \E e : DeployLogs(s, t, logs, e) \/ DisabledLogs(s, t, logs, e)
    \/ \E e, f, type, n : DeployOpenedLogs(s, t, logs, e, f, type, n) \/ IssuedLogs(s, t, logs, e, f, n)
    \/ \E e, type, n : OpenedLogs(s, t, logs, e, type, n) \/ ChangedLogs(s, t, logs, e, n)
    \/ \E m : Coupons(s, t, b, logs, m) /\ CouponTail(s, t, logs, m)
    \/ \E x, e, f, n : FailedIssue(s, t, logs, x, e, f, n) \/ BoughtLogs(s, t, logs, x, e, n)
    \/ \E x, f, e, n : FailedBuyback(s, t, logs, x, f, e, n)

LEMMA ManagerLogsFact ==
    ASSUME NEW s, NEW t, NEW b, NEW logs, ManagerLogs(s, t, b, logs)
    PROVE  ManagerFact(s, t, b, logs)
<1>1. ASSUME NoLogs(s, t, logs) PROVE ManagerFact(s, t, b, logs)
  <2>1. ManagerFact(s, t, b, <<>>) /\ logs = <<>>
    BY <1>1, NoManagerLog DEF NoLogs
  <2> QED BY <2>1
<1>2. ASSUME NEW e, DeployLogs(s, t, logs, e) PROVE ManagerFact(s, t, b, logs)
  <2>1. ManagerFact(s, t, b, <<e>>) /\ logs = <<e>>
    BY <1>2, DeployLog DEF DeployLogs
  <2> QED BY <2>1
<1>3. ASSUME NEW e, DisabledLogs(s, t, logs, e) PROVE ManagerFact(s, t, b, logs)
  <2>1. ManagerFact(s, t, b, <<e>>) /\ logs = <<e>>
    BY <1>3, DisableLog DEF DisabledLogs
  <2> QED BY <2>1
<1>4. ASSUME NEW e, NEW f, NEW type, NEW n, DeployOpenedLogs(s, t, logs, e, f, type, n) PROVE ManagerFact(s, t, b, logs)
  <2>1. ManagerFact(s, t, b, <<e, f>>) /\ logs = <<e, f>>
    BY <1>4, DeployOpenLogs DEF DeployOpenedLogs, OpenLogs
  <2> QED BY <2>1
<1>5. ASSUME NEW e, NEW f, NEW n, IssuedLogs(s, t, logs, e, f, n) PROVE ManagerFact(s, t, b, logs)
  <2>1. ManagerFact(s, t, b, <<e, f>>) /\ logs = <<e, f>>
    BY <1>5, IssueLogs DEF IssuedLogs
  <2> QED BY <2>1
<1>6. ASSUME NEW e, NEW type, NEW n, OpenedLogs(s, t, logs, e, type, n) PROVE ManagerFact(s, t, b, logs)
  <2>1. ManagerFact(s, t, b, <<e>>) /\ logs = <<e>>
    BY <1>6, OpenLog DEF OpenedLogs, OpenLogs
  <2> QED BY <2>1
<1>7. ASSUME NEW e, NEW n, ChangedLogs(s, t, logs, e, n) PROVE ManagerFact(s, t, b, logs)
  <2>1. ManagerFact(s, t, b, <<e>>) /\ logs = <<e>>
    BY <1>7, ChangeLog DEF ChangedLogs
  <2> QED BY <2>1
<1>8. ASSUME NEW m, Coupons(s, t, b, logs, m), CouponTail(s, t, logs, m) PROVE ManagerFact(s, t, b, logs)
  BY <1>8, CouponLogs
<1>9. ASSUME NEW x, NEW e, NEW f, NEW n, FailedIssue(s, t, logs, x, e, f, n) PROVE ManagerFact(s, t, b, logs)
  <2>1. ManagerFact(s, t, b, <<e, f>>) /\ ~Read(x) /\ logs = <<x, e, f>>
    BY <1>9, IssueLogs DEF FailedIssue, IssuedLogs
  <2> QED BY <2>1, UnreadBeforeTwo
<1>10. ASSUME NEW x, NEW e, NEW n, NEW more, BoughtLogs(s, t, more, x, e, n)
       PROVE  ManagerFact(s, t, b, <<x, e>>) /\ more = <<x, e>>
  <2>1. ManagerFact(s, t, b, <<e>>) /\ ~Read(x) /\ more = <<x, e>>
    BY <1>10, ChangeLog DEF BoughtLogs, ChangedLogs
  <2> QED BY <2>1, UnreadBeforeOne
<1>11. ASSUME NEW x, NEW e, NEW n, BoughtLogs(s, t, logs, x, e, n) PROVE ManagerFact(s, t, b, logs)
  <2>1. ManagerFact(s, t, b, <<x, e>>) /\ logs = <<x, e>>
    BY <1>10, <1>11
  <2> QED BY <2>1
<1>12. ASSUME NEW x, NEW f, NEW e, NEW n, FailedBuyback(s, t, logs, x, f, e, n) PROVE ManagerFact(s, t, b, logs)
  <2>1. ~Read(x) /\ logs = <<x, f, e>> /\ BoughtLogs(s, t, <<f, e>>, f, e, n)
    BY <1>12 DEF FailedBuyback
  <2>2. ManagerFact(s, t, b, <<f, e>>)
    BY <1>10, <2>1
  <2> QED BY <2>1, <2>2, UnreadBeforeTwo
<1> QED
  BY <1>1, <1>2, <1>3, <1>4, <1>5, <1>6, <1>7, <1>8, <1>9, <1>11, <1>12, Zenon DEF ManagerLogs

-----------------------------------------------------------------------------
(* What the lifecycle logs of a block do                                    *)

\* The block after s and before t enables the bond.
Enables(s, t) == s.bond.maturityDate = 0 /\ t.bond.maturityDate # 0

\* Columns the lifecycle logs leave alone
SameCounts(r, u) == /\ u.supply = r.supply /\ u.maturityDuration = r.maturityDuration /\ u.count = r.count
                    /\ u.matured = r.matured /\ u.issued = r.issued

LifecycleEffect(s, t, b, p, q) ==
    /\ q \in Tables /\ SameFlags(p, q) /\ SameAuctions(p, q) /\ SameMoney(p, q) /\ q.history = p.history
    /\ SameCounts(p.bond, q.bond)
    /\ p.bond.offering = s.bond.offering \/ Deploys(s, t) => q.bond.offering = t.bond.offering
    /\ p.bond.maturityDate = s.bond.maturityDate /\ p.bond.maturityDuration = Periods
         => q.bond.maturityDate = t.bond.maturityDate
    /\ q.bond.lastPayment = IF Enables(s, t) /\ p.bond.count = 0 THEN b ELSE p.bond.lastPayment
LifecycleFact(s, t, b, logs) ==
    \A p \in Tables : LifecycleEffect(s, t, b, p, ApplyLogs("lifecycle", p, logs))

LEMMA ApplyLogLifecycle == ASSUME NEW p, NEW e PROVE ApplyLog("lifecycle", p, e) = ApplyLifecycle(p, e)
BY DEF ApplyLog

OfferingEvents == {"IsinIssued", "IsinExtended", "IsinReduced"}
LifeEvents == OfferingEvents \cup {"IsinEnabled", "IsinDisabled"}

LEMMA OtherLife ==
    ASSUME NEW p, NEW e, e.event \notin LifeEvents
    PROVE  ApplyLifecycle(p, e) = p
BY DEF ApplyLifecycle, LifeEvents, OfferingEvents

\* q is p with other columns of the bond.
SavedBond(p, q, state) ==
    /\ q \in Tables /\ SameFlags(p, q) /\ SameAuctions(p, q) /\ SameMoney(p, q) /\ q.history = p.history
    /\ q.bond = state

LEMMA OfferingLog ==
    ASSUME NEW p \in Tables, NEW e, e.event \in OfferingEvents, e.v \in Int, NEW q, q = ApplyLifecycle(p, e)
    PROVE  SavedBond(p, q, [p.bond EXCEPT !.offering = e.v]) /\ p.bond \in BondRows
<1> DEFINE state == [p.bond EXCEPT !.offering = e.v]
<1>1. p.bond \in BondRows /\ state \in BondRows
  <2>1. p.bond \in BondRows
    BY DEF Tables
  <2> QED BY <2>1 DEF BondRows
<1>2. q = ApplyBondStateEvent(p, state)
  BY DEF ApplyLifecycle, OfferingEvents
<1> HIDE DEF state
<1>3. SavedBond(p, q, state)
  BY <1>1, <1>2, StateSaved DEF SavedBond
<1> QED BY <1>1, <1>3 DEF state

LEMMA DisabledLifeLog ==
    ASSUME NEW p \in Tables, NEW e, e.event = "IsinDisabled", NEW q, q = ApplyLifecycle(p, e)
    PROVE  SavedBond(p, q, [p.bond EXCEPT !.disabled = TRUE]) /\ p.bond \in BondRows
<1> DEFINE state == [p.bond EXCEPT !.disabled = TRUE]
<1>1. p.bond \in BondRows /\ state \in BondRows
  <2>1. p.bond \in BondRows
    BY DEF Tables
  <2> QED BY <2>1 DEF BondRows
<1>2. q = ApplyBondStateEvent(p, state)
  BY DEF ApplyLifecycle
<1> HIDE DEF state
<1>3. SavedBond(p, q, state)
  BY <1>1, <1>2, StateSaved DEF SavedBond
<1> QED BY <1>1, <1>3 DEF state

LEMMA EnabledLog ==
    ASSUME NEW p \in Tables, NEW e, e.event = "IsinEnabled", e.block \in Int, NEW q, q = ApplyLifecycle(p, e)
    PROVE  SavedBond(p, q, ReduceEnabled(p.bond, e.block)) /\ p.bond \in BondRows
<1> DEFINE state == ReduceEnabled(p.bond, e.block)
<1>1. p.bond \in BondRows /\ state \in BondRows
  <2>1. p.bond \in BondRows
    BY DEF Tables
  <2>2. PICK l \in Int : l = IF p.bond.count = 0 THEN e.block ELSE p.bond.lastPayment
    BY <2>1 DEF BondRows
  <2>3. state = [p.bond EXCEPT !.lastPayment = l, !.maturityDate = e.block + p.bond.maturityDuration]
    BY <2>2 DEF ReduceEnabled
  <2>4. PICK d \in Int : d = e.block + p.bond.maturityDuration
    BY <2>1 DEF BondRows
  <2> QED BY <2>1, <2>2, <2>3, <2>4 DEF BondRows
<1>2. q = ApplyBondStateEvent(p, state)
  BY DEF ApplyLifecycle
<1> HIDE DEF state
<1>3. SavedBond(p, q, state)
  BY <1>1, <1>2, StateSaved DEF SavedBond
<1> QED BY <1>1, <1>3 DEF state

\* Logs that are no lifecycle logs
Lifeless(logs) == Len(logs) \in Nat /\ \A k \in 1 .. Len(logs) : logs[k].event \notin LifeEvents

LEMMA LifelessLogs ==
    ASSUME NEW p, NEW logs, Lifeless(logs)
    PROVE  ApplyLogs("lifecycle", p, logs) = p
<1> DEFINE n == Len(logs)
<1>0. n \in Nat
  BY DEF Lifeless
<1>1. PICK u : Steps("lifecycle", p, logs, n, u) /\ ApplyLogs("lifecycle", p, logs) = u[n]
  <2>1. PICK u : Applies("lifecycle", p, logs, n, u) /\ ApplyLogs("lifecycle", p, logs) = u[n]
    BY <1>0, AppliesLast
  <2> HIDE DEF n
  <2>2. Steps("lifecycle", p, logs, n, u)
    BY <1>0, <2>1, AppliesAt
  <2> QED BY <2>1, <2>2
<1> DEFINE F == {k \in 0 .. n : u[k] # p}
<1> SUFFICES ASSUME F # {} PROVE FALSE
  <2>1. n \in 0 .. n
    BY <1>0
  <2> QED BY <1>1, <2>1, Zenon
<1>2. PICK k \in F : \A i \in F : k <= i
  <2>1. F \subseteq 0 .. n /\ 0 \in Int /\ n \in Int
    BY <1>0
  <2> HIDE DEF F
  <2> QED BY <2>1, LeastOf
<1>3. k \in 0 .. n /\ u[k] # p
  OBVIOUS
<1>4. k # 0
  BY <1>1, <1>3 DEF Steps
<1>5. k \in 1 .. n /\ k - 1 \in 0 .. n /\ ~(k <= k - 1)
  BY <1>0, <1>3, <1>4
<1>6. u[k - 1] = p
  BY <1>2, <1>5, Zenon
<1>7. u[k] = ApplyLifecycle(u[k - 1], logs[k])
  BY <1>1, <1>5, ApplyLogLifecycle, Zenon DEF Steps
<1>8. logs[k].event \notin LifeEvents
  BY <1>5 DEF Lifeless
<1>9. ApplyLifecycle(p, logs[k]) = p
  BY <1>8, OtherLife
<1> QED BY <1>3, <1>6, <1>7, <1>9, Zenon

\* The token's logs of block b, as far as they are about the life of the bond
PlainLogs(s, t, logs) ==
    /\ Lifeless(logs) /\ ~Deploys(s, t)
    /\ t.bond.offering = s.bond.offering /\ t.bond.maturityDate = s.bond.maturityDate
Offers(e, t) == e.event \in OfferingEvents /\ e.v \in Int /\ t.bond.maturityDate \in Int
OfferLogs(s, t, logs, e) ==
    logs = <<e>> /\ Offers(e, t) /\ e.v = t.bond.offering /\ t.bond.maturityDate = s.bond.maturityDate
OfferTwiceLogs(s, t, logs, e, f) ==
    /\ logs = <<e, f>> /\ Offers(e, t) /\ Offers(f, t) /\ f.v = t.bond.offering
    /\ t.bond.maturityDate = s.bond.maturityDate
DisableLifeLogs(s, t, logs, e) ==
    /\ logs = <<e>> /\ e.event = "IsinDisabled" /\ ~Deploys(s, t)
    /\ t.bond.offering = s.bond.offering /\ t.bond.maturityDate = s.bond.maturityDate
EnableLogs(s, t, b, logs, e, f, g) ==
    /\ logs = <<e, f>> \/ logs = <<e, f, g>>
    /\ e.event \notin LifeEvents /\ f.event = "IsinEnabled" /\ g.event \notin LifeEvents
    /\ f.block = b /\ b \in Int /\ ~Deploys(s, t) /\ Enables(s, t)
    /\ t.bond.offering = s.bond.offering /\ t.bond.maturityDate = b + Periods
LifecycleLogs(s, t, b, logs) ==
    \/ PlainLogs(s, t, logs)
    \/ \E e : OfferLogs(s, t, logs, e) \/ DisableLifeLogs(s, t, logs, e)
    \/ \E e, f : OfferTwiceLogs(s, t, logs, e, f)
    \/ \E e, f, g : EnableLogs(s, t, b, logs, e, f, g)

\* Whatever saves these columns has the effect.
OfferingSet(r, u, v) == SameCounts(r, u) /\ u.offering = v /\ u.maturityDate = r.maturityDate /\ u.lastPayment = r.lastPayment

LEMMA OfferingColumns ==
    ASSUME NEW r \in BondRows, NEW v \in Int
    PROVE  OfferingSet(r, [r EXCEPT !.offering = v], v)
BY DEF OfferingSet, SameCounts, BondRows

LEMMA OfferingEffect ==
    ASSUME NEW s, NEW t, NEW b, NEW p, NEW q, q \in Tables, SameFlags(p, q), SameAuctions(p, q), SameMoney(p, q),
           q.history = p.history, OfferingSet(p.bond, q.bond, t.bond.offering),
           t.bond.maturityDate = s.bond.maturityDate
    PROVE  LifecycleEffect(s, t, b, p, q)
<1>1. ~Enables(s, t)
  BY DEF Enables
<1> QED BY <1>1 DEF LifecycleEffect, OfferingSet

LEMMA OfferOnce ==
    ASSUME NEW s, NEW t, NEW b, NEW logs, NEW e, OfferLogs(s, t, logs, e)
    PROVE  LifecycleFact(s, t, b, logs)
<1> SUFFICES ASSUME NEW p \in Tables, NEW q, q = ApplyLogs("lifecycle", p, logs) PROVE LifecycleEffect(s, t, b, p, q)
  BY DEF LifecycleFact
<1>1. q = ApplyLifecycle(p, e)
  BY ApplyOne, ApplyLogLifecycle DEF OfferLogs
<1>2. SavedBond(p, q, [p.bond EXCEPT !.offering = e.v]) /\ p.bond \in BondRows /\ e.v \in Int
  BY <1>1, OfferingLog DEF OfferLogs, Offers
<1>3. OfferingSet(p.bond, q.bond, t.bond.offering)
  <2>1. OfferingSet(p.bond, [p.bond EXCEPT !.offering = e.v], e.v)
    BY <1>2, OfferingColumns
  <2> QED BY <1>2, <2>1 DEF SavedBond, OfferLogs
<1> QED BY <1>2, <1>3, OfferingEffect DEF SavedBond, OfferLogs

LEMMA OfferTwice ==
    ASSUME NEW s, NEW t, NEW b, NEW logs, NEW e, NEW f, OfferTwiceLogs(s, t, logs, e, f)
    PROVE  LifecycleFact(s, t, b, logs)
<1> SUFFICES ASSUME NEW p \in Tables, NEW q, q = ApplyLogs("lifecycle", p, logs) PROVE LifecycleEffect(s, t, b, p, q)
  BY DEF LifecycleFact
<1>0. PICK r : r = ApplyLifecycle(p, e)
  OBVIOUS
<1>1. q = ApplyLifecycle(r, f)
  BY <1>0, ApplyTwo, ApplyLogLifecycle DEF OfferTwiceLogs
<1>2. SavedBond(p, r, [p.bond EXCEPT !.offering = e.v]) /\ p.bond \in BondRows /\ e.v \in Int
  BY <1>0, OfferingLog DEF OfferTwiceLogs, Offers
<1>3. SavedBond(r, q, [r.bond EXCEPT !.offering = f.v]) /\ r.bond \in BondRows /\ f.v \in Int
  <2>1. r \in Tables
    BY <1>2 DEF SavedBond
  <2> QED BY <1>1, <2>1, OfferingLog DEF OfferTwiceLogs, Offers
<1>4. OfferingSet(p.bond, r.bond, e.v)
  <2>1. OfferingSet(p.bond, [p.bond EXCEPT !.offering = e.v], e.v)
    BY <1>2, OfferingColumns
  <2> QED BY <1>2, <2>1 DEF SavedBond
<1>5. OfferingSet(r.bond, q.bond, t.bond.offering)
  <2>1. OfferingSet(r.bond, [r.bond EXCEPT !.offering = f.v], f.v)
    BY <1>3, OfferingColumns
  <2> QED BY <1>3, <2>1 DEF SavedBond, OfferTwiceLogs
<1>6. OfferingSet(p.bond, q.bond, t.bond.offering)
  BY <1>4, <1>5 DEF OfferingSet, SameCounts
<1>7. q \in Tables /\ SameFlags(p, q) /\ SameAuctions(p, q) /\ SameMoney(p, q) /\ q.history = p.history
  BY <1>2, <1>3 DEF SavedBond, SameFlags, SameAuctions, SameMoney
<1> QED BY <1>6, <1>7, OfferingEffect DEF OfferTwiceLogs

LEMMA DisableLife ==
    ASSUME NEW s, NEW t, NEW b, NEW logs, NEW e, DisableLifeLogs(s, t, logs, e)
    PROVE  LifecycleFact(s, t, b, logs)
<1> SUFFICES ASSUME NEW p \in Tables, NEW q, q = ApplyLogs("lifecycle", p, logs) PROVE LifecycleEffect(s, t, b, p, q)
  BY DEF LifecycleFact
<1>1. q = ApplyLifecycle(p, e)
  BY ApplyOne, ApplyLogLifecycle DEF DisableLifeLogs
<1>2. SavedBond(p, q, [p.bond EXCEPT !.disabled = TRUE]) /\ p.bond \in BondRows
  BY <1>1, DisabledLifeLog DEF DisableLifeLogs
<1>3. /\ SameCounts(p.bond, q.bond) /\ q.bond.offering = p.bond.offering /\ q.bond.maturityDate = p.bond.maturityDate
      /\ q.bond.lastPayment = p.bond.lastPayment
  BY <1>2 DEF SavedBond, SameCounts, BondRows
<1>4. ~Enables(s, t) /\ ~Deploys(s, t) /\ t.bond.offering = s.bond.offering /\ t.bond.maturityDate = s.bond.maturityDate
  BY DEF Enables, DisableLifeLogs
<1> QED BY <1>2, <1>3, <1>4 DEF LifecycleEffect, SavedBond

LEMMA PlainLife ==
    ASSUME NEW s, NEW t, NEW b, NEW logs, PlainLogs(s, t, logs)
    PROVE  LifecycleFact(s, t, b, logs)
<1> SUFFICES ASSUME NEW p \in Tables PROVE LifecycleEffect(s, t, b, p, p)
  BY LifelessLogs DEF LifecycleFact, PlainLogs
<1>1. ~Enables(s, t) /\ ~Deploys(s, t) /\ t.bond.offering = s.bond.offering /\ t.bond.maturityDate = s.bond.maturityDate
  BY DEF Enables, PlainLogs
<1> QED BY <1>1 DEF LifecycleEffect, SameFlags, SameAuctions, SameMoney, SameCounts

LEMMA EnabledColumns ==
    ASSUME NEW r \in BondRows, NEW b \in Int
    PROVE  /\ SameCounts(r, ReduceEnabled(r, b)) /\ ReduceEnabled(r, b).offering = r.offering
           /\ ReduceEnabled(r, b).maturityDate = b + r.maturityDuration
           /\ ReduceEnabled(r, b).lastPayment = IF r.count = 0 THEN b ELSE r.lastPayment
<1>1. PICK l \in Int : l = IF r.count = 0 THEN b ELSE r.lastPayment
  BY DEF BondRows
<1>2. PICK d \in Int : d = b + r.maturityDuration
  BY DEF BondRows
<1>3. ReduceEnabled(r, b) = [r EXCEPT !.lastPayment = l, !.maturityDate = d]
  BY <1>1, <1>2 DEF ReduceEnabled
<1>4. PICK u : u = [r EXCEPT !.lastPayment = l, !.maturityDate = d]
  OBVIOUS
<1>5. SameCounts(r, u) /\ u.offering = r.offering /\ u.maturityDate = d /\ u.lastPayment = l
  BY <1>1, <1>2, <1>4 DEF SameCounts, BondRows
<1> QED BY <1>1, <1>2, <1>3, <1>4, <1>5

LEMMA EnableLife ==
    ASSUME NEW s, NEW t, NEW b, NEW logs, NEW e, NEW f, NEW g, EnableLogs(s, t, b, logs, e, f, g)
    PROVE  LifecycleFact(s, t, b, logs)
<1> SUFFICES ASSUME NEW p \in Tables, NEW q, q = ApplyLogs("lifecycle", p, logs) PROVE LifecycleEffect(s, t, b, p, q)
  BY DEF LifecycleFact
<1>1. q = ApplyLifecycle(p, f)
  <2>1. ApplyLifecycle(p, e) = p /\ ApplyLifecycle(ApplyLifecycle(p, f), g) = ApplyLifecycle(p, f)
    BY OtherLife DEF EnableLogs
  <2>2. CASE logs = <<e, f>>
    BY <2>1, <2>2, ApplyTwo, ApplyLogLifecycle
  <2>3. CASE logs = <<e, f, g>>
    BY <2>1, <2>3, ApplyThree, ApplyLogLifecycle
  <2> QED BY <2>2, <2>3 DEF EnableLogs
<1>0. b \in Int /\ f.block = b /\ Enables(s, t) /\ ~Deploys(s, t) /\ t.bond.offering = s.bond.offering /\ t.bond.maturityDate = b + Periods
  BY DEF EnableLogs
<1>2. SavedBond(p, q, ReduceEnabled(p.bond, b)) /\ p.bond \in BondRows
  BY <1>0, <1>1, EnabledLog DEF EnableLogs
<1>3. /\ SameCounts(p.bond, q.bond) /\ q.bond.offering = p.bond.offering
      /\ q.bond.maturityDate = b + p.bond.maturityDuration
      /\ q.bond.lastPayment = IF p.bond.count = 0 THEN b ELSE p.bond.lastPayment
  BY <1>0, <1>2, EnabledColumns DEF SavedBond
<1> QED BY <1>0, <1>2, <1>3 DEF LifecycleEffect, SavedBond

LEMMA LifecycleLogsFact ==
    ASSUME NEW s, NEW t, NEW b, NEW logs, LifecycleLogs(s, t, b, logs)
    PROVE  LifecycleFact(s, t, b, logs)
<1>1. ASSUME NEW e, OfferLogs(s, t, logs, e) PROVE LifecycleFact(s, t, b, logs)
  BY <1>1, OfferOnce
<1>2. ASSUME NEW e, DisableLifeLogs(s, t, logs, e) PROVE LifecycleFact(s, t, b, logs)
  BY <1>2, DisableLife
<1>3. ASSUME NEW e, NEW f, OfferTwiceLogs(s, t, logs, e, f) PROVE LifecycleFact(s, t, b, logs)
  BY <1>3, OfferTwice
<1>4. ASSUME NEW e, NEW f, NEW g, EnableLogs(s, t, b, logs, e, f, g) PROVE LifecycleFact(s, t, b, logs)
  BY <1>4, EnableLife
<1>5. ASSUME PlainLogs(s, t, logs) PROVE LifecycleFact(s, t, b, logs)
  BY <1>5, PlainLife
<1> QED BY <1>1, <1>2, <1>3, <1>4, <1>5, Zenon DEF LifecycleLogs

-----------------------------------------------------------------------------
(* What the transfers of a block do                                         *)

Accounts == Owners \cup {NoOne}

\* What log e adds to the balance of a, and the first k logs together
Gain(e, a) == IF e.event = "TransferByPartition" THEN ReducePartitionTransfer(e, a) ELSE 0
GainsTo(logs, a, k) == SumFunctionOnSet([j \in 1 .. k |-> Gain(logs[j], a)], 1 .. k)

\* The logs of block b, each a transfer of a whole amount or none
Countable(logs, b) ==
    /\ Len(logs) \in Nat /\ b \in Int
    /\ \A k \in 1 .. Len(logs) : logs[k].block = b /\ \A a \in Accounts : Gain(logs[k], a) \in Int

LEMMA AccountSets ==
    /\ IsFiniteSet(Owners) /\ NoOne \notin Owners /\ Owners \subseteq Accounts /\ NoOne \in Accounts
    /\ Holders \subseteq Owners /\ Manager \in Owners /\ Manager \notin Holders
<1>1. IsFiniteSet(Holders \cup {Manager})
  BY BondChainAssumption, FS_AddElement
<1> QED BY <1>1, BondChainAssumption DEF Owners, Accounts

LEMMA GainsNone ==
    ASSUME NEW logs, NEW a
    PROVE  GainsTo(logs, a, 0) = 0
<1>1. 1 .. 0 = {}
  OBVIOUS
<1> QED BY <1>1, SumEmpty DEF GainsTo

LEMMA GainsMore ==
    ASSUME NEW logs, NEW a, NEW k \in Nat \ {0}, \A j \in 1 .. k : Gain(logs[j], a) \in Int
    PROVE  /\ GainsTo(logs, a, k) = GainsTo(logs, a, k - 1) + Gain(logs[k], a)
           /\ GainsTo(logs, a, k - 1) \in Int
<1> DEFINE f == [j \in 1 .. (k - 1) |-> Gain(logs[j], a)]
           g == [j \in 1 .. k |-> Gain(logs[j], a)]
<1>1. k - 1 \in Nat /\ (k - 1) + 1 = k /\ k \in 1 .. k /\ \A j \in 1 .. (k - 1) : j \in 1 .. k
  OBVIOUS
<1>2. OneMore(f, g, k - 1)
  BY <1>1 DEF OneMore
<1>3. g[k] = Gain(logs[k], a)
  BY <1>1
<1>4. IsFiniteSet(1 .. (k - 1)) /\ \A j \in 1 .. (k - 1) : f[j] \in Int
  BY <1>1, FS_Interval
<1>5. GainsTo(logs, a, k) = SumFunctionOnSet(g, 1 .. k) /\ GainsTo(logs, a, k - 1) = SumFunctionOnSet(f, 1 .. (k - 1))
  BY Zenon DEF GainsTo
<1> HIDE DEF f, g
<1>6. SumFunctionOnSet(g, 1 .. (k - 1) + 1) = SumFunctionOnSet(f, 1 .. (k - 1)) + g[(k - 1) + 1]
  BY <1>2, SumExtended
<1>7. SumFunctionOnSet(f, 1 .. (k - 1)) \in Int
  BY <1>4, SumInt
<1> QED BY <1>1, <1>3, <1>5, <1>6, <1>7

\* The tables stay sound: a supply below 0 fails the transaction.
Sound(p) == p.bond.supply >= 0 \/ p.failed

\* What stays as it is
SameLifeColumns(r, u) ==
    /\ u.offering = r.offering /\ u.maturityDuration = r.maturityDuration /\ u.maturityDate = r.maturityDate
    /\ u.lastPayment = r.lastPayment /\ u.count = r.count /\ u.matured = r.matured /\ u.issued = r.issued
OnlyMoney(p, q) ==
    /\ q \in Tables /\ SameFlags(p, q) /\ SameAuctions(p, q) /\ q.history = p.history /\ q.applied = p.applied
    /\ SameLifeColumns(p.bond, q.bond)
    /\ Sound(p) => Sound(q)

\* A transfer that counts
Moves(p, e) == e.event = "TransferByPartition" /\ IsNew(p, e)

LEMMA TransferLog ==
    ASSUME NEW p \in Tables, NEW e, \A a \in Accounts : Gain(e, a) \in Int, NEW q, q = ApplyTransfer(p, e)
    PROVE  /\ OnlyMoney(p, q)
           /\ ~Moves(p, e) => q = p
           /\ IsNew(p, e) => /\ \A a \in Owners : q.bal[a] = p.bal[a] + Gain(e, a)
                             /\ q.bond.supply = p.bond.supply - Gain(e, NoOne)
<1>0. p.bond \in BondRows /\ p.bal \in [Owners -> Int] /\ p.failed \in BOOLEAN
  BY DEF Tables
<1>1. CASE ~Moves(p, e)
  <2>1. q = p
    BY <1>1 DEF ApplyTransfer, Moves
  <2>2. OnlyMoney(p, p)
    BY DEF OnlyMoney, SameFlags, SameAuctions, SameLifeColumns
  <2>3. IsNew(p, e) => \A a \in Accounts : Gain(e, a) = 0
    BY <1>1 DEF Moves, Gain
  <2>4. p.bond.supply \in Int /\ \A a \in Owners : p.bal[a] \in Int
    BY <1>0 DEF BondRows
  <2> QED BY <2>1, <2>2, <2>3, <2>4, AccountSets
<1>2. CASE Moves(p, e)
  <2>1. \A a \in Accounts : ReducePartitionTransfer(e, a) = Gain(e, a)
    BY <1>2 DEF Moves, Gain
  <2>2. PICK supply \in Int : supply = p.bond.supply - ReducePartitionTransfer(e, NoOne)
    BY <1>0, <2>1, AccountSets DEF BondRows
  <2>3. PICK bal : bal = [a \in Owners |-> p.bal[a] + ReducePartitionTransfer(e, a)]
    OBVIOUS
  <2>4. bal \in [Owners -> Int] /\ \A a \in Owners : bal[a] = p.bal[a] + Gain(e, a)
    BY <1>0, <2>1, <2>3, AccountSets
  <2>5. PICK failed \in BOOLEAN : failed <=> (p.failed \/ supply < 0)
    <3>1. (p.failed \/ supply < 0) \in BOOLEAN
      BY Zenon
    <3> QED BY <3>1, Zenon
  <2>6. q = [p EXCEPT !.bal = bal, !.bond.supply = supply, !.failed = p.failed \/ supply < 0]
    BY <1>2, <2>2, <2>3 DEF ApplyTransfer, Moves
  <2>7. PICK state : state = [p.bond EXCEPT !.supply = supply]
    OBVIOUS
  <2>8. state \in BondRows /\ state.supply = supply /\ SameLifeColumns(p.bond, state)
    BY <1>0, <2>2, <2>7 DEF BondRows, SameLifeColumns
  <2>9. failed = (p.failed \/ supply < 0)
    BY <1>0, <2>5, Zenon
  <2>10. q = [p EXCEPT !.bal = bal, !.bond = state, !.failed = failed]
    BY <2>6, <2>7, <2>9 DEF Tables
  <2>11. q \in Tables /\ q.bal = bal /\ q.bond = state /\ q.failed = failed /\ q.listed = p.listed /\ q.hidden = p.hidden
         /\ q.auction = p.auction /\ q.history = p.history /\ q.applied = p.applied
    BY <1>0, <2>4, <2>5, <2>8, <2>10 DEF Tables
  <2>12. Sound(q)
    BY <2>2, <2>5, <2>8, <2>11 DEF Sound
  <2>13. OnlyMoney(p, q)
    BY <2>8, <2>11, <2>12 DEF OnlyMoney, SameFlags, SameAuctions
  <2>14. q.bond.supply = p.bond.supply - Gain(e, NoOne)
    BY <2>1, <2>2, <2>8, <2>11, AccountSets
  <2> QED BY <1>2, <2>4, <2>11, <2>13, <2>14
<1> QED BY <1>1, <1>2

MovedTo(p, q, logs, k) ==
    /\ OnlyMoney(p, q)
    /\ \A a \in Owners : q.bal[a] = p.bal[a] + GainsTo(logs, a, k)
    /\ q.bond.supply = p.bond.supply - GainsTo(logs, NoOne, k)

LEMMA ApplyLogTransfers == ASSUME NEW p, NEW e PROVE ApplyLog("transfers", p, e) = ApplyTransfer(p, e)
BY DEF ApplyLog

LEMMA TransferStep ==
    ASSUME NEW p \in Tables, NEW b, NEW logs, Countable(logs, b), p.listed, b \notin p.applied,
           NEW k \in 1 .. Len(logs), NEW r, MovedTo(p, r, logs, k - 1), NEW q, q = ApplyTransfer(r, logs[k])
    PROVE  MovedTo(p, q, logs, k)
<1>0. Len(logs) \in Nat /\ k \in Nat \ {0} /\ 1 .. k \subseteq 1 .. Len(logs)
  BY DEF Countable
<1>1. r \in Tables /\ r.listed /\ r.applied = p.applied /\ OnlyMoney(p, r)
  BY DEF MovedTo, OnlyMoney, SameFlags
<1>2. logs[k].block = b /\ \A a \in Accounts : Gain(logs[k], a) \in Int
  BY DEF Countable
<1>3. IsNew(r, logs[k])
  BY <1>1, <1>2 DEF IsNew
<1>4. /\ OnlyMoney(r, q) /\ \A a \in Owners : q.bal[a] = r.bal[a] + Gain(logs[k], a)
      /\ q.bond.supply = r.bond.supply - Gain(logs[k], NoOne)
  BY <1>1, <1>2, <1>3, TransferLog
<1>5. ASSUME NEW a \in Accounts
      PROVE  GainsTo(logs, a, k) = GainsTo(logs, a, k - 1) + Gain(logs[k], a) /\ GainsTo(logs, a, k - 1) \in Int
  <2>1. \A j \in 1 .. k : Gain(logs[j], a) \in Int
    BY <1>0 DEF Countable
  <2> QED BY <1>0, <2>1, GainsMore
<1>6. OnlyMoney(p, q)
  BY <1>1, <1>4 DEF OnlyMoney, SameFlags, SameAuctions, SameLifeColumns
<1>7. ASSUME NEW a \in Owners PROVE q.bal[a] = p.bal[a] + GainsTo(logs, a, k)
  <2>1. a \in Accounts /\ p.bal[a] \in Int
    BY AccountSets DEF Tables
  <2>2. PICK x \in Int : x = GainsTo(logs, a, k - 1)
    BY <1>5, <2>1
  <2>3. PICK y \in Int : y = Gain(logs[k], a)
    BY <1>2, <2>1
  <2>4. GainsTo(logs, a, k) = x + y
    BY <1>5, <2>1, <2>2, <2>3
  <2>5. r.bal[a] = p.bal[a] + x /\ q.bal[a] = r.bal[a] + y
    BY <1>4, <2>2, <2>3 DEF MovedTo
  <2> QED BY <2>1, <2>4, <2>5
<1>8. q.bond.supply = p.bond.supply - GainsTo(logs, NoOne, k)
  <2>1. NoOne \in Accounts /\ p.bond.supply \in Int
    BY AccountSets DEF Tables, BondRows
  <2>2. PICK x \in Int : x = GainsTo(logs, NoOne, k - 1)
    BY <1>5, <2>1
  <2>3. PICK y \in Int : y = Gain(logs[k], NoOne)
    BY <1>2, <2>1
  <2>4. GainsTo(logs, NoOne, k) = x + y
    BY <1>5, <2>1, <2>2, <2>3
  <2>5. r.bond.supply = p.bond.supply - x /\ q.bond.supply = r.bond.supply - y
    BY <1>4, <2>2, <2>3 DEF MovedTo
  <2> QED BY <2>1, <2>4, <2>5
<1> QED BY <1>6, <1>7, <1>8 DEF MovedTo

LEMMA TransfersApplied ==
    ASSUME NEW p \in Tables, NEW b, NEW logs, Countable(logs, b), p.listed, b \notin p.applied
    PROVE  MovedTo(p, ApplyLogs("transfers", p, logs), logs, Len(logs))
<1> DEFINE n == Len(logs)
<1>0. n \in Nat
  BY DEF Countable
<1>1. PICK u : Steps("transfers", p, logs, n, u) /\ ApplyLogs("transfers", p, logs) = u[n]
  <2>1. PICK u : Applies("transfers", p, logs, n, u) /\ ApplyLogs("transfers", p, logs) = u[n]
    BY <1>0, AppliesLast
  <2> HIDE DEF n
  <2>2. Steps("transfers", p, logs, n, u)
    BY <1>0, <2>1, AppliesAt
  <2> QED BY <2>1, <2>2
<1> DEFINE F == {k \in 0 .. n : ~MovedTo(p, u[k], logs, k)}
<1> SUFFICES ASSUME F # {} PROVE FALSE
  <2>1. n \in 0 .. n
    BY <1>0
  <2> QED BY <1>1, <2>1, Zenon
<1>2. PICK k \in F : \A i \in F : k <= i
  <2>1. F \subseteq 0 .. n /\ 0 \in Int /\ n \in Int
    BY <1>0
  <2> HIDE DEF F
  <2> QED BY <2>1, LeastOf
<1>3. k \in 0 .. n /\ ~MovedTo(p, u[k], logs, k)
  OBVIOUS
<1>4. k # 0
  <2>1. u[0] = p
    BY <1>1, Zenon DEF Steps
  <2>2. OnlyMoney(p, p)
    BY DEF OnlyMoney, SameFlags, SameAuctions, SameLifeColumns
  <2>3. p.bond.supply \in Int /\ \A a \in Owners : p.bal[a] \in Int
    BY DEF Tables, BondRows
  <2>4. GainsTo(logs, NoOne, 0) = 0 /\ \A a \in Owners : GainsTo(logs, a, 0) = 0
    BY GainsNone
  <2>5. MovedTo(p, p, logs, 0)
    BY <2>2, <2>3, <2>4 DEF MovedTo
  <2> QED BY <1>3, <2>1, <2>5
<1>5. k \in 1 .. n /\ k - 1 \in 0 .. n /\ ~(k <= k - 1)
  BY <1>0, <1>3, <1>4
<1>6. MovedTo(p, u[k - 1], logs, k - 1)
  BY <1>2, <1>5, Zenon
<1>7. u[k] = ApplyTransfer(u[k - 1], logs[k])
  BY <1>1, <1>5, ApplyLogTransfers, Zenon DEF Steps
<1>8. k \in 1 .. Len(logs)
  BY <1>5
<1>9. MovedTo(p, u[k], logs, k)
  <2>1. PICK r, q : r = u[k - 1] /\ q = u[k]
    OBVIOUS
  <2>2. MovedTo(p, r, logs, k - 1) /\ q = ApplyTransfer(r, logs[k])
    BY <1>6, <1>7, <2>1
  <2> HIDE DEF n, F
  <2>3. MovedTo(p, q, logs, k)
    BY <1>8, <2>2, TransferStep
  <2> QED BY <2>1, <2>3
<1> QED BY <1>3, <1>9

LEMMA TransfersSkipped ==
    ASSUME NEW p, NEW b, NEW logs, Countable(logs, b), ~(p.listed /\ b \notin p.applied)
    PROVE  ApplyLogs("transfers", p, logs) = p
<1> DEFINE n == Len(logs)
<1>0. n \in Nat
  BY DEF Countable
<1>1. PICK u : Steps("transfers", p, logs, n, u) /\ ApplyLogs("transfers", p, logs) = u[n]
  <2>1. PICK u : Applies("transfers", p, logs, n, u) /\ ApplyLogs("transfers", p, logs) = u[n]
    BY <1>0, AppliesLast
  <2> HIDE DEF n
  <2>2. Steps("transfers", p, logs, n, u)
    BY <1>0, <2>1, AppliesAt
  <2> QED BY <2>1, <2>2
<1> DEFINE F == {k \in 0 .. n : u[k] # p}
<1> SUFFICES ASSUME F # {} PROVE FALSE
  <2>1. n \in 0 .. n
    BY <1>0
  <2> QED BY <1>1, <2>1, Zenon
<1>2. PICK k \in F : \A i \in F : k <= i
  <2>1. F \subseteq 0 .. n /\ 0 \in Int /\ n \in Int
    BY <1>0
  <2> HIDE DEF F
  <2> QED BY <2>1, LeastOf
<1>3. k \in 0 .. n /\ u[k] # p
  OBVIOUS
<1>4. k # 0
  BY <1>1, <1>3 DEF Steps
<1>5. k \in 1 .. n /\ k - 1 \in 0 .. n /\ ~(k <= k - 1)
  BY <1>0, <1>3, <1>4
<1>6. u[k - 1] = p
  BY <1>2, <1>5, Zenon
<1>7. u[k] = ApplyTransfer(u[k - 1], logs[k])
  BY <1>1, <1>5, ApplyLogTransfers, Zenon DEF Steps
<1>8. logs[k].block = b
  BY <1>5 DEF Countable
<1>9. ApplyTransfer(p, logs[k]) = p
  BY <1>8 DEF ApplyTransfer, IsNew
<1> QED BY <1>3, <1>6, <1>7, <1>9, Zenon

\* The token's logs of block b, as far as they move units
MoneyLogs(s, t, b, logs) ==
    /\ Countable(logs, b) /\ s.bond.supply \in Int /\ t.bond.supply \in Int
    /\ \A a \in Owners : s.bal[a] \in Int /\ t.bal[a] \in Int /\ t.bal[a] = s.bal[a] + GainsTo(logs, a, Len(logs))
    /\ t.bond.supply = s.bond.supply - GainsTo(logs, NoOne, Len(logs))

TransferEffect(s, t, b, p, q) ==
    /\ OnlyMoney(p, q)
    /\ ~(p.listed /\ b \notin p.applied) => q = p
    /\ p.listed /\ b \notin p.applied =>
         /\ \A a \in Owners : q.bal[a] = p.bal[a] + (t.bal[a] - s.bal[a])
         /\ q.bond.supply = p.bond.supply + (t.bond.supply - s.bond.supply)
TransferFact(s, t, b, logs) ==
    \A p \in Tables : TransferEffect(s, t, b, p, ApplyLogs("transfers", p, logs))

LEMMA GainsInt ==
    ASSUME NEW logs, NEW b, Countable(logs, b), NEW a \in Accounts
    PROVE  GainsTo(logs, a, Len(logs)) \in Int
<1>1. Len(logs) \in Nat /\ IsFiniteSet(1 .. Len(logs))
  BY FS_Interval DEF Countable
<1> DEFINE f == [j \in 1 .. Len(logs) |-> Gain(logs[j], a)]
<1>2. \A j \in 1 .. Len(logs) : f[j] \in Int
  BY DEF Countable
<1> HIDE DEF f
<1>3. SumFunctionOnSet(f, 1 .. Len(logs)) \in Int
  BY <1>1, <1>2, SumInt
<1> QED BY <1>3 DEF GainsTo, f

LEMMA MoneyLogsFact ==
    ASSUME NEW s, NEW t, NEW b, NEW logs, MoneyLogs(s, t, b, logs)
    PROVE  TransferFact(s, t, b, logs)
<1> SUFFICES ASSUME NEW p \in Tables, NEW q, q = ApplyLogs("transfers", p, logs) PROVE TransferEffect(s, t, b, p, q)
  BY DEF TransferFact
<1>0. Countable(logs, b)
  BY DEF MoneyLogs
<1>1. CASE p.listed /\ b \notin p.applied
  <2>1. MovedTo(p, q, logs, Len(logs))
    BY <1>0, <1>1, TransfersApplied
  <2>2. ASSUME NEW a \in Owners PROVE q.bal[a] = p.bal[a] + (t.bal[a] - s.bal[a])
    <3>1. PICK g \in Int : g = GainsTo(logs, a, Len(logs))
      BY <1>0, AccountSets, GainsInt
    <3>2. t.bal[a] = s.bal[a] + g /\ s.bal[a] \in Int /\ t.bal[a] \in Int /\ q.bal[a] = p.bal[a] + g
      BY <2>1, <3>1 DEF MoneyLogs, MovedTo
    <3> QED BY <3>2
  <2>3. q.bond.supply = p.bond.supply + (t.bond.supply - s.bond.supply)
    <3>1. PICK g \in Int : g = GainsTo(logs, NoOne, Len(logs))
      BY <1>0, AccountSets, GainsInt
    <3>2. t.bond.supply = s.bond.supply - g /\ s.bond.supply \in Int /\ q.bond.supply = p.bond.supply - g
      BY <2>1, <3>1 DEF MoneyLogs, MovedTo
    <3>3. p.bond.supply \in Int
      BY DEF Tables, BondRows
    <3> QED BY <3>1, <3>2, <3>3
  <2> QED BY <1>1, <2>1, <2>2, <2>3 DEF TransferEffect, MovedTo
<1>2. CASE ~(p.listed /\ b \notin p.applied)
  <2>1. q = p
    BY <1>0, <1>2, TransfersSkipped
  <2>2. OnlyMoney(p, p)
    BY DEF OnlyMoney, SameFlags, SameAuctions, SameLifeColumns
  <2> QED BY <1>2, <2>1, <2>2 DEF TransferEffect
<1> QED BY <1>1, <1>2

-----------------------------------------------------------------------------
(* What the logs of the auction contract do                                 *)

\* Row n tells of the bids and allocations of auction n what s does.
TellsBids(p, s, n) == p.auction[n].bids = BidsIn(s, n) /\ p.auction[n].allocations = AllocationsIn(s, n)
BidsFollow(p, q, s, t) == \A n \in 1 .. MaxAuctions : TellsBids(p, s, n) => TellsBids(q, t, n)

\* The auctions there are after t have rows already, of their type.
KnownRows(p, t) ==
    \A n \in (DOMAIN t.auctions) \cap (1 .. MaxAuctions) :
        p.auction[n].type = TypeIn(t, n) /\ p.auction[n].status # "none"
SameKinds(p, q) ==
    \A n \in 1 .. MaxAuctions :
        q.auction[n].type = p.auction[n].type /\ q.auction[n].status = p.auction[n].status
SameRest(p, q) ==
    q \in Tables /\ SameBonds(p, q) /\ SameFlags(p, q) /\ SameMoney(p, q) /\ q.history = p.history

AuctionEffect(s, t, p, q) ==
    SameRest(p, q) /\ BidsFollow(p, q, s, t) /\ (KnownRows(p, t) => SameKinds(p, q))
AuctionFact(s, t, logs) ==
    \A p \in Tables : AuctionEffect(s, t, p, ApplyLogs("auction", p, logs))

LEMMA ApplyLogAuction == ASSUME NEW p, NEW e PROVE ApplyLog("auction", p, e) = ApplyAuction(p, e)
BY DEF ApplyLog

RowPut(p, q, n, row) == row \in AuctionRows /\ n \in 1 .. MaxAuctions /\ q = [p EXCEPT !.auction[n] = row]

LEMMA RowReplaced ==
    ASSUME NEW p \in Tables, NEW q, NEW n, NEW row, RowPut(p, q, n, row)
    PROVE  SameRest(p, q) /\ q.auction[n] = row /\ OtherRows(p, q, n)
<1>0. row \in AuctionRows /\ n \in 1 .. MaxAuctions /\ q = [p EXCEPT !.auction[n] = row]
  BY DEF RowPut
<1>1. PICK rows : rows = [p.auction EXCEPT ![n] = row]
  OBVIOUS
<1>2. p.auction \in [1 .. MaxAuctions -> AuctionRows]
  BY DEF Tables
<1>3. rows \in [1 .. MaxAuctions -> AuctionRows] /\ rows[n] = row /\ \A m \in (1 .. MaxAuctions) \ {n} : rows[m] = p.auction[m]
  BY <1>0, <1>1, <1>2
<1>4. q = [p EXCEPT !.auction = rows]
  BY <1>0, <1>1 DEF Tables
<1>5. q \in Tables /\ q.auction = rows /\ SameBonds(p, q) /\ SameFlags(p, q) /\ SameMoney(p, q) /\ q.history = p.history
  BY <1>3, <1>4 DEF Tables, SameBonds, SameFlags, SameMoney
<1> QED BY <1>3, <1>5 DEF SameRest, OtherRows

\* One row per log
CreatesRow(t, e, n) ==
    /\ n \in 1 .. MaxAuctions /\ n \in DOMAIN t.auctions
    /\ e.event = "AuctionCreated" /\ e.v = n /\ e.type = TypeIn(t, n) /\ e.type \in Types
OtherRowBids(s, t, n) ==
    \A m \in (1 .. MaxAuctions) \ {n} : BidsIn(t, m) = BidsIn(s, m) /\ AllocationsIn(t, m) = AllocationsIn(s, m)
SameRowBids(s, t) ==
    \A m \in 1 .. MaxAuctions : BidsIn(t, m) = BidsIn(s, m) /\ AllocationsIn(t, m) = AllocationsIn(s, m)
AddsBid(s, t, f, n) ==
    /\ n \in 1 .. MaxAuctions /\ BidsIn(s, n) \in Seq(Holders)
    /\ f.event = "BidSubmitted" /\ f.v = n /\ f.bid = Len(BidsIn(s, n)) + 1 /\ f.from \in Holders
    /\ BidsIn(t, n) = Append(BidsIn(s, n), f.from) /\ AllocationsIn(t, n) = AllocationsIn(s, n)
    /\ OtherRowBids(s, t, n)
Allocates(s, t, b, e, n) ==
    /\ n \in 1 .. MaxAuctions /\ n \in DOMAIN t.auctions
    /\ e.event = "AuctionFinalized" /\ e.v = n /\ e.block = b
    /\ AllocationsIn(t, n) \in Seq([bidder : Holders, units : Nat])
    /\ BidsIn(t, n) = BidsIn(s, n) /\ OtherRowBids(s, t, n)

AuctionLogs(s, t, b, logs) ==
    \/ logs = <<>> /\ SameRowBids(s, t)
    \/ \E e, n : logs = <<e>> /\ CreatesRow(t, e, n) /\ SameRowBids(s, t)
    \/ \E e, f, n : logs = <<e, f>> /\ CreatesRow(t, e, n) /\ AddsBid(s, t, f, n)
    \/ \E f, n : logs = <<f>> /\ AddsBid(s, t, f, n)
    \/ \E e, n : logs = <<e>> /\ Allocates(s, t, b, e, n)

LEMMA RowCreated ==
    ASSUME NEW p \in Tables, NEW t, NEW e, NEW n, CreatesRow(t, e, n), NEW q, q = ApplyAuction(p, e)
    PROVE  SameRest(p, q) /\ SameBids(p, q) /\ (KnownRows(p, t) => SameKinds(p, q))
<1>0. n \in 1 .. MaxAuctions /\ e.type \in Types /\ e.event = "AuctionCreated" /\ e.v = n /\ e.type = TypeIn(t, n) /\ n \in DOMAIN t.auctions
  BY DEF CreatesRow
<1>1. p.auction[n] \in AuctionRows
  BY <1>0 DEF Tables
<1>2. PICK status \in Statuses : status = IF p.auction[n].status = "none" THEN "open" ELSE p.auction[n].status
  BY <1>1 DEF AuctionRows, Statuses
<1>3. PICK row : row = [p.auction[n] EXCEPT !.type = e.type, !.status = status]
  OBVIOUS
<1>4. row \in AuctionRows /\ row.type = e.type /\ row.status = status /\ row.bids = p.auction[n].bids
      /\ row.allocations = p.auction[n].allocations
  BY <1>0, <1>1, <1>2, <1>3 DEF AuctionRows
<1>5. UpsertAuction(p.auction[n], e.type) = row
  BY <1>2, <1>3 DEF UpsertAuction
<1>6. RowPut(p, q, n, row)
  BY <1>0, <1>4, <1>5 DEF ApplyAuction, RowPut
<1>7. SameRest(p, q) /\ q.auction[n] = row /\ OtherRows(p, q, n)
  BY <1>6, RowReplaced
<1>8. SameBids(p, q)
  BY <1>4, <1>7 DEF SameBids, OtherRows
<1>9. ASSUME KnownRows(p, t) PROVE SameKinds(p, q)
  <2>1. p.auction[n].type = e.type /\ status = p.auction[n].status
    BY <1>0, <1>2, <1>9 DEF KnownRows
  <2> QED BY <1>4, <1>7, <2>1 DEF SameKinds, OtherRows
<1> QED BY <1>7, <1>8, <1>9

\* A bid under the next index is appended; a row always stays a row.
BidPut(row, k, h, new) ==
    /\ new \in AuctionRows /\ new.type = row.type /\ new.status = row.status /\ new.allocations = row.allocations
    /\ k = Len(row.bids) + 1 => new.bids = Append(row.bids, h)

LEMMA BidUpserted ==
    ASSUME NEW row \in AuctionRows, NEW k \in Nat \ {0}, NEW h \in Holders, NEW new, new = UpsertBid(row, k, h)
    PROVE  BidPut(row, k, h, new)
<1>1. row.bids \in Seq(Holders)
  BY DEF AuctionRows
<1>2. PICK bids \in Seq(Holders) : /\ bids = IF k > Len(row.bids) THEN Append(row.bids, h) ELSE [row.bids EXCEPT ![k] = h]
                                   /\ k = Len(row.bids) + 1 => bids = Append(row.bids, h)
  <2>1. CASE k > Len(row.bids)
    <3>1. PICK bids : bids = Append(row.bids, h)
      OBVIOUS
    <3>2. bids \in Seq(Holders)
      BY <1>1, <3>1
    <3> QED BY <2>1, <3>1, <3>2
  <2>2. CASE ~(k > Len(row.bids))
    <3>1. [row.bids EXCEPT ![k] = h] \in Seq(Holders)
      BY <1>1, <2>2
    <3>2. k # Len(row.bids) + 1
      BY <1>1, <2>2
    <3> QED BY <2>2, <3>1, <3>2
  <2> QED BY <2>1, <2>2
<1>3. new = [row EXCEPT !.bids = bids]
  BY <1>2 DEF UpsertBid
<1>4. new \in AuctionRows /\ new.type = row.type /\ new.status = row.status /\ new.allocations = row.allocations /\ new.bids = bids
  BY <1>2, <1>3 DEF AuctionRows
<1> QED BY <1>2, <1>4 DEF BidPut

LEMMA BidAdded ==
    ASSUME NEW p \in Tables, NEW s, NEW t, NEW f, NEW n, AddsBid(s, t, f, n), NEW q, q = ApplyAuction(p, f)
    PROVE  SameRest(p, q) /\ BidsFollow(p, q, s, t) /\ SameKinds(p, q)
<1>0. n \in 1 .. MaxAuctions /\ f.event = "BidSubmitted" /\ f.v = n /\ f.from \in Holders /\ f.bid \in Nat \ {0}
      /\ f.bid = Len(BidsIn(s, n)) + 1 /\ BidsIn(t, n) = Append(BidsIn(s, n), f.from)
      /\ AllocationsIn(t, n) = AllocationsIn(s, n) /\ OtherRowBids(s, t, n)
  BY DEF AddsBid
<1>1. p.auction[n] \in AuctionRows
  BY <1>0 DEF Tables
<1>2. PICK row : row = UpsertBid(p.auction[n], f.bid, f.from)
  OBVIOUS
<1>3. /\ row \in AuctionRows /\ row.type = p.auction[n].type /\ row.status = p.auction[n].status
      /\ row.allocations = p.auction[n].allocations
      /\ f.bid = Len(p.auction[n].bids) + 1 => row.bids = Append(p.auction[n].bids, f.from)
  <2>1. BidPut(p.auction[n], f.bid, f.from, row)
    BY <1>0, <1>1, <1>2, BidUpserted
  <2> QED BY <2>1 DEF BidPut
<1>4. RowPut(p, q, n, row)
  BY <1>0, <1>2, <1>3 DEF ApplyAuction, RowPut
<1>5. SameRest(p, q) /\ q.auction[n] = row /\ OtherRows(p, q, n)
  BY <1>4, RowReplaced
<1>6. SameKinds(p, q)
  BY <1>3, <1>5 DEF SameKinds, OtherRows
<1>7. BidsFollow(p, q, s, t)
  <2>1. TellsBids(p, s, n) => TellsBids(q, t, n)
    BY <1>0, <1>3, <1>5 DEF TellsBids
  <2>2. \A m \in (1 .. MaxAuctions) \ {n} : TellsBids(p, s, m) => TellsBids(q, t, m)
    BY <1>0, <1>5 DEF TellsBids, OtherRows, OtherRowBids
  <2> QED BY <2>1, <2>2 DEF BidsFollow
<1> QED BY <1>5, <1>6, <1>7

LEMMA AllocationsReplaced ==
    ASSUME NEW p \in Tables, NEW s, NEW t, NEW b, chain[b].state = t, NEW e, NEW n, Allocates(s, t, b, e, n),
           NEW q, q = ApplyAuction(p, e)
    PROVE  SameRest(p, q) /\ BidsFollow(p, q, s, t) /\ SameKinds(p, q)
<1>0. /\ n \in 1 .. MaxAuctions /\ e.event = "AuctionFinalized" /\ e.v = n /\ e.block = b
      /\ AllocationsIn(t, n) \in Seq([bidder : Holders, units : Nat]) /\ n \in DOMAIN t.auctions
      /\ BidsIn(t, n) = BidsIn(s, n) /\ OtherRowBids(s, t, n)
  BY DEF Allocates
<1>1. p.auction[n] \in AuctionRows
  BY <1>0 DEF Tables
<1>2. PICK rows \in Seq([bidder : Holders, units : Nat]) : rows = AllocationsIn(t, n)
  BY <1>0
<1>3. AllocationsAt(e.block, e.v) = rows
  BY <1>0, <1>2 DEF AllocationsAt, AllocationsIn
<1>4. PICK row : row = [p.auction[n] EXCEPT !.allocations = rows]
  OBVIOUS
<1>5. /\ row \in AuctionRows /\ row.type = p.auction[n].type /\ row.status = p.auction[n].status
      /\ row.bids = p.auction[n].bids /\ row.allocations = rows
  BY <1>1, <1>2, <1>4 DEF AuctionRows
<1>6. RowPut(p, q, n, row)
  <2>1. q = ReplaceAuctionAllocations(p, n, rows)
    BY <1>0, <1>3 DEF ApplyAuction
  <2>2. q = [p EXCEPT !.auction[n].allocations = rows]
    BY <2>1 DEF ReplaceAuctionAllocations
  <2> QED BY <1>0, <1>4, <1>5, <2>2 DEF RowPut
<1>7. SameRest(p, q) /\ q.auction[n] = row /\ OtherRows(p, q, n)
  BY <1>6, RowReplaced
<1>8. SameKinds(p, q)
  BY <1>5, <1>7 DEF SameKinds, OtherRows
<1>9. BidsFollow(p, q, s, t)
  <2>1. TellsBids(p, s, n) => TellsBids(q, t, n)
    BY <1>0, <1>2, <1>5, <1>7 DEF TellsBids
  <2>2. \A m \in (1 .. MaxAuctions) \ {n} : TellsBids(p, s, m) => TellsBids(q, t, m)
    BY <1>0, <1>7 DEF TellsBids, OtherRows, OtherRowBids
  <2> QED BY <2>1, <2>2 DEF BidsFollow
<1> QED BY <1>7, <1>8, <1>9

LEMMA SameBidsFollow ==
    ASSUME NEW p, NEW q, NEW s, NEW t, SameBids(p, q), SameRowBids(s, t)
    PROVE  BidsFollow(p, q, s, t)
BY DEF BidsFollow, SameBids, SameRowBids, TellsBids

LEMMA AuctionLogsFact ==
    ASSUME NEW s, NEW t, NEW b, chain[b].state = t, NEW logs, AuctionLogs(s, t, b, logs)
    PROVE  AuctionFact(s, t, logs)
<1> SUFFICES ASSUME NEW p \in Tables, NEW q, q = ApplyLogs("auction", p, logs) PROVE AuctionEffect(s, t, p, q)
  BY DEF AuctionFact
<1>1. CASE logs = <<>> /\ SameRowBids(s, t)
  <2>1. q = p
    BY <1>1, ApplyNone
  <2>2. SameRest(p, p) /\ SameBids(p, p) /\ SameKinds(p, p)
    BY DEF SameRest, SameBids, SameKinds, SameBonds, SameFlags, SameMoney
  <2> QED BY <1>1, <2>1, <2>2, SameBidsFollow DEF AuctionEffect
<1>2. ASSUME NEW e, NEW n, logs = <<e>>, CreatesRow(t, e, n), SameRowBids(s, t) PROVE AuctionEffect(s, t, p, q)
  <2>1. q = ApplyAuction(p, e)
    BY <1>2, ApplyOne, ApplyLogAuction
  <2>2. SameRest(p, q) /\ SameBids(p, q) /\ (KnownRows(p, t) => SameKinds(p, q))
    BY <1>2, <2>1, RowCreated
  <2> QED BY <1>2, <2>2, SameBidsFollow DEF AuctionEffect
<1>3. ASSUME NEW e, NEW f, NEW n, logs = <<e, f>>, CreatesRow(t, e, n), AddsBid(s, t, f, n) PROVE AuctionEffect(s, t, p, q)
  <2>0. PICK r : r = ApplyAuction(p, e)
    OBVIOUS
  <2>1. q = ApplyAuction(r, f)
    BY <1>3, <2>0, ApplyTwo, ApplyLogAuction
  <2>2. SameRest(p, r) /\ SameBids(p, r) /\ (KnownRows(p, t) => SameKinds(p, r))
    BY <1>3, <2>0, RowCreated
  <2>3. r \in Tables
    BY <2>2 DEF SameRest
  <2>4. SameRest(r, q) /\ BidsFollow(r, q, s, t) /\ SameKinds(r, q)
    BY <1>3, <2>1, <2>3, BidAdded
  <2>5. SameRest(p, q)
    BY <2>2, <2>4 DEF SameRest, SameBonds, SameFlags, SameMoney
  <2>6. BidsFollow(p, q, s, t)
    BY <2>2, <2>4 DEF BidsFollow, SameBids, TellsBids
  <2>7. KnownRows(p, t) => SameKinds(p, q)
    BY <2>2, <2>4 DEF SameKinds
  <2> QED BY <2>5, <2>6, <2>7 DEF AuctionEffect
<1>4. ASSUME NEW f, NEW n, logs = <<f>>, AddsBid(s, t, f, n) PROVE AuctionEffect(s, t, p, q)
  <2>1. q = ApplyAuction(p, f)
    BY <1>4, ApplyOne, ApplyLogAuction
  <2> QED BY <1>4, <2>1, BidAdded DEF AuctionEffect
<1>5. ASSUME NEW e, NEW n, logs = <<e>>, Allocates(s, t, b, e, n) PROVE AuctionEffect(s, t, p, q)
  <2>1. q = ApplyAuction(p, e)
    BY <1>5, ApplyOne, ApplyLogAuction
  <2> QED BY <1>5, <2>1, AllocationsReplaced DEF AuctionEffect
<1> QED BY <1>1, <1>2, <1>3, <1>4, <1>5, Zenon DEF AuctionLogs

-----------------------------------------------------------------------------
(* The loops                                                                *)

\* The chain is a sequence, and the queue one of work by loops that have read their
\* first block's number, about blocks that exist.
Chained == \E S : chain \in Seq(S)
Ready   == {"first", "polling"}
Works   == [loop : Loops, target : Nat, latest : Int]
WorkOK(w) == /\ w.target \in 0 .. Height /\ w.latest \in {NotBegun} \cup 0 .. Height
             /\ phase[w.loop] \in Ready
QueueOK == queue \in Seq(Works) /\ \A k \in DOMAIN queue : WorkOK(queue[k])

\* Nothing is projected without a checkpoint, and no checkpoint survives its table.
TablesOK == /\ checkpoint \in 0 .. Height + 1 /\ checkpoint # 1 /\ tables \in BOOLEAN
            /\ ~tables => checkpoint = 0
            /\ checkpoint = 0 => db = EmptyProjection

LoopsTyped == /\ phase \in [Loops -> Phases] /\ next \in [Loops -> 0 .. Height + 1]
              /\ timers \subseteq Loops /\ handle \in {0} \cup timers /\ advancer \in {0} \cup Loops
              /\ lastBlock \in 0 .. Height /\ caughtUp \subseteq 1 .. Height /\ overlapped \in BOOLEAN

\* A loop that works has a block to go on from, and the block last processed lies behind
\* the checkpoint.
Behind == /\ \A r \in Loops : phase[r] \in Ready => next[r] # 0
          /\ advancer # 0 => phase[advancer] \in Ready
          /\ \A r \in timers : phase[r] \in Ready
          /\ checkpoint # 0 => lastBlock < checkpoint

LoopsOK == Chained /\ QueueOK /\ TablesOK /\ LoopsTyped /\ Behind

LEMMA LoopNumbers ==
    /\ IsFiniteSet(Loops) /\ Loops \subseteq Nat \ {0} /\ 1 \in Loops
<1>1. Cardinality(Loops) \in Nat /\ Loops = 1 .. Cardinality(Loops) /\ Loops # {}
  BY IngestionAssumption, FS_CardinalityType
<1> QED BY <1>1, IngestionAssumption

LEMMA HeightNat ==
    ASSUME Chained
    PROVE  Height \in Nat
<1>1. PICK S : chain \in Seq(S)
  BY DEF Chained
<1> QED BY <1>1 DEF Height

LEMMA EmptyQueue ==
    /\ <<>> \in Seq(Works) /\ DOMAIN <<>> = {}
OBVIOUS

LEMMA LoopsInit == Init => LoopsOK
<1> SUFFICES ASSUME Init PROVE LoopsOK
  OBVIOUS
<1>1. chain = <<>> /\ Height = 0
  BY DEF Init, ChainInit, Height
<1>2. Chained
  BY <1>1 DEF Chained
<1>3. QueueOK
  BY EmptyQueue DEF Init, QueueOK
<1>4. TablesOK
  <2>1. db = EmptyProjection /\ checkpoint = 0 /\ tables \in BOOLEAN
    BY DEF Init
  <2> QED BY <1>1, <2>1 DEF TablesOK
<1>5. LoopsTyped
  <2>1. phase \in [Loops -> Phases]
    BY DEF Init, Phases
  <2>2. next \in [Loops -> 0 .. Height + 1]
    BY <1>1 DEF Init
  <2>3. timers \subseteq Loops /\ handle \in {0} \cup timers /\ advancer \in {0} \cup Loops
    BY DEF Init
  <2>4. lastBlock \in 0 .. Height /\ caughtUp \subseteq 1 .. Height
    BY <1>1 DEF Init
  <2>5. overlapped \in BOOLEAN
    BY Zenon DEF Init
  <2> QED BY <2>1, <2>2, <2>3, <2>4, <2>5 DEF LoopsTyped
<1>6. Behind
  BY DEF Init, Behind, Ready
<1> QED BY <1>2, <1>3, <1>4, <1>5, <1>6 DEF LoopsOK

\* What stays true of work when the chain grows and loops stay or become ready
LEMMA QueueKept ==
    ASSUME QueueOK, Height \in Nat, Height' \in Nat, Height <= Height', queue' = queue,
           \A r \in Loops : phase[r] \in Ready => phase'[r] \in Ready
    PROVE  QueueOK'
<1>1. queue \in Seq(Works)
  BY DEF QueueOK
<1>2. ASSUME NEW k \in DOMAIN queue PROVE WorkOK(queue[k])'
  <2>1. queue[k] \in Works /\ WorkOK(queue[k])
    BY <1>1, <1>2 DEF QueueOK
  <2>2. queue[k].loop \in Loops
    BY <2>1 DEF Works
  <2> QED BY <2>1, <2>2 DEF WorkOK
<1> QED BY <1>1, <1>2 DEF QueueOK

LEMMA QueueTailed ==
    ASSUME QueueOK, queue # <<>>, queue' = Tail(queue), UNCHANGED <<chain, phase>>
    PROVE  QueueOK'
<1>1. queue \in Seq(Works) /\ Tail(queue) \in Seq(Works)
  BY DEF QueueOK
<1>2. \A k \in DOMAIN Tail(queue) : k + 1 \in DOMAIN queue /\ Tail(queue)[k] = queue[k + 1]
  BY <1>1
<1>3. ASSUME NEW k \in DOMAIN queue' PROVE WorkOK(queue[k])'
  <2>1. WorkOK(queue[k + 1]) /\ queue'[k] = queue[k + 1]
    BY <1>2, <1>3 DEF QueueOK
  <2> QED BY <2>1 DEF WorkOK, Height
<1> QED BY <1>1, <1>3 DEF QueueOK

LEMMA QueueAppended ==
    ASSUME QueueOK, Chained, NEW w \in Works, WorkOK(w)', queue' = Append(queue, w), UNCHANGED chain,
           \A r \in Loops : phase[r] \in Ready => phase'[r] \in Ready
    PROVE  QueueOK'
<1>1. queue \in Seq(Works) /\ Append(queue, w) \in Seq(Works)
  BY DEF QueueOK
<1>2. \A k \in DOMAIN queue' : queue'[k] = w \/ (k \in DOMAIN queue /\ queue'[k] = queue[k])
  <2> SUFFICES ASSUME NEW k \in DOMAIN queue', ~(k \in DOMAIN queue /\ queue'[k] = queue[k]) PROVE queue'[k] = w
    OBVIOUS
  <2>1. k \in 1 .. Len(queue) + 1 /\ k \notin 1 .. Len(queue) /\ Len(queue) \in Nat
    BY <1>1
  <2>2. k = Len(queue) + 1
    BY <2>1
  <2> QED BY <1>1, <2>2
<1>3. ASSUME NEW k \in DOMAIN queue' PROVE WorkOK(queue[k])'
  <2>1. CASE queue'[k] = w
    BY <2>1 DEF WorkOK, Height
  <2>2. CASE k \in DOMAIN queue /\ queue'[k] = queue[k]
    <3>1. queue[k] \in Works /\ WorkOK(queue[k])
      BY <1>1, <2>2 DEF QueueOK
    <3>2. queue[k].loop \in Loops
      BY <3>1 DEF Works
    <3> QED BY <2>2, <3>1, <3>2 DEF WorkOK, Height
  <2> QED BY <1>2, <2>1, <2>2
<1> QED BY <1>1, <1>3 DEF QueueOK

LEMMA NewWork ==
    ASSUME NEW r \in Loops, NEW target \in Nat
    PROVE  Work(r, target) \in Works /\ Work(r, target).loop = r /\ Work(r, target).target = target
           /\ Work(r, target).latest = NotBegun
BY DEF Work, Works, NotBegun

\* The window of a running work
LEMMA WindowIs ==
    ASSUME LoopsOK, Running
    PROVE  /\ Head(queue) \in Works /\ WorkOK(Head(queue)) /\ next[Head(queue).loop] \in 1 .. Height + 1
           /\ Current # {} =>
                LET from == next[Head(queue).loop]
                    to   == from + Cardinality(Current) - 1
                IN  from \in 1 .. Height /\ to \in from .. Height /\ Current = from .. to /\ from + Cardinality(Current) = to + 1
<1> DEFINE w == Head(queue)
           from == next[w.loop]
<1>0. Height \in Nat
  BY HeightNat DEF LoopsOK
<1>1. w \in Works /\ WorkOK(w)
  <2>1. queue \in Seq(Works) /\ queue # <<>>
    BY DEF LoopsOK, QueueOK, Running
  <2>2. 1 \in DOMAIN queue /\ Head(queue) = queue[1] /\ Head(queue) \in Works
    BY <2>1
  <2> QED BY <2>2 DEF LoopsOK, QueueOK
<1>2. w.loop \in Loops /\ phase[w.loop] \in Ready
  BY <1>1 DEF WorkOK, Works
<1>3. from \in 1 .. Height + 1
  BY <1>0, <1>2 DEF LoopsOK, LoopsTyped, Behind
<1>4. w.latest \in 0 .. Height
  BY <1>1 DEF Running, WorkOK
<1>5. Current = Window(from, w.latest)
  BY DEF Current
<1> HIDE DEF w, from
<1>6. ASSUME Current # {} PROVE from \in 1 .. Height /\ from + Cardinality(Current) - 1 \in from .. Height
                                /\ Current = from .. (from + Cardinality(Current) - 1)
                                /\ from + Cardinality(Current) = (from + Cardinality(Current) - 1) + 1
  <2>1. from <= w.latest
    BY <1>0, <1>3, <1>4, <1>5, <1>6 DEF Window
  <2>2. PICK to \in from .. w.latest : Current = from .. to
    <3>1. CASE w.latest < from + BatchSize
      <4>1. Current = from .. w.latest
        BY <1>0, <1>3, <1>4, <1>5, <2>1, <3>1 DEF Window
      <4> QED BY <1>0, <1>3, <1>4, <2>1, <4>1
    <3>2. CASE ~(w.latest < from + BatchSize)
      <4>1. Current = from .. (from + BatchSize)
        BY <1>0, <1>3, <1>4, <1>5, <2>1, <3>2 DEF Window
      <4>2. from + BatchSize \in from .. w.latest
        BY <1>0, <1>3, <1>4, <3>2, IngestionAssumption
      <4> QED BY <4>1, <4>2
    <3> QED BY <3>1, <3>2
  <2>3. from \in Int /\ to \in Int /\ from <= to /\ to <= Height /\ from \in 1 .. Height
    BY <1>0, <1>3, <1>4, <2>1, <2>2
  <2>4. Cardinality(Current) = to - from + 1
    <3>1. Cardinality(from .. to) = IF from > to THEN 0 ELSE to - from + 1
      BY <2>3, FS_Interval
    <3> QED BY <2>2, <2>3, <3>1
  <2>5. from + Cardinality(Current) - 1 = to /\ from + Cardinality(Current) = to + 1
    BY <2>3, <2>4
  <2> QED BY <2>2, <2>3, <2>5
<1> QED BY <1>1, <1>3, <1>6 DEF w, from

\* A step of the chain adds a block.
AddsBlock == \E block : chain' = Append(chain, block)

LEMMA ChainGrows ==
    ASSUME ChainNext
    PROVE  AddsBlock
<1>1. ASSUME NEW manager, NEW auction, NEW token, NEW s, Mine(manager, auction, token, s) PROVE AddsBlock
  BY <1>1, Zenon DEF Mine, AddsBlock
<1>2. CASE Deploy
  BY <1>1, <1>2, Zenon DEF Deploy
<1>3. CASE \E bids \in BidLists : DeployWithAuction(bids)
  BY <1>1, <1>3, Zenon DEF DeployWithAuction
<1>4. CASE \E type \in {"RATE", "PRICE", "BUYBACK"}, bids \in BidLists : Schedule(type, bids)
  BY <1>1, <1>4, Zenon DEF Schedule
<1>5. CASE \E h \in Bidders : SubmitBid(h)
  BY <1>1, <1>5, Zenon DEF SubmitBid
<1>6. CASE Close \/ Cancel
  BY <1>1, <1>6, Zenon DEF Close, Cancel
<1>7. CASE \E h \in Bidders, units \in 1 .. Size, settled \in BOOLEAN :
              FinaliseIssuance(h, units, settled) \/ FinaliseBuyback(h, units, settled)
  <2>1. PICK h \in Bidders, units \in 1 .. Size, settled \in BOOLEAN :
               FinaliseIssuance(h, units, settled) \/ FinaliseBuyback(h, units, settled)
    BY <1>7, Zenon
  <2>2. CASE FinaliseIssuance(h, units, settled)
    BY <1>1, <2>2, Zenon DEF FinaliseIssuance
  <2>3. CASE FinaliseBuyback(h, units, settled)
    BY <1>1, <2>3, Zenon DEF FinaliseBuyback
  <2> QED BY <2>1, <2>2, <2>3
<1>8. CASE \E from, to \in Holders : Give(from, to)
  BY <1>1, <1>8, Zenon DEF Give
<1>9. CASE PayCoupon \/ Disable
  BY <1>1, <1>9, Zenon DEF PayCoupon, Disable
<1> QED BY <1>2, <1>3, <1>4, <1>5, <1>6, <1>7, <1>8, <1>9, Zenon DEF ChainNext

LEMMA BlockAdded ==
    ASSUME Chained, AddsBlock
    PROVE  /\ Chained' /\ Height' = Height + 1 /\ Height \in Nat
           /\ \A b \in 1 .. Height : chain'[b] = chain[b]
<1>1. PICK block : chain' = Append(chain, block)
  BY DEF AddsBlock
<1>2. PICK S : chain \in Seq(S)
  BY DEF Chained
<1>3. chain \in Seq(S \cup {block})
  BY <1>2
<1>4. Append(chain, block) \in Seq(S \cup {block}) /\ Len(Append(chain, block)) = Len(chain) + 1 /\ Len(chain) \in Nat
  BY <1>3
<1>5. \A b \in 1 .. Len(chain) : Append(chain, block)[b] = chain[b]
  BY <1>3
<1>6. Chained'
  BY <1>1, <1>4 DEF Chained
<1> QED BY <1>1, <1>4, <1>5, <1>6 DEF Height

LEMMA LoopsMining ==
    ASSUME LoopsOK, Mining
    PROVE  LoopsOK'
<1>1. ChainNext /\ UNCHANGED <<dbVars, loopVars, caughtUp, overlapped, failures, crashes>>
  BY DEF Mining
<1>2. Chained' /\ Height' = Height + 1 /\ Height \in Nat
  BY <1>1, ChainGrows, BlockAdded DEF LoopsOK
<1>3. QueueOK'
  BY <1>1, <1>2, QueueKept DEF LoopsOK, loopVars
<1>4. TablesOK'
  BY <1>1, <1>2 DEF LoopsOK, TablesOK, dbVars
<1>5. LoopsTyped'
  <2>1. UNCHANGED <<phase, next, timers, handle, advancer, lastBlock, caughtUp, overlapped>>
    BY <1>1 DEF loopVars
  <2>2. 0 .. Height + 1 \subseteq 0 .. (Height + 1) + 1 /\ 0 .. Height \subseteq 0 .. Height + 1
        /\ 1 .. Height \subseteq 1 .. Height + 1
    BY <1>2
  <2>3. next \in [Loops -> 0 .. (Height + 1) + 1]
    BY <2>2 DEF LoopsOK, LoopsTyped
  <2> QED BY <1>2, <2>1, <2>2, <2>3 DEF LoopsOK, LoopsTyped
<1>6. Behind'
  BY <1>1 DEF LoopsOK, Behind, loopVars, dbVars
<1> QED BY <1>2, <1>3, <1>4, <1>5, <1>6 DEF LoopsOK

\* Steps that leave the chain alone
LEMMA Resting ==
    ASSUME LoopsOK, UNCHANGED chain
    PROVE  Chained' /\ Height' = Height /\ Height \in Nat
<1>1. Height \in Nat
  BY HeightNat DEF LoopsOK
<1> QED BY <1>1 DEF Chained, Height, LoopsOK

LEMMA TablesKept ==
    ASSUME LoopsOK, UNCHANGED <<chain, db, checkpoint, tables>>
    PROVE  TablesOK'
BY Resting DEF LoopsOK, TablesOK

LEMMA FirstBlockIs ==
    ASSUME LoopsOK
    PROVE  /\ FirstBlock \in 1 .. Height + 1 /\ FirstBlock - 1 \in 0 .. Height
           /\ checkpoint # 0 => FirstBlock - 1 < checkpoint
<1>1. Height \in Nat
  BY HeightNat DEF LoopsOK
<1> QED BY <1>1 DEF FirstBlock, StartBlock, LoopsOK, TablesOK

LEMMA LoopsOpen ==
    ASSUME LoopsOK, NEW r \in Loops, Open(r)
    PROVE  LoopsOK'
<1>1. Chained' /\ Height' = Height /\ Height \in Nat
  BY Resting DEF Open, chainVars
<1>2. phase \in [Loops -> Phases] /\ phase' = [phase EXCEPT ![r] = "opened"] /\ phase[r] = "starting"
  BY DEF Open, LoopsOK, LoopsTyped
<1>3. phase' \in [Loops -> Phases] /\ \A x \in Loops : phase[x] \in Ready <=> phase'[x] \in Ready
  BY <1>2 DEF Phases, Ready
<1>4. QueueOK'
  BY <1>1, <1>3, QueueKept DEF Open, LoopsOK
<1>5. TablesOK'
  BY <1>1 DEF Open, LoopsOK, TablesOK
<1>6. LoopsTyped'
  BY <1>1, <1>3 DEF Open, LoopsOK, LoopsTyped
<1>7. Behind'
  <2>1. advancer' = advancer /\ next' = next /\ lastBlock' = lastBlock /\ checkpoint' = checkpoint
    BY DEF Open
  <2>2. advancer \in {0} \cup Loops /\ timers \subseteq Loops /\ timers' = timers
    BY DEF LoopsOK, LoopsTyped, Open
  <2> QED BY <1>3, <2>1, <2>2 DEF LoopsOK, Behind
<1> QED BY <1>1, <1>4, <1>5, <1>6, <1>7 DEF LoopsOK

LEMMA LoopsStartFails ==
    ASSUME LoopsOK, NEW r \in Loops, StartFails(r)
    PROVE  LoopsOK'
<1>1. Chained' /\ Height' = Height /\ Height \in Nat
  BY Resting DEF StartFails, chainVars
<1>2. phase \in [Loops -> Phases] /\ phase' = [phase EXCEPT ![r] = "starting"] /\ phase[r] = "opened"
  BY DEF StartFails, LoopsOK, LoopsTyped
<1>3. phase' \in [Loops -> Phases] /\ \A x \in Loops : phase[x] \in Ready <=> phase'[x] \in Ready
  BY <1>2 DEF Phases, Ready
<1>4. QueueOK'
  BY <1>1, <1>3, QueueKept DEF StartFails, LoopsOK
<1>5. TablesOK'
  BY <1>1, TablesKept DEF StartFails, dbVars, chainVars
<1>6. LoopsTyped'
  BY <1>1, <1>3 DEF StartFails, LoopsOK, LoopsTyped
<1>7. Behind'
  <2>1. advancer' = advancer /\ next' = next /\ lastBlock' = lastBlock /\ checkpoint' = checkpoint
    BY DEF StartFails, dbVars
  <2>2. advancer \in {0} \cup Loops /\ timers \subseteq Loops /\ timers' = timers
    BY DEF LoopsOK, LoopsTyped, StartFails
  <2> QED BY <1>3, <2>1, <2>2 DEF LoopsOK, Behind
<1> QED BY <1>1, <1>4, <1>5, <1>6, <1>7 DEF LoopsOK

LEMMA LoopsLoad ==
    ASSUME LoopsOK, NEW r \in Loops, Load(r)
    PROVE  LoopsOK'
<1>1. Chained' /\ Height' = Height /\ Height \in Nat
  BY Resting DEF Load, chainVars
<1>0. FirstBlock \in 1 .. Height + 1 /\ FirstBlock - 1 \in 0 .. Height /\ (checkpoint # 0 => FirstBlock - 1 < checkpoint)
  BY FirstBlockIs
<1>2. phase \in [Loops -> Phases] /\ phase' = [phase EXCEPT ![r] = "first"]
  BY DEF Load, LoopsOK, LoopsTyped
<1>3. /\ phase' \in [Loops -> Phases] /\ phase'[r] \in Ready
      /\ \A x \in Loops : x # r => phase'[x] = phase[x]
  BY <1>2 DEF Phases, Ready
<1>4. QueueOK'
  <2>1. Work(r, 0) \in Works /\ Work(r, 0).loop = r /\ Work(r, 0).target = 0 /\ Work(r, 0).latest = NotBegun
    BY NewWork
  <2> DEFINE w == Work(r, 0)
  <2>2. w \in Works /\ WorkOK(w)'
    BY <1>1, <1>3, <2>1 DEF WorkOK
  <2>3. queue' = Append(queue, w) /\ UNCHANGED chain /\ \A x \in Loops : phase[x] \in Ready => phase'[x] \in Ready
    BY <1>3 DEF Load, chainVars
  <2> HIDE DEF w
  <2> QED BY <2>2, <2>3, QueueAppended DEF LoopsOK
<1>5. TablesOK'
  BY <1>1, TablesKept DEF Load, dbVars, chainVars
<1>6. LoopsTyped'
  <2>1. next' \in [Loops -> 0 .. Height + 1]
    BY <1>0, <1>1 DEF Load, LoopsOK, LoopsTyped
  <2> QED BY <1>0, <1>1, <1>3, <2>1 DEF Load, LoopsOK, LoopsTyped
<1>7. Behind'
  <2>1. advancer' = r /\ next' = [next EXCEPT ![r] = FirstBlock] /\ lastBlock' = FirstBlock - 1 /\ checkpoint' = checkpoint
    BY DEF Load, dbVars
  <2>3. timers' = timers /\ timers \subseteq Loops
    BY DEF Load, LoopsOK, LoopsTyped
  <2>2. next'[r] # 0 /\ \A x \in Loops : x # r => next'[x] = next[x]
    BY <1>0, <1>1, <2>1 DEF LoopsOK, LoopsTyped
  <2> QED BY <1>0, <1>3, <2>1, <2>2, <2>3 DEF LoopsOK, Behind
<1> QED BY <1>1, <1>4, <1>5, <1>6, <1>7 DEF LoopsOK

LEMMA LoopsPolling ==
    ASSUME LoopsOK, NEW r \in Loops, Polling(r)
    PROVE  LoopsOK'
<1>1. Chained' /\ Height' = Height /\ Height \in Nat
  BY Resting DEF Polling, chainVars
<1>2. phase \in [Loops -> Phases] /\ phase' = [phase EXCEPT ![r] = "polling"] /\ phase[r] = "first"
  BY DEF Polling, LoopsOK, LoopsTyped
<1>3. phase' \in [Loops -> Phases] /\ \A x \in Loops : phase[x] \in Ready <=> phase'[x] \in Ready
  BY <1>2 DEF Phases, Ready
<1>4. QueueOK'
  BY <1>1, <1>3, QueueKept DEF Polling, LoopsOK
<1>5. TablesOK'
  BY <1>1, TablesKept DEF Polling, dbVars, chainVars
<1>6. LoopsTyped'
  BY <1>1, <1>3 DEF Polling, LoopsOK, LoopsTyped
<1>7. Behind'
  <2>1. advancer' = advancer /\ next' = next /\ lastBlock' = lastBlock /\ checkpoint' = checkpoint
    BY DEF Polling, dbVars
  <2>2. advancer \in {0} \cup Loops /\ timers \subseteq Loops /\ timers' = timers \cup {r} /\ phase'[r] \in Ready
    BY <1>2 DEF LoopsOK, LoopsTyped, Polling, Ready
  <2> QED BY <1>3, <2>1, <2>2 DEF LoopsOK, Behind
<1> QED BY <1>1, <1>4, <1>5, <1>6, <1>7 DEF LoopsOK

LEMMA LoopsPoll ==
    ASSUME LoopsOK, NEW r \in Loops, Poll(r)
    PROVE  LoopsOK'
<1>1. Chained' /\ Height' = Height /\ Height \in Nat
  BY Resting DEF Poll, chainVars
<1>2. QueueOK'
  <2> DEFINE w == Work(r, 0)
  <2>1. w \in Works /\ w.loop = r /\ w.target = 0 /\ w.latest = NotBegun
    BY NewWork
  <2>2. WorkOK(w)'
    BY <1>1, <2>1 DEF WorkOK, Poll, LoopsOK, Behind
  <2>3. queue' = Append(queue, w) /\ UNCHANGED <<chain, phase>>
    BY DEF Poll, chainVars
  <2> HIDE DEF w
  <2> QED BY <2>1, <2>2, <2>3, QueueAppended DEF LoopsOK
<1>3. TablesOK'
  BY <1>1, TablesKept DEF Poll, dbVars, chainVars
<1>4. LoopsTyped'
  BY <1>1 DEF Poll, LoopsOK, LoopsTyped
<1>5. Behind'
  BY DEF Poll, LoopsOK, Behind, dbVars
<1> QED BY <1>1, <1>2, <1>3, <1>4, <1>5 DEF LoopsOK

LEMMA LoopsBegin ==
    ASSUME LoopsOK, Begin
    PROVE  LoopsOK'
<1>1. Chained' /\ Height' = Height /\ Height \in Nat
  BY Resting DEF Begin, chainVars
<1>2. QueueOK'
  <2>1. queue \in Seq(Works) /\ queue # <<>> /\ Head(queue) = queue[1] /\ 1 \in DOMAIN queue
    BY DEF Begin, LoopsOK, QueueOK
  <2>2. queue[1] \in Works /\ WorkOK(queue[1])
    BY <2>1 DEF LoopsOK, QueueOK
  <2>3. PICK l \in 0 .. Height : queue' = [queue EXCEPT ![1].latest = l]
    <3>1. queue[1].target \in 0 .. Height /\ Height \in 0 .. Height
      BY <1>1, <2>2 DEF WorkOK
    <3>2. CASE queue[1].target # 0
      BY <2>1, <3>1, <3>2 DEF Begin
    <3>3. CASE queue[1].target = 0
      BY <2>1, <3>1, <3>3 DEF Begin
    <3> QED BY <3>2, <3>3
  <2> DEFINE w == [queue[1] EXCEPT !.latest = l]
  <2>4. w \in Works /\ w.loop = queue[1].loop /\ w.target = queue[1].target /\ w.latest = l
    BY <2>2, <2>3 DEF Works
  <2>5. queue' = [queue EXCEPT ![1] = w]
    BY <2>3
  <2> HIDE DEF w
  <2>6. queue' \in Seq(Works) /\ DOMAIN queue' = DOMAIN queue /\ queue'[1] = w /\ \A k \in DOMAIN queue : k # 1 => queue'[k] = queue[k]
    BY <2>1, <2>4, <2>5
  <2>7. ASSUME NEW k \in DOMAIN queue PROVE WorkOK(queue[k])'
    <3>1. UNCHANGED <<chain, phase>>
      BY DEF Begin, chainVars
    <3>2. WorkOK(queue[k])
      BY DEF LoopsOK, QueueOK
    <3>3. CASE k = 1
      BY <1>1, <2>2, <2>4, <2>6, <3>1, <3>3 DEF WorkOK
    <3>4. CASE k # 1
      BY <1>1, <2>6, <3>1, <3>2, <3>4 DEF WorkOK
    <3> QED BY <3>3, <3>4
  <2> QED BY <2>6, <2>7 DEF QueueOK
<1>3. TablesOK'
  BY <1>1, TablesKept DEF Begin, dbVars, chainVars
<1>4. LoopsTyped'
  BY <1>1 DEF Begin, LoopsOK, LoopsTyped
<1>5. Behind'
  BY DEF Begin, LoopsOK, Behind, dbVars
<1> QED BY <1>1, <1>2, <1>3, <1>4, <1>5 DEF LoopsOK

LEMMA LoopsIngest ==
    ASSUME LoopsOK, Ingest
    PROVE  LoopsOK'
<1> DEFINE r == Head(queue).loop
           to == next[r] + Cardinality(Current) - 1
<1>1. Chained' /\ Height' = Height /\ Height \in Nat
  BY Resting DEF Ingest, chainVars
<1>2. r \in Loops /\ next[r] \in 1 .. Height /\ to \in next[r] .. Height /\ next[r] + Cardinality(Current) = to + 1
  <2>1. Running /\ Current # {}
    BY DEF Ingest, Advancing
  <2> QED BY <2>1, WindowIs DEF Works
<1>3. next' = [next EXCEPT ![r] = to + 1]
  <2>1. next' = [next EXCEPT ![r] = next[r] + Cardinality(Current)]
    BY DEF Ingest, Advancing
  <2> QED BY <1>2, <2>1
<1>4. checkpoint' = to + 1 /\ lastBlock' = to
  BY DEF Ingest, SaveCheckpoint
<1>0. tables /\ UNCHANGED <<chain, tables, phase, timers, handle, advancer, queue, caughtUp, overlapped>>
  BY DEF Ingest, Advancing, chainVars
<1> HIDE DEF to, r
<1>5. to \in 1 .. Height /\ to + 1 \in 2 .. Height + 1
  BY <1>1, <1>2
<1>6. QueueOK'
  BY <1>0, <1>1, QueueKept DEF LoopsOK
<1>7. TablesOK'
  BY <1>0, <1>1, <1>4, <1>5 DEF LoopsOK, TablesOK
<1>8. LoopsTyped'
  <2>1. next' \in [Loops -> 0 .. Height + 1]
    BY <1>1, <1>2, <1>3, <1>5 DEF LoopsOK, LoopsTyped
  <2> QED BY <1>0, <1>1, <1>4, <1>5, <2>1 DEF LoopsOK, LoopsTyped
<1>9. Behind'
  <2>1. next'[r] # 0 /\ \A x \in Loops : x # r => next'[x] = next[x]
    BY <1>2, <1>3, <1>5 DEF LoopsOK, LoopsTyped
  <2>2. lastBlock' < checkpoint'
    BY <1>4, <1>5
  <2> QED BY <1>0, <2>1, <2>2 DEF LoopsOK, Behind
<1> QED BY <1>1, <1>6, <1>7, <1>8, <1>9 DEF LoopsOK

\* What a request is told lies in the chain, and behind the checkpoint once there is one.
LEMMA AnswerBehind ==
    ASSUME LoopsOK, queue # <<>>
    PROVE  /\ Answer(Head(queue)) \subseteq 1 .. Height
           /\ checkpoint # 0 => \A b \in Answer(Head(queue)) : b < checkpoint
<1>0. Height \in Nat
  BY HeightNat DEF LoopsOK
<1>1. Head(queue) \in Works /\ WorkOK(Head(queue))
  <2>1. queue \in Seq(Works) /\ Head(queue) = queue[1] /\ 1 \in DOMAIN queue
    BY DEF LoopsOK, QueueOK
  <2>2. queue[1] \in Works
    BY <2>1
  <2> QED BY <2>1, <2>2 DEF LoopsOK, QueueOK
<1>2. ASSUME NEW b \in Answer(Head(queue)) PROVE b \in 1 .. Height /\ lastBlock >= b
  BY <1>0, <1>1, <1>2 DEF Answer, WorkOK
<1>3. checkpoint # 0 => lastBlock < checkpoint
  BY DEF LoopsOK, Behind
<1>4. lastBlock \in Int /\ checkpoint \in Int
  BY <1>0 DEF LoopsOK, LoopsTyped, TablesOK
<1> QED BY <1>0, <1>2, <1>3, <1>4

LEMMA LoopsDone ==
    ASSUME LoopsOK, Done
    PROVE  LoopsOK'
<1>1. Chained' /\ Height' = Height /\ Height \in Nat
  BY Resting DEF Done, chainVars
<1>0. queue # <<>> /\ queue' = Tail(queue) /\ UNCHANGED <<chain, phase>>
  BY DEF Done, Running, chainVars
<1>2. QueueOK'
  BY <1>0, QueueTailed DEF LoopsOK
<1>3. TablesOK'
  BY <1>1, TablesKept DEF Done, dbVars, chainVars
<1>4. LoopsTyped'
  <2>1. caughtUp' \subseteq 1 .. Height
    BY <1>0, AnswerBehind DEF Done, LoopsOK, LoopsTyped
  <2> QED BY <1>1, <2>1 DEF Done, LoopsOK, LoopsTyped
<1>5. Behind'
  BY DEF Done, LoopsOK, Behind, dbVars
<1> QED BY <1>1, <1>2, <1>3, <1>4, <1>5 DEF LoopsOK

LEMMA LoopsFail ==
    ASSUME LoopsOK, Fail
    PROVE  LoopsOK'
<1>1. Chained' /\ Height' = Height /\ Height \in Nat
  BY Resting DEF Fail, chainVars
<1>0. queue # <<>> /\ queue' = Tail(queue) /\ UNCHANGED <<chain, phase>>
  BY DEF Fail, chainVars
<1>2. QueueOK'
  BY <1>0, QueueTailed DEF LoopsOK
<1>3. TablesOK'
  BY <1>1, TablesKept DEF Fail, dbVars, chainVars
<1>4. LoopsTyped'
  BY <1>1 DEF Fail, LoopsOK, LoopsTyped
<1>5. Behind'
  BY DEF Fail, LoopsOK, Behind, dbVars
<1> QED BY <1>1, <1>2, <1>3, <1>4, <1>5 DEF LoopsOK

LEMMA LoopsAdvance ==
    ASSUME LoopsOK, Advance
    PROVE  LoopsOK'
<1>1. Chained' /\ Height' = Height /\ Height \in Nat
  BY Resting DEF Advance, chainVars
<1>0. UNCHANGED <<chain, phase, next, timers, handle, advancer, lastBlock, overlapped, db, checkpoint, tables>>
  BY DEF Advance, chainVars, dbVars
<1>2. CASE lastBlock >= Height /\ caughtUp' = caughtUp \cup {Height} /\ UNCHANGED queue
  <2>1. QueueOK'
    BY <1>0, <1>1, <1>2, QueueKept DEF LoopsOK
  <2>2. Height \in 1 .. Height
    BY <1>1 DEF Advance
  <2>3. LoopsTyped'
    BY <1>0, <1>1, <1>2, <2>2 DEF LoopsOK, LoopsTyped
  <2>4. TablesOK' /\ Behind'
    BY <1>0, TablesKept DEF LoopsOK, Behind
  <2> QED BY <1>1, <2>1, <2>3, <2>4 DEF LoopsOK
<1>3. CASE advancer # 0 /\ queue' = Append(queue, Work(advancer, Height)) /\ UNCHANGED caughtUp
  <2>1. QueueOK'
    <3>0. PICK w : w = Work(advancer, Height)
      OBVIOUS
    <3>1. w \in Works /\ w.loop = advancer /\ w.target = Height /\ w.latest = NotBegun /\ phase[advancer] \in Ready
      BY <1>1, <1>3, <3>0, NewWork DEF LoopsOK, LoopsTyped, Behind
    <3>2. WorkOK(w)'
      BY <1>0, <1>1, <3>1 DEF WorkOK
    <3>3. queue' = Append(queue, w)
      BY <1>3, <3>0
    <3>4. UNCHANGED chain /\ \A r \in Loops : phase[r] \in Ready => phase'[r] \in Ready
      BY <1>0
    <3> QED BY <3>1, <3>2, <3>3, <3>4, QueueAppended DEF LoopsOK
  <2>3. LoopsTyped'
    BY <1>0, <1>1, <1>3 DEF LoopsOK, LoopsTyped
  <2>4. TablesOK' /\ Behind'
    BY <1>0, TablesKept DEF LoopsOK, Behind
  <2> QED BY <1>1, <2>1, <2>3, <2>4 DEF LoopsOK
<1> QED BY <1>2, <1>3 DEF Advance

LEMMA LoopsRestart ==
    ASSUME LoopsOK, RestartIngestion
    PROVE  LoopsOK'
<1>1. PICK r \in Loops, reset \in BOOLEAN : Restart(r, reset)
  BY DEF RestartIngestion
<1>2. Chained' /\ Height' = Height /\ Height \in Nat
  BY <1>1, Resting DEF Restart, chainVars
<1>3. phase \in [Loops -> Phases] /\ phase' = [phase EXCEPT ![r] = "starting"] /\ phase[r] = "unused"
  BY <1>1 DEF Restart, LoopsOK, LoopsTyped
<1>4. phase' \in [Loops -> Phases] /\ \A x \in Loops : phase[x] \in Ready <=> phase'[x] \in Ready
  BY <1>3 DEF Phases, Ready
<1>5. /\ UNCHANGED <<chain, next, lastBlock, queue, caughtUp>>
      /\ timers' = timers \ {handle} /\ handle' = 0 /\ advancer' = 0
  BY <1>1 DEF Restart, StopIngestionLoop, chainVars
<1>6. overlapped' \in BOOLEAN
  <2>1. overlapped' = (overlapped \/ ~Quiet)
    BY <1>1 DEF Restart
  <2> QED BY <2>1, Zenon
<1>7. QueueOK'
  BY <1>2, <1>4, <1>5, QueueKept DEF LoopsOK
<1>8. TablesOK' /\ (checkpoint' # 0 => checkpoint' = checkpoint)
  <2>1. CASE reset
    <3>1. db' = EmptyProjection /\ checkpoint' = 0 /\ tables' = FALSE
      BY <1>1, <2>1 DEF Restart, DropProjectionTables
    <3>2. tables' \in BOOLEAN
      BY <3>1, Zenon
    <3>3. 0 \in 0 .. Height' + 1 /\ EmptyProjection' = EmptyProjection
      BY <1>2 DEF EmptyProjection, EmptyBondState, EmptyAuction
    <3> QED BY <3>1, <3>2, <3>3 DEF TablesOK
  <2>2. CASE ~reset
    <3>1. UNCHANGED <<db, checkpoint, tables>>
      BY <1>1, <2>2 DEF Restart, dbVars
    <3> QED BY <1>5, <3>1, TablesKept
  <2> QED BY <2>1, <2>2
<1>9. LoopsTyped'
  BY <1>2, <1>4, <1>5, <1>6 DEF LoopsOK, LoopsTyped
<1>10. Behind'
  <2>1. timers \subseteq Loops
    BY DEF LoopsOK, LoopsTyped
  <2> QED BY <1>4, <1>5, <1>8, <2>1 DEF LoopsOK, Behind
<1> QED BY <1>2, <1>7, <1>8, <1>9, <1>10 DEF LoopsOK

LEMMA LoopsCrash ==
    ASSUME LoopsOK, Crash
    PROVE  LoopsOK'
<1>1. Chained' /\ Height' = Height /\ Height \in Nat
  BY Resting DEF Crash, chainVars
<1>2. /\ phase' = [r \in Loops |-> IF r = 1 THEN "starting" ELSE "unused"]
      /\ next' = [r \in Loops |-> 0]
      /\ timers' = {} /\ handle' = 0 /\ advancer' = 0 /\ lastBlock' = 0 /\ queue' = <<>>
      /\ UNCHANGED <<chain, db, checkpoint, tables, caughtUp, overlapped>>
  BY DEF Crash, chainVars, dbVars
<1>3. QueueOK'
  BY <1>2, EmptyQueue DEF QueueOK
<1>4. TablesOK'
  BY <1>2, TablesKept
<1>5. LoopsTyped'
  <2>1. phase' \in [Loops -> Phases]
    BY <1>2 DEF Phases
  <2>2. next' \in [Loops -> 0 .. Height + 1]
    BY <1>1, <1>2
  <2> QED BY <1>1, <1>2, <2>1, <2>2 DEF LoopsOK, LoopsTyped
<1>6. Behind'
  <2>1. \A r \in Loops : phase'[r] \notin Ready
    BY <1>2 DEF Ready
  <2>2. checkpoint # 0 => 0 < checkpoint
    BY <1>1 DEF LoopsOK, TablesOK
  <2> QED BY <1>2, <2>1, <2>2 DEF Behind
<1> QED BY <1>1, <1>3, <1>4, <1>5, <1>6 DEF LoopsOK

LEMMA LoopsStutter ==
    ASSUME LoopsOK, UNCHANGED vars
    PROVE  LoopsOK'
<1>1. UNCHANGED <<chain, db, checkpoint, tables, phase, next, timers, handle, advancer, lastBlock, queue, caughtUp, overlapped>>
  BY DEF vars, chainVars, dbVars, loopVars
<1>2. Chained' /\ Height' = Height /\ Height \in Nat
  BY <1>1, Resting
<1>3. QueueOK'
  BY <1>1, <1>2, QueueKept DEF LoopsOK
<1>4. TablesOK' /\ LoopsTyped' /\ Behind'
  BY <1>1, <1>2, TablesKept DEF LoopsOK, LoopsTyped, Behind
<1> QED BY <1>2, <1>3, <1>4 DEF LoopsOK

\* The actions a step is one of
ByLoop(r) == Open(r) \/ Load(r) \/ Polling(r) \/ Poll(r) \/ StartFails(r)
LEMMA StepCases ==
    ASSUME [Next]_vars
    PROVE  \/ Mining \/ (\E r \in Loops : ByLoop(r)) \/ Begin \/ Ingest \/ Done \/ Fail \/ Advance
           \/ RestartIngestion \/ Crash \/ UNCHANGED vars
BY Zenon DEF Next, LoopStep, ByLoop

LEMMA LoopsStep ==
    ASSUME LoopsOK, [Next]_vars
    PROVE  LoopsOK'
<1>1. ASSUME NEW r \in Loops, ByLoop(r) PROVE LoopsOK'
  BY <1>1, LoopsOpen, LoopsLoad, LoopsPolling, LoopsPoll, LoopsStartFails DEF ByLoop
<1> QED BY <1>1, StepCases, LoopsMining, LoopsBegin, LoopsIngest, LoopsDone, LoopsFail, LoopsAdvance, LoopsRestart,
           LoopsCrash, LoopsStutter

\* The loops stay within the chain and behind the checkpoint.
THEOREM LoopsTheorem == Spec => []LoopsOK
<1>1. Init => LoopsOK
  BY LoopsInit
<1>2. LoopsOK /\ [Next]_vars => LoopsOK'
  BY LoopsStep
<1> QED BY <1>1, <1>2, PTL DEF Spec

\* A request is told nothing but what is projected.
LEMMA ToldProjected ==
    ASSUME LoopsOK, [Next]_vars, checkpoint # 0, NEW b \in caughtUp' \ caughtUp
    PROVE  b < checkpoint
<1>0. Height \in Nat
  BY HeightNat DEF LoopsOK
<1>1. CASE Done
  <2>1. queue # <<>> /\ caughtUp' = caughtUp \cup Answer(Head(queue))
    BY <1>1 DEF Done, Running
  <2>2. b \in Answer(Head(queue))
    BY <2>1
  <2> QED BY <2>1, <2>2, AnswerBehind
<1>2. CASE Advance
  <2>1. b = Height /\ lastBlock >= Height
    BY <1>2 DEF Advance
  <2>2. lastBlock < checkpoint /\ lastBlock \in Int /\ checkpoint \in Int
    BY <1>0 DEF LoopsOK, Behind, LoopsTyped, TablesOK
  <2> QED BY <1>0, <2>1, <2>2
<1>3. CASE Mining \/ (\E r \in Loops : ByLoop(r)) \/ Begin \/ Ingest \/ Fail \/ RestartIngestion \/ Crash \/ UNCHANGED vars
  <2>1. caughtUp' = caughtUp
    <3>1. ASSUME NEW r \in Loops, ByLoop(r) PROVE caughtUp' = caughtUp
      BY <3>1 DEF ByLoop, Open, Load, Polling, Poll, StartFails
    <3>2. ASSUME RestartIngestion PROVE caughtUp' = caughtUp
      <4>1. PICK r \in Loops, reset \in BOOLEAN : Restart(r, reset)
        BY <3>2 DEF RestartIngestion
      <4> QED BY <4>1 DEF Restart
    <3> QED BY <1>3, <3>1, <3>2 DEF Mining, Begin, Ingest, Fail, Crash, vars
  <2> QED BY <2>1
<1> QED BY <1>1, <1>2, <1>3, StepCases

\* ingestion.ts, advanceProjectionTo: a request that is told its mutation is projected finds it
\* behind the checkpoint, whatever has failed, crashed or restarted meanwhile.
THEOREM ReadYourWritesTheorem == Spec => ReadYourWrites
<1>1. LoopsOK /\ [Next]_vars
        => [~overlapped /\ checkpoint # 0 => \A b \in caughtUp' \ caughtUp : b < checkpoint]_vars
  BY ToldProjected
<1>2. Init => LoopsOK
  BY LoopsInit
<1>3. LoopsOK /\ [Next]_vars => LoopsOK'
  BY LoopsStep
<1> QED BY <1>1, <1>2, <1>3, PTL DEF Spec, ReadYourWrites

-----------------------------------------------------------------------------
(* One loop at a time                                                       *)

\* Loop c alone is at work or starting, and goes on from the checkpoint.
Single(c) ==
    /\ phase[c] # "unused" /\ \A r \in Loops \ {c} : phase[r] \in {"unused", "polling"}
    /\ timers \subseteq {c} /\ (timers # {} => phase[c] = "polling" /\ handle = c)
    /\ advancer \in {0, c}
    /\ \A k \in DOMAIN queue : queue[k].loop = c
    /\ phase[c] \in Ready => next[c] = FirstBlock
Alone == overlapped \/ \E c \in Loops : Single(c)

LEMMA AloneInit == Init => Alone
<1> SUFFICES ASSUME Init PROVE Alone
  OBVIOUS
<1>1. 1 \in Loops
  BY LoopNumbers
<1>2. Single(1)
  <2>1. phase = [r \in Loops |-> IF r = 1 THEN "starting" ELSE "unused"] /\ timers = {} /\ advancer = 0 /\ queue = <<>>
    BY DEF Init
  <2> QED BY <1>1, <2>1, EmptyQueue DEF Single, Ready
<1> QED BY <1>1, <1>2 DEF Alone

\* Whatever leaves these alone keeps the loop alone.
LEMMA SingleKept ==
    ASSUME NEW c, Single(c), UNCHANGED <<phase, next, timers, handle, advancer, queue, checkpoint>>
    PROVE  Single(c)'
BY DEF Single, FirstBlock

LEMMA SingleByLoop ==
    ASSUME LoopsOK, NEW c \in Loops, Single(c), NEW r \in Loops, ByLoop(r)
    PROVE  Single(c)'
<1>0. phase \in [Loops -> Phases] /\ timers \subseteq Loops /\ next \in [Loops -> 0 .. Height + 1] /\ queue \in Seq(Works)
  BY DEF LoopsOK, LoopsTyped, QueueOK
<1>1. CASE Open(r)
  <2>1. phase' = [phase EXCEPT ![r] = "opened"] /\ UNCHANGED <<next, timers, handle, advancer, queue, checkpoint>> /\ phase[r] = "starting"
    BY <1>1 DEF Open
  <2>2. r = c
    BY <2>1 DEF Single
  <2> QED BY <1>0, <2>1, <2>2 DEF Single, FirstBlock, Ready
<1>2. CASE StartFails(r)
  <2>1. phase' = [phase EXCEPT ![r] = "starting"] /\ UNCHANGED <<next, timers, handle, advancer, queue, checkpoint>> /\ phase[r] = "opened"
    BY <1>2 DEF StartFails, dbVars
  <2>2. r = c
    BY <2>1 DEF Single
  <2> QED BY <1>0, <2>1, <2>2 DEF Single, FirstBlock, Ready
<1>3. CASE Load(r)
  <2>1. /\ phase' = [phase EXCEPT ![r] = "first"] /\ UNCHANGED <<timers, handle, checkpoint>> /\ phase[r] = "opened"
        /\ next' = [next EXCEPT ![r] = FirstBlock] /\ advancer' = r /\ queue' = Append(queue, Work(r, 0))
    BY <1>3 DEF Load, dbVars
  <2>2. r = c
    BY <2>1 DEF Single
  <2>3. \A k \in DOMAIN queue' : queue'[k].loop = c
    <3> DEFINE w == Work(r, 0)
    <3>1. w \in Works /\ w.loop = c
      BY <2>2, NewWork
    <3> HIDE DEF w
    <3>2. queue' = Append(queue, w)
      BY <2>1 DEF w
    <3>3. \A k \in DOMAIN queue' : (k \in DOMAIN queue /\ queue'[k] = queue[k]) \/ queue'[k] = w
      BY <1>0, <3>1, <3>2
    <3> QED BY <3>1, <3>3 DEF Single
  <2>4. next'[c] = FirstBlock' /\ phase'[c] = "first" /\ \A x \in Loops \ {c} : phase'[x] = phase[x]
    BY <1>0, <2>1, <2>2 DEF FirstBlock
  <2> QED BY <2>1, <2>2, <2>3, <2>4 DEF Single
<1>4. CASE Polling(r)
  <2>1. /\ phase' = [phase EXCEPT ![r] = "polling"] /\ phase[r] = "first" /\ UNCHANGED <<next, advancer, queue, checkpoint>>
        /\ timers' = timers \cup {r} /\ handle' = r
    BY <1>4 DEF Polling, dbVars
  <2>2. r = c
    BY <2>1 DEF Single
  <2>4. FirstBlock' = FirstBlock /\ phase'[c] = "polling" /\ \A x \in Loops \ {c} : phase'[x] = phase[x]
    BY <1>0, <2>1, <2>2 DEF FirstBlock
  <2> QED BY <2>1, <2>2, <2>4 DEF Single, Ready
<1>5. CASE Poll(r)
  <2>1. /\ UNCHANGED <<phase, next, timers, handle, advancer, checkpoint>> /\ queue' = Append(queue, Work(r, 0)) /\ r \in timers
    BY <1>5 DEF Poll, dbVars
  <2>2. r = c
    BY <2>1 DEF Single
  <2>3. \A k \in DOMAIN queue' : queue'[k].loop = c
    <3> DEFINE w == Work(r, 0)
    <3>1. w \in Works /\ w.loop = c
      BY <2>2, NewWork
    <3> HIDE DEF w
    <3>2. queue' = Append(queue, w)
      BY <2>1 DEF w
    <3>3. \A k \in DOMAIN queue' : (k \in DOMAIN queue /\ queue'[k] = queue[k]) \/ queue'[k] = w
      BY <1>0, <3>1, <3>2
    <3> QED BY <3>1, <3>3 DEF Single
  <2> QED BY <2>1, <2>3 DEF Single, FirstBlock
<1> QED BY <1>1, <1>2, <1>3, <1>4, <1>5 DEF ByLoop

LEMMA SingleQueue ==
    ASSUME LoopsOK, NEW c \in Loops, Single(c), Begin \/ Done \/ Fail \/ Advance
    PROVE  Single(c)'
<1>0. queue \in Seq(Works)
  BY DEF LoopsOK, QueueOK
<1>1. UNCHANGED <<phase, next, timers, handle, advancer, checkpoint>>
  BY DEF Begin, Done, Fail, Advance, dbVars
<1>2. \A k \in DOMAIN queue' : queue'[k].loop = c
  <2>1. CASE Begin
    <3>1. PICK l : queue' = [queue EXCEPT ![1].latest = l]
      BY <2>1, Zenon DEF Begin
    <3>2. 1 \in DOMAIN queue /\ queue[1] \in Works
      <4>1. queue # <<>>
        BY <2>1 DEF Begin
      <4> QED BY <1>0, <4>1
    <3> DEFINE w == [queue[1] EXCEPT !.latest = l]
    <3>3. w.loop = queue[1].loop /\ queue' = [queue EXCEPT ![1] = w]
      BY <3>1, <3>2 DEF Works
    <3> HIDE DEF w
    <3>4. \A k \in DOMAIN queue' : k \in DOMAIN queue /\ queue'[k] = IF k = 1 THEN w ELSE queue[k]
      BY <1>0, <3>3
    <3> QED BY <3>2, <3>3, <3>4 DEF Single
  <2>2. CASE Done \/ Fail
    <3>1. queue' = Tail(queue) /\ queue # <<>>
      BY <2>2 DEF Done, Fail, Running
    <3>2. \A k \in DOMAIN queue' : k + 1 \in DOMAIN queue /\ queue'[k] = queue[k + 1]
      BY <1>0, <3>1
    <3> QED BY <3>2 DEF Single
  <2>3. CASE Advance
    <3>1. CASE UNCHANGED queue
      BY <3>1 DEF Single
    <3>2. CASE advancer # 0 /\ queue' = Append(queue, Work(advancer, Height))
      <4>0. PICK w : w = Work(advancer, Height)
        OBVIOUS
      <4>1. w.loop = c
        BY <3>2, <4>0 DEF Single, Work
      <4>2. \A k \in DOMAIN queue' : (k \in DOMAIN queue /\ queue'[k] = queue[k]) \/ queue'[k] = w
        <5>1. queue' = Append(queue, w) /\ queue \in Seq(Works \cup {w})
          BY <1>0, <3>2, <4>0
        <5> QED BY <5>1
      <4> QED BY <4>1, <4>2 DEF Single
    <3> QED BY <2>3, <3>1, <3>2 DEF Advance
  <2> QED BY <2>1, <2>2, <2>3
<1> QED BY <1>1, <1>2 DEF Single, FirstBlock

\* A single loop ingests from the checkpoint.
LEMMA IngestsNext ==
    ASSUME LoopsOK, NEW c \in Loops, Single(c), queue # <<>>
    PROVE  Head(queue).loop = c /\ next[c] = FirstBlock
<1>1. queue \in Seq(Works) /\ Head(queue) = queue[1] /\ 1 \in DOMAIN queue
  BY DEF LoopsOK, QueueOK
<1>2. WorkOK(queue[1]) /\ queue[1].loop = c
  BY <1>1 DEF LoopsOK, QueueOK, Single
<1> QED BY <1>1, <1>2 DEF Single, WorkOK

LEMMA SingleIngest ==
    ASSUME LoopsOK, NEW c \in Loops, Single(c), Ingest
    PROVE  Single(c)'
<1>1. Running /\ queue # <<>> /\ Current # {}
  BY DEF Ingest, Advancing, Running
<1>2. Head(queue).loop = c
  BY <1>1, IngestsNext
<1> DEFINE to == next[c] + Cardinality(Current) - 1
<1>3. to \in 1 .. Height /\ next[c] + Cardinality(Current) = to + 1 /\ Height \in Nat
  <2>1. Height \in Nat
    BY HeightNat DEF LoopsOK
  <2> QED BY <1>1, <1>2, <2>1, WindowIs
<1>4. checkpoint' = to + 1 /\ next' = [next EXCEPT ![c] = to + 1]
  <2>1. next' = [next EXCEPT ![c] = next[c] + Cardinality(Current)] /\ checkpoint' = to + 1
    BY <1>2 DEF Ingest, Advancing, SaveCheckpoint
  <2> QED BY <1>3, <2>1
<1>5. UNCHANGED <<phase, timers, handle, advancer, queue>>
  BY DEF Ingest
<1> HIDE DEF to
<1>6. FirstBlock' = to + 1
  BY <1>3, <1>4 DEF FirstBlock
<1>7. next'[c] = to + 1
  BY <1>4 DEF LoopsOK, LoopsTyped
<1> QED BY <1>5, <1>6, <1>7 DEF Single

LEMMA AloneStep ==
    ASSUME LoopsOK, Alone, [Next]_vars
    PROVE  Alone'
<1>1. CASE ~RestartIngestion /\ ~Crash
  <2>1. overlapped' = overlapped
    <3>1. ASSUME NEW r \in Loops, ByLoop(r) PROVE overlapped' = overlapped
      BY <3>1 DEF ByLoop, Open, Load, Polling, Poll, StartFails
    <3> QED BY <1>1, <3>1, StepCases DEF Mining, Begin, Ingest, Done, Fail, Advance, vars
  <2>2. ASSUME NEW c \in Loops, Single(c) PROVE Single(c)'
    <3>1. CASE Mining \/ UNCHANGED vars
      <4>1. UNCHANGED <<phase, next, timers, handle, advancer, queue, checkpoint>>
        BY <3>1 DEF Mining, vars, loopVars, dbVars
      <4> QED BY <2>2, <4>1, SingleKept
    <3>2. CASE \E r \in Loops : ByLoop(r)
      BY <2>2, <3>2, SingleByLoop
    <3>3. CASE Begin \/ Done \/ Fail \/ Advance
      BY <2>2, <3>3, SingleQueue
    <3>4. CASE Ingest
      BY <2>2, <3>4, SingleIngest
    <3> QED BY <1>1, <3>1, <3>2, <3>3, <3>4, StepCases
  <2> QED BY <2>1, <2>2 DEF Alone
<1>2. CASE RestartIngestion
  <2>1. PICK r \in Loops, reset \in BOOLEAN : Restart(r, reset)
    BY <1>2 DEF RestartIngestion
  <2>2. /\ phase[r] = "unused" /\ phase' = [phase EXCEPT ![r] = "starting"]
        /\ UNCHANGED <<next, queue>> /\ timers' = timers \ {handle} /\ handle' = 0 /\ advancer' = 0
    BY <2>1 DEF Restart, StopIngestionLoop
  <2>3. overlapped' \/ (~overlapped /\ Quiet)
    BY <2>1, Zenon DEF Restart
  <2>4. CASE ~overlapped /\ Quiet
    <3>1. PICK c \in Loops : Single(c)
      BY <2>4 DEF Alone
    <3>2. timers' = {}
      BY <2>2, <3>1 DEF Single
    <3>3. queue' = <<>> /\ \A x \in Loops : phase[x] \in {"unused", "polling"}
      BY <2>2, <2>4 DEF Quiet
    <3>4. phase'[r] = "starting" /\ \A x \in Loops \ {r} : phase'[x] = phase[x]
      BY <2>2 DEF LoopsOK, LoopsTyped
    <3>5. Single(r)'
      BY <2>2, <3>2, <3>3, <3>4, EmptyQueue DEF Single, Ready
    <3> QED BY <3>5 DEF Alone
  <2> QED BY <2>3, <2>4 DEF Alone
<1>3. CASE Crash
  <2>1. /\ phase' = [r \in Loops |-> IF r = 1 THEN "starting" ELSE "unused"]
        /\ timers' = {} /\ advancer' = 0 /\ queue' = <<>>
    BY <1>3 DEF Crash
  <2>2. 1 \in Loops
    BY LoopNumbers
  <2>3. Single(1)'
    BY <2>1, <2>2, EmptyQueue DEF Single, Ready
  <2> QED BY <2>2, <2>3 DEF Alone
<1> QED BY <1>1, <1>2, <1>3

-----------------------------------------------------------------------------
(* What the contracts are in after each block                               *)

TermRows == [active : BOOLEAN, offering : Int, supply : Nat, maturityDate : Nat, lastPayment : Nat,
             count : Nat, matured : BOOLEAN, issued : BOOLEAN]
AuctionStates == [type : {"RATE", "PRICE", "BUYBACK"}, status : {"open", "closed", "finalised", "cancelled"},
                  bids : Seq(Holders), allocations : Seq([bidder : Holders, units : Nat])]
ContractStates == [bond : TermRows, auctions : Seq(AuctionStates), bal : [Owners -> Nat]]

Latest(s)   == Len(s.auctions)
Sold(s)     == \E n \in DOMAIN s.auctions : s.auctions[n].status = "finalised"
Bidding(s)  == Latest(s) > 0 /\ s.auctions[Latest(s)].status \in {"open", "closed"}

\* Before an auction is finalised there are no units and no coupon terms, and the offering is
\* that of the auction in flight.
Unissued(s) ==
    /\ s.bond.supply = 0 /\ s.bond.maturityDate = 0 /\ s.bond.lastPayment = 0 /\ s.bond.count = 0
    /\ s.bond.matured = FALSE /\ s.bond.issued = FALSE
    /\ Bidding(s) => s.bond.offering = Size /\ s.auctions[Latest(s)].type # "BUYBACK"
    /\ ~Bidding(s) => s.bond.offering = 0

StateTyped(s) == s \in ContractStates /\ Latest(s) <= MaxAuctions
SupplyHeld(s) == s.bond.supply = SumFunction(s.bal)
RateFirst(s)  == \A n \in DOMAIN s.auctions : s.auctions[n].type = "RATE" => n = 1
StateOK(s) ==
    /\ StateTyped(s) /\ SupplyHeld(s) /\ RateFirst(s)
    /\ ~Sold(s) => Unissued(s)
    /\ ~s.bond.active => ~Sold(s) /\ ~Bidding(s)
    /\ s.bond.matured => s.bond.count >= Periods

\* What block b, which takes the contracts from s to t, may do to auctions and to the bond
AuctionsGrow(s, t) ==
    /\ Latest(s) <= Latest(t) /\ \A n \in DOMAIN s.auctions : TypeIn(t, n) = TypeIn(s, n)
    /\ Sold(s) => Sold(t)
BondPasses(s, t, b) ==
    /\ ~s.bond.active => t.bond.active /\ ~Sold(t)
    /\ s.bond.count <= t.bond.count
    /\ t.bond.count > s.bond.count => t.bond.lastPayment = b
    /\ t.bond.count = s.bond.count /\ ~Enables(s, t) => t.bond.lastPayment = s.bond.lastPayment
    /\ Enables(s, t) => s.bond.count = 0 /\ t.bond.count = 0 /\ t.bond.lastPayment = b
Passage(s, t, b) == AuctionsGrow(s, t) /\ BondPasses(s, t, b)

\* Block k, the b-th, takes the contracts from s to t.
Emits(s, t, b, k) ==
    /\ ManagerLogs(s, t, b, k.manager) /\ AuctionLogs(s, t, b, k.auction)
    /\ LifecycleLogs(s, t, b, k.token) /\ MoneyLogs(s, t, b, k.token)
Transaction(s, t, b, k) == k.state = t /\ StateOK(t) /\ Passage(s, t, b) /\ Emits(s, t, b, k)

InitialState == [bond |-> NewBond, auctions |-> <<>>, bal |-> [a \in Owners |-> 0]]
StateAt(b) == IF b = 0 THEN InitialState ELSE chain[b].state
ChainOK ==
    /\ Chained /\ contracts = StateAt(Height)
    /\ \A b \in 1 .. Height : Transaction(StateAt(b - 1), StateAt(b), b, chain[b])

LEMMA InitialStateOK == StateOK(InitialState)
<1>0. Size \in Nat \ {0} /\ Periods \in Nat /\ MaxAuctions \in Nat
  BY BondChainAssumption
<1>1. InitialState.bond = NewBond /\ InitialState.auctions = <<>> /\ InitialState.bal = [a \in Owners |-> 0]
  BY DEF InitialState
<1>2. NewBond \in TermRows /\ NewBond.supply = 0 /\ NewBond.matured = FALSE
  BY DEF NewBond, TermRows
<1>3. InitialState \in ContractStates
  BY <1>1, <1>2 DEF InitialState, ContractStates
<1>4. Latest(InitialState) = 0 /\ DOMAIN InitialState.auctions = {}
  BY <1>1 DEF Latest
<1>5. ~Sold(InitialState) /\ ~Bidding(InitialState)
  BY <1>4 DEF Sold, Bidding
<1>6. SumFunction(InitialState.bal) = 0
  <2>1. IsFiniteSet(Owners)
    BY AccountSets
  <2>2. SumFunctionOnSet([a \in Owners |-> 0], Owners) = 0
    BY <2>1, SumZero
  <2> QED BY <1>1, <2>2 DEF SumFunction
<1>7. Unissued(InitialState)
  BY <1>1, <1>5 DEF Unissued, NewBond
<1> QED BY <1>0, <1>1, <1>2, <1>3, <1>4, <1>5, <1>6, <1>7 DEF StateOK, StateTyped, SupplyHeld, RateFirst

\* The block of a transaction has been added.
Mined == \E k : chain' = Append(chain, k) /\ contracts' = k.state /\ Transaction(contracts, k.state, Now, k)

\* Block b, with these logs, takes the contracts from s to t.
Transits(s, t, b, manager, auction, token) ==
    /\ StateOK(t) /\ Passage(s, t, b)
    /\ ManagerLogs(s, t, b, manager) /\ AuctionLogs(s, t, b, auction)
    /\ LifecycleLogs(s, t, b, token) /\ MoneyLogs(s, t, b, token)

LEMMA MinedBlock ==
    ASSUME NEW manager, NEW auction, NEW token, NEW t, Mine(manager, auction, token, t),
           Transits(contracts, t, Now, Placed(manager), Placed(auction), Placed(token))
    PROVE  Mined
<1> DEFINE k == [manager |-> Placed(manager), auction |-> Placed(auction), token |-> Placed(token), state |-> t]
<1>1. chain' = Append(chain, k) /\ contracts' = t
  BY DEF Mine
<1>2. k.state = t /\ k.manager = Placed(manager) /\ k.auction = Placed(auction) /\ k.token = Placed(token)
  OBVIOUS
<1> HIDE DEF k
<1>3. Transaction(contracts, k.state, Now, k)
  BY <1>2 DEF Transaction, Emits, Transits
<1> QED BY <1>1, <1>2, <1>3 DEF Mined

\* A mined block keeps the chain in order.
LEMMA ChainMined ==
    ASSUME ChainOK, Mined
    PROVE  ChainOK'
<1>1. PICK k : chain' = Append(chain, k) /\ contracts' = k.state /\ Transaction(contracts, k.state, Now, k)
  BY DEF Mined
<1>2. AddsBlock
  BY <1>1 DEF AddsBlock
<1>3. Chained' /\ Height' = Height + 1 /\ Height \in Nat /\ \A b \in 1 .. Height : chain'[b] = chain[b]
  BY <1>2, BlockAdded DEF ChainOK
<1>h. PICK h : h = Height
  OBVIOUS
<1>4. chain'[h + 1] = k
  <2>1. PICK S : chain \in Seq(S)
    BY DEF ChainOK, Chained
  <2> QED BY <1>1, <1>h, <2>1 DEF Height
<1>5. ASSUME NEW b \in 0 .. h PROVE StateAt(b)' = StateAt(b)
  BY <1>3, <1>h DEF StateAt
<1>6. StateAt(h)' = contracts
  BY <1>3, <1>5, <1>h DEF ChainOK
<1>7. \A b \in 1 .. h : Transaction(StateAt(b - 1), StateAt(b), b, chain[b])
  BY <1>h DEF ChainOK
<1>8. ASSUME NEW b \in 1 .. h + 1 PROVE Transaction(StateAt(b - 1)', StateAt(b)', b, chain'[b])
  <2>1. CASE b \in 1 .. h
    <3>1. StateAt(b)' = StateAt(b) /\ StateAt(b - 1)' = StateAt(b - 1) /\ chain'[b] = chain[b]
      BY <1>3, <1>5, <1>h, <2>1
    <3> QED BY <1>7, <2>1, <3>1
  <2>2. CASE b = h + 1
    <3>1. StateAt(b)' = k.state /\ b - 1 = h /\ b = Now
      BY <1>3, <1>4, <1>h, <2>2 DEF StateAt, Now
    <3>2. StateAt(b - 1)' = contracts /\ chain'[b] = k
      BY <1>4, <1>6, <2>2, <3>1
    <3> QED BY <1>1, <3>1, <3>2
  <2> QED BY <1>3, <1>h, <2>1, <2>2
<1>9. contracts' = StateAt(h + 1)'
  BY <1>1, <1>3, <1>4, <1>h DEF StateAt
<1>10. (\A b \in 1 .. h + 1 : Transaction(StateAt(b - 1), StateAt(b), b, chain[b]))'
  BY <1>8
<1>11. h + 1 = Height'
  BY <1>3, <1>h
<1> QED BY <1>3, <1>9, <1>10, <1>11 DEF ChainOK

\* A log at its place in the block
At(e, k) == [e EXCEPT !.logIndex = k]

LEMMA PlacedNone == Placed(<<>>) = <<>>
BY DEF Placed
LEMMA PlacedOne == ASSUME NEW e PROVE Placed(<<e>>) = <<At(e, 1)>>
BY DEF Placed, At
LEMMA PlacedTwo == ASSUME NEW e, NEW f PROVE Placed(<<e, f>>) = <<At(e, 1), At(f, 2)>>
BY DEF Placed, At
LEMMA PlacedThree ==
    ASSUME NEW e, NEW f, NEW g
    PROVE  Placed(<<e, f, g>>) = <<At(e, 1), At(f, 2), At(g, 3)>>
BY DEF Placed, At

LogOf(f, event, v, b) == f.event = event /\ f.v = v /\ f.block = b /\ Places(f)
TransferOf(f, from, to, v, b) ==
    f.event = "TransferByPartition" /\ f.from = from /\ f.to = to /\ f.v = v /\ f.block = b
CreationOf(f, n, type) == f.event = "AuctionCreated" /\ f.v = n /\ f.type = type
BidOf(f, n, h, k) == f.event = "BidSubmitted" /\ f.v = n /\ f.from = h /\ f.bid = k

LEMMA LogAt ==
    ASSUME Height \in Nat, NEW event, NEW v, NEW k \in Nat
    PROVE  LogOf(At(Log(event, v), k), event, v, Now)
BY DEF At, Log, LogOf, Places, HistoryRow, Now

LEMMA TransferAt ==
    ASSUME NEW from, NEW to, NEW v, NEW k
    PROVE  TransferOf(At(Transfer(from, to, v), k), from, to, v, Now)
BY DEF At, Log, Transfer, TransferOf

LEMMA CreatedAt ==
    ASSUME NEW n, NEW type, NEW k
    PROVE  CreationOf(At([Log("AuctionCreated", n) EXCEPT !.type = type], k), n, type)
BY DEF At, Log, CreationOf

LEMMA BidAt ==
    ASSUME NEW n, NEW bids, NEW j, NEW k
    PROVE  BidOf(At(BidLog(n, bids, j), k), n, bids[j], j)
BY DEF At, Log, BidLog, BidOf

\* What a log of a block moves is a whole amount.
Counted(e, b) == e.block = b /\ b \in Int /\ \A a \in Accounts : Gain(e, a) \in Int

LEMMA LogCounted ==
    ASSUME NEW e, NEW b \in Int, NEW event, NEW v, LogOf(e, event, v, b), event # "TransferByPartition"
    PROVE  Counted(e, b) /\ \A a \in Accounts : Gain(e, a) = 0
BY DEF LogOf, Counted, Gain

LEMMA TransferCounted ==
    ASSUME NEW e, NEW b \in Int, NEW from, NEW to, NEW v \in Int, TransferOf(e, from, to, v, b)
    PROVE  /\ Counted(e, b)
           /\ \A a \in Accounts : Gain(e, a) = (IF a = to THEN v ELSE 0) - (IF a = from THEN v ELSE 0)
BY DEF TransferOf, Counted, Gain, ReducePartitionTransfer

LEMMA GainsOne ==
    ASSUME NEW e, NEW b, Counted(e, b)
    PROVE  Countable(<<e>>, b) /\ \A a \in Accounts : GainsTo(<<e>>, a, Len(<<e>>)) = Gain(e, a)
<1>1. Countable(<<e>>, b)
  BY DEF Counted, Countable
<1>2. ASSUME NEW a \in Accounts PROVE GainsTo(<<e>>, a, Len(<<e>>)) = Gain(e, a)
  <2>1. Len(<<e>>) = 1 /\ <<e>>[1] = e /\ Gain(e, a) \in Int
    BY DEF Counted
  <2>2. \A j \in 1 .. 1 : Gain(<<e>>[j], a) \in Int
    BY <2>1
  <2>3. GainsTo(<<e>>, a, 1) = GainsTo(<<e>>, a, 1 - 1) + Gain(<<e>>[1], a)
    BY <2>2, GainsMore
  <2>4. GainsTo(<<e>>, a, 0) = 0
    BY GainsNone
  <2> QED BY <2>1, <2>3, <2>4
<1> QED BY <1>1, <1>2

LEMMA GainsTwo ==
    ASSUME NEW e, NEW f, NEW b, Counted(e, b), Counted(f, b)
    PROVE  /\ Countable(<<e, f>>, b)
           /\ \A a \in Accounts : GainsTo(<<e, f>>, a, Len(<<e, f>>)) = Gain(e, a) + Gain(f, a)
<1> DEFINE logs == <<e, f>>
<1>0. Len(logs) = 2 /\ logs[1] = e /\ logs[2] = f
  OBVIOUS
<1>1. Countable(logs, b)
  BY DEF Counted, Countable
<1> HIDE DEF logs
<1>2. ASSUME NEW a \in Accounts PROVE GainsTo(logs, a, 2) = Gain(e, a) + Gain(f, a)
  <2>1. Gain(e, a) \in Int /\ Gain(f, a) \in Int
    BY DEF Counted
  <2>2. (\A j \in 1 .. 1 : Gain(logs[j], a) \in Int) /\ \A j \in 1 .. 2 : Gain(logs[j], a) \in Int
    <3>1. \A j \in 1 .. 2 : j = 1 \/ j = 2
      OBVIOUS
    <3> QED BY <1>0, <2>1, <3>1
  <2>3. GainsTo(logs, a, 1) = GainsTo(logs, a, 1 - 1) + Gain(logs[1], a)
    BY <2>2, GainsMore
  <2>4. GainsTo(logs, a, 2) = GainsTo(logs, a, 2 - 1) + Gain(logs[2], a)
    BY <2>2, GainsMore
  <2>5. GainsTo(logs, a, 0) = 0
    BY GainsNone
  <2> QED BY <1>0, <2>1, <2>3, <2>4, <2>5
<1>3. \A a \in Accounts : GainsTo(logs, a, Len(logs)) = Gain(e, a) + Gain(f, a)
  BY <1>0, <1>2
<1> QED BY <1>1, <1>3 DEF logs

LEMMA GainsThree ==
    ASSUME NEW e, NEW f, NEW g, NEW b, Counted(e, b), Counted(f, b), Counted(g, b)
    PROVE  /\ Countable(<<e, f, g>>, b)
           /\ \A a \in Accounts :
                GainsTo(<<e, f, g>>, a, Len(<<e, f, g>>)) = Gain(e, a) + Gain(f, a) + Gain(g, a)
<1> DEFINE logs == <<e, f, g>>
<1>0. Len(logs) = 3 /\ logs[1] = e /\ logs[2] = f /\ logs[3] = g
  OBVIOUS
<1>1. Countable(logs, b)
  BY DEF Counted, Countable
<1> HIDE DEF logs
<1>2. ASSUME NEW a \in Accounts PROVE GainsTo(logs, a, 3) = Gain(e, a) + Gain(f, a) + Gain(g, a)
  <2>1. Gain(e, a) \in Int /\ Gain(f, a) \in Int /\ Gain(g, a) \in Int
    BY DEF Counted
  <2>2. \A j \in 1 .. 3 : Gain(logs[j], a) \in Int
    <3>1. \A j \in 1 .. 3 : j = 1 \/ j = 2 \/ j = 3
      OBVIOUS
    <3> QED BY <1>0, <2>1, <3>1
  <2>3. GainsTo(logs, a, 1) = GainsTo(logs, a, 1 - 1) + Gain(logs[1], a)
    BY <2>2, GainsMore
  <2>4. GainsTo(logs, a, 2) = GainsTo(logs, a, 2 - 1) + Gain(logs[2], a)
    BY <2>2, GainsMore
  <2>5. GainsTo(logs, a, 3) = GainsTo(logs, a, 3 - 1) + Gain(logs[3], a)
    BY <2>2, GainsMore
  <2>6. GainsTo(logs, a, 0) = 0
    BY GainsNone
  <2> QED BY <1>0, <2>1, <2>3, <2>4, <2>5, <2>6
<1>3. \A a \in Accounts : GainsTo(logs, a, Len(logs)) = Gain(e, a) + Gain(f, a) + Gain(g, a)
  BY <1>0, <1>2
<1> QED BY <1>1, <1>3 DEF logs

\* Logs that move nothing
Unmoving(logs, b) ==
    /\ Len(logs) \in Nat /\ b \in Int
    /\ \A k \in 1 .. Len(logs) : Counted(logs[k], b) /\ \A a \in Accounts : Gain(logs[k], a) = 0
SameHoldings(s, t) == t.bal = s.bal /\ t.bond.supply = s.bond.supply

LEMMA HoldingsInt ==
    ASSUME NEW s, StateTyped(s)
    PROVE  s.bond.supply \in Nat /\ s.bal \in [Owners -> Nat] /\ \A a \in Owners : s.bal[a] \in Nat
BY DEF StateTyped, ContractStates, TermRows

LEMMA MoneyStill ==
    ASSUME NEW s, NEW t, NEW b, NEW logs, Unmoving(logs, b), StateTyped(s), SameHoldings(s, t)
    PROVE  MoneyLogs(s, t, b, logs)
<1>1. ASSUME NEW a \in Accounts PROVE GainsTo(logs, a, Len(logs)) = 0
  <2> DEFINE g == [j \in 1 .. Len(logs) |-> Gain(logs[j], a)]
  <2>1. IsFiniteSet(1 .. Len(logs)) /\ \A j \in 1 .. Len(logs) : g[j] = 0
    BY FS_Interval DEF Unmoving
  <2> HIDE DEF g
  <2>2. SumFunctionOnSet(g, 1 .. Len(logs)) = 0
    BY <2>1, SumZero
  <2> QED BY <2>2 DEF GainsTo, g
<1>2. Countable(logs, b)
  BY DEF Countable, Unmoving, Counted
<1> QED BY <1>1, <1>2, HoldingsInt, AccountSets DEF MoneyLogs, SameHoldings

-----------------------------------------------------------------------------
(* What a transaction makes of the auctions                                 *)

LEMMA NoManager ==
    ASSUME NEW s, NEW t, NEW b, SameLife(s, t), SameRows(s, t)
    PROVE  ManagerLogs(s, t, b, <<>>)
BY DEF ManagerLogs, NoLogs

LEMMA NoAuction ==
    ASSUME NEW s, NEW t, NEW b, SameRowBids(s, t)
    PROVE  AuctionLogs(s, t, b, <<>>)
BY DEF AuctionLogs

SameTerms(s, t) ==
    ~Deploys(s, t) /\ t.bond.offering = s.bond.offering /\ t.bond.maturityDate = s.bond.maturityDate

LEMMA NoToken ==
    ASSUME NEW s, NEW t, NEW b \in Int, SameTerms(s, t), SameHoldings(s, t), StateTyped(s)
    PROVE  LifecycleLogs(s, t, b, <<>>) /\ MoneyLogs(s, t, b, <<>>)
<1>1. Len(<<>>) = 0 /\ 1 .. 0 = {}
  OBVIOUS
<1>2. Lifeless(<<>>)
  BY <1>1 DEF Lifeless
<1>3. Unmoving(<<>>, b)
  BY <1>1 DEF Unmoving
<1> QED BY <1>2, <1>3, MoneyStill DEF LifecycleLogs, PlainLogs, SameTerms

LEMMA SameAuctionStates ==
    ASSUME NEW s, NEW t, t.auctions = s.auctions
    PROVE  /\ SameRows(s, t) /\ SameRowBids(s, t) /\ (Sold(t) <=> Sold(s)) /\ (Bidding(t) <=> Bidding(s))
           /\ Latest(t) = Latest(s) /\ (RateFirst(s) => RateFirst(t))
           /\ StateTyped(s) => AuctionsGrow(s, t)
<1>1. SameRows(s, t) /\ SameRowBids(s, t)
  BY DEF SameRows, SameRowBids, StatusIn, TypeIn, BidsIn, AllocationsIn
<1>2. (Sold(t) <=> Sold(s)) /\ (Bidding(t) <=> Bidding(s)) /\ Latest(t) = Latest(s) /\ (RateFirst(s) => RateFirst(t))
  BY DEF Sold, Bidding, Latest, RateFirst
<1>3. StateTyped(s) => Latest(s) \in Nat
  BY DEF Latest, StateTyped, ContractStates
<1>4. \A n \in DOMAIN s.auctions : TypeIn(t, n) = TypeIn(s, n)
  BY DEF TypeIn
<1> QED BY <1>1, <1>2, <1>3, <1>4 DEF AuctionsGrow

LEMMA AuctionsTyped ==
    ASSUME NEW s, StateTyped(s)
    PROVE  /\ s.auctions \in Seq(AuctionStates) /\ Latest(s) \in Nat /\ Latest(s) <= MaxAuctions
           /\ DOMAIN s.auctions = 1 .. Latest(s) /\ \A n \in 1 .. Latest(s) : s.auctions[n] \in AuctionStates
           /\ MaxAuctions \in Nat /\ DOMAIN s.auctions \subseteq 1 .. MaxAuctions
<1>1. MaxAuctions \in Nat
  BY BondChainAssumption
<1>2. s.auctions \in Seq(AuctionStates) /\ Latest(s) = Len(s.auctions) /\ Latest(s) <= MaxAuctions
  BY DEF StateTyped, ContractStates, Latest
<1> QED BY <1>1, <1>2

\* The latest auction is in flight and becomes row.
Edited(s, t, n, row) ==
    /\ StateTyped(s) /\ Bidding(s) /\ n = Latest(s)
    /\ row \in AuctionStates /\ row.type = s.auctions[n].type /\ t.auctions = [s.auctions EXCEPT ![n] = row]

LEMMA EditedSeq ==
    ASSUME NEW s, NEW t, NEW n, NEW row, Edited(s, t, n, row)
    PROVE  /\ t.auctions \in Seq(AuctionStates) /\ Latest(t) = n /\ n \in 1 .. MaxAuctions /\ n \in DOMAIN s.auctions
           /\ DOMAIN t.auctions = DOMAIN s.auctions /\ t.auctions[n] = row /\ Latest(s) = n
           /\ \A m \in DOMAIN s.auctions \ {n} : t.auctions[m] = s.auctions[m]
           /\ s.auctions[n].status \in {"open", "closed"} /\ s.auctions[n] \in AuctionStates
<1>1. /\ s.auctions \in Seq(AuctionStates) /\ Latest(s) \in Nat /\ Latest(s) <= MaxAuctions
      /\ DOMAIN s.auctions = 1 .. Latest(s) /\ MaxAuctions \in Nat
  BY AuctionsTyped DEF Edited
<1>2. n = Latest(s) /\ n > 0 /\ s.auctions[n].status \in {"open", "closed"}
  BY DEF Edited, Bidding
<1>3. t.auctions = [s.auctions EXCEPT ![n] = row] /\ row \in AuctionStates
  BY DEF Edited
<1>4. t.auctions \in Seq(AuctionStates) /\ Len(t.auctions) = Len(s.auctions)
  BY <1>1, <1>2, <1>3
<1> QED BY <1>1, <1>2, <1>3, <1>4 DEF Latest

LEMMA EditedRows ==
    ASSUME NEW s, NEW t, NEW n, NEW row, Edited(s, t, n, row)
    PROVE  /\ RowBecomes(s, t, n, TypeIn(s, n), row.status)
           /\ OtherRowBids(s, t, n) /\ BidsIn(t, n) = row.bids /\ AllocationsIn(t, n) = row.allocations
           /\ BidsIn(s, n) = s.auctions[n].bids /\ AllocationsIn(s, n) = s.auctions[n].allocations
           /\ row.bids = s.auctions[n].bids /\ row.allocations = s.auctions[n].allocations => SameRowBids(s, t)
           /\ row.status = s.auctions[n].status => SameRows(s, t)
<1>0. row.type = s.auctions[n].type
  BY DEF Edited
<1>1. n \in DOMAIN s.auctions /\ DOMAIN t.auctions = DOMAIN s.auctions /\ t.auctions[n] = row
      /\ \A m \in DOMAIN s.auctions \ {n} : t.auctions[m] = s.auctions[m]
  BY EditedSeq
<1>2. \A m \in (1 .. MaxAuctions) \ {n} : StatusIn(t, m) = StatusIn(s, m) /\ TypeIn(t, m) = TypeIn(s, m)
  BY <1>1 DEF StatusIn, TypeIn
<1>3. StatusIn(t, n) = row.status /\ TypeIn(t, n) = TypeIn(s, n) /\ StatusIn(s, n) = s.auctions[n].status
  BY <1>0, <1>1 DEF StatusIn, TypeIn
<1>4. OtherRowBids(s, t, n)
  BY <1>1 DEF OtherRowBids, BidsIn, AllocationsIn
<1>5. BidsIn(t, n) = row.bids /\ AllocationsIn(t, n) = row.allocations
      /\ BidsIn(s, n) = s.auctions[n].bids /\ AllocationsIn(s, n) = s.auctions[n].allocations
  BY <1>1 DEF BidsIn, AllocationsIn
<1>6. RowBecomes(s, t, n, TypeIn(s, n), row.status)
  BY <1>2, <1>3 DEF RowBecomes
<1>7. row.status = s.auctions[n].status => SameRows(s, t)
  BY <1>2, <1>3 DEF SameRows
<1>8. row.bids = s.auctions[n].bids /\ row.allocations = s.auctions[n].allocations => SameRowBids(s, t)
  BY <1>4, <1>5 DEF SameRowBids, OtherRowBids
<1> QED BY <1>4, <1>5, <1>6, <1>7, <1>8

LEMMA EditedGrows ==
    ASSUME NEW s, NEW t, NEW n, NEW row, Edited(s, t, n, row)
    PROVE  /\ AuctionsGrow(s, t) /\ (RateFirst(s) => RateFirst(t))
           /\ row.status # "finalised" => (Sold(t) <=> Sold(s))
           /\ row.status = "finalised" => Sold(t)
           /\ Bidding(t) <=> row.status \in {"open", "closed"}
<1>0. row.type = s.auctions[n].type
  BY DEF Edited
<1>1. n \in DOMAIN s.auctions /\ DOMAIN t.auctions = DOMAIN s.auctions /\ t.auctions[n] = row /\ Latest(t) = n
      /\ (\A m \in DOMAIN s.auctions \ {n} : t.auctions[m] = s.auctions[m]) /\ Latest(s) = n
      /\ s.auctions[n].status \in {"open", "closed"} /\ n \in 1 .. MaxAuctions
  BY EditedSeq
<1>2. \A m \in DOMAIN s.auctions : t.auctions[m].type = s.auctions[m].type
  BY <1>0, <1>1
<1>3. \A m \in DOMAIN s.auctions : TypeIn(t, m) = TypeIn(s, m)
  BY <1>1, <1>2 DEF TypeIn
<1>4. RateFirst(s) => RateFirst(t)
  BY <1>1, <1>2 DEF RateFirst
<1>5. row.status = "finalised" => Sold(t)
  BY <1>1 DEF Sold
<1>6. Sold(s) => Sold(t)
  <2>1. ASSUME NEW m \in DOMAIN s.auctions, s.auctions[m].status = "finalised" PROVE Sold(t)
    <3>1. m # n
      BY <1>1, <2>1
    <3> QED BY <1>1, <2>1, <3>1 DEF Sold
  <2> QED BY <2>1 DEF Sold
<1>7. row.status # "finalised" /\ Sold(t) => Sold(s)
  <2>1. ASSUME NEW m \in DOMAIN t.auctions, t.auctions[m].status = "finalised", row.status # "finalised" PROVE Sold(s)
    <3>1. m # n
      BY <1>1, <2>1
    <3> QED BY <1>1, <2>1, <3>1 DEF Sold
  <2> QED BY <2>1 DEF Sold
<1>8. Bidding(t) <=> row.status \in {"open", "closed"}
  BY <1>1 DEF Bidding
<1>9. n \in Int /\ Latest(s) <= Latest(t)
  BY <1>1
<1> QED BY <1>3, <1>4, <1>5, <1>6, <1>7, <1>8, <1>9 DEF AuctionsGrow

\* A new auction: row.
Added(s, t, n, row) ==
    /\ StateTyped(s) /\ n = Latest(s) + 1 /\ n <= MaxAuctions /\ row \in AuctionStates /\ row.status = "open"
    /\ t.auctions = Append(s.auctions, row)

LEMMA AddedSeq ==
    ASSUME NEW s, NEW t, NEW n, NEW row, Added(s, t, n, row)
    PROVE  /\ t.auctions \in Seq(AuctionStates) /\ Latest(t) = n /\ n \in 1 .. MaxAuctions
           /\ n \notin DOMAIN s.auctions /\ Latest(s) = n - 1
           /\ DOMAIN t.auctions = (DOMAIN s.auctions) \cup {n} /\ t.auctions[n] = row
           /\ \A m \in DOMAIN s.auctions : t.auctions[m] = s.auctions[m]
<1>1. /\ s.auctions \in Seq(AuctionStates) /\ Latest(s) \in Nat /\ Latest(s) <= MaxAuctions
      /\ DOMAIN s.auctions = 1 .. Latest(s) /\ MaxAuctions \in Nat
  BY AuctionsTyped DEF Added
<1>2. n = Latest(s) + 1 /\ n <= MaxAuctions /\ row \in AuctionStates /\ t.auctions = Append(s.auctions, row)
  BY DEF Added
<1>3. t.auctions \in Seq(AuctionStates) /\ Len(t.auctions) = Len(s.auctions) + 1
  BY <1>1, <1>2
<1>4. Latest(s) = Len(s.auctions) /\ Latest(t) = Len(t.auctions)
  BY DEF Latest
<1>5. \A m \in DOMAIN s.auctions : t.auctions[m] = s.auctions[m]
  BY <1>1, <1>2
<1> QED BY <1>1, <1>2, <1>3, <1>4, <1>5

LEMMA AddedRows ==
    ASSUME NEW s, NEW t, NEW n, NEW row, Added(s, t, n, row)
    PROVE  /\ RowBecomes(s, t, n, row.type, "open") /\ TypeIn(s, n) = "none" /\ TypeIn(t, n) = row.type
           /\ OtherRowBids(s, t, n) /\ BidsIn(t, n) = row.bids /\ AllocationsIn(t, n) = row.allocations
           /\ BidsIn(s, n) = <<>> /\ AllocationsIn(s, n) = <<>>
<1>0. row.status = "open"
  BY DEF Added
<1>1. n \notin DOMAIN s.auctions /\ DOMAIN t.auctions = (DOMAIN s.auctions) \cup {n} /\ t.auctions[n] = row
      /\ \A m \in DOMAIN s.auctions : t.auctions[m] = s.auctions[m]
  BY AddedSeq
<1>2. \A m \in (1 .. MaxAuctions) \ {n} : StatusIn(t, m) = StatusIn(s, m) /\ TypeIn(t, m) = TypeIn(s, m)
  BY <1>1 DEF StatusIn, TypeIn
<1>3. StatusIn(t, n) = "open" /\ TypeIn(t, n) = row.type /\ TypeIn(s, n) = "none"
  BY <1>0, <1>1 DEF StatusIn, TypeIn
<1>4. OtherRowBids(s, t, n)
  BY <1>1 DEF OtherRowBids, BidsIn, AllocationsIn
<1>5. BidsIn(t, n) = row.bids /\ AllocationsIn(t, n) = row.allocations
      /\ BidsIn(s, n) = <<>> /\ AllocationsIn(s, n) = <<>>
  BY <1>1 DEF BidsIn, AllocationsIn
<1> QED BY <1>2, <1>3, <1>4, <1>5 DEF RowBecomes

LEMMA AddedGrows ==
    ASSUME NEW s, NEW t, NEW n, NEW row, Added(s, t, n, row)
    PROVE  /\ AuctionsGrow(s, t) /\ (Sold(t) <=> Sold(s)) /\ Bidding(t)
           /\ RateFirst(s) /\ (row.type = "RATE" => n = 1) => RateFirst(t)
<1>0. row.status = "open" /\ row.status # "finalised"
  BY DEF Added
<1>1. n \notin DOMAIN s.auctions /\ DOMAIN t.auctions = (DOMAIN s.auctions) \cup {n} /\ t.auctions[n] = row
      /\ (\A m \in DOMAIN s.auctions : t.auctions[m] = s.auctions[m])
      /\ Latest(t) = n /\ n \in 1 .. MaxAuctions /\ Latest(s) = n - 1
  BY AddedSeq
<1>2. \A m \in DOMAIN s.auctions : TypeIn(t, m) = TypeIn(s, m)
  BY <1>1 DEF TypeIn
<1>3. Sold(t) <=> Sold(s)
  BY <1>0, <1>1 DEF Sold
<1>4. Bidding(t)
  BY <1>0, <1>1 DEF Bidding
<1>5. Latest(s) <= Latest(t)
  BY <1>1
<1>6. RateFirst(s) /\ (row.type = "RATE" => n = 1) => RateFirst(t)
  BY <1>1 DEF RateFirst
<1> QED BY <1>2, <1>3, <1>4, <1>5, <1>6 DEF AuctionsGrow

-----------------------------------------------------------------------------
(* Transactions that end with the auction they change in flight, or         *)
(* cancelled                                                                *)

\* What every transaction starts from
LEMMA StateNow ==
    ASSUME StateOK(contracts), Height \in Nat
    PROVE  /\ Now \in Nat \ {0} /\ Bond = contracts.bond /\ Auctions = contracts.auctions /\ N = Latest(contracts)
           /\ InFlight <=> Bidding(contracts)
           /\ StateTyped(contracts) /\ contracts \in ContractStates
           /\ Bidding(contracts) => contracts.bond.active
BY DEF StateOK, StateTyped, Now, Bond, Auctions, N, InFlight, Bidding, Latest

\* While an active bond keeps its terms
LEMMA TermsKept ==
    ASSUME NEW s, NEW t, NEW b, StateTyped(s), s.bond.active, t.bond.active = s.bond.active, t.bond.count = s.bond.count,
           t.bond.lastPayment = s.bond.lastPayment, t.bond.maturityDate = s.bond.maturityDate
    PROVE  BondPasses(s, t, b) /\ ~Deploys(s, t)
<1>1. s.bond.count \in Nat /\ s.bond.maturityDate \in Nat
  BY DEF StateTyped, ContractStates, TermRows
<1> QED BY <1>1 DEF BondPasses, Enables, Deploys

\* Edits of an auction that stays in flight
StaysInFlight(s, t, n, row) ==
    /\ Edited(s, t, n, row) /\ row.status \in {"open", "closed"}
    /\ t \in ContractStates /\ t.bond = s.bond /\ t.bal = s.bal
LEMMA EditKeeps ==
    ASSUME NEW s, NEW t, NEW n, NEW row, NEW b \in Int, StateOK(s), StaysInFlight(s, t, n, row)
    PROVE  /\ StateOK(t) /\ Passage(s, t, b) /\ SameLife(s, t)
           /\ LifecycleLogs(s, t, b, <<>>) /\ MoneyLogs(s, t, b, <<>>)
<1> USE DEF StaysInFlight
<1>0. StateTyped(s) /\ Bidding(s) /\ s.bond.active /\ (~Sold(s) => Unissued(s)) /\ RateFirst(s) /\ SupplyHeld(s)
  BY DEF StateOK, Edited
<1>1. Latest(t) = n /\ n \in 1 .. MaxAuctions /\ t.auctions[n] = row /\ Latest(s) = n
  BY EditedSeq
<1>2. AuctionsGrow(s, t) /\ RateFirst(t) /\ (Sold(t) <=> Sold(s)) /\ Bidding(t)
  BY <1>0, EditedGrows
<1>3. StateTyped(t) /\ SupplyHeld(t)
  BY <1>0, <1>1, BondChainAssumption DEF StateTyped, SupplyHeld
<1>4. ~Sold(t) => Unissued(t)
  <2>1. row.type = s.auctions[n].type
    BY DEF Edited
  <2> QED BY <1>0, <1>1, <1>2, <2>1 DEF Unissued
<1>5. StateOK(t)
  BY <1>0, <1>2, <1>3, <1>4 DEF StateOK
<1>6. BondPasses(s, t, b) /\ ~Deploys(s, t)
  BY <1>0, TermsKept
<1>7. SameTerms(s, t) /\ SameHoldings(s, t) /\ SameLife(s, t)
  BY <1>6 DEF SameTerms, SameHoldings, SameLife
<1> QED BY <1>0, <1>2, <1>5, <1>6, <1>7, NoToken DEF Passage

\* closeAuction
LEMMA CloseTransits ==
    ASSUME NEW s, NEW n, NEW t, NEW b \in Nat, NEW e, StateOK(s), Bidding(s), n = Latest(s),
           t = [s EXCEPT !.auctions[n].status = "closed"], LogOf(e, "BondAuctionClosed", n, b)
    PROVE  Transits(s, t, b, <<e>>, <<>>, <<>>)
<1> DEFINE row == [s.auctions[n] EXCEPT !.status = "closed"]
<1>1. StateTyped(s) /\ s \in ContractStates
  BY DEF StateOK, StateTyped
<1>2. DOMAIN s.auctions = 1 .. n /\ n \in Nat /\ \A m \in 1 .. n : s.auctions[m] \in AuctionStates
  BY <1>1, AuctionsTyped
<1>3. s.auctions[n] \in AuctionStates
  BY <1>2 DEF Bidding
<1>4. row \in AuctionStates /\ row.type = s.auctions[n].type /\ row.status = "closed"
      /\ row.bids = s.auctions[n].bids /\ row.allocations = s.auctions[n].allocations
  BY <1>3 DEF AuctionStates
<1>5. t.auctions = [s.auctions EXCEPT ![n] = row] /\ t.bond = s.bond /\ t.bal = s.bal
      /\ t = [bond |-> s.bond, auctions |-> t.auctions, bal |-> s.bal]
  BY <1>1 DEF ContractStates
<1> HIDE DEF row
<1>6. Edited(s, t, n, row)
  BY <1>1, <1>4, <1>5 DEF Edited
<1>7. t \in ContractStates
  <2>1. t.auctions \in Seq(AuctionStates)
    BY <1>6, EditedSeq
  <2> QED BY <1>1, <1>5, <2>1 DEF ContractStates
<1>8. StaysInFlight(s, t, n, row)
  BY <1>4, <1>5, <1>6, <1>7 DEF StaysInFlight
<1>9. StateOK(t) /\ Passage(s, t, b) /\ SameLife(s, t) /\ LifecycleLogs(s, t, b, <<>>) /\ MoneyLogs(s, t, b, <<>>)
  BY <1>8, EditKeeps
<1>10. RowBecomes(s, t, n, TypeIn(s, n), "closed") /\ SameRowBids(s, t) /\ n \in 1 .. MaxAuctions
  BY <1>4, <1>6, EditedRows, EditedSeq
<1>11. ManagerLogs(s, t, b, <<e>>)
  <2>1. StatusAfter(e.event) = "closed" /\ e.event = "BondAuctionClosed" /\ e.v = n /\ Places(e)
    BY DEF LogOf, StatusAfter
  <2>2. ChangedLogs(s, t, <<e>>, e, n)
    BY <1>9, <1>10, <2>1 DEF ChangedLogs
  <2> QED BY <2>2 DEF ManagerLogs
<1> QED BY <1>9, <1>10, <1>11, NoAuction DEF Transits

LEMMA MinedClose ==
    ASSUME StateOK(contracts), Height \in Nat, Close
    PROVE  Mined
<1> DEFINE t == [contracts EXCEPT !.auctions[N].status = "closed"]
           e == Log("BondAuctionClosed", N)
<1>1. InFlight
  BY DEF Close
<1>2. Mine(<<e>>, <<>>, <<>>, t)
  BY DEF Close
<1>3. Bidding(contracts) /\ N = Latest(contracts) /\ Now \in Nat
  BY <1>1, StateNow
<1>4. LogOf(At(e, 1), "BondAuctionClosed", N, Now)
  BY LogAt
<1>5. Transits(contracts, t, Now, <<At(e, 1)>>, <<>>, <<>>)
  BY <1>3, <1>4, CloseTransits
<1> HIDE DEF t, e
<1>6. Transits(contracts, t, Now, Placed(<<e>>), Placed(<<>>), Placed(<<>>))
  BY <1>5, PlacedOne, PlacedNone
<1> QED BY <1>2, <1>6, MinedBlock

\* The state in which the latest auction has become row, with other terms and holdings
EditTo(s, t, n, row, bond, bal) ==
    /\ StateTyped(s) /\ Bidding(s) /\ n = Latest(s)
    /\ row \in AuctionStates /\ row.type = s.auctions[n].type /\ bond \in TermRows /\ bal \in [Owners -> Nat]
    /\ t = [bond |-> bond, auctions |-> [s.auctions EXCEPT ![n] = row], bal |-> bal]

LEMMA EditMade ==
    ASSUME NEW s, NEW t, NEW n, NEW row, NEW bond, NEW bal, EditTo(s, t, n, row, bond, bal)
    PROVE  /\ Edited(s, t, n, row) /\ t \in ContractStates /\ StateTyped(t) /\ t.bond = bond /\ t.bal = bal
           /\ n \in 1 .. MaxAuctions
<1>1. t.auctions = [s.auctions EXCEPT ![n] = row] /\ t.bond = bond /\ t.bal = bal
      /\ t = [bond |-> bond, auctions |-> t.auctions, bal |-> bal]
  BY DEF EditTo
<1>2. Edited(s, t, n, row)
  BY <1>1 DEF Edited, EditTo
<1>3. t.auctions \in Seq(AuctionStates) /\ Latest(t) = n /\ n \in 1 .. MaxAuctions
  BY <1>2, EditedSeq
<1>4. t \in ContractStates
  BY <1>1, <1>3 DEF ContractStates, EditTo
<1>5. MaxAuctions \in Nat
  BY BondChainAssumption
<1> QED BY <1>1, <1>2, <1>3, <1>4, <1>5 DEF StateTyped

\* The latest auction of a typed state
LEMMA LatestRow ==
    ASSUME NEW s, NEW n, StateTyped(s), Bidding(s), n = Latest(s)
    PROVE  /\ s.auctions[n] \in AuctionStates /\ s.auctions[n].status \in {"open", "closed"} /\ n \in DOMAIN s.auctions
           /\ s.bond \in TermRows /\ s.bal \in [Owners -> Nat] /\ s.bond.offering \in Int /\ s.bond.supply \in Nat
           /\ s = [bond |-> s.bond, auctions |-> s.auctions, bal |-> s.bal]
<1>1. DOMAIN s.auctions = 1 .. n /\ n \in Nat /\ \A m \in 1 .. n : s.auctions[m] \in AuctionStates
  BY AuctionsTyped
<1>2. s.auctions[n] \in AuctionStates /\ n \in DOMAIN s.auctions
  BY <1>1 DEF Bidding
<1>3. s \in ContractStates
  BY DEF StateTyped
<1>4. s.bond \in TermRows /\ s.bal \in [Owners -> Nat] /\ s = [bond |-> s.bond, auctions |-> s.auctions, bal |-> s.bal]
  BY <1>3 DEF ContractStates
<1>5. s.bond.offering \in Int /\ s.bond.supply \in Nat
  BY <1>4 DEF TermRows
<1> QED BY <1>2, <1>4, <1>5 DEF Bidding

\* submitBid
BidTo(s, t, n, h, bids) == bids = Append(s.auctions[n].bids, h) /\ t = [s EXCEPT !.auctions[n].bids = bids]
LEMMA BidTransits ==
    ASSUME NEW s, NEW n, NEW h \in Holders, NEW bids, NEW t, NEW b \in Nat, NEW e, StateOK(s), Bidding(s), n = Latest(s),
           BidTo(s, t, n, h, bids), BidOf(e, n, bids[Len(bids)], Len(bids))
    PROVE  Transits(s, t, b, <<>>, <<e>>, <<>>)
<1> DEFINE row == [s.auctions[n] EXCEPT !.bids = bids]
<1>1. StateTyped(s)
  BY DEF StateOK
<1>2. s.auctions[n] \in AuctionStates /\ s.auctions[n].status \in {"open", "closed"} /\ s.bond \in TermRows
      /\ s.bal \in [Owners -> Nat] /\ s = [bond |-> s.bond, auctions |-> s.auctions, bal |-> s.bal]
  BY <1>1, LatestRow
<1>3. s.auctions[n].bids \in Seq(Holders)
  BY <1>2 DEF AuctionStates
<1>4. bids \in Seq(Holders) /\ Len(bids) = Len(s.auctions[n].bids) + 1 /\ bids[Len(bids)] = h
      /\ bids = Append(s.auctions[n].bids, h)
  BY <1>3 DEF BidTo
<1>5. row \in AuctionStates /\ row.type = s.auctions[n].type /\ row.status = s.auctions[n].status
      /\ row.bids = bids /\ row.allocations = s.auctions[n].allocations
  BY <1>2, <1>4 DEF AuctionStates
<1>6. t = [bond |-> s.bond, auctions |-> [s.auctions EXCEPT ![n] = row], bal |-> s.bal]
  BY <1>2 DEF BidTo
<1> HIDE DEF row
<1>7. EditTo(s, t, n, row, s.bond, s.bal)
  BY <1>1, <1>2, <1>5, <1>6 DEF EditTo
<1>8. Edited(s, t, n, row) /\ t \in ContractStates /\ t.bond = s.bond /\ t.bal = s.bal /\ n \in 1 .. MaxAuctions
  BY <1>7, EditMade
<1>9. StaysInFlight(s, t, n, row)
  BY <1>2, <1>5, <1>8 DEF StaysInFlight
<1>10. StateOK(t) /\ Passage(s, t, b) /\ SameLife(s, t) /\ LifecycleLogs(s, t, b, <<>>) /\ MoneyLogs(s, t, b, <<>>)
  BY <1>9, EditKeeps
<1>11. /\ SameRows(s, t) /\ OtherRowBids(s, t, n) /\ BidsIn(t, n) = bids
       /\ AllocationsIn(t, n) = s.auctions[n].allocations
       /\ BidsIn(s, n) = s.auctions[n].bids /\ AllocationsIn(s, n) = s.auctions[n].allocations
  BY <1>5, <1>8, EditedRows
<1>12. AuctionLogs(s, t, b, <<e>>)
  <2>1. AddsBid(s, t, e, n)
    BY <1>3, <1>4, <1>8, <1>11 DEF AddsBid, BidOf
  <2> QED BY <2>1 DEF AuctionLogs
<1> QED BY <1>10, <1>11, <1>12, NoManager DEF Transits

LEMMA MinedBid ==
    ASSUME StateOK(contracts), Height \in Nat, NEW h \in Bidders, SubmitBid(h)
    PROVE  Mined
<1> DEFINE bids == Append(Auctions[N].bids, h)
           t == [contracts EXCEPT !.auctions[N].bids = bids]
           e == BidLog(N, bids, Len(bids))
<1>1. InFlight
  BY DEF SubmitBid
<1>2. Mine(<<>>, <<e>>, <<>>, t)
  BY DEF SubmitBid
<1>3. Bidding(contracts) /\ N = Latest(contracts) /\ Now \in Nat /\ Auctions = contracts.auctions
  BY <1>1, StateNow
<1>5. BidTo(contracts, t, N, h, bids) /\ h \in Holders
  BY <1>3, BondChainAssumption DEF BidTo
<1> HIDE DEF bids
<1>4. BidOf(At(e, 1), N, bids[Len(bids)], Len(bids))
  BY BidAt
<1> HIDE DEF e, t
<1>6. Transits(contracts, t, Now, <<>>, <<At(e, 1)>>, <<>>)
  BY <1>3, <1>4, <1>5, BidTransits
<1>7. Transits(contracts, t, Now, Placed(<<>>), Placed(<<e>>), Placed(<<>>))
  BY <1>6, PlacedOne, PlacedNone
<1> QED BY <1>2, <1>7, MinedBlock

\* cancelAuction
SameButOffering(r, u) ==
    /\ u.active = r.active /\ u.supply = r.supply /\ u.maturityDate = r.maturityDate
    /\ u.lastPayment = r.lastPayment /\ u.count = r.count /\ u.matured = r.matured /\ u.issued = r.issued
LEMMA OfferingPut ==
    ASSUME NEW r \in TermRows, NEW v \in Int, NEW u, u = [r EXCEPT !.offering = v]
    PROVE  u \in TermRows /\ u.offering = v /\ SameButOffering(r, u)
<1>1. u \in TermRows /\ u.offering = v
  BY DEF TermRows
<1>2. u.active = r.active /\ u.supply = r.supply /\ u.maturityDate = r.maturityDate /\ u.lastPayment = r.lastPayment
  BY DEF TermRows
<1>3. u.count = r.count /\ u.matured = r.matured /\ u.issued = r.issued
  BY DEF TermRows
<1> QED BY <1>1, <1>2, <1>3 DEF SameButOffering

CancelTo(s, t, n) == t = [s EXCEPT !.bond.offering = @ - Size, !.auctions[n].status = "cancelled"]
LEMMA CancelTransits ==
    ASSUME NEW s, NEW n, NEW t, NEW b \in Nat, NEW e, NEW f, StateOK(s), Bidding(s), n = Latest(s),
           CancelTo(s, t, n), LogOf(e, "BondAuctionCancelled", n, b), LogOf(f, "IsinReduced", s.bond.offering - Size, b)
    PROVE  Transits(s, t, b, <<e>>, <<>>, <<f>>)
<1> DEFINE row == [s.auctions[n] EXCEPT !.status = "cancelled"]
           bond == [s.bond EXCEPT !.offering = @ - Size]
<1>1. /\ StateTyped(s) /\ s.bond.active /\ (~Sold(s) => Unissued(s)) /\ RateFirst(s) /\ SupplyHeld(s)
      /\ (s.bond.matured => s.bond.count >= Periods) /\ Size \in Nat \ {0}
  BY BondChainAssumption DEF StateOK
<1>2. s.auctions[n] \in AuctionStates /\ s.auctions[n].status \in {"open", "closed"} /\ s.bond \in TermRows
      /\ s.bal \in [Owners -> Nat] /\ s = [bond |-> s.bond, auctions |-> s.auctions, bal |-> s.bal]
      /\ s.bond.offering \in Int
  BY <1>1, LatestRow
<1>3. row \in AuctionStates /\ row.type = s.auctions[n].type /\ row.status = "cancelled"
      /\ row.bids = s.auctions[n].bids /\ row.allocations = s.auctions[n].allocations
  BY <1>2 DEF AuctionStates
<1>4. bond \in TermRows /\ bond.offering = s.bond.offering - Size /\ SameButOffering(s.bond, bond)
  <2>1. s.bond.offering - Size \in Int /\ s.bond \in TermRows
    BY <1>1, <1>2
  <2> QED BY <2>1, OfferingPut
<1>5. t = [bond |-> bond, auctions |-> [s.auctions EXCEPT ![n] = row], bal |-> s.bal]
  BY <1>2 DEF CancelTo
<1> HIDE DEF row, bond
<1>6. EditTo(s, t, n, row, bond, s.bal)
  BY <1>1, <1>2, <1>3, <1>4, <1>5 DEF EditTo
<1>7. Edited(s, t, n, row) /\ StateTyped(t) /\ t.bond = bond /\ t.bal = s.bal /\ n \in 1 .. MaxAuctions
  BY <1>6, EditMade
<1>8. AuctionsGrow(s, t) /\ RateFirst(t) /\ (Sold(t) <=> Sold(s)) /\ ~Bidding(t)
  BY <1>1, <1>3, <1>7, EditedGrows
<1>9. ~Sold(t) => Unissued(t)
  BY <1>1, <1>4, <1>7, <1>8 DEF Unissued, SameButOffering
<1>10. StateOK(t)
  BY <1>1, <1>4, <1>7, <1>8, <1>9 DEF StateOK, SupplyHeld, SameButOffering
<1>11. BondPasses(s, t, b) /\ ~Deploys(s, t)
  BY <1>1, <1>4, <1>7, TermsKept DEF SameButOffering
<1>12. /\ RowBecomes(s, t, n, TypeIn(s, n), "cancelled") /\ SameRowBids(s, t)
  BY <1>3, <1>7, EditedRows
<1>13. SameLife(s, t) /\ SameHoldings(s, t)
  BY <1>4, <1>7 DEF SameLife, SameHoldings, SameButOffering
<1>14. ManagerLogs(s, t, b, <<e>>)
  <2>1. StatusAfter(e.event) = "cancelled" /\ e.event = "BondAuctionCancelled" /\ e.v = n /\ Places(e)
    BY DEF LogOf, StatusAfter
  <2>2. ChangedLogs(s, t, <<e>>, e, n)
    BY <1>7, <1>12, <1>13, <2>1 DEF ChangedLogs
  <2> QED BY <2>2 DEF ManagerLogs
<1>15. LifecycleLogs(s, t, b, <<f>>)
  <2>1. t.bond.maturityDate \in Int
    BY <1>4, <1>7 DEF TermRows, SameButOffering
  <2>2. f.event \in OfferingEvents /\ f.v = s.bond.offering - Size
    BY DEF LogOf, OfferingEvents
  <2>3. OfferLogs(s, t, <<f>>, f)
    BY <1>1, <1>2, <1>4, <1>7, <2>1, <2>2 DEF OfferLogs, Offers, SameButOffering
  <2> QED BY <2>3 DEF LifecycleLogs
<1>16. MoneyLogs(s, t, b, <<f>>)
  <2>1. Counted(f, b) /\ \A a \in Accounts : Gain(f, a) = 0
    BY LogCounted
  <2>2. Unmoving(<<f>>, b)
    BY <2>1 DEF Unmoving
  <2> QED BY <1>1, <1>13, <2>2, MoneyStill
<1> QED BY <1>8, <1>10, <1>11, <1>12, <1>14, <1>15, <1>16, NoAuction DEF Transits, Passage

LEMMA MinedCancel ==
    ASSUME StateOK(contracts), Height \in Nat, Cancel
    PROVE  Mined
<1> DEFINE t == [contracts EXCEPT !.bond.offering = @ - Size, !.auctions[N].status = "cancelled"]
           e == Log("BondAuctionCancelled", N)
           f == Log("IsinReduced", Bond.offering - Size)
<1>1. InFlight
  BY DEF Cancel
<1>2. Mine(<<e>>, <<>>, <<f>>, t)
  BY DEF Cancel
<1>3. Bidding(contracts) /\ N = Latest(contracts) /\ Now \in Nat
  BY <1>1, StateNow
<1>4. LogOf(At(e, 1), "BondAuctionCancelled", N, Now) /\ LogOf(At(f, 1), "IsinReduced", contracts.bond.offering - Size, Now)
  BY LogAt DEF Bond
<1> HIDE DEF e, f
<1>c. CancelTo(contracts, t, N)
  BY DEF CancelTo
<1> HIDE DEF t
<1>5. Transits(contracts, t, Now, <<At(e, 1)>>, <<>>, <<At(f, 1)>>)
  BY <1>3, <1>4, <1>c, CancelTransits
<1>6. Transits(contracts, t, Now, Placed(<<e>>), Placed(<<>>), Placed(<<f>>))
  BY <1>5, PlacedOne, PlacedNone
<1> QED BY <1>2, <1>6, MinedBlock

-----------------------------------------------------------------------------
(* Transactions that create, disable and open                               *)

\* A log that moves nothing
LEMMA MoneyOfLog ==
    ASSUME NEW s, NEW t, NEW b \in Int, NEW e, NEW event, NEW v, LogOf(e, event, v, b), event # "TransferByPartition",
           StateTyped(s), SameHoldings(s, t)
    PROVE  MoneyLogs(s, t, b, <<e>>)
<1>1. Counted(e, b) /\ \A a \in Accounts : Gain(e, a) = 0
  BY LogCounted
<1>2. Unmoving(<<e>>, b)
  BY <1>1 DEF Unmoving
<1> QED BY <1>2, MoneyStill

LEMMA MoneyOfTwo ==
    ASSUME NEW s, NEW t, NEW b \in Int, NEW e, NEW v, LogOf(e, "IsinIssued", v, b),
           NEW f, NEW w, LogOf(f, "IsinExtended", w, b), StateTyped(s), SameHoldings(s, t)
    PROVE  MoneyLogs(s, t, b, <<e, f>>)
<1>1. Counted(e, b) /\ \A a \in Accounts : Gain(e, a) = 0
  BY LogCounted
<1>2. Counted(f, b) /\ \A a \in Accounts : Gain(f, a) = 0
  BY LogCounted
<1>3. Len(<<e, f>>) = 2 /\ <<e, f>>[1] = e /\ <<e, f>>[2] = f /\ \A k \in 1 .. 2 : k = 1 \/ k = 2
  OBVIOUS
<1>4. Unmoving(<<e, f>>, b)
  BY <1>1, <1>2, <1>3 DEF Unmoving
<1> QED BY <1>4, MoneyStill

\* The state with other terms of the bond
TermsTo(s, t, bond) ==
    StateTyped(s) /\ bond \in TermRows /\ t = [bond |-> bond, auctions |-> s.auctions, bal |-> s.bal]

LEMMA TermsMade ==
    ASSUME NEW s, NEW t, NEW bond, TermsTo(s, t, bond)
    PROVE  t \in ContractStates /\ StateTyped(t) /\ t.bond = bond /\ t.auctions = s.auctions /\ t.bal = s.bal
<1>1. s \in ContractStates /\ Latest(s) <= MaxAuctions
  BY DEF TermsTo, StateTyped
<1>2. t \in ContractStates /\ t.bond = bond /\ t.auctions = s.auctions /\ t.bal = s.bal
  BY <1>1 DEF TermsTo, ContractStates
<1> QED BY <1>1, <1>2 DEF StateTyped, Latest

LEMMA TypedParts ==
    ASSUME NEW s, StateTyped(s)
    PROVE  /\ s.bond \in TermRows /\ s.bal \in [Owners -> Nat] /\ s.auctions \in Seq(AuctionStates)
           /\ s = [bond |-> s.bond, auctions |-> s.auctions, bal |-> s.bal]
           /\ s.bond.offering \in Int /\ s.bond.supply \in Nat /\ s.bond.count \in Nat /\ s.bond.maturityDate \in Nat
BY DEF StateTyped, ContractStates, TermRows

\* createPartition, of an inactive bond
SameButActive(r, u) ==
    /\ u.offering = r.offering /\ u.supply = r.supply /\ u.maturityDate = r.maturityDate
    /\ u.lastPayment = r.lastPayment /\ u.count = r.count /\ u.matured = r.matured /\ u.issued = r.issued
LEMMA ActivePut ==
    ASSUME NEW r \in TermRows, NEW u, u = [r EXCEPT !.active = TRUE]
    PROVE  u \in TermRows /\ u.active /\ SameButActive(r, u)
<1>1. u \in TermRows /\ u.active
  BY DEF TermRows
<1>2. u.offering = r.offering /\ u.supply = r.supply /\ u.maturityDate = r.maturityDate /\ u.lastPayment = r.lastPayment
  BY DEF TermRows
<1>3. u.count = r.count /\ u.matured = r.matured /\ u.issued = r.issued
  BY DEF TermRows
<1> QED BY <1>1, <1>2, <1>3 DEF SameButActive

CreateTo(s, t) == t = [s EXCEPT !.bond.active = TRUE]
LEMMA CreationMade ==
    ASSUME NEW s, NEW t, StateOK(s), ~s.bond.active, CreateTo(s, t)
    PROVE  /\ StateOK(t) /\ t.bond.active /\ SameButActive(s.bond, t.bond) /\ t.auctions = s.auctions /\ t.bal = s.bal
           /\ ~Sold(t) /\ ~Bidding(t) /\ Unissued(s)
<1> DEFINE bond == [s.bond EXCEPT !.active = TRUE]
<1>1. /\ StateTyped(s) /\ ~Sold(s) /\ ~Bidding(s) /\ Unissued(s) /\ RateFirst(s) /\ SupplyHeld(s)
      /\ (s.bond.matured => s.bond.count >= Periods)
  BY DEF StateOK
<1>2. s.bond \in TermRows /\ s = [bond |-> s.bond, auctions |-> s.auctions, bal |-> s.bal]
  BY <1>1, TypedParts
<1>3. bond \in TermRows /\ bond.active /\ SameButActive(s.bond, bond)
  BY <1>2, ActivePut
<1>4. t = [bond |-> bond, auctions |-> s.auctions, bal |-> s.bal]
  BY <1>2 DEF CreateTo
<1> HIDE DEF bond
<1>5. StateTyped(t) /\ t.bond = bond /\ t.auctions = s.auctions /\ t.bal = s.bal
  BY <1>1, <1>3, <1>4, TermsMade DEF TermsTo
<1>6. ~Sold(t) /\ ~Bidding(t) /\ RateFirst(t)
  BY <1>1, <1>5, SameAuctionStates
<1>7. Unissued(t)
  BY <1>1, <1>3, <1>5, <1>6 DEF Unissued, SameButActive
<1>8. StateOK(t)
  BY <1>1, <1>3, <1>5, <1>6, <1>7 DEF StateOK, SupplyHeld, SameButActive
<1> QED BY <1>1, <1>3, <1>5, <1>6, <1>8

\* What the creation of a bond under a free ISIN does
LEMMA CreationPasses ==
    ASSUME NEW s, NEW t, NEW b, StateOK(s), ~s.bond.active, t.bond.active, ~Sold(t), Unissued(s), Unissued(t)
    PROVE  BondPasses(s, t, b) /\ Deploys(s, t)
BY DEF BondPasses, Deploys, Enables, Unissued

LEMMA DeployTransits ==
    ASSUME NEW s, NEW t, NEW b \in Nat, NEW e, NEW f, StateOK(s), ~s.bond.active, CreateTo(s, t),
           LogOf(e, "BondCreated", 0, b), LogOf(f, "IsinIssued", 0, b)
    PROVE  Transits(s, t, b, <<e>>, <<>>, <<f>>)
<1>1. /\ StateOK(t) /\ t.bond.active /\ SameButActive(s.bond, t.bond) /\ t.auctions = s.auctions /\ t.bal = s.bal
      /\ ~Sold(t) /\ ~Bidding(t) /\ Unissued(s)
  BY CreationMade
<1>2. StateTyped(s) /\ StateTyped(t) /\ Unissued(t)
  BY <1>1 DEF StateOK
<1>3. SameRows(s, t) /\ SameRowBids(s, t) /\ AuctionsGrow(s, t)
  BY <1>1, <1>2, SameAuctionStates
<1>4. BondPasses(s, t, b) /\ Deploys(s, t)
  BY <1>1, <1>2, CreationPasses
<1>5. ManagerLogs(s, t, b, <<e>>)
  <2>1. DeployLogs(s, t, <<e>>, e)
    BY <1>3, <1>4 DEF DeployLogs, LogOf
  <2> QED BY <2>1 DEF ManagerLogs
<1>6. LifecycleLogs(s, t, b, <<f>>)
  <2>1. t.bond.maturityDate = s.bond.maturityDate /\ t.bond.offering = 0 /\ t.bond.maturityDate \in Int
    BY <1>1, <1>2 DEF SameButActive, Unissued
  <2>2. f.event \in OfferingEvents /\ f.v = 0
    BY DEF LogOf, OfferingEvents
  <2>3. OfferLogs(s, t, <<f>>, f)
    BY <2>1, <2>2 DEF OfferLogs, Offers
  <2> QED BY <2>3 DEF LifecycleLogs
<1>7. MoneyLogs(s, t, b, <<f>>)
  <2>1. SameHoldings(s, t)
    BY <1>1 DEF SameHoldings, SameButActive
  <2> QED BY <1>2, <2>1, MoneyOfLog
<1> QED BY <1>1, <1>3, <1>4, <1>5, <1>6, <1>7, NoAuction DEF Transits, Passage

LEMMA MinedDeploy ==
    ASSUME StateOK(contracts), Height \in Nat, Deploy
    PROVE  Mined
<1> DEFINE e == Log("BondCreated", 0)
           f == Log("IsinIssued", 0)
<1>1. ~contracts.bond.active
  BY DEF Deploy, Bond
<1>2. Mine(<<e>>, <<>>, <<f>>, Created)
  BY DEF Deploy, Issued
<1>3. Now \in Nat
  BY StateNow
<1>4. LogOf(At(e, 1), "BondCreated", 0, Now) /\ LogOf(At(f, 1), "IsinIssued", 0, Now)
  BY LogAt
<1> HIDE DEF e, f
<1>5. CreateTo(contracts, Created)
  BY DEF CreateTo, Created
<1>6. Transits(contracts, Created, Now, <<At(e, 1)>>, <<>>, <<At(f, 1)>>)
  BY <1>1, <1>3, <1>4, <1>5, DeployTransits
<1>7. Transits(contracts, Created, Now, Placed(<<e>>), Placed(<<>>), Placed(<<f>>))
  BY <1>6, PlacedOne, PlacedNone
<1> QED BY <1>2, <1>7, MinedBlock

\* disableBond
DisableTo(s, t) == t = [s EXCEPT !.bond = NewBond]
LEMMA DisableTransits ==
    ASSUME NEW s, NEW t, NEW b \in Nat, NEW e, NEW f, StateOK(s), s.bond.active, ~Sold(s), ~Bidding(s), DisableTo(s, t),
           LogOf(e, "BondDisabled", 0, b), LogOf(f, "IsinDisabled", 0, b)
    PROVE  Transits(s, t, b, <<e>>, <<>>, <<f>>)
<1>1. /\ StateTyped(s) /\ Unissued(s) /\ RateFirst(s) /\ SupplyHeld(s)
  BY DEF StateOK
<1>2. s = [bond |-> s.bond, auctions |-> s.auctions, bal |-> s.bal]
  BY <1>1, TypedParts
<1>3. NewBond \in TermRows /\ NewBond.active = FALSE /\ NewBond.offering = 0 /\ NewBond.supply = 0 /\ NewBond.count = 0
      /\ NewBond.maturityDate = 0 /\ NewBond.lastPayment = 0 /\ NewBond.matured = FALSE /\ NewBond.issued = FALSE
  BY DEF NewBond, TermRows
<1>4. t = [bond |-> NewBond, auctions |-> s.auctions, bal |-> s.bal]
  BY <1>2 DEF DisableTo
<1>5. StateTyped(t) /\ t.bond = NewBond /\ t.auctions = s.auctions /\ t.bal = s.bal
  BY <1>1, <1>3, <1>4, TermsMade DEF TermsTo
<1>6. SameRows(s, t) /\ SameRowBids(s, t) /\ AuctionsGrow(s, t) /\ ~Sold(t) /\ ~Bidding(t) /\ RateFirst(t)
  BY <1>1, <1>5, SameAuctionStates
<1>7. Unissued(t)
  BY <1>3, <1>5, <1>6 DEF Unissued
<1>8. StateOK(t)
  BY <1>1, <1>3, <1>5, <1>6, <1>7 DEF StateOK, SupplyHeld, Unissued
<1>9. BondPasses(s, t, b) /\ ~Deploys(s, t)
  BY <1>1, <1>7, <1>3, <1>5 DEF BondPasses, Deploys, Enables, Unissued
<1>10. ManagerLogs(s, t, b, <<e>>)
  <2>1. ~t.bond.active /\ t.bond.count = s.bond.count /\ t.bond.matured = s.bond.matured /\ t.bond.issued = s.bond.issued
    BY <1>1, <1>3, <1>5 DEF Unissued
  <2>2. DisabledLogs(s, t, <<e>>, e)
    BY <1>6, <2>1 DEF DisabledLogs, LogOf
  <2> QED BY <2>2 DEF ManagerLogs
<1>11. LifecycleLogs(s, t, b, <<f>>)
  <2>1. DisableLifeLogs(s, t, <<f>>, f)
    BY <1>1, <1>3, <1>5, <1>9 DEF DisableLifeLogs, LogOf, Unissued
  <2> QED BY <2>1 DEF LifecycleLogs
<1>12. MoneyLogs(s, t, b, <<f>>)
  <2>1. SameHoldings(s, t)
    BY <1>1, <1>3, <1>5 DEF SameHoldings, Unissued
  <2> QED BY <1>1, <2>1, MoneyOfLog
<1> QED BY <1>6, <1>8, <1>9, <1>10, <1>11, <1>12, NoAuction DEF Transits, Passage

LEMMA MinedDisable ==
    ASSUME StateOK(contracts), Height \in Nat, Disable
    PROVE  Mined
<1> DEFINE e == Log("BondDisabled", 0)
           f == Log("IsinDisabled", 0)
           t == [contracts EXCEPT !.bond = NewBond]
<1>1. contracts.bond.active /\ ~InFlight /\ \A n \in 1 .. N : Auctions[n].status # "finalised"
  BY DEF Disable, Bond
<1>2. Mine(<<e>>, <<>>, <<f>>, t)
  BY DEF Disable
<1>3. /\ Now \in Nat /\ ~Bidding(contracts) /\ N = Latest(contracts) /\ Auctions = contracts.auctions
      /\ StateTyped(contracts)
  BY <1>1, StateNow
<1>4. ~Sold(contracts)
  <2>1. DOMAIN contracts.auctions = 1 .. N
    BY <1>3, AuctionsTyped
  <2> QED BY <1>1, <1>3, <2>1 DEF Sold
<1>5. LogOf(At(e, 1), "BondDisabled", 0, Now) /\ LogOf(At(f, 1), "IsinDisabled", 0, Now)
  BY LogAt
<1>6. DisableTo(contracts, t)
  BY DEF DisableTo
<1> HIDE DEF e, f, t
<1>7. Transits(contracts, t, Now, <<At(e, 1)>>, <<>>, <<At(f, 1)>>)
  BY <1>1, <1>3, <1>4, <1>5, <1>6, DisableTransits
<1>8. Transits(contracts, t, Now, Placed(<<e>>), Placed(<<>>), Placed(<<f>>))
  BY <1>7, PlacedOne, PlacedNone
<1> QED BY <1>2, <1>8, MinedBlock

\* createAuction, with the bids that share its block
RowOpened(row, type, bids) == row.type = type /\ row.status = "open" /\ row.bids = bids /\ row.allocations = <<>>
OpensWith(logs, n, type, bids) ==
    \/ bids = <<>> /\ \E e : logs = <<e>> /\ CreationOf(e, n, type)
    \/ \E h, e, f : h \in Holders /\ bids = <<h>> /\ logs = <<e, f>> /\ CreationOf(e, n, type) /\ BidOf(f, n, h, 1)

LEMMA Joined ==
    ASSUME NEW e, NEW f
    PROVE  <<e>> \o <<f>> = <<e, f>>
<1> DEFINE S == {e, f}
<1>1. e \in S /\ f \in S
  OBVIOUS
<1> HIDE DEF S
<1>2. <<e>> \in Seq(S) /\ <<f>> \in Seq(S) /\ <<e, f>> \in Seq(S)
  BY <1>1
<1>3. /\ <<e>> \o <<f>> \in Seq(S) /\ Len(<<e>> \o <<f>>) = Len(<<e>>) + Len(<<f>>)
      /\ \A i \in 1 .. Len(<<e>>) + Len(<<f>>) :
           (<<e>> \o <<f>>)[i] = IF i <= Len(<<e>>) THEN <<e>>[i] ELSE <<f>>[i - Len(<<e>>)]
  BY <1>2, ConcatProperties
<1>4. Len(<<e>>) = 1 /\ Len(<<f>>) = 1 /\ Len(<<e, f>>) = 2 /\ <<e>>[1] = e /\ <<f>>[1] = f
      /\ <<e, f>>[1] = e /\ <<e, f>>[2] = f
  OBVIOUS
<1>5. Len(<<e>> \o <<f>>) = Len(<<e, f>>) /\ \A i \in 1 .. 2 : (<<e>> \o <<f>>)[i] = <<e, f>>[i]
  <2>1. \A i \in 1 .. 2 : i = 1 \/ i = 2
    OBVIOUS
  <2>2. (<<e>> \o <<f>>)[1] = e /\ (<<e>> \o <<f>>)[2] = f
    BY <1>3, <1>4
  <2> QED BY <1>3, <1>4, <2>1, <2>2
<1>6. Len(<<e>> \o <<f>>) = 2
  BY <1>3, <1>4
<1> QED BY <1>2, <1>3, <1>5, <1>6, SeqEqual

LEMMA OpeningPlaced ==
    ASSUME NEW n, NEW type, NEW bids \in BidLists
    PROVE  OpensWith(Placed(Opening(n, type, bids)), n, type, bids)
<1> DEFINE e == [Log("AuctionCreated", n) EXCEPT !.type = type]
           rest == [k \in DOMAIN bids |-> BidLog(n, bids, k)]
<1>1. CreationOf(At(e, 1), n, type)
  BY CreatedAt
<1>2. Opening(n, type, bids) = <<e>> \o rest
  BY DEF Opening
<1> HIDE DEF e, rest
<1>3. CASE bids = <<>>
  <2>1. rest = <<>>
    BY <1>3 DEF rest
  <2>2. Opening(n, type, bids) = <<e>>
    BY <1>2, <2>1
  <2>3. Placed(Opening(n, type, bids)) = <<At(e, 1)>>
    BY <2>2, PlacedOne
  <2> QED BY <1>1, <1>3, <2>3 DEF OpensWith
<1>4. ASSUME NEW h \in Bidders, bids = <<h>> PROVE OpensWith(Placed(Opening(n, type, bids)), n, type, bids)
  <2> DEFINE f == BidLog(n, bids, 1)
  <2>1. BidOf(At(f, 2), n, bids[1], 1)
    BY BidAt
  <2> HIDE DEF f
  <2>2. bids[1] = h /\ DOMAIN bids = 1 .. 1 /\ Len(bids) = 1
    BY <1>4
  <2>3. rest = <<f>>
    <3> DEFINE g == [k \in 1 .. 1 |-> BidLog(n, bids, k)]
    <3>1. DOMAIN g = 1 .. 1 /\ g[1] = f
      BY DEF f
    <3>2. g = <<g[1]>>
      OBVIOUS
    <3> QED BY <2>2, <3>1, <3>2 DEF rest
  <2>4. Opening(n, type, bids) = <<e, f>>
    <3>1. <<e>> \o <<f>> = <<e, f>>
      BY Joined
    <3>2. Opening(n, type, bids) = <<e>> \o <<f>>
      BY Zenon, <1>2, <2>3
    <3> QED BY <3>1, <3>2
  <2>5. Placed(Opening(n, type, bids)) = <<At(e, 1), At(f, 2)>>
    BY <2>4, PlacedTwo
  <2>6. BidOf(At(f, 2), n, h, 1) /\ h \in Holders
    BY <2>1, <2>2, BondChainAssumption
  <2> QED BY <1>1, <1>4, <2>5, <2>6 DEF OpensWith
<1> QED BY <1>3, <1>4 DEF BidLists

LEMMA BidListsTyped ==
    ASSUME NEW bids \in BidLists
    PROVE  bids \in Seq(Holders)
<1>1. Bidders \subseteq Holders
  BY BondChainAssumption
<1>2. <<>> \in Seq(Holders) /\ \A h \in Holders : <<h>> \in Seq(Holders)
  OBVIOUS
<1> QED BY <1>1, <1>2 DEF BidLists

LEMMA OpeningLogs ==
    ASSUME NEW s, NEW t, NEW n, NEW row, NEW type \in {"RATE", "PRICE", "BUYBACK"}, NEW bids, NEW b, NEW logs,
           Added(s, t, n, row), RowOpened(row, type, bids), OpensWith(logs, n, type, bids)
    PROVE  AuctionLogs(s, t, b, logs)
<1>1. n \in 1 .. MaxAuctions /\ n \in DOMAIN t.auctions
  BY AddedSeq
<1>2. /\ TypeIn(t, n) = type /\ OtherRowBids(s, t, n) /\ BidsIn(t, n) = bids /\ AllocationsIn(t, n) = <<>>
      /\ BidsIn(s, n) = <<>> /\ AllocationsIn(s, n) = <<>>
  BY AddedRows DEF RowOpened
<1>3. ASSUME NEW e, CreationOf(e, n, type) PROVE CreatesRow(t, e, n)
  BY <1>1, <1>2, <1>3 DEF CreatesRow, CreationOf, Types
<1>4. CASE bids = <<>> /\ \E e : logs = <<e>> /\ CreationOf(e, n, type)
  <2>1. PICK e : logs = <<e>> /\ CreationOf(e, n, type)
    BY <1>4
  <2>2. SameRowBids(s, t)
    BY <1>2, <1>4 DEF SameRowBids, OtherRowBids
  <2>3. CreatesRow(t, e, n)
    BY <1>3, <2>1
  <2> QED BY <2>1, <2>2, <2>3 DEF AuctionLogs
<1>5. ASSUME NEW h \in Holders, NEW e, NEW f,
             bids = <<h>>, logs = <<e, f>>, CreationOf(e, n, type), BidOf(f, n, h, 1)
      PROVE  AuctionLogs(s, t, b, logs)
  <2>1. CreatesRow(t, e, n)
    BY <1>3, <1>5
  <2>2. <<>> \in Seq(Holders) /\ Len(<<>>) = 0 /\ Append(<<>>, h) = <<h>>
    OBVIOUS
  <2>3. f.event = "BidSubmitted" /\ f.v = n /\ f.bid = Len(BidsIn(s, n)) + 1 /\ f.from = h
    BY <1>2, <1>5, <2>2 DEF BidOf
  <2>4. BidsIn(s, n) \in Seq(Holders) /\ BidsIn(t, n) = Append(BidsIn(s, n), f.from)
        /\ AllocationsIn(t, n) = AllocationsIn(s, n)
    BY <1>2, <1>5, <2>2, <2>3
  <2>5. AddsBid(s, t, f, n)
    BY <1>1, <1>2, <2>3, <2>4 DEF AddsBid
  <2> QED BY <1>5, <2>1, <2>5 DEF AuctionLogs
<1> QED BY <1>4, <1>5 DEF OpensWith

\* What may be opened in s
MayOpen(s, type, bids) ==
    /\ StateOK(s) /\ ~Bidding(s) /\ s.bond.active /\ Latest(s) < MaxAuctions /\ bids \in BidLists
    /\ type \in {"RATE", "PRICE", "BUYBACK"} /\ (type = "RATE" => Latest(s) = 0)
    /\ type = "BUYBACK" => Size <= s.bond.supply
OpenTo(s, t, type, bids) == t = Scheduled(s, type, bids)
Grown(s, type) == IF type = "BUYBACK" THEN s.bond.offering ELSE s.bond.offering + Size

Opened1(s, t, n, row, type, bids) ==
    /\ Added(s, t, n, row) /\ RowOpened(row, type, bids) /\ StateOK(t)
    /\ t.bond.offering = Grown(s, type) /\ SameButOffering(s.bond, t.bond) /\ t.bal = s.bal

LEMMA OpeningMade ==
    ASSUME NEW s, NEW t, NEW type, NEW bids, MayOpen(s, type, bids), OpenTo(s, t, type, bids)
    PROVE  \E n, row : n = Latest(s) + 1 /\ Opened1(s, t, n, row, type, bids)
<1> DEFINE row == [type |-> type, status |-> "open", bids |-> bids, allocations |-> <<>>]
           bond == [s.bond EXCEPT !.offering = Grown(s, type)]
           n == Latest(s) + 1
<1>1. /\ StateOK(s) /\ ~Bidding(s) /\ s.bond.active /\ Latest(s) < MaxAuctions /\ bids \in BidLists
      /\ type \in {"RATE", "PRICE", "BUYBACK"} /\ (type = "RATE" => Latest(s) = 0)
      /\ (type = "BUYBACK" => Size <= s.bond.supply) /\ Size \in Nat \ {0} /\ MaxAuctions \in Nat
  BY BondChainAssumption DEF MayOpen
<1>2. /\ StateTyped(s) /\ RateFirst(s) /\ SupplyHeld(s) /\ (s.bond.matured => s.bond.count >= Periods)
      /\ (~Sold(s) => Unissued(s))
  BY <1>1 DEF StateOK
<1>3. /\ s.bond \in TermRows /\ s = [bond |-> s.bond, auctions |-> s.auctions, bal |-> s.bal] /\ s.bond.offering \in Int
      /\ Latest(s) \in Nat
  BY <1>2, TypedParts, AuctionsTyped
<1>4. row \in AuctionStates /\ RowOpened(row, type, bids)
  <2>1. bids \in Seq(Holders) /\ <<>> \in Seq([bidder : Holders, units : Nat])
    BY <1>1, BidListsTyped
  <2> QED BY <1>1, <2>1 DEF AuctionStates, RowOpened
<1>5. bond \in TermRows /\ bond.offering = Grown(s, type) /\ SameButOffering(s.bond, bond)
  <2>1. Grown(s, type) \in Int
    BY <1>1, <1>3 DEF Grown
  <2> QED BY <1>3, <2>1, OfferingPut
<1>6. t = [bond |-> bond, auctions |-> Append(s.auctions, row), bal |-> s.bal]
  <2>1. ExtendedOffering(s, type) = Grown(s, type)
    BY <1>1, <1>3 DEF ExtendedOffering, Grown
  <2>2. t = [s EXCEPT !.bond.offering = Grown(s, type), !.auctions = Append(s.auctions, row)]
    BY <2>1 DEF OpenTo, Scheduled
  <2> QED BY <1>3, <2>2
<1> HIDE DEF row, bond, n
<1>n. n = Latest(s) + 1 /\ n \in Nat /\ n <= MaxAuctions
  BY <1>1, <1>3 DEF n
<1>7. Added(s, t, n, row) /\ t.bond = bond /\ t.bal = s.bal
  BY <1>2, <1>4, <1>6, <1>n DEF Added, RowOpened
<1>8. t.auctions \in Seq(AuctionStates) /\ Latest(t) = n /\ t.auctions[n] = row
  BY <1>7, AddedSeq
<1>9. t \in ContractStates
  BY <1>2, <1>5, <1>6, <1>8 DEF ContractStates, StateTyped
<1>10. (Sold(t) <=> Sold(s)) /\ Bidding(t) /\ RateFirst(t)
  <2>1. row.type = type /\ (type = "RATE" => n = 1)
    BY <1>1, <1>4, <1>n DEF RowOpened
  <2> QED BY <1>2, <1>7, <2>1, AddedGrows
<1>11. ~Sold(t) => Unissued(t)
  <2> SUFFICES ASSUME ~Sold(t) PROVE Unissued(t)
    OBVIOUS
  <2>1. Unissued(s)
    BY <1>2, <1>10
  <2>2. type # "BUYBACK" /\ s.bond.offering = 0
    BY <1>1, <2>1 DEF Unissued
  <2>3. bond.offering = Size /\ row.type # "BUYBACK"
    BY <1>1, <1>4, <1>5, <2>2 DEF Grown, RowOpened
  <2>4. t.bond.offering = Size /\ t.auctions[Latest(t)].type # "BUYBACK"
    BY <1>7, <1>8, <2>3
  <2> QED BY <1>5, <1>7, <1>10, <2>1, <2>4 DEF Unissued, SameButOffering
<1>12. StateOK(t)
  <2>1. StateTyped(t)
    BY <1>8, <1>9, <1>n DEF StateTyped
  <2>2. t.bond.active /\ (t.bond.matured => t.bond.count >= Periods) /\ SupplyHeld(t)
    BY <1>1, <1>2, <1>5, <1>7 DEF SameButOffering, SupplyHeld
  <2> QED BY <1>10, <1>11, <2>1, <2>2 DEF StateOK
<1>13. Opened1(s, t, n, row, type, bids)
  BY <1>4, <1>5, <1>7, <1>12 DEF Opened1
<1> QED BY <1>13, <1>n

\* deployAuctionForBond
TokenOpens(s, token, type, b) ==
    IF type = "BUYBACK" THEN token = <<>>
                        ELSE \E f : token = <<f>> /\ LogOf(f, "IsinExtended", s.bond.offering + Size, b)

LEMMA ScheduleTransits ==
    ASSUME NEW s, NEW t, NEW b \in Nat, NEW type, NEW bids, MayOpen(s, type, bids), OpenTo(s, t, type, bids),
           NEW e, LogOf(e, Initialised[type], Latest(s) + 1, b), NEW logs, OpensWith(logs, Latest(s) + 1, type, bids),
           NEW token, TokenOpens(s, token, type, b)
    PROVE  Transits(s, t, b, <<e>>, logs, token)
<1>1. PICK n, row : n = Latest(s) + 1 /\ Opened1(s, t, n, row, type, bids)
  BY OpeningMade
<1>2. /\ Added(s, t, n, row) /\ RowOpened(row, type, bids) /\ StateOK(t)
      /\ t.bond.offering = Grown(s, type) /\ SameButOffering(s.bond, t.bond) /\ t.bal = s.bal
  BY <1>1 DEF Opened1
<1>3. StateOK(s) /\ StateTyped(s) /\ s.bond.active /\ type \in {"RATE", "PRICE", "BUYBACK"} /\ StateTyped(t)
  BY <1>2 DEF MayOpen, StateOK
<1>4. n \in 1 .. MaxAuctions /\ RowBecomes(s, t, n, type, "open") /\ TypeIn(s, n) = "none"
  <2>1. row.type = type
    BY <1>2 DEF RowOpened
  <2> QED BY <1>2, <2>1, AddedSeq, AddedRows
<1>5. AuctionsGrow(s, t)
  BY <1>2, AddedGrows
<1>6. BondPasses(s, t, b) /\ ~Deploys(s, t) /\ SameLife(s, t) /\ SameHoldings(s, t)
  BY <1>2, <1>3, TermsKept DEF SameButOffering, SameLife, SameHoldings
<1>7. ManagerLogs(s, t, b, <<e>>)
  <2>1. OpenLogs(s, t, e, type, n)
    BY <1>1, <1>3, <1>4 DEF OpenLogs, LogOf
  <2>2. OpenedLogs(s, t, <<e>>, e, type, n)
    BY <1>3, <1>6, <2>1 DEF OpenedLogs
  <2> QED BY <2>2 DEF ManagerLogs
<1>8. AuctionLogs(s, t, b, logs)
  BY <1>1, <1>2, <1>3, OpeningLogs
<1>9. t.bond.maturityDate = s.bond.maturityDate /\ t.bond.maturityDate \in Int
  BY <1>2, <1>3, TypedParts DEF SameButOffering
<1>10. LifecycleLogs(s, t, b, token) /\ MoneyLogs(s, t, b, token)
  <2>1. CASE type = "BUYBACK"
    <3>1. token = <<>> /\ SameTerms(s, t)
      BY <1>2, <1>6, <1>9, <2>1 DEF TokenOpens, Grown, SameTerms
    <3> QED BY <1>3, <1>6, <3>1, NoToken
  <2>2. CASE type # "BUYBACK"
    <3>1. PICK f : token = <<f>> /\ LogOf(f, "IsinExtended", s.bond.offering + Size, b)
      BY <2>2 DEF TokenOpens
    <3>2. s.bond.offering + Size \in Int
      BY <1>3, TypedParts, BondChainAssumption
    <3>3. OfferLogs(s, t, <<f>>, f)
      BY <1>2, <1>9, <2>2, <3>1, <3>2 DEF OfferLogs, Offers, LogOf, OfferingEvents, Grown
    <3>4. LifecycleLogs(s, t, b, <<f>>)
      BY <3>3 DEF LifecycleLogs
    <3>5. MoneyLogs(s, t, b, <<f>>)
      BY <1>3, <1>6, <3>1, MoneyOfLog
    <3> QED BY <3>1, <3>4, <3>5
  <2> QED BY <2>1, <2>2
<1> QED BY <1>2, <1>5, <1>6, <1>7, <1>8, <1>10 DEF Transits, Passage

LEMMA MinedSchedule ==
    ASSUME StateOK(contracts), Height \in Nat, NEW type \in {"RATE", "PRICE", "BUYBACK"}, NEW bids \in BidLists,
           Schedule(type, bids)
    PROVE  Mined
<1> DEFINE e == Log(Initialised[type], N + 1)
           t == Scheduled(contracts, type, bids)
           token == Extended(contracts, type)
           logs == Opening(N + 1, type, bids)
<1>1. /\ Bond.active /\ ~InFlight /\ N < MaxAuctions
      /\ (IF N = 0 THEN type = "RATE" ELSE type \in {"PRICE", "BUYBACK"})
      /\ (type = "BUYBACK" => Size <= Bond.supply)
  BY DEF Schedule
<1>2. Mine(<<e>>, logs, token, t)
  BY DEF Schedule
<1>3. Bond = contracts.bond /\ N = Latest(contracts) /\ ~Bidding(contracts) /\ Now \in Nat /\ StateTyped(contracts)
  BY <1>1, StateNow
<1>4. MayOpen(contracts, type, bids)
  BY <1>1, <1>3 DEF MayOpen
<1>5. OpenTo(contracts, t, type, bids)
  BY DEF OpenTo
<1>6. LogOf(At(e, 1), Initialised[type], N + 1, Now)
  BY LogAt
<1>7. OpensWith(Placed(logs), N + 1, type, bids)
  BY OpeningPlaced
<1>8. TokenOpens(contracts, Placed(token), type, Now)
  <2>1. CASE type = "BUYBACK"
    <3>1. token = <<>>
      BY <2>1 DEF Extended
    <3> QED BY <2>1, <3>1, PlacedNone DEF TokenOpens
  <2>2. CASE type # "BUYBACK"
    <3> DEFINE f == Log("IsinExtended", contracts.bond.offering + Size)
    <3>1. token = <<f>>
      <4>1. ExtendedOffering(contracts, type) = contracts.bond.offering + Size
        BY <2>2 DEF ExtendedOffering
      <4> QED BY <2>2, <4>1 DEF Extended
    <3>2. LogOf(At(f, 1), "IsinExtended", contracts.bond.offering + Size, Now)
      BY LogAt
    <3> HIDE DEF f
    <3>3. Placed(token) = <<At(f, 1)>>
      BY <3>1, PlacedOne
    <3> QED BY <2>2, <3>2, <3>3 DEF TokenOpens
  <2> QED BY <2>1, <2>2
<1> HIDE DEF e, t, token, logs
<1>9. Transits(contracts, t, Now, <<At(e, 1)>>, Placed(logs), Placed(token))
  BY <1>3, <1>4, <1>5, <1>6, <1>7, <1>8, ScheduleTransits
<1>10. Transits(contracts, t, Now, Placed(<<e>>), Placed(logs), Placed(token))
  BY <1>9, PlacedOne
<1> QED BY <1>2, <1>10, MinedBlock

\* deployBondWithAuction
CreatesAndOpens(s, c, t, bids) == CreateTo(s, c) /\ OpenTo(c, t, "RATE", bids) /\ bids \in BidLists
LEMMA DeployOpenTransits ==
    ASSUME NEW s, NEW c, NEW t, NEW b \in Nat, NEW bids, StateOK(s), ~s.bond.active, Latest(s) = 0, MaxAuctions > 0,
           CreatesAndOpens(s, c, t, bids),
           NEW e, LogOf(e, "BondCreated", 0, b), NEW f, LogOf(f, Initialised["RATE"], 1, b),
           NEW logs, OpensWith(logs, 1, "RATE", bids),
           NEW g, LogOf(g, "IsinIssued", 0, b), NEW h, LogOf(h, "IsinExtended", Size, b)
    PROVE  Transits(s, t, b, <<e, f>>, logs, <<g, h>>)
<1>1. /\ StateOK(c) /\ c.bond.active /\ SameButActive(s.bond, c.bond) /\ c.auctions = s.auctions /\ c.bal = s.bal
      /\ ~Sold(c) /\ ~Bidding(c) /\ Unissued(s)
  BY CreationMade DEF CreatesAndOpens
<1>2. StateTyped(s) /\ StateTyped(c) /\ Unissued(c) /\ Latest(c) = 0
  BY <1>1 DEF StateOK, Latest
<1>3. MayOpen(c, "RATE", bids)
  BY <1>1, <1>2 DEF MayOpen, CreatesAndOpens
<1>4. PICK n, row : n = Latest(c) + 1 /\ Opened1(c, t, n, row, "RATE", bids)
  BY <1>3, OpeningMade DEF CreatesAndOpens
<1>5. /\ Added(c, t, n, row) /\ RowOpened(row, "RATE", bids) /\ StateOK(t) /\ n = 1
      /\ t.bond.offering = Grown(c, "RATE") /\ SameButOffering(c.bond, t.bond) /\ t.bal = s.bal
  BY <1>1, <1>2, <1>4 DEF Opened1
<1>6. Added(s, t, 1, row)
  BY <1>1, <1>2, <1>5 DEF Added, Latest
<1>7. 1 \in 1 .. MaxAuctions /\ RowBecomes(s, t, 1, "RATE", "open") /\ TypeIn(s, 1) = "none"
  <2>1. row.type = "RATE"
    BY <1>5 DEF RowOpened
  <2> QED BY <1>6, <2>1, AddedSeq, AddedRows
<1>8. AuctionsGrow(s, t) /\ ~Sold(t)
  <2>1. ~Sold(s)
    BY DEF StateOK
  <2> QED BY <1>6, <2>1, AddedGrows
<1>9. Unissued(t) /\ t.bond.active
  BY <1>1, <1>5, <1>8 DEF StateOK, SameButOffering
<1>10. BondPasses(s, t, b) /\ Deploys(s, t)
  BY <1>1, <1>8, <1>9, CreationPasses
<1>11. ManagerLogs(s, t, b, <<e, f>>)
  <2>1. OpenLogs(s, t, f, "RATE", 1)
    BY <1>7 DEF OpenLogs, LogOf
  <2>2. DeployOpenedLogs(s, t, <<e, f>>, e, f, "RATE", 1)
    BY <1>10, <2>1 DEF DeployOpenedLogs, LogOf
  <2> QED BY <2>2 DEF ManagerLogs
<1>12. AuctionLogs(s, t, b, logs)
  BY <1>5, <1>6, OpeningLogs
<1>13. SameHoldings(s, t) /\ t.bond.maturityDate = s.bond.maturityDate /\ t.bond.offering = Size /\ Size \in Int
       /\ t.bond.maturityDate = 0
  BY <1>1, <1>2, <1>5, <1>9, BondChainAssumption DEF SameHoldings, Unissued, Grown
<1>14. LifecycleLogs(s, t, b, <<g, h>>)
  <2>1. Offers(g, t) /\ Offers(h, t) /\ h.v = t.bond.offering
    BY <1>13 DEF Offers, LogOf, OfferingEvents
  <2>2. OfferTwiceLogs(s, t, <<g, h>>, g, h)
    BY <1>13, <2>1 DEF OfferTwiceLogs
  <2> QED BY <2>2 DEF LifecycleLogs
<1>15. MoneyLogs(s, t, b, <<g, h>>)
  BY <1>2, <1>13, MoneyOfTwo
<1> QED BY <1>5, <1>8, <1>10, <1>11, <1>12, <1>14, <1>15 DEF Transits, Passage

LEMMA MinedDeployOpen ==
    ASSUME StateOK(contracts), Height \in Nat, NEW bids \in BidLists, DeployWithAuction(bids)
    PROVE  Mined
<1> DEFINE e == Log("BondCreated", 0)
           f == Log(Initialised["RATE"], 1)
           g == Log("IsinIssued", 0)
           h == Log("IsinExtended", ExtendedOffering(Created, "RATE"))
           t == Scheduled(Created, "RATE", bids)
           logs == Opening(1, "RATE", bids)
           token == Issued \o Extended(Created, "RATE")
<1>1. ~Bond.active /\ N = 0 /\ MaxAuctions > 0
  BY DEF DeployWithAuction
<1>2. Mine(<<e, f>>, logs, token, t)
  BY DEF DeployWithAuction
<1>3. Bond = contracts.bond /\ Latest(contracts) = 0 /\ Now \in Nat /\ StateTyped(contracts)
  BY <1>1, StateNow
<1>4. CreatesAndOpens(contracts, Created, t, bids) /\ CreateTo(contracts, Created)
  BY DEF CreatesAndOpens, CreateTo, OpenTo, Created
<1>5. Issued = <<g>> /\ Extended(Created, "RATE") = <<h>>
  BY DEF Issued, Extended
<1>6. ExtendedOffering(Created, "RATE") = Size
  <2>1. Unissued(contracts) /\ ~Bidding(contracts) /\ SameButActive(contracts.bond, Created.bond)
    BY <1>1, <1>3, <1>4, CreationMade DEF StateOK
  <2>2. Created.bond.offering = 0 /\ Size \in Nat
    BY <2>1, BondChainAssumption DEF Unissued, SameButActive
  <2> QED BY <2>2 DEF ExtendedOffering
<1>7. LogOf(At(e, 1), "BondCreated", 0, Now) /\ LogOf(At(f, 2), Initialised["RATE"], 1, Now)
  BY LogAt
<1>8. LogOf(At(g, 1), "IsinIssued", 0, Now) /\ LogOf(At(h, 2), "IsinExtended", Size, Now)
  BY <1>6, LogAt
<1>9. OpensWith(Placed(logs), 1, "RATE", bids)
  BY OpeningPlaced
<1> HIDE DEF e, f, g, h, t, logs
<1>10. token = <<g, h>>
  <2>1. <<g>> \o <<h>> = <<g, h>>
    BY Joined
  <2> QED BY Zenon, <1>5, <2>1
<1> HIDE DEF token
<1>11. Transits(contracts, t, Now, <<At(e, 1), At(f, 2)>>, Placed(logs), <<At(g, 1), At(h, 2)>>)
  BY <1>1, <1>3, <1>4, <1>7, <1>8, <1>9, DeployOpenTransits
<1>12. Transits(contracts, t, Now, Placed(<<e, f>>), Placed(logs), Placed(token))
  BY <1>10, <1>11, PlacedTwo
<1> QED BY <1>2, <1>12, MinedBlock

-----------------------------------------------------------------------------
(* Transactions that finalise an auction                                    *)

FinaliseTo(s, t, n, h, units, bond, bal) ==
    /\ bond \in TermRows /\ bal \in [Owners -> Nat] /\ h \in Holders /\ units \in Nat
    /\ t = [bond |-> bond, bal |-> bal,
            auctions |-> [s.auctions EXCEPT ![n].status = "finalised",
                                            ![n].allocations = <<[bidder |-> h, units |-> units]>>]]
FinalRow(s, n, row) ==
    row.status = "finalised" /\ row.bids = s.auctions[n].bids /\ row.type = s.auctions[n].type

\* What the finalisation of the auction in flight does to the auctions
LEMMA FinaliseMade ==
    ASSUME NEW s, NEW t, NEW n, NEW h, NEW units, NEW bond, NEW bal, FinaliseTo(s, t, n, h, units, bond, bal),
           StateTyped(s), Bidding(s), n = Latest(s)
    PROVE  \E row : EditTo(s, t, n, row, bond, bal) /\ FinalRow(s, n, row)
<1>1. s.auctions[n] \in AuctionStates /\ n \in DOMAIN s.auctions
  BY LatestRow
<1> DEFINE allocations == <<[bidder |-> h, units |-> units]>>
           row == [s.auctions[n] EXCEPT !.status = "finalised", !.allocations = allocations]
<1>2. allocations \in Seq([bidder : Holders, units : Nat])
  BY DEF FinaliseTo
<1> HIDE DEF allocations
<1>3. row \in AuctionStates /\ FinalRow(s, n, row)
  BY <1>1, <1>2 DEF AuctionStates, FinalRow
<1>4. t = [bond |-> bond, auctions |-> [s.auctions EXCEPT ![n] = row], bal |-> bal]
  BY <1>1 DEF FinaliseTo, allocations
<1> HIDE DEF row
<1>5. EditTo(s, t, n, row, bond, bal)
  BY <1>3, <1>4 DEF EditTo, FinaliseTo, FinalRow
<1> QED BY <1>3, <1>5

AllocationLog(e, n, b) == e.event = "AuctionFinalized" /\ e.v = n /\ e.block = b
LEMMA FinaliseKeeps ==
    ASSUME NEW s, NEW t, NEW n, NEW h, NEW units, NEW bond, NEW bal, FinaliseTo(s, t, n, h, units, bond, bal),
           StateOK(s), Bidding(s), n = Latest(s), NEW b, NEW e, AllocationLog(e, n, b)
    PROVE  /\ StateTyped(t) /\ AuctionsGrow(s, t) /\ Sold(t) /\ ~Bidding(t) /\ RateFirst(t)
           /\ RowBecomes(s, t, n, TypeIn(s, n), "finalised") /\ n \in 1 .. MaxAuctions
           /\ AuctionLogs(s, t, b, <<e>>) /\ t.bond = bond /\ t.bal = bal
<1>1. StateTyped(s) /\ RateFirst(s)
  BY DEF StateOK
<1>2. PICK row : EditTo(s, t, n, row, bond, bal) /\ FinalRow(s, n, row)
  BY <1>1, FinaliseMade
<1>3. Edited(s, t, n, row) /\ StateTyped(t) /\ t.bond = bond /\ t.bal = bal /\ n \in 1 .. MaxAuctions
  BY <1>2, EditMade
<1>4. row.status = "finalised" /\ row.bids = s.auctions[n].bids
  BY <1>2 DEF FinalRow
<1>5. AuctionsGrow(s, t) /\ RateFirst(t) /\ Sold(t) /\ ~Bidding(t)
  BY <1>1, <1>3, <1>4, EditedGrows
<1>6. /\ RowBecomes(s, t, n, TypeIn(s, n), row.status)
      /\ OtherRowBids(s, t, n) /\ BidsIn(t, n) = row.bids /\ AllocationsIn(t, n) = row.allocations
      /\ BidsIn(s, n) = s.auctions[n].bids
  BY <1>3, EditedRows
<1>7. n \in DOMAIN t.auctions
  BY <1>3, EditedSeq
<1>8. row.allocations \in Seq([bidder : Holders, units : Nat])
  BY <1>2 DEF EditTo, AuctionStates
<1>9. AuctionLogs(s, t, b, <<e>>)
  <2>1. Allocates(s, t, b, e, n)
    BY <1>3, <1>4, <1>6, <1>7, <1>8 DEF Allocates, AllocationLog
  <2> QED BY <2>1 DEF AuctionLogs
<1> QED BY <1>3, <1>4, <1>5, <1>6, <1>9

\* The money of an issuance: units minted to the manager, and sold of them passed to h
Issues(s, t, h, units, sold) ==
    /\ StateTyped(s) /\ h \in Holders /\ units \in Nat /\ sold \in Nat /\ sold <= units
    /\ t.bal = [s.bal EXCEPT ![Manager] = @ + units - sold, ![h] = @ + sold]
    /\ t.bond.supply = s.bond.supply + units

LEMMA IssueHeld ==
    ASSUME NEW s, NEW t, NEW h, NEW units, NEW sold, Issues(s, t, h, units, sold), SupplyHeld(s)
    PROVE  /\ SupplyHeld(t) /\ t.bal \in [Owners -> Nat]
           /\ \A a \in Owners : t.bal[a] = s.bal[a] + (IF a = Manager THEN units - sold ELSE 0) + (IF a = h THEN sold ELSE 0)
<1>1. /\ IsFiniteSet(Owners) /\ h \in Owners /\ Manager \in Owners /\ Manager # h
      /\ units \in Nat /\ sold \in Nat /\ sold <= units
  BY AccountSets DEF Issues
<1>2. s.bal \in [Owners -> Nat] /\ s.bond.supply \in Nat
  BY HoldingsInt DEF Issues
<1> DEFINE mid == [s.bal EXCEPT ![Manager] = @ + units - sold]
<1>3. mid \in [Owners -> Nat] /\ mid[Manager] = s.bal[Manager] + units - sold /\ mid[h] = s.bal[h]
  BY <1>1, <1>2
<1>4. t.bal = [mid EXCEPT ![h] = @ + sold]
  BY <1>1, <1>2 DEF Issues
<1>5. t.bal \in [Owners -> Nat] /\ t.bal[h] = mid[h] + sold
  BY <1>1, <1>3, <1>4
<1>6. SameBut(s.bal, mid, Owners, Manager) /\ SameBut(mid, t.bal, Owners, h)
  BY <1>1, <1>2, <1>3, <1>4, <1>5 DEF SameBut
<1>10. \A a \in Owners : t.bal[a] = s.bal[a] + (IF a = Manager THEN units - sold ELSE 0) + (IF a = h THEN sold ELSE 0)
  BY <1>1, <1>2, <1>4
<1> HIDE DEF mid
<1>7. SumFunction(mid) = SumFunction(s.bal) + (mid[Manager] - s.bal[Manager]) /\ SumFunction(s.bal) \in Int
  BY <1>6, SumUp
<1>8. SumFunction(t.bal) = SumFunction(mid) + (t.bal[h] - mid[h])
  BY <1>6, SumUp
<1>9. s.bal[Manager] \in Nat /\ s.bal[h] \in Nat
  BY <1>1, <1>2
<1>11. SumFunction(t.bal) = SumFunction(s.bal) + units
  BY <1>1, <1>3, <1>5, <1>7, <1>8, <1>9
<1>12. SupplyHeld(t)
  BY <1>11 DEF SupplyHeld, Issues
<1> QED BY <1>5, <1>10, <1>12

\* The four forms of the token's logs of an issuance
IssueLogForms(token, e, f, g, sold) ==
    \/ token = <<e>> /\ sold = 0
    \/ token = <<e, f>> /\ sold = 0
    \/ token = <<e, g>>
    \/ token = <<e, f, g>>

LEMMA IssueMoney ==
    ASSUME NEW s, NEW t, NEW b \in Int, NEW h, NEW units, NEW sold, Issues(s, t, h, units, sold), SupplyHeld(s),
           NEW e, TransferOf(e, NoOne, Manager, units, b), NEW f, LogOf(f, "IsinEnabled", 0, b),
           NEW g, TransferOf(g, Manager, h, sold, b), NEW token, IssueLogForms(token, e, f, g, sold)
    PROVE  MoneyLogs(s, t, b, token)
<1>0. units \in Int /\ sold \in Int /\ h \in Holders /\ StateTyped(s) /\ t.bond.supply = s.bond.supply + units
  BY DEF Issues
<1>1. Counted(e, b) /\ \A a \in Accounts : Gain(e, a) = (IF a = Manager THEN units ELSE 0) - (IF a = NoOne THEN units ELSE 0)
  BY <1>0, TransferCounted
<1>2. Counted(f, b) /\ \A a \in Accounts : Gain(f, a) = 0
  BY LogCounted
<1>3. Counted(g, b) /\ \A a \in Accounts : Gain(g, a) = (IF a = h THEN sold ELSE 0) - (IF a = Manager THEN sold ELSE 0)
  BY <1>0, TransferCounted
<1>4. Countable(token, b) /\ \A a \in Accounts : GainsTo(token, a, Len(token)) = Gain(e, a) + Gain(g, a)
  <2>1. CASE token = <<e>> /\ sold = 0
    <3>1. Countable(token, b) /\ \A a \in Accounts : GainsTo(token, a, Len(token)) = Gain(e, a)
      BY <1>1, <2>1, GainsOne
    <3>2. \A a \in Accounts : Gain(g, a) = 0 /\ Gain(e, a) \in Int
      BY <1>1, <1>3, <2>1 DEF Counted
    <3> QED BY <3>1, <3>2
  <2>2. CASE token = <<e, f>> /\ sold = 0
    <3>1. Countable(token, b) /\ \A a \in Accounts : GainsTo(token, a, Len(token)) = Gain(e, a) + Gain(f, a)
      BY <1>1, <1>2, <2>2, GainsTwo
    <3>2. \A a \in Accounts : Gain(g, a) = 0 /\ Gain(f, a) = 0
      BY <1>2, <1>3, <2>2
    <3> QED BY <3>1, <3>2
  <2>3. CASE token = <<e, g>>
    BY <1>1, <1>3, <2>3, GainsTwo
  <2>4. CASE token = <<e, f, g>>
    <3>1. Countable(token, b) /\ \A a \in Accounts : GainsTo(token, a, Len(token)) = Gain(e, a) + Gain(f, a) + Gain(g, a)
      BY <1>1, <1>2, <1>3, <2>4, GainsThree
    <3>2. \A a \in Accounts : Gain(f, a) = 0 /\ Gain(e, a) \in Int /\ Gain(g, a) \in Int
      BY <1>1, <1>2, <1>3 DEF Counted
    <3> QED BY <3>1, <3>2
  <2> QED BY <2>1, <2>2, <2>3, <2>4 DEF IssueLogForms
<1>5. /\ NoOne \notin Owners /\ Manager \in Owners /\ h \in Owners /\ Owners \subseteq Accounts /\ NoOne \in Accounts
      /\ Manager # h
  BY <1>0, AccountSets
<1>6. s.bond.supply \in Nat /\ \A a \in Owners : s.bal[a] \in Nat
  BY <1>0, HoldingsInt
<1>7. t.bal \in [Owners -> Nat]
      /\ \A a \in Owners : t.bal[a] = s.bal[a] + (IF a = Manager THEN units - sold ELSE 0) + (IF a = h THEN sold ELSE 0)
  BY IssueHeld
<1>8. ASSUME NEW a \in Owners
      PROVE  s.bal[a] \in Int /\ t.bal[a] \in Int /\ t.bal[a] = s.bal[a] + GainsTo(token, a, Len(token))
  <2>1. a \in Accounts /\ a # NoOne /\ s.bal[a] \in Int /\ t.bal[a] \in Int
    BY <1>5, <1>6, <1>7
  <2>2. GainsTo(token, a, Len(token)) = Gain(e, a) + Gain(g, a)
    BY <1>4, <2>1
  <2>3. /\ Gain(e, a) = (IF a = Manager THEN units ELSE 0) - 0
        /\ Gain(g, a) = (IF a = h THEN sold ELSE 0) - (IF a = Manager THEN sold ELSE 0)
    BY <1>1, <1>3, <2>1
  <2>4. t.bal[a] = s.bal[a] + (IF a = Manager THEN units - sold ELSE 0) + (IF a = h THEN sold ELSE 0)
    BY <1>7
  <2>5. CASE a = Manager
    BY <1>0, <1>5, <2>1, <2>2, <2>3, <2>4, <2>5
  <2>6. CASE a = h
    BY <1>0, <1>5, <2>1, <2>2, <2>3, <2>4, <2>6
  <2>7. CASE a # Manager /\ a # h
    BY <1>0, <1>5, <2>1, <2>2, <2>3, <2>4, <2>7
  <2> QED BY <2>5, <2>6, <2>7
<1>9. GainsTo(token, NoOne, Len(token)) = 0 - units
  BY <1>0, <1>1, <1>3, <1>4, <1>5
<1>10. t.bond.supply = s.bond.supply - GainsTo(token, NoOne, Len(token)) /\ t.bond.supply \in Int
  BY <1>0, <1>6, <1>9
<1> QED BY <1>4, <1>6, <1>8, <1>10 DEF MoneyLogs

\* The terms after an issuance
IssueTerms(r, u, units, rate, b) ==
    /\ u \in TermRows /\ u.active = r.active /\ u.offering = r.offering /\ u.supply = r.supply + units
    /\ u.count = r.count /\ u.matured = r.matured /\ u.issued = TRUE
    /\ rate => u.lastPayment = b /\ u.maturityDate = b + Periods
    /\ ~rate => u.lastPayment = r.lastPayment /\ u.maturityDate = r.maturityDate

LEMMA IssuePut ==
    ASSUME NEW r \in TermRows, NEW units \in Nat, NEW b \in Nat
    PROVE  LET u == [r EXCEPT !.supply = @ + units, !.issued = TRUE]
           IN  /\ IssueTerms(r, u, units, FALSE, b)
               /\ IssueTerms(r, [u EXCEPT !.lastPayment = b, !.maturityDate = b + Periods], units, TRUE, b)
<1> DEFINE u == [r EXCEPT !.supply = @ + units, !.issued = TRUE]
<1>0. Periods \in Nat /\ b + Periods \in Nat
  BY BondChainAssumption
<1>1. u \in TermRows /\ u.supply = r.supply + units /\ u.issued = TRUE
  <2>1. PICK v : v = r.supply + units
    OBVIOUS
  <2>2. v \in Nat
    BY <2>1 DEF TermRows
  <2>3. u = [r EXCEPT !.supply = v, !.issued = TRUE]
    BY <2>1
  <2> HIDE DEF u
  <2>4. u \in TermRows /\ u.supply = v /\ u.issued = TRUE
    BY <2>2, <2>3 DEF TermRows
  <2> QED BY <2>1, <2>4
<1>2. u.active = r.active /\ u.offering = r.offering /\ u.count = r.count /\ u.matured = r.matured
  BY DEF TermRows
<1>3. u.lastPayment = r.lastPayment /\ u.maturityDate = r.maturityDate
  BY DEF TermRows
<1> HIDE DEF u
<1> DEFINE w == [u EXCEPT !.lastPayment = b, !.maturityDate = b + Periods]
<1>4. w \in TermRows /\ w.lastPayment = b /\ w.maturityDate = b + Periods
  BY <1>0, <1>1 DEF TermRows
<1>5. w.supply = u.supply /\ w.issued = u.issued /\ w.active = u.active
  BY <1>1 DEF TermRows
<1>6. w.offering = u.offering /\ w.count = u.count /\ w.matured = u.matured
  BY <1>1 DEF TermRows
<1> HIDE DEF w
<1>7. IssueTerms(r, u, units, FALSE, b)
  BY <1>1, <1>2, <1>3 DEF IssueTerms
<1>8. IssueTerms(r, w, units, TRUE, b)
  BY <1>1, <1>2, <1>4, <1>5, <1>6 DEF IssueTerms
<1> QED BY <1>7, <1>8 DEF u, w

\* A rate auction is the first, so nothing has been issued before it.
LEMMA RateUnissued ==
    ASSUME NEW s, NEW n, StateOK(s), Bidding(s), n = Latest(s), s.auctions[n].type = "RATE"
    PROVE  ~Sold(s) /\ Unissued(s)
<1>1. StateTyped(s) /\ RateFirst(s) /\ (~Sold(s) => Unissued(s))
  BY DEF StateOK
<1>2. n \in DOMAIN s.auctions /\ s.auctions[n].status \in {"open", "closed"}
  BY <1>1, LatestRow
<1>3. n = 1
  BY <1>1, <1>2 DEF RateFirst
<1>4. DOMAIN s.auctions = 1 .. 1
  BY <1>1, <1>3, AuctionsTyped
<1>5. ~Sold(s)
  BY <1>2, <1>3, <1>4 DEF Sold
<1> QED BY <1>1, <1>5

LEMMA IssuePasses ==
    ASSUME NEW s, NEW t, NEW b \in Nat \ {0}, NEW units, NEW rate \in BOOLEAN, StateOK(s), s.bond.active,
           IssueTerms(s.bond, t.bond, units, rate, b), rate => Unissued(s)
    PROVE  BondPasses(s, t, b) /\ ~Deploys(s, t) /\ (rate => Enables(s, t))
<1>0. Periods \in Nat /\ s.bond.count \in Nat /\ s.bond.maturityDate \in Nat
  BY BondChainAssumption, TypedParts DEF StateOK
<1>1. ~Deploys(s, t) /\ t.bond.count = s.bond.count
  BY DEF IssueTerms, Deploys
<1>2. CASE rate
  <2>1. Enables(s, t) /\ s.bond.count = 0 /\ t.bond.lastPayment = b
    BY <1>0, <1>2 DEF Unissued, IssueTerms, Enables
  <2> QED BY <1>0, <1>1, <2>1 DEF BondPasses
<1>3. CASE ~rate
  <2>1. ~Enables(s, t) /\ t.bond.lastPayment = s.bond.lastPayment
    BY <1>3 DEF IssueTerms, Enables
  <2> QED BY <1>0, <1>1, <1>3, <2>1 DEF BondPasses
<1> QED BY <1>2, <1>3

Issuing(s, t, n, h, units, sold, rate, b) ==
    /\ StateOK(s) /\ Bidding(s) /\ n = Latest(s) /\ s.auctions[n].type # "BUYBACK"
    /\ rate <=> s.auctions[n].type = "RATE"
    /\ FinaliseTo(s, t, n, h, units, t.bond, t.bal) /\ Issues(s, t, h, units, sold)
    /\ IssueTerms(s.bond, t.bond, units, rate, b)
IssueForm(token, e, f, g, rate, sold) ==
    \/ rate /\ token = <<e, f>> /\ sold = 0
    \/ rate /\ token = <<e, f, g>>
    \/ ~rate /\ token = <<e>> /\ sold = 0
    \/ ~rate /\ token = <<e, g>>

\* The manager's two last logs of a finalisation, after those of the failures
AfterFailures(logs, x, c, d) == ~Read(x) /\ (logs = <<c, d>> \/ logs = <<x, c, d>>)

LEMMA IssuanceTransits ==
    ASSUME NEW s, NEW t, NEW b \in Nat \ {0}, NEW n, NEW h, NEW units, NEW sold, NEW rate \in BOOLEAN,
           Issuing(s, t, n, h, units, sold, rate, b),
           NEW c, LogOf(c, "BondIssuanceComplete", 0, b), NEW d, LogOf(d, "BondAuctionFinalised", n, b),
           NEW a, AllocationLog(a, n, b),
           NEW e, TransferOf(e, NoOne, Manager, units, b), NEW f, LogOf(f, "IsinEnabled", 0, b),
           NEW g, TransferOf(g, Manager, h, sold, b), NEW token, IssueForm(token, e, f, g, rate, sold),
           NEW logs, NEW x, AfterFailures(logs, x, c, d)
    PROVE  Transits(s, t, b, logs, <<a>>, token)
<1>1. /\ StateOK(s) /\ Bidding(s) /\ n = Latest(s) /\ Issues(s, t, h, units, sold) /\ SupplyHeld(s) /\ s.bond.active
      /\ FinaliseTo(s, t, n, h, units, t.bond, t.bal) /\ IssueTerms(s.bond, t.bond, units, rate, b)
  BY DEF Issuing, StateOK
<1>2. rate => Unissued(s)
  BY RateUnissued DEF Issuing
<1>3. /\ StateTyped(t) /\ AuctionsGrow(s, t) /\ Sold(t) /\ ~Bidding(t) /\ RateFirst(t)
      /\ RowBecomes(s, t, n, TypeIn(s, n), "finalised") /\ n \in 1 .. MaxAuctions
      /\ AuctionLogs(s, t, b, <<a>>)
  BY <1>1, FinaliseKeeps
<1>4. BondPasses(s, t, b) /\ ~Deploys(s, t) /\ (rate => Enables(s, t))
  BY <1>1, <1>2, IssuePasses
<1>5. SupplyHeld(t)
  BY <1>1, IssueHeld
<1>6. /\ t.bond.active /\ t.bond.count = s.bond.count /\ t.bond.matured = s.bond.matured /\ t.bond.issued = TRUE
      /\ t.bond.offering = s.bond.offering /\ t.bond.active = s.bond.active
  BY <1>1 DEF IssueTerms
<1>7. StateOK(t)
  BY <1>1, <1>3, <1>5, <1>6 DEF StateOK
<1>8. ManagerLogs(s, t, b, logs)
  <2>1. IssuedLogs(s, t, <<c, d>>, c, d, n)
    BY <1>3, <1>6 DEF IssuedLogs, LogOf
  <2>2. IssuedLogs(s, t, logs, c, d, n) \/ FailedIssue(s, t, logs, x, c, d, n)
    <3>1. CASE logs = <<c, d>>
      BY <2>1, <3>1
    <3>2. CASE logs = <<x, c, d>>
      BY <2>1, <3>2 DEF FailedIssue, AfterFailures
    <3> QED BY <3>1, <3>2 DEF AfterFailures
  <2> QED BY <2>2, Zenon DEF ManagerLogs
<1>9. LifecycleLogs(s, t, b, token)
  <2>1. e.event \notin LifeEvents /\ g.event \notin LifeEvents /\ f.event = "IsinEnabled" /\ f.block = b
    BY DEF TransferOf, LogOf, LifeEvents, OfferingEvents
  <2>2. CASE rate
    <3>1. t.bond.maturityDate = b + Periods
      BY <1>1, <2>2 DEF IssueTerms
    <3>2. token = <<e, f>> \/ token = <<e, f, g>>
      BY <2>2 DEF IssueForm
    <3>3. EnableLogs(s, t, b, token, e, f, g)
      BY <1>4, <1>6, <2>1, <2>2, <3>1, <3>2 DEF EnableLogs
    <3> QED BY <3>3 DEF LifecycleLogs
  <2>3. CASE ~rate
    <3>1. Lifeless(token)
      <4>1. CASE token = <<e>>
        BY <2>1, <4>1 DEF Lifeless
      <4>2. CASE token = <<e, g>>
        BY <2>1, <4>2 DEF Lifeless
      <4> QED BY <2>3, <4>1, <4>2 DEF IssueForm
    <3>2. t.bond.maturityDate = s.bond.maturityDate
      BY <1>1, <2>3 DEF IssueTerms
    <3>3. PlainLogs(s, t, token)
      BY <1>4, <1>6, <3>1, <3>2 DEF PlainLogs
    <3> QED BY <3>3 DEF LifecycleLogs
  <2> QED BY <2>2, <2>3
<1>10. MoneyLogs(s, t, b, token)
  <2>1. IssueLogForms(token, e, f, g, sold)
    BY DEF IssueLogForms, IssueForm
  <2> QED BY <1>1, <2>1, IssueMoney
<1> QED BY <1>3, <1>4, <1>7, <1>8, <1>9, <1>10 DEF Transits, Passage

\* Sequences put together of one-element sequences and empty ones
LEMMA JoinedThird ==
    ASSUME NEW e, NEW f, NEW g
    PROVE  <<e, f>> \o <<g>> = <<e, f, g>>
<1> DEFINE S == {e, f, g}
<1>1. e \in S /\ f \in S /\ g \in S
  OBVIOUS
<1> HIDE DEF S
<1>2. <<e, f>> \in Seq(S) /\ <<g>> \in Seq(S) /\ <<e, f, g>> \in Seq(S)
  BY <1>1
<1>3. /\ <<e, f>> \o <<g>> \in Seq(S) /\ Len(<<e, f>> \o <<g>>) = Len(<<e, f>>) + Len(<<g>>)
      /\ \A i \in 1 .. Len(<<e, f>>) + Len(<<g>>) :
           (<<e, f>> \o <<g>>)[i] = IF i <= Len(<<e, f>>) THEN <<e, f>>[i] ELSE <<g>>[i - Len(<<e, f>>)]
  BY <1>2, ConcatProperties
<1>4. PICK q : q = <<e, f>> \o <<g>>
  OBVIOUS
<1>5. q \in Seq(S) /\ Len(q) = 3 /\ q[1] = e /\ q[2] = f /\ q[3] = g
  BY <1>3, <1>4
<1>6. Len(<<e, f, g>>) = 3 /\ <<e, f, g>>[1] = e /\ <<e, f, g>>[2] = f /\ <<e, f, g>>[3] = g
  OBVIOUS
<1>7. \A i \in 1 .. 3 : q[i] = <<e, f, g>>[i]
  <2>1. \A i \in 1 .. 3 : i = 1 \/ i = 2 \/ i = 3
    OBVIOUS
  <2> QED BY <1>5, <1>6, <2>1
<1>8. q = <<e, f, g>>
  BY <1>2, <1>5, <1>6, <1>7, SeqEqual
<1> QED BY <1>4, <1>8

LEMMA JoinedBefore ==
    ASSUME NEW e, NEW f, NEW g
    PROVE  <<e>> \o <<f, g>> = <<e, f, g>> /\ <<>> \o <<f, g>> = <<f, g>>
<1> DEFINE S == {e, f, g}
<1>1. e \in S /\ f \in S /\ g \in S
  OBVIOUS
<1> HIDE DEF S
<1>2. <<e>> \in Seq(S) /\ <<f, g>> \in Seq(S) /\ <<e, f, g>> \in Seq(S)
  BY <1>1
<1>3. /\ <<e>> \o <<f, g>> \in Seq(S) /\ Len(<<e>> \o <<f, g>>) = Len(<<e>>) + Len(<<f, g>>)
      /\ \A i \in 1 .. Len(<<e>>) + Len(<<f, g>>) :
           (<<e>> \o <<f, g>>)[i] = IF i <= Len(<<e>>) THEN <<e>>[i] ELSE <<f, g>>[i - Len(<<e>>)]
  BY <1>2, ConcatProperties
<1>4. PICK q : q = <<e>> \o <<f, g>>
  OBVIOUS
<1>5. q \in Seq(S) /\ Len(q) = 3 /\ q[1] = e /\ q[2] = f /\ q[3] = g
  BY <1>3, <1>4
<1>6. Len(<<e, f, g>>) = 3 /\ <<e, f, g>>[1] = e /\ <<e, f, g>>[2] = f /\ <<e, f, g>>[3] = g
  OBVIOUS
<1>7. \A i \in 1 .. 3 : q[i] = <<e, f, g>>[i]
  <2>1. \A i \in 1 .. 3 : i = 1 \/ i = 2 \/ i = 3
    OBVIOUS
  <2> QED BY <1>5, <1>6, <2>1
<1>8. q = <<e, f, g>>
  BY <1>2, <1>5, <1>6, <1>7, SeqEqual
<1> QED BY <1>2, <1>4, <1>8, ConcatEmptySeq

LEMMA FailuresPlaced ==
    ASSUME Height \in Nat, NEW settled \in BOOLEAN, NEW c, NEW d
    PROVE  \E x : \E i, j \in Nat : AfterFailures(Placed(Failures(settled) \o <<c, d>>), x, At(c, i), At(d, j))
<1> DEFINE f == Log("BondAllocationFailed", N)
<1>1. ~Read(At(f, 1))
  <2>1. LogOf(At(f, 1), "BondAllocationFailed", N, Now)
    BY LogAt
  <2> QED BY <2>1 DEF LogOf, Read, Unprojected
<1>2. CASE settled
  <2>1. Failures(settled) = <<>>
    BY <1>2 DEF Failures
  <2>3. Failures(settled) \o <<c, d>> = <<c, d>>
    BY <2>1, JoinedBefore
  <2>2. Placed(Failures(settled) \o <<c, d>>) = <<At(c, 1), At(d, 2)>>
    BY <2>3, PlacedTwo
  <2> QED BY <1>1, <2>2 DEF AfterFailures
<1>3. CASE ~settled
  <2>1. Failures(settled) = <<f>>
    BY <1>3 DEF Failures
  <2> HIDE DEF f
  <2>3. Failures(settled) \o <<c, d>> = <<f, c, d>>
    BY <2>1, JoinedBefore
  <2>2. Placed(Failures(settled) \o <<c, d>>) = <<At(f, 1), At(c, 2), At(d, 3)>>
    BY <2>3, PlacedThree
  <2> QED BY <1>1, <2>2 DEF AfterFailures
<1> QED BY <1>2, <1>3

LEMMA JoinedEmpty ==
    ASSUME NEW e, NEW f
    PROVE  <<e>> \o <<>> = <<e>> /\ <<e, f>> \o <<>> = <<e, f>>
<1> DEFINE S == {e, f}
<1>1. e \in S /\ f \in S
  OBVIOUS
<1> HIDE DEF S
<1>2. <<e>> \in Seq(S) /\ <<e, f>> \in Seq(S)
  BY <1>1
<1> QED BY <1>2, ConcatEmptySeq

\* The token's logs of an issuance as the action puts them together
IssueTokens(token, e, f, g, rate, sold) ==
    token = <<e>> \o (IF rate THEN <<f>> ELSE <<>>) \o (IF sold > 0 THEN <<g>> ELSE <<>>)

LEMMA IssueTokensPlaced ==
    ASSUME NEW token, NEW e, NEW f, NEW g, NEW rate \in BOOLEAN, NEW sold \in Nat,
           IssueTokens(token, e, f, g, rate, sold)
    PROVE  \E k \in {2, 3} : IssueForm(Placed(token), At(e, 1), At(f, 2), At(g, k), rate, sold)
<1>1. CASE rate /\ sold > 0
  <2>1. token = <<e, f, g>>
    <3>1. token = (<<e>> \o <<f>>) \o <<g>>
      BY <1>1 DEF IssueTokens
    <3>2. <<e>> \o <<f>> = <<e, f>> /\ <<e, f>> \o <<g>> = <<e, f, g>>
      BY Joined, JoinedThird
    <3> QED BY Zenon, <3>1, <3>2
  <2> QED BY <1>1, <2>1, PlacedThree DEF IssueForm
<1>2. CASE rate /\ sold = 0
  <2>1. token = <<e, f>>
    <3>1. token = (<<e>> \o <<f>>) \o <<>>
      BY <1>2 DEF IssueTokens
    <3>2. <<e>> \o <<f>> = <<e, f>> /\ <<e, f>> \o <<>> = <<e, f>>
      BY Joined, JoinedEmpty
    <3> QED BY Zenon, <3>1, <3>2
  <2> QED BY <1>2, <2>1, PlacedTwo DEF IssueForm
<1>3. CASE ~rate /\ sold > 0
  <2>1. token = <<e, g>>
    <3>1. token = (<<e>> \o <<>>) \o <<g>>
      BY <1>3 DEF IssueTokens
    <3>2. <<e>> \o <<>> = <<e>> /\ <<e>> \o <<g>> = <<e, g>>
      BY Joined, JoinedEmpty
    <3> QED BY Zenon, <3>1, <3>2
  <2> QED BY <1>3, <2>1, PlacedTwo DEF IssueForm
<1>4. CASE ~rate /\ sold = 0
  <2>1. token = <<e>>
    <3>1. token = (<<e>> \o <<>>) \o <<>>
      BY <1>4 DEF IssueTokens
    <3>2. <<e>> \o <<>> = <<e>>
      BY JoinedEmpty
    <3> QED BY Zenon, <3>1, <3>2
  <2> QED BY <1>4, <2>1, PlacedOne DEF IssueForm
<1> QED BY <1>1, <1>2, <1>3, <1>4

LEMMA MinedIssuance ==
    ASSUME StateOK(contracts), Height \in Nat, NEW h \in Bidders, NEW units \in 1 .. Size, NEW paid \in BOOLEAN,
           FinaliseIssuance(h, units, paid)
    PROVE  Mined
<1> DEFINE rate == Auctions[N].type = "RATE"
           sold == IF paid THEN units ELSE 0
           c == Log("BondIssuanceComplete", 0)
           d == Log("BondAuctionFinalised", N)
           a == Log("AuctionFinalized", N)
           e == Transfer(NoOne, Manager, units)
           f == Log("IsinEnabled", 0)
           g == Transfer(Manager, h, sold)
           token == <<e>> \o (IF rate THEN <<f>> ELSE <<>>) \o (IF sold > 0 THEN <<g>> ELSE <<>>)
           bond == [Bond EXCEPT !.supply = @ + units, !.issued = TRUE]
           t == [bond     |-> IF rate THEN [bond EXCEPT !.lastPayment = Now, !.maturityDate = Now + Periods] ELSE bond,
                 auctions |-> Finalised(h, units),
                 bal      |-> [contracts.bal EXCEPT ![Manager] = @ + units - sold, ![h] = @ + sold]]
<1>1. InFlight /\ Auctions[N].type # "BUYBACK"
  BY DEF FinaliseIssuance, MayFinalise
<1>2. Mine(Failures(paid) \o <<c, d>>, <<a>>, token, t)
  BY DEF FinaliseIssuance
<1>3. /\ Bond = contracts.bond /\ N = Latest(contracts) /\ Auctions = contracts.auctions /\ Bidding(contracts)
      /\ Now \in Nat \ {0} /\ StateTyped(contracts)
  BY <1>1, StateNow
<1>4. units \in Nat /\ sold \in Nat /\ sold <= units /\ h \in Holders /\ rate \in BOOLEAN
  BY BondChainAssumption
<1>5. IssueTerms(contracts.bond, t.bond, units, rate, Now)
  <2>1. contracts.bond \in TermRows /\ Now \in Nat
    BY <1>3, TypedParts
  <2>2. /\ IssueTerms(contracts.bond, bond, units, FALSE, Now)
        /\ IssueTerms(contracts.bond, [bond EXCEPT !.lastPayment = Now, !.maturityDate = Now + Periods], units, TRUE, Now)
    BY <1>3, <1>4, <2>1, IssuePut
  <2> HIDE DEF bond
  <2>3. CASE rate
    <3>1. t.bond = [bond EXCEPT !.lastPayment = Now, !.maturityDate = Now + Periods] /\ rate = TRUE
      BY <2>3
    <3> HIDE DEF t, rate
    <3> QED BY <2>2, <3>1
  <2>4. CASE ~rate
    <3>1. t.bond = bond /\ rate = FALSE
      BY <2>4
    <3> HIDE DEF t, rate
    <3> QED BY <2>2, <3>1
  <2> QED BY <2>3, <2>4
<1>6. Issues(contracts, t, h, units, sold)
  <2>1. t.bond.supply = contracts.bond.supply + units
    BY <1>5 DEF IssueTerms
  <2>2. t.bal = [contracts.bal EXCEPT ![Manager] = @ + units - sold, ![h] = @ + sold]
    OBVIOUS
  <2> HIDE DEF t, sold
  <2> QED BY <1>3, <1>4, <2>1, <2>2 DEF Issues
<1>7. FinaliseTo(contracts, t, N, h, units, t.bond, t.bal)
  <2>1. t = [bond |-> t.bond, auctions |-> Finalised(h, units), bal |-> t.bal]
    OBVIOUS
  <2> HIDE DEF t
  <2>2. t.bond \in TermRows
    BY <1>5 DEF IssueTerms
  <2>3. t.bal \in [Owners -> Nat]
    BY <1>6, IssueHeld DEF StateOK
  <2> QED BY <1>3, <1>4, <2>1, <2>2, <2>3 DEF FinaliseTo, Finalised
<1>8. Issuing(contracts, t, N, h, units, sold, rate, Now)
  BY <1>1, <1>3, <1>5, <1>6, <1>7 DEF Issuing
<1>9. \A i \in Nat : LogOf(At(c, i), "BondIssuanceComplete", 0, Now) /\ LogOf(At(d, i), "BondAuctionFinalised", N, Now)
  BY LogAt
<1>10. AllocationLog(At(a, 1), N, Now)
  <2>1. LogOf(At(a, 1), "AuctionFinalized", N, Now)
    BY LogAt
  <2> QED BY <2>1 DEF LogOf, AllocationLog
<1>11. TransferOf(At(e, 1), NoOne, Manager, units, Now) /\ LogOf(At(f, 2), "IsinEnabled", 0, Now)
  BY LogAt, TransferAt
<1>12. \A k : TransferOf(At(g, k), Manager, h, sold, Now)
  BY TransferAt
<1>13. IssueTokens(token, e, f, g, rate, sold)
  BY DEF IssueTokens
<1> HIDE DEF rate, sold, c, d, a, e, f, g, token, t
<1>14. PICK k \in {2, 3} : IssueForm(Placed(token), At(e, 1), At(f, 2), At(g, k), rate, sold)
  BY <1>4, <1>13, IssueTokensPlaced
<1>15. TransferOf(At(g, k), Manager, h, sold, Now)
  BY <1>12
<1>20. PICK x : \E i, j \in Nat : AfterFailures(Placed(Failures(paid) \o <<c, d>>), x, At(c, i), At(d, j))
  BY FailuresPlaced, Zenon
<1>16. PICK i, j \in Nat : AfterFailures(Placed(Failures(paid) \o <<c, d>>), x, At(c, i), At(d, j))
  BY <1>20, Zenon
<1>17. LogOf(At(c, i), "BondIssuanceComplete", 0, Now) /\ LogOf(At(d, j), "BondAuctionFinalised", N, Now)
  BY <1>9
<1>18. Transits(contracts, t, Now, Placed(Failures(paid) \o <<c, d>>), <<At(a, 1)>>, Placed(token))
  BY <1>3, <1>4, <1>8, <1>10, <1>11, <1>14, <1>15, <1>16, <1>17, IssuanceTransits
<1>19. Transits(contracts, t, Now, Placed(Failures(paid) \o <<c, d>>), Placed(<<a>>), Placed(token))
  BY <1>18, PlacedOne
<1> QED BY <1>2, <1>19, MinedBlock

\* Nobody holds more than there is.
LEMMA HeldBelow ==
    ASSUME NEW s, StateTyped(s), SupplyHeld(s), NEW a \in Owners
    PROVE  s.bal[a] \in Nat /\ s.bond.supply \in Nat /\ s.bal[a] <= s.bond.supply
<1>1. s.bal \in [Owners -> Nat] /\ s.bond.supply \in Nat /\ s.bal[a] \in Nat /\ IsFiniteSet(Owners)
      /\ \A x \in Owners : s.bal[x] \in Nat
  BY HoldingsInt, AccountSets
<1>2. s.bal[a] <= SumFunctionOnSet(s.bal, Owners)
  BY <1>1, SumNat
<1>3. DOMAIN s.bal = Owners
  BY <1>1
<1> QED BY <1>1, <1>2, <1>3 DEF SupplyHeld, SumFunction

\* finaliseAuction of a buyback: h gives units up, or the settlement fails.
SameButSupply(r, u) ==
    /\ u.active = r.active /\ u.offering = r.offering /\ u.maturityDate = r.maturityDate
    /\ u.lastPayment = r.lastPayment /\ u.count = r.count /\ u.matured = r.matured /\ u.issued = r.issued
LEMMA SupplyPut ==
    ASSUME NEW r \in TermRows, NEW v \in Nat, NEW u, u = [r EXCEPT !.supply = v]
    PROVE  u \in TermRows /\ u.supply = v /\ SameButSupply(r, u)
<1>1. u \in TermRows /\ u.supply = v
  BY DEF TermRows
<1>2. u.active = r.active /\ u.offering = r.offering /\ u.maturityDate = r.maturityDate /\ u.lastPayment = r.lastPayment
  BY DEF TermRows
<1>3. u.count = r.count /\ u.matured = r.matured /\ u.issued = r.issued
  BY DEF TermRows
<1> QED BY <1>1, <1>2, <1>3 DEF SameButSupply

Redeems(s, t, h, units) ==
    /\ StateOK(s) /\ h \in Holders /\ units \in Nat /\ units <= s.bal[h]
    /\ t.bal = [s.bal EXCEPT ![h] = @ - units] /\ t.bond = [s.bond EXCEPT !.supply = @ - units]

LEMMA RedeemHeld ==
    ASSUME NEW s, NEW t, NEW h, NEW units, Redeems(s, t, h, units)
    PROVE  /\ SupplyHeld(t) /\ t.bal \in [Owners -> Nat] /\ t.bond \in TermRows /\ SameButSupply(s.bond, t.bond)
           /\ t.bond.supply = s.bond.supply - units
           /\ \A a \in Owners : t.bal[a] = s.bal[a] - (IF a = h THEN units ELSE 0)
<1>1. /\ StateTyped(s) /\ SupplyHeld(s) /\ h \in Owners /\ units \in Nat /\ units <= s.bal[h] /\ IsFiniteSet(Owners)
      /\ s.bond \in TermRows
  BY AccountSets, TypedParts DEF Redeems, StateOK
<1>2. s.bal \in [Owners -> Nat] /\ s.bal[h] \in Nat /\ s.bond.supply \in Nat /\ s.bal[h] <= s.bond.supply
  BY <1>1, HoldingsInt, HeldBelow
<1>3. PICK v : v = s.bond.supply - units
  OBVIOUS
<1>4. v \in Nat
  BY <1>1, <1>2, <1>3
<1>5. t.bond = [s.bond EXCEPT !.supply = v]
  BY <1>3 DEF Redeems
<1>6. t.bond \in TermRows /\ t.bond.supply = v /\ SameButSupply(s.bond, t.bond)
  BY <1>1, <1>4, <1>5, SupplyPut
<1>7. t.bal \in [Owners -> Nat] /\ t.bal[h] = s.bal[h] - units /\ SameBut(s.bal, t.bal, Owners, h)
  BY <1>1, <1>2 DEF Redeems, SameBut
<1>8. SumFunction(t.bal) = SumFunction(s.bal) + (t.bal[h] - s.bal[h]) /\ SumFunction(s.bal) \in Int
  BY <1>7, SumUp
<1>9. SupplyHeld(t)
  BY <1>1, <1>2, <1>3, <1>6, <1>7, <1>8 DEF SupplyHeld
<1>10. \A a \in Owners : t.bal[a] = s.bal[a] - (IF a = h THEN units ELSE 0)
  BY <1>1, <1>2 DEF Redeems
<1> QED BY <1>3, <1>6, <1>7, <1>9, <1>10

RedeemForm(token, e, units) == (token = <<>> /\ units = 0) \/ token = <<e>>
LEMMA RedeemMoney ==
    ASSUME NEW s, NEW t, NEW b \in Int, NEW h, NEW units, Redeems(s, t, h, units),
           NEW e, TransferOf(e, h, NoOne, units, b), NEW token, RedeemForm(token, e, units)
    PROVE  MoneyLogs(s, t, b, token)
<1>1. /\ t.bal \in [Owners -> Nat] /\ t.bond.supply = s.bond.supply - units
      /\ \A a \in Owners : t.bal[a] = s.bal[a] - (IF a = h THEN units ELSE 0)
  BY RedeemHeld
<1>2. StateTyped(s) /\ h \in Holders /\ units \in Nat
  BY DEF Redeems, StateOK
<1>3. s.bond.supply \in Nat /\ s.bal \in [Owners -> Nat] /\ \A a \in Owners : s.bal[a] \in Nat
  BY <1>2, HoldingsInt
<1>4. h \in Owners /\ NoOne \notin Owners /\ Owners \subseteq Accounts /\ NoOne \in Accounts
  BY <1>2, AccountSets
<1>5. Counted(e, b) /\ \A a \in Accounts : Gain(e, a) = (IF a = NoOne THEN units ELSE 0) - (IF a = h THEN units ELSE 0)
  BY <1>2, TransferCounted
<1>6. CASE token = <<>> /\ units = 0
  <2>1. Unmoving(token, b)
    BY <1>6 DEF Unmoving
  <2>2. \A a \in Owners : t.bal[a] = s.bal[a]
    BY <1>1, <1>3, <1>6
  <2>3. SameHoldings(s, t)
    BY <1>1, <1>3, <1>6, <2>2 DEF SameHoldings
  <2> QED BY <1>2, <2>1, <2>3, MoneyStill
<1>7. CASE token = <<e>>
  <2>1. Countable(token, b) /\ \A a \in Accounts : GainsTo(token, a, Len(token)) = Gain(e, a)
    BY <1>5, <1>7, GainsOne
  <2>2. ASSUME NEW a \in Owners
        PROVE  s.bal[a] \in Int /\ t.bal[a] \in Int /\ t.bal[a] = s.bal[a] + GainsTo(token, a, Len(token))
    <3>1. GainsTo(token, a, Len(token)) = 0 - (IF a = h THEN units ELSE 0)
      BY <1>4, <1>5, <2>1
    <3>2. s.bal[a] \in Int /\ t.bal[a] \in Int /\ t.bal[a] = s.bal[a] - (IF a = h THEN units ELSE 0)
      BY <1>1, <1>3
    <3>3. CASE a = h
      BY <1>2, <3>1, <3>2, <3>3
    <3>4. CASE a # h
      BY <3>1, <3>2, <3>4
    <3> QED BY <3>3, <3>4
  <2>3. GainsTo(token, NoOne, Len(token)) = units
    BY <1>2, <1>4, <1>5, <2>1
  <2> QED BY <1>1, <1>2, <1>3, <2>1, <2>2, <2>3 DEF MoneyLogs
<1> QED BY <1>6, <1>7 DEF RedeemForm

BuysBack(s, t, n, h, units, bought) ==
    /\ StateOK(s) /\ Bidding(s) /\ n = Latest(s) /\ FinaliseTo(s, t, n, h, units, t.bond, t.bal)
    /\ Redeems(s, t, h, bought)
LEMMA BuybackTransits ==
    ASSUME NEW s, NEW t, NEW b \in Nat, NEW n, NEW h, NEW units, NEW bought, BuysBack(s, t, n, h, units, bought),
           NEW d, LogOf(d, "BondAuctionFinalised", n, b), NEW a, AllocationLog(a, n, b),
           NEW e, TransferOf(e, h, NoOne, bought, b), NEW token, RedeemForm(token, e, bought),
           NEW logs, NEW x, NEW c, ~Read(c), AfterFailures(logs, x, c, d)
    PROVE  Transits(s, t, b, logs, <<a>>, token)
<1>1. /\ StateOK(s) /\ StateTyped(s) /\ Bidding(s) /\ n = Latest(s) /\ s.bond.active /\ Redeems(s, t, h, bought)
      /\ FinaliseTo(s, t, n, h, units, t.bond, t.bal) /\ (s.bond.matured => s.bond.count >= Periods)
  BY DEF BuysBack, StateOK
<1>2. /\ StateTyped(t) /\ AuctionsGrow(s, t) /\ Sold(t) /\ ~Bidding(t) /\ RateFirst(t)
      /\ RowBecomes(s, t, n, TypeIn(s, n), "finalised") /\ n \in 1 .. MaxAuctions
      /\ AuctionLogs(s, t, b, <<a>>)
  BY <1>1, FinaliseKeeps
<1>3. SupplyHeld(t) /\ SameButSupply(s.bond, t.bond)
  BY <1>1, RedeemHeld
<1>4. StateOK(t)
  BY <1>1, <1>2, <1>3 DEF StateOK, SameButSupply
<1>5. BondPasses(s, t, b) /\ ~Deploys(s, t)
  BY <1>1, <1>3, TermsKept DEF SameButSupply
<1>6. SameLife(s, t)
  BY <1>3 DEF SameLife, SameButSupply
<1>7. ManagerLogs(s, t, b, logs)
  <2>1. StatusAfter(d.event) = "finalised" /\ d.event = "BondAuctionFinalised" /\ d.v = n /\ Places(d)
    BY DEF LogOf, StatusAfter
  <2>2. ChangedLogs(s, t, <<d>>, d, n)
    BY <1>2, <1>6, <2>1 DEF ChangedLogs
  <2>3. BoughtLogs(s, t, <<c, d>>, c, d, n)
    BY <2>2 DEF BoughtLogs
  <2>4. BoughtLogs(s, t, logs, c, d, n) \/ FailedBuyback(s, t, logs, x, c, d, n)
    <3>1. CASE logs = <<c, d>>
      BY <2>3, <3>1
    <3>2. CASE logs = <<x, c, d>>
      BY <2>3, <3>2 DEF FailedBuyback, AfterFailures
    <3> QED BY <3>1, <3>2 DEF AfterFailures
  <2> QED BY <2>4, Zenon DEF ManagerLogs
<1>8. LifecycleLogs(s, t, b, token)
  <2>1. e.event \notin LifeEvents
    BY DEF TransferOf, LifeEvents, OfferingEvents
  <2>2. Lifeless(token)
    BY <2>1 DEF Lifeless, RedeemForm
  <2>3. PlainLogs(s, t, token)
    BY <1>3, <1>5, <2>2 DEF PlainLogs, SameButSupply
  <2> QED BY <2>3 DEF LifecycleLogs
<1>9. MoneyLogs(s, t, b, token)
  BY <1>1, RedeemMoney
<1> QED BY <1>2, <1>4, <1>5, <1>7, <1>8, <1>9 DEF Transits, Passage

LEMMA MinedBuyback ==
    ASSUME StateOK(contracts), Height \in Nat, NEW h \in Bidders, NEW units \in 1 .. Size, NEW delivered \in BOOLEAN,
           FinaliseBuyback(h, units, delivered)
    PROVE  Mined
<1> DEFINE bought == IF delivered THEN units ELSE 0
           c == Log("BondBuybackComplete", 0)
           d == Log("BondAuctionFinalised", N)
           a == Log("AuctionFinalized", N)
           e == Transfer(h, NoOne, bought)
           token == IF bought > 0 THEN <<e>> ELSE <<>>
           t == [bond |-> [Bond EXCEPT !.supply = @ - bought], auctions |-> Finalised(h, units),
                 bal |-> [contracts.bal EXCEPT ![h] = @ - bought]]
<1>1. InFlight /\ (delivered => units <= contracts.bal[h])
  BY DEF FinaliseBuyback, MayFinalise
<1>2. Mine(Failures(delivered) \o <<c, d>>, <<a>>, token, t)
  BY DEF FinaliseBuyback
<1>3. /\ Bond = contracts.bond /\ N = Latest(contracts) /\ Auctions = contracts.auctions /\ Bidding(contracts)
      /\ Now \in Nat /\ StateTyped(contracts)
  BY <1>1, StateNow
<1>4. units \in Nat /\ bought \in Nat /\ h \in Holders
  BY BondChainAssumption
<1>5. bought <= contracts.bal[h]
  <2>1. contracts.bal[h] \in Nat
    BY <1>3, <1>4, HoldingsInt, AccountSets
  <2> QED BY <1>1, <2>1
<1>6. t.bal = [contracts.bal EXCEPT ![h] = @ - bought] /\ t.bond = [contracts.bond EXCEPT !.supply = @ - bought]
      /\ t = [bond |-> t.bond, auctions |-> Finalised(h, units), bal |-> t.bal]
  BY <1>3
<1>7. RedeemForm(Placed(token), At(e, 1), bought)
  <2>1. CASE bought > 0
    <3>1. token = <<e>>
      BY <2>1
    <3> QED BY <3>1, PlacedOne DEF RedeemForm
  <2>2. CASE ~(bought > 0)
    <3>1. token = <<>> /\ bought = 0
      BY <1>4, <2>2
    <3> QED BY <3>1, PlacedNone DEF RedeemForm
  <2> QED BY <2>1, <2>2
<1> HIDE DEF bought, c, d, a, token, t
<1>8. Redeems(contracts, t, h, bought)
  BY <1>4, <1>5, <1>6 DEF Redeems
<1>9. t.bal \in [Owners -> Nat] /\ t.bond \in TermRows
  BY <1>8, RedeemHeld
<1>10. FinaliseTo(contracts, t, N, h, units, t.bond, t.bal)
  BY <1>3, <1>4, <1>6, <1>9 DEF FinaliseTo, Finalised
<1>11. BuysBack(contracts, t, N, h, units, bought)
  BY <1>3, <1>8, <1>10 DEF BuysBack
<1>12. \A i \in Nat : LogOf(At(c, i), "BondBuybackComplete", 0, Now) /\ LogOf(At(d, i), "BondAuctionFinalised", N, Now)
  BY LogAt DEF c, d
<1>13. AllocationLog(At(a, 1), N, Now)
  <2>1. LogOf(At(a, 1), "AuctionFinalized", N, Now)
    BY LogAt DEF a
  <2> QED BY <2>1 DEF LogOf, AllocationLog
<1>14. TransferOf(At(e, 1), h, NoOne, bought, Now)
  BY TransferAt
<1> HIDE DEF e
<1>19. PICK x : \E i, j \in Nat : AfterFailures(Placed(Failures(delivered) \o <<c, d>>), x, At(c, i), At(d, j))
  BY FailuresPlaced, Zenon
<1>15. PICK i, j \in Nat : AfterFailures(Placed(Failures(delivered) \o <<c, d>>), x, At(c, i), At(d, j))
  BY <1>19, Zenon
<1>16. ~Read(At(c, i)) /\ LogOf(At(d, j), "BondAuctionFinalised", N, Now)
  BY <1>12 DEF LogOf, Read, Unprojected
<1>17. Transits(contracts, t, Now, Placed(Failures(delivered) \o <<c, d>>), <<At(a, 1)>>, Placed(token))
  BY <1>3, <1>7, <1>11, <1>13, <1>14, <1>15, <1>16, BuybackTransits
<1>18. Transits(contracts, t, Now, Placed(Failures(delivered) \o <<c, d>>), Placed(<<a>>), Placed(token))
  BY <1>17, PlacedOne
<1> QED BY <1>2, <1>18, MinedBlock

-----------------------------------------------------------------------------
(* Transfers and coupons                                                    *)

\* transferByPartition
GiveTo(s, t, from, to) == t = [s EXCEPT !.bal[from] = @ - 1, !.bal[to] = @ + 1]
LEMMA GiveTransits ==
    ASSUME NEW s, NEW t, NEW b \in Nat, NEW from \in Holders, NEW to \in Holders, from # to, StateOK(s),
           s.bal[from] > 0, GiveTo(s, t, from, to), NEW e, TransferOf(e, from, to, 1, b)
    PROVE  Transits(s, t, b, <<>>, <<>>, <<e>>)
<1>1. /\ StateTyped(s) /\ SupplyHeld(s) /\ RateFirst(s) /\ (~Sold(s) => Unissued(s))
      /\ (~s.bond.active => ~Sold(s) /\ ~Bidding(s)) /\ (s.bond.matured => s.bond.count >= Periods)
  BY DEF StateOK
<1>2. /\ from \in Owners /\ to \in Owners /\ IsFiniteSet(Owners) /\ NoOne \notin Owners
      /\ Owners \subseteq Accounts /\ NoOne \in Accounts
  BY AccountSets
<1>3. /\ s.bal \in [Owners -> Nat] /\ s.bond \in TermRows /\ s.auctions \in Seq(AuctionStates)
      /\ s = [bond |-> s.bond, auctions |-> s.auctions, bal |-> s.bal] /\ s.bond.supply \in Nat
      /\ \A a \in Owners : s.bal[a] \in Nat
  BY <1>1, TypedParts
<1>4. s.bond.active
  <2>1. s.bond.supply > 0
    BY <1>1, <1>2, HeldBelow
  <2> QED BY <1>1, <2>1 DEF Unissued
<1> DEFINE mid == [s.bal EXCEPT ![from] = @ - 1]
<1>5. mid \in [Owners -> Nat] /\ mid[from] = s.bal[from] - 1 /\ mid[to] = s.bal[to]
  BY <1>2, <1>3
<1>6. t.bal = [mid EXCEPT ![to] = @ + 1] /\ t.bond = s.bond /\ t.auctions = s.auctions
      /\ t = [bond |-> s.bond, auctions |-> s.auctions, bal |-> t.bal]
  BY <1>3 DEF GiveTo
<1>7. t.bal \in [Owners -> Nat] /\ t.bal[to] = mid[to] + 1
  BY <1>2, <1>5, <1>6
<1>8. SameBut(s.bal, mid, Owners, from) /\ SameBut(mid, t.bal, Owners, to)
  BY <1>2, <1>3, <1>5, <1>6, <1>7 DEF SameBut
<1>9. \A a \in Owners : t.bal[a] = s.bal[a] + (IF a = to THEN 1 ELSE 0) - (IF a = from THEN 1 ELSE 0)
  BY <1>2, <1>3, <1>5, <1>6
<1> HIDE DEF mid
<1>10. SumFunction(mid) = SumFunction(s.bal) + (mid[from] - s.bal[from]) /\ SumFunction(s.bal) \in Int
  BY <1>8, SumUp
<1>11. SumFunction(t.bal) = SumFunction(mid) + (t.bal[to] - mid[to])
  BY <1>8, SumUp
<1>12. s.bal[from] \in Nat /\ s.bal[to] \in Nat
  BY <1>2, <1>3
<1>13. SupplyHeld(t)
  BY <1>1, <1>5, <1>6, <1>7, <1>10, <1>11, <1>12 DEF SupplyHeld
<1>14. StateTyped(t)
  <2>1. t \in ContractStates
    BY <1>3, <1>6, <1>7 DEF ContractStates
  <2> QED BY <1>1, <1>6, <2>1 DEF StateTyped, Latest
<1>15. /\ SameRows(s, t) /\ SameRowBids(s, t) /\ (Sold(t) <=> Sold(s)) /\ (Bidding(t) <=> Bidding(s))
       /\ RateFirst(t) /\ AuctionsGrow(s, t) /\ Latest(t) = Latest(s)
  BY <1>1, <1>6, SameAuctionStates
<1>16. StateOK(t)
  <2>1. ~Sold(t) => Unissued(t)
    BY <1>1, <1>6, <1>15 DEF Unissued
  <2> QED BY <1>1, <1>4, <1>6, <1>13, <1>14, <1>15, <2>1 DEF StateOK
<1>17. BondPasses(s, t, b) /\ ~Deploys(s, t) /\ SameLife(s, t)
  BY <1>1, <1>4, <1>6, TermsKept DEF SameLife
<1>18. LifecycleLogs(s, t, b, <<e>>)
  <2>1. Lifeless(<<e>>)
    BY DEF Lifeless, TransferOf, LifeEvents, OfferingEvents
  <2>2. PlainLogs(s, t, <<e>>)
    BY <1>6, <1>17, <2>1 DEF PlainLogs
  <2> QED BY <2>2 DEF LifecycleLogs
<1>19. MoneyLogs(s, t, b, <<e>>)
  <2>1. Counted(e, b) /\ \A a \in Accounts : Gain(e, a) = (IF a = to THEN 1 ELSE 0) - (IF a = from THEN 1 ELSE 0)
    BY TransferCounted
  <2>2. Countable(<<e>>, b) /\ \A a \in Accounts : GainsTo(<<e>>, a, Len(<<e>>)) = Gain(e, a)
    BY <2>1, GainsOne
  <2> DEFINE logs == <<e>>
  <2> HIDE DEF logs
  <2>3. ASSUME NEW a \in Owners
        PROVE  s.bal[a] \in Int /\ t.bal[a] \in Int /\ t.bal[a] = s.bal[a] + GainsTo(logs, a, Len(logs))
    <3>1. GainsTo(logs, a, Len(logs)) = (IF a = to THEN 1 ELSE 0) - (IF a = from THEN 1 ELSE 0)
      BY <1>2, <2>1, <2>2 DEF logs
    <3>2. s.bal[a] \in Int /\ t.bal[a] \in Int
      BY <1>3, <1>7
    <3> QED BY <1>9, <3>1, <3>2
  <2>4. GainsTo(logs, NoOne, Len(logs)) = 0
    <3>1. GainsTo(logs, NoOne, Len(logs)) = 0 - 0
      BY <1>2, <2>1, <2>2 DEF logs
    <3> QED BY <3>1
  <2>5. Countable(logs, b)
    BY <2>2 DEF logs
  <2>6. MoneyLogs(s, t, b, logs)
    BY <1>3, <1>6, <2>3, <2>4, <2>5 DEF MoneyLogs
  <2> QED BY <2>6 DEF logs
<1> QED BY <1>15, <1>16, <1>17, <1>18, <1>19, NoManager, NoAuction DEF Transits, Passage

LEMMA MinedGive ==
    ASSUME StateOK(contracts), Height \in Nat, NEW from \in Holders, NEW to \in Holders, Give(from, to)
    PROVE  Mined
<1> DEFINE e == Transfer(from, to, 1)
           t == [contracts EXCEPT !.bal[from] = @ - 1, !.bal[to] = @ + 1]
<1>1. from # to /\ contracts.bal[from] > 0
  BY DEF Give
<1>2. Mine(<<>>, <<>>, <<e>>, t)
  BY DEF Give
<1>3. Now \in Nat
  BY StateNow
<1>4. TransferOf(At(e, 1), from, to, 1, Now)
  BY TransferAt
<1>5. GiveTo(contracts, t, from, to)
  BY DEF GiveTo
<1> HIDE DEF e, t
<1>6. Transits(contracts, t, Now, <<>>, <<>>, <<At(e, 1)>>)
  BY <1>1, <1>3, <1>4, <1>5, GiveTransits
<1>7. Transits(contracts, t, Now, Placed(<<>>), Placed(<<>>), Placed(<<e>>))
  BY <1>6, PlacedOne, PlacedNone
<1> QED BY <1>2, <1>7, MinedBlock

\* Elements that count for nothing may be left out of a sum.
LEMMA SumOfSupport ==
    ASSUME NEW S, NEW T, NEW f, CountsPart(f, S, T), \A x \in S \ T : f[x] = 0
    PROVE  SumFunctionOnSet(f, S) = SumFunctionOnSet(f, T)
<1> USE DEF CountsPart
<1> DEFINE F == {U \in SUBSET S : T \subseteq U /\ SumFunctionOnSet(f, U) # SumFunctionOnSet(f, T)}
<1> SUFFICES ASSUME F # {} PROVE FALSE
  OBVIOUS
<1>1. \E U \in F : \A V \in F : V \subseteq U => V = U
  <2>1. Fails(F, S)
    BY DEF Fails
  <2> HIDE DEF F
  <2>2. Least(F)
    BY <2>1, LeastFailure
  <2> QED BY <2>2 DEF Least
<1>2. PICK U \in F : \A V \in F : V \subseteq U => V = U
  BY <1>1
<1>3. U \in SUBSET S /\ T \subseteq U /\ SumFunctionOnSet(f, U) # SumFunctionOnSet(f, T)
  BY <1>2
<1>4. PICK b \in U \ T : TRUE
  BY <1>3
<1> DEFINE V == U \ {b}
<1>5. V \in SUBSET S /\ T \subseteq V /\ V \notin F
  BY <1>2, <1>3, <1>4
<1>6. SumFunctionOnSet(f, V) = SumFunctionOnSet(f, T)
  BY <1>5
<1> HIDE DEF F
<1>7. /\ IsFiniteSet(U) /\ IsFiniteSet(V) /\ b \in U
      /\ (\A x \in U : f[x] \in Int) /\ (\A x \in V : f[x] \in Int) /\ f[b] = 0
  BY <1>3, <1>4, <1>5, FS_Subset
<1>8. SumFunctionOnSet(f, U) = f[b] + SumFunctionOnSet(f, V) /\ SumFunctionOnSet(f, V) \in Int
  BY <1>7, SumRemove, SumInt
<1> HIDE DEF V
<1> QED BY <1>3, <1>6, <1>7, <1>8

\* One that counts alone is the sum.
LEMMA SumOfOne ==
    ASSUME NEW S, IsFiniteSet(S), NEW f, NEW a \in S, f[a] \in Int, \A x \in S \ {a} : f[x] = 0
    PROVE  SumFunctionOnSet(f, S) = f[a]
<1> DEFINE g == [x \in S |-> 0]
<1>1. ChangedAt(g, f, S, a) /\ g[a] = 0
  BY DEF ChangedAt
<1>2. SumFunctionOnSet(g, S) = 0
  <2>1. \A x \in S : g[x] = 0
    OBVIOUS
  <2> HIDE DEF g
  <2> QED BY <2>1, SumZero
<1> HIDE DEF g
<1>3. SumFunctionOnSet(f, S) = SumFunctionOnSet(g, S) - g[a] + f[a]
  BY <1>1, SumChange
<1> QED BY <1>1, <1>2, <1>3

\* q lists the members of S, each once.
Lists(q, n, S) ==
    /\ n \in Nat /\ q \in Seq(S) /\ Len(q) = n /\ DOMAIN q = 1 .. n
    /\ \A j, k \in 1 .. n : q[j] = q[k] => j = k
    /\ \A x \in S : \E k \in 1 .. n : q[k] = x
    /\ \A k \in 1 .. n : q[k] \in S

LEMMA SetToSeqLists ==
    ASSUME NEW S, IsFiniteSet(S)
    PROVE  Lists(SetToSeq(S), Cardinality(S), S)
<1> DEFINE n == Cardinality(S)
           D == 1 .. n
<1>1. n \in Nat /\ ExistsBijection(D, S) /\ IsFiniteSet(D) /\ Cardinality(D) = n
  BY FS_CardinalityType, FS_Interval
<1>2. PICK f : f \in Bijection(D, S)
  BY <1>1 DEF ExistsBijection
<1>3. f \in [D -> S] /\ IsInjective(f)
  BY <1>2 DEF Bijection, Injection, IsInjective
<1>4. SetToSeq(S) \in [D -> S] /\ IsInjective(SetToSeq(S))
  BY <1>3, Zenon DEF SetToSeq
<1>5. PICK q : q = SetToSeq(S)
  OBVIOUS
<1>6. q \in [D -> S] /\ IsInjective(q)
  BY <1>4, <1>5
<1>7. q \in Injection(D, S)
  BY <1>6 DEF Injection
<1>8. q \in Surjection(D, S)
  BY <1>1, <1>7, FS_Injection
<1> HIDE DEF n
<1>9. q \in Seq(S) /\ Len(q) = n /\ DOMAIN q = 1 .. n
  BY <1>1, <1>6
<1>10. \A x \in S : \E k \in 1 .. n : q[k] = x
  BY <1>8 DEF Surjection
<1>11. \A j, k \in 1 .. n : q[j] = q[k] => j = k
  BY <1>6 DEF IsInjective
<1>12. Lists(q, n, S)
  BY <1>1, <1>6, <1>9, <1>10, <1>11 DEF Lists
<1> QED BY <1>5, <1>12 DEF n

\* The final coupon burns what every holder and the manager hold.
Paid(s) == {h \in Holders : s.bal[h] > 0}
Burns(s, b, logs, q, n) ==
    /\ StateTyped(s) /\ b \in Int /\ Lists(q, n, Paid(s))
    /\ \A k \in 1 .. n : TransferOf(logs[k], q[k], NoOne, s.bal[q[k]], b)
    /\ \/ Len(logs) = n /\ s.bal[Manager] = 0
       \/ Len(logs) = n + 1 /\ TransferOf(logs[n + 1], Manager, NoOne, s.bal[Manager], b)

\* What the first n logs, and the last, take from everybody
BurnGains(s, b, logs, q, n) ==
    /\ n \in Nat /\ StateTyped(s) /\ \A a \in Owners : s.bal[a] \in Nat
    /\ \A k \in 1 .. n : q[k] \in Paid(s) /\ s.bal[q[k]] \in Nat /\ Counted(logs[k], b)
    /\ \A k \in 1 .. n : \A a \in Accounts :
         Gain(logs[k], a) = (IF a = NoOne THEN s.bal[q[k]] ELSE 0) - (IF a = q[k] THEN s.bal[q[k]] ELSE 0)
    /\ Len(logs) = n + 1 => /\ Counted(logs[n + 1], b)
                            /\ \A a \in Accounts : Gain(logs[n + 1], a) =
                                 (IF a = NoOne THEN s.bal[Manager] ELSE 0) - (IF a = Manager THEN s.bal[Manager] ELSE 0)
    /\ Len(logs) = n \/ Len(logs) = n + 1

LEMMA BurntEach ==
    ASSUME NEW s, NEW b, NEW logs, NEW q, NEW n, Burns(s, b, logs, q, n)
    PROVE  BurnGains(s, b, logs, q, n)
<1>1. n \in Nat /\ StateTyped(s) /\ b \in Int /\ \A k \in 1 .. n : q[k] \in Paid(s)
  BY DEF Burns, Lists
<1>2. (\A a \in Owners : s.bal[a] \in Nat) /\ Holders \subseteq Owners /\ Manager \in Owners
  BY <1>1, HoldingsInt, AccountSets
<1>3. ASSUME NEW k \in 1 .. n
      PROVE  /\ q[k] \in Paid(s) /\ s.bal[q[k]] \in Nat /\ Counted(logs[k], b)
             /\ \A a \in Accounts :
                  Gain(logs[k], a) = (IF a = NoOne THEN s.bal[q[k]] ELSE 0) - (IF a = q[k] THEN s.bal[q[k]] ELSE 0)
  <2>1. q[k] \in Paid(s) /\ s.bal[q[k]] \in Nat
    BY <1>1, <1>2 DEF Paid
  <2>2. PICK v : v = s.bal[q[k]]
    OBVIOUS
  <2>3. TransferOf(logs[k], q[k], NoOne, v, b) /\ v \in Int
    BY <2>1, <2>2 DEF Burns
  <2>4. /\ Counted(logs[k], b)
        /\ \A a \in Accounts : Gain(logs[k], a) = (IF a = NoOne THEN v ELSE 0) - (IF a = q[k] THEN v ELSE 0)
    BY <1>1, <2>3, TransferCounted
  <2> QED BY <2>1, <2>2, <2>4
<1>4. ASSUME Len(logs) = n + 1
      PROVE  /\ Counted(logs[n + 1], b)
             /\ \A a \in Accounts : Gain(logs[n + 1], a) =
                  (IF a = NoOne THEN s.bal[Manager] ELSE 0) - (IF a = Manager THEN s.bal[Manager] ELSE 0)
  <2>1. PICK v : v = s.bal[Manager]
    OBVIOUS
  <2>2. TransferOf(logs[n + 1], Manager, NoOne, v, b) /\ v \in Int
    BY <1>1, <1>2, <1>4, <2>1 DEF Burns
  <2>3. /\ Counted(logs[n + 1], b)
        /\ \A a \in Accounts : Gain(logs[n + 1], a) = (IF a = NoOne THEN v ELSE 0) - (IF a = Manager THEN v ELSE 0)
    BY <1>1, <2>2, TransferCounted
  <2> QED BY <2>1, <2>3
<1>5. Len(logs) = n \/ Len(logs) = n + 1
  BY DEF Burns
<1> QED BY <1>1, <1>2, <1>3, <1>4, <1>5 DEF BurnGains

\* What the holders' burns come to
LEMMA BurntOf ==
    ASSUME NEW s, NEW b, NEW logs, NEW q, NEW n, Burns(s, b, logs, q, n), NEW a \in Owners
    PROVE  GainsTo(logs, a, n) = IF a = Manager THEN 0 ELSE 0 - s.bal[a]
<1>0. BurnGains(s, b, logs, q, n)
  BY BurntEach
<1>1. /\ n \in Nat /\ (\A x \in Owners : s.bal[x] \in Nat)
      /\ \A k \in 1 .. n : q[k] \in Paid(s)
      /\ \A k \in 1 .. n : \A x \in Accounts :
           Gain(logs[k], x) = (IF x = NoOne THEN s.bal[q[k]] ELSE 0) - (IF x = q[k] THEN s.bal[q[k]] ELSE 0)
  BY <1>0, Zenon DEF BurnGains
<1>2. a \in Accounts /\ a # NoOne /\ s.bal[a] \in Nat /\ Manager \notin Holders /\ Owners = Holders \cup {Manager}
  BY <1>1, AccountSets DEF Owners
<1> DEFINE g == [j \in 1 .. n |-> Gain(logs[j], a)]
<1>3. ASSUME NEW k \in 1 .. n PROVE g[k] = IF a = q[k] THEN 0 - s.bal[a] ELSE 0
  <2>1. g[k] = (IF a = NoOne THEN s.bal[q[k]] ELSE 0) - (IF a = q[k] THEN s.bal[q[k]] ELSE 0)
    BY <1>1, <1>2
  <2> HIDE DEF g
  <2>2. CASE a = q[k]
    BY <1>2, <2>1, <2>2
  <2>3. CASE a # q[k]
    BY <1>2, <2>1, <2>3
  <2> QED BY <2>2, <2>3
<1>4. GainsTo(logs, a, n) = SumFunctionOnSet(g, 1 .. n)
  BY DEF GainsTo
<1> HIDE DEF g
<1>5. IsFiniteSet(1 .. n)
  BY <1>1, FS_Interval
<1>6. CASE a \in Paid(s)
  <2>1. PICK j \in 1 .. n : q[j] = a
    BY <1>6 DEF Burns, Lists
  <2>2. \A k \in (1 .. n) \ {j} : q[k] # a
    BY <2>1 DEF Burns, Lists
  <2>3. g[j] = 0 - s.bal[a] /\ g[j] \in Int /\ \A k \in (1 .. n) \ {j} : g[k] = 0
    BY <1>2, <1>3, <2>1, <2>2
  <2>4. SumFunctionOnSet(g, 1 .. n) = g[j]
    BY <1>5, <2>3, SumOfOne
  <2>5. a # Manager
    BY <1>2, <1>6 DEF Paid
  <2> QED BY <1>4, <2>3, <2>4, <2>5
<1>7. CASE a \notin Paid(s)
  <2>1. \A k \in 1 .. n : g[k] = 0
    BY <1>1, <1>3, <1>7
  <2>2. SumFunctionOnSet(g, 1 .. n) = 0
    BY <1>5, <2>1, SumZero
  <2>3. a = Manager \/ s.bal[a] = 0
    BY <1>2, <1>7 DEF Paid
  <2> QED BY <1>2, <1>4, <2>2, <2>3
<1> QED BY <1>6, <1>7

LEMMA BurntInAll ==
    ASSUME NEW s, NEW b, NEW logs, NEW q, NEW n, Burns(s, b, logs, q, n)
    PROVE  GainsTo(logs, NoOne, n) = SumFunctionOnSet(s.bal, Holders)
<1>0. BurnGains(s, b, logs, q, n)
  BY BurntEach
<1>1. /\ n \in Nat /\ (\A x \in Owners : s.bal[x] \in Nat)
      /\ \A k \in 1 .. n : q[k] \in Paid(s) /\ s.bal[q[k]] \in Nat /\ Counted(logs[k], b)
      /\ \A k \in 1 .. n : \A x \in Accounts :
           Gain(logs[k], x) = (IF x = NoOne THEN s.bal[q[k]] ELSE 0) - (IF x = q[k] THEN s.bal[q[k]] ELSE 0)
  BY <1>0, Zenon DEF BurnGains
<1>2. NoOne \in Accounts /\ NoOne \notin Owners /\ Holders \subseteq Owners /\ IsFiniteSet(Owners)
  BY AccountSets
<1>3. Paid(s) \subseteq Holders /\ IsFiniteSet(Holders)
  BY <1>2, FS_Subset DEF Paid
<1> DEFINE g == [j \in 1 .. n |-> Gain(logs[j], NoOne)]
<1>4. ASSUME NEW k \in 1 .. n PROVE g[k] = s.bal[q[k]]
  <2>1. g[k] = (IF NoOne = NoOne THEN s.bal[q[k]] ELSE 0) - (IF NoOne = q[k] THEN s.bal[q[k]] ELSE 0)
    BY <1>1, <1>2
  <2>2. NoOne # q[k]
    BY <1>1, <1>2, <1>3
  <2> HIDE DEF g
  <2> QED BY <1>1, <2>1, <2>2
<1>5. GainsTo(logs, NoOne, n) = SumFunctionOnSet(g, 1 .. n)
  BY DEF GainsTo
<1> HIDE DEF g
<1>6. SumFunctionOnSet(s.bal, Paid(s)) = SumFunctionOnSet(g, 1 .. n)
  <2> DEFINE D == 1 .. n
  <2>1. IsFiniteSet(D) /\ \A k \in D : g[k] \in Int /\ s.bal[q[k]] = g[k]
    <3>1. IsFiniteSet(D)
      BY <1>1, FS_Interval
    <3>2. ASSUME NEW k \in D PROVE g[k] \in Int /\ s.bal[q[k]] = g[k]
      <4>1. s.bal[q[k]] \in Nat
        BY <1>1
      <4>2. g[k] = s.bal[q[k]]
        BY <1>4
      <4> QED BY <4>1, <4>2
    <3> QED BY <3>1, <3>2
  <2>2. (\A j, k \in D : q[j] = q[k] => j = k) /\ {q[k] : k \in D} = Paid(s)
    BY DEF Burns, Lists
  <2>3. PICK bal : bal = s.bal
    OBVIOUS
  <2> HIDE DEF D
  <2>4. SumFunctionOnSet(bal, {q[k] : k \in D}) = SumFunctionOnSet(g, D)
    BY <2>1, <2>2, <2>3, SumRenamed
  <2> QED BY <2>2, <2>3, <2>4 DEF D
<1>8. SumFunctionOnSet(s.bal, Holders) = SumFunctionOnSet(s.bal, Paid(s))
  <2>1. CountsPart(s.bal, Holders, Paid(s))
    BY <1>1, <1>2, <1>3 DEF CountsPart
  <2>2. \A x \in Holders \ Paid(s) : s.bal[x] = 0
    BY <1>1, <1>2 DEF Paid
  <2> QED BY <2>1, <2>2, SumOfSupport
<1> QED BY <1>5, <1>6, <1>8

AllBurnt(s, t) == t.bal = [a \in Owners |-> 0] /\ t.bond.supply = 0
LEMMA BurntMoney ==
    ASSUME NEW s, NEW t, NEW b, NEW logs, NEW q, NEW n, Burns(s, b, logs, q, n), SupplyHeld(s), AllBurnt(s, t)
    PROVE  MoneyLogs(s, t, b, logs)
<1>0. BurnGains(s, b, logs, q, n)
  BY BurntEach
<1>1. /\ n \in Nat /\ StateTyped(s) /\ (\A a \in Owners : s.bal[a] \in Nat)
      /\ \A k \in 1 .. n : Counted(logs[k], b)
      /\ (Len(logs) = n + 1 => /\ Counted(logs[n + 1], b)
                               /\ \A a \in Accounts : Gain(logs[n + 1], a) =
                                    (IF a = NoOne THEN s.bal[Manager] ELSE 0) - (IF a = Manager THEN s.bal[Manager] ELSE 0))
      /\ (Len(logs) = n \/ Len(logs) = n + 1)
  BY <1>0, Zenon DEF BurnGains
<1>2. /\ NoOne \in Accounts /\ NoOne \notin Owners /\ Owners = Holders \cup {Manager} /\ IsFiniteSet(Owners)
      /\ Manager \in Owners /\ Owners \subseteq Accounts /\ Owners \ {Manager} = Holders
  BY AccountSets DEF Owners
<1>3. Len(logs) = n => s.bal[Manager] = 0
  BY <1>1 DEF Burns
<1>4. Countable(logs, b)
  <2>1. ASSUME NEW k \in 1 .. Len(logs) PROVE Counted(logs[k], b)
    <3>1. k \in 1 .. n \/ (Len(logs) = n + 1 /\ k = n + 1)
      BY <1>1
    <3> QED BY <1>1, <3>1
  <2>2. b \in Int
    BY DEF Burns
  <2> QED BY <1>1, <2>1, <2>2 DEF Countable, Counted
<1>5. ASSUME NEW a \in Accounts
      PROVE  /\ GainsTo(logs, a, n) \in Int
             /\ GainsTo(logs, a, Len(logs)) = GainsTo(logs, a, n)
                  + (IF a = NoOne THEN s.bal[Manager] ELSE 0) - (IF a = Manager THEN s.bal[Manager] ELSE 0)
  <2>0. GainsTo(logs, a, n) \in Int
    <3>1. IsFiniteSet(1 .. n) /\ \A j \in 1 .. n : Gain(logs[j], a) \in Int
      BY <1>1, FS_Interval DEF Counted
    <3> DEFINE g == [j \in 1 .. n |-> Gain(logs[j], a)]
    <3>2. \A j \in 1 .. n : g[j] \in Int
      BY <3>1
    <3> HIDE DEF g
    <3>3. SumFunctionOnSet(g, 1 .. n) \in Int
      BY <3>1, <3>2, SumInt
    <3> QED BY <3>3 DEF g, GainsTo
  <2>1. CASE Len(logs) = n
    BY <1>3, <2>0, <2>1
  <2>2. CASE Len(logs) = n + 1
    <3>1. (\A j \in 1 .. n + 1 : Gain(logs[j], a) \in Int) /\ n + 1 \in Nat \ {0} /\ (n + 1) - 1 = n
      BY <1>1, <1>4, <2>2 DEF Countable
    <3>2. GainsTo(logs, a, n + 1) = GainsTo(logs, a, (n + 1) - 1) + Gain(logs[n + 1], a)
      BY <3>1, GainsMore
    <3>3. Gain(logs[n + 1], a) = (IF a = NoOne THEN s.bal[Manager] ELSE 0) - (IF a = Manager THEN s.bal[Manager] ELSE 0)
      BY <1>1, <2>2
    <3>4. s.bal[Manager] \in Nat
      BY <1>1, <1>2
    <3> QED BY <2>0, <2>2, <3>1, <3>2, <3>3, <3>4
  <2> QED BY <1>1, <2>0, <2>1, <2>2
<1>6. ASSUME NEW a \in Owners
      PROVE  s.bal[a] \in Int /\ t.bal[a] \in Int /\ t.bal[a] = s.bal[a] + GainsTo(logs, a, Len(logs))
  <2>1. GainsTo(logs, a, n) = IF a = Manager THEN 0 ELSE 0 - s.bal[a]
    BY BurntOf
  <2>2. GainsTo(logs, a, Len(logs)) = GainsTo(logs, a, n)
           + (IF a = NoOne THEN s.bal[Manager] ELSE 0) - (IF a = Manager THEN s.bal[Manager] ELSE 0)
    BY <1>2, <1>5
  <2>3. a # NoOne /\ s.bal[a] \in Nat /\ t.bal[a] = 0
    BY <1>1, <1>2 DEF AllBurnt
  <2>4. CASE a = Manager
    BY <2>1, <2>2, <2>3, <2>4
  <2>5. CASE a # Manager
    BY <2>1, <2>2, <2>3, <2>5
  <2> QED BY <2>4, <2>5
<1>7. t.bond.supply = s.bond.supply - GainsTo(logs, NoOne, Len(logs)) /\ s.bond.supply \in Nat
  <2>1. SumFunctionOnSet(s.bal, Owners) = s.bal[Manager] + SumFunctionOnSet(s.bal, Owners \ {Manager})
    BY <1>1, <1>2, SumRemove
  <2>2. s.bond.supply = SumFunctionOnSet(s.bal, Owners) /\ s.bond.supply \in Nat
    <3>1. DOMAIN s.bal = Owners /\ s.bond.supply \in Nat
      BY <1>1, HoldingsInt
    <3> QED BY <3>1 DEF SupplyHeld, SumFunction
  <2>3. GainsTo(logs, NoOne, n) = SumFunctionOnSet(s.bal, Holders) /\ GainsTo(logs, NoOne, n) \in Int
    BY <1>2, <1>5, BurntInAll
  <2>4. GainsTo(logs, NoOne, Len(logs)) = GainsTo(logs, NoOne, n) + s.bal[Manager]
    <3>1. GainsTo(logs, NoOne, Len(logs)) = GainsTo(logs, NoOne, n) + s.bal[Manager] - 0
      BY <1>2, <1>5
    <3> QED BY <1>1, <1>2, <2>3, <3>1
  <2>5. t.bond.supply = 0 /\ s.bal[Manager] \in Nat
    BY <1>1, <1>2 DEF AllBurnt
  <2>6. SumFunctionOnSet(s.bal, Owners \ {Manager}) = SumFunctionOnSet(s.bal, Holders)
    BY <1>2
  <2>7. s.bond.supply = s.bal[Manager] + GainsTo(logs, NoOne, n)
    BY <2>1, <2>2, <2>3, <2>6
  <2> QED BY <2>2, <2>3, <2>4, <2>5, <2>7
<1>8. t.bond.supply \in Int
  BY DEF AllBurnt
<1> QED BY <1>4, <1>6, <1>7, <1>8 DEF MoneyLogs

\* The places of the logs of a sequence
LEMMA PlacedSeq ==
    ASSUME NEW S, NEW logs \in Seq(S)
    PROVE  /\ Len(Placed(logs)) = Len(logs) /\ Len(logs) \in Nat /\ DOMAIN Placed(logs) = 1 .. Len(logs)
           /\ \A k \in 1 .. Len(logs) : Placed(logs)[k] = At(logs[k], k)
<1>1. DOMAIN logs = 1 .. Len(logs) /\ Len(logs) \in Nat
  OBVIOUS
<1>2. Placed(logs) = [k \in 1 .. Len(logs) |-> At(logs[k], k)]
  BY <1>1 DEF Placed, At
<1> QED BY <1>1, <1>2

\* A sequence over S of n logs with one more, or none
LEMMA LogsAndOne ==
    ASSUME NEW S, NEW n \in Nat, NEW logs \in Seq(S), Len(logs) = n, NEW e \in S
    PROVE  /\ logs \o <<e>> \in Seq(S) /\ Len(logs \o <<e>>) = n + 1 /\ (logs \o <<e>>)[n + 1] = e
           /\ \A k \in 1 .. n : (logs \o <<e>>)[k] = logs[k]
           /\ logs \o <<>> = logs
<1>1. <<e>> \in Seq(S) /\ Len(<<e>>) = 1 /\ <<e>>[1] = e
  OBVIOUS
<1>2. PICK f : f = <<e>>
  OBVIOUS
<1>3. f \in Seq(S) /\ Len(f) = 1 /\ f[1] = e
  BY <1>1, <1>2
<1>4. /\ logs \o f \in Seq(S) /\ Len(logs \o f) = Len(logs) + Len(f)
      /\ \A i \in 1 .. Len(logs) + Len(f) : (logs \o f)[i] = IF i <= Len(logs) THEN logs[i] ELSE f[i - Len(logs)]
  BY <1>3, ConcatProperties
<1>5. PICK r : r = logs \o f
  OBVIOUS
<1>50. /\ r \in Seq(S) /\ Len(r) = Len(logs) + Len(f)
       /\ \A i \in 1 .. Len(logs) + Len(f) : r[i] = IF i <= Len(logs) THEN logs[i] ELSE f[i - Len(logs)]
  BY <1>4, <1>5, Zenon
<1>6. /\ r \in Seq(S) /\ Len(r) = n + 1
      /\ \A i \in 1 .. n + 1 : r[i] = IF i <= n THEN logs[i] ELSE f[i - n]
  BY <1>3, <1>50
<1>7. r[n + 1] = e /\ \A k \in 1 .. n : r[k] = logs[k]
  <2>1. n + 1 \in 1 .. n + 1 /\ ~(n + 1 <= n) /\ (n + 1) - n = 1
    OBVIOUS
  <2>2. r[n + 1] = f[(n + 1) - n]
    BY <1>6, <2>1
  <2> QED BY <1>3, <1>6, <2>1, <2>2
<1>8. logs \o <<>> = logs
  BY ConcatEmptySeq
<1> QED BY <1>2, <1>5, <1>6, <1>7, <1>8

\* The logs of the payments to n holders
IsPaid(e, k, number) == e = Log("CouponPaid", number) \/ (k # 1 /\ e = Log("BondRedeemed", number))
ArePaid(u, w, number) == u = [k \in 1 .. w |-> u[k]] /\ \A k \in 1 .. w : IsPaid(u[k], k, number)
LEMMA PayoutsMade ==
    ASSUME NEW n \in Nat, NEW number, NEW final \in BOOLEAN, NEW u, u = Payouts(n, number, final)
    PROVE  \E w \in Nat : ArePaid(u, w, number)
<1>1. CASE final
  <2> DEFINE v == [k \in 1 .. 2 * n |-> Log(IF k % 2 = 1 THEN "CouponPaid" ELSE "BondRedeemed", number)]
  <2>1. u = v
    BY <1>1 DEF Payouts
  <2>2. ASSUME NEW k \in 1 .. 2 * n PROVE IsPaid(v[k], k, number)
    <3>1. v[k] = Log(IF k % 2 = 1 THEN "CouponPaid" ELSE "BondRedeemed", number)
      OBVIOUS
    <3> HIDE DEF v
    <3>2. k % 2 # 1 => k # 1
      OBVIOUS
    <3> QED BY <3>1, <3>2 DEF IsPaid
  <2>3. 2 * n \in Nat /\ v = [k \in 1 .. 2 * n |-> v[k]]
    OBVIOUS
  <2> HIDE DEF v
  <2> QED BY <2>1, <2>2, <2>3 DEF ArePaid
<1>2. CASE ~final
  <2> DEFINE v == [k \in 1 .. n |-> Log("CouponPaid", number)]
  <2>1. u = v
    BY <1>2 DEF Payouts
  <2>2. (\A k \in 1 .. n : IsPaid(v[k], k, number)) /\ v = [k \in 1 .. n |-> v[k]]
    BY DEF IsPaid
  <2> HIDE DEF v
  <2> QED BY <2>1, <2>2 DEF ArePaid
<1> QED BY <1>1, <1>2

\* The manager's logs of a coupon: those of the n payments, and of the period
CouponSequence(logs, u, p, m, final) ==
    logs = u \o <<p>> \o (IF final THEN <<m>> ELSE <<>>)
CouponPlaces(logs, n, u, p, m, final) ==
    /\ DOMAIN logs = 1 .. Len(logs)
    /\ \A k \in 1 .. n : logs[k] = At(u[k], k)
    /\ logs[n + 1] = At(p, n + 1)
    /\ IF final THEN Len(logs) = n + 2 /\ logs[n + 2] = At(m, n + 2) ELSE Len(logs) = n + 1

LEMMA CouponsPlaced ==
    ASSUME NEW n \in Nat, NEW u, u = [k \in 1 .. n |-> u[k]], NEW p, NEW m, NEW final \in BOOLEAN,
           NEW logs, CouponSequence(logs, u, p, m, final)
    PROVE  CouponPlaces(Placed(logs), n, u, p, m, final)
<1>1. PICK S : S = {u[k] : k \in 1 .. n} \cup {p, m}
  OBVIOUS
<1>2. p \in S /\ m \in S /\ \A k \in 1 .. n : u[k] \in S
  BY <1>1
<1>4. u \in Seq(S) /\ Len(u) = n
  BY <1>2
<1>5. PICK v : v = u \o <<p>>
  OBVIOUS
<1>6. v \in Seq(S) /\ Len(v) = n + 1 /\ v[n + 1] = p /\ \A k \in 1 .. n : v[k] = u[k]
  BY <1>2, <1>4, <1>5, LogsAndOne
<1>7. CASE final
  <2>1. logs = v \o <<m>>
    BY <1>5, <1>7 DEF CouponSequence
  <2>0. n + 1 \in Nat /\ (n + 1) + 1 = n + 2
    OBVIOUS
  <2>2. /\ logs \in Seq(S) /\ Len(logs) = (n + 1) + 1 /\ logs[(n + 1) + 1] = m
        /\ \A k \in 1 .. n + 1 : logs[k] = v[k]
    BY <1>2, <1>6, <2>0, <2>1, LogsAndOne
  <2>3. /\ Len(Placed(logs)) = Len(logs) /\ DOMAIN Placed(logs) = 1 .. Len(logs)
        /\ \A k \in 1 .. Len(logs) : Placed(logs)[k] = At(logs[k], k)
    BY <2>2, PlacedSeq
  <2>4. /\ \A k \in 1 .. n : Placed(logs)[k] = At(u[k], k)
        /\ Placed(logs)[n + 1] = At(p, n + 1) /\ Placed(logs)[n + 2] = At(m, n + 2)
    <3>1. ASSUME NEW k \in 1 .. n PROVE Placed(logs)[k] = At(u[k], k)
      <4>1. k \in 1 .. Len(logs) /\ logs[k] = u[k]
        BY <1>4, <1>6, <2>0, <2>2
      <4> QED BY <2>3, <4>1
    <3>2. n + 1 \in 1 .. Len(logs) /\ logs[n + 1] = p /\ n + 2 \in 1 .. Len(logs) /\ logs[n + 2] = m
      BY <1>6, <2>0, <2>2
    <3> QED BY <2>3, <3>1, <3>2
  <2> QED BY <1>7, <2>0, <2>2, <2>3, <2>4 DEF CouponPlaces
<1>8. CASE ~final
  <2>1. logs = v
    <3>1. logs = v \o <<>>
      BY <1>5, <1>8 DEF CouponSequence
    <3> QED BY <1>6, <3>1, ConcatEmptySeq
  <2>3. /\ Len(Placed(logs)) = Len(logs) /\ DOMAIN Placed(logs) = 1 .. Len(logs)
        /\ \A k \in 1 .. Len(logs) : Placed(logs)[k] = At(logs[k], k)
    BY <1>6, <2>1, PlacedSeq
  <2>4. /\ \A k \in 1 .. n : Placed(logs)[k] = At(u[k], k)
        /\ Placed(logs)[n + 1] = At(p, n + 1)
    <3>1. ASSUME NEW k \in 1 .. n PROVE Placed(logs)[k] = At(u[k], k)
      <4>1. k \in 1 .. Len(logs) /\ logs[k] = u[k]
        BY <1>4, <1>6, <2>1
      <4> QED BY <2>3, <4>1
    <3>2. n + 1 \in 1 .. Len(logs) /\ logs[n + 1] = p
      BY <1>6, <2>1
    <3> QED BY <2>3, <3>1, <3>2
  <2> QED BY <1>6, <1>8, <2>1, <2>3, <2>4 DEF CouponPlaces
<1> QED BY <1>7, <1>8

\* The token's logs of the final coupon
BurnSequence(logs, s, q) ==
    logs = [k \in DOMAIN q |-> Transfer(q[k], NoOne, s.bal[q[k]])]
           \o (IF s.bal[Manager] > 0 THEN <<Transfer(Manager, NoOne, s.bal[Manager])>> ELSE <<>>)

LEMMA BurnsPlaced ==
    ASSUME Height \in Nat, NEW s, StateTyped(s), NEW q, NEW n, Lists(q, n, Paid(s)), NEW logs, BurnSequence(logs, s, q)
    PROVE  Burns(s, Now, Placed(logs), q, n)
<1>1. n \in Nat /\ DOMAIN q = 1 .. n
  BY DEF Lists
<1> DEFINE m == Transfer(Manager, NoOne, s.bal[Manager])
           u == [k \in DOMAIN q |-> Transfer(q[k], NoOne, s.bal[q[k]])]
           S == {u[k] : k \in 1 .. n} \cup {m}
<1>2. u \in Seq(S) /\ Len(u) = n /\ m \in S
  BY <1>1
<1>3. ASSUME NEW k \in 1 .. n
      PROVE  TransferOf(At(u[k], k), q[k], NoOne, s.bal[q[k]], Now)
  <2>1. u[k] = Transfer(q[k], NoOne, s.bal[q[k]])
    BY <1>1
  <2> QED BY <2>1, TransferAt
<1>4. \A k : TransferOf(At(m, k), Manager, NoOne, s.bal[Manager], Now)
  BY TransferAt
<1>5. logs = u \o (IF s.bal[Manager] > 0 THEN <<m>> ELSE <<>>)
  BY DEF BurnSequence
<1> HIDE DEF u, m, S
<1>6. CASE s.bal[Manager] > 0
  <2>1. logs = u \o <<m>>
    BY <1>5, <1>6
  <2>2. logs \in Seq(S) /\ Len(logs) = n + 1 /\ logs[n + 1] = m /\ \A k \in 1 .. n : logs[k] = u[k]
    BY <1>1, <1>2, <2>1, LogsAndOne
  <2>3. /\ Len(Placed(logs)) = Len(logs)
        /\ \A k \in 1 .. Len(logs) : Placed(logs)[k] = At(logs[k], k)
    BY <2>2, PlacedSeq
  <2>4. ASSUME NEW k \in 1 .. n
        PROVE  TransferOf(Placed(logs)[k], q[k], NoOne, s.bal[q[k]], Now)
    <3>1. k \in 1 .. Len(logs) /\ logs[k] = u[k]
      BY <1>1, <2>2
    <3> QED BY <1>3, <2>3, <3>1
  <2>5. Placed(logs)[n + 1] = At(m, n + 1)
    <3>1. n + 1 \in 1 .. Len(logs) /\ logs[n + 1] = m
      BY <1>1, <2>2
    <3> QED BY <2>3, <3>1
  <2> QED BY <1>4, <2>2, <2>3, <2>4, <2>5 DEF Burns, Now
<1>7. CASE ~(s.bal[Manager] > 0)
  <2>1. logs = u
    <3>1. logs = u \o <<>>
      BY <1>5, <1>7
    <3> QED BY <1>2, <3>1, ConcatEmptySeq
  <2>3. /\ Len(Placed(logs)) = n
        /\ \A k \in 1 .. n : Placed(logs)[k] = At(u[k], k)
    BY <1>2, <2>1, PlacedSeq
  <2>4. ASSUME NEW k \in 1 .. n
        PROVE  TransferOf(Placed(logs)[k], q[k], NoOne, s.bal[q[k]], Now)
    BY <1>3, <2>3
  <2>5. s.bal[Manager] = 0
    <3>1. s.bal[Manager] \in Nat
      BY HoldingsInt, AccountSets
    <3> QED BY <1>7, <3>1
  <2> QED BY <2>3, <2>4, <2>5 DEF Burns, Now
<1> QED BY <1>6, <1>7

-----------------------------------------------------------------------------
(* payCoupon                                                                *)

\* The terms after a coupon, and the state it leaves
CouponTerms(r, u, final, b) ==
    /\ u \in TermRows /\ u.active = r.active /\ u.offering = r.offering /\ u.maturityDate = r.maturityDate
    /\ u.issued = r.issued /\ u.count = r.count + 1 /\ u.lastPayment = b /\ u.matured = final
    /\ IF final THEN u.supply = 0 ELSE u.supply = r.supply
PayTo(s, t, number, final, b) ==
    t = [s EXCEPT !.bond = [s.bond EXCEPT !.count = number, !.lastPayment = b, !.matured = final,
                                          !.supply = IF final THEN 0 ELSE @],
                  !.bal = IF final THEN [a \in Owners |-> 0] ELSE @]

LEMMA TermsPut ==
    ASSUME NEW r \in TermRows, NEW number \in Nat, number = r.count + 1, NEW final \in BOOLEAN, NEW b \in Nat,
           NEW v \in Nat, v = IF final THEN 0 ELSE r.supply,
           NEW u, u = [r EXCEPT !.count = number, !.lastPayment = b, !.matured = final, !.supply = v]
    PROVE  CouponTerms(r, u, final, b)
<1>1. u \in TermRows
  BY DEF TermRows
<1>2. u.active = r.active /\ u.offering = r.offering /\ u.maturityDate = r.maturityDate /\ u.issued = r.issued
  BY DEF TermRows
<1>3. u.count = number /\ u.lastPayment = b /\ u.supply = v
  BY DEF TermRows
<1>4. u.matured = final
  BY Zenon DEF TermRows
<1> QED BY <1>1, <1>2, <1>3, <1>4 DEF CouponTerms

LEMMA CouponMade ==
    ASSUME NEW s, NEW t, NEW number, NEW final \in BOOLEAN, NEW b \in Nat, StateTyped(s), SupplyHeld(s),
           number = s.bond.count + 1, PayTo(s, t, number, final, b)
    PROVE  /\ t \in ContractStates /\ t.auctions = s.auctions /\ CouponTerms(s.bond, t.bond, final, b)
           /\ SupplyHeld(t) /\ (final => AllBurnt(s, t)) /\ (~final => t.bal = s.bal)
<1>1. s \in ContractStates /\ s.bond \in TermRows /\ s.bal \in [Owners -> Nat] /\ s.auctions \in Seq(AuctionStates)
  BY DEF StateTyped, ContractStates
<1>2. number \in Nat /\ s.bond.supply \in Nat
  BY <1>1 DEF TermRows
<1> DEFINE v == IF final THEN 0 ELSE s.bond.supply
           u == [s.bond EXCEPT !.count = number, !.lastPayment = b, !.matured = final, !.supply = v]
           z == [a \in Owners |-> 0]
           bal == IF final THEN z ELSE s.bal
<1>3. t = [s EXCEPT !.bond = u, !.bal = bal]
  BY DEF PayTo
<1>4. v \in Nat /\ v = IF final THEN 0 ELSE s.bond.supply
  BY <1>2
<1>5. z \in [Owners -> Nat] /\ DOMAIN z = Owners /\ \A a \in Owners : z[a] = 0
  OBVIOUS
<1>6. bal \in [Owners -> Nat]
  BY <1>1, <1>5
<1> HIDE DEF v
<1>7. CouponTerms(s.bond, u, final, b)
  BY <1>1, <1>2, <1>4, TermsPut
<1> HIDE DEF u, bal, z
<1>8. t.bond = u /\ t.bal = bal /\ t.auctions = s.auctions /\ t \in ContractStates
  <2>1. u \in TermRows
    BY <1>7 DEF CouponTerms
  <2> QED BY <1>1, <1>3, <1>6, <2>1 DEF ContractStates
<1>9. CASE final
  <2>1. bal = z
    BY <1>9 DEF bal
  <2>2. SumFunctionOnSet(z, Owners) = 0
    <3>1. IsFiniteSet(Owners)
      BY AccountSets
    <3> QED BY <1>5, <3>1, SumZero
  <2>3. SumFunction(z) = 0
    BY <1>5, <2>2, Zenon DEF SumFunction
  <2>4. u.supply = 0
    BY <1>7, <1>9 DEF CouponTerms
  <2>5. AllBurnt(s, t)
    BY <1>8, <2>1, <2>4 DEF AllBurnt, z
  <2>6. SupplyHeld(t)
    BY <1>8, <2>1, <2>3, <2>4 DEF SupplyHeld
  <2> QED BY <1>7, <1>8, <1>9, <2>5, <2>6
<1>10. CASE ~final
  <2>1. bal = s.bal
    BY <1>10 DEF bal
  <2>2. u.supply = s.bond.supply
    BY <1>7, <1>10 DEF CouponTerms
  <2>3. SupplyHeld(t)
    BY <1>8, <2>1, <2>2 DEF SupplyHeld
  <2> QED BY <1>7, <1>8, <1>10, <2>1, <2>3
<1> QED BY <1>9, <1>10

\* The state before and after a coupon
Pays(s, t, final, b) ==
    /\ StateOK(s) /\ s.bond.maturityDate # 0 /\ s.bond.count < Periods
    /\ final <=> s.bond.count + 1 = Periods
    /\ PayTo(s, t, s.bond.count + 1, final, b)

LEMMA CouponKeeps ==
    ASSUME NEW s, NEW t, NEW final \in BOOLEAN, NEW b \in Nat, Pays(s, t, final, b)
    PROVE  /\ StateOK(t) /\ Passage(s, t, b) /\ SameRows(s, t) /\ SameRowBids(s, t) /\ SameTerms(s, t)
           /\ CouponTerms(s.bond, t.bond, final, b) /\ s.bond.matured = FALSE /\ s.bond \in TermRows
           /\ (final => AllBurnt(s, t)) /\ (~final => SameHoldings(s, t)) /\ StateTyped(s) /\ SupplyHeld(s)
<1>1. /\ StateOK(s) /\ StateTyped(s) /\ SupplyHeld(s) /\ RateFirst(s) /\ s.bond.maturityDate # 0
      /\ s.bond.count < Periods /\ (final <=> s.bond.count + 1 = Periods)
      /\ (~Sold(s) => Unissued(s)) /\ (~s.bond.active => ~Sold(s)) /\ (s.bond.matured => s.bond.count >= Periods)
      /\ PayTo(s, t, s.bond.count + 1, final, b)
  BY DEF Pays, StateOK
<1>2. s.bond \in TermRows /\ s \in ContractStates
  BY <1>1 DEF StateTyped, ContractStates
<1>3. /\ t \in ContractStates /\ t.auctions = s.auctions /\ CouponTerms(s.bond, t.bond, final, b)
      /\ SupplyHeld(t) /\ (final => AllBurnt(s, t)) /\ (~final => t.bal = s.bal)
  <2>1. PICK number : number = s.bond.count + 1
    OBVIOUS
  <2>2. PayTo(s, t, number, final, b)
    BY <1>1, <2>1
  <2> QED BY <1>1, <2>1, <2>2, CouponMade
<1>4. /\ SameRows(s, t) /\ SameRowBids(s, t) /\ (Sold(t) <=> Sold(s)) /\ (Bidding(t) <=> Bidding(s))
      /\ Latest(t) = Latest(s) /\ RateFirst(t) /\ AuctionsGrow(s, t)
  BY <1>1, <1>3, SameAuctionStates
<1>5. Sold(s) /\ s.bond.active
  BY <1>1 DEF Unissued
<1>6. /\ s.bond.count \in Nat /\ s.bond.matured \in BOOLEAN /\ s.bond.active \in BOOLEAN /\ Periods \in Nat
      /\ t.bond.active = s.bond.active /\ t.bond.count = s.bond.count + 1 /\ t.bond.matured = final
      /\ t.bond.offering = s.bond.offering /\ t.bond.maturityDate = s.bond.maturityDate /\ t.bond.lastPayment = b
  BY <1>2, <1>3, BondChainAssumption DEF TermRows, CouponTerms
<1>7. s.bond.matured = FALSE
  BY <1>1, <1>6
<1>8. StateOK(t)
  <2>1. StateTyped(t)
    BY <1>1, <1>3, <1>4 DEF StateTyped
  <2>2. t.bond.matured => t.bond.count >= Periods
    BY <1>1, <1>6
  <2> QED BY <1>3, <1>4, <1>5, <1>6, <2>1, <2>2 DEF StateOK
<1>9. BondPasses(s, t, b)
  BY <1>5, <1>6 DEF BondPasses, Enables
<1>10. SameTerms(s, t)
  BY <1>5, <1>6 DEF SameTerms, Deploys
<1>11. ~final => SameHoldings(s, t)
  BY <1>3 DEF SameHoldings, CouponTerms
<1> QED BY <1>1, <1>2, <1>3, <1>4, <1>7, <1>8, <1>9, <1>10, <1>11 DEF Passage

\* The logs of a coupon
PaidLog(e, k, v, b) == LogOf(e, "CouponPaid", v, b) \/ (k # 1 /\ LogOf(e, "BondRedeemed", v, b))
CouponBlock(s, b, logs, n, final) ==
    /\ n \in Nat /\ DOMAIN logs = 1 .. Len(logs)
    /\ \A k \in 1 .. n : PaidLog(logs[k], k, s.bond.count + 1, b)
    /\ LogOf(logs[n + 1], "CouponPeriodPaid", s.bond.count + 1, b)
    /\ IF final THEN Len(logs) = n + 2 /\ LogOf(logs[n + 2], "BondMatured", s.bond.count + 1, b)
                ELSE Len(logs) = n + 1
BurnBlock(s, b, token, q, n, final) == IF final THEN Burns(s, b, token, q, n) ELSE token = <<>>

LEMMA CouponTransits ==
    ASSUME NEW s, NEW t, NEW final \in BOOLEAN, NEW b \in Nat, Pays(s, t, final, b), NEW w, NEW logs,
           CouponBlock(s, b, logs, w, final),
           NEW n \in Nat, NEW token, NEW q, BurnBlock(s, b, token, q, n, final)
    PROVE  Transits(s, t, b, logs, <<>>, token)
<1>1. /\ StateOK(t) /\ Passage(s, t, b) /\ SameRows(s, t) /\ SameRowBids(s, t) /\ SameTerms(s, t)
      /\ CouponTerms(s.bond, t.bond, final, b) /\ s.bond.matured = FALSE /\ s.bond \in TermRows
      /\ (final => AllBurnt(s, t)) /\ (~final => SameHoldings(s, t)) /\ StateTyped(s) /\ SupplyHeld(s)
  BY CouponKeeps
<1>2. ManagerLogs(s, t, b, logs)
  <2> DEFINE m == w + 1
  <2>0. w \in Nat
    BY Zenon DEF CouponBlock
  <2>1. m \in Nat \ {0} /\ m + 1 = w + 2 /\ w \in Nat
    BY <2>0
  <2>2. t.bond.count = s.bond.count + 1 /\ s.bond.count \in Int
    BY <1>1 DEF CouponTerms, TermRows
  <2>3. \A k \in 1 .. m : IsCoupon(logs[k], t.bond.count, b) \/ (k # 1 /\ IsPayout(logs[k], t.bond.count, b))
    <3> TAKE k \in 1 .. m
    <3>1. k \in 1 .. w \/ k = w + 1
      BY <2>1
    <3> QED BY <2>2, <3>1 DEF CouponBlock, PaidLog, LogOf, IsCoupon, IsPayout
  <2>4. Coupons(s, t, b, logs, m)
    <3>1. DOMAIN logs = 1 .. Len(logs)
      BY DEF CouponBlock
    <3>2. t.bond.active = s.bond.active /\ t.bond.issued = s.bond.issued
      BY <1>1 DEF CouponTerms
    <3> HIDE DEF m
    <3>3. IsCoupon(logs[1], t.bond.count, b) /\ \A k \in 1 .. m : IsPayout(logs[k], t.bond.count, b)
      <4>1. 1 \in 1 .. m
        BY <2>1
      <4> QED BY <2>3, <4>1 DEF IsPayout
    <3> QED BY <1>1, <2>1, <2>2, <3>1, <3>2, <3>3 DEF Coupons
  <2>5. CouponTail(s, t, logs, m)
    <3>1. t.bond.matured = final
      BY <1>1 DEF CouponTerms
    <3>2. CASE final
      <4>1. Len(logs) = m + 1 /\ LogOf(logs[m + 1], "BondMatured", s.bond.count + 1, b)
        BY <2>1, <3>2 DEF CouponBlock
      <4> HIDE DEF m
      <4>2. t.bond.matured = TRUE
        BY <3>1, <3>2
      <4> QED BY <4>1, <4>2 DEF CouponTail, LogOf
    <3>3. CASE ~final
      <4>1. Len(logs) = m
        BY <3>3 DEF CouponBlock
      <4> HIDE DEF m
      <4>2. t.bond.matured = FALSE
        BY <3>1, <3>3
      <4> QED BY <1>1, <4>1, <4>2 DEF CouponTail
    <3> QED BY <3>2, <3>3
  <2> HIDE DEF m
  <2> QED BY <2>4, <2>5 DEF ManagerLogs
<1>3. LifecycleLogs(s, t, b, token) /\ MoneyLogs(s, t, b, token)
  <2>1. CASE final
    <3>1. Burns(s, b, token, q, n)
      BY <2>1 DEF BurnBlock
    <3>2. MoneyLogs(s, t, b, token)
      BY <1>1, <2>1, <3>1, BurntMoney
    <3>3. Lifeless(token)
      <4>1. \A k \in 1 .. Len(token) : token[k].event = "TransferByPartition"
        <5> TAKE k \in 1 .. Len(token)
        <5>1. n \in Nat
          OBVIOUS
        <5>2. k \in 1 .. n \/ (Len(token) = n + 1 /\ k = n + 1)
          BY <3>1, <5>1 DEF Burns
        <5> QED BY <3>1, <5>2 DEF Burns, TransferOf
      <4>2. Len(token) \in Nat
        <5>1. n \in Nat
          OBVIOUS
        <5>2. Len(token) = n \/ Len(token) = n + 1
          BY <3>1 DEF Burns
        <5> QED BY <5>1, <5>2
      <4> QED BY <4>1, <4>2 DEF Lifeless, LifeEvents, OfferingEvents
    <3>4. PlainLogs(s, t, token)
      BY <1>1, <3>3 DEF PlainLogs, SameTerms
    <3> QED BY <3>2, <3>4 DEF LifecycleLogs
  <2>2. CASE ~final
    <3>1. token = <<>> /\ b \in Int
      BY <2>2 DEF BurnBlock
    <3> QED BY <1>1, <2>2, <3>1, NoToken
  <2> QED BY <2>1, <2>2
<1> QED BY <1>1, <1>2, <1>3, NoAuction DEF Transits

LEMMA MinedCoupon ==
    ASSUME StateOK(contracts), Height \in Nat, PayCoupon
    PROVE  Mined
<1> DEFINE number == Bond.count + 1
           final  == number = Periods
           q      == SetToSeq(Paid(contracts))
           n      == Cardinality(Paid(contracts))
           u      == Payouts(Len(q), number, final)
           p      == Log("CouponPeriodPaid", number)
           m      == Log("BondMatured", number)
           logs   == u \o <<p>> \o (IF final THEN <<m>> ELSE <<>>)
           burns  == [k \in DOMAIN q |-> Transfer(q[k], NoOne, contracts.bal[q[k]])]
                     \o (IF contracts.bal[Manager] > 0 THEN <<Transfer(Manager, NoOne, contracts.bal[Manager])>> ELSE <<>>)
           token  == IF final THEN burns ELSE <<>>
           t      == [contracts EXCEPT
                        !.bond = [Bond EXCEPT !.count = number, !.lastPayment = Now, !.matured = final,
                                              !.supply = IF final THEN 0 ELSE @],
                        !.bal = IF final THEN [a \in Owners |-> 0] ELSE @]
<1>1. Bond.maturityDate # 0 /\ Bond.count < Periods
  BY DEF PayCoupon
<1>2. Mine(logs, <<>>, token, t)
  BY Zenon DEF PayCoupon, Paid
<1>3. Bond = contracts.bond /\ Now \in Nat /\ StateTyped(contracts)
  BY StateNow
<1>4. final \in BOOLEAN /\ (final <=> contracts.bond.count + 1 = Periods) /\ number = contracts.bond.count + 1
  BY <1>3
<1>5. PayTo(contracts, t, contracts.bond.count + 1, final, Now)
  BY <1>3, Zenon DEF PayTo
<1>6. CouponSequence(logs, u, p, m, final)
  BY Zenon DEF CouponSequence
<1>7. BurnSequence(burns, contracts, q)
  BY Zenon DEF BurnSequence
<1>8. IF final THEN token = burns ELSE token = <<>>
  BY DEF token
<1> HIDE DEF number, final, q, n, u, p, m, logs, burns, token, t
<1>9. Lists(q, n, Paid(contracts))
  <2>1. IsFiniteSet(Holders) /\ Paid(contracts) \subseteq Holders
    BY BondChainAssumption DEF Paid
  <2>2. IsFiniteSet(Paid(contracts))
    BY <2>1, FS_Subset
  <2> QED BY <2>2, SetToSeqLists DEF q, n
<1>10. n \in Nat /\ Len(q) = n
  BY <1>9 DEF Lists
<1>0. PICK w \in Nat : ArePaid(u, w, number)
  <2>1. u = Payouts(n, number, final)
    BY <1>10 DEF u
  <2> QED BY <1>4, <1>10, <2>1, PayoutsMade
<1>11. CouponPlaces(Placed(logs), w, u, p, m, final)
  BY <1>0, <1>4, <1>6, CouponsPlaced DEF ArePaid
<1>12. Burns(contracts, Now, Placed(burns), q, n)
  BY <1>3, <1>7, <1>9, BurnsPlaced
<1>13. CouponBlock(contracts, Now, Placed(logs), w, final)
  <2>1. ASSUME NEW k \in Nat
        PROVE  LogOf(At(p, k), "CouponPeriodPaid", number, Now) /\ LogOf(At(m, k), "BondMatured", number, Now)
    BY LogAt DEF p, m
  <2>3. w + 1 \in Nat /\ w + 2 \in Nat
    OBVIOUS
  <2>4. \A k \in 1 .. w : PaidLog(Placed(logs)[k], k, number, Now)
    <3> TAKE k \in 1 .. w
    <3>1. k \in Nat /\ Placed(logs)[k] = At(u[k], k) /\ IsPaid(u[k], k, number)
      BY <1>0, <1>11 DEF CouponPlaces, ArePaid
    <3>2. /\ LogOf(At(Log("CouponPaid", number), k), "CouponPaid", number, Now)
          /\ LogOf(At(Log("BondRedeemed", number), k), "BondRedeemed", number, Now)
      BY <3>1, LogAt
    <3> QED BY <3>1, <3>2 DEF IsPaid, PaidLog
  <2>5. LogOf(Placed(logs)[w + 1], "CouponPeriodPaid", number, Now)
    BY <1>11, <2>1, <2>3 DEF CouponPlaces
  <2>6. IF final THEN Len(Placed(logs)) = w + 2 /\ LogOf(Placed(logs)[w + 2], "BondMatured", number, Now)
                 ELSE Len(Placed(logs)) = w + 1
    BY <1>11, <2>1, <2>3 DEF CouponPlaces
  <2>7. DOMAIN Placed(logs) = 1 .. Len(Placed(logs))
    BY <1>11 DEF CouponPlaces
  <2> QED BY <1>4, <2>4, <2>5, <2>6, <2>7 DEF CouponBlock
<1>14. BurnBlock(contracts, Now, Placed(token), q, n, final)
  BY <1>8, <1>12, PlacedNone DEF BurnBlock
<1>15. Pays(contracts, t, final, Now)
  BY <1>1, <1>3, <1>4, <1>5 DEF Pays
<1>16. Transits(contracts, t, Now, Placed(logs), <<>>, Placed(token))
  BY <1>3, <1>4, <1>10, <1>13, <1>14, <1>15, CouponTransits
<1>17. Transits(contracts, t, Now, Placed(logs), Placed(<<>>), Placed(token))
  BY <1>16, PlacedNone
<1> QED BY <1>2, <1>17, MinedBlock

-----------------------------------------------------------------------------
(* The contracts stay in order                                              *)

LEMMA ChainStateOK ==
    ASSUME ChainOK
    PROVE  StateOK(contracts) /\ Height \in Nat
<1>1. Height \in Nat
  BY HeightNat DEF ChainOK
<1>2. CASE Height = 0
  BY <1>1, <1>2, InitialStateOK DEF ChainOK, StateAt
<1>3. CASE Height # 0
  <2>1. PICK h : h = Height
    OBVIOUS
  <2>2. h \in 1 .. Height /\ h # 0
    BY <1>1, <1>3, <2>1
  <2>3. Transaction(StateAt(h - 1), StateAt(h), h, chain[h])
    BY <2>2 DEF ChainOK
  <2> QED BY <1>1, <2>1, <2>3 DEF ChainOK, Transaction
<1> QED BY <1>2, <1>3

LEMMA ChainNextMined ==
    ASSUME StateOK(contracts), Height \in Nat, ChainNext
    PROVE  Mined
<1>1. CASE Deploy
  BY <1>1, MinedDeploy
<1>2. ASSUME NEW bids \in BidLists, DeployWithAuction(bids) PROVE Mined
  BY <1>2, MinedDeployOpen
<1>3. ASSUME NEW type \in {"RATE", "PRICE", "BUYBACK"}, NEW bids \in BidLists, Schedule(type, bids) PROVE Mined
  BY <1>3, MinedSchedule
<1>4. ASSUME NEW h \in Bidders, SubmitBid(h) PROVE Mined
  BY <1>4, MinedBid
<1>5. CASE Close
  BY <1>5, MinedClose
<1>6. CASE Cancel
  BY <1>6, MinedCancel
<1>7. ASSUME NEW h \in Bidders, NEW units \in 1 .. Size, NEW settled \in BOOLEAN,
             FinaliseIssuance(h, units, settled) \/ FinaliseBuyback(h, units, settled)
      PROVE  Mined
  BY <1>7, MinedIssuance, MinedBuyback
<1>8. ASSUME NEW from \in Holders, NEW to \in Holders, Give(from, to) PROVE Mined
  BY <1>8, MinedGive
<1>9. CASE PayCoupon
  BY <1>9, MinedCoupon
<1>10. CASE Disable
  BY <1>10, MinedDisable
<1> QED BY <1>1, <1>2, <1>3, <1>4, <1>5, <1>6, <1>7, <1>8, <1>9, <1>10 DEF ChainNext

LEMMA ChainKept ==
    ASSUME ChainOK, UNCHANGED chainVars
    PROVE  ChainOK'
<1>1. chain' = chain /\ contracts' = contracts
  BY DEF chainVars
<1> QED BY <1>1 DEF ChainOK, Chained, StateAt, Height

LEMMA ChainStep ==
    ASSUME ChainOK, [Next]_vars
    PROVE  ChainOK'
<1>1. CASE Mining
  <2>1. ChainNext
    BY <1>1 DEF Mining
  <2>2. Mined
    BY <2>1, ChainStateOK, ChainNextMined
  <2> QED BY <2>2, ChainMined
<1>2. CASE \E r \in Loops : ByLoop(r)
  <2>1. UNCHANGED chainVars
    BY <1>2 DEF ByLoop, Open, Load, Polling, Poll, StartFails, RpcFault
  <2> QED BY <2>1, ChainKept
<1>3. CASE Begin \/ Ingest \/ Done \/ Fail \/ Advance
  <2>1. UNCHANGED chainVars
    BY <1>3 DEF Begin, Ingest, Done, Fail, Advance
  <2> QED BY <2>1, ChainKept
<1>4. CASE RestartIngestion \/ Crash
  <2>1. UNCHANGED chainVars
    BY <1>4 DEF RestartIngestion, Restart, Crash
  <2> QED BY <2>1, ChainKept
<1>5. CASE UNCHANGED vars
  BY <1>5, ChainKept DEF vars
<1> QED BY <1>1, <1>2, <1>3, <1>4, <1>5, StepCases

LEMMA ChainInitOK == Init => ChainOK
<1> SUFFICES ASSUME Init PROVE ChainOK
  OBVIOUS
<1>1. chain = <<>> /\ contracts = InitialState
  BY DEF Init, ChainInit, InitialState
<1>2. Height = 0 /\ Chained
  BY <1>1, EmptySeq DEF Height, Chained
<1> QED BY <1>1, <1>2 DEF ChainOK, StateAt

\* BondManager, BondAuction and BondToken as ingestion sees them: every block is a transaction
\* between two orderly states of the contracts, and its logs tell all that it changes.
THEOREM ChainTheorem == Spec => []ChainOK
<1>1. ChainOK /\ [Next]_vars => ChainOK'
  BY ChainStep
<1> QED BY <1>1, ChainInitOK, PTL DEF Spec

-----------------------------------------------------------------------------
(* The four passes of a window                                              *)

NamedIn(a, z) ==
    \E b \in a .. z : \/ chain[b].manager # <<>>
                      \/ \E k \in DOMAIN chain[b].token : NamesIsin(chain[b].token[k])
Mapped(p, named) == [p EXCEPT !.listed = @ \/ named]
Closed(q, a, z)  == [q EXCEPT !.applied = IF q.listed THEN @ \cup a .. z ELSE @]

\* u, v, w and y hold what the manager's logs, the auction contract's, the lifecycle logs and
\* the transfers make of the tables, one pass after the other.
Passes(p, a, z, u, v, w, y) ==
    /\ Run("manager", Mapped(p, NamedIn(a, z)), a, z, u)
    /\ Run("auction", u[z], a, z, v)
    /\ Run("lifecycle", v[z], a, z, w)
    /\ Run("transfers", w[z], a, z, y)

WindowOf(p, a, z, m, x, e, y) ==
    /\ m = ApplyBlocks("manager", Mapped(p, NamedIn(a, z)), a, z)
    /\ x = ApplyBlocks("auction", m, a, z)
    /\ e = ApplyBlocks("lifecycle", x, a, z)
    /\ y = ApplyBlocks("transfers", e, a, z)
    /\ ApplyWindow(p, a, z) = Closed(y, a, z)

LEMMA WindowUnfolds ==
    ASSUME NEW p, NEW a, NEW z
    PROVE  \E m, x, e, y : WindowOf(p, a, z, m, x, e, y)
<1> DEFINE m == ApplyBlocks("manager", Mapped(p, NamedIn(a, z)), a, z)
           x == ApplyBlocks("auction", m, a, z)
           e == ApplyBlocks("lifecycle", x, a, z)
           y == ApplyBlocks("transfers", e, a, z)
<1>1. ApplyWindow(p, a, z) = Closed(y, a, z)
  BY Zenon DEF ApplyWindow, Closed, Mapped, NamedIn
<1>2. WindowOf(p, a, z, m, x, e, y)
  BY <1>1, Zenon DEF WindowOf
<1> HIDE DEF m, x, e, y
<1> QED BY <1>2, Zenon

LEMMA WindowPasses ==
    ASSUME NEW p, NEW a \in Int, NEW z \in Int, a <= z
    PROVE  \E u, v, w, y : Passes(p, a, z, u, v, w, y) /\ ApplyWindow(p, a, z) = Closed(y[z], a, z)
<1>0. a - 1 <= z
  OBVIOUS
<1>1. PICK m, x, e, t : WindowOf(p, a, z, m, x, e, t)
  BY WindowUnfolds
<1>2. PICK q : q = Mapped(p, NamedIn(a, z))
  OBVIOUS
<1>3. PICK u : Run("manager", q, a, z, u) /\ ApplyBlocks("manager", q, a, z) = u[z]
  BY <1>0, BlocksRun
<1>4. m = u[z]
  BY <1>1, <1>2, <1>3, Zenon DEF WindowOf
<1>5. PICK v : Run("auction", m, a, z, v) /\ ApplyBlocks("auction", m, a, z) = v[z]
  BY <1>0, BlocksRun
<1>6. x = v[z]
  BY <1>1, <1>5, Zenon DEF WindowOf
<1>7. PICK w : Run("lifecycle", x, a, z, w) /\ ApplyBlocks("lifecycle", x, a, z) = w[z]
  BY <1>0, BlocksRun
<1>8. e = w[z]
  BY <1>1, <1>7, Zenon DEF WindowOf
<1>9. PICK y : Run("transfers", e, a, z, y) /\ ApplyBlocks("transfers", e, a, z) = y[z]
  BY <1>0, BlocksRun
<1>10. t = y[z]
  BY <1>1, <1>9, Zenon DEF WindowOf
<1>11. Passes(p, a, z, u, v, w, y)
  BY <1>2, <1>3, <1>4, <1>5, <1>6, <1>7, <1>8, <1>9, Zenon DEF Passes
<1>12. ApplyWindow(p, a, z) = Closed(y[z], a, z)
  BY <1>1, <1>10, Zenon DEF WindowOf
<1> QED BY <1>11, <1>12, Zenon

\* What a block tells, source by source
BlockFact(b) ==
    LET s == StateAt(b - 1)
        t == StateAt(b)
    IN  /\ ManagerFact(s, t, b, chain[b].manager) /\ AuctionFact(s, t, chain[b].auction)
        /\ LifecycleFact(s, t, b, chain[b].token) /\ TransferFact(s, t, b, chain[b].token)
        /\ StateOK(s) /\ StateOK(t) /\ Passage(s, t, b)

LEMMA BlockFacts ==
    ASSUME ChainOK, NEW b \in 1 .. Height
    PROVE  BlockFact(b)
<1>1. PICK s : s = StateAt(b - 1)
  OBVIOUS
<1>2. PICK t : t = StateAt(b)
  OBVIOUS
<1>3. Height \in Nat
  BY ChainStateOK
<1>4. Transaction(s, t, b, chain[b])
  BY <1>1, <1>2 DEF ChainOK
<1>5. /\ StateOK(t) /\ Passage(s, t, b) /\ ManagerLogs(s, t, b, chain[b].manager)
      /\ AuctionLogs(s, t, b, chain[b].auction) /\ LifecycleLogs(s, t, b, chain[b].token)
      /\ MoneyLogs(s, t, b, chain[b].token) /\ chain[b].state = t
  BY <1>4 DEF Transaction, Emits
<1>6. StateOK(s)
  <2>1. CASE b = 1
    BY <1>1, <2>1, InitialStateOK DEF StateAt
  <2>2. CASE b # 1
    <3>1. PICK h : h = b - 1
      OBVIOUS
    <3>2. h \in 1 .. Height
      BY <1>3, <2>2, <3>1
    <3>3. Transaction(StateAt(h - 1), StateAt(h), h, chain[h])
      BY <3>2 DEF ChainOK
    <3>4. s = StateAt(h)
      BY <1>1, <3>1
    <3> QED BY <3>3, <3>4 DEF Transaction
  <2> QED BY <2>1, <2>2
<1>7. /\ ManagerFact(s, t, b, chain[b].manager) /\ AuctionFact(s, t, chain[b].auction)
      /\ LifecycleFact(s, t, b, chain[b].token) /\ TransferFact(s, t, b, chain[b].token)
  BY <1>5, ManagerLogsFact, AuctionLogsFact, LifecycleLogsFact, MoneyLogsFact
<1> QED BY <1>1, <1>2, <1>5, <1>6, <1>7 DEF BlockFact

\* What a pass makes of the block's logs
LEMMA SourceLogs ==
    ASSUME NEW b
    PROVE  /\ chain[b][Source["manager"]] = chain[b].manager /\ chain[b][Source["auction"]] = chain[b].auction
           /\ chain[b][Source["lifecycle"]] = chain[b].token /\ chain[b][Source["transfers"]] = chain[b].token
  BY DEF Source

\* What holds before a window, and after each of its blocks if it held before it, holds throughout.
LEMMA Throughout ==
    ASSUME NEW a \in Int, NEW z \in Int, NEW G, a - 1 \in G, \A j \in a .. z : j - 1 \in G => j \in G
    PROVE  \A j \in a - 1 .. z : j \in G
<1> DEFINE F == {j \in a - 1 .. z : j \notin G}
<1> SUFFICES ASSUME F # {} PROVE FALSE
  OBVIOUS
<1>1. F \subseteq a - 1 .. z /\ a - 1 \in Int
  OBVIOUS
<1>2. PICK j \in F : \A i \in F : j <= i
  BY <1>1, LeastOf
<1>3. j \in a - 1 .. z /\ j \notin G
  BY <1>2
<1>4. j # a - 1
  BY <1>3
<1>5. j \in a .. z /\ j - 1 \in a - 1 .. z /\ ~(j <= j - 1)
  BY <1>3, <1>4
<1>6. j - 1 \in G
  BY <1>2, <1>5
<1> QED BY <1>3, <1>5, <1>6

LEMMA MappedTables ==
    ASSUME NEW p \in Tables, NEW named \in BOOLEAN, NEW q, q = Mapped(p, named)
    PROVE  /\ q \in Tables /\ SameBonds(p, q) /\ SameAuctions(p, q) /\ SameMoney(p, q)
           /\ q.hidden = p.hidden /\ q.history = p.history /\ (q.listed <=> p.listed \/ named)
<1>1. q \in Tables
  BY DEF Mapped, Tables
<1>2. SameBonds(p, q) /\ SameAuctions(p, q)
  BY DEF Mapped, Tables, SameBonds, SameAuctions
<1>3. q.bal = p.bal /\ q.applied = p.applied /\ q.history = p.history
  BY DEF Mapped, Tables
<1>4. q.failed = p.failed /\ q.hidden = p.hidden
  BY Zenon DEF Mapped, Tables
<1>5. q.listed <=> p.listed \/ named
  BY DEF Mapped, Tables
<1> QED BY <1>1, <1>2, <1>3, <1>4, <1>5 DEF SameMoney

\* The manager's pass leaves the money alone.
ManagedTo(p, q) ==
    /\ q \in Tables /\ SameMoney(p, q) /\ SameBids(p, q)
    /\ Sound(p) => Sound(q)
    /\ p.listed => q.listed

LEMMA ManagedOnce ==
    ASSUME NEW s, NEW t, NEW b, NEW logs, NEW p, NEW q, ManagerEffect(s, t, b, logs, p, q)
    PROVE  ManagedTo(p, q)
<1>1. q \in Tables /\ SameMoney(p, q) /\ SameBids(p, q) /\ (p.listed => q.listed)
  BY DEF ManagerEffect
<1>2. ASSUME Sound(p) PROVE Sound(q)
  <2>1. CASE Deploys(s, t)
    <3>1. q.bond.supply = 0
      BY <2>1, NewRow DEF ManagerEffect
    <3> QED BY <3>1 DEF Sound
  <2>2. CASE ~Deploys(s, t)
    <3>1. q.bond.supply = p.bond.supply
      BY <2>2 DEF ManagerEffect, Kept
    <3>2. q.failed = p.failed
      BY <1>1 DEF SameMoney
    <3> QED BY <1>2, <3>1, <3>2 DEF Sound
  <2> QED BY <2>1, <2>2
<1> QED BY <1>1, <1>2 DEF ManagedTo

LEMMA ManagerPass ==
    ASSUME ChainOK, NEW a \in Nat \ {0}, NEW z \in a .. Height, NEW p \in Tables, NEW u, Run("manager", p, a, z, u)
    PROVE  \A j \in a - 1 .. z : ManagedTo(p, u[j])
<1> DEFINE G == {j \in a - 1 .. z : ManagedTo(p, u[j])}
<1>0. Height \in Nat /\ z \in Int /\ a - 1 \in a - 1 .. z
  BY ChainStateOK
<1>1. a - 1 \in G
  <2>1. u[a - 1] = p
    BY DEF Run
  <2>2. ManagedTo(p, p)
    BY DEF ManagedTo, SameMoney, SameBids
  <2> QED BY <1>0, <2>1, <2>2
<1>2. ASSUME NEW j \in a .. z, j - 1 \in G PROVE j \in G
  <2>1. j \in 1 .. Height /\ j \in a - 1 .. z /\ ManagedTo(p, u[j - 1])
    BY <1>0, <1>2
  <2>2. u[j] = ApplyLogs("manager", u[j - 1], chain[j].manager)
    BY SourceLogs DEF Run
  <2>3. ManagerFact(StateAt(j - 1), StateAt(j), j, chain[j].manager)
    BY <2>1, BlockFacts DEF BlockFact
  <2>4. PICK r : r = u[j - 1]
    OBVIOUS
  <2>5. PICK q : q = u[j]
    OBVIOUS
  <2>6. ManagerEffect(StateAt(j - 1), StateAt(j), j, chain[j].manager, r, q)
    BY <2>1, <2>2, <2>3, <2>4, <2>5 DEF ManagerFact, ManagedTo
  <2>7. ManagedTo(r, q)
    BY <2>6, ManagedOnce
  <2>8. ManagedTo(p, q)
    BY <2>1, <2>4, <2>7 DEF ManagedTo, SameMoney, SameBids
  <2> QED BY <2>1, <2>5, <2>8
<1> HIDE DEF G
<1>3. \A j \in a - 1 .. z : j \in G
  BY <1>0, <1>1, <1>2, Throughout
<1> QED BY <1>3 DEF G

\* The auction contract's pass leaves all but the auctions alone.
LEMMA SameRestTwice ==
    ASSUME NEW p, NEW r, NEW q, SameRest(p, r), SameRest(r, q)
    PROVE  SameRest(p, q)
  BY DEF SameRest, SameBonds, SameFlags, SameMoney

LEMMA AuctionStepOf ==
    ASSUME ChainOK, NEW a \in Nat \ {0}, NEW z \in a .. Height, NEW p, NEW v, Run("auction", p, a, z, v),
           NEW j \in a .. z, v[j - 1] \in Tables
    PROVE  AuctionEffect(StateAt(j - 1), StateAt(j), v[j - 1], v[j])
<1>1. j \in 1 .. Height
  BY ChainStateOK
<1>2. v[j] = ApplyLogs("auction", v[j - 1], chain[j].auction)
  BY SourceLogs DEF Run
<1>3. AuctionFact(StateAt(j - 1), StateAt(j), chain[j].auction)
  BY <1>1, BlockFacts DEF BlockFact
<1> QED BY <1>2, <1>3 DEF AuctionFact

LEMMA AuctionPass ==
    ASSUME ChainOK, NEW a \in Nat \ {0}, NEW z \in a .. Height, NEW p \in Tables, NEW v, Run("auction", p, a, z, v)
    PROVE  \A j \in a - 1 .. z : SameRest(p, v[j])
<1> DEFINE G == {j \in a - 1 .. z : SameRest(p, v[j])}
<1>0. Height \in Nat /\ z \in Int /\ a - 1 \in a - 1 .. z
  BY ChainStateOK
<1>1. a - 1 \in G
  <2>1. v[a - 1] = p
    BY DEF Run
  <2>2. SameRest(p, p)
    BY DEF SameRest, SameBonds, SameFlags, SameMoney
  <2> QED BY <1>0, <2>1, <2>2
<1>2. ASSUME NEW j \in a .. z, j - 1 \in G PROVE j \in G
  <2>1. j \in a - 1 .. z /\ SameRest(p, v[j - 1])
    BY <1>0, <1>2
  <2>2. v[j - 1] \in Tables
    BY <2>1 DEF SameRest
  <2>3. AuctionEffect(StateAt(j - 1), StateAt(j), v[j - 1], v[j])
    BY <2>2, AuctionStepOf
  <2>4. SameRest(v[j - 1], v[j])
    BY <2>3 DEF AuctionEffect
  <2>5. SameRest(p, v[j])
    BY <2>1, <2>4, SameRestTwice
  <2> QED BY <2>1, <2>5
<1> HIDE DEF G
<1>3. \A j \in a - 1 .. z : j \in G
  BY <1>0, <1>1, <1>2, Throughout
<1> QED BY <1>3 DEF G

\* The pass of the lifecycle logs leaves all but four columns of the bond alone.
LifedTo(p, q) ==
    /\ q \in Tables /\ SameFlags(p, q) /\ SameAuctions(p, q) /\ SameMoney(p, q) /\ q.history = p.history
    /\ SameCounts(p.bond, q.bond)

LEMMA LifedTwice ==
    ASSUME NEW p, NEW r, NEW q, LifedTo(p, r), LifedTo(r, q)
    PROVE  LifedTo(p, q)
  BY DEF LifedTo, SameFlags, SameAuctions, SameMoney, SameCounts

LEMMA LifecycleStepOf ==
    ASSUME ChainOK, NEW a \in Nat \ {0}, NEW z \in a .. Height, NEW p, NEW w, Run("lifecycle", p, a, z, w),
           NEW j \in a .. z, w[j - 1] \in Tables
    PROVE  LifecycleEffect(StateAt(j - 1), StateAt(j), j, w[j - 1], w[j])
<1>1. j \in 1 .. Height
  BY ChainStateOK
<1>2. w[j] = ApplyLogs("lifecycle", w[j - 1], chain[j].token)
  BY SourceLogs DEF Run
<1>3. LifecycleFact(StateAt(j - 1), StateAt(j), j, chain[j].token)
  BY <1>1, BlockFacts DEF BlockFact
<1> QED BY <1>2, <1>3 DEF LifecycleFact

LEMMA LifecyclePass ==
    ASSUME ChainOK, NEW a \in Nat \ {0}, NEW z \in a .. Height, NEW p \in Tables, NEW w, Run("lifecycle", p, a, z, w)
    PROVE  \A j \in a - 1 .. z : LifedTo(p, w[j])
<1> DEFINE G == {j \in a - 1 .. z : LifedTo(p, w[j])}
<1>0. Height \in Nat /\ z \in Int /\ a - 1 \in a - 1 .. z
  BY ChainStateOK
<1>1. a - 1 \in G
  <2>1. w[a - 1] = p
    BY DEF Run
  <2>2. LifedTo(p, p)
    BY DEF LifedTo, SameFlags, SameAuctions, SameMoney, SameCounts
  <2> QED BY <1>0, <2>1, <2>2
<1>2. ASSUME NEW j \in a .. z, j - 1 \in G PROVE j \in G
  <2>1. j \in a - 1 .. z /\ LifedTo(p, w[j - 1])
    BY <1>0, <1>2
  <2>2. w[j - 1] \in Tables
    BY <2>1 DEF LifedTo
  <2>3. LifecycleEffect(StateAt(j - 1), StateAt(j), j, w[j - 1], w[j])
    BY <2>2, LifecycleStepOf
  <2>4. LifedTo(w[j - 1], w[j])
    BY <2>3 DEF LifecycleEffect, LifedTo
  <2>5. LifedTo(p, w[j])
    BY <2>1, <2>4, LifedTwice
  <2> QED BY <2>1, <2>5
<1> HIDE DEF G
<1>3. \A j \in a - 1 .. z : j \in G
  BY <1>0, <1>1, <1>2, Throughout
<1> QED BY <1>3 DEF G

\* What a gains in every block, and tables that count these blocks
GainsOf(a) == [b \in 1 .. Height |-> StateAt(b).bal[a] - StateAt(b - 1).bal[a]]
Counts(p, A) == \A a \in Owners : p.bal[a] = SumFunctionOnSet(GainsOf(a), A)

LEMMA GainsOfInt ==
    ASSUME ChainOK, NEW a \in Owners
    PROVE  /\ \A b \in 1 .. Height : GainsOf(a)[b] \in Int /\ GainsOf(a)[b] = StateAt(b).bal[a] - StateAt(b - 1).bal[a]
           /\ IsFiniteSet(1 .. Height) /\ \A A \in SUBSET (1 .. Height) : IsFiniteSet(A)
<1>1. Height \in Nat
  BY ChainStateOK
<1>2. ASSUME NEW b \in 1 .. Height PROVE StateAt(b).bal[a] \in Nat /\ StateAt(b - 1).bal[a] \in Nat
  <2>1. PICK s : s = StateAt(b - 1)
    OBVIOUS
  <2>2. PICK t : t = StateAt(b)
    OBVIOUS
  <2>3. StateTyped(s) /\ StateTyped(t)
    BY <2>1, <2>2, BlockFacts DEF BlockFact, StateOK
  <2> QED BY <2>1, <2>2, <2>3, HoldingsInt
<1>3. IsFiniteSet(1 .. Height)
  BY <1>1, FS_Interval
<1>4. \A A \in SUBSET (1 .. Height) : IsFiniteSet(A)
  BY <1>3, FS_Subset
<1>5. \A b \in 1 .. Height : GainsOf(a)[b] = StateAt(b).bal[a] - StateAt(b - 1).bal[a]
  BY DEF GainsOf
<1>6. \A b \in 1 .. Height : StateAt(b).bal[a] - StateAt(b - 1).bal[a] \in Int
  BY <1>2
<1> QED BY <1>3, <1>4, <1>5, <1>6

\* A block counted once more changes nothing; a new one adds its gains.
LEMMA CountedBlock ==
    ASSUME ChainOK, NEW A \in SUBSET (1 .. Height), NEW b \in 1 .. Height \ A, NEW a \in Owners
    PROVE  SumFunctionOnSet(GainsOf(a), A \cup {b})
             = SumFunctionOnSet(GainsOf(a), A) + (StateAt(b).bal[a] - StateAt(b - 1).bal[a])
<1> DEFINE g == GainsOf(a)
           B == A \cup {b}
<1>1. /\ \A x \in 1 .. Height : g[x] \in Int /\ g[x] = StateAt(x).bal[a] - StateAt(x - 1).bal[a]
      /\ \A C \in SUBSET (1 .. Height) : IsFiniteSet(C)
  BY GainsOfInt
<1>2. B \in SUBSET (1 .. Height) /\ b \in B /\ B \ {b} = A /\ b \in 1 .. Height
  OBVIOUS
<1>3. IsFiniteSet(B) /\ IsFiniteSet(A) /\ (\A x \in B : g[x] \in Int) /\ \A x \in A : g[x] \in Int
  BY <1>1, <1>2
<1>4. g[b] = StateAt(b).bal[a] - StateAt(b - 1).bal[a] /\ g[b] \in Int
  BY <1>1, <1>2
<1> HIDE DEF g, B
<1>5. SumFunctionOnSet(g, B) = g[b] + SumFunctionOnSet(g, B \ {b})
  BY <1>2, <1>3, SumRemove
<1>6. SumFunctionOnSet(g, A) \in Int
  BY <1>3, SumInt
<1>7. SumFunctionOnSet(g, B) = SumFunctionOnSet(g, A) + g[b]
  BY <1>2, <1>4, <1>5, <1>6
<1> QED BY <1>4, <1>7, Zenon DEF g, B

\* The pass of the transfers counts the blocks of the window that were not counted.
CountedTo(p, q, a, j) ==
    /\ OnlyMoney(p, q)
    /\ ~p.listed => q = p
    /\ p.listed /\ Counts(p, p.applied) => Counts(q, p.applied \cup a .. j)

LEMMA TransferStepOf ==
    ASSUME ChainOK, NEW a \in Nat \ {0}, NEW z \in a .. Height, NEW p, NEW y, Run("transfers", p, a, z, y),
           NEW j \in a .. z, y[j - 1] \in Tables
    PROVE  TransferEffect(StateAt(j - 1), StateAt(j), j, y[j - 1], y[j])
<1>1. j \in 1 .. Height
  BY ChainStateOK
<1>2. y[j] = ApplyLogs("transfers", y[j - 1], chain[j].token)
  BY SourceLogs DEF Run
<1>3. TransferFact(StateAt(j - 1), StateAt(j), j, chain[j].token)
  BY <1>1, BlockFacts DEF BlockFact
<1> QED BY <1>2, <1>3 DEF TransferFact

LEMMA OnlyMoneyTwice ==
    ASSUME NEW p, NEW r, NEW q, OnlyMoney(p, r), OnlyMoney(r, q)
    PROVE  OnlyMoney(p, q)
  BY DEF OnlyMoney, SameFlags, SameAuctions, SameLifeColumns

LEMMA CountedOnce ==
    ASSUME ChainOK, NEW a \in Nat \ {0}, NEW j \in a .. Height, NEW p, p.applied \subseteq 1 .. Height, NEW r, NEW q,
           CountedTo(p, r, a, j - 1), TransferEffect(StateAt(j - 1), StateAt(j), j, r, q)
    PROVE  CountedTo(p, q, a, j)
<1>1. OnlyMoney(p, r) /\ OnlyMoney(r, q)
  BY DEF CountedTo, TransferEffect
<1>2. OnlyMoney(p, q)
  BY <1>1, OnlyMoneyTwice
<1>3. r.listed = p.listed /\ r.applied = p.applied
  BY <1>1 DEF OnlyMoney, SameFlags
<1>4. ~p.listed => q = p
  BY <1>3 DEF CountedTo, TransferEffect
<1>5. ASSUME p.listed, Counts(p, p.applied) PROVE Counts(q, p.applied \cup a .. j)
  <2> DEFINE A == p.applied \cup a .. j - 1
             B == p.applied \cup a .. j
  <2>1. Height \in Nat /\ j \in 1 .. Height /\ A \in SUBSET (1 .. Height)
    BY ChainStateOK
  <2>2. Counts(r, A)
    BY <1>5 DEF CountedTo
  <2>3. CASE j \in p.applied
    <3>1. q = r
      BY <1>3, <2>3 DEF TransferEffect
    <3>2. B = A
      BY <2>1, <2>3
    <3> QED BY <2>2, <3>1, <3>2
  <2>4. CASE j \notin p.applied
    <3>1. j \notin A /\ B = A \cup {j}
      BY <2>1, <2>4
    <3> HIDE DEF A, B
    <3>2. ASSUME NEW c \in Owners PROVE q.bal[c] = SumFunctionOnSet(GainsOf(c), B)
      <4>1. q.bal[c] = r.bal[c] + (StateAt(j).bal[c] - StateAt(j - 1).bal[c])
        BY <1>3, <1>5, <2>4 DEF TransferEffect
      <4>2. r.bal[c] = SumFunctionOnSet(GainsOf(c), A)
        BY <2>2 DEF Counts
      <4>3. SumFunctionOnSet(GainsOf(c), A \cup {j})
              = SumFunctionOnSet(GainsOf(c), A) + (StateAt(j).bal[c] - StateAt(j - 1).bal[c])
        BY <2>1, <3>1, CountedBlock
      <4> QED BY <3>1, <4>1, <4>2, <4>3, Zenon
    <3>3. Counts(q, B)
      BY <3>2 DEF Counts
    <3> QED BY <3>3 DEF B
  <2> QED BY <2>3, <2>4
<1> QED BY <1>2, <1>4, <1>5 DEF CountedTo

LEMMA TransferPass ==
    ASSUME ChainOK, NEW a \in Nat \ {0}, NEW z \in a .. Height, NEW p \in Tables, p.applied \subseteq 1 .. Height,
           NEW y, Run("transfers", p, a, z, y)
    PROVE  \A j \in a - 1 .. z : CountedTo(p, y[j], a, j)
<1> DEFINE G == {j \in a - 1 .. z : CountedTo(p, y[j], a, j)}
<1>0. Height \in Nat /\ z \in Int /\ a - 1 \in a - 1 .. z
  BY ChainStateOK
<1>1. a - 1 \in G
  <2>1. y[a - 1] = p
    BY DEF Run
  <2>2. OnlyMoney(p, p)
    BY DEF OnlyMoney, SameFlags, SameAuctions, SameLifeColumns
  <2>3. p.applied \cup a .. a - 1 = p.applied
    OBVIOUS
  <2>4. CountedTo(p, p, a, a - 1)
    BY <2>2, <2>3 DEF CountedTo
  <2> QED BY <1>0, <2>1, <2>4
<1>2. ASSUME NEW j \in a .. z, j - 1 \in G PROVE j \in G
  <2>1. j \in a - 1 .. z /\ CountedTo(p, y[j - 1], a, j - 1) /\ j \in a .. Height
    BY <1>0, <1>2
  <2>2. y[j - 1] \in Tables
    BY <2>1 DEF CountedTo, OnlyMoney
  <2>3. TransferEffect(StateAt(j - 1), StateAt(j), j, y[j - 1], y[j])
    BY <2>2, TransferStepOf
  <2>4. CountedTo(p, y[j], a, j)
    BY <2>1, <2>3, CountedOnce
  <2> QED BY <2>1, <2>4
<1> HIDE DEF G
<1>3. \A j \in a - 1 .. z : j \in G
  BY <1>0, <1>1, <1>2, Throughout
<1> QED BY <1>3 DEF G

-----------------------------------------------------------------------------
(* What every window keeps, wherever it begins                              *)

\* Sound tables that count the ingested blocks once each
ProjectionOK(p) == p \in Tables /\ Sound(p) /\ p.applied \subseteq 1 .. Height /\ Counts(p, p.applied)

LEMMA EmptyTables == EmptyProjection \in Tables /\ Sound(EmptyProjection) /\ ~EmptyProjection.failed
<1>1. EmptyBondState \in BondRows /\ EmptyBondState.supply = 0
  BY DEF EmptyBondState, BondRows
<1>2. <<>> \in Seq(Holders) /\ <<>> \in Seq([bidder : Holders, units : Nat])
  OBVIOUS
<1>3. EmptyAuction \in AuctionRows
  BY <1>2 DEF EmptyAuction, AuctionRows, Statuses, Types
<1>4. /\ [n \in 1 .. MaxAuctions |-> EmptyAuction] \in [1 .. MaxAuctions -> AuctionRows]
      /\ [a \in Owners |-> 0] \in [Owners -> Int]
  BY <1>3
<1>5. EmptyProjection \in Tables
  BY <1>1, <1>4 DEF EmptyProjection, Tables
<1>6. EmptyProjection.bond = EmptyBondState /\ ~EmptyProjection.failed
  BY DEF EmptyProjection
<1> QED BY <1>1, <1>5, <1>6 DEF Sound

LEMMA EmptyOK ==
    ASSUME ChainOK
    PROVE  ProjectionOK(EmptyProjection)
<1>1. EmptyProjection.applied = {} /\ \A a \in Owners : EmptyProjection.bal[a] = 0
  BY DEF EmptyProjection
<1>2. \A a \in Owners : SumFunctionOnSet(GainsOf(a), {}) = 0
  BY SumEmpty
<1> QED BY <1>1, <1>2, EmptyTables DEF ProjectionOK, Counts

AppliedBy(q, r, a, z) == r.applied = IF q.listed THEN q.applied \cup a .. z ELSE q.applied
LEMMA ClosedTables ==
    ASSUME NEW q \in Tables, NEW a \in Int, NEW z \in Int, NEW r, r = Closed(q, a, z)
    PROVE  /\ r \in Tables /\ SameBonds(q, r) /\ SameAuctions(q, r) /\ SameFlags(q, r) /\ r.bal = q.bal
           /\ r.failed = q.failed /\ r.history = q.history /\ AppliedBy(q, r, a, z)
<1>1. a .. z \subseteq Int /\ q.applied \subseteq Int
  BY DEF Tables
<1>2. PICK A : A = IF q.listed THEN q.applied \cup a .. z ELSE q.applied
  OBVIOUS
<1>3. A \in SUBSET Int /\ r = [q EXCEPT !.applied = A]
  BY <1>1, <1>2 DEF Closed
<1>4. r \in Tables /\ r.applied = A /\ r.bond = q.bond /\ r.auction = q.auction /\ r.bal = q.bal
  BY <1>3 DEF Tables
<1>5. r.listed = q.listed /\ r.hidden = q.hidden /\ r.failed = q.failed /\ r.history = q.history
  BY <1>3, Zenon DEF Tables
<1> QED BY <1>2, <1>4, <1>5 DEF SameBonds, SameAuctions, SameFlags, AppliedBy

\* The tables between the passes
LEMMA PassTables ==
    ASSUME ChainOK, NEW a \in Nat \ {0}, NEW z \in a .. Height, NEW p \in Tables, NEW u, NEW v, NEW w, NEW y,
           Passes(p, a, z, u, v, w, y)
    PROVE  LET mapped == Mapped(p, NamedIn(a, z))
           IN  /\ mapped \in Tables /\ ManagedTo(mapped, u[z]) /\ u[z] \in Tables
               /\ SameRest(u[z], v[z]) /\ v[z] \in Tables /\ LifedTo(v[z], w[z]) /\ w[z] \in Tables
               /\ (Sound(mapped) => Sound(w[z])) /\ SameMoney(mapped, w[z]) /\ SameFlags(u[z], w[z])
<1>0. z \in Nat /\ a - 1 \in Int /\ z \in a - 1 .. z
  BY ChainStateOK
<1>1. PICK m : m = Mapped(p, NamedIn(a, z))
  OBVIOUS
<1>2. m \in Tables
  <2>1. NamedIn(a, z) \in BOOLEAN
    BY DEF NamedIn
  <2> QED BY <1>1, <2>1, MappedTables
<1>3. /\ Run("manager", m, a, z, u) /\ Run("auction", u[z], a, z, v)
      /\ Run("lifecycle", v[z], a, z, w) /\ Run("transfers", w[z], a, z, y)
  BY <1>1 DEF Passes
<1>4. ManagedTo(m, u[z])
  BY <1>0, <1>2, <1>3, ManagerPass
<1>5. u[z] \in Tables
  BY <1>4 DEF ManagedTo
<1>6. SameRest(u[z], v[z])
  BY <1>0, <1>3, <1>5, AuctionPass
<1>7. v[z] \in Tables
  BY <1>6 DEF SameRest
<1>8. LifedTo(v[z], w[z])
  BY <1>0, <1>3, <1>7, LifecyclePass
<1>9. w[z] \in Tables
  BY <1>8 DEF LifedTo
<1>10. Sound(m) => Sound(w[z])
  <2>1. Sound(m) => Sound(u[z])
    BY <1>4 DEF ManagedTo
  <2>2. Sound(u[z]) => Sound(v[z])
    BY <1>6 DEF SameRest, SameBonds, SameMoney, Sound
  <2>3. Sound(v[z]) => Sound(w[z])
    BY <1>8 DEF LifedTo, SameMoney, SameCounts, Sound
  <2> QED BY <2>1, <2>2, <2>3
<1>11. SameMoney(m, w[z]) /\ SameFlags(u[z], w[z])
  BY <1>4, <1>6, <1>8 DEF ManagedTo, SameRest, LifedTo, SameMoney, SameFlags
<1> QED BY <1>1, <1>2, <1>4, <1>5, <1>6, <1>7, <1>8, <1>9, <1>10, <1>11

LEMMA WindowOK ==
    ASSUME ChainOK, NEW a \in Nat \ {0}, NEW z \in a .. Height, NEW p, ProjectionOK(p),
           NEW q, q = ApplyWindow(p, a, z)
    PROVE  ProjectionOK(q)
<1>0. Height \in Nat /\ z \in Int /\ a \in Int /\ a <= z /\ z \in a - 1 .. z /\ p \in Tables
  BY ChainStateOK DEF ProjectionOK
<1>1. PICK u, v, w, y : Passes(p, a, z, u, v, w, y) /\ q = Closed(y[z], a, z)
  BY <1>0, WindowPasses
<1>2. PICK m : m = Mapped(p, NamedIn(a, z))
  OBVIOUS
<1>3. m \in Tables /\ SameMoney(m, w[z]) /\ w[z] \in Tables /\ (Sound(m) => Sound(w[z]))
  BY <1>0, <1>1, <1>2, PassTables
<1>4. SameMoney(p, m) /\ SameBonds(p, m)
  <2>1. NamedIn(a, z) \in BOOLEAN
    BY DEF NamedIn
  <2> QED BY <1>0, <1>2, <2>1, MappedTables
<1>5. PICK e : e = w[z]
  OBVIOUS
<1>6. PICK r : r = y[z]
  OBVIOUS
<1>7. e \in Tables /\ e.applied = p.applied /\ e.bal = p.bal /\ Sound(e)
  BY <1>3, <1>4, <1>5 DEF SameMoney, SameBonds, Sound, ProjectionOK
<1>8. e.applied \subseteq 1 .. Height /\ Counts(e, e.applied)
  BY <1>7 DEF ProjectionOK, Counts
<1>9. CountedTo(e, r, a, z)
  <2>1. Run("transfers", e, a, z, y)
    BY <1>1, <1>5 DEF Passes
  <2> QED BY <1>0, <1>6, <1>7, <1>8, <2>1, TransferPass
<1>10. r \in Tables /\ Sound(r) /\ r.listed = e.listed /\ r.applied = e.applied
  BY <1>7, <1>9 DEF CountedTo, OnlyMoney, SameFlags
<1>11. /\ q \in Tables /\ SameBonds(r, q) /\ q.bal = r.bal /\ q.failed = r.failed
       /\ q.applied = IF r.listed THEN r.applied \cup a .. z ELSE r.applied
  <2>1. q = Closed(r, a, z)
    BY <1>1, <1>6
  <2>2. q \in Tables /\ SameBonds(r, q) /\ q.bal = r.bal /\ q.failed = r.failed /\ AppliedBy(r, q, a, z)
    BY <1>0, <1>10, <2>1, ClosedTables
  <2> QED BY <2>2 DEF AppliedBy
<1>12. Sound(q)
  BY <1>10, <1>11 DEF Sound, SameBonds
<1>13. q.applied \subseteq 1 .. Height
  BY <1>0, <1>8, <1>10, <1>11
<1>14. Counts(q, q.applied)
  <2>1. CASE r.listed
    <3>1. Counts(r, e.applied \cup a .. z)
      BY <1>8, <1>9, <1>10, <2>1 DEF CountedTo
    <3> QED BY <1>10, <1>11, <2>1, <3>1 DEF Counts
  <2>2. CASE ~r.listed
    <3>1. r = e
      BY <1>9, <1>10, <2>2 DEF CountedTo
    <3> QED BY <1>8, <1>11, <2>2, <3>1 DEF Counts
  <2> QED BY <2>1, <2>2
<1> QED BY <1>11, <1>12, <1>13, <1>14 DEF ProjectionOK

-----------------------------------------------------------------------------
(* The ledger: sound tables, whatever loops overlap                         *)

LedgerOK == LoopsOK /\ ChainOK /\ ProjectionOK(db) /\ ~db.failed

LEMMA ProjectionStill ==
    ASSUME NEW q, ProjectionOK(q), UNCHANGED chain
    PROVE  ProjectionOK(q)'
  BY DEF ProjectionOK, Counts, GainsOf, StateAt, Height, Sound

\* Blocks that are added later do not count.
LEMMA ProjectionGrows ==
    ASSUME LoopsOK, ChainOK, Mining, NEW q, ProjectionOK(q)
    PROVE  ProjectionOK(q)'
<1>1. /\ Height' = Height + 1 /\ Height \in Nat /\ \A b \in 1 .. Height : chain'[b] = chain[b]
  BY ChainGrows, BlockAdded DEF Mining, LoopsOK
<1>2. PICK h : h = Height
  OBVIOUS
<1>3. \A b \in 0 .. h : StateAt(b)' = StateAt(b)
  BY <1>1, <1>2 DEF StateAt
<1>4. q.applied \subseteq 1 .. h /\ h \in Nat /\ Height' = h + 1
  BY <1>1, <1>2 DEF ProjectionOK
<1>5. ASSUME NEW a \in Owners
      PROVE  SumFunctionOnSet(GainsOf(a), q.applied) = SumFunctionOnSet(GainsOf(a)', q.applied)
  <2>1. \A b \in 1 .. h : GainsOf(a)[b] \in Int /\ IsFiniteSet(1 .. h)
    BY <1>2, GainsOfInt
  <2>2. ASSUME NEW b \in q.applied PROVE GainsOf(a)'[b] = GainsOf(a)[b]
    <3>1. b \in 1 .. h /\ b \in 1 .. h + 1 /\ b \in 0 .. h /\ b - 1 \in 0 .. h
      BY <1>4
    <3>2. StateAt(b)' = StateAt(b)
      BY <1>3, <3>1
    <3>3. StateAt(b - 1)' = StateAt(b - 1)
      BY <1>3, <3>1
    <3>4. GainsOf(a)[b] = StateAt(b).bal[a] - StateAt(b - 1).bal[a]
      BY <1>2, <3>1 DEF GainsOf
    <3>5. GainsOf(a)'[b] = StateAt(b)'.bal[a] - StateAt(b - 1)'.bal[a]
      BY <1>4, <3>1 DEF GainsOf
    <3> QED BY <3>2, <3>3, <3>4, <3>5
  <2>3. PICK f : f = GainsOf(a)
    OBVIOUS
  <2>4. PICK g : g = GainsOf(a)'
    OBVIOUS
  <2>5. IsFiniteSet(q.applied)
    <3>1. IsFiniteSet(1 .. h)
      BY <1>4, FS_Interval
    <3> QED BY <1>4, <3>1, FS_Subset
  <2>6. \A b \in q.applied : f[b] = g[b] /\ f[b] \in Int
    BY <1>4, <2>1, <2>2, <2>3, <2>4
  <2>7. SumFunctionOnSet(f, q.applied) = SumFunctionOnSet(g, q.applied)
    BY <2>5, <2>6, SumSame
  <2> QED BY <2>3, <2>4, <2>7
<1>6. Counts(q, q.applied)'
  <2>1. \A a \in Owners : q.bal[a] = SumFunctionOnSet(GainsOf(a), q.applied)
    BY DEF ProjectionOK, Counts
  <2>2. \A a \in Owners : q.bal[a] = SumFunctionOnSet(GainsOf(a)', q.applied)
    BY <1>5, <2>1
  <2> QED BY <2>2 DEF Counts
<1>7. q.applied \subseteq 1 .. Height'
  BY <1>4
<1> QED BY <1>6, <1>7 DEF ProjectionOK, Sound

LEMMA LedgerIngest ==
    ASSUME LedgerOK, Ingest
    PROVE  ProjectionOK(db)' /\ ~db'.failed
<1>1. LoopsOK /\ ChainOK /\ ProjectionOK(db)
  BY DEF LedgerOK
<1> DEFINE a == next[Head(queue).loop]
           z == a + Cardinality(Current) - 1
<1>2. Running /\ Current # {} /\ db' = ApplyWindow(db, a, z) /\ ~db'.failed /\ UNCHANGED chain
  BY DEF Ingest, Advancing, Ingested, chainVars
<1>3. a \in 1 .. Height /\ z \in a .. Height
  BY <1>1, <1>2, WindowIs
<1>4. a \in Nat \ {0}
  BY <1>1, <1>3, ChainStateOK
<1> HIDE DEF a, z
<1>5. PICK q : q = db'
  OBVIOUS
<1>6. ProjectionOK(q)
  BY <1>1, <1>2, <1>3, <1>4, <1>5, WindowOK
<1>7. ProjectionOK(q)'
  BY <1>2, <1>6, ProjectionStill
<1> QED BY <1>2, <1>5, <1>7 DEF ProjectionOK, Counts, Sound

LEMMA LedgerKept ==
    ASSUME LedgerOK, UNCHANGED <<chain, db>>
    PROVE  ProjectionOK(db)' /\ ~db'.failed
<1>1. PICK q : q = db
  OBVIOUS
<1>2. ProjectionOK(q)'
  BY <1>1, ProjectionStill DEF LedgerOK
<1> QED BY <1>1, <1>2 DEF LedgerOK, ProjectionOK, Counts, Sound

LEMMA LedgerStep ==
    ASSUME LedgerOK, [Next]_vars
    PROVE  LedgerOK'
<1>0. LoopsOK /\ ChainOK /\ ProjectionOK(db) /\ ~db.failed
  BY DEF LedgerOK
<1>1. LoopsOK' /\ ChainOK'
  BY <1>0, LoopsStep, ChainStep
<1>2. ProjectionOK(db)' /\ ~db'.failed
  <2>1. CASE Mining
    <3>1. PICK q : q = db
      OBVIOUS
    <3>2. ProjectionOK(q)'
      BY <1>0, <2>1, <3>1, ProjectionGrows
    <3>3. db' = db
      BY <2>1 DEF Mining, dbVars
    <3> QED BY <1>0, <3>1, <3>2, <3>3 DEF ProjectionOK, Counts, Sound
  <2>2. CASE \E r \in Loops : ByLoop(r)
    <3>1. UNCHANGED <<chain, db>>
      BY <2>2 DEF ByLoop, Open, Load, Polling, Poll, StartFails, RpcFault, chainVars, dbVars
    <3> QED BY <3>1, LedgerKept
  <2>3. CASE Begin \/ Done \/ Fail \/ Advance
    <3>1. UNCHANGED <<chain, db>>
      BY <2>3 DEF Begin, Done, Fail, Advance, chainVars, dbVars
    <3> QED BY <3>1, LedgerKept
  <2>4. CASE Ingest
    BY <2>4, LedgerIngest
  <2>5. CASE RestartIngestion
    <3>1. UNCHANGED chain /\ (db' = db \/ db' = EmptyProjection)
      BY <2>5 DEF RestartIngestion, Restart, DropProjectionTables, chainVars, dbVars
    <3>2. CASE db' = db
      BY <3>1, <3>2, LedgerKept
    <3>3. CASE db' = EmptyProjection
      <4>1. PICK q : q = EmptyProjection
        OBVIOUS
      <4>2. ProjectionOK(q) /\ ~q.failed
        BY <1>0, <4>1, EmptyOK, EmptyTables
      <4>3. ProjectionOK(q)'
        BY <3>1, <4>2, ProjectionStill
      <4> QED BY <3>3, <4>1, <4>2, <4>3 DEF ProjectionOK, Counts, Sound
    <3> QED BY <3>1, <3>2, <3>3
  <2>6. CASE Crash
    <3>1. UNCHANGED <<chain, db>>
      BY <2>6 DEF Crash, chainVars, dbVars
    <3> QED BY <3>1, LedgerKept
  <2>7. CASE UNCHANGED vars
    <3>1. UNCHANGED <<chain, db>>
      BY <2>7 DEF vars, chainVars, dbVars
    <3> QED BY <3>1, LedgerKept
  <2> QED BY <2>1, <2>2, <2>3, <2>4, <2>5, <2>6, <2>7, StepCases
<1> QED BY <1>1, <1>2 DEF LedgerOK

LEMMA LedgerInit == Init => LedgerOK
<1> SUFFICES ASSUME Init PROVE LedgerOK
  OBVIOUS
<1>1. LoopsOK /\ ChainOK
  BY LoopsInit, ChainInitOK
<1>2. db = EmptyProjection
  BY DEF Init
<1> QED BY <1>1, <1>2, EmptyOK, EmptyTables DEF LedgerOK

\* ingestion-db.ts: whatever loops overlap, crash or begin again, the tables are sound and count the
\* transfers of each ingested block once.
THEOREM LedgerTheorem == Spec => []LedgerOK
<1>1. LedgerOK /\ [Next]_vars => LedgerOK'
  BY LedgerStep
<1> QED BY <1>1, LedgerInit, PTL DEF Spec

\* ingestion-db.ts and ingestion.ts: the tables and the variables of the loops hold what their
\* types say; no window is committed that would leave a negative supply.
THEOREM TypeTheorem == Spec => []TypeOK
<1>1. LedgerOK => TypeOK
  <2> SUFFICES ASSUME LedgerOK PROVE TypeOK
    OBVIOUS
  <2>1. LoopsOK /\ ProjectionOK(db) /\ ~db.failed
    BY DEF LedgerOK
  <2>2. db.bond.supply \in Nat /\ db.bal \in [Owners -> Int] /\ db.applied \subseteq 1 .. Height
    <3>1. db.bond.supply \in Int /\ db.bal \in [Owners -> Int] /\ db.bond.supply >= 0
      BY <2>1 DEF ProjectionOK, Sound, Tables, BondRows
    <3> QED BY <2>1, <3>1 DEF ProjectionOK
  <2>3. /\ checkpoint \in 0 .. Height + 1 /\ tables \in BOOLEAN
        /\ phase \in [Loops -> Phases] /\ next \in [Loops -> 0 .. Height + 1]
        /\ timers \subseteq Loops /\ handle \in {0} \cup timers /\ advancer \in {0} \cup Loops
        /\ lastBlock \in 0 .. Height /\ caughtUp \subseteq 1 .. Height
    BY <2>1 DEF LoopsOK, LoopsTyped, TablesOK
  <2>4. \A k \in DOMAIN queue : queue[k].loop \in Loops /\ queue[k].target \in 0 .. Height
    <3> TAKE k \in DOMAIN queue
    <3>1. queue \in Seq(Works) /\ WorkOK(queue[k])
      BY <2>1 DEF LoopsOK, QueueOK
    <3>2. queue[k] \in Works
      BY <3>1
    <3> QED BY <3>1, <3>2 DEF WorkOK, Works
  <2> QED BY <2>2, <2>3, <2>4 DEF TypeOK
<1> QED BY <1>1, LedgerTheorem, PTL

\* projection/bond-state.ts and applyBalanceDelta: a balance is the sum of what the account gains in
\* the ingested blocks, each counted once, however loops overlap and windows are replayed.
THEOREM BalancesTheorem == Spec => []BalancesAppliedOnce
<1>1. LedgerOK => BalancesAppliedOnce
  <2> SUFFICES ASSUME LedgerOK PROVE BalancesAppliedOnce
    OBVIOUS
  <2>1. Counts(db, db.applied) /\ ChainOK
    BY DEF LedgerOK, ProjectionOK
  <2> SUFFICES ASSUME NEW a \in Owners
               PROVE  LET before(b) == IF b = 1 THEN 0 ELSE chain[b - 1].state.bal[a]
                          gain      == [b \in 1 .. Height |-> chain[b].state.bal[a] - before(b)]
                      IN  db.bal[a] = SumFunctionOnSet(gain, db.applied)
    BY DEF BalancesAppliedOnce
  <2> DEFINE before(b) == IF b = 1 THEN 0 ELSE chain[b - 1].state.bal[a]
             gain      == [b \in 1 .. Height |-> chain[b].state.bal[a] - before(b)]
  <2>2. gain = GainsOf(a)
    <3>1. ASSUME NEW b \in 1 .. Height
          PROVE  chain[b].state.bal[a] - before(b) = StateAt(b).bal[a] - StateAt(b - 1).bal[a]
      <4>1. b # 0 /\ StateAt(b) = chain[b].state
        BY ChainStateOK, <2>1 DEF StateAt
      <4>2. before(b) = StateAt(b - 1).bal[a]
        <5>1. CASE b = 1
          BY <5>1 DEF StateAt, InitialState
        <5>2. CASE b # 1
          <6>1. b - 1 # 0
            BY <5>2
          <6> QED BY <5>2, <6>1 DEF StateAt
        <5> QED BY <5>1, <5>2
      <4> QED BY <4>1, <4>2
    <3> QED BY <3>1 DEF GainsOf
  <2>3. db.bal[a] = SumFunctionOnSet(GainsOf(a), db.applied)
    BY <2>1 DEF Counts
  <2> QED BY <2>2, <2>3
<1> QED BY <1>1, LedgerTheorem, PTL

-----------------------------------------------------------------------------
(* What a window makes of tables that follow the chain up to it             *)

LEMMA StateOKAt ==
    ASSUME ChainOK, NEW j \in 0 .. Height
    PROVE  StateOK(StateAt(j)) /\ StateTyped(StateAt(j)) /\ StateAt(j).bond \in TermRows
<1>1. StateOK(StateAt(j))
  <2>1. CASE j = 0
    BY <2>1, InitialStateOK DEF StateAt
  <2>2. CASE j # 0
    <3>1. j \in 1 .. Height
      BY <2>2, ChainStateOK
    <3> QED BY <3>1, BlockFacts DEF BlockFact
  <2> QED BY <2>1, <2>2
<1> QED BY <1>1 DEF StateOK, StateTyped, ContractStates

\* Later states know the auctions of earlier ones, and have paid no fewer coupons.
Precedes(s, t) == AuctionsGrow(s, t) /\ s.bond.count <= t.bond.count

LEMMA PrecedesTwice ==
    ASSUME NEW s, NEW r, NEW t, StateTyped(s), StateTyped(r), StateTyped(t), Precedes(s, r), Precedes(r, t)
    PROVE  Precedes(s, t)
<1>1. /\ DOMAIN s.auctions = 1 .. Latest(s) /\ DOMAIN r.auctions = 1 .. Latest(r)
      /\ Latest(s) \in Nat /\ Latest(r) \in Nat /\ Latest(t) \in Nat
  BY AuctionsTyped
<1>2. Latest(s) <= Latest(r) /\ Latest(r) <= Latest(t)
  BY DEF Precedes, AuctionsGrow
<1>3. \A n \in DOMAIN s.auctions : n \in DOMAIN r.auctions
  BY <1>1, <1>2
<1>4. s.bond.count \in Nat /\ r.bond.count \in Nat /\ t.bond.count \in Nat
  BY DEF StateTyped, ContractStates, TermRows
<1>5. AuctionsGrow(s, t)
  BY <1>1, <1>2, <1>3 DEF Precedes, AuctionsGrow
<1> QED BY <1>4, <1>5 DEF Precedes

LEMMA Later ==
    ASSUME ChainOK, NEW i \in 0 .. Height, NEW j \in i .. Height
    PROVE  Precedes(StateAt(i), StateAt(j))
<1> DEFINE G == {k \in i .. Height : Precedes(StateAt(i), StateAt(k))}
<1>0. Height \in Nat /\ i + 1 \in Int /\ (i + 1) - 1 = i
  BY ChainStateOK
<1>1. i \in G
  <2>1. PICK s : s = StateAt(i)
    OBVIOUS
  <2>2. StateTyped(s)
    BY <2>1, StateOKAt
  <2>3. Latest(s) \in Nat /\ s.bond.count \in Nat
    BY <2>2, AuctionsTyped DEF StateTyped, ContractStates, TermRows
  <2>4. Precedes(s, s)
    BY <2>3 DEF Precedes, AuctionsGrow
  <2> QED BY <1>0, <2>1, <2>4
<1>2. ASSUME NEW k \in i + 1 .. Height, k - 1 \in G PROVE k \in G
  <2>1. k \in 1 .. Height /\ k \in 0 .. Height /\ k - 1 \in 0 .. Height /\ k \in i .. Height
    BY <1>0
  <2>2. PICK s : s = StateAt(i)
    OBVIOUS
  <2>3. PICK r : r = StateAt(k - 1)
    OBVIOUS
  <2>4. PICK t : t = StateAt(k)
    OBVIOUS
  <2>5. StateTyped(s) /\ StateTyped(r) /\ StateTyped(t)
    BY <2>1, <2>2, <2>3, <2>4, StateOKAt
  <2>6. Passage(r, t, k)
    BY <2>1, <2>3, <2>4, BlockFacts DEF BlockFact
  <2>7. Precedes(r, t)
    BY <2>6 DEF Passage, BondPasses, Precedes
  <2>8. Precedes(s, r)
    BY <1>2, <2>2, <2>3
  <2>9. Precedes(s, t)
    BY <2>5, <2>7, <2>8, PrecedesTwice
  <2> QED BY <2>1, <2>2, <2>4, <2>9
<1> HIDE DEF G
<1>3. \A k \in i .. Height : k \in G
  <2>1. i + 1 \in Int /\ Height \in Int
    BY <1>0
  <2>2. (i + 1) - 1 \in G
    BY <1>0, <1>1
  <2>3. \A k \in (i + 1) - 1 .. Height : k \in G
    BY <1>2, <2>1, <2>2, Throughout
  <2> QED BY <1>0, <2>3
<1> QED BY <1>3 DEF G

\* A block that deploys the bond leaves it without units and terms, as it was in every state before.
LEMMA DeployedNew ==
    ASSUME ChainOK, NEW i \in 0 .. Height, NEW j \in 1 .. Height, i < j, ~StateAt(j - 1).bond.active
    PROVE  /\ Deploys(StateAt(j - 1), StateAt(j)) /\ Unissued(StateAt(i)) /\ Unissued(StateAt(j))
           /\ ~Sold(StateAt(j))
<1>0. Height \in Nat
  BY ChainStateOK
<1>1. PICK s : s = StateAt(j - 1)
  OBVIOUS
<1>2. PICK t : t = StateAt(j)
  OBVIOUS
<1>3. StateOK(s) /\ StateOK(t) /\ BondPasses(s, t, j) /\ ~s.bond.active
  BY <1>1, <1>2, BlockFacts DEF BlockFact, Passage
<1>4. t.bond.active /\ ~Sold(t) /\ Unissued(t) /\ ~Sold(s)
  BY <1>3 DEF BondPasses, StateOK
<1>5. Unissued(StateAt(i))
  <2>1. i \in 0 .. Height /\ j - 1 \in i .. Height
    BY <1>0
  <2>2. Precedes(StateAt(i), s)
    BY <1>1, <2>1, Later
  <2>3. ~Sold(StateAt(i))
    BY <1>4, <2>2 DEF Precedes, AuctionsGrow
  <2> QED BY <2>3, StateOKAt DEF StateOK
<1> QED BY <1>1, <1>2, <1>3, <1>4, <1>5 DEF Deploys

\* The rows of bond_events and auction_events up to block k
Rows(k) == {HistoryRow(e) : e \in {x \in Range(chain[k].manager) : x.event \notin Unprojected}}
UpTo(k) == UNION {Rows(b) : b \in 1 .. k}

LEMMA UpToNext ==
    ASSUME NEW k \in Nat \ {0}
    PROVE  UpTo(k) = UpTo(k - 1) \cup Told(chain[k].manager)
<1>1. Rows(k) = Told(chain[k].manager)
  BY DEF Rows, Told, Read, Range
<1>2. \A b : b \in 1 .. k <=> b \in 1 .. k - 1 \/ b = k
  OBVIOUS
<1>3. UpTo(k) = UpTo(k - 1) \cup Rows(k)
  BY <1>2 DEF UpTo
<1> QED BY <1>1, <1>3

LEMMA UpToNone == UpTo(0) = {}
  BY DEF UpTo

\* The columns of the bond, and tables that follow the chain up to block k
SameColumns(r, u) ==
    /\ r.offering = u.offering /\ r.supply = u.supply /\ r.maturityDate = u.maturityDate
    /\ r.lastPayment = u.lastPayment /\ r.count = u.count /\ r.matured = u.matured /\ r.issued = u.issued
Flagging(p, s) == p.listed /\ (p.hidden <=> ~s.bond.active) /\ p.bond.maturityDuration = Periods
Follows(p, k) ==
    /\ p \in Tables /\ SameColumns(p.bond, StateAt(k).bond)
    /\ \A n \in 1 .. MaxAuctions : Tells(p, StateAt(k), n) /\ TellsBids(p, StateAt(k), n)
    /\ p.bal = StateAt(k).bal /\ p.applied = 1 .. k /\ p.history = UpTo(k)
    /\ k # 0 => Flagging(p, StateAt(k))

\* The manager's pass: the tables are ahead with what its logs tell, and behind with the rest.
Deployed(a, j) == \E b \in a .. j : ~StateAt(b - 1).bond.active
PaidBy(payment, s, t) ==
    /\ t.bond.count > s.bond.count => payment = t.bond.lastPayment
    /\ t.bond.count = s.bond.count => payment = s.bond.lastPayment
Terms(r, s, t) ==
    /\ r.count = t.bond.count /\ r.matured = t.bond.matured /\ r.issued = t.bond.issued
    /\ r.supply = s.bond.supply /\ r.maturityDate = s.bond.maturityDate /\ PaidBy(r.lastPayment, s, t)
ManagerAt(p, q, a, j) ==
    /\ q \in Tables /\ SameMoney(p, q) /\ SameBids(p, q) /\ q.history = UpTo(j)
    /\ j # 0 => Flagging(q, StateAt(j))
    /\ Terms(q.bond, StateAt(a - 1), StateAt(j))
    /\ q.bond.offering = StateAt(a - 1).bond.offering \/ Deployed(a, j)
    /\ \A n \in 1 .. MaxAuctions : Tells(q, StateAt(j), n)

\* A block that deploys the bond makes new terms of it; another keeps them in step.
LEMMA TermsNew ==
    ASSUME NEW u, u = ReduceCreated, NEW s, Unissued(s), NEW t, Unissued(t)
    PROVE  Terms(u, s, t)
<1>1. u \in BondRows /\ u.supply = 0 /\ u.maturityDate = 0 /\ u.lastPayment = 0 /\ u.count = 0 /\ ~u.matured /\ ~u.issued
  BY NewRow
<1>2. u.matured \in BOOLEAN /\ u.issued \in BOOLEAN
  BY <1>1 DEF BondRows
<1>3. u.matured = FALSE /\ u.issued = FALSE
  BY <1>1, <1>2, Zenon
<1>4. t.bond.count = 0 /\ t.bond.lastPayment = 0 /\ t.bond.matured = FALSE /\ t.bond.issued = FALSE
  BY DEF Unissued
<1>5. s.bond.supply = 0 /\ s.bond.maturityDate = 0 /\ s.bond.lastPayment = 0
  BY DEF Unissued
<1>6. u.matured = t.bond.matured /\ u.issued = t.bond.issued
  BY <1>3, <1>4
<1>7. PaidBy(u.lastPayment, s, t)
  BY <1>1, <1>4, <1>5 DEF PaidBy
<1> QED BY <1>1, <1>4, <1>5, <1>6, <1>7 DEF Terms

LEMMA TermsNext ==
    ASSUME NEW s, NEW r, NEW t, NEW b, s.bond \in TermRows, r.bond \in TermRows, t.bond \in TermRows,
           Precedes(s, r), BondPasses(r, t, b), NEW x, Terms(x, s, r), NEW y, Kept(x, y), CountFollows(x, y, r, t, b),
           FlagsFollow(x, y, r, t)
    PROVE  Terms(y, s, t)
<1>1. s.bond.count \in Nat /\ r.bond.count \in Nat /\ t.bond.count \in Nat /\ s.bond.count <= r.bond.count
      /\ r.bond.count <= t.bond.count
  BY DEF TermRows, Precedes, BondPasses
<1>2. /\ y.count = t.bond.count /\ y.matured = t.bond.matured /\ y.issued = t.bond.issued
      /\ y.supply = s.bond.supply /\ y.maturityDate = s.bond.maturityDate
      /\ y.lastPayment = IF t.bond.count > r.bond.count THEN b ELSE x.lastPayment
  BY DEF Terms, Kept, CountFollows, FlagsFollow
<1>3. PaidBy(y.lastPayment, s, t)
  <2>1. CASE t.bond.count > r.bond.count
    <3>1. y.lastPayment = b /\ t.bond.lastPayment = b
      BY <1>2, <2>1 DEF BondPasses
    <3> QED BY <1>1, <2>1, <3>1 DEF PaidBy
  <2>2. CASE ~(t.bond.count > r.bond.count)
    <3>1. t.bond.count = r.bond.count /\ y.lastPayment = x.lastPayment /\ PaidBy(x.lastPayment, s, r)
      BY <1>1, <1>2, <2>2 DEF Terms
    <3>2. CASE r.bond.count > s.bond.count
      <4>1. x.lastPayment = r.bond.lastPayment
        BY <3>1, <3>2 DEF PaidBy
      <4>2. ~Enables(r, t)
        BY <1>1, <3>2 DEF BondPasses
      <4>3. t.bond.lastPayment = r.bond.lastPayment
        BY <3>1, <4>2 DEF BondPasses
      <4> QED BY <1>1, <3>1, <3>2, <4>1, <4>3 DEF PaidBy
    <3>3. CASE ~(r.bond.count > s.bond.count)
      BY <1>1, <3>1, <3>3 DEF PaidBy
    <3> QED BY <3>2, <3>3
  <2> QED BY <2>1, <2>2
<1> QED BY <1>2, <1>3 DEF Terms

LEMMA ManagerNext ==
    ASSUME ChainOK, NEW a \in Nat \ {0}, NEW j \in a .. Height, NEW p, NEW r, NEW q, ManagerAt(p, r, a, j - 1),
           ManagerEffect(StateAt(j - 1), StateAt(j), j, chain[j].manager, r, q)
    PROVE  ManagerAt(p, q, a, j)
<1>0. /\ Height \in Nat /\ j \in 1 .. Height /\ j \in Nat \ {0} /\ a - 1 \in 0 .. Height /\ j - 1 \in 0 .. Height
      /\ j \in 0 .. Height /\ j - 1 \in a - 1 .. Height /\ a - 1 < j
  BY ChainStateOK
<1>1. PICK s : s = StateAt(a - 1)
  OBVIOUS
<1>2. PICK c : c = StateAt(j - 1)
  OBVIOUS
<1>3. PICK t : t = StateAt(j)
  OBVIOUS
<1>4. PICK logs : logs = chain[j].manager
  OBVIOUS
<1>5. s.bond \in TermRows /\ c.bond \in TermRows /\ t.bond \in TermRows
  BY <1>0, <1>1, <1>2, <1>3, StateOKAt
<1>6. Precedes(s, c)
  BY <1>0, <1>1, <1>2, Later
<1>7. BondPasses(c, t, j)
  BY <1>0, <1>2, <1>3, BlockFacts DEF BlockFact, Passage
<1>8. ManagerEffect(c, t, j, logs, r, q)
  BY <1>2, <1>3, <1>4
<1>9. /\ SameMoney(p, r) /\ SameBids(p, r) /\ r.history = UpTo(j - 1) /\ Terms(r.bond, s, c)
      /\ (j - 1 # 0 => Flagging(r, c)) /\ (r.bond.offering = s.bond.offering \/ Deployed(a, j - 1))
      /\ \A n \in 1 .. MaxAuctions : Tells(r, c, n)
  BY <1>1, <1>2 DEF ManagerAt
<1>10. q \in Tables /\ SameMoney(p, q) /\ SameBids(p, q) /\ \A n \in 1 .. MaxAuctions : Tells(q, t, n)
  BY <1>8, <1>9 DEF ManagerEffect, SameMoney, SameBids, RowsFollow
<1>11. q.history = UpTo(j)
  <2>1. q.history = r.history \cup Told(logs)
    BY <1>8 DEF ManagerEffect, Noted
  <2>2. UpTo(j) = UpTo(j - 1) \cup Told(logs)
    BY <1>0, <1>4, UpToNext
  <2> QED BY <1>9, <2>1, <2>2
<1>12. CASE ~c.bond.active
  <2>1. Deploys(c, t) /\ Unissued(s) /\ Unissued(t)
    BY <1>0, <1>1, <1>2, <1>3, <1>12, DeployedNew
  <2>2. q.listed /\ ~q.hidden /\ q.bond = ReduceCreated /\ t.bond.active
    BY <1>8, <2>1 DEF ManagerEffect, Deploys
  <2>3. Flagging(q, t)
    BY <2>2, NewRow DEF Flagging
  <2>4. Terms(q.bond, s, t)
    BY <2>1, <2>2, TermsNew
  <2>5. Deployed(a, j)
    BY <1>0, <1>2, <1>12 DEF Deployed
  <2> QED BY <1>1, <1>3, <1>10, <1>11, <2>3, <2>4, <2>5 DEF ManagerAt
<1>13. CASE c.bond.active
  <2>1. j - 1 # 0
    BY <1>2, <1>13 DEF StateAt, InitialState, NewBond
  <2>2. ~Deploys(c, t) /\ Flagging(r, c)
    BY <1>9, <1>13, <2>1 DEF Deploys
  <2>3. Kept(r.bond, q.bond) /\ CountFollows(r.bond, q.bond, c, t, j) /\ FlagsFollow(r.bond, q.bond, c, t)
    BY <1>8, <2>2 DEF ManagerEffect
  <2>4. q.listed /\ (q.hidden <=> ~t.bond.active)
    BY <1>8, <2>2 DEF ManagerEffect, Flagging
  <2>5. Flagging(q, t)
    BY <2>2, <2>3, <2>4 DEF Flagging, Kept
  <2>6. Terms(q.bond, s, t)
    BY <1>5, <1>6, <1>7, <1>9, <2>3, TermsNext
  <2>7. q.bond.offering = s.bond.offering \/ Deployed(a, j)
    <3>1. Deployed(a, j - 1) => Deployed(a, j)
      BY <1>0 DEF Deployed
    <3> QED BY <1>9, <2>3, <3>1 DEF Kept
  <2> QED BY <1>1, <1>3, <1>10, <1>11, <2>5, <2>6, <2>7 DEF ManagerAt
<1> QED BY <1>12, <1>13

LEMMA ManagerFollows ==
    ASSUME ChainOK, NEW a \in Nat \ {0}, NEW z \in a .. Height, NEW p, Follows(p, a - 1), NEW u, Run("manager", p, a, z, u)
    PROVE  \A j \in a - 1 .. z : ManagerAt(p, u[j], a, j)
<1> DEFINE G == {j \in a - 1 .. z : ManagerAt(p, u[j], a, j)}
<1>0. Height \in Nat /\ z \in Int /\ a - 1 \in a - 1 .. z /\ a - 1 \in 0 .. Height
  BY ChainStateOK
<1>1. a - 1 \in G
  <2>1. u[a - 1] = p
    BY DEF Run
  <2>2. PICK s : s = StateAt(a - 1)
    OBVIOUS
  <2>3. s.bond \in TermRows
    BY <1>0, <2>2, StateOKAt
  <2>4. Terms(p.bond, s, s)
    BY <2>2, <2>3 DEF Follows, SameColumns, Terms, PaidBy, TermRows
  <2>5. ManagerAt(p, p, a, a - 1)
    BY <2>2, <2>4 DEF ManagerAt, Follows, SameMoney, SameBids, SameColumns
  <2> QED BY <1>0, <2>1, <2>5
<1>2. ASSUME NEW j \in a .. z, j - 1 \in G PROVE j \in G
  <2>1. j \in a .. Height /\ j \in a - 1 .. z /\ j \in 1 .. Height /\ ManagerAt(p, u[j - 1], a, j - 1)
    BY <1>0, <1>2
  <2>2. u[j] = ApplyLogs("manager", u[j - 1], chain[j].manager)
    BY SourceLogs DEF Run
  <2>3. ManagerFact(StateAt(j - 1), StateAt(j), j, chain[j].manager)
    BY <2>1, BlockFacts DEF BlockFact
  <2>4. PICK r : r = u[j - 1]
    OBVIOUS
  <2>5. PICK q : q = u[j]
    OBVIOUS
  <2>6. ManagerEffect(StateAt(j - 1), StateAt(j), j, chain[j].manager, r, q)
    BY <2>1, <2>2, <2>3, <2>4, <2>5 DEF ManagerFact, ManagerAt
  <2>7. ManagerAt(p, r, a, j - 1)
    BY <2>1, <2>4
  <2>8. ManagerAt(p, q, a, j)
    BY <2>1, <2>6, <2>7, ManagerNext
  <2> QED BY <2>1, <2>5, <2>8
<1> HIDE DEF G
<1>3. \A j \in a - 1 .. z : j \in G
  BY <1>0, <1>1, <1>2, Throughout
<1> QED BY <1>3 DEF G

\* The auction contract's pass: bids and allocations catch up, types and statuses stay.
AuctionAt(m, q, j) ==
    SameRest(m, q) /\ SameKinds(m, q) /\ \A n \in 1 .. MaxAuctions : TellsBids(q, StateAt(j), n)

\* After the manager's pass every auction up to the window's end has a row.
LEMMA RowsKnown ==
    ASSUME ChainOK, NEW z \in 0 .. Height, NEW j \in 0 .. z, NEW m,
           \A n \in 1 .. MaxAuctions : Tells(m, StateAt(z), n), NEW r, SameKinds(m, r)
    PROVE  KnownRows(r, StateAt(j))
<1>0. Height \in Nat /\ j \in 0 .. Height /\ z \in j .. Height
  BY ChainStateOK
<1>1. PICK t : t = StateAt(j)
  OBVIOUS
<1>2. PICK e : e = StateAt(z)
  OBVIOUS
<1>3. StateTyped(t) /\ StateTyped(e) /\ Precedes(t, e)
  BY <1>0, <1>1, <1>2, StateOKAt, Later
<1>4. /\ DOMAIN t.auctions = 1 .. Latest(t) /\ DOMAIN e.auctions = 1 .. Latest(e) /\ Latest(t) \in Nat
      /\ Latest(e) \in Nat /\ \A n \in 1 .. Latest(e) : e.auctions[n] \in AuctionStates
  BY <1>3, AuctionsTyped
<1>5. ASSUME NEW n \in (DOMAIN t.auctions) \cap (1 .. MaxAuctions)
      PROVE  r.auction[n].type = TypeIn(t, n) /\ r.auction[n].status # "none"
  <2>1. n \in DOMAIN e.auctions /\ TypeIn(e, n) = TypeIn(t, n)
    BY <1>3, <1>4 DEF Precedes, AuctionsGrow
  <2>2. e.auctions[n] \in AuctionStates
    BY <1>4, <2>1
  <2>3. StatusIn(e, n) # "none"
    BY <2>1, <2>2 DEF StatusIn, AuctionStates
  <2>4. Tells(m, e, n)
    BY <1>2
  <2>5. r.auction[n].type = m.auction[n].type /\ r.auction[n].status = m.auction[n].status
    BY DEF SameKinds
  <2> QED BY <2>1, <2>3, <2>4, <2>5 DEF Tells
<1> QED BY <1>1, <1>5 DEF KnownRows

LEMMA AuctionFollows ==
    ASSUME ChainOK, NEW a \in Nat \ {0}, NEW z \in a .. Height, NEW p, Follows(p, a - 1), NEW m, ManagerAt(p, m, a, z),
           NEW v, Run("auction", m, a, z, v)
    PROVE  \A j \in a - 1 .. z : AuctionAt(m, v[j], j)
<1> DEFINE G == {j \in a - 1 .. z : AuctionAt(m, v[j], j)}
<1>0. Height \in Nat /\ z \in Int /\ a - 1 \in a - 1 .. z /\ z \in 0 .. Height
  BY ChainStateOK
<1>1. a - 1 \in G
  <2>1. v[a - 1] = m
    BY DEF Run
  <2>2. SameRest(m, m) /\ SameKinds(m, m)
    BY DEF SameRest, SameKinds, SameBonds, SameFlags, SameMoney, ManagerAt
  <2>3. \A n \in 1 .. MaxAuctions : TellsBids(m, StateAt(a - 1), n)
    BY DEF ManagerAt, Follows, SameBids, TellsBids
  <2>4. AuctionAt(m, m, a - 1)
    BY <2>2, <2>3 DEF AuctionAt
  <2> QED BY <1>0, <2>1, <2>4
<1>2. ASSUME NEW j \in a .. z, j - 1 \in G PROVE j \in G
  <2>1. j \in 0 .. z /\ j \in a - 1 .. z /\ AuctionAt(m, v[j - 1], j - 1)
    BY <1>0, <1>2
  <2>2. PICK r : r = v[j - 1]
    OBVIOUS
  <2>3. PICK q : q = v[j]
    OBVIOUS
  <2>4. SameRest(m, r) /\ SameKinds(m, r) /\ \A n \in 1 .. MaxAuctions : TellsBids(r, StateAt(j - 1), n)
    BY <2>1, <2>2 DEF AuctionAt
  <2>5. AuctionEffect(StateAt(j - 1), StateAt(j), r, q)
    <3>1. v[j - 1] \in Tables
      BY <2>2, <2>4 DEF SameRest
    <3>2. AuctionEffect(StateAt(j - 1), StateAt(j), v[j - 1], v[j])
      BY <3>1, AuctionStepOf
    <3> QED BY <2>2, <2>3, <3>2
  <2>6. KnownRows(r, StateAt(j))
    <3>1. \A n \in 1 .. MaxAuctions : Tells(m, StateAt(z), n)
      BY DEF ManagerAt
    <3> QED BY <1>0, <2>1, <2>4, <3>1, RowsKnown
  <2>7. SameRest(m, q)
    <3>1. SameRest(r, q)
      BY <2>5 DEF AuctionEffect
    <3> QED BY <2>4, <3>1, SameRestTwice
  <2>8. SameKinds(m, q)
    <3>1. SameKinds(r, q)
      BY <2>5, <2>6 DEF AuctionEffect
    <3> QED BY <2>4, <3>1 DEF SameKinds
  <2>9. \A n \in 1 .. MaxAuctions : TellsBids(q, StateAt(j), n)
    BY <2>4, <2>5 DEF AuctionEffect, BidsFollow
  <2>10. AuctionAt(m, q, j)
    BY <2>7, <2>8, <2>9 DEF AuctionAt
  <2> QED BY <2>1, <2>3, <2>10
<1> HIDE DEF G
<1>3. \A j \in a - 1 .. z : j \in G
  BY <1>0, <1>1, <1>2, Throughout
<1> QED BY <1>3 DEF G

\* The lifecycle logs' pass: offering, maturity and last payment catch up.
PaidSince(payment, s, t, c) ==
    /\ t.bond.count > s.bond.count => payment = t.bond.lastPayment
    /\ t.bond.count = s.bond.count => payment = c.bond.lastPayment
LifeAt(x, q, a, j, z) ==
    /\ LifedTo(x, q)
    /\ q.bond.offering = StateAt(j).bond.offering \/ Deployed(j + 1, z)
    /\ q.bond.maturityDate = StateAt(j).bond.maturityDate
    /\ PaidSince(q.bond.lastPayment, StateAt(a - 1), StateAt(z), StateAt(j))

LEMMA PaidNext ==
    ASSUME NEW s, NEW c, NEW t, NEW e, NEW b, s.bond \in TermRows, c.bond \in TermRows, t.bond \in TermRows,
           e.bond \in TermRows, Precedes(s, c), Precedes(t, e), BondPasses(c, t, b), NEW x, PaidSince(x, s, e, c),
           NEW count, count = e.bond.count, NEW y, y = IF Enables(c, t) /\ count = 0 THEN b ELSE x
    PROVE  PaidSince(y, s, e, t)
<1>1. /\ s.bond.count \in Nat /\ c.bond.count \in Nat /\ t.bond.count \in Nat /\ e.bond.count \in Nat
      /\ s.bond.count <= c.bond.count /\ c.bond.count <= t.bond.count /\ t.bond.count <= e.bond.count
  BY DEF TermRows, Precedes, BondPasses
<1>2. CASE e.bond.count > s.bond.count
  <2>1. y = x
    BY <1>1, <1>2
  <2> QED BY <1>1, <1>2, <2>1 DEF PaidSince
<1>3. CASE ~(e.bond.count > s.bond.count)
  <2>1. c.bond.count = t.bond.count /\ x = c.bond.lastPayment /\ e.bond.count = c.bond.count
    BY <1>1, <1>3 DEF PaidSince
  <2>2. y = t.bond.lastPayment
    <3>1. CASE Enables(c, t)
      <4>1. c.bond.count = 0 /\ t.bond.lastPayment = b
        BY <3>1 DEF BondPasses
      <4> QED BY <2>1, <3>1, <4>1
    <3>2. CASE ~Enables(c, t)
      <4>1. t.bond.lastPayment = c.bond.lastPayment
        BY <2>1, <3>2 DEF BondPasses
      <4> QED BY <2>1, <3>2, <4>1
    <3> QED BY <3>1, <3>2
  <2> QED BY <1>1, <1>3, <2>2 DEF PaidSince
<1> QED BY <1>2, <1>3

LEMMA LifeNext ==
    ASSUME ChainOK, NEW a \in Nat \ {0}, NEW z \in a .. Height, NEW j \in a .. z, NEW x,
           x.bond.count = StateAt(z).bond.count, x.bond.maturityDuration = Periods, NEW r, NEW q,
           LifeAt(x, r, a, j - 1, z), LifecycleEffect(StateAt(j - 1), StateAt(j), j, r, q)
    PROVE  LifeAt(x, q, a, j, z)
<1>0. /\ Height \in Nat /\ j \in 1 .. Height /\ a - 1 \in 0 .. Height /\ j - 1 \in 0 .. Height /\ j \in 0 .. Height
      /\ z \in 0 .. Height /\ j - 1 \in a - 1 .. Height /\ z \in j .. Height /\ (j - 1) + 1 = j
  BY ChainStateOK
<1>1. PICK s : s = StateAt(a - 1)
  OBVIOUS
<1>2. PICK c : c = StateAt(j - 1)
  OBVIOUS
<1>3. PICK t : t = StateAt(j)
  OBVIOUS
<1>4. PICK e : e = StateAt(z)
  OBVIOUS
<1>5. s.bond \in TermRows /\ c.bond \in TermRows /\ t.bond \in TermRows /\ e.bond \in TermRows
  BY <1>0, <1>1, <1>2, <1>3, <1>4, StateOKAt
<1>6. Precedes(s, c) /\ Precedes(t, e)
  BY <1>0, <1>1, <1>2, <1>3, <1>4, Later
<1>7. BondPasses(c, t, j)
  BY <1>0, <1>2, <1>3, BlockFacts DEF BlockFact, Passage
<1>8. LifecycleEffect(c, t, j, r, q)
  BY <1>2, <1>3
<1>9. /\ LifedTo(x, r) /\ (r.bond.offering = c.bond.offering \/ Deployed(j, z))
      /\ r.bond.maturityDate = c.bond.maturityDate /\ PaidSince(r.bond.lastPayment, s, e, c)
  BY <1>0, <1>1, <1>2, <1>4 DEF LifeAt
<1>10. LifedTo(x, q)
  <2>1. LifedTo(r, q)
    BY <1>8 DEF LifecycleEffect, LifedTo
  <2> QED BY <1>9, <2>1, LifedTwice
<1>11. r.bond.count = e.bond.count /\ r.bond.maturityDuration = Periods
  BY <1>4, <1>9 DEF LifedTo, SameCounts
<1>12. q.bond.maturityDate = t.bond.maturityDate
  BY <1>8, <1>9, <1>11 DEF LifecycleEffect
<1>13. PaidSince(q.bond.lastPayment, s, e, t)
  <2>1. PICK y : y = q.bond.lastPayment
    OBVIOUS
  <2>2. PICK k : k = r.bond.count
    OBVIOUS
  <2>3. PICK g : g = r.bond.lastPayment
    OBVIOUS
  <2>4. y = IF Enables(c, t) /\ k = 0 THEN j ELSE g
    BY <1>8, <2>1, <2>2, <2>3 DEF LifecycleEffect
  <2>5. PaidSince(g, s, e, c) /\ k = e.bond.count
    BY <1>9, <1>11, <2>2, <2>3
  <2>6. PaidSince(y, s, e, t)
    BY <1>5, <1>6, <1>7, <2>4, <2>5, PaidNext
  <2> QED BY <2>1, <2>6
<1>14. q.bond.offering = t.bond.offering \/ Deployed(j + 1, z)
  <2>1. CASE r.bond.offering = c.bond.offering
    BY <1>8, <2>1 DEF LifecycleEffect
  <2>2. CASE Deployed(j, z)
    <3>1. PICK b \in j .. z : ~StateAt(b - 1).bond.active
      BY <2>2 DEF Deployed
    <3>2. CASE b = j
      <4>1. Deploys(c, t)
        <5>1. ~c.bond.active
          BY <1>2, <3>1, <3>2
        <5>2. t.bond.active
          BY <1>7, <5>1 DEF BondPasses
        <5> QED BY <5>1, <5>2 DEF Deploys
      <4> QED BY <1>8, <4>1 DEF LifecycleEffect
    <3>3. CASE b # j
      <4>1. b \in j + 1 .. z
        BY <1>0, <3>1, <3>3
      <4> QED BY <3>1, <4>1 DEF Deployed
    <3> QED BY <3>2, <3>3
  <2> QED BY <1>9, <2>1, <2>2
<1> QED BY <1>1, <1>3, <1>4, <1>10, <1>12, <1>13, <1>14 DEF LifeAt

LEMMA LifecycleFollows ==
    ASSUME ChainOK, NEW a \in Nat \ {0}, NEW z \in a .. Height, NEW x \in Tables, Flagging(x, StateAt(z)),
           Terms(x.bond, StateAt(a - 1), StateAt(z)), x.bond.offering = StateAt(a - 1).bond.offering \/ Deployed(a, z),
           NEW w, Run("lifecycle", x, a, z, w)
    PROVE  \A j \in a - 1 .. z : LifeAt(x, w[j], a, j, z)
<1> DEFINE G == {j \in a - 1 .. z : LifeAt(x, w[j], a, j, z)}
<1>0. Height \in Nat /\ z \in Int /\ a - 1 \in a - 1 .. z /\ (a - 1) + 1 = a
  BY ChainStateOK
<1>1. a - 1 \in G
  <2>1. w[a - 1] = x
    BY DEF Run
  <2>2. LifedTo(x, x)
    BY DEF LifedTo, SameFlags, SameAuctions, SameMoney, SameCounts
  <2>3. x.bond.maturityDate = StateAt(a - 1).bond.maturityDate
    BY DEF Terms
  <2>4. PaidSince(x.bond.lastPayment, StateAt(a - 1), StateAt(z), StateAt(a - 1))
    BY DEF Terms, PaidBy, PaidSince
  <2>5. LifeAt(x, x, a, a - 1, z)
    BY <1>0, <2>2, <2>3, <2>4 DEF LifeAt
  <2> QED BY <1>0, <2>1, <2>5
<1>2. ASSUME NEW j \in a .. z, j - 1 \in G PROVE j \in G
  <2>1. j \in a - 1 .. z /\ LifeAt(x, w[j - 1], a, j - 1, z)
    BY <1>0, <1>2
  <2>2. w[j - 1] \in Tables
    BY <2>1 DEF LifeAt, LifedTo
  <2>3. LifecycleEffect(StateAt(j - 1), StateAt(j), j, w[j - 1], w[j])
    BY <2>2, LifecycleStepOf
  <2>4. x.bond.count = StateAt(z).bond.count /\ x.bond.maturityDuration = Periods
    BY DEF Terms, Flagging
  <2>5. LifeAt(x, w[j], a, j, z)
    BY <2>1, <2>3, <2>4, LifeNext
  <2> QED BY <2>1, <2>5
<1> HIDE DEF G
<1>3. \A j \in a - 1 .. z : j \in G
  BY <1>0, <1>1, <1>2, Throughout
<1> QED BY <1>3 DEF G

\* The transfers' pass: balances and supply catch up.
MoneyAt(e, q, j) ==
    /\ OnlyMoney(e, q)
    /\ \A c \in Owners : q.bal[c] = StateAt(j).bal[c]
    /\ q.bond.supply = StateAt(j).bond.supply

LEMMA MoneyNext ==
    ASSUME ChainOK, NEW a \in Nat \ {0}, NEW j \in a .. Height, NEW e, e.listed, e.applied = 1 .. a - 1, NEW r, NEW q,
           MoneyAt(e, r, j - 1), TransferEffect(StateAt(j - 1), StateAt(j), j, r, q)
    PROVE  MoneyAt(e, q, j)
<1>0. Height \in Nat /\ j \in 0 .. Height /\ j - 1 \in 0 .. Height /\ j \notin 1 .. a - 1
  BY ChainStateOK
<1>1. PICK s : s = StateAt(j - 1)
  OBVIOUS
<1>2. PICK t : t = StateAt(j)
  OBVIOUS
<1>3. OnlyMoney(e, r) /\ (\A c \in Owners : r.bal[c] = s.bal[c]) /\ r.bond.supply = s.bond.supply
  BY <1>1 DEF MoneyAt
<1>4. TransferEffect(s, t, j, r, q)
  BY <1>1, <1>2
<1>5. r.listed /\ j \notin r.applied
  BY <1>0, <1>3 DEF OnlyMoney, SameFlags
<1>6. /\ OnlyMoney(r, q) /\ \A c \in Owners : q.bal[c] = r.bal[c] + (t.bal[c] - s.bal[c])
      /\ q.bond.supply = r.bond.supply + (t.bond.supply - s.bond.supply)
  BY <1>4, <1>5 DEF TransferEffect
<1>7. OnlyMoney(e, q)
  BY <1>3, <1>6, OnlyMoneyTwice
<1>8. StateTyped(s) /\ StateTyped(t) /\ s.bond \in TermRows /\ t.bond \in TermRows
  BY <1>0, <1>1, <1>2, StateOKAt
<1>9. ASSUME NEW c \in Owners PROVE q.bal[c] = t.bal[c]
  <2>1. s.bal[c] \in Nat /\ t.bal[c] \in Nat
    BY <1>8, HoldingsInt
  <2> QED BY <1>3, <1>6, <2>1
<1>10. q.bond.supply = t.bond.supply
  BY <1>3, <1>6, <1>8 DEF TermRows
<1> QED BY <1>2, <1>7, <1>9, <1>10 DEF MoneyAt

LEMMA TransfersFollow ==
    ASSUME ChainOK, NEW a \in Nat \ {0}, NEW z \in a .. Height, NEW e \in Tables, e.listed, e.applied = 1 .. a - 1,
           e.bal = StateAt(a - 1).bal, e.bond.supply = StateAt(a - 1).bond.supply, NEW y, Run("transfers", e, a, z, y)
    PROVE  \A j \in a - 1 .. z : MoneyAt(e, y[j], j)
<1> DEFINE G == {j \in a - 1 .. z : MoneyAt(e, y[j], j)}
<1>0. Height \in Nat /\ z \in Int /\ a - 1 \in a - 1 .. z
  BY ChainStateOK
<1>1. a - 1 \in G
  <2>1. y[a - 1] = e
    BY DEF Run
  <2>2. OnlyMoney(e, e)
    BY DEF OnlyMoney, SameFlags, SameAuctions, SameLifeColumns
  <2>3. MoneyAt(e, e, a - 1)
    BY <2>2 DEF MoneyAt
  <2> QED BY <1>0, <2>1, <2>3
<1>2. ASSUME NEW j \in a .. z, j - 1 \in G PROVE j \in G
  <2>1. j \in a - 1 .. z /\ j \in a .. Height /\ MoneyAt(e, y[j - 1], j - 1)
    BY <1>0, <1>2
  <2>2. y[j - 1] \in Tables
    BY <2>1 DEF MoneyAt, OnlyMoney
  <2>3. TransferEffect(StateAt(j - 1), StateAt(j), j, y[j - 1], y[j])
    BY <2>2, TransferStepOf
  <2>4. MoneyAt(e, y[j], j)
    BY <2>1, <2>3, MoneyNext
  <2> QED BY <2>1, <2>4
<1> HIDE DEF G
<1>3. \A j \in a - 1 .. z : j \in G
  BY <1>0, <1>1, <1>2, Throughout
<1> QED BY <1>3 DEF G

\* Naming the partition's ISIN changes nothing that tables behind the chain are asked for.
LEMMA FollowsMapped ==
    ASSUME NEW k \in Nat, NEW p, Follows(p, k), NEW named \in BOOLEAN, NEW q, q = Mapped(p, named)
    PROVE  Follows(q, k)
<1>1. p \in Tables
  BY DEF Follows
<1>2. /\ q \in Tables /\ SameBonds(p, q) /\ SameAuctions(p, q) /\ SameMoney(p, q)
      /\ q.hidden = p.hidden /\ q.history = p.history /\ (q.listed <=> p.listed \/ named)
  BY <1>1, MappedTables
<1>3. PICK s : s = StateAt(k)
  OBVIOUS
<1>4. /\ SameColumns(p.bond, s.bond) /\ p.bal = s.bal /\ p.applied = 1 .. k /\ p.history = UpTo(k)
      /\ (k # 0 => Flagging(p, s)) /\ \A n \in 1 .. MaxAuctions : Tells(p, s, n) /\ TellsBids(p, s, n)
  BY <1>3 DEF Follows
<1>5. SameColumns(q.bond, s.bond) /\ q.bal = s.bal /\ q.applied = 1 .. k /\ q.history = UpTo(k)
  BY <1>2, <1>4 DEF SameBonds, SameMoney
<1>6. \A n \in 1 .. MaxAuctions : Tells(q, s, n) /\ TellsBids(q, s, n)
  BY <1>2, <1>4 DEF SameAuctions, Tells, TellsBids
<1>7. k # 0 => Flagging(q, s)
  BY <1>2, <1>4 DEF Flagging, SameBonds
<1> QED BY <1>2, <1>3, <1>5, <1>6, <1>7 DEF Follows

\* After three passes only the money is behind.
SameTermColumns(r, u) ==
    /\ r.offering = u.offering /\ r.maturityDate = u.maturityDate /\ r.lastPayment = u.lastPayment
    /\ r.count = u.count /\ r.matured = u.matured /\ r.issued = u.issued
MoneyBehind(e, a, z) ==
    /\ e \in Tables /\ SameTermColumns(e.bond, StateAt(z).bond)
    /\ \A n \in 1 .. MaxAuctions : Tells(e, StateAt(z), n) /\ TellsBids(e, StateAt(z), n)
    /\ e.bal = StateAt(a - 1).bal /\ e.bond.supply = StateAt(a - 1).bond.supply
    /\ e.applied = 1 .. a - 1 /\ e.history = UpTo(z) /\ Flagging(e, StateAt(z))

\* What the lifecycle logs start from
LEMMA AuctionLeaves ==
    ASSUME NEW a, NEW z \in Nat \ {0}, NEW p, NEW m, ManagerAt(p, m, a, z), NEW x, AuctionAt(m, x, z)
    PROVE  /\ x \in Tables /\ Flagging(x, StateAt(z)) /\ Terms(x.bond, StateAt(a - 1), StateAt(z))
           /\ (x.bond.offering = StateAt(a - 1).bond.offering \/ Deployed(a, z))
           /\ x.history = UpTo(z) /\ SameMoney(p, x)
           /\ \A n \in 1 .. MaxAuctions : Tells(x, StateAt(z), n) /\ TellsBids(x, StateAt(z), n)
<1>1. PICK s : s = StateAt(a - 1)
  OBVIOUS
<1>2. PICK t : t = StateAt(z)
  OBVIOUS
<1>3. /\ SameMoney(p, m) /\ m.history = UpTo(z) /\ Flagging(m, t) /\ Terms(m.bond, s, t)
      /\ (m.bond.offering = s.bond.offering \/ Deployed(a, z)) /\ \A n \in 1 .. MaxAuctions : Tells(m, t, n)
  BY <1>1, <1>2 DEF ManagerAt
<1>4. /\ x \in Tables /\ SameBonds(m, x) /\ SameFlags(m, x) /\ SameMoney(m, x) /\ x.history = m.history
      /\ SameKinds(m, x) /\ \A n \in 1 .. MaxAuctions : TellsBids(x, t, n)
  BY <1>2 DEF AuctionAt, SameRest
<1>5. Flagging(x, t)
  BY <1>3, <1>4 DEF Flagging, SameBonds, SameFlags
<1>6. Terms(x.bond, s, t) /\ (x.bond.offering = s.bond.offering \/ Deployed(a, z))
  BY <1>3, <1>4 DEF SameBonds
<1>7. x.history = UpTo(z) /\ SameMoney(p, x)
  BY <1>3, <1>4 DEF SameMoney
<1>8. \A n \in 1 .. MaxAuctions : Tells(x, t, n) /\ TellsBids(x, t, n)
  BY <1>3, <1>4 DEF SameKinds, Tells
<1> QED BY <1>1, <1>2, <1>4, <1>5, <1>6, <1>7, <1>8

LEMMA OnlyMoneyLeft ==
    ASSUME ChainOK, NEW a \in Nat \ {0}, NEW z \in a .. Height, NEW p, Follows(p, a - 1), NEW m, ManagerAt(p, m, a, z),
           NEW x, AuctionAt(m, x, z), NEW e, LifeAt(x, e, a, z, z)
    PROVE  MoneyBehind(e, a, z)
<1>0. Height \in Nat /\ z \in Nat \ {0} /\ a - 1 \in 0 .. Height /\ z \in 0 .. Height /\ z \in a - 1 .. Height
  BY ChainStateOK
<1>1. PICK s : s = StateAt(a - 1)
  OBVIOUS
<1>2. PICK t : t = StateAt(z)
  OBVIOUS
<1>3. s.bond \in TermRows /\ t.bond \in TermRows /\ Precedes(s, t)
  BY <1>0, <1>1, <1>2, StateOKAt, Later
<1>4. /\ Flagging(x, t) /\ Terms(x.bond, s, t) /\ x.history = UpTo(z) /\ SameMoney(p, x)
      /\ \A n \in 1 .. MaxAuctions : Tells(x, t, n) /\ TellsBids(x, t, n)
  BY <1>0, <1>1, <1>2, AuctionLeaves
<1>5. LifedTo(x, e) /\ e.bond.maturityDate = t.bond.maturityDate /\ PaidSince(e.bond.lastPayment, s, t, t)
  BY <1>1, <1>2 DEF LifeAt
<1>6. e.bond.offering = t.bond.offering
  <2>1. ~Deployed(z + 1, z)
    BY <1>0 DEF Deployed
  <2> QED BY <1>2, <2>1 DEF LifeAt
<1>7. e.bond.lastPayment = t.bond.lastPayment
  BY <1>3, <1>5 DEF PaidSince, Precedes, TermRows
<1>8. SameCounts(x.bond, e.bond) /\ SameFlags(x, e) /\ SameAuctions(x, e) /\ SameMoney(x, e) /\ e.history = x.history
  BY <1>5 DEF LifedTo
<1>9. SameTermColumns(e.bond, t.bond)
  BY <1>4, <1>5, <1>6, <1>7, <1>8 DEF SameTermColumns, Terms, SameCounts
<1>10. e.bond.supply = s.bond.supply
  BY <1>4, <1>8 DEF Terms, SameCounts
<1>11. e.bal = s.bal /\ e.applied = 1 .. a - 1
  BY <1>1, <1>4, <1>8 DEF SameMoney, Follows
<1>12. Flagging(e, t)
  BY <1>4, <1>8 DEF Flagging, SameFlags, SameCounts
<1>13. \A n \in 1 .. MaxAuctions : Tells(e, t, n) /\ TellsBids(e, t, n)
  BY <1>4, <1>8 DEF SameAuctions, Tells, TellsBids
<1>14. e \in Tables /\ e.history = UpTo(z)
  BY <1>4, <1>5, <1>8 DEF LifedTo
<1> QED BY <1>1, <1>2, <1>9, <1>10, <1>11, <1>12, <1>13, <1>14 DEF MoneyBehind

LEMMA MoneyCatchesUp ==
    ASSUME ChainOK, NEW a \in Nat \ {0}, NEW z \in a .. Height, NEW e, MoneyBehind(e, a, z), NEW r, MoneyAt(e, r, z),
           NEW q, q = Closed(r, a, z)
    PROVE  Follows(q, z)
<1>0. Height \in Nat /\ z \in Nat \ {0} /\ z \in Int /\ a \in Int /\ z \in 0 .. Height
  BY ChainStateOK
<1>1. PICK t : t = StateAt(z)
  OBVIOUS
<1>2. /\ SameTermColumns(e.bond, t.bond) /\ e.applied = 1 .. a - 1 /\ e.history = UpTo(z) /\ Flagging(e, t)
      /\ \A n \in 1 .. MaxAuctions : Tells(e, t, n) /\ TellsBids(e, t, n)
  BY <1>1 DEF MoneyBehind
<1>3. OnlyMoney(e, r) /\ (\A c \in Owners : r.bal[c] = t.bal[c]) /\ r.bond.supply = t.bond.supply
  BY <1>1 DEF MoneyAt
<1>4. /\ r \in Tables /\ SameFlags(e, r) /\ SameAuctions(e, r) /\ r.history = e.history /\ r.applied = e.applied
      /\ SameLifeColumns(e.bond, r.bond)
  BY <1>3 DEF OnlyMoney
<1>5. /\ q \in Tables /\ SameBonds(r, q) /\ SameAuctions(r, q) /\ SameFlags(r, q) /\ q.bal = r.bal
      /\ q.history = r.history /\ AppliedBy(r, q, a, z)
  BY <1>0, <1>4, ClosedTables
<1>6. SameColumns(q.bond, t.bond)
  <2>1. q.bond = r.bond
    BY <1>5 DEF SameBonds
  <2> QED BY <1>2, <1>3, <1>4, <2>1 DEF SameTermColumns, SameLifeColumns, SameColumns
<1>7. \A n \in 1 .. MaxAuctions : Tells(q, t, n) /\ TellsBids(q, t, n)
  <2>1. q.auction = e.auction
    BY <1>4, <1>5 DEF SameAuctions
  <2> QED BY <1>2, <2>1 DEF Tells, TellsBids
<1>8. q.bal = t.bal
  <2>1. StateTyped(t)
    BY <1>0, <1>1, StateOKAt
  <2>2. t.bal \in [Owners -> Nat] /\ r.bal \in [Owners -> Int]
    BY <1>4, <2>1 DEF StateTyped, ContractStates, Tables
  <2>3. r.bal = t.bal
    BY <1>3, <2>2
  <2> QED BY <1>5, <2>3
<1>9. q.applied = 1 .. z
  <2>1. r.listed
    BY <1>2, <1>4 DEF Flagging, SameFlags
  <2>2. q.applied = (1 .. a - 1) \cup a .. z
    BY <1>2, <1>4, <1>5, <2>1 DEF AppliedBy
  <2> QED BY <1>0, <2>2
<1>10. Flagging(q, t)
  <2>1. q.listed = e.listed /\ q.hidden = e.hidden
    BY <1>4, <1>5, Zenon DEF SameFlags
  <2>2. q.bond.maturityDuration = e.bond.maturityDuration
    BY <1>4, <1>5 DEF SameBonds, SameLifeColumns
  <2> QED BY <1>2, <2>1, <2>2 DEF Flagging
<1> QED BY <1>1, <1>2, <1>4, <1>5, <1>6, <1>7, <1>8, <1>9, <1>10 DEF Follows

\* A window that begins where the tables end takes them to its own end.
LEMMA WindowFollows ==
    ASSUME ChainOK, NEW a \in Nat \ {0}, NEW z \in a .. Height, NEW p, Follows(p, a - 1),
           NEW q, q = ApplyWindow(p, a, z)
    PROVE  Follows(q, z)
<1>0. /\ Height \in Nat /\ z \in Int /\ a \in Int /\ a <= z /\ z \in a - 1 .. z /\ a - 1 \in Nat /\ z \in Nat \ {0}
      /\ p \in Tables
  BY ChainStateOK DEF Follows
<1>1. PICK u, v, w, y : Passes(p, a, z, u, v, w, y) /\ q = Closed(y[z], a, z)
  BY <1>0, WindowPasses
<1>2. PICK o : o = Mapped(p, NamedIn(a, z))
  OBVIOUS
<1>3. Follows(o, a - 1)
  <2>1. NamedIn(a, z) \in BOOLEAN
    BY DEF NamedIn
  <2> QED BY <1>0, <1>2, <2>1, FollowsMapped
<1>4. PICK m : m = u[z]
  OBVIOUS
<1>5. PICK x : x = v[z]
  OBVIOUS
<1>6. PICK e : e = w[z]
  OBVIOUS
<1>7. PICK r : r = y[z]
  OBVIOUS
<1>8. Run("manager", o, a, z, u) /\ Run("auction", m, a, z, v) /\ Run("lifecycle", x, a, z, w) /\ Run("transfers", e, a, z, y)
  BY <1>1, <1>2, <1>4, <1>5, <1>6 DEF Passes
<1>9. ManagerAt(o, m, a, z)
  BY <1>0, <1>3, <1>4, <1>8, ManagerFollows
<1>10. AuctionAt(m, x, z)
  BY <1>0, <1>3, <1>5, <1>8, <1>9, AuctionFollows
<1>11. /\ x \in Tables /\ Flagging(x, StateAt(z)) /\ Terms(x.bond, StateAt(a - 1), StateAt(z))
       /\ (x.bond.offering = StateAt(a - 1).bond.offering \/ Deployed(a, z))
  BY <1>0, <1>9, <1>10, AuctionLeaves
<1>12. LifeAt(x, e, a, z, z)
  BY <1>0, <1>6, <1>8, <1>11, LifecycleFollows
<1>13. MoneyBehind(e, a, z)
  BY <1>3, <1>9, <1>10, <1>12, OnlyMoneyLeft
<1>14. e \in Tables /\ e.listed /\ e.applied = 1 .. a - 1 /\ e.bal = StateAt(a - 1).bal
       /\ e.bond.supply = StateAt(a - 1).bond.supply
  BY <1>13 DEF MoneyBehind, Flagging
<1>15. MoneyAt(e, r, z)
  BY <1>0, <1>7, <1>8, <1>14, TransfersFollow
<1>16. q = Closed(r, a, z)
  BY <1>1, <1>7
<1> QED BY <1>13, <1>15, <1>16, MoneyCatchesUp

LEMMA EmptyFollows == Follows(EmptyProjection, 0)
<1>1. EmptyProjection \in Tables
  BY EmptyTables
<1>2. PICK s : s = StateAt(0)
  OBVIOUS
<1>3. s = InitialState
  BY <1>2 DEF StateAt
<1>4. s.bond = NewBond /\ s.auctions = <<>> /\ s.bal = [a \in Owners |-> 0]
  BY <1>3 DEF InitialState
<1>5. /\ EmptyProjection.bond = EmptyBondState /\ EmptyProjection.bal = [a \in Owners |-> 0]
      /\ EmptyProjection.applied = {} /\ EmptyProjection.history = {}
  BY DEF EmptyProjection
<1>6. SameColumns(EmptyProjection.bond, s.bond)
  BY <1>4, <1>5 DEF SameColumns, EmptyBondState, NewBond
<1>7. \A n \in 1 .. MaxAuctions : Tells(EmptyProjection, s, n) /\ TellsBids(EmptyProjection, s, n)
  <2> TAKE n \in 1 .. MaxAuctions
  <2>1. EmptyProjection.auction[n] = EmptyAuction
    BY DEF EmptyProjection
  <2>2. n \notin DOMAIN s.auctions
    BY <1>4
  <2>3. StatusIn(s, n) = "none" /\ TypeIn(s, n) = "none"
    BY <2>2 DEF StatusIn, TypeIn
  <2>4. BidsIn(s, n) = <<>> /\ AllocationsIn(s, n) = <<>>
    BY <2>2 DEF BidsIn, AllocationsIn
  <2>5. /\ EmptyAuction.status = "none" /\ EmptyAuction.type = "none"
        /\ EmptyAuction.bids = <<>> /\ EmptyAuction.allocations = <<>>
    BY DEF EmptyAuction
  <2> QED BY <2>1, <2>3, <2>4, <2>5 DEF Tells, TellsBids
<1>8. 1 .. 0 = {}
  OBVIOUS
<1> QED BY <1>1, <1>2, <1>4, <1>5, <1>6, <1>7, <1>8, UpToNone DEF Follows

-----------------------------------------------------------------------------
(* The projection and the chain                                             *)

\* While no restart has come in the way of a loop, the tables follow the chain up to the checkpoint.
FollowsChain == ~overlapped /\ checkpoint # 0 => Follows(db, checkpoint - 1)
MatchOK == LedgerOK /\ Alone /\ FollowsChain

LEMMA FollowsSame ==
    ASSUME NEW q, NEW k, Follows(q, k), StateAt(k)' = StateAt(k), UpTo(k)' = UpTo(k)
    PROVE  Follows(q, k)'
<1>1. PICK s : s = StateAt(k)
  OBVIOUS
<1>2. StateAt(k)' = s
  BY <1>1
<1>3. /\ q \in Tables /\ SameColumns(q.bond, s.bond) /\ q.bal = s.bal /\ q.applied = 1 .. k /\ q.history = UpTo(k)
      /\ (k # 0 => Flagging(q, s)) /\ \A n \in 1 .. MaxAuctions : Tells(q, s, n) /\ TellsBids(q, s, n)
  BY <1>1 DEF Follows
<1> QED BY <1>2, <1>3 DEF Follows

LEMMA FollowsStill ==
    ASSUME NEW q, NEW k, Follows(q, k), UNCHANGED chain
    PROVE  Follows(q, k)'
<1>1. StateAt(k)' = StateAt(k)
  BY DEF StateAt
<1>2. UpTo(k)' = UpTo(k)
  BY DEF UpTo, Rows
<1> QED BY <1>1, <1>2, FollowsSame

\* Blocks that are added later change nothing of it.
LEMMA FollowsOn ==
    ASSUME LoopsOK, Mining, NEW q, NEW k \in 0 .. Height, Follows(q, k)
    PROVE  Follows(q, k)'
<1>1. Height \in Nat /\ \A b \in 1 .. Height : chain'[b] = chain[b]
  BY ChainGrows, BlockAdded DEF Mining, LoopsOK
<1>2. PICK h : h = Height
  OBVIOUS
<1>3. k \in 0 .. h /\ h \in Nat /\ \A b \in 1 .. h : chain'[b] = chain[b]
  BY <1>1, <1>2
<1>4. StateAt(k)' = StateAt(k)
  BY <1>3 DEF StateAt
<1>5. \A b \in 1 .. k : Rows(b)' = Rows(b)
  BY <1>3 DEF Rows
<1>6. UpTo(k)' = UpTo(k)
  BY <1>5 DEF UpTo
<1> QED BY <1>4, <1>6, FollowsSame

LEMMA FollowsPut ==
    ASSUME NEW q, NEW k, Follows(q, k)', q = db', k = checkpoint' - 1
    PROVE  FollowsChain'
<1>1. Follows(db, checkpoint - 1)'
  BY DEF Follows
<1> QED BY <1>1 DEF FollowsChain

LEMMA FollowsKept ==
    ASSUME FollowsChain, UNCHANGED <<chain, db, checkpoint, overlapped>>
    PROVE  FollowsChain'
<1> SUFFICES ASSUME ~overlapped', checkpoint' # 0 PROVE FollowsChain'
  BY DEF FollowsChain
<1>1. PICK q : q = db
  OBVIOUS
<1>2. PICK k : k = checkpoint - 1
  OBVIOUS
<1>3. Follows(q, k)
  BY <1>1, <1>2 DEF FollowsChain
<1>4. Follows(q, k)'
  BY <1>3, FollowsStill
<1> QED BY <1>1, <1>2, <1>4, FollowsPut

LEMMA FollowsMining ==
    ASSUME LoopsOK, FollowsChain, Mining
    PROVE  FollowsChain'
<1>0. UNCHANGED <<db, checkpoint, overlapped>>
  BY DEF Mining, dbVars
<1> SUFFICES ASSUME ~overlapped, checkpoint # 0 PROVE FollowsChain'
  BY <1>0 DEF FollowsChain
<1>1. PICK q : q = db
  OBVIOUS
<1>2. PICK k : k = checkpoint - 1
  OBVIOUS
<1>3. Follows(q, k)
  BY <1>1, <1>2 DEF FollowsChain
<1>4. k \in 0 .. Height
  BY <1>2, HeightNat DEF LoopsOK, TablesOK
<1>5. Follows(q, k)'
  BY <1>3, <1>4, FollowsOn
<1> QED BY <1>0, <1>1, <1>2, <1>5, FollowsPut

\* The one loop at work ingests from where the tables end.
LEMMA FollowsIngest ==
    ASSUME MatchOK, Ingest
    PROVE  FollowsChain'
<1>0. LoopsOK /\ ChainOK /\ Alone /\ FollowsChain
  BY DEF MatchOK, LedgerOK
<1> SUFFICES ASSUME ~overlapped PROVE FollowsChain'
  BY DEF FollowsChain, Ingest
<1>1. PICK c \in Loops : Single(c)
  BY <1>0 DEF Alone
<1>2. Running /\ Current # {} /\ queue # <<>> /\ UNCHANGED chain
  BY DEF Ingest, Advancing, Running, chainVars
<1>3. Head(queue).loop = c /\ next[c] = FirstBlock
  BY <1>0, <1>1, <1>2, IngestsNext
<1>4. PICK a : a = next[c]
  OBVIOUS
<1>5. PICK z : z = a + Cardinality(Current) - 1
  OBVIOUS
<1>6. db' = ApplyWindow(db, a, z) /\ checkpoint' = z + 1
  BY <1>3, <1>4, <1>5 DEF Ingest, Ingested, SaveCheckpoint
<1>7. a \in 1 .. Height /\ z \in a .. Height
  BY <1>0, <1>2, <1>3, <1>4, <1>5, WindowIs
<1>8. a \in Nat \ {0} /\ Height \in Nat
  BY <1>0, <1>7, ChainStateOK
<1>9. PICK p : p = db
  OBVIOUS
<1>10. Follows(p, a - 1)
  <2>1. CASE checkpoint = 0
    <3>1. a = 1
      BY <1>3, <1>4, <2>1 DEF FirstBlock, StartBlock
    <3>2. p = EmptyProjection /\ a - 1 = 0
      BY <1>0, <1>9, <2>1, <3>1 DEF LoopsOK, TablesOK
    <3> QED BY <3>2, EmptyFollows
  <2>2. CASE checkpoint # 0
    <3>1. a = checkpoint
      BY <1>3, <1>4, <2>2 DEF FirstBlock
    <3> QED BY <1>0, <1>9, <2>2, <3>1 DEF FollowsChain
  <2> QED BY <2>1, <2>2
<1>11. PICK q : q = db'
  OBVIOUS
<1>12. q = ApplyWindow(p, a, z)
  BY <1>6, <1>9, <1>11
<1>13. Follows(q, z)
  BY <1>0, <1>7, <1>8, <1>10, <1>12, WindowFollows
<1>14. Follows(q, z)'
  BY <1>2, <1>13, FollowsStill
<1>15. z = checkpoint' - 1
  BY <1>6, <1>7, <1>8
<1> QED BY <1>11, <1>14, <1>15, FollowsPut

LEMMA MatchStep ==
    ASSUME MatchOK, [Next]_vars
    PROVE  MatchOK'
<1>0. LoopsOK /\ LedgerOK /\ Alone /\ FollowsChain
  BY DEF MatchOK, LedgerOK
<1>1. LedgerOK' /\ Alone'
  BY <1>0, LedgerStep, AloneStep
<1>2. FollowsChain'
  <2>1. CASE Mining
    BY <1>0, <2>1, FollowsMining
  <2>2. CASE \E r \in Loops : ByLoop(r)
    <3>1. UNCHANGED <<chain, db, checkpoint, overlapped>>
      BY <2>2 DEF ByLoop, Open, Load, Polling, Poll, StartFails, RpcFault, chainVars, dbVars
    <3> QED BY <1>0, <3>1, FollowsKept
  <2>3. CASE Begin \/ Done \/ Fail \/ Advance
    <3>1. UNCHANGED <<chain, db, checkpoint, overlapped>>
      BY <2>3 DEF Begin, Done, Fail, Advance, chainVars, dbVars
    <3> QED BY <1>0, <3>1, FollowsKept
  <2>4. CASE Ingest
    BY <2>4, FollowsIngest
  <2>5. CASE RestartIngestion
    <3>1. PICK r \in Loops, reset \in BOOLEAN : Restart(r, reset)
      BY <2>5 DEF RestartIngestion
    <3>2. UNCHANGED chain /\ (overlapped => overlapped')
      BY <3>1, Zenon DEF Restart, chainVars
    <3>3. checkpoint' = 0 \/ UNCHANGED <<db, checkpoint>>
      BY <3>1 DEF Restart, DropProjectionTables, dbVars
    <3>4. CASE checkpoint' = 0
      BY <3>4 DEF FollowsChain
    <3>5. CASE UNCHANGED <<db, checkpoint>> /\ ~overlapped' /\ ~overlapped
      <4>1. UNCHANGED overlapped
        <5>1. overlapped \in BOOLEAN /\ overlapped' \in BOOLEAN
          BY <1>0, <1>1 DEF LoopsOK, LoopsTyped, LedgerOK
        <5> QED BY <3>5, <5>1, Zenon
      <4> QED BY <1>0, <3>2, <3>5, <4>1, FollowsKept
    <3>6. CASE overlapped'
      BY <3>6 DEF FollowsChain
    <3> QED BY <3>2, <3>3, <3>4, <3>5, <3>6
  <2>6. CASE Crash
    <3>1. UNCHANGED <<chain, db, checkpoint, overlapped>>
      BY <2>6 DEF Crash, chainVars, dbVars
    <3> QED BY <1>0, <3>1, FollowsKept
  <2>7. CASE UNCHANGED vars
    <3>1. UNCHANGED <<chain, db, checkpoint, overlapped>>
      BY <2>7 DEF vars, chainVars, dbVars
    <3> QED BY <1>0, <3>1, FollowsKept
  <2> QED BY <2>1, <2>2, <2>3, <2>4, <2>5, <2>6, <2>7, StepCases
<1> QED BY <1>1, <1>2 DEF MatchOK

LEMMA MatchInit == Init => MatchOK
<1> SUFFICES ASSUME Init PROVE MatchOK
  OBVIOUS
<1>1. FollowsChain
  BY DEF Init, FollowsChain
<1> QED BY <1>1, LedgerInit, AloneInit DEF MatchOK

\* The tables that follow the chain up to block k agree with the contracts there.
LEMMA FollowedAgrees ==
    ASSUME ChainOK, NEW k \in 1 .. Height, Follows(db, k)
    PROVE  Agrees(chain[k].state) /\ HistoryComplete(k)
<1>0. Height \in Nat /\ k # 0 /\ k \in 0 .. Height
  BY ChainStateOK
<1>1. PICK s : s = chain[k].state
  OBVIOUS
<1>2. s = StateAt(k)
  BY <1>0, <1>1 DEF StateAt
<1>3. /\ db \in Tables /\ SameColumns(db.bond, s.bond) /\ db.bal = s.bal /\ db.history = UpTo(k) /\ Flagging(db, s)
      /\ \A n \in 1 .. MaxAuctions : Tells(db, s, n) /\ TellsBids(db, s, n)
  BY <1>0, <1>2 DEF Follows
<1>4. StateTyped(s) /\ s.bond \in TermRows
  BY <1>0, <1>2, StateOKAt
<1>5. DOMAIN s.auctions = 1 .. Latest(s) /\ Latest(s) \in Nat /\ \A n \in 1 .. Latest(s) : s.auctions[n] \in AuctionStates
  BY <1>4, AuctionsTyped
<1>6. ASSUME NEW n \in 1 .. MaxAuctions
      PROVE  db.auction[n] = IF n <= Len(s.auctions) THEN s.auctions[n] ELSE EmptyAuction
  <2>1. PICK r : r = db.auction[n]
    OBVIOUS
  <2>2. r \in AuctionRows
    BY <1>3, <2>1 DEF Tables
  <2>3. r.status = StatusIn(s, n) /\ r.type = TypeIn(s, n) /\ r.bids = BidsIn(s, n) /\ r.allocations = AllocationsIn(s, n)
    BY <1>3, <2>1 DEF Tells, TellsBids
  <2>4. CASE n <= Len(s.auctions)
    <3>1. n \in DOMAIN s.auctions /\ n \in 1 .. Latest(s)
      BY <1>5, <2>4 DEF Latest
    <3>2. PICK x : x = s.auctions[n]
      OBVIOUS
    <3>3. x \in AuctionStates
      BY <1>5, <3>1, <3>2
    <3>4. r.status = x.status /\ r.type = x.type
      BY <2>3, <3>1, <3>2 DEF StatusIn, TypeIn
    <3>5. r.bids = x.bids /\ r.allocations = x.allocations
      BY <2>3, <3>1, <3>2 DEF BidsIn, AllocationsIn
    <3>6. r = x
      BY <2>2, <3>3, <3>4, <3>5 DEF AuctionRows, AuctionStates
    <3> QED BY <2>1, <2>4, <3>2, <3>6
  <2>5. CASE ~(n <= Len(s.auctions))
    <3>1. n \notin DOMAIN s.auctions
      BY <1>5, <2>5 DEF Latest
    <3>2. r.status = "none" /\ r.type = "none" /\ r.bids = <<>> /\ r.allocations = <<>>
      BY <2>3, <3>1 DEF StatusIn, TypeIn, BidsIn, AllocationsIn
    <3>3. r = EmptyAuction
      BY <2>2, <3>2 DEF AuctionRows, EmptyAuction
    <3> QED BY <2>1, <2>5, <3>3
  <2> QED BY <2>4, <2>5
<1>7. db.listed /\ db.hidden = ~s.bond.active
  <2>1. db.hidden \in BOOLEAN /\ db.listed
    BY <1>3 DEF Tables, Flagging
  <2>2. db.hidden <=> ~s.bond.active
    BY <1>3 DEF Flagging
  <2> QED BY <2>1, <2>2, Zenon
<1>8. Agrees(s)
  BY <1>3, <1>6, <1>7, Zenon DEF Agrees, SameColumns
<1>9. HistoryComplete(k)
  BY <1>3, Zenon DEF HistoryComplete, UpTo, Rows
<1> QED BY <1>1, <1>8, <1>9

\* ingestion.ts: wherever the windows begin and end, and whatever crashes, failures and restarts at
\* rest come between them, the tables are the contracts' state at the checkpoint, with the whole history.
THEOREM MatchTheorem == Spec => []ProjectionMatchesChain
<1>1. MatchOK /\ [Next]_vars => MatchOK'
  BY MatchStep
<1>2. MatchOK => ProjectionMatchesChain
  <2> SUFFICES ASSUME MatchOK, ~overlapped, checkpoint > StartBlock
               PROVE  Agrees(chain[checkpoint - 1].state) /\ HistoryComplete(checkpoint - 1)
    BY DEF ProjectionMatchesChain
  <2>1. LoopsOK /\ ChainOK /\ FollowsChain
    BY DEF MatchOK, LedgerOK
  <2>2. checkpoint \in 0 .. Height + 1 /\ checkpoint > 1 /\ Height \in Nat
    BY <2>1, HeightNat DEF LoopsOK, TablesOK, StartBlock
  <2>3. PICK k : k = checkpoint - 1
    OBVIOUS
  <2>4. k \in 1 .. Height /\ checkpoint # 0
    BY <2>2, <2>3
  <2>5. Follows(db, k)
    BY <2>1, <2>3, <2>4 DEF FollowsChain
  <2> QED BY <2>1, <2>3, <2>4, <2>5, FollowedAgrees
<1> QED BY <1>1, <1>2, MatchInit, PTL DEF Spec

=============================================================================
