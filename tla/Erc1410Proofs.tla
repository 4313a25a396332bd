---------------------------- MODULE Erc1410Proofs ----------------------------
(***************************************************************************)
(* For any partitions, holders and amounts: the bookkeeping of ERC1410.sol *)
(* is well typed, its enumerations are exact, and what it does to balances *)
(* and supplies is what PartitionLedger does.                              *)
(***************************************************************************)
EXTENDS Erc1410, Sums, SequenceTheorems, TLAPS

-----------------------------------------------------------------------------
(* Push and swap-and-pop                                                    *)

\* The array and the map of an enumeration, as functions.
LEMMA EnumerationParts ==
    ASSUME NEW e \in Enumerations
    PROVE  /\ e.list \in Seq(Isins) /\ e.index \in [Isins -> Nat]
           /\ Len(e.list) \in Nat
           /\ \A k \in 1 .. Len(e.list) : e.list[k] \in Isins
BY DEF Enumerations

\* An empty enumeration is consistent and lists nothing.
LEMMA EmptyConsistent ==
    Empty \in Enumerations /\ Consistent(Empty) /\ \A i \in Isins : Empty.index[i] = 0
<1>1. Empty.list = <<>> /\ Empty.index = [i \in Isins |-> 0]
  BY DEF Empty
<1>2. Empty \in Enumerations
  BY DEF Empty, Enumerations
<1> QED BY <1>1, <1>2 DEF Consistent

\* Tracking adds one partition to a consistent enumeration, and changes nothing of one
\* that lists it already.
LEMMA TrackExact ==
    ASSUME NEW e \in Enumerations, Consistent(e), NEW i \in Isins
    PROVE  /\ Track(e, i) \in Enumerations /\ Consistent(Track(e, i))
           /\ Track(e, i).index[i] # 0
           /\ \A j \in Isins \ {i} : Track(e, i).index[j] = e.index[j]
<1> DEFINE n == Len(e.list)
           t == Track(e, i)
<1>1. CASE e.index[i] # 0
  BY <1>1 DEF Track
<1>2. CASE e.index[i] = 0
  <2>1. t = [list |-> Append(e.list, i), index |-> [e.index EXCEPT ![i] = n + 1]]
    BY <1>2 DEF Track
  <2>2. t.list = Append(e.list, i) /\ t.index = [e.index EXCEPT ![i] = n + 1]
    BY <2>1
  <2>3. /\ e.list \in Seq(Isins) /\ e.index \in [Isins -> Nat] /\ n \in Nat
        /\ \A k \in 1 .. n : e.list[k] \in Isins
    BY EnumerationParts
  <2>4. /\ t.list \in Seq(Isins) /\ Len(t.list) = n + 1
        /\ \A k \in 1 .. n : t.list[k] = e.list[k]
        /\ t.list[n + 1] = i
    BY <2>2, <2>3
  <2>5. /\ t.index \in [Isins -> Nat] /\ t.index[i] = n + 1
        /\ \A j \in Isins \ {i} : t.index[j] = e.index[j]
    BY <2>2, <2>3
  <2>6. t \in Enumerations
    BY <2>1, <2>4, <2>5, <2>2 DEF Enumerations
  <2>7. ASSUME NEW k \in 1 .. Len(t.list) PROVE t.index[t.list[k]] = k
    <3>1. CASE k = n + 1
      BY <3>1, <2>4, <2>5
    <3>2. CASE k \in 1 .. n
      <4>1. e.index[e.list[k]] = k /\ e.list[k] \in Isins
        BY <3>2, <2>3 DEF Consistent
      <4>2. e.list[k] # i
        BY <4>1, <3>2, <1>2
      <4> QED BY <3>2, <4>1, <4>2, <2>4, <2>5
    <3> QED BY <3>1, <3>2, <2>3, <2>4
  <2>8. ASSUME NEW j \in Isins, t.index[j] # 0
        PROVE  t.index[j] \in 1 .. Len(t.list) /\ t.list[t.index[j]] = j
    <3>1. CASE j = i
      BY <3>1, <2>3, <2>4, <2>5
    <3>2. CASE j # i
      <4>1. e.index[j] \in 1 .. n /\ e.list[e.index[j]] = j /\ t.index[j] = e.index[j]
        BY <3>2, <2>5, <2>8 DEF Consistent
      <4> DEFINE k == e.index[j]
      <4>2. t.list[k] = j
        BY <4>1, <2>4
      <4>3. k \in 1 .. n + 1
        BY <4>1, <2>3
      <4> QED BY <4>1, <4>2, <4>3, <2>4
    <3> QED BY <3>1, <3>2
  <2>9. Consistent(t)
    BY <2>7, <2>8 DEF Consistent
  <2> QED BY <2>3, <2>5, <2>6, <2>9
<1> QED BY <1>1, <1>2

\* Swap-and-pop takes one partition out of a consistent enumeration and keeps the others,
\* the one that takes its place included.
LEMMA UntrackExact ==
    ASSUME NEW e \in Enumerations, Consistent(e), NEW i \in Isins
    PROVE  /\ Untrack(e, i) \in Enumerations /\ Consistent(Untrack(e, i))
           /\ Untrack(e, i).index[i] = 0
           /\ \A j \in Isins \ {i} : Untrack(e, i).index[j] # 0 <=> e.index[j] # 0
<1> DEFINE k == e.index[i]
           n == Len(e.list)
           last == e.list[n]
           t == Untrack(e, i)
<1>0. /\ e.list \in Seq(Isins) /\ e.index \in [Isins -> Nat] /\ n \in Nat /\ k \in Nat
      /\ \A m \in 1 .. n : e.list[m] \in Isins
  BY EnumerationParts
<1>1. CASE k = 0
  BY <1>1 DEF Untrack
<1>2. CASE k # 0
  <2>1. k \in 1 .. n /\ e.list[k] = i
    BY <1>2 DEF Consistent
  <2>2. n \in 1 .. n /\ last \in Isins /\ e.index[last] = n
    BY <2>1, <1>0 DEF Consistent
  <2> DEFINE list  == [j \in 1 .. n - 1 |-> IF j = k THEN last ELSE e.list[j]]
             index == [e.index EXCEPT ![last] = k, ![i] = 0]
  <2>3. t = [list |-> list, index |-> index]
    BY <1>2 DEF Untrack
  <2>4. t.list = list /\ t.index = index
    BY <2>3
  <2>5. /\ list \in Seq(Isins) /\ Len(list) = n - 1
    <3>1. n - 1 \in Nat /\ list \in [1 .. n - 1 -> Isins]
      BY <2>1, <2>2, <1>0
    <3> QED BY <3>1, SeqDef, LenProperties
  <2>6. /\ \A j \in 1 .. n - 1 : j # k => list[j] = e.list[j]
        /\ k \in 1 .. n - 1 => list[k] = last
    OBVIOUS
  <2>7. /\ index \in [Isins -> Nat] /\ index[i] = 0
        /\ last # i => index[last] = k
        /\ \A j \in Isins \ {i, last} : index[j] = e.index[j]
    BY <1>0, <2>2
  <2> HIDE DEF list, index
  <2>8. t \in Enumerations
    BY <2>3, <2>5, <2>7 DEF Enumerations
  <2>9. ASSUME NEW m \in 1 .. n - 1 PROVE index[list[m]] = m
    <3>1. CASE m = k
      <4>1. last # i
        BY <3>1, <2>1, <2>2, <1>0
      <4> QED BY <3>1, <4>1, <2>6, <2>7
    <3>2. CASE m # k
      <4>1. m \in 1 .. n /\ e.list[m] \in Isins /\ e.index[e.list[m]] = m
        BY <1>0 DEF Consistent
      <4>2. e.list[m] # i /\ e.list[m] # last
        BY <4>1, <3>2, <2>2, <1>0
      <4> QED BY <3>2, <4>1, <4>2, <2>6, <2>7
    <3> QED BY <3>1, <3>2
  <2>10. ASSUME NEW j \in Isins, index[j] # 0
         PROVE  index[j] \in 1 .. n - 1 /\ list[index[j]] = j
    <3>1. j # i
      BY <2>10, <2>7
    <3>2. CASE j = last
      <4>1. index[j] = k /\ k # n
        BY <3>1, <3>2, <2>1, <2>7
      <4> QED BY <3>2, <4>1, <2>1, <2>6, <1>0
    <3>3. CASE j # last
      <4>1. index[j] = e.index[j]
        BY <3>1, <3>3, <2>7
      <4>2. e.index[j] \in 1 .. n /\ e.list[e.index[j]] = j
        BY <4>1, <2>10 DEF Consistent
      <4>3. e.index[j] # n /\ e.index[j] # k
        BY <4>2, <3>1, <3>3, <2>1
      <4> QED BY <4>1, <4>2, <4>3, <2>6, <1>0
    <3> QED BY <3>2, <3>3
  <2>11. Consistent(t)
    BY <2>4, <2>5, <2>9, <2>10 DEF Consistent
  <2>12. \A j \in Isins \ {i} : index[j] # 0 <=> e.index[j] # 0
    BY <1>0, <1>2, <2>2, <2>7
  <2> QED BY <2>4, <2>7, <2>8, <2>11, <2>12
<1> QED BY <1>0, <1>1, <1>2
-----------------------------------------------------------------------------
(* Each operation                                                           *)

\* A holder's partitions, balance for balance.
Exact(e, b) == Consistent(e) /\ \A i \in Isins : e.index[i] # 0 <=> b[i] > 0

\* The token lists every partition with supply.
Covers(e, s) == Consistent(e) /\ \A i \in Isins : s[i] > 0 => e.index[i] # 0

IInv == TypeOK /\ EnumerationsExact

LEMMA IInvParts ==
    IInv <=> /\ TypeOK
             /\ \A a \in Accounts : Exact(partitionsOf[a], balanceOfByPartition[a])
             /\ Covers(totalPartitions, totalSupplyByPartition)
BY DEF IInv, EnumerationsExact, Exact, Covers

\* A holder that receives units: its enumeration follows its balance.
LEMMA AddKeepsExact ==
    ASSUME NEW e \in Enumerations, NEW b \in [Isins -> Nat], Exact(e, b),
           NEW i \in Isins, NEW v \in Nat
    PROVE  /\ AddPartition(e, i, b[i] + v) \in Enumerations
           /\ Exact(AddPartition(e, i, b[i] + v), [b EXCEPT ![i] = @ + v])
<1> DEFINE c == [b EXCEPT ![i] = @ + v]
<1>1. /\ b[i] \in Nat /\ c[i] = b[i] + v
      /\ \A j \in Isins \ {i} : c[j] = b[j]
  OBVIOUS
<1> HIDE DEF c
<1>2. CASE b[i] + v = 0
  <2>1. b[i] = 0 /\ c[i] = 0 /\ AddPartition(e, i, b[i] + v) = e
    BY <1>1, <1>2 DEF AddPartition
  <2>2. Exact(e, c)
    BY <1>1, <2>1 DEF Exact
  <2> QED BY <2>1, <2>2 DEF c
<1>3. CASE b[i] + v # 0
  <2>1. AddPartition(e, i, b[i] + v) = Track(e, i) /\ c[i] > 0
    BY <1>1, <1>3 DEF AddPartition
  <2>2. /\ Track(e, i) \in Enumerations /\ Consistent(Track(e, i)) /\ Track(e, i).index[i] # 0
        /\ \A j \in Isins \ {i} : Track(e, i).index[j] = e.index[j]
    BY TrackExact DEF Exact
  <2>3. Exact(Track(e, i), c)
    BY <1>1, <2>1, <2>2 DEF Exact
  <2> QED BY <2>1, <2>2, <2>3 DEF c
<1> QED BY <1>2, <1>3

\* A holder that gives units away.
LEMMA RemoveKeepsExact ==
    ASSUME NEW e \in Enumerations, NEW b \in [Isins -> Nat], Exact(e, b),
           NEW i \in Isins, NEW v \in Nat, v <= b[i]
    PROVE  /\ RemovePartition(e, i, b[i] - v) \in Enumerations
           /\ Exact(RemovePartition(e, i, b[i] - v), [b EXCEPT ![i] = @ - v])
<1> DEFINE c == [b EXCEPT ![i] = @ - v]
<1>1. /\ b[i] \in Nat /\ c[i] = b[i] - v
      /\ \A j \in Isins \ {i} : c[j] = b[j]
  OBVIOUS
<1> HIDE DEF c
<1>2. CASE b[i] - v = 0
  <2>1. RemovePartition(e, i, b[i] - v) = Untrack(e, i) /\ ~(c[i] > 0)
    BY <1>1, <1>2 DEF RemovePartition
  <2>2. /\ Untrack(e, i) \in Enumerations /\ Consistent(Untrack(e, i)) /\ Untrack(e, i).index[i] = 0
        /\ \A j \in Isins \ {i} : Untrack(e, i).index[j] # 0 <=> e.index[j] # 0
    BY UntrackExact DEF Exact
  <2>3. Exact(Untrack(e, i), c)
    BY <1>1, <2>1, <2>2 DEF Exact
  <2> QED BY <2>1, <2>2, <2>3 DEF c
<1>3. CASE b[i] - v # 0
  <2>1. RemovePartition(e, i, b[i] - v) = e /\ c[i] > 0 /\ b[i] > 0
    BY <1>1, <1>3 DEF RemovePartition
  <2>2. Exact(e, c)
    BY <1>1, <2>1 DEF Exact
  <2> QED BY <2>1, <2>2 DEF c
<1> QED BY <1>2, <1>3

\* The token when a partition's supply grows by v.
LEMMA TrackKeepsCovers ==
    ASSUME NEW e \in Enumerations, NEW s \in [Isins -> Nat], Covers(e, s),
           NEW i \in Isins, NEW v \in Nat
    PROVE  Track(e, i) \in Enumerations /\ Covers(Track(e, i), [s EXCEPT ![i] = @ + v])
<1>1. /\ Track(e, i) \in Enumerations /\ Consistent(Track(e, i)) /\ Track(e, i).index[i] # 0
      /\ \A j \in Isins \ {i} : Track(e, i).index[j] = e.index[j]
  BY TrackExact DEF Covers
<1> QED BY <1>1 DEF Covers

\* The token when a partition's supply shrinks by v.
LEMMA RemoveKeepsCovers ==
    ASSUME NEW e \in Enumerations, NEW s \in [Isins -> Nat], Covers(e, s),
           NEW i \in Isins, NEW v \in Nat, v <= s[i]
    PROVE  /\ RemovePartition(e, i, s[i] - v) \in Enumerations
           /\ Covers(RemovePartition(e, i, s[i] - v), [s EXCEPT ![i] = @ - v])
<1> DEFINE c == [s EXCEPT ![i] = @ - v]
<1>1. /\ s[i] \in Nat /\ c[i] = s[i] - v
      /\ \A j \in Isins \ {i} : c[j] = s[j]
  OBVIOUS
<1> HIDE DEF c
<1>2. CASE s[i] - v = 0
  <2>1. RemovePartition(e, i, s[i] - v) = Untrack(e, i) /\ ~(c[i] > 0)
    BY <1>1, <1>2 DEF RemovePartition
  <2>2. /\ Untrack(e, i) \in Enumerations /\ Consistent(Untrack(e, i))
        /\ \A j \in Isins \ {i} : Untrack(e, i).index[j] # 0 <=> e.index[j] # 0
    BY UntrackExact DEF Covers
  <2>3. Covers(Untrack(e, i), c)
    BY <1>1, <2>1, <2>2 DEF Covers
  <2> QED BY <2>1, <2>2, <2>3 DEF c
<1>3. CASE s[i] - v # 0
  <2>1. RemovePartition(e, i, s[i] - v) = e /\ s[i] > 0
    BY <1>1, <1>3 DEF RemovePartition
  <2>2. Covers(e, c)
    BY <1>1, <2>1 DEF Covers
  <2> QED BY <2>1, <2>2 DEF c
<1> QED BY <1>2, <1>3

\* The initial state has empty enumerations and no units.
LEMMA InitIInv == Init => IInv
<1> SUFFICES ASSUME Init PROVE IInv
  OBVIOUS
<1>1. TypeOK
  BY EmptyConsistent DEF Init, TypeOK
<1>2. \A a \in Accounts : Exact(partitionsOf[a], balanceOfByPartition[a])
  BY EmptyConsistent DEF Init, Exact
<1>3. Covers(totalPartitions, totalSupplyByPartition)
  BY EmptyConsistent DEF Init, Covers
<1> QED BY <1>1, <1>2, <1>3, IInvParts

\* _mint, with the enumerations of the token and of the receiver
LEMMA IssueKeeps ==
    ASSUME IInv, NEW i \in Isins, NEW to \in Accounts, NEW v \in Nat, IssueByPartition(i, to, v)
    PROVE  IInv'
<1> DEFINE b == balanceOfByPartition[to]
           e == partitionsOf[to]
           c == [b EXCEPT ![i] = @ + v]
           f == AddPartition(e, i, b[i] + v)
<1>1. /\ TypeOK /\ Covers(totalPartitions, totalSupplyByPartition)
      /\ \A a \in Accounts : Exact(partitionsOf[a], balanceOfByPartition[a])
  BY IInvParts
<1>2. b \in [Isins -> Nat] /\ e \in Enumerations /\ Exact(e, b)
  BY <1>1 DEF TypeOK
<1>3. /\ f \in Enumerations /\ Exact(f, c)
      /\ c \in [Isins -> Nat]
  BY <1>2, AddKeepsExact
<1>4. /\ balanceOfByPartition' = [balanceOfByPartition EXCEPT ![to] = c]
      /\ partitionsOf' = [partitionsOf EXCEPT ![to] = f]
      /\ totalSupplyByPartition' = [totalSupplyByPartition EXCEPT ![i] = @ + v]
      /\ totalPartitions' = Track(totalPartitions, i)
      /\ totalSupply' = totalSupply + v
      /\ balances' = [balances EXCEPT ![to] = @ + v]
  BY <1>1 DEF IssueByPartition, TypeOK
<1> HIDE DEF b, e, c, f
<1>5. Track(totalPartitions, i) \in Enumerations /\ Covers(totalPartitions', totalSupplyByPartition')
  BY <1>1, <1>4, TrackKeepsCovers DEF TypeOK
<1>6. TypeOK'
  BY <1>1, <1>3, <1>4, <1>5 DEF TypeOK
<1>7. \A a \in Accounts : Exact(partitionsOf'[a], balanceOfByPartition'[a])
  BY <1>1, <1>3, <1>4 DEF TypeOK
<1> QED BY <1>5, <1>6, <1>7, IInvParts DEF IInv, EnumerationsExact, Exact, Covers

\* _burn, with the enumerations of the token and of the holder
LEMMA RedeemKeeps ==
    ASSUME IInv, NEW i \in Isins, NEW from \in Accounts, NEW v \in Nat, RedeemByPartition(i, from, v)
    PROVE  IInv'
<1> DEFINE b == balanceOfByPartition[from]
           e == partitionsOf[from]
           c == [b EXCEPT ![i] = @ - v]
           f == RemovePartition(e, i, b[i] - v)
           s == totalSupplyByPartition
           g == RemovePartition(totalPartitions, i, s[i] - v)
<1>1. /\ TypeOK /\ Covers(totalPartitions, s)
      /\ \A a \in Accounts : Exact(partitionsOf[a], balanceOfByPartition[a])
  BY IInvParts
<1>2. /\ b \in [Isins -> Nat] /\ e \in Enumerations /\ Exact(e, b)
      /\ v <= b[i] /\ v <= s[i] /\ v <= balances[from] /\ v <= totalSupply
  BY <1>1 DEF TypeOK, RedeemByPartition, CanRedeem
<1>3. /\ f \in Enumerations /\ Exact(f, c)
      /\ c \in [Isins -> Nat]
  BY <1>2, RemoveKeepsExact
<1>4. /\ balanceOfByPartition' = [balanceOfByPartition EXCEPT ![from] = c]
      /\ partitionsOf' = [partitionsOf EXCEPT ![from] = f]
      /\ totalSupplyByPartition' = [s EXCEPT ![i] = @ - v]
      /\ totalPartitions' = g
      /\ totalSupply' = totalSupply - v
      /\ balances' = [balances EXCEPT ![from] = @ - v]
  BY <1>1 DEF RedeemByPartition, TypeOK
<1>5. g \in Enumerations /\ Covers(g, [s EXCEPT ![i] = @ - v])
  BY <1>1, <1>2, RemoveKeepsCovers DEF TypeOK
<1> HIDE DEF b, e, c, f, g
<1>6. TypeOK'
  BY <1>1, <1>2, <1>3, <1>4, <1>5 DEF TypeOK
<1>7. \A a \in Accounts : Exact(partitionsOf'[a], balanceOfByPartition'[a])
  BY <1>1, <1>3, <1>4 DEF TypeOK
<1>8. Covers(totalPartitions', totalSupplyByPartition')
  BY <1>4, <1>5
<1> QED BY <1>6, <1>7, <1>8 DEF IInv, EnumerationsExact, Exact, Covers

\* _move, with the enumerations of the sender and of the receiver
LEMMA TransferKeeps ==
    ASSUME IInv, NEW i \in Isins, NEW from \in Accounts, NEW to \in Accounts, NEW v \in Nat,
           TransferByPartition(i, from, to, v)
    PROVE  IInv'
<1>1. /\ TypeOK /\ Covers(totalPartitions, totalSupplyByPartition)
      /\ \A a \in Accounts : Exact(partitionsOf[a], balanceOfByPartition[a])
      /\ UNCHANGED <<totalSupply, totalSupplyByPartition, totalPartitions>>
  BY IInvParts DEF TransferByPartition
<1>2. CASE from = to
  <2>1. UNCHANGED vars
    BY <1>1, <1>2 DEF TransferByPartition, vars
  <2> QED BY <1>1, <2>1 DEF vars, IInv, EnumerationsExact, TypeOK, Exact, Covers
<1>3. CASE from # to
  <2> DEFINE b == balanceOfByPartition[from]
             d == balanceOfByPartition[to]
             bb == [b EXCEPT ![i] = @ - v]
             dd == [d EXCEPT ![i] = @ + v]
             f == RemovePartition(partitionsOf[from], i, b[i] - v)
             g == AddPartition(partitionsOf[to], i, d[i] + v)
  <2>1. /\ b \in [Isins -> Nat] /\ d \in [Isins -> Nat]
        /\ partitionsOf[from] \in Enumerations /\ partitionsOf[to] \in Enumerations
        /\ Exact(partitionsOf[from], b) /\ Exact(partitionsOf[to], d)
        /\ v <= b[i] /\ v <= balances[from]
    BY <1>1 DEF TypeOK, TransferByPartition, CanMove
  <2>2. f \in Enumerations /\ Exact(f, bb) /\ bb \in [Isins -> Nat]
    <3> HIDE DEF b
    <3>1. bb \in [Isins -> Nat]
      BY <2>1
    <3>2. f \in Enumerations /\ Exact(f, bb)
      BY <2>1, RemoveKeepsExact
    <3> QED BY <3>1, <3>2
  <2>3. g \in Enumerations /\ Exact(g, dd) /\ dd \in [Isins -> Nat]
    BY <2>1, AddKeepsExact
  <2>4. /\ balanceOfByPartition' = [balanceOfByPartition EXCEPT ![from] = bb, ![to] = dd]
        /\ partitionsOf' = [partitionsOf EXCEPT ![from] = f, ![to] = g]
        /\ balances' = [balances EXCEPT ![from] = @ - v, ![to] = @ + v]
    BY <1>1, <1>3 DEF TransferByPartition, TypeOK
  <2> HIDE DEF b, d, bb, dd, f, g
  <2>5. TypeOK'
    <3>1. balances' \in [Accounts -> Nat]
      <4>1. balances[from] - v \in Nat /\ balances[to] + v \in Nat
        BY <1>1, <2>1 DEF TypeOK
      <4>2. balances' = [balances EXCEPT ![from] = balances[from] - v, ![to] = balances[to] + v]
        BY <1>1, <1>3, <2>4 DEF TypeOK
      <4> QED BY <1>1, <4>1, <4>2 DEF TypeOK
    <3>2. balanceOfByPartition' \in [Accounts -> [Isins -> Nat]]
      BY <1>1, <2>2, <2>3, <2>4 DEF TypeOK
    <3>3. partitionsOf' \in [Accounts -> Enumerations]
      BY <1>1, <2>2, <2>3, <2>4 DEF TypeOK
    <3> QED BY <1>1, <3>1, <3>2, <3>3 DEF TypeOK
  <2>6. \A a \in Accounts : Exact(partitionsOf'[a], balanceOfByPartition'[a])
    BY <1>1, <1>3, <2>2, <2>3, <2>4 DEF TypeOK
  <2>7. Covers(totalPartitions', totalSupplyByPartition')
    BY <1>1
  <2> QED BY <2>5, <2>6, <2>7 DEF IInv, EnumerationsExact, Exact, Covers
<1> QED BY <1>2, <1>3

\* createPartition tracks a partition without supply.
LEMMA InitializeKeeps ==
    ASSUME IInv, NEW i \in Isins, InitializePartition(i)
    PROVE  IInv'
<1>1. /\ totalPartitions \in Enumerations /\ Covers(totalPartitions, totalSupplyByPartition)
      /\ totalPartitions' = Track(totalPartitions, i)
      /\ UNCHANGED <<balances, totalSupply, balanceOfByPartition, totalSupplyByPartition, partitionsOf>>
  BY IInvParts DEF TypeOK, InitializePartition
<1>2. /\ Track(totalPartitions, i) \in Enumerations /\ Consistent(Track(totalPartitions, i))
      /\ Track(totalPartitions, i).index[i] # 0
      /\ \A j \in Isins \ {i} : Track(totalPartitions, i).index[j] = totalPartitions.index[j]
  BY <1>1, TrackExact DEF Covers
<1>3. Covers(totalPartitions', totalSupplyByPartition')
  BY <1>1, <1>2 DEF Covers
<1> QED BY <1>1, <1>2, <1>3 DEF IInv, TypeOK, EnumerationsExact, Covers

\* disablePartition untracks a partition, but only one without supply.
LEMMA UntrackKeeps ==
    ASSUME IInv, NEW i \in Isins, UntrackPartition(i)
    PROVE  IInv'
<1>1. /\ totalPartitions \in Enumerations /\ Covers(totalPartitions, totalSupplyByPartition)
      /\ totalPartitions' = Untrack(totalPartitions, i) /\ totalSupplyByPartition[i] = 0
      /\ UNCHANGED <<balances, totalSupply, balanceOfByPartition, totalSupplyByPartition, partitionsOf>>
  BY IInvParts DEF TypeOK, UntrackPartition
<1>2. /\ Untrack(totalPartitions, i) \in Enumerations /\ Consistent(Untrack(totalPartitions, i))
      /\ \A j \in Isins \ {i} : Untrack(totalPartitions, i).index[j] # 0 <=> totalPartitions.index[j] # 0
  BY <1>1, UntrackExact DEF Covers
<1>3. Covers(totalPartitions', totalSupplyByPartition')
  BY <1>1, <1>2 DEF Covers
<1> QED BY <1>1, <1>2, <1>3 DEF IInv, TypeOK, EnumerationsExact, Covers

-----------------------------------------------------------------------------

\* Every step keeps the invariant.
LEMMA NextKeeps == IInv /\ [Next]_vars => IInv'
<1> SUFFICES ASSUME IInv, [Next]_vars PROVE IInv'
  OBVIOUS
<1>1. CASE UNCHANGED vars
  BY <1>1 DEF vars, IInv, TypeOK, EnumerationsExact
<1>2. CASE Next
  <2>1. PICK i \in Isins :
          \/ InitializePartition(i)
          \/ UntrackPartition(i)
          \/ \E v \in Amounts, a \in Accounts :
                \/ IssueByPartition(i, a, v)
                \/ RedeemByPartition(i, a, v)
                \/ \E to \in Accounts : TransferByPartition(i, a, to, v)
    BY <1>2 DEF Next
  <2>2. Amounts \subseteq Nat
    BY Erc1410Assumption
  <2> QED BY <2>1, <2>2, InitializeKeeps, UntrackKeeps, IssueKeeps, RedeemKeeps, TransferKeeps
<1> QED BY <1>1, <1>2

LEMMA Invariance == Spec => []IInv
<1> QED BY InitIInv, NextKeeps, PTL DEF Spec

\* No checked subtraction underflows, and every enumeration is an array of partitions
\* with a position for each.
THEOREM Erc1410TypeCorrect == Spec => []TypeOK
<1>1. IInv => TypeOK
  BY DEF IInv
<1> QED BY <1>1, Invariance, PTL

\* Whatever is issued, moved, redeemed, created and disabled: swap-and-pop never loses
\* or duplicates an entry (ERC1410.sol:264, 418), and the lists say who holds what.
THEOREM EnumerationsTheorem == Spec => []EnumerationsExact
<1>1. IInv => EnumerationsExact
  BY DEF IInv
<1> QED BY <1>1, Invariance, PTL

-----------------------------------------------------------------------------
(* The four ways of counting                                                *)

\* The units of one partition, by holder, in a table by holder and partition
Column(t, i) == [a \in Accounts |-> t[a][i]]

\* t and u are tables of units, the same but for what a holds of i.
SameTableBut(t, u, a, i) ==
    /\ t \in [Accounts -> [Isins -> Nat]]
    /\ u \in [Accounts -> [Isins -> Nat]]
    /\ a \in Accounts /\ i \in Isins
    /\ \A j \in Isins \ {i} : u[a][j] = t[a][j]
    /\ \A b \in Accounts \ {a} : u[b] = t[b]

\* Adding to one entry of the table adds as much to the sums of its row and of its column,
\* and leaves every other row and column alone.
LEMMA TableUp ==
    ASSUME NEW t, NEW u, NEW a, NEW i, SameTableBut(t, u, a, i)
    PROVE  /\ SumFunction(u[a]) = SumFunction(t[a]) + (u[a][i] - t[a][i])
           /\ SumFunction(Column(u, i)) = SumFunction(Column(t, i)) + (u[a][i] - t[a][i])
           /\ SumFunction(Column(t, i)) \in Int
           /\ \A j \in Isins \ {i} : Column(u, j) = Column(t, j)
<1> USE DEF SameTableBut
<1>1. SumFunction(u[a]) = SumFunction(t[a]) + (u[a][i] - t[a][i])
  <2>1. SameBut(t[a], u[a], Isins, i)
    BY FiniteAssumption DEF SameBut
  <2> QED BY <2>1, SumUp
<1>2. SumFunction(Column(u, i)) = SumFunction(Column(t, i)) + (u[a][i] - t[a][i]) /\ SumFunction(Column(t, i)) \in Int
  <2>1. SameBut(Column(t, i), Column(u, i), Accounts, a)
    BY FiniteAssumption DEF SameBut, Column
  <2>2. Column(u, i)[a] = u[a][i] /\ Column(t, i)[a] = t[a][i]
    BY DEF Column
  <2> QED BY <2>1, <2>2, SumUp
<1>3. \A j \in Isins \ {i} : Column(u, j) = Column(t, j)
  BY DEF Column
<1> QED BY <1>1, <1>2, <1>3

\* TotalsAgree, one count at a time
LEMMA TotalsParts ==
    TotalsAgree <=> /\ \A a \in Accounts : balances[a] = SumFunction(balanceOfByPartition[a])
                    /\ \A i \in Isins :
                          totalSupplyByPartition[i] = SumFunction(Column(balanceOfByPartition, i))
                    /\ totalSupply = SumFunction(totalSupplyByPartition)
BY DEF TotalsAgree, Column

\* Before the first issue every count is 0.
LEMMA InitTotals == Init => TotalsAgree
<1> SUFFICES ASSUME Init PROVE TotalsAgree
  OBVIOUS
<1>1. ASSUME NEW S, IsFiniteSet(S), NEW f, f = [x \in S |-> 0] PROVE SumFunction(f) = 0
  <2>1. DOMAIN f = S /\ \A x \in S : f[x] = 0
    BY <1>1
  <2>2. SumFunctionOnSet(f, S) = 0
    BY <1>1, <2>1, SumZero
  <2> QED BY <2>1, <2>2, Zenon DEF SumFunction
<1>2. \A a \in Accounts : balances[a] = 0 /\ balanceOfByPartition[a] = [i \in Isins |-> 0]
  BY DEF Init
<1>3. \A i \in Isins : totalSupplyByPartition[i] = 0 /\ Column(balanceOfByPartition, i) = [a \in Accounts |-> 0]
  BY DEF Init, Column
<1>4. totalSupply = 0 /\ totalSupplyByPartition = [i \in Isins |-> 0]
  BY DEF Init
<1> QED BY <1>1, <1>2, <1>3, <1>4, FiniteAssumption, TotalsParts

\* What a mint of v units, or a burn of -v, does to the counts
CountsMove(i, a, v) ==
    /\ i \in Isins /\ a \in Accounts /\ v \in Int
    /\ balanceOfByPartition[a][i] + v \in Nat
    /\ totalSupplyByPartition[i] + v \in Nat
    /\ totalSupply' = totalSupply + v
    /\ balances' = [balances EXCEPT ![a] = @ + v]
    /\ balanceOfByPartition' = [balanceOfByPartition EXCEPT
                                  ![a] = [balanceOfByPartition[a] EXCEPT ![i] = @ + v]]
    /\ totalSupplyByPartition' = [totalSupplyByPartition EXCEPT ![i] = @ + v]

\* It moves all four by as much.
LEMMA CountsMoveTogether ==
    ASSUME TypeOK, TotalsAgree, NEW i, NEW a, NEW v, CountsMove(i, a, v)
    PROVE  TotalsAgree'
<1>1. /\ \A b \in Accounts : balances[b] = SumFunction(balanceOfByPartition[b])
      /\ \A j \in Isins : totalSupplyByPartition[j] = SumFunction(Column(balanceOfByPartition, j))
      /\ totalSupply = SumFunction(totalSupplyByPartition)
  BY TotalsParts
<1>2. /\ SumFunction(balanceOfByPartition'[a]) = SumFunction(balanceOfByPartition[a]) + v
      /\ \A b \in Accounts \ {a} : balanceOfByPartition'[b] = balanceOfByPartition[b]
      /\ SumFunction(Column(balanceOfByPartition', i)) = SumFunction(Column(balanceOfByPartition, i)) + v
      /\ \A j \in Isins \ {i} : Column(balanceOfByPartition', j) = Column(balanceOfByPartition, j)
  <2> DEFINE t == balanceOfByPartition
             u == balanceOfByPartition'
  <2>1. t \in [Accounts -> [Isins -> Nat]] /\ u \in [Accounts -> [Isins -> Nat]]
    BY DEF TypeOK, CountsMove
  <2>2. /\ u[a][i] = t[a][i] + v
        /\ \A j \in Isins \ {i} : u[a][j] = t[a][j]
        /\ \A b \in Accounts \ {a} : u[b] = t[b]
    BY DEF TypeOK, CountsMove
  <2> HIDE DEF t, u
  <2>3. /\ SumFunction(u[a]) = SumFunction(t[a]) + (u[a][i] - t[a][i])
        /\ SumFunction(Column(u, i)) = SumFunction(Column(t, i)) + (u[a][i] - t[a][i])
        /\ \A j \in Isins \ {i} : Column(u, j) = Column(t, j)
    <3>1. i \in Isins /\ a \in Accounts
      BY DEF CountsMove
    <3>2. SameTableBut(t, u, a, i)
      BY <2>1, <2>2, <3>1 DEF SameTableBut
    <3> QED BY <3>2, TableUp
  <2>4. u[a][i] - t[a][i] = v
    BY <2>1, <2>2 DEF CountsMove
  <2> QED BY <2>2, <2>3, <2>4 DEF t, u
<1>3. SumFunction(totalSupplyByPartition') = SumFunction(totalSupplyByPartition) + v
  <2>1. SameBut(totalSupplyByPartition, totalSupplyByPartition', Isins, i)
    BY FiniteAssumption DEF TypeOK, CountsMove, SameBut
  <2>2. totalSupplyByPartition'[i] - totalSupplyByPartition[i] = v
    BY DEF TypeOK, CountsMove
  <2>3. SumFunction(totalSupplyByPartition')
          = SumFunction(totalSupplyByPartition) + (totalSupplyByPartition'[i] - totalSupplyByPartition[i])
    BY <2>1, SumUp
  <2> QED BY <2>2, <2>3
<1>4. \A b \in Accounts : balances'[b] = SumFunction(balanceOfByPartition'[b])
  BY <1>1, <1>2 DEF TypeOK, CountsMove
<1>5. \A j \in Isins : totalSupplyByPartition'[j] = SumFunction(Column(balanceOfByPartition', j))
  BY <1>1, <1>2 DEF TypeOK, CountsMove
<1> QED BY <1>1, <1>3, <1>4, <1>5 DEF TotalsAgree, Column, CountsMove

\* A transfer moves two rows and no column: what leaves one holder reaches the other.
LEMMA TransferKeepsTotals ==
    ASSUME TypeOK, TotalsAgree, NEW i \in Isins, NEW from \in Accounts, NEW to \in Accounts,
           NEW v \in Nat, TransferByPartition(i, from, to, v)
    PROVE  TotalsAgree'
<1>1. /\ \A b \in Accounts : balances[b] = SumFunction(balanceOfByPartition[b])
      /\ \A j \in Isins : totalSupplyByPartition[j] = SumFunction(Column(balanceOfByPartition, j))
      /\ totalSupply = SumFunction(totalSupplyByPartition)
      /\ UNCHANGED <<totalSupply, totalSupplyByPartition>>
  BY TotalsParts DEF TransferByPartition
<1>2. CASE from = to
  BY <1>1, <1>2 DEF TransferByPartition, TotalsAgree
<1>3. CASE from # to
  <2> DEFINE t == balanceOfByPartition
             u == [t EXCEPT ![from] = [t[from] EXCEPT ![i] = @ - v]]
             w == [u EXCEPT ![to] = [u[to] EXCEPT ![i] = @ + v]]
  <2>1. t \in [Accounts -> [Isins -> Nat]] /\ v <= t[from][i]
    BY DEF TransferByPartition, CanMove, TypeOK
  <2>2. balanceOfByPartition' = w
    BY <1>3, <2>1 DEF TransferByPartition
  <2>3. /\ balances'[from] = balances[from] + (0 - v)
        /\ balances'[to] = balances[to] + v
        /\ \A b \in Accounts \ {from, to} : balances'[b] = balances[b]
    BY <1>3 DEF TransferByPartition, TypeOK
  <2>4. 0 - v \in Int
    OBVIOUS
  <2> HIDE DEF t, w
  <2>5. /\ u \in [Accounts -> [Isins -> Nat]]
        /\ SumFunction(u[from]) = SumFunction(t[from]) + (0 - v)
        /\ \A b \in Accounts \ {from} : u[b] = t[b]
        /\ SumFunction(Column(u, i)) = SumFunction(Column(t, i)) + (0 - v)
        /\ SumFunction(Column(t, i)) \in Int
        /\ \A j \in Isins \ {i} : Column(u, j) = Column(t, j)
    <3>1. /\ u \in [Accounts -> [Isins -> Nat]]
          /\ u[from][i] = t[from][i] + (0 - v)
          /\ \A j \in Isins \ {i} : u[from][j] = t[from][j]
          /\ \A b \in Accounts \ {from} : u[b] = t[b]
      BY <2>1
    <3> HIDE DEF u
    <3>2. u[from][i] - t[from][i] = 0 - v
      BY <2>1, <3>1
    <3>3. /\ SumFunction(u[from]) = SumFunction(t[from]) + (u[from][i] - t[from][i])
          /\ SumFunction(Column(u, i)) = SumFunction(Column(t, i)) + (u[from][i] - t[from][i])
          /\ SumFunction(Column(t, i)) \in Int
          /\ \A j \in Isins \ {i} : Column(u, j) = Column(t, j)
      BY <2>1, <3>1, TableUp DEF SameTableBut
    <3> QED BY <3>1, <3>2, <3>3
  <2> HIDE DEF u
  <2>6. /\ SumFunction(w[to]) = SumFunction(u[to]) + v
        /\ \A b \in Accounts \ {to} : w[b] = u[b]
        /\ SumFunction(Column(w, i)) = SumFunction(Column(u, i)) + v
        /\ \A j \in Isins \ {i} : Column(w, j) = Column(u, j)
    <3>1. /\ w \in [Accounts -> [Isins -> Nat]]
          /\ w[to][i] = u[to][i] + v
          /\ \A j \in Isins \ {i} : w[to][j] = u[to][j]
          /\ \A b \in Accounts \ {to} : w[b] = u[b]
      BY <2>5 DEF w
    <3>2. w[to][i] - u[to][i] = v
      BY <2>5, <3>1
    <3>3. /\ SumFunction(w[to]) = SumFunction(u[to]) + (w[to][i] - u[to][i])
          /\ SumFunction(Column(w, i)) = SumFunction(Column(u, i)) + (w[to][i] - u[to][i])
          /\ \A j \in Isins \ {i} : Column(w, j) = Column(u, j)
      BY <2>5, <3>1, TableUp DEF SameTableBut
    <3> QED BY <3>1, <3>2, <3>3
  <2>8. \A b \in Accounts : balances'[b] = SumFunction(w[b])
    <3> TAKE b \in Accounts
    <3>1. CASE b = from
      BY <3>1, <1>1, <1>3, <2>3, <2>5, <2>6 DEF t
    <3>2. CASE b = to
      BY <3>2, <1>1, <1>3, <2>3, <2>5, <2>6 DEF t
    <3>3. CASE b # from /\ b # to
      BY <3>3, <1>1, <2>3, <2>5, <2>6 DEF t
    <3> QED BY <3>1, <3>2, <3>3
  <2>9. \A j \in Isins : totalSupplyByPartition'[j] = SumFunction(Column(w, j))
    <3> TAKE j \in Isins
    <3>1. CASE j = i
      <4>1. SumFunction(Column(w, i)) = SumFunction(Column(t, i))
        BY <2>5, <2>6
      <4> QED BY <3>1, <4>1, <1>1 DEF t
    <3>2. CASE j # i
      BY <3>2, <1>1, <2>5, <2>6 DEF t
    <3> QED BY <3>1, <3>2
  <2> QED BY <1>1, <2>2, <2>8, <2>9 DEF TotalsAgree, Column
<1> QED BY <1>2, <1>3

\* Every step keeps the counts in agreement.
LEMMA NextKeepsTotals == TypeOK /\ TotalsAgree /\ [Next]_vars => TotalsAgree'
<1> SUFFICES ASSUME TypeOK, TotalsAgree, [Next]_vars PROVE TotalsAgree'
  OBVIOUS
<1>1. CASE UNCHANGED vars
  BY <1>1 DEF vars, TotalsAgree
<1>2. ASSUME NEW i \in Isins, InitializePartition(i) \/ UntrackPartition(i) PROVE TotalsAgree'
  BY <1>2 DEF InitializePartition, UntrackPartition, TotalsAgree
<1>3. ASSUME NEW i \in Isins, NEW a \in Accounts, NEW v \in Nat, IssueByPartition(i, a, v)
      PROVE  TotalsAgree'
  <2>1. /\ balanceOfByPartition[a][i] + v \in Nat /\ totalSupplyByPartition[i] + v \in Nat
        /\ balanceOfByPartition' = [balanceOfByPartition EXCEPT
                                      ![a] = [balanceOfByPartition[a] EXCEPT ![i] = @ + v]]
    BY <1>3 DEF IssueByPartition, TypeOK
  <2>2. /\ totalSupply' = totalSupply + v
        /\ balances' = [balances EXCEPT ![a] = @ + v]
        /\ totalSupplyByPartition' = [totalSupplyByPartition EXCEPT ![i] = @ + v]
    BY <1>3 DEF IssueByPartition
  <2>3. CountsMove(i, a, v)
    BY <2>1, <2>2 DEF CountsMove
  <2> QED BY <2>3, CountsMoveTogether
<1>4. ASSUME NEW i \in Isins, NEW a \in Accounts, NEW v \in Nat, RedeemByPartition(i, a, v)
      PROVE  TotalsAgree'
  <2> DEFINE w == 0 - v
  <2>1. w \in Int /\ balanceOfByPartition[a][i] + w \in Nat /\ totalSupplyByPartition[i] + w \in Nat
    BY <1>4 DEF RedeemByPartition, CanRedeem, TypeOK
  <2>2. /\ totalSupply' = totalSupply + w
        /\ balances' = [balances EXCEPT ![a] = @ + w]
        /\ balanceOfByPartition' = [balanceOfByPartition EXCEPT
                                      ![a] = [balanceOfByPartition[a] EXCEPT ![i] = @ + w]]
        /\ totalSupplyByPartition' = [totalSupplyByPartition EXCEPT ![i] = @ + w]
    <3>1. /\ totalSupply \in Nat /\ balances[a] \in Nat /\ totalSupplyByPartition[i] \in Nat
          /\ balanceOfByPartition[a][i] \in Nat
          /\ balanceOfByPartition' = [balanceOfByPartition EXCEPT ![a][i] = @ - v]
      BY <1>4 DEF RedeemByPartition, TypeOK
    <3>2. /\ totalSupply - v = totalSupply + w /\ balances[a] - v = balances[a] + w
          /\ totalSupplyByPartition[i] - v = totalSupplyByPartition[i] + w
          /\ balanceOfByPartition[a][i] - v = balanceOfByPartition[a][i] + w
      BY <3>1
    <3> HIDE DEF w
    <3> QED BY <1>4, <3>1, <3>2 DEF RedeemByPartition
  <2> HIDE DEF w
  <2>3. CountsMove(i, a, w)
    BY <2>1, <2>2 DEF CountsMove
  <2> QED BY <2>3, CountsMoveTogether
<1>5. ASSUME Next PROVE TotalsAgree'
  <2>1. PICK i \in Isins :
          \/ InitializePartition(i)
          \/ UntrackPartition(i)
          \/ \E v \in Amounts, a \in Accounts :
                \/ IssueByPartition(i, a, v)
                \/ RedeemByPartition(i, a, v)
                \/ \E to \in Accounts : TransferByPartition(i, a, to, v)
    BY <1>5 DEF Next
  <2>2. Amounts \subseteq Nat
    BY Erc1410Assumption
  <2> QED BY <1>2, <1>3, <1>4, <2>1, <2>2, TransferKeepsTotals
<1> QED BY <1>1, <1>5

\* A balance, a supply, a holder's total and the token's total are kept apart and never
\* recomputed (ERC1410.sol:264, 418): no sequence of calls lets one drift from the others.
THEOREM TotalsTheorem == Spec => []TotalsAgree
<1>1. IInv => TypeOK
  BY DEF IInv
<1> QED BY <1>1, InitTotals, NextKeepsTotals, Invariance, PTL DEF Spec

-----------------------------------------------------------------------------
(* What it promises                                                         *)

\* The balances of the plain ledger: by partition, then by holder
Bal == [j \in Isins |-> [a \in Accounts |-> balanceOfByPartition[a][j]]]

\* The bookkeeping of an issue is a mint of the ledger.
LEMMA IssueIsMint ==
    ASSUME TypeOK, NEW i \in Isins, NEW to \in Accounts, NEW v \in Nat, IssueByPartition(i, to, v)
    PROVE  Ledger!Mint(i, to, v)
<1>1. balanceOfByPartition' = [balanceOfByPartition EXCEPT
                                 ![to] = [balanceOfByPartition[to] EXCEPT ![i] = @ + v]]
  BY DEF IssueByPartition, TypeOK
<1>2. Bal' = [Bal EXCEPT ![i] = [Bal[i] EXCEPT ![to] = @ + v]]
  BY <1>1 DEF Bal, TypeOK
<1>3. v > 0
  BY DEF IssueByPartition
<1>4. totalSupplyByPartition' = [totalSupplyByPartition EXCEPT ![i] = @ + v]
  BY DEF IssueByPartition
<1> QED BY <1>2, <1>3, <1>4 DEF Ledger!Mint, Bal

\* The bookkeeping of a redemption is a burn of the ledger.
LEMMA RedeemIsBurn ==
    ASSUME TypeOK, NEW i \in Isins, NEW from \in Accounts, NEW v \in Nat, RedeemByPartition(i, from, v)
    PROVE  Ledger!Burn(i, from, v)
<1>1. balanceOfByPartition' = [balanceOfByPartition EXCEPT
                                 ![from] = [balanceOfByPartition[from] EXCEPT ![i] = @ - v]]
  BY DEF RedeemByPartition, TypeOK
<1>2. Bal' = [Bal EXCEPT ![i] = [Bal[i] EXCEPT ![from] = @ - v]]
  BY <1>1 DEF Bal, TypeOK
<1>3. v > 0 /\ v <= Bal[i][from] /\ v <= totalSupplyByPartition[i]
  BY DEF RedeemByPartition, CanRedeem, Bal, TypeOK
<1>4. totalSupplyByPartition' = [totalSupplyByPartition EXCEPT ![i] = @ - v]
  BY DEF RedeemByPartition
<1> QED BY <1>2, <1>3, <1>4 DEF Ledger!Burn, Bal

\* The bookkeeping of a transfer is a move of the ledger.
LEMMA TransferIsMove ==
    ASSUME TypeOK, NEW i \in Isins, NEW from \in Accounts, NEW to \in Accounts, NEW v \in Nat,
           TransferByPartition(i, from, to, v)
    PROVE  Ledger!Move(i, from, to, v)
<1>1. v <= Bal[i][from] /\ UNCHANGED totalSupplyByPartition
  BY DEF TransferByPartition, CanMove, Bal, TypeOK
<1>2. CASE from = to
  <2>1. Bal' = Bal
    BY <1>2 DEF TransferByPartition, Bal
  <2> QED BY <1>1, <1>2, <2>1 DEF Ledger!Move, Bal
<1>3. CASE from # to
  <2>1. balanceOfByPartition' = [balanceOfByPartition EXCEPT
                                   ![from] = [balanceOfByPartition[from] EXCEPT ![i] = @ - v],
                                   ![to]   = [balanceOfByPartition[to] EXCEPT ![i] = @ + v]]
    BY <1>3 DEF TransferByPartition, TypeOK
  <2>2. Bal' = [Bal EXCEPT ![i] = [Bal[i] EXCEPT ![from] = @ - v, ![to] = @ + v]]
    BY <1>3, <2>1 DEF Bal, TypeOK
  <2> QED BY <1>1, <1>3, <2>2 DEF Ledger!Move, Bal
<1> QED BY <1>2, <1>3

\* A step of the contract is a step of the ledger, or one the ledger does not see.
LEMMA StepSimulation == TypeOK /\ [Next]_vars => [Ledger!LedgerNext]_(Ledger!ledgerVars)
<1> SUFFICES ASSUME TypeOK, [Next]_vars
             PROVE  Ledger!LedgerNext \/ UNCHANGED Ledger!ledgerVars
  OBVIOUS
<1>1. CASE UNCHANGED vars
  BY <1>1 DEF vars, Ledger!ledgerVars
<1>2. CASE Next
  <2>1. PICK i \in Isins :
          \/ InitializePartition(i)
          \/ UntrackPartition(i)
          \/ \E v \in Amounts, a \in Accounts :
                \/ IssueByPartition(i, a, v)
                \/ RedeemByPartition(i, a, v)
                \/ \E to \in Accounts : TransferByPartition(i, a, to, v)
    BY <1>2 DEF Next
  <2>2. Amounts \subseteq Nat
    BY Erc1410Assumption
  <2>3. CASE InitializePartition(i) \/ UntrackPartition(i)
    BY <2>3 DEF InitializePartition, UntrackPartition, Ledger!ledgerVars
  <2>4. ASSUME NEW v \in Amounts, NEW a \in Accounts,
               \/ IssueByPartition(i, a, v)
               \/ RedeemByPartition(i, a, v)
               \/ \E to \in Accounts : TransferByPartition(i, a, to, v)
        PROVE  Ledger!LedgerNext
    <3>1. \/ Ledger!Mint(i, a, v)
          \/ Ledger!Burn(i, a, v)
          \/ \E to \in Accounts : Ledger!Move(i, a, to, v)
      BY <2>2, <2>4, IssueIsMint, RedeemIsBurn, TransferIsMove
    <3> QED BY <3>1 DEF Ledger!LedgerNext
  <2> QED BY <2>1, <2>3, <2>4
<1> QED BY <1>1, <1>2

\* ERC1410.sol with all its redundant bookkeeping implements the plain ledger on which
\* BondToken, and every theorem about the bond contracts, is built.
THEOREM Erc1410Refines == Spec => ImplementsLedger
<1>1. Init => Ledger!LedgerInit
  BY DEF Init, Ledger!LedgerInit
<1>2. IInv => TypeOK
  BY DEF IInv
<1> QED BY <1>1, <1>2, StepSimulation, Invariance, PTL DEF Spec, ImplementsLedger, Ledger!LedgerSpec
==============================================================================
