---------------------------- MODULE BondApiProofs ----------------------------
(***************************************************************************)
(* The handlers of the API for any number of requests, any wallets, any    *)
(* chain to begin with and any crashes and lost connections.  In order:    *)
(* what sealing a bid promises; the type invariant of the handlers and the *)
(* nonces of the operator's wallet; what the records and answers tell;     *)
(* what requests about auctions and banks bring about on the chain; and    *)
(* what is announced to the browsers.                                      *)
(***************************************************************************)
EXTENDS BondApiSafety, FiniteSetTheorems, SequenceTheorems, TLAPS

-----------------------------------------------------------------------------
(* Sealed bids: for every key, bidder and ISIN, the auctioneer reads what   *)
(* was sealed (`SealedBidOpens'), the bidder can too (`BidderReadsOwnBid'), *)
(* a process whose key is neither reads nothing, as after a restart with a  *)
(* fresh key (`OtherKeysReadNothing'), and a ciphertext copied from the     *)
(* public chain is of no use to anyone else (`CopiedBidIsUnreadable').      *)

\* The fields of a sealed bid, that everything below rests on.
LEMMA WhatIsSealed ==
    ASSUME NEW bidder, NEW isin, NEW auction, NEW rate, NEW units, NEW auctioneer,
           NEW bid, bid = BuildSealedBid(bidder, isin, auction, rate, units, auctioneer)
    PROVE  /\ bid.bidder = bidder
           /\ bid.ciphertext.plaintext.isin = isin
           /\ bid.ciphertext.plaintext.bidder = bidder
           /\ bid.ciphertext.plaintext.rate = rate
           /\ bid.ciphertext.plaintext.units = units
           /\ bid.ciphertext.plaintext.bidderSig # NoSignature
           /\ HashBidPlaintext(bid.ciphertext.plaintext) = bid.plaintextHash
           /\ bid.ciphertext.wraps["auctioneer"].opensWith = auctioneer
           /\ bid.ciphertext.wraps["bidder"].opensWith = bidder
<1> DEFINE staged == Plaintext(isin, bidder, rate, units, NoSignature)
           hash   == HashBidPlaintext(staged)
           intent == BidIntent(bidder, auction, hash)
           signed == Plaintext(isin, bidder, rate, units, {intent})
<1>1. bid = [bidder |-> bidder, plaintextHash |-> hash,
             ciphertext |-> EncryptBid(signed, auctioneer, bidder)]
  BY DEF BuildSealedBid
<1>2. bid.bidder = bidder /\ bid.plaintextHash = hash
      /\ bid.ciphertext = EncryptBid(signed, auctioneer, bidder)
  BY <1>1
<1>3. /\ bid.ciphertext.plaintext = signed
      /\ bid.ciphertext.wraps["auctioneer"] = WrapKeyForRecipient(auctioneer)
      /\ bid.ciphertext.wraps["bidder"] = WrapKeyForRecipient(bidder)
  BY <1>2 DEF EncryptBid
<1>4. /\ signed.isin = isin
      /\ signed.bidder = bidder
      /\ signed.rate = rate
      /\ signed.units = units
      /\ signed.bidderSig = {intent}
  <2> HIDE DEF intent
  <2> QED  BY DEF Plaintext
<1>5. HashBidPlaintext(signed) = hash
  <2> HIDE DEF signed, hash
  <2>1. HashBidPlaintext(staged) = staged
    BY DEF HashBidPlaintext, Plaintext
  <2> QED  BY <1>4, <2>1 DEF HashBidPlaintext, hash
<1>6. signed.bidderSig # NoSignature
  BY <1>4 DEF NoSignature
<1> QED
  <2> HIDE DEF staged, hash, intent, signed
  <2> QED  BY <1>2, <1>3, <1>4, <1>5, <1>6 DEF WrapKeyForRecipient

-----------------------------------------------------------------------------

\* What a bidder seals for the auctioneer is what the auctioneer reads on the
\* chain: unsealBid (bid.ts) undoes buildSealedBid (bidder-bid.ts).
THEOREM SealedBidOpens ==
    ASSUME NEW bidder, NEW isin, NEW auction, NEW rate, NEW units, NEW auctioneer, NEW index
    PROVE  UnsealBid(isin, BuildSealedBid(bidder, isin, auction, rate, units, auctioneer),
                     index, auctioneer)
             = [readable |-> TRUE, bidder |-> bidder, rate |-> rate, units |-> units,
                index |-> index]
<1> DEFINE bid == BuildSealedBid(bidder, isin, auction, rate, units, auctioneer)
           opened == DecryptBid(bid.ciphertext, auctioneer, "auctioneer")
<1>1. /\ opened.readable
      /\ opened.plaintext = bid.ciphertext.plaintext
      /\ opened.plaintextHash = HashBidPlaintext(bid.ciphertext.plaintext)
  <2> HIDE DEF bid
  <2>1. Unwraps(auctioneer, bid.ciphertext, "auctioneer")
    BY WhatIsSealed DEF Unwraps, bid
  <2> QED  BY <2>1 DEF DecryptBid
<1>2. Agrees(isin, bid, opened)
  <2> HIDE DEF bid, opened
  <2> QED  BY <1>1, WhatIsSealed DEF Agrees, bid
<1> QED
  <2> HIDE DEF bid, opened
  <2>1. UnsealBid(isin, bid, index, auctioneer)
          = [readable |-> TRUE, bidder |-> bid.bidder, rate |-> opened.plaintext.rate,
             units |-> opened.plaintext.units, index |-> index]
    BY <1>1, <1>2 DEF UnsealBid, opened
  <2>2. /\ bid.bidder = bidder
        /\ bid.ciphertext.plaintext.rate = rate
        /\ bid.ciphertext.plaintext.units = units
    BY WhatIsSealed DEF bid
  <2>3. UnsealBid(isin, bid, index, auctioneer)
          = [readable |-> TRUE, bidder |-> bidder, rate |-> rate, units |-> units,
             index |-> index]
    BY <1>1, <2>1, <2>2
  <2> QED  BY <2>3 DEF bid

\* A bidder reads its own bid back with its own key (the bidder's wrap of
\* encryptBid), whatever key the auctioneer has by now.
THEOREM BidderReadsOwnBid ==
    ASSUME NEW bidder, NEW isin, NEW auction, NEW rate, NEW units, NEW auctioneer
    PROVE  LET bid    == BuildSealedBid(bidder, isin, auction, rate, units, auctioneer)
               opened == DecryptBid(bid.ciphertext, bidder, "bidder")
           IN  /\ opened.readable
               /\ opened.usedWrap = "bidder"
               /\ opened.plaintext.rate = rate
               /\ opened.plaintext.units = units
<1> DEFINE bid == BuildSealedBid(bidder, isin, auction, rate, units, auctioneer)
<1>1. Unwraps(bidder, bid.ciphertext, "bidder")
  <2> HIDE DEF bid
  <2> QED  BY WhatIsSealed DEF Unwraps, bid
<1>2. /\ bid.ciphertext.plaintext.rate = rate
      /\ bid.ciphertext.plaintext.units = units
  <2> HIDE DEF bid
  <2> QED  BY WhatIsSealed DEF bid
<1> QED
  <2> HIDE DEF bid
  <2>1. /\ DecryptBid(bid.ciphertext, bidder, "bidder").readable
        /\ DecryptBid(bid.ciphertext, bidder, "bidder").usedWrap = "bidder"
        /\ DecryptBid(bid.ciphertext, bidder, "bidder").plaintext.rate = rate
        /\ DecryptBid(bid.ciphertext, bidder, "bidder").plaintext.units = units
    BY <1>1, <1>2 DEF DecryptBid
  <2> QED  BY <2>1 DEF bid

\* A process started with a fresh sealing key (bid.ts, sealing key of the
\* process) reads none of the bids sealed before: each is Unreadable, and none
\* is misread.
THEOREM OtherKeysReadNothing ==
    ASSUME NEW bidder, NEW isin, NEW auction, NEW rate, NEW units, NEW auctioneer,
           NEW asked, NEW index, NEW key, key # auctioneer, key # bidder
    PROVE  UnsealBid(asked, BuildSealedBid(bidder, isin, auction, rate, units, auctioneer),
                     index, key) = Unreadable
<1> DEFINE bid == BuildSealedBid(bidder, isin, auction, rate, units, auctioneer)
<1> HIDE DEF bid
<1>1. ~Unwraps(key, bid.ciphertext, "auctioneer") /\ ~Unwraps(key, bid.ciphertext, "bidder")
  BY WhatIsSealed DEF Unwraps, bid
<1>2. DecryptBid(bid.ciphertext, key, "auctioneer") = Unreadable
  BY <1>1 DEF DecryptBid
<1>3. UnsealBid(asked, bid, index, key) = Unreadable
  BY <1>2 DEF UnsealBid, Unreadable
<1> QED  BY <1>3 DEF bid

\* A ciphertext is public.  Whoever submits a copy of it, with any hash beside it
\* and in an auction of any ISIN, is read only if it is the very bid: same
\* submitter, same ISIN, and then with the rate and units that were sealed.
THEOREM CopiedBidIsUnreadable ==
    ASSUME NEW bidder, NEW isin, NEW auction, NEW rate, NEW units, NEW auctioneer,
           NEW copier, NEW hash, NEW asked, NEW index, NEW key,
           NEW bid, NEW copy,
           bid = BuildSealedBid(bidder, isin, auction, rate, units, auctioneer),
           copy = [bidder |-> copier, plaintextHash |-> hash, ciphertext |-> bid.ciphertext],
           UnsealBid(asked, copy, index, key) # Unreadable
    PROVE  /\ copier = bidder
           /\ asked = isin
           /\ hash = bid.plaintextHash
           /\ UnsealBid(asked, copy, index, key).rate = rate
           /\ UnsealBid(asked, copy, index, key).units = units
<1> DEFINE opened == DecryptBid(copy.ciphertext, key, "auctioneer")
<1>1. copy.bidder = copier /\ copy.plaintextHash = hash /\ copy.ciphertext = bid.ciphertext
  OBVIOUS
<1>2. opened.readable /\ Agrees(asked, copy, opened)
  <2> HIDE DEF opened
  <2> QED  BY DEF UnsealBid, opened
<1>3. /\ opened.plaintext = bid.ciphertext.plaintext
      /\ opened.plaintextHash = HashBidPlaintext(bid.ciphertext.plaintext)
  BY <1>1, <1>2 DEF DecryptBid, Unreadable
<1>4. UnsealBid(asked, copy, index, key)
        = [readable |-> TRUE, bidder |-> copier, rate |-> opened.plaintext.rate,
           units |-> opened.plaintext.units, index |-> index]
  <2> HIDE DEF opened
  <2> QED  BY <1>1, <1>2 DEF UnsealBid, opened
<1> HIDE DEF opened
<1> QED  BY <1>1, <1>2, <1>3, <1>4, WhatIsSealed DEF Agrees

-----------------------------------------------------------------------------
(* The inductive invariant                                                  *)

Statuses == {"SUCCEEDED", "REVERTED", "FAILED"}
Sending  == {"queued", "prepared", "sent"}
Signing  == {"planned", "simulated", "queued", "prepared", "sent"}

\* The chain is never empty, and the pool is finite and holds transactions.
ChainInv ==
    /\ blocks \in Seq(Range(blocks)) /\ projected \in 1 .. Len(blocks)
    /\ IsFiniteSet(pool) /\ NoTx \notin pool

\* A request has these fields,
Fields(q) == [op |-> q.op, step |-> q.step, read |-> q.read, seen |-> q.seen, key |-> q.key,
              call |-> q.call, nonce |-> q.nonce, tbd |-> q.tbd, forced |-> q.forced,
              block |-> q.block, answer |-> q.answer]

\* a known operation,
Known(op) ==
    /\ op.kind \in Kinds
    /\ op.kind = "BIDDER_CREATE" => op.who \in Wallets
    /\ op.kind = "BANK_CREATE" => op.key # Admin /\ op.name \in Names

\* and an answer when it is answered; it signs with the operator's key when it is managed
\* and only then.
Sound(op, step, answer, nonce, key) ==
    /\ step \in Steps
    /\ answer \in IF step = "answered" THEN Answers ELSE {0}
    /\ nonce \in Nat \cup {NoNonce}
    /\ step \in Signing => (op.kind \in Managed <=> key = Admin)
SoundRequest(q) == Sound(q.op, q.step, q.answer, q.nonce, q.key)
RequestInv ==
    /\ requests = [r \in Requests |-> Fields(requests[r])]
    /\ \A r \in Requests : Known(requests[r].op) /\ SoundRequest(requests[r])
    /\ trail \in [Requests -> Seq(Statuses)]

\* The lock holds the managed requests on their way, each once.
LockInv ==
    /\ lock \in Seq(Requests) /\ IsInjective(lock)
    /\ \A r \in Requests :
         r \in Range(lock) <=> requests[r].op.kind \in Managed /\ requests[r].step \in Sending

RowInv == bidderRows \subseteq Wallets /\ \A b \in bankRows : b.key # Admin

\* A managed request at a step
Managing(r, step) == requests[r].op.kind \in Managed /\ requests[r].step = step

\* The head of the lock alone has a nonce.  It is the node's next one until the
\* transaction is there, and one less from then on; and the cached nonce is the node's
\* next one unless a transaction is on its way.
NonceInv ==
    /\ \A r \in Requests : Managing(r, "prepared") =>
          lock[1] = r /\ requests[r].nonce = PendingCount(Admin)
    /\ \A r \in Requests : Managing(r, "sent") =>
          lock[1] = r /\ requests[r].nonce \in Nat /\ requests[r].nonce + 1 = PendingCount(Admin)
    /\ cachedNonce \in Nat \cup {NoNonce}
    /\ \/ cachedNonce \in {NoNonce, PendingCount(Admin)}
       \/ \E r \in Requests : Managing(r, "sent")

IInv == ChainInv /\ RequestInv /\ LockInv /\ RowInv /\ NonceInv

-----------------------------------------------------------------------------
(* Sequences                                                                *)

\* A sequence is one over its own members.
LEMMA OverItsMembers ==
    ASSUME NEW S, NEW s \in Seq(S)
    PROVE  s \in Seq(Range(s))
<1>1. Len(s) \in Nat /\ s \in [1 .. Len(s) -> S]
  OBVIOUS
<1>2. s \in [1 .. Len(s) -> Range(s)]
  BY <1>1 DEF Range
<1> QED BY <1>1, <1>2, SeqDef

\* A sequence over its own members grows by one member.
LEMMA GrownSeq ==
    ASSUME NEW s, s \in Seq(Range(s)), NEW x
    PROVE  /\ Append(s, x) \in Seq(Range(Append(s, x)))
           /\ Len(Append(s, x)) = Len(s) + 1 /\ Len(s) \in Nat
           /\ DOMAIN s = 1 .. Len(s) /\ DOMAIN Append(s, x) = 1 .. Len(s) + 1
           /\ \A k \in 1 .. Len(s) : Append(s, x)[k] = s[k]
           /\ Append(s, x)[Len(s) + 1] = x
<1> DEFINE S == Range(s) \cup {x}
           t == Append(s, x)
<1>1. s \in Seq(S)
  <2>1. s \in [1 .. Len(s) -> S] /\ Len(s) \in Nat
    BY DEF Range
  <2> QED BY <2>1, SeqDef
<1>2. /\ t \in Seq(S) /\ Len(t) = Len(s) + 1 /\ Len(s) \in Nat
      /\ DOMAIN s = 1 .. Len(s) /\ DOMAIN t = 1 .. Len(s) + 1
      /\ \A k \in 1 .. Len(s) : t[k] = s[k]
      /\ t[Len(s) + 1] = x
  BY <1>1
<1> HIDE DEF S, t
<1>3. t \in Seq(Range(t))
  BY <1>2, OverItsMembers
<1> QED BY <1>2, <1>3 DEF t

\* A request that waits comes last.
LEMMA LockGrows ==
    ASSUME NEW R, NEW s \in Seq(R), IsInjective(s), NEW r \in R, r \notin Range(s)
    PROVE  /\ Append(s, r) \in Seq(R) /\ IsInjective(Append(s, r))
           /\ Range(Append(s, r)) = Range(s) \cup {r}
           /\ Range(s) # {} => Append(s, r)[1] = s[1]
<1> DEFINE t == Append(s, r)
<1>1. /\ Len(s) \in Nat /\ DOMAIN s = 1 .. Len(s) /\ DOMAIN t = 1 .. Len(s) + 1
      /\ t \in Seq(R) /\ t[Len(s) + 1] = r /\ \A k \in 1 .. Len(s) : t[k] = s[k]
  OBVIOUS
<1> HIDE DEF t
<1>2. \A k \in 1 .. Len(s) : s[k] # r
  BY <1>1 DEF Range
<1>3. IsInjective(t)
  <2> SUFFICES ASSUME NEW a \in 1 .. Len(s) + 1, NEW b \in 1 .. Len(s) + 1, t[a] = t[b]
               PROVE  a = b
    BY <1>1 DEF IsInjective
  <2>1. CASE a \in 1 .. Len(s) /\ b \in 1 .. Len(s)
    BY <2>1, <1>1 DEF IsInjective
  <2>2. CASE a = Len(s) + 1 \/ b = Len(s) + 1
    BY <2>2, <1>1, <1>2
  <2> QED BY <2>1, <2>2, <1>1
<1>4. Range(t) = Range(s) \cup {r}
  <2>1. \A x : x \in Range(t) <=> \E k \in 1 .. Len(s) + 1 : t[k] = x
    BY <1>1 DEF Range
  <2>2. \A x : x \in Range(s) <=> \E k \in 1 .. Len(s) : s[k] = x
    BY <1>1 DEF Range
  <2>3. \A k \in 1 .. Len(s) + 1 : k \in 1 .. Len(s) \/ k = Len(s) + 1
    BY <1>1
  <2>4. 1 .. Len(s) \subseteq 1 .. Len(s) + 1 /\ Len(s) + 1 \in 1 .. Len(s) + 1
    BY <1>1
  <2>5. \A x : x \in Range(t) => x \in Range(s) \cup {r}
    BY <2>1, <2>2, <2>3, <1>1
  <2>6. \A x : x \in Range(s) \cup {r} => x \in Range(t)
    BY <2>1, <2>2, <2>4, <1>1
  <2> QED BY <2>5, <2>6
<1>5. Range(s) # {} => 1 \in 1 .. Len(s)
  BY <1>1 DEF Range
<1> QED BY <1>1, <1>3, <1>4, <1>5 DEF t

\* When the head goes, the others stay.
LEMMA LockShrinks ==
    ASSUME NEW R, NEW s \in Seq(R), IsInjective(s), Range(s) # {}
    PROVE  /\ Tail(s) \in Seq(R) /\ IsInjective(Tail(s))
           /\ Range(Tail(s)) = Range(s) \ {s[1]}
<1> DEFINE t == Tail(s)
<1>0. s # <<>>
  BY DEF Range
<1>1. /\ Len(s) \in Nat \ {0} /\ DOMAIN s = 1 .. Len(s) /\ DOMAIN t = 1 .. Len(s) - 1
      /\ t \in Seq(R) /\ \A k \in 1 .. Len(s) - 1 : t[k] = s[k + 1]
  BY <1>0
<1> HIDE DEF t
<1>2. IsInjective(t)
  <2> SUFFICES ASSUME NEW a \in 1 .. Len(s) - 1, NEW b \in 1 .. Len(s) - 1, t[a] = t[b]
               PROVE  a = b
    BY <1>1 DEF IsInjective
  <2>1. a + 1 \in 1 .. Len(s) /\ b + 1 \in 1 .. Len(s) /\ s[a + 1] = s[b + 1]
    BY <1>1
  <2>2. a + 1 = b + 1
    BY <2>1, <1>1 DEF IsInjective
  <2> QED BY <2>2
<1>3. \A x : x \in Range(t) <=> \E k \in 1 .. Len(s) - 1 : s[k + 1] = x
  BY <1>1 DEF Range
<1>4. \A x : x \in Range(s) <=> \E k \in 1 .. Len(s) : s[k] = x
  BY <1>1 DEF Range
<1>5. \A x \in Range(t) : x \in Range(s) /\ x # s[1]
  <2> TAKE x \in Range(t)
  <2>1. PICK k \in 1 .. Len(s) - 1 : s[k + 1] = x
    BY <1>3
  <2>2. k + 1 \in 1 .. Len(s) /\ 1 \in 1 .. Len(s) /\ k + 1 # 1
    BY <1>1
  <2> QED BY <2>1, <2>2, <1>1, <1>4 DEF IsInjective
<1>6. \A x \in Range(s) : x # s[1] => x \in Range(t)
  <2> TAKE x \in Range(s)
  <2>1. PICK k \in 1 .. Len(s) : s[k] = x
    BY <1>4
  <2>2. CASE k # 1
    <3> DEFINE j == k - 1
    <3>1. j \in 1 .. Len(s) - 1 /\ j + 1 = k
      BY <2>2, <1>1
    <3> HIDE DEF j
    <3> QED BY <3>1, <2>1, <1>3
  <2> QED BY <2>1, <2>2
<1> QED BY <1>1, <1>2, <1>5, <1>6 DEF t

-----------------------------------------------------------------------------
(* What the node counts                                                     *)

MinedOf(key)  == {b \in DOMAIN blocks : blocks[b].tx # NoTx /\ blocks[b].tx.key = key}
PooledOf(key) == {tx \in pool : tx.key = key}

\* Counts are numbers.
LEMMA CountTypes ==
    ASSUME ChainInv, NEW key
    PROVE  /\ IsFiniteSet(MinedOf(key)) /\ IsFiniteSet(PooledOf(key))
           /\ MinedCount(key) = Cardinality(MinedOf(key)) /\ MinedCount(key) \in Nat
           /\ Cardinality(PooledOf(key)) \in Nat
           /\ PendingCount(key) = MinedCount(key) + Cardinality(PooledOf(key))
           /\ PendingCount(key) \in Nat
<1>1. DOMAIN blocks = 1 .. Len(blocks) /\ Len(blocks) \in Nat
  BY DEF ChainInv
<1>2. IsFiniteSet(1 .. Len(blocks))
  BY <1>1, FS_Interval
<1>3. IsFiniteSet(MinedOf(key))
  BY <1>1, <1>2, FS_Subset DEF MinedOf
<1>4. IsFiniteSet(PooledOf(key))
  BY FS_Subset DEF PooledOf, ChainInv
<1>5. MinedCount(key) = Cardinality(MinedOf(key)) /\ MinedCount(key) \in Nat
  BY <1>3, FS_CardinalityType DEF MinedCount, MinedOf
<1>6. Cardinality(PooledOf(key)) \in Nat
  BY <1>4, FS_CardinalityType
<1> QED BY <1>3, <1>4, <1>5, <1>6 DEF PendingCount, PooledOf

\* The count of the operator's wallet is a number, before and after a step.
Counted == PendingCount(Admin) \in Nat
LEMMA AdminCount == ChainInv => Counted
BY CountTypes DEF Counted
LEMMA NextAdminCount == ChainInv' => Counted'
BY AdminCount, PTL

\* A block with no transaction of a key changes no count of it.
LEMMA NotMined ==
    ASSUME ChainInv, NEW key, NEW block, blocks' = Append(blocks, block),
           block.tx = NoTx \/ block.tx.key # key
    PROVE  MinedCount(key)' = MinedCount(key)
<1>1. MinedOf(key)' = MinedOf(key)
  <2> DEFINE n == Len(blocks) + 1
  <2>1. /\ DOMAIN blocks = 1 .. Len(blocks) /\ Len(blocks) \in Nat
        /\ DOMAIN blocks' = 1 .. n
        /\ \A k \in 1 .. Len(blocks) : blocks'[k] = blocks[k]
        /\ blocks'[n] = block
    BY GrownSeq DEF ChainInv
  <2>2. \A k \in 1 .. n : k \in 1 .. Len(blocks) \/ k = n
    BY <2>1
  <2>3. 1 .. Len(blocks) \subseteq 1 .. n
    BY <2>1
  <2> HIDE DEF n
  <2> QED BY <2>1, <2>2, <2>3 DEF MinedOf
<1> QED BY <1>1 DEF MinedCount, MinedOf

\* A block with a transaction of a key counts one more.
LEMMA OneMined ==
    ASSUME ChainInv, NEW block, blocks' = Append(blocks, block), block.tx # NoTx
    PROVE  MinedCount(block.tx.key)' = MinedCount(block.tx.key) + 1
<1> DEFINE n == Len(blocks) + 1
           key == block.tx.key
<1>1. /\ DOMAIN blocks = 1 .. Len(blocks) /\ Len(blocks) \in Nat
      /\ DOMAIN blocks' = 1 .. n
      /\ \A k \in 1 .. Len(blocks) : blocks'[k] = blocks[k]
      /\ blocks'[n] = block
  BY GrownSeq DEF ChainInv
<1>2. \A k \in 1 .. n : k \in 1 .. Len(blocks) \/ k = n
  BY <1>1
<1>3. 1 .. Len(blocks) \subseteq 1 .. n /\ n \in 1 .. n /\ n \notin 1 .. Len(blocks)
  BY <1>1
<1> HIDE DEF n
<1>4. MinedOf(key)' = MinedOf(key) \cup {n} /\ n \notin MinedOf(key)
  BY <1>1, <1>2, <1>3 DEF MinedOf
<1>5. IsFiniteSet(MinedOf(key)) /\ MinedCount(key) = Cardinality(MinedOf(key))
  BY CountTypes
<1>6. Cardinality(MinedOf(key) \cup {n}) = Cardinality(MinedOf(key)) + 1
  BY <1>4, <1>5, FS_AddElement
<1>7. MinedCount(key)' = Cardinality(MinedOf(key)')
  BY DEF MinedCount, MinedOf
<1> QED BY <1>4, <1>5, <1>6, <1>7

\* A transaction that enters the pool counts for its key.
LEMMA Entered ==
    ASSUME ChainInv, NEW tx, tx \notin pool, tx # NoTx, pool' = pool \cup {tx},
           UNCHANGED <<blocks, projected>>
    PROVE  /\ ChainInv'
           /\ PendingCount(tx.key)' = PendingCount(tx.key) + 1
           /\ \A key : key # tx.key => PendingCount(key)' = PendingCount(key)
<1>1. ChainInv'
  BY FS_AddElement DEF ChainInv
<1>2. \A key : MinedCount(key)' = MinedCount(key)
  BY DEF MinedCount
<1>3. \A key : PendingCount(key)' = MinedCount(key) + Cardinality(PooledOf(key)')
  BY <1>2 DEF PendingCount, PooledOf
<1>4. \A key : key # tx.key => PooledOf(key)' = PooledOf(key)
  BY DEF PooledOf
<1>5. PooledOf(tx.key)' = PooledOf(tx.key) \cup {tx} /\ tx \notin PooledOf(tx.key)
  BY DEF PooledOf
<1>6. Cardinality(PooledOf(tx.key) \cup {tx}) = Cardinality(PooledOf(tx.key)) + 1
  BY <1>5, CountTypes, FS_AddElement
<1>7. PendingCount(tx.key)' = PendingCount(tx.key) + 1
  <2> DEFINE key == tx.key
  <2>1. PendingCount(key)' = MinedCount(key) + Cardinality(PooledOf(key)')
    BY <1>3
  <2>2. /\ MinedCount(key) \in Nat /\ Cardinality(PooledOf(key)) \in Nat
        /\ PendingCount(key) = MinedCount(key) + Cardinality(PooledOf(key))
    BY CountTypes
  <2>3. Cardinality(PooledOf(key)') = Cardinality(PooledOf(key)) + 1
    BY <1>5, <1>6
  <2> HIDE DEF key
  <2>4. PendingCount(key)' = PendingCount(key) + 1
    BY <2>1, <2>2, <2>3
  <2> QED BY <2>4 DEF key
<1>8. \A key : PendingCount(key) = MinedCount(key) + Cardinality(PooledOf(key))
  BY DEF PendingCount, PooledOf
<1> QED BY <1>1, <1>3, <1>4, <1>7, <1>8

\* Mining moves a transaction from the pool to the chain: it counts as before.
LEMMA MovedToChain ==
    ASSUME ChainInv, NEW tx \in pool, NEW block, block.tx = tx,
           blocks' = Append(blocks, block), pool' = pool \ {tx}, UNCHANGED projected
    PROVE  ChainInv' /\ \A key : PendingCount(key)' = PendingCount(key)
<1>1. ChainInv'
  BY FS_RemoveElement, GrownSeq DEF ChainInv
<1>2. tx # NoTx
  BY DEF ChainInv
<1>3. \A key : PendingCount(key)' = MinedCount(key)' + Cardinality(PooledOf(key)')
  BY DEF PendingCount, PooledOf
<1>4. SUFFICES ASSUME NEW key PROVE PendingCount(key)' = PendingCount(key)
  BY <1>1
<1>5. CASE key # tx.key
  <2>1. MinedCount(key)' = MinedCount(key)
    BY <1>5, NotMined
  <2>2. PooledOf(key)' = PooledOf(key)
    BY <1>5 DEF PooledOf
  <2> QED BY <2>1, <2>2, <1>3, CountTypes
<1>6. CASE key = tx.key
  <2>1. MinedCount(key)' = MinedCount(key) + 1
    BY <1>6, <1>2, OneMined
  <2>2. PooledOf(key)' = PooledOf(key) \ {tx} /\ tx \in PooledOf(key)
    BY <1>6 DEF PooledOf
  <2>3. Cardinality(PooledOf(key) \ {tx}) = Cardinality(PooledOf(key)) - 1
    BY <2>2, CountTypes, FS_RemoveElement
  <2>4. /\ MinedCount(key) \in Nat /\ Cardinality(PooledOf(key)) \in Nat
        /\ PendingCount(key) = MinedCount(key) + Cardinality(PooledOf(key))
    BY CountTypes
  <2>5. PendingCount(key)' = MinedCount(key)' + Cardinality(PooledOf(key)')
    BY <1>3
  <2> QED BY <2>1, <2>2, <2>3, <2>4, <2>5
<1> QED BY <1>5, <1>6

-----------------------------------------------------------------------------
(* One request takes a step                                                 *)

\* Request r goes on to a step, with this answer, nonce and key; no other changes.
Goes(r, step, answer, nonce, key) ==
    /\ requests' = [q \in Requests |-> Fields(requests'[q])]
    /\ \A q \in Requests \ {r} : requests'[q] = requests[q]
    /\ requests'[r].op = requests[r].op
    /\ requests'[r].step = step /\ requests'[r].answer = answer
    /\ requests'[r].nonce = nonce /\ requests'[r].key = key

\* A record with the fields of a request, and these values in those that matter here
Like(q, op, step, answer, nonce, key) ==
    /\ q = Fields(q)
    /\ q.op = op /\ q.step = step /\ q.answer = answer /\ q.nonce = nonce /\ q.key = key

\* A request replaced by such a record
LEMMA Replaced ==
    ASSUME RequestInv, NEW r \in Requests, NEW step, NEW answer, NEW nonce, NEW key, NEW q,
           Like(q, requests[r].op, step, answer, nonce, key),
           requests' = [requests EXCEPT ![r] = q]
    PROVE  Goes(r, step, answer, nonce, key)
<1>1. /\ DOMAIN requests' = Requests /\ requests'[r] = q
      /\ \A x \in Requests \ {r} : requests'[x] = requests[x]
  BY DEF RequestInv, Requests
<1>2. \A x \in Requests : requests[x] = Fields(requests[x])
  BY DEF RequestInv
<1>3. \A x \in Requests : requests'[x] = Fields(requests'[x])
  BY <1>1, <1>2 DEF Like
<1>4. requests' = [x \in Requests |-> requests'[x]]
  BY <1>1
<1>5. requests' = [x \in Requests |-> Fields(requests'[x])]
  BY <1>3, <1>4
<1> QED BY <1>1, <1>5 DEF Goes, Like

\* What setting a field makes of a request
LEMMA FieldSet ==
    ASSUME NEW q, NEW op, NEW step, NEW answer, NEW nonce, NEW key,
           Like(q, op, step, answer, nonce, key), NEW x
    PROVE  /\ Like([q EXCEPT !.step = x], op, x, answer, nonce, key)
           /\ Like([q EXCEPT !.answer = x], op, step, x, nonce, key)
           /\ Like([q EXCEPT !.nonce = x], op, step, answer, x, key)
           /\ Like([q EXCEPT !.key = x], op, step, answer, nonce, x)
           /\ Like([q EXCEPT !.read = x], op, step, answer, nonce, key)
           /\ Like([q EXCEPT !.seen = x], op, step, answer, nonce, key)
           /\ Like([q EXCEPT !.call = x], op, step, answer, nonce, key)
           /\ Like([q EXCEPT !.tbd = x], op, step, answer, nonce, key)
           /\ Like([q EXCEPT !.forced = x], op, step, answer, nonce, key)
           /\ Like([q EXCEPT !.block = x], op, step, answer, nonce, key)
<1> DEFINE F == Fields(q)
<1>1. q = F
  BY DEF Like
<1>2. F.op = op /\ F.step = step /\ F.answer = answer /\ F.nonce = nonce /\ F.key = key
  BY DEF Like, Fields
<1>3. Like([F EXCEPT !.step = x], op, x, answer, nonce, key)
  BY <1>2 DEF Like, Fields
<1>4. Like([F EXCEPT !.answer = x], op, step, x, nonce, key)
  BY <1>2 DEF Like, Fields
<1>5. Like([F EXCEPT !.nonce = x], op, step, answer, x, key)
  BY <1>2 DEF Like, Fields
<1>6. Like([F EXCEPT !.key = x], op, step, answer, nonce, x)
  BY <1>2 DEF Like, Fields
<1>7. /\ Like([F EXCEPT !.read = x], op, step, answer, nonce, key)
      /\ Like([F EXCEPT !.seen = x], op, step, answer, nonce, key)
      /\ Like([F EXCEPT !.call = x], op, step, answer, nonce, key)
  BY <1>2 DEF Like, Fields
<1>8. /\ Like([F EXCEPT !.tbd = x], op, step, answer, nonce, key)
      /\ Like([F EXCEPT !.forced = x], op, step, answer, nonce, key)
      /\ Like([F EXCEPT !.block = x], op, step, answer, nonce, key)
  BY <1>2 DEF Like, Fields
<1> HIDE DEF F
<1> QED BY <1>1, <1>3, <1>4, <1>5, <1>6, <1>7, <1>8

\* A request is like itself.
LEMMA LikeItself ==
    ASSUME RequestInv, NEW r \in Requests
    PROVE  Like(requests[r], requests[r].op, requests[r].step, requests[r].answer,
                requests[r].nonce, requests[r].key)
BY DEF RequestInv, Like

\* A request goes on with its step alone,
LEMMA StepGoes ==
    ASSUME RequestInv, NEW r \in Requests, NEW step, Step(r, step)
    PROVE  Goes(r, step, requests[r].answer, requests[r].nonce, requests[r].key)
<1> DEFINE q == requests[r]
           p == [q EXCEPT !.step = step]
<1>1. requests' = [requests EXCEPT ![r] = p]
  BY DEF Step, RequestInv
<1>2. Like(p, q.op, step, q.answer, q.nonce, q.key)
  BY LikeItself, FieldSet
<1> HIDE DEF p
<1> QED BY <1>1, <1>2, Replaced

\* or is answered.
LEMMA AnswerGoes ==
    ASSUME RequestInv, NEW r \in Requests, NEW code, Answer(r, code)
    PROVE  Goes(r, "answered", code, requests[r].nonce, requests[r].key)
<1> DEFINE q == requests[r]
           p1 == [q EXCEPT !.step = "answered"]
           p  == [p1 EXCEPT !.answer = code]
<1>1. requests' = [requests EXCEPT ![r] = p]
  BY DEF Answer, RequestInv
<1>2. Like(p1, q.op, "answered", q.answer, q.nonce, q.key)
  BY LikeItself, FieldSet
<1> HIDE DEF p1
<1>3. Like(p, q.op, "answered", code, q.nonce, q.key)
  BY <1>2, FieldSet
<1> HIDE DEF p
<1> QED BY <1>1, <1>3, Replaced

\* The requests stay well formed when one of them goes on soundly.
LEMMA RequestKept ==
    ASSUME RequestInv, NEW r \in Requests, NEW step, NEW answer, NEW nonce, NEW key,
           Goes(r, step, answer, nonce, key), Sound(requests[r].op, step, answer, nonce, key),
           trail' \in [Requests -> Seq(Statuses)]
    PROVE  RequestInv' /\ Requests' = Requests
<1>1. Requests' = Requests
  BY DEF Goes, Requests
<1>2. \A q \in Requests : Known(requests'[q].op) /\ SoundRequest(requests'[q])
  BY DEF Goes, RequestInv, SoundRequest
<1>3. requests' = [q \in Requests |-> Fields(requests'[q])]
  BY DEF Goes
<1> QED BY <1>1, <1>2, <1>3 DEF RequestInv

\* The records stay sequences of statuses.
LEMMA RecordType ==
    ASSUME RequestInv, NEW r \in Requests, NEW status \in Statuses, Record(r, status)
    PROVE  trail' \in [Requests -> Seq(Statuses)]
BY DEF RequestInv, Record

\* A step of a request that does not touch the lock: it is not managed, or neither waits
\* for the lock nor holds it.
LEMMA FreeStep ==
    ASSUME IInv, NEW r \in Requests, NEW step, NEW answer, NEW nonce, NEW key,
           Goes(r, step, answer, nonce, key), Sound(requests[r].op, step, answer, nonce, key),
           trail' \in [Requests -> Seq(Statuses)],
           requests[r].op.kind \in Managed => requests[r].step \notin Sending /\ step \notin Sending,
           UNCHANGED OfNonce, PendingCount(Admin)' = PendingCount(Admin), ChainInv', RowInv'
    PROVE  IInv'
<1>1. RequestInv' /\ Requests' = Requests
  BY RequestKept DEF IInv
<1>2. \A q \in Requests : requests'[q].op = requests[q].op
  BY DEF Goes
<1>3. \A q \in Requests : requests[q].op.kind \in Managed =>
          (requests'[q].step \in Sending <=> requests[q].step \in Sending)
  BY DEF Goes
<1>4. LockInv'
  BY <1>1, <1>2, <1>3 DEF LockInv, IInv, OfNonce
<1>5. \A q \in Requests : \A s \in Sending : Managing(q, s)' =>
          Managing(q, s) /\ requests'[q] = requests[q]
  BY <1>1, <1>2 DEF Managing, Goes
<1>6. \A q \in Requests : \A s \in Sending : Managing(q, s) => Managing(q, s)'
  BY <1>1, <1>2 DEF Managing, Goes
<1>7. NonceInv'
  <2> USE DEF OfNonce, Sending
  <2>1. \A q \in Requests' : Managing(q, "prepared")' =>
            lock'[1] = q /\ requests'[q].nonce = PendingCount(Admin)'
    BY <1>1, <1>5 DEF IInv, NonceInv
  <2>2. \A q \in Requests' : Managing(q, "sent")' =>
            lock'[1] = q /\ requests'[q].nonce \in Nat /\ requests'[q].nonce + 1 = PendingCount(Admin)'
    BY <1>1, <1>5 DEF IInv, NonceInv
  <2>3. cachedNonce' \in Nat \cup {NoNonce}
    BY DEF IInv, NonceInv
  <2>4. \/ cachedNonce' \in {NoNonce, PendingCount(Admin)'}
        \/ \E q \in Requests' : Managing(q, "sent")'
    BY <1>1, <1>6 DEF IInv, NonceInv
  <2> QED BY <2>1, <2>2, <2>3, <2>4 DEF NonceInv
<1> QED BY <1>1, <1>4, <1>7 DEF IInv

\* The head of the lock releases it, and leaves no nonce or the node's next one.
LEMMA ReleaseStep ==
    ASSUME IInv, NEW r \in Requests, NEW step, NEW answer, NEW nonce, NEW key,
           Goes(r, step, answer, nonce, key), Sound(requests[r].op, step, answer, nonce, key),
           trail' \in [Requests -> Seq(Statuses)],
           requests[r].op.kind \in Managed, requests[r].step \in Sending, step \notin Sending,
           lock[1] = r, lock' = Tail(lock), cachedNonce' \in {NoNonce, PendingCount(Admin)'},
           ChainInv', RowInv'
    PROVE  IInv'
<1>1. RequestInv' /\ Requests' = Requests
  BY RequestKept DEF IInv
<1>2. r \in Range(lock)
  BY DEF IInv, LockInv
<1>3. /\ lock' \in Seq(Requests) /\ IsInjective(lock') /\ Range(lock') = Range(lock) \ {r}
  BY <1>2, LockShrinks DEF IInv, LockInv
<1>4. \A q \in Requests : requests'[q].op = requests[q].op
  BY DEF Goes
<1>5. \A q \in Requests : q \in Range(lock') <=>
          requests'[q].op.kind \in Managed /\ requests'[q].step \in Sending
  BY <1>2, <1>3, <1>4 DEF Goes, IInv, LockInv
<1>6. LockInv'
  BY <1>1, <1>3, <1>5 DEF LockInv
<1>7. \A q \in Requests : ~Managing(q, "prepared")' /\ ~Managing(q, "sent")'
  BY <1>1, <1>4 DEF Managing, Goes, IInv, NonceInv, Sending
<1>8. PendingCount(Admin)' \in Nat
  BY NextAdminCount DEF Counted
<1>9. NonceInv'
  BY <1>1, <1>7, <1>8 DEF NonceInv
<1> QED BY <1>1, <1>6, <1>9 DEF IInv

-----------------------------------------------------------------------------
(* Plans                                                                    *)

\* What a request of each kind sends first
FirstCall(kind) ==
    CASE kind = "BOND_CREATE"      -> "deployBond"
      [] kind = "BOND_DISABLE"     -> "disableBond"
      [] kind = "AUCTION_CREATE"   -> "deployAuction"
      [] kind = "AUCTION_CANCEL"   -> "cancelAuction"
      [] kind = "AUCTION_CLOSE"    -> "closeAuction"
      [] kind = "AUCTION_FINALISE" -> "finaliseAuction"
      [] kind = "COUPON_PAYMENT"   -> "payCoupon"
      [] kind = "BID_SUBMISSION"   -> "submitBid"
      [] kind = "BANK_CREATE"      -> "deployTbd"
      [] kind \in DOMAIN Wnok      -> Wnok[kind]
      [] kind \in DOMAIN TbdCalls  -> TbdCalls[kind]

LEMMA KindDomains ==
    /\ DOMAIN Wnok = {"WNOK_MINT", "WNOK_BURN", "WNOK_TRANSFER", "WNOK_ALLOWLIST_ADD",
                      "WNOK_ALLOWLIST_REMOVE"}
    /\ DOMAIN TbdCalls = {"TBD_MINT", "TBD_BURN", "TBD_TRANSFER", "TBD_ALLOWLIST_ADD",
                          "TBD_ALLOWLIST_REMOVE"}
BY DEF Wnok, TbdCalls

\* A refusal is an error, and what is sent for a managed operation is signed by the
\* operator, and only that.
Errors == {400, 404, 409, 500}
ByOperator(plan, fn) ==
    plan.answer \in Errors \/ (plan.answer = 0 /\ plan.key = Admin /\ plan.call.fn = fn)
ByOther(plan, fn) ==
    plan.answer \in Errors \/ (plan.answer = 0 /\ plan.key # Admin /\ plan.call.fn = fn)

LEMMA RefusalIsPlan ==
    ASSUME NEW fn
    PROVE  /\ \A code \in Errors : ByOperator(Refuse(code), fn) /\ ByOperator(FailWith(code), fn)
           /\ \A code \in Errors : ByOther(Refuse(code), fn) /\ ByOther(FailWith(code), fn)
           /\ {400, 404, 409, 500} = Errors
BY DEF ByOperator, ByOther, Refuse, FailWith, Errors

LEMMA OperatorSigns ==
    ASSUME NEW call
    PROVE  ByOperator(Go(Admin, call), call.fn)
BY DEF ByOperator, ByOther, Go

LEMMA OtherSigns ==
    ASSUME NEW key, key # Admin, NEW call
    PROVE  ByOther(Go(key, call), call.fn)
BY DEF ByOperator, ByOther, Go

\* The key of a bank found by name is one of the roster.
LEMMA RosterKeys ==
    ASSUME NEW c, \A b \in c.banks : b.key # Admin
    PROVE  \A b \in Roster(c) : b.key # Admin
<1> SUFFICES ASSUME NEW b \in Roster(c) PROVE b.key # Admin
  OBVIOUS
<1>1. CASE b \in FixtureBanks
  BY <1>1, KeysAssumption
<1>2. CASE \E x \in c.banks : b = [name |-> x.name, key |-> x.key]
  BY <1>2
<1> QED BY <1>1, <1>2 DEF Roster

LEMMA ChoiceIsMember ==
    ASSUME NEW S, S # {}
    PROVE  (CHOOSE x \in S : TRUE) \in S
OBVIOUS

LEMMA TbdPlanned ==
    ASSUME NEW c, NEW op, \A b \in c.banks : b.key # Admin
    PROVE  ByOther(PlanTbd(c, op), TbdCalls[op.kind])
<1> DEFINE banks == {b \in Roster(c) : c.head.registry[b.name] = op.tbd}
           bank  == CHOOSE b \in banks : TRUE
           ends  == Ends(op.kind, bank.key, op.who)
           call  == [fn |-> TbdCalls[op.kind], tbd |-> op.tbd, who |-> op.who,
                     from |-> ends.from, to |-> ends.to]
<1>1. banks # {} => bank \in banks
  BY ChoiceIsMember, Zenon
<1>2. banks # {} => bank.key # Admin
  <2>1. \A b \in banks : b.key # Admin
    BY RosterKeys
  <2> HIDE DEF bank, banks
  <2> QED BY <1>1, <2>1
<1>3. PlanTbd(c, op) = IF banks = {} THEN FailWith(404) ELSE Go(bank.key, call)
  BY Zenon DEF PlanTbd
<1>0. call.fn = TbdCalls[op.kind]
  OBVIOUS
<1> HIDE DEF banks, bank, call
<1>4. CASE banks = {}
  BY <1>3, <1>4, RefusalIsPlan
<1>5. CASE banks # {}
  BY <1>0, <1>2, <1>3, <1>5, OtherSigns
<1> QED BY <1>4, <1>5

LEMMA AuctionPlanned ==
    ASSUME NEW c, NEW op, op.kind \in AuctionRoutes
    PROVE  ByOperator(PlanOfAuction(c, op), FirstCall(op.kind))
<1>1. ByOperator(PlanCancel(c, op), "cancelAuction")
  <2> DEFINE call == [fn |-> "cancelAuction"]
  <2>1. ByOperator(Go(Admin, call), "cancelAuction")
    BY OperatorSigns
  <2>2. PlanCancel(c, op) \in {Refuse(404), Refuse(409), Go(Admin, call)}
    BY DEF PlanCancel
  <2> HIDE DEF call
  <2> QED BY <2>1, <2>2, RefusalIsPlan
<1>2. ByOperator(PlanClose(c, op), "closeAuction")
  <2> DEFINE call == [fn |-> "closeAuction"]
  <2>1. ByOperator(Go(Admin, call), "closeAuction")
    BY OperatorSigns
  <2>2. PlanClose(c, op) \in {Refuse(404), Refuse(409), Go(Admin, call)}
    BY DEF PlanClose
  <2> HIDE DEF call
  <2> QED BY <2>1, <2>2, RefusalIsPlan
<1>3. ByOperator(PlanFinalise(c, op), "finaliseAuction")
  <2> DEFINE auction == c.seen.auctions[op.auction]
             sealed  == UnsealedBids(Last(c.head.auctions), c.sealing)
             picked  == SelectSeq(sealed, LAMBDA b : b.index \in op.winners)
             result  == ComputeAllocation(picked, auction.type, auction.size)
             call    == [fn |-> "finaliseAuction", auction |-> Len(c.head.auctions),
                         type |-> auction.type, allocations |-> result.allocations]
  <2>1. PlanFinalise(c, op) =
            IF op.auction \notin DOMAIN c.seen.auctions THEN Refuse(404)
            ELSE IF auction.status # "CLOSED" THEN Refuse(409)
            ELSE IF ~Opens(Last(c.head.auctions), c.sealing) THEN Refuse(500)
            ELSE IF ~(op.winners \subseteq DOMAIN sealed) THEN Refuse(400)
            ELSE IF picked = <<>> THEN Refuse(500)
            ELSE IF result.clearingRate # op.rate THEN Refuse(400)
            ELSE Go(Admin, call)
    BY Zenon DEF PlanFinalise
  <2>0. ByOperator(Go(Admin, call), "finaliseAuction")
    BY OperatorSigns
  <2> HIDE DEF auction, sealed, picked, result, call
  <2>2. PlanFinalise(c, op) \in {Refuse(400), Refuse(404), Refuse(409), Refuse(500), Go(Admin, call)}
    BY <2>1
  <2> QED BY <2>0, <2>2, RefusalIsPlan
<1>4. /\ op.kind = "AUCTION_CANCEL" => FirstCall(op.kind) = "cancelAuction"
      /\ op.kind = "AUCTION_CLOSE" => FirstCall(op.kind) = "closeAuction"
      /\ op.kind = "AUCTION_FINALISE" => FirstCall(op.kind) = "finaliseAuction"
  BY KindDomains DEF FirstCall
<1> QED BY <1>1, <1>2, <1>3, <1>4 DEF PlanOfAuction, AuctionRoutes

\* What every handler makes of its reads
LEMMA EveryPlan ==
    ASSUME NEW c, c.bidders \subseteq Wallets, \A b \in c.banks : b.key # Admin,
           NEW op, Known(op), op.kind \notin {"BIDDER_CREATE", "BIDDER_DELETE"}
    PROVE  IF op.kind \in Managed THEN ByOperator(Plan(c, op), FirstCall(op.kind))
           ELSE ByOther(Plan(c, op), FirstCall(op.kind))
<1> USE KindDomains DEF Managed, AuctionRoutes
<1>1. CASE op.kind = "BOND_CREATE"
  <2>1. ByOperator(Go(Admin, [fn |-> "deployBond"]), "deployBond")
    BY OperatorSigns
  <2>2. Plan(c, op) = Go(Admin, [fn |-> "deployBond"]) /\ FirstCall(op.kind) = "deployBond"
    BY <1>1 DEF Plan, FirstCall
  <2> QED BY <1>1, <2>1, <2>2
<1>10. CASE op.kind = "BOND_DISABLE"
  <2>1. ByOperator(Go(Admin, [fn |-> "disableBond"]), "disableBond")
    BY OperatorSigns
  <2>2. Plan(c, op) = Go(Admin, [fn |-> "disableBond"]) /\ FirstCall(op.kind) = "disableBond"
    BY <1>10 DEF Plan, FirstCall
  <2> QED BY <1>10, <2>1, <2>2
<1>2. CASE op.kind = "AUCTION_CREATE"
  <2> DEFINE call == [fn |-> "deployAuction", type |-> op.type, size |-> op.size, end |-> op.end,
                      key |-> c.sealing, fresh |-> op.type = "RATE" /\ ~c.head.active]
  <2>1. ByOperator(Go(Admin, call), "deployAuction")
    BY OperatorSigns
  <2>2. PlanAuctionCreate(c, op) = Refuse(400) \/ PlanAuctionCreate(c, op) = Go(Admin, call)
    BY Zenon DEF PlanAuctionCreate
  <2>3. Plan(c, op) = PlanAuctionCreate(c, op) /\ FirstCall(op.kind) = "deployAuction"
    BY <1>2 DEF Plan, FirstCall
  <2> HIDE DEF call
  <2>4. ByOperator(PlanAuctionCreate(c, op), "deployAuction")
    BY <2>1, <2>2, RefusalIsPlan
  <2> QED BY <1>2, <2>3, <2>4
<1>3. CASE op.kind \in AuctionRoutes
  <2>1. Plan(c, op) = PlanOfAuction(c, op)
    BY <1>3 DEF Plan
  <2> QED BY <1>3, <2>1, AuctionPlanned
<1>4. CASE op.kind = "COUPON_PAYMENT"
  <2>1. ByOperator(PlanCoupon(c, op), "payCoupon")
    <3> DEFINE holders == IF op.holders = {} THEN ActiveHolders(c) ELSE op.holders
               call == [fn |-> "payCoupon", holders |-> holders]
    <3>1. PlanCoupon(c, op) \in {Refuse(404), Go(Admin, call)}
      BY DEF PlanCoupon
    <3>2. ByOperator(Go(Admin, call), "payCoupon")
      BY OperatorSigns
    <3> HIDE DEF call
    <3> QED BY <3>1, <3>2, RefusalIsPlan
  <2>2. Plan(c, op) = PlanCoupon(c, op) /\ FirstCall(op.kind) = "payCoupon"
    BY <1>4 DEF Plan, FirstCall
  <2> QED BY <1>4, <2>1, <2>2
<1>5. CASE op.kind = "BID_SUBMISSION"
  <2>1. op.bidder \in c.bidders => op.bidder # Admin
    BY KeysAssumption
  <2>2. ByOther(PlanBid(c, op), "submitBid")
    <3> DEFINE auction == c.head.auctions[op.auction]
               call == [fn |-> "submitBid", auction |-> op.auction,
                        bid |-> BuildSealedBid(op.bidder, Isin, op.auction, op.rate, op.units, auction.key)]
    <3>1. CASE op.bidder \in c.bidders
      <4>1. ByOther(Go(op.bidder, call), "submitBid")
        BY <3>1, <2>1, OtherSigns
      <4>2. PlanBid(c, op) \in {FailWith(404), FailWith(409), Go(op.bidder, call)}
        BY <3>1 DEF PlanBid
      <4> HIDE DEF call
      <4> QED BY <4>1, <4>2, RefusalIsPlan
    <3>2. CASE op.bidder \notin c.bidders
      BY <3>2, RefusalIsPlan DEF PlanBid
    <3> QED BY <3>1, <3>2
  <2>3. Plan(c, op) = PlanBid(c, op) /\ FirstCall(op.kind) = "submitBid"
    BY <1>5 DEF Plan, FirstCall
  <2> QED BY <1>5, <2>2, <2>3
<1>6. CASE op.kind = "BANK_CREATE"
  <2> DEFINE call == [fn |-> "deployTbd"]
  <2>1. ByOther(Go(op.key, call), "deployTbd")
    BY <1>6, OtherSigns DEF Known
  <2>3. PlanBankCreate(c, op) \in {FailWith(409), Go(op.key, call)}
    BY DEF PlanBankCreate
  <2> HIDE DEF call
  <2>4. ByOther(PlanBankCreate(c, op), "deployTbd")
    BY <2>1, <2>3, RefusalIsPlan
  <2>5. Plan(c, op) = PlanBankCreate(c, op) /\ FirstCall(op.kind) = "deployTbd"
    BY <1>6 DEF Plan, FirstCall
  <2> QED BY <1>6, <2>4, <2>5
<1>7. CASE op.kind \in DOMAIN Wnok
  <2> DEFINE ends == Ends(op.kind, CentralBank, op.who)
             call == [fn |-> Wnok[op.kind], who |-> op.who, from |-> ends.from, to |-> ends.to]
  <2>1. CentralBank # Admin
    BY KeysAssumption DEF Wallets
  <2>2. ByOther(Go(CentralBank, call), Wnok[op.kind])
    <3>1. call.fn = Wnok[op.kind]
      OBVIOUS
    <3> HIDE DEF call
    <3> QED BY <2>1, <3>1, OtherSigns
  <2>3. op.kind \notin Managed
    BY <1>7
  <2>4. Plan(c, op) = PlanWnok(c, op) /\ FirstCall(op.kind) = Wnok[op.kind]
    BY <1>7 DEF Plan, FirstCall
  <2>5. PlanWnok(c, op) = Go(CentralBank, call)
    BY Zenon DEF PlanWnok
  <2> HIDE DEF call
  <2> QED BY <2>2, <2>3, <2>4, <2>5
<1>8. CASE op.kind \in DOMAIN TbdCalls
  <2>1. ByOther(PlanTbd(c, op), TbdCalls[op.kind])
    BY TbdPlanned
  <2>2. op.kind \notin Managed
    BY <1>8
  <2>3. Plan(c, op) = PlanTbd(c, op) /\ FirstCall(op.kind) = TbdCalls[op.kind]
    BY <1>8 DEF Plan, FirstCall
  <2> QED BY <2>1, <2>2, <2>3
<1>9. op.kind \in Kinds
  BY DEF Known
<1> QED BY <1>1, <1>2, <1>3, <1>4, <1>5, <1>6, <1>7, <1>8, <1>9, <1>10 DEF Kinds

-----------------------------------------------------------------------------
(* Requests                                                                 *)

\* While neither chain nor pool changes, nor does what the node counts.
LEMMA ChainRests ==
    ASSUME ChainInv, UNCHANGED <<blocks, pool, projected>>
    PROVE  ChainInv' /\ PendingCount(Admin)' = PendingCount(Admin)
BY DEF ChainInv, PendingCount, MinedCount

LEMMA RowsRest ==
    ASSUME RowInv, UNCHANGED <<bankRows, bidderRows>>
    PROVE  RowInv'
BY DEF RowInv

\* A request that fails: if it is managed it is the head of the lock.
LEMMA FailStep ==
    ASSUME IInv, NEW r \in Requests, NEW status \in Statuses, NEW code \in Answers,
           Fail(r, status, code),
           requests[r].op.kind \in Managed => requests[r].step \in Sending /\ lock[1] = r,
           requests[r].op.kind \notin Managed => PendingCount(Admin)' = PendingCount(Admin),
           ChainInv', RowInv'
    PROVE  IInv'
<1>1. Goes(r, "answered", code, requests[r].nonce, requests[r].key)
  BY AnswerGoes DEF Fail, IInv
<1>2. Sound(requests[r].op, "answered", code, requests[r].nonce, requests[r].key)
  BY DEF IInv, RequestInv, SoundRequest, Sound, Steps, Signing
<1>3. trail' \in [Requests -> Seq(Statuses)]
  BY RecordType DEF Fail, IInv
<1>4. "answered" \notin Sending
  BY DEF Sending
<1>5. CASE requests[r].op.kind \in Managed
  <2>1. lock' = Tail(lock) /\ cachedNonce' = NoNonce
    BY <1>5 DEF Fail, ReleaseLock
  <2> QED BY <1>1, <1>2, <1>3, <1>4, <1>5, <2>1, ReleaseStep
<1>6. CASE requests[r].op.kind \notin Managed
  <2>1. UNCHANGED OfNonce
    BY <1>6 DEF Fail, ReleaseLock
  <2> QED BY <1>1, <1>2, <1>3, <1>4, <1>6, <2>1, FreeStep
<1> QED BY <1>5, <1>6

\* A request that is answered at a step at which it neither waits for the lock nor holds
\* it, or that never does.
LEMMA AnswerStep ==
    ASSUME IInv, NEW r \in Requests, NEW code \in Answers, Answer(r, code),
           trail' \in [Requests -> Seq(Statuses)],
           requests[r].op.kind \in Managed => requests[r].step \notin Sending,
           UNCHANGED <<blocks, pool, projected, OfNonce>>, RowInv'
    PROVE  IInv'
<1>1. Goes(r, "answered", code, requests[r].nonce, requests[r].key)
  BY AnswerGoes DEF IInv
<1>2. Sound(requests[r].op, "answered", code, requests[r].nonce, requests[r].key)
  BY DEF IInv, RequestInv, SoundRequest, Sound, Steps, Signing
<1>3. "answered" \notin Sending
  BY DEF Sending
<1>4. ChainInv' /\ PendingCount(Admin)' = PendingCount(Admin)
  BY ChainRests DEF IInv
<1> QED BY <1>1, <1>2, <1>3, <1>4, FreeStep

\* A request goes on with its step alone, and the lock is not concerned.
LEMMA PlainStep ==
    ASSUME IInv, NEW r \in Requests, NEW step \in Steps \ {"answered"}, Step(r, step),
           step \in Signing => requests[r].step \in Signing,
           requests[r].step # "answered",
           UNCHANGED trail,
           requests[r].op.kind \in Managed => requests[r].step \notin Sending /\ step \notin Sending,
           UNCHANGED <<blocks, pool, projected, OfNonce>>, RowInv'
    PROVE  IInv'
<1>1. Goes(r, step, requests[r].answer, requests[r].nonce, requests[r].key)
  BY StepGoes DEF IInv
<1>2. Sound(requests[r].op, step, requests[r].answer, requests[r].nonce, requests[r].key)
  BY DEF IInv, RequestInv, SoundRequest, Sound
<1>3. trail' \in [Requests -> Seq(Statuses)]
  BY DEF IInv, RequestInv
<1>4. ChainInv' /\ PendingCount(Admin)' = PendingCount(Admin)
  BY ChainRests DEF IInv
<1> QED BY <1>1, <1>2, <1>3, <1>4, FreeStep

LEMMA ArriveStep ==
    ASSUME IInv, NEW r \in Requests, Arrive(r)
    PROVE  IInv'
<1> DEFINE plan == Plan(Here, requests[r].op)
           managed == requests[r].op.kind \in Managed
           fn == FirstCall(requests[r].op.kind)
<1>1. IF managed THEN ByOperator(plan, fn) ELSE ByOther(plan, fn)
  <2>1. Here.bidders \subseteq Wallets /\ \A b \in Here.banks : b.key # Admin
    BY DEF Here, IInv, RowInv
  <2>2. Known(requests[r].op)
    BY DEF IInv, RequestInv
  <2>3. requests[r].op.kind \notin {"BIDDER_CREATE", "BIDDER_DELETE"}
    BY DEF Arrive
  <2> QED BY <2>1, <2>2, <2>3, EveryPlan
<1> HIDE DEF fn
<1>2. RowInv' /\ UNCHANGED <<blocks, pool, projected, OfNonce>> /\ requests[r].step = "arrived"
  BY RowsRest DEF Arrive, IInv, OfRows, OfChain
<1>3. CASE plan.answer = 0
  <2> DEFINE q == requests[r]
             p1 == [q EXCEPT !.step = "planned"]
             p2 == [p1 EXCEPT !.read = Len(blocks)]
             p3 == [p2 EXCEPT !.seen = projected]
             p4 == [p3 EXCEPT !.key = plan.key]
             p  == [p4 EXCEPT !.call = plan.call]
  <2>1. requests' = [requests EXCEPT ![r] = p] /\ UNCHANGED trail
    BY <1>3 DEF Arrive, IInv, RequestInv
  <2>2. Like(p1, q.op, "planned", q.answer, q.nonce, q.key)
    BY LikeItself, FieldSet DEF IInv
  <2> HIDE DEF p1
  <2>3. Like(p2, q.op, "planned", q.answer, q.nonce, q.key)
    BY <2>2, FieldSet
  <2> HIDE DEF p2
  <2>4. Like(p3, q.op, "planned", q.answer, q.nonce, q.key)
    BY <2>3, FieldSet
  <2> HIDE DEF p3, plan
  <2>5. Like(p4, q.op, "planned", q.answer, q.nonce, plan.key)
    BY <2>4, FieldSet
  <2> HIDE DEF p4
  <2>6. Like(p, q.op, "planned", q.answer, q.nonce, plan.key)
    BY <2>5, FieldSet
  <2> HIDE DEF p
  <2>7. Goes(r, "planned", q.answer, q.nonce, plan.key)
    BY <2>1, <2>6, Replaced DEF IInv
  <2>8. managed <=> plan.key = Admin
    BY <1>1, <1>3 DEF ByOperator, ByOther, Errors
  <2>9. Sound(q.op, "planned", q.answer, q.nonce, plan.key)
    BY <1>2, <2>8 DEF IInv, RequestInv, SoundRequest, Sound, Steps
  <2>10. ChainInv' /\ PendingCount(Admin)' = PendingCount(Admin) /\ trail' \in [Requests -> Seq(Statuses)]
    BY <1>2, <2>1, ChainRests DEF IInv, RequestInv
  <2>11. q.step \notin Sending /\ "planned" \notin Sending
    BY <1>2 DEF Sending
  <2> QED BY <1>2, <2>7, <2>9, <2>10, <2>11, FreeStep
<1>4. CASE plan.answer # 0
  <2>1. Answer(r, plan.answer) /\ (Record(r, "FAILED") \/ UNCHANGED trail)
    BY <1>4 DEF Arrive
  <2>2. plan.answer \in Answers
    BY <1>1, <1>4 DEF ByOperator, ByOther, Errors, Answers
  <2>3. trail' \in [Requests -> Seq(Statuses)]
    BY <2>1, RecordType DEF IInv, RequestInv, Statuses
  <2>4. requests[r].step \notin Sending
    BY <1>2 DEF Sending
  <2> HIDE DEF plan
  <2> QED BY <1>2, <2>1, <2>2, <2>3, <2>4, AnswerStep
<1> QED BY <1>3, <1>4

LEMMA SimulateStep ==
    ASSUME IInv, NEW r \in Requests, Simulate(r)
    PROVE  IInv'
<1> DEFINE kind  == requests[r].op.kind
           error == Error(HeadState, Admin, requests[r].call, HeadState.time)
<1>1. /\ RowInv' /\ UNCHANGED <<blocks, pool, projected, OfNonce>>
      /\ requests[r].step = "planned" /\ requests[r].step \notin Sending
  BY RowsRest DEF Simulate, IInv, OfRows, OfChain, Sending
<1>2. CASE error = "none"
  <2>1. Step(r, "simulated") /\ UNCHANGED trail
    BY <1>2, Zenon DEF Simulate
  <2> QED BY <1>1, <2>1, PlainStep DEF Steps, Signing, Sending
<1>3. CASE error # "none"
  <2>1. /\ Answer(r, SimulationAnswer(kind, error))
        /\ IF SimulationStatus(kind) = "none" THEN UNCHANGED trail
           ELSE Record(r, SimulationStatus(kind))
    BY <1>3, Zenon DEF Simulate
  <2> HIDE DEF error
  <2>2. SimulationAnswer(kind, error) \in Answers
    BY DEF SimulationAnswer, Answers
  <2>3. SimulationStatus(kind) \in {"none", "REVERTED"}
    BY DEF SimulationStatus
  <2>4. trail' \in [Requests -> Seq(Statuses)]
    BY <2>1, <2>3, RecordType DEF IInv, RequestInv, Statuses
  <2> QED BY <1>1, <2>1, <2>2, <2>4, AnswerStep
<1> QED BY <1>2, <1>3

\* A request that asks for the lock comes last, and its nonce is not yet read.
LEMMA EnqueueStep ==
    ASSUME IInv, NEW r \in Requests, Enqueue(r)
    PROVE  IInv'
<1>1. requests[r].op.kind \in Managed /\ requests[r].step \in {"planned", "simulated"}
  BY DEF Enqueue
<1>2. Goes(r, "queued", requests[r].answer, requests[r].nonce, requests[r].key)
  BY StepGoes DEF Enqueue, IInv
<1>3. Sound(requests[r].op, "queued", requests[r].answer, requests[r].nonce, requests[r].key)
  BY <1>1 DEF IInv, RequestInv, SoundRequest, Sound, Steps, Signing
<1>4. RequestInv' /\ Requests' = Requests
  BY <1>2, <1>3, RequestKept DEF IInv, RequestInv, Enqueue
<1>5. r \notin Range(lock)
  BY <1>1 DEF IInv, LockInv, Sending
<1>6. /\ lock' \in Seq(Requests) /\ IsInjective(lock') /\ Range(lock') = Range(lock) \cup {r}
      /\ Range(lock) # {} => lock'[1] = lock[1]
  BY <1>5, LockGrows DEF Enqueue, IInv, LockInv
<1>7. \A q \in Requests : q \in Range(lock') <=>
          requests'[q].op.kind \in Managed /\ requests'[q].step \in Sending
  BY <1>1, <1>2, <1>6 DEF Goes, IInv, LockInv, Sending
<1>8. LockInv'
  BY <1>4, <1>6, <1>7 DEF LockInv
<1>9. ChainInv' /\ PendingCount(Admin)' = PendingCount(Admin) /\ RowInv'
  BY ChainRests, RowsRest DEF Enqueue, IInv, OfChain, OfRows
<1>10. \A q \in Requests : \A s \in {"prepared", "sent"} :
           /\ Managing(q, s)' <=> Managing(q, s)
           /\ Managing(q, s) => requests'[q] = requests[q] /\ lock'[1] = lock[1]
  <2> TAKE q \in Requests, s \in {"prepared", "sent"}
  <2>1. Managing(q, s)' <=> Managing(q, s)
    BY <1>1, <1>2, <1>4 DEF Managing, Goes
  <2>2. Managing(q, s) => q # r /\ q \in Range(lock)
    BY <1>1 DEF Managing, IInv, LockInv, Sending
  <2> QED BY <2>1, <2>2, <1>2, <1>6 DEF Goes
<1>11. NonceInv'
  <2>1. \A q \in Requests' : Managing(q, "prepared")' =>
            lock'[1] = q /\ requests'[q].nonce = PendingCount(Admin)'
    BY <1>4, <1>9, <1>10 DEF IInv, NonceInv
  <2>2. \A q \in Requests' : Managing(q, "sent")' =>
            lock'[1] = q /\ requests'[q].nonce \in Nat /\ requests'[q].nonce + 1 = PendingCount(Admin)'
    BY <1>4, <1>9, <1>10 DEF IInv, NonceInv
  <2>3. cachedNonce' = cachedNonce
    BY DEF Enqueue
  <2> QED BY <1>4, <1>9, <1>10, <2>1, <2>2, <2>3 DEF IInv, NonceInv
<1> QED BY <1>4, <1>8, <1>9, <1>11 DEF IInv

\* The head of the lock, or a request that needs none, reads a nonce.
LEMMA PrepareStep ==
    ASSUME IInv, NEW r \in Requests, Prepare(r)
    PROVE  IInv'
<1> DEFINE request == requests[r]
           error == IF request.forced THEN "none"
                    ELSE Error(HeadState, request.key, request.call, HeadState.time)
           managed == request.op.kind \in Managed
           nonce == NextNonce(request)
<1>1. /\ ChainInv' /\ PendingCount(Admin)' = PendingCount(Admin) /\ RowInv'
      /\ MySend(r)
  BY ChainRests, RowsRest DEF Prepare, IInv, OfChain, OfRows
<1>2. /\ managed => request.step = "queued" /\ lock[1] = r
      /\ ~managed => request.step = "planned"
  BY <1>1 DEF MySend
<1>3. CASE error = "none"
  <2>1. /\ requests' = [requests EXCEPT ![r].step = "prepared", ![r].nonce = nonce]
        /\ cachedNonce' = IF managed THEN nonce ELSE cachedNonce
        /\ UNCHANGED <<lock, trail>>
    BY <1>3, Zenon DEF Prepare
  <2>2. nonce \in Nat
    BY CountTypes DEF NextNonce, IInv, NonceInv
  <2>3. Goes(r, "prepared", request.answer, nonce, request.key)
    <3> DEFINE p1 == [request EXCEPT !.step = "prepared"]
               p  == [p1 EXCEPT !.nonce = nonce]
    <3> HIDE DEF nonce
    <3>1. requests' = [requests EXCEPT ![r] = p]
      BY <2>1 DEF IInv, RequestInv
    <3>2. Like(p1, request.op, "prepared", request.answer, request.nonce, request.key)
      BY LikeItself, FieldSet DEF IInv
    <3> HIDE DEF p1
    <3>3. Like(p, request.op, "prepared", request.answer, nonce, request.key)
      BY <3>2, FieldSet
    <3> HIDE DEF p
    <3> QED BY <3>1, <3>3, Replaced DEF IInv
  <2>4. Sound(request.op, "prepared", request.answer, nonce, request.key)
    BY <1>2, <2>2 DEF IInv, RequestInv, SoundRequest, Sound, Steps, Signing
  <2>5. trail' \in [Requests -> Seq(Statuses)]
    BY <2>1 DEF IInv, RequestInv
  <2>6. CASE ~managed
    BY <1>1, <2>1, <2>3, <2>4, <2>5, <2>6, FreeStep DEF OfNonce
  <2>7. CASE managed
    <3>1. RequestInv' /\ Requests' = Requests
      BY <2>3, <2>4, <2>5, RequestKept DEF IInv
    <3>2. LockInv'
      BY <1>2, <2>1, <2>3, <2>7, <3>1 DEF IInv, LockInv, Goes, Sending
    <3>3. \A q \in Requests : ~Managing(q, "sent")
      BY <1>2, <2>7 DEF IInv, NonceInv, Managing
    <3>4. nonce = PendingCount(Admin)
      <4>1. request.key = Admin
        BY <1>2, <2>7 DEF IInv, RequestInv, SoundRequest, Sound, Signing
      <4> QED BY <2>7, <3>3, <4>1 DEF NextNonce, IInv, NonceInv
    <3>5. \A q \in Requests : ~Managing(q, "sent")'
      BY <2>3, <3>1, <3>3 DEF Managing, Goes
    <3>6. \A q \in Requests : Managing(q, "prepared")' => q = r
      <4> SUFFICES ASSUME NEW q \in Requests, Managing(q, "prepared")', q # r
                   PROVE  FALSE
        OBVIOUS
      <4>1. Managing(q, "prepared")
        BY <2>3, <3>1 DEF Managing, Goes
      <4> QED BY <1>2, <2>7, <4>1 DEF IInv, NonceInv
    <3>7. requests'[r].nonce = PendingCount(Admin)'
      BY <1>1, <2>3, <3>4 DEF Goes
    <3>8. cachedNonce' = PendingCount(Admin)'
      BY <1>1, <2>1, <2>7, <3>4
    <3>9. NonceInv'
      BY <1>2, <2>1, <2>2, <2>7, <3>1, <3>4, <3>5, <3>6, <3>7, <3>8, <1>1 DEF NonceInv
    <3> QED BY <1>1, <3>1, <3>2, <3>9 DEF IInv
  <2> QED BY <2>6, <2>7
<1>4. CASE error # "none"
  <2>1. Refused(r, error)
    BY <1>4, Zenon DEF Prepare
  <2> HIDE DEF error
  <2>2. CASE SentAnyway(request.op, error)
    <3>1. /\ requests' = [requests EXCEPT ![r].step = "planned", ![r].forced = TRUE]
          /\ ReleaseLock(r, NoNonce) /\ UNCHANGED trail
      BY <2>1, <2>2 DEF Refused
    <3>2. managed
      BY <2>2 DEF SentAnyway, Managed
    <3>3. Goes(r, "planned", request.answer, request.nonce, request.key)
      <4> DEFINE p1 == [request EXCEPT !.step = "planned"]
                 p  == [p1 EXCEPT !.forced = TRUE]
      <4>1. requests' = [requests EXCEPT ![r] = p]
        BY <3>1 DEF IInv, RequestInv
      <4>2. Like(p1, request.op, "planned", request.answer, request.nonce, request.key)
        BY LikeItself, FieldSet DEF IInv
      <4> HIDE DEF p1
      <4>3. Like(p, request.op, "planned", request.answer, request.nonce, request.key)
        BY <4>2, FieldSet
      <4> HIDE DEF p
      <4> QED BY <4>1, <4>3, Replaced DEF IInv
    <3>4. Sound(request.op, "planned", request.answer, request.nonce, request.key)
      BY <1>2, <3>2 DEF IInv, RequestInv, SoundRequest, Sound, Steps, Signing
    <3>5. lock' = Tail(lock) /\ cachedNonce' = NoNonce
      BY <3>1, <3>2 DEF ReleaseLock
    <3>6. trail' \in [Requests -> Seq(Statuses)]
      BY <3>1 DEF IInv, RequestInv
    <3>7. request.step \in Sending /\ "planned" \notin Sending
      BY <1>2, <3>2 DEF Sending
    <3> QED BY <1>1, <1>2, <3>2, <3>3, <3>4, <3>5, <3>6, <3>7, ReleaseStep
  <2>3. CASE ~SentAnyway(request.op, error)
    <3>1. Fail(r, EstimateStatus(request.op.kind), EstimateAnswer(request.op.kind))
      BY <2>1, <2>3 DEF Refused
    <3>2. EstimateStatus(request.op.kind) \in Statuses /\ EstimateAnswer(request.op.kind) \in Answers
      BY DEF EstimateStatus, EstimateAnswer, Statuses, Answers
    <3>3. managed => request.step \in Sending
      BY <1>2 DEF Sending
    <3> QED BY <1>1, <1>2, <3>1, <3>2, <3>3, FailStep
  <2> QED BY <2>2, <2>3
<1> QED BY <1>3, <1>4

\* A transaction the node takes is new to it.
LEMMA SentToPool ==
    ASSUME IInv, NEW r \in Requests, Acceptable(Transaction(r)),
           pool' = pool \cup {Transaction(r)}, UNCHANGED <<blocks, projected>>
    PROVE  /\ ChainInv'
           /\ requests[r].key = Admin => PendingCount(Admin)' = PendingCount(Admin) + 1
           /\ requests[r].key # Admin => PendingCount(Admin)' = PendingCount(Admin)
<1>1. PICK tx : tx = Transaction(r)
  OBVIOUS
<1>2. tx \notin pool
  BY <1>1 DEF Acceptable
<1>3. tx # NoTx
  <2>1. DOMAIN tx = {"req", "key", "nonce", "call"} /\ DOMAIN NoTx = {"fn"}
    BY <1>1 DEF Transaction, NoTx
  <2>2. "fn" \notin {"req", "key", "nonce", "call"}
    OBVIOUS
  <2> QED BY <2>1, <2>2
<1>4. tx.key = requests[r].key
  BY <1>1 DEF Transaction
<1>5. pool' = pool \cup {tx} /\ ChainInv /\ UNCHANGED <<blocks, projected>>
  BY <1>1 DEF IInv
<1>6. /\ ChainInv'
      /\ PendingCount(tx.key)' = PendingCount(tx.key) + 1
      /\ \A key : key # tx.key => PendingCount(key)' = PendingCount(key)
  BY <1>2, <1>3, <1>5, Entered
<1>7. CASE tx.key = Admin
  BY <1>4, <1>6, <1>7
<1>8. CASE tx.key # Admin
  <2>1. PendingCount(Admin)' = PendingCount(Admin)
    BY <1>6, <1>8
  <2> QED BY <2>1, <1>4, <1>6, <1>8
<1> QED BY <1>7, <1>8

LEMMA BroadcastStep ==
    ASSUME IInv, NEW r \in Requests, Broadcast(r)
    PROVE  IInv'
<1> DEFINE request == requests[r]
           managed == request.op.kind \in Managed
<1>1. /\ request.step = "prepared" /\ UNCHANGED <<blocks, projected>>
      /\ RowInv'
  BY RowsRest DEF Broadcast, IInv, OfRows
<1>2. managed => lock[1] = r /\ request.nonce = PendingCount(Admin) /\ request.step \in Sending
  BY <1>1 DEF IInv, NonceInv, Managing, Sending
<1>3. managed <=> request.key = Admin
  BY <1>1 DEF IInv, RequestInv, SoundRequest, Sound, Signing
<1>4. CASE Acceptable(Transaction(r))
  <2>1. pool' = pool \cup {Transaction(r)} /\ Step(r, "sent") /\ UNCHANGED OfNonce /\ UNCHANGED trail
    BY <1>4 DEF Broadcast
  <2>2. /\ ChainInv'
        /\ managed => PendingCount(Admin)' = PendingCount(Admin) + 1
        /\ ~managed => PendingCount(Admin)' = PendingCount(Admin)
    BY <1>1, <1>3, <1>4, <2>1, SentToPool
  <2>3. Goes(r, "sent", request.answer, request.nonce, request.key)
    BY <2>1, StepGoes DEF IInv
  <2>4. Sound(request.op, "sent", request.answer, request.nonce, request.key)
    BY <1>1 DEF IInv, RequestInv, SoundRequest, Sound, Steps, Signing
  <2>5. trail' \in [Requests -> Seq(Statuses)]
    BY <2>1 DEF IInv, RequestInv
  <2>6. CASE ~managed
    BY <1>1, <2>1, <2>2, <2>3, <2>4, <2>5, <2>6, FreeStep
  <2>7. CASE managed
    <3>1. RequestInv' /\ Requests' = Requests
      BY <2>3, <2>4, <2>5, RequestKept DEF IInv
    <3>2. LockInv'
      BY <1>2, <2>1, <2>3, <2>7, <3>1 DEF IInv, LockInv, Goes, Sending, OfNonce
    <3>3. \A q \in Requests : Managing(q, "prepared") \/ Managing(q, "sent") => q = r
      BY <1>2, <2>7 DEF IInv, NonceInv
    <3>4. \A q \in Requests : ~Managing(q, "prepared")' /\ (Managing(q, "sent")' => q = r)
      BY <2>3, <3>1, <3>3 DEF Managing, Goes
    <3>5. Managing(r, "sent")'
      BY <2>3, <2>7, <3>1 DEF Managing, Goes
    <3>6. requests'[r].nonce \in Nat /\ requests'[r].nonce + 1 = PendingCount(Admin)'
      BY <1>2, <2>2, <2>3, <2>7, CountTypes DEF Goes, IInv
    <3>7. NonceInv'
      BY <1>2, <2>1, <2>7, <3>1, <3>4, <3>5, <3>6 DEF IInv, NonceInv, OfNonce
    <3> QED BY <1>1, <2>2, <3>1, <3>2, <3>7 DEF IInv
  <2> QED BY <2>6, <2>7
<1>5. CASE ~Acceptable(Transaction(r))
  <2>1. Fail(r, "FAILED", 500) /\ UNCHANGED pool
    BY <1>5 DEF Broadcast
  <2>2. ChainInv' /\ PendingCount(Admin)' = PendingCount(Admin)
    BY <1>1, <2>1, ChainRests DEF IInv
  <2>3. "FAILED" \in Statuses /\ 500 \in Answers
    BY DEF Statuses, Answers
  <2> QED BY <1>1, <1>2, <2>1, <2>2, <2>3, FailStep
<1> QED BY <1>4, <1>5

LEMMA LoseConnectionStep ==
    ASSUME IInv, NEW r \in Requests, LoseConnection(r)
    PROVE  IInv'
<1>1. /\ requests[r].step = "prepared" /\ UNCHANGED <<blocks, projected>> /\ RowInv'
      /\ Fail(r, "FAILED", 500)
  BY RowsRest DEF LoseConnection, IInv, OfRows
<1>2. requests[r].op.kind \in Managed => lock[1] = r /\ requests[r].step \in Sending
  BY <1>1 DEF IInv, NonceInv, Managing, Sending
<1>3. requests[r].op.kind \in Managed <=> requests[r].key = Admin
  BY <1>1 DEF IInv, RequestInv, SoundRequest, Sound, Signing
<1>4. ChainInv' /\ (requests[r].op.kind \notin Managed => PendingCount(Admin)' = PendingCount(Admin))
  <2>1. CASE UNCHANGED pool
    BY <1>1, <2>1, ChainRests DEF IInv
  <2>2. CASE Acceptable(Transaction(r)) /\ pool' = pool \cup {Transaction(r)}
    BY <1>1, <1>3, <2>2, SentToPool
  <2> QED BY <2>1, <2>2 DEF LoseConnection
<1>5. "FAILED" \in Statuses /\ 500 \in Answers
  BY DEF Statuses, Answers
<1> QED BY <1>1, <1>2, <1>4, <1>5, FailStep

\* What a managed request leaves behind when its transaction has been mined: the next
\* nonce of the node.
LEMMA SucceedStep ==
    ASSUME IInv, NEW r \in Requests, requests[r].step = "sent", NEW b, Succeed(r, b),
           UNCHANGED <<blocks, pool, projected, bidderRows>>
    PROVE  IInv'
<1> DEFINE request == requests[r]
           kind == request.op.kind
           managed == kind \in Managed
<1>1. ChainInv' /\ PendingCount(Admin)' = PendingCount(Admin) /\ RowInv'
  BY ChainRests, RowsRest DEF IInv, Succeed
<1>2. managed => lock[1] = r /\ request.nonce + 1 = PendingCount(Admin) /\ request.step \in Sending
  BY DEF IInv, NonceInv, Managing, Sending
<1>3. trail' \in [Requests -> Seq(Statuses)]
  BY RecordType DEF Succeed, IInv, Statuses
<1>4. \E step, answer :
          /\ Goes(r, step, answer, request.nonce, request.key)
          /\ step \notin Sending
          /\ Sound(request.op, step, answer, request.nonce, request.key)
  <2>1. CASE kind \in Awaiting
    <3> DEFINE p1 == [request EXCEPT !.step = "mined"]
               p  == [p1 EXCEPT !.block = b]
    <3>1. requests' = [requests EXCEPT ![r] = p]
      BY <2>1 DEF Succeed, IInv, RequestInv
    <3>2. Like(p1, request.op, "mined", request.answer, request.nonce, request.key)
      BY LikeItself, FieldSet DEF IInv
    <3> HIDE DEF p1
    <3>3. Like(p, request.op, "mined", request.answer, request.nonce, request.key)
      BY <3>2, FieldSet
    <3> HIDE DEF p
    <3>4. Goes(r, "mined", request.answer, request.nonce, request.key)
      BY <3>1, <3>3, Replaced DEF IInv
    <3>5. Sound(request.op, "mined", request.answer, request.nonce, request.key)
      BY DEF IInv, RequestInv, SoundRequest, Sound, Steps, Signing
    <3> QED BY <3>4, <3>5 DEF Sending
  <2>2. CASE kind \notin Awaiting
    <3> DEFINE code == IF kind = "BOND_DISABLE" THEN 204 ELSE 200
    <3>1. Answer(r, code)
      BY <2>2 DEF Succeed
    <3>2. Goes(r, "answered", code, request.nonce, request.key)
      BY <3>1, AnswerGoes DEF IInv
    <3>3. Sound(request.op, "answered", code, request.nonce, request.key)
      BY DEF IInv, RequestInv, SoundRequest, Sound, Steps, Signing, Answers
    <3> QED BY <3>2, <3>3 DEF Sending
  <2> QED BY <2>1, <2>2
<1>5. PICK step, answer :
          /\ Goes(r, step, answer, request.nonce, request.key)
          /\ step \notin Sending
          /\ Sound(request.op, step, answer, request.nonce, request.key)
  BY <1>4
<1>6. CASE managed
  <2>1. lock' = Tail(lock) /\ cachedNonce' = PendingCount(Admin)'
    BY <1>1, <1>2, <1>6 DEF Succeed, ReleaseLock
  <2> QED BY <1>1, <1>2, <1>3, <1>5, <1>6, <2>1, ReleaseStep
<1>7. CASE ~managed
  <2>1. UNCHANGED OfNonce
    BY <1>7 DEF Succeed, ReleaseLock
  <2> QED BY <1>1, <1>3, <1>5, <1>7, <2>1, FreeStep
<1> QED BY <1>6, <1>7

\* A bank creation goes on to its next transaction, signed by the central bank, or ends.
LEMMA ContinueStep ==
    ASSUME IInv, NEW r \in Requests, requests[r].step = "sent",
           requests[r].op.kind = "BANK_CREATE", NEW b, Continue(r, b),
           UNCHANGED <<blocks, pool, projected, bidderRows>>
    PROVE  IInv'
<1> DEFINE request == requests[r]
           next == NextBankCall(request, b)
           tbd  == IF request.call.fn = "deployTbd" THEN next.tbd ELSE request.tbd
           row  == [name |-> request.op.name, key |-> request.op.key, tbd |-> tbd]
<1>1. ChainInv' /\ PendingCount(Admin)' = PendingCount(Admin)
  BY ChainRests DEF IInv
<1>2. request.op.kind \notin Managed
  BY DEF Managed
<1>3. CASE next # NoCall
  <2>1. /\ requests' = [requests EXCEPT ![r].step = "planned", ![r].call = next,
                                        ![r].key = CentralBank, ![r].tbd = tbd]
        /\ UNCHANGED <<OfNonce, trail, bankRows>>
    BY <1>3, Zenon DEF Continue
  <2> HIDE DEF next, tbd
  <2>2. Goes(r, "planned", request.answer, request.nonce, CentralBank)
    <3> DEFINE p1 == [request EXCEPT !.step = "planned"]
               p2 == [p1 EXCEPT !.call = next]
               p3 == [p2 EXCEPT !.key = CentralBank]
               p  == [p3 EXCEPT !.tbd = tbd]
    <3>1. requests' = [requests EXCEPT ![r] = p]
      BY <2>1 DEF IInv, RequestInv
    <3>2. Like(p1, request.op, "planned", request.answer, request.nonce, request.key)
      BY LikeItself, FieldSet DEF IInv
    <3> HIDE DEF p1
    <3>3. Like(p2, request.op, "planned", request.answer, request.nonce, request.key)
      BY <3>2, FieldSet
    <3> HIDE DEF p2
    <3>4. Like(p3, request.op, "planned", request.answer, request.nonce, CentralBank)
      BY <3>3, FieldSet
    <3> HIDE DEF p3
    <3>5. Like(p, request.op, "planned", request.answer, request.nonce, CentralBank)
      BY <3>4, FieldSet
    <3> HIDE DEF p
    <3> QED BY <3>1, <3>5, Replaced DEF IInv
  <2>3. CentralBank # Admin
    BY KeysAssumption DEF Wallets
  <2>4. Sound(request.op, "planned", request.answer, request.nonce, CentralBank)
    BY <1>2, <2>3 DEF IInv, RequestInv, SoundRequest, Sound, Steps
  <2>5. RowInv' /\ trail' \in [Requests -> Seq(Statuses)]
    BY <2>1, RowsRest DEF IInv, RequestInv
  <2> QED BY <1>1, <1>2, <2>1, <2>2, <2>4, <2>5, FreeStep
<1>4. CASE next = NoCall
  <2>1. Created(r, row)
    BY <1>4, Zenon DEF Continue
  <2>2. row.key # Admin
    BY DEF IInv, RequestInv, Known
  <2> HIDE DEF row
  <2>3. CASE Duplicate(row)
    <3>1. Fail(r, "FAILED", 500) /\ RowInv'
      BY <2>1, <2>3, RowsRest DEF Created, IInv
    <3>2. "FAILED" \in Statuses /\ 500 \in Answers
      BY DEF Statuses, Answers
    <3> QED BY <1>1, <1>2, <3>1, <3>2, FailStep
  <2>4. CASE ~Duplicate(row)
    <3>1. /\ bankRows' = bankRows \cup {row} /\ Record(r, "SUCCEEDED") /\ Answer(r, 200)
          /\ UNCHANGED OfNonce
      BY <2>1, <2>4 DEF Created
    <3>2. RowInv'
      BY <2>2, <3>1 DEF IInv, RowInv
    <3>3. trail' \in [Requests -> Seq(Statuses)]
      BY <3>1, RecordType DEF IInv, Statuses
    <3>4. 200 \in Answers
      BY DEF Answers
    <3> QED BY <1>2, <3>1, <3>2, <3>3, <3>4, AnswerStep
  <2> QED BY <2>3, <2>4
<1> QED BY <1>3, <1>4

LEMMA ConfirmStep ==
    ASSUME IInv, NEW r \in Requests, Confirm(r)
    PROVE  IInv'
<1>1. /\ requests[r].step = "sent" /\ UNCHANGED <<blocks, pool, projected, bidderRows>>
  BY DEF Confirm, OfChain
<1>2. PICK b \in DOMAIN blocks :
          IF blocks[b].error # "none"
            THEN Fail(r, "REVERTED", 500) /\ UNCHANGED <<bankRows, stale>>
            ELSE IF requests[r].op.kind = "BANK_CREATE" THEN Continue(r, b) ELSE Succeed(r, b)
  BY DEF Confirm
<1>3. CASE blocks[b].error # "none"
  <2>1. Fail(r, "REVERTED", 500) /\ UNCHANGED bankRows
    BY <1>2, <1>3
  <2>2. ChainInv' /\ PendingCount(Admin)' = PendingCount(Admin) /\ RowInv'
    BY <1>1, <2>1, ChainRests, RowsRest DEF IInv
  <2>3. requests[r].op.kind \in Managed => requests[r].step \in Sending /\ lock[1] = r
    BY <1>1 DEF IInv, NonceInv, Managing, Sending
  <2>4. "REVERTED" \in Statuses /\ 500 \in Answers
    BY DEF Statuses, Answers
  <2> QED BY <2>1, <2>2, <2>3, <2>4, FailStep
<1>4. CASE blocks[b].error = "none" /\ requests[r].op.kind = "BANK_CREATE"
  BY <1>1, <1>2, <1>4, ContinueStep
<1>5. CASE blocks[b].error = "none" /\ requests[r].op.kind # "BANK_CREATE"
  BY <1>1, <1>2, <1>5, SucceedStep
<1> QED BY <1>3, <1>4, <1>5

LEMMA AnswerMinedStep ==
    ASSUME IInv, NEW r \in Requests, AnswerMined(r)
    PROVE  IInv'
<1>1. /\ requests[r].step \notin Sending /\ UNCHANGED <<blocks, pool, projected, OfNonce>>
      /\ trail' = trail /\ RowInv'
  BY RowsRest DEF AnswerMined, OfChain, OfRows, IInv, Sending
<1>2. \E code \in {200, 201, 202} : Answer(r, code)
  BY DEF AnswerMined
<1>3. PICK code \in Answers : Answer(r, code)
  BY <1>2 DEF Answers
<1>4. trail' \in [Requests -> Seq(Statuses)]
  BY <1>1 DEF IInv, RequestInv
<1> QED BY <1>1, <1>3, <1>4, AnswerStep

\* Requests about bidders: rows and no transactions
LEMMA BidderStep ==
    ASSUME IInv, NEW r \in Requests,
           CreateBidder(r) \/ AnnounceBidder(r) \/ CheckBidder(r) \/ DeleteBidder(r)
    PROVE  IInv'
<1> USE DEF Sending, OfChain, OfRows
<1>1. /\ UNCHANGED <<blocks, pool, projected, OfNonce>> /\ UNCHANGED trail
      /\ requests[r].step \in {"arrived", "composing", "checked"}
  BY DEF CreateBidder, AnnounceBidder, CheckBidder, DeleteBidder
<1>2. requests[r].step \notin Sending /\ trail' \in [Requests -> Seq(Statuses)]
  BY <1>1 DEF IInv, RequestInv
<1>3. RowInv'
  <2>1. CASE CreateBidder(r)
    BY <2>1 DEF CreateBidder, IInv, RowInv, RequestInv, Known
  <2>2. CASE DeleteBidder(r)
    BY <2>2 DEF DeleteBidder, IInv, RowInv
  <2>3. CASE AnnounceBidder(r) \/ CheckBidder(r)
    BY <2>3, RowsRest DEF AnnounceBidder, CheckBidder, IInv
  <2> QED BY <2>1, <2>2, <2>3
<1>4. CASE \E code \in {200, 204, 404, 409} : Answer(r, code)
  <2>1. PICK code \in Answers : Answer(r, code)
    BY <1>4 DEF Answers
  <2> QED BY <1>1, <1>2, <1>3, <2>1, AnswerStep
<1>5. CASE CreateBidder(r) /\ Step(r, "composing")
  BY <1>1, <1>2, <1>3, <1>5, PlainStep DEF Steps, Signing
<1>6. CASE requests' = [requests EXCEPT ![r].step = "checked", ![r].read = Len(blocks), ![r].seen = projected]
  <2> DEFINE q == requests[r]
             p1 == [q EXCEPT !.step = "checked"]
             p2 == [p1 EXCEPT !.read = Len(blocks)]
             p  == [p2 EXCEPT !.seen = projected]
  <2>1. requests' = [requests EXCEPT ![r] = p]
    BY <1>6 DEF IInv, RequestInv
  <2>2. Like(p1, q.op, "checked", q.answer, q.nonce, q.key)
    BY LikeItself, FieldSet DEF IInv
  <2> HIDE DEF p1
  <2>3. Like(p2, q.op, "checked", q.answer, q.nonce, q.key)
    BY <2>2, FieldSet
  <2> HIDE DEF p2
  <2>4. Like(p, q.op, "checked", q.answer, q.nonce, q.key)
    BY <2>3, FieldSet
  <2> HIDE DEF p
  <2>5. Goes(r, "checked", q.answer, q.nonce, q.key)
    BY <2>1, <2>4, Replaced DEF IInv
  <2>6. Sound(q.op, "checked", q.answer, q.nonce, q.key)
    BY <1>1 DEF IInv, RequestInv, SoundRequest, Sound, Steps, Signing
  <2>7. ChainInv' /\ PendingCount(Admin)' = PendingCount(Admin)
    BY <1>1, ChainRests DEF IInv
  <2>8. "checked" \notin Sending
    OBVIOUS
  <2> QED BY <1>1, <1>2, <1>3, <2>5, <2>6, <2>7, <2>8, FreeStep
<1> QED BY <1>4, <1>5, <1>6 DEF CreateBidder, AnnounceBidder, CheckBidder, DeleteBidder

-----------------------------------------------------------------------------
(* The chain, the projection, and what fails                                *)

\* While the requests rest and the node expects the same nonce of the operator
LEMMA RequestsRest ==
    ASSUME IInv, UNCHANGED <<requests, trail, OfNonce, OfRows>>, ChainInv',
           PendingCount(Admin)' = PendingCount(Admin)
    PROVE  IInv'
<1> USE DEF OfNonce, OfRows
<1>1. Requests' = Requests /\ RequestInv'
  BY DEF IInv, RequestInv, Requests, Known, SoundRequest
<1>2. LockInv'
  BY <1>1 DEF IInv, LockInv
<1>3. RowInv'
  BY RowsRest DEF IInv
<1>4. \A q \in Requests : \A s \in Steps : Managing(q, s)' <=> Managing(q, s)
  BY DEF Managing
<1>5. NonceInv'
  BY <1>1, <1>4 DEF IInv, NonceInv, Steps
<1> QED BY <1>1, <1>2, <1>3, <1>5 DEF IInv

LEMMA MineStep ==
    ASSUME IInv, NEW tx \in pool, Mine(tx)
    PROVE  IInv'
<1> DEFINE error == Error(HeadState, tx.key, tx.call, clock)
           new   == IF error = "none" THEN Effect(HeadState, tx.key, tx.call, clock) ELSE HeadState
           block == [state |-> [new EXCEPT !.time = clock], tx |-> tx, error |-> error]
<1>1. blocks' = Append(blocks, block)
  BY Zenon DEF Mine
<1>2. block.tx = tx
  OBVIOUS
<1> HIDE DEF block
<1>3. pool' = pool \ {tx} /\ UNCHANGED <<projected, requests, trail, OfNonce, OfRows>>
  BY DEF Mine
<1>4. ChainInv' /\ \A key : PendingCount(key)' = PendingCount(key)
  BY <1>1, <1>2, <1>3, MovedToChain DEF IInv
<1>5. PendingCount(Admin)' = PendingCount(Admin)
  BY <1>4
<1> QED BY <1>3, <1>4, <1>5, RequestsRest

LEMMA EmptyBlockStep ==
    ASSUME IInv, EmptyBlock
    PROVE  IInv'
<1> DEFINE block == [state |-> [HeadState EXCEPT !.time = clock], tx |-> NoTx, error |-> "none"]
<1>1. /\ blocks' = Append(blocks, block)
      /\ UNCHANGED <<pool, projected, requests, trail, OfNonce, OfRows>>
  BY DEF EmptyBlock
<1>2. block.tx = NoTx
  OBVIOUS
<1> HIDE DEF block
<1>3. MinedCount(Admin)' = MinedCount(Admin)
  BY <1>1, <1>2, NotMined DEF IInv
<1>4. PendingCount(Admin)' = PendingCount(Admin)
  BY <1>1, <1>3 DEF PendingCount
<1>5. ChainInv'
  BY <1>1, GrownSeq DEF IInv, ChainInv
<1> QED BY <1>1, <1>4, <1>5, RequestsRest

LEMMA ProjectStep ==
    ASSUME IInv, NEW to \in projected + 1 .. Len(blocks), Project(to)
    PROVE  IInv'
<1>1. UNCHANGED <<blocks, pool, requests, trail, OfNonce, OfRows>> /\ projected' = to
  BY DEF Project
<1>2. Len(blocks) \in Nat
  BY DEF IInv, ChainInv
<1>3. ChainInv' /\ PendingCount(Admin)' = PendingCount(Admin)
  BY <1>1, <1>2 DEF IInv, ChainInv, PendingCount, MinedCount
<1> QED BY <1>1, <1>3, RequestsRest

\* A restart leaves no request on its way, an empty lock and no cached nonce.
LEMMA CrashStep ==
    ASSUME IInv, Crash
    PROVE  IInv'
<1>1. ChainInv' /\ PendingCount(Admin)' = PendingCount(Admin) /\ UNCHANGED <<bankRows, trail>>
  BY ChainRests DEF Crash, IInv
<1>2. RowInv'
  BY <1>1 DEF Crash, SeedFixtureBidders, IInv, RowInv, Wallets
<1>3. /\ Requests' = Requests
      /\ \A r \in Requests : requests'[r] = IF requests[r].step \in {"arrived", "answered"} THEN requests[r]
                                             ELSE [requests[r] EXCEPT !.step = "lost"]
  BY DEF Crash, Requests
<1>4. \A r \in Requests : \E step :
          /\ Like(requests'[r], requests[r].op, step, requests[r].answer, requests[r].nonce, requests[r].key)
          /\ \/ step = requests[r].step /\ step \in {"arrived", "answered"}
             \/ step = "lost" /\ requests[r].step # "answered"
  <2> TAKE r \in Requests
  <2> DEFINE q == requests[r]
             p == [q EXCEPT !.step = "lost"]
  <2>1. Like(q, q.op, q.step, q.answer, q.nonce, q.key)
    BY LikeItself DEF IInv
  <2>2. Like(p, q.op, "lost", q.answer, q.nonce, q.key)
    BY <2>1, FieldSet
  <2>3. requests'[r] = IF q.step \in {"arrived", "answered"} THEN q ELSE p
    BY <1>3
  <2> HIDE DEF q, p
  <2>4. CASE q.step \in {"arrived", "answered"}
    BY <2>1, <2>3, <2>4 DEF q
  <2>5. CASE q.step \notin {"arrived", "answered"}
    BY <2>2, <2>3, <2>5 DEF q
  <2> QED BY <2>4, <2>5
<1>5. \A r \in Requests : /\ requests'[r] = Fields(requests'[r])
                          /\ Known(requests'[r].op) /\ SoundRequest(requests'[r])
                          /\ requests'[r].step \notin Sending
  <2> TAKE r \in Requests
  <2>1. PICK step :
          /\ Like(requests'[r], requests[r].op, step, requests[r].answer, requests[r].nonce, requests[r].key)
          /\ \/ step = requests[r].step /\ step \in {"arrived", "answered"}
             \/ step = "lost" /\ requests[r].step # "answered"
    BY <1>4
  <2>2. Known(requests[r].op) /\ SoundRequest(requests[r])
    BY DEF IInv, RequestInv
  <2> QED BY <2>1, <2>2 DEF Like, SoundRequest, Sound, Steps, Signing, Sending
<1>6. requests' = [r \in Requests |-> requests'[r]]
  BY DEF Crash
<1>7. requests' = [r \in Requests |-> Fields(requests'[r])]
  BY <1>5, <1>6
<1>8. RequestInv'
  BY <1>1, <1>3, <1>5, <1>7 DEF IInv, RequestInv
<1>9. LockInv'
  <2>1. lock' = <<>>
    BY DEF Crash
  <2>2. lock' \in Seq(Requests) /\ IsInjective(lock') /\ Range(lock') = {}
    BY <2>1 DEF IsInjective, Range
  <2> QED BY <1>3, <1>5, <2>2 DEF LockInv
<1>10. NonceInv'
  <2>1. cachedNonce' = NoNonce
    BY DEF Crash
  <2>2. \A r \in Requests' : ~Managing(r, "prepared")' /\ ~Managing(r, "sent")'
    BY <1>3, <1>5 DEF Managing, Sending
  <2> QED BY <2>1, <2>2 DEF NonceInv
<1> QED BY <1>1, <1>2, <1>8, <1>9, <1>10 DEF IInv

-----------------------------------------------------------------------------
(* The invariant                                                            *)

LEMMA InitInvariant == Init => IInv
<1> SUFFICES ASSUME Init PROVE IInv
  OBVIOUS
<1>1. PICK scenario \in Scenarios :
        /\ blocks = ToBlocks(scenario.history)
        /\ projected = Len(scenario.history) - scenario.lag
        /\ requests = [r \in DOMAIN scenario.ops |-> Request(scenario.ops[r])]
        /\ trail = [r \in DOMAIN scenario.ops |-> <<>>]
        /\ pool = {} /\ cachedNonce = NoNonce /\ lock = <<>>
        /\ bankRows = {} /\ bidderRows = Bidders
  BY DEF Init
<1> DEFINE h == scenario.history
           n == Len(h)
<1>2. /\ h \in Seq(Range(h)) /\ scenario.lag \in 0 .. n - 1
      /\ \A r \in DOMAIN scenario.ops : Known(scenario.ops[r])
  BY ScenariosAssumption DEF Known
<1>3. n \in Nat /\ DOMAIN h = 1 .. n
  BY <1>2
<1>4. ChainInv
  <2>1. DOMAIN blocks = 1 .. n
    BY <1>1, <1>3 DEF ToBlocks
  <2>2. blocks = [b \in 1 .. n |-> blocks[b]]
    BY <1>1, <1>3 DEF ToBlocks
  <2>3. blocks \in [1 .. n -> Range(blocks)]
    BY <2>1, <2>2 DEF Range
  <2>4. blocks \in Seq(Range(blocks)) /\ Len(blocks) = n
    BY <2>1, <2>3, <1>3, SeqDef, LenProperties
  <2>5. projected \in 1 .. Len(blocks)
    BY <1>1, <1>2, <1>3, <2>4
  <2> QED BY <1>1, <2>4, <2>5, FS_EmptySet DEF ChainInv
<1>5. /\ Requests = DOMAIN scenario.ops
      /\ \A r \in Requests : requests[r] = Request(scenario.ops[r])
  BY <1>1 DEF Requests
<1>6. \A r \in Requests : /\ requests[r] = Fields(requests[r])
                          /\ Known(requests[r].op) /\ SoundRequest(requests[r])
                          /\ requests[r].step = "arrived"
  <2> TAKE r \in Requests
  <2> DEFINE q == Request(scenario.ops[r])
  <2>1. requests[r] = q /\ Known(scenario.ops[r])
    BY <1>2, <1>5
  <2>2. /\ q = Fields(q) /\ q.op = scenario.ops[r] /\ q.step = "arrived"
        /\ q.answer = 0 /\ q.nonce = NoNonce
    BY DEF Request, Fields
  <2> HIDE DEF q
  <2> QED BY <2>1, <2>2 DEF SoundRequest, Sound, Steps, Signing
<1>7. requests = [r \in Requests |-> Fields(requests[r])]
  <2>1. requests = [r \in Requests |-> requests[r]]
    BY <1>1, <1>5
  <2> QED BY <1>6, <2>1
<1>8. RequestInv
  <2>1. trail \in [Requests -> Seq(Statuses)]
    <3>1. <<>> \in Seq(Statuses)
      OBVIOUS
    <3> QED BY <1>1, <1>5, <3>1
  <2> QED BY <1>6, <1>7, <2>1 DEF RequestInv
<1>9. LockInv
  <2>1. lock \in Seq(Requests) /\ IsInjective(lock) /\ Range(lock) = {}
    BY <1>1 DEF IsInjective, Range
  <2> QED BY <1>6, <2>1 DEF LockInv, Sending
<1>10. RowInv
  BY <1>1 DEF RowInv, Wallets
<1>11. NonceInv
  BY <1>1, <1>6 DEF NonceInv, Managing
<1> QED BY <1>4, <1>8, <1>9, <1>10, <1>11 DEF IInv

LEMMA StepInvariant == IInv /\ [Next]_vars => IInv'
<1> SUFFICES ASSUME IInv, [Next]_vars PROVE IInv'
  OBVIOUS
<1>1. CASE \E r \in Requests : Serve(r) \/ LoseConnection(r)
  BY <1>1, ArriveStep, SimulateStep, EnqueueStep, PrepareStep, BroadcastStep, ConfirmStep,
     AnswerMinedStep, BidderStep, LoseConnectionStep DEF Serve
<1>2. CASE \E tx \in pool : Mine(tx)
  BY <1>2, MineStep
<1>3. CASE \E to \in projected + 1 .. Len(blocks) : Project(to)
  BY <1>3, ProjectStep
<1>4. CASE EmptyBlock
  BY <1>4, EmptyBlockStep
<1>5. CASE Tick \/ Stop \/ UNCHANGED vars
  <2>1. UNCHANGED <<blocks, pool, projected, requests, trail, OfNonce, OfRows>>
    BY <1>5 DEF Tick, Stop, vars, OfNonce, OfRows
  <2>2. ChainInv' /\ PendingCount(Admin)' = PendingCount(Admin)
    BY <2>1, ChainRests DEF IInv
  <2> QED BY <2>1, <2>2, RequestsRest
<1>6. CASE Crash
  BY <1>6, CrashStep
<1> QED BY <1>1, <1>2, <1>3, <1>4, <1>5, <1>6 DEF Next

\* The invariant, whatever the requests, the order of their steps and the crashes.
THEOREM ApiInvariant == Spec => []IInv
BY InitInvariant, StepInvariant, PTL DEF Spec

LEMMA InvariantTypes == IInv => TypeOK
<1> SUFFICES ASSUME IInv PROVE TypeOK
  OBVIOUS
<1>1. projected \in 1 .. Len(blocks)
  BY DEF IInv, ChainInv
<1>2. IsInjective(lock) /\ Range(lock) \subseteq Requests
  <2>1. lock \in [1 .. Len(lock) -> Requests]
    BY DEF IInv, LockInv
  <2> QED BY <2>1 DEF IInv, LockInv, Range
<1>3. \A r \in Requests :
         /\ requests[r].step \in Steps
         /\ requests[r].answer \in IF requests[r].step = "answered" THEN Answers ELSE {0}
  BY DEF IInv, RequestInv, SoundRequest, Sound
<1>4. \A r \in Requests : r \in Range(lock) <=> requests[r].op.kind \in Managed
                                  /\ requests[r].step \in {"queued", "prepared", "sent"}
  BY DEF IInv, LockInv, Sending
<1>5. \A r \in Requests : Range(trail[r]) \subseteq Statuses
  <2> TAKE r \in Requests
  <2>1. trail[r] \in [1 .. Len(trail[r]) -> Statuses]
    BY DEF IInv, RequestInv
  <2> QED BY <2>1 DEF Range
<1>6. bidderRows \subseteq Wallets /\ cachedNonce \in Nat \cup {NoNonce}
  BY DEF IInv, RowInv, NonceInv
<1> QED BY <1>1, <1>2, <1>3, <1>4, <1>5, <1>6 DEF TypeOK, Statuses

\* The types of the handlers' state: above all, that the lock of the operator's wallet
\* holds exactly the managed requests between asking for it and their receipt, each once
\* (chain.ts:69-93), and that a request has an answer when it is answered and only then.
THEOREM ApiTypeTheorem == Spec => []TypeOK
BY ApiInvariant, InvariantTypes, PTL

\* Whoever holds the lock is about to use the nonce the node expects next, after a lost
\* connection and after a restart too, when transactions nobody waits for may still be in
\* the pool; and only the head of the lock sends (chain.ts:69-93, 95-147).
THEOREM NonceTheorem == Spec => []ManagedNonces
<1>1. IInv => ManagedNonces
  BY DEF IInv, NonceInv, ManagedNonces, Managing
<1> QED BY <1>1, ApiInvariant, PTL

-----------------------------------------------------------------------------
(* What a call leaves of the deposit contracts                              *)

CallNames == {"deployBond", "deployAuction", "disableBond", "closeAuction", "cancelAuction",
              "finaliseAuction", "payCoupon", "submitBid", "mint", "burn", "transfer", "add", "remove",
              "tbdMint", "tbdBurn", "tbdTransfer", "tbdAdd", "tbdRemove", "deployTbd", "setContract"}

CashMoved(w, c, e)      == e = [w EXCEPT !.cash = Moved(@, c.from, c.to)]
CashListed(w, c, e)     == e = [w EXCEPT !.listed = Listing(@, c)]
DepositMoved(w, c, e)   == e = [w EXCEPT !.tbds[c.tbd].deposit = Moved(@, c.from, c.to)]
DepositListed(w, c, e)  == e = [w EXCEPT !.tbds[c.tbd].listed = Listing(@, c)]
TbdDeployed(w, from, e) == e = [w EXCEPT !.tbds = Append(@, NewTbd(from))]
Registered(w, c, e)     == e = [w EXCEPT !.registry[c.name] = c.tbd]

\* The effect of a call, by its name
LEMMA EffectCases ==
    ASSUME NEW w, NEW from, NEW c, NEW t
    PROVE  /\ c.fn = "deployBond" => Effect(w, from, c, t) = DeployBond(w)
           /\ c.fn = "deployAuction" => Effect(w, from, c, t) = DeployAuction(w, c)
           /\ c.fn = "disableBond" => Effect(w, from, c, t) = DisableBond(w)
           /\ c.fn = "closeAuction" => Effect(w, from, c, t) = WithLatest(w, "CLOSED")
           /\ c.fn = "cancelAuction" => Effect(w, from, c, t) = CancelAuction(w)
           /\ c.fn = "finaliseAuction" => Effect(w, from, c, t) = Finalise(w, c, t)
           /\ c.fn = "payCoupon" => Effect(w, from, c, t) = PayCoupon(w, c)
           /\ c.fn = "submitBid" => Effect(w, from, c, t) = SubmitBid(w, from, c)
           /\ c.fn \in MoneyCalls => CashMoved(w, c, Effect(w, from, c, t))
           /\ c.fn \in {"add", "remove"} => CashListed(w, c, Effect(w, from, c, t))
           /\ c.fn \in DepositMoves => DepositMoved(w, c, Effect(w, from, c, t))
           /\ c.fn \in {"tbdAdd", "tbdRemove"} => DepositListed(w, c, Effect(w, from, c, t))
           /\ c.fn = "deployTbd" => TbdDeployed(w, from, Effect(w, from, c, t))
           /\ c.fn = "setContract" => Registered(w, c, Effect(w, from, c, t))
<1> DEFINE cash    == [w EXCEPT !.cash = Moved(@, c.from, c.to)]
           listed  == [w EXCEPT !.listed = Listing(@, c)]
           deposit == [w EXCEPT !.tbds[c.tbd].deposit = Moved(@, c.from, c.to)]
           listing == [w EXCEPT !.tbds[c.tbd].listed = Listing(@, c)]
           tbds    == [w EXCEPT !.tbds = Append(@, NewTbd(from))]
           named   == [w EXCEPT !.registry[c.name] = c.tbd]
           e       == Effect(w, from, c, t)
<1>1. e = CASE c.fn = "deployBond"   -> DeployBond(w)
            [] c.fn = "deployAuction" -> DeployAuction(w, c)
            [] c.fn = "disableBond"  -> DisableBond(w)
            [] c.fn = "closeAuction" -> WithLatest(w, "CLOSED")
            [] c.fn = "cancelAuction" -> CancelAuction(w)
            [] c.fn = "finaliseAuction" -> Finalise(w, c, t)
            [] c.fn = "payCoupon"    -> PayCoupon(w, c)
            [] c.fn = "submitBid"    -> SubmitBid(w, from, c)
            [] c.fn \in MoneyCalls   -> cash
            [] c.fn \in {"add", "remove"} -> listed
            [] c.fn \in DepositMoves -> deposit
            [] c.fn \in {"tbdAdd", "tbdRemove"} -> listing
            [] c.fn = "deployTbd"    -> tbds
            [] c.fn = "setContract"  -> named
  BY Zenon DEF Effect
<1> HIDE DEF e, cash, listed, deposit, listing, tbds, named
<1>2. /\ c.fn = "deployBond" => e = DeployBond(w)
      /\ c.fn = "deployAuction" => e = DeployAuction(w, c)
      /\ c.fn = "disableBond" => e = DisableBond(w)
      /\ c.fn = "closeAuction" => e = WithLatest(w, "CLOSED")
      /\ c.fn = "cancelAuction" => e = CancelAuction(w)
      /\ c.fn = "finaliseAuction" => e = Finalise(w, c, t)
      /\ c.fn = "payCoupon" => e = PayCoupon(w, c)
      /\ c.fn = "submitBid" => e = SubmitBid(w, from, c)
  BY <1>1 DEF MoneyCalls, DepositMoves
<1>3. /\ c.fn \in MoneyCalls => e = cash
      /\ c.fn \in {"add", "remove"} => e = listed
      /\ c.fn \in DepositMoves => e = deposit
      /\ c.fn \in {"tbdAdd", "tbdRemove"} => e = listing
      /\ c.fn = "deployTbd" => e = tbds
      /\ c.fn = "setContract" => e = named
  BY <1>1 DEF MoneyCalls, DepositMoves
<1>4. /\ c.fn \in MoneyCalls => CashMoved(w, c, e)
      /\ c.fn \in {"add", "remove"} => CashListed(w, c, e)
  BY <1>3, Zenon DEF cash, listed, CashMoved, CashListed
<1>5. /\ c.fn \in DepositMoves => DepositMoved(w, c, e)
      /\ c.fn \in {"tbdAdd", "tbdRemove"} => DepositListed(w, c, e)
  BY <1>3, Zenon DEF deposit, listing, DepositMoved, DepositListed
<1>6. /\ c.fn = "deployTbd" => TbdDeployed(w, from, e)
      /\ c.fn = "setContract" => Registered(w, c, e)
  BY <1>3, Zenon DEF tbds, named, TbdDeployed, Registered
<1> QED BY <1>2, <1>4, <1>5, <1>6 DEF e

MarketFields == {"time", "created", "active", "offering", "matured", "issued", "due", "units",
                 "auctions", "cash", "listed", "tbds", "registry"}

\* A state with these fields, whose deposit contracts are numbered
HasContracts(w) == DOMAIN w = MarketFields /\ w.tbds \in Seq(Range(w.tbds))

\* The states differ in the bond and in money, and neither in deposit contracts nor in names.
SameBanks(w, e) == DOMAIN e = DOMAIN w /\ e.tbds = w.tbds /\ e.registry = w.registry

LEMMA OtherField ==
    ASSUME NEW w, DOMAIN w = MarketFields, NEW x
    PROVE  /\ SameBanks(w, [w EXCEPT !.time = x]) /\ SameBanks(w, [w EXCEPT !.created = x])
           /\ SameBanks(w, [w EXCEPT !.active = x]) /\ SameBanks(w, [w EXCEPT !.offering = x])
           /\ SameBanks(w, [w EXCEPT !.matured = x]) /\ SameBanks(w, [w EXCEPT !.issued = x])
           /\ SameBanks(w, [w EXCEPT !.due = x]) /\ SameBanks(w, [w EXCEPT !.units = x])
           /\ SameBanks(w, [w EXCEPT !.cash = x]) /\ SameBanks(w, [w EXCEPT !.listed = x])
           /\ SameBanks(w, [w EXCEPT !.auctions = x])
BY DEF SameBanks, MarketFields

LEMMA SameBanksTwice ==
    ASSUME NEW w, NEW u, NEW e, SameBanks(w, u), SameBanks(u, e)
    PROVE  SameBanks(w, e)
BY DEF SameBanks

LEMMA StatusOnBanks ==
    ASSUME NEW w, DOMAIN w = MarketFields, NEW status
    PROVE  SameBanks(w, WithLatest(w, status))
<1> DEFINE x == [w.auctions EXCEPT ![Len(w.auctions)].status = status]
           e == WithLatest(w, status)
<1>1. e = [w EXCEPT !.auctions = x]
  BY DEF WithLatest
<1> HIDE DEF x, e
<1>2. SameBanks(w, [w EXCEPT !.auctions = x])
  BY OtherField
<1>3. SameBanks(w, e)
  BY <1>1, <1>2
<1> QED BY <1>3 DEF e

LEMMA DeployOnBanks ==
    ASSUME NEW w, DOMAIN w = MarketFields
    PROVE  SameBanks(w, DeployBond(w))
BY DEF DeployBond, SameBanks, MarketFields

LEMMA SettledOnBanks ==
    ASSUME NEW w, DOMAIN w = MarketFields, NEW after
    PROVE  SameBanks(w, Settled(w, after))
BY DEF Settled, SameBanks, MarketFields

LEMMA FinaliseOnBanks ==
    ASSUME NEW w, DOMAIN w = MarketFields, NEW c, NEW t
    PROVE  SameBanks(w, Finalise(w, c, t))
<1> DEFINE total  == Allocated(c)
           w0     == [w EXCEPT !.auctions[Len(w.auctions)].allocations = c.allocations]
           w1     == WithLatest(w0, "FINALISED")
           minted == [w1 EXCEPT !.units[Manager] = @ + total, !.issued = TRUE,
                                !.due = IF c.type = "RATE" THEN t + 1 ELSE @]
           bought == FoldLeft(SettleBuyback, w1, c.allocations)
           sold   == FoldLeft(SettleIssuance, minted, c.allocations)
<1>1. Finalise(w, c, t) = IF c.type = "BUYBACK" THEN Settled(w1, bought) ELSE Settled(minted, sold)
  BY Zenon DEF Finalise
<1>2. SameBanks(w, w0)
  <2> DEFINE x == [w.auctions EXCEPT ![Len(w.auctions)].allocations = c.allocations]
  <2>1. w0 = [w EXCEPT !.auctions = x]
    OBVIOUS
  <2> HIDE DEF x, w0
  <2> QED BY <2>1, OtherField
<1> HIDE DEF total, w0, bought, sold
<1>3. SameBanks(w, w1) /\ DOMAIN w1 = MarketFields
  BY <1>2, StatusOnBanks, SameBanksTwice DEF SameBanks
<1>4. SameBanks(w1, minted) /\ DOMAIN minted = MarketFields
  <2> DEFINE units == [w1.units EXCEPT ![Manager] = @ + total]
             due   == IF c.type = "RATE" THEN t + 1 ELSE w1.due
             m     == [w1 EXCEPT !.units = units, !.issued = TRUE, !.due = due]
  <2> HIDE DEF w1
  <2>1. minted = m
    BY <1>3 DEF MarketFields
  <2> HIDE DEF units, due, minted
  <2>2. SameBanks(w1, m) /\ DOMAIN m = MarketFields
    BY <1>3 DEF SameBanks, MarketFields
  <2> QED BY <2>1, <2>2
<1> HIDE DEF w1, minted
<1>5. SameBanks(w, Settled(w1, bought))
  BY <1>3, SettledOnBanks, SameBanksTwice
<1>6. SameBanks(w, Settled(minted, sold))
  BY <1>3, <1>4, SettledOnBanks, SameBanksTwice
<1> QED BY <1>1, <1>5, <1>6

\* The bond's calls and those that move WNOK leave the banks alone.
LEMMA BondCallsOnBanks ==
    ASSUME NEW w, DOMAIN w = MarketFields, NEW from, NEW c, NEW t,
           c.fn \in BondCalls \cup MoneyCalls \cup {"add", "remove"}
    PROVE  SameBanks(w, Effect(w, from, c, t))
<1> DEFINE e == Effect(w, from, c, t)
<1> HIDE DEF e
<1>1. CASE c.fn \in {"deployBond", "closeAuction"}
  <2>1. e \in {DeployBond(w), WithLatest(w, "CLOSED")}
    BY <1>1, EffectCases DEF e
  <2> QED BY <2>1, DeployOnBanks, StatusOnBanks DEF e
<1>2. CASE c.fn = "deployAuction"
  <2> DEFINE w1 == IF c.fresh THEN DeployBond(w) ELSE w
             offering == IF c.type = "BUYBACK" THEN w1.offering ELSE w1.offering + c.size
             auctions == Append(w1.auctions, [type |-> c.type, status |-> "BIDDING", end |-> c.end,
                                 size |-> c.size, key |-> c.key, bids |-> <<>>, allocations |-> <<>>])
  <2>1. e = DeployAuction(w, c)
    BY <1>2, EffectCases DEF e
  <2>2. SameBanks(w, w) /\ SameBanks(w, DeployBond(w))
    BY DeployOnBanks DEF SameBanks
  <2>3. SameBanks(w, w1) /\ DOMAIN w1 = MarketFields
    BY <2>2 DEF SameBanks
  <2>4. DeployAuction(w, c) = [w1 EXCEPT !.offering = offering, !.auctions = auctions]
    <3>1. DOMAIN w1 = MarketFields
      BY <2>3
    <3> DEFINE a1 == [w1 EXCEPT !.offering = IF c.type = "BUYBACK" THEN @ ELSE @ + c.size,
                   !.auctions = Append(@, [type |-> c.type, status |-> "BIDDING", end |-> c.end,
                                           size |-> c.size, key |-> c.key, bids |-> <<>>, allocations |-> <<>>])]
    <3>2. DeployAuction(w, c) = a1
      BY Zenon DEF DeployAuction
    <3> HIDE DEF w1
    <3>3. a1 = [w1 EXCEPT !.offering = offering, !.auctions = auctions]
      BY <3>1 DEF MarketFields
    <3> QED BY <3>2, <3>3
  <2> HIDE DEF w1, offering, auctions
  <2>5. SameBanks(w1, [w1 EXCEPT !.offering = offering, !.auctions = auctions])
    BY <2>3 DEF SameBanks, MarketFields
  <2> QED BY <2>1, <2>3, <2>4, <2>5, SameBanksTwice DEF e
<1>3. CASE c.fn = "disableBond"
  <2>1. e = DisableBond(w)
    BY <1>3, EffectCases DEF e
  <2>2. SameBanks(w, DisableBond(w))
    BY DEF DisableBond, SameBanks, MarketFields
  <2> QED BY <2>1, <2>2 DEF e
<1>4. CASE c.fn = "cancelAuction"
  <2> DEFINE x == w.offering - Last(w.auctions).size
             u == [w EXCEPT !.offering = x]
  <2>1. e = WithLatest(u, "CANCELLED")
    BY <1>4, EffectCases DEF e, CancelAuction
  <2> HIDE DEF x
  <2>2. SameBanks(w, u) /\ DOMAIN u = MarketFields
    BY OtherField DEF SameBanks
  <2> HIDE DEF u
  <2> QED BY <2>1, <2>2, StatusOnBanks, SameBanksTwice DEF e
<1>5. CASE c.fn = "finaliseAuction"
  <2>1. e = Finalise(w, c, t)
    BY <1>5, EffectCases DEF e
  <2> QED BY <2>1, FinaliseOnBanks DEF e
<1>6. CASE c.fn = "payCoupon"
  <2> DEFINE payouts == Payouts(w, c.holders)
             paid    == FoldSet(LAMBDA h, u : Pay(u, Reserve, h, payouts[h]), w, DOMAIN payouts)
             cash    == paid.cash
             units   == [a \in Owners |-> 0]
  <2>1. PayCoupon(w, c) = [w EXCEPT !.cash = cash, !.units = units, !.matured = TRUE]
    BY Zenon DEF PayCoupon
  <2>2. e = PayCoupon(w, c)
    BY <1>6, EffectCases DEF e
  <2> HIDE DEF cash, units
  <2>3. SameBanks(w, [w EXCEPT !.cash = cash, !.units = units, !.matured = TRUE])
    BY DEF SameBanks, MarketFields
  <2> QED BY <2>1, <2>2, <2>3 DEF e
<1>7. CASE c.fn = "submitBid"
  <2> DEFINE x == [w.auctions EXCEPT ![c.auction].bids = Append(@, [c.bid EXCEPT !.bidder = from])]
  <2>1. e = [w EXCEPT !.auctions = x]
    <3>1. e = SubmitBid(w, from, c)
      BY <1>7, EffectCases DEF e
    <3>2. SubmitBid(w, from, c) = [w EXCEPT !.auctions = x]
      BY DEF SubmitBid
    <3> QED BY <3>1, <3>2
  <2> HIDE DEF x
  <2>2. SameBanks(w, [w EXCEPT !.auctions = x])
    BY OtherField
  <2>3. SameBanks(w, e)
    BY <2>1, <2>2
  <2> QED BY <2>3 DEF e
<1>8. CASE c.fn \in MoneyCalls
  <2> DEFINE x == Moved(w.cash, c.from, c.to)
  <2>1. e = [w EXCEPT !.cash = x]
    BY <1>8, EffectCases DEF e, CashMoved
  <2> HIDE DEF x
  <2>2. SameBanks(w, [w EXCEPT !.cash = x])
    BY OtherField
  <2>3. SameBanks(w, e)
    BY <2>1, <2>2
  <2> QED BY <2>3 DEF e
<1>9. CASE c.fn \in {"add", "remove"}
  <2> DEFINE x == Listing(w.listed, c)
  <2>1. e = [w EXCEPT !.listed = x]
    BY <1>9, EffectCases DEF e, CashListed
  <2> HIDE DEF x
  <2>2. SameBanks(w, [w EXCEPT !.listed = x])
    BY OtherField
  <2>3. SameBanks(w, e)
    BY <2>1, <2>2
  <2> QED BY <2>3 DEF e
<1> QED BY <1>1, <1>2, <1>3, <1>4, <1>5, <1>6, <1>7, <1>8, <1>9 DEF BondCalls

\* A field of one deposit contract is set.
LEMMA ContractSet ==
    ASSUME NEW s, s \in Seq(Range(s)), NEW k, NEW y
    PROVE  /\ [s EXCEPT ![k] = y] \in Seq(Range([s EXCEPT ![k] = y]))
           /\ Len([s EXCEPT ![k] = y]) = Len(s)
<1> DEFINE u == [s EXCEPT ![k] = y]
           S == Range(s) \cup {y}
<1>1. Len(s) \in Nat /\ s \in [1 .. Len(s) -> Range(s)]
  OBVIOUS
<1>2. u \in [1 .. Len(s) -> S]
  BY <1>1
<1> HIDE DEF u, S
<1>3. u \in Seq(S)
  BY <1>1, <1>2, SeqDef
<1>4. Len(u) = Len(s)
  BY <1>1, <1>2, <1>3, LenProperties
<1> QED BY <1>3, <1>4, OverItsMembers DEF u

\* A call leaves as many deposit contracts as there were, and one more when it deploys one.
LEMMA EffectOnContracts ==
    ASSUME NEW w, HasContracts(w), NEW from, NEW c, c.fn \in CallNames, NEW t
    PROVE  /\ HasContracts(Effect(w, from, c, t)) /\ Len(w.tbds) \in Nat
           /\ Len(Effect(w, from, c, t).tbds) = IF c.fn = "deployTbd" THEN Len(w.tbds) + 1 ELSE Len(w.tbds)
<1> DEFINE e == Effect(w, from, c, t)
<1> HIDE DEF e
<1>1. DOMAIN w = MarketFields /\ w.tbds \in Seq(Range(w.tbds)) /\ Len(w.tbds) \in Nat
  BY DEF HasContracts
<1>2. CASE c.fn \in BondCalls \cup MoneyCalls \cup {"add", "remove"}
  <2>1. SameBanks(w, e)
    BY <1>1, <1>2, BondCallsOnBanks DEF e
  <2>2. c.fn # "deployTbd"
    BY <1>2 DEF BondCalls, MoneyCalls
  <2> QED BY <1>1, <2>1, <2>2 DEF SameBanks, HasContracts, e
<1>3. CASE c.fn \in DepositMoves \cup {"tbdAdd", "tbdRemove"}
  <2> DEFINE y1 == [w.tbds[c.tbd] EXCEPT !.deposit = Moved(@, c.from, c.to)]
             y2 == [w.tbds[c.tbd] EXCEPT !.listed = Listing(@, c)]
  <2>1. \E y : e = [w EXCEPT !.tbds = [w.tbds EXCEPT ![c.tbd] = y]]
    <3>1. c.fn \in DepositMoves => e = [w EXCEPT !.tbds = [w.tbds EXCEPT ![c.tbd] = y1]]
      BY EffectCases DEF e, DepositMoved
    <3>2. c.fn \in {"tbdAdd", "tbdRemove"} => e = [w EXCEPT !.tbds = [w.tbds EXCEPT ![c.tbd] = y2]]
      <4>1. c.fn \in {"tbdAdd", "tbdRemove"} => DepositListed(w, c, e)
        BY EffectCases DEF e
      <4>2. DepositListed(w, c, e) => e = [w EXCEPT !.tbds = [w.tbds EXCEPT ![c.tbd] = y2]]
        BY DEF DepositListed
      <4> QED BY <4>1, <4>2
    <3> HIDE DEF y1, y2
    <3> QED BY <1>3, <3>1, <3>2
  <2>2. PICK y : e = [w EXCEPT !.tbds = [w.tbds EXCEPT ![c.tbd] = y]]
    BY <2>1
  <2> DEFINE tbds == [w.tbds EXCEPT ![c.tbd] = y]
  <2>3. tbds \in Seq(Range(tbds)) /\ Len(tbds) = Len(w.tbds)
    BY <1>1, ContractSet
  <2>4. e = [w EXCEPT !.tbds = tbds]
    BY <2>2
  <2> HIDE DEF tbds
  <2>5. DOMAIN e = MarketFields /\ e.tbds = tbds
    BY <1>1, <2>4 DEF MarketFields
  <2>6. c.fn # "deployTbd"
    BY <1>3 DEF DepositMoves
  <2> QED BY <1>1, <2>3, <2>5, <2>6 DEF HasContracts, e
<1>4. CASE c.fn = "deployTbd"
  <2> DEFINE x    == NewTbd(from)
             tbds == Append(w.tbds, x)
  <2>1. e = [w EXCEPT !.tbds = tbds]
    BY <1>4, EffectCases DEF e, TbdDeployed
  <2> HIDE DEF x
  <2>2. tbds \in Seq(Range(tbds)) /\ Len(tbds) = Len(w.tbds) + 1
    BY <1>1, GrownSeq
  <2> HIDE DEF tbds
  <2>3. DOMAIN e = MarketFields /\ e.tbds = tbds
    BY <1>1, <2>1 DEF MarketFields
  <2> QED BY <1>1, <1>4, <2>2, <2>3 DEF HasContracts, e
<1>5. CASE c.fn = "setContract"
  <2> DEFINE x == [w.registry EXCEPT ![c.name] = c.tbd]
  <2>1. e = [w EXCEPT !.registry = x]
    BY <1>5, EffectCases DEF e, Registered
  <2> HIDE DEF x
  <2>2. DOMAIN e = MarketFields /\ e.tbds = w.tbds
    BY <1>1, <2>1 DEF MarketFields
  <2> QED BY <1>1, <1>5, <2>2 DEF HasContracts, e
<1> QED BY <1>2, <1>3, <1>4, <1>5 DEF CallNames, BondCalls, MoneyCalls, DepositMoves

-----------------------------------------------------------------------------
(* The invariant                                                            *)

\* The transactions of a request the node holds, and the blocks that mined one
Pooled(r) == {tx \in pool : tx.req = r}
Mined(r)  == {b \in DOMAIN blocks : blocks[b].tx # NoTx /\ blocks[b].tx.req = r}

\* The node mines each nonce of a key once, and holds each it has not mined at most once.
MinedTxs == {blocks[b].tx : b \in DOMAIN blocks} \ {NoTx}
NodeInv ==
    /\ \A tx \in MinedTxs : tx.nonce \in Nat /\ tx.nonce < MinedCount(tx.key)
    /\ \A a, b \in DOMAIN blocks :
          /\ blocks[a].tx # NoTx /\ blocks[b].tx # NoTx
          /\ blocks[a].tx.key = blocks[b].tx.key /\ blocks[a].tx.nonce = blocks[b].tx.nonce
          => a = b
    /\ \A tx \in pool : tx.nonce \in Nat /\ tx.nonce >= MinedCount(tx.key)
    /\ \A x, y \in pool : x.key = y.key /\ x.nonce = y.nonce => x = y

\* All but a bank creation send one transaction.
One(r) == requests[r].op.kind # "BANK_CREATE"

\* A request that has sent nothing; and one of which nothing has happened nor will.
Before == {"arrived", "planned", "simulated", "queued", "prepared", "composing", "checked"}
Untouched(r) == trail[r] = <<>> /\ Pooled(r) = {} /\ (One(r) => Mined(r) = {})
Undone(r)    == Pooled(r) = {} /\ (One(r) => Effects(r) = {})

\* The answer agrees with the record, or the bond was found disabled.
FoundDisabled(r) ==
    requests[r].answer = 204 /\ \E b \in DOMAIN blocks : requests[r].read <= b /\ ~blocks[b].state.active
Told(r) ==
    requests[r].step = "answered" /\ requests[r].op.kind \notin Unrecorded =>
        IF trail[r] = <<"SUCCEEDED">> THEN requests[r].answer \in {200, 201, 202, 204}
        ELSE requests[r].answer \in Errors \/ FoundDisabled(r)

\* What the chain and the pool hold of a request, by its step and its record
Traced(r) ==
    /\ requests[r].step \in Before => Untouched(r)
    /\ requests[r].step = "sent" =>
          /\ trail[r] = <<>> /\ Pooled(r) \subseteq {Transaction(r)}
          /\ One(r) => \A b \in Mined(r) : blocks[b].tx = Transaction(r)
    /\ requests[r].step = "mined" => trail[r] = <<"SUCCEEDED">>
    /\ trail[r] \in {<<>>, <<"SUCCEEDED">>, <<"REVERTED">>, <<"FAILED">>}
    /\ trail[r] = <<"SUCCEEDED">> =>
          requests[r].step \in {"mined", "answered", "lost"} /\ Pooled(r) = {} /\ (One(r) => Effects(r) # {})
    /\ trail[r] = <<"REVERTED">> => requests[r].step = "answered" /\ Undone(r)
    /\ requests[r].step = "answered" /\ faults = 0 /\ trail[r] # <<"SUCCEEDED">> => Undone(r)
    /\ requests[r].read \in 0 .. Len(blocks)
    /\ Told(r)

\* What a request signs: a bank creation deploys its contract first, and knows it after.
\* Those about bidders have steps of their own.
Called(r) ==
    /\ requests[r].step \in Signing =>
          /\ requests[r].call.fn \in CallNames
          /\ requests[r].op.kind = "BOND_DISABLE" => requests[r].call.fn = "disableBond"
          /\ ~One(r) => requests[r].call.fn = "deployTbd" \/ requests[r].tbd # 0
    /\ requests[r].step \in {"composing", "checked"} => requests[r].op.kind \in Unrecorded

\* Blocks that deployed a deposit contract: its number is its own, and never zero.
Deploys(b)   == blocks[b].tx # NoTx /\ blocks[b].error = "none" /\ blocks[b].tx.call.fn = "deployTbd"
Contracts(b) == Len(blocks[b].state.tbds)
MarketInv ==
    /\ \A b \in DOMAIN blocks : HasContracts(blocks[b].state)
    /\ \A tx \in pool : tx.call.fn \in CallNames
    /\ \A b \in DOMAIN blocks : Deploys(b) => 0 < Contracts(b) /\ Contracts(b) <= Contracts(Len(blocks))
    /\ \A a, b \in DOMAIN blocks : Deploys(a) /\ Deploys(b) /\ a < b => Contracts(a) < Contracts(b)

\* The contract of a bank creation is one its own transaction deployed, and the rows are
\* those of the creations that succeeded.
Contracted(r) ==
    \E b \in DOMAIN blocks : Deploys(b) /\ blocks[b].tx.req = r /\ requests[r].tbd = Contracts(b)
Banked(r) ==
    /\ requests[r].tbd # 0 => Contracted(r)
    /\ ~One(r) /\ trail[r] = <<"SUCCEEDED">> => BankRow(r) \in bankRows
RowOf(q, row) == ~One(q) /\ trail[q] = <<"SUCCEEDED">> /\ Contracted(q) /\ row = BankRow(q)
BanksInv == \A row \in bankRows : \E q \in Requests : RowOf(q, row)

RecordInv ==
    /\ faults \in Nat
    /\ NodeInv /\ MarketInv /\ BanksInv
    /\ \A r \in Requests : Traced(r) /\ Called(r) /\ Banked(r)

-----------------------------------------------------------------------------
(* The node                                                                 *)

LEMMA NodeRests ==
    ASSUME NodeInv, UNCHANGED <<blocks, pool>>
    PROVE  NodeInv'
<1>1. MinedTxs' = MinedTxs /\ \A key : MinedCount(key)' = MinedCount(key)
  BY DEF MinedTxs, MinedCount
<1>2. \A a, b \in DOMAIN blocks' :
          /\ blocks'[a].tx # NoTx /\ blocks'[b].tx # NoTx
          /\ blocks'[a].tx.key = blocks'[b].tx.key /\ blocks'[a].tx.nonce = blocks'[b].tx.nonce
          => a = b
  BY DEF NodeInv
<1> QED BY <1>1, <1>2 DEF NodeInv

\* A transaction enters the pool.
LEMMA NodeEntered ==
    ASSUME NodeInv, ChainInv, NEW tx, Acceptable(tx), tx.nonce \in Nat \cup {NoNonce},
           pool' = pool \cup {tx}, UNCHANGED blocks
    PROVE  NodeInv'
<1>1. \A key : MinedCount(key)' = MinedCount(key) /\ MinedCount(key) \in Nat
  BY CountTypes DEF MinedCount
<1>2. tx.nonce \in Nat /\ tx.nonce >= MinedCount(tx.key)
  <2> DEFINE n == MinedCount(tx.key)
  <2>1. n \in Nat /\ tx.nonce >= n
    BY <1>1 DEF Acceptable
  <2> HIDE DEF n
  <2>2. tx.nonce \in Nat
    BY <2>1 DEF NoNonce
  <2> QED BY <2>1, <2>2 DEF n
<1>3. \A x, y \in pool' : x.key = y.key /\ x.nonce = y.nonce => x = y
  BY DEF NodeInv, Acceptable
<1>4. \A x \in pool' : x.nonce \in Nat /\ x.nonce >= MinedCount(x.key)'
  BY <1>1, <1>2 DEF NodeInv
<1>5. \A x \in MinedTxs' : x.nonce \in Nat /\ x.nonce < MinedCount(x.key)'
  BY <1>1 DEF NodeInv, MinedTxs
<1>6. \A a, b \in DOMAIN blocks' :
          /\ blocks'[a].tx # NoTx /\ blocks'[b].tx # NoTx
          /\ blocks'[a].tx.key = blocks'[b].tx.key /\ blocks'[a].tx.nonce = blocks'[b].tx.nonce
          => a = b
  BY DEF NodeInv
<1> QED BY <1>3, <1>4, <1>5, <1>6 DEF NodeInv

\* A block mines the next transaction of a key, or none.
LEMMA NodeGrows ==
    ASSUME NodeInv, ChainInv, NEW block, blocks' = Append(blocks, block),
           \/ block.tx = NoTx /\ pool' = pool
           \/ /\ block.tx \in pool /\ block.tx.nonce = MinedCount(block.tx.key)
              /\ pool' = pool \ {block.tx}
    PROVE  NodeInv'
<1> DEFINE n  == Len(blocks) + 1
           tx == block.tx
<1>1. /\ DOMAIN blocks = 1 .. Len(blocks) /\ Len(blocks) \in Nat
      /\ DOMAIN blocks' = 1 .. n /\ blocks'[n] = block
      /\ \A k \in 1 .. Len(blocks) : blocks'[k] = blocks[k]
  BY GrownSeq DEF ChainInv
<1>2. \A k \in 1 .. n : k \in 1 .. Len(blocks) \/ k = n
  BY <1>1
<1>3. \A key : MinedCount(key) \in Nat
  BY CountTypes
<1>4. \A key : tx = NoTx \/ tx.key # key => MinedCount(key)' = MinedCount(key)
  BY NotMined
<1>5. tx # NoTx => MinedCount(tx.key)' = MinedCount(tx.key) + 1
  BY OneMined
<1>6. \A key : MinedCount(key) <= MinedCount(key)'
  BY <1>3, <1>4, <1>5
<1>7. tx # NoTx => tx.nonce = MinedCount(tx.key) /\ tx \in pool /\ pool' = pool \ {tx}
  OBVIOUS
<1>8. pool' \subseteq pool
  OBVIOUS
<1> HIDE DEF n, tx
<1>0. \A x \in MinedTxs' : x \in MinedTxs \/ (x = tx /\ tx # NoTx)
  BY <1>1, <1>2 DEF MinedTxs, tx
<1>9. \A x \in MinedTxs' : x.nonce \in Nat /\ x.nonce < MinedCount(x.key)'
  <2> SUFFICES ASSUME NEW x \in MinedTxs' PROVE x.nonce \in Nat /\ x.nonce < MinedCount(x.key)'
    OBVIOUS
  <2>1. PICK k : k = x.key
    OBVIOUS
  <2>2. MinedCount(k) \in Nat /\ MinedCount(k)' \in Nat /\ MinedCount(k) <= MinedCount(k)'
    BY <1>3, <1>4, <1>5, <1>6
  <2>3. CASE x \in MinedTxs
    <3>1. x.nonce \in Nat /\ x.nonce < MinedCount(k)
      BY <2>1, <2>3 DEF NodeInv
    <3>2. x.nonce < MinedCount(k)'
      BY <2>2, <3>1
    <3> QED BY <2>1, <3>1, <3>2
  <2>4. CASE x = tx /\ tx # NoTx
    <3>1. x.nonce = MinedCount(k) /\ MinedCount(k)' = MinedCount(k) + 1
      BY <1>5, <1>7, <2>1, <2>4
    <3>2. x.nonce \in Nat /\ x.nonce < MinedCount(k)'
      BY <2>2, <3>1
    <3> QED BY <2>1, <3>2
  <2> QED BY <1>0, <2>3, <2>4
<1>10. \A a, b \in DOMAIN blocks' :
          /\ blocks'[a].tx # NoTx /\ blocks'[b].tx # NoTx
          /\ blocks'[a].tx.key = blocks'[b].tx.key /\ blocks'[a].tx.nonce = blocks'[b].tx.nonce
          => a = b
  <2>1. \A b \in 1 .. Len(blocks) :
            blocks[b].tx # NoTx /\ tx # NoTx /\ blocks[b].tx.key = tx.key => blocks[b].tx.nonce # tx.nonce
    <3> SUFFICES ASSUME NEW b \in 1 .. Len(blocks), blocks[b].tx # NoTx, tx # NoTx,
                        blocks[b].tx.key = tx.key
                 PROVE  blocks[b].tx.nonce # tx.nonce
      OBVIOUS
    <3>1. PICK x : x = blocks[b].tx
      OBVIOUS
    <3>2. x.nonce \in Nat /\ x.nonce < MinedCount(x.key)
      BY <3>1, <1>1 DEF NodeInv, MinedTxs
    <3>3. PICK k : k = tx.key
      OBVIOUS
    <3>4. x.nonce < MinedCount(k) /\ MinedCount(k) \in Nat /\ tx.nonce = MinedCount(k)
      BY <1>3, <1>7, <3>1, <3>2, <3>3
    <3> QED BY <3>1, <3>2, <3>4
  <2>2. \A b \in 1 .. Len(blocks) : blocks'[b].tx = blocks[b].tx
    BY <1>1
  <2>3. blocks'[n].tx = tx
    BY <1>1 DEF tx
  <2>4. \A a, b \in 1 .. Len(blocks) :
          /\ blocks[a].tx # NoTx /\ blocks[b].tx # NoTx
          /\ blocks[a].tx.key = blocks[b].tx.key /\ blocks[a].tx.nonce = blocks[b].tx.nonce
          => a = b
    BY <1>1 DEF NodeInv
  <2> QED BY <1>1, <1>2, <2>1, <2>2, <2>3, <2>4
<1>11. \A x \in pool' : x.nonce \in Nat /\ x.nonce >= MinedCount(x.key)'
  <2> SUFFICES ASSUME NEW x \in pool' PROVE x.nonce \in Nat /\ x.nonce >= MinedCount(x.key)'
    OBVIOUS
  <2>1. x \in pool /\ x.nonce \in Nat /\ x.nonce >= MinedCount(x.key)
    BY <1>8 DEF NodeInv
  <2>2. CASE tx = NoTx \/ tx.key # x.key
    BY <2>1, <2>2, <1>4
  <2>3. CASE tx # NoTx /\ tx.key = x.key
    <3>1. x.nonce # tx.nonce
      BY <1>7, <2>1, <2>3 DEF NodeInv
    <3>2. PICK k : k = tx.key
      OBVIOUS
    <3>3. /\ MinedCount(k) \in Nat /\ MinedCount(k)' = MinedCount(k) + 1
          /\ tx.nonce = MinedCount(k) /\ x.nonce >= MinedCount(k) /\ x.key = k
      BY <1>3, <1>5, <1>7, <2>1, <2>3, <3>2
    <3>4. x.nonce >= MinedCount(k)'
      BY <2>1, <3>1, <3>3
    <3> QED BY <2>1, <3>3, <3>4
  <2> QED BY <2>2, <2>3
<1>12. \A x, y \in pool' : x.key = y.key /\ x.nonce = y.nonce => x = y
  BY <1>8 DEF NodeInv
<1> QED BY <1>9, <1>10, <1>11, <1>12 DEF NodeInv

-----------------------------------------------------------------------------
(* Requests that rest                                                       *)

\* Blocks are added and faults are not taken back.
Extends ==
    /\ Len(blocks) \in Nat /\ Len(blocks') \in Nat /\ Len(blocks) <= Len(blocks')
    /\ DOMAIN blocks = 1 .. Len(blocks) /\ DOMAIN blocks' = 1 .. Len(blocks')
    /\ \A b \in DOMAIN blocks : blocks'[b] = blocks[b]
    /\ faults' \in Nat /\ (faults' = 0 => faults = 0)

LEMMA ExtendsByBlock ==
    ASSUME ChainInv, faults \in Nat, UNCHANGED faults, NEW block, blocks' = Append(blocks, block)
    PROVE  Extends /\ DOMAIN blocks' = DOMAIN blocks \cup {Len(blocks) + 1}
           /\ Len(blocks') = Len(blocks) + 1 /\ blocks'[Len(blocks) + 1] = block
<1>1. /\ DOMAIN blocks = 1 .. Len(blocks) /\ Len(blocks) \in Nat
      /\ DOMAIN blocks' = 1 .. Len(blocks) + 1 /\ blocks'[Len(blocks) + 1] = block
      /\ Len(blocks') = Len(blocks) + 1
      /\ \A k \in 1 .. Len(blocks) : blocks'[k] = blocks[k]
  BY GrownSeq DEF ChainInv
<1> QED BY <1>1 DEF Extends

LEMMA ExtendsByNone ==
    ASSUME ChainInv, faults \in Nat, UNCHANGED blocks, faults' \in {faults, faults + 1}
    PROVE  Extends
BY DEF Extends, ChainInv

\* A request of which nothing changes
Rests(q) ==
    requests'[q] = requests[q] /\ trail'[q] = trail[q] /\ Pooled(q)' = Pooled(q) /\ Mined(q)' = Mined(q)

\* What took effect stays, and nothing is added to what has not been mined.
LEMMA EffectsRest ==
    ASSUME Extends, NEW q, Mined(q)' = Mined(q)
    PROVE  Effects(q)' = Effects(q)
<1>1. \A b : b \in Effects(q) <=> b \in Mined(q) /\ blocks[b].error = "none"
  BY DEF Effects, Mined
<1>2. \A b : b \in Effects(q)' <=> b \in Mined(q)' /\ blocks'[b].error = "none"
  BY DEF Effects, Mined
<1>3. \A b \in Mined(q) : blocks'[b] = blocks[b]
  BY DEF Mined, Extends
<1> QED BY <1>1, <1>2, <1>3

LEMMA DisabledStays ==
    ASSUME Extends, NEW q, FoundDisabled(q),
           requests'[q].answer = requests[q].answer, requests'[q].read = requests[q].read
    PROVE  FoundDisabled(q)'
BY DEF FoundDisabled, Extends

LEMMA RestTraced ==
    ASSUME Extends, NEW q, Rests(q), Traced(q), Called(q)
    PROVE  Traced(q)' /\ Called(q)'
<1>1. Effects(q)' = Effects(q) /\ Mined(q)' = Mined(q) /\ Pooled(q)' = Pooled(q)
  BY EffectsRest DEF Rests
<1>2. requests'[q] = requests[q] /\ trail'[q] = trail[q]
  BY DEF Rests
<1>3. (Untouched(q) => Untouched(q)') /\ (Undone(q) => Undone(q)') /\ (One(q)' <=> One(q))
  BY <1>1, <1>2 DEF Untouched, Undone, One
<1>4. Transaction(q)' = Transaction(q)
  BY <1>2 DEF Transaction
<1>5. requests[q].step = "sent" =>
          /\ trail'[q] = <<>> /\ Pooled(q)' \subseteq {Transaction(q)'}
          /\ One(q)' => \A b \in Mined(q)' : blocks'[b].tx = Transaction(q)'
  <2>1. \A b \in Mined(q) : blocks'[b].tx = blocks[b].tx
    BY DEF Mined, Extends
  <2> QED BY <1>1, <1>2, <1>3, <1>4, <2>1 DEF Traced
<1>6. requests'[q].read \in 0 .. Len(blocks')
  BY <1>2 DEF Extends, Traced
<1>7. Told(q)'
  <2>1. FoundDisabled(q) => FoundDisabled(q)'
    BY <1>2, DisabledStays DEF Traced
  <2> QED BY <1>2, <2>1 DEF Told, Traced
<1>8. Called(q)'
  BY <1>2, <1>3 DEF Called
<1>9. faults' = 0 => faults = 0
  BY DEF Extends
<1> QED BY <1>1, <1>2, <1>3, <1>5, <1>6, <1>7, <1>8, <1>9 DEF Traced

\* The contract of a request that keeps its number stays, and so does its row.
LEMMA ContractStays ==
    ASSUME Extends, NEW q, requests'[q].tbd = requests[q].tbd, Contracted(q)
    PROVE  Contracted(q)'
<1>1. PICK b \in DOMAIN blocks : Deploys(b) /\ blocks[b].tx.req = q /\ requests[q].tbd = Contracts(b)
  BY DEF Contracted
<1>2. b \in DOMAIN blocks' /\ blocks'[b] = blocks[b]
  BY DEF Extends
<1>3. Deploys(b)' /\ Contracts(b)' = Contracts(b)
  BY <1>1, <1>2 DEF Deploys, Contracts
<1> QED BY <1>1, <1>2, <1>3 DEF Contracted

LEMMA RowStays ==
    ASSUME Extends, NEW q, NEW row, RowOf(q, row), trail'[q] = trail[q],
           requests'[q].tbd = requests[q].tbd, requests'[q].op = requests[q].op
    PROVE  RowOf(q, row)'
<1>1. Contracted(q)'
  BY ContractStays DEF RowOf
<1> QED BY <1>1 DEF RowOf, One, BankRow

LEMMA BankedStays ==
    ASSUME Extends, NEW q, Banked(q), bankRows \subseteq bankRows',
           ~One(q) => (trail'[q] = <<"SUCCEEDED">> => trail[q] = <<"SUCCEEDED">>),
           requests'[q].tbd = requests[q].tbd, requests'[q].op = requests[q].op
    PROVE  Banked(q)'
<1>1. requests[q].tbd # 0 => Contracted(q)'
  BY ContractStays DEF Banked
<1>2. One(q)' = One(q) /\ BankRow(q)' = BankRow(q)
  BY DEF One, BankRow
<1> QED BY <1>1, <1>2 DEF Banked

\* One request acts, the others rest.
LEMMA OneActs ==
    ASSUME RecordInv, Extends, Requests' = Requests, NEW r \in Requests,
           \A q \in Requests \ {r} : Rests(q),
           Traced(r)', Called(r)', Banked(r)', bankRows \subseteq bankRows',
           NodeInv', MarketInv', BanksInv'
    PROVE  RecordInv'
<1>1. \A q \in Requests \ {r} : Traced(q)' /\ Called(q)' /\ Banked(q)'
  <2> TAKE q \in Requests \ {r}
  <2>1. Rests(q) /\ Traced(q) /\ Called(q) /\ Banked(q)
    BY DEF RecordInv
  <2>2. Traced(q)' /\ Called(q)'
    BY <2>1, RestTraced
  <2>3. Banked(q)'
    BY <2>1, BankedStays DEF Rests
  <2> QED BY <2>2, <2>3
<1>2. faults' \in Nat
  BY DEF Extends
<1> QED BY <1>1, <1>2 DEF RecordInv

-----------------------------------------------------------------------------
(* Requests that take a step                                                *)

\* Request r takes a step while the chain rests.
Turn(r) ==
    /\ UNCHANGED blocks /\ Requests' = Requests
    /\ \A q \in Requests \ {r} : requests'[q] = requests[q] /\ trail'[q] = trail[q]
    /\ requests'[r].op = requests[r].op

LEMMA OthersRest ==
    ASSUME NEW r \in Requests, Turn(r), pool' = pool \/ pool' = pool \cup {Transaction(r)}
    PROVE  /\ \A q \in Requests \ {r} : Rests(q)
           /\ \A q : Mined(q)' = Mined(q) /\ Effects(q)' = Effects(q)
<1>1. Transaction(r).req = r
  BY DEF Transaction
<1>2. \A q : q # r => Pooled(q)' = Pooled(q)
  BY <1>1 DEF Pooled
<1>3. \A q : Mined(q)' = Mined(q) /\ Effects(q)' = Effects(q)
  BY DEF Mined, Effects, Turn
<1> QED BY <1>2, <1>3 DEF Rests, Turn

LEMMA MarketRests ==
    ASSUME MarketInv, UNCHANGED blocks, \A tx \in pool' : tx \in pool \/ tx.call.fn \in CallNames
    PROVE  MarketInv'
<1>1. \A tx \in pool' : tx.call.fn \in CallNames
  BY DEF MarketInv
<1>2. \A b \in DOMAIN blocks' : HasContracts(blocks'[b].state)
  BY DEF MarketInv
<1>3. \A b : Deploys(b)' = Deploys(b) /\ Contracts(b)' = Contracts(b)
  BY DEF Deploys, Contracts
<1> QED BY <1>1, <1>2, <1>3 DEF MarketInv

LEMMA BanksRest ==
    ASSUME BanksInv, Extends, UNCHANGED bankRows, Requests' = Requests,
           \A q \in Requests : trail[q] = <<"SUCCEEDED">> =>
               /\ trail'[q] = trail[q] /\ requests'[q].tbd = requests[q].tbd
               /\ requests'[q].op = requests[q].op
    PROVE  BanksInv'
<1> SUFFICES ASSUME NEW row \in bankRows PROVE \E q \in Requests : RowOf(q, row)'
  BY DEF BanksInv
<1>1. PICK q \in Requests : RowOf(q, row)
  BY DEF BanksInv
<1>2. RowOf(q, row)'
  BY <1>1, RowStays DEF RowOf
<1> QED BY <1>2

\* Of r nothing but its request and its record changes; no row is written.
Aside == pool' = pool /\ bankRows' = bankRows /\ faults' = faults

\* A request goes on without having sent anything.
LEMMA GoesOn ==
    ASSUME RecordInv, ChainInv, NEW r \in Requests, Turn(r), Aside,
           trail'[r] = trail[r], requests[r].step \in Before, requests'[r].step \in Before,
           requests'[r].tbd = requests[r].tbd, requests'[r].read \in 0 .. Len(blocks), Called(r)'
    PROVE  RecordInv'
<1>1. Extends
  BY ExtendsByNone DEF RecordInv, Turn, Aside
<1>2. /\ \A q \in Requests \ {r} : Rests(q)
      /\ Mined(r)' = Mined(r) /\ Pooled(r)' = Pooled(r)
  BY OthersRest DEF Aside, Pooled
<1>3. Traced(r) /\ Untouched(r)
  BY DEF RecordInv, Traced
<1>4. Untouched(r)'
  BY <1>2, <1>3 DEF Untouched, One, Turn
<1>5. /\ trail'[r] = <<>> /\ trail'[r] # <<"SUCCEEDED">> /\ trail'[r] # <<"REVERTED">>
      /\ requests'[r].step \notin {"sent", "mined", "answered"}
  BY <1>3 DEF Untouched, Before
<1>6. Len(blocks') = Len(blocks)
  BY DEF Turn
<1>7. Traced(r)'
  BY <1>4, <1>5, <1>6 DEF Traced, Told
<1>8. \A q \in Requests : trail'[q] = trail[q] /\ requests'[q].tbd = requests[q].tbd
                          /\ requests'[q].op = requests[q].op
  BY DEF Turn
<1>9. Banked(r)'
  BY <1>1, <1>8, BankedStays DEF RecordInv, Aside
<1>10. NodeInv' /\ MarketInv' /\ BanksInv'
  BY <1>1, <1>8, NodeRests, MarketRests, BanksRest DEF RecordInv, Turn, Aside
<1> QED BY <1>1, <1>2, <1>7, <1>9, <1>10, OneActs DEF Turn, Aside

\* A request ends of which nothing has happened, nor will.
LEMMA EndsUndone ==
    ASSUME RecordInv, ChainInv, NEW r \in Requests, Turn(r), Aside,
           Undone(r), trail[r] = <<>>, trail'[r] \in {<<>>, <<"REVERTED">>, <<"FAILED">>},
           requests'[r].step = "answered", requests'[r].tbd = requests[r].tbd,
           requests'[r].read = requests[r].read,
           requests[r].op.kind \in Unrecorded \/ requests'[r].answer \in Errors \/ FoundDisabled(r)'
    PROVE  RecordInv'
<1>1. Extends
  BY ExtendsByNone DEF RecordInv, Turn, Aside
<1>2. /\ \A q \in Requests \ {r} : Rests(q)
      /\ Effects(r)' = Effects(r) /\ Pooled(r)' = Pooled(r)
  BY OthersRest DEF Aside, Pooled
<1>3. Undone(r)'
  BY <1>2 DEF Undone, One, Turn
<1>4. trail'[r] # <<"SUCCEEDED">> /\ "answered" \notin Before
  BY DEF Before
<1>5. requests'[r].read \in 0 .. Len(blocks')
  BY DEF Turn, RecordInv, Traced
<1>6. Told(r)'
  BY <1>4 DEF Told, Turn
<1>7. trail'[r] \in {<<>>, <<"SUCCEEDED">>, <<"REVERTED">>, <<"FAILED">>}
  OBVIOUS
<1>8. Traced(r)'
  BY <1>3, <1>4, <1>5, <1>6, <1>7 DEF Traced
<1>9. Called(r)'
  BY DEF Called, Signing
<1>10. Banked(r)'
  BY <1>1, <1>4, BankedStays DEF RecordInv, Aside, Turn
<1>11. <<>> # <<"SUCCEEDED">>
  OBVIOUS
<1>12. \A q \in Requests : trail[q] = <<"SUCCEEDED">> => q # r
  BY <1>11
<1>13. BanksInv'
  BY <1>1, <1>12, BanksRest DEF RecordInv, Turn, Aside
<1>14. NodeInv' /\ MarketInv'
  BY NodeRests, MarketRests DEF RecordInv, Turn, Aside
<1> QED BY <1>1, <1>2, <1>8, <1>9, <1>10, <1>13, <1>14, OneActs DEF Turn, Aside

\* While a request has sent nothing, nothing has happened.
LEMMA UntouchedUndone ==
    ASSUME NEW r, Untouched(r)
    PROVE  Undone(r) /\ trail[r] = <<>>
BY DEF Untouched, Undone, Effects, Mined

\* A record appended to none
LEMMA Recorded ==
    ASSUME RequestInv, NEW r \in Requests, NEW status, Record(r, status), trail[r] = <<>>
    PROVE  trail'[r] = <<status>> /\ \A q \in Requests \ {r} : trail'[q] = trail[q]
BY DEF Record, RequestInv

\* What Step and Answer leave of a request
LEMMA StepFacts ==
    ASSUME RequestInv, NEW r \in Requests, NEW step, Step(r, step)
    PROVE  /\ Requests' = Requests /\ \A q \in Requests \ {r} : requests'[q] = requests[q]
           /\ requests'[r].op = requests[r].op /\ requests'[r].step = step
           /\ requests'[r].tbd = requests[r].tbd /\ requests'[r].read = requests[r].read
           /\ requests'[r].call = requests[r].call /\ Transaction(r)' = Transaction(r)
BY DEF Step, RequestInv, Fields, Transaction, Requests

LEMMA AnswerFacts ==
    ASSUME RequestInv, NEW r \in Requests, NEW code, Answer(r, code)
    PROVE  /\ Requests' = Requests /\ \A q \in Requests \ {r} : requests'[q] = requests[q]
           /\ requests'[r].op = requests[r].op /\ requests'[r].step = "answered"
           /\ requests'[r].tbd = requests[r].tbd /\ requests'[r].read = requests[r].read
           /\ requests'[r].answer = code
<1>1. Requests' = Requests /\ \A q \in Requests \ {r} : requests'[q] = requests[q]
  BY DEF Answer, RequestInv, Requests
<1>2. requests[r] = Fields(requests[r]) /\ r \in DOMAIN requests
  BY DEF RequestInv, Requests
<1> DEFINE f == Fields(requests[r])
<1>3. requests'[r] = [f EXCEPT !.step = "answered", !.answer = code]
  BY <1>2, Zenon DEF Answer
<1>4. /\ requests'[r].op = f.op /\ requests'[r].step = "answered" /\ requests'[r].answer = code
      /\ requests'[r].tbd = f.tbd /\ requests'[r].read = f.read
  BY <1>3 DEF Fields
<1> HIDE DEF f
<1> QED BY <1>1, <1>2, <1>4 DEF f

\* A request fails of which nothing has happened, nor will.
LEMMA FailRecorded ==
    ASSUME RecordInv, IInv, NEW r \in Requests, NEW status \in {"REVERTED", "FAILED"},
           NEW code \in Errors, Fail(r, status, code), UNCHANGED blocks, Aside,
           Undone(r), trail[r] = <<>>
    PROVE  RecordInv'
<1>1. Turn(r) /\ trail'[r] = <<status>>
  BY AnswerFacts, Recorded DEF Fail, IInv, Turn
<1>2. /\ requests'[r].step = "answered" /\ requests'[r].tbd = requests[r].tbd
      /\ requests'[r].read = requests[r].read /\ requests'[r].answer \in Errors
  BY AnswerFacts DEF Fail, IInv
<1>3. trail'[r] \in {<<>>, <<"REVERTED">>, <<"FAILED">>}
  BY <1>1
<1> QED BY <1>1, <1>2, <1>3, EndsUndone DEF IInv

\* The call a request begins with has a name, and it is the one of its kind.
LEMMA FirstCallName ==
    ASSUME NEW kind \in Kinds \ Unrecorded
    PROVE  /\ FirstCall(kind) \in CallNames
           /\ kind = "BOND_DISABLE" => FirstCall(kind) = "disableBond"
           /\ kind = "BANK_CREATE" => FirstCall(kind) = "deployTbd"
<1>1. CASE kind \in Managed \cup {"BID_SUBMISSION", "BANK_CREATE"}
  BY <1>1, KindDomains DEF FirstCall, Managed, CallNames
<1>2. CASE kind \in DOMAIN Wnok
  <2>1. FirstCall(kind) = Wnok[kind]
    BY <1>2, KindDomains DEF FirstCall
  <2>2. Wnok[kind] \in {"mint", "burn", "transfer", "add", "remove"}
    BY <1>2 DEF Wnok
  <2> QED BY <1>2, <2>1, <2>2, KindDomains DEF CallNames
<1>3. CASE kind \in DOMAIN TbdCalls
  <2>1. FirstCall(kind) = TbdCalls[kind]
    BY <1>3, KindDomains DEF FirstCall
  <2>2. TbdCalls[kind] \in {"tbdMint", "tbdBurn", "tbdTransfer", "tbdAdd", "tbdRemove"}
    BY <1>3 DEF TbdCalls
  <2> QED BY <1>3, <2>1, <2>2, KindDomains DEF CallNames
<1> QED BY <1>1, <1>2, <1>3 DEF Kinds, Unrecorded

LEMMA ArriveRecorded ==
    ASSUME RecordInv, IInv, NEW r \in Requests, Arrive(r)
    PROVE  RecordInv'
<1> DEFINE plan == Plan(Here, requests[r].op)
           kind == requests[r].op.kind
<1>1. /\ plan.answer \in Errors \/ (plan.answer = 0 /\ plan.call.fn = FirstCall(kind))
      /\ kind \in Kinds \ Unrecorded
  <2>1. Here.bidders \subseteq Wallets /\ \A b \in Here.banks : b.key # Admin
    BY DEF Here, IInv, RowInv
  <2>2. Known(requests[r].op)
    BY DEF IInv, RequestInv
  <2>3. requests[r].op.kind \notin {"BIDDER_CREATE", "BIDDER_DELETE"}
    BY DEF Arrive
  <2>4. IF kind \in Managed THEN ByOperator(plan, FirstCall(kind)) ELSE ByOther(plan, FirstCall(kind))
    BY <2>1, <2>2, <2>3, EveryPlan
  <2> QED BY <2>2, <2>3, <2>4 DEF ByOperator, ByOther, Known, Unrecorded
<1>2. /\ requests[r].step = "arrived" /\ UNCHANGED blocks /\ Aside
      /\ IF plan.answer = 0
           THEN /\ requests' = [requests EXCEPT ![r].step = "planned", ![r].read = Len(blocks), ![r].seen = projected,
                                                ![r].key = plan.key, ![r].call = plan.call]
                /\ UNCHANGED trail
           ELSE /\ Answer(r, plan.answer)
                /\ IF plan.recorded THEN Record(r, "FAILED") ELSE UNCHANGED trail
  BY Zenon DEF Arrive, OfChain, OfRows, Aside
<1>3. Undone(r) /\ trail[r] = <<>>
  BY <1>2, UntouchedUndone DEF RecordInv, Traced, Before
<1> HIDE DEF plan
<1>4. CASE plan.answer = 0
  <2>1. /\ Requests' = Requests /\ \A q \in Requests \ {r} : requests'[q] = requests[q]
        /\ requests'[r].op = requests[r].op /\ requests'[r].step = "planned"
        /\ requests'[r].tbd = requests[r].tbd /\ requests'[r].read = Len(blocks)
        /\ requests'[r].call = plan.call
    <3>1. Requests' = Requests /\ \A q \in Requests \ {r} : requests'[q] = requests[q]
      BY <1>2, <1>4 DEF IInv, RequestInv, Requests
    <3>2. requests[r] = Fields(requests[r]) /\ r \in DOMAIN requests
      BY DEF IInv, RequestInv, Requests
    <3> DEFINE f == Fields(requests[r])
    <3>3. requests'[r] = [f EXCEPT !.step = "planned", !.read = Len(blocks), !.seen = projected,
                                   !.key = plan.key, !.call = plan.call]
      <4>1. requests' = [requests EXCEPT ![r].step = "planned", ![r].read = Len(blocks), ![r].seen = projected,
                                         ![r].key = plan.key, ![r].call = plan.call]
        BY <1>2, <1>4
      <4> QED BY <3>2, <4>1, Zenon
    <3>4. /\ requests'[r].op = f.op /\ requests'[r].step = "planned" /\ requests'[r].tbd = f.tbd
          /\ requests'[r].read = Len(blocks) /\ requests'[r].call = plan.call
      BY <3>3 DEF Fields
    <3> HIDE DEF f
    <3> QED BY <3>1, <3>2, <3>4 DEF f
  <2>2. Turn(r) /\ trail'[r] = trail[r]
    BY <1>2, <1>4, <2>1 DEF Turn
  <2>3. Called(r)'
    BY <1>1, <1>4, <2>1, FirstCallName DEF Called, One, Errors
  <2>4. requests'[r].read \in 0 .. Len(blocks)
    BY <2>1 DEF IInv, ChainInv
  <2>5. requests[r].step \in Before /\ requests'[r].step \in Before
    BY <1>2, <2>1 DEF Before
  <2> QED BY <1>2, <2>1, <2>2, <2>3, <2>4, <2>5, GoesOn DEF IInv
<1>5. CASE plan.answer # 0
  <2>1. /\ Answer(r, plan.answer) /\ plan.answer \in Errors
        /\ Record(r, "FAILED") \/ UNCHANGED trail
    BY <1>1, <1>2, <1>5
  <2>2. /\ trail'[r] \in {<<>>, <<"REVERTED">>, <<"FAILED">>}
        /\ \A q \in Requests \ {r} : trail'[q] = trail[q]
    BY <1>3, <2>1, Recorded DEF IInv
  <2>3. Turn(r)
    BY <1>2, <2>1, <2>2, AnswerFacts DEF Turn, IInv
  <2>4. /\ requests'[r].step = "answered" /\ requests'[r].tbd = requests[r].tbd
        /\ requests'[r].read = requests[r].read /\ requests'[r].answer \in Errors
    BY <2>1, AnswerFacts DEF IInv
  <2> QED BY <1>2, <1>3, <2>2, <2>3, <2>4, EndsUndone DEF IInv
<1> QED BY <1>4, <1>5

\* The simulation of a disable reports a bond already disabled when it is.
LEMMA AlreadyDisabled ==
    ASSUME NEW w
    PROVE  DisableBondError(w) = "BondAlreadyDisabled" => ~w.active
<1> DEFINE checks == <<
               <<"IncorrectBondState", InFlight(w)>>,
               <<"BondHasFinalisedAuction", \E k \in DOMAIN w.auctions : w.auctions[k].status = "FINALISED">>,
               <<"BondAlreadyDisabled", ~w.active>>,
               <<"BondNotEmpty", Supply(w) # 0>> >>
           failed == {k \in DOMAIN checks : checks[k][2]}
           m == Min(failed)
<1>1. DisableBondError(w) = IF failed = {} THEN "none" ELSE checks[m][1]
  BY Zenon DEF DisableBondError, FirstError
<1>2. DOMAIN checks = 1 .. 4
  OBVIOUS
<1>3. failed \in SUBSET (1 .. 4)
  BY <1>2
<1>4. 3 \in failed => ~w.active
  OBVIOUS
<1>5. \A k \in 1 .. 4 : checks[k][1] = "BondAlreadyDisabled" => k = 3
  OBVIOUS
<1> HIDE DEF failed, checks
<1>6. failed # {} => m \in failed
  <2> SUFFICES ASSUME failed # {} PROVE m \in failed
    OBVIOUS
  <2>1. \E x \in failed : \A y \in failed : x =< y
    <3>1. CASE 1 \in failed
      BY <1>3, <3>1
    <3>2. CASE 1 \notin failed /\ 2 \in failed
      BY <1>3, <3>2
    <3>3. CASE 1 \notin failed /\ 2 \notin failed /\ 3 \in failed
      BY <1>3, <3>3
    <3>4. CASE 1 \notin failed /\ 2 \notin failed /\ 3 \notin failed
      <4>1. \A x \in failed : x = 4
        BY <1>3, <3>4
      <4> QED BY <4>1
    <3> QED BY <3>1, <3>2, <3>3, <3>4
  <2> QED BY <2>1, Zenon DEF Min
<1> HIDE DEF m
<1> QED BY <1>1, <1>3, <1>4, <1>5, <1>6

LEMMA DisableErrors ==
    ASSUME NEW w, NEW from, NEW c, NEW t, c.fn = "disableBond"
    PROVE  Error(w, from, c, t) = DisableBondError(w)
BY DEF Error, MoneyCalls, DepositCalls, DepositMoves

LEMMA SimulateRecorded ==
    ASSUME RecordInv, IInv, NEW r \in Requests, Simulate(r)
    PROVE  RecordInv'
<1> DEFINE kind  == requests[r].op.kind
           error == Error(HeadState, Admin, requests[r].call, HeadState.time)
<1>1. /\ requests[r].step = "planned" /\ UNCHANGED blocks /\ Aside /\ kind \in Simulated
      /\ IF error = "none" THEN Step(r, "simulated") /\ UNCHANGED trail
         ELSE /\ Answer(r, SimulationAnswer(kind, error))
              /\ IF SimulationStatus(kind) = "none" THEN UNCHANGED trail
                 ELSE Record(r, SimulationStatus(kind))
  BY Zenon DEF Simulate, OfChain, OfRows, Aside
<1>2. Undone(r) /\ trail[r] = <<>> /\ Called(r)
  BY <1>1, UntouchedUndone DEF RecordInv, Traced, Before
<1>3. kind = "BOND_DISABLE" => error = DisableBondError(HeadState)
  BY <1>1, <1>2, DisableErrors DEF Called, Signing
<1> HIDE DEF error
<1>4. CASE error = "none"
  <2>1. Step(r, "simulated") /\ UNCHANGED trail
    BY <1>1, <1>4
  <2>2. /\ Turn(r) /\ trail'[r] = trail[r] /\ requests'[r].tbd = requests[r].tbd
        /\ requests'[r].call = requests[r].call /\ requests'[r].op = requests[r].op
        /\ requests'[r].step = "simulated" /\ requests'[r].read = requests[r].read
    BY <1>1, <2>1, StepFacts DEF Turn, IInv
  <2>3. Called(r)'
    BY <1>1, <1>2, <2>2 DEF Called, One, Signing
  <2>4. requests[r].step \in Before /\ requests'[r].step \in Before /\ requests'[r].read \in 0 .. Len(blocks)
    BY <1>1, <2>2 DEF Before, RecordInv, Traced
  <2> QED BY <1>1, <2>2, <2>3, <2>4, GoesOn DEF IInv
<1>5. CASE error # "none"
  <2>1. /\ Answer(r, SimulationAnswer(kind, error))
        /\ IF SimulationStatus(kind) = "none" THEN UNCHANGED trail
           ELSE Record(r, SimulationStatus(kind))
    BY <1>1, <1>5
  <2>2. SimulationStatus(kind) \in {"none", "REVERTED"}
    BY DEF SimulationStatus
  <2>3. /\ trail'[r] \in {<<>>, <<"REVERTED">>, <<"FAILED">>}
        /\ \A q \in Requests \ {r} : trail'[q] = trail[q]
    BY <1>2, <2>1, <2>2, Recorded DEF IInv
  <2>4. /\ Turn(r) /\ requests'[r].step = "answered" /\ requests'[r].tbd = requests[r].tbd
        /\ requests'[r].read = requests[r].read /\ requests'[r].answer = SimulationAnswer(kind, error)
    BY <1>1, <2>1, <2>3, AnswerFacts DEF Turn, IInv
  <2>5. requests'[r].answer \in Errors \/ FoundDisabled(r)'
    <3>1. CASE kind = "BOND_DISABLE" /\ error = "BondAlreadyDisabled"
      <4>1. ~HeadState.active
        BY <1>3, <3>1, AlreadyDisabled
      <4>2. Len(blocks) \in DOMAIN blocks /\ ~blocks[Len(blocks)].state.active
        BY <4>1 DEF HeadState, Last, IInv, ChainInv
      <4>3. requests'[r].answer = 204
        BY <2>4, <3>1 DEF SimulationAnswer
      <4>4. requests'[r].read <= Len(blocks)
        BY <2>4, <4>2 DEF RecordInv, Traced, IInv, ChainInv
      <4> QED BY <1>1, <4>2, <4>3, <4>4 DEF FoundDisabled
    <3>2. CASE ~(kind = "BOND_DISABLE" /\ error = "BondAlreadyDisabled")
      BY <2>4, <3>2 DEF SimulationAnswer, Errors
    <3> QED BY <3>1, <3>2
  <2> QED BY <1>1, <1>2, <2>3, <2>4, <2>5, EndsUndone DEF IInv
<1> QED BY <1>4, <1>5

LEMMA EnqueueRecorded ==
    ASSUME RecordInv, IInv, NEW r \in Requests, Enqueue(r)
    PROVE  RecordInv'
<1>1. /\ requests[r].step \in {"planned", "simulated"} /\ UNCHANGED blocks /\ Aside
      /\ Step(r, "queued") /\ UNCHANGED trail
  BY DEF Enqueue, OfChain, OfRows, Aside
<1>2. /\ Turn(r) /\ trail'[r] = trail[r] /\ requests'[r].tbd = requests[r].tbd
      /\ requests'[r].call = requests[r].call /\ requests'[r].op = requests[r].op
      /\ requests'[r].step = "queued" /\ requests'[r].read = requests[r].read
  BY <1>1, StepFacts DEF Turn, IInv
<1>3. Called(r)'
  BY <1>1, <1>2 DEF Called, One, Signing, RecordInv
<1>4. requests[r].step \in Before /\ requests'[r].step \in Before /\ requests'[r].read \in 0 .. Len(blocks)
  BY <1>1, <1>2 DEF Before, RecordInv, Traced
<1> QED BY <1>1, <1>2, <1>3, <1>4, GoesOn DEF IInv

\* The node and the gas estimate: a request that has sent nothing goes on or fails.
LEMMA PrepareRecorded ==
    ASSUME RecordInv, IInv, NEW r \in Requests, Prepare(r)
    PROVE  RecordInv'
<1> DEFINE request == requests[r]
           kind  == request.op.kind
           error == IF request.forced THEN "none"
                    ELSE Error(HeadState, request.key, request.call, HeadState.time)
<1>1. /\ request.step \in {"planned", "queued"} /\ UNCHANGED blocks /\ Aside
      /\ IF error = "none"
           THEN /\ requests' = [requests EXCEPT ![r].step = "prepared", ![r].nonce = NextNonce(request)]
                /\ UNCHANGED trail
           ELSE Refused(r, error)
  <2>1. MySend(r) /\ UNCHANGED blocks /\ Aside
    BY Zenon DEF Prepare, OfChain, OfRows, Aside
  <2>2. IF error = "none"
           THEN /\ requests' = [requests EXCEPT ![r].step = "prepared", ![r].nonce = NextNonce(request)]
                /\ UNCHANGED trail
           ELSE Refused(r, error)
    BY Zenon DEF Prepare
  <2> HIDE DEF error
  <2> QED BY <2>1, <2>2 DEF MySend
<1> HIDE DEF error
<1>2. Undone(r) /\ trail[r] = <<>> /\ Called(r)
  BY <1>1, UntouchedUndone DEF RecordInv, Traced, Before
<1> DEFINE f == Fields(request)
<1>3. request = f /\ r \in DOMAIN requests
  BY DEF IInv, RequestInv, Requests
<1>4. CASE /\ UNCHANGED trail
           /\ \/ requests' = [requests EXCEPT ![r].step = "prepared", ![r].nonce = NextNonce(request)]
              \/ requests' = [requests EXCEPT ![r].step = "planned", ![r].forced = TRUE]
  <2>1. Requests' = Requests /\ \A q \in Requests \ {r} : requests'[q] = requests[q]
    BY <1>4 DEF IInv, RequestInv, Requests
  <2> DEFINE next == NextNonce(request)
  <2>2. \/ requests'[r] = [f EXCEPT !.step = "prepared", !.nonce = next]
        \/ requests'[r] = [f EXCEPT !.step = "planned", !.forced = TRUE]
    BY <1>3, <1>4, Zenon
  <2> HIDE DEF next
  <2>3. /\ requests'[r].op = f.op /\ requests'[r].tbd = f.tbd /\ requests'[r].read = f.read
        /\ requests'[r].call = f.call /\ requests'[r].step \in {"prepared", "planned"}
    BY <2>2 DEF Fields
  <2> HIDE DEF f
  <2>4. /\ requests'[r].op = requests[r].op /\ requests'[r].tbd = requests[r].tbd
        /\ requests'[r].read = requests[r].read /\ requests'[r].call = requests[r].call
    BY <1>3, <2>3
  <2>5. Turn(r) /\ trail'[r] = trail[r]
    BY <1>1, <1>4, <2>1, <2>4 DEF Turn
  <2>6. Called(r)'
    BY <1>1, <1>2, <2>3, <2>4 DEF Called, One, Signing
  <2>7. requests[r].step \in Before /\ requests'[r].step \in Before /\ requests'[r].read \in 0 .. Len(blocks)
    BY <1>1, <2>3, <2>4 DEF Before, RecordInv, Traced
  <2> QED BY <1>1, <2>4, <2>5, <2>6, <2>7, GoesOn DEF IInv
<1>5. CASE error # "none" /\ ~SentAnyway(request.op, error)
  <2>1. Fail(r, EstimateStatus(kind), EstimateAnswer(kind))
    BY <1>1, <1>5 DEF Refused
  <2>2. EstimateStatus(kind) \in {"REVERTED", "FAILED"} /\ EstimateAnswer(kind) \in Errors
    BY DEF EstimateStatus, EstimateAnswer, Errors
  <2> QED BY <1>1, <1>2, <2>1, <2>2, FailRecorded
<1> QED BY <1>1, <1>4, <1>5 DEF Refused

LEMMA BroadcastRecorded ==
    ASSUME RecordInv, IInv, NEW r \in Requests, Broadcast(r)
    PROVE  RecordInv'
<1>1. /\ requests[r].step = "prepared" /\ UNCHANGED blocks /\ bankRows' = bankRows /\ faults' = faults
  BY DEF Broadcast, OfRows
<1>2. Untouched(r) /\ Called(r) /\ Traced(r) /\ Banked(r)
  BY <1>1 DEF RecordInv, Traced, Before
<1>3. CASE Acceptable(Transaction(r))
  <2>1. pool' = pool \cup {Transaction(r)} /\ Step(r, "sent") /\ UNCHANGED trail
    BY <1>3 DEF Broadcast
  <2>2. /\ Turn(r) /\ trail'[r] = trail[r] /\ requests'[r].tbd = requests[r].tbd
        /\ requests'[r].call = requests[r].call /\ requests'[r].op = requests[r].op
        /\ requests'[r].step = "sent" /\ requests'[r].read = requests[r].read
        /\ Transaction(r)' = Transaction(r)
    BY <1>1, <2>1, StepFacts DEF Turn, IInv
  <2>3. PICK tx : tx = Transaction(r)
    OBVIOUS
  <2>4. tx.req = r /\ tx.call.fn \in CallNames /\ tx.nonce \in Nat \cup {NoNonce}
    BY <1>1, <1>2, <2>3 DEF Transaction, Called, Signing, IInv, RequestInv, SoundRequest, Sound
  <2>5. NodeInv'
    BY <1>1, <1>3, <2>1, <2>3, <2>4, NodeEntered DEF RecordInv, IInv
  <2>6. MarketInv'
    BY <1>1, <2>1, <2>3, <2>4, MarketRests DEF RecordInv
  <2>7. Extends
    BY <1>1, ExtendsByNone DEF RecordInv, IInv
  <2>8. (\A q \in Requests \ {r} : Rests(q)) /\ Mined(r)' = Mined(r)
    BY <2>1, <2>2, OthersRest
  <2>9. \A q \in Requests : trail'[q] = trail[q] /\ requests'[q].tbd = requests[q].tbd
                            /\ requests'[q].op = requests[q].op
    BY <2>1, <2>2 DEF Turn
  <2>10. BanksInv' /\ Banked(r)'
    BY <1>1, <1>2, <2>2, <2>7, <2>9, BanksRest, BankedStays DEF RecordInv, Turn
  <2>11. Called(r)'
    BY <1>1, <1>2, <2>2 DEF Called, One, Signing
  <2>12. Pooled(r)' \subseteq {Transaction(r)'} /\ (One(r)' => Mined(r)' = {}) /\ trail'[r] = <<>>
    BY <1>2, <2>1, <2>2, <2>8 DEF Untouched, Pooled, One
  <2>13. trail'[r] # <<"SUCCEEDED">> /\ trail'[r] # <<"REVERTED">> /\ "sent" \notin Before
    BY <2>12 DEF Before
  <2>14. requests'[r].read \in 0 .. Len(blocks')
    BY <1>1, <1>2, <2>2 DEF Traced
  <2>15. Traced(r)'
    BY <2>2, <2>12, <2>13, <2>14 DEF Traced, Told
  <2> QED BY <1>1, <2>2, <2>5, <2>6, <2>7, <2>8, <2>10, <2>11, <2>15, OneActs DEF Turn
<1>4. CASE ~Acceptable(Transaction(r))
  <2>1. Fail(r, "FAILED", 500) /\ pool' = pool
    BY <1>4 DEF Broadcast
  <2>2. Undone(r) /\ trail[r] = <<>> /\ 500 \in Errors
    BY <1>2, UntouchedUndone DEF Errors
  <2> QED BY <1>1, <2>1, <2>2, FailRecorded DEF Aside
<1> QED BY <1>3, <1>4

\* After a lost connection the record says FAILED, and the transaction may be on its way.
LEMMA LoseConnectionRecorded ==
    ASSUME RecordInv, IInv, NEW r \in Requests, LoseConnection(r)
    PROVE  RecordInv'
<1>1. /\ requests[r].step = "prepared" /\ UNCHANGED blocks /\ bankRows' = bankRows /\ faults' = faults + 1
      /\ Fail(r, "FAILED", 500)
      /\ pool' = pool \/ (Acceptable(Transaction(r)) /\ pool' = pool \cup {Transaction(r)})
  BY DEF LoseConnection, OfRows
<1>2. Untouched(r) /\ Called(r) /\ Traced(r) /\ Banked(r)
  BY <1>1 DEF RecordInv, Traced, Before
<1>3. /\ Turn(r) /\ trail'[r] = <<"FAILED">>
      /\ requests'[r].step = "answered" /\ requests'[r].tbd = requests[r].tbd
      /\ requests'[r].read = requests[r].read /\ requests'[r].answer = 500
  BY <1>1, <1>2, AnswerFacts, Recorded DEF Fail, IInv, Turn, Untouched
<1>4. PICK tx : tx = Transaction(r)
  OBVIOUS
<1>5. tx.call.fn \in CallNames /\ tx.nonce \in Nat \cup {NoNonce}
  BY <1>1, <1>2, <1>4 DEF Transaction, Called, Signing, IInv, RequestInv, SoundRequest, Sound
<1>6. NodeInv' /\ MarketInv'
  <2>1. CASE pool' = pool
    BY <1>1, <2>1, NodeRests, MarketRests DEF RecordInv
  <2>2. CASE Acceptable(Transaction(r)) /\ pool' = pool \cup {Transaction(r)}
    BY <1>1, <1>4, <1>5, <2>2, NodeEntered, MarketRests DEF RecordInv, IInv
  <2> QED BY <1>1, <2>1, <2>2
<1>7. Extends /\ faults' # 0
  BY <1>1, ExtendsByNone DEF RecordInv, IInv
<1>8. \A q \in Requests \ {r} : Rests(q)
  BY <1>1, <1>3, OthersRest
<1>9. <<>> # <<"SUCCEEDED">> /\ <<"FAILED">> # <<"SUCCEEDED">> /\ <<"FAILED">> # <<"REVERTED">>
  OBVIOUS
<1>10. \A q \in Requests : trail[q] = <<"SUCCEEDED">> => q # r
  BY <1>2, <1>9 DEF Untouched
<1>11. BanksInv' /\ Banked(r)'
  BY <1>1, <1>2, <1>3, <1>7, <1>9, <1>10, BanksRest, BankedStays DEF RecordInv, Turn
<1>12. Called(r)'
  BY <1>3 DEF Called, Signing
<1>13. requests'[r].read \in 0 .. Len(blocks')
  BY <1>1, <1>2, <1>3 DEF Traced
<1>14. Traced(r)'
  BY <1>3, <1>7, <1>9, <1>13 DEF Traced, Told, Errors, Before
<1> QED BY <1>1, <1>3, <1>6, <1>7, <1>8, <1>11, <1>12, <1>14, OneActs DEF Turn

LEMMA BidderRecorded ==
    ASSUME RecordInv, IInv, NEW r \in Requests,
           CreateBidder(r) \/ AnnounceBidder(r) \/ CheckBidder(r) \/ DeleteBidder(r)
    PROVE  RecordInv'
<1>1. /\ UNCHANGED blocks /\ Aside /\ UNCHANGED trail
      /\ requests[r].step \in {"arrived", "composing", "checked"}
      /\ requests[r].step = "arrived" => requests[r].op.kind \in Unrecorded
  BY DEF CreateBidder, AnnounceBidder, CheckBidder, DeleteBidder, OfChain, OfRows, Aside, Unrecorded
<1>2. Undone(r) /\ trail[r] = <<>> /\ requests[r].op.kind \in Unrecorded /\ requests[r].step \in Before
  BY <1>1, UntouchedUndone DEF RecordInv, Traced, Called, Before
<1>3. CASE \E code : Answer(r, code)
  <2>1. PICK code : Answer(r, code)
    BY <1>3
  <2>2. /\ Turn(r) /\ requests'[r].step = "answered" /\ requests'[r].tbd = requests[r].tbd
        /\ requests'[r].read = requests[r].read /\ trail'[r] = <<>>
    BY <1>1, <1>2, <2>1, AnswerFacts DEF Turn, IInv
  <2> QED BY <1>1, <1>2, <2>2, EndsUndone DEF IInv
<1>4. CASE Step(r, "composing")
  <2>1. /\ Turn(r) /\ requests'[r].step = "composing" /\ requests'[r].tbd = requests[r].tbd
        /\ requests'[r].read = requests[r].read /\ trail'[r] = trail[r]
    BY <1>1, <1>4, StepFacts DEF Turn, IInv
  <2>2. Called(r)' /\ requests'[r].step \in Before /\ requests'[r].read \in 0 .. Len(blocks)
    BY <1>2, <2>1 DEF Turn, Called, Signing, Before, RecordInv, Traced
  <2> QED BY <1>1, <1>2, <2>1, <2>2, GoesOn DEF IInv
<1>5. CASE requests' = [requests EXCEPT ![r].step = "checked", ![r].read = Len(blocks), ![r].seen = projected]
  <2>1. Requests' = Requests /\ \A q \in Requests \ {r} : requests'[q] = requests[q]
    BY <1>5 DEF IInv, RequestInv, Requests
  <2>2. requests[r] = Fields(requests[r]) /\ r \in DOMAIN requests
    BY DEF IInv, RequestInv, Requests
  <2> DEFINE f == Fields(requests[r])
  <2>3. requests'[r] = [f EXCEPT !.step = "checked", !.read = Len(blocks), !.seen = projected]
    BY <1>5, <2>2, Zenon
  <2>4. /\ requests'[r].op = f.op /\ requests'[r].step = "checked" /\ requests'[r].tbd = f.tbd
        /\ requests'[r].read = Len(blocks)
    BY <2>3 DEF Fields
  <2> HIDE DEF f
  <2>5. /\ Turn(r) /\ requests'[r].step = "checked" /\ requests'[r].tbd = requests[r].tbd
        /\ trail'[r] = trail[r]
    BY <1>1, <2>1, <2>2, <2>4 DEF Turn, f
  <2>6. Called(r)' /\ requests'[r].step \in Before /\ requests'[r].read \in 0 .. Len(blocks)
    BY <1>2, <2>4, <2>5 DEF Turn, Called, Signing, Before, IInv, ChainInv
  <2> QED BY <1>1, <1>2, <2>5, <2>6, GoesOn DEF IInv
<1> QED BY <1>3, <1>4, <1>5 DEF CreateBidder, AnnounceBidder, CheckBidder, DeleteBidder

\* A request whose transaction has taken effect is recorded, or stays so.
LEMMA Succeeded ==
    ASSUME RecordInv, ChainInv, NEW r \in Requests, Turn(r), Aside, One(r),
           trail'[r] = <<"SUCCEEDED">>, Pooled(r) = {}, Effects(r) # {},
           requests'[r].step \in {"mined", "answered"},
           requests'[r].step = "answered" => requests'[r].answer \in {200, 201, 202, 204},
           requests'[r].tbd = requests[r].tbd, requests'[r].read = requests[r].read
    PROVE  RecordInv'
<1>1. Extends
  BY ExtendsByNone DEF RecordInv, Turn, Aside
<1>2. /\ \A q \in Requests \ {r} : Rests(q)
      /\ Effects(r)' = Effects(r) /\ Pooled(r)' = {}
  BY OthersRest DEF Aside, Pooled
<1>3. One(r)'
  BY DEF One, Turn
<1>4. <<"SUCCEEDED">> # <<"REVERTED">>
  OBVIOUS
<1>5. requests'[r].read \in 0 .. Len(blocks')
  BY DEF Turn, RecordInv, Traced
<1>6. Traced(r)'
  BY <1>2, <1>4, <1>5 DEF Traced, Told, Before
<1>7. Called(r)'
  BY DEF Called, Signing
<1>8. Banked(r)'
  <2>1. requests[r].tbd # 0 => Contracted(r)'
    BY <1>1, ContractStays DEF RecordInv, Banked
  <2> QED BY <1>3, <2>1 DEF Banked
<1>9. BanksInv'
  <2> SUFFICES ASSUME NEW row \in bankRows PROVE \E q \in Requests : RowOf(q, row)'
    BY DEF BanksInv, Turn, Aside
  <2>1. PICK q \in Requests : RowOf(q, row)
    BY DEF RecordInv, BanksInv
  <2>2. q # r
    BY <2>1 DEF RowOf
  <2>3. RowOf(q, row)'
    BY <1>1, <2>1, <2>2, RowStays DEF Turn
  <2> QED BY <2>3
<1>10. NodeInv' /\ MarketInv'
  BY NodeRests, MarketRests DEF RecordInv, Turn, Aside
<1> QED BY <1>1, <1>2, <1>6, <1>7, <1>8, <1>9, <1>10, OneActs DEF Turn, Aside

LEMMA AnswerMinedRecorded ==
    ASSUME RecordInv, IInv, NEW r \in Requests, AnswerMined(r)
    PROVE  RecordInv'
<1>1. /\ requests[r].step = "mined" /\ UNCHANGED blocks /\ Aside /\ UNCHANGED trail
      /\ \E code \in {200, 201, 202} : Answer(r, code)
  BY DEF AnswerMined, OfChain, OfRows, Aside
<1>2. PICK code \in {200, 201, 202} : Answer(r, code)
  BY <1>1
<1>3. /\ Turn(r) /\ requests'[r].step = "answered" /\ requests'[r].tbd = requests[r].tbd
      /\ requests'[r].read = requests[r].read /\ requests'[r].answer = code
  BY <1>1, <1>2, AnswerFacts DEF Turn, IInv
<1>4. trail[r] = <<"SUCCEEDED">> /\ Pooled(r) = {} /\ (One(r) => Effects(r) # {})
  BY <1>1 DEF RecordInv, Traced
<1>5. CASE One(r)
  BY <1>1, <1>3, <1>4, <1>5, Succeeded DEF IInv
<1>6. CASE ~One(r)
  <2>1. Extends
    BY <1>1, ExtendsByNone DEF RecordInv, Aside, IInv
  <2>2. (\A q \in Requests \ {r} : Rests(q)) /\ Pooled(r)' = {}
    BY <1>1, <1>3, <1>4, OthersRest DEF Aside, Pooled
  <2>3. ~One(r)'
    BY <1>3, <1>6 DEF One, Turn
  <2>4. requests'[r].read \in 0 .. Len(blocks') /\ <<"SUCCEEDED">> # <<"REVERTED">>
    BY <1>1, <1>3 DEF RecordInv, Traced
  <2>5. trail'[r] = <<"SUCCEEDED">>
    BY <1>1, <1>4
  <2>6. Traced(r)'
    BY <1>3, <2>2, <2>3, <2>4, <2>5 DEF Traced, Told, Before
  <2>7. Called(r)'
    BY <1>3 DEF Called, Signing
  <2>8. \A q \in Requests : trail'[q] = trail[q] /\ requests'[q].tbd = requests[q].tbd
                            /\ requests'[q].op = requests[q].op
    BY <1>1, <1>3 DEF Turn
  <2>9. Banked(r)' /\ BanksInv'
    BY <1>1, <1>3, <2>1, <2>8, BankedStays, BanksRest DEF RecordInv, Aside, Turn
  <2>10. NodeInv' /\ MarketInv'
    BY <1>1, NodeRests, MarketRests DEF RecordInv, Aside
  <2> QED BY <1>1, <1>3, <2>1, <2>2, <2>6, <2>7, <2>9, <2>10, OneActs DEF Turn, Aside
<1> QED BY <1>5, <1>6

-----------------------------------------------------------------------------
(* Receipts                                                                 *)

LEMMA SentIsTx ==
    ASSUME NEW r
    PROVE  Transaction(r) # NoTx /\ Transaction(r).req = r /\ Transaction(r).call = requests[r].call
<1>1. DOMAIN Transaction(r) = {"req", "key", "nonce", "call"} /\ DOMAIN NoTx = {"fn"}
  BY DEF Transaction, NoTx
<1>2. "fn" \notin {"req", "key", "nonce", "call"}
  OBVIOUS
<1> QED BY <1>1, <1>2 DEF Transaction

\* Whoever finds its transaction mined has none left in the pool, and if it sends but one,
\* no other mined.
LEMMA Receipt ==
    ASSUME RecordInv, IInv, NEW r \in Requests, requests[r].step = "sent",
           NEW b \in DOMAIN blocks, blocks[b].tx = Transaction(r)
    PROVE  Pooled(r) = {} /\ (One(r) => Mined(r) = {b}) /\ trail[r] = <<>>
<1>1. PICK tx : tx = Transaction(r)
  OBVIOUS
<1>2. tx # NoTx /\ tx.req = r
  BY <1>1, SentIsTx
<1>3. tx \in MinedTxs
  BY <1>1, <1>2 DEF MinedTxs
<1>4. PICK n : n = MinedCount(tx.key)
  OBVIOUS
<1>5. n \in Nat /\ tx.nonce \in Nat /\ tx.nonce < n
  BY <1>3, <1>4, CountTypes DEF RecordInv, NodeInv, IInv
<1>6. tx \notin pool
  <2> SUFFICES ASSUME tx \in pool PROVE FALSE
    OBVIOUS
  <2>1. tx.nonce >= n
    BY <1>4 DEF RecordInv, NodeInv
  <2> QED BY <1>5, <2>1
<1>7. /\ trail[r] = <<>> /\ Pooled(r) \subseteq {tx}
      /\ One(r) => \A a \in Mined(r) : blocks[a].tx = tx
  BY <1>1 DEF RecordInv, Traced
<1>8. Pooled(r) = {}
  BY <1>6, <1>7 DEF Pooled
<1>9. ASSUME One(r) PROVE Mined(r) = {b}
  <2>1. \A a \in Mined(r) : a = b
    BY <1>1, <1>2, <1>7, <1>9 DEF Mined, RecordInv, NodeInv
  <2>2. b \in Mined(r)
    BY <1>1, <1>2 DEF Mined
  <2> QED BY <2>1, <2>2
<1> QED BY <1>7, <1>8, <1>9

LEMMA SucceedRecorded ==
    ASSUME RecordInv, IInv, NEW r \in Requests, requests[r].step = "sent",
           NEW b \in DOMAIN blocks, blocks[b].tx = Transaction(r), blocks[b].error = "none",
           One(r), Succeed(r, b), UNCHANGED blocks, Aside
    PROVE  RecordInv'
<1>1. Pooled(r) = {} /\ Mined(r) = {b} /\ trail[r] = <<>>
  BY Receipt
<1>2. Effects(r) # {}
  BY SentIsTx DEF Effects
<1>3. trail'[r] = <<"SUCCEEDED">> /\ \A q \in Requests \ {r} : trail'[q] = trail[q]
  BY <1>1, Recorded DEF Succeed, IInv
<1> DEFINE kind == requests[r].op.kind
<1>4. CASE kind \in Awaiting
  <2>0. requests' = [requests EXCEPT ![r].step = "mined", ![r].block = b]
    BY <1>4 DEF Succeed
  <2>1. Requests' = Requests /\ \A q \in Requests \ {r} : requests'[q] = requests[q]
    BY <2>0 DEF IInv, RequestInv, Requests
  <2>2. requests[r] = Fields(requests[r]) /\ r \in DOMAIN requests
    BY DEF IInv, RequestInv, Requests
  <2> DEFINE f == Fields(requests[r])
  <2>3. requests'[r] = [f EXCEPT !.step = "mined", !.block = b]
    BY <2>0, <2>2, Zenon
  <2>4. /\ requests'[r].op = f.op /\ requests'[r].step = "mined" /\ requests'[r].tbd = f.tbd
        /\ requests'[r].read = f.read
    BY <2>3 DEF Fields
  <2> HIDE DEF f
  <2>5. /\ Turn(r) /\ requests'[r].step = "mined" /\ requests'[r].tbd = requests[r].tbd
        /\ requests'[r].read = requests[r].read
    BY <1>3, <2>1, <2>2, <2>4 DEF Turn, f
  <2> QED BY <1>1, <1>2, <1>3, <2>5, Succeeded DEF IInv
<1>5. CASE kind \notin Awaiting
  <2> DEFINE code == IF kind = "BOND_DISABLE" THEN 204 ELSE 200
  <2>1. Answer(r, code)
    BY <1>5 DEF Succeed
  <2>2. /\ Turn(r) /\ requests'[r].step = "answered" /\ requests'[r].tbd = requests[r].tbd
        /\ requests'[r].read = requests[r].read /\ requests'[r].answer \in {200, 204}
    BY <1>3, <2>1, AnswerFacts DEF Turn, IInv
  <2> QED BY <1>1, <1>2, <1>3, <2>2, Succeeded DEF IInv
<1> QED BY <1>4, <1>5

-----------------------------------------------------------------------------
(* Bank creations                                                           *)

\* The call after one of a creation: none after the last, and never a second deployment.
LEMMA NextCall ==
    ASSUME NEW request, NEW b
    PROVE  LET next == NextBankCall(request, b) IN
           /\ request.call.fn = "deployTbd" => next # NoCall /\ next.tbd = Len(blocks[b].state.tbds)
           /\ next # NoCall => next.fn \in {"setContract", "add"}
<1> DEFINE next == NextBankCall(request, b)
           named == [fn |-> "setContract", name |-> request.op.name, tbd |-> Len(blocks[b].state.tbds)]
           added == [fn |-> "add", who |-> request.op.key]
<1>1. next = CASE request.call.fn = "deployTbd" -> named
               [] request.call.fn = "setContract" /\ request.op.settle -> added
               [] OTHER -> NoCall
  BY Zenon DEF NextBankCall
<1>2. named # NoCall
  <2>1. DOMAIN named = {"fn", "name", "tbd"} /\ DOMAIN NoCall = {"fn"}
    BY DEF NoCall
  <2>2. {"fn", "name", "tbd"} # {"fn"}
    OBVIOUS
  <2> QED BY <2>1, <2>2
<1>3. named.fn = "setContract" /\ named.tbd = Len(blocks[b].state.tbds) /\ added.fn = "add"
  OBVIOUS
<1> HIDE DEF next, named, added
<1>4. CASE request.call.fn = "deployTbd"
  <2>1. next = named
    BY <1>1, <1>4
  <2> QED BY <1>2, <1>3, <2>1 DEF next
<1>5. CASE request.call.fn = "setContract" /\ request.op.settle
  <2>1. next = added
    BY <1>1, <1>5
  <2> QED BY <1>3, <1>5, <2>1 DEF next
<1>6. CASE request.call.fn # "deployTbd" /\ ~(request.call.fn = "setContract" /\ request.op.settle)
  <2>1. next = NoCall
    BY <1>1, <1>6
  <2> QED BY <1>6, <2>1 DEF next
<1> QED BY <1>4, <1>5, <1>6

\* A creation goes on to its next transaction.
LEMMA ContinueRecorded ==
    ASSUME RecordInv, IInv, NEW r \in Requests, requests[r].step = "sent", ~One(r),
           NEW b \in DOMAIN blocks, blocks[b].tx = Transaction(r), blocks[b].error = "none",
           NextBankCall(requests[r], b) # NoCall, Continue(r, b), UNCHANGED blocks,
           pool' = pool, faults' = faults
    PROVE  RecordInv'
<1> DEFINE request == requests[r]
           next == NextBankCall(request, b)
           tbd  == IF request.call.fn = "deployTbd" THEN next.tbd ELSE request.tbd
<1>1. /\ requests' = [requests EXCEPT ![r].step = "planned", ![r].call = next,
                                      ![r].key = CentralBank, ![r].tbd = tbd]
      /\ UNCHANGED <<OfNonce, trail, bankRows>>
  BY Zenon DEF Continue
<1>2. next.fn \in {"setContract", "add"} /\ (request.call.fn = "deployTbd" => next.tbd = Contracts(b))
  BY NextCall DEF Contracts
<1> HIDE DEF next, tbd
<1>3. /\ Requests' = Requests /\ \A q \in Requests \ {r} : requests'[q] = requests[q]
      /\ requests'[r].op = request.op /\ requests'[r].step = "planned"
      /\ requests'[r].tbd = tbd /\ requests'[r].read = request.read /\ requests'[r].call = next
  <2>1. Requests' = Requests /\ \A q \in Requests \ {r} : requests'[q] = requests[q]
    BY <1>1 DEF IInv, RequestInv, Requests
  <2>2. requests[r] = Fields(requests[r]) /\ r \in DOMAIN requests
    BY DEF IInv, RequestInv, Requests
  <2> DEFINE f == Fields(requests[r])
  <2>3. requests'[r] = [f EXCEPT !.step = "planned", !.call = next, !.key = CentralBank, !.tbd = tbd]
    <3>1. requests' = [requests EXCEPT ![r].step = "planned", ![r].call = next,
                                       ![r].key = CentralBank, ![r].tbd = tbd]
      BY <1>1
    <3> QED BY <2>2, <3>1, Zenon
  <2>4. /\ requests'[r].op = f.op /\ requests'[r].step = "planned" /\ requests'[r].tbd = tbd
        /\ requests'[r].read = f.read /\ requests'[r].call = next
    BY <2>3 DEF Fields
  <2> HIDE DEF f
  <2> QED BY <2>1, <2>2, <2>4 DEF f
<1>4. Pooled(r) = {} /\ trail[r] = <<>>
  BY Receipt
<1>5. Called(r) /\ Banked(r) /\ Traced(r)
  BY DEF RecordInv
<1>6. Turn(r) /\ Extends
  BY <1>1, <1>3, ExtendsByNone DEF Turn, RecordInv, IInv
<1>7. (\A q \in Requests \ {r} : Rests(q)) /\ Pooled(r)' = {}
  BY <1>4, <1>6, OthersRest DEF Pooled
<1>8. Transaction(r).call = request.call /\ Transaction(r).req = r /\ Transaction(r) # NoTx
  BY SentIsTx
<1>9. tbd # 0 /\ Contracted(r)'
  <2>1. CASE request.call.fn = "deployTbd"
    <3>1. Deploys(b) /\ blocks[b].tx.req = r
      BY <1>8, <2>1 DEF Deploys
    <3>2. tbd = Contracts(b) /\ 0 < Contracts(b)
      BY <1>2, <2>1, <3>1 DEF tbd, RecordInv, MarketInv
    <3>3. Deploys(b)' /\ Contracts(b)' = Contracts(b) /\ blocks'[b].tx.req = r /\ b \in DOMAIN blocks'
      BY <3>1 DEF Deploys, Contracts
    <3> QED BY <1>3, <3>2, <3>3 DEF Contracted
  <2>2. CASE request.call.fn # "deployTbd"
    <3>1. tbd = request.tbd
      BY <2>2 DEF tbd
    <3>2. request.tbd # 0
      BY <1>5, <2>2 DEF Called, Signing
    <3>3. Contracted(r)
      BY <1>5, <3>2 DEF Banked
    <3> QED BY <1>3, <1>6, <3>1, <3>2, <3>3, ContractStays
  <2> QED BY <2>1, <2>2
<1>10. ~One(r)' /\ requests'[r].op.kind # "BOND_DISABLE"
  BY <1>3 DEF One
<1>11. trail'[r] = <<>> /\ <<>> # <<"SUCCEEDED">> /\ <<>> # <<"REVERTED">>
  BY <1>1, <1>4
<1>12. requests'[r].read \in 0 .. Len(blocks')
  BY <1>3, <1>5 DEF Traced
<1>13. Traced(r)'
  BY <1>3, <1>7, <1>10, <1>11, <1>12 DEF Traced, Untouched, Told
<1>14. Called(r)'
  BY <1>2, <1>3, <1>9, <1>10 DEF Called, CallNames
<1>15. Banked(r)'
  BY <1>9, <1>11 DEF Banked
<1>16. \A q \in Requests : trail[q] = <<"SUCCEEDED">> => q # r
  BY <1>4, <1>11
<1>17. BanksInv'
  BY <1>1, <1>3, <1>6, <1>16, BanksRest DEF RecordInv
<1>18. NodeInv' /\ MarketInv'
  BY NodeRests, MarketRests DEF RecordInv
<1> QED BY <1>1, <1>3, <1>6, <1>7, <1>13, <1>14, <1>15, <1>17, <1>18, OneActs

\* A creation ends: the row is inserted, or it is there already in part.
LEMMA CreatedRecorded ==
    ASSUME RecordInv, IInv, NEW r \in Requests, requests[r].step = "sent", ~One(r),
           NEW b \in DOMAIN blocks, blocks[b].tx = Transaction(r),
           NextBankCall(requests[r], b) = NoCall, Continue(r, b), UNCHANGED blocks,
           pool' = pool, faults' = faults
    PROVE  RecordInv'
<1> DEFINE request == requests[r]
           next == NextBankCall(request, b)
           tbd  == IF request.call.fn = "deployTbd" THEN next.tbd ELSE request.tbd
           row0 == [name |-> request.op.name, key |-> request.op.key, tbd |-> tbd]
           row  == BankRow(r)
<1>1. Created(r, row0)
  BY Zenon DEF Continue
<1>2. request.call.fn # "deployTbd"
  BY NextCall
<1>3. row0 = row
  BY <1>2 DEF BankRow
<1>4. Created(r, row)
  BY <1>1, <1>3
<1> HIDE DEF row0, row, next, tbd
<1>5. Pooled(r) = {} /\ trail[r] = <<>>
  BY Receipt
<1>6. Called(r) /\ Banked(r) /\ Traced(r)
  BY DEF RecordInv
<1>7. request.tbd # 0 /\ Contracted(r)
  BY <1>2, <1>6 DEF Called, Banked, Signing
<1>8. CASE Duplicate(row)
  <2>1. Fail(r, "FAILED", 500) /\ bankRows' = bankRows
    BY <1>4, <1>8 DEF Created
  <2>2. Undone(r)
    BY <1>5 DEF Undone
  <2>3. 500 \in Errors /\ Aside
    BY <2>1 DEF Errors, Aside
  <2> QED BY <1>5, <2>1, <2>2, <2>3, FailRecorded
<1>9. CASE ~Duplicate(row)
  <2>1. bankRows' = bankRows \cup {row} /\ Record(r, "SUCCEEDED") /\ Answer(r, 200)
    BY <1>4, <1>9 DEF Created
  <2>2. trail'[r] = <<"SUCCEEDED">> /\ \A q \in Requests \ {r} : trail'[q] = trail[q]
    BY <1>5, <2>1, Recorded DEF IInv
  <2>3. /\ Requests' = Requests /\ \A q \in Requests \ {r} : requests'[q] = requests[q]
        /\ requests'[r].op = requests[r].op /\ requests'[r].step = "answered"
        /\ requests'[r].tbd = requests[r].tbd /\ requests'[r].read = requests[r].read
        /\ requests'[r].answer = 200
    BY <2>1, AnswerFacts DEF IInv
  <2>4. Turn(r) /\ Extends
    BY <2>2, <2>3, ExtendsByNone DEF Turn, RecordInv, IInv
  <2>5. (\A q \in Requests \ {r} : Rests(q)) /\ Pooled(r)' = {}
    BY <1>5, <2>4, OthersRest DEF Pooled
  <2>6. ~One(r)' /\ BankRow(r)' = row
    BY <2>3 DEF One, BankRow, row
  <2>7. Contracted(r)'
    BY <1>7, <2>3, <2>4, ContractStays
  <2>8. requests'[r].read \in 0 .. Len(blocks')
    BY <1>6, <2>3 DEF Traced
  <2>9. <<"SUCCEEDED">> # <<"REVERTED">>
    OBVIOUS
  <2>10. Traced(r)'
    BY <2>2, <2>3, <2>5, <2>6, <2>8, <2>9 DEF Traced, Told, Before
  <2>11. Called(r)'
    BY <2>3 DEF Called, Signing
  <2>12. row \in bankRows' /\ bankRows \subseteq bankRows'
    BY <2>1
  <2>13. Banked(r)'
    BY <2>6, <2>7, <2>12 DEF Banked
  <2>14. BanksInv'
    <3> SUFFICES ASSUME NEW x \in bankRows' PROVE \E q \in Requests : RowOf(q, x)'
      BY <2>3 DEF BanksInv
    <3>1. CASE x = row
      <4>1. RowOf(r, x)'
        BY <2>2, <2>6, <2>7, <3>1 DEF RowOf
      <4> QED BY <4>1
    <3>2. CASE x \in bankRows
      <4>1. PICK q \in Requests : RowOf(q, x)
        BY <3>2 DEF RecordInv, BanksInv
      <4>2. q # r
        <5>1. <<>> # <<"SUCCEEDED">>
          OBVIOUS
        <5> QED BY <1>5, <4>1, <5>1 DEF RowOf
      <4>3. RowOf(q, x)'
        BY <2>2, <2>3, <2>4, <4>1, <4>2, RowStays
      <4> QED BY <4>3
    <3> QED BY <2>1, <3>1, <3>2
  <2>15. NodeInv' /\ MarketInv'
    BY NodeRests, MarketRests DEF RecordInv
  <2> QED BY <2>3, <2>4, <2>5, <2>10, <2>11, <2>12, <2>13, <2>14, <2>15, OneActs
<1> QED BY <1>8, <1>9

LEMMA ConfirmRecorded ==
    ASSUME RecordInv, IInv, NEW r \in Requests, Confirm(r)
    PROVE  RecordInv'
<1>1. /\ requests[r].step = "sent" /\ UNCHANGED blocks /\ pool' = pool /\ faults' = faults
  BY DEF Confirm, OfChain
<1>2. PICK b \in DOMAIN blocks :
          /\ blocks[b].tx = Transaction(r)
          /\ IF blocks[b].error # "none"
               THEN Fail(r, "REVERTED", 500) /\ UNCHANGED <<bankRows, stale>>
               ELSE IF requests[r].op.kind = "BANK_CREATE" THEN Continue(r, b) ELSE Succeed(r, b)
  BY DEF Confirm
<1>3. CASE blocks[b].error # "none"
  <2>1. Fail(r, "REVERTED", 500) /\ bankRows' = bankRows
    BY <1>2, <1>3
  <2>2. Pooled(r) = {} /\ (One(r) => Mined(r) = {b}) /\ trail[r] = <<>>
    BY <1>1, <1>2, Receipt
  <2>3. Undone(r)
    BY <1>3, <2>2 DEF Undone, Effects, Mined
  <2>4. 500 \in Errors /\ Aside
    BY <1>1, <2>1 DEF Errors, Aside
  <2> QED BY <1>1, <2>1, <2>2, <2>3, <2>4, FailRecorded
<1>4. CASE blocks[b].error = "none" /\ ~One(r)
  <2>1. Continue(r, b)
    BY <1>2, <1>4 DEF One
  <2> QED BY <1>1, <1>2, <1>4, <2>1, ContinueRecorded, CreatedRecorded
<1>5. CASE blocks[b].error = "none" /\ One(r)
  <2>1. Succeed(r, b)
    BY <1>2, <1>5 DEF One
  <2>2. Aside
    BY <1>1, <2>1 DEF Aside, Succeed
  <2> QED BY <1>1, <1>2, <1>5, <2>1, <2>2, SucceedRecorded
<1> QED BY <1>3, <1>4, <1>5

-----------------------------------------------------------------------------
(* Blocks                                                                   *)

\* A block adds no more contracts than it deploys, and its state is one of the market.
LEMMA MarketGrows ==
    ASSUME MarketInv, ChainInv, NEW block, blocks' = Append(blocks, block), pool' \subseteq pool,
           HasContracts(block.state), Len(HeadState.tbds) <= Len(block.state.tbds),
           block.tx # NoTx /\ block.error = "none" /\ block.tx.call.fn = "deployTbd"
               => Len(HeadState.tbds) < Len(block.state.tbds)
    PROVE  MarketInv'
<1>0. PICK n : n = Len(blocks) + 1
  OBVIOUS
<1>1. /\ DOMAIN blocks = 1 .. Len(blocks) /\ Len(blocks) \in Nat
      /\ DOMAIN blocks' = 1 .. n /\ blocks'[n] = block /\ Len(blocks') = n
      /\ \A k \in 1 .. Len(blocks) : blocks'[k] = blocks[k]
  BY <1>0, GrownSeq DEF ChainInv
<1>2. \A k \in 1 .. n : k \in 1 .. Len(blocks) \/ k = n
  BY <1>0, <1>1
<1>3. Len(blocks) \in DOMAIN blocks
  BY <1>1 DEF ChainInv
<1>4. \A k \in 1 .. Len(blocks) : Deploys(k)' = Deploys(k) /\ Contracts(k)' = Contracts(k)
  BY <1>1 DEF Deploys, Contracts
<1>a. PICK h : h = Contracts(Len(blocks))
  OBVIOUS
<1>b. PICK c : c = Len(block.state.tbds)
  OBVIOUS
<1>5. /\ Contracts(n)' = c /\ h <= c /\ h \in Nat /\ c \in Nat
      /\ Deploys(n)' => h < c
  <2>1. Contracts(n)' = c /\ (Deploys(n)' <=> block.tx # NoTx /\ block.error = "none" /\ block.tx.call.fn = "deployTbd")
    BY <1>0, <1>1, <1>b DEF Contracts, Deploys
  <2>2. h = Len(HeadState.tbds)
    BY <1>a DEF HeadState, Last, Contracts
  <2>3. h \in Nat /\ c \in Nat
    BY <1>3, <1>a, <1>b DEF MarketInv, HasContracts, Contracts
  <2> QED BY <1>b, <2>1, <2>2, <2>3
<1>6. \A k \in 1 .. Len(blocks) : Contracts(k) \in Nat
  BY <1>1 DEF MarketInv, HasContracts, Contracts
<1>7. \A k \in 1 .. Len(blocks) : Deploys(k) => 0 < Contracts(k) /\ Contracts(k) <= h
  BY <1>1, <1>a DEF MarketInv
<1>8. \A k \in 1 .. Len(blocks) : Deploys(k)' => 0 < Contracts(k)' /\ Contracts(k)' <= c
  BY <1>4, <1>5, <1>6, <1>7
<1>9. \A b \in DOMAIN blocks' : Deploys(b)' => 0 < Contracts(b)' /\ Contracts(b)' <= Contracts(Len(blocks))'
  <2>1. Contracts(Len(blocks))' = c
    BY <1>1, <1>b DEF Contracts
  <2>2. Deploys(n)' => 0 < c
    BY <1>5
  <2> QED BY <1>1, <1>2, <1>5, <1>8, <2>1, <2>2
<1>10. \A a, b \in DOMAIN blocks' : Deploys(a)' /\ Deploys(b)' /\ a < b => Contracts(a)' < Contracts(b)'
  <2>1. \A a, b \in 1 .. Len(blocks) : Deploys(a)' /\ Deploys(b)' /\ a < b => Contracts(a)' < Contracts(b)'
    BY <1>1, <1>4 DEF MarketInv
  <2>2. \A a \in 1 .. Len(blocks) : Deploys(a)' /\ Deploys(n)' => Contracts(a)' < Contracts(n)'
    BY <1>4, <1>5, <1>6, <1>7
  <2>3. \A b \in 1 .. Len(blocks) : b < n
    BY <1>0, <1>1
  <2>4. n \in Nat
    BY <1>0, <1>1
  <2> QED BY <1>1, <1>2, <2>1, <2>2, <2>3, <2>4
<1>11. \A b \in DOMAIN blocks' : HasContracts(blocks'[b].state)
  BY <1>1, <1>2 DEF MarketInv
<1>12. \A tx \in pool' : tx.call.fn \in CallNames
  BY DEF MarketInv
<1> QED BY <1>9, <1>10, <1>11, <1>12 DEF MarketInv

\* No request changes by a block.
LEMMA BlockAdded ==
    ASSUME RecordInv, ChainInv, NEW block, blocks' = Append(blocks, block),
           UNCHANGED <<requests, trail, bankRows, faults>>,
           NodeInv', MarketInv', \A q \in Requests : Traced(q)'
    PROVE  RecordInv'
<1>1. Extends /\ Requests' = Requests
  BY ExtendsByBlock DEF RecordInv, Requests
<1>2. \A q \in Requests : Called(q)' /\ Banked(q)'
  <2> TAKE q \in Requests
  <2>1. Called(q) /\ Banked(q)
    BY DEF RecordInv
  <2>2. Called(q)'
    BY <2>1 DEF Called, One
  <2>3. Banked(q)'
    BY <1>1, <2>1, BankedStays
  <2> QED BY <2>2, <2>3
<1>3. BanksInv'
  BY <1>1, BanksRest DEF RecordInv
<1>4. faults' \in Nat
  BY DEF RecordInv
<1> QED BY <1>1, <1>2, <1>3, <1>4 DEF RecordInv

\* A transaction on its way is that of a request which waits for it, or which failed in
\* the course of a crash or a lost connection.
LEMMA MineTraced ==
    ASSUME RecordInv, ChainInv, NEW tx \in pool, tx # NoTx, NEW block, block.tx = tx,
           blocks' = Append(blocks, block), pool' = pool \ {tx}, UNCHANGED <<requests, trail, faults>>,
           NEW q \in Requests
    PROVE  Traced(q)'
<1> DEFINE n == Len(blocks) + 1
<1>1. /\ Extends /\ DOMAIN blocks' = DOMAIN blocks \cup {n} /\ blocks'[n] = block
      /\ Len(blocks') = n /\ Len(blocks) \in Nat /\ n \notin DOMAIN blocks
  BY ExtendsByBlock DEF RecordInv, Extends
<1>2. /\ tx.req # q => Mined(q)' = Mined(q) /\ Pooled(q)' = Pooled(q)
      /\ \A b \in Mined(q)' : b \in Mined(q) \/ b = n
  <2>1. \A b \in DOMAIN blocks : blocks'[b] = blocks[b]
    BY <1>1 DEF Extends
  <2>2. \A b \in DOMAIN blocks' : b \in Mined(q)' <=> blocks'[b].tx # NoTx /\ blocks'[b].tx.req = q
    BY DEF Mined
  <2>3. \A b \in DOMAIN blocks : b \in Mined(q)' <=> b \in Mined(q)
    BY <1>1, <2>1, <2>2 DEF Mined
  <2>4. tx.req # q => n \notin Mined(q)'
    BY <1>1, <2>2
  <2>5. Mined(q)' \subseteq DOMAIN blocks \cup {n} /\ Mined(q) \subseteq DOMAIN blocks
    BY <1>1 DEF Mined
  <2>6. tx.req # q => Pooled(q)' = Pooled(q)
    BY DEF Pooled
  <2>7. tx.req # q => Mined(q)' = Mined(q)
    BY <2>3, <2>4, <2>5
  <2> QED BY <2>3, <2>5, <2>6, <2>7
<1>3. Traced(q) /\ Called(q)
  BY DEF RecordInv
<1>4. CASE tx.req # q
  BY <1>1, <1>2, <1>3, <1>4, RestTraced DEF Rests
<1>5. CASE tx.req = q
  <2>1. Pooled(q) # {} /\ tx \in Pooled(q)
    BY <1>5 DEF Pooled
  <2>2. /\ requests[q].step \notin Before /\ requests[q].step # "mined"
        /\ trail[q] # <<"SUCCEEDED">> /\ trail[q] # <<"REVERTED">>
        /\ ~(requests[q].step = "answered" /\ faults = 0)
    BY <1>3, <2>1 DEF Traced, Untouched, Undone
  <2>3. requests[q].step = "sent" =>
          /\ trail'[q] = <<>> /\ Pooled(q)' \subseteq {Transaction(q)'}
          /\ One(q)' => \A b \in Mined(q)' : blocks'[b].tx = Transaction(q)'
    <3> SUFFICES ASSUME requests[q].step = "sent"
                 PROVE  /\ trail'[q] = <<>> /\ Pooled(q)' \subseteq {Transaction(q)'}
                        /\ One(q)' => \A b \in Mined(q)' : blocks'[b].tx = Transaction(q)'
      OBVIOUS
    <3>1. /\ trail[q] = <<>> /\ tx = Transaction(q) /\ Pooled(q)' \subseteq Pooled(q)
          /\ Pooled(q) \subseteq {Transaction(q)}
          /\ One(q) => \A b \in Mined(q) : blocks[b].tx = Transaction(q)
      BY <1>3, <2>1 DEF Traced, Pooled
    <3>2. Transaction(q)' = Transaction(q) /\ One(q)' = One(q)
      BY DEF Transaction, One
    <3>3. \A b \in Mined(q) : blocks'[b] = blocks[b]
      BY <1>1 DEF Mined, Extends
    <3> QED BY <1>1, <1>2, <3>1, <3>2, <3>3
  <2>4. requests'[q].read \in 0 .. Len(blocks')
    BY <1>1, <1>3 DEF Traced
  <2>5. Told(q)'
    <3>1. FoundDisabled(q) => FoundDisabled(q)'
      BY <1>1, DisabledStays
    <3> QED BY <1>3, <3>1 DEF Told, Traced
  <2> QED BY <1>3, <2>2, <2>3, <2>4, <2>5 DEF Traced
<1> QED BY <1>4, <1>5

LEMMA MineRecorded ==
    ASSUME RecordInv, IInv, NEW tx \in pool, Mine(tx)
    PROVE  RecordInv'
<1> DEFINE error  == Error(HeadState, tx.key, tx.call, clock)
           effect == Effect(HeadState, tx.key, tx.call, clock)
           new    == IF error = "none" THEN effect ELSE HeadState
           state  == [new EXCEPT !.time = clock]
           block  == [state |-> state, tx |-> tx, error |-> error]
<1>1. blocks' = Append(blocks, block)
  BY Zenon DEF Mine
<1>2. block.tx = tx /\ block.state = state /\ block.error = error
  OBVIOUS
<1>3. /\ tx.nonce = MinedCount(tx.key) /\ pool' = pool \ {tx}
      /\ UNCHANGED <<requests, trail, bankRows, faults>> /\ tx # NoTx /\ ChainInv
  BY DEF Mine, OfRows, IInv, ChainInv
<1> HIDE DEF error, effect, block, state
<1>4. HasContracts(HeadState)
  <2>1. Len(blocks) \in DOMAIN blocks
    BY <1>3 DEF ChainInv
  <2> QED BY <2>1 DEF HeadState, Last, RecordInv, MarketInv
<1>5. tx.call.fn \in CallNames
  BY DEF RecordInv, MarketInv
<1>6. /\ HasContracts(effect) /\ Len(HeadState.tbds) \in Nat
      /\ Len(effect.tbds) = IF tx.call.fn = "deployTbd" THEN Len(HeadState.tbds) + 1 ELSE Len(HeadState.tbds)
  BY <1>4, <1>5, EffectOnContracts DEF effect
<1>7. /\ HasContracts(new) /\ Len(HeadState.tbds) <= Len(new.tbds)
      /\ error = "none" /\ tx.call.fn = "deployTbd" => Len(HeadState.tbds) < Len(new.tbds)
  BY <1>4, <1>6
<1> HIDE DEF new
<1>8. SameBanks(new, state)
  BY <1>7, OtherField DEF HasContracts, state
<1>9. HasContracts(state) /\ state.tbds = new.tbds
  BY <1>7, <1>8 DEF SameBanks, HasContracts
<1>10. MarketInv'
  BY <1>1, <1>2, <1>3, <1>7, <1>9, MarketGrows DEF RecordInv
<1>11. NodeInv'
  BY <1>1, <1>2, <1>3, NodeGrows DEF RecordInv
<1>12. \A q \in Requests : Traced(q)'
  BY <1>1, <1>2, <1>3, MineTraced
<1> QED BY <1>1, <1>3, <1>10, <1>11, <1>12, BlockAdded

LEMMA EmptyBlockRecorded ==
    ASSUME RecordInv, IInv, EmptyBlock
    PROVE  RecordInv'
<1> DEFINE state == [HeadState EXCEPT !.time = clock]
           block == [state |-> state, tx |-> NoTx, error |-> "none"]
<1>1. /\ blocks' = Append(blocks, block) /\ pool' = pool
      /\ UNCHANGED <<requests, trail, bankRows, faults>> /\ ChainInv
  BY DEF EmptyBlock, OfRows, IInv
<1>2. block.tx = NoTx /\ block.state = state
  OBVIOUS
<1> HIDE DEF block, state
<1>3. HasContracts(HeadState)
  <2>1. Len(blocks) \in DOMAIN blocks
    BY <1>1 DEF ChainInv
  <2> QED BY <2>1 DEF HeadState, Last, RecordInv, MarketInv
<1>4. SameBanks(HeadState, state)
  BY <1>3, OtherField DEF HasContracts, state
<1>5. HasContracts(state) /\ state.tbds = HeadState.tbds /\ Len(HeadState.tbds) \in Nat
  BY <1>3, <1>4 DEF SameBanks, HasContracts
<1>6. MarketInv'
  BY <1>1, <1>2, <1>5, MarketGrows DEF RecordInv
<1>7. NodeInv'
  BY <1>1, <1>2, NodeGrows DEF RecordInv
<1>8. \A q \in Requests : Traced(q)'
  <2> TAKE q \in Requests
  <2> DEFINE n == Len(blocks) + 1
  <2>1. /\ Extends /\ DOMAIN blocks' = DOMAIN blocks \cup {n} /\ blocks'[n] = block
        /\ \A b \in DOMAIN blocks : blocks'[b] = blocks[b]
    BY <1>1, ExtendsByBlock DEF RecordInv, Extends
  <2>2. Mined(q)' = Mined(q)
    BY <1>2, <2>1 DEF Mined
  <2>3. Rests(q)
    BY <1>1, <2>2 DEF Rests, Pooled
  <2> QED BY <2>1, <2>3, RestTraced DEF RecordInv
<1> QED BY <1>1, <1>6, <1>7, <1>8, BlockAdded

-----------------------------------------------------------------------------
(* The projection, the clock and restarts                                   *)

LEMMA AllRest ==
    ASSUME RecordInv, IInv, UNCHANGED <<blocks, pool, requests, trail, bankRows, faults>>
    PROVE  RecordInv'
<1>1. Extends /\ Requests' = Requests
  BY ExtendsByNone DEF RecordInv, IInv, Requests
<1>2. \A q \in Requests : Traced(q)' /\ Called(q)' /\ Banked(q)'
  <2> TAKE q \in Requests
  <2>1. Rests(q)
    BY DEF Rests, Pooled, Mined
  <2>2. Traced(q)' /\ Called(q)'
    BY <1>1, <2>1, RestTraced DEF RecordInv
  <2>3. Banked(q)'
    BY <1>1, BankedStays DEF RecordInv
  <2> QED BY <2>2, <2>3
<1>3. NodeInv' /\ MarketInv' /\ BanksInv'
  BY <1>1, NodeRests, MarketRests, BanksRest DEF RecordInv
<1> QED BY <1>1, <1>2, <1>3 DEF RecordInv

LEMMA CrashRecorded ==
    ASSUME RecordInv, IInv, Crash
    PROVE  RecordInv'
<1>1. UNCHANGED <<blocks, pool, bankRows, trail>> /\ faults' = faults + 1
  BY DEF Crash
<1>2. Extends
  BY <1>1, ExtendsByNone DEF RecordInv, IInv
<1>3. Requests' = Requests
  BY DEF Crash, Requests
<1>4. \A q \in Requests :
          /\ requests'[q].op = requests[q].op /\ requests'[q].tbd = requests[q].tbd
          /\ requests'[q] = requests[q] \/ (requests'[q].step = "lost" /\ requests[q].step # "answered")
          /\ requests'[q].read = requests[q].read
  <2> TAKE q \in Requests
  <2>1. requests'[q] = IF requests[q].step \in {"arrived", "answered"} THEN requests[q]
                       ELSE [requests[q] EXCEPT !.step = "lost"]
    BY DEF Crash
  <2>2. requests[q] = Fields(requests[q])
    BY DEF IInv, RequestInv
  <2> DEFINE f == Fields(requests[q])
             g == [f EXCEPT !.step = "lost"]
  <2>3. g.op = f.op /\ g.tbd = f.tbd /\ g.read = f.read /\ g.step = "lost"
    BY DEF Fields
  <2>4. requests'[q] = requests[q] \/ (requests'[q] = g /\ requests[q].step # "answered")
    BY <2>1, <2>2, Zenon
  <2>5. requests[q] = f
    BY <2>2
  <2> HIDE DEF f, g
  <2> QED BY <2>3, <2>4, <2>5
<1>5. \A q \in Requests : Traced(q)' /\ Called(q)' /\ Banked(q)'
  <2> TAKE q \in Requests
  <2>0. Traced(q) /\ Called(q) /\ Banked(q)
    BY DEF RecordInv
  <2>1. Mined(q)' = Mined(q) /\ Pooled(q)' = Pooled(q)
    BY <1>1 DEF Mined, Pooled
  <2>2. Banked(q)'
    BY <1>1, <1>2, <1>4, <2>0, BankedStays
  <2>3. CASE requests'[q] = requests[q]
    <3>1. Rests(q)
      BY <1>1, <2>1, <2>3 DEF Rests
    <3> QED BY <1>2, <2>0, <2>2, <3>1, RestTraced
  <2>4. CASE requests'[q].step = "lost" /\ requests[q].step # "answered"
    <3>1. Effects(q)' = Effects(q) /\ One(q)' = One(q)
      BY <1>2, <1>4, <2>1, EffectsRest DEF One
    <3>2. trail'[q] = trail[q] /\ trail[q] # <<"REVERTED">> /\ requests'[q].read \in 0 .. Len(blocks')
      BY <1>1, <1>4, <2>0, <2>4 DEF Traced
    <3>3. Traced(q)'
      BY <2>0, <2>1, <2>4, <3>1, <3>2 DEF Traced, Told, Before
    <3>4. Called(q)'
      BY <2>4 DEF Called, Signing
    <3> QED BY <2>2, <3>3, <3>4
  <2> QED BY <1>4, <2>3, <2>4
<1>6. NodeInv' /\ MarketInv'
  BY <1>1, NodeRests, MarketRests DEF RecordInv
<1>7. BanksInv'
  BY <1>1, <1>2, <1>3, <1>4, BanksRest DEF RecordInv
<1> QED BY <1>2, <1>3, <1>5, <1>6, <1>7 DEF RecordInv, Extends

-----------------------------------------------------------------------------
(* The invariant of the records                                             *)

LEMMA NoMarketFields == DOMAIN NoMarket = MarketFields
BY DEF NoMarket, MarketFields

LEMMA InitRecorded == Init => RecordInv
<1> SUFFICES ASSUME Init PROVE RecordInv
  OBVIOUS
<1>1. PICK scenario \in Scenarios :
        /\ blocks = ToBlocks(scenario.history)
        /\ requests = [r \in DOMAIN scenario.ops |-> Request(scenario.ops[r])]
        /\ trail = [r \in DOMAIN scenario.ops |-> <<>>]
        /\ pool = {} /\ bankRows = {} /\ faults = 0
  BY DEF Init
<1> DEFINE h == scenario.history
<1>2. \A b \in DOMAIN h : IsMarket(h[b])
  BY ScenariosAssumption
<1>3. /\ DOMAIN blocks = DOMAIN h
      /\ \A b \in DOMAIN blocks : blocks[b].state = h[b] /\ blocks[b].tx = NoTx
  BY <1>1 DEF ToBlocks
<1>4. NodeInv
  BY <1>1, <1>3 DEF NodeInv, MinedTxs
<1>5. MarketInv
  <2>1. \A b \in DOMAIN blocks : HasContracts(blocks[b].state) /\ ~Deploys(b)
    BY <1>2, <1>3, NoMarketFields DEF IsMarket, HasContracts, Deploys
  <2> QED BY <1>1, <2>1 DEF MarketInv
<1>6. BanksInv
  BY <1>1 DEF BanksInv
<1>7. \A r \in Requests : Traced(r) /\ Called(r) /\ Banked(r)
  <2> TAKE r \in Requests
  <2>1. requests[r] = Request(scenario.ops[r]) /\ trail[r] = <<>>
    BY <1>1 DEF Requests
  <2>2. /\ requests[r].step = "arrived" /\ requests[r].read = 0 /\ requests[r].tbd = 0
    BY <2>1 DEF Request
  <2>3. Pooled(r) = {} /\ Mined(r) = {}
    BY <1>1, <1>3 DEF Pooled, Mined
  <2>4. <<>> # <<"SUCCEEDED">> /\ <<>> # <<"REVERTED">>
    OBVIOUS
  <2>5. 0 \in 0 .. Len(blocks)
    <3>1. h \in Seq(Range(h))
      BY ScenariosAssumption
    <3>2. Len(h) \in Nat /\ DOMAIN h = 1 .. Len(h)
      BY <3>1
    <3>3. blocks = [b \in 1 .. Len(h) |-> blocks[b]]
      BY <1>1, <3>2 DEF ToBlocks
    <3>4. Len(blocks) = Len(h)
      BY <3>2, <3>3, SeqDef, LenProperties
    <3> QED BY <3>2, <3>4
  <2>6. Traced(r)
    BY <2>1, <2>2, <2>3, <2>4, <2>5 DEF Traced, Untouched, Told
  <2>7. Called(r) /\ Banked(r)
    BY <2>1, <2>2, <2>4 DEF Called, Banked, Signing
  <2> QED BY <2>6, <2>7
<1> QED BY <1>1, <1>4, <1>5, <1>6, <1>7 DEF RecordInv

LEMMA StepRecorded == IInv /\ RecordInv /\ [Next]_vars => RecordInv'
<1> SUFFICES ASSUME IInv, RecordInv, [Next]_vars PROVE RecordInv'
  OBVIOUS
<1>1. ASSUME NEW r \in Requests, Serve(r) \/ LoseConnection(r) PROVE RecordInv'
  BY <1>1, ArriveRecorded, SimulateRecorded, EnqueueRecorded, PrepareRecorded, BroadcastRecorded,
     ConfirmRecorded, AnswerMinedRecorded, BidderRecorded, LoseConnectionRecorded DEF Serve
<1>2. ASSUME NEW tx \in pool, Mine(tx) PROVE RecordInv'
  BY <1>2, MineRecorded
<1>3. ASSUME NEW to \in projected + 1 .. Len(blocks), Project(to) PROVE RecordInv'
  BY <1>3, AllRest DEF Project, OfRows
<1>4. CASE EmptyBlock
  BY <1>4, EmptyBlockRecorded
<1>5. CASE Tick
  BY <1>5, AllRest DEF Tick, OfRows
<1>6. CASE Crash
  BY <1>6, CrashRecorded
<1>7. CASE UNCHANGED vars
  BY <1>7, AllRest DEF vars
<1> QED BY <1>1, <1>2, <1>3, <1>4, <1>5, <1>6, <1>7 DEF Next, Stop

\* The invariant of the records, together with that of the handlers.
THEOREM RecordInvariant == Spec => [](IInv /\ RecordInv)
<1>1. Init => IInv /\ RecordInv
  BY InitInvariant, InitRecorded
<1>2. (IInv /\ RecordInv) /\ [Next]_vars => (IInv /\ RecordInv)'
  BY StepInvariant, StepRecorded
<1> QED BY <1>1, <1>2, PTL DEF Spec

\* A record of one word holds that word and no other.
LEMMA OneWord ==
    ASSUME NEW t, t \in {<<>>, <<"SUCCEEDED">>, <<"REVERTED">>, <<"FAILED">>}
    PROVE  /\ Len(t) <= 1
           /\ "SUCCEEDED" \in Range(t) <=> t = <<"SUCCEEDED">>
           /\ "REVERTED" \in Range(t) <=> t = <<"REVERTED">>
<1>1. CASE t = <<>>
  BY <1>1 DEF Range
<1>2. CASE t = <<"SUCCEEDED">>
  BY <1>2 DEF Range
<1>3. CASE t = <<"REVERTED">>
  BY <1>3 DEF Range
<1>4. CASE t = <<"FAILED">>
  BY <1>4 DEF Range
<1> QED BY <1>1, <1>2, <1>3, <1>4

\* Each deposit contract is of one creation.
LEMMA OwnContract ==
    ASSUME RecordInv, ChainInv, NEW q, NEW r, Contracted(q), Contracted(r), requests[q].tbd = requests[r].tbd
    PROVE  q = r
<1>1. PICK a \in DOMAIN blocks : Deploys(a) /\ blocks[a].tx.req = q /\ requests[q].tbd = Contracts(a)
  BY DEF Contracted
<1>2. PICK b \in DOMAIN blocks : Deploys(b) /\ blocks[b].tx.req = r /\ requests[r].tbd = Contracts(b)
  BY DEF Contracted
<1>3. a \in Nat /\ b \in Nat
  BY DEF ChainInv
<1>4. Contracts(a) \in Nat /\ Contracts(b) \in Nat /\ Contracts(a) = Contracts(b)
  <2>1. \A k \in DOMAIN blocks : Contracts(k) \in Nat
    BY DEF RecordInv, MarketInv, HasContracts, Contracts
  <2> QED BY <1>1, <1>2, <2>1
<1>5. ~(a < b) /\ ~(b < a)
  BY <1>1, <1>2, <1>4 DEF RecordInv, MarketInv
<1>6. a = b
  BY <1>3, <1>5
<1> QED BY <1>1, <1>2, <1>6

\* The row of a creation is there when the creation succeeded, and only then.
LEMMA RowTells ==
    ASSUME RecordInv, ChainInv, NEW r \in Requests, ~One(r)
    PROVE  Done(r) <=> trail[r] = <<"SUCCEEDED">>
<1>1. Done(r) <=> BankRow(r) \in bankRows
  BY DEF Done, One
<1>2. trail[r] = <<"SUCCEEDED">> => BankRow(r) \in bankRows
  BY DEF RecordInv, Banked
<1>3. ASSUME BankRow(r) \in bankRows PROVE trail[r] = <<"SUCCEEDED">>
  <2>1. PICK q \in Requests : RowOf(q, BankRow(r))
    BY <1>3 DEF RecordInv, BanksInv
  <2>2. trail[q] = <<"SUCCEEDED">> /\ Contracted(q) /\ BankRow(r) = BankRow(q)
    BY <2>1 DEF RowOf
  <2>3. requests[q].tbd = requests[r].tbd
    BY <2>2 DEF BankRow
  <2>4. requests[q].tbd # 0
    <3>1. PICK a \in DOMAIN blocks : Deploys(a) /\ requests[q].tbd = Contracts(a)
      BY <2>2 DEF Contracted
    <3> QED BY <3>1 DEF RecordInv, MarketInv
  <2>5. Contracted(r)
    BY <2>3, <2>4 DEF RecordInv, Banked
  <2> QED BY <2>2, <2>3, <2>5, OwnContract
<1> QED BY <1>1, <1>2, <1>3

LEMMA RecordTells == IInv /\ RecordInv => RecordTellsTheTruth
<1> SUFFICES ASSUME IInv, RecordInv, NEW r \in Requests, requests[r].op.kind \notin Unrecorded
             PROVE  LET done      == Done(r)
                        succeeded == "SUCCEEDED" \in Range(trail[r])
                        answered  == requests[r].step = "answered"
                        pending   == \E tx \in pool : tx.req = r
                    IN  /\ succeeded => done
                        /\ "REVERTED" \in Range(trail[r]) => ~pending /\ ~done
                        /\ faults = 0 /\ answered =>
                             /\ Len(trail[r]) <= 1 /\ ~pending
                             /\ succeeded <=> done
                             /\ done => requests[r].answer \in {200, 201, 202, 204}
                             /\ requests[r].answer \in {200, 201, 202} => done
                             /\ requests[r].answer = 204 =>
                                    done \/ \E b \in requests[r].read .. Len(blocks) : ~blocks[b].state.active
  BY DEF RecordTellsTheTruth
<1> DEFINE ok == trail[r] = <<"SUCCEEDED">>
           pending == \E tx \in pool : tx.req = r
<1>1. /\ Len(trail[r]) <= 1
      /\ "SUCCEEDED" \in Range(trail[r]) <=> ok
      /\ "REVERTED" \in Range(trail[r]) <=> trail[r] = <<"REVERTED">>
  BY OneWord DEF RecordInv, Traced
<1>2. Pooled(r) = {} => ~pending
  BY DEF Pooled
<1>3. One(r) => (Done(r) <=> Effects(r) # {})
  BY DEF Done, One
<1>4. ~One(r) => (Done(r) <=> ok)
  BY RowTells DEF IInv
<1>5. Traced(r)
  BY DEF RecordInv
<1>6. <<"SUCCEEDED">> # <<"REVERTED">>
  OBVIOUS
<1>7. ok => Done(r) /\ Pooled(r) = {}
  BY <1>3, <1>4, <1>5 DEF Traced
<1>8. trail[r] = <<"REVERTED">> => ~pending /\ ~Done(r)
  BY <1>2, <1>3, <1>4, <1>5, <1>6 DEF Traced, Undone
<1>9. ASSUME faults = 0, requests[r].step = "answered"
      PROVE  /\ ~pending /\ (ok <=> Done(r))
             /\ Done(r) => requests[r].answer \in {200, 201, 202, 204}
             /\ requests[r].answer \in {200, 201, 202} => Done(r)
             /\ requests[r].answer = 204 =>
                    Done(r) \/ \E b \in requests[r].read .. Len(blocks) : ~blocks[b].state.active
  <2>1. ~ok => Undone(r)
    BY <1>5, <1>9 DEF Traced
  <2>2. ~pending /\ (ok <=> Done(r))
    BY <1>2, <1>3, <1>4, <1>7, <2>1 DEF Undone
  <2>3. IF ok THEN requests[r].answer \in {200, 201, 202, 204}
        ELSE requests[r].answer \in Errors \/ FoundDisabled(r)
    BY <1>5, <1>9 DEF Traced, Told
  <2>4. \A code \in Errors : code \notin {200, 201, 202, 204}
    BY DEF Errors
  <2>5. FoundDisabled(r) => /\ requests[r].answer = 204
                            /\ \E b \in requests[r].read .. Len(blocks) : ~blocks[b].state.active
    <3>1. DOMAIN blocks = 1 .. Len(blocks) /\ Len(blocks) \in Nat /\ requests[r].read \in Nat
      BY <1>5 DEF IInv, ChainInv, Traced
    <3> QED BY <3>1 DEF FoundDisabled
  <2> QED BY <2>2, <2>3, <2>4, <2>5
<1> HIDE DEF ok, pending
<1> QED BY <1>1, <1>7, <1>8, <1>9 DEF pending

\* The records and the answers tell what happened on the chain, whatever the requests, the
\* chain they meet, the crashes and the lost connections.  SUCCEEDED: it was done;
\* REVERTED: it was not and never will be; and while nothing fails, a request succeeded by
\* its record and by its answer exactly if it was done, and leaves nothing in the pool
\* (operations.ts:165-205, app.ts:472-556).
THEOREM RecordTheorem == Spec => []RecordTellsTheTruth
BY RecordInvariant, RecordTells, PTL

-----------------------------------------------------------------------------
(* Checks                                                                   *)

\* When no check fails, none of them did.
LEMMA NoneFailed ==
    ASSUME NEW checks, DOMAIN checks \subseteq 1 .. 6,
           \A k \in DOMAIN checks : checks[k][1] # "none", FirstError(checks) = "none"
    PROVE  \A k \in DOMAIN checks : ~checks[k][2]
<1> DEFINE failed == {k \in DOMAIN checks : checks[k][2]}
           m == Min(failed)
<1>1. FirstError(checks) = IF failed = {} THEN "none" ELSE checks[m][1]
  BY Zenon DEF FirstError
<1>2. failed \in SUBSET (1 .. 6) /\ failed \subseteq DOMAIN checks
  OBVIOUS
<1>3. ASSUME failed = {} PROVE \A k \in DOMAIN checks : ~checks[k][2]
  BY <1>3
<1> HIDE DEF failed
<1>4. failed # {} => m \in failed
  <2> SUFFICES ASSUME failed # {} PROVE m \in failed
    OBVIOUS
  <2>1. \E x \in failed : \A y \in failed : x =< y
    <3>1. CASE 1 \in failed
      BY <1>2, <3>1
    <3>2. CASE 1 \notin failed /\ 2 \in failed
      BY <1>2, <3>2
    <3>3. CASE 1 \notin failed /\ 2 \notin failed /\ 3 \in failed
      BY <1>2, <3>3
    <3>4. CASE 1 \notin failed /\ 2 \notin failed /\ 3 \notin failed /\ 4 \in failed
      BY <1>2, <3>4
    <3>5. CASE 1 \notin failed /\ 2 \notin failed /\ 3 \notin failed /\ 4 \notin failed /\ 5 \in failed
      BY <1>2, <3>5
    <3>6. CASE 1 \notin failed /\ 2 \notin failed /\ 3 \notin failed /\ 4 \notin failed /\ 5 \notin failed
      <4>1. \A x \in failed : x = 6
        BY <1>2, <3>6
      <4> QED BY <4>1
    <3> QED BY <3>1, <3>2, <3>3, <3>4, <3>5, <3>6
  <2> QED BY <2>1, Zenon DEF Min
<1> HIDE DEF m
<1>5. failed = {}
  BY <1>1, <1>2, <1>4
<1> QED BY <1>3, <1>5

\* The calls about the latest auction, by their name
LEMMA AuctionErrors ==
    ASSUME NEW w, NEW from, NEW c, NEW t
    PROVE  /\ c.fn = "deployAuction" => Error(w, from, c, t) = DeployAuctionError(w, c, t)
           /\ c.fn = "closeAuction" => Error(w, from, c, t) = CloseAuctionError(w, t)
           /\ c.fn = "cancelAuction" => Error(w, from, c, t) = CancelAuctionError(w)
           /\ c.fn = "finaliseAuction" => Error(w, from, c, t) = FinaliseError(w, c)
BY DEF Error, MoneyCalls, DepositCalls, DepositMoves

\* No auction is created while one is in flight; a close finds the latest bidding, a
\* finalisation finds it closed and a cancellation finds it in flight.
LEMMA DeployAllowed ==
    ASSUME NEW w, NEW c, NEW t, DeployAuctionError(w, c, t) = "none"
    PROVE  ~InFlight(w)
<1> DEFINE checks == <<
        <<"IncorrectBondState", InFlight(w)>>,
        <<"BondAlreadyDeployed", c.fresh /\ w.active>>,
        <<"BondDoesNotExist", ~c.fresh /\ ~w.active>>,
        <<"BuybackExceedsSupply", c.type = "BUYBACK" /\ c.size > Supply(w)>>,
        <<"EndNotInFuture", c.end <= t>>,
        <<"AuctionType", (c.type = "RATE") # (w.auctions = <<>>)>> >>
<1>1. FirstError(checks) = "none"
  BY DEF DeployAuctionError
<1>2. DOMAIN checks = 1 .. 6 /\ (\A k \in 1 .. 6 : checks[k][1] # "none")
  OBVIOUS
<1>3. checks[1][2] = InFlight(w)
  BY Zenon
<1> HIDE DEF checks
<1>4. \A k \in DOMAIN checks : ~checks[k][2]
  BY <1>1, <1>2, NoneFailed
<1>5. ~checks[1][2]
  BY <1>2, <1>4
<1> QED BY <1>3, <1>5, Zenon

LEMMA CloseAllowed ==
    ASSUME NEW w, NEW t, CloseAuctionError(w, t) = "none"
    PROVE  InFlight(w) /\ LatestStatus(w) = "BIDDING"
<1> DEFINE checks == <<
        <<"IncorrectBondState", ~InFlight(w)>>,
        <<"NotInBidPhase", LatestStatus(w) # "BIDDING">>,
        <<"InBidPhase", InFlight(w) /\ t <= Last(w.auctions).end>> >>
<1>1. FirstError(checks) = "none"
  BY DEF CloseAuctionError
<1>2. DOMAIN checks = 1 .. 3 /\ (\A k \in 1 .. 3 : checks[k][1] # "none")
  OBVIOUS
<1>3. checks[1][2] = (~InFlight(w)) /\ checks[2][2] = (LatestStatus(w) # "BIDDING")
  BY Zenon
<1> HIDE DEF checks
<1>4. \A k \in DOMAIN checks : ~checks[k][2]
  BY <1>1, <1>2, NoneFailed
<1>5. ~checks[1][2] /\ ~checks[2][2]
  BY <1>2, <1>4
<1> QED BY <1>3, <1>5, Zenon

LEMMA CancelAllowed ==
    ASSUME NEW w, CancelAuctionError(w) = "none"
    PROVE  InFlight(w)
<1> DEFINE checks == <<
        <<"IncorrectBondState", ~InFlight(w)>>,
        <<"ReductionBelowSupply", InFlight(w) /\ w.offering - Last(w.auctions).size < Supply(w)>> >>
<1>1. FirstError(checks) = "none"
  BY DEF CancelAuctionError
<1>2. DOMAIN checks = 1 .. 2 /\ (\A k \in 1 .. 2 : checks[k][1] # "none")
  OBVIOUS
<1>3. checks[1][2] = (~InFlight(w))
  BY Zenon
<1> HIDE DEF checks
<1>4. \A k \in DOMAIN checks : ~checks[k][2]
  BY <1>1, <1>2, NoneFailed
<1>5. ~checks[1][2]
  BY <1>2, <1>4
<1> QED BY <1>3, <1>5, Zenon

LEMMA FinaliseAllowed ==
    ASSUME NEW w, NEW c, FinaliseError(w, c) = "none"
    PROVE  LatestStatus(w) = "CLOSED"
<1> DEFINE checks == <<
        <<"IncorrectBondState", ~InFlight(w)>>,
        <<"AuctionNotClosed", LatestStatus(w) # "CLOSED">>,
        <<"AllocationTypeMismatch", InFlight(w) /\ Last(w.auctions).type # c.type>>,
        <<"InvalidProof", Len(w.auctions) # c.auction>>,
        <<"OverAllocation", InFlight(w) /\ Allocated(c) > Last(w.auctions).size>>,
        <<"BuybackExceedsSupply", c.type = "BUYBACK" /\ Allocated(c) > Supply(w)>> >>
<1>1. FirstError(checks) = "none"
  BY DEF FinaliseError
<1>2. DOMAIN checks = 1 .. 6 /\ (\A k \in 1 .. 6 : checks[k][1] # "none")
  OBVIOUS
<1>3. checks[2][2] = (LatestStatus(w) # "CLOSED")
  BY Zenon
<1> HIDE DEF checks
<1>4. \A k \in DOMAIN checks : ~checks[k][2]
  BY <1>1, <1>2, NoneFailed
<1>5. ~checks[2][2]
  BY <1>2, <1>4
<1> QED BY <1>3, <1>5, Zenon

-----------------------------------------------------------------------------
(* What a call leaves of the auctions                                       *)

AuctionFields == {"type", "status", "end", "size", "key", "bids", "allocations"}
Flying == {"BIDDING", "CLOSED"}

\* Auctions of which only the latest may be in flight
Ordered(s) ==
    /\ s \in Seq(Range(s))
    /\ \A k \in DOMAIN s :
         /\ DOMAIN s[k] = AuctionFields
         /\ s[k].status \in Ended \/ (k = Len(s) /\ s[k].status \in Flying)

LEMMA LatestFacts ==
    ASSUME NEW w, w.auctions \in Seq(Range(w.auctions)), NEW n, n = Len(w.auctions)
    PROVE  /\ InFlight(w) <=> n \in DOMAIN w.auctions /\ w.auctions[n].status \in Flying
           /\ \A status \in Flying : LatestStatus(w) = status =>
                  n \in DOMAIN w.auctions /\ w.auctions[n].status = status
<1>1. n \in Nat /\ DOMAIN w.auctions = 1 .. n /\ (w.auctions = <<>> <=> n = 0)
  OBVIOUS
<1>2. CASE n = 0
  BY <1>1, <1>2 DEF InFlight, LatestStatus, Flying
<1>3. CASE n # 0
  <2>1. LatestStatus(w) = w.auctions[n].status /\ n \in DOMAIN w.auctions
    BY <1>1, <1>3 DEF LatestStatus, Last
  <2> QED BY <2>1 DEF InFlight, Flying
<1> QED BY <1>2, <1>3

LEMMA MarketAuctions ==
    ASSUME NEW w
    PROVE  IsMarket(w) <=>
             /\ DOMAIN w = MarketFields /\ DOMAIN w.registry = Names
             /\ w.tbds \in Seq(Range(w.tbds))
             /\ \A k \in DOMAIN w.tbds : DOMAIN w.tbds[k] = DOMAIN NewTbd(CentralBank)
             /\ Ordered(w.auctions)
<1>1. ASSUME w.auctions \in Seq(Range(w.auctions))
      PROVE  \A k \in DOMAIN w.auctions :
                 (k = Len(w.auctions) /\ InFlight(w)) <=> (k = Len(w.auctions) /\ w.auctions[k].status \in Flying)
  BY <1>1, LatestFacts
<1> QED BY <1>1, NoMarketFields DEF IsMarket, Ordered, AuctionFields

\* An auction is replaced,
LEMMA AuctionSet ==
    ASSUME NEW s, Ordered(s), NEW k, NEW y,
           k \in DOMAIN s =>
             /\ DOMAIN y = AuctionFields
             /\ y.status = s[k].status \/ (k = Len(s) /\ y.status \in Ended \cup Flying)
    PROVE  /\ Ordered([s EXCEPT ![k] = y]) /\ Len([s EXCEPT ![k] = y]) = Len(s)
           /\ k \in DOMAIN s => [s EXCEPT ![k] = y][k] = y
<1> DEFINE u == [s EXCEPT ![k] = y]
<1>1. u \in Seq(Range(u)) /\ Len(u) = Len(s)
  BY ContractSet DEF Ordered
<1>2. DOMAIN u = DOMAIN s /\ (k \in DOMAIN s => u[k] = y) /\ \A x \in DOMAIN s : x # k => u[x] = s[x]
  OBVIOUS
<1> HIDE DEF u
<1>3. \A x \in DOMAIN u : /\ DOMAIN u[x] = AuctionFields
                          /\ u[x].status \in Ended \/ (x = Len(u) /\ u[x].status \in Flying)
  BY <1>1, <1>2 DEF Ordered
<1>4. Ordered(u)
  BY <1>1, <1>3 DEF Ordered
<1> QED BY <1>1, <1>2, <1>4 DEF u

\* or one more added when all have ended.
LEMMA AuctionAdded ==
    ASSUME NEW s, Ordered(s), \A k \in DOMAIN s : s[k].status \in Ended,
           NEW y, DOMAIN y = AuctionFields, y.status = "BIDDING"
    PROVE  Ordered(Append(s, y)) /\ Len(Append(s, y)) = Len(s) + 1 /\ Len(s) \in Nat
<1> DEFINE u == Append(s, y)
<1>1. /\ u \in Seq(Range(u)) /\ DOMAIN u = 1 .. Len(s) + 1 /\ u[Len(s) + 1] = y /\ Len(u) = Len(s) + 1
      /\ Len(s) \in Nat /\ DOMAIN s = 1 .. Len(s) /\ \A k \in 1 .. Len(s) : u[k] = s[k]
  BY GrownSeq DEF Ordered
<1> HIDE DEF u
<1>2. \A x \in DOMAIN u : x \in DOMAIN s \/ x = Len(s) + 1
  BY <1>1
<1>3. \A x \in DOMAIN u : /\ DOMAIN u[x] = AuctionFields
                          /\ u[x].status \in Ended \/ (x = Len(u) /\ u[x].status \in Flying)
  BY <1>1, <1>2 DEF Ordered, Flying
<1> QED BY <1>1, <1>3 DEF Ordered, u

\* The latest auction gets a status, and no other changes.
Passes(w, e, status) ==
    /\ Ordered(e.auctions) /\ Len(e.auctions) = Len(w.auctions)
    /\ Len(w.auctions) \in DOMAIN w.auctions /\ e.auctions[Len(w.auctions)].status = status

LEMMA LatestPasses ==
    ASSUME NEW w, DOMAIN w = MarketFields, Ordered(w.auctions), Len(w.auctions) \in DOMAIN w.auctions,
           NEW status \in Ended \cup Flying
    PROVE  Passes(w, WithLatest(w, status), status)
<1> DEFINE n == Len(w.auctions)
           y == [w.auctions[n] EXCEPT !.status = status]
           s == [w.auctions EXCEPT ![n] = y]
           e == WithLatest(w, status)
<1>1. e = [w EXCEPT !.auctions = s]
  BY DEF WithLatest
<1>2. DOMAIN y = AuctionFields /\ y.status = status
  BY DEF Ordered, AuctionFields
<1> HIDE DEF y
<1>3. Ordered(s) /\ Len(s) = n /\ s[n] = y
  BY <1>2, AuctionSet
<1> HIDE DEF s
<1>4. e.auctions = s
  BY <1>1 DEF MarketFields
<1> HIDE DEF e
<1>5. Passes(w, e, status)
  BY <1>2, <1>3, <1>4 DEF Passes
<1> QED BY <1>5 DEF e

\* Others do not touch the auctions.
Aloof == CallNames \ {"deployAuction", "closeAuction", "cancelAuction", "finaliseAuction", "submitBid"}

LEMMA EffectAloof ==
    ASSUME NEW w, DOMAIN w = MarketFields, NEW from, NEW c, c.fn \in Aloof, NEW t
    PROVE  Effect(w, from, c, t).auctions = w.auctions
<1> DEFINE e == Effect(w, from, c, t)
<1> HIDE DEF e
<1>1. CASE c.fn = "deployBond"
  <2>1. e = DeployBond(w)
    BY <1>1, EffectCases DEF e
  <2>2. DeployBond(w).auctions = w.auctions
    BY DEF DeployBond, MarketFields
  <2> QED BY <2>1, <2>2 DEF e
<1>2. CASE c.fn = "disableBond"
  <2>1. e = DisableBond(w)
    BY <1>2, EffectCases DEF e
  <2>2. DisableBond(w).auctions = w.auctions
    BY DEF DisableBond, MarketFields
  <2> QED BY <2>1, <2>2 DEF e
<1>3. CASE c.fn = "payCoupon"
  <2> DEFINE payouts == Payouts(w, c.holders)
             paid    == FoldSet(LAMBDA h, u : Pay(u, Reserve, h, payouts[h]), w, DOMAIN payouts)
             cash    == paid.cash
             units   == [a \in Owners |-> 0]
  <2>1. PayCoupon(w, c) = [w EXCEPT !.cash = cash, !.units = units, !.matured = TRUE]
    BY Zenon DEF PayCoupon
  <2>2. e = PayCoupon(w, c)
    BY <1>3, EffectCases DEF e
  <2> HIDE DEF cash, units
  <2>3. [w EXCEPT !.cash = cash, !.units = units, !.matured = TRUE].auctions = w.auctions
    BY DEF MarketFields
  <2> QED BY <2>1, <2>2, <2>3 DEF e
<1>4. CASE c.fn \in MoneyCalls
  <2> DEFINE x == Moved(w.cash, c.from, c.to)
  <2>1. e = [w EXCEPT !.cash = x]
    BY <1>4, EffectCases DEF e, CashMoved
  <2> HIDE DEF x
  <2>2. e.auctions = w.auctions
    BY <2>1 DEF MarketFields
  <2> QED BY <2>2 DEF e
<1>5. CASE c.fn \in {"add", "remove"}
  <2> DEFINE x == Listing(w.listed, c)
  <2>1. e = [w EXCEPT !.listed = x]
    BY <1>5, EffectCases DEF e, CashListed
  <2> HIDE DEF x
  <2>2. e.auctions = w.auctions
    BY <2>1 DEF MarketFields
  <2> QED BY <2>2 DEF e
<1>6. CASE c.fn \in DepositMoves
  <2> DEFINE y == [w.tbds[c.tbd] EXCEPT !.deposit = Moved(@, c.from, c.to)]
             x == [w.tbds EXCEPT ![c.tbd] = y]
  <2>1. e = [w EXCEPT !.tbds = x]
    BY <1>6, EffectCases DEF e, DepositMoved
  <2> HIDE DEF x
  <2>2. e.auctions = w.auctions
    BY <2>1 DEF MarketFields
  <2> QED BY <2>2 DEF e
<1>7. CASE c.fn \in {"tbdAdd", "tbdRemove"}
  <2> DEFINE y == [w.tbds[c.tbd] EXCEPT !.listed = Listing(@, c)]
             x == [w.tbds EXCEPT ![c.tbd] = y]
  <2>1. DepositListed(w, c, e)
    BY <1>7, EffectCases DEF e
  <2>2. e = [w EXCEPT !.tbds = x]
    BY <2>1 DEF DepositListed
  <2> HIDE DEF x
  <2>3. e.auctions = w.auctions
    BY <2>2 DEF MarketFields
  <2> QED BY <2>3 DEF e
<1>8. CASE c.fn = "deployTbd"
  <2> DEFINE x == Append(w.tbds, NewTbd(from))
  <2>1. e = [w EXCEPT !.tbds = x]
    BY <1>8, EffectCases DEF e, TbdDeployed
  <2> HIDE DEF x
  <2>2. e.auctions = w.auctions
    BY <2>1 DEF MarketFields
  <2> QED BY <2>2 DEF e
<1>9. CASE c.fn = "setContract"
  <2> DEFINE x == [w.registry EXCEPT ![c.name] = c.tbd]
  <2>1. e = [w EXCEPT !.registry = x]
    BY <1>9, EffectCases DEF e, Registered
  <2> HIDE DEF x
  <2>2. e.auctions = w.auctions
    BY <2>1 DEF MarketFields
  <2> QED BY <2>2 DEF e
<1> QED BY <1>1, <1>2, <1>3, <1>4, <1>5, <1>6, <1>7, <1>8, <1>9
        DEF Aloof, CallNames, MoneyCalls, DepositMoves

LEMMA FinaliseOnAuctions ==
    ASSUME NEW w, DOMAIN w = MarketFields, Ordered(w.auctions), Len(w.auctions) \in DOMAIN w.auctions,
           NEW c, NEW t
    PROVE  Passes(w, Finalise(w, c, t), "FINALISED")
<1> DEFINE n      == Len(w.auctions)
           total  == Allocated(c)
           w0     == [w EXCEPT !.auctions[Len(w.auctions)].allocations = c.allocations]
           w1     == WithLatest(w0, "FINALISED")
           there  == WithLatest([w EXCEPT !.auctions[Len(w.auctions)].allocations = c.allocations], "FINALISED")
           minted == [w1 EXCEPT !.units[Manager] = @ + total, !.issued = TRUE,
                                !.due = IF c.type = "RATE" THEN t + 1 ELSE @]
           bought == FoldLeft(SettleBuyback, w1, c.allocations)
           sold   == FoldLeft(SettleIssuance, minted, c.allocations)
<1>1. Finalise(w, c, t) = IF c.type = "BUYBACK" THEN Settled(w1, bought) ELSE Settled(minted, sold)
  BY Zenon DEF Finalise
<1>2. /\ DOMAIN w0 = MarketFields /\ Ordered(w0.auctions) /\ Len(w0.auctions) = n
      /\ n \in DOMAIN w0.auctions
  <2> DEFINE y == [w.auctions[n] EXCEPT !.allocations = c.allocations]
             s == [w.auctions EXCEPT ![n] = y]
  <2>1. w0 = [w EXCEPT !.auctions = s]
    OBVIOUS
  <2>2. DOMAIN y = AuctionFields /\ y.status = w.auctions[n].status
    BY DEF Ordered, AuctionFields
  <2> HIDE DEF y
  <2>3. Ordered(s) /\ Len(s) = n
    BY <2>2, AuctionSet
  <2>4. DOMAIN s = DOMAIN w.auctions
    OBVIOUS
  <2> HIDE DEF s, w0
  <2>5. DOMAIN w0 = MarketFields /\ w0.auctions = s
    BY <2>1 DEF MarketFields
  <2> QED BY <2>3, <2>4, <2>5
<1> HIDE DEF total, w0, bought, sold
<1>3. Passes(w0, w1, "FINALISED") /\ DOMAIN w1 = MarketFields
  BY <1>2, LatestPasses, StatusOnBanks DEF Ended, SameBanks
<1>4. Passes(w, w1, "FINALISED")
  BY <1>2, <1>3 DEF Passes
<1> HIDE DEF w1
<1>5. minted.auctions = w1.auctions /\ DOMAIN minted = MarketFields
  BY <1>3 DEF MarketFields
<1> HIDE DEF minted
<1>6. Settled(w1, bought).auctions = w1.auctions /\ Settled(minted, sold).auctions = w1.auctions
  BY <1>3, <1>5 DEF Settled, MarketFields
<1>7. Finalise(w, c, t).auctions = w1.auctions
  BY <1>1, <1>6
<1> QED BY <1>4, <1>7 DEF Passes

LEMMA DeployOnAuctions ==
    ASSUME NEW w, DOMAIN w = MarketFields, Ordered(w.auctions), ~InFlight(w), NEW c
    PROVE  /\ Ordered(DeployAuction(w, c).auctions) /\ Len(w.auctions) \in Nat
           /\ Len(DeployAuction(w, c).auctions) = Len(w.auctions) + 1
<1> DEFINE w1 == IF c.fresh THEN DeployBond(w) ELSE w
           y  == [type |-> c.type, status |-> "BIDDING", end |-> c.end,
                  size |-> c.size, key |-> c.key, bids |-> <<>>, allocations |-> <<>>]
           d  == [w1 EXCEPT !.offering = IF c.type = "BUYBACK" THEN @ ELSE @ + c.size,
                            !.auctions = Append(@, y)]
<1>1. DeployAuction(w, c) = d
  BY Zenon DEF DeployAuction
<1>2. DOMAIN w1 = MarketFields /\ w1.auctions = w.auctions
  BY DEF DeployBond, MarketFields
<1>3. DOMAIN y = AuctionFields /\ y.status = "BIDDING"
  BY DEF AuctionFields
<1> HIDE DEF w1, y
<1>4. d.auctions = Append(w.auctions, y)
  BY <1>2 DEF MarketFields
<1>5. \A k \in DOMAIN w.auctions : w.auctions[k].status \in Ended
  BY LatestFacts DEF Ordered
<1>6. DeployAuction(w, c).auctions = Append(w.auctions, y)
  BY <1>1, <1>4
<1> QED BY <1>3, <1>5, <1>6, AuctionAdded

\* Calls about the latest auction
Closing == {"closeAuction", "cancelAuction", "finaliseAuction"}

\* A call keeps the auctions in order and drops none; one about the latest changes it.
LEMMA EffectOnAuctions ==
    ASSUME NEW w, DOMAIN w = MarketFields, Ordered(w.auctions), NEW from, NEW c, c.fn \in CallNames, NEW t,
           Error(w, from, c, t) = "none"
    PROVE  /\ Ordered(Effect(w, from, c, t).auctions)
           /\ Len(w.auctions) \in Nat /\ Len(Effect(w, from, c, t).auctions) \in Nat
           /\ Len(w.auctions) <= Len(Effect(w, from, c, t).auctions)
           /\ c.fn \in Closing =>
                w.auctions[Len(w.auctions)].status # Effect(w, from, c, t).auctions[Len(w.auctions)].status
<1> DEFINE e == Effect(w, from, c, t)
           n == Len(w.auctions)
           Result == /\ Ordered(e.auctions) /\ n \in Nat /\ Len(e.auctions) \in Nat /\ n <= Len(e.auctions)
                     /\ c.fn \in Closing => w.auctions[n].status # e.auctions[n].status
<1> HIDE DEF e
<1>1. n \in Nat /\ DOMAIN w.auctions = 1 .. n /\ w.auctions \in Seq(Range(w.auctions))
  BY DEF Ordered
<1>2. CASE c.fn \in Aloof
  <2>1. e.auctions = w.auctions
    BY <1>2, EffectAloof DEF e
  <2>2. c.fn \notin Closing
    BY <1>2 DEF Aloof, Closing
  <2> QED BY <1>1, <2>1, <2>2 DEF e
<1>3. CASE c.fn = "deployAuction"
  <2>1. e = DeployAuction(w, c)
    BY <1>3, EffectCases DEF e
  <2>2. ~InFlight(w)
    BY <1>3, AuctionErrors, DeployAllowed
  <2>3. Ordered(e.auctions) /\ Len(e.auctions) = n + 1
    BY <2>1, <2>2, DeployOnAuctions
  <2> QED BY <1>1, <1>3, <2>3 DEF e, Closing
<1>4. CASE c.fn = "closeAuction"
  <2>1. e = WithLatest(w, "CLOSED")
    BY <1>4, EffectCases DEF e
  <2>2. LatestStatus(w) = "BIDDING"
    BY <1>4, AuctionErrors, CloseAllowed
  <2>3. n \in DOMAIN w.auctions /\ w.auctions[n].status = "BIDDING"
    BY <1>1, <2>2, LatestFacts DEF Flying
  <2>4. Passes(w, e, "CLOSED")
    BY <2>1, <2>3, LatestPasses DEF Flying
  <2> QED BY <1>1, <2>3, <2>4 DEF e, Passes
<1>5. CASE c.fn = "cancelAuction"
  <2> DEFINE x == w.offering - Last(w.auctions).size
             u == [w EXCEPT !.offering = x]
  <2>1. e = WithLatest(u, "CANCELLED")
    BY <1>5, EffectCases DEF e, CancelAuction
  <2>2. InFlight(w)
    BY <1>5, AuctionErrors, CancelAllowed
  <2>3. n \in DOMAIN w.auctions /\ w.auctions[n].status \in Flying
    BY <1>1, <2>2, LatestFacts
  <2> HIDE DEF x
  <2>4. DOMAIN u = MarketFields /\ u.auctions = w.auctions
    BY DEF MarketFields
  <2> HIDE DEF u
  <2>5. Passes(u, e, "CANCELLED")
    BY <2>1, <2>3, <2>4, LatestPasses DEF Ended
  <2> QED BY <1>1, <2>3, <2>4, <2>5 DEF e, Passes, Flying
<1>6. CASE c.fn = "finaliseAuction"
  <2>1. e = Finalise(w, c, t)
    BY <1>6, EffectCases DEF e
  <2>2. LatestStatus(w) = "CLOSED"
    BY <1>6, AuctionErrors, FinaliseAllowed
  <2>3. n \in DOMAIN w.auctions /\ w.auctions[n].status = "CLOSED"
    BY <1>1, <2>2, LatestFacts DEF Flying
  <2>4. Passes(w, e, "FINALISED")
    BY <2>1, <2>3, FinaliseOnAuctions
  <2> QED BY <1>1, <2>3, <2>4 DEF e, Passes
<1>7. CASE c.fn = "submitBid"
  <2> DEFINE y == [w.auctions[c.auction] EXCEPT !.bids = Append(@, [c.bid EXCEPT !.bidder = from])]
             s == [w.auctions EXCEPT ![c.auction] = y]
  <2>1. e = [w EXCEPT !.auctions = s]
    <3>1. e = SubmitBid(w, from, c)
      BY <1>7, EffectCases DEF e
    <3>2. SubmitBid(w, from, c) = [w EXCEPT !.auctions = s]
      BY DEF SubmitBid
    <3> QED BY <3>1, <3>2
  <2>2. c.auction \in DOMAIN w.auctions =>
            DOMAIN y = AuctionFields /\ y.status = w.auctions[c.auction].status
    BY DEF Ordered, AuctionFields
  <2> HIDE DEF y
  <2>3. Ordered(s) /\ Len(s) = n
    BY <2>2, AuctionSet
  <2> HIDE DEF s
  <2>4. e.auctions = s
    BY <2>1 DEF MarketFields
  <2> QED BY <1>1, <1>7, <2>3, <2>4 DEF e, Closing
<1> QED BY <1>2, <1>3, <1>4, <1>5, <1>6, <1>7 DEF Aloof

-----------------------------------------------------------------------------
(* What a call leaves of banks and names                                    *)

TbdFields == {"bank", "listed", "deposit"}

\* Deposit contracts, each with its bank
Founded(s) == s \in Seq(Range(s)) /\ \A k \in DOMAIN s : DOMAIN s[k] = TbdFields

\* Those of s are those of u, and each is still with its bank.
Retained(s, u) == \A k \in DOMAIN s : k \in DOMAIN u /\ u[k].bank = s[k].bank

LEMMA ContractReplaced ==
    ASSUME NEW s, Founded(s), NEW k, NEW y,
           k \in DOMAIN s => DOMAIN y = TbdFields /\ y.bank = s[k].bank
    PROVE  Founded([s EXCEPT ![k] = y]) /\ Retained(s, [s EXCEPT ![k] = y])
<1> DEFINE u == [s EXCEPT ![k] = y]
<1>1. u \in Seq(Range(u))
  BY ContractSet DEF Founded
<1>2. DOMAIN u = DOMAIN s /\ (k \in DOMAIN s => u[k] = y) /\ \A x \in DOMAIN s : x # k => u[x] = s[x]
  OBVIOUS
<1> HIDE DEF u
<1>3. Founded(u) /\ Retained(s, u)
  BY <1>1, <1>2 DEF Founded, Retained
<1> QED BY <1>3 DEF u

LEMMA ContractAdded ==
    ASSUME NEW s, Founded(s), NEW y, DOMAIN y = TbdFields
    PROVE  /\ Founded(Append(s, y)) /\ Retained(s, Append(s, y))
           /\ Len(s) + 1 \in DOMAIN Append(s, y) /\ Append(s, y)[Len(s) + 1] = y
           /\ Len(Append(s, y)) = Len(s) + 1
<1> DEFINE u == Append(s, y)
<1>1. /\ u \in Seq(Range(u)) /\ DOMAIN u = 1 .. Len(s) + 1 /\ u[Len(s) + 1] = y /\ Len(u) = Len(s) + 1
      /\ Len(s) \in Nat /\ DOMAIN s = 1 .. Len(s) /\ \A k \in 1 .. Len(s) : u[k] = s[k]
  BY GrownSeq DEF Founded
<1> HIDE DEF u
<1>2. \A x \in DOMAIN u : x \in DOMAIN s \/ x = Len(s) + 1
  BY <1>1
<1>3. Founded(u) /\ Retained(s, u)
  BY <1>1, <1>2 DEF Founded, Retained
<1> QED BY <1>1, <1>3 DEF u

\* A call keeps every contract with its bank and every name where it was, but for the
\* contract a deployment adds and the name a registration sets.
Banking(w, e, from, c) ==
    /\ DOMAIN e = MarketFields /\ Founded(e.tbds) /\ Retained(w.tbds, e.tbds)
    /\ c.fn # "setContract" => e.registry = w.registry
    /\ c.fn = "setContract" => e.registry = [w.registry EXCEPT ![c.name] = c.tbd]
    /\ c.fn = "deployTbd" => Len(e.tbds) \in DOMAIN e.tbds /\ e.tbds[Len(e.tbds)].bank = from

LEMMA EffectOnBanking ==
    ASSUME NEW w, DOMAIN w = MarketFields, Founded(w.tbds), NEW from, NEW c, c.fn \in CallNames, NEW t
    PROVE  Banking(w, Effect(w, from, c, t), from, c)
<1> DEFINE e == Effect(w, from, c, t)
<1> HIDE DEF e
<1>1. CASE c.fn \in BondCalls \cup MoneyCalls \cup {"add", "remove"}
  <2>1. SameBanks(w, e)
    BY <1>1, BondCallsOnBanks DEF e
  <2>2. c.fn \notin {"deployTbd", "setContract"}
    BY <1>1 DEF BondCalls, MoneyCalls
  <2>3. Retained(w.tbds, w.tbds)
    BY DEF Retained
  <2> QED BY <2>1, <2>2, <2>3 DEF SameBanks, Banking, e
<1>2. CASE c.fn \in DepositMoves
  <2> DEFINE y == [w.tbds[c.tbd] EXCEPT !.deposit = Moved(@, c.from, c.to)]
             s == [w.tbds EXCEPT ![c.tbd] = y]
  <2>1. e = [w EXCEPT !.tbds = s]
    BY <1>2, EffectCases DEF e, DepositMoved
  <2>2. c.tbd \in DOMAIN w.tbds => DOMAIN y = TbdFields /\ y.bank = w.tbds[c.tbd].bank
    BY DEF Founded, TbdFields
  <2> HIDE DEF y
  <2>3. Founded(s) /\ Retained(w.tbds, s)
    BY <2>2, ContractReplaced
  <2> HIDE DEF s
  <2>4. DOMAIN e = MarketFields /\ e.tbds = s /\ e.registry = w.registry
    BY <2>1 DEF MarketFields
  <2>5. c.fn \notin {"deployTbd", "setContract"}
    BY <1>2 DEF DepositMoves
  <2> QED BY <2>3, <2>4, <2>5 DEF Banking, e
<1>3. CASE c.fn \in {"tbdAdd", "tbdRemove"}
  <2> DEFINE y == [w.tbds[c.tbd] EXCEPT !.listed = Listing(@, c)]
             s == [w.tbds EXCEPT ![c.tbd] = y]
  <2>1. DepositListed(w, c, e)
    BY <1>3, EffectCases DEF e
  <2>2. e = [w EXCEPT !.tbds = s]
    BY <2>1 DEF DepositListed
  <2>3. c.tbd \in DOMAIN w.tbds => DOMAIN y = TbdFields /\ y.bank = w.tbds[c.tbd].bank
    BY DEF Founded, TbdFields
  <2> HIDE DEF y
  <2>4. Founded(s) /\ Retained(w.tbds, s)
    BY <2>3, ContractReplaced
  <2> HIDE DEF s
  <2>5. DOMAIN e = MarketFields /\ e.tbds = s /\ e.registry = w.registry
    BY <2>2 DEF MarketFields
  <2> QED BY <1>3, <2>4, <2>5 DEF Banking, e
<1>4. CASE c.fn = "deployTbd"
  <2> DEFINE y == NewTbd(from)
             s == Append(w.tbds, y)
  <2>1. e = [w EXCEPT !.tbds = s]
    BY <1>4, EffectCases DEF e, TbdDeployed
  <2>2. DOMAIN y = TbdFields /\ y.bank = from
    BY DEF NewTbd, TbdFields
  <2> HIDE DEF y
  <2>3. /\ Founded(s) /\ Retained(w.tbds, s) /\ Len(s) \in DOMAIN s /\ s[Len(s)] = y
    BY <2>2, ContractAdded
  <2> HIDE DEF s
  <2>4. DOMAIN e = MarketFields /\ e.tbds = s /\ e.registry = w.registry
    BY <2>1 DEF MarketFields
  <2> QED BY <1>4, <2>2, <2>3, <2>4 DEF Banking, e
<1>5. CASE c.fn = "setContract"
  <2> DEFINE x == [w.registry EXCEPT ![c.name] = c.tbd]
  <2>1. e = [w EXCEPT !.registry = x]
    BY <1>5, EffectCases DEF e, Registered
  <2>2. DOMAIN e = MarketFields /\ e.tbds = w.tbds /\ e.registry = x
    BY <2>1 DEF MarketFields
  <2>3. Retained(w.tbds, w.tbds)
    BY DEF Retained
  <2> QED BY <1>5, <2>2, <2>3 DEF Banking, e
<1> QED BY <1>1, <1>2, <1>3, <1>4, <1>5 DEF CallNames, BondCalls, MoneyCalls, DepositMoves

\* A state of the market, in the terms used here
LEMMA MarketParts ==
    ASSUME NEW w
    PROVE  IsMarket(w) <=> /\ DOMAIN w = MarketFields /\ DOMAIN w.registry = Names
                           /\ Founded(w.tbds) /\ Ordered(w.auctions)
<1>1. DOMAIN NewTbd(CentralBank) = TbdFields
  BY DEF NewTbd, TbdFields
<1> QED BY <1>1, MarketAuctions DEF Founded

\* A name set stays set.
LEMMA NameKept ==
    ASSUME NEW g, DOMAIN g = Names, NEW name, NEW tbd, tbd # 0
    PROVE  /\ DOMAIN [g EXCEPT ![name] = tbd] = Names
           /\ \A n \in Names : g[n] # 0 => [g EXCEPT ![name] = tbd][n] # 0
OBVIOUS

\* A call that does not revert leaves a state that follows the one it found.
LEMMA EffectFollows ==
    ASSUME NEW w, IsMarket(w), NEW from, NEW c, c.fn \in CallNames, NEW t,
           Error(w, from, c, t) = "none", c.fn = "setContract" => c.tbd # 0
    PROVE  IsMarket(Effect(w, from, c, t)) /\ Follows(Effect(w, from, c, t), w)
<1> DEFINE e == Effect(w, from, c, t)
<1>1. /\ DOMAIN w = MarketFields /\ DOMAIN w.registry = Names
      /\ Founded(w.tbds) /\ Ordered(w.auctions)
  BY MarketParts
<1> HIDE DEF e
<1>2. Banking(w, e, from, c)
  BY <1>1, EffectOnBanking DEF e
<1>3. Ordered(e.auctions) /\ Len(w.auctions) <= Len(e.auctions)
  BY <1>1, EffectOnAuctions DEF e
<1>4. DOMAIN e.registry = Names /\ \A n \in Names : w.registry[n] # 0 => e.registry[n] # 0
  BY <1>1, <1>2, NameKept DEF Banking
<1>5. IsMarket(e)
  BY <1>2, <1>3, <1>4, MarketParts DEF Banking
<1>6. Follows(e, w)
  BY <1>3, <1>4 DEF Follows
<1> QED BY <1>5, <1>6 DEF e

-----------------------------------------------------------------------------
(* The shape of a step                                                      *)

\* What a request is about does not change.
SameTask(p, q) ==
    /\ p.op = q.op /\ p.read = q.read /\ p.seen = q.seen
    /\ p.key = q.key /\ p.call = q.call /\ p.tbd = q.tbd

\* Request p has these fields, the task of q and this step.
On(p, q, step) == p = Fields(p) /\ SameTask(p, q) /\ p.step = step

LEMMA TaskKept ==
    ASSUME NEW p, NEW q, NEW step, On(p, q, step), NEW x
    PROVE  /\ On([p EXCEPT !.step = x], q, x)
           /\ On([p EXCEPT !.answer = x], q, step) /\ On([p EXCEPT !.nonce = x], q, step)
           /\ On([p EXCEPT !.forced = x], q, step) /\ On([p EXCEPT !.block = x], q, step)
<1> DEFINE F == Fields(p)
<1>1. p = F
  BY DEF On
<1>2. SameTask(F, q) /\ F.step = step
  BY DEF On, SameTask, Fields
<1>3. On([F EXCEPT !.step = x], q, x)
  BY <1>2 DEF On, SameTask, Fields
<1>4. On([F EXCEPT !.answer = x], q, step)
  BY <1>2 DEF On, SameTask, Fields
<1>5. On([F EXCEPT !.nonce = x], q, step)
  BY <1>2 DEF On, SameTask, Fields
<1>6. On([F EXCEPT !.forced = x], q, step)
  BY <1>2 DEF On, SameTask, Fields
<1>7. On([F EXCEPT !.block = x], q, step)
  BY <1>2 DEF On, SameTask, Fields
<1> HIDE DEF F
<1> QED BY <1>1, <1>3, <1>4, <1>5, <1>6, <1>7

LEMMA OnItself ==
    ASSUME RequestInv, NEW r \in Requests
    PROVE  On(requests[r], requests[r], requests[r].step)
BY DEF RequestInv, On, SameTask

\* A request goes on with its task, or is left as it was;
Keeps(r) ==
    /\ SameTask(requests'[r], requests[r])
    /\ requests'[r].step \in Signing => requests[r].step \in Signing

\* it makes its plan of what it reads;
Plans(r) ==
    LET plan == Plan(Here, requests[r].op) IN
    /\ requests[r].step = "arrived" /\ requests[r].op.kind \notin Unrecorded /\ plan.answer = 0
    /\ requests'[r].op = requests[r].op /\ requests'[r].tbd = requests[r].tbd
    /\ requests'[r].step = "planned" /\ requests'[r].read = Len(blocks) /\ requests'[r].seen = projected
    /\ requests'[r].key = plan.key /\ requests'[r].call = plan.call

\* it is about a bidder, and signs nothing;
Checks(r) ==
    /\ requests[r].op.kind \in Unrecorded
    /\ requests'[r].op = requests[r].op /\ requests'[r].step \notin Signing

\* or it creates a bank and goes on to its next transaction.
Continues(r, b) ==
    LET next == NextBankCall(requests[r], b) IN
    /\ requests[r].step = "sent" /\ ~One(r)
    /\ blocks[b].tx = Transaction(r) /\ blocks[b].error = "none" /\ next # NoCall
    /\ requests'[r].op = requests[r].op /\ requests'[r].read = requests[r].read
    /\ requests'[r].seen = requests[r].seen /\ requests'[r].step = "planned"
    /\ requests'[r].call = next
    /\ requests'[r].tbd = IF requests[r].call.fn = "deployTbd" THEN next.tbd ELSE requests[r].tbd

Moves(r) == Keeps(r) \/ Plans(r) \/ Checks(r) \/ \E b \in DOMAIN blocks : Continues(r, b)

\* A row is written by a creation that has no call left.
Creates(r, b) ==
    /\ requests[r].step = "sent" /\ ~One(r)
    /\ blocks[b].tx = Transaction(r) /\ blocks[b].error = "none" /\ NextBankCall(requests[r], b) = NoCall
    /\ bankRows' = bankRows \cup {BankRow(r)}

Sends(r) == requests[r].step \in Signing /\ pool' = pool \cup {Transaction(r)}

\* What a step of a request does beside it
ChainMoves ==
    /\ UNCHANGED blocks
    /\ pool' = pool \/ \E r \in Requests : Sends(r)
    /\ bankRows' = bankRows \/ \E r \in Requests : \E b \in DOMAIN blocks : Creates(r, b)

\* Requests move and the chain does not, or the other way round.
Shape ==
    /\ Requests' = Requests
    /\ \/ ChainMoves /\ \A r \in Requests : Moves(r)
       \/ /\ requests' = requests /\ bankRows' = bankRows
          /\ (\E tx \in pool : Mine(tx)) \/ EmptyBlock

\* A request replaced by one that keeps its task
LEMMA TaskReplaced ==
    ASSUME RequestInv, NEW r \in Requests, NEW p, NEW step, On(p, requests[r], step),
           step \in Signing => requests[r].step \in Signing, requests' = [requests EXCEPT ![r] = p]
    PROVE  Requests' = Requests /\ \A q \in Requests : Moves(q)
<1>1. Requests' = Requests /\ requests'[r] = p /\ \A q \in Requests \ {r} : requests'[q] = requests[q]
  BY DEF RequestInv, Requests
<1>2. Keeps(r)
  BY <1>1 DEF Keeps, On
<1>3. \A q \in Requests \ {r} : Keeps(q)
  BY <1>1 DEF Keeps, SameTask
<1> QED BY <1>1, <1>2, <1>3 DEF Moves

LEMMA StepMoves ==
    ASSUME RequestInv, NEW r \in Requests, NEW step, Step(r, step), step \in Signing => requests[r].step \in Signing
    PROVE  Requests' = Requests /\ \A q \in Requests : Moves(q)
<1> DEFINE p == [requests[r] EXCEPT !.step = step]
<1>1. requests' = [requests EXCEPT ![r] = p]
  BY DEF Step, RequestInv
<1>2. On(p, requests[r], step)
  BY OnItself, TaskKept
<1> HIDE DEF p
<1> QED BY <1>1, <1>2, TaskReplaced

LEMMA AnswerMoves ==
    ASSUME RequestInv, NEW r \in Requests, NEW code, Answer(r, code)
    PROVE  Requests' = Requests /\ \A q \in Requests : Moves(q)
<1> DEFINE p1 == [requests[r] EXCEPT !.step = "answered"]
           p  == [p1 EXCEPT !.answer = code]
<1>1. requests' = [requests EXCEPT ![r] = p]
  BY DEF Answer, RequestInv
<1>2. On(p1, requests[r], "answered")
  BY OnItself, TaskKept
<1> HIDE DEF p1
<1>3. On(p, requests[r], "answered")
  BY <1>2, TaskKept
<1> HIDE DEF p
<1>4. "answered" \notin Signing
  BY DEF Signing
<1> QED BY <1>1, <1>3, <1>4, TaskReplaced

\* One request moves and the others are left as they were.
LEMMA AloneMoves ==
    ASSUME NEW r \in Requests, Moves(r), \A q \in Requests \ {r} : requests'[q] = requests[q]
    PROVE  \A q \in Requests : Moves(q)
<1>1. \A q \in Requests \ {r} : Keeps(q)
  BY DEF Keeps, SameTask
<1> QED BY <1>1 DEF Moves

\* The chain does not move.
Still == UNCHANGED blocks /\ pool' = pool /\ bankRows' = bankRows

LEMMA StillShape ==
    ASSUME Still, Requests' = Requests, \A q \in Requests : Moves(q)
    PROVE  Shape
BY DEF Still, Shape, ChainMoves

LEMMA ArriveShape ==
    ASSUME IInv, NEW r \in Requests, Arrive(r)
    PROVE  Shape
<1> DEFINE plan == Plan(Here, requests[r].op)
<1>1. /\ requests[r].step = "arrived" /\ Still
      /\ requests[r].op.kind \notin {"BIDDER_CREATE", "BIDDER_DELETE"}
      /\ IF plan.answer = 0
           THEN requests' = [requests EXCEPT ![r].step = "planned", ![r].read = Len(blocks), ![r].seen = projected,
                                             ![r].key = plan.key, ![r].call = plan.call]
           ELSE Answer(r, plan.answer)
  BY Zenon DEF Arrive, OfChain, OfRows, Still
<1> HIDE DEF plan
<1>3. CASE plan.answer = 0
  <2>1. Requests' = Requests /\ \A q \in Requests \ {r} : requests'[q] = requests[q]
    BY <1>1, <1>3 DEF IInv, RequestInv, Requests
  <2>2. requests[r] = Fields(requests[r]) /\ r \in DOMAIN requests
    BY DEF IInv, RequestInv, Requests
  <2> DEFINE f == Fields(requests[r])
  <2>3. requests'[r] = [f EXCEPT !.step = "planned", !.read = Len(blocks), !.seen = projected,
                                 !.key = plan.key, !.call = plan.call]
    <3>1. requests' = [requests EXCEPT ![r].step = "planned", ![r].read = Len(blocks), ![r].seen = projected,
                                       ![r].key = plan.key, ![r].call = plan.call]
      BY <1>1, <1>3
    <3> QED BY <2>2, <3>1, Zenon
  <2>4. /\ requests'[r].op = f.op /\ requests'[r].tbd = f.tbd /\ requests'[r].step = "planned"
        /\ requests'[r].read = Len(blocks) /\ requests'[r].seen = projected
        /\ requests'[r].key = plan.key /\ requests'[r].call = plan.call
    BY <2>3 DEF Fields
  <2> HIDE DEF f
  <2>5. Plans(r)
    BY <1>1, <1>3, <2>2, <2>4 DEF Plans, Unrecorded, f, plan
  <2> QED BY <1>1, <2>1, <2>5, AloneMoves, StillShape DEF Moves
<1>4. CASE plan.answer # 0
  <2>1. Answer(r, plan.answer)
    BY <1>1, <1>4
  <2> QED BY <1>1, <2>1, AnswerMoves, StillShape DEF IInv
<1> QED BY <1>3, <1>4

LEMMA SimulateShape ==
    ASSUME IInv, NEW r \in Requests, Simulate(r)
    PROVE  Shape
<1> DEFINE error == Error(HeadState, Admin, requests[r].call, HeadState.time)
<1>1. /\ requests[r].step = "planned" /\ Still
      /\ Step(r, "simulated") \/ Answer(r, SimulationAnswer(requests[r].op.kind, error))
  BY Zenon DEF Simulate, OfChain, OfRows, Still
<1> HIDE DEF error
<1>2. requests[r].step \in Signing
  BY <1>1 DEF Signing
<1> QED BY <1>1, <1>2, StepMoves, AnswerMoves, StillShape DEF IInv

LEMMA EnqueueShape ==
    ASSUME IInv, NEW r \in Requests, Enqueue(r)
    PROVE  Shape
<1>1. Still /\ Step(r, "queued")
  BY DEF Enqueue, OfChain, OfRows, Still
<1>2. requests[r].step \in Signing
  BY DEF Enqueue, Signing
<1> QED BY <1>1, <1>2, StepMoves, StillShape DEF IInv

LEMMA PrepareShape ==
    ASSUME IInv, NEW r \in Requests, Prepare(r)
    PROVE  Shape
<1> DEFINE request == requests[r]
           error   == IF request.forced THEN "none"
                      ELSE Error(HeadState, request.key, request.call, HeadState.time)
           nonce   == NextNonce(request)
<1>1. /\ MySend(r) /\ Still
      /\ IF error = "none"
           THEN requests' = [requests EXCEPT ![r].step = "prepared", ![r].nonce = nonce]
           ELSE Refused(r, error)
  BY Zenon DEF Prepare, OfChain, OfRows, Still
<1>2. request.step \in Signing
  BY <1>1 DEF MySend, Signing
<1> HIDE DEF error, nonce
<1>3. CASE requests' = [requests EXCEPT ![r].step = "prepared", ![r].nonce = nonce]
  <2> DEFINE p1 == [request EXCEPT !.step = "prepared"]
             p  == [p1 EXCEPT !.nonce = nonce]
  <2>1. requests' = [requests EXCEPT ![r] = p]
    BY <1>3 DEF IInv, RequestInv
  <2>2. On(p1, request, "prepared")
    BY OnItself, TaskKept DEF IInv
  <2> HIDE DEF p1
  <2>3. On(p, request, "prepared")
    BY <2>2, TaskKept
  <2> HIDE DEF p
  <2> QED BY <1>1, <1>2, <2>1, <2>3, TaskReplaced, StillShape DEF IInv
<1>4. CASE Refused(r, error)
  <2>1. CASE requests' = [requests EXCEPT ![r].step = "planned", ![r].forced = TRUE]
    <3> DEFINE p1 == [request EXCEPT !.step = "planned"]
               p  == [p1 EXCEPT !.forced = TRUE]
    <3>1. requests' = [requests EXCEPT ![r] = p]
      BY <2>1 DEF IInv, RequestInv
    <3>2. On(p1, request, "planned")
      BY OnItself, TaskKept DEF IInv
    <3> HIDE DEF p1
    <3>3. On(p, request, "planned")
      BY <3>2, TaskKept
    <3> HIDE DEF p
    <3> QED BY <1>1, <1>2, <3>1, <3>3, TaskReplaced, StillShape DEF IInv
  <2>2. CASE \E status, code : Fail(r, status, code)
    <3>1. \E code : Answer(r, code)
      BY <2>2 DEF Fail
    <3> QED BY <1>1, <3>1, AnswerMoves, StillShape DEF IInv
  <2> QED BY <1>4, <2>1, <2>2, Zenon DEF Refused
<1> QED BY <1>1, <1>3, <1>4

LEMMA BroadcastShape ==
    ASSUME IInv, NEW r \in Requests, Broadcast(r)
    PROVE  Shape
<1>1. requests[r].step \in Signing /\ UNCHANGED blocks /\ bankRows' = bankRows
  BY DEF Broadcast, Signing, OfRows
<1>2. CASE pool' = pool \cup {Transaction(r)} /\ Step(r, "sent")
  <2>1. ChainMoves
    BY <1>1, <1>2 DEF ChainMoves, Sends
  <2> QED BY <1>1, <1>2, <2>1, StepMoves DEF Shape, IInv
<1>3. CASE Fail(r, "FAILED", 500) /\ UNCHANGED pool
  <2>1. Answer(r, 500) /\ Still
    BY <1>1, <1>3 DEF Fail, Still
  <2> QED BY <2>1, AnswerMoves, StillShape DEF IInv
<1> QED BY <1>2, <1>3 DEF Broadcast

LEMMA LoseConnectionShape ==
    ASSUME IInv, NEW r \in Requests, LoseConnection(r)
    PROVE  Shape
<1>1. /\ requests[r].step \in Signing /\ UNCHANGED blocks /\ bankRows' = bankRows
      /\ pool' = pool \/ pool' = pool \cup {Transaction(r)}
      /\ Answer(r, 500)
  BY DEF LoseConnection, Signing, OfRows, Fail
<1>2. ChainMoves
  BY <1>1 DEF ChainMoves, Sends
<1> QED BY <1>1, <1>2, AnswerMoves DEF Shape, IInv

LEMMA SucceedShape ==
    ASSUME IInv, NEW r \in Requests, NEW b, Succeed(r, b), requests[r].step = "sent",
           UNCHANGED blocks, pool' = pool
    PROVE  Shape
<1>1. Still
  BY DEF Succeed, Still
<1>2. CASE requests' = [requests EXCEPT ![r].step = "mined", ![r].block = b]
  <2> DEFINE p1 == [requests[r] EXCEPT !.step = "mined"]
             p  == [p1 EXCEPT !.block = b]
  <2>1. requests' = [requests EXCEPT ![r] = p]
    BY <1>2 DEF IInv, RequestInv
  <2>2. On(p1, requests[r], "mined")
    BY OnItself, TaskKept DEF IInv
  <2> HIDE DEF p1
  <2>3. On(p, requests[r], "mined")
    BY <2>2, TaskKept
  <2> HIDE DEF p
  <2>4. requests[r].step \in Signing
    BY DEF Signing
  <2> QED BY <1>1, <2>1, <2>3, <2>4, TaskReplaced, StillShape DEF IInv
<1>3. CASE \E code : Answer(r, code)
  BY <1>1, <1>3, AnswerMoves, StillShape DEF IInv
<1> QED BY <1>2, <1>3, Zenon DEF Succeed

LEMMA ContinueShape ==
    ASSUME IInv, NEW r \in Requests, requests[r].step = "sent", ~One(r),
           NEW b \in DOMAIN blocks, blocks[b].tx = Transaction(r), blocks[b].error = "none",
           Continue(r, b), UNCHANGED blocks, pool' = pool
    PROVE  Shape
<1> DEFINE request == requests[r]
           next == NextBankCall(request, b)
           tbd  == IF request.call.fn = "deployTbd" THEN next.tbd ELSE request.tbd
           row  == [name |-> request.op.name, key |-> request.op.key, tbd |-> tbd]
<1>1. IF next # NoCall
        THEN /\ requests' = [requests EXCEPT ![r].step = "planned", ![r].call = next,
                                             ![r].key = CentralBank, ![r].tbd = tbd]
             /\ UNCHANGED <<OfNonce, trail, bankRows, stale>>
        ELSE Created(r, row)
  BY Zenon DEF Continue
<1>2. CASE next # NoCall
  <2>1. Requests' = Requests /\ \A q \in Requests \ {r} : requests'[q] = requests[q]
    <3> HIDE DEF next, tbd, row
    <3> QED BY <1>1, <1>2 DEF IInv, RequestInv, Requests
  <2>2. requests[r] = Fields(requests[r]) /\ r \in DOMAIN requests
    BY DEF IInv, RequestInv, Requests
  <2> DEFINE f == Fields(requests[r])
  <2>3. /\ requests'[r].op = f.op /\ requests'[r].step = "planned" /\ requests'[r].tbd = tbd
        /\ requests'[r].read = f.read /\ requests'[r].seen = f.seen /\ requests'[r].call = next
    <3> HIDE DEF next, tbd, row
    <3>1. requests' = [requests EXCEPT ![r].step = "planned", ![r].call = next,
                                       ![r].key = CentralBank, ![r].tbd = tbd]
      BY <1>1, <1>2
    <3>2. requests'[r] = [f EXCEPT !.step = "planned", !.call = next, !.key = CentralBank, !.tbd = tbd]
      BY <2>2, <3>1, Zenon
    <3> QED BY <3>2 DEF Fields
  <2> HIDE DEF f
  <2>4. Continues(r, b)
    <3>1. /\ requests'[r].op = request.op /\ requests'[r].step = "planned" /\ requests'[r].tbd = tbd
          /\ requests'[r].read = request.read /\ requests'[r].seen = request.seen /\ requests'[r].call = next
      BY <2>2, <2>3 DEF f
    <3> QED BY <1>2, <3>1, Zenon DEF Continues
  <2>5. Still
    BY <1>1, <1>2 DEF Still
  <2>6. Moves(r)
    BY <2>4 DEF Moves
  <2> QED BY <2>1, <2>5, <2>6, AloneMoves, StillShape
<1>3. CASE next = NoCall
  <2>1. Created(r, row)
    BY <1>1, <1>3
  <2>2. row = BankRow(r)
    <3>1. request.call.fn # "deployTbd"
      BY <1>3, NextCall
    <3> QED BY <3>1 DEF BankRow
  <2>3. \E code : Answer(r, code)
    BY <2>1 DEF Created, Fail
  <2>4. bankRows' = bankRows \/ bankRows' = bankRows \cup {BankRow(r)}
    <3>1. bankRows' = bankRows \/ bankRows' = bankRows \cup {row}
      <4> HIDE DEF row, next, tbd
      <4> QED BY <2>1 DEF Created
    <3> QED BY <2>2, <3>1
  <2>5. bankRows' = bankRows \/ Creates(r, b)
    BY <1>3, <2>4 DEF Creates
  <2> HIDE DEF next, row, tbd
  <2>6. ChainMoves
    BY <2>5 DEF ChainMoves
  <2> QED BY <2>3, <2>6, AnswerMoves DEF Shape, IInv
<1> QED BY <1>2, <1>3

LEMMA ConfirmShape ==
    ASSUME IInv, NEW r \in Requests, Confirm(r)
    PROVE  Shape
<1>1. requests[r].step = "sent" /\ UNCHANGED blocks /\ pool' = pool
  BY DEF Confirm, OfChain
<1>2. PICK b \in DOMAIN blocks :
          /\ blocks[b].tx = Transaction(r)
          /\ IF blocks[b].error # "none"
               THEN Fail(r, "REVERTED", 500) /\ UNCHANGED <<bankRows, stale>>
               ELSE IF requests[r].op.kind = "BANK_CREATE" THEN Continue(r, b) ELSE Succeed(r, b)
  BY DEF Confirm
<1>3. CASE blocks[b].error # "none"
  <2>1. Answer(r, 500) /\ Still
    BY <1>1, <1>2, <1>3 DEF Fail, Still
  <2> QED BY <2>1, AnswerMoves, StillShape DEF IInv
<1>4. CASE blocks[b].error = "none" /\ ~One(r)
  <2>1. Continue(r, b)
    BY <1>2, <1>4 DEF One
  <2> QED BY <1>1, <1>2, <1>4, <2>1, ContinueShape
<1>5. CASE blocks[b].error = "none" /\ One(r)
  <2>1. Succeed(r, b)
    BY <1>2, <1>5 DEF One
  <2> QED BY <1>1, <2>1, SucceedShape
<1> QED BY <1>3, <1>4, <1>5

LEMMA BidderShape ==
    ASSUME IInv, NEW r \in Requests,
           AnswerMined(r) \/ CreateBidder(r) \/ AnnounceBidder(r) \/ CheckBidder(r) \/ DeleteBidder(r)
    PROVE  Shape
<1>1. Still
  BY DEF AnswerMined, CreateBidder, AnnounceBidder, CheckBidder, DeleteBidder, OfChain, OfRows, Still
<1>2. CASE \E code : Answer(r, code)
  BY <1>1, <1>2, AnswerMoves, StillShape DEF IInv
<1>3. CASE Step(r, "composing")
  <2>1. "composing" \notin Signing
    BY DEF Signing
  <2> QED BY <1>1, <1>3, <2>1, StepMoves, StillShape DEF IInv
<1>4. CASE CheckBidder(r) /\ requests' = [requests EXCEPT ![r].step = "checked",
                                              ![r].read = Len(blocks), ![r].seen = projected]
  <2>1. Requests' = Requests /\ \A q \in Requests \ {r} : requests'[q] = requests[q]
    BY <1>4 DEF IInv, RequestInv, Requests
  <2>2. requests[r] = Fields(requests[r]) /\ r \in DOMAIN requests
    BY DEF IInv, RequestInv, Requests
  <2> DEFINE f == Fields(requests[r])
  <2>3. requests'[r] = [f EXCEPT !.step = "checked", !.read = Len(blocks), !.seen = projected]
    BY <1>4, <2>2, Zenon
  <2>4. requests'[r].op = f.op /\ requests'[r].step = "checked"
    BY <2>3 DEF Fields
  <2> HIDE DEF f
  <2>5. Checks(r)
    BY <1>4, <2>2, <2>4 DEF Checks, CheckBidder, Unrecorded, Signing, f
  <2> QED BY <1>1, <2>1, <2>5, AloneMoves, StillShape DEF Moves
<1>5. AnswerMined(r) \/ AnnounceBidder(r) \/ DeleteBidder(r) => \E code : Answer(r, code)
  BY DEF AnswerMined, AnnounceBidder, DeleteBidder
<1>6. CreateBidder(r) => (\E code : Answer(r, code)) \/ Step(r, "composing")
  BY DEF CreateBidder
<1>7. CheckBidder(r) => (\E code : Answer(r, code))
                        \/ requests' = [requests EXCEPT ![r].step = "checked",
                                                        ![r].read = Len(blocks), ![r].seen = projected]
  <2> DEFINE committed == Committed(Here, requests[r].op.who)
  <2>1. CheckBidder(r) =>
          IF requests[r].op.who \notin bidderRows THEN Answer(r, 404)
          ELSE IF committed THEN Answer(r, 409)
          ELSE requests' = [requests EXCEPT ![r].step = "checked",
                                             ![r].read = Len(blocks), ![r].seen = projected]
    BY Zenon DEF CheckBidder
  <2> HIDE DEF committed
  <2> QED BY <2>1
<1> QED BY <1>2, <1>3, <1>4, <1>5, <1>6, <1>7

LEMMA CrashShape ==
    ASSUME IInv, Crash
    PROVE  Shape
<1>1. Still
  BY DEF Crash, Still
<1>2. requests' = [r \in Requests |-> IF requests[r].step \in {"arrived", "answered"} THEN requests[r]
                                       ELSE [requests[r] EXCEPT !.step = "lost"]]
  BY DEF Crash
<1>3. Requests' = Requests
  BY <1>2 DEF Requests
<1>4. ASSUME NEW r \in Requests PROVE Moves(r)
  <2> DEFINE p == [requests[r] EXCEPT !.step = "lost"]
  <2>1. On(requests[r], requests[r], requests[r].step) /\ On(p, requests[r], "lost")
    BY OnItself, TaskKept DEF IInv
  <2>2. requests'[r] = requests[r] \/ requests'[r] = p
    BY <1>2
  <2> HIDE DEF p
  <2>3. "lost" \notin Signing
    BY DEF Signing
  <2>4. Keeps(r)
    BY <2>1, <2>2, <2>3 DEF Keeps, On
  <2> QED BY <2>4 DEF Moves
<1> QED BY <1>1, <1>3, <1>4, StillShape

\* Every step has this shape.
LEMMA StepShape == IInv /\ [Next]_vars => Shape
<1> SUFFICES ASSUME IInv, [Next]_vars PROVE Shape
  OBVIOUS
<1>1. ASSUME NEW r \in Requests, Serve(r) PROVE Shape
  BY <1>1, ArriveShape, SimulateShape, EnqueueShape, PrepareShape, BroadcastShape, ConfirmShape,
     BidderShape DEF Serve
<1>2. ASSUME NEW r \in Requests, LoseConnection(r) PROVE Shape
  BY <1>2, LoseConnectionShape
<1>3. CASE (\E tx \in pool : Mine(tx)) \/ EmptyBlock
  <2>1. requests' = requests /\ bankRows' = bankRows
    BY <1>3 DEF Mine, EmptyBlock, OfRows
  <2> QED BY <1>3, <2>1 DEF Shape, Requests
<1>4. CASE Still /\ requests' = requests
  <2>1. Requests' = Requests /\ \A q \in Requests : Moves(q)
    BY <1>4 DEF Requests, Moves, Keeps, SameTask
  <2> QED BY <1>4, <2>1, StillShape
<1>5. ASSUME NEW to, Project(to) PROVE Still /\ requests' = requests
  BY <1>5 DEF Project, Still, OfRows
<1>6. Tick \/ Stop \/ UNCHANGED vars => Still /\ requests' = requests
  BY DEF Tick, Stop, vars, Still, OfRows
<1> QED BY <1>1, <1>2, <1>3, <1>4, <1>5, <1>6, CrashShape DEF Next

-----------------------------------------------------------------------------
(* What a plan has found                                                    *)

LEMMA RefusalAnswers ==
    ASSUME NEW code
    PROVE  Refuse(code).answer = code /\ FailWith(code).answer = code
BY DEF Refuse, FailWith

\* An auction in flight is the latest.
LEMMA InFlightIsLatest ==
    ASSUME NEW w, IsMarket(w), NEW k \in DOMAIN w.auctions, w.auctions[k].status \notin Ended
    PROVE  k = Len(w.auctions) /\ k \in Nat \ {0}
<1>1. Ordered(w.auctions)
  BY MarketParts
<1>2. DOMAIN w.auctions = 1 .. Len(w.auctions) /\ Len(w.auctions) \in Nat
  BY <1>1 DEF Ordered
<1> QED BY <1>1, <1>2 DEF Ordered

\* The auction a request names is the latest of the state its handler read.
LEMMA PlannedIsLatest ==
    ASSUME NEW c, IsMarket(c.head), IsMarket(c.seen), NEW op, op.kind \in AuctionRoutes,
           Plan(c, op).answer = 0
    PROVE  /\ op.auction \in Nat \ {0}
           /\ op.kind = "AUCTION_FINALISE" => op.auction = Len(c.seen.auctions)
           /\ op.kind # "AUCTION_FINALISE" => op.auction = Len(c.head.auctions)
<1>1. PlanOfAuction(c, op).answer = 0
  BY KindDomains DEF Plan, AuctionRoutes
<1>2. Refuse(400).answer # 0 /\ Refuse(404).answer # 0 /\ Refuse(409).answer # 0 /\ Refuse(500).answer # 0
  BY RefusalAnswers
<1>3. CASE op.kind = "AUCTION_CANCEL"
  <2>1. PlanCancel(c, op).answer = 0
    BY <1>1, <1>3 DEF PlanOfAuction
  <2>2. op.auction \in DOMAIN c.head.auctions /\ c.head.auctions[op.auction].status \notin Ended
    BY <1>2, <2>1 DEF PlanCancel, Ended
  <2> QED BY <1>3, <2>2, InFlightIsLatest
<1>4. CASE op.kind = "AUCTION_CLOSE"
  <2>1. PlanClose(c, op).answer = 0
    BY <1>1, <1>4 DEF PlanOfAuction
  <2>2. op.auction \in DOMAIN c.head.auctions /\ c.head.auctions[op.auction].status = "BIDDING"
    BY <1>2, <2>1 DEF PlanClose
  <2>3. c.head.auctions[op.auction].status \notin Ended
    BY <2>2 DEF Ended
  <2> QED BY <1>4, <2>2, <2>3, InFlightIsLatest
<1>5. CASE op.kind = "AUCTION_FINALISE"
  <2> DEFINE auction == c.seen.auctions[op.auction]
             sealed  == UnsealedBids(Last(c.head.auctions), c.sealing)
             picked  == SelectSeq(sealed, LAMBDA b : b.index \in op.winners)
             result  == ComputeAllocation(picked, auction.type, auction.size)
             rest    == IF ~Opens(Last(c.head.auctions), c.sealing) THEN Refuse(500)
                        ELSE IF ~(op.winners \subseteq DOMAIN sealed) THEN Refuse(400)
                        ELSE IF picked = <<>> THEN Refuse(500)
                        ELSE IF result.clearingRate # op.rate THEN Refuse(400)
                        ELSE Go(Admin, [fn |-> "finaliseAuction", auction |-> Len(c.head.auctions),
                                        type |-> auction.type, allocations |-> result.allocations])
  <2>1. PlanFinalise(c, op) =
            IF op.auction \notin DOMAIN c.seen.auctions THEN Refuse(404)
            ELSE IF auction.status # "CLOSED" THEN Refuse(409) ELSE rest
    BY Zenon DEF PlanFinalise
  <2> HIDE DEF auction, sealed, picked, result, rest
  <2>2. PlanFinalise(c, op).answer = 0
    BY <1>1, <1>5 DEF PlanOfAuction
  <2>3. op.auction \in DOMAIN c.seen.auctions /\ auction.status = "CLOSED"
    BY <1>2, <2>1, <2>2
  <2>4. c.seen.auctions[op.auction].status \notin Ended
    BY <2>3 DEF Ended, auction
  <2> QED BY <1>5, <2>3, <2>4, InFlightIsLatest
<1> QED BY <1>3, <1>4, <1>5 DEF AuctionRoutes

\* A creation finds its name free, and signs its first call with its key.
LEMMA PlannedIsFree ==
    ASSUME NEW c, NEW op, op.kind = "BANK_CREATE", Plan(c, op).answer = 0
    PROVE  c.head.registry[op.name] = 0 /\ Plan(c, op).key = op.key /\ Plan(c, op).call.fn = "deployTbd"
<1> DEFINE taken == \/ \E b \in Roster(c) : b.name = op.name
                    \/ \E b \in c.banks : b.key = op.key
           go    == Go(op.key, [fn |-> "deployTbd"])
<1>1. Plan(c, op) = PlanBankCreate(c, op)
  BY KindDomains DEF Plan, AuctionRoutes
<1>2. PlanBankCreate(c, op) = IF taken \/ c.head.registry[op.name] # 0 THEN FailWith(409) ELSE go
  BY Zenon DEF PlanBankCreate
<1>3. FailWith(409).answer # 0 /\ go.key = op.key /\ go.call.fn = "deployTbd"
  BY RefusalAnswers DEF Go
<1> HIDE DEF taken, go
<1> QED BY <1>1, <1>2, <1>3

\* Only a creation deploys or registers a contract.
LEMMA OthersFirstCall ==
    ASSUME NEW kind \in Kinds \ Unrecorded, kind # "BANK_CREATE"
    PROVE  FirstCall(kind) \notin {"deployTbd", "setContract"}
<1>1. CASE kind \in Managed \cup {"BID_SUBMISSION"}
  BY <1>1, KindDomains DEF FirstCall, Managed
<1>2. CASE kind \in DOMAIN Wnok
  <2>1. FirstCall(kind) = Wnok[kind]
    BY <1>2, KindDomains DEF FirstCall
  <2>2. Wnok[kind] \in {"mint", "burn", "transfer", "add", "remove"}
    BY <1>2 DEF Wnok
  <2> QED BY <2>1, <2>2
<1>3. CASE kind \in DOMAIN TbdCalls
  <2>1. FirstCall(kind) = TbdCalls[kind]
    BY <1>3, KindDomains DEF FirstCall
  <2>2. TbdCalls[kind] \in {"tbdMint", "tbdBurn", "tbdTransfer", "tbdAdd", "tbdRemove"}
    BY <1>3 DEF TbdCalls
  <2> QED BY <2>1, <2>2
<1> QED BY <1>1, <1>2, <1>3 DEF Kinds, Unrecorded

LEMMA RouteCalls ==
    ASSUME NEW kind \in AuctionRoutes
    PROVE  FirstCall(kind) \in Closing
BY KindDomains DEF FirstCall, Closing, AuctionRoutes

-----------------------------------------------------------------------------
(* The invariant                                                            *)

\* Every block leaves a state of these contracts that follows those before it.
HistoryInv ==
    /\ \A b \in DOMAIN blocks : IsMarket(blocks[b].state)
    /\ \A a, b \in DOMAIN blocks : a <= b => Follows(blocks[b].state, blocks[a].state)

\* A request that signs has read the chain, and signs the call of its kind.
Begun(r) ==
    requests[r].step \in Signing =>
        /\ requests[r].op.kind \notin Unrecorded /\ requests[r].read # 0
        /\ One(r) => requests[r].call.fn = FirstCall(requests[r].op.kind)

\* The auction a request names was the latest when its handler read it,
Latest(r) ==
    requests[r].read # 0 =>
        /\ ReadOf(r) \in DOMAIN blocks
        /\ requests[r].op.auction = Len(blocks[ReadOf(r)].state.auctions)
        /\ requests[r].op.auction \in Nat \ {0}

\* and block b changed it, or the latest was a newer one by then.
ChangedIn(r, b) ==
    \/ blocks[b].state.auctions[requests[r].op.auction].status
         # blocks[b - 1].state.auctions[requests[r].op.auction].status
    \/ Len(blocks[ReadOf(r)].state.auctions) < Len(blocks[b - 1].state.auctions)
Named(r) ==
    requests[r].op.kind \in AuctionRoutes =>
        /\ Latest(r)
        /\ \A tx \in Pooled(r) : requests[r].read # 0 /\ tx.call.fn = FirstCall(requests[r].op.kind)
        /\ \A b \in Effects(r) : requests[r].read # 0 /\ b - 1 \in DOMAIN blocks /\ ChangedIn(r, b)

\* A contract is registered once it has been deployed, under the name of its bank.
RegisteredAs(name, tbd) ==
    \E b \in DOMAIN blocks : Registration(b, name) /\ blocks[b].tx.call.tbd = tbd
Calling(r) ==
    /\ requests[r].call.fn \in {"deployTbd", "setContract", "add"}
    /\ requests[r].call.fn = "deployTbd" => requests[r].key = requests[r].op.key
    /\ requests[r].call.fn = "setContract" =>
          requests[r].call.name = requests[r].op.name /\ requests[r].call.tbd = requests[r].tbd
    /\ requests[r].call.fn = "add" => RegisteredAs(requests[r].op.name, requests[r].tbd)
Founding(r) ==
    ~One(r) =>
        /\ requests[r].read # 0 =>
              /\ requests[r].read \in DOMAIN blocks
              /\ blocks[requests[r].read].state.registry[requests[r].op.name] = 0
        /\ requests[r].step \in Signing => Calling(r)

\* Only creations deploy and register, each under its key and its name.
FoundingTx(tx) ==
    /\ tx.call.fn \in {"deployTbd", "setContract"} =>
          tx.req \in Requests /\ ~One(tx.req) /\ requests[tx.req].read # 0
    /\ tx.call.fn = "deployTbd" => tx.key = requests[tx.req].op.key
    /\ tx.call.fn = "setContract" => tx.call.name = requests[tx.req].op.name /\ tx.call.tbd # 0

\* A contract stays with the bank that deployed it, and under its name until the name is
\* registered again.
DeployedInv ==
    \A b \in DOMAIN blocks : Deploys(b) =>
        Contracts(b) \in DOMAIN HeadState.tbds /\ HeadState.tbds[Contracts(b)].bank = blocks[b].tx.key
Renamed(b, n) == \E c \in DOMAIN blocks : b < c /\ Registration(c, n)
RegisteredInv ==
    \A b \in DOMAIN blocks : \A n \in Names : Registration(b, n) =>
        /\ blocks[b].state.registry[n] # 0
        /\ HeadState.registry[n] = blocks[b].tx.call.tbd \/ Renamed(b, n)
TxInv == \A tx \in pool \cup MinedTxs : FoundingTx(tx)

\* A row is of a bank whose contract was deployed with its key and registered under its name.
DeployedBy(key, tbd) ==
    \E b \in DOMAIN blocks : Deploys(b) /\ Contracts(b) = tbd /\ blocks[b].tx.key = key
FoundedInv ==
    \A row \in bankRows :
        row.name \in Names /\ RegisteredAs(row.name, row.tbd) /\ DeployedBy(row.key, row.tbd)

OutcomeInv ==
    /\ HistoryInv /\ TxInv /\ DeployedInv /\ RegisteredInv /\ FoundedInv
    /\ \A r \in Requests : Begun(r) /\ Named(r) /\ Founding(r)

-----------------------------------------------------------------------------
(* Requests move                                                            *)

\* What a plan says, of the chain's last block and the projection's
LEMMA PlanFacts ==
    ASSUME IInv, HistoryInv, NEW r \in Requests, Plans(r), UNCHANGED blocks
    PROVE  /\ requests[r].op.kind \in Kinds \ Unrecorded
           /\ requests'[r].call.fn = FirstCall(requests[r].op.kind)
           /\ requests'[r].read \in DOMAIN blocks /\ requests'[r].read # 0
           /\ requests'[r].seen \in DOMAIN blocks
           /\ requests[r].op.kind \in AuctionRoutes => Latest(r)'
           /\ ~One(r) => /\ blocks[requests'[r].read].state.registry[requests[r].op.name] = 0
                         /\ requests'[r].key = requests[r].op.key
<1> DEFINE plan == Plan(Here, requests[r].op)
           c == Here
           op == requests[r].op
<1>1. /\ requests'[r].key = plan.key /\ requests'[r].call = plan.call /\ plan.answer = 0
      /\ requests'[r].op = op /\ op.kind \notin Unrecorded
      /\ requests'[r].read = Len(blocks) /\ requests'[r].seen = projected
  BY Zenon DEF Plans
<1>2. Known(op) /\ op.kind \in Kinds
  BY DEF IInv, RequestInv, Known
<1>3. c.bidders \subseteq Wallets /\ \A b \in c.banks : b.key # Admin
  BY DEF Here, IInv, RowInv
<1>4. Len(blocks) \in DOMAIN blocks /\ projected \in DOMAIN blocks /\ Len(blocks) # 0
  BY DEF IInv, ChainInv
<1>5. c.head = blocks[Len(blocks)].state /\ c.seen = blocks[projected].state
  BY DEF Here, HeadState, Seen, Last
<1>6. IsMarket(c.head) /\ IsMarket(c.seen)
  BY <1>4, <1>5 DEF HistoryInv
<1> HIDE DEF c
<1>8. plan = Plan(c, op)
  BY DEF c
<1> HIDE DEF plan, op
<1>9. plan.call.fn = FirstCall(op.kind)
  <2>1. op.kind \notin {"BIDDER_CREATE", "BIDDER_DELETE"}
    BY <1>1 DEF Unrecorded
  <2>2. IF op.kind \in Managed THEN ByOperator(Plan(c, op), FirstCall(op.kind))
        ELSE ByOther(Plan(c, op), FirstCall(op.kind))
    BY <1>2, <1>3, <2>1, EveryPlan
  <2> QED BY <1>1, <1>8, <2>2 DEF ByOperator, ByOther, Errors
<1>10. op.kind \in AuctionRoutes =>
          /\ op.auction \in Nat \ {0}
          /\ op.kind = "AUCTION_FINALISE" => op.auction = Len(c.seen.auctions)
          /\ op.kind # "AUCTION_FINALISE" => op.auction = Len(c.head.auctions)
  BY <1>1, <1>6, <1>8, PlannedIsLatest
<1>11. op.kind = "BANK_CREATE" => c.head.registry[op.name] = 0 /\ plan.key = op.key
  BY <1>1, <1>8, PlannedIsFree
<1>12. requests[r].op = op
  BY DEF op
<1>13. op.kind \in AuctionRoutes => Latest(r)'
  BY <1>1, <1>4, <1>5, <1>10 DEF Latest, ReadOf
<1>14. ~One(r) => /\ blocks[requests'[r].read].state.registry[op.name] = 0
                  /\ requests'[r].key = op.key
  BY <1>1, <1>5, <1>11, <1>12 DEF One
<1> QED BY <1>1, <1>2, <1>4, <1>9, <1>12, <1>13, <1>14

\* A request keeps its operation, and once it has read the chain it has.
LEMMA TaskStays ==
    ASSUME IInv, HistoryInv, UNCHANGED blocks, NEW r \in Requests, Moves(r)
    PROVE  /\ requests'[r].op = requests[r].op /\ One(r)' = One(r)
           /\ requests[r].op.kind \notin Unrecorded /\ requests[r].read # 0 => requests'[r].read # 0
<1>1. requests'[r].op = requests[r].op
  BY DEF Moves, Keeps, SameTask, Plans, Checks, Continues
<1>2. ASSUME requests[r].op.kind \notin Unrecorded, requests[r].read # 0 PROVE requests'[r].read # 0
  <2>1. CASE Keeps(r) \/ \E b \in DOMAIN blocks : Continues(r, b)
    BY <1>2, <2>1 DEF Keeps, SameTask, Continues
  <2>2. CASE Plans(r)
    BY <2>2, PlanFacts
  <2>3. CASE Checks(r)
    BY <1>2, <2>3 DEF Checks
  <2> QED BY <2>1, <2>2, <2>3 DEF Moves
<1> QED BY <1>1, <1>2 DEF One

LEMMA BegunMoves ==
    ASSUME IInv, HistoryInv, UNCHANGED blocks, NEW r \in Requests, Moves(r), Begun(r)
    PROVE  Begun(r)'
<1>1. CASE Keeps(r)
  BY <1>1 DEF Keeps, SameTask, Begun, One
<1>2. CASE Plans(r)
  <2>1. requests'[r].op = requests[r].op
    BY <1>2 DEF Plans
  <2> QED BY <1>2, <2>1, PlanFacts DEF Begun
<1>3. CASE Checks(r)
  BY <1>3 DEF Checks, Begun
<1>4. CASE \E b \in DOMAIN blocks : Continues(r, b)
  <2>1. requests'[r].op = requests[r].op /\ requests'[r].read = requests[r].read /\ ~One(r)
        /\ requests[r].step \in Signing
    BY <1>4 DEF Continues, Signing
  <2> QED BY <2>1 DEF Begun, One
<1> QED BY <1>1, <1>2, <1>3, <1>4 DEF Moves

LEMMA NamedMoves ==
    ASSUME IInv, HistoryInv, ChainMoves, NEW r \in Requests, Traced(r), Moves(r), Begun(r), Named(r)
    PROVE  Named(r)'
<1>1. UNCHANGED blocks /\ requests'[r].op = requests[r].op
  BY TaskStays DEF ChainMoves
<1> SUFFICES ASSUME requests[r].op.kind \in AuctionRoutes PROVE Named(r)'
  BY <1>1 DEF Named
<1>2. One(r) /\ requests[r].op.kind \notin Unrecorded
  BY DEF One, AuctionRoutes, Unrecorded
<1>3. requests[r].read # 0 => requests'[r].read # 0
  BY <1>1, <1>2, TaskStays
<1>4. Effects(r)' = Effects(r)
  BY <1>1 DEF Effects
<1>5. \A tx \in Pooled(r)' : requests'[r].read # 0 /\ tx.call.fn = FirstCall(requests'[r].op.kind)
  <2> TAKE tx \in Pooled(r)'
  <2>1. CASE tx \in pool
    <3>1. tx \in Pooled(r)
      BY <2>1 DEF Pooled
    <3> QED BY <1>1, <1>3, <3>1 DEF Named
  <2>2. CASE tx \notin pool
    <3>1. PICK q \in Requests : Sends(q)
      BY <2>2 DEF Pooled, ChainMoves
    <3>2. tx = Transaction(q) /\ tx.req = r
      BY <2>2, <3>1 DEF Pooled, Sends
    <3>3. q = r /\ tx.call = requests[r].call
      BY <3>2, SentIsTx
    <3>4. requests[r].read # 0 /\ requests[r].call.fn = FirstCall(requests[r].op.kind)
      BY <1>2, <3>1, <3>3 DEF Begun, Sends
    <3> QED BY <1>1, <1>3, <3>3, <3>4
  <2> QED BY <2>1, <2>2
<1>6. Latest(r)' /\ \A b \in Effects(r)' : requests'[r].read # 0 /\ b - 1 \in DOMAIN blocks' /\ ChangedIn(r, b)'
  <2>1. CASE Keeps(r)
    <3>1. ReadOf(r)' = ReadOf(r) /\ requests'[r].read = requests[r].read
      BY <2>1 DEF Keeps, SameTask, ReadOf
    <3>2. Latest(r)'
      BY <1>1, <3>1 DEF Latest, Named
    <3>3. \A b : ChangedIn(r, b) => ChangedIn(r, b)'
      BY <1>1, <3>1 DEF ChangedIn
    <3> QED BY <1>1, <1>4, <3>1, <3>2, <3>3 DEF Named
  <2>2. CASE Plans(r)
    <3>1. Latest(r)'
      BY <1>1, <2>2, PlanFacts
    <3>2. Mined(r) = {}
      BY <1>2, <2>2 DEF Plans, Traced, Before, Untouched
    <3>3. Effects(r) = {}
      BY <3>2 DEF Effects, Mined
    <3> QED BY <1>4, <3>1, <3>3
  <2>3. ~Checks(r) /\ \A b : ~Continues(r, b)
    BY <1>2 DEF Checks, Continues
  <2> QED BY <2>1, <2>2, <2>3 DEF Moves
<1> QED BY <1>5, <1>6 DEF Named

\* What a creation signs next
LEMMA NextFounding ==
    ASSUME NEW request, NEW b, NextBankCall(request, b) # NoCall
    PROVE  LET next == NextBankCall(request, b) IN
           /\ request.call.fn = "deployTbd" => next.fn = "setContract" /\ next.name = request.op.name
           /\ request.call.fn # "deployTbd" => next.fn = "add" /\ request.call.fn = "setContract"
<1> DEFINE next == NextBankCall(request, b)
           named == [fn |-> "setContract", name |-> request.op.name, tbd |-> Len(blocks[b].state.tbds)]
           added == [fn |-> "add", who |-> request.op.key]
<1>1. next = CASE request.call.fn = "deployTbd" -> named
               [] request.call.fn = "setContract" /\ request.op.settle -> added
               [] OTHER -> NoCall
  BY Zenon DEF NextBankCall
<1>2. named.fn = "setContract" /\ named.name = request.op.name /\ added.fn = "add"
  OBVIOUS
<1> HIDE DEF next, named, added
<1>3. CASE request.call.fn = "deployTbd"
  <2>1. next = named
    BY <1>1, <1>3
  <2> QED BY <1>2, <1>3, <2>1 DEF next
<1>4. CASE request.call.fn = "setContract" /\ request.op.settle
  <2>1. next = added
    BY <1>1, <1>4
  <2> QED BY <1>2, <1>4, <2>1 DEF next
<1>5. CASE request.call.fn # "deployTbd" /\ ~(request.call.fn = "setContract" /\ request.op.settle)
  <2>1. next = NoCall
    BY <1>1, <1>5
  <2> QED BY <2>1 DEF next
<1> QED BY <1>3, <1>4, <1>5

LEMMA RegisteredRests ==
    ASSUME UNCHANGED blocks
    PROVE  /\ \A name, tbd : RegisteredAs(name, tbd)' = RegisteredAs(name, tbd)
           /\ \A key, tbd : DeployedBy(key, tbd)' = DeployedBy(key, tbd)
BY DEF RegisteredAs, Registration, DeployedBy, Deploys, Contracts

\* Who finds a registration of its own mined has registered its contract.
LEMMA OwnRegistration ==
    ASSUME NEW r, NEW b \in DOMAIN blocks, blocks[b].tx = Transaction(r), blocks[b].error = "none",
           requests[r].call.fn = "setContract", Calling(r)
    PROVE  RegisteredAs(requests[r].op.name, requests[r].tbd)
<1>1. blocks[b].tx # NoTx /\ blocks[b].tx.call = requests[r].call
  BY SentIsTx
<1>2. requests[r].call.name = requests[r].op.name /\ requests[r].call.tbd = requests[r].tbd
  BY DEF Calling
<1>3. Registration(b, requests[r].op.name) /\ blocks[b].tx.call.tbd = requests[r].tbd
  BY <1>1, <1>2 DEF Registration
<1> QED BY <1>3 DEF RegisteredAs

LEMMA FoundingMoves ==
    ASSUME IInv, HistoryInv, UNCHANGED blocks, NEW r \in Requests, Moves(r), Founding(r)
    PROVE  Founding(r)'
<1>1. requests'[r].op = requests[r].op /\ One(r)' = One(r)
  BY TaskStays
<1> SUFFICES ASSUME ~One(r) PROVE Founding(r)'
  BY <1>1 DEF Founding
<1>2. CASE Keeps(r)
  <2>1. /\ requests'[r].read = requests[r].read /\ requests'[r].call = requests[r].call
        /\ requests'[r].key = requests[r].key /\ requests'[r].tbd = requests[r].tbd
        /\ requests'[r].step \in Signing => requests[r].step \in Signing
    BY <1>2 DEF Keeps, SameTask
  <2>2. Calling(r) => Calling(r)'
    BY <1>1, <2>1, RegisteredRests DEF Calling
  <2> QED BY <1>1, <2>1, <2>2 DEF Founding
<1>3. CASE Plans(r)
  <2>1. /\ requests'[r].call.fn = "deployTbd" /\ requests'[r].key = requests[r].op.key
        /\ requests'[r].read \in DOMAIN blocks
        /\ blocks[requests'[r].read].state.registry[requests[r].op.name] = 0
    <3>1. requests[r].op.kind = "BANK_CREATE"
      BY DEF One
    <3>2. FirstCall(requests[r].op.kind) = "deployTbd"
      BY <1>3, <3>1, PlanFacts, FirstCallName
    <3> QED BY <1>3, <3>2, PlanFacts
  <2>2. Calling(r)'
    BY <1>1, <2>1 DEF Calling
  <2> QED BY <1>1, <2>1, <2>2 DEF Founding
<1>4. CASE \E b \in DOMAIN blocks : Continues(r, b)
  <2>1. PICK b \in DOMAIN blocks : Continues(r, b)
    BY <1>4
  <2> DEFINE next == NextBankCall(requests[r], b)
  <2>2. /\ next # NoCall /\ requests'[r].call = next /\ requests'[r].read = requests[r].read
        /\ blocks[b].tx = Transaction(r) /\ blocks[b].error = "none"
        /\ requests'[r].tbd = IF requests[r].call.fn = "deployTbd" THEN next.tbd ELSE requests[r].tbd
        /\ requests[r].step \in Signing
    BY <2>1 DEF Continues, Signing
  <2>3. Calling(r)
    BY <2>2 DEF Founding
  <2>4. CASE requests[r].call.fn = "deployTbd"
    <3>1. next.fn = "setContract" /\ next.name = requests[r].op.name
      BY <2>2, <2>4, NextFounding
    <3> HIDE DEF next
    <3>2. Calling(r)'
      BY <1>1, <2>2, <2>4, <3>1 DEF Calling
    <3> QED BY <1>1, <2>2, <3>2 DEF Founding
  <2>5. CASE requests[r].call.fn # "deployTbd"
    <3>1. next.fn = "add" /\ requests[r].call.fn = "setContract"
      BY <2>2, <2>5, NextFounding
    <3>2. RegisteredAs(requests[r].op.name, requests[r].tbd)
      BY <2>2, <2>3, <3>1, OwnRegistration
    <3> HIDE DEF next
    <3>3. requests'[r].tbd = requests[r].tbd /\ requests'[r].call.fn = "add"
      BY <2>2, <2>5, <3>1
    <3>4. Calling(r)'
      BY <1>1, <3>2, <3>3, RegisteredRests DEF Calling
    <3> QED BY <1>1, <2>2, <3>4 DEF Founding
  <2> QED BY <2>4, <2>5
<1>5. ~Checks(r)
  BY DEF One, Checks, Unrecorded
<1> QED BY <1>2, <1>3, <1>4, <1>5 DEF Moves

\* A transaction of those asked for stays one, and what is sent is one.
LEMMA TxMoves ==
    ASSUME IInv, RecordInv, OutcomeInv, ChainMoves, Requests' = Requests, \A r \in Requests : Moves(r)
    PROVE  TxInv'
<1>1. UNCHANGED blocks /\ MinedTxs' = MinedTxs
  BY DEF ChainMoves, MinedTxs
<1>2. \A r \in Requests : /\ requests'[r].op = requests[r].op /\ One(r)' = One(r)
                          /\ ~One(r) /\ requests[r].read # 0 => requests'[r].read # 0
  <2> TAKE r \in Requests
  <2>1. ~One(r) => requests[r].op.kind \notin Unrecorded
    BY DEF One, Unrecorded
  <2> QED BY <1>1, <2>1, TaskStays DEF OutcomeInv
<1>3. ASSUME NEW tx, FoundingTx(tx) PROVE FoundingTx(tx)'
  <2>1. CASE tx.call.fn \in {"deployTbd", "setContract"}
    <3>1. tx.req \in Requests /\ ~One(tx.req) /\ requests[tx.req].read # 0
      BY <1>3, <2>1 DEF FoundingTx
    <3>2. PICK r \in Requests : r = tx.req
      BY <3>1
    <3>3. tx.req \in Requests' /\ ~One(tx.req)' /\ requests'[tx.req].read # 0
          /\ requests'[tx.req].op = requests[tx.req].op
      BY <1>2, <3>1, <3>2
    <3> QED BY <1>3, <3>3 DEF FoundingTx
  <2>2. CASE tx.call.fn \notin {"deployTbd", "setContract"}
    BY <2>2 DEF FoundingTx
  <2> QED BY <2>1, <2>2
<1>4. ASSUME NEW r \in Requests, Sends(r) PROVE FoundingTx(Transaction(r))
  <2> DEFINE tx == Transaction(r)
  <2>1. tx.req = r /\ tx.call = requests[r].call /\ tx.key = requests[r].key
    BY DEF Transaction
  <2>2. Begun(r) /\ Founding(r) /\ Called(r) /\ requests[r].op.kind \in Kinds /\ requests[r].step \in Signing
    BY <1>4 DEF OutcomeInv, RecordInv, Sends, IInv, RequestInv, Known
  <2> HIDE DEF tx
  <2>3. CASE One(r)
    <3>1. requests[r].call.fn \notin {"deployTbd", "setContract"}
      BY <2>2, <2>3, OthersFirstCall DEF Begun, One
    <3> QED BY <2>1, <3>1 DEF FoundingTx, tx
  <2>4. CASE ~One(r)
    <3>1. Calling(r) /\ requests[r].read # 0
      BY <2>2, <2>4 DEF Founding, Begun
    <3>2. requests[r].call.fn = "setContract" => requests[r].tbd # 0
      BY <2>2, <2>4 DEF Called
    <3>3. FoundingTx(tx)
      BY <2>1, <2>4, <3>1, <3>2 DEF FoundingTx, Calling
    <3> QED BY <3>3 DEF tx
  <2> QED BY <2>3, <2>4
<1>5. \A tx \in pool' \cup MinedTxs' : FoundingTx(tx)
  <2> TAKE tx \in pool' \cup MinedTxs'
  <2>1. CASE tx \in pool \cup MinedTxs
    BY <2>1 DEF OutcomeInv, TxInv
  <2>2. CASE tx \notin pool \cup MinedTxs
    <3>1. PICK r \in Requests : Sends(r) /\ tx = Transaction(r)
      BY <1>1, <2>2 DEF ChainMoves, Sends
    <3> QED BY <1>4, <3>1
  <2> QED BY <2>1, <2>2
<1> QED BY <1>3, <1>5 DEF TxInv

\* The row of a creation: it registered what it deployed.
LEMMA RowFounded ==
    ASSUME IInv, RecordInv, OutcomeInv, NEW r \in Requests, NEW b \in DOMAIN blocks,
           requests[r].step = "sent", ~One(r), blocks[b].tx = Transaction(r), blocks[b].error = "none",
           NextBankCall(requests[r], b) = NoCall
    PROVE  /\ requests[r].op.name \in Names
           /\ RegisteredAs(requests[r].op.name, requests[r].tbd)
           /\ DeployedBy(requests[r].op.key, requests[r].tbd)
<1>1. Founding(r) /\ Called(r) /\ Banked(r) /\ Known(requests[r].op)
  BY DEF OutcomeInv, RecordInv, IInv, RequestInv
<1>2. requests[r].call.fn # "deployTbd" /\ Calling(r) /\ requests[r].tbd # 0
  BY <1>1, NextCall DEF Founding, Called, Signing
<1>3. requests[r].op.name \in Names
  BY <1>1 DEF Known, One
<1>4. RegisteredAs(requests[r].op.name, requests[r].tbd)
  BY <1>2, OwnRegistration DEF Calling
<1>5. PICK a \in DOMAIN blocks : Deploys(a) /\ blocks[a].tx.req = r /\ requests[r].tbd = Contracts(a)
  BY <1>1, <1>2 DEF Banked, Contracted
<1>6. blocks[a].tx.key = requests[r].op.key
  <2>1. PICK tx : tx = blocks[a].tx
    OBVIOUS
  <2>2. tx \in MinedTxs /\ tx.call.fn = "deployTbd" /\ tx.req = r
    BY <1>5, <2>1 DEF MinedTxs, Deploys
  <2>3. FoundingTx(tx)
    BY <2>2 DEF OutcomeInv, TxInv
  <2> QED BY <2>1, <2>2, <2>3 DEF FoundingTx
<1> QED BY <1>3, <1>4, <1>5, <1>6 DEF DeployedBy

LEMMA FoundedMoves ==
    ASSUME IInv, RecordInv, OutcomeInv, ChainMoves
    PROVE  FoundedInv'
<1>1. UNCHANGED blocks
  BY DEF ChainMoves
<1> SUFFICES ASSUME NEW row \in bankRows'
             PROVE  row.name \in Names /\ RegisteredAs(row.name, row.tbd)' /\ DeployedBy(row.key, row.tbd)'
  BY DEF FoundedInv
<1>2. PICK name, key, tbd : name = row.name /\ key = row.key /\ tbd = row.tbd
  OBVIOUS
<1>3. name \in Names /\ RegisteredAs(name, tbd) /\ DeployedBy(key, tbd)
  <2>1. CASE row \in bankRows
    BY <1>2, <2>1 DEF OutcomeInv, FoundedInv
  <2>2. CASE row \notin bankRows
    <3>1. PICK r \in Requests : \E b \in DOMAIN blocks : Creates(r, b)
      BY <2>2 DEF ChainMoves
    <3>2. PICK b \in DOMAIN blocks : Creates(r, b)
      BY <3>1
    <3>3. row = BankRow(r)
      BY <2>2, <3>2 DEF Creates
    <3>4. name = requests[r].op.name /\ key = requests[r].op.key /\ tbd = requests[r].tbd
      BY <1>2, <3>3 DEF BankRow
    <3> QED BY <3>2, <3>4, RowFounded DEF Creates
  <2> QED BY <2>1, <2>2
<1>4. RegisteredAs(name, tbd)' /\ DeployedBy(key, tbd)'
  BY <1>1, <1>3, RegisteredRests
<1> QED BY <1>2, <1>3, <1>4

LEMMA ContractsRest ==
    ASSUME UNCHANGED blocks
    PROVE  /\ HistoryInv => HistoryInv' /\ (DeployedInv => DeployedInv') /\ (RegisteredInv => RegisteredInv')
<1>1. HeadState' = HeadState
  BY DEF HeadState
<1>2. \A b : Deploys(b)' = Deploys(b) /\ Contracts(b)' = Contracts(b)
  BY DEF Deploys, Contracts
<1>3. \A b, n : Registration(b, n)' = Registration(b, n) /\ Renamed(b, n)' = Renamed(b, n)
  BY DEF Registration, Renamed
<1>4. HistoryInv => HistoryInv'
  BY DEF HistoryInv
<1>5. DeployedInv => DeployedInv'
  BY <1>1, <1>2 DEF DeployedInv
<1>6. RegisteredInv => RegisteredInv'
  BY <1>1, <1>3 DEF RegisteredInv
<1> QED BY <1>4, <1>5, <1>6

LEMMA MovesOutcome ==
    ASSUME IInv, RecordInv, OutcomeInv, ChainMoves, Requests' = Requests, \A r \in Requests : Moves(r)
    PROVE  OutcomeInv'
<1>1. UNCHANGED blocks
  BY DEF ChainMoves
<1>2. ASSUME NEW r \in Requests PROVE Begun(r)' /\ Named(r)' /\ Founding(r)'
  <2>1. Traced(r) /\ Moves(r) /\ Begun(r) /\ Named(r) /\ Founding(r) /\ HistoryInv
    BY DEF RecordInv, OutcomeInv
  <2> QED BY <1>1, <2>1, BegunMoves, NamedMoves, FoundingMoves
<1> QED BY <1>1, <1>2, TxMoves, FoundedMoves, ContractsRest DEF OutcomeInv

-----------------------------------------------------------------------------
(* The chain moves                                                          *)

\* Block block after w: its transaction came from the pool, its state follows w, and a
\* call that took effect did what it is named for.
Took(block) == block.tx # NoTx /\ block.error = "none"
Added(block, w) ==
    /\ block.tx = NoTx \/ (block.tx # NoTx /\ block.tx \in pool)
    /\ IsMarket(block.state) /\ Follows(block.state, w) /\ Retained(w.tbds, block.state.tbds)
    /\ ~(Took(block) /\ block.tx.call.fn = "setContract") => block.state.registry = w.registry
    /\ Took(block) /\ block.tx.call.fn = "setContract" =>
          block.state.registry = [w.registry EXCEPT ![block.tx.call.name] = block.tx.call.tbd]
    /\ Took(block) /\ block.tx.call.fn = "deployTbd" =>
          /\ Len(block.state.tbds) \in DOMAIN block.state.tbds
          /\ block.state.tbds[Len(block.state.tbds)].bank = block.tx.key
    /\ Took(block) /\ block.tx.call.fn \in Closing =>
          block.state.auctions[Len(w.auctions)].status # w.auctions[Len(w.auctions)].status

\* The time of a state
SameButTime(w, e) == DOMAIN e = DOMAIN w /\ e.tbds = w.tbds /\ e.registry = w.registry /\ e.auctions = w.auctions
LEMMA Retimed ==
    ASSUME NEW w, IsMarket(w), NEW x
    PROVE  SameButTime(w, [w EXCEPT !.time = x]) /\ IsMarket([w EXCEPT !.time = x])
<1> DEFINE e == [w EXCEPT !.time = x]
<1>1. DOMAIN w = MarketFields
  BY MarketParts
<1>2. SameButTime(w, e)
  BY <1>1 DEF SameButTime, MarketFields
<1> HIDE DEF e
<1>3. IsMarket(e)
  BY <1>2, MarketParts DEF SameButTime
<1> QED BY <1>2, <1>3 DEF e

LEMMA FollowsItself ==
    ASSUME NEW w, IsMarket(w)
    PROVE  Follows(w, w) /\ Retained(w.tbds, w.tbds)
<1>1. Len(w.auctions) \in Nat
  BY MarketParts DEF Ordered
<1> QED BY <1>1 DEF Follows, Retained

LEMMA MineAdds ==
    ASSUME IInv, RecordInv, OutcomeInv, NEW tx \in pool, Mine(tx)
    PROVE  \E block : blocks' = Append(blocks, block) /\ Added(block, HeadState) /\ pool' \subseteq pool
<1> DEFINE w     == HeadState
           error == Error(w, tx.key, tx.call, clock)
           left  == Effect(w, tx.key, tx.call, clock)
           new   == IF error = "none" THEN left ELSE w
           state == [new EXCEPT !.time = clock]
           block == [state |-> state, tx |-> tx, error |-> error]
<1>1. blocks' = Append(blocks, block) /\ pool' \subseteq pool
  BY DEF Mine
<1>2. IsMarket(w)
  <2>1. Len(blocks) \in DOMAIN blocks
    BY DEF IInv, ChainInv
  <2> QED BY <2>1 DEF OutcomeInv, HistoryInv, HeadState, Last
<1>3. tx # NoTx /\ tx.call.fn \in CallNames /\ (tx.call.fn = "setContract" => tx.call.tbd # 0)
  BY DEF IInv, ChainInv, RecordInv, MarketInv, OutcomeInv, TxInv, FoundingTx
<1>4. block.state = state /\ block.tx = tx /\ block.error = error
  OBVIOUS
<1> HIDE DEF w, error, left, block
<1>5. CASE error = "none"
  <2>1. IsMarket(left) /\ Follows(left, w)
    BY <1>2, <1>3, <1>5, EffectFollows DEF error, left
  <2>2. /\ DOMAIN w = MarketFields /\ DOMAIN w.registry = Names /\ Founded(w.tbds) /\ Ordered(w.auctions)
    BY <1>2, MarketParts
  <2>3. Banking(w, left, tx.key, tx.call)
    BY <1>3, <2>2, EffectOnBanking DEF left
  <2>4. tx.call.fn \in Closing =>
            left.auctions[Len(w.auctions)].status # w.auctions[Len(w.auctions)].status
    BY <1>3, <1>5, <2>2, EffectOnAuctions DEF error, left
  <2>5. new = left
    BY <1>5
  <2> HIDE DEF new
  <2>6. SameButTime(left, state) /\ IsMarket(state)
    BY <2>1, <2>5, Retimed
  <2> HIDE DEF state
  <2>7. Follows(state, w)
    BY <2>1, <2>6 DEF Follows, SameButTime
  <2>8. Retained(w.tbds, state.tbds)
    BY <2>3, <2>6 DEF Banking, SameButTime
  <2>9. "deployTbd" # "setContract"
    OBVIOUS
  <2>10. Added(block, w)
    BY <1>3, <1>4, <1>5, <2>3, <2>4, <2>6, <2>7, <2>8 DEF Added, Took, Banking, SameButTime
  <2> QED BY <1>1, <2>10 DEF w
<1>6. CASE error # "none"
  <2>1. new = w
    BY <1>6
  <2> HIDE DEF new
  <2>2. SameButTime(w, state) /\ IsMarket(state) /\ Follows(w, w) /\ Retained(w.tbds, w.tbds)
    BY <1>2, <2>1, Retimed, FollowsItself
  <2> HIDE DEF state
  <2>3. Follows(state, w) /\ Retained(w.tbds, state.tbds)
    BY <2>2 DEF Follows, SameButTime
  <2>4. Added(block, w)
    BY <1>3, <1>4, <1>6, <2>2, <2>3 DEF Added, Took, SameButTime
  <2> QED BY <1>1, <2>4 DEF w
<1> QED BY <1>5, <1>6

LEMMA EmptyBlockAdds ==
    ASSUME IInv, OutcomeInv, EmptyBlock
    PROVE  \E block : blocks' = Append(blocks, block) /\ Added(block, HeadState) /\ pool' \subseteq pool
<1> DEFINE w     == HeadState
           state == [w EXCEPT !.time = clock]
           block == [state |-> state, tx |-> NoTx, error |-> "none"]
<1>1. blocks' = Append(blocks, block) /\ pool' = pool
  BY DEF EmptyBlock
<1>2. IsMarket(w)
  <2>1. Len(blocks) \in DOMAIN blocks
    BY DEF IInv, ChainInv
  <2> QED BY <2>1 DEF OutcomeInv, HistoryInv, HeadState, Last
<1>3. block.state = state /\ block.tx = NoTx
  OBVIOUS
<1> HIDE DEF w, block
<1>4. SameButTime(w, state) /\ IsMarket(state) /\ Follows(w, w) /\ Retained(w.tbds, w.tbds)
  BY <1>2, Retimed, FollowsItself
<1> HIDE DEF state
<1>5. Follows(state, w) /\ Retained(w.tbds, state.tbds)
  BY <1>4 DEF Follows, SameButTime
<1>6. Added(block, w)
  BY <1>3, <1>4, <1>5 DEF Added, Took, SameButTime
<1> QED BY <1>1, <1>6 DEF w

LEMMA FollowsTwice ==
    ASSUME NEW u, NEW v, NEW w, IsMarket(u), IsMarket(v), IsMarket(w), Follows(v, u), Follows(w, v)
    PROVE  Follows(w, u)
<1>1. Len(u.auctions) \in Nat /\ Len(v.auctions) \in Nat /\ Len(w.auctions) \in Nat
  BY MarketParts DEF Ordered
<1> QED BY <1>1 DEF Follows

\* A block is added to the chain, of transactions of the pool.
Grows(block) ==
    /\ blocks' = Append(blocks, block) /\ Added(block, HeadState) /\ pool' \subseteq pool
    /\ requests' = requests /\ bankRows' = bankRows

LEMMA GrowsFacts ==
    ASSUME IInv, NEW block, Grows(block), NEW n, n = Len(blocks) + 1
    PROVE  /\ DOMAIN blocks = 1 .. n - 1 /\ DOMAIN blocks' = 1 .. n /\ n - 1 \in DOMAIN blocks /\ n \in Nat
           /\ Len(blocks) = n - 1 /\ Len(blocks') = n
           /\ blocks'[n] = block /\ \A b \in DOMAIN blocks : blocks'[b] = blocks[b]
           /\ HeadState = blocks[n - 1].state /\ HeadState' = block.state
           /\ Requests' = Requests
<1>1. /\ DOMAIN blocks = 1 .. Len(blocks) /\ Len(blocks) \in Nat
      /\ DOMAIN blocks' = 1 .. Len(blocks) + 1 /\ blocks'[Len(blocks) + 1] = block
      /\ Len(blocks') = Len(blocks) + 1
      /\ \A k \in 1 .. Len(blocks) : blocks'[k] = blocks[k]
  BY GrownSeq DEF IInv, ChainInv, Grows
<1>2. Len(blocks) # 0
  BY DEF IInv, ChainInv
<1>3. Requests' = Requests
  BY DEF Requests, Grows
<1>4. HeadState = blocks[n - 1].state /\ HeadState' = block.state
  BY <1>1 DEF HeadState, Last
<1> QED BY <1>1, <1>2, <1>3, <1>4

LEMMA HistoryGrows ==
    ASSUME IInv, HistoryInv, NEW block, Grows(block)
    PROVE  HistoryInv'
<1>1. PICK n : n = Len(blocks) + 1
  OBVIOUS
<1>2. /\ DOMAIN blocks = 1 .. n - 1 /\ DOMAIN blocks' = 1 .. n /\ n - 1 \in DOMAIN blocks /\ n \in Nat
      /\ blocks'[n] = block /\ \A b \in DOMAIN blocks : blocks'[b] = blocks[b]
      /\ HeadState = blocks[n - 1].state
  BY <1>1, GrowsFacts
<1>3. IsMarket(block.state) /\ Follows(block.state, HeadState) /\ Follows(block.state, block.state)
  BY FollowsItself DEF Grows, Added
<1>4. \A b \in DOMAIN blocks' : IsMarket(blocks'[b].state)
  BY <1>2, <1>3 DEF HistoryInv
<1>5. \A a \in DOMAIN blocks : Follows(block.state, blocks[a].state)
  <2> TAKE a \in DOMAIN blocks
  <2>1. Follows(HeadState, blocks[a].state) /\ IsMarket(HeadState) /\ IsMarket(blocks[a].state)
    BY <1>2 DEF HistoryInv
  <2> QED BY <1>3, <2>1, FollowsTwice
<1>6. ASSUME NEW a \in DOMAIN blocks', NEW b \in DOMAIN blocks', a <= b
      PROVE  Follows(blocks'[b].state, blocks'[a].state)
  <2>1. CASE b \in DOMAIN blocks
    <3>1. a \in DOMAIN blocks
      BY <1>2, <1>6, <2>1
    <3> QED BY <1>2, <1>6, <2>1, <3>1 DEF HistoryInv
  <2>2. CASE b \notin DOMAIN blocks
    <3>1. b = n
      BY <1>2, <2>2
    <3>2. a = n \/ a \in DOMAIN blocks
      BY <1>2
    <3> QED BY <1>2, <1>3, <1>5, <3>1, <3>2
  <2> QED BY <2>1, <2>2
<1> QED BY <1>4, <1>6 DEF HistoryInv

LEMMA NamedGrows ==
    ASSUME IInv, HistoryInv, NEW block, Grows(block), NEW r \in Requests, Named(r)
    PROVE  Named(r)'
<1>1. PICK n : n = Len(blocks) + 1
  OBVIOUS
<1>2. /\ DOMAIN blocks = 1 .. n - 1 /\ DOMAIN blocks' = 1 .. n /\ n - 1 \in DOMAIN blocks /\ n \in Nat
      /\ blocks'[n] = block /\ \A b \in DOMAIN blocks : blocks'[b] = blocks[b]
      /\ HeadState = blocks[n - 1].state
  BY <1>1, GrowsFacts
<1>3. requests' = requests /\ pool' \subseteq pool
  BY DEF Grows
<1> SUFFICES ASSUME requests[r].op.kind \in AuctionRoutes PROVE Named(r)'
  BY <1>3 DEF Named
<1>4. Latest(r)' /\ ReadOf(r)' = ReadOf(r)
  BY <1>2, <1>3 DEF Latest, ReadOf, Named
<1>5. \A tx \in Pooled(r)' : requests'[r].read # 0 /\ tx.call.fn = FirstCall(requests'[r].op.kind)
  BY <1>3 DEF Pooled, Named
<1>6. ASSUME NEW b \in Effects(r)'
      PROVE  requests'[r].read # 0 /\ b - 1 \in DOMAIN blocks' /\ ChangedIn(r, b)'
  <2>1. CASE b \in DOMAIN blocks
    <3>1. b \in Effects(r)
      BY <1>2, <1>6, <2>1 DEF Effects
    <3>2. requests[r].read # 0 /\ b - 1 \in DOMAIN blocks /\ ChangedIn(r, b) /\ ReadOf(r) \in DOMAIN blocks
      BY <3>1 DEF Named, Latest
    <3>3. blocks'[b] = blocks[b] /\ blocks'[b - 1] = blocks[b - 1] /\ blocks'[ReadOf(r)] = blocks[ReadOf(r)]
      BY <1>2, <2>1, <3>2
    <3>4. ChangedIn(r, b)'
      BY <1>3, <1>4, <3>2, <3>3 DEF ChangedIn
    <3> QED BY <1>2, <1>3, <3>2, <3>4
  <2>2. CASE b \notin DOMAIN blocks
    <3>1. b = n /\ block.tx # NoTx /\ block.tx.req = r /\ block.error = "none"
      BY <1>2, <1>6, <2>2 DEF Effects
    <3>2. Took(block) /\ block.tx \in Pooled(r)
      BY <3>1 DEF Took, Grows, Added, Pooled
    <3>3. requests[r].read # 0 /\ block.tx.call.fn = FirstCall(requests[r].op.kind)
      BY <3>2 DEF Named
    <3>4. block.tx.call.fn \in Closing
      BY <3>3, RouteCalls
    <3>5. block.state.auctions[Len(HeadState.auctions)].status
              # HeadState.auctions[Len(HeadState.auctions)].status
      BY <3>2, <3>4 DEF Grows, Added
    <3>6. ReadOf(r) \in DOMAIN blocks /\ requests[r].op.auction = Len(blocks[ReadOf(r)].state.auctions)
      BY <3>3 DEF Named, Latest
    <3>7. Follows(HeadState, blocks[ReadOf(r)].state)
      BY <1>2, <3>6 DEF HistoryInv
    <3>8. Len(blocks[ReadOf(r)].state.auctions) \in Nat /\ Len(HeadState.auctions) \in Nat
      BY <1>2, <3>6, MarketParts DEF HistoryInv, Ordered
    <3>9. \/ requests[r].op.auction = Len(HeadState.auctions)
          \/ Len(blocks[ReadOf(r)].state.auctions) < Len(HeadState.auctions)
      BY <3>6, <3>7, <3>8 DEF Follows
    <3>10. /\ blocks'[b] = block /\ blocks'[b - 1] = blocks[n - 1] /\ blocks[n - 1].state = HeadState
           /\ blocks'[ReadOf(r)'] = blocks[ReadOf(r)]
      BY <1>2, <1>4, <3>1, <3>6
    <3>11. ChangedIn(r, b)'
      BY <1>3, <3>5, <3>9, <3>10 DEF ChangedIn
    <3>12. b - 1 \in DOMAIN blocks'
      BY <1>2, <3>1
    <3> QED BY <1>3, <3>3, <3>11, <3>12
  <2> QED BY <2>1, <2>2
<1> QED BY <1>4, <1>5, <1>6 DEF Named

LEMMA RegisteredGrows ==
    ASSUME IInv, NEW block, Grows(block)
    PROVE  /\ \A name, tbd : RegisteredAs(name, tbd) => RegisteredAs(name, tbd)'
           /\ \A key, tbd : DeployedBy(key, tbd) => DeployedBy(key, tbd)'
<1>1. DOMAIN blocks \subseteq DOMAIN blocks' /\ \A b \in DOMAIN blocks : blocks'[b] = blocks[b]
  BY GrowsFacts
<1>2. ASSUME NEW name, NEW tbd, RegisteredAs(name, tbd) PROVE RegisteredAs(name, tbd)'
  BY <1>1, <1>2 DEF RegisteredAs, Registration
<1>3. ASSUME NEW key, NEW tbd, DeployedBy(key, tbd) PROVE DeployedBy(key, tbd)'
  BY <1>1, <1>3 DEF DeployedBy, Deploys, Contracts
<1> QED BY <1>2, <1>3

LEMMA FoundingGrows ==
    ASSUME IInv, NEW block, Grows(block), NEW r \in Requests, Founding(r)
    PROVE  Founding(r)'
<1>1. DOMAIN blocks \subseteq DOMAIN blocks' /\ \A b \in DOMAIN blocks : blocks'[b] = blocks[b]
  BY GrowsFacts
<1>2. requests' = requests
  BY DEF Grows
<1>3. Calling(r) => Calling(r)'
  BY <1>2, RegisteredGrows DEF Calling
<1> QED BY <1>1, <1>2, <1>3 DEF Founding, One

LEMMA TxGrows ==
    ASSUME IInv, TxInv, NEW block, Grows(block)
    PROVE  TxInv'
<1>1. PICK n : n = Len(blocks) + 1
  OBVIOUS
<1>2. /\ DOMAIN blocks' = 1 .. n /\ DOMAIN blocks = 1 .. n - 1 /\ n \in Nat
      /\ blocks'[n] = block /\ \A b \in DOMAIN blocks : blocks'[b] = blocks[b]
      /\ Requests' = Requests
  BY <1>1, GrowsFacts
<1>3. requests' = requests /\ pool' \subseteq pool /\ (block.tx # NoTx => block.tx \in pool)
  BY DEF Grows, Added
<1>4. \A tx : FoundingTx(tx) => FoundingTx(tx)'
  BY <1>2, <1>3 DEF FoundingTx, One
<1>5. ASSUME NEW tx \in MinedTxs' PROVE tx \in pool \cup MinedTxs
  <2>1. PICK b \in DOMAIN blocks' : tx = blocks'[b].tx /\ tx # NoTx
    BY <1>5 DEF MinedTxs
  <2>2. CASE b = n
    BY <1>2, <1>3, <2>1, <2>2
  <2>3. CASE b # n
    <3>1. b \in DOMAIN blocks
      BY <1>2, <2>3
    <3> QED BY <1>2, <2>1, <3>1 DEF MinedTxs
  <2> QED BY <2>2, <2>3
<1>6. \A tx \in pool' \cup MinedTxs' : FoundingTx(tx)
  BY <1>3, <1>5 DEF TxInv
<1> QED BY <1>4, <1>6 DEF TxInv

LEMMA DeployedGrows ==
    ASSUME IInv, DeployedInv, NEW block, Grows(block)
    PROVE  DeployedInv'
<1>1. PICK n : n = Len(blocks) + 1
  OBVIOUS
<1>2. /\ DOMAIN blocks' = 1 .. n /\ DOMAIN blocks = 1 .. n - 1 /\ n \in Nat
      /\ blocks'[n] = block /\ \A b \in DOMAIN blocks : blocks'[b] = blocks[b]
      /\ HeadState' = block.state
  BY <1>1, GrowsFacts
<1>3. Retained(HeadState.tbds, block.state.tbds)
  BY DEF Grows, Added
<1> SUFFICES ASSUME NEW b \in DOMAIN blocks', Deploys(b)'
             PROVE  /\ Contracts(b)' \in DOMAIN HeadState'.tbds
                    /\ HeadState'.tbds[Contracts(b)'].bank = blocks'[b].tx.key
  BY DEF DeployedInv
<1>4. CASE b = n
  <2>1. Took(block) /\ block.tx.call.fn = "deployTbd" /\ Contracts(b)' = Len(block.state.tbds)
    BY <1>2, <1>4 DEF Deploys, Contracts, Took
  <2> QED BY <1>2, <1>4, <2>1 DEF Grows, Added
<1>5. CASE b # n
  <2>1. b \in DOMAIN blocks
    BY <1>2, <1>5
  <2>2. Deploys(b) /\ Contracts(b)' = Contracts(b) /\ blocks'[b] = blocks[b]
    BY <1>2, <2>1 DEF Deploys, Contracts
  <2>3. Contracts(b) \in DOMAIN HeadState.tbds /\ HeadState.tbds[Contracts(b)].bank = blocks[b].tx.key
    BY <2>1, <2>2 DEF DeployedInv
  <2> QED BY <1>2, <1>3, <2>2, <2>3 DEF Retained
<1> QED BY <1>4, <1>5

LEMMA RegistryGrows ==
    ASSUME IInv, TxInv, HistoryInv, RegisteredInv, NEW block, Grows(block)
    PROVE  RegisteredInv'
<1>1. PICK n : n = Len(blocks) + 1
  OBVIOUS
<1>2. /\ DOMAIN blocks' = 1 .. n /\ DOMAIN blocks = 1 .. n - 1 /\ n \in Nat /\ n - 1 \in DOMAIN blocks
      /\ blocks'[n] = block /\ \A b \in DOMAIN blocks : blocks'[b] = blocks[b]
      /\ HeadState = blocks[n - 1].state /\ HeadState' = block.state
  BY <1>1, GrowsFacts
<1>3. DOMAIN HeadState.registry = Names
  BY <1>2, MarketParts DEF HistoryInv
<1>4. PICK w : w = HeadState
  OBVIOUS
<1>5. ASSUME NEW k \in Names, Registration(n, k)'
      PROVE  block.state.registry[k] = block.tx.call.tbd /\ block.tx.call.tbd # 0
  <2>1. Took(block) /\ block.tx.call.fn = "setContract" /\ block.tx.call.name = k
    BY <1>2, <1>5 DEF Registration, Took
  <2>2. block.tx \in pool
    BY <2>1 DEF Grows, Added, Took
  <2>3. block.tx.call.tbd # 0
    BY <2>1, <2>2 DEF TxInv, FoundingTx
  <2>4. block.state.registry = [w.registry EXCEPT ![k] = block.tx.call.tbd]
    BY <1>4, <2>1 DEF Grows, Added
  <2> QED BY <1>3, <1>4, <2>3, <2>4
<1>6. ASSUME NEW k \in Names, ~Registration(n, k)'
      PROVE  block.state.registry[k] = w.registry[k]
  <2>1. CASE Took(block) /\ block.tx.call.fn = "setContract"
    <3>1. block.tx.call.name # k
      BY <1>2, <1>6, <2>1 DEF Registration, Took
    <3>2. block.state.registry = [w.registry EXCEPT ![block.tx.call.name] = block.tx.call.tbd]
      BY <1>4, <2>1 DEF Grows, Added
    <3> QED BY <1>3, <1>4, <3>1, <3>2
  <2>2. CASE ~(Took(block) /\ block.tx.call.fn = "setContract")
    BY <1>4, <2>2 DEF Grows, Added
  <2> QED BY <2>1, <2>2
<1> SUFFICES ASSUME NEW b \in DOMAIN blocks', NEW k \in Names, Registration(b, k)'
             PROVE  /\ blocks'[b].state.registry[k] # 0
                    /\ HeadState'.registry[k] = blocks'[b].tx.call.tbd \/ Renamed(b, k)'
  BY DEF RegisteredInv
<1>7. CASE b = n
  BY <1>2, <1>5, <1>7
<1>8. CASE b # n
  <2>1. b \in DOMAIN blocks /\ b < n
    BY <1>2, <1>8
  <2>2. Registration(b, k) /\ blocks'[b] = blocks[b]
    BY <1>2, <2>1 DEF Registration
  <2>3. blocks[b].state.registry[k] # 0 /\ (w.registry[k] = blocks[b].tx.call.tbd \/ Renamed(b, k))
    BY <1>4, <2>1, <2>2 DEF RegisteredInv
  <2>4. Renamed(b, k) => Renamed(b, k)'
    BY <1>2 DEF Renamed, Registration
  <2>5. Registration(n, k)' => Renamed(b, k)'
    <3>1. n \in DOMAIN blocks'
      BY <1>2
    <3> QED BY <2>1, <3>1 DEF Renamed
  <2> QED BY <1>2, <1>6, <2>2, <2>3, <2>4, <2>5
<1> QED BY <1>7, <1>8

LEMMA GrowsOutcome ==
    ASSUME IInv, OutcomeInv, NEW block, Grows(block)
    PROVE  OutcomeInv'
<1>1. Requests' = Requests /\ requests' = requests /\ bankRows' = bankRows
  BY DEF Grows, Requests
<1>2. HistoryInv' /\ TxInv' /\ DeployedInv' /\ RegisteredInv'
  BY HistoryGrows, TxGrows, DeployedGrows, RegistryGrows DEF OutcomeInv
<1>3. FoundedInv'
  BY <1>1, RegisteredGrows DEF OutcomeInv, FoundedInv
<1>4. ASSUME NEW r \in Requests PROVE Begun(r)' /\ Named(r)' /\ Founding(r)'
  <2>1. Begun(r) /\ Named(r) /\ Founding(r) /\ HistoryInv
    BY DEF OutcomeInv
  <2>2. Begun(r)'
    BY <1>1, <2>1 DEF Begun, One
  <2> QED BY <2>1, <2>2, NamedGrows, FoundingGrows
<1> QED BY <1>1, <1>2, <1>3, <1>4 DEF OutcomeInv

-----------------------------------------------------------------------------
(* The theorems                                                             *)

LEMMA InitOutcome == Init => OutcomeInv
<1> SUFFICES ASSUME Init PROVE OutcomeInv
  OBVIOUS
<1>1. PICK scenario \in Scenarios :
        /\ blocks = ToBlocks(scenario.history)
        /\ requests = [r \in DOMAIN scenario.ops |-> Request(scenario.ops[r])]
        /\ pool = {} /\ bankRows = {}
  BY DEF Init
<1> DEFINE h == scenario.history
<1>2. /\ \A b \in DOMAIN h : IsMarket(h[b])
      /\ \A a, b \in DOMAIN h : a <= b => Follows(h[b], h[a])
  BY ScenariosAssumption
<1>3. /\ DOMAIN blocks = DOMAIN h
      /\ \A b \in DOMAIN blocks : blocks[b].state = h[b] /\ blocks[b].tx = NoTx
  BY <1>1 DEF ToBlocks
<1>4. HistoryInv
  BY <1>2, <1>3 DEF HistoryInv
<1>5. TxInv /\ DeployedInv /\ RegisteredInv /\ FoundedInv
  BY <1>1, <1>3 DEF TxInv, MinedTxs, DeployedInv, Deploys, RegisteredInv, Registration, FoundedInv
<1>6. ASSUME NEW r \in Requests PROVE Begun(r) /\ Named(r) /\ Founding(r)
  <2>1. requests[r] = Request(scenario.ops[r])
    BY <1>1 DEF Requests
  <2>2. requests[r].step = "arrived" /\ requests[r].read = 0 /\ requests[r].seen = 0
    BY <2>1 DEF Request
  <2>3. Pooled(r) = {} /\ Effects(r) = {}
    BY <1>1, <1>3 DEF Pooled, Effects
  <2>4. "arrived" \notin Signing
    BY DEF Signing
  <2> QED BY <2>2, <2>3, <2>4 DEF Begun, Named, Latest, Founding
<1> QED BY <1>4, <1>5, <1>6 DEF OutcomeInv

LEMMA StepOutcome == IInv /\ RecordInv /\ OutcomeInv /\ [Next]_vars => OutcomeInv'
<1> SUFFICES ASSUME IInv, RecordInv, OutcomeInv, [Next]_vars PROVE OutcomeInv'
  OBVIOUS
<1>1. Shape
  BY StepShape
<1>2. CASE ChainMoves /\ \A r \in Requests : Moves(r)
  BY <1>1, <1>2, MovesOutcome DEF Shape
<1>3. CASE /\ requests' = requests /\ bankRows' = bankRows
           /\ (\E tx \in pool : Mine(tx)) \/ EmptyBlock
  <2>1. \E block : blocks' = Append(blocks, block) /\ Added(block, HeadState) /\ pool' \subseteq pool
    BY <1>3, MineAdds, EmptyBlockAdds
  <2>2. PICK block : Grows(block)
    BY <1>3, <2>1 DEF Grows
  <2> QED BY <2>2, GrowsOutcome
<1> QED BY <1>1, <1>2, <1>3 DEF Shape

\* The invariant of what requests bring about, together with those it rests on.
THEOREM OutcomeInvariant == Spec => [](IInv /\ RecordInv /\ OutcomeInv)
<1>1. Init => IInv /\ RecordInv /\ OutcomeInv
  BY InitInvariant, InitRecorded, InitOutcome
<1>2. (IInv /\ RecordInv /\ OutcomeInv) /\ [Next]_vars => (IInv /\ RecordInv /\ OutcomeInv)'
  BY StepInvariant, StepRecorded, StepOutcome
<1> QED BY <1>1, <1>2, PTL DEF Spec

LEMMA NamedChanges == OutcomeInv => NamedAuctionChanges
<1> SUFFICES ASSUME OutcomeInv, NEW r \in Requests, NEW b \in Effects(r),
                    requests[r].op.kind \in {"AUCTION_CANCEL", "AUCTION_CLOSE", "AUCTION_FINALISE"}
             PROVE  ChangedIn(r, b)
  BY DEF NamedAuctionChanges, ChangedIn
<1> QED BY DEF OutcomeInv, Named, AuctionRoutes

\* A close, cancel or finalisation changes the auction it was asked to change, or a newer
\* one was created since the state its handler read, whatever the requests, the chain they
\* meet and the faults (service.ts:163-340).
THEOREM NamedAuctionTheorem == Spec => []NamedAuctionChanges
BY OutcomeInvariant, NamedChanges, PTL

LEMMA BanksAct == IInv /\ OutcomeInv => BanksActForThemselves
<1> SUFFICES ASSUME IInv, OutcomeInv, NEW row \in bankRows, ~ActAsAvailable(HeadState, row)
             PROVE  \E b1, b2 \in DOMAIN blocks :
                      /\ b1 < b2 /\ Registration(b1, row.name) /\ Registration(b2, row.name)
                      /\ requests[blocks[b2].tx.req].read < b1
  BY DEF BanksActForThemselves
<1>1. row.name \in Names /\ RegisteredAs(row.name, row.tbd) /\ DeployedBy(row.key, row.tbd)
  BY DEF OutcomeInv, FoundedInv
<1>2. PICK b1 \in DOMAIN blocks : Registration(b1, row.name) /\ blocks[b1].tx.call.tbd = row.tbd
  BY <1>1 DEF RegisteredAs
<1>3. row.tbd \in DOMAIN HeadState.tbds /\ HeadState.tbds[row.tbd].bank = row.key
  BY <1>1 DEF DeployedBy, OutcomeInv, DeployedInv
<1>4. HeadState.registry[row.name] # row.tbd
  BY <1>3 DEF ActAsAvailable
<1>5. blocks[b1].state.registry[row.name] # 0 /\ Renamed(b1, row.name)
  BY <1>1, <1>2, <1>4 DEF OutcomeInv, RegisteredInv
<1>6. PICK b2 \in DOMAIN blocks : b1 < b2 /\ Registration(b2, row.name)
  BY <1>5 DEF Renamed
<1>7. PICK r : r = blocks[b2].tx.req
  OBVIOUS
<1>8. r \in Requests /\ ~One(r) /\ requests[r].read # 0 /\ row.name = requests[r].op.name
  <2>1. blocks[b2].tx \in MinedTxs /\ blocks[b2].tx.call.fn = "setContract"
        /\ blocks[b2].tx.call.name = row.name
    BY <1>6 DEF MinedTxs, Registration
  <2> QED BY <1>7, <2>1 DEF OutcomeInv, TxInv, FoundingTx
<1>9. requests[r].read \in DOMAIN blocks /\ blocks[requests[r].read].state.registry[row.name] = 0
  BY <1>8 DEF OutcomeInv, Founding
<1>10. b1 <= requests[r].read => Follows(blocks[requests[r].read].state, blocks[b1].state)
  BY <1>9 DEF OutcomeInv, HistoryInv
<1>11. ~(b1 <= requests[r].read)
  BY <1>1, <1>5, <1>9, <1>10 DEF Follows
<1>12. DOMAIN blocks = 1 .. Len(blocks) /\ Len(blocks) \in Nat
  BY DEF IInv, ChainInv
<1>13. requests[r].read < b1
  BY <1>9, <1>11, <1>12
<1> QED BY <1>2, <1>6, <1>7, <1>13

\* A bank in the registry can act for itself, or a creation that had found its name free
\* before registered another contract under it (banks.ts:286-313, app.ts:1289).
THEOREM BanksTheorem == Spec => []BanksActForThemselves
BY OutcomeInvariant, BanksAct, PTL

-----------------------------------------------------------------------------
(* Announcements: what a call changes of what the pages read                *)

\* The calls that move no money
CalmCalls == {"deployBond", "deployAuction", "disableBond", "closeAuction", "cancelAuction", "submitBid"}

\* The states have the same balances and the same allowlist.
SameMoney(w, e) == DOMAIN e = DOMAIN w /\ e.cash = w.cash /\ e.listed = w.listed

LEMMA OtherThanMoney ==
    ASSUME NEW w, DOMAIN w = MarketFields, NEW x
    PROVE  /\ SameMoney(w, [w EXCEPT !.offering = x]) /\ SameMoney(w, [w EXCEPT !.auctions = x])
           /\ SameMoney(w, [w EXCEPT !.tbds = x]) /\ SameMoney(w, [w EXCEPT !.registry = x])
BY DEF SameMoney, MarketFields

LEMMA SameMoneyTwice ==
    ASSUME NEW w, NEW u, NEW e, SameMoney(w, u), SameMoney(u, e)
    PROVE  SameMoney(w, e)
BY DEF SameMoney

LEMMA StatusOnMoney ==
    ASSUME NEW w, DOMAIN w = MarketFields, NEW status
    PROVE  SameMoney(w, WithLatest(w, status))
<1> DEFINE x == [w.auctions EXCEPT ![Len(w.auctions)].status = status]
           e == WithLatest(w, status)
<1>1. e = [w EXCEPT !.auctions = x]
  BY DEF WithLatest
<1> HIDE DEF x, e
<1>2. SameMoney(w, [w EXCEPT !.auctions = x])
  BY OtherThanMoney
<1>3. SameMoney(w, e)
  BY <1>1, <1>2
<1> QED BY <1>3 DEF e

LEMMA CalmOnMoney ==
    ASSUME NEW w, DOMAIN w = MarketFields, NEW from, NEW c, c.fn \in CalmCalls, NEW t
    PROVE  SameMoney(w, Effect(w, from, c, t))
<1> DEFINE e == Effect(w, from, c, t)
<1> HIDE DEF e
<1>1. SameMoney(w, DeployBond(w)) /\ DOMAIN DeployBond(w) = MarketFields
  BY DEF DeployBond, SameMoney, MarketFields
<1>2. CASE c.fn \in {"deployBond", "closeAuction"}
  <2>1. e \in {DeployBond(w), WithLatest(w, "CLOSED")}
    BY <1>2, EffectCases DEF e
  <2> QED BY <1>1, <2>1, StatusOnMoney DEF e
<1>3. CASE c.fn = "deployAuction"
  <2> DEFINE w1 == IF c.fresh THEN DeployBond(w) ELSE w
             offering == IF c.type = "BUYBACK" THEN w1.offering ELSE w1.offering + c.size
             auctions == Append(w1.auctions, [type |-> c.type, status |-> "BIDDING", end |-> c.end,
                                 size |-> c.size, key |-> c.key, bids |-> <<>>, allocations |-> <<>>])
  <2>1. e = DeployAuction(w, c)
    BY <1>3, EffectCases DEF e
  <2>2. SameMoney(w, w1) /\ DOMAIN w1 = MarketFields
    BY <1>1 DEF SameMoney
  <2>3. DeployAuction(w, c) = [w1 EXCEPT !.offering = offering, !.auctions = auctions]
    <3> DEFINE a1 == [w1 EXCEPT !.offering = IF c.type = "BUYBACK" THEN @ ELSE @ + c.size,
                   !.auctions = Append(@, [type |-> c.type, status |-> "BIDDING", end |-> c.end,
                                           size |-> c.size, key |-> c.key, bids |-> <<>>, allocations |-> <<>>])]
    <3>1. DeployAuction(w, c) = a1
      BY Zenon DEF DeployAuction
    <3> HIDE DEF w1
    <3>2. a1 = [w1 EXCEPT !.offering = offering, !.auctions = auctions]
      BY <2>2 DEF MarketFields
    <3> QED BY <3>1, <3>2
  <2> HIDE DEF w1, offering, auctions
  <2>4. SameMoney(w1, [w1 EXCEPT !.offering = offering, !.auctions = auctions])
    BY <2>2 DEF SameMoney, MarketFields
  <2> QED BY <2>1, <2>2, <2>3, <2>4, SameMoneyTwice DEF e
<1>4. CASE c.fn = "disableBond"
  <2>1. e = DisableBond(w)
    BY <1>4, EffectCases DEF e
  <2>2. SameMoney(w, DisableBond(w))
    BY DEF DisableBond, SameMoney, MarketFields
  <2> QED BY <2>1, <2>2 DEF e
<1>5. CASE c.fn = "cancelAuction"
  <2> DEFINE x == w.offering - Last(w.auctions).size
             u == [w EXCEPT !.offering = x]
  <2>1. e = WithLatest(u, "CANCELLED")
    BY <1>5, EffectCases DEF e, CancelAuction
  <2> HIDE DEF x
  <2>2. SameMoney(w, u) /\ DOMAIN u = MarketFields
    BY OtherThanMoney DEF SameMoney
  <2> HIDE DEF u
  <2> QED BY <2>1, <2>2, StatusOnMoney, SameMoneyTwice DEF e
<1>6. CASE c.fn = "submitBid"
  <2> DEFINE x == [w.auctions EXCEPT ![c.auction].bids = Append(@, [c.bid EXCEPT !.bidder = from])]
  <2>1. e = [w EXCEPT !.auctions = x]
    <3>1. e = SubmitBid(w, from, c)
      BY <1>6, EffectCases DEF e
    <3>2. SubmitBid(w, from, c) = [w EXCEPT !.auctions = x]
      BY DEF SubmitBid
    <3> QED BY <3>1, <3>2
  <2> HIDE DEF x
  <2>2. SameMoney(w, [w EXCEPT !.auctions = x])
    BY OtherThanMoney
  <2>3. SameMoney(w, e)
    BY <2>1, <2>2
  <2> QED BY <2>3 DEF e
<1> QED BY <1>2, <1>3, <1>4, <1>5, <1>6 DEF CalmCalls

LEMMA FinaliseOnListed ==
    ASSUME NEW w, DOMAIN w = MarketFields, NEW c, NEW t
    PROVE  Finalise(w, c, t).listed = w.listed
<1> DEFINE total  == Allocated(c)
           w0     == [w EXCEPT !.auctions[Len(w.auctions)].allocations = c.allocations]
           w1     == WithLatest(w0, "FINALISED")
           minted == [w1 EXCEPT !.units[Manager] = @ + total, !.issued = TRUE,
                                !.due = IF c.type = "RATE" THEN t + 1 ELSE @]
           bought == FoldLeft(SettleBuyback, w1, c.allocations)
           sold   == FoldLeft(SettleIssuance, minted, c.allocations)
<1>1. Finalise(w, c, t) = IF c.type = "BUYBACK" THEN Settled(w1, bought) ELSE Settled(minted, sold)
  BY Zenon DEF Finalise
<1>2. DOMAIN w0 = MarketFields /\ w0.listed = w.listed
  BY DEF MarketFields
<1> HIDE DEF total, w0, bought, sold
<1>3. DOMAIN w1 = MarketFields /\ w1.listed = w.listed
  BY <1>2, StatusOnMoney DEF SameMoney
<1> HIDE DEF w1
<1>4. DOMAIN minted = MarketFields /\ minted.listed = w.listed
  BY <1>3 DEF MarketFields
<1> HIDE DEF minted
<1>5. Settled(w1, bought).listed = w.listed /\ Settled(minted, sold).listed = w.listed
  BY <1>3, <1>4 DEF Settled, MarketFields
<1> QED BY <1>1, <1>5

\* What each call may change of money and allowlist
LEMMA EffectOnMoney ==
    ASSUME NEW w, DOMAIN w = MarketFields, NEW from, NEW c, NEW t
    PROVE  /\ c.fn \in {"finaliseAuction", "payCoupon"} \cup MoneyCalls =>
                  Effect(w, from, c, t).listed = w.listed
           /\ c.fn \in {"add", "remove"} => Effect(w, from, c, t).cash = w.cash
           /\ c.fn \in DepositCalls \cup {"deployTbd", "setContract"} =>
                  SameMoney(w, Effect(w, from, c, t))
<1> DEFINE e == Effect(w, from, c, t)
<1> HIDE DEF e
<1>1. ASSUME c.fn = "finaliseAuction" PROVE e.listed = w.listed
  <2>1. e = Finalise(w, c, t)
    BY <1>1, EffectCases DEF e
  <2> QED BY <2>1, FinaliseOnListed
<1>2. ASSUME c.fn = "payCoupon" PROVE e.listed = w.listed
  <2> DEFINE payouts == Payouts(w, c.holders)
             paid    == FoldSet(LAMBDA h, u : Pay(u, Reserve, h, payouts[h]), w, DOMAIN payouts)
             cash    == paid.cash
             units   == [a \in Owners |-> 0]
  <2>1. PayCoupon(w, c) = [w EXCEPT !.cash = cash, !.units = units, !.matured = TRUE]
    BY Zenon DEF PayCoupon
  <2>2. e = PayCoupon(w, c)
    BY <1>2, EffectCases DEF e
  <2> HIDE DEF cash, units
  <2>3. [w EXCEPT !.cash = cash, !.units = units, !.matured = TRUE].listed = w.listed
    BY DEF MarketFields
  <2> QED BY <2>1, <2>2, <2>3
<1>3. ASSUME c.fn \in MoneyCalls PROVE e.listed = w.listed
  <2> DEFINE x == Moved(w.cash, c.from, c.to)
  <2>1. e = [w EXCEPT !.cash = x]
    BY <1>3, EffectCases DEF e, CashMoved
  <2> HIDE DEF x
  <2> QED BY <2>1 DEF MarketFields
<1>4. ASSUME c.fn \in {"add", "remove"} PROVE e.cash = w.cash
  <2> DEFINE x == Listing(w.listed, c)
  <2>1. e = [w EXCEPT !.listed = x]
    BY <1>4, EffectCases DEF e, CashListed
  <2> HIDE DEF x
  <2> QED BY <2>1 DEF MarketFields
<1>5. ASSUME c.fn \in DepositMoves PROVE \E x : e = [w EXCEPT !.tbds = x]
  <2> DEFINE y == [w.tbds[c.tbd] EXCEPT !.deposit = Moved(@, c.from, c.to)]
  <2>1. e = [w EXCEPT !.tbds = [w.tbds EXCEPT ![c.tbd] = y]]
    BY <1>5, EffectCases DEF e, DepositMoved
  <2> HIDE DEF y
  <2> QED BY <2>1
<1>6. ASSUME c.fn \in {"tbdAdd", "tbdRemove"} PROVE \E x : e = [w EXCEPT !.tbds = x]
  <2> DEFINE y == [w.tbds[c.tbd] EXCEPT !.listed = Listing(@, c)]
  <2>1. DepositListed(w, c, e)
    BY <1>6, EffectCases DEF e
  <2>2. e = [w EXCEPT !.tbds = [w.tbds EXCEPT ![c.tbd] = y]]
    BY <2>1 DEF DepositListed
  <2> HIDE DEF y
  <2> QED BY <2>2
<1>7. ASSUME c.fn = "deployTbd" PROVE \E x : e = [w EXCEPT !.tbds = x]
  <2> DEFINE x == Append(w.tbds, NewTbd(from))
  <2>1. e = [w EXCEPT !.tbds = x]
    BY <1>7, EffectCases DEF e, TbdDeployed
  <2> HIDE DEF x
  <2> QED BY <2>1
<1>8. ASSUME c.fn = "setContract" PROVE \E x : e = [w EXCEPT !.registry = x]
  <2> DEFINE x == [w.registry EXCEPT ![c.name] = c.tbd]
  <2>1. e = [w EXCEPT !.registry = x]
    BY <1>8, EffectCases DEF e, Registered
  <2> HIDE DEF x
  <2> QED BY <2>1
<1>9. ASSUME c.fn \in DepositCalls \cup {"deployTbd"} PROVE SameMoney(w, e)
  <2>1. PICK x : e = [w EXCEPT !.tbds = x]
    BY <1>5, <1>6, <1>7, <1>9 DEF DepositCalls
  <2> QED BY <2>1, OtherThanMoney
<1>10. ASSUME c.fn = "setContract" PROVE SameMoney(w, e)
  <2>1. PICK x : e = [w EXCEPT !.registry = x]
    BY <1>8, <1>10
  <2> QED BY <2>1, OtherThanMoney
<1> QED BY <1>1, <1>2, <1>3, <1>4, <1>9, <1>10 DEF e

\* What of the four a call can change
Reach(fn) ==
    CASE fn \in {"finaliseAuction", "payCoupon"} \cup MoneyCalls -> {"bidders", "central-bank", "banking"}
      [] fn \in {"add", "remove"} -> {"central-bank", "banking"}
      [] fn \in DepositCalls      -> {"banking"}
      [] fn = "setContract"       -> {"banking", "registry"}
      [] OTHER                    -> {}

LEMMA ReachOf ==
    ASSUME NEW fn
    PROVE  /\ fn \in {"finaliseAuction", "payCoupon"} \cup MoneyCalls =>
                  Reach(fn) = {"bidders", "central-bank", "banking"}
           /\ fn \in {"add", "remove"} => Reach(fn) = {"central-bank", "banking"}
           /\ fn \in DepositCalls => Reach(fn) = {"banking"}
           /\ fn = "setContract" => Reach(fn) = {"banking", "registry"}
           /\ fn \in CalmCalls \cup {"deployTbd"} => Reach(fn) = {}
<1>1. ASSUME fn \in {"finaliseAuction", "payCoupon"} \cup MoneyCalls
      PROVE  Reach(fn) = {"bidders", "central-bank", "banking"}
  BY <1>1 DEF Reach, MoneyCalls, DepositCalls, DepositMoves
<1>2. ASSUME fn \in {"add", "remove"} PROVE Reach(fn) = {"central-bank", "banking"}
  BY <1>2 DEF Reach, MoneyCalls, DepositCalls, DepositMoves
<1>3. ASSUME fn \in DepositCalls PROVE Reach(fn) = {"banking"}
  BY <1>3 DEF Reach, MoneyCalls, DepositCalls, DepositMoves
<1>4. ASSUME fn = "setContract" PROVE Reach(fn) = {"banking", "registry"}
  BY <1>4 DEF Reach, MoneyCalls, DepositCalls, DepositMoves
<1>5. ASSUME fn \in CalmCalls \cup {"deployTbd"} PROVE Reach(fn) = {}
  BY <1>5 DEF Reach, MoneyCalls, DepositCalls, DepositMoves, CalmCalls
<1> QED BY <1>1, <1>2, <1>3, <1>4, <1>5

\* What states with the same money and the same names and contracts show alike
LEMMA SameViews ==
    ASSUME NEW c, NEW w, NEW e
    PROVE  /\ e.cash = w.cash => BiddersView(e, c.bidders) = BiddersView(w, c.bidders)
           /\ e.cash = w.cash /\ e.listed = w.listed => CentralBankView(e) = CentralBankView(w)
           /\ e.cash = w.cash /\ e.listed = w.listed /\ e.tbds = w.tbds /\ e.registry = w.registry =>
                  BankingView(e, Roster(c)) = BankingView(w, Roster(c))
<1>1. e.cash = w.cash => BiddersView(e, c.bidders) = BiddersView(w, c.bidders)
  BY DEF BiddersView
<1>2. e.cash = w.cash /\ e.listed = w.listed => CentralBankView(e) = CentralBankView(w)
  BY DEF CentralBankView
<1>3. ASSUME e.cash = w.cash, e.listed = w.listed, e.tbds = w.tbds, e.registry = w.registry
      PROVE  BankingView(e, Roster(c)) = BankingView(w, Roster(c))
  <2>1. RosterTbds(e, Roster(c)) = RosterTbds(w, Roster(c))
    BY <1>3 DEF RosterTbds
  <2> QED BY <1>3, <2>1 DEF BankingView
<1> QED BY <1>1, <1>2, <1>3

\* A contract that was just deployed has no name yet: no page shows it.
LEMMA UnnamedUnseen ==
    ASSUME NEW c, NEW w, NEW e, HasContracts(w), Resolves(w), \A b \in c.banks : b.name \in Names,
           NEW tbd, e.tbds = Append(w.tbds, tbd), SameMoney(w, e), e.registry = w.registry
    PROVE  BankingView(e, Roster(c)) = BankingView(w, Roster(c))
<1> DEFINE R == RosterTbds(w, Roster(c))
<1>1. RosterTbds(e, Roster(c)) = R
  BY DEF RosterTbds
<1>2. \A b \in Roster(c) : b.name \in Names
  BY KeysAssumption DEF Roster
<1>3. \A k \in R : k \in 1 .. Len(w.tbds)
  <2>1. Len(w.tbds) \in Nat
    BY DEF HasContracts
  <2>2. SUFFICES ASSUME NEW b \in Roster(c), w.registry[b.name] # 0 PROVE w.registry[b.name] \in 1 .. Len(w.tbds)
    BY DEF RosterTbds
  <2>3. w.registry[b.name] \in 0 .. Len(w.tbds)
    BY <1>2 DEF Resolves
  <2> QED BY <2>1, <2>2, <2>3
<1>4. \A k \in R : e.tbds[k] = w.tbds[k]
  <2>1. w.tbds \in Seq(Range(w.tbds) \cup {tbd})
    BY OverItsMembers, GrownSeq DEF HasContracts
  <2> QED BY <1>3, <2>1
<1> HIDE DEF R
<1>5. e.cash = w.cash /\ e.listed = w.listed
  BY DEF SameMoney
<1>6. \A k \in R : /\ e.tbds[k] = w.tbds[k] /\ e.cash[e.tbds[k].bank] = w.cash[w.tbds[k].bank]
                   /\ (e.tbds[k].bank \in e.listed) = (w.tbds[k].bank \in w.listed)
  BY <1>4, <1>5
<1> DEFINE row(u, k) == [tbd |-> u.tbds[k], reserve |-> u.cash[u.tbds[k].bank], settles |-> u.tbds[k].bank \in u.listed]
<1>7. \A k \in R : row(e, k) = row(w, k)
  BY <1>6
<1>8. BankingView(e, Roster(c)) = [k \in R |-> row(e, k)] /\ BankingView(w, Roster(c)) = [k \in R |-> row(w, k)]
  BY <1>1, Zenon DEF BankingView, R
<1> HIDE DEF row
<1> QED BY <1>7, <1>8

LEMMA Reached ==
    ASSUME NEW c, NEW w, HasContracts(w), Resolves(w), \A b \in c.banks : b.name \in Names,
           NEW from, NEW call, call.fn \in CallNames, NEW t
    PROVE  Touched(c, w, Effect(w, from, call, t)) \subseteq Reach(call.fn)
<1> DEFINE e == Effect(w, from, call, t)
           fn == call.fn
           bidders == BiddersView(w, c.bidders) = BiddersView(e, c.bidders)
           central == CentralBankView(w) = CentralBankView(e)
           banking == BankingView(w, Roster(c)) = BankingView(e, Roster(c))
           names   == w.registry = e.registry
<1>1. \A x \in Touched(c, w, e) :
         \/ x = "bidders" /\ ~bidders
         \/ x = "central-bank" /\ ~central
         \/ x = "banking" /\ ~banking
         \/ x = "registry" /\ ~names
  BY DEF Touched
<1>2. DOMAIN w = MarketFields
  BY DEF HasContracts
<1>3. /\ e.cash = w.cash => bidders
      /\ e.cash = w.cash /\ e.listed = w.listed => central
      /\ e.cash = w.cash /\ e.listed = w.listed /\ e.tbds = w.tbds /\ e.registry = w.registry => banking
  BY SameViews
<1>4. fn \in BondCalls \cup MoneyCalls \cup {"add", "remove"} => e.tbds = w.tbds /\ names
  BY <1>2, BondCallsOnBanks DEF SameBanks
<1>5. fn \in CalmCalls => e.cash = w.cash /\ e.listed = w.listed
  BY <1>2, CalmOnMoney DEF SameMoney
<1>6. /\ fn \in {"add", "remove"} => e.cash = w.cash
      /\ fn \in DepositCalls \cup {"deployTbd", "setContract"} => SameMoney(w, e)
  BY <1>2, EffectOnMoney
<1>7. fn \in DepositCalls => names
  <2>1. SUFFICES ASSUME fn \in DepositCalls PROVE e.registry = w.registry
    OBVIOUS
  <2>2. ASSUME fn \in DepositMoves PROVE \E x : e = [w EXCEPT !.tbds = x]
    <3> DEFINE y == [w.tbds[call.tbd] EXCEPT !.deposit = Moved(@, call.from, call.to)]
    <3>1. DepositMoved(w, call, e)
      BY <2>2, EffectCases
    <3>2. e = [w EXCEPT !.tbds = [w.tbds EXCEPT ![call.tbd] = y]]
      BY <3>1 DEF DepositMoved
    <3> HIDE DEF y, e
    <3> QED BY <3>2
  <2>3. ASSUME fn \in {"tbdAdd", "tbdRemove"} PROVE \E x : e = [w EXCEPT !.tbds = x]
    <3> DEFINE y == [w.tbds[call.tbd] EXCEPT !.listed = Listing(@, call)]
    <3>1. DepositListed(w, call, e)
      BY <2>3, EffectCases
    <3>2. e = [w EXCEPT !.tbds = [w.tbds EXCEPT ![call.tbd] = y]]
      BY <3>1 DEF DepositListed
    <3> HIDE DEF y, e
    <3> QED BY <3>2
  <2> HIDE DEF e
  <2>4. PICK x : e = [w EXCEPT !.tbds = x]
    BY <2>1, <2>2, <2>3 DEF DepositCalls
  <2> QED BY <1>2, <2>4 DEF MarketFields
<1>8. fn = "deployTbd" => names /\ banking
  <2>1. SUFFICES ASSUME fn = "deployTbd" PROVE names /\ banking
    OBVIOUS
  <2> DEFINE tbd == NewTbd(from)
             s   == Append(w.tbds, tbd)
  <2>2. e = [w EXCEPT !.tbds = s]
    BY <2>1, EffectCases DEF TbdDeployed
  <2> HIDE DEF e, tbd, s
  <2>3. e.tbds = s /\ e.registry = w.registry
    BY <1>2, <2>2 DEF MarketFields
  <2>4. SameMoney(w, e)
    BY <1>6, <2>1
  <2> QED BY <2>3, <2>4, UnnamedUnseen DEF s
<1>9. fn = "setContract" => e.tbds = w.tbds
  <2>1. SUFFICES ASSUME fn = "setContract" PROVE e.tbds = w.tbds
    OBVIOUS
  <2> DEFINE x == [w.registry EXCEPT ![call.name] = call.tbd]
  <2>2. e = [w EXCEPT !.registry = x]
    BY <2>1, EffectCases DEF Registered
  <2> HIDE DEF e, x
  <2>3. "tbds" \in DOMAIN w /\ "tbds" # "registry"
    BY <1>2 DEF MarketFields
  <2> QED BY <2>2, <2>3
<1> HIDE DEF e, bidders, central, banking
<1>10. CASE fn \in CalmCalls
  <2>1. fn \in BondCalls
    BY <1>10 DEF CalmCalls, BondCalls
  <2>2. bidders /\ central /\ banking /\ names
    BY <1>3, <1>4, <1>5, <1>10, <2>1
  <2> QED BY <1>1, <2>2 DEF e
<1>11. CASE fn \in {"finaliseAuction", "payCoupon"} \cup MoneyCalls
  <2>1. Reach(fn) = {"bidders", "central-bank", "banking"}
    BY <1>11, ReachOf
  <2>2. names
    BY <1>4, <1>11 DEF BondCalls
  <2> QED BY <1>1, <2>1, <2>2 DEF e
<1>12. CASE fn \in {"add", "remove"}
  <2>1. Reach(fn) = {"central-bank", "banking"}
    BY <1>12, ReachOf
  <2>2. names /\ bidders
    BY <1>3, <1>4, <1>6, <1>12
  <2> QED BY <1>1, <2>1, <2>2 DEF e
<1>13. CASE fn \in DepositCalls
  <2>1. Reach(fn) = {"banking"}
    BY <1>13, ReachOf
  <2>2. names /\ bidders /\ central
    BY <1>3, <1>6, <1>7, <1>13 DEF SameMoney
  <2> QED BY <1>1, <2>1, <2>2 DEF e
<1>14. CASE fn = "deployTbd"
  <2>1. names /\ bidders /\ central /\ banking
    BY <1>3, <1>6, <1>8, <1>14 DEF SameMoney
  <2> QED BY <1>1, <2>1 DEF e
<1>15. CASE fn = "setContract"
  <2>1. Reach(fn) = {"banking", "registry"}
    BY <1>15, ReachOf
  <2>2. bidders /\ central
    BY <1>3, <1>6, <1>15 DEF SameMoney
  <2> QED BY <1>1, <2>1, <2>2 DEF e
<1> QED BY <1>10, <1>11, <1>12, <1>13, <1>14, <1>15
        DEF CallNames, CalmCalls, MoneyCalls, DepositCalls, DepositMoves

\* What the call of a kind can change is announced when its request succeeds, but for the
\* reserves a finalisation or a coupon moves.
LEMMA Promised ==
    ASSUME NEW kind \in Kinds \ Unrecorded, NEW x \in Reach(FirstCall(kind))
    PROVE  \/ x \in ChangedResources(kind)
           \/ x = "banking" /\ FirstCall(kind) \in {"finaliseAuction", "payCoupon"}
<1> DEFINE all == {"bidders", "central-bank", "banking"}
<1>1. CASE kind \in {"BOND_CREATE", "BOND_DISABLE", "AUCTION_CREATE", "AUCTION_CANCEL", "AUCTION_CLOSE",
                     "BID_SUBMISSION", "BANK_CREATE"}
  <2>1. FirstCall(kind) \in CalmCalls \cup {"deployTbd"}
    BY <1>1, KindDomains DEF FirstCall, CalmCalls
  <2>2. Reach(FirstCall(kind)) = {}
    BY <2>1, ReachOf
  <2> QED BY <2>2
<1>2. CASE kind \in {"AUCTION_FINALISE", "COUPON_PAYMENT"}
  <2>1. FirstCall(kind) \in {"finaliseAuction", "payCoupon"}
    BY <1>2, KindDomains DEF FirstCall
  <2>2. Reach(FirstCall(kind)) = all
    BY <2>1, ReachOf
  <2>3. ChangedResources(kind) = {"bidders", "central-bank"}
    BY <1>2, KindDomains DEF ChangedResources
  <2> QED BY <2>1, <2>2, <2>3
<1>3. CASE kind \in DOMAIN Wnok \cup DOMAIN TbdCalls
  <2>1. Reach(FirstCall(kind)) \subseteq all
    <3>1. ASSUME kind \in DOMAIN Wnok PROVE FirstCall(kind) \in MoneyCalls \cup {"add", "remove"}
      <4>1. FirstCall(kind) = Wnok[kind]
        BY <3>1, KindDomains DEF FirstCall
      <4>2. Wnok[kind] \in {"mint", "burn", "transfer", "add", "remove"}
        BY <3>1 DEF Wnok
      <4> QED BY <4>1, <4>2 DEF MoneyCalls
    <3>2. ASSUME kind \in DOMAIN TbdCalls PROVE FirstCall(kind) \in DepositCalls
      <4>1. FirstCall(kind) = TbdCalls[kind]
        BY <3>2, KindDomains DEF FirstCall
      <4>2. TbdCalls[kind] \in {"tbdMint", "tbdBurn", "tbdTransfer", "tbdAdd", "tbdRemove"}
        BY <3>2 DEF TbdCalls
      <4> QED BY <4>1, <4>2 DEF DepositCalls, DepositMoves
    <3> QED BY <1>3, <3>1, <3>2, ReachOf
  <2>2. ChangedResources(kind) = all
    <3>1. kind \notin {"AUCTION_FINALISE", "COUPON_PAYMENT", "BID_SUBMISSION", "BANK_CREATE"}
      BY <1>3, KindDomains
    <3> QED BY <1>3, <3>1 DEF ChangedResources
  <2> QED BY <2>1, <2>2
<1> QED BY <1>1, <1>2, <1>3 DEF Kinds, Managed, Unrecorded

LEMMA PromisedBank ==
    ASSUME NEW fn \in {"deployTbd", "setContract", "add"}, NEW x \in Reach(fn)
    PROVE  x \in ChangedResources("BANK_CREATE") /\ fn \in {"setContract", "add"}
<1>1. ChangedResources("BANK_CREATE") = {"banking", "registry", "central-bank"}
  BY KindDomains DEF ChangedResources
<1> QED BY <1>1, ReachOf

-----------------------------------------------------------------------------
(* The invariant                                                            *)

\* A transaction in the pool is one that its request makes.
Allowed(r, call) ==
    /\ requests[r].op.kind \in Kinds \ Unrecorded
    /\ One(r) => call.fn = FirstCall(requests[r].op.kind)
    /\ ~One(r) => call.fn \in {"deployTbd", "setContract", "add"}
    /\ call.fn = "setContract" => call.tbd \in 0 .. Contracts(Len(blocks))
PoolInv == \A tx \in pool : tx.req \in Requests /\ Allowed(tx.req, tx.call)

\* Request r has yet to announce s: it has found its bidder and composes its answer; its
\* transaction was mined and it waits for the receipt; or it creates a bank, and has not
\* come to an end that announces.
Owes(r, s) ==
    \/ s = <<"bidders", "row">> /\ requests[r].step = "composing"
    \/ /\ One(r) /\ s[1] \in ChangedResources(requests[r].op.kind) /\ requests[r].step = "sent"
       /\ \E b \in DOMAIN blocks : blocks[b].tx = Transaction(r) /\ blocks[b].error = "none"
    \/ /\ ~One(r) /\ s[1] \in ChangedResources("BANK_CREATE") /\ s[2] \in {"setContract", "add"}
       /\ \/ requests[r].step \in {"planned", "prepared", "sent"}
          \/ requests[r].step = "answered" /\ requests[r].answer = 500

\* Nobody announces the time that passes and the reserves that bond operations move.
Unannounced(s) ==
    \/ s = <<"bonds", "time">>
    \/ s[1] = "banking" /\ s[2] \in {"finaliseAuction", "payCoupon"}

StaleInv ==
    faults = 0 => /\ \A r \in Requests : requests[r].step # "lost"
                  /\ \A s \in stale : Unannounced(s) \/ \E r \in Requests : Owes(r, s)

AnnouncedInv == PoolInv /\ Resolves(HeadState) /\ StaleInv

\* A request that signs makes a transaction of its own.
LEMMA SignsItsOwn ==
    ASSUME IInv, RecordInv, OutcomeInv, NEW r \in Requests, requests[r].step \in Signing
    PROVE  Allowed(r, requests[r].call)
<1> DEFINE call == requests[r].call
           kind == requests[r].op.kind
<1>1. kind \in Kinds \ Unrecorded /\ (One(r) => call.fn = FirstCall(kind))
  BY DEF OutcomeInv, Begun, IInv, RequestInv, Known
<1>2. ~One(r) => Calling(r)
  BY DEF OutcomeInv, Founding
<1>3. ASSUME One(r) PROVE call.fn # "setContract"
  BY <1>1, <1>3, OthersFirstCall DEF One
<1>4. ASSUME ~One(r), call.fn = "setContract" PROVE call.tbd \in 0 .. Contracts(Len(blocks))
  <2>1. call.tbd = requests[r].tbd
    BY <1>2, <1>4 DEF Calling
  <2>2. requests[r].tbd # 0
    BY <1>4 DEF RecordInv, Called
  <2>3. PICK b \in DOMAIN blocks : Deploys(b) /\ requests[r].tbd = Contracts(b)
    BY <2>2 DEF RecordInv, Banked, Contracted
  <2>4. 0 < Contracts(b) /\ Contracts(b) <= Contracts(Len(blocks))
    BY <2>3 DEF RecordInv, MarketInv
  <2>5. HasContracts(blocks[b].state) /\ HasContracts(blocks[Len(blocks)].state)
    BY DEF RecordInv, MarketInv, IInv, ChainInv
  <2>6. Contracts(b) \in Nat /\ Contracts(Len(blocks)) \in Nat
    BY <2>5 DEF Contracts, HasContracts
  <2> QED BY <2>1, <2>3, <2>4, <2>6
<1> QED BY <1>1, <1>2, <1>3, <1>4 DEF Allowed, Calling

\* The contracts of the chain grow in number.
LEMMA ContractsGrow ==
    ASSUME RecordInv, IInv, NEW block, Grows(block), RecordInv', IInv'
    PROVE  /\ Contracts(Len(blocks)) \in Nat /\ Contracts(Len(blocks))' \in Nat
           /\ Contracts(Len(blocks)) <= Contracts(Len(blocks))'
           /\ Contracts(Len(blocks)) = Len(HeadState.tbds) /\ Contracts(Len(blocks))' = Len(block.state.tbds)
           /\ HasContracts(HeadState) /\ HasContracts(block.state)
<1>0. PICK n : n = Len(blocks) + 1
  OBVIOUS
<1>1. /\ Len(blocks) \in DOMAIN blocks /\ n \in DOMAIN blocks' /\ Len(blocks') = n /\ blocks'[n] = block
      /\ HeadState = blocks[Len(blocks)].state
  BY <1>0, GrowsFacts
<1>2. HasContracts(HeadState) /\ HasContracts(block.state)
  BY <1>1 DEF RecordInv, MarketInv
<1>3. Contracts(Len(blocks)) = Len(HeadState.tbds) /\ Contracts(Len(blocks))' = Len(block.state.tbds)
  BY <1>1 DEF Contracts
<1>4. PICK s, u : s = HeadState.tbds /\ u = block.state.tbds
  OBVIOUS
<1>5. s \in Seq(Range(s)) /\ u \in Seq(Range(u)) /\ Retained(s, u)
  BY <1>2, <1>4 DEF HasContracts, Grows, Added
<1>6. Len(s) \in Nat /\ Len(u) \in Nat /\ Len(s) <= Len(u)
  <2>1. Len(s) \in Nat /\ Len(u) \in Nat /\ DOMAIN s = 1 .. Len(s) /\ DOMAIN u = 1 .. Len(u)
    BY <1>5
  <2>2. Len(s) # 0 => Len(s) \in DOMAIN s
    BY <2>1
  <2>3. Len(s) # 0 => Len(s) \in DOMAIN u
    BY <1>5, <2>2 DEF Retained
  <2> QED BY <2>1, <2>3
<1> QED BY <1>2, <1>3, <1>4, <1>6

\* Blocks that are added resolve the names they register.
LEMMA GrowsPool ==
    ASSUME RecordInv, IInv, RecordInv', IInv', PoolInv, Resolves(HeadState), NEW block, Grows(block)
    PROVE  PoolInv' /\ Resolves(HeadState)'
<1> DEFINE c == Contracts(Len(blocks))
<1>1. /\ c \in Nat /\ c' \in Nat /\ c <= c'
      /\ c = Len(HeadState.tbds) /\ c' = Len(block.state.tbds)
  BY ContractsGrow
<1>2. requests' = requests /\ Requests' = Requests /\ pool' \subseteq pool
  BY DEF Grows, Requests
<1> HIDE DEF c
<1>3. PoolInv'
  <2> SUFFICES ASSUME NEW tx \in pool' PROVE tx.req \in Requests /\ Allowed(tx.req, tx.call)'
    BY <1>2 DEF PoolInv
  <2>1. tx.req \in Requests /\ Allowed(tx.req, tx.call)
    BY <1>2 DEF PoolInv
  <2>2. 0 .. c \subseteq 0 .. c'
    BY <1>1
  <2> QED BY <1>2, <2>1, <2>2 DEF Allowed, One, c
<1>4. HeadState' = block.state
  <2>1. PICK n : n = Len(blocks) + 1
    OBVIOUS
  <2> QED BY <2>1, GrowsFacts
<1> DEFINE old == HeadState.registry
           new == block.state.registry
           set == Took(block) /\ block.tx.call.fn = "setContract"
<1>5. \A n \in Names : old[n] \in 0 .. c
  BY <1>1 DEF Resolves
<1>6. CASE ~set
  <2>1. new = old
    BY <1>6 DEF Grows, Added
  <2> HIDE DEF new, old
  <2>2. \A n \in Names : new[n] \in 0 .. c'
    BY <1>1, <1>5, <2>1
  <2> QED BY <1>1, <1>3, <1>4, <2>2 DEF Resolves, new
<1>7. CASE set
  <2> DEFINE name == block.tx.call.name
             tbd  == block.tx.call.tbd
  <2>1. new = [old EXCEPT ![name] = tbd]
    BY <1>7 DEF Grows, Added
  <2>2. block.tx \in pool
    BY <1>7 DEF Grows, Added, Took
  <2>3. tbd \in 0 .. c
    BY <1>7, <2>2 DEF PoolInv, Allowed, c
  <2>4. DOMAIN old = Names \/ \A n \in Names : new[n] \in {old[n], tbd}
    BY <2>1
  <2> HIDE DEF new, old, name, tbd
  <2>5. \A n \in Names : new[n] \in {old[n], tbd}
    BY <2>1, <2>4
  <2>6. \A n \in Names : new[n] \in 0 .. c'
    BY <1>1, <1>5, <2>3, <2>5
  <2> QED BY <1>1, <1>3, <1>4, <2>6 DEF Resolves, new
<1> QED BY <1>6, <1>7

\* A request that moves keeps its operation, and sends what it may.
LEMMA MovesPool ==
    ASSUME RecordInv, IInv, OutcomeInv, PoolInv, Resolves(HeadState), ChainMoves, Requests' = Requests,
           \A r \in Requests : Moves(r)
    PROVE  PoolInv' /\ Resolves(HeadState)'
<1>1. blocks' = blocks /\ Resolves(HeadState)'
  BY DEF ChainMoves, Resolves, HeadState
<1>2. \A r \in Requests : requests'[r].op = requests[r].op
  BY DEF Moves, Keeps, SameTask, Plans, Checks, Continues
<1>3. \A r \in Requests : \A call : Allowed(r, call) => Allowed(r, call)'
  BY <1>1, <1>2 DEF Allowed, One, Contracts
<1>4. SUFFICES ASSUME NEW tx \in pool' PROVE tx.req \in Requests /\ Allowed(tx.req, tx.call)'
  BY <1>1 DEF PoolInv
<1>5. CASE tx \in pool
  BY <1>3, <1>5 DEF PoolInv
<1>6. CASE tx \notin pool
  <2>1. PICK r \in Requests : Sends(r)
    BY <1>6 DEF ChainMoves
  <2>2. tx = Transaction(r) /\ requests[r].step \in Signing
    BY <1>6, <2>1 DEF Sends
  <2>3. Allowed(r, requests[r].call)
    BY <2>2, SignsItsOwn
  <2>4. tx.req = r /\ tx.call = requests[r].call
    BY <2>2, SentIsTx
  <2> QED BY <1>3, <2>3, <2>4
<1> QED BY <1>5, <1>6

LEMMA StepPool ==
    ASSUME IInv, RecordInv, OutcomeInv, IInv', RecordInv', PoolInv, Resolves(HeadState), [Next]_vars
    PROVE  PoolInv' /\ Resolves(HeadState)'
<1>1. Shape
  BY StepShape
<1>2. CASE ChainMoves /\ \A r \in Requests : Moves(r)
  BY <1>1, <1>2, MovesPool DEF Shape
<1>3. CASE /\ requests' = requests /\ bankRows' = bankRows
           /\ (\E tx \in pool : Mine(tx)) \/ EmptyBlock
  <2>1. \E block : blocks' = Append(blocks, block) /\ Added(block, HeadState) /\ pool' \subseteq pool
    BY <1>3, MineAdds, EmptyBlockAdds
  <2>2. PICK block : Grows(block)
    BY <1>3, <2>1 DEF Grows
  <2> QED BY <2>2, GrowsPool
<1> QED BY <1>1, <1>2, <1>3 DEF Shape

-----------------------------------------------------------------------------
(* Requests that owe an announcement                                        *)

\* Request r takes a step, and the chain and the others do not.
Solo(r) ==
    /\ blocks' = blocks /\ faults' = faults /\ Requests' = Requests
    /\ \A q \in Requests \ {r} : requests'[q] = requests[q]
    /\ requests'[r].op = requests[r].op /\ requests'[r].step # "lost"

LEMMA SoloStale ==
    ASSUME StaleInv, NEW r \in Requests, Solo(r), stale' \subseteq stale,
           \A s \in stale' : Owes(r, s) => Owes(r, s)'
    PROVE  StaleInv'
<1> SUFFICES ASSUME faults = 0
             PROVE  /\ \A q \in Requests' : requests'[q].step # "lost"
                    /\ \A s \in stale' : Unannounced(s) \/ \E q \in Requests' : Owes(q, s)'
  BY DEF StaleInv, Solo, Unannounced
<1>1. \A q \in Requests' : requests'[q].step # "lost"
  BY DEF StaleInv, Solo
<1>2. ASSUME NEW s \in stale', NEW q \in Requests, Owes(q, s) PROVE Owes(q, s)'
  <2>1. CASE q = r
    BY <1>2, <2>1
  <2>2. CASE q # r
    <3>1. requests'[q] = requests[q] /\ blocks' = blocks
      BY <2>2 DEF Solo
    <3>2. One(q)' = One(q) /\ Transaction(q)' = Transaction(q)
      BY <3>1 DEF One, Transaction
    <3> QED BY <1>2, <3>1, <3>2 DEF Owes
  <2> QED BY <2>1, <2>2
<1>3. ASSUME NEW s \in stale' PROVE Unannounced(s) \/ \E q \in Requests' : Owes(q, s)'
  <2>1. Unannounced(s) \/ \E q \in Requests : Owes(q, s)
    BY <1>3 DEF StaleInv
  <2> QED BY <1>2, <2>1 DEF Solo
<1> QED BY <1>1, <1>3

\* But for one that waits for its receipt and one that composes its answer, only a
\* bank creation owes any.
LEMMA OwesNothing ==
    ASSUME NEW r, One(r), requests[r].step \notin {"sent", "composing"}
    PROVE  \A s : ~Owes(r, s)
BY DEF Owes

LEMMA ComposingIsOne ==
    ASSUME RecordInv, NEW r \in Requests, requests[r].step = "composing"
    PROVE  One(r)
BY DEF RecordInv, Called, One, Unrecorded

LEMMA BankOwes ==
    ASSUME NEW r, ~One(r), requests[r].step # "composing", requests'[r].op = requests[r].op,
           \/ requests'[r].step \in {"planned", "prepared", "sent"}
           \/ requests'[r].step = "answered" /\ requests'[r].answer = 500
    PROVE  \A s : Owes(r, s) => Owes(r, s)'
BY DEF Owes, One

\* A request goes to another step.
LEMMA StepStale ==
    ASSUME StaleInv, IInv, RecordInv, NEW r \in Requests, NEW step, Step(r, step), step # "lost",
           UNCHANGED <<blocks, faults, stale>>,
           One(r) => requests[r].step \notin {"sent", "composing"},
           ~One(r) => step \in {"planned", "prepared", "sent"}
    PROVE  StaleInv'
<1>1. Solo(r) /\ requests'[r].step = step
  BY StepFacts DEF IInv, Solo
<1>2. ASSUME One(r) PROVE \A s : Owes(r, s) => Owes(r, s)'
  BY <1>2, OwesNothing
<1>3. ASSUME ~One(r) PROVE \A s : Owes(r, s) => Owes(r, s)'
  <2>1. requests[r].step # "composing"
    BY <1>3, ComposingIsOne
  <2> QED BY <1>1, <1>3, <2>1, BankOwes DEF Solo
<1> QED BY <1>1, <1>2, <1>3, SoloStale

\* A request is answered: a bank creation that may owe an announcement, with 500.
LEMMA AnswerStale ==
    ASSUME StaleInv, IInv, RecordInv, NEW r \in Requests, NEW code, Answer(r, code),
           blocks' = blocks, faults' = faults, stale' \subseteq stale,
           One(r) => \A s \in stale' : ~Owes(r, s),
           ~One(r) => code = 500 \/ \A s \in stale' : ~Owes(r, s)
    PROVE  StaleInv'
<1>1. Solo(r) /\ requests'[r].step = "answered" /\ requests'[r].answer = code
  BY AnswerFacts DEF IInv, Solo
<1>2. ASSUME One(r) PROVE \A s \in stale' : Owes(r, s) => Owes(r, s)'
  BY <1>2
<1>3. ASSUME ~One(r) PROVE \A s \in stale' : Owes(r, s) => Owes(r, s)'
  <2>1. requests[r].step # "composing"
    BY <1>3, ComposingIsOne
  <2> QED BY <1>1, <1>3, <2>1, BankOwes DEF Solo
<1> QED BY <1>1, <1>2, <1>3, SoloStale

\* A request that has not got as far
LEMMA EarlyOwesNothing ==
    ASSUME NEW r, requests[r].step \in {"arrived", "simulated", "queued", "mined", "checked"}
    PROVE  \A s : ~Owes(r, s)
BY DEF Owes

LEMMA ArriveStale ==
    ASSUME StaleInv, IInv, RecordInv, NEW r \in Requests, Arrive(r)
    PROVE  StaleInv'
<1> DEFINE plan == Plan(Here, requests[r].op)
           q    == requests[r]
<1>1. UNCHANGED <<blocks, faults, stale>> /\ \A s : ~Owes(r, s)
  BY EarlyOwesNothing DEF Arrive, OfChain
<1>2. CASE plan.answer # 0
  <2>1. Answer(r, plan.answer)
    BY <1>2 DEF Arrive
  <2> HIDE DEF plan
  <2> QED BY <1>1, <2>1, AnswerStale
<1>3. CASE plan.answer = 0
  <2>1. requests' = [requests EXCEPT ![r].step = "planned", ![r].read = Len(blocks), ![r].seen = projected,
                                     ![r].key = plan.key, ![r].call = plan.call]
    BY <1>3 DEF Arrive
  <2> DEFINE next == [q EXCEPT !.step = "planned", !.read = Len(blocks), !.seen = projected,
                               !.key = plan.key, !.call = plan.call]
  <2> HIDE DEF plan
  <2>2. requests' = [requests EXCEPT ![r] = next]
    BY <2>1
  <2>3. q = Fields(q)
    BY DEF IInv, RequestInv
  <2> HIDE DEF q
  <2>4. next.op = q.op /\ next.step = "planned"
    BY <2>3 DEF Fields
  <2> HIDE DEF next
  <2>5. Solo(r)
    BY <1>1, <2>2, <2>4 DEF Solo, Requests, q
  <2> QED BY <1>1, <2>5, SoloStale
<1> QED BY <1>2, <1>3

LEMMA SimulateStale ==
    ASSUME StaleInv, IInv, RecordInv, NEW r \in Requests, Simulate(r)
    PROVE  StaleInv'
<1> DEFINE error == Error(HeadState, Admin, requests[r].call, HeadState.time)
<1>1. UNCHANGED <<blocks, faults, stale>> /\ requests[r].step = "planned" /\ requests[r].op.kind \in Simulated
  BY DEF Simulate, OfChain
<1>2. One(r) /\ \A s : ~Owes(r, s)
  BY <1>1, OwesNothing DEF One, Simulated
<1>3. Step(r, "simulated") \/ Answer(r, SimulationAnswer(requests[r].op.kind, error))
  BY DEF Simulate
<1> HIDE DEF error
<1>4. CASE Step(r, "simulated")
  BY <1>1, <1>2, <1>4, StepStale
<1>5. CASE Answer(r, SimulationAnswer(requests[r].op.kind, error))
  BY <1>1, <1>2, <1>5, AnswerStale
<1> QED BY <1>3, <1>4, <1>5

LEMMA EnqueueStale ==
    ASSUME StaleInv, IInv, RecordInv, NEW r \in Requests, Enqueue(r)
    PROVE  StaleInv'
<1>1. /\ UNCHANGED <<blocks, faults, stale>> /\ requests[r].step \in {"simulated", "planned"}
      /\ requests[r].op.kind \in Managed /\ Step(r, "queued")
  BY DEF Enqueue, OfChain
<1>2. One(r)
  BY <1>1 DEF One, Managed
<1> QED BY <1>1, <1>2, StepStale

\* A refused bank creation is answered 500, as is one that fails.
LEMMA FailStale ==
    ASSUME StaleInv, IInv, RecordInv, NEW r \in Requests, NEW status, NEW code, Fail(r, status, code),
           UNCHANGED <<blocks, faults, stale>>,
           One(r) => \A s \in stale : ~Owes(r, s),
           ~One(r) => code = 500
    PROVE  StaleInv'
<1>1. Answer(r, code)
  BY DEF Fail
<1> QED BY <1>1, AnswerStale

LEMMA PrepareStale ==
    ASSUME StaleInv, IInv, RecordInv, NEW r \in Requests, Prepare(r)
    PROVE  StaleInv'
<1> DEFINE q     == requests[r]
           kind  == q.op.kind
           error == IF q.forced THEN "none" ELSE Error(HeadState, q.key, q.call, HeadState.time)
<1>1. UNCHANGED <<blocks, faults, stale>>
  BY DEF Prepare, OfChain
<1>2. q.step \in {"queued", "planned"} /\ q = Fields(q)
  BY DEF Prepare, MySend, IInv, RequestInv
<1>3. One(r) => \A s : ~Owes(r, s)
  BY <1>2, OwesNothing
<1>4. CASE error = "none"
  <2> DEFINE nonce == NextNonce(q)
             next  == [q EXCEPT !.step = "prepared", !.nonce = nonce]
  <2>1. requests' = [requests EXCEPT ![r].step = "prepared", ![r].nonce = nonce]
    BY <1>4 DEF Prepare
  <2> HIDE DEF nonce
  <2>2. requests' = [requests EXCEPT ![r] = next]
    BY <2>1
  <2> HIDE DEF q
  <2>3. next.op = q.op /\ next.step = "prepared"
    BY <1>2 DEF Fields
  <2> HIDE DEF next
  <2>4. Solo(r) /\ requests'[r].step = "prepared"
    BY <1>1, <2>2, <2>3 DEF Solo, Requests, q
  <2>5. ~One(r) => \A s : Owes(r, s) => Owes(r, s)'
    BY <1>2, <2>4, BankOwes DEF Solo, q
  <2> QED BY <1>1, <1>3, <2>4, <2>5, SoloStale
<1>5. CASE error # "none" /\ SentAnyway(q.op, error)
  <2> DEFINE next == [q EXCEPT !.step = "planned", !.forced = TRUE]
  <2>1. requests' = [requests EXCEPT ![r].step = "planned", ![r].forced = TRUE]
    BY <1>5 DEF Prepare, Refused
  <2>2. requests' = [requests EXCEPT ![r] = next]
    BY <2>1
  <2>3. One(r)
    BY <1>5 DEF SentAnyway, One
  <2> HIDE DEF q
  <2>4. next.op = q.op /\ next.step = "planned"
    BY <1>2 DEF Fields
  <2> HIDE DEF next
  <2>5. Solo(r)
    BY <1>1, <2>2, <2>4 DEF Solo, Requests, q
  <2> QED BY <1>1, <1>3, <2>3, <2>5, SoloStale
<1>6. CASE error # "none" /\ ~SentAnyway(q.op, error)
  <2>1. Fail(r, EstimateStatus(kind), EstimateAnswer(kind))
    BY <1>6 DEF Prepare, Refused
  <2>2. ~One(r) => EstimateAnswer(kind) = 500
    BY DEF One, EstimateAnswer, Decoding
  <2> QED BY <1>1, <1>3, <2>1, <2>2, FailStale
<1> QED BY <1>4, <1>5, <1>6

LEMMA BroadcastStale ==
    ASSUME StaleInv, IInv, RecordInv, NEW r \in Requests, Broadcast(r)
    PROVE  StaleInv'
<1>1. UNCHANGED <<blocks, faults, stale>> /\ requests[r].step = "prepared"
  BY DEF Broadcast, OfRows
<1>2. One(r) => \A s : ~Owes(r, s)
  BY <1>1, OwesNothing
<1>3. Step(r, "sent") \/ Fail(r, "FAILED", 500)
  BY DEF Broadcast
<1>4. CASE Step(r, "sent")
  BY <1>1, <1>4, StepStale
<1>5. CASE Fail(r, "FAILED", 500)
  BY <1>1, <1>2, <1>5, FailStale
<1> QED BY <1>3, <1>4, <1>5

\* A receipt: of a success what was owed is announced, after a revert nothing was owed,
\* and a bank creation goes on or ends.
LEMMA SucceedStale ==
    ASSUME StaleInv, IInv, RecordInv, NEW r \in Requests, requests[r].step = "sent", One(r), NEW b,
           Succeed(r, b), UNCHANGED <<blocks, faults>>
    PROVE  StaleInv'
<1> DEFINE q    == requests[r]
           kind == q.op.kind
           code == IF kind = "BOND_DISABLE" THEN 204 ELSE 200
<1>1. stale' = Announced(ChangedResources(kind))
  BY DEF Succeed
<1>2. stale' \subseteq stale /\ \A s \in stale' : ~Owes(r, s)
  BY <1>1 DEF Announced, Owes
<1>3. CASE kind \in Awaiting
  <2> DEFINE next == [q EXCEPT !.step = "mined", !.block = b]
  <2>1. requests' = [requests EXCEPT ![r].step = "mined", ![r].block = b]
    BY <1>3 DEF Succeed
  <2>2. requests' = [requests EXCEPT ![r] = next]
    BY <2>1
  <2>3. q = Fields(q)
    BY DEF IInv, RequestInv
  <2> HIDE DEF q
  <2>4. next.op = q.op /\ next.step = "mined"
    BY <2>3 DEF Fields
  <2> HIDE DEF next
  <2>5. Solo(r)
    BY <2>2, <2>4 DEF Solo, Requests, q
  <2> QED BY <1>2, <2>5, SoloStale
<1>4. CASE kind \notin Awaiting
  <2>1. Answer(r, code)
    BY <1>4 DEF Succeed
  <2> HIDE DEF code
  <2> QED BY <1>2, <2>1, AnswerStale
<1> QED BY <1>3, <1>4

LEMMA ContinueStale ==
    ASSUME StaleInv, IInv, RecordInv, NEW r \in Requests, requests[r].step = "sent", ~One(r), NEW b,
           Continue(r, b), UNCHANGED <<blocks, faults>>
    PROVE  StaleInv'
<1> DEFINE q    == requests[r]
           next == NextBankCall(q, b)
           tbd  == IF q.call.fn = "deployTbd" THEN next.tbd ELSE q.tbd
           row  == [name |-> q.op.name, key |-> q.op.key, tbd |-> tbd]
<1>1. CASE next # NoCall
  <2> DEFINE goes == [q EXCEPT !.step = "planned", !.call = next, !.key = CentralBank, !.tbd = tbd]
  <2>1. /\ requests' = [requests EXCEPT ![r].step = "planned", ![r].call = next,
                                        ![r].key = CentralBank, ![r].tbd = tbd]
        /\ stale' = stale
    BY <1>1 DEF Continue
  <2> HIDE DEF tbd, next
  <2>2. requests' = [requests EXCEPT ![r] = goes]
    BY <2>1
  <2>3. q = Fields(q)
    BY DEF IInv, RequestInv
  <2> HIDE DEF q
  <2>4. goes.op = q.op /\ goes.step = "planned"
    BY <2>3 DEF Fields
  <2> HIDE DEF goes
  <2>5. Solo(r) /\ requests'[r].step = "planned"
    BY <2>2, <2>4 DEF Solo, Requests, q
  <2>6. \A s : Owes(r, s) => Owes(r, s)'
    BY <2>5, BankOwes DEF Solo
  <2> QED BY <2>1, <2>5, <2>6, SoloStale
<1>2. CASE next = NoCall
  <2>1. Created(r, row)
    BY <1>2 DEF Continue
  <2> HIDE DEF row
  <2>2. CASE Duplicate(row)
    <3>1. Fail(r, "FAILED", 500) /\ stale' = stale
      BY <2>1, <2>2 DEF Created
    <3> QED BY <3>1, FailStale
  <2>3. CASE ~Duplicate(row)
    <3>1. Answer(r, 200) /\ stale' = Announced(ChangedResources("BANK_CREATE"))
      BY <2>1, <2>3 DEF Created
    <3>2. stale' \subseteq stale /\ \A s \in stale' : ~Owes(r, s)
      BY <3>1 DEF Announced, Owes
    <3> QED BY <3>1, <3>2, AnswerStale
  <2> QED BY <2>2, <2>3
<1> QED BY <1>1, <1>2

LEMMA ConfirmStale ==
    ASSUME StaleInv, IInv, RecordInv, NEW r \in Requests, Confirm(r)
    PROVE  StaleInv'
<1>1. UNCHANGED <<blocks, faults>> /\ requests[r].step = "sent"
  BY DEF Confirm, OfChain
<1>2. PICK b \in DOMAIN blocks :
        /\ blocks[b].tx = Transaction(r)
        /\ IF blocks[b].error # "none"
             THEN Fail(r, "REVERTED", 500) /\ UNCHANGED <<bankRows, stale>>
             ELSE IF requests[r].op.kind = "BANK_CREATE" THEN Continue(r, b) ELSE Succeed(r, b)
  BY DEF Confirm
<1>3. CASE blocks[b].error # "none"
  <2>1. Fail(r, "REVERTED", 500) /\ stale' = stale
    BY <1>2, <1>3
  <2>2. ASSUME One(r) PROVE \A s \in stale : ~Owes(r, s)
    <3>1. Mined(r) = {b}
      BY <1>1, <1>2, <2>2, Receipt
    <3>2. \A a \in DOMAIN blocks : blocks[a].tx = Transaction(r) => a = b
      BY <3>1, SentIsTx DEF Mined
    <3> QED BY <1>1, <1>3, <2>2, <3>2 DEF Owes
  <2> QED BY <1>1, <2>1, <2>2, FailStale
<1>4. CASE blocks[b].error = "none" /\ ~One(r)
  <2>1. Continue(r, b)
    BY <1>2, <1>4 DEF One
  <2> QED BY <1>1, <1>4, <2>1, ContinueStale
<1>5. CASE blocks[b].error = "none" /\ One(r)
  <2>1. Succeed(r, b)
    BY <1>2, <1>5 DEF One
  <2> QED BY <1>1, <1>5, <2>1, SucceedStale
<1> QED BY <1>3, <1>4, <1>5

LEMMA AnswerMinedStale ==
    ASSUME StaleInv, IInv, RecordInv, NEW r \in Requests, AnswerMined(r)
    PROVE  StaleInv'
<1>1. UNCHANGED <<blocks, faults, stale>> /\ \A s : ~Owes(r, s)
  BY EarlyOwesNothing DEF AnswerMined, OfChain
<1>2. \E code : Answer(r, code)
  BY DEF AnswerMined
<1>3. PICK code : Answer(r, code)
  BY <1>2
<1> QED BY <1>1, <1>3, AnswerStale

\* The requests about bidders
LEMMA CreateBidderStale ==
    ASSUME StaleInv, IInv, RecordInv, NEW r \in Requests, CreateBidder(r)
    PROVE  StaleInv'
<1> DEFINE row == <<"bidders", "row">>
<1>1. UNCHANGED <<blocks, faults>> /\ \A s : ~Owes(r, s)
  BY EarlyOwesNothing DEF CreateBidder, OfChain
<1>2. CASE Answer(r, 409) /\ stale' = stale
  BY <1>1, <1>2, AnswerStale
<1>3. CASE Step(r, "composing") /\ stale' = stale \cup {row}
  <2>1. Solo(r) /\ requests'[r].step = "composing"
    BY <1>1, <1>3, StepFacts DEF IInv, Solo
  <2> SUFFICES ASSUME faults = 0
               PROVE  /\ \A q \in Requests' : requests'[q].step # "lost"
                      /\ \A s \in stale' : Unannounced(s) \/ \E q \in Requests' : Owes(q, s)'
    BY <2>1 DEF StaleInv, Solo, Unannounced
  <2>2. \A q \in Requests' : requests'[q].step # "lost"
    BY <2>1 DEF StaleInv, Solo
  <2>3. Owes(r, row)'
    BY <2>1 DEF Owes
  <2>4. ASSUME NEW s \in stale, NEW q \in Requests, Owes(q, s) PROVE Owes(q, s)'
    <3>1. q # r
      BY <1>1, <2>4
    <3>2. requests'[q] = requests[q] /\ blocks' = blocks
      BY <2>1, <3>1 DEF Solo
    <3>3. One(q)' = One(q) /\ Transaction(q)' = Transaction(q)
      BY <3>2 DEF One, Transaction
    <3> QED BY <2>4, <3>2, <3>3 DEF Owes
  <2>5. ASSUME NEW s \in stale PROVE Unannounced(s) \/ \E q \in Requests : Owes(q, s)'
    <3>1. Unannounced(s) \/ \E q \in Requests : Owes(q, s)
      BY DEF StaleInv
    <3> QED BY <2>4, <3>1
  <2>6. Requests' = Requests
    BY <2>1 DEF Solo
  <2> HIDE DEF row
  <2> QED BY <1>3, <2>2, <2>3, <2>5, <2>6
<1>4. \/ Answer(r, 409) /\ stale' = stale
      \/ Step(r, "composing") /\ stale' = stale \cup {row}
  BY DEF CreateBidder
<1> QED BY <1>2, <1>3, <1>4

LEMMA BidderStale ==
    ASSUME StaleInv, IInv, RecordInv, NEW r \in Requests,
           AnnounceBidder(r) \/ CheckBidder(r) \/ DeleteBidder(r)
    PROVE  StaleInv'
<1>1. CASE AnnounceBidder(r)
  <2>1. /\ blocks' = blocks /\ faults' = faults /\ requests[r].step = "composing"
        /\ stale' = Announced({"bidders"}) /\ Answer(r, 200)
    BY <1>1 DEF AnnounceBidder, OfChain
  <2>2. stale' \subseteq stale /\ \A s \in stale' : ~Owes(r, s)
    <3>1. stale' \subseteq stale /\ \A s \in stale' : s # <<"bidders", "row">>
      BY <2>1 DEF Announced
    <3> QED BY <2>1, <3>1 DEF Owes
  <2>3. One(r)
    BY <2>1, ComposingIsOne
  <2> QED BY <2>1, <2>2, <2>3, AnswerStale
<1>2. CASE CheckBidder(r)
  <2> DEFINE q == requests[r]
             next == [q EXCEPT !.step = "checked", !.read = Len(blocks), !.seen = projected]
  <2>1. UNCHANGED <<blocks, faults, stale>> /\ \A s : ~Owes(r, s)
    BY <1>2, EarlyOwesNothing DEF CheckBidder, OfChain
  <2>2. \/ Answer(r, 404) \/ Answer(r, 409)
        \/ requests' = [requests EXCEPT ![r].step = "checked", ![r].read = Len(blocks), ![r].seen = projected]
    BY <1>2 DEF CheckBidder
  <2>3. CASE Answer(r, 404) \/ Answer(r, 409)
    BY <2>1, <2>3, AnswerStale
  <2>4. CASE requests' = [requests EXCEPT ![r].step = "checked", ![r].read = Len(blocks), ![r].seen = projected]
    <3>1. requests' = [requests EXCEPT ![r] = next]
      BY <2>4
    <3>2. q = Fields(q)
      BY DEF IInv, RequestInv
    <3> HIDE DEF q
    <3>3. next.op = q.op /\ next.step = "checked"
      BY <3>2 DEF Fields
    <3> HIDE DEF next
    <3>4. Solo(r)
      BY <2>1, <3>1, <3>3 DEF Solo, Requests, q
    <3> QED BY <2>1, <3>4, SoloStale
  <2> QED BY <2>2, <2>3, <2>4
<1>3. CASE DeleteBidder(r)
  <2>1. /\ blocks' = blocks /\ faults' = faults /\ \A s : ~Owes(r, s)
        /\ stale' \subseteq stale
        /\ Answer(r, 204) \/ Answer(r, 404)
    BY <1>3, EarlyOwesNothing DEF DeleteBidder, OfChain, Announced
  <2> QED BY <2>1, AnswerStale
<1> QED BY <1>1, <1>2, <1>3

-----------------------------------------------------------------------------
(* The chain, the projection and the clock                                  *)

\* No request moves; blocks may be added.
LEMMA RestStale ==
    ASSUME StaleInv, UNCHANGED <<requests, faults>>,
           \A b \in DOMAIN blocks : b \in DOMAIN blocks' /\ blocks'[b] = blocks[b],
           \A s \in stale' : s \in stale \/ Unannounced(s) \/ \E q \in Requests : Owes(q, s)'
    PROVE  StaleInv'
<1>1. Requests' = Requests
  BY DEF Requests
<1>2. ASSUME NEW s, NEW q \in Requests, Owes(q, s) PROVE Owes(q, s)'
  <2>1. requests'[q] = requests[q] /\ One(q)' = One(q) /\ Transaction(q)' = Transaction(q)
    BY DEF One, Transaction
  <2>2. (\E b \in DOMAIN blocks : blocks[b].tx = Transaction(q) /\ blocks[b].error = "none")
          => (\E b \in DOMAIN blocks' : blocks'[b].tx = Transaction(q)' /\ blocks'[b].error = "none")
    BY <2>1
  <2> QED BY <1>2, <2>1, <2>2 DEF Owes
<1> SUFFICES ASSUME faults = 0
             PROVE  /\ \A q \in Requests : requests[q].step # "lost"
                    /\ \A s \in stale' : Unannounced(s) \/ \E q \in Requests : Owes(q, s)'
  BY <1>1 DEF StaleInv, Unannounced
<1>3. \A q \in Requests : requests[q].step # "lost"
  BY DEF StaleInv
<1>4. ASSUME NEW s \in stale' PROVE Unannounced(s) \/ \E q \in Requests : Owes(q, s)'
  <2>1. CASE s \in stale
    <3>1. Unannounced(s) \/ \E q \in Requests : Owes(q, s)
      BY <2>1 DEF StaleInv
    <3> QED BY <1>2, <3>1
  <2> QED BY <2>1
<1> QED BY <1>3, <1>4

LEMMA ProjectStale ==
    ASSUME StaleInv, NEW to, Project(to)
    PROVE  StaleInv'
<1>1. UNCHANGED <<requests, faults, blocks>> /\ stale' \subseteq stale \cup {<<"bonds", "time">>}
  BY DEF Project, Announced
<1>2. \A s \in stale' : s \in stale \/ Unannounced(s)
  BY <1>1 DEF Unannounced
<1> QED BY <1>1, <1>2, RestStale

LEMMA EmptyBlockStale ==
    ASSUME StaleInv, IInv, EmptyBlock
    PROVE  StaleInv'
<1>1. PICK block : blocks' = Append(blocks, block)
  BY DEF EmptyBlock
<1>2. \A b \in DOMAIN blocks : b \in DOMAIN blocks' /\ blocks'[b] = blocks[b]
  BY <1>1, GrownSeq DEF IInv, ChainInv
<1>3. UNCHANGED <<requests, faults, stale>>
  BY DEF EmptyBlock
<1> QED BY <1>2, <1>3, RestStale

\* A fault excuses what is never announced.
LEMMA FaultStale ==
    ASSUME RecordInv, faults' = faults + 1
    PROVE  StaleInv'
<1>1. faults' # 0
  BY DEF RecordInv
<1> QED BY <1>1 DEF StaleInv

\* While nothing fails, a transaction on its way is one its request waits for.
LEMMA PooledIsSent ==
    ASSUME IInv, RecordInv, StaleInv, faults = 0, NEW tx \in pool, tx.req \in Requests
    PROVE  requests[tx.req].step = "sent" /\ tx = Transaction(tx.req)
<1> DEFINE r == tx.req
<1>1. Traced(r) /\ tx \in Pooled(r) /\ requests[r].step # "lost"
  BY DEF RecordInv, Pooled, StaleInv
<1>2. requests[r].step \in Steps
  BY DEF IInv, RequestInv, SoundRequest, Sound
<1>3. requests[r].step \notin Before
  BY <1>1 DEF Traced, Untouched
<1>4. trail[r] # <<"SUCCEEDED">>
  BY <1>1 DEF Traced
<1>5. requests[r].step \notin {"mined", "answered"}
  BY <1>1, <1>4 DEF Traced, Undone
<1>6. requests[r].step = "sent"
  BY <1>1, <1>2, <1>3, <1>5 DEF Steps, Before
<1> QED BY <1>1, <1>6 DEF Traced

\* A call that takes effect is owed the announcement of what it touched.
LEMMA MineStale ==
    ASSUME IInv, RecordInv, OutcomeInv, AnnouncedInv, NEW tx \in pool, Mine(tx)
    PROVE  StaleInv'
<1> DEFINE error   == Error(HeadState, tx.key, tx.call, clock)
           effect  == Effect(HeadState, tx.key, tx.call, clock)
           new     == IF error = "none" THEN effect ELSE HeadState
           state   == [new EXCEPT !.time = clock]
           block   == [state |-> state, tx |-> tx, error |-> error]
           touched == Touched(Here, HeadState, new)
           r       == tx.req
           fn      == tx.call.fn
           n       == Len(blocks) + 1
<1>1. /\ blocks' = Append(blocks, block) /\ UNCHANGED <<requests, faults>>
      /\ stale' = stale \cup (touched \X {fn})
  BY DEF Mine, OfNonce, OfRows
<1>2. r \in Requests /\ Allowed(r, tx.call) /\ fn \in CallNames /\ StaleInv
  BY DEF AnnouncedInv, PoolInv, RecordInv, MarketInv
<1>3. error # "none" => touched = {}
  BY DEF Touched
<1>4. error = "none" => touched \subseteq Reach(fn)
  <2>1. HasContracts(HeadState)
    <3>1. blocks # <<>> /\ Len(blocks) \in DOMAIN blocks
      BY DEF IInv, ChainInv
    <3>2. HeadState = blocks[Len(blocks)].state
      BY DEF HeadState, Last
    <3> QED BY <3>1, <3>2 DEF RecordInv, MarketInv
  <2>2. \A b \in Here.banks : b.name \in Names
    BY DEF Here, OutcomeInv, FoundedInv
  <2>3. Resolves(HeadState)
    BY DEF AnnouncedInv
  <2> DEFINE here == Here  call == tx.call  from == tx.key
  <2>4. touched = Touched(here, HeadState, effect) \/ error # "none"
    OBVIOUS
  <2> HIDE DEF here, call
  <2>5. Touched(here, HeadState, Effect(HeadState, from, call, clock)) \subseteq Reach(call.fn)
    BY <1>2, <2>1, <2>2, <2>3, Reached DEF here, call
  <2> QED BY <2>4, <2>5 DEF call
<1> HIDE DEF touched, new, state, error
<1>5. CASE faults # 0
  BY <1>1, <1>5 DEF StaleInv
<1>6. CASE faults = 0
  <2>1. requests[r].step = "sent" /\ tx = Transaction(r)
    BY <1>2, <1>6, PooledIsSent
  <2>2. /\ \A b \in DOMAIN blocks : b \in DOMAIN blocks' /\ blocks'[b] = blocks[b]
        /\ n \in DOMAIN blocks' /\ blocks'[n] = block
    <3> HIDE DEF block
    <3> QED BY <1>1, GrownSeq DEF IInv, ChainInv
  <2>3. One(r)' = One(r) /\ Transaction(r)' = Transaction(r) /\ requests'[r] = requests[r]
    BY <1>1 DEF One, Transaction
  <2>4. ASSUME NEW x \in touched PROVE Unannounced(<<x, fn>>) \/ Owes(r, <<x, fn>>)'
    <3> DEFINE s == <<x, fn>>  kind == requests[r].op.kind
    <3>1. error = "none" /\ x \in Reach(fn) /\ s[1] = x /\ s[2] = fn
      BY <1>3, <1>4, <2>4
    <3> HIDE DEF s
    <3>2. CASE One(r)
      <4>1. fn = FirstCall(kind) /\ kind \in Kinds \ Unrecorded
        BY <1>2, <3>2 DEF Allowed
      <4>2. x \in ChangedResources(kind) \/ (x = "banking" /\ fn \in {"finaliseAuction", "payCoupon"})
        BY <3>1, <4>1, Promised
      <4>3. CASE x \in ChangedResources(kind)
        <5>1. blocks'[n].tx = Transaction(r)' /\ blocks'[n].error = "none"
          BY <2>1, <2>2, <2>3, <3>1
        <5>2. Owes(r, s)'
          BY <2>1, <2>2, <2>3, <3>1, <3>2, <4>3, <5>1 DEF Owes
        <5> QED BY <5>2 DEF s
      <4>4. CASE x = "banking" /\ fn \in {"finaliseAuction", "payCoupon"}
        <5>1. Unannounced(s)
          BY <3>1, <4>4 DEF Unannounced
        <5> QED BY <5>1 DEF s
      <4> QED BY <4>2, <4>3, <4>4
    <3>3. CASE ~One(r)
      <4>1. fn \in {"deployTbd", "setContract", "add"}
        BY <1>2, <3>3 DEF Allowed
      <4>2. x \in ChangedResources("BANK_CREATE") /\ fn \in {"setContract", "add"}
        BY <3>1, <4>1, PromisedBank
      <4>3. Owes(r, s)'
        BY <2>1, <2>3, <3>1, <3>3, <4>2 DEF Owes
      <4> QED BY <4>3 DEF s
    <3> QED BY <3>2, <3>3
  <2>5. \A s \in stale' : s \in stale \/ Unannounced(s) \/ \E q \in Requests : Owes(q, s)'
    <3> SUFFICES ASSUME NEW s \in stale', s \notin stale
                 PROVE  Unannounced(s) \/ \E q \in Requests : Owes(q, s)'
      OBVIOUS
    <3>1. PICK x \in touched : s = <<x, fn>>
      BY <1>1
    <3>2. Unannounced(s) \/ Owes(r, s)'
      BY <2>4, <3>1
    <3> QED BY <1>2, <3>2
  <2> QED BY <1>1, <1>2, <2>2, <2>5, RestStale
<1> QED BY <1>5, <1>6

-----------------------------------------------------------------------------
(* The theorem                                                              *)

LEMMA InitAnnounced == Init => AnnouncedInv
<1> SUFFICES ASSUME Init PROVE AnnouncedInv
  OBVIOUS
<1>1. PICK scenario \in Scenarios :
        /\ blocks = ToBlocks(scenario.history)
        /\ requests = [r \in DOMAIN scenario.ops |-> Request(scenario.ops[r])]
        /\ pool = {} /\ stale = {}
  BY DEF Init
<1>2. PoolInv
  BY <1>1 DEF PoolInv
<1>3. StaleInv
  <2>1. \A r \in Requests : requests[r].step = "arrived"
    BY <1>1 DEF Requests, Request
  <2> QED BY <1>1, <2>1 DEF StaleInv
<1>4. Resolves(HeadState)
  <2> DEFINE history == scenario.history
  <2>1. /\ history \in Seq(Range(history)) /\ scenario.lag \in 0 .. Len(history) - 1
        /\ \A b \in DOMAIN history : Resolves(history[b])
    BY ScenariosAssumption
  <2>2. Len(history) \in DOMAIN history /\ DOMAIN history = 1 .. Len(history) /\ Len(history) \in Nat
    BY <2>1
  <2>3. blocks = [b \in DOMAIN history |-> [state |-> history[b], tx |-> NoTx, error |-> "none"]]
    BY <1>1 DEF ToBlocks
  <2> HIDE DEF history
  <2>4. Len(blocks) = Len(history) /\ blocks[Len(history)].state = history[Len(history)]
    BY <2>2, <2>3
  <2>5. HeadState = history[Len(history)]
    BY <2>4 DEF HeadState, Last
  <2> QED BY <2>1, <2>2, <2>5
<1> QED BY <1>2, <1>3, <1>4 DEF AnnouncedInv

LEMMA StepStaleInv == IInv /\ RecordInv /\ OutcomeInv /\ AnnouncedInv /\ [Next]_vars => StaleInv'
<1> SUFFICES ASSUME IInv, RecordInv, OutcomeInv, AnnouncedInv, [Next]_vars PROVE StaleInv'
  OBVIOUS
<1>0. StaleInv
  BY DEF AnnouncedInv
<1>1. ASSUME NEW r \in Requests, Serve(r) \/ LoseConnection(r) PROVE StaleInv'
  <2>1. CASE Arrive(r)          BY <1>0, <2>1, ArriveStale
  <2>2. CASE Simulate(r)        BY <1>0, <2>2, SimulateStale
  <2>3. CASE Enqueue(r)         BY <1>0, <2>3, EnqueueStale
  <2>4. CASE Prepare(r)         BY <1>0, <2>4, PrepareStale
  <2>5. CASE Broadcast(r)       BY <1>0, <2>5, BroadcastStale
  <2>6. CASE Confirm(r)         BY <1>0, <2>6, ConfirmStale
  <2>7. CASE AnswerMined(r)     BY <1>0, <2>7, AnswerMinedStale
  <2>8. CASE CreateBidder(r)    BY <1>0, <2>8, CreateBidderStale
  <2>9. CASE AnnounceBidder(r) \/ CheckBidder(r) \/ DeleteBidder(r)
    BY <1>0, <2>9, BidderStale
  <2>10. CASE LoseConnection(r)
    <3>1. faults' = faults + 1
      BY <2>10 DEF LoseConnection
    <3> QED BY <3>1, FaultStale
  <2> QED BY <1>1, <2>1, <2>2, <2>3, <2>4, <2>5, <2>6, <2>7, <2>8, <2>9, <2>10 DEF Serve
<1>2. ASSUME NEW tx \in pool, Mine(tx) PROVE StaleInv'
  BY <1>2, MineStale
<1>3. ASSUME NEW to \in projected + 1 .. Len(blocks), Project(to) PROVE StaleInv'
  BY <1>0, <1>3, ProjectStale
<1>4. CASE EmptyBlock
  BY <1>0, <1>4, EmptyBlockStale
<1>5. CASE Tick \/ Stop \/ UNCHANGED vars
  <2>1. UNCHANGED <<requests, faults, blocks, stale>>
    BY <1>5 DEF Tick, Stop, vars
  <2> QED BY <1>0, <2>1, RestStale
<1>6. CASE Crash
  <2>1. faults' = faults + 1
    BY <1>6 DEF Crash
  <2> QED BY <2>1, FaultStale
<1> QED BY <1>1, <1>2, <1>3, <1>4, <1>5, <1>6 DEF Next

\* The invariant of what is announced, together with those it rests on.
THEOREM AnnouncedInvariant == Spec => [](IInv /\ RecordInv /\ OutcomeInv /\ AnnouncedInv)
<1> DEFINE Inv == IInv /\ RecordInv /\ OutcomeInv /\ AnnouncedInv
<1>1. Init => AnnouncedInv
  BY InitAnnounced
<1>2. IInv /\ RecordInv /\ OutcomeInv /\ AnnouncedInv /\ IInv' /\ RecordInv' /\ [Next]_vars => AnnouncedInv'
  BY StepPool, StepStaleInv DEF AnnouncedInv
<1>3. Spec => [](IInv /\ RecordInv /\ OutcomeInv)
  BY OutcomeInvariant
<1> QED BY <1>1, <1>2, <1>3, PTL DEF Spec

\* Nothing is owed when every request is answered, but by a bank creation that failed half way.
LEMMA NothingOwed == AnnouncedInv => ChangesAnnounced
<1> SUFFICES ASSUME AnnouncedInv, Finished, faults = 0, NEW s \in stale PROVE Excused(s)
  BY DEF ChangesAnnounced
<1>1. Unannounced(s) \/ \E r \in Requests : Owes(r, s)
  BY DEF AnnouncedInv, StaleInv
<1>2. CASE Unannounced(s)
  BY <1>2 DEF Unannounced, Excused
<1>3. ASSUME NEW r \in Requests, Owes(r, s) PROVE Excused(s)
  <2>1. requests[r].step \in {"answered", "lost"}
    BY DEF Finished
  <2>2. ~One(r) /\ requests[r].answer = 500 /\ s[2] \in {"setContract", "add"}
    BY <1>3, <2>1 DEF Owes
  <2> QED BY <2>2 DEF Excused, HalfCreated, One
<1> QED BY <1>1, <1>2, <1>3

\* Once every request is answered and nothing failed, every change of what the pages read
\* has been announced to the browsers, but for the reserves bond operations move, what only
\* time changes, and a bank creation that failed half way: whatever the requests, the
\* banks and the chain they meet (app.ts:1074-1100, live.ts).
THEOREM AnnouncedTheorem == Spec => []ChangesAnnounced
<1>1. IInv /\ RecordInv /\ OutcomeInv /\ AnnouncedInv => ChangesAnnounced
  BY NothingOwed
<1> QED BY <1>1, AnnouncedInvariant, PTL
=============================================================================
