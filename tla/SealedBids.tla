----------------------------- MODULE SealedBids -----------------------------
(***************************************************************************)
(* How a bid is sealed (bidder-bid.ts, encryption.ts) and opened again     *)
(* (bid.ts).  Cryptography is symbolic: a keypair is one value, a hash is  *)
(* what it is the hash of, and what is wrapped for a key opens with that   *)
(* key and with no other.  Each ciphertext has a fresh symmetric key, so a *)
(* wrap of it is known by its recipient.                                   *)
(***************************************************************************)

\* BidPlaintext; nonce and salt only make the bid unique.
Plaintext(isin, bidder, rate, units, bidderSig) ==
    [isin |-> isin, bidder |-> bidder, rate |-> rate, units |-> units, bidderSig |-> bidderSig]

NoSignature == {}

\* hashBidPlaintext: the signature is no part of what is hashed.
HashBidPlaintext(p) == Plaintext(p.isin, p.bidder, p.rate, p.units, NoSignature)

\* The EIP-712 BidIntent
BidIntent(bidder, auction, hash) == [signer |-> bidder, auction |-> auction, hash |-> hash]

\* wrapKeyForRecipient: by the shared secret of an ephemeral key and the recipient's
WrapKeyForRecipient(recipient) == [opensWith |-> recipient]

\* encryptBid: one symmetric key, wrapped for the auctioneer and for the bidder
EncryptBid(p, auctioneer, bidder) ==
    [wraps |-> [auctioneer |-> WrapKeyForRecipient(auctioneer), bidder |-> WrapKeyForRecipient(bidder)],
     plaintext |-> p]

\* buildSealedBid: hashed, signed, and then encrypted with the signature
BuildSealedBid(bidder, isin, auction, rate, units, auctioneer) ==
    LET staged == Plaintext(isin, bidder, rate, units, NoSignature)
        hash   == HashBidPlaintext(staged)
        signed == Plaintext(isin, bidder, rate, units, {BidIntent(bidder, auction, hash)})
    IN  [bidder |-> bidder, plaintextHash |-> hash,
         ciphertext |-> EncryptBid(signed, auctioneer, bidder)]

-----------------------------------------------------------------------------

Unreadable == [readable |-> FALSE]

\* unwrapKey: authentication fails for any key but the recipient's
Unwraps(key, c, role) == c.wraps[role].opensWith = key

\* decryptBid: the wrap of the preferred role first, then the other
DecryptBid(c, key, preferred) ==
    LET other == IF preferred = "auctioneer" THEN "bidder" ELSE "auctioneer"
    IN  IF \A role \in {preferred, other} : ~Unwraps(key, c, role) THEN Unreadable
        ELSE [readable |-> TRUE, plaintext |-> c.plaintext,
              plaintextHash |-> HashBidPlaintext(c.plaintext),
              usedWrap |-> IF Unwraps(key, c, preferred) THEN preferred ELSE other]

\* What the chain keeps beside the ciphertext agrees with what was in it.
Agrees(isin, bid, opened) ==
    /\ opened.plaintextHash = bid.plaintextHash
    /\ opened.plaintext.isin = isin
    /\ opened.plaintext.bidder = bid.bidder
    /\ opened.plaintext.bidderSig # NoSignature

\* unsealBid, with the private key of the process
UnsealBid(isin, bid, index, key) ==
    LET opened == DecryptBid(bid.ciphertext, key, "auctioneer")
    IN  IF ~opened.readable THEN Unreadable
        ELSE IF ~Agrees(isin, bid, opened) THEN Unreadable
        ELSE [readable |-> TRUE, bidder |-> bid.bidder, rate |-> opened.plaintext.rate,
              units |-> opened.plaintext.units, index |-> index]
=============================================================================
