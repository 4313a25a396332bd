----------------------------- MODULE Securities -----------------------------
(* The securities the bond contracts speak about.  Every mapping of          *)
(* BondToken, BondAuction and BondManager is keyed by an ISIN, by the hash    *)
(* of one (a partition) or by the hash of one and an index (an auction id).   *)
CONSTANT Isins
=============================================================================
