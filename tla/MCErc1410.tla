----------------------------- MODULE MCErc1410 -----------------------------
(* Erc1410 with three partitions, so that swap-and-pop moves an element     *)
(* other than the one removed and other than the only one left.             *)
EXTENDS Erc1410
============================================================================
