----------------------------- MODULE MCIngestion -----------------------------
(* Instances of the ingestion for TLC.                                        *)
EXTENDS Ingestion

MCLoops == 1 .. 2
MCLoop  == 1 .. 1
=============================================================================
