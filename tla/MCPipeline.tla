----------------------------- MODULE MCPipeline -----------------------------
(* TLC instance of Pipeline: every graph of four components with up to three
   connections, self-loops and cycles included; three components share a
   group of two permits. *)
EXTENDS Pipeline

MCGroup == [c \in 1..4 |-> IF c = 2 THEN "slow" ELSE "default"]
=============================================================================
