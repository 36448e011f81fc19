---------------------------- MODULE MC_MPMCQueue ----------------------------
(* MPMCQueue for TLC: three items for two slots, so that slots are reused. *)
EXTENDS MPMCQueue

MCPushes == [p \in Producers |-> IF p = "p1" THEN 2 ELSE 1]
=============================================================================
