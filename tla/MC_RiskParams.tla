--------------------------- MODULE MC_RiskParams ---------------------------
(* RiskParams for TLC. *)
EXTENDS RiskParams
=============================================================================
