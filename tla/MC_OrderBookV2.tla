--------------------------- MODULE MC_OrderBookV2 ---------------------------
(* OrderBookV2 for TLC. *)
EXTENDS OrderBookV2
=============================================================================
