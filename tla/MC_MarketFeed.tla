---------------------------- MODULE MC_MarketFeed ----------------------------
(* MarketFeed for TLC. *)
EXTENDS MarketFeed
=============================================================================
