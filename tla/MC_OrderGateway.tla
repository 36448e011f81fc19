-------------------------- MODULE MC_OrderGateway --------------------------
(* OrderGateway for TLC. *)
EXTENDS OrderGateway
=============================================================================
