------------------------- MODULE MC_StrategyEngine -------------------------
(* Small instances of StrategyEngine: what the strategies submit and watch. *)
EXTENDS StrategyEngine

\* one order that passes the checks while the position is small, one never
MCOrders == {[symbol |-> "btc", side |-> "buy", price |-> 2, qty |-> 1],
             [symbol |-> "btc", side |-> "buy", price |-> 4, qty |-> 2]}

\* the second strategy watches no symbol, and is called by the timers only
MCSubscribed == <<{"btc"}, {}>>
=============================================================================
