---------------------------- MODULE MC_Components ----------------------------
(***************************************************************************)
(* The components that share nothing with each other, for TLC in one run:  *)
(* their sum.  part says which of them a behaviour is about; that one runs *)
(* as in its own module, the others stay in an initial state.  A property  *)
(* of a component holds here exactly if it holds of the component alone.   *)
(***************************************************************************)
EXTENDS PositionManager, TickPipeline, OrderBook, LogFiles, ErrorHandler, ZMQBridge, BacktestEngine

VARIABLE part

Parts == {"positions", "pipeline", "book", "log", "errors", "bridge", "backtest"}

sumVars == <<part, vars, pipelineVars, bookVars, logVars, errorVars, bridgeVars, backtestVars>>

\* one initial state of the parts that do not run
SumInit ==
    /\ part \in Parts
    /\ IF part = "pipeline" THEN TRUE ELSE feed = CHOOSE f \in Feeds : TRUE
    /\ IF part = "errors" THEN TRUE ELSE maxHistory = CHOOSE n \in HistorySizes : TRUE
    /\ IF part = "backtest" THEN TRUE ELSE toAdd = CHOOSE l \in LogSets : TRUE
    /\ Init /\ PipelineInit /\ BookInit /\ LogInit /\ ErrorInit /\ BridgeInit /\ BacktestInit

SumNext ==
    \/ /\ part = "positions" /\ Next
       /\ UNCHANGED <<part, pipelineVars, bookVars, logVars, errorVars, bridgeVars, backtestVars>>
    \/ /\ part = "pipeline" /\ PipelineNext
       /\ UNCHANGED <<part, vars, bookVars, logVars, errorVars, bridgeVars, backtestVars>>
    \/ /\ part = "book" /\ BookNext
       /\ UNCHANGED <<part, vars, pipelineVars, logVars, errorVars, bridgeVars, backtestVars>>
    \/ /\ part = "log" /\ LogNext
       /\ UNCHANGED <<part, vars, pipelineVars, bookVars, errorVars, bridgeVars, backtestVars>>
    \/ /\ part = "errors" /\ ErrorNext
       /\ UNCHANGED <<part, vars, pipelineVars, bookVars, logVars, bridgeVars, backtestVars>>
    \/ /\ part = "bridge" /\ BridgeNext
       /\ UNCHANGED <<part, vars, pipelineVars, bookVars, logVars, errorVars, backtestVars>>
    \/ /\ part = "backtest" /\ BacktestNext
       /\ UNCHANGED <<part, vars, pipelineVars, bookVars, logVars, errorVars, bridgeVars>>

SumSpec == SumInit /\ [][SumNext]_sumVars

-----------------------------------------------------------------------------
(* Instances *)

\* averages of these prices are rounded, half the time at a tie
MCFills == [symbol : {"btc"}, side : {"buy", "sell"}, price : {2, 5}, qty : {1, 3}]
           \cup [symbol : {"eth"}, side : {"buy", "sell"}, price : {3}, qty : {0, 2}]

MCLogTypes == <<"tick">>

TicksAt(ts) == [ts : {ts}, side : {"bid"}, price : {1, 3}, qty : {0, 1}]
               \cup [ts : {ts}, side : {"ask"}, price : {3, 5}, qty : {0, 1}]

\* two streams with equal timestamps within and between them, and an empty one
MCLogs == {<<<<a, b, c>>, <<d>>>> : a \in TicksAt(1), b \in TicksAt(2), c \in TicksAt(2),
                                    d \in TicksAt(1) \cup TicksAt(3)}
          \cup {<<<<>>, <<a>>>> : a \in TicksAt(1)}

MCGridPrices == <<1, 2, 4>>
=============================================================================
