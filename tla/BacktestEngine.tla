--------------------------- MODULE BacktestEngine ---------------------------
(***************************************************************************)
(* chronos::backtest::BacktestEngine running a GridStrategy on the ticks   *)
(* of a TimeReplayer: one thread, and one step for every tick with all the *)
(* orders and fills it causes.  Fills complete an order at the best price  *)
(* of the other side, in every fill mode, in the tick the order was placed *)
(* in and whatever its limit; prices of orders, profits and metrics change *)
(* nothing else and are left out, and the risk limits are the permissive   *)
(* ones run() sets.  The book of the engine and the one the strategy sees  *)
(* get the same ticks and are one map of levels.                           *)
(***************************************************************************)
EXTENDS TimeReplayer

CONSTANTS GridPrices,    \* prices of the grid's levels, ascending
          TickPrices,    \* prices of the ticks
          OrderQueueCap  \* capacity of order_queue_

ASSUME GridAssumption == GridPrices \in Seq(Nat) /\ TickPrices \subseteq Nat /\ OrderQueueCap \in Nat

VARIABLES sideBook,  \* [side -> set of prices with a quantity]
          grid,      \* [buy, sell: level -> order id or 0; next: next id; queue: orders submitted]
          pending,   \* orders the simulated exchange has: [id, side]
          filledIds, \* ids of the orders filled, in order
          unmatched  \* history: ids of filled orders the strategy did not know

backtestVars == <<replayVars, sideBook, grid, pending, filledIds, unmatched>>

GridLevels == DOMAIN GridPrices
Ids(orders) == {orders[k].id : k \in DOMAIN orders}

-----------------------------------------------------------------------------
(* GridStrategy.  g is the grid with its order queue, as the callbacks find it. *)

\* submitOrder takes an id and returns 0 when the queue is full
Submitted(g, side) ==
    [g EXCEPT !.next = @ + 1,
              !.queue = IF Len(@) < OrderQueueCap THEN Append(@, [id |-> g.next, side |-> side]) ELSE @]
Accepted(g) == Len(g.queue) < OrderQueueCap

\* placeBuyAt, placeSellAt: the level forgets the order it had
PlaceBuyAt(g, i) == IF Accepted(g) THEN [Submitted(g, "buy") EXCEPT !.buy[i] = g.next]
                                   ELSE Submitted(g, "buy")
PlaceSellAt(g, i) == IF Accepted(g) THEN [Submitted(g, "sell") EXCEPT !.sell[i] = g.next]
                                    ELSE Submitted(g, "sell")

BestBid(b) == Max(b["bid"])
BestAsk(b) == Min(b["ask"])
HasMid(b) == b["bid"] # {} /\ b["ask"] # {}

\* the side of the mid price a level is on
Below(b, i) == 2 * GridPrices[i] < BestBid(b) + BestAsk(b)
Above(b, i) == 2 * GridPrices[i] > BestBid(b) + BestAsk(b)

OnTick(g, b) ==
    LET level(h, i) == IF Below(b, i) /\ h.buy[i] = 0 THEN PlaceBuyAt(h, i)
                       ELSE IF Above(b, i) /\ h.sell[i] = 0 THEN PlaceSellAt(h, i) ELSE h
        upTo[i \in 0 .. Len(GridPrices)] == IF i = 0 THEN g ELSE level(upTo[i - 1], i) IN
    IF HasMid(b) THEN upTo[Len(GridPrices)] ELSE g

\* mutant: the level keeps the id of the filled order
OnFill_KeepsId(g, id) ==
    CASE \E i \in GridLevels : g.buy[i] = id ->
             LET i == CHOOSE i \in GridLevels : g.buy[i] = id IN
             IF i + 1 \in GridLevels THEN PlaceSellAt(g, i + 1) ELSE g
      [] \E i \in GridLevels : g.sell[i] = id ->
             LET i == CHOOSE i \in GridLevels : g.sell[i] = id IN
             IF i - 1 \in GridLevels THEN PlaceBuyAt([g EXCEPT !.sell[i] = 0], i - 1)
             ELSE [g EXCEPT !.sell[i] = 0]
      [] OTHER -> g

\* a fill of a buy puts a sell on the level above, one of a sell a buy on the level below
OnFill(g, id) ==
    CASE \E i \in GridLevels : g.buy[i] = id ->
             LET i == CHOOSE i \in GridLevels : g.buy[i] = id
                 h == [g EXCEPT !.buy[i] = 0] IN
             IF i + 1 \in GridLevels THEN PlaceSellAt(h, i + 1) ELSE h
      [] \E i \in GridLevels : g.sell[i] = id ->
             LET i == CHOOSE i \in GridLevels : g.sell[i] = id
                 h == [g EXCEPT !.sell[i] = 0] IN
             IF i - 1 \in GridLevels THEN PlaceBuyAt(h, i - 1) ELSE h
      [] OTHER -> g

Knows(g, id) == \E i \in GridLevels : g.buy[i] = id \/ g.sell[i] = id

-----------------------------------------------------------------------------
(* BacktestEngine: the tick callback *)

\* OrderBookV2::update
BookAfter(b, t) ==
    LET s == IF t.side = "bid" THEN "bid" ELSE "ask" IN
    [b EXCEPT ![s] = IF t.qty > 0 THEN @ \cup {t.price} ELSE @ \ {t.price}]

\* drainOrderQueue appends all of the queue to pending_
DrainOrderQueue(g, p) == [grid |-> [g EXCEPT !.queue = <<>>], pending |-> p \o g.queue]

\* an order waits while the side it takes from is empty
Liquid(b, order) == b[IF order.side = "buy" THEN "ask" ELSE "bid"] # {}

\* simulateFillsForPending: in order; what the fills make the strategy submit stays in the
\* queue until the next tick
SimulateFills(b, s) ==
    LET fill(acc, order) ==
            IF Liquid(b, order)
            THEN [acc EXCEPT !.grid = OnFill(@, order.id), !.filled = Append(@, order.id),
                             !.unknown = IF Knows(acc.grid, order.id) THEN @ ELSE @ \cup {order.id}]
            ELSE [acc EXCEPT !.pending = Append(@, order)]
        upTo[k \in 0 .. Len(s.pending)] ==
            IF k = 0 THEN [grid |-> s.grid, pending |-> <<>>, filled |-> <<>>, unknown |-> {}]
                     ELSE fill(upTo[k - 1], s.pending[k]) IN
    upTo[Len(s.pending)]

TickCallback(t) ==
    LET b == BookAfter(sideBook, t)
        after == SimulateFills(b, DrainOrderQueue(OnTick(grid, b), pending)) IN
    /\ sideBook' = b
    /\ grid' = after.grid /\ pending' = after.pending
    /\ filledIds' = filledIds \o after.filled
    /\ unmatched' = unmatched \cup after.unknown

\* run() starts when the data is set, and ends early if the replayer is paused
Replay == /\ toAdd = <<>>
          /\ \E i \in DOMAIN streams : /\ AdvanceToNextEvent(i)
                                       /\ TickCallback(streams[i][at[i] + 1])

BacktestInit == /\ ReplayInit
                /\ sideBook = [s \in {"bid", "ask"} |-> {}]
                /\ grid = [buy |-> [i \in GridLevels |-> 0], sell |-> [i \in GridLevels |-> 0],
                           next |-> 1, queue |-> <<>>]
                /\ pending = <<>> /\ filledIds = <<>> /\ unmatched = {}

BacktestNext == \/ (AddStream \/ PauseOrResume)
                   /\ UNCHANGED <<sideBook, grid, pending, filledIds, unmatched>>
                \/ Replay

BacktestSpec == BacktestInit /\ [][BacktestNext]_backtestVars

\* Every variable keeps its type.
BacktestTypeOK ==
    /\ ReplayTypeOK
    /\ sideBook \in [{"bid", "ask"} -> SUBSET TickPrices]
    /\ grid.next \in Nat /\ Len(grid.queue) <= OrderQueueCap

(* The grid never waits for an order that is gone: an id on a level is     *)
(* that of an order still in the queue or pending, of the right side, and  *)
(* on no other level.  Every order accepted is in one place, filled at     *)
(* most once, and fills the strategy did not know are of orders whose id a *)
(* later order on the same level replaced, so that they are gone from it.  *)
GridIdsLive ==
    LET open == grid.queue \o pending IN
    /\ \A i \in GridLevels :
          /\ grid.buy[i] # 0 => \E k \in DOMAIN open : open[k] = [id |-> grid.buy[i], side |-> "buy"]
          /\ grid.sell[i] # 0 => \E k \in DOMAIN open : open[k] = [id |-> grid.sell[i], side |-> "sell"]
          /\ \A j \in GridLevels : i # j /\ grid.buy[i] # 0 => grid.buy[i] # grid.buy[j]
          /\ \A j \in GridLevels : i # j /\ grid.sell[i] # 0 => grid.sell[i] # grid.sell[j]
    /\ \A k, l \in DOMAIN filledIds : k # l => filledIds[k] # filledIds[l]
    /\ \A k, l \in DOMAIN open : k # l => open[k].id # open[l].id
    /\ Ids(open) \cap Range(filledIds) = {}
    /\ unmatched \subseteq Range(filledIds) /\ \A id \in unmatched : ~ Knows(grid, id)
=============================================================================
