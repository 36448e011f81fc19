--------------------------- MODULE StrategyEngine ---------------------------
(***************************************************************************)
(* chronos::trading::StrategyEngine with what its worker thread drives:    *)
(* StrategyContext, OrderIDGenerator, the checks of RiskEngine::checkOrder *)
(* with the rate limiter, and PositionManager.                             *)
(*                                                                         *)
(* Threads: the worker (run), the controlling thread (start, stop), the    *)
(* gateways (pushTick, popOrder, pushFill).  The three queues are bounded  *)
(* FIFOs, which MPMCQueue is shown to implement.  A strategy is user code: *)
(* in every callback it submits one of the orders of the constant Orders,  *)
(* cancels the last one, or does nothing.  The exchange fills an order it  *)
(* was given completely, at its price, at any later time.                  *)
(***************************************************************************)
EXTENDS Integers, Sequences

CONSTANTS Symbols,
          Orders,          \* the orders strategies submit: [symbol, side, price, qty]
          NumStrategies,   \* strategies registered, with ids 1 .. NumStrategies
          Subscribed,      \* the symbols of each strategy (all of them: a wildcard)
          QueueCap,        \* capacity of the queues
          MaxOrdersPerSecond, MaxOrderValue, MaxPositionValue,
          MaxTotalValue, Capital, MinCapital,    \* RiskParameters and the capital
          MaxTicks,        \* bound: ticks pushed
          MaxRequests,     \* bound: submitOrder and cancelOrder calls
          MaxSecond        \* bound: the clock

Strategies == 1 .. NumStrategies

ASSUME EngineAssumption ==
    /\ \A o \in Orders : /\ o.symbol \in Symbols /\ o.side \in {"buy", "sell"}
                         /\ o.price \in Nat \ {0} /\ o.qty \in Nat \ {0}
    /\ NumStrategies \in Nat /\ Subscribed \in [Strategies -> SUBSET Symbols]
    /\ QueueCap \in Nat \ {0}
    /\ {MaxOrdersPerSecond, MaxOrderValue, MaxPositionValue, MaxTotalValue,
        Capital, MinCapital, MaxTicks, MaxRequests, MaxSecond} \subseteq Nat

VARIABLES tickQ, orderQ, fillQ,  \* tick_queue_, order_queue_, fill_queue_
          open,       \* orders the gateway took and the exchange has not filled
          running,    \* running_
          ctl,        \* controlling thread: next step
          wpc,        \* worker: next step
          didWork,    \* worker: did_work
          calls,      \* callbacks the present loop over the strategies still makes
          current,    \* ctx_.current_strategy_id_
          limiter,    \* current_second_, orders_this_second_
          clock,      \* the second the system clock shows
          nextId,     \* order_id_gen_
          positions, total, file, saving, applied, ledger,   \* position_manager_
          used,       \* ticks pushed and requests made, for the bounds
          told,       \* history: the fills processed, with the strategy onFill was called on
          admitted    \* history: orders submitted in the present second

PM == INSTANCE PositionManager WITH Fills <- Orders, MaxFills <- MaxRequests

queueVars == <<tickQ, fillQ, open>>
threadVars == <<running, ctl, wpc, didWork>>
orderVars == <<orderQ, limiter, nextId, admitted, used>>
bookVars == <<positions, total, file, saving, applied, ledger, told>>
vars == <<queueVars, threadVars, orderVars, bookVars, calls, current, clock>>

Init == /\ tickQ = <<>> /\ orderQ = <<>> /\ fillQ = <<>> /\ open = {}
        /\ running = FALSE /\ ctl = "idle" /\ wpc = "none" /\ didWork = FALSE
        /\ calls = <<>> /\ current = 0
        /\ PM!Init
        /\ limiter = [second |-> 0, count |-> 0] /\ clock = 1
        /\ nextId = 1
        /\ used = [ticks |-> 0, requests |-> 0]
        /\ told = {} /\ admitted = 0

-----------------------------------------------------------------------------
(* RiskEngine::checkOrder *)

\* mutant: the counter restarts with every call
RateLimit_AlwaysResets == [second |-> clock, count |-> 1]

\* checkRateLimitInternal, called by one thread at a time: the state it leaves
RateLimit == [second |-> clock,
              count |-> (IF limiter.second # clock THEN 0 ELSE limiter.count) + 1]

\* fetch_add returned the count before this order
WithinRate == RateLimit.count - 1 < MaxOrdersPerSecond

OrderValueOK(o) == o.price * o.qty <= MaxOrderValue

\* position, total and capital checks
LimitsOK(o) ==
    /\ PM!Abs(PM!PositionOf(o.symbol).qty + PM!Signed(o.side, o.qty)) * o.price <= MaxPositionValue
    /\ total <= MaxTotalValue
    /\ Capital - o.price * o.qty >= MinCapital

-----------------------------------------------------------------------------
(* StrategyContext::submitOrder and cancelOrder, called by strategy `by` *)

CountRequest == /\ used.requests < MaxRequests
                /\ used' = [used EXCEPT !.requests = @ + 1]

\* an order over the value limit is rejected before the rate limiter sees it
RejectOrder(o) ==
    /\ CountRequest
    /\ ~ (OrderValueOK(o) /\ WithinRate /\ LimitsOK(o))
    /\ limiter' = IF OrderValueOK(o) THEN RateLimit ELSE limiter
    /\ UNCHANGED <<orderQ, nextId, admitted>>

\* mutant: the order is stamped with the strategy that was called before
Stamped_Stale(o, by) == [id |-> nextId, order |-> o, strategy |-> current,
                         by |-> by, loop |-> wpc # "none"]

\* by and loop are history: who called submitOrder, and whether the worker did
Stamped(o, by) == [id |-> nextId, order |-> o, strategy |-> current',
                   by |-> by, loop |-> wpc # "none"]

\* the id is taken before try_push, which may find the queue full
AcceptOrder(o, by) ==
    /\ CountRequest
    /\ OrderValueOK(o) /\ WithinRate /\ LimitsOK(o)
    /\ limiter' = RateLimit
    /\ nextId' = nextId + 1
    /\ IF Len(orderQ) < QueueCap
       THEN orderQ' = Append(orderQ, Stamped(o, by)) /\ admitted' = admitted + 1
       ELSE UNCHANGED <<orderQ, admitted>>

\* a request with quantity 0 and neither symbol nor strategy
Cancellation(id) == [id |-> id, order |-> [qty |-> 0], strategy |-> 0]

CancelOrder(id) ==
    /\ CountRequest
    /\ orderQ' = IF Len(orderQ) < QueueCap THEN Append(orderQ, Cancellation(id)) ELSE orderQ
    /\ UNCHANGED <<limiter, nextId, admitted>>

\* what a callback of strategy `by` does with the context
UseContext(by) ==
    \/ UNCHANGED orderVars
    \/ \E o \in Orders : RejectOrder(o) \/ AcceptOrder(o, by)
    \/ nextId > 1 /\ CancelOrder(nextId - 1)

-----------------------------------------------------------------------------
(* The worker: StrategyEngine::run *)

Everyone == [i \in Strategies |-> i]

\* the strategies that pass the symbol filter of line 174, in registration order:
\* the one increasing sequence of them
TickCalls(symbol) ==
    {q \in UNION {[1 .. n -> Strategies] : n \in 0 .. NumStrategies} :
        /\ {q[i] : i \in DOMAIN q} = {s \in Strategies : symbol \in Subscribed[s]}
        /\ \A i, j \in DOMAIN q : i < j => q[i] < q[j]}

\* a tick, then onTimer for every strategy when 100 ms have passed since the last
TakeTick ==
    /\ wpc = "top" /\ calls = <<>> /\ running
    /\ tickQ # <<>>
    /\ \E subscribed \in TickCalls(Head(tickQ)), timers \in {Everyone, <<>>} :
          calls' = subscribed \o timers
    /\ tickQ' = Tail(tickQ)
    /\ didWork' = TRUE
    /\ wpc' = "fill"
    /\ UNCHANGED <<fillQ, open, running, ctl, orderVars, bookVars, current, clock>>

\* mutant: fills are taken only after a tick
NoTick_SkipsFills ==
    /\ wpc = "top" /\ calls = <<>> /\ running
    /\ tickQ = <<>>
    /\ didWork' = FALSE
    /\ wpc' = "idle"
    /\ UNCHANGED <<queueVars, running, ctl, orderVars, bookVars, calls, current, clock>>

NoTick ==
    /\ wpc = "top" /\ calls = <<>> /\ running
    /\ tickQ = <<>>
    /\ didWork' = FALSE
    /\ wpc' = "fill"
    /\ UNCHANGED <<queueVars, running, ctl, orderVars, bookVars, calls, current, clock>>

\* the strategy found in strategy_by_id_, if any
OwnerCalls(fill) == IF fill.strategy \in Strategies THEN <<fill.strategy>> ELSE <<>>

TakeFill ==
    /\ wpc = "fill" /\ calls = <<>>
    /\ fillQ # <<>>
    /\ LET fill == Head(fillQ) IN
       /\ PM!UpdatePosition(fill.order)
       /\ calls' = OwnerCalls(fill)
       /\ told' = told \cup {[id |-> fill.id, by |-> fill.by, loop |-> fill.loop,
                              to |-> OwnerCalls(fill)]}
    /\ fillQ' = Tail(fillQ)
    /\ wpc' = "top"
    /\ UNCHANGED <<tickQ, open, running, ctl, didWork, orderVars, current, clock>>

NoFill ==
    /\ wpc = "fill" /\ calls = <<>>
    /\ fillQ = <<>>
    /\ wpc' = IF didWork THEN "top" ELSE "idle"
    /\ UNCHANGED <<queueVars, running, ctl, didWork, orderVars, bookVars, calls, current, clock>>

\* onTimer for every strategy when 100 ms have passed since the last idle timer
IdleTimer ==
    /\ wpc = "idle"
    /\ calls' \in {Everyone, <<>>}
    /\ wpc' = "top"
    /\ UNCHANGED <<queueVars, running, ctl, didWork, orderVars, bookVars, current, clock>>

\* onTick, onTimer or onFill of the next strategy
Callback ==
    /\ wpc # "none" /\ calls # <<>>
    /\ current' = Head(calls)
    /\ UseContext(Head(calls))
    /\ calls' = Tail(calls)
    /\ UNCHANGED <<queueVars, threadVars, bookVars, clock>>

LeaveLoop ==
    /\ wpc = "top" /\ calls = <<>> /\ ~ running
    /\ wpc' = "none"
    /\ UNCHANGED <<queueVars, running, ctl, didWork, orderVars, bookVars, calls, current, clock>>

Run == TakeTick \/ NoTick \/ TakeFill \/ NoFill \/ IdleTimer \/ Callback \/ LeaveLoop

-----------------------------------------------------------------------------
(* The controlling thread *)

Start ==
    /\ ctl = "idle"
    /\ ctl' = "loading" /\ calls' = Everyone
    /\ UNCHANGED <<queueVars, running, wpc, didWork, orderVars, bookVars, current, clock>>

\* onLoad and onUnload: current_strategy_id_ keeps what the last callback left
LoadCallback ==
    /\ ctl \in {"loading", "unloading"} /\ calls # <<>>
    /\ current' = current
    /\ UseContext(Head(calls))
    /\ calls' = Tail(calls)
    /\ UNCHANGED <<queueVars, threadVars, bookVars, clock>>

StartWorker ==
    /\ ctl = "loading" /\ calls = <<>>
    /\ ctl' = "up" /\ running' = TRUE /\ wpc' = "top"
    /\ UNCHANGED <<queueVars, didWork, orderVars, bookVars, calls, current, clock>>

\* mutant: running_ is left set
Stop_NoStore ==
    /\ ctl = "up"
    /\ ctl' = "joining"
    /\ UNCHANGED <<queueVars, running, wpc, didWork, orderVars, bookVars, calls, current, clock>>

Stop ==
    /\ ctl = "up"
    /\ ctl' = "joining" /\ running' = FALSE
    /\ UNCHANGED <<queueVars, wpc, didWork, orderVars, bookVars, calls, current, clock>>

Join ==
    /\ ctl = "joining" /\ wpc = "none"
    /\ ctl' = "unloading" /\ calls' = Everyone
    /\ UNCHANGED <<queueVars, running, wpc, didWork, orderVars, bookVars, current, clock>>

StopReturn ==
    /\ ctl = "unloading" /\ calls = <<>>
    /\ ctl' = "idle"
    /\ UNCHANGED <<queueVars, running, wpc, didWork, orderVars, bookVars, calls, current, clock>>

-----------------------------------------------------------------------------
(* The gateways and the clock *)

\* a push on a full queue returns false and changes nothing
PushTick(s) ==
    /\ used.ticks < MaxTicks /\ Len(tickQ) < QueueCap
    /\ tickQ' = Append(tickQ, s)
    /\ used' = [used EXCEPT !.ticks = @ + 1]
    /\ UNCHANGED <<fillQ, open, threadVars, orderQ, limiter, nextId, admitted,
                   bookVars, calls, current, clock>>

\* popOrder; a cancellation names no exchange and reaches none
PopOrder ==
    /\ orderQ # <<>>
    /\ orderQ' = Tail(orderQ)
    /\ open' = IF Head(orderQ).order.qty = 0 THEN open ELSE open \cup {Head(orderQ)}
    /\ UNCHANGED <<tickQ, fillQ, threadVars, limiter, nextId, admitted, used,
                   bookVars, calls, current, clock>>

\* pushFill, by the gateway's fill handler
PushFill(f) ==
    /\ Len(fillQ) < QueueCap
    /\ fillQ' = Append(fillQ, f)
    /\ open' = open \ {f}
    /\ UNCHANGED <<tickQ, threadVars, orderVars, bookVars, calls, current, clock>>

ClockTick ==
    /\ clock < MaxSecond
    /\ clock' = clock + 1 /\ admitted' = 0
    /\ UNCHANGED <<queueVars, threadVars, orderQ, limiter, nextId, used, bookVars, calls, current>>

Next == \/ Run
        \/ Start \/ LoadCallback \/ StartWorker \/ Stop \/ Join \/ StopReturn
        \/ \E s \in Symbols : PushTick(s)
        \/ PopOrder
        \/ \E f \in open : PushFill(f)
        \/ ClockTick

Spec == Init /\ [][Next]_vars

\* The worker and the controlling thread are threads the system schedules, the
\* callbacks return, and the controlling thread is inside start() or stop()
\* wherever it is given fairness.  Nothing is assumed of the gateways.
FairSpec == /\ Spec
            /\ WF_vars(Run)
            /\ WF_vars(LoadCallback) /\ WF_vars(StartWorker) /\ WF_vars(Join) /\ WF_vars(StopReturn)

-----------------------------------------------------------------------------
(* Properties *)

Request == [id : Nat, order : Orders, strategy : Strategies \cup {0},
            by : Strategies, loop : BOOLEAN]

\* Every variable has its type, the queues never exceed their capacity, and the
\* worker is alive exactly when start() has created it and stop() not joined it.
TypeOK ==
    /\ tickQ \in Seq(Symbols) /\ fillQ \in Seq(Request) /\ open \subseteq Request
    /\ \A i \in DOMAIN orderQ : orderQ[i] \in Request \/ orderQ[i].order.qty = 0
    /\ Len(tickQ) <= QueueCap /\ Len(orderQ) <= QueueCap /\ Len(fillQ) <= QueueCap
    /\ ctl \in {"idle", "loading", "up", "joining", "unloading"}
    /\ wpc \in {"none", "top", "fill", "idle"} /\ didWork \in BOOLEAN
    /\ running <=> ctl = "up"
    /\ wpc # "none" => ctl \in {"up", "joining"}
    /\ calls \in Seq(Strategies) /\ current \in Strategies \cup {0}
    /\ nextId \in Nat /\ admitted \in Nat

\* However callbacks, rejected orders and the clock interleave, no more orders
\* than max_orders_per_second leave in one second.
RateLimitHolds == admitted <= MaxOrdersPerSecond

\* A fill of an order that a strategy submitted from onTick, onTimer or onFill is
\* reported to that strategy and to no other, whatever was called in between.
LoopFillsReachOwner == \A t \in told : t.loop => t.to = <<t.by>>

\* "Called when one of this strategy's orders is filled": the same of every order,
\* those submitted in onLoad and onUnload included.
FillsReachOwner == \A t \in told : t.to = <<t.by>>

\* A fill in the queue is applied, unless the engine is stopped before.
FillsApplied ==
    \A id \in 1 .. MaxRequests :
        (\E i \in DOMAIN fillQ : fillQ[i].id = id) /\ running
            ~> (\E t \in told : t.id = id) \/ ~ running

\* stop() returns: the worker leaves its loop and every onUnload is made.
StopReturns == (ctl = "joining") ~> (ctl = "idle")
=============================================================================
