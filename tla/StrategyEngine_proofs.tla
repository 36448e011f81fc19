----------------------- MODULE StrategyEngine_proofs -----------------------
(***************************************************************************)
(* Proofs about StrategyEngine, for every number of strategies, every      *)
(* limit and every queue capacity.  The rate limiter of RiskEngine holds   *)
(* with the engine's single caller: onLoad and onUnload run on the         *)
(* controlling thread only while the worker does not.  Fills of orders     *)
(* that were submitted in the loop reach the strategy that submitted them. *)
(***************************************************************************)
EXTENDS StrategyEngine, TLAPS

(* RateLimitHolds is not inductive: the count may belong to an earlier     *)
(* second.  The limiter's second never runs ahead of the clock; while it   *)
(* is the present one, the counter is at least the number of orders that   *)
(* left in it, and while it is not, none has left.                         *)
RateInv ==
    /\ clock \in Nat /\ admitted \in Nat /\ limiter \in [second : Nat, count : Nat]
    /\ limiter.second <= clock
    /\ limiter.second = clock => admitted <= limiter.count
    /\ limiter.second # clock => admitted = 0
    /\ RateLimitHolds

\* What checkRateLimitInternal leaves: the present second, and a count that
\* includes this order and every order that left in it.
LEMMA RateLimitEffect ==
    ASSUME RateInv
    PROVE  /\ RateLimit \in [second : Nat, count : Nat]
           /\ RateLimit.second = clock
           /\ admitted + 1 <= RateLimit.count
           /\ WithinRate => admitted + 1 <= MaxOrdersPerSecond
  BY EngineAssumption DEF RateInv, RateLimitHolds, RateLimit, WithinRate

\* A use of the context by a callback, whatever it submits, keeps the invariant.
LEMMA UseContextKeepsRate ==
    ASSUME RateInv, clock' = clock, NEW by, UseContext(by)
    PROVE  RateInv'
<1>1. CASE UNCHANGED orderVars
  BY <1>1 DEF RateInv, RateLimitHolds, orderVars
<1>2. ASSUME NEW o \in Orders, RejectOrder(o)  PROVE RateInv'
  <2>1. CASE limiter' = limiter
    BY <1>2, <2>1 DEF RejectOrder, RateInv, RateLimitHolds
  <2>2. CASE limiter' = RateLimit
    BY <1>2, <2>2, RateLimitEffect DEF RejectOrder, RateInv, RateLimitHolds
  <2>3. QED
    BY <1>2, <2>1, <2>2 DEF RejectOrder
<1>3. ASSUME NEW o \in Orders, AcceptOrder(o, by)  PROVE RateInv'
  <2>1. limiter' = RateLimit /\ WithinRate /\ admitted' \in {admitted, admitted + 1}
    BY <1>3 DEF AcceptOrder
  <2>2. QED
    BY <2>1, RateLimitEffect, EngineAssumption DEF RateInv, RateLimitHolds
<1>4. CASE nextId > 1 /\ CancelOrder(nextId - 1)
  BY <1>4 DEF CancelOrder, RateInv, RateLimitHolds
<1>5. QED
  BY <1>1, <1>2, <1>3, <1>4 DEF UseContext

\* The limiter admits no more than max_orders_per_second orders in any second.
THEOREM RateLimited == Spec => []RateLimitHolds
<1>1. Init => RateInv
  BY EngineAssumption DEF Init, RateInv, RateLimitHolds
<1>2. RateInv /\ [Next]_vars => RateInv'
  <2> SUFFICES ASSUME RateInv, [Next]_vars PROVE RateInv'
    OBVIOUS
  <2>1. CASE UNCHANGED <<limiter, admitted, clock>>
    BY <2>1 DEF RateInv, RateLimitHolds
  <2>2. CASE Callback
    BY <2>2, UseContextKeepsRate DEF Callback
  <2>3. CASE LoadCallback
    BY <2>3, UseContextKeepsRate DEF LoadCallback
  <2>4. CASE ClockTick
    BY <2>4, EngineAssumption DEF ClockTick, RateInv, RateLimitHolds
  <2>5. ASSUME TakeTick \/ NoTick \/ TakeFill \/ NoFill \/ IdleTimer \/ LeaveLoop
        PROVE  UNCHANGED <<limiter, admitted, clock>>
    BY <2>5 DEF TakeTick, NoTick, TakeFill, NoFill, IdleTimer, LeaveLoop, orderVars
  <2>6. ASSUME Start \/ StartWorker \/ Stop \/ Join \/ StopReturn
        PROVE  UNCHANGED <<limiter, admitted, clock>>
    BY <2>6 DEF Start, StartWorker, Stop, Join, StopReturn, orderVars
  <2>7. ASSUME PopOrder \/ (\E s \in Symbols : PushTick(s)) \/ (\E f \in open : PushFill(f))
        PROVE  UNCHANGED <<limiter, admitted, clock>>
    BY <2>7 DEF PopOrder, PushTick, PushFill, orderVars
  <2>8. CASE UNCHANGED vars
    BY <2>1, <2>8 DEF vars, orderVars
  <2>9. QED
    BY <2>1, <2>2, <2>3, <2>4, <2>5, <2>6, <2>7, <2>8 DEF Next, Run
<1>3. RateInv => RateLimitHolds
  BY DEF RateInv
<1>4. QED
  BY <1>1, <1>2, <1>3, PTL DEF Spec


-----------------------------------------------------------------------------
(* Fills reach the strategy that submitted the order *)

\* What order_queue_ may hold: an order that is stamped with its submitter if the
\* worker made the call, or a cancellation, which no fill ever answers.
OwnedRequest == {r \in Request : r.loop => r.strategy = r.by}
CancelRequest == {Cancellation(id) : id \in Nat}

(* LoopFillsReachOwner is about fills already applied.  The stamp is made  *)
(* when the order is submitted and has to survive three queues, so the     *)
(* invariant follows it through each of them; and it is made with          *)
(* current_strategy_id_, which only the worker's callbacks set, so the     *)
(* invariant says that the controlling thread makes no callback while the  *)
(* worker runs.                                                            *)
Routes ==
    /\ orderQ \in Seq(OwnedRequest \cup CancelRequest)
    /\ open \in SUBSET OwnedRequest
    /\ fillQ \in Seq(OwnedRequest)

Threads ==
    /\ ctl \in {"idle", "loading", "up", "joining", "unloading"}
    /\ wpc \in {"none", "top", "fill", "idle"}
    /\ wpc # "none" => ctl \in {"up", "joining"}
    /\ running <=> ctl = "up"

Context ==
    /\ calls \in Seq(Strategies)
    /\ current \in Strategies \cup {0}
    /\ nextId \in Nat

OwnerInv == Routes /\ Threads /\ Context /\ LoopFillsReachOwner

\* Every strategy in registration order, and a selection of them, is a sequence.
LEMMA CallSequences ==
    /\ Everyone \in Seq(Strategies)
    /\ <<>> \in Seq(Strategies)
    /\ \A symbol : TickCalls(symbol) \subseteq Seq(Strategies)
<1>1. NumStrategies \in Nat
  BY EngineAssumption
<1>2. Everyone \in Seq(Strategies)
  BY <1>1 DEF Everyone, Strategies
<1>3. ASSUME NEW symbol, NEW q \in TickCalls(symbol)
      PROVE  q \in Seq(Strategies)
  <2>1. PICK n \in 0 .. NumStrategies : q \in [1 .. n -> Strategies]
    BY <1>3 DEF TickCalls
  <2>2. n \in Nat
    BY <1>1
  <2>3. QED
    BY <2>1, <2>2
<1>4. QED
  BY <1>2, <1>3

\* An order submitted in a callback of strategy `by` carries its id, provided the
\* callback was made by the worker, which set current_strategy_id_ before.
LEMMA StampIsOwned ==
    ASSUME Context, current' \in Strategies \cup {0},
           NEW o \in Orders, NEW by \in Strategies, wpc # "none" => current' = by
    PROVE  Stamped(o, by) \in OwnedRequest
<1>1. (wpc # "none") \in BOOLEAN
  OBVIOUS
<1>2. Stamped(o, by) \in Request
  BY <1>1 DEF Stamped, Request, Context
<1>3. Stamped(o, by).loop => Stamped(o, by).strategy = Stamped(o, by).by
  BY DEF Stamped
<1>4. QED
  BY <1>2, <1>3 DEF OwnedRequest

\* Whatever a callback does with the context, order_queue_ keeps its shape.
LEMMA UseContextKeepsOwner ==
    ASSUME Routes, Context, current' \in Strategies \cup {0},
           NEW by \in Strategies, wpc # "none" => current' = by, UseContext(by)
    PROVE  /\ orderQ' \in Seq(OwnedRequest \cup CancelRequest)
           /\ nextId' \in Nat
<1>1. CASE UNCHANGED orderVars
  BY <1>1 DEF orderVars, Routes, Context
<1>2. ASSUME NEW o \in Orders, RejectOrder(o)
      PROVE  orderQ' = orderQ /\ nextId' = nextId
  BY <1>2 DEF RejectOrder
<1>3. ASSUME NEW o \in Orders, AcceptOrder(o, by)
      PROVE  orderQ' \in Seq(OwnedRequest \cup CancelRequest) /\ nextId' \in Nat
  <2>1. Stamped(o, by) \in OwnedRequest
    BY StampIsOwned
  <2>2. orderQ' = orderQ \/ orderQ' = Append(orderQ, Stamped(o, by))
    BY <1>3 DEF AcceptOrder
  <2>3. nextId' \in Nat
    BY <1>3 DEF AcceptOrder, Context
  <2>4. QED
    BY <2>1, <2>2, <2>3 DEF Routes
<1>4. ASSUME nextId > 1, CancelOrder(nextId - 1)
      PROVE  orderQ' \in Seq(OwnedRequest \cup CancelRequest) /\ nextId' \in Nat
  <2>1. nextId - 1 \in Nat
    BY <1>4 DEF Context
  <2>2. PICK c \in CancelRequest : c = Cancellation(nextId - 1)
    BY <2>1 DEF CancelRequest
  <2>3. orderQ' = orderQ \/ orderQ' = Append(orderQ, c)
    BY <1>4, <2>2 DEF CancelOrder
  <2>4. nextId' = nextId
    BY <1>4 DEF CancelOrder
  <2>5. orderQ' \in Seq(OwnedRequest \cup CancelRequest)
    BY <2>3 DEF Routes
  <2>6. QED
    BY <2>4, <2>5 DEF Context
<1>5. QED
  BY <1>1, <1>2, <1>3, <1>4 DEF UseContext, Routes, Context

\* A fill of an order submitted in the loop is handed to its submitter: the stamp
\* names a registered strategy, so strategy_by_id_ finds it.
LEMMA OwnerIsCalled ==
    ASSUME NEW fill \in OwnedRequest
    PROVE  /\ OwnerCalls(fill) \in Seq(Strategies)
           /\ fill.loop => OwnerCalls(fill) = <<fill.by>>
<1>1. /\ fill \in Request
      /\ fill.loop => fill.strategy = fill.by
  BY DEF OwnedRequest
<1>2. fill.by \in Strategies
  BY <1>1 DEF Request
<1>3. QED
  BY <1>1, <1>2 DEF OwnerCalls

\* What popOrder passes to the exchange is an order, never a cancellation.
LEMMA PoppedIsOwned ==
    ASSUME NEW r \in OwnedRequest \cup CancelRequest, r.order.qty # 0
    PROVE  r \in OwnedRequest
  BY DEF CancelRequest, Cancellation

\* A fill of an order that a strategy submitted from onTick, onTimer or onFill is
\* reported to that strategy, for every number of strategies and every interleaving
\* of the worker, the gateways and the controlling thread.
THEOREM FillsReachTheirOwner == Spec => []LoopFillsReachOwner
<1>1. Init => OwnerInv
  BY DEF Init, OwnerInv, Routes, Threads, Context, LoopFillsReachOwner
<1>2. OwnerInv /\ [Next]_vars => OwnerInv'
  <2> SUFFICES ASSUME OwnerInv, [Next]_vars PROVE OwnerInv'
    OBVIOUS
  <2> USE DEF OwnerInv
  <2>1. CASE TakeTick
    <3>1. PICK subscribed \in TickCalls(Head(tickQ)), timers \in {Everyone, <<>>} :
              calls' = subscribed \o timers
      BY <2>1 DEF TakeTick
    <3>2. subscribed \in Seq(Strategies) /\ timers \in Seq(Strategies)
      BY CallSequences
    <3>3. Context'
      BY <2>1, <3>1, <3>2 DEF TakeTick, Context, orderVars
    <3>4. Routes' /\ Threads' /\ LoopFillsReachOwner'
      BY <2>1 DEF TakeTick, Routes, Threads, LoopFillsReachOwner, orderVars, bookVars
    <3>5. QED
      BY <3>3, <3>4
  <2>2. CASE NoTick \/ NoFill \/ LeaveLoop
    <3>1. Threads'
      BY <2>2 DEF NoTick, NoFill, LeaveLoop, Threads
    <3>2. Routes' /\ Context' /\ LoopFillsReachOwner'
      BY <2>2 DEF NoTick, NoFill, LeaveLoop, Routes, Context, LoopFillsReachOwner,
                  queueVars, orderVars, bookVars
    <3>3. QED
      BY <3>1, <3>2
  <2>3. CASE TakeFill
    <3> DEFINE fill == Head(fillQ)
    <3>1. fill \in OwnedRequest /\ fillQ' \in Seq(OwnedRequest)
      BY <2>3 DEF TakeFill, Routes
    <3>2. /\ calls' = OwnerCalls(fill)
          /\ told' = told \cup {[id |-> fill.id, by |-> fill.by, loop |-> fill.loop,
                                 to |-> OwnerCalls(fill)]}
          /\ UNCHANGED <<orderQ, open, current, nextId>>
      BY <2>3 DEF TakeFill, orderVars
    <3>3. Routes' /\ Context'
      BY <3>1, <3>2, OwnerIsCalled DEF Routes, Context
    <3>4. LoopFillsReachOwner'
      BY <3>1, <3>2, OwnerIsCalled DEF LoopFillsReachOwner
    <3>5. Threads'
      BY <2>3 DEF TakeFill, Threads
    <3>6. QED
      BY <3>3, <3>4, <3>5
  <2>4. CASE IdleTimer
    <3>1. Context'
      BY <2>4, CallSequences DEF IdleTimer, Context, orderVars
    <3>2. Routes' /\ Threads' /\ LoopFillsReachOwner'
      BY <2>4 DEF IdleTimer, Routes, Threads, LoopFillsReachOwner,
                  queueVars, orderVars, bookVars
    <3>3. QED
      BY <3>1, <3>2
  <2>5. CASE Callback
    <3>1. /\ Head(calls) \in Strategies /\ calls' \in Seq(Strategies)
          /\ current' = Head(calls) /\ UseContext(Head(calls))
          /\ UNCHANGED <<queueVars, threadVars, bookVars>>
      BY <2>5 DEF Callback, Context
    <3>2. orderQ' \in Seq(OwnedRequest \cup CancelRequest) /\ nextId' \in Nat
      BY <3>1, UseContextKeepsOwner
    <3>3. QED
      BY <3>1, <3>2 DEF Routes, Context, Threads, LoopFillsReachOwner,
                        queueVars, threadVars, bookVars
  <2>6. CASE LoadCallback
    <3>1. /\ Head(calls) \in Strategies /\ calls' \in Seq(Strategies)
          /\ current' = current /\ UseContext(Head(calls))
          /\ UNCHANGED <<queueVars, threadVars, bookVars>>
          /\ wpc = "none"
      BY <2>6 DEF LoadCallback, Context, Threads
    <3>2. orderQ' \in Seq(OwnedRequest \cup CancelRequest) /\ nextId' \in Nat
      BY <3>1, UseContextKeepsOwner DEF Context
    <3>3. QED
      BY <3>1, <3>2 DEF Routes, Context, Threads, LoopFillsReachOwner,
                        queueVars, threadVars, bookVars
  <2>7. CASE Start \/ Join
    <3>1. Context' /\ Threads'
      BY <2>7, CallSequences DEF Start, Join, Context, Threads, orderVars
    <3>2. Routes' /\ LoopFillsReachOwner'
      BY <2>7 DEF Start, Join, Routes, LoopFillsReachOwner, queueVars, orderVars, bookVars
    <3>3. QED
      BY <3>1, <3>2
  <2>8. CASE StartWorker \/ Stop \/ StopReturn
    <3>1. Threads'
      BY <2>8 DEF StartWorker, Stop, StopReturn, Threads
    <3>2. Routes' /\ Context' /\ LoopFillsReachOwner'
      BY <2>8 DEF StartWorker, Stop, StopReturn, Routes, Context, LoopFillsReachOwner,
                  queueVars, orderVars, bookVars
    <3>3. QED
      BY <3>1, <3>2
  <2>9. ASSUME NEW s \in Symbols, PushTick(s)  PROVE OwnerInv'
    BY <2>9 DEF PushTick, Routes, Context, Threads, LoopFillsReachOwner, threadVars, bookVars
  <2>10. CASE PopOrder
    <3>1. /\ Head(orderQ) \in OwnedRequest \cup CancelRequest
          /\ orderQ' \in Seq(OwnedRequest \cup CancelRequest)
      BY <2>10 DEF PopOrder, Routes
    <3>2. open' \in SUBSET OwnedRequest
      BY <2>10, <3>1, PoppedIsOwned DEF PopOrder, Routes
    <3>3. QED
      BY <2>10, <3>1, <3>2 DEF PopOrder, Routes, Context, Threads, LoopFillsReachOwner,
                               threadVars, bookVars
  <2>11. ASSUME NEW f \in open, PushFill(f)  PROVE OwnerInv'
    <3>1. f \in OwnedRequest
      BY DEF Routes
    <3>2. Routes'
      BY <2>11, <3>1 DEF PushFill, Routes, orderVars
    <3>3. QED
      BY <2>11, <3>2 DEF PushFill, Context, Threads, LoopFillsReachOwner,
                         threadVars, orderVars, bookVars
  <2>12. CASE ClockTick
    BY <2>12 DEF ClockTick, Routes, Context, Threads, LoopFillsReachOwner,
                 queueVars, threadVars, bookVars
  <2>13. CASE UNCHANGED vars
    BY <2>13 DEF vars, Routes, Context, Threads, LoopFillsReachOwner,
                 queueVars, threadVars, orderVars, bookVars
  <2>14. QED
    BY <2>1, <2>2, <2>3, <2>4, <2>5, <2>6, <2>7, <2>8, <2>9, <2>10, <2>11, <2>12,
       <2>13 DEF Next, Run
<1>3. OwnerInv => LoopFillsReachOwner
  BY DEF OwnerInv
<1>4. QED
  BY <1>1, <1>2, <1>3, PTL DEF Spec

=============================================================================
