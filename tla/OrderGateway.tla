---------------------------- MODULE OrderGateway ----------------------------
(***************************************************************************)
(* chronos::execution::OrderGateway with the two parts of the Binance side *)
(* it works with: BinanceHttpClient (REST calls made by the I/O thread and *)
(* by stop()) and BinanceUserStream (a thread of its own that injects      *)
(* acknowledgements, fills and rejects).                                   *)
(*                                                                         *)
(* Three threads: the I/O thread (run, processOrder), the user-stream      *)
(* thread (readLoop, parseExecutionReport) and the controlling thread      *)
(* (start, stop, cancelAllPending).  A step is one section under           *)
(* pending_mutex_, one REST call or one callback.  The exchange is         *)
(* external: it opens, trades, expires and cancels orders it knows by      *)
(* clientOrderId and by exchange id.                                       *)
(***************************************************************************)
EXTENDS Integers, Sequences

CONSTANTS Modes,        \* subset of {"real", "sim"}: simulate_fills_ / http_client_
          QueueCap,     \* capacity of the order queue
          MaxRequests,  \* bound: requests pushed into the order queue
          MaxQty,       \* bound: quantity of an order
          StreamFails   \* TRUE: the user-stream connection may break

ASSUME GatewayAssumption ==
    /\ Modes \subseteq {"real", "sim"}
    /\ QueueCap \in Nat \ {0} /\ MaxRequests \in Nat \ {0} /\ MaxQty \in Nat \ {0}
    /\ StreamFails \in BOOLEAN

OrderId == 1 .. MaxRequests           \* OrderIDGenerator: 1, 2, ...
ClientId == 1 .. MaxRequests          \* clientOrderId "<order id>_<time>": one per POST
Qty == 1 .. MaxQty
MaxAttempts == 2                      \* kMaxRetries of BinanceHttpClient::doRequest
ExchangeIdOf(cid) == 1000 + cid       \* ids the exchange assigns: none is a local id

\* a request is foreign when its exchange id is not the gateway's, nameless when
\* config_.symbols has no name for its symbol id
Kind == {"routed", "foreign", "nameless"}
Request == [id : OrderId, qty : 0 .. MaxQty, kind : Kind]
NoOrder == [status |-> "none", qty |-> 0, filled |-> 0]

\* user-stream messages.  left is what the order has open after the fill (the
\* cumulative quantity of the report, which the code does not read): it tells the
\* fills of an order apart
Event == [type : {"fill"}, cid : ClientId, left : 0 .. MaxQty - 1, qty : Qty]
         \cup [type : {"ack", "reject"}, cid : ClientId, left : {0}, qty : {0}]
Fill == [cid : ClientId, left : 0 .. MaxQty - 1, qty : Qty]
FillOf(e) == [cid |-> e.cid, left |-> e.left, qty |-> e.qty]
NoFill == [cid |-> 0, left |-> 0, qty |-> 0]
Fate == {"traded", "delivered", "dropped", "lost"}

VARIABLES mode,      \* execution mode, fixed at construction
          queue,     \* *order_queue_
          pushed,    \* requests pushed so far
          nextId,    \* OrderIDGenerator
          running,   \* running_
          io,        \* I/O thread: next step
          req,       \* I/O thread: the request being processed, its POST attempts
          ctl,       \* controlling thread: next step
          snap,      \* cancelAllPending: pending_ids not yet handled
          victim,    \* cancelAllPending: the id being cancelled
          pending,   \* pending_orders_: NoOrder when absent
          clientMap, \* client_id_to_local_: 0 when absent
          exch,      \* exchange (external): state and open quantity per clientOrderId
          events,    \* user-stream messages on their way
          stream,    \* user-stream thread: connection and fill being handed on
          stats,     \* OrderGatewayStats
          trades,    \* history: what has become of each fill, in order
          released   \* history: orders cancelled or modified by the gateway

vars == <<mode, queue, pushed, nextId, running, io, req, ctl, snap, victim, pending,
          clientMap, exch, events, stream, stats, trades, released>>
inputVars == <<queue, pushed, nextId>>
ctlVars == <<running, ctl, snap, victim>>
exchVars == <<exch, events>>

Present(id) == pending[id] # NoOrder
Erase(id) == pending' = [pending EXCEPT ![id] = NoOrder]
Count(field) == stats' = [stats EXCEPT ![field] = @ + 1]
Record(fills, fates) == trades' = [f \in Fill |-> IF f \in fills THEN trades[f] \o fates
                                                    ELSE trades[f]]

Init == /\ mode \in Modes
        /\ queue = <<>> /\ pushed = 0 /\ nextId = 1
        /\ running = FALSE
        /\ io = "none"
        /\ req = [id |-> 1, qty |-> 0, kind |-> "routed", attempt |-> 0]
        /\ ctl = "idle" /\ snap = {} /\ victim = 1
        /\ pending = [id \in OrderId |-> NoOrder]
        /\ clientMap = [c \in ClientId |-> 0]
        /\ exch = [c \in ClientId |-> [state |-> "none", left |-> 0]]
        /\ events = <<>>
        /\ stream = [up |-> TRUE, id |-> 0, fill |-> NoFill]
        /\ stats = [received |-> 0, sent |-> 0, rejected |-> 0, cancelled |-> 0,
                    modified |-> 0, fills |-> 0, fillErrors |-> 0, mismatch |-> 0,
                    refused |-> 0, shutdown |-> 0]
        /\ trades = [f \in Fill |-> <<>>]
        /\ released = {}

-----------------------------------------------------------------------------
(* Producers of the order queue *)

Enqueue(r) == /\ pushed < MaxRequests
              /\ Len(queue) < QueueCap
              /\ queue' = Append(queue, r)
              /\ pushed' = pushed + 1

\* StrategyContext::submitOrder past the risk check
SubmitOrder(q, kind) ==
    /\ nextId \in OrderId
    /\ Enqueue([id |-> nextId, qty |-> q, kind |-> kind])
    /\ nextId' = nextId + 1
    /\ UNCHANGED <<mode, io, req, ctlVars, pending, clientMap, exchVars, stream,
                   stats, trades, released>>

\* a request that names an earlier order: q = 0 cancels it, q > 0 modifies it.  The
\* cancel of StrategyContext::cancelOrder has exchange id 0 and symbol id 0: it is
\* foreign to a gateway whose exchange id is not 0, and nameless to the others
AmendOrder(id, q, kind) ==
    /\ id < nextId
    /\ Enqueue([id |-> id, qty |-> q, kind |-> kind])
    /\ UNCHANGED <<mode, nextId, io, req, ctlVars, pending, clientMap, exchVars,
                   stream, stats, trades, released>>

-----------------------------------------------------------------------------
(* I/O thread *)

\* try_pop succeeds, in the polling loop or in the drain loop after it
IoPop ==
    /\ io = "loop"
    /\ queue # <<>>
    /\ queue' = Tail(queue)
    /\ req' = [id |-> Head(queue).id, qty |-> Head(queue).qty, kind |-> Head(queue).kind,
               attempt |-> 0]
    /\ Count("received")
    /\ io' = "process"
    /\ UNCHANGED <<mode, pushed, nextId, ctlVars, pending, clientMap, exchVars, stream,
                   trades, released>>

\* mutant: the loop ends without draining the queue
IoExit_NoDrain ==
    /\ io = "loop"
    /\ ~running
    /\ io' = "exited"
    /\ UNCHANGED <<mode, inputVars, req, ctlVars, pending, clientMap, exchVars, stream,
                   stats, trades, released>>

IoExit ==
    /\ io = "loop"
    /\ queue = <<>> /\ ~running
    /\ io' = "exited"
    /\ UNCHANGED <<mode, inputVars, req, ctlVars, pending, clientMap, exchVars, stream,
                   stats, trades, released>>

IoMismatch ==
    /\ io = "process" /\ req.kind = "foreign"
    /\ Count("mismatch")
    /\ io' = "loop"
    /\ UNCHANGED <<mode, inputVars, req, ctlVars, pending, clientMap, exchVars, stream,
                   trades, released>>

\* the exchange (external) cancels the order that has this exchange id, if any
Delete(x) == exch' = [c \in ClientId |->
                        IF exch[c].state = "open" /\ ExchangeIdOf(c) = x
                        THEN [exch[c] EXCEPT !.state = "done"] ELSE exch[c]]

\* quantity 0: DELETE with the local id when the symbol has a name; the answer is only logged
IoCancel ==
    /\ io = "process" /\ req.kind # "foreign" /\ req.qty = 0
    /\ IF mode = "real" /\ req.kind = "routed" THEN Delete(req.id) ELSE UNCHANGED exch
    /\ io' = "erase"
    /\ UNCHANGED <<mode, inputVars, req, ctlVars, pending, clientMap, events, stream,
                   stats, trades, released>>

IoErase ==
    /\ io = "erase"
    /\ Erase(req.id)
    /\ released' = released \cup {req.id}
    /\ Count("cancelled")
    /\ io' = "loop"
    /\ UNCHANGED <<mode, inputVars, req, ctlVars, clientMap, exchVars, stream, trades>>

\* simulateSend in both modes: the exchange is not told
IoModify ==
    /\ io = "process" /\ req.kind # "foreign" /\ req.qty # 0
    /\ pending[req.id].status \in {"pending", "accepted", "partial"}
    /\ pending' = [pending EXCEPT ![req.id] = [@ EXCEPT !.qty = req.qty]]
    /\ released' = released \cup {req.id}
    /\ Count("modified")
    /\ io' = "loop"
    /\ UNCHANGED <<mode, inputVars, req, ctlVars, clientMap, exchVars, stream, trades>>

IsNew == io = "process" /\ req.kind # "foreign" /\ req.qty # 0 /\ ~Present(req.id)

trackPending == pending' = [pending EXCEPT ![req.id] =
                              [status |-> "pending", qty |-> req.qty, filled |-> 0]]

\* encodeOrderJson fails: no name for the symbol
IoUnencodable ==
    /\ IsNew /\ mode = "real" /\ req.kind = "nameless"
    /\ Count("rejected")
    /\ io' = "loop"
    /\ UNCHANGED <<mode, inputVars, req, ctlVars, pending, clientMap, exchVars, stream,
                   trades, released>>

\* mutant: only the clientOrderId is recorded before the POST
IoTrack_IdOnly ==
    /\ IsNew /\ mode = "real" /\ req.kind = "routed"
    /\ clientMap' = [clientMap EXCEPT ![stats.received] = req.id]
    /\ io' = "post"
    /\ UNCHANGED <<mode, inputVars, req, ctlVars, pending, exchVars, stream, stats, trades,
                   released>>

\* the order is tracked before the POST
IoTrack ==
    /\ IsNew /\ mode = "real" /\ req.kind = "routed"
    /\ clientMap' = [clientMap EXCEPT ![stats.received] = req.id]
    /\ trackPending
    /\ io' = "post"
    /\ UNCHANGED <<mode, inputVars, req, ctlVars, exchVars, stream, stats, trades, released>>

Cid == stats.received     \* the clientOrderId of the POST in progress

\* user-stream messages reach the socket only while the stream is connected
Emit(e) == events' = IF stream.up THEN Append(events, e) ELSE events

\* one attempt of doRequest: refused (HTTP error, or a clientOrderId already in use) ...
PostRefused ==
    /\ io = "post"
    /\ io' = "failed"
    /\ UNCHANGED <<mode, inputVars, req, ctlVars, pending, clientMap, exchVars, stream,
                   stats, trades, released>>

\* where doRequest goes when the connection fails: it retries a transient error once
AfterError == IF req.attempt + 1 < MaxAttempts THEN {"post", "failed"} ELSE {"failed"}

\* ... accepted by the exchange, the answer arriving (answered) or lost ...
PostAccepted(answered) ==
    /\ io = "post"
    /\ exch[Cid].state = "none"
    /\ exch' = [exch EXCEPT ![Cid] = [state |-> "open", left |-> req.qty]]
    /\ Emit([type |-> "ack", cid |-> Cid, left |-> 0, qty |-> 0])
    /\ req' = [req EXCEPT !.attempt = @ + 1]
    /\ IF answered THEN io' = "ack" ELSE io' \in AfterError
    /\ UNCHANGED <<mode, inputVars, ctlVars, pending, clientMap, stream, stats, trades,
                   released>>

\* ... or lost on the way there
PostLost ==
    /\ io = "post"
    /\ req' = [req EXCEPT !.attempt = @ + 1]
    /\ io' \in AfterError
    /\ UNCHANGED <<mode, inputVars, ctlVars, pending, clientMap, exchVars, stream, stats,
                   trades, released>>

\* mutant: the ack brings an erased order back
Acknowledge_Revives(id) == pending' = [pending EXCEPT ![id] = [@ EXCEPT !.status = "accepted"]]

\* injectOrderAck: an order no longer pending is left alone
Acknowledge(id) == pending' = IF Present(id) THEN [pending EXCEPT ![id] = [@ EXCEPT !.status = "accepted"]]
                              ELSE pending

\* realSendWithClientId returns true; a body that does not parse skips the ack
IoAck(parses) ==
    /\ io = "ack"
    /\ IF parses THEN Acknowledge(req.id) ELSE UNCHANGED pending
    /\ Count("sent")
    /\ io' = "loop"
    /\ UNCHANGED <<mode, inputVars, req, ctlVars, clientMap, exchVars, stream, trades,
                   released>>

\* mutant: the failure is not counted
IoFailed_NotCounted ==
    /\ io = "failed"
    /\ io' = "loop"
    /\ UNCHANGED <<mode, inputVars, req, ctlVars, pending, clientMap, exchVars, stream,
                   stats, trades, released>>

\* an empty response: counted as rejected, the pending entry stays
IoFailed ==
    /\ io = "failed"
    /\ Count("rejected")
    /\ io' = "loop"
    /\ UNCHANGED <<mode, inputVars, req, ctlVars, pending, clientMap, exchVars, stream,
                   trades, released>>

\* mutant: > for >=
ApplyFill_Greater(id, q) ==
    pending' = [pending EXCEPT ![id] =
                  IF @.filled + q > @.qty THEN NoOrder
                  ELSE [status |-> "partial", qty |-> @.qty, filled |-> @.filled + q]]

\* injectFill under pending_mutex_
ApplyFill(id, q) ==
    pending' = [pending EXCEPT ![id] =
                  IF @.filled + q >= @.qty THEN NoOrder
                  ELSE [status |-> "partial", qty |-> @.qty, filled |-> @.filled + q]]

IoSimulate ==
    /\ IsNew /\ mode = "sim"
    /\ trackPending
    /\ io' = "simFill"
    /\ UNCHANGED <<mode, inputVars, req, ctlVars, clientMap, exchVars, stream, stats,
                   trades, released>>

\* the automatic fill of simulation mode, and its callback
IoSimFill ==
    /\ io = "simFill"
    /\ ApplyFill(req.id, req.qty)
    /\ Record({[cid |-> Cid, left |-> 0, qty |-> req.qty]}, <<"traded", "delivered">>)
    /\ stats' = [stats EXCEPT !.fills = @ + 1, !.sent = @ + 1]
    /\ io' = "loop"
    /\ UNCHANGED <<mode, inputVars, req, ctlVars, clientMap, exchVars, stream, released>>

-----------------------------------------------------------------------------
(* User stream *)

\* parseExecutionReport of the next message; resolveByClientOrderId finds the local id
StreamDeliver ==
    /\ stream.up /\ stream.id = 0
    /\ events # <<>>
    /\ LET e  == Head(events)
           id == clientMap[e.cid]
       IN  \/ /\ e.type = "ack"
              /\ Acknowledge(id)
              /\ UNCHANGED <<stream, stats, trades>>
           \/ /\ e.type = "reject"
              /\ Erase(id)
              /\ stats' = [stats EXCEPT !.rejected = @ + 1, !.refused = @ + 1]
              /\ UNCHANGED <<stream, trades>>
           \/ /\ e.type = "fill" /\ ~Present(id)
              /\ Count("fillErrors")
              /\ Record({FillOf(e)}, <<"dropped">>)
              /\ UNCHANGED <<pending, stream>>
           \/ /\ e.type = "fill" /\ Present(id)
              /\ ApplyFill(id, e.qty)
              /\ stream' = [stream EXCEPT !.id = id, !.fill = FillOf(e)]
              /\ UNCHANGED <<stats, trades>>
    /\ events' = Tail(events)
    /\ UNCHANGED <<mode, inputVars, io, req, ctlVars, clientMap, exch, released>>

\* mutant: no callback once stop() has been called
StreamCallback_OnlyRunning ==
    /\ stream.id # 0
    /\ IF running THEN Record({stream.fill}, <<"delivered">>) ELSE UNCHANGED trades
    /\ Count("fills")
    /\ stream' = [stream EXCEPT !.id = 0, !.fill = NoFill]
    /\ UNCHANGED <<mode, inputVars, io, req, ctlVars, pending, clientMap, exchVars, released>>

\* fill_callback_, outside the lock
StreamCallback ==
    /\ stream.id # 0
    /\ Record({stream.fill}, <<"delivered">>)
    /\ Count("fills")
    /\ stream' = [stream EXCEPT !.id = 0, !.fill = NoFill]
    /\ UNCHANGED <<mode, inputVars, io, req, ctlVars, pending, clientMap, exchVars, released>>

InFlight(f) == \E i \in DOMAIN events : events[i].type = "fill" /\ FillOf(events[i]) = f

\* receive() fails: what was under way is gone, and nothing asks for it after reconnecting
StreamDisconnect ==
    /\ StreamFails
    /\ stream.up /\ stream.id = 0
    /\ stream' = [stream EXCEPT !.up = FALSE]
    /\ Record({f \in Fill : InFlight(f)}, <<"lost">>)
    /\ events' = <<>>
    /\ UNCHANGED <<mode, inputVars, io, req, ctlVars, pending, clientMap, exch, stats, released>>

StreamReconnect ==
    /\ ~stream.up
    /\ stream' = [stream EXCEPT !.up = TRUE]
    /\ UNCHANGED <<mode, inputVars, io, req, ctlVars, pending, clientMap, exchVars, stats,
                   trades, released>>

-----------------------------------------------------------------------------
(* Exchange (external) *)

ExchangeTrade(c, q) ==
    /\ exch[c].state = "open" /\ q <= exch[c].left
    /\ LET f == [cid |-> c, left |-> exch[c].left - q, qty |-> q]
       IN  /\ exch' = [exch EXCEPT ![c] = [state |-> IF f.left = 0 THEN "done" ELSE "open",
                                           left |-> f.left]]
           /\ Emit([type |-> "fill", cid |-> c, left |-> f.left, qty |-> q])
           /\ Record({f}, IF stream.up THEN <<"traded">> ELSE <<"traded", "lost">>)
    /\ UNCHANGED <<mode, inputVars, io, req, ctlVars, pending, clientMap, stream, stats,
                   released>>

\* an order the exchange expires or rejects after all
ExchangeExpire(c) ==
    /\ exch[c].state = "open"
    /\ exch' = [exch EXCEPT ![c] = [@ EXCEPT !.state = "done"]]
    /\ Emit([type |-> "reject", cid |-> c, left |-> 0, qty |-> 0])
    /\ UNCHANGED <<mode, inputVars, io, req, ctlVars, pending, clientMap, stream, stats,
                   trades, released>>

-----------------------------------------------------------------------------
(* Controlling thread *)

Start ==
    /\ ctl = "idle"
    /\ running' = TRUE
    /\ io' = "loop"
    /\ ctl' = "up"
    /\ UNCHANGED <<mode, inputVars, req, snap, victim, pending, clientMap, exchVars, stream,
                   stats, trades, released>>

Stop ==
    /\ ctl = "up"
    /\ running' = FALSE
    /\ ctl' = "joining"
    /\ UNCHANGED <<mode, inputVars, io, req, snap, victim, pending, clientMap, exchVars,
                   stream, stats, trades, released>>

\* join returns; cancelAllPending takes the list of pending ids
StopJoin ==
    /\ ctl = "joining" /\ io = "exited"
    /\ snap' = {id \in OrderId : Present(id)}
    /\ ctl' = "cancelling"
    /\ UNCHANGED <<mode, inputVars, running, io, req, victim, pending, clientMap, exchVars,
                   stream, stats, trades, released>>

\* mutant: an order that is gone is looked up for ever
StopSkip_Again(id) ==
    /\ ctl = "cancelling" /\ id \in snap /\ mode = "real" /\ ~Present(id)
    /\ UNCHANGED vars

\* real mode: look the order up again and skip it if it is gone ...
StopSkip(id) ==
    /\ ctl = "cancelling" /\ id \in snap /\ mode = "real" /\ ~Present(id)
    /\ snap' = snap \ {id}
    /\ UNCHANGED <<mode, inputVars, running, io, req, ctl, victim, pending, clientMap,
                   exchVars, stream, stats, trades, released>>

\* ... else send DELETE, with the local id
StopDelete(id) ==
    /\ ctl = "cancelling" /\ id \in snap /\ mode = "real" /\ Present(id)
    /\ Delete(id)
    /\ victim' = id
    /\ ctl' = "erasing"
    /\ UNCHANGED <<mode, inputVars, running, io, req, snap, pending, clientMap, events,
                   stream, stats, trades, released>>

\* erase whatever the answer was
StopErase(id) ==
    /\ id \in snap
    /\ \/ ctl = "erasing" /\ id = victim
       \/ ctl = "cancelling" /\ mode = "sim"
    /\ Erase(id)
    /\ released' = released \cup {id}
    /\ stats' = [stats EXCEPT !.cancelled = @ + 1, !.shutdown = @ + 1]
    /\ snap' = snap \ {id}
    /\ ctl' = "cancelling"
    /\ UNCHANGED <<mode, inputVars, running, io, req, victim, clientMap, exchVars, stream,
                   trades>>

\* the gateway can be started again
StopReturn ==
    /\ ctl = "cancelling" /\ snap = {}
    /\ ctl' = "idle"
    /\ UNCHANGED <<mode, inputVars, running, io, req, snap, victim, pending, clientMap,
                   exchVars, stream, stats, trades, released>>

-----------------------------------------------------------------------------

Producer == \E kind \in Kind : \/ \E q \in Qty : SubmitOrder(q, kind)
                               \/ \E id \in OrderId, q \in 0 .. MaxQty : AmendOrder(id, q, kind)

IoThread == \/ IoPop \/ IoExit \/ IoMismatch \/ IoCancel \/ IoErase \/ IoModify
            \/ IoUnencodable \/ IoTrack \/ IoFailed \/ IoSimulate \/ IoSimFill
            \/ PostRefused \/ PostLost \/ \E answered \in BOOLEAN : PostAccepted(answered)
            \/ \E parses \in BOOLEAN : IoAck(parses)

UserStream == StreamDeliver \/ StreamCallback

Connection == StreamDisconnect \/ StreamReconnect

Exchange == \E c \in ClientId : ExchangeExpire(c) \/ \E q \in Qty : ExchangeTrade(c, q)

Controller == \/ Start \/ Stop \/ StopJoin \/ StopReturn
              \/ \E id \in OrderId : StopSkip(id) \/ StopDelete(id) \/ StopErase(id)

Next == Producer \/ IoThread \/ UserStream \/ Connection \/ Exchange \/ Controller

Spec == Init /\ [][Next]_vars

(* The three threads run; a REST call ends (doRequest gives up after two   *)
(* attempts).  Producers, the exchange, the network and the caller of      *)
(* stop() promise nothing.                                                 *)
FairSpec == /\ Spec
            /\ WF_vars(IoThread)
            /\ WF_vars(UserStream)
            /\ WF_vars(ctl \notin {"idle", "up"} /\ Controller)

-----------------------------------------------------------------------------
PendingOrder == [status : {"none", "pending", "accepted", "partial"},
                 qty : 0 .. MaxQty, filled : 0 .. MaxQty]
ExchangeOrder == [state : {"none", "open", "done"}, left : 0 .. MaxQty]
Sending == [id : OrderId, qty : 0 .. MaxQty, kind : Kind, attempt : 0 .. MaxAttempts]
Receiving == [up : BOOLEAN, id : OrderId \cup {0}, fill : Fill \cup {NoFill}]
Counter == {"received", "sent", "rejected", "cancelled", "modified", "fills", "fillErrors",
            "mismatch", "refused", "shutdown"}

(* Every variable keeps its type. *)
TypeOK ==
    /\ mode \in Modes
    /\ queue \in Seq(Request) /\ Len(queue) <= QueueCap
    /\ pushed \in 0 .. MaxRequests /\ nextId \in 1 .. MaxRequests + 1
    /\ running \in BOOLEAN
    /\ io \in {"none", "loop", "process", "erase", "post", "ack", "failed", "simFill", "exited"}
    /\ req \in Sending
    /\ io \in {"process", "post"} => req.attempt < MaxAttempts
    /\ ctl \in {"idle", "up", "joining", "cancelling", "erasing"}
    /\ snap \subseteq OrderId /\ victim \in OrderId
    /\ pending \in [OrderId -> PendingOrder]
    /\ clientMap \in [ClientId -> OrderId \cup {0}]
    /\ exch \in [ClientId -> ExchangeOrder]
    /\ events \in Seq(Event)
    /\ stream \in Receiving
    /\ stats \in [Counter -> Nat]
    /\ trades \in [Fill -> Seq(Fate)]
    /\ released \subseteq OrderId

\* a fill on its way to the callback
UnderWay(f) == InFlight(f) \/ stream.fill = f

(* Every fill the exchange trades is traded once and then handed to        *)
(* fill_callback_ once, or counted as a fill error, or gone with a broken  *)
(* connection, or still on its way: no interleaving of acks, fills,        *)
(* cancels and shutdown duplicates, loses or invents a fill.               *)
FillConservation ==
    \A f \in Fill :
        \/ trades[f] = <<>> /\ ~UnderWay(f)
        \/ trades[f] = <<"traded">> /\ UnderWay(f)
        \/ trades[f] \in {<<"traded", fate>> : fate \in Fate \ {"traded"}} /\ ~UnderWay(f)

(* A fill finds no pending order only if the gateway itself cancelled or   *)
(* modified the order: tracking before the POST is early enough.           *)
DropsExplained ==
    \A f \in Fill : trades[f] = <<"traded", "dropped">> => clientMap[f.cid] \in released

(* Every request the I/O thread took is counted under exactly one outcome. *)
RequestsAccounted ==
    io \in {"loop", "exited"} =>
        stats.received = stats.mismatch + stats.modified + stats.sent
                         + (stats.rejected - stats.refused)
                         + (stats.cancelled - stats.shutdown)

(* What is in pending_orders_ can still be filled: an order that the       *)
(* gateway did not modify leaves it in the step that fills it up, and      *)
(* before start() and after stop() nothing is there, whatever              *)
(* acknowledgements and fills arrive during stop() or after it.            *)
PendingCanBeFilled ==
    \A id \in OrderId : Present(id) =>
        ctl # "idle" /\ (id \notin released => pending[id].filled < pending[id].qty)

(* A request queued while the I/O thread lives is processed, even if       *)
(* stop() is called right after it was queued.                             *)
QueuedAreProcessed ==
    \A k \in 1 .. MaxRequests :
        (pushed >= k /\ io \notin {"none", "exited"}) ~> (stats.received >= k)

(* stop() returns. *)
StopReturns == (ctl = "joining") ~> (ctl = "idle")

(* "Cancel all outstanding orders on shutdown", order_gateway.hpp:151: no  *)
(* order is open at the exchange once stop() has returned.                 *)
ShutdownCancelsAll ==
    ctl = "idle" => \A c \in ClientId : exch[c].state # "open"
=============================================================================
