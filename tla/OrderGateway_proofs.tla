------------------------ MODULE OrderGateway_proofs ------------------------
(***************************************************************************)
(* Machine-checked safety of OrderGateway for every number of requests,    *)
(* every quantity, both execution modes and a user stream that may break.  *)
(***************************************************************************)
EXTENDS OrderGateway, SequenceTheorems, TLAPS

-----------------------------------------------------------------------------
(* The inductive invariant *)

\* the request in the hands of the I/O thread
Busy == IF io \in {"process", "erase", "post", "ack", "failed", "simFill"} THEN 1 ELSE 0

\* the outcomes of requests that OrderGatewayStats counts
Outcomes == stats.mismatch + stats.modified + stats.sent + (stats.rejected - stats.refused)
            + (stats.cancelled - stats.shutdown)

(* Requests are counted when they are taken and under one outcome each.    *)
CountInv ==
    /\ stats.received + Len(queue) = pushed
    /\ Busy = 1 => stats.received > 0
    /\ stats.received = Busy + Outcomes

(* What the I/O thread knows about the order it is sending, and that a     *)
(* clientOrderId is used for one POST only.                                *)
SendInv ==
    /\ \A c \in ClientId : c > stats.received \/ (c = stats.received /\ io = "process") =>
          clientMap[c] = 0 /\ exch[c].state = "none"
    /\ \A c \in ClientId : exch[c].state # "none" => clientMap[c] # 0
    /\ \A c \in ClientId : clientMap[c] # 0 => mode = "real"
    /\ io \in {"post", "ack", "failed"} => clientMap[Cid] = req.id
    /\ io \in {"post", "ack", "failed", "simFill"} => req.qty > 0
    /\ io = "simFill" => mode = "sim"

(* stop() has joined the I/O thread when it lists the pending orders, and  *)
(* what it does not list is not there.                                     *)
StopInv ==
    /\ ctl \in {"cancelling", "erasing"} =>
          io = "exited" /\ \A id \in OrderId : Present(id) => id \in snap
    /\ ctl = "idle" => io \in {"none", "exited"} /\ \A id \in OrderId : ~Present(id)

(* An order that was not modified is erased in the step that fills it up.  *)
RoomInv == \A id \in OrderId : Present(id) /\ id \notin released =>
              pending[id].filled < pending[id].qty

(* The messages of an order arrive in the order the exchange sent them.    *)
IsFill(i) == events[i].type = "fill"
WireInv ==
    /\ \A c \in ClientId : exch[c].state = "open" => exch[c].left > 0
    /\ \A i \in DOMAIN events : exch[events[i].cid].state # "none"
    /\ \A i \in DOMAIN events : IsFill(i) => exch[events[i].cid].left <= events[i].left
    /\ \A i, j \in DOMAIN events : i < j /\ IsFill(i) /\ IsFill(j) /\ events[i].cid = events[j].cid
          => events[j].left + events[j].qty <= events[i].left
    /\ \A i \in DOMAIN events : events[i].type = "reject" =>
          /\ exch[events[i].cid].state = "done" /\ exch[events[i].cid].left > 0
          /\ \A j \in DOMAIN events : j > i => events[j].cid # events[i].cid

(* A fill handed to the callback is of a mapped order and older than the   *)
(* ones of its order that are still under way.                             *)
HandInv ==
    /\ stream.id = 0 <=> stream.fill = NoFill
    /\ stream.fill # NoFill => /\ exch[stream.fill.cid].state # "none"
                               /\ exch[stream.fill.cid].left <= stream.fill.left
                               /\ \A i \in DOMAIN events :
                                     IsFill(i) /\ events[i].cid = stream.fill.cid
                                     => events[i].left < stream.fill.left

(* A fill is recorded once it is traded. *)
TradeInv ==
    \A f \in Fill : trades[f] # <<>> =>
        \/ mode = "real" /\ exch[f.cid].state # "none" /\ exch[f.cid].left <= f.left
        \/ /\ mode = "sim"
           /\ f.cid < stats.received \/ (f.cid = stats.received /\ io \notin {"process", "simFill"})

\* a fill or a reject of c may still arrive
Awaited(c) ==
    \/ exch[c].state = "open"
    \/ io = "post" /\ c = Cid /\ exch[c].state = "none"
    \/ \E i \in DOMAIN events : events[i].cid = c /\ events[i].type # "ack"

\* the pending entry id has room for all that is open, traded or to be sent of c
RoomFor(c, id) ==
    /\ Present(id)
    /\ exch[c].state = "none" => pending[id].filled = 0 /\ pending[id].qty = req.qty
    /\ exch[c].state # "none" => pending[id].filled + exch[c].left <= pending[id].qty
    /\ \A i \in DOMAIN events : IsFill(i) /\ events[i].cid = c =>
          pending[id].filled + events[i].qty + events[i].left <= pending[id].qty

(* While the exchange may still report on an order that the gateway has    *)
(* not cancelled or modified, the order is pending with room for it, and   *)
(* it was sent under one clientOrderId.                                    *)
LiveInv ==
    \A c \in ClientId : \A id \in OrderId :
        clientMap[c] = id /\ id \notin released /\ Awaited(c) =>
            RoomFor(c, id) /\ \A d \in ClientId : clientMap[d] = id /\ Awaited(d) => d = c

-----------------------------------------------------------------------------
(* Types *)

LEMMA TypeInit == Init => TypeOK
<1> SUFFICES ASSUME Init PROVE TypeOK OBVIOUS
<1> USE GatewayAssumption
<1>1. 1 \in OrderId BY DEF OrderId
<1>2. req \in Sending BY <1>1 DEF Init, Sending, Kind, MaxAttempts
<1>3. pending \in [OrderId -> PendingOrder] BY DEF Init, PendingOrder, NoOrder
<1>4. exch \in [ClientId -> ExchangeOrder] BY DEF Init, ExchangeOrder
<1>5. stream \in Receiving BY DEF Init, Receiving
<1>6. stats \in [Counter -> Nat] BY DEF Init, Counter
<1>7. trades \in [Fill -> Seq(Fate)] BY DEF Init
<1>8. queue = <<>> /\ events = <<>> BY DEF Init
<1>9. clientMap \in [ClientId -> OrderId \cup {0}] BY DEF Init
<1>10. /\ mode \in Modes /\ pushed = 0 /\ nextId = 1 /\ io = "none" /\ ctl = "idle"
       /\ snap = {} /\ victim = 1 /\ released = {}
       BY DEF Init
<1>11. queue \in Seq(Request) /\ Len(queue) <= QueueCap /\ events \in Seq(Event) BY <1>8
<1>12. running \in BOOLEAN BY Zenon DEF Init
<1> QED BY <1>1, <1>2, <1>3, <1>4, <1>5, <1>6, <1>7, <1>9, <1>10, <1>11, <1>12 DEF TypeOK

-----------------------------------------------------------------------------
(* What the updates the actions are made of do *)

(* A counter of OrderGatewayStats goes up and the others stay. *)
LEMMA CountIs ==
    ASSUME TypeOK, NEW field \in Counter, Count(field)
    PROVE  /\ stats' \in [Counter -> Nat]
           /\ stats'[field] = stats[field] + 1
           /\ \A other \in Counter : other # field => stats'[other] = stats[other]
BY DEF TypeOK, Count

(* pending_orders_.erase *)
LEMMA EraseIs ==
    ASSUME TypeOK, NEW id \in OrderId, Erase(id)
    PROVE  /\ pending' \in [OrderId -> PendingOrder] /\ ~Present(id)'
           /\ \A j \in OrderId : j # id => pending'[j] = pending[j]
<1>1. NoOrder \in PendingOrder BY GatewayAssumption DEF NoOrder, PendingOrder
<1> QED BY <1>1 DEF TypeOK, Erase, Present

LEMMA AcknowledgeIs ==
    ASSUME TypeOK, NEW id \in OrderId, Acknowledge(id)
    PROVE  /\ pending' \in [OrderId -> PendingOrder]
           /\ \A j \in OrderId : /\ Present(j)' <=> Present(j)
                                 /\ pending'[j].qty = pending[j].qty
                                 /\ pending'[j].filled = pending[j].filled
<1>1. CASE ~Present(id) BY <1>1 DEF TypeOK, Acknowledge, Present
<1>2. CASE Present(id)
  <2> DEFINE new == [pending[id] EXCEPT !.status = "accepted"]
  <2>1. pending[id] \in PendingOrder BY DEF TypeOK
  <2>2. new \in PendingOrder /\ new.status = "accepted" /\ new.qty = pending[id].qty
        /\ new.filled = pending[id].filled
        BY <2>1 DEF PendingOrder
  <2>3. new # NoOrder BY <2>2 DEF NoOrder
  <2>4. pending' = [pending EXCEPT ![id] = new] BY <1>2 DEF Acknowledge
  <2> HIDE DEF new
  <2> QED BY <1>2, <2>2, <2>3, <2>4 DEF TypeOK, Present
<1> QED BY <1>1, <1>2

LEMMA ApplyFillIs ==
    ASSUME TypeOK, NEW id \in OrderId, NEW q \in Qty, ApplyFill(id, q)
    PROVE  /\ pending' \in [OrderId -> PendingOrder]
           /\ \A j \in OrderId : j # id => pending'[j] = pending[j]
           /\ pending[id].filled + q >= pending[id].qty => ~Present(id)'
           /\ pending[id].filled + q < pending[id].qty =>
                 /\ Present(id)' /\ pending'[id].qty = pending[id].qty
                 /\ pending'[id].filled = pending[id].filled + q
<1> DEFINE old == pending[id]
           more == [status |-> "partial", qty |-> old.qty, filled |-> old.filled + q]
<1>1. old \in PendingOrder /\ NoOrder \in PendingOrder
      BY GatewayAssumption DEF TypeOK, NoOrder, PendingOrder
<1>2. q \in Nat /\ q > 0 BY GatewayAssumption DEF Qty
<1>3. pending' = [pending EXCEPT ![id] = IF old.filled + q >= old.qty THEN NoOrder ELSE more]
      BY DEF ApplyFill
<1>4. /\ old.filled + q < old.qty => more \in PendingOrder /\ more # NoOrder
      /\ more.qty = old.qty /\ more.filled = old.filled + q /\ old.filled \in Nat /\ old.qty \in Nat
      BY <1>1, <1>2, GatewayAssumption DEF PendingOrder, NoOrder
<1>5. old = pending[id] OBVIOUS
<1> HIDE DEF old, more
<1>6. CASE old.filled + q >= old.qty BY <1>1, <1>2, <1>3, <1>4, <1>5, <1>6 DEF TypeOK, Present
<1>7. CASE old.filled + q < old.qty BY <1>1, <1>2, <1>3, <1>4, <1>5, <1>7 DEF TypeOK, Present
<1> QED BY <1>2, <1>4, <1>6, <1>7

(* A modify request replaces the quantity. *)
LEMMA ModifyIs ==
    ASSUME TypeOK, IoModify
    PROVE  /\ pending' \in [OrderId -> PendingOrder]
           /\ \A j \in OrderId : (Present(j)' <=> Present(j)) /\ (j # req.id => pending'[j] = pending[j])
<1>1. req.id \in OrderId /\ req.qty \in 0 .. MaxQty BY DEF TypeOK, Sending
<1> DEFINE new == [pending[req.id] EXCEPT !.qty = req.qty]
<1>2. pending[req.id] \in PendingOrder /\ pending[req.id].status # "none"
      BY <1>1 DEF TypeOK, IoModify
<1>3. new \in PendingOrder /\ new.status # "none" BY <1>1, <1>2 DEF PendingOrder
<1>4. new # NoOrder /\ pending[req.id] # NoOrder BY <1>2, <1>3 DEF NoOrder
<1>5. pending' = [pending EXCEPT ![req.id] = new] BY DEF IoModify
<1> HIDE DEF new
<1> QED BY <1>1, <1>3, <1>4, <1>5 DEF TypeOK, Present

LEMMA TrackIs ==
    ASSUME TypeOK, req.qty # 0, trackPending
    PROVE  /\ pending' \in [OrderId -> PendingOrder]
           /\ \A j \in OrderId : j # req.id => pending'[j] = pending[j]
           /\ \A j \in OrderId : j = req.id =>
                 Present(j)' /\ pending'[j].qty = req.qty /\ pending'[j].filled = 0
<1>1. req.id \in OrderId /\ req.qty \in 0 .. MaxQty BY DEF TypeOK, Sending
<1> DEFINE new == [status |-> "pending", qty |-> req.qty, filled |-> 0]
<1>2. new \in PendingOrder /\ new # NoOrder /\ new.qty = req.qty /\ new.filled = 0
      BY <1>1, GatewayAssumption DEF PendingOrder, NoOrder
<1>3. pending' = [pending EXCEPT ![req.id] = new] BY DEF trackPending
<1> HIDE DEF new
<1> QED BY <1>1, <1>2, <1>3 DEF TypeOK, Present

(* What has become of a fill is written down once. *)
LEMMA RecordIs ==
    ASSUME TypeOK, NEW fills, NEW fates \in Seq(Fate), Record(fills, fates)
    PROVE  /\ trades' \in [Fill -> Seq(Fate)]
           /\ \A f \in Fill : /\ f \in fills => trades'[f] = trades[f] \o fates
                              /\ f \notin fills => trades'[f] = trades[f]
BY DEF TypeOK, Record

LEMMA RecordOne ==
    ASSUME TypeOK, NEW f \in Fill, NEW fates, Record({f}, fates)
    PROVE  trades'[f] = trades[f] \o fates
BY DEF TypeOK, Record

(* A user-stream message. *)
LEMMA EmitIs ==
    ASSUME TypeOK, NEW e \in Event, Emit(e)
    PROVE  /\ events' \in Seq(Event)
           /\ ~stream.up => events' = events
           /\ stream.up => /\ Len(events') = Len(events) + 1 /\ events'[Len(events) + 1] = e
                           /\ \A i \in DOMAIN events : i \in DOMAIN events' /\ events'[i] = events[i]
                           /\ \A i \in DOMAIN events' : i \in DOMAIN events \/ i = Len(events) + 1
BY DEF TypeOK, Emit

(* Two counters go up in one step. *)
LEMMA CountTwoIs ==
    ASSUME TypeOK, NEW a \in Counter, NEW b \in Counter, a # b,
           stats' = [stats EXCEPT ![a] = @ + 1, ![b] = @ + 1]
    PROVE  /\ stats' \in [Counter -> Nat]
           /\ stats'[a] = stats[a] + 1 /\ stats'[b] = stats[b] + 1
           /\ \A other \in Counter : other \notin {a, b} => stats'[other] = stats[other]
<1> DEFINE mid == [stats EXCEPT ![a] = @ + 1]
<1>1. mid \in [Counter -> Nat] /\ mid[a] = stats[a] + 1
      /\ \A other \in Counter : other # a => mid[other] = stats[other]
      BY DEF TypeOK
<1>2. stats' = [mid EXCEPT ![b] = mid[b] + 1] OBVIOUS
<1> HIDE DEF mid
<1> QED BY <1>1, <1>2

(* The request being processed keeps its order, quantity and kind. *)
LEMMA AttemptIs ==
    ASSUME TypeOK, req.attempt < MaxAttempts, req' = [req EXCEPT !.attempt = @ + 1]
    PROVE  /\ req' \in Sending /\ req'.id = req.id /\ req'.qty = req.qty
           /\ req'.kind = req.kind /\ req'.attempt = req.attempt + 1
<1>1. req \in Sending BY DEF TypeOK
<1>2. /\ req.id \in OrderId /\ req.qty \in 0 .. MaxQty /\ req.kind \in Kind /\ req.attempt \in 0 .. 2
      /\ req = [id |-> req.id, qty |-> req.qty, kind |-> req.kind, attempt |-> req.attempt]
      BY <1>1 DEF Sending, MaxAttempts
<1>3. req.attempt + 1 \in 0 .. 2 BY <1>2 DEF MaxAttempts
<1>4. req' = [id |-> req.id, qty |-> req.qty, kind |-> req.kind, attempt |-> req.attempt + 1]
      BY <1>2
<1> QED BY <1>2, <1>3, <1>4 DEF Sending, MaxAttempts

LEMMA TypeProducer == ASSUME TypeOK, Producer PROVE TypeOK'
<1> USE GatewayAssumption DEF inputVars, ctlVars, exchVars
<1>1. ASSUME NEW r \in Request, Enqueue(r)
      PROVE  queue' \in Seq(Request) /\ Len(queue') <= QueueCap /\ pushed' \in 0 .. MaxRequests
      BY <1>1 DEF Enqueue, TypeOK
<1>2. ASSUME NEW q \in Qty, NEW kind \in Kind, SubmitOrder(q, kind) PROVE TypeOK'
  <2>1. [id |-> nextId, qty |-> q, kind |-> kind] \in Request
        BY <1>2 DEF SubmitOrder, Request, Qty
  <2>2. nextId' \in 1 .. MaxRequests + 1 BY <1>2 DEF SubmitOrder, OrderId
  <2> QED BY <1>1, <1>2, <2>1, <2>2 DEF SubmitOrder, TypeOK
<1>3. ASSUME NEW id \in OrderId, NEW q \in 0 .. MaxQty, NEW kind \in Kind, AmendOrder(id, q, kind)
      PROVE TypeOK'
  <2>1. [id |-> id, qty |-> q, kind |-> kind] \in Request BY DEF Request
  <2> QED BY <1>1, <1>3, <2>1 DEF AmendOrder, TypeOK
<1> QED BY <1>2, <1>3 DEF Producer

(* The I/O thread. *)
LEMMA TypeIo == ASSUME TypeOK, CountInv, IoThread PROVE TypeOK'
<1> USE GatewayAssumption DEF inputVars, ctlVars, exchVars
<1>0. {"received", "sent", "rejected", "cancelled", "modified", "fills", "fillErrors",
       "mismatch", "refused", "shutdown"} = Counter
      BY DEF Counter
<1>1. CASE IoPop
  <2>1. Head(queue) \in Request /\ queue' \in Seq(Request) /\ Len(queue') <= QueueCap
        BY <1>1 DEF IoPop, TypeOK
  <2>2. req' \in Sending /\ req'.attempt = 0
        BY <1>1, <2>1 DEF IoPop, Request, Sending, MaxAttempts
  <2>3. stats' \in [Counter -> Nat] BY <1>0, <1>1, CountIs DEF IoPop
  <2> QED BY <1>1, <2>1, <2>2, <2>3 DEF IoPop, TypeOK, MaxAttempts
<1>2. CASE IoExit BY <1>2 DEF IoExit, TypeOK
<1>3. CASE IoMismatch
  <2>1. stats' \in [Counter -> Nat] BY <1>0, <1>3, CountIs DEF IoMismatch
  <2> QED BY <1>3, <2>1 DEF IoMismatch, TypeOK
<1>4. CASE IoCancel
  <2>1. exch' \in [ClientId -> ExchangeOrder]
    <3>1. CASE exch' = exch BY <3>1 DEF TypeOK
    <3>2. CASE Delete(req.id) BY <3>2 DEF TypeOK, Delete, ExchangeOrder
    <3> QED BY <1>4, <3>1, <3>2 DEF IoCancel
  <2> QED BY <1>4, <2>1 DEF IoCancel, TypeOK
<1>5. CASE IoErase
  <2>1. stats' \in [Counter -> Nat] BY <1>0, <1>5, CountIs DEF IoErase
  <2>2. req.id \in OrderId BY DEF TypeOK, Sending
  <2>3. pending' \in [OrderId -> PendingOrder] BY <1>5, <2>2, EraseIs DEF IoErase
  <2> QED BY <1>5, <2>1, <2>2, <2>3 DEF IoErase, TypeOK
<1>6. CASE IoModify
  <2>1. stats' \in [Counter -> Nat] BY <1>0, <1>6, CountIs DEF IoModify
  <2>2. req.id \in OrderId BY DEF TypeOK, Sending
  <2>3. pending' \in [OrderId -> PendingOrder] BY <1>6, ModifyIs
  <2> QED BY <1>6, <2>1, <2>2, <2>3 DEF IoModify, TypeOK
<1>7. CASE IoUnencodable
  <2>1. stats' \in [Counter -> Nat] BY <1>0, <1>7, CountIs DEF IoUnencodable
  <2> QED BY <1>7, <2>1 DEF IoUnencodable, TypeOK
<1>8. CASE IoTrack
  <2>1. pending' \in [OrderId -> PendingOrder] BY <1>8, TrackIs DEF IoTrack, IsNew
  <2>2. req.id \in OrderId BY DEF TypeOK, Sending
  <2>3. clientMap' \in [ClientId -> OrderId \cup {0}] BY <1>8, <2>2 DEF IoTrack, TypeOK
  <2> QED BY <1>8, <2>1, <2>3 DEF IoTrack, IsNew, TypeOK
<1>9. CASE IoFailed
  <2>1. stats' \in [Counter -> Nat] BY <1>0, <1>9, CountIs DEF IoFailed
  <2> QED BY <1>9, <2>1 DEF IoFailed, TypeOK
<1>10. CASE IoSimulate
  <2>1. pending' \in [OrderId -> PendingOrder] BY <1>10, TrackIs DEF IoSimulate, IsNew
  <2> QED BY <1>10, <2>1 DEF IoSimulate, TypeOK
<1>11. CASE IoSimFill
  <2>1. stats' \in [Counter -> Nat] BY <1>0, <1>11, CountTwoIs DEF IoSimFill
  <2>2. req.id \in OrderId /\ req.qty \in 0 .. MaxQty BY DEF TypeOK, Sending
  <2>3. <<"traded", "delivered">> \in Seq(Fate) BY DEF Fate
  <2>4. trades' \in [Fill -> Seq(Fate)] BY <1>11, <2>3, RecordIs DEF IoSimFill
  <2>5. pending' \in [OrderId -> PendingOrder]
    <3>1. CASE req.qty \in Qty BY <1>11, <2>2, <3>1, ApplyFillIs DEF IoSimFill
    <3>2. CASE req.qty = 0
      <4>1. pending[req.id] \in PendingOrder /\ NoOrder \in PendingOrder
            BY <2>2 DEF TypeOK, PendingOrder, NoOrder
      <4>2. [status |-> "partial", qty |-> pending[req.id].qty,
             filled |-> pending[req.id].filled + req.qty] \in PendingOrder
            BY <3>2, <4>1 DEF PendingOrder
      <4> QED BY <1>11, <4>1, <4>2 DEF IoSimFill, ApplyFill, TypeOK
    <3> QED BY <2>2, <3>1, <3>2 DEF Qty
  <2> QED BY <1>11, <2>1, <2>4, <2>5 DEF IoSimFill, TypeOK
<1>12. CASE PostRefused BY <1>12 DEF PostRefused, TypeOK
<1>13. CASE PostLost
  <2>1. req' \in Sending /\ req'.attempt = req.attempt + 1 /\ req.attempt \in Nat
        BY <1>13, AttemptIs DEF PostLost, TypeOK, Sending
  <2> QED BY <1>13, <2>1 DEF PostLost, AfterError, MaxAttempts, TypeOK
<1>14. ASSUME NEW answered \in BOOLEAN, PostAccepted(answered) PROVE TypeOK'
  <2>1. req' \in Sending /\ req'.attempt = req.attempt + 1 /\ req.attempt \in Nat
        BY <1>14, AttemptIs DEF PostAccepted, TypeOK, Sending
  <2>2. Cid \in ClientId
    <3>1. Busy = 1 /\ stats.received \in Nat BY <1>0, <1>14 DEF PostAccepted, Busy, TypeOK
    <3>2. stats.received > 0 /\ stats.received + Len(queue) = pushed BY <3>1 DEF CountInv
    <3>3. pushed \in 0 .. MaxRequests /\ Len(queue) \in Nat BY DEF TypeOK
    <3> QED BY <3>1, <3>2, <3>3 DEF Cid, ClientId
  <2>3. [state |-> "open", left |-> req.qty] \in ExchangeOrder BY DEF TypeOK, Sending, ExchangeOrder
  <2>4. exch' \in [ClientId -> ExchangeOrder] BY <1>14, <2>2, <2>3 DEF PostAccepted, TypeOK
  <2>5. [type |-> "ack", cid |-> Cid, left |-> 0, qty |-> 0] \in Event BY <2>2 DEF Event
  <2>6. events' \in Seq(Event) BY <1>14, <2>5, EmitIs DEF PostAccepted
  <2> QED BY <1>14, <2>1, <2>4, <2>6 DEF PostAccepted, AfterError, MaxAttempts, TypeOK
<1>15. ASSUME NEW parses \in BOOLEAN, IoAck(parses) PROVE TypeOK'
  <2>1. stats' \in [Counter -> Nat] BY <1>0, <1>15, CountIs DEF IoAck
  <2>2. req.id \in OrderId BY DEF TypeOK, Sending
  <2>3. pending' \in [OrderId -> PendingOrder]
        BY <1>15, <2>2, AcknowledgeIs DEF IoAck, TypeOK
  <2> QED BY <1>15, <2>1, <2>3 DEF IoAck, TypeOK
<1> QED BY <1>1, <1>2, <1>3, <1>4, <1>5, <1>6, <1>7, <1>8, <1>9, <1>10, <1>11, <1>12, <1>13,
           <1>14, <1>15 DEF IoThread

(* The message that is read is the oldest one and the others move up. *)
LEMMA ReadIs ==
    ASSUME TypeOK, events # <<>>, events' = Tail(events)
    PROVE  /\ events' \in Seq(Event) /\ Head(events) = events[1] /\ events[1] \in Event
           /\ 1 \in DOMAIN events
           /\ \A i \in DOMAIN events' : i + 1 \in DOMAIN events /\ events'[i] = events[i + 1]
           /\ \A i \in DOMAIN events : i # 1 => i - 1 \in DOMAIN events'
                                               /\ events'[i - 1] = events[i]
<1>1. events \in Seq(Event) BY DEF TypeOK
<1>2. Len(events) \in Nat \ {0} /\ DOMAIN events = 1 .. Len(events) BY <1>1
<1>3. /\ events' \in Seq(Event) /\ Len(events') = Len(events) - 1
      /\ \A i \in 1 .. Len(events) - 1 : events'[i] = events[i + 1]
      BY <1>1
<1>4. DOMAIN events' = 1 .. Len(events) - 1 BY <1>3
<1>5. ASSUME NEW i \in DOMAIN events, i # 1
      PROVE  i - 1 \in DOMAIN events' /\ events'[i - 1] = events[i]
  <2>1. i - 1 \in 1 .. Len(events) - 1 /\ (i - 1) + 1 = i BY <1>2, <1>5
  <2> QED BY <1>3, <1>4, <2>1
<1> QED BY <1>1, <1>2, <1>3, <1>4, <1>5

(* A message is about an order that clientMap knows. *)
LEMMA EventOrder ==
    ASSUME TypeOK, SendInv, WireInv, NEW i \in DOMAIN events
    PROVE  /\ events[i] \in Event /\ events[i].cid \in ClientId
           /\ clientMap[events[i].cid] \in OrderId /\ mode = "real"
<1>1. events[i] \in Event BY DEF TypeOK
<1>2. events[i].cid \in ClientId BY <1>1 DEF Event
<1>3. exch[events[i].cid].state # "none" BY DEF WireInv
<1>4. clientMap[events[i].cid] # 0 /\ mode = "real" BY <1>2, <1>3 DEF SendInv
<1> QED BY <1>1, <1>2, <1>4 DEF TypeOK

(* A message that is a fill names a fill. *)
LEMMA FillEvent ==
    ASSUME NEW e \in Event, e.type = "fill"
    PROVE  FillOf(e) \in Fill /\ e.qty \in Qty
BY DEF Event, FillOf, Fill

(* The user stream and its connection. *)
LEMMA TypeStream ==
    ASSUME TypeOK, SendInv, WireInv, UserStream \/ Connection
    PROVE  TypeOK'
<1> USE GatewayAssumption DEF inputVars, ctlVars, exchVars
<1>0. /\ {"received", "sent", "rejected", "cancelled", "modified", "fills", "fillErrors",
          "mismatch", "refused", "shutdown"} = Counter
      /\ <<"delivered">> \in Seq(Fate) /\ <<"dropped">> \in Seq(Fate) /\ <<"lost">> \in Seq(Fate)
      BY DEF Counter, Fate
<1>1. CASE StreamDeliver
  <2> DEFINE e == Head(events)
             id == clientMap[e.cid]
  <2>1. /\ events' \in Seq(Event) /\ e = events[1] /\ e \in Event /\ 1 \in DOMAIN events
        BY <1>1, ReadIs DEF StreamDeliver
  <2>2. id \in OrderId BY <2>1, EventOrder
  <2>3. CASE e.type = "ack"
    <3>1. Acknowledge(id) /\ UNCHANGED <<stream, stats, trades>> BY <1>1, <2>3 DEF StreamDeliver
    <3>2. pending' \in [OrderId -> PendingOrder] BY <2>2, <3>1, AcknowledgeIs
    <3> QED BY <1>1, <2>1, <3>1, <3>2 DEF StreamDeliver, TypeOK
  <2>4. CASE e.type = "reject"
    <3>1. /\ Erase(id) /\ UNCHANGED <<stream, trades>>
          /\ stats' = [stats EXCEPT !.rejected = @ + 1, !.refused = @ + 1]
          BY <1>1, <2>4 DEF StreamDeliver
    <3>2. pending' \in [OrderId -> PendingOrder] BY <2>2, <3>1, EraseIs
    <3>3. stats' \in [Counter -> Nat] BY <1>0, <3>1, CountTwoIs
    <3> QED BY <1>1, <2>1, <3>1, <3>2, <3>3 DEF StreamDeliver, TypeOK
  <2>5. CASE e.type = "fill" /\ ~Present(id)
    <3>1. /\ Count("fillErrors") /\ Record({FillOf(e)}, <<"dropped">>)
          /\ UNCHANGED <<pending, stream>>
          BY <1>1, <2>5 DEF StreamDeliver
    <3>2. stats' \in [Counter -> Nat] BY <1>0, <3>1, CountIs
    <3>3. trades' \in [Fill -> Seq(Fate)] BY <1>0, <3>1, RecordIs
    <3> QED BY <1>1, <2>1, <3>1, <3>2, <3>3 DEF StreamDeliver, TypeOK
  <2>6. CASE e.type = "fill" /\ Present(id)
    <3>1. /\ ApplyFill(id, e.qty) /\ stream' = [stream EXCEPT !.id = id, !.fill = FillOf(e)]
          /\ UNCHANGED <<stats, trades>>
          BY <1>1, <2>6 DEF StreamDeliver
    <3>2. FillOf(e) \in Fill /\ e.qty \in Qty BY <2>1, <2>6, FillEvent
    <3>3. pending' \in [OrderId -> PendingOrder] BY <2>2, <3>1, <3>2, ApplyFillIs
    <3>4. stream' \in Receiving BY <2>2, <3>1, <3>2 DEF TypeOK, Receiving
    <3> QED BY <1>1, <2>1, <3>1, <3>3, <3>4 DEF StreamDeliver, TypeOK
  <2>7. e.type \in {"ack", "reject", "fill"} BY <2>1 DEF Event
  <2> QED BY <2>3, <2>4, <2>5, <2>6, <2>7
<1>2. CASE StreamCallback
  <2>1. stats' \in [Counter -> Nat] BY <1>0, <1>2, CountIs DEF StreamCallback
  <2>2. trades' \in [Fill -> Seq(Fate)] BY <1>0, <1>2, RecordIs DEF StreamCallback
  <2>3. stream' \in Receiving BY <1>2 DEF StreamCallback, TypeOK, Receiving
  <2> QED BY <1>2, <2>1, <2>2, <2>3 DEF StreamCallback, TypeOK
<1>3. CASE StreamDisconnect
  <2>1. trades' \in [Fill -> Seq(Fate)] BY <1>0, <1>3, RecordIs DEF StreamDisconnect
  <2>2. stream' \in Receiving BY <1>3 DEF StreamDisconnect, TypeOK, Receiving
  <2> QED BY <1>3, <2>1, <2>2 DEF StreamDisconnect, TypeOK
<1>4. CASE StreamReconnect
  <2>1. stream' \in Receiving BY <1>4 DEF StreamReconnect, TypeOK, Receiving
  <2> QED BY <1>4, <2>1 DEF StreamReconnect, TypeOK
<1> QED BY <1>1, <1>2, <1>3, <1>4 DEF UserStream, Connection

(* What the exchange does. *)
LEMMA TypeExchange == ASSUME TypeOK, Exchange PROVE TypeOK'
<1> USE GatewayAssumption DEF inputVars, ctlVars, exchVars
<1>0. {"traded", "delivered", "dropped", "lost"} = Fate BY DEF Fate
<1>1. ASSUME NEW c \in ClientId, NEW q \in Qty, ExchangeTrade(c, q) PROVE TypeOK'
  <2> DEFINE f == [cid |-> c, left |-> exch[c].left - q, qty |-> q]
             e == [type |-> "fill", cid |-> c, left |-> f.left, qty |-> q]
             new == [state |-> IF f.left = 0 THEN "done" ELSE "open", left |-> f.left]
  <2>1. exch[c].left \in 0 .. MaxQty /\ q <= exch[c].left /\ q \in 1 .. MaxQty
        BY <1>1 DEF TypeOK, ExchangeOrder, ExchangeTrade, Qty
  <2>2. f.left \in 0 .. MaxQty - 1 BY <2>1
  <2>3. e \in Event /\ new \in ExchangeOrder BY <2>2 DEF Event, ExchangeOrder
  <2>4. /\ exch' = [exch EXCEPT ![c] = new] /\ Emit(e)
        /\ Record({f}, IF stream.up THEN <<"traded">> ELSE <<"traded", "lost">>)
        BY <1>1 DEF ExchangeTrade
  <2> HIDE DEF e, f, new
  <2>5. exch' \in [ClientId -> ExchangeOrder] BY <2>3, <2>4 DEF TypeOK
  <2>6. events' \in Seq(Event) BY <2>3, <2>4, EmitIs
  <2>7. (IF stream.up THEN <<"traded">> ELSE <<"traded", "lost">>) \in Seq(Fate) BY <1>0
  <2>8. trades' \in [Fill -> Seq(Fate)] BY <2>4, <2>7, RecordIs
  <2> QED BY <1>1, <2>5, <2>6, <2>8 DEF ExchangeTrade, TypeOK
<1>2. ASSUME NEW c \in ClientId, ExchangeExpire(c) PROVE TypeOK'
  <2>1. exch' \in [ClientId -> ExchangeOrder]
    <3>1. exch[c] \in ExchangeOrder BY DEF TypeOK
    <3>2. [exch[c] EXCEPT !.state = "done"] \in ExchangeOrder BY <3>1 DEF ExchangeOrder
    <3> QED BY <1>2, <3>2 DEF ExchangeExpire, TypeOK
  <2>2. [type |-> "reject", cid |-> c, left |-> 0, qty |-> 0] \in Event BY DEF Event
  <2>3. events' \in Seq(Event) BY <1>2, <2>2, EmitIs DEF ExchangeExpire
  <2> QED BY <1>2, <2>1, <2>3 DEF ExchangeExpire, TypeOK
<1> QED BY <1>1, <1>2 DEF Exchange

(* start() and stop(). *)
LEMMA TypeController == ASSUME TypeOK, Controller PROVE TypeOK'
<1> USE GatewayAssumption DEF inputVars, exchVars
<1>1. CASE Start \/ Stop \/ StopJoin \/ StopReturn
      BY <1>1 DEF Start, Stop, StopJoin, StopReturn, TypeOK
<1>2. ASSUME NEW id \in OrderId, StopSkip(id) PROVE TypeOK' BY <1>2 DEF StopSkip, TypeOK
<1>3. ASSUME NEW id \in OrderId, StopDelete(id) PROVE TypeOK'
  <2>1. exch' \in [ClientId -> ExchangeOrder] BY <1>3 DEF StopDelete, Delete, TypeOK, ExchangeOrder
  <2> QED BY <1>3, <2>1 DEF StopDelete, TypeOK
<1>4. ASSUME NEW id \in OrderId, StopErase(id) PROVE TypeOK'
  <2>1. pending' \in [OrderId -> PendingOrder] BY <1>4, EraseIs DEF StopErase
  <2>2. stats' \in [Counter -> Nat] BY <1>4, CountTwoIs DEF StopErase, Counter
  <2> QED BY <1>4, <2>1, <2>2 DEF StopErase, TypeOK
<1> QED BY <1>1, <1>2, <1>3, <1>4 DEF Controller

-----------------------------------------------------------------------------
(* Requests are accounted for *)

LEMMA CountersAre ==
    TypeOK => /\ stats.received \in Nat /\ stats.sent \in Nat /\ stats.rejected \in Nat
              /\ stats.cancelled \in Nat /\ stats.modified \in Nat /\ stats.mismatch \in Nat
              /\ stats.refused \in Nat /\ stats.shutdown \in Nat /\ Outcomes \in Int
              /\ Len(queue) \in Nat /\ pushed \in Nat /\ Busy \in {0, 1}
<1> SUFFICES ASSUME TypeOK PROVE CountersAre!2 OBVIOUS
<1>1. /\ stats.received \in Nat /\ stats.sent \in Nat /\ stats.rejected \in Nat
      /\ stats.cancelled \in Nat /\ stats.modified \in Nat /\ stats.mismatch \in Nat
      /\ stats.refused \in Nat /\ stats.shutdown \in Nat
      BY DEF TypeOK, Counter
<1>2. Len(queue) \in Nat /\ pushed \in Nat BY DEF TypeOK
<1>3. Outcomes \in Int BY <1>1 DEF Outcomes
<1>4. Busy \in {0, 1} BY DEF Busy
<1> QED BY <1>1, <1>2, <1>3, <1>4

(* A step that counts the request in hand, or another one. *)
LEMMA OutcomeCounted ==
    ASSUME TypeOK,
           NEW field \in {"mismatch", "modified", "sent", "rejected", "cancelled"}, Count(field)
    PROVE  stats'.received = stats.received /\ Outcomes' = Outcomes + 1
<1>1. field \in Counter BY DEF Counter
<1>2. /\ stats'[field] = stats[field] + 1
      /\ \A other \in Counter : other # field => stats'[other] = stats[other]
      BY <1>1, CountIs
<1>3. stats'.received = stats.received /\ stats'.refused = stats.refused
      /\ stats'.shutdown = stats.shutdown
      BY <1>2 DEF Counter
<1>4. field # "mismatch" => stats'.mismatch = stats.mismatch BY <1>2 DEF Counter
<1>5. field # "modified" => stats'.modified = stats.modified BY <1>2 DEF Counter
<1>6. field # "sent" => stats'.sent = stats.sent BY <1>2 DEF Counter
<1>7. field # "rejected" => stats'.rejected = stats.rejected BY <1>2 DEF Counter
<1>8. field # "cancelled" => stats'.cancelled = stats.cancelled BY <1>2 DEF Counter
<1>9. /\ field = "mismatch" => stats'.mismatch = stats.mismatch + 1
      /\ field = "modified" => stats'.modified = stats.modified + 1
      /\ field = "sent" => stats'.sent = stats.sent + 1
      /\ field = "rejected" => stats'.rejected = stats.rejected + 1
      /\ field = "cancelled" => stats'.cancelled = stats.cancelled + 1
      BY <1>2
<1>10. /\ stats.received \in Nat /\ stats.sent \in Nat /\ stats.rejected \in Nat
       /\ stats.cancelled \in Nat /\ stats.modified \in Nat /\ stats.mismatch \in Nat
       /\ stats.refused \in Nat /\ stats.shutdown \in Nat
       BY CountersAre
<1>11. Outcomes' = Outcomes + 1
  <2>1. CASE field = "mismatch" BY <1>3, <1>4, <1>5, <1>6, <1>7, <1>8, <1>9, <1>10, <2>1 DEF Outcomes
  <2>2. CASE field = "modified" BY <1>3, <1>4, <1>5, <1>6, <1>7, <1>8, <1>9, <1>10, <2>2 DEF Outcomes
  <2>3. CASE field = "sent" BY <1>3, <1>4, <1>5, <1>6, <1>7, <1>8, <1>9, <1>10, <2>3 DEF Outcomes
  <2>4. CASE field = "rejected" BY <1>3, <1>4, <1>5, <1>6, <1>7, <1>8, <1>9, <1>10, <2>4 DEF Outcomes
  <2>5. CASE field = "cancelled" BY <1>3, <1>4, <1>5, <1>6, <1>7, <1>8, <1>9, <1>10, <2>5 DEF Outcomes
  <2> QED BY <2>1, <2>2, <2>3, <2>4, <2>5
<1> QED BY <1>3, <1>11

LEMMA CountStep == ASSUME TypeOK, TypeOK', CountInv, StopInv, [Next]_vars PROVE CountInv'
<1> USE DEF inputVars, ctlVars, exchVars
<1>t. /\ stats.received \in Nat /\ stats.sent \in Nat /\ stats.rejected \in Nat
      /\ stats.cancelled \in Nat /\ stats.modified \in Nat /\ stats.mismatch \in Nat
      /\ stats.refused \in Nat /\ stats.shutdown \in Nat
      BY CountersAre
<1>u. Outcomes \in Int /\ Len(queue) \in Nat /\ pushed \in Nat /\ Busy \in {0, 1} BY CountersAre
<1>0. Counter = {"received", "sent", "rejected", "cancelled", "modified", "fills", "fillErrors",
                 "mismatch", "refused", "shutdown"}
      BY DEF Counter
<1>1. ASSUME UNCHANGED <<queue, pushed>>, stats'.received = stats.received,
             Outcomes' = Outcomes, Busy' = Busy
      PROVE  CountInv'
      BY <1>t, <1>u, <1>1 DEF CountInv
<1>2. ASSUME Producer PROVE CountInv'
  <2>1. UNCHANGED <<stats, io>> /\ \E r : Enqueue(r)
        BY <1>2 DEF Producer, SubmitOrder, AmendOrder
  <2>2. pushed' = pushed + 1 /\ Len(queue') = Len(queue) + 1 BY <2>1 DEF Enqueue, TypeOK
  <2>3. Busy' = Busy /\ stats'.received = stats.received /\ Outcomes' = Outcomes
        BY <2>1 DEF Busy, Outcomes
  <2> QED BY <1>t, <1>u, <2>2, <2>3 DEF CountInv
<1>3. CASE IoPop
  <2>1. Len(queue') = Len(queue) - 1 /\ pushed' = pushed /\ io = "loop" /\ io' = "process"
        BY <1>3 DEF IoPop, TypeOK
  <2>2. Count("received") BY <1>3 DEF IoPop
  <2>3. /\ stats'.received = stats.received + 1
        /\ stats'.sent = stats.sent /\ stats'.rejected = stats.rejected
        /\ stats'.cancelled = stats.cancelled /\ stats'.modified = stats.modified
        /\ stats'.mismatch = stats.mismatch /\ stats'.refused = stats.refused
        /\ stats'.shutdown = stats.shutdown
        BY <1>0, <2>2, CountIs
  <2>4. Busy = 0 /\ Busy' = 1 /\ Outcomes' = Outcomes BY <2>1, <2>3 DEF Busy, Outcomes
  <2> QED BY <1>t, <1>u, <2>1, <2>3, <2>4 DEF CountInv
<1>4. ASSUME NEW field \in {"mismatch", "modified", "sent", "rejected", "cancelled"},
             Count(field), Busy = 1, Busy' = 0, UNCHANGED <<queue, pushed>>
      PROVE  CountInv'
  <2>1. stats'.received = stats.received /\ Outcomes' = Outcomes + 1 BY <1>4, OutcomeCounted
  <2> QED BY <1>t, <1>u, <1>4, <2>1 DEF CountInv
<1>5. CASE IoExit BY <1>1, <1>5 DEF IoExit, Busy, Outcomes
<1>6. CASE IoMismatch BY <1>4, <1>6 DEF IoMismatch, Busy
<1>7. CASE IoErase BY <1>4, <1>7 DEF IoErase, Busy
<1>8. CASE IoModify BY <1>4, <1>8 DEF IoModify, Busy
<1>9. CASE IoUnencodable BY <1>4, <1>9 DEF IoUnencodable, IsNew, Busy
<1>10. CASE IoFailed BY <1>4, <1>10 DEF IoFailed, Busy
<1>11. ASSUME NEW parses \in BOOLEAN, IoAck(parses) PROVE CountInv' BY <1>4, <1>11 DEF IoAck, Busy
<1>12. CASE IoSimFill
  <2>1. /\ stats'.sent = stats.sent + 1
        /\ \A other \in Counter : other \notin {"fills", "sent"} => stats'[other] = stats[other]
        BY <1>0, <1>12, CountTwoIs DEF IoSimFill
  <2>2. /\ stats'.sent = stats.sent + 1
        /\ stats'.received = stats.received /\ stats'.rejected = stats.rejected
        /\ stats'.cancelled = stats.cancelled /\ stats'.modified = stats.modified
        /\ stats'.mismatch = stats.mismatch /\ stats'.refused = stats.refused
        /\ stats'.shutdown = stats.shutdown
        BY <1>0, <2>1
  <2>3. Outcomes' = Outcomes + 1 BY <1>t, <2>2 DEF Outcomes
  <2>4. UNCHANGED <<queue, pushed>> /\ Busy = 1 /\ Busy' = 0 BY <1>12 DEF IoSimFill, Busy
  <2> QED BY <1>t, <1>u, <2>2, <2>3, <2>4 DEF CountInv
<1>13. CASE IoCancel \/ IoTrack \/ IoSimulate \/ PostRefused \/ PostLost
            \/ \E answered \in BOOLEAN : PostAccepted(answered)
  <2>1. UNCHANGED <<stats, queue, pushed>>
        BY <1>13 DEF IoCancel, IoTrack, IoSimulate, PostRefused, PostLost, PostAccepted
  <2>2. Busy = 1 /\ Busy' = 1
        BY <1>13 DEF IoCancel, IoTrack, IoSimulate, IsNew, PostRefused, PostLost, PostAccepted,
                     AfterError, Busy
  <2>3. Outcomes' = Outcomes BY <2>1 DEF Outcomes
  <2> QED BY <1>1, <2>1, <2>2, <2>3
<1>14. CASE StreamDeliver
  <2>1. UNCHANGED <<queue, pushed, io>> BY <1>14 DEF StreamDeliver
  <2>2. \/ UNCHANGED stats \/ Count("fillErrors")
        \/ stats' = [stats EXCEPT !.rejected = @ + 1, !.refused = @ + 1]
        BY <1>14 DEF StreamDeliver
  <2>3. stats'.received = stats.received /\ Outcomes' = Outcomes
    <3>1. CASE UNCHANGED stats BY <3>1 DEF Outcomes
    <3>2. CASE Count("fillErrors")
      <4>1. \A other \in Counter : other # "fillErrors" => stats'[other] = stats[other]
            BY <1>0, <3>2, CountIs
      <4> QED BY <1>0, <4>1 DEF Outcomes
    <3>3. CASE stats' = [stats EXCEPT !.rejected = @ + 1, !.refused = @ + 1]
      <4>1. /\ stats'.rejected = stats.rejected + 1 /\ stats'.refused = stats.refused + 1
            /\ \A other \in Counter : other \notin {"rejected", "refused"} => stats'[other] = stats[other]
            BY <1>0, <3>3, CountTwoIs
      <4>2. /\ stats'.rejected = stats.rejected + 1 /\ stats'.refused = stats.refused + 1
            /\ stats'.received = stats.received /\ stats'.sent = stats.sent
            /\ stats'.cancelled = stats.cancelled /\ stats'.modified = stats.modified
            /\ stats'.mismatch = stats.mismatch /\ stats'.shutdown = stats.shutdown
            BY <1>0, <4>1
      <4> QED BY <1>t, <4>2 DEF Outcomes
    <3> QED BY <2>2, <3>1, <3>2, <3>3
  <2> QED BY <1>1, <2>1, <2>3 DEF Busy
<1>15. CASE StreamCallback
  <2>1. UNCHANGED <<queue, pushed, io>> /\ Count("fills") BY <1>15 DEF StreamCallback
  <2>2. \A other \in Counter : other # "fills" => stats'[other] = stats[other]
        BY <1>0, <2>1, CountIs
  <2>3. stats'.received = stats.received /\ Outcomes' = Outcomes BY <1>0, <2>2 DEF Outcomes
  <2> QED BY <1>1, <2>1, <2>3 DEF Busy
<1>16. CASE Connection \/ Exchange
  <2>1. UNCHANGED <<stats, queue, pushed, io>>
        BY <1>16, ZenonT(60) DEF Connection, StreamDisconnect, StreamReconnect, Exchange, ExchangeTrade,
                     ExchangeExpire
  <2> QED BY <1>1, <2>1 DEF Busy, Outcomes
<1>17. CASE Controller
  <2>1. CASE Start \/ Stop \/ StopJoin \/ StopReturn
             \/ \E id \in OrderId : StopSkip(id) \/ StopDelete(id)
    <3>1. UNCHANGED <<stats, queue, pushed>> /\ Busy' = Busy
          BY <2>1 DEF Start, Stop, StopJoin, StopReturn, StopSkip, StopDelete, Busy, StopInv
    <3> QED BY <1>1, <3>1 DEF Outcomes
  <2>2. ASSUME NEW id \in OrderId, StopErase(id) PROVE CountInv'
    <3>1. /\ stats'.cancelled = stats.cancelled + 1
          /\ stats'.shutdown = stats.shutdown + 1
          /\ \A other \in Counter : other \notin {"cancelled", "shutdown"} => stats'[other] = stats[other]
          BY <1>0, <2>2, CountTwoIs DEF StopErase
    <3>2. UNCHANGED <<queue, pushed, io>> BY <2>2 DEF StopErase
    <3>3. /\ stats'.cancelled = stats.cancelled + 1 /\ stats'.shutdown = stats.shutdown + 1
          /\ stats'.received = stats.received /\ stats'.sent = stats.sent
          /\ stats'.rejected = stats.rejected /\ stats'.modified = stats.modified
          /\ stats'.mismatch = stats.mismatch /\ stats'.refused = stats.refused
          BY <1>0, <3>1
    <3>a. stats'.cancelled - stats'.shutdown = stats.cancelled - stats.shutdown BY <1>t, <3>3
    <3>4. Outcomes' = Outcomes BY <3>3, <3>a DEF Outcomes
    <3> QED BY <1>1, <3>2, <3>3, <3>4 DEF Busy
  <2> QED BY <1>17, <2>1, <2>2 DEF Controller
<1>18. CASE UNCHANGED vars BY <1>1, <1>18 DEF vars, Busy, Outcomes
<1> QED BY <1>2, <1>3, <1>5, <1>6, <1>7, <1>8, <1>9, <1>10, <1>11, <1>12, <1>13, <1>14, <1>15,
           <1>16, <1>17, <1>18 DEF Next, IoThread, UserStream

-----------------------------------------------------------------------------
(* What is pending *)

(* What a message does to pending_orders_: nothing appears, and what stays *)
(* keeps its quantity.                                                     *)
LEMMA DeliverPending ==
    ASSUME TypeOK, SendInv, WireInv, StreamDeliver
    PROVE  \A j \in OrderId : Present(j)' =>
              /\ Present(j) /\ pending'[j].qty = pending[j].qty
              /\ \/ pending'[j].filled = pending[j].filled
                 \/ pending'[j].filled < pending'[j].qty
<1> DEFINE e == Head(events)
           id == clientMap[e.cid]
<1>1. e = events[1] /\ e \in Event /\ 1 \in DOMAIN events BY ReadIs DEF StreamDeliver
<1>2. id \in OrderId BY <1>1, EventOrder
<1>3. CASE e.type = "ack"
  <2>1. Acknowledge(id) BY <1>3 DEF StreamDeliver
  <2> QED BY <1>2, <2>1, AcknowledgeIs
<1>4. CASE e.type = "reject"
  <2>1. Erase(id) BY <1>4 DEF StreamDeliver
  <2> QED BY <1>2, <2>1, EraseIs DEF Present
<1>5. CASE e.type = "fill" /\ ~Present(id)
  <2>1. UNCHANGED pending BY <1>5 DEF StreamDeliver
  <2> QED BY <2>1 DEF Present
<1>6. CASE e.type = "fill" /\ Present(id)
  <2>1. ApplyFill(id, e.qty) /\ e.qty \in Qty BY <1>1, <1>6, FillEvent DEF StreamDeliver
  <2>2. pending[id].filled \in Nat /\ pending[id].qty \in Nat /\ e.qty \in Nat
        BY <1>2, <2>1, GatewayAssumption DEF TypeOK, PendingOrder, Qty
  <2>4. \A j \in OrderId : j # id => pending'[j] = pending[j] BY <1>2, <2>1, ApplyFillIs
  <2> HIDE DEF id, e
  <2>5. ASSUME NEW j \in OrderId, Present(j)', j = id
        PROVE  /\ Present(j) /\ pending'[j].qty = pending[j].qty
               /\ pending'[j].filled < pending'[j].qty
    <3>1. ApplyFill(j, e.qty) BY <2>1, <2>5
    <3>2. Present(j) BY <1>6, <2>5
    <3> QED BY <2>1, <2>2, <2>5, <3>1, <3>2, ApplyFillIs
  <2>6. ASSUME NEW j \in OrderId, Present(j)', j # id
        PROVE  Present(j) /\ pending'[j] = pending[j]
        BY <2>4, <2>6 DEF Present
  <2> QED BY <2>5, <2>6
<1>7. e.type \in {"ack", "reject", "fill"} BY <1>1 DEF Event
<1> QED BY <1>3, <1>4, <1>5, <1>6, <1>7

LEMMA StopStep == ASSUME TypeOK, SendInv, WireInv, StopInv, [Next]_vars PROVE StopInv'
<1> USE DEF inputVars, ctlVars, exchVars
<1>1. ASSUME UNCHANGED <<io, ctl, snap>>, \A id \in OrderId : Present(id)' => Present(id)
      PROVE  StopInv'
      BY <1>1 DEF StopInv
<1>2. CASE Producer
  <2>1. UNCHANGED <<pending, io, ctl, snap>> BY <1>2 DEF Producer, SubmitOrder, AmendOrder
  <2> QED BY <1>1, <2>1 DEF Present
<1>3. CASE IoThread
  <2>1. io \notin {"none", "exited"}
        BY <1>3 DEF IoThread, IoPop, IoExit, IoMismatch, IoCancel, IoErase, IoModify, IoUnencodable,
                    IoTrack, IoFailed, IoSimulate, IoSimFill, PostRefused, PostLost, PostAccepted,
                    IoAck, IsNew
  <2>2. UNCHANGED ctl
        BY <1>3 DEF IoThread, IoPop, IoExit, IoMismatch, IoCancel, IoErase, IoModify, IoUnencodable,
                    IoTrack, IoFailed, IoSimulate, IoSimFill, PostRefused, PostLost, PostAccepted,
                    IoAck
  <2> QED BY <2>1, <2>2 DEF StopInv
<1>4. CASE StreamDeliver
  <2>1. UNCHANGED <<io, ctl, snap>> BY <1>4 DEF StreamDeliver
  <2> QED BY <1>1, <1>4, <2>1, DeliverPending
<1>5. CASE StreamCallback \/ Connection \/ Exchange
  <2>1. UNCHANGED <<pending, io, ctl, snap>>
        BY <1>5 DEF StreamCallback, Connection, StreamDisconnect, StreamReconnect, Exchange,
                    ExchangeTrade, ExchangeExpire
  <2> QED BY <1>1, <2>1 DEF Present
<1>6. CASE Start \/ Stop BY <1>6 DEF Start, Stop, StopInv
<1>7. CASE StopJoin BY <1>7 DEF StopJoin, StopInv, Present
<1>8. CASE StopReturn BY <1>8 DEF StopReturn, StopInv, Present
<1>9. ASSUME NEW id \in OrderId, StopSkip(id) PROVE StopInv'
      BY <1>9 DEF StopSkip, StopInv, Present
<1>10. ASSUME NEW id \in OrderId, StopDelete(id) PROVE StopInv'
      BY <1>10 DEF StopDelete, StopInv, Present
<1>11. ASSUME NEW id \in OrderId, StopErase(id) PROVE StopInv'
  <2>1. ~Present(id)' /\ \A j \in OrderId : j # id => pending'[j] = pending[j]
        BY <1>11, EraseIs DEF StopErase
  <2>2. ctl' = "cancelling" /\ ctl \in {"cancelling", "erasing"} /\ UNCHANGED io /\ snap' = snap \ {id}
        BY <1>11 DEF StopErase
  <2>3. \A j \in OrderId : Present(j)' => j # id /\ Present(j) BY <2>1 DEF Present
  <2> QED BY <2>2, <2>3 DEF StopInv
<1>12. CASE UNCHANGED vars BY <1>1, <1>12 DEF vars, Present
<1> QED BY <1>2, <1>3, <1>4, <1>5, <1>6, <1>7, <1>8, <1>9, <1>10, <1>11, <1>12
        DEF Next, UserStream, Controller

LEMMA RoomStep == ASSUME TypeOK, SendInv, WireInv, StopInv, RoomInv, [Next]_vars PROVE RoomInv'
<1> USE DEF inputVars, ctlVars, exchVars
<1>0. /\ req.id \in OrderId /\ req.qty \in Nat
      /\ \A j \in OrderId : pending[j].qty \in Nat /\ pending[j].filled \in Nat
      BY GatewayAssumption DEF TypeOK, Sending, PendingOrder
<1>1. ASSUME UNCHANGED <<pending, released>> PROVE RoomInv' BY <1>1 DEF RoomInv, Present
<1>2. CASE Producer \/ Connection \/ Exchange \/ StreamCallback
  <2>1. UNCHANGED <<pending, released>>
        BY <1>2 DEF Producer, SubmitOrder, AmendOrder, Connection, StreamDisconnect, StreamReconnect,
                    Exchange, ExchangeTrade, ExchangeExpire, StreamCallback
  <2> QED BY <1>1, <2>1
<1>3. CASE IoPop \/ IoExit \/ IoMismatch \/ IoCancel \/ IoUnencodable \/ IoFailed \/ PostRefused
           \/ PostLost \/ \E answered \in BOOLEAN : PostAccepted(answered)
  <2>1. UNCHANGED <<pending, released>>
        BY <1>3 DEF IoPop, IoExit, IoMismatch, IoCancel, IoUnencodable, IoFailed, PostRefused,
                    PostLost, PostAccepted
  <2> QED BY <1>1, <2>1
<1>4. CASE IoErase
  <2>1. \A j \in OrderId : Present(j)' => j # req.id /\ pending'[j] = pending[j]
        BY <1>0, <1>4, EraseIs DEF IoErase
  <2>2. released \subseteq released' BY <1>4 DEF IoErase
  <2> QED BY <2>1, <2>2 DEF RoomInv, Present
<1>5. CASE IoModify
  <2>1. \A j \in OrderId : Present(j)' => j = req.id \/ pending'[j] = pending[j]
        BY <1>0, <1>5, ModifyIs
  <2>2. released' = released \cup {req.id} BY <1>5 DEF IoModify
  <2> QED BY <2>1, <2>2 DEF RoomInv, Present
<1>6. CASE IoTrack \/ IoSimulate
  <2>1. trackPending /\ req.qty > 0 /\ UNCHANGED released
        BY <1>0, <1>6 DEF IoTrack, IoSimulate, IsNew
  <2>2. /\ \A j \in OrderId : j # req.id => pending'[j] = pending[j]
        /\ \A j \in OrderId : j = req.id => pending'[j].qty = req.qty /\ pending'[j].filled = 0
        BY <1>0, <2>1, TrackIs
  <2> QED BY <1>0, <2>1, <2>2 DEF RoomInv, Present
<1>7. ASSUME NEW parses \in BOOLEAN, IoAck(parses) PROVE RoomInv'
  <2>1. UNCHANGED released /\ (Acknowledge(req.id) \/ UNCHANGED pending) BY <1>7 DEF IoAck
  <2> QED BY <1>0, <1>1, <2>1, AcknowledgeIs DEF RoomInv
<1>8. CASE IoSimFill
  <2>1. ApplyFill(req.id, req.qty) /\ UNCHANGED released /\ req.qty \in Qty
        BY <1>0, <1>8, GatewayAssumption DEF IoSimFill, SendInv, Qty, TypeOK, Sending
  <2>2. /\ \A j \in OrderId : j # req.id => pending'[j] = pending[j]
        /\ \A j \in OrderId : j = req.id /\ Present(j)' => pending'[j].filled < pending'[j].qty
    <3>1. \A j \in OrderId : j # req.id => pending'[j] = pending[j] BY <1>0, <2>1, ApplyFillIs
    <3>2. ASSUME NEW j \in OrderId, j = req.id, Present(j)' PROVE pending'[j].filled < pending'[j].qty
      <4>1. ApplyFill(j, req.qty) BY <2>1, <3>2
      <4> QED BY <1>0, <2>1, <3>2, <4>1, ApplyFillIs
    <3> QED BY <3>1, <3>2
  <2> QED BY <2>1, <2>2 DEF RoomInv, Present
<1>9. CASE StreamDeliver
  <2>1. UNCHANGED released BY <1>9 DEF StreamDeliver
  <2> QED BY <1>9, <2>1, DeliverPending DEF RoomInv
<1>10. CASE Controller
  <2>1. CASE UNCHANGED <<pending, released>> BY <1>1, <2>1
  <2>2. ASSUME NEW id \in OrderId, StopErase(id) PROVE RoomInv'
    <3>1. \A j \in OrderId : Present(j)' => j # id /\ pending'[j] = pending[j]
          BY <2>2, EraseIs DEF StopErase
    <3>2. released \subseteq released' BY <2>2 DEF StopErase
    <3> QED BY <3>1, <3>2 DEF RoomInv, Present
  <2> QED BY <1>10, <2>1, <2>2 DEF Controller, Start, Stop, StopJoin, StopReturn, StopSkip, StopDelete
<1>11. CASE UNCHANGED vars BY <1>1, <1>11 DEF vars
<1> QED BY <1>2, <1>3, <1>4, <1>5, <1>6, <1>7, <1>8, <1>9, <1>10, <1>11
        DEF Next, UserStream, IoThread

-----------------------------------------------------------------------------
(* What is being sent *)

(* Only taking a request changes stats.received, the clientOrderId in use. *)
LEMMA ReceivedStays ==
    ASSUME TypeOK, [Next]_vars, ~IoPop
    PROVE  stats'.received = stats.received
<1> USE DEF inputVars, ctlVars, exchVars
<1>0. Counter = {"received", "sent", "rejected", "cancelled", "modified", "fills", "fillErrors",
                 "mismatch", "refused", "shutdown"}
      BY DEF Counter
<1>1. ASSUME NEW field \in Counter, field # "received", Count(field)
      PROVE  stats'.received = stats.received
      BY <1>0, <1>1, CountIs
<1>2. ASSUME NEW a \in Counter, NEW b \in Counter, a # "received", b # "received", a # b,
             stats' = [stats EXCEPT ![a] = @ + 1, ![b] = @ + 1]
      PROVE  stats'.received = stats.received
      BY <1>0, <1>2, CountTwoIs
<1>3. CASE Producer \/ Connection \/ Exchange
      BY <1>3 DEF Producer, SubmitOrder, AmendOrder, Connection, StreamDisconnect, StreamReconnect,
                  Exchange, ExchangeTrade, ExchangeExpire
<1>4. CASE IoExit \/ IoCancel \/ IoTrack \/ IoSimulate \/ PostRefused \/ PostLost
           \/ \E answered \in BOOLEAN : PostAccepted(answered)
      BY <1>4 DEF IoExit, IoCancel, IoTrack, IoSimulate, PostRefused, PostLost, PostAccepted
<1>5. CASE IoMismatch BY <1>0, <1>1, <1>5 DEF IoMismatch
<1>6. CASE IoErase BY <1>0, <1>1, <1>6 DEF IoErase
<1>7. CASE IoModify BY <1>0, <1>1, <1>7 DEF IoModify
<1>8. CASE IoUnencodable BY <1>0, <1>1, <1>8 DEF IoUnencodable
<1>9. CASE IoFailed BY <1>0, <1>1, <1>9 DEF IoFailed
<1>10. CASE \E parses \in BOOLEAN : IoAck(parses) BY <1>0, <1>1, <1>10 DEF IoAck
<1>11. CASE IoSimFill BY <1>0, <1>2, <1>11 DEF IoSimFill
<1>12. CASE StreamDeliver
  <2>1. \/ UNCHANGED stats \/ Count("fillErrors")
        \/ stats' = [stats EXCEPT !.rejected = @ + 1, !.refused = @ + 1]
        BY <1>12 DEF StreamDeliver
  <2> QED BY <1>0, <1>1, <1>2, <2>1
<1>13. CASE StreamCallback BY <1>0, <1>1, <1>13 DEF StreamCallback
<1>14. CASE Controller
  <2>1. CASE UNCHANGED stats BY <2>1
  <2>2. ASSUME NEW id \in OrderId, StopErase(id) PROVE stats'.received = stats.received
        BY <1>0, <1>2, <2>2 DEF StopErase
  <2> QED BY <1>14, <2>1, <2>2 DEF Controller, Start, Stop, StopJoin, StopReturn, StopSkip, StopDelete
<1>15. CASE UNCHANGED vars BY <1>15 DEF vars
<1> QED BY <1>3, <1>4, <1>5, <1>6, <1>7, <1>8, <1>9, <1>10, <1>11, <1>12, <1>13, <1>14, <1>15
        DEF Next, IoThread, UserStream

(* The clientOrderId of the POST in progress is one the exchange can get. *)
LEMMA CidIsClient == ASSUME TypeOK, CountInv, Busy = 1 PROVE Cid \in ClientId
<1>1. stats.received \in Nat /\ pushed \in 0 .. MaxRequests /\ Len(queue) \in Nat
      BY CountersAre DEF TypeOK
<1>2. stats.received > 0 /\ stats.received + Len(queue) = pushed BY DEF CountInv
<1> QED BY <1>1, <1>2, GatewayAssumption DEF Cid, ClientId

LEMMA SendStep == ASSUME TypeOK, CountInv, SendInv, StopInv, [Next]_vars PROVE SendInv'
<1> USE DEF inputVars, ctlVars, exchVars
<1>0. stats.received \in Nat /\ req.id \in OrderId /\ req.id # 0 /\ req.qty \in Nat /\ 0 \notin ClientId
      BY CountersAre, GatewayAssumption, SMTT(60) DEF TypeOK, Sending, OrderId, ClientId
<1>1. ASSUME UNCHANGED <<clientMap, mode>>, stats'.received = stats.received,
             \A c \in ClientId : exch'[c].state = "none" <=> exch[c].state = "none",
             \/ io' \notin {"process", "post", "ack", "failed", "simFill"}
             \/ io' = io /\ req' = req
             \/ io = "post" /\ io' \in {"post", "ack", "failed"} /\ req'.id = req.id /\ req'.qty = req.qty
      PROVE  SendInv'
  <2>1. \A c \in ClientId : (c > stats'.received \/ (c = stats'.received /\ io' = "process")) =>
             clientMap'[c] = 0 /\ exch'[c].state = "none"
        BY <1>1 DEF SendInv
  <2>2. \A c \in ClientId : exch'[c].state # "none" => clientMap'[c] # 0 BY <1>1 DEF SendInv
  <2>3. \A c \in ClientId : clientMap'[c] # 0 => mode' = "real" BY <1>1 DEF SendInv
  <2>4. io' \in {"post", "ack", "failed"} => clientMap'[stats'.received] = req'.id
        BY <1>1 DEF SendInv, Cid
  <2>5. io' \in {"post", "ack", "failed", "simFill"} => req'.qty > 0 BY <1>1 DEF SendInv
  <2>6. io' = "simFill" => mode' = "sim" BY <1>1 DEF SendInv
  <2> QED BY <2>1, <2>2, <2>3, <2>4, <2>5, <2>6 DEF SendInv, Cid
<1>2. CASE IoPop
  <2>1. stats'.received = stats.received + 1 BY <1>2, CountIs DEF IoPop, Counter
  <2>2. UNCHANGED <<clientMap, mode, exch>> /\ io' = "process" BY <1>2 DEF IoPop
  <2>3. \A c \in ClientId : c > stats'.received \/ c = stats'.received => c > stats.received
        BY <1>0, <2>1 DEF ClientId
  <2> QED BY <2>2, <2>3 DEF SendInv
<1>3. CASE IoTrack
  <2>1. stats'.received = stats.received BY <1>3 DEF IoTrack
  <2>2. Cid \in ClientId BY <1>3, CidIsClient DEF IoTrack, IsNew, Busy
  <2>3. clientMap' = [clientMap EXCEPT ![stats.received] = req.id] BY <1>3 DEF IoTrack
  <2>4. clientMap'[stats.received] = req.id
        /\ \A c \in ClientId : c # stats.received => clientMap'[c] = clientMap[c]
        BY <2>2, <2>3 DEF TypeOK, Cid
  <2>5. UNCHANGED <<mode, exch, req>> /\ io' = "post" /\ mode = "real" /\ req.qty # 0
        BY <1>3 DEF IoTrack, IsNew
  <2>6. \A c \in ClientId : c > stats.received => c # stats.received BY <1>0 DEF ClientId
  <2> QED BY <1>0, <2>1, <2>4, <2>5, <2>6 DEF SendInv, Cid
<1>4. ASSUME NEW answered \in BOOLEAN, PostAccepted(answered) PROVE SendInv'
  <2>1. UNCHANGED <<stats, clientMap, mode>> BY <1>4 DEF PostAccepted
  <2>2. Cid \in ClientId BY <1>4, CidIsClient DEF PostAccepted, Busy
  <2>3. exch'[Cid].state = "open" /\ \A c \in ClientId : c # Cid => exch'[c] = exch[c]
        BY <1>4, <2>2 DEF PostAccepted, TypeOK
  <2>4. io = "post" /\ io' \in {"post", "ack", "failed"} BY <1>4 DEF PostAccepted, AfterError
  <2>5. req'.id = req.id /\ req'.qty = req.qty BY <1>4, AttemptIs DEF PostAccepted, TypeOK
  <2>6. \A c \in ClientId : c > stats.received => c # Cid BY <1>0 DEF ClientId, Cid
  <2>7. clientMap[Cid] = req.id /\ req.qty > 0 BY <2>4 DEF SendInv
  <2>8. Cid' = Cid BY <2>1 DEF Cid
  <2>9. \A c \in ClientId : exch'[c].state # "none" => clientMap[c] # 0
        BY <1>0, <2>3, <2>7 DEF SendInv
  <2> QED BY <2>1, <2>3, <2>4, <2>5, <2>6, <2>7, <2>8, <2>9 DEF SendInv
<1>5. CASE PostRefused BY <1>1, <1>5 DEF PostRefused
<1>6. CASE PostLost
  <2>1. req'.id = req.id /\ req'.qty = req.qty BY <1>6, AttemptIs DEF PostLost, TypeOK
  <2> QED BY <1>1, <1>6, <2>1 DEF PostLost, AfterError
<1>7. CASE IoSimulate
  <2>1. UNCHANGED <<stats, clientMap, mode, exch, req>> /\ io' = "simFill" /\ mode = "sim" /\ req.qty # 0
        BY <1>7 DEF IoSimulate, IsNew
  <2> QED BY <1>0, <2>1 DEF SendInv
<1>8. ASSUME NEW x, Delete(x) PROVE \A c \in ClientId : exch'[c].state = "none" <=> exch[c].state = "none"
  <2>1. ASSUME NEW c \in ClientId PROVE exch'[c].state = "none" <=> exch[c].state = "none"
    <3>1. exch[c] \in ExchangeOrder BY DEF TypeOK
    <3>2. exch'[c] = IF exch[c].state = "open" /\ ExchangeIdOf(c) = x
                     THEN [exch[c] EXCEPT !.state = "done"] ELSE exch[c]
          BY <1>8 DEF Delete
    <3>3. [exch[c] EXCEPT !.state = "done"].state = "done" BY <3>1 DEF ExchangeOrder
    <3> QED BY <3>2, <3>3
  <2> QED BY <2>1
<1>9. CASE IoCancel
  <2>1. UNCHANGED exch \/ Delete(req.id) BY <1>9 DEF IoCancel
  <2>2. \A c \in ClientId : exch'[c].state = "none" <=> exch[c].state = "none" BY <1>8, <2>1
  <2> QED BY <1>1, <1>9, <2>2 DEF IoCancel
<1>10. CASE IoExit \/ IoMismatch \/ IoErase \/ IoModify \/ IoUnencodable \/ IoFailed \/ IoSimFill
            \/ \E parses \in BOOLEAN : IoAck(parses)
  <2>1. UNCHANGED <<clientMap, mode, exch>> /\ io' \in {"loop", "exited"}
        BY <1>10 DEF IoExit, IoMismatch, IoErase, IoModify, IoUnencodable, IoFailed, IoSimFill, IoAck
  <2>2. ~IoPop BY <1>10 DEF IoPop, IoExit, IoMismatch, IoErase, IoModify, IoUnencodable, IoFailed,
                            IoSimFill, IoAck, IsNew
  <2>3. stats'.received = stats.received BY <2>2, ReceivedStays
  <2> QED BY <1>1, <2>1, <2>3
<1>11. CASE Producer \/ UserStream \/ Connection
  <2>1. UNCHANGED <<clientMap, mode, exch, io, req>>
        BY <1>11 DEF Producer, SubmitOrder, AmendOrder, UserStream, StreamDeliver, StreamCallback,
                     Connection, StreamDisconnect, StreamReconnect
  <2>2. ~IoPop BY <2>1 DEF IoPop
  <2>3. stats'.received = stats.received BY <2>2, ReceivedStays
  <2> QED BY <1>1, <2>1, <2>3
<1>12. CASE Exchange
  <2>1. UNCHANGED <<clientMap, mode, io, req, stats>>
        BY <1>12 DEF Exchange, ExchangeTrade, ExchangeExpire
  <2>2. \A c \in ClientId : exch'[c].state = "none" <=> exch[c].state = "none"
    <3>1. ASSUME NEW d \in ClientId, exch[d].state = "open",
                 \E new : exch' = [exch EXCEPT ![d] = new] /\ new.state # "none"
          PROVE  <2>2
          BY <3>1 DEF TypeOK
    <3>2. ASSUME NEW d \in ClientId, NEW q \in Qty, ExchangeTrade(d, q) PROVE <2>2
          BY <3>1, <3>2 DEF ExchangeTrade
    <3>3. ASSUME NEW d \in ClientId, ExchangeExpire(d) PROVE <2>2
      <4>1. [exch[d] EXCEPT !.state = "done"].state = "done" BY DEF TypeOK, ExchangeOrder
      <4> QED BY <3>1, <3>3, <4>1 DEF ExchangeExpire
    <3> QED BY <1>12, <3>2, <3>3 DEF Exchange
  <2> QED BY <1>1, <2>1, <2>2
<1>13. CASE Controller
  <2>1. UNCHANGED <<clientMap, mode, req>> /\ (io' = io \/ io' = "loop")
        BY <1>13 DEF Controller, Start, Stop, StopJoin, StopReturn, StopSkip, StopDelete, StopErase
  <2>2. UNCHANGED exch \/ \E id \in OrderId : Delete(id)
        BY <1>13 DEF Controller, Start, Stop, StopJoin, StopReturn, StopSkip, StopDelete, StopErase
  <2>3. \A c \in ClientId : exch'[c].state = "none" <=> exch[c].state = "none" BY <1>8, <2>2
  <2>4. ~IoPop
        BY <1>13 DEF Controller, Start, Stop, StopJoin, StopReturn, StopSkip, StopDelete, StopErase,
                     IoPop
  <2>5. stats'.received = stats.received BY <2>4, ReceivedStays
  <2> QED BY <1>1, <2>1, <2>3, <2>5
<1>14. CASE UNCHANGED vars BY <1>1, <1>14 DEF vars
<1> QED BY <1>2, <1>3, <1>4, <1>5, <1>6, <1>7, <1>9, <1>10, <1>11, <1>12, <1>13, <1>14
        DEF Next, IoThread

-----------------------------------------------------------------------------
(* What is on the wire *)

(* The exchange takes an order or cancels one and says nothing. *)
LEMMA WireFrame ==
    ASSUME TypeOK, TypeOK', WireInv, UNCHANGED events,
           \A c \in ClientId : /\ exch'[c].left = exch[c].left
                               /\ exch'[c].state = "none" <=> exch[c].state = "none"
                               /\ exch'[c].state = "open" => exch[c].state = "open"
    PROVE  WireInv'
<1>1. \A i \in DOMAIN events : events[i].cid \in ClientId BY DEF TypeOK, Event
<1>2. \A c \in ClientId : exch'[c].state \in {"none", "open", "done"} BY DEF TypeOK, ExchangeOrder
<1>3. \A c \in ClientId : exch'[c].state = "open" => exch'[c].left > 0 BY DEF WireInv
<1>4. \A i \in DOMAIN events' : exch'[events'[i].cid].state # "none" BY <1>1 DEF WireInv
<1>5. \A i \in DOMAIN events' : IsFill(i)' => exch'[events'[i].cid].left <= events'[i].left
      BY <1>1 DEF WireInv, IsFill
<1>6. \A i, j \in DOMAIN events' :
          i < j /\ IsFill(i)' /\ IsFill(j)' /\ events'[i].cid = events'[j].cid
          => events'[j].left + events'[j].qty <= events'[i].left
      BY DEF WireInv, IsFill
<1>7. \A i \in DOMAIN events' : events'[i].type = "reject" =>
          /\ exch'[events'[i].cid].state = "done" /\ exch'[events'[i].cid].left > 0
          /\ \A j \in DOMAIN events' : j > i => events'[j].cid # events'[i].cid
      BY <1>1, <1>2 DEF WireInv
<1> QED BY <1>3, <1>4, <1>5, <1>6, <1>7 DEF WireInv

(* A message is read. *)
LEMMA WireRead ==
    ASSUME TypeOK, WireInv, events # <<>>, events' = Tail(events), UNCHANGED exch
    PROVE  WireInv'
<1>1. \A i \in DOMAIN events' : i \in Nat /\ i + 1 \in DOMAIN events /\ events'[i] = events[i + 1]
  <2>1. events' \in Seq(Event) BY ReadIs
  <2> QED BY <2>1, ReadIs
<1>2. \A i \in DOMAIN events' : exch'[events'[i].cid].state # "none" BY <1>1 DEF WireInv
<1>3. \A i \in DOMAIN events' : IsFill(i)' => exch'[events'[i].cid].left <= events'[i].left
      BY <1>1 DEF WireInv, IsFill
<1>4. ASSUME NEW i \in DOMAIN events', NEW j \in DOMAIN events', i < j, IsFill(i)', IsFill(j)',
             events'[i].cid = events'[j].cid
      PROVE  events'[j].left + events'[j].qty <= events'[i].left
  <2>1. i + 1 < j + 1 BY <1>1, <1>4
  <2>2. IsFill(i + 1) /\ IsFill(j + 1) BY <1>1, <1>4 DEF IsFill
  <2> QED BY <1>1, <1>4, <2>1, <2>2 DEF WireInv
<1>5. ASSUME NEW i \in DOMAIN events', events'[i].type = "reject"
      PROVE  /\ exch'[events'[i].cid].state = "done" /\ exch'[events'[i].cid].left > 0
             /\ \A j \in DOMAIN events' : j > i => events'[j].cid # events'[i].cid
  <2>1. ASSUME NEW j \in DOMAIN events', j > i PROVE events'[j].cid # events'[i].cid
    <3>1. j + 1 > i + 1 BY <1>1, <2>1
    <3> QED BY <1>1, <1>5, <3>1 DEF WireInv
  <2> QED BY <1>1, <1>5, <2>1 DEF WireInv
<1> QED BY <1>2, <1>3, <1>4, <1>5 DEF WireInv

(* The exchange says what it did to one order. *)
LEMMA WireEmit ==
    ASSUME TypeOK, TypeOK', WireInv, NEW e \in Event, Emit(e),
           \A d \in ClientId : d # e.cid => exch'[d] = exch[d],
           exch'[e.cid].state # "none",
           exch'[e.cid].state = "open" => exch'[e.cid].left > 0,
           \/ exch[e.cid].state = "none" /\ e.type = "ack"
           \/ /\ exch[e.cid].state = "open" /\ e.type = "fill"
              /\ e.left = exch'[e.cid].left /\ e.left + e.qty = exch[e.cid].left
           \/ /\ exch[e.cid].state = "open" /\ e.type = "reject"
              /\ exch'[e.cid].state = "done" /\ exch'[e.cid].left = exch[e.cid].left
    PROVE  WireInv'
<1> DEFINE c == e.cid
<1>0. c \in ClientId /\ (e.type = "fill" => e.left \in Nat /\ e.qty \in Nat /\ e.qty > 0)
      BY GatewayAssumption DEF Event, Qty
<1>1. /\ \A i \in DOMAIN events : events[i].cid \in ClientId /\ i \in Nat /\ events[i].left \in Nat
      /\ exch[c].left \in Nat /\ exch'[c].left \in Nat /\ Len(events) \in Nat
  <2>1. \A i \in DOMAIN events : events[i].cid \in ClientId BY DEF TypeOK, Event
  <2>2. \A i \in DOMAIN events : i \in Nat /\ events[i] \in Event BY DEF TypeOK
  <2>3. \A x \in Event : x.left \in Nat BY GatewayAssumption DEF Event
  <2>4. exch[c] \in ExchangeOrder /\ exch'[c] \in ExchangeOrder BY <1>0 DEF TypeOK
  <2>5. exch[c].left \in Nat /\ exch'[c].left \in Nat BY <2>4, GatewayAssumption DEF ExchangeOrder
  <2> QED BY <2>1, <2>2, <2>3, <2>5 DEF TypeOK
<1>2. CASE ~stream.up
  <2>1. events' = events BY <1>2, EmitIs
  <2>2. \A i \in DOMAIN events : events[i].cid = c => exch[c].state = "open" BY DEF WireInv
  <2>3. \A d \in ClientId : exch'[d].state = "open" => exch'[d].left > 0 BY DEF WireInv
  <2>4. \A i \in DOMAIN events : exch'[events[i].cid].state # "none" BY <1>1 DEF WireInv
  <2>5. exch[c].state = "open" => exch'[c].left <= exch[c].left BY <1>0, <1>1
  <2>6. \A i \in DOMAIN events : IsFill(i) => exch'[events[i].cid].left <= events[i].left
        BY <1>1, <2>2, <2>5 DEF WireInv
  <2>7. \A i \in DOMAIN events : events[i].type = "reject" => events[i].cid # c BY DEF WireInv
  <2> QED BY <1>1, <2>1, <2>3, <2>4, <2>6, <2>7 DEF WireInv, IsFill
<1>3. CASE stream.up
  <2> DEFINE n == Len(events) + 1
  <2>1. /\ n \in Nat /\ events'[n] = e /\ events' \in Seq(Event)
        /\ \A i \in DOMAIN events : events'[i] = events[i] /\ i < n
        /\ \A i \in DOMAIN events' : i \in DOMAIN events \/ i = n
        BY <1>1, <1>3, EmitIs DEF TypeOK
  <2> HIDE DEF n
  <2>2. \A i \in DOMAIN events : events[i].cid = c => exch[c].state = "open" BY DEF WireInv
  <2>3. \A d \in ClientId : exch'[d].state = "open" => exch'[d].left > 0 BY DEF WireInv
  <2>4. \A i \in DOMAIN events' : exch'[events'[i].cid].state # "none" BY <1>1, <2>1 DEF WireInv
  <2>5. exch[c].state = "open" => exch'[c].left <= exch[c].left BY <1>0, <1>1
  <2>6. ASSUME NEW i \in DOMAIN events', IsFill(i)'
        PROVE  exch'[events'[i].cid].left <= events'[i].left
    <3>1. CASE i \in DOMAIN events BY <1>1, <2>1, <2>2, <2>5, <2>6, <3>1, SMTT(60) DEF WireInv, IsFill
    <3>2. CASE i = n BY <1>0, <1>1, <2>1, <2>6, <3>2 DEF IsFill
    <3> QED BY <2>1, <3>1, <3>2
  <2>7. ASSUME NEW i \in DOMAIN events', NEW j \in DOMAIN events', i < j, IsFill(i)', IsFill(j)',
               events'[i].cid = events'[j].cid
        PROVE  events'[j].left + events'[j].qty <= events'[i].left
    <3>1. CASE i \in DOMAIN events /\ j \in DOMAIN events BY <2>1, <2>7, <3>1 DEF WireInv, IsFill
    <3>2. CASE i \in DOMAIN events /\ j = n
      <4>1. IsFill(i) /\ events[i].cid = c /\ e.type = "fill" BY <2>1, <2>7, <3>2 DEF IsFill
      <4>2. exch[c].left <= events[i].left BY <3>2, <4>1 DEF WireInv
      <4>3. e.left + e.qty = exch[c].left BY <4>1
      <4> QED BY <2>1, <3>2, <4>2, <4>3
    <3>3. ~(i = n) BY <1>1, <2>1, <2>7
    <3> QED BY <2>1, <3>1, <3>2, <3>3
  <2>8. ASSUME NEW i \in DOMAIN events', events'[i].type = "reject"
        PROVE  /\ exch'[events'[i].cid].state = "done" /\ exch'[events'[i].cid].left > 0
               /\ \A j \in DOMAIN events' : j > i => events'[j].cid # events'[i].cid
    <3>1. CASE i \in DOMAIN events
      <4>1. events[i].type = "reject" /\ exch[events[i].cid].state = "done" /\ exch[events[i].cid].left > 0
            BY <2>1, <2>8, <3>1 DEF WireInv
      <4>2. events[i].cid # c BY <4>1
      <4>3. \A j \in DOMAIN events : j > i => events[j].cid # events[i].cid
            BY <3>1, <4>1 DEF WireInv
      <4> QED BY <1>1, <2>1, <3>1, <4>1, <4>2, <4>3
    <3>2. CASE i = n
      <4>1. e.type = "reject" BY <2>1, <2>8, <3>2
      <4>2. exch'[c].state = "done" /\ exch'[c].left > 0 BY <1>0, <4>1 DEF WireInv
      <4>3. \A j \in DOMAIN events' : ~(j > i) BY <1>1, <2>1, <3>2
      <4> QED BY <2>1, <3>2, <4>2, <4>3
    <3> QED BY <2>1, <3>1, <3>2
  <2> QED BY <2>3, <2>4, <2>6, <2>7, <2>8 DEF WireInv
<1> QED BY <1>2, <1>3

(* DELETE closes an open order at the exchange, at most. *)
LEMMA DeleteIs ==
    ASSUME TypeOK, NEW x, Delete(x)
    PROVE  \A c \in ClientId : /\ exch'[c].left = exch[c].left
                               /\ exch'[c].state = "none" <=> exch[c].state = "none"
                               /\ exch'[c].state = "open" => exch[c].state = "open"
<1> SUFFICES ASSUME NEW c \in ClientId
             PROVE  /\ exch'[c].left = exch[c].left
                    /\ exch'[c].state = "none" <=> exch[c].state = "none"
                    /\ exch'[c].state = "open" => exch[c].state = "open"
    OBVIOUS
<1> DEFINE new == [exch[c] EXCEPT !.state = "done"]
<1>1. exch[c] \in ExchangeOrder BY DEF TypeOK
<1>2. new.state = "done" /\ new.left = exch[c].left BY <1>1 DEF ExchangeOrder
<1>3. exch'[c] = IF exch[c].state = "open" /\ ExchangeIdOf(c) = x THEN new ELSE exch[c] BY DEF Delete
<1> HIDE DEF new
<1> QED BY <1>2, <1>3

\* what the exchange says of a trade
FillEventOf(c, q) == [type |-> "fill", cid |-> c, left |-> exch[c].left - q, qty |-> q]

LEMMA TradeIs ==
    ASSUME TypeOK, NEW c \in ClientId, NEW q \in Qty, ExchangeTrade(c, q)
    PROVE  /\ FillEventOf(c, q) \in Event /\ Emit(FillEventOf(c, q))
           /\ FillEventOf(c, q).cid = c /\ FillEventOf(c, q).type = "fill"
           /\ FillEventOf(c, q).qty = q /\ FillEventOf(c, q).left = exch[c].left - q
           /\ exch[c].state = "open" /\ exch[c].left \in Nat /\ q \in Nat /\ q > 0 /\ q <= exch[c].left
           /\ exch'[c].left = exch[c].left - q
           /\ exch'[c].left = 0 => exch'[c].state = "done"
           /\ exch'[c].left # 0 => exch'[c].state = "open"
           /\ \A d \in ClientId : d # c => exch'[d] = exch[d]
           /\ FillOf(FillEventOf(c, q)) \in Fill
<1> DEFINE l == exch[c].left - q
<1>1. exch[c].left \in 0 .. MaxQty /\ q <= exch[c].left /\ q \in 1 .. MaxQty /\ exch[c].state = "open"
      BY GatewayAssumption DEF TypeOK, ExchangeOrder, ExchangeTrade, Qty
<1>2. l \in 0 .. MaxQty - 1 BY <1>1, GatewayAssumption
<1>3. FillEventOf(c, q) = [type |-> "fill", cid |-> c, left |-> l, qty |-> q] BY DEF FillEventOf
<1>4. FillOf(FillEventOf(c, q)) = [cid |-> c, left |-> l, qty |-> q] BY <1>3 DEF FillOf
<1>5. /\ exch' = [exch EXCEPT ![c] = [state |-> IF l = 0 THEN "done" ELSE "open", left |-> l]]
      /\ Emit([type |-> "fill", cid |-> c, left |-> l, qty |-> q])
      BY DEF ExchangeTrade
<1>6. /\ FillEventOf(c, q) \in Event /\ FillOf(FillEventOf(c, q)) \in Fill
      /\ FillEventOf(c, q).cid = c /\ FillEventOf(c, q).type = "fill"
      /\ FillEventOf(c, q).qty = q /\ FillEventOf(c, q).left = l
      BY <1>2, <1>3, <1>4 DEF Event, Fill
<1>7. Emit(FillEventOf(c, q)) BY <1>3, <1>5
<1>8. /\ exch'[c].left = l /\ exch'[c].state = IF l = 0 THEN "done" ELSE "open"
      /\ \A d \in ClientId : d # c => exch'[d] = exch[d]
      BY <1>5 DEF TypeOK
<1>9. exch[c].left \in Nat /\ q \in Nat /\ q > 0 BY <1>1, GatewayAssumption
<1> QED BY <1>1, <1>6, <1>7, <1>8, <1>9

RejectEventOf(c) == [type |-> "reject", cid |-> c, left |-> 0, qty |-> 0]

LEMMA ExpireIs ==
    ASSUME TypeOK, NEW c \in ClientId, ExchangeExpire(c)
    PROVE  /\ RejectEventOf(c) \in Event /\ Emit(RejectEventOf(c))
           /\ RejectEventOf(c).cid = c /\ RejectEventOf(c).type = "reject"
           /\ exch[c].state = "open" /\ exch'[c].state = "done" /\ exch'[c].left = exch[c].left
           /\ \A d \in ClientId : d # c => exch'[d] = exch[d]
<1> DEFINE new == [exch[c] EXCEPT !.state = "done"]
<1>1. exch[c] \in ExchangeOrder BY DEF TypeOK
<1>2. new.state = "done" /\ new.left = exch[c].left BY <1>1 DEF ExchangeOrder
<1>3. exch' = [exch EXCEPT ![c] = new] /\ Emit(RejectEventOf(c)) /\ exch[c].state = "open"
      BY DEF ExchangeExpire, RejectEventOf
<1>4. RejectEventOf(c) \in Event /\ RejectEventOf(c).cid = c /\ RejectEventOf(c).type = "reject"
      BY DEF Event, RejectEventOf
<1> HIDE DEF new
<1> QED BY <1>2, <1>3, <1>4 DEF TypeOK

AckEventOf(c) == [type |-> "ack", cid |-> c, left |-> 0, qty |-> 0]

LEMMA AcceptIs ==
    ASSUME TypeOK, CountInv, SendInv, NEW answered \in BOOLEAN, PostAccepted(answered)
    PROVE  /\ Cid \in ClientId /\ clientMap[Cid] = req.id
           /\ AckEventOf(Cid) \in Event /\ Emit(AckEventOf(Cid))
           /\ AckEventOf(Cid).cid = Cid /\ AckEventOf(Cid).type = "ack"
           /\ exch[Cid].state = "none" /\ exch'[Cid].state = "open" /\ exch'[Cid].left = req.qty
           /\ req.qty \in Nat /\ req.qty > 0
           /\ \A d \in ClientId : d # Cid => exch'[d] = exch[d]
<1>1. Cid \in ClientId BY CidIsClient DEF PostAccepted, Busy
<1>2. /\ exch[Cid].state = "none" /\ Emit(AckEventOf(Cid)) /\ io = "post"
      /\ exch' = [exch EXCEPT ![Cid] = [state |-> "open", left |-> req.qty]]
      BY DEF PostAccepted, AckEventOf
<1>3. AckEventOf(Cid) \in Event /\ AckEventOf(Cid).cid = Cid /\ AckEventOf(Cid).type = "ack"
      BY <1>1 DEF AckEventOf, Event
<1>4. clientMap[Cid] = req.id /\ req.qty > 0 BY <1>2 DEF SendInv
<1>5. req.qty \in Nat BY GatewayAssumption DEF TypeOK, Sending
<1> QED BY <1>1, <1>2, <1>3, <1>4, <1>5 DEF TypeOK

(* Steps that leave the wire and the orders at the exchange alone. *)
Silent == \/ Producer \/ StreamCallback \/ StreamReconnect
          \/ IoPop \/ IoExit \/ IoMismatch \/ IoErase \/ IoModify \/ IoUnencodable
          \/ IoTrack \/ IoFailed \/ IoSimulate \/ IoSimFill \/ PostRefused \/ PostLost
          \/ (\E parses \in BOOLEAN : IoAck(parses))
          \/ Start \/ Stop \/ StopJoin \/ StopReturn
          \/ (\E id \in OrderId : StopSkip(id) \/ StopErase(id))
          \/ UNCHANGED vars

LEMMA SilentIs == ASSUME Silent PROVE UNCHANGED <<exch, events, mode>>
<1> USE DEF inputVars, ctlVars, exchVars, Silent
<1>1. CASE Producer BY <1>1 DEF Producer, SubmitOrder, AmendOrder
<1>2. CASE StreamCallback \/ StreamReconnect BY <1>2 DEF StreamCallback, StreamReconnect
<1>3. CASE IoPop \/ IoExit \/ IoMismatch \/ IoErase \/ IoModify \/ IoUnencodable
      BY <1>3 DEF IoPop, IoExit, IoMismatch, IoErase, IoModify, IoUnencodable
<1>4. CASE IoTrack \/ IoFailed \/ IoSimulate \/ IoSimFill \/ PostRefused \/ PostLost
           \/ (\E parses \in BOOLEAN : IoAck(parses))
      BY <1>4 DEF IoTrack, IoFailed, IoSimulate, IoSimFill, PostRefused, PostLost, IoAck
<1>5. CASE \/ Start \/ Stop \/ StopJoin \/ StopReturn
           \/ (\E id \in OrderId : StopSkip(id) \/ StopErase(id))
      BY <1>5 DEF Start, Stop, StopJoin, StopReturn, StopSkip, StopErase
<1>6. CASE UNCHANGED vars BY <1>6 DEF vars
<1> QED BY <1>1, <1>2, <1>3, <1>4, <1>5, <1>6

LEMMA NextSplit ==
    ASSUME [Next]_vars
    PROVE  \/ Silent \/ IoCancel \/ StreamDeliver \/ StreamDisconnect
           \/ (\E answered \in BOOLEAN : PostAccepted(answered))
           \/ (\E c \in ClientId, q \in Qty : ExchangeTrade(c, q))
           \/ (\E c \in ClientId : ExchangeExpire(c))
           \/ (\E id \in OrderId : StopDelete(id))
BY DEF Next, IoThread, UserStream, Connection, Exchange, Controller, Silent

LEMMA WireStep ==
    ASSUME TypeOK, TypeOK', CountInv, SendInv, WireInv, [Next]_vars
    PROVE  WireInv'
<1> USE DEF inputVars, ctlVars, exchVars
<1>1. CASE Silent BY <1>1, SilentIs, WireFrame
<1>2. CASE IoCancel
  <2>1. UNCHANGED events /\ (UNCHANGED exch \/ Delete(req.id)) BY <1>2 DEF IoCancel
  <2> QED BY <2>1, DeleteIs, WireFrame
<1>3. ASSUME NEW id \in OrderId, StopDelete(id) PROVE WireInv'
      BY <1>3, DeleteIs, WireFrame DEF StopDelete
<1>4. CASE StreamDeliver BY <1>4, WireRead DEF StreamDeliver
<1>5. CASE StreamDisconnect
  <2>1. events' = <<>> /\ UNCHANGED exch BY <1>5 DEF StreamDisconnect
  <2>2. DOMAIN events' = {} BY <2>1
  <2> QED BY <2>1, <2>2 DEF WireInv
<1>6. ASSUME NEW answered \in BOOLEAN, PostAccepted(answered) PROVE WireInv'
      BY <1>6, AcceptIs, WireEmit
<1>7. ASSUME NEW c \in ClientId, NEW q \in Qty, ExchangeTrade(c, q) PROVE WireInv'
  <2> DEFINE e == FillEventOf(c, q)
  <2>1. /\ e \in Event /\ e.cid = c /\ e.type = "fill" /\ e.qty = q /\ e.left = exch[c].left - q
        /\ exch[c].left \in Nat /\ q \in Nat /\ q <= exch[c].left /\ exch[c].state = "open"
        /\ exch'[c].left = exch[c].left - q
        /\ exch'[c].left = 0 => exch'[c].state = "done"
        /\ exch'[c].left # 0 => exch'[c].state = "open"
        BY <1>7, TradeIs
  <2>2. Emit(e) /\ \A d \in ClientId : d # c => exch'[d] = exch[d] BY <1>7, TradeIs
  <2> HIDE DEF e
  <2>3. exch'[c].state # "none" BY <2>1
  <2>4. exch'[c].state = "open" => exch'[c].left > 0 BY <2>1
  <2>5. e.left + e.qty = exch[c].left /\ e.left = exch'[c].left BY <2>1
  <2>6. /\ e \in Event /\ e.cid = c /\ e.type = "fill" /\ exch[c].state = "open" BY <2>1
  <2> QED BY <2>2, <2>3, <2>4, <2>5, <2>6, WireEmit
<1>8. ASSUME NEW c \in ClientId, ExchangeExpire(c) PROVE WireInv'
      BY <1>8, ExpireIs, WireEmit
<1> QED BY <1>1, <1>2, <1>3, <1>4, <1>5, <1>6, <1>7, <1>8, NextSplit

-----------------------------------------------------------------------------
(* What becomes of a fill *)

LEMMA Pair == ASSUME NEW S, NEW x \in S, NEW y \in S PROVE <<x>> \o <<y>> = <<x, y>>
<1> DEFINE s == <<x>> \o <<y>>
           t == <<x, y>>
<1>1. <<x>> \in Seq(S) /\ <<y>> \in Seq(S) OBVIOUS
<1>2. s \in Seq(S) /\ Len(s) = 2 /\ s[1] = x /\ s[2] = y BY <1>1
<1>3. t \in Seq(S) /\ Len(t) = 2 /\ t[1] = x /\ t[2] = y OBVIOUS
<1> HIDE DEF s, t
<1>4. \A i \in 1 .. Len(s) : s[i] = t[i] BY <1>2, <1>3
<1>5. s = t BY <1>2, <1>3, <1>4, SeqEqual
<1> QED BY <1>5 DEF s, t

LEMMA FateSequences ==
    /\ <<"delivered">> \in Seq(Fate) /\ <<"dropped">> \in Seq(Fate) /\ <<"lost">> \in Seq(Fate)
    /\ <<"traded">> \in Seq(Fate) /\ <<"traded", "delivered">> \in Seq(Fate)
    /\ <<"traded", "lost">> \in Seq(Fate)
    /\ \A s \in Seq(Fate) : <<>> \o s = s
    /\ \A x \in Fate : <<"traded">> \o <<x>> = <<"traded", x>>
<1>1. /\ <<"delivered">> \in Seq(Fate) /\ <<"dropped">> \in Seq(Fate) /\ <<"lost">> \in Seq(Fate)
      /\ <<"traded">> \in Seq(Fate) /\ <<"traded", "delivered">> \in Seq(Fate)
      /\ <<"traded", "lost">> \in Seq(Fate)
      BY DEF Fate
<1>2. \A s \in Seq(Fate) : <<>> \o s = s BY ConcatEmptySeq
<1>3. \A x \in Fate : <<"traded">> \o <<x>> = <<"traded", x>>
  <2>1. "traded" \in Fate BY DEF Fate
  <2> QED BY <2>1, Pair
<1> QED BY <1>1, <1>2, <1>3

LEMMA FateDistinct ==
    /\ <<"traded">> # <<>>
    /\ \A x : <<"traded", x>> # <<>> /\ <<"traded", x>> # <<"traded">>
OBVIOUS

(* A message sent or read changes what is in flight by its own fill. *)
LEMMA InFlightEmit ==
    ASSUME TypeOK, NEW e \in Event, Emit(e), NEW f
    PROVE  InFlight(f)' <=> InFlight(f) \/ (stream.up /\ e.type = "fill" /\ FillOf(e) = f)
<1>1. CASE ~stream.up
  <2>1. events' = events BY <1>1, EmitIs
  <2> QED BY <1>1, <2>1 DEF InFlight
<1>2. CASE stream.up
  <2>1. /\ Len(events') = Len(events) + 1 /\ events'[Len(events) + 1] = e
        /\ \A i \in DOMAIN events : i \in DOMAIN events' /\ events'[i] = events[i]
        /\ \A i \in DOMAIN events' : i \in DOMAIN events \/ i = Len(events) + 1
        /\ events' \in Seq(Event)
        BY <1>2, EmitIs
  <2>2. Len(events) + 1 \in DOMAIN events' BY <2>1 DEF TypeOK
  <2> QED BY <1>2, <2>1, <2>2 DEF InFlight, FillOf
<1> QED BY <1>1, <1>2

LEMMA InFlightRead ==
    ASSUME TypeOK, events # <<>>, events' = Tail(events), NEW f
    PROVE  InFlight(f) <=> InFlight(f)' \/ (events[1].type = "fill" /\ FillOf(events[1]) = f)
<1>1. /\ 1 \in DOMAIN events
      /\ \A i \in DOMAIN events' : i + 1 \in DOMAIN events /\ events'[i] = events[i + 1]
      /\ \A i \in DOMAIN events : i # 1 => i - 1 \in DOMAIN events' /\ events'[i - 1] = events[i]
      BY ReadIs
<1>2. InFlight(f)' => InFlight(f) BY <1>1 DEF InFlight, FillOf
<1>3. ASSUME InFlight(f), ~(events[1].type = "fill" /\ FillOf(events[1]) = f) PROVE InFlight(f)'
  <2>1. PICK i \in DOMAIN events : events[i].type = "fill" /\ FillOf(events[i]) = f BY <1>3 DEF InFlight
  <2>2. i # 1 BY <1>3, <2>1
  <2>3. PICK j : j \in DOMAIN events' /\ events'[j] = events[i] BY <1>1, <2>2
  <2> QED BY <2>1, <2>3 DEF InFlight, FillOf
<1>4. events[1].type = "fill" /\ FillOf(events[1]) = f => InFlight(f) BY <1>1 DEF InFlight
<1> QED BY <1>2, <1>3, <1>4

(* What is read is not in flight any more: the later fills of an order     *)
(* leave less of it open.                                                  *)
LEMMA ReadOnce ==
    ASSUME TypeOK, WireInv, events # <<>>, events' = Tail(events), events[1].type = "fill"
    PROVE  \A f : f = FillOf(events[1]) => ~InFlight(f)'
<1> SUFFICES ASSUME NEW f, f = FillOf(events[1]), InFlight(f)' PROVE FALSE OBVIOUS
<1>1. PICK i \in DOMAIN events' : events'[i].type = "fill" /\ FillOf(events'[i]) = f BY DEF InFlight
<1>2. /\ 1 \in DOMAIN events /\ i + 1 \in DOMAIN events /\ events'[i] = events[i + 1]
      /\ events' \in Seq(Event)
      BY ReadIs
<1>3. i \in Nat /\ i >= 1 BY <1>2
<1>4. 1 < i + 1 BY <1>3
<1>5. events[i + 1].cid = events[1].cid /\ events[i + 1].left = events[1].left BY <1>1, <1>2 DEF FillOf
<1>6. events[i + 1].left + events[i + 1].qty <= events[1].left
      BY <1>1, <1>2, <1>4, <1>5 DEF WireInv, IsFill
<1>7. events[i + 1] \in Event /\ events[i + 1].type = "fill" BY <1>1, <1>2 DEF TypeOK
<1>8. events[i + 1].left \in Nat /\ events[i + 1].qty \in Nat /\ events[i + 1].qty > 0
      BY <1>7, GatewayAssumption DEF Event, Qty
<1> QED BY <1>5, <1>6, <1>8

LEMMA HandStep ==
    ASSUME TypeOK, TypeOK', CountInv, SendInv, WireInv, HandInv, [Next]_vars
    PROVE  HandInv'
<1> USE DEF inputVars, ctlVars, exchVars
<1> DEFINE g == stream.fill
<1>0. stream.fill # NoFill => /\ stream.fill \in Fill /\ stream.fill.cid \in ClientId
                              /\ stream.fill.left \in Nat
      BY GatewayAssumption DEF TypeOK, Receiving, Fill
<1>1. ASSUME stream'.id = stream.id, stream'.fill = stream.fill, UNCHANGED events,
             \A c \in ClientId : /\ exch'[c].left = exch[c].left
                                 /\ exch'[c].state = "none" <=> exch[c].state = "none"
      PROVE  HandInv'
      BY <1>0, <1>1 DEF HandInv, IsFill
<1>2. CASE Silent /\ stream' = stream BY <1>1, <1>2, SilentIs
<1>3. CASE StreamCallback
  <2>1. stream'.id = 0 /\ stream'.fill = NoFill BY <1>3 DEF StreamCallback, TypeOK, Receiving
  <2> QED BY <2>1 DEF HandInv
<1>4. CASE StreamReconnect
  <2>1. stream'.id = stream.id /\ stream'.fill = stream.fill /\ UNCHANGED <<events, exch>>
        BY <1>4 DEF StreamReconnect, TypeOK, Receiving
  <2> QED BY <1>1, <2>1
<1>5. CASE IoCancel
  <2>1. UNCHANGED <<events, stream>> /\ (UNCHANGED exch \/ Delete(req.id)) BY <1>5 DEF IoCancel
  <2> QED BY <1>1, <2>1, DeleteIs
<1>6. ASSUME NEW id \in OrderId, StopDelete(id) PROVE HandInv'
      BY <1>1, <1>6, DeleteIs DEF StopDelete
<1>7. CASE StreamDisconnect
  <2>1. /\ stream'.id = stream.id /\ stream'.fill = stream.fill /\ UNCHANGED exch
        /\ events' = <<>>
        BY <1>7 DEF StreamDisconnect, TypeOK, Receiving
  <2>2. DOMAIN events' = {} BY <2>1
  <2> QED BY <2>1, <2>2 DEF HandInv
<1>8. ASSUME NEW e \in Event, Emit(e), UNCHANGED stream,
             \A d \in ClientId : d # e.cid => exch'[d] = exch[d],
             exch'[e.cid].state # "none",
             \/ exch[e.cid].state = "none"
             \/ exch[e.cid].state # "none" /\ exch'[e.cid].left <= exch[e.cid].left,
             e.type = "fill" => exch[e.cid].state # "none" /\ e.left < exch[e.cid].left
      PROVE  HandInv'
  <2>1. CASE stream.fill = NoFill BY <1>8, <2>1 DEF HandInv
  <2>2. CASE stream.fill # NoFill
    <3>1. exch[g.cid].state # "none" /\ exch[g.cid].left <= g.left BY <2>2 DEF HandInv
    <3>2. exch'[g.cid].left \in Nat /\ exch[g.cid].left \in Nat /\ g.left \in Nat
          BY <1>0, <2>2, GatewayAssumption DEF TypeOK, ExchangeOrder
    <3>3. exch'[g.cid].state # "none" /\ exch'[g.cid].left <= g.left BY <1>0, <1>8, <2>2, <3>1, <3>2
    <3>4. ASSUME NEW i \in DOMAIN events', IsFill(i)', events'[i].cid = g.cid
          PROVE  events'[i].left < g.left
      <4>1. CASE i \in DOMAIN events /\ events'[i] = events[i]
            BY <2>2, <3>4, <4>1 DEF HandInv, IsFill
      <4>2. CASE events'[i] = e
        <5>1. e.type = "fill" /\ e.cid = g.cid BY <3>4, <4>2 DEF IsFill
        <5>2. e.left < exch[g.cid].left BY <1>8, <5>1
        <5>3. e.left \in Nat BY <5>1, GatewayAssumption DEF Event
        <5> QED BY <3>1, <3>2, <4>2, <5>2, <5>3
      <4>3. events'[i] = e \/ (i \in DOMAIN events /\ events'[i] = events[i]) BY <1>8, EmitIs
      <4> QED BY <4>1, <4>2, <4>3
    <3> QED BY <1>8, <3>3, <3>4 DEF HandInv
  <2> QED BY <2>1, <2>2
<1>9. ASSUME NEW answered \in BOOLEAN, PostAccepted(answered) PROVE HandInv'
  <2>1. UNCHANGED stream BY <1>9 DEF PostAccepted
  <2> QED BY <1>8, <1>9, <2>1, AcceptIs
<1>10. ASSUME NEW c \in ClientId, NEW q \in Qty, ExchangeTrade(c, q) PROVE HandInv'
  <2> DEFINE e == FillEventOf(c, q)
  <2>1. /\ e \in Event /\ e.cid = c /\ e.left = exch[c].left - q
        /\ exch[c].left \in Nat /\ q \in Nat /\ q > 0 /\ q <= exch[c].left /\ exch[c].state = "open"
        /\ exch'[c].left = exch[c].left - q
        /\ exch'[c].left = 0 => exch'[c].state = "done"
        /\ exch'[c].left # 0 => exch'[c].state = "open"
        BY <1>10, TradeIs
  <2>2. Emit(e) /\ \A d \in ClientId : d # c => exch'[d] = exch[d] BY <1>10, TradeIs
  <2>3. UNCHANGED stream BY <1>10 DEF ExchangeTrade
  <2> HIDE DEF e
  <2>4. e.left < exch[c].left /\ exch'[c].left <= exch[c].left BY <2>1
  <2>5. e \in Event /\ e.cid = c /\ exch[c].state # "none" /\ exch'[c].state # "none" BY <2>1
  <2> QED BY <1>8, <2>2, <2>3, <2>4, <2>5
<1>11. ASSUME NEW c \in ClientId, ExchangeExpire(c) PROVE HandInv'
  <2>1. UNCHANGED stream BY <1>11 DEF ExchangeExpire
  <2>2. exch'[c].left <= exch[c].left
    <3>1. exch[c].left \in Nat BY GatewayAssumption DEF TypeOK, ExchangeOrder
    <3> QED BY <1>11, <3>1, ExpireIs
  <2> QED BY <1>8, <1>11, <2>1, <2>2, ExpireIs
<1>12. CASE StreamDeliver
  <2> DEFINE e == Head(events)
             id == clientMap[e.cid]
  <2>1. /\ e = events[1] /\ e \in Event /\ 1 \in DOMAIN events /\ events # <<>>
        /\ events' = Tail(events) /\ UNCHANGED exch /\ stream.id = 0
        BY <1>12, ReadIs DEF StreamDeliver
  <2>2. id \in OrderId /\ e.cid \in ClientId BY <2>1, EventOrder
  <2>3. stream.fill = NoFill BY <2>1 DEF HandInv
  <2>4. CASE UNCHANGED stream BY <2>1, <2>3, <2>4 DEF HandInv
  <2>5. CASE e.type = "fill" /\ stream' = [stream EXCEPT !.id = id, !.fill = FillOf(e)]
    <3>1. stream'.id = id /\ stream'.fill = FillOf(e) BY <2>5 DEF TypeOK, Receiving
    <3>2. id # 0 /\ FillOf(e) # NoFill
          BY <2>2, GatewayAssumption DEF OrderId, ClientId, FillOf, NoFill
    <3>3. FillOf(e).cid = e.cid /\ FillOf(e).left = e.left BY DEF FillOf
    <3>4. exch[e.cid].state # "none" /\ exch[e.cid].left <= e.left
          BY <2>1, <2>5 DEF WireInv, IsFill
    <3>5. ASSUME NEW i \in DOMAIN events', IsFill(i)', events'[i].cid = e.cid
          PROVE  events'[i].left < e.left
      <4>1. i + 1 \in DOMAIN events /\ events'[i] = events[i + 1] /\ events' \in Seq(Event)
            BY <2>1, ReadIs
      <4>2. i \in Nat /\ i >= 1 BY <4>1
      <4>3. 1 < i + 1 /\ IsFill(1) /\ IsFill(i + 1) /\ events[1].cid = events[i + 1].cid
            BY <2>1, <2>5, <3>5, <4>1, <4>2 DEF IsFill
      <4>4. events[i + 1].left + events[i + 1].qty <= e.left BY <2>1, <4>1, <4>3 DEF WireInv
      <4>5. events[i + 1] \in Event /\ events[i + 1].type = "fill" BY <4>1, <4>3 DEF TypeOK, IsFill
      <4>6. events[i + 1].left \in Nat /\ events[i + 1].qty \in Nat /\ events[i + 1].qty > 0
            BY <4>5, GatewayAssumption DEF Event, Qty
      <4>7. e.left \in Nat BY <2>1, GatewayAssumption DEF Event
      <4> QED BY <4>1, <4>4, <4>6, <4>7
    <3> HIDE DEF e, id
    <3> QED BY <2>1, <3>1, <3>2, <3>3, <3>4, <3>5 DEF HandInv
  <2> QED BY <1>12, <2>4, <2>5 DEF StreamDeliver
<1>13. ASSUME Silent PROVE stream' = stream \/ StreamCallback \/ StreamReconnect
  <2>1. CASE Producer BY <2>1 DEF Producer, SubmitOrder, AmendOrder
  <2>2. CASE IoPop \/ IoExit \/ IoMismatch \/ IoErase \/ IoModify \/ IoUnencodable
        BY <2>2 DEF IoPop, IoExit, IoMismatch, IoErase, IoModify, IoUnencodable
  <2>3. CASE IoTrack \/ IoFailed \/ IoSimulate \/ IoSimFill \/ PostRefused \/ PostLost
             \/ (\E parses \in BOOLEAN : IoAck(parses))
        BY <2>3 DEF IoTrack, IoFailed, IoSimulate, IoSimFill, PostRefused, PostLost, IoAck
  <2>4. CASE \/ Start \/ Stop \/ StopJoin \/ StopReturn
             \/ (\E id \in OrderId : StopSkip(id) \/ StopErase(id))
        BY <2>4 DEF Start, Stop, StopJoin, StopReturn, StopSkip, StopErase
  <2>5. CASE UNCHANGED vars BY <2>5 DEF vars
  <2> QED BY <1>13, <2>1, <2>2, <2>3, <2>4, <2>5 DEF Silent
<1> QED BY <1>2, <1>3, <1>4, <1>5, <1>6, <1>7, <1>9, <1>10, <1>11, <1>12, <1>13, NextSplit

(* Of the silent steps only the two callbacks write down a fate. *)
LEMMA SilentRecords ==
    ASSUME TypeOK, Silent
    PROVE  \/ StreamCallback \/ IoSimFill
           \/ UNCHANGED trades /\ stream'.id = stream.id /\ stream'.fill = stream.fill
<1> USE DEF inputVars, ctlVars, exchVars
<1>1. CASE Producer BY <1>1 DEF Producer, SubmitOrder, AmendOrder
<1>2. CASE IoPop \/ IoExit \/ IoMismatch \/ IoErase \/ IoModify \/ IoUnencodable
      BY <1>2 DEF IoPop, IoExit, IoMismatch, IoErase, IoModify, IoUnencodable
<1>3. CASE IoTrack \/ IoFailed \/ IoSimulate \/ PostRefused \/ PostLost
           \/ (\E parses \in BOOLEAN : IoAck(parses))
      BY <1>3 DEF IoTrack, IoFailed, IoSimulate, PostRefused, PostLost, IoAck
<1>4. CASE \/ Start \/ Stop \/ StopJoin \/ StopReturn
           \/ (\E id \in OrderId : StopSkip(id) \/ StopErase(id))
      BY <1>4 DEF Start, Stop, StopJoin, StopReturn, StopSkip, StopErase
<1>5. CASE StreamReconnect BY <1>5 DEF StreamReconnect, TypeOK, Receiving
<1>6. CASE UNCHANGED vars BY <1>6 DEF vars
<1> QED BY <1>1, <1>2, <1>3, <1>4, <1>5, <1>6 DEF Silent

(* A trade is written down as under way, or as lost when nobody listens. *)
LEMMA TradeRecords ==
    ASSUME TypeOK, NEW c \in ClientId, NEW q \in Qty, ExchangeTrade(c, q)
    PROVE  /\ stream.up => Record({FillOf(FillEventOf(c, q))}, <<"traded">>)
           /\ ~stream.up => Record({FillOf(FillEventOf(c, q))}, <<"traded", "lost">>)
           /\ UNCHANGED stream
<1> DEFINE f == [cid |-> c, left |-> exch[c].left - q, qty |-> q]
<1>1. FillOf(FillEventOf(c, q)) = f BY DEF FillOf, FillEventOf
<1>2. Record({f}, IF stream.up THEN <<"traded">> ELSE <<"traded", "lost">>) /\ UNCHANGED stream
      BY DEF ExchangeTrade
<1> HIDE DEF f
<1> QED BY <1>1, <1>2

(* A fill that is being traded has not been traded before. *)
LEMMA TradeIsNew ==
    ASSUME TypeOK, SendInv, TradeInv, NEW c \in ClientId, NEW q \in Qty, ExchangeTrade(c, q)
    PROVE  \A f : f = FillOf(FillEventOf(c, q)) => f \in Fill /\ trades[f] = <<>>
<1> SUFFICES ASSUME NEW f, f = FillOf(FillEventOf(c, q)) PROVE f \in Fill /\ trades[f] = <<>> OBVIOUS
<1>1. /\ f \in Fill /\ exch[c].left \in Nat /\ q \in Nat /\ q > 0 /\ exch[c].state = "open"
      /\ FillEventOf(c, q).cid = c /\ FillEventOf(c, q).left = exch[c].left - q
      BY TradeIs
<1>2. f.cid = c /\ f.left = exch[c].left - q BY <1>1 DEF FillOf
<1>3. mode = "real" BY <1>1 DEF SendInv
<1>4. ~(exch[c].left <= f.left) BY <1>1, <1>2
<1> QED BY <1>1, <1>2, <1>3, <1>4 DEF TradeInv

\* what becomes of one fill: FillConservation, fill by fill
Conserved(f) ==
    \/ trades[f] = <<>> /\ ~UnderWay(f)
    \/ trades[f] = <<"traded">> /\ UnderWay(f)
    \/ trades[f] \in {<<"traded", fate>> : fate \in Fate \ {"traded"}} /\ ~UnderWay(f)

LEMMA FillsApart == /\ NoFill \notin Fill
                    /\ {"delivered", "dropped", "lost"} \subseteq Fate \ {"traded"}
<1>1. 0 \notin ClientId BY GatewayAssumption DEF ClientId
<1> QED BY <1>1 DEF NoFill, Fill, Fate

LEMMA FillStep ==
    ASSUME TypeOK, TypeOK', CountInv, SendInv, WireInv, HandInv, TradeInv, FillConservation,
           [Next]_vars
    PROVE  FillConservation'
<1> USE DEF inputVars, ctlVars, exchVars
<1> SUFFICES ASSUME NEW f \in Fill PROVE Conserved(f)' BY DEF FillConservation, Conserved
<1>0. Conserved(f) BY DEF FillConservation, Conserved
<1>1. ASSUME trades'[f] = trades[f], UnderWay(f)' <=> UnderWay(f) PROVE Conserved(f)'
      BY <1>0, <1>1 DEF Conserved
<1>2. ASSUME NEW fate \in {"delivered", "dropped", "lost"}, UnderWay(f), ~UnderWay(f)',
             trades'[f] = trades[f] \o <<fate>>
      PROVE  Conserved(f)'
  <2>1. trades[f] = <<"traded">> BY <1>0, <1>2 DEF Conserved
  <2>2. trades'[f] = <<"traded", fate>> /\ fate \in Fate \ {"traded"}
        BY <1>2, <2>1, FateSequences, FillsApart
  <2> QED BY <1>2, <2>2 DEF Conserved
<1>3. CASE StreamCallback
  <2>1. /\ stream.id # 0 /\ UNCHANGED events /\ Record({stream.fill}, <<"delivered">>)
        /\ stream'.fill = NoFill
        BY <1>3 DEF StreamCallback, TypeOK, Receiving
  <2>2. InFlight(f)' <=> InFlight(f) BY <2>1 DEF InFlight
  <2>3. stream'.fill # f BY <2>1, FillsApart
  <2>4. CASE f # stream.fill
    <3>1. trades'[f] = trades[f] BY <2>1, <2>4 DEF Record
    <3> QED BY <1>1, <2>2, <2>3, <2>4, <3>1 DEF UnderWay
  <2>5. CASE f = stream.fill
    <3>1. trades'[f] = trades[f] \o <<"delivered">> BY <2>1, <2>5, RecordOne
    <3>2. ~InFlight(f)
      <4> SUFFICES ASSUME NEW i \in DOMAIN events, events[i].type = "fill", FillOf(events[i]) = f
                   PROVE  FALSE
          BY DEF InFlight
      <4>1. events[i].cid = f.cid /\ events[i].left = f.left BY DEF FillOf
      <4>2. events[i].left < f.left BY <2>1, <2>5, <4>1 DEF HandInv, IsFill
      <4>3. f.left \in Nat BY GatewayAssumption DEF Fill
      <4> QED BY <4>1, <4>2, <4>3
    <3> QED BY <1>2, <2>2, <2>3, <2>5, <3>1, <3>2 DEF UnderWay
  <2> QED BY <2>4, <2>5
<1>4. CASE IoSimFill
  <2> DEFINE g == [cid |-> Cid, left |-> 0, qty |-> req.qty]
  <2>1. /\ UNCHANGED <<events, stream>> /\ io = "simFill"
        /\ Record({g}, <<"traded", "delivered">>)
        BY <1>4 DEF IoSimFill
  <2>2. UnderWay(f)' <=> UnderWay(f) BY <2>1 DEF UnderWay, InFlight
  <2>3. g.cid = stats.received BY DEF Cid
  <2> HIDE DEF g
  <2>4. CASE f # g
    <3>1. trades'[f] = trades[f] BY <2>1, <2>4 DEF Record
    <3> QED BY <1>1, <2>2, <3>1
  <2>5. CASE f = g
    <3>1. mode = "sim" BY <2>1 DEF SendInv
    <3>2. stats.received \in Nat BY CountersAre
    <3>3. ~(stats.received < stats.received) BY <3>2
    <3>4. trades[f] = <<>> BY <2>1, <2>3, <2>5, <3>1, <3>3 DEF TradeInv
    <3>5. trades'[f] = <<"traded", "delivered">>
      <4>1. trades'[f] = <<>> \o <<"traded", "delivered">> BY <2>1, <2>5, <3>4, RecordOne
      <4> QED BY <4>1, FateSequences
    <3>6. ~UnderWay(f) BY <1>0, <3>4, FateDistinct DEF Conserved
    <3> QED BY <2>2, <3>5, <3>6, FillsApart DEF Conserved
  <2> QED BY <2>4, <2>5
<1>5. CASE Silent
  <2>1. CASE UNCHANGED trades /\ stream'.fill = stream.fill
    <3>1. UNCHANGED events BY <1>5, SilentIs
    <3> QED BY <1>1, <2>1, <3>1 DEF UnderWay, InFlight
  <2> QED BY <1>3, <1>4, <1>5, <2>1, SilentRecords
<1>6. CASE IoCancel \/ \E id \in OrderId : StopDelete(id)
  <2>1. UNCHANGED <<trades, events, stream>> BY <1>6 DEF IoCancel, StopDelete
  <2> QED BY <1>1, <2>1 DEF UnderWay, InFlight
<1>7. CASE StreamDisconnect
  <2>1. /\ stream.id = 0 /\ stream'.fill = stream.fill /\ events' = <<>>
        /\ Record({h \in Fill : InFlight(h)}, <<"lost">>)
        BY <1>7 DEF StreamDisconnect, TypeOK, Receiving
  <2>2. stream.fill # f /\ stream'.fill # f BY <2>1, FillsApart DEF HandInv
  <2>3. DOMAIN events' = {} BY <2>1
  <2>4. ~InFlight(f)' BY <2>3 DEF InFlight
  <2>5. CASE InFlight(f)
    <3>1. trades'[f] = trades[f] \o <<"lost">> BY <2>1, <2>5 DEF Record
    <3> QED BY <1>2, <2>2, <2>4, <2>5, <3>1 DEF UnderWay
  <2>6. CASE ~InFlight(f)
    <3>1. trades'[f] = trades[f] BY <2>1, <2>6 DEF Record
    <3> QED BY <1>1, <2>2, <2>4, <2>6, <3>1 DEF UnderWay
  <2> QED BY <2>5, <2>6
<1>8. ASSUME NEW answered \in BOOLEAN, PostAccepted(answered) PROVE Conserved(f)'
  <2>1. UNCHANGED <<trades, stream>> BY <1>8 DEF PostAccepted
  <2>2. InFlight(f)' <=> InFlight(f) BY <1>8, AcceptIs, InFlightEmit
  <2> QED BY <1>1, <2>1, <2>2 DEF UnderWay
<1>9. ASSUME NEW c \in ClientId, ExchangeExpire(c) PROVE Conserved(f)'
  <2>1. UNCHANGED <<trades, stream>> BY <1>9 DEF ExchangeExpire
  <2>2. InFlight(f)' <=> InFlight(f) BY <1>9, ExpireIs, InFlightEmit
  <2> QED BY <1>1, <2>1, <2>2 DEF UnderWay
<1>10. ASSUME NEW c \in ClientId, NEW q \in Qty, ExchangeTrade(c, q) PROVE Conserved(f)'
  <2> DEFINE e == FillEventOf(c, q)
             g == FillOf(e)
  <2>1. e \in Event /\ Emit(e) /\ e.type = "fill" BY <1>10, TradeIs
  <2>2. g \in Fill /\ trades[g] = <<>> BY <1>10, TradeIsNew
  <2>3. /\ stream.up => Record({g}, <<"traded">>)
        /\ ~stream.up => Record({g}, <<"traded", "lost">>)
        /\ UNCHANGED stream
        BY <1>10, TradeRecords
  <2>4. InFlight(f)' <=> InFlight(f) \/ (stream.up /\ g = f) BY <2>1, InFlightEmit
  <2> HIDE DEF e, g
  <2>5. CASE f # g
    <3>1. trades'[f] = trades[f]
      <4>1. CASE stream.up BY <2>3, <2>5, <4>1 DEF Record
      <4>2. CASE ~stream.up BY <2>3, <2>5, <4>2 DEF Record
      <4> QED BY <4>1, <4>2
    <3> QED BY <1>1, <2>3, <2>4, <2>5, <3>1 DEF UnderWay
  <2>6. CASE f = g /\ stream.up
    <3>1. trades'[f] = <<>> \o <<"traded">> BY <2>2, <2>3, <2>6, RecordOne
    <3>2. trades'[f] = <<"traded">> BY <3>1, FateSequences
    <3> QED BY <2>4, <2>6, <3>2 DEF Conserved, UnderWay
  <2>7. CASE f = g /\ ~stream.up
    <3>1. trades'[f] = <<>> \o <<"traded", "lost">> BY <2>2, <2>3, <2>7, RecordOne
    <3>2. trades'[f] = <<"traded", "lost">> BY <3>1, FateSequences
    <3>3. ~UnderWay(f) BY <1>0, <2>2, <2>7, FateDistinct DEF Conserved
    <3>4. ~UnderWay(f)' BY <2>3, <2>4, <2>7, <3>3 DEF UnderWay
    <3> QED BY <3>2, <3>4, FillsApart DEF Conserved
  <2> QED BY <2>5, <2>6, <2>7
<1>11. CASE StreamDeliver
  <2> DEFINE e == Head(events)
             id == clientMap[e.cid]
             g == FillOf(e)
  <2>1. /\ e = events[1] /\ e \in Event /\ events # <<>> /\ events' = Tail(events) /\ stream.id = 0
        BY <1>11, ReadIs DEF StreamDeliver
  <2>2. stream.fill # f BY <2>1, FillsApart DEF HandInv
  <2>3. InFlight(f) <=> InFlight(f)' \/ (e.type = "fill" /\ g = f) BY <2>1, InFlightRead
  <2>4. e.type = "fill" /\ g = f => ~InFlight(f)' BY <2>1, ReadOnce
  <2>5. CASE e.type # "fill"
    <3>1. UNCHANGED <<trades, stream>> BY <2>5, <1>11 DEF StreamDeliver
    <3> QED BY <1>1, <2>3, <2>5, <3>1 DEF UnderWay
  <2>6. CASE e.type = "fill" /\ ~Present(id)
    <3>1. Record({g}, <<"dropped">>) /\ UNCHANGED stream BY <2>6, <1>11 DEF StreamDeliver
    <3> HIDE DEF g, e, id
    <3>2. CASE g # f
      <4>1. trades'[f] = trades[f] BY <3>1, <3>2 DEF Record
      <4> QED BY <1>1, <2>3, <3>1, <3>2, <4>1 DEF UnderWay
    <3>3. CASE g = f
      <4>1. trades'[f] = trades[f] \o <<"dropped">> BY <3>1, <3>3, RecordIs, FateSequences
      <4> QED BY <1>2, <2>2, <2>3, <2>4, <2>6, <3>1, <3>3, <4>1 DEF UnderWay
    <3> QED BY <3>2, <3>3
  <2>7. CASE e.type = "fill" /\ Present(id)
    <3>1. UNCHANGED trades /\ stream' = [stream EXCEPT !.id = id, !.fill = g]
          BY <2>7, <1>11 DEF StreamDeliver
    <3>2. stream'.fill = g BY <3>1 DEF TypeOK, Receiving
    <3> HIDE DEF g, e, id
    <3> QED BY <1>1, <2>2, <2>3, <2>4, <2>7, <3>1, <3>2 DEF UnderWay
  <2> QED BY <2>5, <2>6, <2>7
<1> QED BY <1>5, <1>6, <1>7, <1>8, <1>9, <1>10, <1>11, NextSplit

(* The exchange never forgets an order, and what is open of it only        *)
(* shrinks; the mode is fixed.                                             *)
LEMMA ExchangeShrinks ==
    ASSUME TypeOK, CountInv, SendInv, [Next]_vars
    PROVE  /\ UNCHANGED mode
           /\ \A c \in ClientId : exch[c].state # "none" =>
                 exch'[c].state # "none" /\ exch'[c].left <= exch[c].left
<1> USE DEF inputVars, ctlVars, exchVars
<1>0. \A c \in ClientId : exch[c].left \in Nat BY GatewayAssumption DEF TypeOK, ExchangeOrder
<1>1. ASSUME UNCHANGED exch
      PROVE  \A c \in ClientId : exch[c].state # "none" =>
                exch'[c].state # "none" /\ exch'[c].left <= exch[c].left
      BY <1>0, <1>1
<1>2. CASE Silent BY <1>1, <1>2, SilentIs
<1>3. CASE IoCancel
  <2>1. UNCHANGED mode /\ (UNCHANGED exch \/ Delete(req.id)) BY <1>3 DEF IoCancel
  <2> QED BY <1>0, <2>1, DeleteIs
<1>4. ASSUME NEW id \in OrderId, StopDelete(id) PROVE UNCHANGED mode /\ Delete(id)
      BY <1>4 DEF StopDelete
<1>5. CASE StreamDeliver \/ StreamDisconnect
  <2>1. UNCHANGED <<exch, mode>> BY <1>5 DEF StreamDeliver, StreamDisconnect
  <2> QED BY <1>1, <2>1
<1>6. ASSUME NEW answered \in BOOLEAN, PostAccepted(answered)
      PROVE  UNCHANGED mode /\ \A c \in ClientId : exch[c].state # "none" => exch'[c] = exch[c]
  <2>1. UNCHANGED mode BY <1>6 DEF PostAccepted
  <2> QED BY <1>6, <2>1, AcceptIs
<1>7. ASSUME NEW d \in ClientId, NEW q \in Qty, ExchangeTrade(d, q)
      PROVE  /\ UNCHANGED mode /\ exch'[d].state # "none" /\ exch'[d].left <= exch[d].left
             /\ \A c \in ClientId : c # d => exch'[c] = exch[c]
  <2>1. UNCHANGED mode BY <1>7 DEF ExchangeTrade
  <2>2. /\ exch[d].left \in Nat /\ q \in Nat /\ exch'[d].left = exch[d].left - q
        /\ exch'[d].left = 0 => exch'[d].state = "done"
        /\ exch'[d].left # 0 => exch'[d].state = "open"
        /\ \A c \in ClientId : c # d => exch'[c] = exch[c]
        BY <1>7, TradeIs
  <2> QED BY <2>1, <2>2
<1>8. ASSUME NEW d \in ClientId, ExchangeExpire(d)
      PROVE  /\ UNCHANGED mode /\ exch'[d].state # "none" /\ exch'[d].left <= exch[d].left
             /\ \A c \in ClientId : c # d => exch'[c] = exch[c]
  <2>1. UNCHANGED mode BY <1>8 DEF ExchangeExpire
  <2> QED BY <1>0, <1>8, <2>1, ExpireIs
<1>9. CASE \E id \in OrderId : StopDelete(id) BY <1>0, <1>4, <1>9, DeleteIs
<1>10. CASE \E answered \in BOOLEAN : PostAccepted(answered) BY <1>0, <1>6, <1>10
<1>11. CASE \E d \in ClientId, q \in Qty : ExchangeTrade(d, q) BY <1>0, <1>7, <1>11
<1>12. CASE \E d \in ClientId : ExchangeExpire(d) BY <1>0, <1>8, <1>12
<1> QED BY <1>2, <1>3, <1>5, <1>9, <1>10, <1>11, <1>12, NextSplit

(* A request is processed, and simulated, once. *)
LEMMA ProcessOnce ==
    ASSUME TypeOK, StopInv, [Next]_vars, ~IoPop
    PROVE  io' \in {"process", "simFill"} => io \in {"process", "simFill"}
<1> USE DEF inputVars, ctlVars, exchVars
<1>1. CASE Producer \/ UserStream \/ Connection \/ Exchange
      BY <1>1, ZenonT(60) DEF Producer, SubmitOrder, AmendOrder, UserStream, StreamDeliver, StreamCallback,
                  Connection, StreamDisconnect, StreamReconnect, Exchange, ExchangeTrade,
                  ExchangeExpire
<1>2. CASE IoThread
      BY <1>2 DEF IoThread, IoExit, IoMismatch, IoCancel, IoErase, IoModify, IoUnencodable,
                  IoTrack, IoFailed, IoSimulate, IoSimFill, PostRefused, PostLost, PostAccepted,
                  IoAck, IsNew, AfterError
<1>3. CASE Controller
      BY <1>3 DEF Controller, Start, Stop, StopJoin, StopReturn, StopSkip, StopDelete, StopErase
<1>4. CASE UNCHANGED vars BY <1>4 DEF vars
<1> QED BY <1>1, <1>2, <1>3, <1>4 DEF Next

(* What the step writes down of a fill nobody knew. *)
LEMMA RecordedFirst ==
    ASSUME TypeOK, HandInv, FillConservation, [Next]_vars, NEW f \in Fill,
           trades[f] = <<>>, trades'[f] # <<>>
    PROVE  \/ /\ IoSimFill /\ f = [cid |-> Cid, left |-> 0, qty |-> req.qty]
           \/ \E c \in ClientId, q \in Qty : ExchangeTrade(c, q) /\ f = FillOf(FillEventOf(c, q))
<1> USE DEF inputVars, ctlVars, exchVars
<1>0. ~UnderWay(f) BY FateDistinct DEF FillConservation
<1>1. CASE StreamCallback
  <2>1. f # stream.fill BY <1>0 DEF UnderWay
  <2>2. trades'[f] = trades[f] BY <1>1, <2>1 DEF StreamCallback, Record
  <2> QED BY <2>2
<1>2. CASE IoSimFill
  <2>1. Record({[cid |-> Cid, left |-> 0, qty |-> req.qty]}, <<"traded", "delivered">>)
        BY <1>2 DEF IoSimFill
  <2> QED BY <1>2, <2>1 DEF Record
<1>3. CASE Silent BY <1>1, <1>2, <1>3, SilentRecords
<1>4. CASE IoCancel \/ (\E id \in OrderId : StopDelete(id))
           \/ (\E answered \in BOOLEAN : PostAccepted(answered))
           \/ (\E c \in ClientId : ExchangeExpire(c))
      BY <1>4 DEF IoCancel, StopDelete, PostAccepted, ExchangeExpire
<1>5. CASE StreamDisconnect
  <2>1. ~InFlight(f) BY <1>0 DEF UnderWay
  <2>2. trades'[f] = trades[f] BY <1>5, <2>1 DEF StreamDisconnect, Record
  <2> QED BY <2>2
<1>6. CASE StreamDeliver
  <2> DEFINE e == Head(events)
             g == FillOf(e)
  <2>1. e = events[1] /\ 1 \in DOMAIN events BY <1>6, ReadIs DEF StreamDeliver
  <2>2. UNCHANGED trades \/ (e.type = "fill" /\ Record({g}, <<"dropped">>))
        BY <1>6 DEF StreamDeliver
  <2>3. e.type = "fill" => g # f BY <1>0, <2>1 DEF UnderWay, InFlight
  <2> HIDE DEF g, e
  <2> QED BY <2>2, <2>3 DEF Record
<1>7. ASSUME NEW c \in ClientId, NEW q \in Qty, ExchangeTrade(c, q)
      PROVE  ExchangeTrade(c, q) /\ f = FillOf(FillEventOf(c, q))
  <2> DEFINE g == FillOf(FillEventOf(c, q))
  <2>1. Record({g}, <<"traded">>) \/ Record({g}, <<"traded", "lost">>) BY <1>7, TradeRecords
  <2> HIDE DEF g
  <2>2. f = g BY <2>1 DEF Record
  <2> QED BY <1>7, <2>2 DEF g
<1> QED BY <1>3, <1>4, <1>5, <1>6, <1>7, NextSplit

LEMMA TradeStep ==
    ASSUME TypeOK, TypeOK', CountInv, SendInv, StopInv, HandInv, TradeInv, FillConservation,
           [Next]_vars
    PROVE  TradeInv'
<1> SUFFICES ASSUME NEW f \in Fill, trades'[f] # <<>>
             PROVE  \/ mode' = "real" /\ exch'[f.cid].state # "none" /\ exch'[f.cid].left <= f.left
                    \/ /\ mode' = "sim"
                       /\ \/ f.cid < stats'.received
                          \/ f.cid = stats'.received /\ io' \notin {"process", "simFill"}
    BY DEF TradeInv
<1>0. f.cid \in ClientId /\ f.cid \in Nat /\ f.left \in Nat
      BY GatewayAssumption DEF Fill, ClientId
<1>1. /\ UNCHANGED mode
      /\ exch[f.cid].state # "none" =>
            exch'[f.cid].state # "none" /\ exch'[f.cid].left <= exch[f.cid].left
      /\ exch[f.cid].left \in Nat /\ exch'[f.cid].left \in Nat
  <2>1. exch[f.cid].left \in Nat /\ exch'[f.cid].left \in Nat
        BY <1>0, GatewayAssumption, SMTT(60) DEF TypeOK, ExchangeOrder
  <2> QED BY <1>0, <2>1, ExchangeShrinks
<1>2. stats.received \in Nat BY CountersAre
<1>3. CASE trades[f] # <<>>
  <2>1. CASE mode = "real" /\ exch[f.cid].state # "none" /\ exch[f.cid].left <= f.left
        BY <1>0, <1>1, <2>1
  <2>2. CASE mode = "sim" /\ f.cid < stats.received
    <3>1. f.cid < stats'.received
      <4>1. CASE IoPop
        <5>1. stats'.received = stats.received + 1 BY <4>1, CountIs DEF IoPop, Counter
        <5> QED BY <1>0, <1>2, <2>2, <5>1
      <4>2. CASE ~IoPop BY <2>2, <4>2, ReceivedStays
      <4> QED BY <4>1, <4>2
    <3> QED BY <1>1, <2>2, <3>1
  <2>3. CASE mode = "sim" /\ f.cid = stats.received /\ io \notin {"process", "simFill"}
    <3>1. CASE IoPop
      <4>1. stats'.received = stats.received + 1 BY <3>1, CountIs DEF IoPop, Counter
      <4>2. f.cid < stats'.received BY <1>2, <2>3, <4>1
      <4> QED BY <1>1, <2>3, <4>2
    <3>2. CASE ~IoPop BY <1>1, <2>3, <3>2, ReceivedStays, ProcessOnce
    <3> QED BY <3>1, <3>2
  <2> QED BY <1>3, <2>1, <2>2, <2>3 DEF TradeInv
<1>4. CASE trades[f] = <<>>
  <2>1. CASE IoSimFill /\ f = [cid |-> Cid, left |-> 0, qty |-> req.qty]
    <3>1. io = "simFill" /\ io' = "loop" BY <2>1 DEF IoSimFill
    <3>2. mode = "sim" BY <3>1 DEF SendInv
    <3>3. f.cid = stats.received BY <2>1 DEF Cid
    <3>4. stats'.received = stats.received BY <2>1, <3>1, ReceivedStays DEF IoPop
    <3> QED BY <1>1, <3>1, <3>2, <3>3, <3>4
  <2>2. ASSUME NEW c \in ClientId, NEW q \in Qty, ExchangeTrade(c, q), f = FillOf(FillEventOf(c, q))
        PROVE  mode' = "real" /\ exch'[f.cid].state # "none" /\ exch'[f.cid].left <= f.left
    <3>1. /\ FillEventOf(c, q).cid = c /\ FillEventOf(c, q).left = exch[c].left - q
          /\ exch[c].state = "open" /\ exch'[c].left = exch[c].left - q
          BY <2>2, TradeIs
    <3>2. f.cid = c /\ f.left = exch'[c].left BY <2>2, <3>1 DEF FillOf
    <3>3. mode = "real" BY <3>1 DEF SendInv
    <3> QED BY <1>0, <1>1, <3>1, <3>2, <3>3
  <2> QED BY <1>4, <2>1, <2>2, RecordedFirst
<1> QED BY <1>3, <1>4

-----------------------------------------------------------------------------
(* What the exchange may still report *)

(* A message is an old one, or an ack, or tells of an order that was open. *)
LEMMA EventsFrom ==
    ASSUME TypeOK, CountInv, SendInv, [Next]_vars, NEW i \in DOMAIN events'
    PROVE  \/ \E j \in DOMAIN events : events'[i] = events[j]
           \/ events'[i].type = "ack"
           \/ /\ events'[i].cid \in ClientId /\ exch[events'[i].cid].state = "open"
              /\ events'[i].type = "fill" =>
                    events'[i].left + events'[i].qty = exch[events'[i].cid].left
<1> USE DEF inputVars, ctlVars, exchVars
<1>1. ASSUME UNCHANGED events PROVE \E j \in DOMAIN events : events'[i] = events[j] BY <1>1
<1>2. ASSUME NEW e \in Event, Emit(e) PROVE events'[i] = e \/ \E j \in DOMAIN events : events'[i] = events[j]
      BY <1>2, EmitIs
<1>3. CASE Silent BY <1>1, <1>3, SilentIs
<1>4. CASE IoCancel \/ \E id \in OrderId : StopDelete(id) BY <1>1, <1>4 DEF IoCancel, StopDelete
<1>5. CASE StreamDeliver
  <2>1. events # <<>> /\ events' = Tail(events) BY <1>5 DEF StreamDeliver
  <2> QED BY <2>1, ReadIs
<1>6. CASE StreamDisconnect
  <2>1. events' = <<>> BY <1>6 DEF StreamDisconnect
  <2> QED BY <2>1
<1>7. ASSUME NEW answered \in BOOLEAN, PostAccepted(answered)
      PROVE  events'[i].type = "ack" \/ \E j \in DOMAIN events : events'[i] = events[j]
      BY <1>2, <1>7, AcceptIs
<1>8. ASSUME NEW c \in ClientId, NEW q \in Qty, ExchangeTrade(c, q)
      PROVE  \/ \E j \in DOMAIN events : events'[i] = events[j]
             \/ /\ events'[i].cid = c /\ exch[c].state = "open"
                /\ events'[i].left + events'[i].qty = exch[c].left
  <2> DEFINE e == FillEventOf(c, q)
  <2>1. /\ e \in Event /\ e.cid = c /\ e.left = exch[c].left - q /\ e.qty = q
        /\ exch[c].left \in Nat /\ q \in Nat /\ exch[c].state = "open"
        BY <1>8, TradeIs
  <2>2. Emit(e) BY <1>8, TradeIs
  <2> HIDE DEF e
  <2>3. e.left + e.qty = exch[c].left BY <2>1
  <2> QED BY <1>2, <2>1, <2>2, <2>3
<1>9. ASSUME NEW c \in ClientId, ExchangeExpire(c)
      PROVE  \/ \E j \in DOMAIN events : events'[i] = events[j]
             \/ events'[i].cid = c /\ events'[i].type = "reject" /\ exch[c].state = "open"
      BY <1>2, <1>9, ExpireIs
<1>10. CASE \E answered \in BOOLEAN : PostAccepted(answered) BY <1>7, <1>10
<1>11. CASE \E c \in ClientId, q \in Qty : ExchangeTrade(c, q) BY <1>8, <1>11
<1>12. CASE \E c \in ClientId : ExchangeExpire(c) BY <1>9, <1>12
<1> QED BY <1>3, <1>4, <1>5, <1>6, <1>10, <1>11, <1>12, NextSplit

(* An order gets to the exchange by a POST. *)
LEMMA OpensFrom ==
    ASSUME TypeOK, TypeOK', CountInv, SendInv, [Next]_vars, NEW c \in ClientId
    PROVE  /\ exch'[c].state = "open" => exch[c].state \in {"none", "open"}
           /\ exch[c].state = "none" /\ exch'[c].state # "none" =>
                 io = "post" /\ c = Cid /\ exch'[c].left = req.qty
<1> USE DEF inputVars, ctlVars, exchVars
<1>1. ASSUME exch'[c].state = "none" <=> exch[c].state = "none",
             exch'[c].state = "open" => exch[c].state = "open"
      PROVE  /\ exch'[c].state = "open" => exch[c].state \in {"none", "open"}
             /\ exch[c].state = "none" /\ exch'[c].state # "none" =>
                   io = "post" /\ c = Cid /\ exch'[c].left = req.qty
      BY <1>1
<1>2. CASE Silent BY <1>1, <1>2, SilentIs
<1>3. CASE IoCancel
  <2>1. UNCHANGED exch \/ Delete(req.id) BY <1>3 DEF IoCancel
  <2> QED BY <1>1, <2>1, DeleteIs
<1>4. CASE \E id \in OrderId : StopDelete(id) BY <1>1, <1>4, DeleteIs DEF StopDelete
<1>5. CASE StreamDeliver \/ StreamDisconnect BY <1>1, <1>5 DEF StreamDeliver, StreamDisconnect
<1>6. ASSUME NEW answered \in BOOLEAN, PostAccepted(answered)
      PROVE  /\ exch'[c].state = "open" => exch[c].state \in {"none", "open"}
             /\ exch[c].state = "none" /\ exch'[c].state # "none" =>
                   io = "post" /\ c = Cid /\ exch'[c].left = req.qty
  <2>1. io = "post" BY <1>6 DEF PostAccepted
  <2> QED BY <1>6, <2>1, AcceptIs
<1>7. ASSUME NEW d \in ClientId, exch[d].state = "open", exch'[d].state # "none",
             \A b \in ClientId : b # d => exch'[b] = exch[b]
      PROVE  /\ exch'[c].state = "none" <=> exch[c].state = "none"
             /\ exch'[c].state = "open" => exch[c].state = "open"
      BY <1>7
<1>8. ASSUME NEW d \in ClientId, NEW q \in Qty, ExchangeTrade(d, q)
      PROVE  /\ exch'[c].state = "none" <=> exch[c].state = "none"
             /\ exch'[c].state = "open" => exch[c].state = "open"
  <2>1. /\ exch[d].state = "open" /\ \A b \in ClientId : b # d => exch'[b] = exch[b]
        /\ exch'[d].left = 0 => exch'[d].state = "done"
        /\ exch'[d].left # 0 => exch'[d].state = "open"
        BY <1>8, TradeIs
  <2> QED BY <1>7, <2>1
<1>9. ASSUME NEW d \in ClientId, ExchangeExpire(d)
      PROVE  /\ exch'[c].state = "none" <=> exch[c].state = "none"
             /\ exch'[c].state = "open" => exch[c].state = "open"
  <2>1. /\ exch[d].state = "open" /\ exch'[d].state = "done"
        /\ \A b \in ClientId : b # d => exch'[b] = exch[b]
        BY <1>9, ExpireIs
  <2> QED BY <1>7, <2>1
<1>10. CASE \E d \in ClientId, q \in Qty : ExchangeTrade(d, q) BY <1>1, <1>8, <1>10
<1>11. CASE \E d \in ClientId : ExchangeExpire(d) BY <1>1, <1>9, <1>11
<1> QED BY <1>2, <1>3, <1>4, <1>5, <1>6, <1>10, <1>11, NextSplit

(* A POST goes on with the request and the clientOrderId it began with. *)
LEMMA PostStays ==
    ASSUME TypeOK, [Next]_vars, ~IoTrack, io' = "post"
    PROVE  io = "post" /\ Cid' = Cid /\ req'.qty = req.qty
<1> USE DEF inputVars, ctlVars, exchVars
<1>1. ~IoPop BY DEF IoPop
<1>2. stats'.received = stats.received BY <1>1, ReceivedStays
<1>3. io = "post" /\ (req' = req \/ req' = [req EXCEPT !.attempt = @ + 1])
  <2>1. CASE Producer \/ UserStream \/ Connection \/ Exchange
        BY <2>1 DEF Producer, SubmitOrder, AmendOrder, UserStream, StreamDeliver, StreamCallback,
                    Connection, StreamDisconnect, StreamReconnect, Exchange, ExchangeTrade,
                    ExchangeExpire
  <2>2. CASE IoThread
        BY <2>2 DEF IoThread, IoPop, IoExit, IoMismatch, IoCancel, IoErase, IoModify, IoUnencodable,
                    IoFailed, IoSimulate, IoSimFill, PostRefused, PostLost, PostAccepted,
                    IoAck, AfterError
  <2>3. CASE Controller
        BY <2>3 DEF Controller, Start, Stop, StopJoin, StopReturn, StopSkip, StopDelete, StopErase
  <2>4. CASE UNCHANGED vars BY <2>4 DEF vars
  <2> QED BY <2>1, <2>2, <2>3, <2>4 DEF Next
<1>4. req'.qty = req.qty BY <1>3 DEF TypeOK, Sending
<1> QED BY <1>2, <1>3, <1>4 DEF Cid

(* Nothing is awaited that was not awaited, until the next order is sent. *)
LEMMA AwaitedBefore ==
    ASSUME TypeOK, TypeOK', CountInv, SendInv, [Next]_vars, ~IoTrack, NEW c \in ClientId, Awaited(c)'
    PROVE  Awaited(c)
<1>1. CASE exch'[c].state = "open" BY <1>1, OpensFrom DEF Awaited
<1>2. CASE io' = "post" /\ c = Cid' /\ exch'[c].state = "none"
  <2>1. io = "post" /\ Cid' = Cid BY <1>2, PostStays
  <2>2. exch[c].state = "none" BY <1>2, ExchangeShrinks
  <2> QED BY <1>2, <2>1, <2>2 DEF Awaited
<1>3. ASSUME NEW i \in DOMAIN events', events'[i].cid = c, events'[i].type # "ack" PROVE Awaited(c)
      BY <1>3, EventsFrom DEF Awaited
<1> QED BY <1>1, <1>2, <1>3 DEF Awaited

(* The room of an order whose pending entry the step leaves alone. *)
LEMMA RoomKept ==
    ASSUME TypeOK, TypeOK', CountInv, SendInv, WireInv', [Next]_vars, ~IoTrack,
           NEW c \in ClientId, NEW id \in OrderId, Awaited(c)', RoomFor(c, id), Present(id)',
           pending'[id].qty = pending[id].qty, pending'[id].filled = pending[id].filled
    PROVE  RoomFor(c, id)'
<1>0. /\ pending[id].qty \in Nat /\ pending[id].filled \in Nat
      /\ exch[c].left \in Nat /\ exch'[c].left \in Nat /\ req.qty \in Nat
  <2>1. /\ pending[id] \in PendingOrder /\ exch[c] \in ExchangeOrder /\ exch'[c] \in ExchangeOrder
        /\ req \in Sending
        BY DEF TypeOK
  <2> QED BY <2>1, GatewayAssumption DEF PendingOrder, ExchangeOrder, Sending
<1>1. exch'[c].state = "none" => pending'[id].filled = 0 /\ pending'[id].qty = req'.qty
  <2> SUFFICES ASSUME exch'[c].state = "none"
               PROVE  pending'[id].filled = 0 /\ pending'[id].qty = req'.qty
      OBVIOUS
  <2>1. io' = "post" BY DEF Awaited, WireInv
  <2>2. req'.qty = req.qty BY <2>1, PostStays
  <2>3. exch[c].state = "none" BY ExchangeShrinks
  <2> QED BY <2>2, <2>3 DEF RoomFor
<1>2. exch'[c].state # "none" => pending'[id].filled + exch'[c].left <= pending'[id].qty
  <2> SUFFICES ASSUME exch'[c].state # "none"
               PROVE  pending[id].filled + exch'[c].left <= pending[id].qty
      OBVIOUS
  <2>1. CASE exch[c].state # "none"
    <3>1. exch'[c].left <= exch[c].left BY <2>1, ExchangeShrinks
    <3>2. pending[id].filled + exch[c].left <= pending[id].qty BY <2>1 DEF RoomFor
    <3> QED BY <1>0, <3>1, <3>2
  <2>2. CASE exch[c].state = "none"
    <3>1. exch'[c].left = req.qty BY <2>2, OpensFrom
    <3>2. pending[id].filled = 0 /\ pending[id].qty = req.qty BY <2>2 DEF RoomFor
    <3> QED BY <1>0, <3>1, <3>2
  <2> QED BY <2>1, <2>2
<1>3. ASSUME NEW i \in DOMAIN events', IsFill(i)', events'[i].cid = c
      PROVE  pending'[id].filled + events'[i].qty + events'[i].left <= pending'[id].qty
  <2>1. CASE \E j \in DOMAIN events : events'[i] = events[j] BY <1>3, <2>1 DEF RoomFor, IsFill
  <2>2. CASE exch[c].state = "open" /\ events'[i].left + events'[i].qty = exch[c].left
    <3>1. pending[id].filled + exch[c].left <= pending[id].qty BY <2>2 DEF RoomFor
    <3>2. events'[i] \in Event /\ events'[i].type = "fill" BY <1>3 DEF TypeOK, IsFill
    <3>3. events'[i].left \in Nat /\ events'[i].qty \in Nat
          BY <3>2, GatewayAssumption DEF Event, Qty
    <3> QED BY <1>0, <2>2, <3>1, <3>3
  <2> QED BY <1>3, <2>1, <2>2, EventsFrom DEF IsFill
<1> QED BY <1>1, <1>2, <1>3 DEF RoomFor

(* A fill that fills the order up is the last that is reported of it. *)
LEMMA LastFill ==
    ASSUME TypeOK, TypeOK', CountInv, SendInv, WireInv, WireInv', [Next]_vars, StreamDeliver,
           Head(events).type = "fill", Head(events).left = 0, NEW c, c = Head(events).cid
    PROVE  ~Awaited(c)'
<1>1. /\ Head(events) = events[1] /\ events[1] \in Event /\ 1 \in DOMAIN events
      /\ events # <<>> /\ events' = Tail(events) /\ UNCHANGED exch
      BY ReadIs DEF StreamDeliver
<1>2. c \in ClientId /\ exch[c].left \in Nat
      BY <1>1, EventOrder, GatewayAssumption DEF TypeOK, ExchangeOrder
<1>3. exch[c].state # "none" /\ exch[c].left <= 0 BY <1>1 DEF WireInv, IsFill
<1>4. exch'[c].state # "none" /\ exch'[c].left = 0 BY <1>1, <1>2, <1>3
<1>5. exch'[c].state # "open" BY <1>2, <1>4 DEF WireInv
<1>6. ASSUME NEW i \in DOMAIN events', events'[i].cid = c, events'[i].type # "ack" PROVE FALSE
  <2>1. i + 1 \in DOMAIN events /\ events'[i] = events[i + 1] /\ events' \in Seq(Event)
        BY <1>1, ReadIs
  <2>2. i \in Nat /\ i >= 1 BY <2>1
  <2>3. 1 < i + 1 BY <2>2
  <2>4. CASE events'[i].type = "reject" BY <1>4, <1>6, <2>4 DEF WireInv
  <2>5. CASE events'[i].type = "fill"
    <3>1. IsFill(1) /\ IsFill(i + 1) /\ events[1].cid = events[i + 1].cid
          BY <1>1, <1>6, <2>1, <2>5 DEF IsFill
    <3>2. events[i + 1].left + events[i + 1].qty <= events[1].left
          BY <1>1, <2>1, <2>3, <3>1 DEF WireInv
    <3>3. events[i + 1] \in Event /\ events[i + 1].type = "fill" BY <2>1, <2>5 DEF TypeOK
    <3>4. events[i + 1].left \in Nat /\ events[i + 1].qty \in Nat /\ events[i + 1].qty > 0
          BY <3>3, GatewayAssumption DEF Event, Qty
    <3> QED BY <1>1, <3>2, <3>4
  <2>6. events'[i].type \in {"fill", "ack", "reject"} BY <2>1 DEF Event
  <2> QED BY <1>6, <2>4, <2>5, <2>6
<1> QED BY <1>4, <1>5, <1>6 DEF Awaited

(* Nothing is reported of an order after its reject. *)
LEMMA LastReject ==
    ASSUME TypeOK, TypeOK', CountInv, SendInv, WireInv, WireInv', [Next]_vars, StreamDeliver,
           Head(events).type = "reject", NEW c, c = Head(events).cid
    PROVE  ~Awaited(c)'
<1>1. /\ Head(events) = events[1] /\ events[1] \in Event /\ 1 \in DOMAIN events
      /\ events # <<>> /\ events' = Tail(events) /\ UNCHANGED exch
      BY ReadIs DEF StreamDeliver
<1>2. exch'[c].state = "done" BY <1>1 DEF WireInv
<1>3. ASSUME NEW i \in DOMAIN events', events'[i].cid = c PROVE FALSE
  <2>1. i + 1 \in DOMAIN events /\ events'[i] = events[i + 1] /\ events' \in Seq(Event)
        BY <1>1, ReadIs
  <2>2. i \in Nat /\ i >= 1 BY <2>1
  <2>3. i + 1 > 1 BY <2>2
  <2> QED BY <1>1, <1>3, <2>1, <2>3 DEF WireInv
<1> QED BY <1>2, <1>3 DEF Awaited

(* A message of the user stream leaves room in the order it is about. *)
LEMMA RoomDelivered ==
    ASSUME TypeOK, TypeOK', CountInv, SendInv, WireInv, WireInv', [Next]_vars, StreamDeliver,
           NEW c \in ClientId, NEW id \in OrderId, clientMap[c] = id, Awaited(c)', RoomFor(c, id),
           \A d \in ClientId : clientMap[d] = id /\ Awaited(d) => d = c
    PROVE  RoomFor(c, id)'
<1> DEFINE e == Head(events)
           at == clientMap[e.cid]
<1>0. ~IoTrack BY DEF StreamDeliver, IoTrack, IsNew, inputVars
<1>1. /\ e = events[1] /\ e \in Event /\ 1 \in DOMAIN events
      /\ events # <<>> /\ events' = Tail(events) /\ UNCHANGED exch
      BY ReadIs DEF StreamDeliver
<1>2. at \in OrderId /\ e.cid \in ClientId BY <1>1, EventOrder
<1>3. e.type # "ack" => Awaited(e.cid) BY <1>1 DEF Awaited
<1>4. Present(id) BY DEF RoomFor
<1>5. CASE e.type = "ack"
  <2>1. Acknowledge(at) BY <1>5 DEF StreamDeliver
  <2> QED BY <1>0, <1>2, <1>4, <2>1, AcknowledgeIs, RoomKept
<1>6. CASE e.type = "reject"
  <2>1. Erase(at) BY <1>6 DEF StreamDeliver
  <2>2. e.cid # c BY <1>6, LastReject
  <2>3. at # id BY <1>2, <1>3, <1>6, <2>2
  <2>4. pending'[id] = pending[id] BY <1>2, <2>1, <2>3, EraseIs
  <2> QED BY <1>0, <1>4, <2>4, RoomKept DEF Present
<1>7. CASE e.type = "fill" /\ (~Present(at) \/ at # id)
  <2>1. pending'[id] = pending[id]
    <3>1. CASE ~Present(at) BY <1>7, <3>1 DEF StreamDeliver
    <3>2. CASE Present(at) /\ at # id
      <4>1. ApplyFill(at, e.qty) /\ e.qty \in Qty BY <1>1, <1>7, <3>2, FillEvent DEF StreamDeliver
      <4> QED BY <1>2, <3>2, <4>1, ApplyFillIs
    <3> QED BY <1>7, <3>1, <3>2
  <2> QED BY <1>0, <1>4, <2>1, RoomKept DEF Present
<1>8. CASE e.type = "fill" /\ at = id
  <2>1. e.cid = c BY <1>2, <1>3, <1>8
  <2>2. ApplyFill(id, e.qty) /\ e.qty \in Qty BY <1>1, <1>4, <1>8, FillEvent DEF StreamDeliver
  <2>3. /\ e.left # 0 /\ e.left \in Nat
    <3>1. e.left \in Nat BY <1>1, GatewayAssumption DEF Event
    <3> QED BY <1>8, <2>1, <3>1, LastFill
  <2>4. pending[id].filled + e.qty + e.left <= pending[id].qty
        BY <1>1, <1>8, <2>1 DEF RoomFor, IsFill
  <2>5. /\ pending[id].qty \in Nat /\ pending[id].filled \in Nat /\ e.qty \in Nat
        /\ exch[c].left \in Nat
    <3>1. pending[id] \in PendingOrder /\ exch[c] \in ExchangeOrder BY DEF TypeOK
    <3> QED BY <2>2, <3>1, GatewayAssumption DEF PendingOrder, ExchangeOrder, Qty
  <2>6. exch[c].state # "none" /\ exch[c].left <= e.left BY <1>1, <1>8, <2>1 DEF WireInv, IsFill
  <2> HIDE DEF e, at
  <2>7. pending[id].filled + e.qty < pending[id].qty BY <2>3, <2>4, <2>5
  <2>8. Present(id)' /\ pending'[id].qty = pending[id].qty
        /\ pending'[id].filled = pending[id].filled + e.qty
        BY <2>2, <2>7, ApplyFillIs
  <2>9. pending'[id].filled + exch'[c].left <= pending'[id].qty
        BY <1>1, <2>3, <2>4, <2>5, <2>6, <2>8
  <2>10. ASSUME NEW i \in DOMAIN events', IsFill(i)', events'[i].cid = c
         PROVE  pending'[id].filled + events'[i].qty + events'[i].left <= pending'[id].qty
    <3>1. i + 1 \in DOMAIN events /\ events'[i] = events[i + 1] /\ events' \in Seq(Event)
          BY <1>1, ReadIs
    <3>2. i \in Nat /\ i >= 1 BY <3>1
    <3>3. 1 < i + 1 BY <3>2
    <3>4. IsFill(1) /\ IsFill(i + 1) /\ events[1].cid = events[i + 1].cid
          BY <1>1, <1>8, <2>1, <2>10, <3>1 DEF IsFill
    <3>5. events'[i].left + events'[i].qty <= e.left BY <1>1, <3>1, <3>3, <3>4 DEF WireInv
    <3>6. events[i + 1] \in Event /\ events[i + 1].type = "fill" BY <3>1, <3>4 DEF TypeOK, IsFill
    <3>7. events'[i].left \in Nat /\ events'[i].qty \in Nat
          BY <3>1, <3>6, GatewayAssumption DEF Event, Qty
    <3> QED BY <2>3, <2>4, <2>5, <2>8, <3>5, <3>7
  <2> QED BY <1>1, <2>6, <2>8, <2>9, <2>10 DEF RoomFor
<1>9. e.type \in {"ack", "reject", "fill"} BY <1>1 DEF Event
<1> QED BY <1>5, <1>6, <1>7, <1>8, <1>9

(* Outside the user stream a pending order changes only when it is         *)
(* released, apart from its acknowledgement.                               *)
LEMMA PendingKept ==
    ASSUME TypeOK, SendInv, [Next]_vars, ~IoTrack, ~StreamDeliver, mode = "real",
           NEW id \in OrderId, Present(id), id \notin released'
    PROVE  Present(id)' /\ pending'[id].qty = pending[id].qty /\ pending'[id].filled = pending[id].filled
<1> USE DEF inputVars, ctlVars, exchVars
<1>0. req.id \in OrderId BY DEF TypeOK, Sending
<1>1. ASSUME pending'[id] = pending[id] PROVE Present(id)' BY <1>1 DEF Present
<1>2. CASE Producer \/ StreamCallback \/ Connection \/ Exchange
  <2>1. UNCHANGED pending
        BY <1>2 DEF Producer, SubmitOrder, AmendOrder, StreamCallback, Connection, StreamDisconnect,
                    StreamReconnect, Exchange, ExchangeTrade, ExchangeExpire
  <2> QED BY <1>1, <2>1
<1>3. CASE IoPop \/ IoExit \/ IoMismatch \/ IoCancel \/ IoUnencodable \/ IoFailed \/ PostRefused
           \/ PostLost \/ \E answered \in BOOLEAN : PostAccepted(answered)
  <2>1. UNCHANGED pending
        BY <1>3 DEF IoPop, IoExit, IoMismatch, IoCancel, IoUnencodable, IoFailed, PostRefused,
                    PostLost, PostAccepted
  <2> QED BY <1>1, <2>1
<1>4. CASE IoErase
  <2>1. Erase(req.id) /\ id # req.id BY <1>4 DEF IoErase
  <2> QED BY <1>0, <1>1, <2>1, EraseIs
<1>5. CASE IoModify
  <2>1. id # req.id BY <1>5 DEF IoModify
  <2> QED BY <1>1, <1>5, <2>1, ModifyIs
<1>6. ASSUME NEW parses \in BOOLEAN, IoAck(parses)
      PROVE  Present(id)' /\ pending'[id].qty = pending[id].qty /\ pending'[id].filled = pending[id].filled
  <2>1. Acknowledge(req.id) \/ UNCHANGED pending BY <1>6 DEF IoAck
  <2> QED BY <1>0, <1>1, <2>1, AcknowledgeIs
<1>7. ~IoSimulate /\ ~IoSimFill BY DEF IoSimulate, IoSimFill, SendInv
<1>8. ASSUME NEW j \in OrderId, StopErase(j) PROVE pending'[id] = pending[id]
  <2>1. Erase(j) /\ id # j BY <1>8 DEF StopErase
  <2> QED BY <2>1, EraseIs
<1>9. CASE Start \/ Stop \/ StopJoin \/ StopReturn
           \/ (\E j \in OrderId : StopSkip(j) \/ StopDelete(j)) \/ UNCHANGED vars
  <2>1. UNCHANGED pending
        BY <1>9 DEF Start, Stop, StopJoin, StopReturn, StopSkip, StopDelete, vars
  <2> QED BY <1>1, <2>1
<1>10. CASE Controller BY <1>1, <1>8, <1>9, <1>10 DEF Controller
<1> QED BY <1>2, <1>3, <1>4, <1>5, <1>6, <1>7, <1>9, <1>10 DEF Next, IoThread, UserStream

(* A clientOrderId is mapped once, and a release is for good. *)
LEMMA MapKept ==
    ASSUME TypeOK, CountInv, SendInv, [Next]_vars
    PROVE  /\ released \subseteq released'
           /\ ~IoTrack => UNCHANGED clientMap
           /\ IoTrack => /\ Cid \in ClientId /\ clientMap[Cid] = 0 /\ exch[Cid].state = "none"
                         /\ clientMap'[Cid] = req.id /\ req.id \in OrderId /\ ~Present(req.id)
                         /\ \A c \in ClientId : c # Cid => clientMap'[c] = clientMap[c]
<1> USE DEF inputVars, ctlVars, exchVars
<1>1. CASE IoTrack
  <2>1. io = "process" /\ UNCHANGED released /\ ~Present(req.id) BY <1>1 DEF IoTrack, IsNew
  <2>2. Cid \in ClientId BY <2>1, CidIsClient DEF Busy
  <2>3. clientMap[Cid] = 0 /\ exch[Cid].state = "none" BY <2>1, <2>2 DEF SendInv, Cid
  <2>4. clientMap' = [clientMap EXCEPT ![Cid] = req.id] BY <1>1 DEF IoTrack, Cid
  <2>5. req.id \in OrderId BY DEF TypeOK, Sending
  <2> QED BY <1>1, <2>1, <2>2, <2>3, <2>4, <2>5 DEF TypeOK
<1>2. ASSUME ~IoTrack PROVE released \subseteq released' /\ UNCHANGED clientMap
  <2>1. CASE Producer \/ UserStream \/ Connection \/ Exchange
        BY <2>1 DEF Producer, SubmitOrder, AmendOrder, UserStream, StreamDeliver, StreamCallback,
                    Connection, StreamDisconnect, StreamReconnect, Exchange, ExchangeTrade,
                    ExchangeExpire
  <2>2. CASE IoThread
        BY <1>2, <2>2 DEF IoThread, IoPop, IoExit, IoMismatch, IoCancel, IoErase, IoModify,
                    IoUnencodable, IoFailed, IoSimulate, IoSimFill, PostRefused, PostLost,
                    PostAccepted, IoAck
  <2>3. CASE Controller
        BY <2>3 DEF Controller, Start, Stop, StopJoin, StopReturn, StopSkip, StopDelete, StopErase
  <2>4. CASE UNCHANGED vars BY <2>4 DEF vars
  <2> QED BY <2>1, <2>2, <2>3, <2>4 DEF Next
<1> QED BY <1>1, <1>2

LEMMA LiveStep ==
    ASSUME TypeOK, TypeOK', CountInv, SendInv, WireInv, WireInv', LiveInv, [Next]_vars
    PROVE  LiveInv'
<1> SUFFICES ASSUME NEW c \in ClientId, NEW id \in OrderId,
                    clientMap'[c] = id, id \notin released', Awaited(c)'
             PROVE  /\ RoomFor(c, id)'
                    /\ \A d \in ClientId : clientMap'[d] = id /\ Awaited(d)' => d = c
    BY DEF LiveInv
<1>0. id # 0 /\ id \notin released BY MapKept DEF OrderId
<1>1. CASE ~IoTrack
  <2>1. clientMap' = clientMap BY <1>1, MapKept
  <2>2. \A d \in ClientId : Awaited(d)' => Awaited(d) BY <1>1, AwaitedBefore
  <2>3. RoomFor(c, id) /\ \A d \in ClientId : clientMap[d] = id /\ Awaited(d) => d = c
        BY <1>0, <2>1, <2>2 DEF LiveInv
  <2>4. RoomFor(c, id)'
    <3>1. CASE StreamDeliver BY <2>1, <2>3, <3>1, RoomDelivered
    <3>2. CASE ~StreamDeliver
      <4>1. mode = "real" /\ Present(id) BY <1>0, <2>1, <2>3 DEF SendInv, RoomFor
      <4>2. /\ Present(id)' /\ pending'[id].qty = pending[id].qty
            /\ pending'[id].filled = pending[id].filled
            BY <1>1, <3>2, <4>1, PendingKept
      <4> QED BY <1>1, <2>3, <4>2, RoomKept
    <3> QED BY <3>1, <3>2
  <2> QED BY <2>1, <2>2, <2>3, <2>4
<1>2. CASE IoTrack
  <2>1. /\ Cid \in ClientId /\ clientMap[Cid] = 0 /\ exch[Cid].state = "none"
        /\ clientMap'[Cid] = req.id /\ req.id \in OrderId /\ ~Present(req.id)
        /\ \A d \in ClientId : d # Cid => clientMap'[d] = clientMap[d]
        BY <1>2, MapKept
  <2>2. UNCHANGED <<exch, events, stats, req>> /\ trackPending /\ req.qty # 0
        BY <1>2 DEF IoTrack, IsNew, exchVars
  <2>3. \A d \in ClientId : d # Cid /\ Awaited(d)' => Awaited(d) BY <2>2 DEF Awaited, Cid
  <2>4. \A d \in ClientId : d # Cid /\ clientMap'[d] = id /\ Awaited(d)' =>
            /\ RoomFor(d, id) /\ id # req.id
            /\ \A b \in ClientId : clientMap[b] = id /\ Awaited(b) => b = d
    <3> SUFFICES ASSUME NEW d \in ClientId, d # Cid, clientMap'[d] = id, Awaited(d)'
                 PROVE  /\ RoomFor(d, id) /\ id # req.id
                        /\ \A b \in ClientId : clientMap[b] = id /\ Awaited(b) => b = d
        OBVIOUS
    <3>1. clientMap[d] = id /\ Awaited(d) BY <2>1, <2>3
    <3>2. RoomFor(d, id) /\ \A b \in ClientId : clientMap[b] = id /\ Awaited(b) => b = d
          BY <1>0, <3>1 DEF LiveInv
    <3>3. Present(id) BY <3>2 DEF RoomFor
    <3> QED BY <2>1, <3>2, <3>3
  <2>5. CASE c # Cid
    <3>1. /\ RoomFor(c, id) /\ id # req.id
          /\ \A b \in ClientId : clientMap[b] = id /\ Awaited(b) => b = c
          BY <2>4, <2>5
    <3>2. pending'[id] = pending[id] BY <2>2, <3>1, TrackIs
    <3>3. exch[c].state # "none"
      <4>1. ~(io' = "post" /\ c = Cid') BY <2>2, <2>5 DEF Cid
      <4> QED BY <2>2, <4>1 DEF Awaited, WireInv
    <3>4. RoomFor(c, id)' BY <2>2, <3>1, <3>2, <3>3 DEF RoomFor, Present, IsFill
    <3>5. ASSUME NEW d \in ClientId, clientMap'[d] = id, Awaited(d)' PROVE d = c
      <4>1. d # Cid BY <2>1, <3>1, <3>5
      <4> QED BY <2>1, <2>3, <3>1, <3>5, <4>1
    <3> QED BY <3>4, <3>5
  <2>6. CASE c = Cid
    <3>1. id = req.id BY <2>1, <2>6
    <3>2. Present(id)' /\ pending'[id].qty = req.qty /\ pending'[id].filled = 0
          BY <2>2, <3>1, TrackIs
    <3>3. \A i \in DOMAIN events : events[i].cid # c BY <2>1, <2>6 DEF WireInv
    <3>4. RoomFor(c, id)' BY <2>1, <2>2, <2>6, <3>2, <3>3 DEF RoomFor
    <3>5. \A d \in ClientId : clientMap'[d] = id /\ Awaited(d)' => d = c BY <2>4, <2>6, <3>1
    <3> QED BY <3>4, <3>5
  <2> QED BY <2>5, <2>6
<1> QED BY <1>1, <1>2

-----------------------------------------------------------------------------
(* Dropped fills *)

LEMMA DroppedNow ==
    ASSUME TypeOK, TypeOK', HandInv, SendInv, TradeInv, FillConservation, [Next]_vars, NEW f \in Fill,
           trades[f] # <<"traded", "dropped">>, trades'[f] = <<"traded", "dropped">>
    PROVE  /\ StreamDeliver /\ Head(events).type = "fill" /\ f = FillOf(Head(events))
           /\ ~Present(clientMap[Head(events).cid])
<1> USE DEF inputVars, ctlVars, exchVars
<1>0. Conserved(f) BY DEF FillConservation, Conserved
<1>1. ASSUME NEW fate \in {"delivered", "lost"}, UnderWay(f), trades'[f] = trades[f] \o <<fate>>
      PROVE  FALSE
  <2>1. trades[f] = <<"traded">> BY <1>0, <1>1 DEF Conserved
  <2>2. trades'[f] = <<"traded", fate>> BY <1>1, <2>1, FateSequences, FillsApart
  <2> QED BY <2>2
<1>2. trades[f] # <<>>
  <2> SUFFICES ASSUME trades[f] = <<>> PROVE FALSE OBVIOUS
  <2>1. trades'[f] # <<>> OBVIOUS
  <2>2. CASE IoSimFill /\ f = [cid |-> Cid, left |-> 0, qty |-> req.qty]
    <3>1. Record({f}, <<"traded", "delivered">>) BY <2>2 DEF IoSimFill
    <3>2. trades'[f] = <<>> \o <<"traded", "delivered">> BY <3>1 DEF Record
    <3>3. trades'[f] = <<"traded", "delivered">> BY <3>2, FateSequences
    <3> QED BY <3>3
  <2>3. ASSUME NEW c \in ClientId, NEW q \in Qty, ExchangeTrade(c, q), f = FillOf(FillEventOf(c, q))
        PROVE  FALSE
    <3>1. Record({f}, <<"traded">>) \/ Record({f}, <<"traded", "lost">>) BY <2>3, TradeRecords
    <3>2. trades'[f] = <<>> \o <<"traded">> \/ trades'[f] = <<>> \o <<"traded", "lost">>
          BY <3>1 DEF Record
    <3>3. trades'[f] = <<"traded">> \/ trades'[f] = <<"traded", "lost">> BY <3>2, FateSequences
    <3> QED BY <3>3
  <2> QED BY <2>1, <2>2, <2>3, RecordedFirst
<1>3. CASE StreamCallback
  <2>1. f = stream.fill BY <1>3 DEF StreamCallback, Record
  <2>2. trades'[f] = trades[f] \o <<"delivered">> BY <1>3, <2>1 DEF StreamCallback, Record
  <2> QED BY <1>1, <2>1, <2>2 DEF UnderWay
<1>4. CASE IoSimFill
  <2> DEFINE g == [cid |-> Cid, left |-> 0, qty |-> req.qty]
  <2>1. Record({g}, <<"traded", "delivered">>) /\ io = "simFill" BY <1>4 DEF IoSimFill
  <2>2. g.cid = stats.received BY DEF Cid
  <2>3. mode = "sim" /\ stats.received \in Nat BY <2>1, CountersAre DEF SendInv
  <2> HIDE DEF g
  <2>4. ~(stats.received < stats.received) BY <2>3
  <2>5. g # f BY <1>2, <2>1, <2>2, <2>3, <2>4 DEF TradeInv
  <2> QED BY <2>1, <2>5 DEF Record
<1>5. CASE Silent BY <1>3, <1>4, <1>5, SilentRecords
<1>6. CASE IoCancel \/ (\E id \in OrderId : StopDelete(id))
           \/ (\E answered \in BOOLEAN : PostAccepted(answered))
           \/ (\E c \in ClientId : ExchangeExpire(c))
      BY <1>6 DEF IoCancel, StopDelete, PostAccepted, ExchangeExpire
<1>7. CASE StreamDisconnect
  <2>1. Record({h \in Fill : InFlight(h)}, <<"lost">>) BY <1>7 DEF StreamDisconnect
  <2>2. InFlight(f) /\ trades'[f] = trades[f] \o <<"lost">> BY <2>1 DEF Record
  <2> QED BY <1>1, <2>2 DEF UnderWay
<1>8. ASSUME NEW c \in ClientId, NEW q \in Qty, ExchangeTrade(c, q) PROVE FALSE
  <2> DEFINE g == FillOf(FillEventOf(c, q))
  <2>1. trades[g] = <<>> BY <1>8, TradeIsNew
  <2>2. Record({g}, <<"traded">>) \/ Record({g}, <<"traded", "lost">>) BY <1>8, TradeRecords
  <2> HIDE DEF g
  <2>3. g # f BY <1>2, <2>1
  <2> QED BY <2>2, <2>3 DEF Record
<1>9. CASE StreamDeliver
  <2> DEFINE e == Head(events)
             g == FillOf(e)
             at == clientMap[e.cid]
  <2>1. UNCHANGED trades \/ (e.type = "fill" /\ ~Present(at) /\ Record({g}, <<"dropped">>))
        BY <1>9 DEF StreamDeliver
  <2> HIDE DEF e, g, at
  <2>2. e.type = "fill" /\ ~Present(at) /\ f = g BY <2>1 DEF Record
  <2> QED BY <1>9, <2>2 DEF e, g, at
<1> QED BY <1>5, <1>6, <1>7, <1>8, <1>9, NextSplit

LEMMA DropStep ==
    ASSUME TypeOK, TypeOK', CountInv, SendInv, WireInv, HandInv, TradeInv, FillConservation, LiveInv,
           DropsExplained, [Next]_vars
    PROVE  DropsExplained'
<1> SUFFICES ASSUME NEW f \in Fill, trades'[f] = <<"traded", "dropped">>
             PROVE  clientMap'[f.cid] \in released'
    BY DEF DropsExplained
<1>0. f.cid \in ClientId BY DEF Fill
<1>1. clientMap[f.cid] \in released
  <2>1. CASE trades[f] = <<"traded", "dropped">> BY <2>1 DEF DropsExplained
  <2>2. CASE trades[f] # <<"traded", "dropped">>
    <3> DEFINE e == Head(events)
    <3>1. StreamDeliver /\ e.type = "fill" /\ f = FillOf(e) /\ ~Present(clientMap[e.cid])
          BY <2>2, DroppedNow
    <3>2. e = events[1] /\ e \in Event /\ 1 \in DOMAIN events BY <3>1, ReadIs DEF StreamDeliver
    <3>3. clientMap[e.cid] \in OrderId /\ e.cid \in ClientId BY <3>2, EventOrder
    <3>4. Awaited(e.cid) BY <3>1, <3>2 DEF Awaited
    <3>5. f.cid = e.cid BY <3>1 DEF FillOf
    <3> HIDE DEF e
    <3> QED BY <3>1, <3>3, <3>4, <3>5 DEF LiveInv, RoomFor
  <2> QED BY <2>1, <2>2
<1>2. clientMap'[f.cid] = clientMap[f.cid]
  <2>1. clientMap[f.cid] # 0 BY <1>1 DEF TypeOK, OrderId
  <2> QED BY <1>0, <2>1, MapKept
<1> QED BY <1>1, <1>2, MapKept

-----------------------------------------------------------------------------
(* The theorems *)

Inv == /\ TypeOK /\ CountInv /\ SendInv /\ StopInv /\ RoomInv /\ WireInv /\ HandInv
       /\ TradeInv /\ FillConservation /\ LiveInv /\ DropsExplained

LEMMA InvInit == Init => Inv
<1> SUFFICES ASSUME Init PROVE Inv OBVIOUS
<1>1. TypeOK BY TypeInit
<1>2. /\ io = "none" /\ ctl = "idle" /\ queue = <<>> /\ pushed = 0 /\ events = <<>>
      /\ \A id \in OrderId : pending[id] = NoOrder
      /\ \A c \in ClientId : clientMap[c] = 0 /\ exch[c].state = "none"
      /\ stream.id = 0 /\ stream.fill = NoFill
      /\ \A f \in Fill : trades[f] = <<>>
      BY DEF Init
<1>3. /\ stats.received = 0 /\ stats.sent = 0 /\ stats.rejected = 0 /\ stats.cancelled = 0
      /\ stats.modified = 0 /\ stats.mismatch = 0 /\ stats.refused = 0 /\ stats.shutdown = 0
      BY DEF Init
<1>4. DOMAIN events = {} /\ Len(queue) = 0 BY <1>2
<1>5. Busy = 0 /\ Outcomes = 0 BY <1>2, <1>3 DEF Busy, Outcomes
<1>6. CountInv BY <1>2, <1>3, <1>4, <1>5 DEF CountInv
<1>7. SendInv BY <1>2 DEF SendInv
<1>8. StopInv /\ RoomInv BY <1>2 DEF StopInv, RoomInv, Present
<1>9. WireInv /\ HandInv BY <1>2, <1>4 DEF WireInv, HandInv
<1>10. TradeInv BY <1>2 DEF TradeInv
<1>11. FillConservation BY <1>2, <1>4, FillsApart DEF FillConservation, UnderWay, InFlight
<1>12. LiveInv
  <2>1. \A c \in ClientId : \A id \in OrderId : clientMap[c] # id BY <1>2 DEF OrderId
  <2> QED BY <2>1 DEF LiveInv
<1>13. DropsExplained
  <2>1. \A f \in Fill : trades[f] # <<"traded", "dropped">> BY <1>2, FateDistinct
  <2> QED BY <2>1 DEF DropsExplained
<1> QED BY <1>1, <1>6, <1>7, <1>8, <1>9, <1>10, <1>11, <1>12, <1>13 DEF Inv

LEMMA InvStep == ASSUME Inv, [Next]_vars PROVE Inv'
<1> USE DEF Inv
<1>1. TypeOK'
  <2>1. CASE Producer BY <2>1, TypeProducer
  <2>2. CASE IoThread BY <2>2, TypeIo
  <2>3. CASE UserStream \/ Connection BY <2>3, TypeStream
  <2>4. CASE Exchange BY <2>4, TypeExchange
  <2>5. CASE Controller BY <2>5, TypeController
  <2>6. CASE UNCHANGED vars BY <2>6 DEF vars, TypeOK
  <2> QED BY <2>1, <2>2, <2>3, <2>4, <2>5, <2>6 DEF Next
<1>2. CountInv' BY <1>1, CountStep
<1>3. SendInv' BY SendStep
<1>4. StopInv' /\ RoomInv' BY StopStep, RoomStep
<1>5. WireInv' /\ HandInv' BY <1>1, WireStep, HandStep
<1>6. TradeInv' /\ FillConservation' BY <1>1, TradeStep, FillStep
<1>7. LiveInv' /\ DropsExplained' BY <1>1, <1>5, LiveStep, DropStep
<1> QED BY <1>1, <1>2, <1>3, <1>4, <1>5, <1>6, <1>7

LEMMA Invariance == Spec => []Inv
<1>1. Init => Inv BY InvInit
<1>2. Inv /\ [Next]_vars => Inv' BY InvStep
<1> QED BY <1>1, <1>2, PTL DEF Spec

(* Every variable of the gateway, of the user stream and of the exchange   *)
(* keeps its type; a request is taken at most once per push, so that the   *)
(* clientOrderIds do not run out.                                          *)
THEOREM TypeCorrect == Spec => []TypeOK
<1>1. Inv => TypeOK BY DEF Inv
<1> QED BY <1>1, Invariance, PTL

(* Every fill the exchange trades is handed to fill_callback_ once,        *)
(* counted as a fill error once, gone with a broken connection or still on *)
(* its way, however stop(), cancels, acks and reconnections interleave.    *)
THEOREM FillsConserved == Spec => []FillConservation
<1>1. Inv => FillConservation BY DEF Inv
<1> QED BY <1>1, Invariance, PTL

(* Tracking an order before the POST is early enough: a fill is dropped    *)
(* only for an order that the gateway itself cancelled or modified.        *)
THEOREM DropsAreExplained == Spec => []DropsExplained
<1>1. Inv => DropsExplained BY DEF Inv
<1> QED BY <1>1, Invariance, PTL

(* Every request the I/O thread took is counted under one outcome.         *)
THEOREM RequestsAreAccounted == Spec => []RequestsAccounted
<1>1. Inv => RequestsAccounted
  <2> SUFFICES ASSUME Inv, io \in {"loop", "exited"}
               PROVE  stats.received = Outcomes
      BY DEF RequestsAccounted, Outcomes
  <2>1. Busy = 0 BY DEF Busy
  <2>2. Outcomes \in Int /\ stats.received = Busy + Outcomes BY CountersAre DEF Inv, CountInv
  <2> QED BY <2>1, <2>2
<1> QED BY <1>1, Invariance, PTL

(* What is in pending_orders_ can still be filled, and nothing is in it    *)
(* before start() and after stop().                                        *)
THEOREM PendingIsOpen == Spec => []PendingCanBeFilled
<1>1. Inv => PendingCanBeFilled BY DEF Inv, StopInv, RoomInv, PendingCanBeFilled
<1> QED BY <1>1, Invariance, PTL

=============================================================================
