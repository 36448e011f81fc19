----------------------------- MODULE MarketFeed -----------------------------
(***************************************************************************)
(* A market data adapter and its threads: the application's thread (start, *)
(* stop, subscribe, unsubscribe), the reader, the heartbeat and the        *)
(* reconnection timer, over a WebSocket connection that can break.         *)
(*                                                                         *)
(* kind "direct" is BinanceAdapter (and OkxAdapter, which has the same     *)
(* control) on top of MarketDataGateway; kind "mux" is ThinMuxAdapter on   *)
(* top of WebSocketTlsTransport.  A tick carries the id its symbol has in  *)
(* symbol_to_id when the message is parsed; what else is in a message is   *)
(* the business of TickPipeline.                                           *)
(*                                                                         *)
(* A thread that assigns to a std::thread that is still joinable, joins    *)
(* itself or joins a thread another one is joining ends the process        *)
(* (std::terminate): dead.                                                 *)
(***************************************************************************)
EXTENDS Integers, Sequences, FiniteSets

CONSTANTS Kinds,      \* kinds of adapter to look at
          Symbols,
          Streams,    \* symbols the configured URL subscribes by itself
          MaxCalls,   \* bound: calls of the application
          TickCap     \* capacity of the tick queue

ASSUME KindAssumption == Kinds \subseteq {"direct", "mux"}
ASSUME StreamAssumption == Streams \subseteq Symbols /\ IsFiniteSet(Streams)
ASSUME FeedBounds == MaxCalls \in Nat /\ TickCap \in Nat

Threads == {"app", "reader", "heartbeat", "timer"}
NoMsg == "none"

VARIABLES kind,
          running, shouldReconnect, status, attempts, hbRunning,
          subscribed, ids, nextId,
          pc,      \* next step of each thread; "none": no thread object
          arg,     \* symbol of the application's call
          msg,     \* symbol of the message the reader holds
          link,    \* "none", "up", "broken": the stream and its connection
          wire,    \* what the exchange sends on this connection
          queue,   \* tick queue: <<symbol, id>>
          calls, dead

vars == <<kind, running, shouldReconnect, status, attempts, hbRunning, subscribed, ids,
          nextId, pc, arg, msg, link, wire, queue, calls, dead>>
flags == <<running, shouldReconnect, attempts, hbRunning>>
subs == <<subscribed, ids, nextId>>
net == <<link, wire>>

\* symbols of a combined-stream URL get their ids in initialize, in the order of the URL
Registered(url) ==
    CHOOSE f \in [Symbols -> 0 .. Cardinality(url)] :
        /\ \A s \in Symbols : (f[s] = 0) = (s \notin url)
        /\ \A s, t \in url : f[s] = f[t] => s = t

\* initialize: only BinanceAdapter looks into the URL
Init == /\ kind \in Kinds
        /\ ids = Registered(IF kind = "direct" THEN Streams ELSE {})
        /\ nextId = 1 + Cardinality({s \in Symbols : ids[s] # 0})
        /\ running = FALSE /\ shouldReconnect = TRUE /\ attempts = 0 /\ hbRunning = FALSE
        /\ status = "disconnected"
        /\ subscribed = {}
        /\ pc = [t \in Threads |-> IF t = "app" THEN "idle" ELSE "none"]
        /\ arg = NoMsg /\ msg = NoMsg
        /\ link = "none" /\ wire = {}
        /\ queue = <<>> /\ calls = 0 /\ dead = FALSE

Goto(t, where) == pc' = [pc EXCEPT ![t] = where]
Call == pc["app"] = "idle" /\ calls < MaxCalls /\ calls' = calls + 1
Joinable(t) == pc[t] # "none"

\* where a new thread begins
Entry == [reader |-> "read", heartbeat |-> "beat", timer |-> "sleep"]

\* thread = std::thread(...) for every thread in new; then self goes on at where
Spawn(new, self, where) ==
    /\ dead' = (\E t \in new : Joinable(t))
    /\ pc' = [t \in Threads |-> IF t \in new THEN Entry[t] ELSE IF t = self THEN where ELSE pc[t]]

-----------------------------------------------------------------------------
(* start: called by the application, and by the reconnection timer of a     *)
(* direct adapter                                                           *)

\* what start() does with its result: the application is told, the timer goes on
Returned(t, ok) == IF t = "app" THEN "idle" ELSE IF ok THEN "restarted" ELSE "refused"

\* an adapter that is running has nothing to start
StartAgain(t) ==
    /\ running
    /\ Goto(t, Returned(t, TRUE))
    /\ UNCHANGED <<kind, flags, status, subs, arg, msg, net, queue, dead>>

\* mutant: running_ is not looked at
StartConnecting_Again(t) ==
    /\ shouldReconnect' = TRUE
    /\ status' = "connecting"
    /\ Goto(t, "connect")
    /\ UNCHANGED <<kind, running, attempts, hbRunning, subs, arg, msg, net, queue, dead>>

StartConnecting(t) ==
    /\ ~ running
    /\ shouldReconnect' = TRUE
    /\ status' = "connecting"
    /\ Goto(t, "connect")
    /\ UNCHANGED <<kind, running, attempts, hbRunning, subs, arg, msg, net, queue, dead>>

Start(t) == StartAgain(t) \/ StartConnecting(t)

AppStart == Call /\ Start("app")

\* doConnect: resolve, proxy, TLS and WebSocket handshakes; the URL's streams flow at once
ConnectOk(t) ==
    /\ pc[t] = "connect"
    /\ link' = "up" /\ wire' = Streams
    /\ Goto(t, "connected")
    /\ UNCHANGED <<kind, flags, status, subs, arg, msg, queue, calls, dead>>

\* a direct adapter reports the error and stays CONNECTING
ConnectFails(t) ==
    /\ pc[t] = "connect"
    /\ link' = "none" /\ wire' = {}
    /\ status' = IF kind = "mux" THEN "error" ELSE status
    /\ Goto(t, Returned(t, FALSE))
    /\ UNCHANGED <<kind, flags, subs, arg, msg, queue, calls, dead>>

\* BinanceAdapter::onConnected, up to the heartbeat
OnConnected(t) ==
    /\ kind = "direct" /\ pc[t] = "connected"
    /\ status' = "connected"
    /\ hbRunning' = TRUE
    /\ Spawn({"heartbeat"}, t, "resubscribe")
    /\ UNCHANGED <<kind, running, shouldReconnect, attempts, subs, arg, msg, net, queue, calls>>

\* ThinMuxAdapter::start: nobody else looks at these before the threads run
MuxConnected(t) ==
    /\ kind = "mux" /\ pc[t] = "connected"
    /\ status' = "connected"
    /\ running' = TRUE /\ hbRunning' = TRUE
    /\ Spawn({"reader", "heartbeat"}, t, "resubscribe")
    /\ UNCHANGED <<kind, shouldReconnect, attempts, subs, arg, msg, net, queue, calls>>

\* what is sent on a link that broke is lost
Sent(w) == wire' = IF link = "up" THEN w ELSE wire

\* mutant: the subscriptions of the last connection are forgotten
Resubscribe_Forgets(t) ==
    /\ pc[t] = "resubscribe"
    /\ Goto(t, IF kind = "direct" THEN "run" ELSE Returned(t, TRUE))
    /\ UNCHANGED <<kind, flags, status, subs, arg, msg, net, queue, calls, dead>>

Resubscribe(t) ==
    /\ pc[t] = "resubscribe"
    /\ Sent(wire \cup subscribed)
    /\ Goto(t, IF kind = "direct" THEN "run" ELSE Returned(t, TRUE))
    /\ UNCHANGED <<kind, flags, status, subs, arg, msg, link, queue, calls, dead>>

\* BinanceAdapter::start, its end
DirectRun(t) ==
    /\ pc[t] = "run"
    /\ running' = TRUE
    /\ Spawn({"reader"}, t, Returned(t, TRUE))
    /\ UNCHANGED <<kind, shouldReconnect, attempts, hbRunning, status, subs, arg, msg, net,
                   queue, calls>>

Starting(t) == \/ ConnectOk(t) \/ ConnectFails(t) \/ OnConnected(t) \/ MuxConnected(t)
               \/ Resubscribe(t) \/ DirectRun(t)

-----------------------------------------------------------------------------
(* stop *)

\* stop() of an adapter that is not running returns at once
AppStop ==
    /\ Call
    /\ Goto("app", IF running THEN "stop" ELSE "idle")
    /\ UNCHANGED <<kind, flags, status, subs, arg, msg, net, queue, dead>>

StopRunning ==
    /\ pc["app"] = "stop"
    /\ running' = FALSE
    /\ Goto("app", "noReconnect")
    /\ UNCHANGED <<kind, shouldReconnect, attempts, hbRunning, status, subs, arg, msg, net,
                   queue, calls, dead>>

\* mutant: the heartbeat is not told to end
StopReconnecting_KeepsHeartbeat ==
    /\ pc["app"] = "noReconnect"
    /\ shouldReconnect' = FALSE
    /\ Goto("app", "stopHeartbeat")
    /\ UNCHANGED <<kind, running, attempts, hbRunning, status, subs, arg, msg, net, queue, calls, dead>>

StopReconnecting ==
    /\ pc["app"] = "noReconnect"
    /\ shouldReconnect' = FALSE
    /\ hbRunning' = FALSE
    /\ Goto("app", "stopHeartbeat")
    /\ UNCHANGED <<kind, running, attempts, status, subs, arg, msg, net, queue, calls, dead>>

\* if (heartbeat_thread_.joinable()) ...
StopHeartbeat(t, next) ==
    /\ pc[t] = "stopHeartbeat"
    /\ Goto(t, IF Joinable("heartbeat") THEN "joinHeartbeat" ELSE next)
    /\ UNCHANGED <<kind, flags, status, subs, arg, msg, net, queue, calls, dead>>

\* ... heartbeat_thread_.join(): two threads in it are one too many
JoinHeartbeat(t, next) ==
    /\ pc[t] = "joinHeartbeat"
    /\ pc["heartbeat"] \in {"exited", "none"}
    /\ dead' = (\E u \in Threads \ {t} : pc[u] = "joinHeartbeat")
    /\ pc' = [pc EXCEPT !["heartbeat"] = "none", ![t] = next]
    /\ UNCHANGED <<kind, flags, status, subs, arg, msg, net, queue, calls>>

\* mutant: the stream is closed before the reader is gone
StopReader_NoJoin ==
    /\ pc["app"] = "joinReader"
    /\ link' = "none" /\ wire' = {}
    /\ pc' = [pc EXCEPT !["app"] = "joinTimer"]
    /\ UNCHANGED <<kind, flags, status, subs, arg, msg, queue, calls, dead>>

\* io_context::stop() does not end a synchronous read: the reader leaves with its next message
StopReader ==
    /\ pc["app"] = "joinReader"
    /\ pc["reader"] \in {"exited", "none"}
    /\ link' = "none" /\ wire' = {}
    /\ pc' = [pc EXCEPT !["reader"] = "none", !["app"] = "joinTimer"]
    /\ UNCHANGED <<kind, flags, status, subs, arg, msg, queue, calls, dead>>

StopTimer ==
    /\ pc["app"] = "joinTimer"
    /\ pc["timer"] \in {"exited", "none"}
    /\ status' = "disconnected"
    /\ pc' = [pc EXCEPT !["timer"] = "none", !["app"] = "idle"]
    /\ UNCHANGED <<kind, flags, subs, arg, msg, net, queue, calls, dead>>

Stopping == \/ StopRunning \/ StopReconnecting \/ StopHeartbeat("app", "joinReader")
            \/ JoinHeartbeat("app", "joinReader") \/ StopReader \/ StopTimer

-----------------------------------------------------------------------------
(* subscribe and unsubscribe *)

\* mutant: the id counts the subscriptions instead of those ever made
NewId_Count == Cardinality(subscribed) + 1

NewId == nextId

\* a symbol gets a new id with every subscription, whether or not it has one
Register(s) == ids' = [ids EXCEPT ![s] = NewId] /\ nextId' = nextId + 1

\* ThinMuxAdapter inserts the symbol now, a direct adapter once the request is sent
Subscribe(s) ==
    /\ Call /\ s \notin subscribed
    /\ Register(s)
    /\ subscribed' = IF kind = "mux" THEN subscribed \cup {s} ELSE subscribed
    /\ arg' = s
    /\ Goto("app", "sendSubscribe")
    /\ UNCHANGED <<kind, flags, status, msg, net, queue, dead>>

SendSubscribe ==
    /\ pc["app"] = "sendSubscribe"
    /\ Sent(wire \cup {arg})
    /\ subscribed' = subscribed \cup {arg}
    /\ arg' = NoMsg
    /\ Goto("app", "idle")
    /\ UNCHANGED <<kind, flags, status, ids, nextId, msg, link, queue, calls, dead>>

Unsubscribe(s) ==
    /\ Call /\ s \in subscribed
    /\ arg' = s
    /\ Goto("app", "sendUnsubscribe")
    /\ UNCHANGED <<kind, flags, status, subs, msg, net, queue, dead>>

\* the id stays in symbol_to_id
SendUnsubscribe ==
    /\ pc["app"] = "sendUnsubscribe"
    /\ Sent(wire \ {arg})
    /\ subscribed' = subscribed \ {arg}
    /\ arg' = NoMsg
    /\ Goto("app", "idle")
    /\ UNCHANGED <<kind, flags, status, ids, nextId, msg, link, queue, calls, dead>>

Subscribing == SendSubscribe \/ SendUnsubscribe \/ \E s \in Symbols : Subscribe(s) \/ Unsubscribe(s)

-----------------------------------------------------------------------------
(* reader *)

\* a message of symbol s arrives
Receive(s) ==
    /\ pc["reader"] = "read" /\ link = "up" /\ s \in wire
    /\ msg' = s
    /\ Goto("reader", "parse")
    /\ UNCHANGED <<kind, flags, status, subs, arg, net, queue, calls, dead>>

\* resolveSymbolId, pushTick: ticks of unknown symbols and those that find the queue full are dropped
OnMessage ==
    /\ pc["reader"] = "parse"
    /\ queue' = IF ids[msg] # 0 /\ Len(queue) < TickCap THEN Append(queue, <<msg, ids[msg]>>)
                                                        ELSE queue
    /\ msg' = NoMsg
    /\ Goto("reader", IF running THEN "read" ELSE "leave")
    /\ UNCHANGED <<kind, flags, status, subs, arg, net, calls, dead>>

\* a direct adapter dereferences a stream that stop() has reset
ReadFails ==
    /\ pc["reader"] = "read" /\ link # "up"
    /\ dead' = (kind = "direct" /\ link = "none")
    /\ Goto("reader", "leave")
    /\ UNCHANGED <<kind, flags, status, subs, arg, msg, net, queue, calls>>

\* mutant: the loss is reported only if the timer is going to be started
OnDisconnected_Quiet ==
    /\ kind = "direct" /\ pc["reader"] = "leave"
    /\ hbRunning' = IF running THEN FALSE ELSE hbRunning
    /\ UNCHANGED status
    /\ Goto("reader", IF running THEN "stopHeartbeat" ELSE "exited")
    /\ UNCHANGED <<kind, running, shouldReconnect, attempts, subs, arg, msg, net, queue, calls, dead>>

\* BinanceAdapter::onDisconnected, unless the adapter is being stopped
OnDisconnected ==
    /\ kind = "direct" /\ pc["reader"] = "leave"
    /\ hbRunning' = IF running THEN FALSE ELSE hbRunning
    /\ status' = IF running THEN "disconnected" ELSE status
    /\ Goto("reader", IF running THEN "stopHeartbeat" ELSE "exited")
    /\ UNCHANGED <<kind, running, shouldReconnect, attempts, subs, arg, msg, net, queue, calls, dead>>

\* the end of ThinMuxAdapter's readLoop
MuxDisconnected ==
    /\ kind = "mux" /\ pc["reader"] = "leave"
    /\ status' = IF running /\ shouldReconnect THEN "disconnected" ELSE status
    /\ Goto("reader", IF running /\ shouldReconnect THEN "startTimer" ELSE "exited")
    /\ UNCHANGED <<kind, flags, subs, arg, msg, net, queue, calls, dead>>

\* startReconnectionTimer joins the timer of an earlier loss
StartTimer ==
    /\ pc["reader"] = "startTimer"
    /\ \/ ~ shouldReconnect /\ Goto("reader", "exited")
       \/ /\ shouldReconnect
          /\ pc["timer"] \in {"none", "exited"}
          /\ pc' = [pc EXCEPT !["timer"] = "sleep", !["reader"] = "exited"]
    /\ UNCHANGED <<kind, flags, status, subs, arg, msg, net, queue, calls, dead>>

Reader == \/ OnMessage \/ ReadFails \/ OnDisconnected \/ MuxDisconnected \/ StartTimer
          \/ StopHeartbeat("reader", "startTimer") \/ JoinHeartbeat("reader", "startTimer")

-----------------------------------------------------------------------------
(* heartbeat, reconnection timer, network, consumer *)

HeartbeatEnds ==
    /\ pc["heartbeat"] = "beat" /\ ~ hbRunning
    /\ Goto("heartbeat", "exited")
    /\ UNCHANGED <<kind, flags, status, subs, arg, msg, net, queue, calls, dead>>

\* handleReconnection after the delay; ThinMuxAdapter's handleReconnect only counts
TimerWakes ==
    /\ pc["timer"] = "sleep"
    /\ attempts' = IF shouldReconnect THEN attempts + 1 ELSE attempts
    /\ Goto("timer", IF shouldReconnect /\ kind = "direct" THEN "start" ELSE "exited")
    /\ UNCHANGED <<kind, running, shouldReconnect, hbRunning, status, subs, arg, msg, net,
                   queue, calls, dead>>

TimerStart == pc["timer"] = "start" /\ Start("timer") /\ UNCHANGED calls

TimerDone ==
    /\ pc["timer"] = "restarted"
    /\ attempts' = 0
    /\ Goto("timer", "exited")
    /\ UNCHANGED <<kind, running, shouldReconnect, hbRunning, status, subs, arg, msg, net,
                   queue, calls, dead>>

\* to try again the timer thread joins itself
TimerRetries ==
    /\ pc["timer"] = "refused"
    /\ dead' = shouldReconnect
    /\ Goto("timer", "exited")
    /\ UNCHANGED <<kind, flags, status, subs, arg, msg, net, queue, calls>>

Timer == TimerWakes \/ TimerStart \/ TimerDone \/ TimerRetries \/ Starting("timer")

Break ==
    /\ link = "up"
    /\ link' = "broken" /\ wire' = {}
    /\ UNCHANGED <<kind, flags, status, subs, pc, arg, msg, queue, calls, dead>>

Consume ==
    /\ queue # <<>>
    /\ queue' = Tail(queue)
    /\ UNCHANGED <<kind, flags, status, subs, pc, arg, msg, net, calls, dead>>

App == AppStart \/ AppStop \/ Starting("app") \/ Stopping \/ Subscribing

Next == /\ ~ dead
        /\ \/ App \/ Reader \/ HeartbeatEnds \/ Timer \/ Break \/ Consume
           \/ \E s \in Symbols : Receive(s)

Spec == Init /\ [][Next]_vars

\* An open connection is not silent for ever: a message arrives or it breaks.
Network == Break \/ \E s \in Symbols : Receive(s)

Fairness == /\ WF_vars(~ dead /\ Reader)
            /\ WF_vars(~ dead /\ HeartbeatEnds)
            /\ WF_vars(~ dead /\ Timer)
            /\ WF_vars(~ dead /\ (Starting("app") \/ Stopping \/ SendSubscribe \/ SendUnsubscribe))
            /\ WF_vars(~ dead /\ Network)

FairSpec == Spec /\ Fairness

-----------------------------------------------------------------------------
(* Every variable keeps its type.                                          *)
TypeOK ==
    /\ kind \in Kinds
    /\ running \in BOOLEAN /\ shouldReconnect \in BOOLEAN /\ hbRunning \in BOOLEAN /\ dead \in BOOLEAN
    /\ status \in {"disconnected", "connecting", "connected", "error"}
    /\ attempts \in Nat /\ calls \in 0 .. MaxCalls
    /\ subscribed \subseteq Symbols /\ wire \subseteq Symbols
    /\ nextId \in Nat /\ ids \in [Symbols -> 0 .. nextId - 1]
    /\ pc \in [Threads -> STRING]
    /\ arg \in Symbols \cup {NoMsg} /\ msg \in Symbols \cup {NoMsg}
    /\ link \in {"none", "up", "broken"}
    /\ queue \in Seq(Symbols \X (1 .. nextId - 1)) /\ Len(queue) <= TickCap

(* ThinMuxAdapter handles its std::thread objects safely: start, stop, the *)
(* reader and the timer never assign over a joinable thread and never join *)
(* one together, whatever the order of losses and calls.                   *)
MuxNeverTerminates == kind = "mux" => ~ dead

(* When stop() of ThinMuxAdapter has returned, or start() has failed, no   *)
(* thread of the adapter is left, not even one that a connection loss      *)
(* started meanwhile, the stream is gone and nothing says CONNECTED.       *)
MuxStopIsFinal ==
    kind = "mux" /\ pc["app"] = "idle" /\ ~ running =>
        /\ \A t \in Threads \ {"app"} : pc[t] = "none"
        /\ link = "none" /\ status \in {"disconnected", "error"}

(* While connected and between calls, the exchange sends what was          *)
(* subscribed, be it before start(), after it, or before a connection that *)
(* was lost, and beyond that only the streams of the URL.                  *)
SubscriptionsOnWire ==
    pc["app"] = "idle" /\ link = "up" /\ status = "connected" /\ running =>
        subscribed \subseteq wire /\ wire \ subscribed \subseteq Streams

(* The id in a queued tick names the tick's symbol and no other, although  *)
(* subscribe() gives new ids while ticks with old ones are in the queue.   *)
TicksNameTheirSymbol ==
    \A i \in DOMAIN queue : \A s \in Symbols : ids[s] = queue[i][2] => s = queue[i][1]

(* Calls of the application return, stop() with all its joins included.    *)
AppReturns == []<>(pc["app"] = "idle" \/ dead)

(* A broken connection is noticed: the status changes, unless stop() comes *)
(* first.                                                                  *)
LossIsNoticed == (link = "broken" /\ running) ~> (status = "disconnected" \/ ~ running \/ dead)

(* "Handles WebSocket connections, reconnection logic", gateway.hpp:20: an *)
(* adapter that lost its connection gets a new one.                        *)
FeedRecovers == (status = "disconnected" /\ running) ~> (status = "connected" \/ ~ running \/ dead)
=============================================================================
