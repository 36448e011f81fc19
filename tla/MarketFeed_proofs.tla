------------------------- MODULE MarketFeed_proofs -------------------------
(***************************************************************************)
(* Proofs about the market data adapters, for every set of symbols, every  *)
(* URL and any number of calls: ThinMuxAdapter handles its std::thread     *)
(* objects safely and leaves nothing behind, a tick's id is its symbol's,  *)
(* and every connection carries the subscriptions.                         *)
(***************************************************************************)
EXTENDS MarketFeed, FiniteSetTheorems, TLAPS

-----------------------------------------------------------------------------
(* Threads of ThinMuxAdapter *)

AtRest == {"idle", "sendSubscribe", "sendUnsubscribe"}

AppPlaces == AtRest \cup {"connect", "connected", "resubscribe", "stop", "noReconnect", "stopHeartbeat",
                          "joinHeartbeat", "joinReader", "joinTimer"}
ReaderPlaces == {"none", "read", "parse", "leave", "startTimer", "exited"}
Places == AppPlaces \cup ReaderPlaces \cup {"beat", "sleep"}

NoThreads == pc["reader"] = "none" /\ pc["heartbeat"] = "none" /\ pc["timer"] = "none"

(* Neither property is inductive: that start() finds no thread to overwrite *)
(* and stop() nobody else in a join follows from where each thread can be   *)
(* while the application's thread is where it is.  Only that thread starts, *)
(* stops and joins; the reader alone starts the timer, and is joined first. *)
MuxThreads ==
    /\ ~ dead
    /\ pc \in [Threads -> Places]
    /\ pc["app"] \in AppPlaces /\ pc["reader"] \in ReaderPlaces
    /\ pc["heartbeat"] \in {"none", "beat", "exited"} /\ pc["timer"] \in {"none", "sleep", "exited"}
    /\ running => pc["app"] \in AtRest \cup {"resubscribe", "stop"}
    /\ pc["app"] \in {"resubscribe", "stop"} => running
    /\ pc["app"] \in {"connect", "connected"} => NoThreads
    /\ pc["app"] \in AtRest /\ ~ running =>
           NoThreads /\ link = "none" /\ status \in {"disconnected", "error"}
    /\ pc["app"] \in {"joinReader", "joinTimer"} => pc["heartbeat"] = "none"
    /\ pc["app"] = "joinTimer" => pc["reader"] = "none" /\ link = "none"

MuxInv == kind = "mux" => MuxThreads

\* No step changes the kind of an adapter.
LEMMA KindStays == [Next]_vars => kind' = kind
  BY DEF Next, vars, App, AppStart, Start, StartAgain, StartConnecting, AppStop, Starting, ConnectOk,
     ConnectFails, OnConnected, MuxConnected, Resubscribe, DirectRun, Stopping, StopRunning,
     StopReconnecting, StopHeartbeat, JoinHeartbeat, StopReader, StopTimer, Subscribing, Subscribe,
     SendSubscribe, Unsubscribe, SendUnsubscribe, Reader, OnMessage, ReadFails, OnDisconnected,
     MuxDisconnected, StartTimer, HeartbeatEnds, Timer, TimerWakes, TimerStart, TimerDone,
     TimerRetries, Break, Consume, Receive

\* start() of ThinMuxAdapter, called by the application.
LEMMA StartingKeepsThreads ==
    ASSUME kind = "mux", MuxThreads, AppStart \/ Starting("app")
    PROVE  MuxThreads'
<1> USE DEF MuxThreads, Threads, AtRest, AppPlaces, ReaderPlaces, Places, NoThreads, Returned
<1>1. CASE AppStart
  BY <1>1 DEF AppStart, Call, Start, StartAgain, StartConnecting, Goto, flags, net
<1>2. CASE ConnectOk("app")
  BY <1>2 DEF ConnectOk, Goto, flags
<1>3. CASE ConnectFails("app")
  BY <1>3 DEF ConnectFails, Goto, flags
<1>4. CASE MuxConnected("app")
  <2>1. ~ dead'
    BY <1>4 DEF MuxConnected, Spawn, Joinable
  <2>2. pc' = [t \in Threads |-> CASE t = "reader" -> "read" [] t = "heartbeat" -> "beat"
                                   [] t = "app" -> "resubscribe" [] OTHER -> pc[t]]
    BY <1>4 DEF MuxConnected, Spawn, Entry
  <2>3. running' = TRUE
    BY <1>4 DEF MuxConnected
  <2>4. QED
    BY <1>4, <2>1, <2>2, <2>3
<1>5. CASE Resubscribe("app")
  BY <1>5 DEF Resubscribe, Goto, flags
<1>6. QED
  BY <1>1, <1>2, <1>3, <1>4, <1>5 DEF Starting, OnConnected, DirectRun

\* stop() of ThinMuxAdapter.
LEMMA StoppingKeepsThreads ==
    ASSUME kind = "mux", MuxThreads, AppStop \/ Stopping
    PROVE  MuxThreads'
<1> USE DEF MuxThreads, Threads, AtRest, AppPlaces, ReaderPlaces, Places, NoThreads
<1>1. CASE AppStop
  BY <1>1 DEF AppStop, Call, Goto, flags, net
<1>2. CASE StopRunning
  BY <1>2 DEF StopRunning, Goto, net
<1>3. CASE StopReconnecting
  BY <1>3 DEF StopReconnecting, Goto, net
<1>4. CASE StopHeartbeat("app", "joinReader")
  BY <1>4 DEF StopHeartbeat, Goto, Joinable, flags, net
<1>5. CASE JoinHeartbeat("app", "joinReader")
  BY <1>5 DEF JoinHeartbeat, flags, net
<1>6. CASE StopReader
  BY <1>6 DEF StopReader, flags
<1>7. CASE StopTimer
  BY <1>7 DEF StopTimer, flags, net
<1>8. QED
  BY <1>1, <1>2, <1>3, <1>4, <1>5, <1>6, <1>7 DEF Stopping

\* The reader and the timer of ThinMuxAdapter, the heartbeat and the network.
LEMMA ThreadsKeepThreads ==
    ASSUME kind = "mux", MuxThreads,
           Reader \/ Timer \/ HeartbeatEnds \/ Break \/ \E s \in Symbols : Receive(s)
    PROVE  MuxThreads'
<1> USE DEF MuxThreads, Threads, AtRest, AppPlaces, ReaderPlaces, Places, NoThreads
<1>1. CASE OnMessage
  BY <1>1 DEF OnMessage, Goto, flags, net
<1>2. CASE ReadFails
  BY <1>2 DEF ReadFails, Goto, flags, net
<1>3. CASE MuxDisconnected
  BY <1>3 DEF MuxDisconnected, Goto, flags, net
<1>4. CASE StartTimer
  BY <1>4 DEF StartTimer, Goto, flags, net
<1>5. CASE HeartbeatEnds
  BY <1>5 DEF HeartbeatEnds, Goto, flags, net
<1>6. CASE TimerWakes
  BY <1>6 DEF TimerWakes, Goto, net
<1>7. CASE Break
  BY <1>7 DEF Break, flags
<1>8. ASSUME NEW s \in Symbols, Receive(s)  PROVE MuxThreads'
  BY <1>8 DEF Receive, Goto, flags, net
<1>9. ~ StopHeartbeat("reader", "startTimer") /\ ~ JoinHeartbeat("reader", "startTimer")
  BY DEF StopHeartbeat, JoinHeartbeat
<1>10. ~ TimerStart /\ ~ TimerDone /\ ~ TimerRetries /\ ~ Starting("timer")
  BY DEF TimerStart, TimerDone, TimerRetries, Starting, ConnectOk, ConnectFails, OnConnected,
     MuxConnected, Resubscribe, DirectRun
<1>11. QED
  BY <1>1, <1>2, <1>3, <1>4, <1>5, <1>6, <1>7, <1>8, <1>9, <1>10 DEF Reader, Timer, OnDisconnected

\* Subscriptions and the consumer of ticks leave the threads alone.
LEMMA SubscribingKeepsThreads ==
    ASSUME kind = "mux", MuxThreads, Subscribing \/ Consume
    PROVE  MuxThreads'
<1> USE DEF MuxThreads, Threads, AtRest, AppPlaces, ReaderPlaces, Places, NoThreads
<1>1. CASE Consume
  BY <1>1 DEF Consume, flags, net
<1>2. CASE SendSubscribe
  BY <1>2 DEF SendSubscribe, Goto, flags
<1>3. CASE SendUnsubscribe
  BY <1>3 DEF SendUnsubscribe, Goto, flags
<1>4. ASSUME NEW s \in Symbols, Subscribe(s) \/ Unsubscribe(s)  PROVE MuxThreads'
  BY <1>4 DEF Subscribe, Unsubscribe, Call, Goto, flags, net
<1>5. QED
  BY <1>1, <1>2, <1>3, <1>4 DEF Subscribing

\* Where the threads of ThinMuxAdapter are is an invariant.
LEMMA MuxInvHolds == Spec => []MuxInv
<1>1. Init => MuxInv
  BY DEF Init, MuxInv, MuxThreads, Threads, AtRest, AppPlaces, ReaderPlaces, Places, NoThreads
<1>2. MuxInv /\ [Next]_vars => MuxInv'
  <2> SUFFICES ASSUME MuxThreads, kind = "mux", [Next]_vars  PROVE MuxThreads'
    BY KindStays DEF MuxInv
  <2>1. CASE UNCHANGED vars
    BY <2>1 DEF vars, MuxThreads, NoThreads
  <2>2. CASE Next
    BY <2>2, StartingKeepsThreads, StoppingKeepsThreads, ThreadsKeepThreads, SubscribingKeepsThreads
    DEF Next, App
  <2>3. QED
    BY <2>1, <2>2
<1>3. QED
  BY <1>1, <1>2, PTL DEF Spec

(* ThinMuxAdapter never assigns over a joinable thread and never joins a   *)
(* thread twice or itself, whatever the order of losses and calls: the     *)
(* process is not terminated.                                              *)
THEOREM MuxIsSafe == Spec => []MuxNeverTerminates
<1>1. MuxInv => MuxNeverTerminates
  BY DEF MuxInv, MuxThreads, MuxNeverTerminates
<1>2. QED
  BY <1>1, MuxInvHolds, PTL

(* When stop() of ThinMuxAdapter has returned, no thread of it is left,    *)
(* also none that a loss during stop() started.                            *)
THEOREM MuxStops == Spec => []MuxStopIsFinal
<1>1. MuxInv => MuxStopIsFinal
  BY DEF MuxInv, MuxThreads, NoThreads, AtRest, Threads, MuxStopIsFinal
<1>2. QED
  BY <1>1, MuxInvHolds, PTL

-----------------------------------------------------------------------------
(* Symbol ids *)

(* TicksNameTheirSymbol is not inductive: a new id must differ from the    *)
(* ids in use and from those of queued ticks, which may be in use no more. *)
(* All of them are below next_symbol_id_, and ids in use are distinct.     *)
IdInv ==
    /\ nextId \in Nat \ {0}
    /\ ids \in [Symbols -> Nat]
    /\ \A s \in Symbols : ids[s] < nextId
    /\ \A s, t \in Symbols : ids[s] = ids[t] /\ ids[s] # 0 => s = t
    /\ queue \in Seq(Symbols \X Nat)
    /\ \A i \in DOMAIN queue : queue[i][2] # 0 /\ queue[i][2] < nextId
    /\ TicksNameTheirSymbol
    /\ DOMAIN pc = Threads
    /\ pc["reader"] = "parse" => msg \in Symbols

\* initialize gives the symbols of the URL the ids from 1 on, one each.
LEMMA RegisteredIds ==
    ASSUME NEW url \in SUBSET Symbols, IsFiniteSet(url)
    PROVE  /\ Registered(url) \in [Symbols -> 0 .. Cardinality(url)]
           /\ \A s \in Symbols : (Registered(url)[s] = 0) = (s \notin url)
           /\ \A s, t \in url : Registered(url)[s] = Registered(url)[t] => s = t
<1> DEFINE n == Cardinality(url)
           Good(f) == /\ \A s \in Symbols : (f[s] = 0) = (s \notin url)
                      /\ \A s, t \in url : f[s] = f[t] => s = t
<1>1. n \in Nat /\ ExistsBijection(1 .. n, url)
  BY FS_CardinalityType
<1>2. PICK g \in Bijection(1 .. n, url) : TRUE
  BY <1>1 DEF ExistsBijection
<1>3. /\ g \in [1 .. n -> url]
      /\ \A s \in url : \E k \in 1 .. n : g[k] = s
  BY <1>2 DEF Bijection, Injection, Surjection
<1> DEFINE place(s) == CHOOSE k \in 1 .. n : g[k] = s
           f == [s \in Symbols |-> IF s \in url THEN place(s) ELSE 0]
<1>4. \A s \in url : place(s) \in 1 .. n /\ g[place(s)] = s
  BY <1>3
<1> HIDE DEF place, n
<1>5. f \in [Symbols -> 0 .. n]
  BY <1>1, <1>4
<1>6. \A s \in Symbols : (f[s] = 0) <=> (s \notin url)
  BY <1>1, <1>4
<1>7. \A s, t \in url : f[s] = f[t] => s = t
  BY <1>4
<1> HIDE DEF f
<1>8. \E h \in [Symbols -> 0 .. n] : Good(h)
  BY <1>5, <1>6, <1>7
<1>9. QED
  BY <1>8 DEF Registered, n

\* The first ids are distinct and below next_symbol_id_.
LEMMA InitIds == Init => IdInv
<1> SUFFICES ASSUME Init  PROVE IdInv
  OBVIOUS
<1> DEFINE url == IF kind = "direct" THEN Streams ELSE {}
<1>1. url \in SUBSET Symbols /\ IsFiniteSet(url)
  BY StreamAssumption, FS_EmptySet
<1>2. ids = Registered(url)
  BY DEF Init
<1> HIDE DEF url
<1>3. /\ ids \in [Symbols -> 0 .. Cardinality(url)] /\ Cardinality(url) \in Nat
      /\ \A s \in Symbols : (ids[s] = 0) = (s \notin url)
      /\ \A s, t \in url : ids[s] = ids[t] => s = t
  BY <1>1, <1>2, RegisteredIds, FS_CardinalityType
<1>4. {s \in Symbols : ids[s] # 0} = url
  BY <1>1, <1>3
<1>5. nextId = 1 + Cardinality(url)
  BY <1>4 DEF Init
<1>6. queue = <<>> /\ pc = [t \in Threads |-> IF t = "app" THEN "idle" ELSE "none"]
  BY DEF Init
<1>7. QED
  BY <1>3, <1>5, <1>6 DEF IdInv, TicksNameTheirSymbol, Threads

\* A step that registers no symbol and pushes no tick keeps the ids, if the
\* reader takes only messages of symbols.
LEMMA IdsStay ==
    ASSUME IdInv, ids' = ids, nextId' = nextId, queue' = queue, DOMAIN pc' = Threads,
           pc'["reader"] = "parse" => msg' \in Symbols
    PROVE  IdInv'
  BY DEF IdInv, TicksNameTheirSymbol

\* subscribe takes an id that no symbol and no queued tick has.
LEMMA SubscribeKeepsIds ==
    ASSUME IdInv, NEW s \in Symbols, Subscribe(s)
    PROVE  IdInv'
<1>1. /\ ids' = [ids EXCEPT ![s] = nextId] /\ nextId' = nextId + 1 /\ queue' = queue /\ msg' = msg
      /\ pc' = [pc EXCEPT !["app"] = "sendSubscribe"]
  BY DEF Subscribe, Register, NewId, Goto
<1>2. DOMAIN pc' = Threads /\ pc'["reader"] = pc["reader"]
  BY <1>1 DEF IdInv, Threads
<1>3. QED
  BY <1>1, <1>2 DEF IdInv, TicksNameTheirSymbol

\* A tick is pushed with the id its symbol has.
LEMMA OnMessageKeepsIds ==
    ASSUME IdInv, OnMessage
    PROVE  IdInv'
<1>1. msg \in Symbols /\ ids' = ids /\ nextId' = nextId /\ DOMAIN pc' = Threads /\ pc'["reader"] # "parse"
  BY DEF IdInv, OnMessage, Goto, subs, Threads
<1>2. CASE queue' = queue
  BY <1>1, <1>2, IdsStay
<1>3. CASE ids[msg] # 0 /\ queue' = Append(queue, <<msg, ids[msg]>>)
  <2>1. /\ queue' \in Seq(Symbols \X Nat) /\ DOMAIN queue' = 1 .. Len(queue) + 1
        /\ \A i \in DOMAIN queue : queue'[i] = queue[i]
        /\ queue'[Len(queue) + 1] = <<msg, ids[msg]>>
    BY <1>1, <1>3 DEF IdInv
  <2>2. \A i \in DOMAIN queue' : i \in DOMAIN queue \/ i = Len(queue) + 1
    BY <2>1 DEF IdInv
  <2>3. ASSUME NEW i \in DOMAIN queue'
        PROVE  /\ queue'[i][2] # 0 /\ queue'[i][2] < nextId
               /\ \A s \in Symbols : ids[s] = queue'[i][2] => s = queue'[i][1]
    BY <1>1, <1>3, <2>1, <2>2 DEF IdInv, TicksNameTheirSymbol
  <2>4. QED
    BY <1>1, <2>1, <2>3 DEF IdInv, TicksNameTheirSymbol
<1>4. QED
  BY <1>2, <1>3 DEF OnMessage

\* Taking a tick off the queue.
LEMMA ConsumeKeepsIds ==
    ASSUME IdInv, Consume
    PROVE  IdInv'
<1>1. /\ queue # <<>> /\ queue' = Tail(queue) /\ ids' = ids /\ nextId' = nextId /\ pc' = pc /\ msg' = msg
  BY DEF Consume, subs
<1>2. queue' \in Seq(Symbols \X Nat) /\ \A i \in DOMAIN queue' : i + 1 \in DOMAIN queue /\ queue'[i] = queue[i + 1]
  BY <1>1 DEF IdInv
<1>3. QED
  BY <1>1, <1>2 DEF IdInv, TicksNameTheirSymbol

\* start() and stop() register nothing and read nothing.
LEMMA ControlKeepsIds ==
    ASSUME IdInv, NEW t \in {"app", "timer"},
           AppStart \/ TimerStart \/ Starting(t) \/ AppStop \/ Stopping
    PROVE  IdInv'
<1>1. ids' = ids /\ nextId' = nextId /\ queue' = queue /\ msg' = msg
  BY DEF AppStart, TimerStart, Start, StartAgain, StartConnecting, Starting, ConnectOk, ConnectFails,
     OnConnected, MuxConnected, Resubscribe, DirectRun, AppStop, Stopping, StopRunning,
     StopReconnecting, StopHeartbeat, JoinHeartbeat, StopReader, StopTimer, subs
<1>2. DOMAIN pc' = Threads /\ (pc'["reader"] = "parse" => pc["reader"] = "parse")
  <2> USE DEF IdInv, Threads, Goto, Returned
  <2>1. CASE AppStart \/ TimerStart
    BY <2>1 DEF AppStart, TimerStart, Start, StartAgain, StartConnecting
  <2>2. CASE ConnectOk(t) \/ ConnectFails(t) \/ Resubscribe(t)
    BY <2>2 DEF ConnectOk, ConnectFails, Resubscribe
  <2>3. CASE OnConnected(t) \/ MuxConnected(t) \/ DirectRun(t)
    BY <2>3 DEF OnConnected, MuxConnected, DirectRun, Spawn, Entry
  <2>4. CASE AppStop \/ Stopping
    BY <2>4 DEF AppStop, Stopping, StopRunning, StopReconnecting, StopHeartbeat, JoinHeartbeat,
       StopReader, StopTimer
  <2>5. QED
    BY <2>1, <2>2, <2>3, <2>4 DEF Starting
<1>3. QED
  BY <1>1, <1>2, IdsStay DEF IdInv

\* Neither do the other threads, but for the reader's messages.
LEMMA ThreadsKeepIds ==
    ASSUME IdInv,
           \/ ReadFails \/ OnDisconnected \/ MuxDisconnected \/ StartTimer
           \/ StopHeartbeat("reader", "startTimer") \/ JoinHeartbeat("reader", "startTimer")
           \/ HeartbeatEnds \/ TimerWakes \/ TimerDone \/ TimerRetries \/ Break
           \/ SendSubscribe \/ SendUnsubscribe \/ \E s \in Symbols : Unsubscribe(s) \/ Receive(s)
    PROVE  IdInv'
<1>1. ids' = ids /\ nextId' = nextId /\ queue' = queue
  BY DEF ReadFails, OnDisconnected, MuxDisconnected, StartTimer, StopHeartbeat, JoinHeartbeat,
     HeartbeatEnds, TimerWakes, TimerDone, TimerRetries, Break, SendSubscribe, SendUnsubscribe,
     Unsubscribe, Receive, subs
<1>2. CASE \E s \in Symbols : Receive(s)
  BY <1>1, <1>2, IdsStay DEF Receive, Goto, IdInv, Threads
<1>3. CASE ~ \E s \in Symbols : Receive(s)
  <2>1. msg' = msg
    BY <1>3 DEF ReadFails, OnDisconnected, MuxDisconnected, StartTimer, StopHeartbeat, JoinHeartbeat,
       HeartbeatEnds, TimerWakes, TimerDone, TimerRetries, Break, SendSubscribe, SendUnsubscribe,
       Unsubscribe
  <2>2. DOMAIN pc' = Threads /\ (pc'["reader"] = "parse" => pc["reader"] = "parse")
    BY <1>3 DEF ReadFails, OnDisconnected, MuxDisconnected, StartTimer, StopHeartbeat, JoinHeartbeat,
       HeartbeatEnds, TimerWakes, TimerDone, TimerRetries, Break, SendSubscribe, SendUnsubscribe,
       Unsubscribe, Goto, Threads, IdInv
  <2>3. QED
    BY <1>1, <2>1, <2>2, IdsStay DEF IdInv
<1>4. QED
  BY <1>2, <1>3

(* The id in a queued tick names the tick's symbol and no other, for every *)
(* set of symbols and any sequence of subscriptions.                       *)
THEOREM TicksAreNamed == Spec => []TicksNameTheirSymbol
<1>1. IdInv /\ [Next]_vars => IdInv'
  <2> SUFFICES ASSUME IdInv, [Next]_vars  PROVE IdInv'
    OBVIOUS
  <2>1. CASE UNCHANGED vars
    BY <2>1, IdsStay DEF vars, IdInv
  <2>2. CASE Next
    BY <2>2, SubscribeKeepsIds, OnMessageKeepsIds, ConsumeKeepsIds, ControlKeepsIds, ThreadsKeepIds
    DEF Next, App, Subscribing, Reader, Timer
  <2>3. QED
    BY <2>1, <2>2
<1>2. IdInv => TicksNameTheirSymbol
  BY DEF IdInv
<1>3. QED
  BY <1>1, <1>2, InitIds, PTL DEF Spec


-----------------------------------------------------------------------------
(* Subscriptions *)

\* start() after it has set CONNECTING, and stop() after it has cleared running_
Connecting == {"connect", "connected", "resubscribe", "run"}
InStop == {"noReconnect", "stopHeartbeat", "joinHeartbeat", "joinReader", "joinTimer"}

Alive(t) == pc[t] \notin {"none", "exited"}

OnWire == subscribed \subseteq wire /\ wire \ subscribed \subseteq Streams
Up == link = "up" /\ status = "connected" /\ running

(* The property compares two sets that the application's thread changes in *)
(* two steps each, and the reconnection timer of a direct adapter changes  *)
(* one of them on its own.  The timer connects only while running_ is      *)
(* false, and a timer or a reader that is alive then means that stop() is  *)
(* under way; stop() returns only when the timer has, and says             *)
(* DISCONNECTED last.                                                      *)
ConnectInv ==
    /\ DOMAIN pc = Threads
    /\ pc["timer"] \in Connecting => pc["app"] \in InStop
    /\ Alive("timer") /\ pc["app"] \notin InStop => running
    /\ Alive("reader") /\ pc["app"] \notin InStop \ {"joinTimer"} => running

SubscribeInv ==
    /\ pc["app"] \in {"connected", "resubscribe"} /\ link = "up" => wire \subseteq Streams
    /\ pc["app"] = "run" /\ link = "up" => OnWire
    /\ pc["app"] \in {"idle", "sendUnsubscribe"} /\ Up => OnWire
    /\ pc["app"] = "sendSubscribe" /\ Up =>
           subscribed \ {arg} \subseteq wire /\ wire \ subscribed \subseteq Streams

WireInv == ConnectInv /\ SubscribeInv

\* start(), by the application or by the timer.
LEMMA StartKeepsWire ==
    ASSUME WireInv, NEW t \in {"app", "timer"}, Start(t),
           IF t = "app" THEN pc["app"] = "idle" ELSE pc["timer"] = "start"
    PROVE  WireInv'
<1> USE DEF WireInv, ConnectInv, SubscribeInv, Alive, Connecting, InStop, Threads, OnWire, Up
<1>1. CASE StartAgain(t)
  BY <1>1 DEF StartAgain, Goto, Returned, flags, subs, net
<1>2. CASE StartConnecting(t)
  BY <1>2 DEF StartConnecting, Goto, subs, net
<1>3. QED
  BY <1>1, <1>2 DEF Start

\* The rest of start(): connecting, resubscribing, starting the reader.
LEMMA StartingKeepsWire ==
    ASSUME WireInv, NEW t \in {"app", "timer"}, Starting(t)
    PROVE  WireInv'
<1> USE DEF WireInv, ConnectInv, SubscribeInv, Alive, Connecting, InStop, Threads, OnWire, Up
<1>1. CASE ConnectOk(t)
  BY <1>1 DEF ConnectOk, Goto, flags, subs
<1>2. CASE ConnectFails(t)
  BY <1>2 DEF ConnectFails, Goto, Returned, flags, subs
<1>3. CASE OnConnected(t)
  BY <1>3 DEF OnConnected, Spawn, Entry, subs, net
<1>4. CASE MuxConnected(t)
  BY <1>4 DEF MuxConnected, Spawn, Entry, subs, net
<1>5. CASE Resubscribe(t)
  BY <1>5 DEF Resubscribe, Sent, Goto, Returned, flags, subs
<1>6. CASE DirectRun(t)
  BY <1>6 DEF DirectRun, Spawn, Entry, Returned, subs, net
<1>7. QED
  BY <1>1, <1>2, <1>3, <1>4, <1>5, <1>6 DEF Starting

\* stop(): it returns only when the timer has ended.
LEMMA StoppingKeepsWire ==
    ASSUME WireInv, AppStop \/ Stopping
    PROVE  WireInv'
<1> USE DEF WireInv, ConnectInv, SubscribeInv, Alive, Connecting, InStop, Threads, OnWire, Up
<1>1. CASE AppStop
  BY <1>1 DEF AppStop, Call, Goto, flags, subs, net
<1>2. CASE StopRunning \/ StopReconnecting
  BY <1>2 DEF StopRunning, StopReconnecting, Goto, subs, net
<1>3. CASE StopHeartbeat("app", "joinReader")
  BY <1>3 DEF StopHeartbeat, Goto, flags, subs, net
<1>4. CASE JoinHeartbeat("app", "joinReader")
  BY <1>4 DEF JoinHeartbeat, flags, subs, net
<1>5. CASE StopReader
  BY <1>5 DEF StopReader, flags, subs
<1>6. CASE StopTimer
  BY <1>6 DEF StopTimer, flags, subs, net
<1>7. QED
  BY <1>1, <1>2, <1>3, <1>4, <1>5, <1>6 DEF Stopping

\* subscribe and unsubscribe: the request and the set change together.
LEMMA SubscribingKeepsWire ==
    ASSUME WireInv, Subscribing
    PROVE  WireInv'
<1> USE DEF WireInv, ConnectInv, SubscribeInv, Alive, Connecting, InStop, Threads, OnWire, Up
<1>1. CASE SendSubscribe
  BY <1>1 DEF SendSubscribe, Sent, Goto, flags
<1>2. CASE SendUnsubscribe
  BY <1>2 DEF SendUnsubscribe, Sent, Goto, flags
<1>3. ASSUME NEW s \in Symbols, Subscribe(s)  PROVE WireInv'
  BY <1>3 DEF Subscribe, Call, Goto, flags, net
<1>4. ASSUME NEW s \in Symbols, Unsubscribe(s)  PROVE WireInv'
  BY <1>4 DEF Unsubscribe, Call, Goto, flags, subs, net
<1>5. QED
  BY <1>1, <1>2, <1>3, <1>4 DEF Subscribing

\* The reader, which alone starts the timer.
LEMMA ReaderKeepsWire ==
    ASSUME WireInv, Reader \/ \E s \in Symbols : Receive(s)
    PROVE  WireInv'
<1> USE DEF WireInv, ConnectInv, SubscribeInv, Alive, Connecting, InStop, Threads, OnWire, Up
<1>1. ASSUME NEW s \in Symbols, Receive(s)  PROVE WireInv'
  BY <1>1 DEF Receive, Goto, flags, subs, net
<1>2. CASE OnMessage
  BY <1>2 DEF OnMessage, Goto, flags, subs, net
<1>3. CASE ReadFails
  BY <1>3 DEF ReadFails, Goto, flags, subs, net
<1>4. CASE OnDisconnected
  BY <1>4 DEF OnDisconnected, Goto, subs, net
<1>5. CASE MuxDisconnected
  BY <1>5 DEF MuxDisconnected, Goto, flags, subs, net
<1>6. CASE StartTimer
  BY <1>6 DEF StartTimer, Goto, flags, subs, net
<1>7. CASE StopHeartbeat("reader", "startTimer")
  BY <1>7 DEF StopHeartbeat, Goto, flags, subs, net
<1>8. CASE JoinHeartbeat("reader", "startTimer")
  BY <1>8 DEF JoinHeartbeat, flags, subs, net
<1>9. QED
  BY <1>1, <1>2, <1>3, <1>4, <1>5, <1>6, <1>7, <1>8 DEF Reader

\* The heartbeat, the timer outside start(), the network and the consumer.
LEMMA OthersKeepWire ==
    ASSUME WireInv, HeartbeatEnds \/ TimerWakes \/ TimerDone \/ TimerRetries \/ Break \/ Consume
    PROVE  WireInv'
<1> USE DEF WireInv, ConnectInv, SubscribeInv, Alive, Connecting, InStop, Threads, OnWire, Up
<1>1. CASE HeartbeatEnds
  BY <1>1 DEF HeartbeatEnds, Goto, flags, subs, net
<1>2. CASE TimerWakes \/ TimerDone \/ TimerRetries
  BY <1>2 DEF TimerWakes, TimerDone, TimerRetries, Goto, flags, subs, net
<1>3. CASE Break \/ Consume
  BY <1>3 DEF Break, Consume, flags, subs, net
<1>4. QED
  BY <1>1, <1>2, <1>3

\* While connected and between calls, the exchange sends what was subscribed and
\* beyond that only the streams of the URL, however losses, reconnections, start(),
\* stop(), subscribe() and unsubscribe() interleave.
THEOREM SubscriptionsStayOnWire == Spec => []SubscriptionsOnWire
<1>1. Init => WireInv
  BY DEF Init, WireInv, ConnectInv, SubscribeInv, Alive, Connecting, InStop, Threads, Up
<1>2. WireInv /\ [Next]_vars => WireInv'
  <2> SUFFICES ASSUME WireInv, [Next]_vars PROVE WireInv'
    OBVIOUS
  <2>1. CASE App
    BY <2>1, StartKeepsWire, StartingKeepsWire, StoppingKeepsWire, SubscribingKeepsWire
       DEF App, AppStart, Call
  <2>2. CASE Timer
    BY <2>2, StartKeepsWire, StartingKeepsWire, OthersKeepWire DEF Timer, TimerStart
  <2>3. CASE Reader \/ \E s \in Symbols : Receive(s)
    BY <2>3, ReaderKeepsWire
  <2>4. CASE HeartbeatEnds \/ Break \/ Consume
    BY <2>4, OthersKeepWire
  <2>5. CASE UNCHANGED vars
    BY <2>5 DEF vars, WireInv, ConnectInv, SubscribeInv, Alive, OnWire, Up
  <2>6. QED
    BY <2>1, <2>2, <2>3, <2>4, <2>5 DEF Next
<1>3. WireInv => SubscriptionsOnWire
  BY DEF WireInv, SubscribeInv, SubscriptionsOnWire, OnWire, Up
<1>4. QED
  BY <1>1, <1>2, <1>3, PTL DEF Spec

=============================================================================
