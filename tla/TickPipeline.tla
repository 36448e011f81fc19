---------------------------- MODULE TickPipeline ----------------------------
(***************************************************************************)
(* From the exchange to the quotes a strategy sees: the channels an        *)
(* adapter subscribes, the messages on them, the parser that turns each    *)
(* into ticks, the tick queue that drops what it cannot hold, and the      *)
(* order book StrategyEngine keeps per symbol.  One symbol; connections    *)
(* and ids are in MarketFeed, the book's arrays in OrderBookV2 (a map of   *)
(* levels here, as BookIsExact says), the queue's slots in MPMCQueue.      *)
(*                                                                         *)
(* The parsers exist twice, in the adapters and in the protocols of        *)
(* ThinMuxAdapter, and so do their definitions.                            *)
(***************************************************************************)
EXTENDS Integers, Sequences, SequencesExt, FiniteSetsExt

CONSTANTS Feeds,      \* feeds to look at
          Quotes,     \* prices of the market
          MaxLot,     \* quantities at a level
          TopLevels,  \* levels in a books5 or depth5 message
          PipeCap,    \* capacity of the tick queue
          MaxMoves    \* bound: changes of the market

ASSUME FeedsAssumption ==
    /\ Feeds \subseteq {"binance", "okx", "binance_mux", "okx_mux"}
    /\ Quotes \subseteq Nat /\ IsFiniteSet(Quotes) /\ {MaxLot, TopLevels, PipeCap, MaxMoves} \subseteq Nat

VARIABLES feed,
          market,   \* external: the exchange's book, [side -> [price -> quantity]]
          inbox,    \* messages sent and not yet read
          ticks,    \* ticks of the message being parsed that are still to be pushed
          pipe,     \* the tick queue
          book,     \* the book of StrategyEngine
          lost,     \* history: levels whose last depth tick was dropped
          traded,   \* history: levels a trade's tick has written since their last depth tick
          moves

pipelineVars == <<feed, market, inbox, ticks, pipe, book, lost, traded, moves>>

Sides == {"bid", "ask"}
Books == [Sides -> [Quotes -> 0 .. MaxLot]]
EmptyBook == [s \in Sides |-> [p \in Quotes |-> 0]]

Levels(b, s) == {p \in Quotes : b[s][p] > 0}
Better(s, p, q) == IF s = "bid" THEN p > q ELSE p < q

\* the place of price p among ps, and ps in that order
Rank(s, ps, p) == 1 + Cardinality({q \in ps : Better(s, q, p)})
BestFirst(s, ps) == [i \in 1 .. Cardinality(ps) |-> CHOOSE p \in ps : Rank(s, ps, p) = i]

\* the levels that books5 and depth5 show
Shown(b, s) == {p \in Levels(b, s) : Rank(s, Levels(b, s), p) <= TopLevels}

\* external: nobody bids what somebody asks
Markets == {b \in Books : \A p \in Levels(b, "bid"), q \in Levels(b, "ask") : p < q}

-----------------------------------------------------------------------------
(* The channels that are subscribed *)

BinanceSubscribe == {"depth", "trades", "ticker"}
OkxSubscribe == {"books5", "trades"}
\* @depth5@100ms where the adapter has @depth
BinanceSubscribeRequest == {"depth5", "trades", "ticker"}
OkxSubscribeRequest == {"books5", "trades"}

Channels == CASE feed = "binance" -> BinanceSubscribe
              [] feed = "okx" -> OkxSubscribe
              [] feed = "binance_mux" -> BinanceSubscribeRequest
              [] feed = "okx_mux" -> OkxSubscribeRequest

-----------------------------------------------------------------------------
(* The exchange (external) *)

LevelsOf(b, s, ps) == [i \in DOMAIN BestFirst(s, ps) |-> <<BestFirst(s, ps)[i], b[s][BestFirst(s, ps)[i]]>>]

\* the levels that changed, quantity 0 for one that is gone
Depth(new) ==
    LET changed(s) == {p \in Quotes : new[s][p] # market[s][p]} IN
    [channel |-> "depth", bids |-> LevelsOf(new, "bid", changed("bid")),
                          asks |-> LevelsOf(new, "ask", changed("ask"))]

\* the best levels there are
Top(channel, new) ==
    [channel |-> channel, bids |-> LevelsOf(new, "bid", Shown(new, "bid")),
                          asks |-> LevelsOf(new, "ask", Shown(new, "ask"))]

BookMessage(new) ==
    CASE "depth" \in Channels  -> Depth(new)
      [] "depth5" \in Channels -> Top("depth5", new)
      [] "books5" \in Channels -> Top("books5", new)

Moved(new) == /\ moves < MaxMoves /\ moves' = moves + 1
              /\ new # market /\ market' = new
              /\ UNCHANGED <<feed, ticks, pipe, book, lost, traded>>

\* orders come and go
Requote == \E new \in Markets : Moved(new) /\ inbox' = Append(inbox, BookMessage(new))

\* an order meets the best of the other side, s
Deal(s) ==
    \E p \in Levels(market, s) :
       LET new == [market EXCEPT ![s][p] = @ - 1] IN
       /\ Rank(s, Levels(market, s), p) = 1
       /\ Moved(new)
       /\ inbox' = inbox \o <<[channel |-> "trades", buy |-> s = "ask", price |-> p, qty |-> 1],
                              BookMessage(new)>>

Ticker ==
    /\ "ticker" \in Channels /\ inbox = <<>>
    /\ inbox' = <<[channel |-> "ticker"]>>
    /\ UNCHANGED <<feed, market, ticks, pipe, book, lost, traded, moves>>

-----------------------------------------------------------------------------
(* Parsers: a message becomes a sequence of ticks *)

Emit(levels, side) ==
    [i \in DOMAIN levels |-> [side |-> side, price |-> levels[i][1], qty |-> levels[i][2], flags |-> 0]]

\* mutant: levels of quantity 0 are taken for empty ones and skipped
ParseDepthUpdate_NoRemovals(m) ==
    SelectSeq(Emit(m.bids, "bid") \o Emit(m.asks, "ask"), LAMBDA t : t.qty > 0)

ParseDepthUpdate(m) == Emit(m.bids, "bid") \o Emit(m.asks, "ask")
ProtocolDepthUpdate(m) == Emit(m.bids, "bid") \o Emit(m.asks, "ask")
ParseBooks5(m) == Emit(m.bids, "bid") \o Emit(m.asks, "ask")
ProtocolBooks5(m) == Emit(m.bids, "bid") \o Emit(m.asks, "ask")

\* a trade of a buyer gets side BID, one of a seller TRADE
ParseTrade(m) ==
    <<[side |-> IF m.buy THEN "bid" ELSE "trade", price |-> m.price, qty |-> m.qty, flags |-> 1]>>
OkxParseTrade(m) == ParseTrade(m)
ProtocolTrade(m) == ParseTrade(m)
OkxProtocolTrade(m) == ParseTrade(m)

BinanceMessage(m) == CASE m.channel = "depth" -> ParseDepthUpdate(m)
                       [] m.channel = "trades" -> ParseTrade(m)
                       [] m.channel = "ticker" -> <<>>

OkxMessage(m) == CASE m.channel = "books5" -> ParseBooks5(m)
                   [] m.channel = "trades" -> OkxParseTrade(m)

BinanceProtocol(m) == CASE m.channel = "depth5" -> ProtocolDepthUpdate(m)
                        [] m.channel = "trades" -> ProtocolTrade(m)
                        [] m.channel = "ticker" -> <<>>

OkxProtocol(m) == CASE m.channel = "books5" -> ProtocolBooks5(m)
                    [] m.channel = "trades" -> OkxProtocolTrade(m)

ReadMessage ==
    /\ inbox # <<>> /\ ticks = <<>>
    /\ inbox' = Tail(inbox)
    /\ ticks' = LET m == Head(inbox) IN
                CASE feed = "binance" -> BinanceMessage(m)
                  [] feed = "okx" -> OkxMessage(m)
                  [] feed = "binance_mux" -> BinanceProtocol(m)
                  [] feed = "okx_mux" -> OkxProtocol(m)
    /\ UNCHANGED <<feed, market, pipe, book, lost, traded, moves>>

-----------------------------------------------------------------------------
(* The queue and the book *)

\* OrderBookV2::update: everything that is not a BID is an ask
SideOf(t) == IF t.side = "bid" THEN "bid" ELSE "ask"
LevelOf(t) == <<SideOf(t), t.price>>

\* try_push; a tick that finds the queue full is gone
PushTick ==
    /\ ticks # <<>>
    /\ LET t == Head(ticks)
           fits == Len(pipe) < PipeCap IN
       /\ pipe' = IF fits THEN Append(pipe, t) ELSE pipe
       /\ lost' = IF fits THEN lost \ {LevelOf(t)} ELSE lost \cup {LevelOf(t)}
       /\ traded' = IF t.flags = 1 THEN traded \cup {LevelOf(t)} ELSE traded \ {LevelOf(t)}
    /\ ticks' = Tail(ticks)
    /\ UNCHANGED <<feed, market, inbox, book, moves>>

\* the engine takes a tick and updates the book, whatever its flags
TakeTick ==
    /\ pipe # <<>>
    /\ LET t == Head(pipe) IN book' = [book EXCEPT ![SideOf(t)][t.price] = t.qty]
    /\ pipe' = Tail(pipe)
    /\ UNCHANGED <<feed, market, inbox, ticks, lost, traded, moves>>

-----------------------------------------------------------------------------
PipelineInit == /\ feed \in Feeds
                /\ market = EmptyBook /\ book = EmptyBook
                /\ inbox = <<>> /\ ticks = <<>> /\ pipe = <<>>
                /\ lost = {} /\ traded = {} /\ moves = 0

PipelineNext == Requote \/ (\E s \in Sides : Deal(s)) \/ Ticker \/ ReadMessage \/ PushTick \/ TakeTick

PipelineSpec == PipelineInit /\ [][PipelineNext]_pipelineVars

\* Every variable keeps its type.
PipelineTypeOK ==
    /\ feed \in Feeds /\ market \in Markets /\ book \in Books
    /\ Len(pipe) <= PipeCap /\ moves \in 0 .. MaxMoves
    /\ lost \subseteq Sides \X Quotes /\ traded \subseteq Sides \X Quotes

Quiet == inbox = <<>> /\ ticks = <<>> /\ pipe = <<>>

\* what the channel has told about
Told(s) == IF "depth" \in Channels THEN Quotes ELSE Shown(market, s)

(* When every message has been read and every tick taken, a level that the *)
(* feed reports is in the book as it is at the exchange, and one that a    *)
(* depth feed removed is gone, unless its last tick found the queue full   *)
(* or a trade's tick has overwritten it.                                   *)
BookMatchesFeed ==
    Quiet => \A s \in Sides : \A p \in Told(s) :
                 <<s, p>> \notin lost \cup traded => book[s][p] = market[s][p]
=============================================================================
