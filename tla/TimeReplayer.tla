---------------------------- MODULE TimeReplayer ----------------------------
(***************************************************************************)
(* chronos::backtest::TimeReplayer: merges logged streams by timestamp.    *)
(* The heap holds the next event of every stream that has one left; among  *)
(* equal timestamps std::priority_queue gives any.  What a delivered event *)
(* does is up to its callback (BacktestEngine).                            *)
(***************************************************************************)
EXTENDS Integers, Sequences, SequencesExt, FiniteSetsExt

CONSTANTS LogSets   \* inputs: sequences of streams, a stream a sequence of ticks [ts, side, price, qty]

LoggedTick == [ts : Nat, side : {"bid", "ask", "trade"}, price : Nat, qty : Nat]

ASSUME StreamsAssumption == LogSets \subseteq Seq(Seq(LoggedTick))

VARIABLES streams,    \* streams added so far
          toAdd,      \* streams still to be added
          at,         \* [stream -> events delivered of it]
          currentTime, paused,
          delivered   \* history: <<stream, position>> of the events delivered

replayVars == <<streams, toAdd, at, currentTime, paused, delivered>>

\* empty streams are skipped
AddStream ==
    /\ toAdd # <<>>
    /\ LET s == Head(toAdd) IN
       IF s = <<>> THEN UNCHANGED <<streams, at>>
       ELSE streams' = Append(streams, s) /\ at' = Append(at, 0)
    /\ toAdd' = Tail(toAdd)
    /\ UNCHANGED <<currentTime, paused, delivered>>

\* the heap: timestamp and stream
Heap == {<<streams[i][at[i] + 1].ts, i>> : i \in {j \in DOMAIN streams : at[j] < Len(streams[j])}}

\* mutant: the stream with the smallest index first
AdvanceToNextEvent_InTurn(i) ==
    /\ ~ paused
    /\ \E e \in Heap : e[2] = i /\ \A f \in Heap : i <= f[2]
    /\ currentTime' = streams[i][at[i] + 1].ts
    /\ at' = [at EXCEPT ![i] = @ + 1]
    /\ delivered' = Append(delivered, <<i, at[i] + 1>>)
    /\ UNCHANGED <<streams, toAdd, paused>>

AdvanceToNextEvent(i) ==
    /\ ~ paused
    /\ \E e \in Heap : e[2] = i /\ \A f \in Heap : e[1] <= f[1]
    /\ currentTime' = streams[i][at[i] + 1].ts
    /\ at' = [at EXCEPT ![i] = @ + 1]
    /\ delivered' = Append(delivered, <<i, at[i] + 1>>)
    /\ UNCHANGED <<streams, toAdd, paused>>

PauseOrResume == paused' = ~ paused /\ UNCHANGED <<streams, toAdd, at, currentTime, delivered>>

ReplayInit == /\ toAdd \in LogSets
              /\ streams = <<>> /\ at = <<>> /\ currentTime = 0 /\ paused = FALSE /\ delivered = <<>>

\* Every variable keeps its type.
ReplayTypeOK ==
    /\ DOMAIN at = DOMAIN streams /\ \A i \in DOMAIN at : at[i] \in 0 .. Len(streams[i])
    /\ currentTime \in Nat /\ paused \in BOOLEAN

(* Streams that are sorted, and added before the first event, come out as  *)
(* one sequence in the order of time in which no event is missing up to    *)
(* the current time, and none is delivered twice or before an earlier one  *)
(* of its stream.                                                          *)
ReplayInOrder ==
    LET ts(k) == streams[delivered[k][1]][delivered[k][2]].ts IN
    /\ \A k, l \in DOMAIN delivered : k < l => ts(k) <= ts(l) /\ delivered[k] # delivered[l]
    /\ \A k, l \in DOMAIN delivered :
          k < l /\ delivered[k][1] = delivered[l][1] => delivered[k][2] < delivered[l][2]
    /\ \A i \in DOMAIN streams : \A j \in DOMAIN streams[i] :
          streams[i][j].ts < currentTime => <<i, j>> \in Range(delivered)
=============================================================================
