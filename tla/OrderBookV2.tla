---------------------------- MODULE OrderBookV2 ----------------------------
(***************************************************************************)
(* chronos::market_data::OrderBookV2: one writer thread applies ticks to   *)
(* the write buffer, copies the best levels into hot_data_ under a         *)
(* sequence lock and swaps the two cold buffers; reader threads read       *)
(* hot_data_ optimistically or follow active_cold_buffer_ without a lock.  *)
(*                                                                         *)
(* A side of a book is the sequence of its valid levels, best first; what  *)
(* the arrays hold beyond the count is left out.  Each side is copied in   *)
(* one step: the properties of readers are about reads that overlap no     *)
(* copy at all, or notice it.  Accesses take effect in program order.      *)
(***************************************************************************)
EXTENDS Integers, Sequences, FiniteSets

CONSTANTS Price,        \* prices of ticks
          MaxQty,       \* bound: quantity of a tick (0 removes the level)
          MaxDepth,     \* MAX_DEPTH
          HotDepth,     \* HOT_DEPTH
          HotReaders,   \* threads in readHotDataOptimistic
          ColdReaders,  \* threads in generateSnapshot
          MaxUpdates    \* bound: calls of update and clear

ASSUME DepthAssumption == /\ MaxDepth \in Nat \ {0} /\ HotDepth \in 1 .. MaxDepth
                          /\ MaxUpdates \in Nat /\ MaxQty \in Nat \ {0}
ASSUME PriceAssumption == Price \subseteq Int
ASSUME ReaderAssumption == HotReaders \cap ColdReaders = {}

Readers == HotReaders \cup ColdReaders
Side == {"bid", "ask"}
Buffer == 0 .. 1
Level == [price : Price, qty : 1 .. MaxQty]
NoBook == [s \in Side |-> <<>>]

VARIABLES cold,       \* cold_buffers_
          active,     \* index of the buffer active_cold_buffer_ points to
          writeIdx,   \* write_buffer_index_
          hot,        \* hot_data_, its levels
          version,    \* hot_data_.version
          wpc,        \* writer: next step
          updates,    \* calls of update and clear so far
          pc,         \* readers: next step
          held,       \* readers: version or buffer index loaded
          result,     \* readers: the book being assembled
          feed,       \* history: quantity the ticks gave each price, 0 for none
          deep,       \* history: sides that had more than MaxDepth levels
          span        \* history: the levels a reader's call found first; none for a
                      \* cold reader that the first update or a swap may disturb

vars == <<cold, active, writeIdx, hot, version, wpc, updates, pc, held, result,
          feed, deep, span>>
readerVars == <<pc, held, result, span>>
feedVars == <<feed, deep>>

\* the constructor makes the active buffer the write buffer as well
Init == /\ cold = [b \in Buffer |-> NoBook]
        /\ active = 0 /\ writeIdx = 0
        /\ hot = NoBook /\ version = 0
        /\ wpc = "idle" /\ updates = 0
        /\ pc = [r \in Readers |-> "idle"]
        /\ held = [r \in Readers |-> 0]
        /\ result = [r \in Readers |-> NoBook]
        /\ feed = [s \in Side |-> [p \in Price |-> 0]]
        /\ deep = {}
        /\ span = [r \in Readers |-> <<>>]

-----------------------------------------------------------------------------
(* Sorted arrays *)

Better(s, p, q) == IF s = "bid" THEN p > q ELSE p < q

\* mutant: the search runs past an equal price
InsertionPoint_PastEqual(s, levels, p) ==
    Cardinality({i \in 1 .. Len(levels) : ~ Better(s, p, levels[i].price)})

\* binary search: index (from 0) of the first level not better than price p; the
\* window <<lo, hi>> shrinks until it is empty
InsertionPoint(s, levels, p) ==
    LET Index == 0 .. Len(levels)
        search[w \in Index \X Index] ==
            LET mid == w[1] + (w[2] - w[1]) \div 2
            IN  IF w[1] >= w[2] THEN w[1]
                ELSE IF Better(s, levels[mid + 1].price, p) THEN search[<<mid + 1, w[2]>>]
                ELSE search[<<w[1], mid>>]
    IN  search[<<0, Len(levels)>>]

\* insertBidLevel / insertAskLevel: the levels after it and the position returned
InsertLevel(s, levels, p, q) ==
    LET lo == InsertionPoint(s, levels, p)
        new == [price |-> p, qty |-> q]
        all == SubSeq(levels, 1, lo) \o <<new>> \o SubSeq(levels, lo + 1, Len(levels))
    IN  IF lo < Len(levels) /\ levels[lo + 1].price = p
        THEN [levels |-> [levels EXCEPT ![lo + 1] = new], pos |-> lo]
        ELSE IF lo >= MaxDepth THEN [levels |-> levels, pos |-> -1]
        ELSE [levels |-> IF Len(levels) >= MaxDepth THEN SubSeq(all, 1, MaxDepth) ELSE all,
              pos |-> lo]

\* removeBidLevel / removeAskLevel
RemoveLevel(s, levels, p) ==
    LET lo == InsertionPoint(s, levels, p)
    IN  IF lo < Len(levels) /\ levels[lo + 1].price = p
        THEN [levels |-> SubSeq(levels, 1, lo) \o SubSeq(levels, lo + 2, Len(levels)), pos |-> lo]
        ELSE [levels |-> levels, pos |-> -1]

Apply(s, levels, p, q) == IF q > 0 THEN InsertLevel(s, levels, p, q)
                                   ELSE RemoveLevel(s, levels, p)

Top(levels) == SubSeq(levels, 1, IF Len(levels) < HotDepth THEN Len(levels) ELSE HotDepth)

-----------------------------------------------------------------------------
(* Writer: update and clear *)

\* mutant: a change at the last of the hot levels is overlooked
IsHot_OffByOne(pos) == 0 <= pos /\ pos < HotDepth - 1

\* hot_data_dirty_
IsHot(pos) == 0 <= pos /\ pos < HotDepth

Fed(s, p, q) == [feed EXCEPT ![s][p] = q]
LevelsOf(f, s) == {p \in Price : f[s][p] > 0}

\* updateLevels; rebuildHotData returns at once unless a hot level changed
UpdateLevels(s, p, q) ==
    /\ wpc = "idle" /\ updates < MaxUpdates
    /\ LET done == Apply(s, cold[writeIdx][s], p, q)
           book == [cold[writeIdx] EXCEPT ![s] = done.levels]
       IN  /\ cold' = [cold EXCEPT ![writeIdx] = book]
           /\ wpc' = IF IsHot(done.pos) THEN "odd" ELSE "swap"
    /\ updates' = updates + 1
    /\ feed' = Fed(s, p, q)
    /\ deep' = IF Cardinality(LevelsOf(Fed(s, p, q), s)) > MaxDepth THEN deep \cup {s} ELSE deep
    /\ UNCHANGED <<active, writeIdx, hot, version, readerVars>>

\* clear: its hot levels are those of the write buffer, none
Clear ==
    /\ wpc = "idle" /\ updates < MaxUpdates
    /\ cold' = [cold EXCEPT ![writeIdx] = NoBook]
    /\ wpc' = "odd"
    /\ updates' = updates + 1
    /\ feed' = [s \in Side |-> [p \in Price |-> 0]]
    /\ deep' = {}
    /\ UNCHANGED <<active, writeIdx, hot, version, readerVars>>

\* mutant: the version is bumped only after the copy
BumpOdd_Late ==
    /\ wpc = "odd"
    /\ wpc' = "bid"
    /\ UNCHANGED <<cold, active, writeIdx, hot, version, updates, readerVars, feedVars>>

BumpOdd ==
    /\ wpc = "odd"
    /\ version' = version + 1
    /\ wpc' = "bid"
    /\ UNCHANGED <<cold, active, writeIdx, hot, updates, readerVars, feedVars>>

CopySide(s) ==
    /\ wpc = s
    /\ hot' = [hot EXCEPT ![s] = Top(cold[writeIdx][s])]
    /\ wpc' = IF s = "bid" THEN "ask" ELSE "even"
    /\ UNCHANGED <<cold, active, writeIdx, version, updates, readerVars, feedVars>>

BumpEven ==
    /\ wpc = "even"
    /\ version' = version + 1
    /\ wpc' = "swap"
    /\ UNCHANGED <<cold, active, writeIdx, hot, updates, readerVars, feedVars>>

\* swapColdBuffers: first the index and the pointer; from here on the cold
\* readers inside a call may be overtaken by the memcpy ...
Swap ==
    /\ wpc = "swap"
    /\ writeIdx' = 1 - writeIdx
    /\ active' = writeIdx
    /\ wpc' = "refill"
    /\ span' = [r \in Readers |-> IF r \in ColdReaders THEN <<>> ELSE span[r]]
    /\ UNCHANGED <<cold, hot, version, updates, pc, held, result, feedVars>>

\* ... then the memcpy over the buffer that was active until now
Refill ==
    /\ wpc = "refill"
    /\ cold' = [cold EXCEPT ![writeIdx] = cold[active]]
    /\ wpc' = "idle"
    /\ UNCHANGED <<active, writeIdx, hot, version, updates, readerVars, feedVars>>

-----------------------------------------------------------------------------
(* readHotDataOptimistic *)

Goto(r, where) == pc' = [pc EXCEPT ![r] = where]
writerVars == <<cold, active, writeIdx, hot, version, wpc, updates, feedVars>>

ReadHot(r) ==
    /\ pc[r] = "idle"
    /\ Goto(r, "before")
    /\ UNCHANGED <<writerVars, held, result, span>>

\* an odd version is loaded again until it is even
LoadBefore(r) ==
    /\ pc[r] = "before"
    /\ version % 2 = 0
    /\ held' = [held EXCEPT ![r] = version]
    /\ span' = [span EXCEPT ![r] = <<hot>>]
    /\ Goto(r, "bid")
    /\ UNCHANGED <<writerVars, result>>

ReadHotSide(r, s) ==
    /\ pc[r] = s
    /\ result' = [result EXCEPT ![r][s] = hot[s]]
    /\ Goto(r, IF s = "bid" THEN "ask" ELSE "after")
    /\ UNCHANGED <<writerVars, held, span>>

LoadAfter(r) ==
    /\ pc[r] = "after"
    /\ Goto(r, IF version = held[r] THEN "read" ELSE "before")
    /\ UNCHANGED <<writerVars, held, result, span>>

\* a call returns and its locals go
Return(r) ==
    /\ pc[r] \in {"read", "snapped"}
    /\ Goto(r, "idle")
    /\ held' = [held EXCEPT ![r] = 0]
    /\ result' = [result EXCEPT ![r] = NoBook]
    /\ span' = [span EXCEPT ![r] = <<>>]
    /\ UNCHANGED writerVars

-----------------------------------------------------------------------------
(* generateSnapshot, and the other readers of the cold buffers *)

\* mutant: the reader is sent to the write buffer
GetReadBuffer_Dark(r) ==
    /\ pc[r] = "idle"
    /\ held' = [held EXCEPT ![r] = writeIdx]
    /\ span' = [span EXCEPT ![r] = IF active = writeIdx THEN <<>> ELSE <<cold[active]>>]
    /\ Goto(r, "bid")
    /\ UNCHANGED <<writerVars, result>>

GetReadBuffer(r) ==
    /\ pc[r] = "idle"
    /\ held' = [held EXCEPT ![r] = active]
    /\ span' = [span EXCEPT ![r] = IF active = writeIdx THEN <<>> ELSE <<cold[active]>>]
    /\ Goto(r, "bid")
    /\ UNCHANGED <<writerVars, result>>

CopyColdSide(r, s) ==
    /\ pc[r] = s
    /\ result' = [result EXCEPT ![r][s] = cold[held[r]][s]]
    /\ Goto(r, IF s = "bid" THEN "ask" ELSE "snapped")
    /\ UNCHANGED <<writerVars, held, span>>

-----------------------------------------------------------------------------

Writer == \/ \E s \in Side, p \in Price, q \in 0 .. MaxQty : UpdateLevels(s, p, q)
          \/ Clear \/ BumpOdd \/ BumpEven \/ Swap \/ Refill
          \/ \E s \in Side : CopySide(s)

HotReader(r) == \/ ReadHot(r) \/ LoadBefore(r) \/ LoadAfter(r) \/ Return(r)
                \/ \E s \in Side : ReadHotSide(r, s)

ColdReader(r) == \/ GetReadBuffer(r) \/ Return(r)
                 \/ \E s \in Side : CopyColdSide(r, s)

Next == \/ Writer
        \/ \E r \in HotReaders : HotReader(r)
        \/ \E r \in ColdReaders : ColdReader(r)

Spec == Init /\ [][Next]_vars

-----------------------------------------------------------------------------
(* Every variable keeps its type; no book is deeper than MaxDepth levels   *)
(* and the hot levels no deeper than HotDepth.                             *)
TypeOK ==
    /\ \A b \in Buffer, s \in Side : /\ cold[b][s] \in Seq(Level)
                                     /\ Len(cold[b][s]) <= MaxDepth
    /\ \A s \in Side : hot[s] \in Seq(Level) /\ Len(hot[s]) <= HotDepth
    /\ active \in Buffer /\ writeIdx \in Buffer
    /\ version \in 0 .. 2 * MaxUpdates
    /\ wpc \in {"idle", "odd", "bid", "ask", "even", "swap", "refill"}
    /\ updates \in 0 .. MaxUpdates
    /\ pc \in [Readers -> {"idle", "before", "bid", "ask", "after", "read", "snapped"}]
    /\ held \in [Readers -> 0 .. 2 * MaxUpdates]

Levels(levels) == {levels[i] : i \in 1 .. Len(levels)}

(* The write buffer is sorted best first without repeated prices, every    *)
(* level in it has the quantity the feed gave last, and unless a side had  *)
(* more than MaxDepth levels at some time, every level of the feed is in   *)
(* it: no sequence of inserts, updates, trims and removals corrupts a side.*)
BookIsExact ==
    \A s \in Side :
        LET levels == cold[writeIdx][s]
        IN  wpc = "idle" =>
            /\ \A i, j \in 1 .. Len(levels) :
                   i < j => Better(s, levels[i].price, levels[j].price)
            /\ \A l \in Levels(levels) : feed[s][l.price] = l.qty
            /\ s \notin deep =>
                   LevelsOf(feed, s) = {l.price : l \in Levels(levels)}

(* Between two calls of update the hot levels are the best levels of the   *)
(* book, although rebuildHotData skips the copy when no hot level changed, *)
(* and both cold buffers hold the same book.                               *)
HotIsTop ==
    wpc = "idle" => /\ cold[0] = cold[1]
                    /\ \A s \in Side : hot[s] = Top(cold[active][s])

(* An optimistic read returns the bids and asks hot_data_ held together    *)
(* when the version was first loaded, never those of two versions          *)
(* (getMidPrice, getSpread).                                               *)
HotReadIsOneVersion ==
    \A r \in HotReaders : pc[r] = "read" => result[r] = span[r][1]

(* Double buffering works: generateSnapshot returns exactly the book that  *)
(* was active when it loaded the pointer, however far an update of the     *)
(* other buffer and of the hot data gets meanwhile, as long as the buffers *)
(* are not swapped during the call and the first update is over.           *)
ColdReadUndisturbed ==
    \A r \in ColdReaders : pc[r] = "snapped" /\ span[r] # <<>> => result[r] = span[r][1]
=============================================================================
