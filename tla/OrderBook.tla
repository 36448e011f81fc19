----------------------------- MODULE OrderBook -----------------------------
(***************************************************************************)
(* chronos::market_data::OrderBook, the first version: two maps of levels  *)
(* under a shared mutex (cold), and a copy of the best levels under a spin *)
(* lock with a version that is odd while it is written (hot).  update()    *)
(* takes the mutex three times, for the level, for the copy and for the    *)
(* trim, so that several writers and readers run in between.               *)
(*                                                                         *)
(* A section under the mutex is one step where it touches nothing that     *)
(* lock-free readers see; the copy is one step per version increment and   *)
(* per side, which is what an optimistic reader can tell apart.            *)
(***************************************************************************)
EXTENDS Integers, Sequences, FiniteSetsExt

CONSTANTS LevelPrices,  \* prices, positive
          DepthLimit,   \* MAX_DEPTH
          BookWriters, BookReaders,
          ReadTries,    \* MAX_RETRIES of an optimistic read
          MaxBookCalls  \* bound: calls of the writers

ASSUME LevelsAssumption ==
    /\ LevelPrices \subseteq Nat \ {0} /\ IsFiniteSet(LevelPrices)   \* prices have 64 bits
    /\ {DepthLimit, ReadTries} \subseteq Nat \ {0} /\ MaxBookCalls \in Nat
    /\ "none" \notin BookWriters

VARIABLES cold,      \* [side -> [price -> quantity]], 0 for no level
          hot,       \* [side -> best price], 0 for none
          version,
          copying,   \* the thread that has the spin lock, if any
          wpc,       \* writers: next step
          rd,        \* readers: [pc, tries, seen version, bid, ask]
          publications, \* history: the hot data of each even version
          bookCalls

bookVars == <<cold, hot, version, copying, wpc, rd, publications, bookCalls>>

NoThread == "none"
BookSides == {"bid", "ask"}
NoLevels == [s \in BookSides |-> [p \in LevelPrices |-> 0]]
Present(c, s) == {p \in LevelPrices : c[s][p] > 0}
Best(c, s) == IF Present(c, s) = {} THEN 0
              ELSE IF s = "bid" THEN Max(Present(c, s)) ELSE Min(Present(c, s))

\* a thread between the two version increments of updateHotData holds the mutex as a
\* reader: nobody may change the levels
Unlocked == copying = NoThread

-----------------------------------------------------------------------------
(* Writers *)

BookCall(w, next) == /\ wpc[w] = "idle" /\ bookCalls < MaxBookCalls /\ bookCalls' = bookCalls + 1
                     /\ Unlocked
                     /\ wpc' = [wpc EXCEPT ![w] = next]
                     /\ UNCHANGED <<hot, version, copying, rd, publications>>

UpdateBidLevel(w, p, q) == BookCall(w, "copy") /\ cold' = [cold EXCEPT !["bid"][p] = q]

\* asks, and ticks of trades
UpdateAskLevel(w, p, q) == BookCall(w, "copy") /\ cold' = [cold EXCEPT !["ask"][p] = q]

\* snapshots of an exchange: deeper than the limit
Snapshots == {c \in [BookSides -> [LevelPrices -> {0, 1}]] :
                 \A s \in BookSides : Cardinality(Present(c, s)) > DepthLimit}

\* as update() without the trim
RebuildFromSnapshot(w, snapshot) == BookCall(w, "copyOnly") /\ cold' = snapshot

\* updateHotData: the spin lock, the version, ...
BeginHot(w) ==
    /\ wpc[w] \in {"copy", "copyOnly"} /\ Unlocked
    /\ copying' = w
    /\ version' = version + 1
    /\ wpc' = [wpc EXCEPT ![w] = IF @ = "copy" THEN "bid" ELSE "bidOnly"]
    /\ UNCHANGED <<cold, hot, rd, publications, bookCalls>>

CopySide(w, s, from, to) ==
    /\ wpc[w] = from
    /\ hot' = [hot EXCEPT ![s] = Best(cold, s)]
    /\ wpc' = [wpc EXCEPT ![w] = to]
    /\ UNCHANGED <<cold, version, copying, rd, publications, bookCalls>>

CopyBest(w) == \/ CopySide(w, "bid", "bid", "ask") \/ CopySide(w, "ask", "ask", "end")
               \/ CopySide(w, "bid", "bidOnly", "askOnly") \/ CopySide(w, "ask", "askOnly", "endOnly")

\* ... the version again, and both locks
EndHot(w) ==
    /\ wpc[w] \in {"end", "endOnly"}
    /\ version' = version + 1
    /\ publications' = Append(publications, hot)
    /\ copying' = NoThread
    /\ wpc' = [wpc EXCEPT ![w] = IF @ = "end" THEN "trim" ELSE "idle"]
    /\ UNCHANGED <<cold, hot, rd, bookCalls>>

Keep(c, s) == {p \in Present(c, s) :
                 Cardinality({q \in Present(c, s) : IF s = "bid" THEN q > p ELSE q < p}) < DepthLimit}

\* and the statistics
TrimDepth(w) ==
    /\ wpc[w] = "trim" /\ Unlocked
    /\ cold' = [s \in BookSides |-> [p \in LevelPrices |-> IF p \in Keep(cold, s) THEN cold[s][p] ELSE 0]]
    /\ wpc' = [wpc EXCEPT ![w] = "idle"]
    /\ UNCHANGED <<hot, version, copying, rd, publications, bookCalls>>

\* mutant: the version is not touched
ClearBook_Silent(w) ==
    /\ BookCall(w, "idle")
    /\ cold' = NoLevels

\* clear() keeps the mutex until the hot data is cleared too
ClearBook(w) ==
    /\ wpc[w] = "idle" /\ bookCalls < MaxBookCalls /\ bookCalls' = bookCalls + 1
    /\ Unlocked
    /\ cold' = NoLevels
    /\ copying' = w /\ version' = version + 1
    /\ wpc' = [wpc EXCEPT ![w] = "bidOnly"]
    /\ UNCHANGED <<hot, rd, publications>>

Writer(w) == \/ \E p \in LevelPrices, q \in {0, 1} : UpdateBidLevel(w, p, q) \/ UpdateAskLevel(w, p, q)
             \/ \E snapshot \in Snapshots : RebuildFromSnapshot(w, snapshot)
             \/ BeginHot(w) \/ CopyBest(w) \/ EndHot(w) \/ TrimDepth(w) \/ ClearBook(w)

-----------------------------------------------------------------------------
(* Optimistic readers: getBestBid, getBestAsk, getMidPrice, getSpread, getBestBidAsk *)

NewRead == [pc |-> "idle", tries |-> 0, seen |-> 0, bid |-> 0, ask |-> 0, checked |-> TRUE]

BeginRead(r) ==
    /\ rd[r].pc \in {"idle", "done"}
    /\ rd' = [rd EXCEPT ![r] = [NewRead EXCEPT !.pc = "version"]]
    /\ UNCHANGED <<cold, hot, version, copying, wpc, publications, bookCalls>>

\* an odd version costs a try; after the last one the data is read unchecked
ReadVersion(r) ==
    /\ rd[r].pc = "version"
    /\ rd' = [rd EXCEPT ![r] =
           IF @.tries = ReadTries THEN [@ EXCEPT !.pc = "bid", !.checked = FALSE]
           ELSE IF version % 2 = 1 THEN [@ EXCEPT !.tries = rd[r].tries + 1]
           ELSE [@ EXCEPT !.pc = "bid", !.seen = version]]
    /\ UNCHANGED <<cold, hot, version, copying, wpc, publications, bookCalls>>

ReadBid(r) ==
    /\ rd[r].pc = "bid"
    /\ rd' = [rd EXCEPT ![r].bid = hot["bid"], ![r].pc = "ask"]
    /\ UNCHANGED <<cold, hot, version, copying, wpc, publications, bookCalls>>

ReadAsk(r) ==
    /\ rd[r].pc = "ask"
    /\ rd' = [rd EXCEPT ![r].ask = hot["ask"], ![r].pc = IF rd[r].checked THEN "check" ELSE "done"]
    /\ UNCHANGED <<cold, hot, version, copying, wpc, publications, bookCalls>>

\* mutant: whatever was read is returned
CheckVersion_Skipped(r) ==
    /\ rd[r].pc = "check"
    /\ rd' = [rd EXCEPT ![r].pc = "done"]
    /\ UNCHANGED <<cold, hot, version, copying, wpc, publications, bookCalls>>

CheckVersion(r) ==
    /\ rd[r].pc = "check"
    /\ rd' = [rd EXCEPT ![r] = IF version = @.seen THEN [@ EXCEPT !.pc = "done"]
                               ELSE [@ EXCEPT !.pc = "version", !.tries = rd[r].tries + 1]]
    /\ UNCHANGED <<cold, hot, version, copying, wpc, publications, bookCalls>>

Reading(r) == BeginRead(r) \/ ReadVersion(r) \/ ReadBid(r) \/ ReadAsk(r) \/ CheckVersion(r)

-----------------------------------------------------------------------------
BookInit == /\ cold = NoLevels /\ hot = [s \in BookSides |-> 0] /\ version = 0
            /\ copying = NoThread
            /\ wpc = [w \in BookWriters |-> "idle"]
            /\ rd = [r \in BookReaders |-> NewRead]
            /\ publications = <<hot>> /\ bookCalls = 0

BookNext == (\E w \in BookWriters : Writer(w)) \/ (\E r \in BookReaders : Reading(r))

BookSpec == BookInit /\ [][BookNext]_bookVars

\* Every variable keeps its type.
BookTypeOK ==
    /\ cold \in [BookSides -> [LevelPrices -> 0 .. 1]]
    /\ hot \in [BookSides -> LevelPrices \cup {0}]
    /\ version \in Nat /\ copying \in BookWriters \cup {NoThread}
    /\ bookCalls \in 0 .. MaxBookCalls

(* Whenever no writer is on its way from the levels to the copy, also with *)
(* several writers that overtake each other, clear() and a rebuild in      *)
(* between, the hot data is the best of the levels.                        *)
HotIsBest ==
    (\A w \in BookWriters : wpc[w] \in {"idle", "trim"}) =>
        \A s \in BookSides : hot[s] = Best(cold, s)

(* An optimistic read that its version check let through returns a bid and *)
(* an ask of one publication, the one of the version it saw.               *)
BookReadsAgree ==
    \A r \in BookReaders :
        rd[r].pc = "done" /\ rd[r].checked =>
            /\ rd[r].bid = publications[rd[r].seen \div 2 + 1]["bid"]
            /\ rd[r].ask = publications[rd[r].seen \div 2 + 1]["ask"]
=============================================================================
