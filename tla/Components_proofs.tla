------------------------- MODULE Components_proofs --------------------------
(***************************************************************************)
(* Proofs about components that share nothing with the others: the first   *)
(* version of the order book with any number of writers and readers, the   *)
(* bridge to ZMQ, the error handler, the positions with their ledger, and  *)
(* the way of a quote from the exchange to the book.                       *)
(***************************************************************************)
EXTENDS OrderBook, ZMQBridge, ErrorHandler, PositionManager, TickPipeline, SequenceTheorems,
        FiniteSetTheorems, TLAPS

-----------------------------------------------------------------------------
(* OrderBook: the hot data *)

LEMMA SmallestPrice ==
    ASSUME NEW T \in SUBSET Nat, T # {}
    PROVE  \E x \in T : \A y \in T : x <= y
<1> DEFINE R == OpToRel(<, Nat)
<1>1. IsWellFoundedOn(R, Nat)
  BY NatLessThanWellFounded
<1>2. \A x, y \in Nat : x < y => <<x, y>> \in R
  BY DEF OpToRel
<1> HIDE DEF R
<1>3. PICK x \in T : \A y \in T : ~ (<<y, x>> \in R)
  BY <1>1, WFMin
<1>4. ASSUME NEW y \in T  PROVE x <= y
  <2>1. ~ (y < x)
    BY <1>2, <1>3
  <2>2. QED
    BY <2>1
<1>5. QED
  BY <1>4

\* A finite set of prices has a largest: the one with the fewest above it.
LEMMA LargestPrice ==
    ASSUME NEW S \in SUBSET Nat, S # {}, IsFiniteSet(S)
    PROVE  \E x \in S : \A y \in S : x >= y
<1> DEFINE above(x) == {y \in S : y > x}
           T == {Cardinality(above(x)) : x \in S}
<1>1. \A x \in S : IsFiniteSet(above(x)) /\ Cardinality(above(x)) \in Nat
  <2> TAKE x \in S
  <2>1. above(x) \in SUBSET S
    OBVIOUS
  <2> HIDE DEF above
  <2>2. IsFiniteSet(above(x))
    BY <2>1, FS_Subset
  <2>3. QED
    BY <2>2, FS_CardinalityType
<1>2. T \in SUBSET Nat /\ T # {}
  <2> HIDE DEF above
  <2>1. QED
    BY <1>1
<1>3. PICK t \in T : \A u \in T : t <= u
  <2> HIDE DEF T
  <2>1. QED
    BY <1>2, SmallestPrice
<1>4. PICK x \in S : t = Cardinality(above(x))
  <2> HIDE DEF above
  <2>1. QED
    BY <1>3
<1>5. ASSUME NEW y \in S, y > x  PROVE FALSE
  <2>1. above(y) \in SUBSET above(x) /\ above(y) # above(x)
    <3>1. x \in Nat /\ y \in Nat /\ S \subseteq Nat
      OBVIOUS
    <3>2. \A z \in S : z > y => z > x
      BY <1>5, <3>1
    <3>3. y \in above(x) /\ y \notin above(y)
      BY <1>5, <3>1
    <3>4. QED
      BY <3>2, <3>3
  <2>2. Cardinality(above(x)) <= Cardinality(above(y))
    <3> HIDE DEF above
    <3>1. QED
      BY <1>3, <1>4
  <2> HIDE DEF above
  <2>3. Cardinality(above(y)) <= Cardinality(above(x))
    BY <1>1, <2>1, FS_Subset
  <2>4. Cardinality(above(y)) # Cardinality(above(x))
    BY <1>1, <2>1, FS_Subset
  <2>5. QED
    BY <1>1, <2>2, <2>3, <2>4
<1>6. QED
  BY <1>5

\* The price nothing on its side is better than.
LEMMA BestIsBest ==
    ASSUME NEW c, NEW s \in BookSides, Present(c, s) # {}
    PROVE  /\ Best(c, s) \in Present(c, s)
           /\ \A p \in Present(c, s) : IF s = "bid" THEN p <= Best(c, s) ELSE Best(c, s) <= p
<1>1. Present(c, s) \in SUBSET Nat /\ IsFiniteSet(Present(c, s))
  BY LevelsAssumption, FS_Subset DEF Present
<1>2. \E x \in Present(c, s) : \A y \in Present(c, s) : x >= y
  BY <1>1, LargestPrice
<1>3. \E x \in Present(c, s) : \A y \in Present(c, s) : x <= y
  BY <1>1, SmallestPrice
<1>4. CASE s = "bid"
  BY <1>1, <1>2, <1>4 DEF Best, Max
<1>5. CASE s # "bid"
  BY <1>1, <1>3, <1>5 DEF Best, Min
<1>6. QED
  BY <1>4, <1>5

\* What nothing is better than is the best.
LEMMA BestIsUnique ==
    ASSUME NEW c, NEW s \in BookSides, NEW p \in Present(c, s),
           \A q \in Present(c, s) : IF s = "bid" THEN q <= p ELSE p <= q
    PROVE  Best(c, s) = p
<1>1. Present(c, s) \in SUBSET Nat
  BY LevelsAssumption DEF Present
<1>2. Best(c, s) \in Present(c, s) /\ IF s = "bid" THEN p <= Best(c, s) ELSE Best(c, s) <= p
  BY BestIsBest
<1>3. QED
  BY <1>1, <1>2

Trimmed(c) == [s \in BookSides |-> [p \in LevelPrices |-> IF p \in Keep(c, s) THEN c[s][p] ELSE 0]]

\* The trim never takes the best level.
LEMMA TrimKeepsBest ==
    ASSUME NEW c, NEW s \in BookSides
    PROVE  Best(Trimmed(c), s) = Best(c, s)
<1>1. Present(Trimmed(c), s) = Keep(c, s) /\ Keep(c, s) \subseteq Present(c, s)
  BY DEF Present, Keep, Trimmed
<1>2. CASE Present(c, s) = {}
  BY <1>1, <1>2 DEF Best
<1>3. CASE Present(c, s) # {}
  <2> DEFINE p == Best(c, s)
             better == {q \in Present(c, s) : IF s = "bid" THEN q > p ELSE q < p}
  <2>1. p \in Present(c, s) /\ \A q \in Present(c, s) : IF s = "bid" THEN q <= p ELSE p <= q
    BY <1>3, BestIsBest
  <2>2. Present(c, s) \in SUBSET Nat /\ DepthLimit \in Nat \ {0}
    BY LevelsAssumption DEF Present
  <2>3. better = {}
    <3> HIDE DEF p
    <3>1. QED
      BY <2>1, <2>2
  <2>4. Cardinality(better) < DepthLimit
    BY <2>2, <2>3, FS_EmptySet
  <2>5. p \in Keep(c, s)
    BY <2>1, <2>4 DEF Keep
  <2> HIDE DEF p
  <2>6. QED
    BY <1>1, <2>1, <2>5, BestIsUnique DEF p
<1>4. QED
  BY <1>2, <1>3


Copying == {"bid", "ask", "end", "bidOnly", "askOnly", "endOnly"}
WriterSteps == {"idle", "copy", "copyOnly", "trim"} \cup Copying
Read == [pc : {"idle", "version", "bid", "ask", "check", "done"}, tries : Nat, seen : Nat,
         bid : Nat, ask : Nat, checked : BOOLEAN]

(* HotIsBest is not inductive: it says nothing while somebody copies.  The *)
(* spin lock has one holder, under which the levels do not change, so the  *)
(* side it has copied is the best; and when nobody holds it, the copy is   *)
(* behind the levels only if a writer that changed them has yet to copy.   *)
HotInv ==
    /\ hot \in [BookSides -> Nat] /\ wpc \in [BookWriters -> WriterSteps]
    /\ copying \in BookWriters \cup {NoThread}
    /\ \A w \in BookWriters : wpc[w] \in Copying <=> copying = w
    /\ \A w \in BookWriters :
          /\ wpc[w] \in {"ask", "end", "askOnly", "endOnly"} => hot["bid"] = Best(cold, "bid")
          /\ wpc[w] \in {"end", "endOnly"} => hot["ask"] = Best(cold, "ask")
    /\ Unlocked /\ (\A w \in BookWriters : wpc[w] \notin {"copy", "copyOnly"}) =>
          hot["bid"] = Best(cold, "bid") /\ hot["ask"] = Best(cold, "ask")

LEMMA BestIsNatural == ASSUME NEW c, NEW s \in BookSides PROVE Best(c, s) \in Nat
<1>1. CASE Present(c, s) = {}
  BY <1>1 DEF Best
<1>2. CASE Present(c, s) # {}
  BY <1>2, BestIsBest, LevelsAssumption DEF Present
<1>3. QED
  BY <1>1, <1>2

LEMMA HotInvInit == BookInit => HotInv
<1> SUFFICES ASSUME BookInit PROVE HotInv
  OBVIOUS
<1>1. Best(cold, "bid") = 0 /\ Best(cold, "ask") = 0
  <2>1. \A s \in BookSides : Present(NoLevels, s) = {}
    BY DEF Present, NoLevels
  <2>2. QED
    BY <2>1 DEF BookInit, Best, BookSides
<1>2. QED
  BY <1>1, LevelsAssumption DEF BookInit, HotInv, BookSides, WriterSteps, Copying, NoThread

\* Who begins to change the levels has yet to copy them.
LEMMA CallKeepsHot ==
    ASSUME HotInv, NEW w \in BookWriters, NEW next \in {"copy", "copyOnly"}, BookCall(w, next)
    PROVE  HotInv'
<1>1. /\ hot' = hot /\ copying' = copying /\ copying = NoThread
      /\ wpc' = [wpc EXCEPT ![w] = next] /\ wpc[w] = "idle"
  BY DEF BookCall, Unlocked
<1>2. \A v \in BookWriters : wpc[v] \notin Copying /\ wpc'[v] \notin Copying
  BY <1>1, LevelsAssumption DEF HotInv, Copying, NoThread
<1>3. wpc'[w] \in {"copy", "copyOnly"}
  BY <1>1 DEF HotInv
<1>4. wpc' \in [BookWriters -> WriterSteps]
  BY <1>1 DEF HotInv, WriterSteps
<1>5. QED
  BY <1>1, <1>2, <1>3, <1>4, LevelsAssumption DEF HotInv, Copying, NoThread

LEMMA ClearKeepsHot ==
    ASSUME HotInv, NEW w \in BookWriters, ClearBook(w)
    PROVE  HotInv'
<1>1. /\ hot' = hot /\ copying' = w /\ copying = NoThread
      /\ wpc' = [wpc EXCEPT ![w] = "bidOnly"] /\ wpc[w] = "idle"
  BY DEF ClearBook, Unlocked
<1>2. /\ wpc'[w] = "bidOnly" /\ wpc' \in [BookWriters -> WriterSteps]
      /\ \A v \in BookWriters \ {w} : wpc'[v] \notin Copying
  BY <1>1, LevelsAssumption DEF HotInv, Copying, NoThread, WriterSteps
<1>3. \A v \in BookWriters : wpc'[v] \in Copying <=> copying' = v
  BY <1>1, <1>2 DEF Copying
<1>4. \A v \in BookWriters : wpc'[v] \notin {"ask", "end", "askOnly", "endOnly"}
  BY <1>2 DEF Copying
<1>5. w # NoThread
  BY LevelsAssumption DEF NoThread
<1>6. QED
  BY <1>1, <1>2, <1>3, <1>4, <1>5 DEF HotInv, Unlocked

LEMMA BeginKeepsHot ==
    ASSUME HotInv, NEW w \in BookWriters, BeginHot(w)
    PROVE  HotInv'
<1>1. /\ hot' = hot /\ copying' = w /\ copying = NoThread /\ cold' = cold
      /\ wpc' = [wpc EXCEPT ![w] = IF @ = "copy" THEN "bid" ELSE "bidOnly"]
  BY DEF BeginHot, Unlocked
<1>2. /\ wpc'[w] \in {"bid", "bidOnly"} /\ wpc' \in [BookWriters -> WriterSteps]
      /\ \A v \in BookWriters \ {w} : wpc'[v] \notin Copying
  BY <1>1, LevelsAssumption DEF HotInv, Copying, NoThread, WriterSteps
<1>3. \A v \in BookWriters : wpc'[v] \in Copying <=> copying' = v
  BY <1>1, <1>2 DEF Copying
<1>4. \A v \in BookWriters : wpc'[v] \notin {"ask", "end", "askOnly", "endOnly"}
  BY <1>2 DEF Copying
<1>5. w # NoThread
  BY LevelsAssumption DEF NoThread
<1>6. QED
  BY <1>1, <1>2, <1>3, <1>4, <1>5 DEF HotInv, Unlocked

LEMMA CopyKeepsHot ==
    ASSUME HotInv, NEW w \in BookWriters, CopyBest(w)
    PROVE  HotInv'
<1>1. PICK s \in BookSides, from \in Copying, to \in Copying :
          /\ CopySide(w, s, from, to)
          /\ \/ s = "bid" /\ from \in {"bid", "bidOnly"} /\ to \in {"ask", "askOnly"}
             \/ s = "ask" /\ from \in {"ask", "askOnly"} /\ to \in {"end", "endOnly"}
  BY DEF CopyBest, BookSides, Copying
<1>2. /\ hot' = [hot EXCEPT ![s] = Best(cold, s)] /\ copying' = copying /\ cold' = cold
      /\ wpc' = [wpc EXCEPT ![w] = to] /\ wpc[w] = from
  BY <1>1 DEF CopySide
<1>3. copying = w
  BY <1>2 DEF HotInv
<1>4. /\ wpc'[w] = to /\ wpc' \in [BookWriters -> WriterSteps]
      /\ \A v \in BookWriters \ {w} : wpc'[v] \notin Copying
  BY <1>2, <1>3 DEF HotInv, WriterSteps
<1>5. \A v \in BookWriters : wpc'[v] \in Copying <=> copying' = v
  BY <1>2, <1>3, <1>4
<1>6. hot' \in [BookSides -> Nat]
  BY <1>2, BestIsNatural DEF HotInv
<1>7. /\ to \in {"ask", "end", "askOnly", "endOnly"} => hot'["bid"] = Best(cold, "bid")
      /\ to \in {"end", "endOnly"} => hot'["ask"] = Best(cold, "ask")
  BY <1>1, <1>2 DEF HotInv, BookSides
<1>8. w # NoThread
  BY LevelsAssumption DEF NoThread
<1>9. \A v \in BookWriters \ {w} : wpc'[v] \notin {"ask", "end", "askOnly", "endOnly"}
  BY <1>4 DEF Copying
<1>10. QED
  BY <1>2, <1>3, <1>4, <1>5, <1>6, <1>7, <1>8, <1>9 DEF HotInv, Unlocked

LEMMA EndKeepsHot ==
    ASSUME HotInv, NEW w \in BookWriters, EndHot(w)
    PROVE  HotInv'
<1>1. /\ hot' = hot /\ copying' = NoThread /\ cold' = cold /\ wpc[w] \in {"end", "endOnly"}
      /\ wpc' = [wpc EXCEPT ![w] = IF @ = "end" THEN "trim" ELSE "idle"]
  BY DEF EndHot
<1>2. hot["bid"] = Best(cold, "bid") /\ hot["ask"] = Best(cold, "ask") /\ copying = w
  BY <1>1 DEF HotInv, Copying
<1>3. wpc' \in [BookWriters -> WriterSteps] /\ \A v \in BookWriters : wpc'[v] \notin Copying
  BY <1>1, <1>2 DEF HotInv, WriterSteps, Copying
<1>4. QED
  BY <1>1, <1>2, <1>3, LevelsAssumption DEF HotInv, Copying, NoThread

LEMMA TrimKeepsHot ==
    ASSUME HotInv, NEW w \in BookWriters, TrimDepth(w)
    PROVE  HotInv'
<1>1. /\ hot' = hot /\ copying' = copying /\ copying = NoThread /\ wpc[w] = "trim"
      /\ wpc' = [wpc EXCEPT ![w] = "idle"] /\ cold' = Trimmed(cold)
  BY DEF TrimDepth, Trimmed, Unlocked
<1>2. Best(cold', "bid") = Best(cold, "bid") /\ Best(cold', "ask") = Best(cold, "ask")
  BY <1>1, TrimKeepsBest DEF BookSides
<1>3. wpc' \in [BookWriters -> WriterSteps] /\ \A v \in BookWriters : wpc'[v] \notin Copying
  BY <1>1, LevelsAssumption DEF HotInv, WriterSteps, Copying, NoThread
<1>4. (\A v \in BookWriters : wpc'[v] \notin {"copy", "copyOnly"})
          => \A v \in BookWriters : wpc[v] \notin {"copy", "copyOnly"}
  BY <1>1 DEF HotInv
<1>5. QED
  BY <1>1, <1>2, <1>3, <1>4, LevelsAssumption DEF HotInv, Copying, NoThread, Unlocked

LEMMA HotInvStep == HotInv /\ [BookNext]_bookVars => HotInv'
<1> SUFFICES ASSUME HotInv, [BookNext]_bookVars PROVE HotInv'
  OBVIOUS
<1>1. ASSUME NEW w \in BookWriters, Writer(w)  PROVE HotInv'
  <2>1. ASSUME NEW p \in LevelPrices, NEW q \in {0, 1}, UpdateBidLevel(w, p, q) \/ UpdateAskLevel(w, p, q)
        PROVE  HotInv'
    BY <2>1, CallKeepsHot DEF UpdateBidLevel, UpdateAskLevel
  <2>2. ASSUME NEW snapshot \in Snapshots, RebuildFromSnapshot(w, snapshot)  PROVE HotInv'
    BY <2>2, CallKeepsHot DEF RebuildFromSnapshot
  <2>3. QED
    BY <1>1, <2>1, <2>2, BeginKeepsHot, CopyKeepsHot, EndKeepsHot, TrimKeepsHot, ClearKeepsHot DEF Writer
<1>2. ASSUME NEW r \in BookReaders, Reading(r)  PROVE HotInv'
  <2>1. hot' = hot /\ wpc' = wpc /\ copying' = copying /\ cold' = cold
    BY <1>2 DEF Reading, BeginRead, ReadVersion, ReadBid, ReadAsk, CheckVersion
  <2>2. QED
    BY <2>1 DEF HotInv, Unlocked
<1>3. CASE UNCHANGED bookVars
  BY <1>3 DEF bookVars, HotInv, Unlocked
<1>4. QED
  BY <1>1, <1>2, <1>3 DEF BookNext

\* The copy is the best of the levels whenever no writer is between the two,
\* whatever the writers do: update(), rebuildFromSnapshot() and clear() of
\* any number of threads, with the mutex released between the steps.
THEOREM FirstBookHot == BookSpec => []HotIsBest
<1>1. HotInv => HotIsBest
  BY LevelsAssumption DEF HotInv, HotIsBest, Unlocked, NoThread, Copying, BookSides
<1>2. QED
  BY <1>1, HotInvInit, HotInvStep, PTL DEF BookSpec


-----------------------------------------------------------------------------
(* OrderBook: optimistic readers *)

Publication(n) == publications[n \div 2 + 1]

\* What a reader holds: once it has seen an even version, the sides it has read are
\* of that version as long as it is the present one; after the check for good.
ReaderInv(r) ==
    /\ rd[r] \in Read
    /\ rd[r].checked /\ rd[r].pc \in {"bid", "ask", "check", "done"} =>
          rd[r].seen % 2 = 0 /\ rd[r].seen <= version
    /\ rd[r].checked /\ rd[r].pc \in {"ask", "check"} /\ rd[r].seen = version =>
          rd[r].bid = Publication(version)["bid"]
    /\ rd[r].checked /\ rd[r].pc = "check" /\ rd[r].seen = version =>
          rd[r].ask = Publication(version)["ask"]
    /\ rd[r].checked /\ rd[r].pc = "done" =>
          /\ rd[r].bid = Publication(rd[r].seen)["bid"]
          /\ rd[r].ask = Publication(rd[r].seen)["ask"]
    /\ rd[r].pc = "check" => rd[r].checked

(* The version is odd exactly while the spin lock is held, it counts the   *)
(* publications, and while nobody copies the last of them is the hot data. *)
VersionInv ==
    /\ version \in Nat /\ publications \in Seq([BookSides -> Nat])
    /\ Len(publications) = version \div 2 + 1
    /\ version % 2 = 0 <=> Unlocked
    /\ Unlocked => hot = Publication(version)

ReadersInv == VersionInv /\ rd \in [BookReaders -> Read] /\ \A r \in BookReaders : ReaderInv(r)

LEMMA ReadersInvInit == BookInit => ReadersInv
<1> SUFFICES ASSUME BookInit PROVE ReadersInv
  OBVIOUS
<1>1. hot \in [BookSides -> Nat] /\ publications = <<hot>> /\ version = 0 /\ Unlocked
  BY DEF BookInit, Unlocked
<1>2. VersionInv
  BY <1>1 DEF VersionInv, Publication
<1>3. \A r \in BookReaders : rd[r] = NewRead
  BY DEF BookInit
<1>4. NewRead \in Read
  BY DEF NewRead, Read
<1>5. rd \in [BookReaders -> Read]
  BY <1>4 DEF BookInit
<1>6. NewRead.pc = "idle"
  BY DEF NewRead
<1>7. QED
  BY <1>2, <1>3, <1>4, <1>5, <1>6 DEF ReadersInv, ReaderInv

\* Steps that leave version, publications and readers alone, and the hot data
\* unless it is locked.
LEMMA ReadersUndisturbed ==
    ASSUME ReadersInv, UNCHANGED <<version, rd, publications>>, Unlocked' <=> Unlocked,
           Unlocked => hot' = hot
    PROVE  ReadersInv'
<1>1. VersionInv'
  BY DEF ReadersInv, VersionInv, Publication
<1>2. \A r \in BookReaders : ReaderInv(r)'
  BY DEF ReadersInv, ReaderInv, Publication
<1>3. QED
  BY <1>1, <1>2 DEF ReadersInv

\* The first increment: the version a reader may have seen is past.
LEMMA OddKeepsReaders ==
    ASSUME ReadersInv, Unlocked, ~ Unlocked', version' = version + 1,
           UNCHANGED <<rd, publications>>
    PROVE  ReadersInv'
<1>1. version \in Nat /\ version % 2 = 0
  BY DEF ReadersInv, VersionInv
<1>2. version' \in Nat /\ version' % 2 = 1 /\ version' \div 2 = version \div 2
  BY <1>1
<1>3. VersionInv'
  BY <1>2 DEF ReadersInv, VersionInv
<1>4. ASSUME NEW r \in BookReaders  PROVE ReaderInv(r)'
  <2>1. ReaderInv(r) /\ rd[r].seen \in Nat
    BY DEF ReadersInv, ReaderInv, Read
  <2>2. rd[r].checked /\ rd[r].pc \in {"bid", "ask", "check", "done"} =>
            rd[r].seen <= version' /\ rd[r].seen # version'
    BY <1>1, <1>2, <2>1 DEF ReaderInv
  <2>3. QED
    BY <2>1, <2>2 DEF ReaderInv, Publication
<1>5. QED
  BY <1>3, <1>4 DEF ReadersInv

\* The second: the hot data is published under the next even version.
LEMMA EvenKeepsReaders ==
    ASSUME ReadersInv, ~ Unlocked, Unlocked', version' = version + 1, hot \in [BookSides -> Nat],
           publications' = Append(publications, hot), UNCHANGED <<rd, hot>>
    PROVE  ReadersInv'
<1>1. version \in Nat /\ version % 2 = 1
  BY DEF ReadersInv, VersionInv
<1>2. version' \in Nat /\ version' % 2 = 0 /\ version' \div 2 = version \div 2 + 1
  BY <1>1
<1>3. /\ publications' \in Seq([BookSides -> Nat]) /\ Len(publications') = Len(publications) + 1
      /\ publications'[Len(publications) + 1] = hot
      /\ \A i \in 1 .. Len(publications) : publications'[i] = publications[i]
  BY DEF ReadersInv, VersionInv
<1>4. VersionInv'
  BY <1>1, <1>2, <1>3 DEF ReadersInv, VersionInv, Publication
<1>5. ASSUME NEW r \in BookReaders  PROVE ReaderInv(r)'
  <2>1. ReaderInv(r) /\ rd[r].seen \in Nat
    BY DEF ReadersInv, ReaderInv, Read
  <2>2. rd[r].checked /\ rd[r].pc \in {"bid", "ask", "check", "done"} =>
            /\ rd[r].seen <= version' /\ rd[r].seen # version' /\ rd[r].seen # version
            /\ rd[r].seen \div 2 + 1 \in 1 .. Len(publications)
    <3>1. Len(publications) = version \div 2 + 1
      BY DEF ReadersInv, VersionInv
    <3>2. QED
      BY <1>1, <1>2, <2>1, <3>1, SMTT(60) DEF ReaderInv
  <2>3. rd[r].checked /\ rd[r].pc = "done" => Publication(rd[r].seen)' = Publication(rd[r].seen)
    BY <1>3, <2>2 DEF Publication
  <2>4. QED
    BY <2>1, <2>2, <2>3 DEF ReaderInv
<1>6. QED
  BY <1>4, <1>5 DEF ReadersInv


\* A reader's own step changes that reader only.
LEMMA ReaderMoves ==
    ASSUME ReadersInv, NEW r \in BookReaders, NEW x \in Read, rd' = [rd EXCEPT ![r] = x],
           ReaderInv(r)', UNCHANGED <<hot, version, copying, publications>>
    PROVE  ReadersInv'
<1>1. VersionInv'
  BY DEF ReadersInv, VersionInv, Publication, Unlocked
<1>2. rd' \in [BookReaders -> Read] /\ \A q \in BookReaders \ {r} : rd'[q] = rd[q]
  BY DEF ReadersInv
<1>3. \A q \in BookReaders \ {r} : ReaderInv(q)'
  BY <1>2 DEF ReadersInv, ReaderInv, Publication
<1>4. QED
  BY <1>1, <1>2, <1>3 DEF ReadersInv

LEMMA ReadingKeeps ==
    ASSUME ReadersInv, hot \in [BookSides -> Nat], NEW r \in BookReaders, Reading(r)
    PROVE  ReadersInv'
<1> DEFINE x == rd'[r]
<1>1. /\ rd[r] \in Read /\ ReaderInv(r) /\ version \in Nat /\ UNCHANGED <<hot, version, copying, publications>>
      /\ rd \in [BookReaders -> Read] /\ hot["bid"] \in Nat /\ hot["ask"] \in Nat
  BY DEF ReadersInv, VersionInv, Reading, BeginRead, ReadVersion, ReadBid, ReadAsk, CheckVersion, BookSides
<1>2. version % 2 = 0 => hot = Publication(version)
  BY DEF ReadersInv, VersionInv
<1>3. CASE BeginRead(r)
  <2>1. x = [pc |-> "version", tries |-> 0, seen |-> 0, bid |-> 0, ask |-> 0, checked |-> TRUE]
        /\ rd' = [rd EXCEPT ![r] = x]
    BY <1>1, <1>3 DEF BeginRead, NewRead
  <2>2. x \in Read /\ x.pc = "version"
    BY <2>1 DEF Read
  <2>3. ReaderInv(r)'
    BY <2>2 DEF ReaderInv
  <2>4. QED
    BY <1>1, <2>1, <2>2, <2>3, ReaderMoves
<1>4. CASE ReadVersion(r)
  <2>1. PICK y : /\ y = IF rd[r].tries = ReadTries THEN [rd[r] EXCEPT !.pc = "bid", !.checked = FALSE]
                          ELSE IF version % 2 = 1 THEN [rd[r] EXCEPT !.tries = rd[r].tries + 1]
                          ELSE [rd[r] EXCEPT !.pc = "bid", !.seen = version]
                 /\ rd' = [rd EXCEPT ![r] = y] /\ rd[r].pc = "version"
    BY <1>4 DEF ReadVersion
  <2>2. /\ y \in Read
        /\ \/ y.pc = "version"
           \/ y.pc = "bid" /\ y.checked = FALSE
           \/ y.pc = "bid" /\ y.seen = version /\ version % 2 = 0
    <3>1. CASE rd[r].tries = ReadTries
      BY <1>1, <2>1, <3>1 DEF Read
    <3>2. CASE rd[r].tries # ReadTries /\ version % 2 = 1
      <4>1. rd[r].tries + 1 \in Nat /\ y = [rd[r] EXCEPT !.tries = rd[r].tries + 1]
        BY <1>1, <2>1, <3>2 DEF Read
      <4>2. y \in Read
        BY <1>1, <4>1 DEF Read
      <4>3. y.pc = "version"
        BY <1>1, <2>1, <4>1 DEF Read
      <4>4. QED
        BY <4>2, <4>3
    <3>3. CASE rd[r].tries # ReadTries /\ version % 2 # 1
      <4>1. rd[r].tries + 1 \in Nat /\ y = [rd[r] EXCEPT !.pc = "bid", !.seen = version]
        BY <1>1, <2>1, <3>3 DEF Read
      <4>2. y \in Read
        BY <1>1, <4>1 DEF Read
      <4>3. QED
        BY <1>1, <2>1, <3>3, <4>1, <4>2 DEF Read
    <3>4. QED
      BY <3>1, <3>2, <3>3
  <2>3. x = y
    BY <1>1, <2>1
  <2>4. ReaderInv(r)'
    BY <1>1, <2>2, <2>3 DEF ReaderInv
  <2>5. QED
    BY <1>1, <2>1, <2>2, <2>4, ReaderMoves
<1>5. CASE ReadBid(r)
  <2>1. /\ x = [rd[r] EXCEPT !.bid = hot["bid"], !.pc = "ask"]
        /\ rd' = [rd EXCEPT ![r] = x] /\ rd[r].pc = "bid"
    BY <1>1, <1>5 DEF ReadBid, Read
  <2>2. x \in Read
    BY <1>1, <2>1 DEF Read
  <2>3. x.pc = "ask" /\ x.bid = hot["bid"] /\ x.seen = rd[r].seen /\ x.checked = rd[r].checked
    BY <1>1, <2>1 DEF Read
  <2>4. ReaderInv(r)'
    BY <1>1, <1>2, <2>1, <2>2, <2>3 DEF ReaderInv, Publication
  <2>5. QED
    BY <1>1, <2>1, <2>2, <2>4, ReaderMoves
<1>6. CASE ReadAsk(r)
  <2>1. /\ x = [rd[r] EXCEPT !.ask = hot["ask"], !.pc = IF rd[r].checked THEN "check" ELSE "done"]
        /\ rd' = [rd EXCEPT ![r] = x] /\ rd[r].pc = "ask"
    BY <1>1, <1>6 DEF ReadAsk, Read
  <2>2. x \in Read
    BY <1>1, <2>1 DEF Read
  <2>3. /\ x.pc = (IF rd[r].checked THEN "check" ELSE "done") /\ x.ask = hot["ask"]
        /\ x.bid = rd[r].bid /\ x.seen = rd[r].seen /\ x.checked = rd[r].checked
    BY <1>1, <2>1 DEF Read
  <2>4. ReaderInv(r)'
    BY <1>1, <1>2, <2>1, <2>2, <2>3 DEF ReaderInv, Publication
  <2>5. QED
    BY <1>1, <2>1, <2>2, <2>4, ReaderMoves
<1>7. CASE CheckVersion(r)
  <2>1. PICK y : /\ y = IF version = rd[r].seen THEN [rd[r] EXCEPT !.pc = "done"]
                          ELSE [rd[r] EXCEPT !.pc = "version", !.tries = rd[r].tries + 1]
                 /\ rd' = [rd EXCEPT ![r] = y] /\ rd[r].pc = "check"
    BY <1>7 DEF CheckVersion
  <2>2. /\ y \in Read
        /\ y.bid = rd[r].bid /\ y.ask = rd[r].ask /\ y.seen = rd[r].seen /\ y.checked = rd[r].checked
        /\ y.pc = IF version = rd[r].seen THEN "done" ELSE "version"
    <3>1. CASE version = rd[r].seen
      BY <1>1, <2>1, <3>1 DEF Read
    <3>2. CASE version # rd[r].seen
      <4>1. rd[r].tries + 1 \in Nat /\ y = [rd[r] EXCEPT !.pc = "version", !.tries = rd[r].tries + 1]
        BY <1>1, <2>1, <3>2 DEF Read
      <4>2. y \in Read
        BY <1>1, <4>1 DEF Read
      <4>3. QED
        BY <1>1, <2>1, <3>2, <4>1, <4>2 DEF Read
    <3>3. QED
      BY <3>1, <3>2
  <2>3. x = y
    BY <1>1, <2>1
  <2>4. ReaderInv(r)'
    BY <1>1, <2>1, <2>2, <2>3 DEF ReaderInv, Publication
  <2>5. QED
    BY <1>1, <2>1, <2>2, <2>4, ReaderMoves
<1>8. QED
  BY <1>3, <1>4, <1>5, <1>6, <1>7 DEF Reading

LEMMA ReadersInvStep == HotInv /\ ReadersInv /\ [BookNext]_bookVars => ReadersInv'
<1> SUFFICES ASSUME HotInv, ReadersInv, [BookNext]_bookVars PROVE ReadersInv'
  OBVIOUS
<1>1. ASSUME NEW w \in BookWriters, Writer(w)  PROVE ReadersInv'
  <2>1. w # NoThread
    BY LevelsAssumption DEF NoThread
  <2>2. ASSUME NEW next, BookCall(w, next)  PROVE ReadersInv'
    BY <2>2, ReadersUndisturbed DEF BookCall, Unlocked
  <2>3. CASE BeginHot(w)
    BY <2>1, <2>3, OddKeepsReaders DEF BeginHot, Unlocked
  <2>4. CASE CopyBest(w)
    <3>1. UNCHANGED <<version, rd, publications, copying>> /\ wpc[w] \in Copying
      BY <2>4 DEF CopyBest, CopySide, Copying
    <3>2. ~ Unlocked
      BY <2>1, <3>1 DEF HotInv, Unlocked
    <3>3. QED
      BY <3>1, <3>2, ReadersUndisturbed DEF Unlocked
  <2>5. CASE EndHot(w)
    <3>1. ~ Unlocked
      BY <2>1, <2>5 DEF HotInv, Unlocked, EndHot, Copying
    <3>2. QED
      BY <2>5, <3>1, EvenKeepsReaders DEF EndHot, Unlocked, HotInv
  <2>6. CASE TrimDepth(w)
    BY <2>6, ReadersUndisturbed DEF TrimDepth, Unlocked
  <2>7. CASE ClearBook(w)
    BY <2>1, <2>7, OddKeepsReaders DEF ClearBook, Unlocked
  <2>8. QED
    BY <1>1, <2>2, <2>3, <2>4, <2>5, <2>6, <2>7
       DEF Writer, UpdateBidLevel, UpdateAskLevel, RebuildFromSnapshot
<1>2. ASSUME NEW r \in BookReaders, Reading(r)  PROVE ReadersInv'
  BY <1>2, ReadingKeeps DEF HotInv
<1>3. CASE UNCHANGED bookVars
  BY <1>3, ReadersUndisturbed DEF bookVars, Unlocked
<1>4. QED
  BY <1>1, <1>2, <1>3 DEF BookNext

\* A read that readHotDataOptimistic let through is of one publication, with any
\* number of writers and readers and every number of retries.
THEOREM FirstBookReads == BookSpec => []BookReadsAgree
<1>1. ReadersInv => BookReadsAgree
  BY DEF ReadersInv, ReaderInv, BookReadsAgree, Publication
<1>2. QED
  BY <1>1, HotInvInit, HotInvStep, ReadersInvInit, ReadersInvStep, PTL DEF BookSpec


-----------------------------------------------------------------------------
(* ZMQBridge *)

LEMMA RangeOfAppend ==
    ASSUME NEW S, NEW s \in Seq(S), NEW x \in S
    PROVE  Range(Append(s, x)) = Range(s) \cup {x}
<1>1. /\ DOMAIN Append(s, x) = 1 .. Len(s) + 1 /\ Len(s) \in Nat /\ DOMAIN s = 1 .. Len(s)
      /\ \A i \in 1 .. Len(s) : Append(s, x)[i] = s[i]
      /\ Append(s, x)[Len(s) + 1] = x
  OBVIOUS
<1>2. 1 .. Len(s) + 1 = 1 .. Len(s) \cup {Len(s) + 1}
  BY <1>1
<1> DEFINE t == Append(s, x)  n == Len(s)
<1> HIDE DEF t, n
<1>3. DOMAIN t = DOMAIN s \cup {n + 1} /\ (\A i \in DOMAIN s : t[i] = s[i]) /\ t[n + 1] = x
  BY <1>1, <1>2 DEF t, n
<1>4. Range(t) = Range(s) \cup {x}
  BY <1>3, ZenonT(60) DEF Range
<1>5. QED
  BY <1>4 DEF t

LEMMA RangeOfTail ==
    ASSUME NEW S, NEW s \in Seq(S), s # <<>>
    PROVE  Range(s) = {Head(s)} \cup Range(Tail(s)) /\ Head(s) \in S /\ Tail(s) \in Seq(S)
<1>1. /\ Len(s) \in Nat \ {0} /\ DOMAIN s = 1 .. Len(s) /\ Head(s) = s[1] /\ Tail(s) \in Seq(S)
      /\ Len(Tail(s)) = Len(s) - 1 /\ DOMAIN Tail(s) = 1 .. Len(s) - 1
      /\ \A i \in 1 .. Len(s) - 1 : Tail(s)[i] = s[i + 1]
  OBVIOUS
<1>2. Head(s) \in S
  BY <1>1
<1> DEFINE t == Tail(s)  n == Len(s)
<1> HIDE DEF t, n
<1>3. \A x : x \in Range(s) => x = s[1] \/ x \in Range(t)
  <2> SUFFICES ASSUME NEW i \in 1 .. n, i # 1 PROVE s[i] \in Range(t)
    BY <1>1 DEF Range, n
  <2>1. i - 1 \in DOMAIN t /\ t[i - 1] = s[i]
    BY <1>1 DEF n, t
  <2>2. QED
    BY <2>1 DEF Range
<1>4. \A x : x = s[1] \/ x \in Range(t) => x \in Range(s)
  <2>1. s[1] \in Range(s)
    <3>1. 1 \in DOMAIN s
      BY <1>1
    <3>2. QED
      BY <3>1 DEF Range
  <2>2. ASSUME NEW i \in DOMAIN t  PROVE t[i] \in Range(s)
    <3>1. i + 1 \in DOMAIN s /\ t[i] = s[i + 1]
      BY <1>1 DEF t, n
    <3>2. QED
      BY <3>1 DEF Range
  <2>3. QED
    BY <2>1, <2>2 DEF Range
<1>5. QED
  BY <1>1, <1>2, <1>3, <1>4 DEF t

Increasing(s) == \A i, j \in DOMAIN s : i < j => s[i] < s[j]

LEMMA IncreasingAppend ==
    ASSUME NEW s \in Seq(Nat), NEW x \in Nat, Increasing(s), \A y \in Range(s) : y < x
    PROVE  Increasing(Append(s, x))
<1>1. /\ DOMAIN Append(s, x) = 1 .. Len(s) + 1 /\ Len(s) \in Nat /\ DOMAIN s = 1 .. Len(s)
      /\ \A i \in 1 .. Len(s) : Append(s, x)[i] = s[i]
      /\ Append(s, x)[Len(s) + 1] = x
  OBVIOUS
<1>2. \A i \in DOMAIN s : s[i] < x
  BY DEF Range
<1>3. ASSUME NEW i \in 1 .. Len(s) + 1, NEW j \in 1 .. Len(s) + 1, i < j
      PROVE  Append(s, x)[i] < Append(s, x)[j]
  <2>1. i \in 1 .. Len(s)
    BY <1>1, <1>3
  <2>2. CASE j = Len(s) + 1
    BY <1>1, <1>2, <2>1, <2>2
  <2>3. CASE j # Len(s) + 1
    <3>1. j \in 1 .. Len(s)
      BY <1>1, <2>3
    <3>2. QED
      BY <1>1, <1>3, <2>1, <3>1 DEF Increasing
  <2>4. QED
    BY <2>2, <2>3
<1>4. QED
  BY <1>1, <1>3 DEF Increasing

LEMMA IncreasingTail ==
    ASSUME NEW s \in Seq(Nat), Increasing(s), s # <<>>
    PROVE  Increasing(Tail(s)) /\ \A y \in Range(Tail(s)) : Head(s) < y
<1>1. /\ Len(s) \in Nat \ {0} /\ DOMAIN s = 1 .. Len(s) /\ Head(s) = s[1]
      /\ DOMAIN Tail(s) = 1 .. Len(s) - 1
      /\ \A i \in 1 .. Len(s) - 1 : Tail(s)[i] = s[i + 1]
  OBVIOUS
<1>2. \A i \in DOMAIN Tail(s) : Head(s) < Tail(s)[i]
  <2> TAKE i \in DOMAIN Tail(s)
  <2>1. 1 \in DOMAIN s /\ i + 1 \in DOMAIN s /\ 1 < i + 1 /\ Tail(s)[i] = s[i + 1]
    BY <1>1
  <2>2. QED
    BY <1>1, <2>1 DEF Increasing
<1>3. ASSUME NEW i \in DOMAIN Tail(s), NEW j \in DOMAIN Tail(s), i < j  PROVE Tail(s)[i] < Tail(s)[j]
  <2>1. /\ i + 1 \in DOMAIN s /\ j + 1 \in DOMAIN s /\ i + 1 < j + 1
        /\ Tail(s)[i] = s[i + 1] /\ Tail(s)[j] = s[j + 1]
    BY <1>1, <1>3
  <2>2. QED
    BY <2>1 DEF Increasing
<1>4. QED
  BY <1>2, <1>3 DEF Increasing, Range


Waiting == Range(events) \cup (IF ev = 0 THEN {} ELSE {ev})
Gone == failed \cup discarded

\* Where the thread can be: it runs from initialize() to the join in stop(),
\* and holds an event only while it sends one.
SenderInv ==
    /\ sender \in {"none", "check", "drain", "send", "exited"}
    /\ ev \in Nat /\ (ev # 0 <=> sender = "send")
    /\ bridgeRunning => ~ stopping /\ sender \in {"check", "drain", "send"}
    /\ stopping => sender # "none"
    /\ ~ bridgeRunning /\ ~ stopping => sender = "none"

\* BridgeAccounts is inductive with the order of the queue: its events are increasing,
\* and the one being sent is before them.
PlacesInv ==
    /\ events \in Seq(Nat) /\ sent \in Seq(Nat) /\ eventsTaken \in Nat
    /\ Increasing(events) /\ \A e \in Range(events) : ev < e
    /\ 1 .. eventsTaken = Range(sent) \cup Waiting \cup Gone
    /\ Increasing(sent)
    /\ \A e \in Waiting : \A d \in Range(sent) \cup Gone : d < e
    /\ published = Len(sent)
    /\ published + Cardinality(Gone \cup Waiting) = eventsTaken

CountersInv ==
    /\ offered \in Nat /\ dropped \in Nat
    /\ ~ bridgeDead => offered = eventsTaken + dropped

BridgeInv == SenderInv /\ PlacesInv /\ CountersInv

LEMMA BridgeInvInit == BridgeInit => BridgeInv
<1> SUFFICES ASSUME BridgeInit PROVE BridgeInv
  OBVIOUS
<1>1. SenderInv
  BY DEF BridgeInit, SenderInv
<1>2. Range(events) = {} /\ Range(sent) = {} /\ Waiting = {} /\ Gone = {}
  BY DEF BridgeInit, Waiting, Gone, Range
<1>3. PlacesInv
  BY <1>2, FS_EmptySet DEF BridgeInit, PlacesInv, Increasing
<1>4. CountersInv
  BY DEF BridgeInit, CountersInv
<1>5. QED
  BY <1>1, <1>3, <1>4 DEF BridgeInv

LEMMA SenderInvStep ==
    ASSUME BridgeInv, BridgeNext
    PROVE  SenderInv'
<1>1. SenderInv
  BY DEF BridgeInv
<1>2. CASE InitializeBridge
  BY <1>1, <1>2 DEF InitializeBridge, SenderInv
<1>3. CASE StopBridge
  BY <1>1, <1>3 DEF StopBridge, SenderInv
<1>4. CASE JoinSender
  BY <1>1, <1>4 DEF JoinSender, SenderInv
<1>5. CASE Publish
  BY <1>1, <1>5 DEF Publish, SenderInv
<1>6. CASE CheckRunning
  BY <1>1, <1>6 DEF CheckRunning, SenderInv
<1>7. CASE PopEvent
  <2>1. events # <<>> => Head(events) \in Nat \ {0}
    <3>1. events # <<>> => Head(events) \in Nat /\ Head(events) \in Range(events)
      BY RangeOfTail DEF BridgeInv, PlacesInv
    <3>2. ev \in Nat /\ \A e \in Range(events) : ev < e
      BY DEF BridgeInv, PlacesInv, SenderInv
    <3>3. QED
      BY <3>1, <3>2
  <2>2. QED
    BY <1>1, <1>7, <2>1 DEF PopEvent, SenderInv
<1>8. CASE SendMessage
  BY <1>1, <1>8 DEF SendMessage, SenderInv
<1>9. QED
  BY <1>2, <1>3, <1>4, <1>5, <1>6, <1>7, <1>8 DEF BridgeNext

LEMMA CountersInvStep ==
    ASSUME BridgeInv, BridgeNext
    PROVE  CountersInv'
<1>1. CountersInv /\ eventsTaken \in Nat
  BY DEF BridgeInv, PlacesInv
<1>2. CASE Publish
  <2>1. CASE exists
    <3>1. \/ eventsTaken' = eventsTaken + 1 /\ dropped' = dropped
          \/ dropped' = dropped + 1 /\ eventsTaken' = eventsTaken
      BY <1>2, <2>1 DEF Publish
    <3>2. offered' = offered + 1 /\ ~ bridgeDead
      BY <1>2 DEF Publish, BridgeNext
    <3>3. offered = eventsTaken + dropped
      BY <1>1, <3>2 DEF CountersInv
    <3>4. QED
      BY <1>1, <3>1, <3>2, <3>3 DEF CountersInv
  <2>2. CASE ~ exists
    <3>1. bridgeDead' /\ dropped' = dropped /\ offered' = offered + 1
      BY <1>2, <2>2 DEF Publish
    <3>2. QED
      BY <1>1, <3>1 DEF CountersInv
  <2>3. QED
    BY <2>1, <2>2
<1>3. CASE UNCHANGED <<offered, dropped, eventsTaken, bridgeDead>>
  BY <1>1, <1>3 DEF CountersInv
<1>4. QED
  BY <1>2, <1>3 DEF BridgeNext, InitializeBridge, StopBridge, JoinSender, CheckRunning, PopEvent, SendMessage


LEMMA FiniteUpTo ==
    ASSUME NEW n \in Nat, NEW S \in SUBSET (1 .. n)
    PROVE  IsFiniteSet(S) /\ Cardinality(S) \in Nat
<1>1. IsFiniteSet(1 .. n)
  BY FS_Interval
<1>2. IsFiniteSet(S)
  BY <1>1, FS_Subset
<1>3. QED
  BY <1>2, FS_CardinalityType

\* initialize() and stop() destroy the queue when nobody sends.
LEMMA DiscardKeepsPlaces ==
    ASSUME PlacesInv, ev = 0, events' = <<>>, discarded' = discarded \cup Range(events),
           UNCHANGED <<ev, sent, published, eventsTaken, failed>>
    PROVE  PlacesInv'
<1>1. Waiting = Range(events) /\ Waiting' = {} /\ Gone' = Gone \cup Waiting /\ Range(events)' = {}
  BY DEF Waiting, Gone, Range
<1>2. Gone' \cup Waiting' = Gone \cup Waiting
  BY <1>1
<1>3. Increasing(<<>>) /\ <<>> \in Seq(Nat)
  BY DEF Increasing
<1>4. QED
  BY <1>1, <1>2, <1>3 DEF PlacesInv

LEMMA PublishKeepsPlaces ==
    ASSUME PlacesInv, SenderInv, events' = Append(events, eventsTaken + 1), eventsTaken' = eventsTaken + 1,
           UNCHANGED <<ev, sent, published, failed, discarded>>
    PROVE  PlacesInv'
<1> DEFINE x == eventsTaken + 1
<1>1. /\ x \in Nat /\ eventsTaken \in Nat /\ events \in Seq(Nat) /\ ev \in Nat
      /\ 1 .. eventsTaken = Range(sent) \cup Waiting \cup Gone
  BY DEF PlacesInv, SenderInv
<1>2. Range(events') = Range(events) \cup {x} /\ events' \in Seq(Nat)
  BY <1>1, RangeOfAppend
<1>3. Waiting' = Waiting \cup {x} /\ Gone' = Gone
  BY <1>2 DEF Waiting, Gone
<1>4. 1 .. eventsTaken' = 1 .. eventsTaken \cup {x} /\ \A y \in 1 .. eventsTaken : y < x
  BY <1>1
<1> HIDE DEF x
<1>5. \A y \in Range(sent) \cup Waiting \cup Gone : y < x
  BY <1>1, <1>4
<1>6. ev < x
  <2>1. CASE ev = 0
    BY <2>1 DEF x, PlacesInv
  <2>2. CASE ev # 0
    BY <1>5, <2>2 DEF Waiting
  <2>3. QED
    BY <2>1, <2>2
<1>7. Increasing(events') /\ \A e \in Range(events') : ev < e
  <2>1. \A y \in Range(events) : y < x
    BY <1>5 DEF Waiting
  <2>2. Increasing(events')
    BY <1>1, <2>1, IncreasingAppend DEF PlacesInv, x
  <2>3. QED
    BY <1>2, <1>6, <2>2 DEF PlacesInv
<1>8. \A e \in Waiting' : \A d \in Range(sent) \cup Gone' : d < e
  BY <1>3, <1>5 DEF PlacesInv
<1>9. Cardinality(Gone' \cup Waiting') = Cardinality(Gone \cup Waiting) + 1
  <2>1. Gone \cup Waiting \in SUBSET (1 .. eventsTaken)
    BY <1>1
  <2>2. IsFiniteSet(Gone \cup Waiting)
    BY <1>1, <2>1, FiniteUpTo
  <2>3. x \notin Gone \cup Waiting
    BY <1>1, <1>5
  <2>4. Gone' \cup Waiting' = (Gone \cup Waiting) \cup {x}
    BY <1>3
  <2>5. QED
    BY <2>2, <2>3, <2>4, FS_AddElement
<1>10. published' + Cardinality(Gone' \cup Waiting') = eventsTaken'
  <2>1. Gone \cup Waiting \in SUBSET (1 .. eventsTaken)
    BY <1>1
  <2>2. Cardinality(Gone \cup Waiting) \in Nat
    BY <1>1, <2>1, FiniteUpTo
  <2>3. published \in Nat /\ published + Cardinality(Gone \cup Waiting) = eventsTaken
    <3>1. Len(sent) \in Nat
      BY DEF PlacesInv
    <3>2. QED
      BY <3>1 DEF PlacesInv
  <2>4. QED
    BY <1>9, <2>2, <2>3
<1>11. 1 .. eventsTaken' = Range(sent') \cup Waiting' \cup Gone'
  BY <1>1, <1>3, <1>4
<1>12. QED
  BY <1>1, <1>2, <1>7, <1>8, <1>10, <1>11 DEF PlacesInv, x

LEMMA PopKeepsPlaces ==
    ASSUME PlacesInv, ev = 0, events # <<>>, ev' = Head(events), events' = Tail(events),
           UNCHANGED <<sent, published, eventsTaken, failed, discarded>>
    PROVE  PlacesInv'
<1>1. Range(events) = {Head(events)} \cup Range(Tail(events)) /\ Head(events) \in Nat /\ Tail(events) \in Seq(Nat)
  BY RangeOfTail DEF PlacesInv
<1>2. ev' # 0
  <2>1. ev < Head(events)
    BY <1>1 DEF PlacesInv
  <2>2. QED
    BY <1>1, <2>1
<1>3. Waiting' = Waiting /\ Gone' = Gone
  BY <1>1, <1>2 DEF Waiting, Gone
<1>4. Increasing(events') /\ \A e \in Range(events') : ev' < e
  BY IncreasingTail DEF PlacesInv
<1>5. QED
  BY <1>1, <1>3, <1>4 DEF PlacesInv

LEMMA SendKeepsPlaces ==
    ASSUME PlacesInv, ev \in Nat \ {0}, ev' = 0, sent' = Append(sent, ev), published' = published + 1,
           UNCHANGED <<events, eventsTaken, failed, discarded>>
    PROVE  PlacesInv'
<1>1. Waiting = Range(events) \cup {ev} /\ Waiting' = Range(events) /\ Gone' = Gone
  BY DEF Waiting, Gone
<1>2. sent \in Seq(Nat) /\ eventsTaken \in Nat /\ \A e \in Range(events) : ev < e
  BY DEF PlacesInv
<1>3. Range(sent') = Range(sent) \cup {ev} /\ sent' \in Seq(Nat) /\ Len(sent') = Len(sent) + 1
  BY <1>2, RangeOfAppend
<1>4. \A d \in Range(sent) \cup Gone : d < ev
  BY <1>1 DEF PlacesInv
<1>5. Increasing(sent')
  BY <1>2, <1>4, IncreasingAppend DEF PlacesInv
<1>6. ev \notin Range(events) /\ ev \notin Gone
  BY <1>2, <1>4
<1>7. IsFiniteSet(Gone \cup Waiting) /\ Cardinality(Gone \cup Waiting) \in Nat
  <2>1. Gone \cup Waiting \in SUBSET (1 .. eventsTaken)
    BY DEF PlacesInv
  <2>2. QED
    BY <1>2, <2>1, FiniteUpTo
<1>8. Cardinality(Gone' \cup Waiting') = Cardinality(Gone \cup Waiting) - 1
  <2>1. Gone' \cup Waiting' = (Gone \cup Waiting) \ {ev} /\ ev \in Gone \cup Waiting
    BY <1>1, <1>6
  <2>2. QED
    BY <1>7, <2>1, FS_RemoveElement, Zenon
<1>9. published' + Cardinality(Gone' \cup Waiting') = eventsTaken'
  <2>1. published \in Nat /\ published + Cardinality(Gone \cup Waiting) = eventsTaken
    BY <1>2 DEF PlacesInv
  <2>2. QED
    BY <1>7, <1>8, <2>1
<1>10. 1 .. eventsTaken' = Range(sent') \cup Waiting' \cup Gone'
  BY <1>1, <1>3 DEF PlacesInv
<1>11. \A e \in Waiting' : \A d \in Range(sent') \cup Gone' : d < e
  BY <1>1, <1>2, <1>3 DEF PlacesInv
<1>12. \A e \in Range(events) : 0 < e
  <2>1. \A e \in Range(events) : e \in Nat
    BY DEF PlacesInv, Range
  <2>2. QED
    BY <1>2, <2>1
<1>13. published' = Len(sent')
  BY <1>3 DEF PlacesInv
<1>14. QED
  BY <1>3, <1>5, <1>9, <1>10, <1>11, <1>12, <1>13 DEF PlacesInv

LEMMA FailKeepsPlaces ==
    ASSUME PlacesInv, ev \in Nat \ {0}, ev' = 0, failed' = failed \cup {ev},
           UNCHANGED <<events, eventsTaken, sent, published, discarded>>
    PROVE  PlacesInv'
<1>1. Waiting = Range(events) \cup {ev} /\ Waiting' = Range(events) /\ Gone' = Gone \cup {ev}
  BY DEF Waiting, Gone
<1>2. \A e \in Range(events) : ev < e
  BY DEF PlacesInv
<1>3. Gone' \cup Waiting' = Gone \cup Waiting
  BY <1>1
<1>4. 1 .. eventsTaken' = Range(sent') \cup Waiting' \cup Gone'
  BY <1>1 DEF PlacesInv
<1>5. \A e \in Waiting' : \A d \in Range(sent') \cup Gone' : d < e
  BY <1>1, <1>2 DEF PlacesInv
<1>6. \A e \in Range(events) : e \in Nat
  BY DEF PlacesInv, Range
<1>7. \A e \in Range(events) : 0 < e
  BY <1>2, <1>6
<1>8. QED
  BY <1>3, <1>4, <1>5, <1>7 DEF PlacesInv

LEMMA PlacesInvStep ==
    ASSUME BridgeInv, BridgeNext
    PROVE  PlacesInv'
<1>1. SenderInv /\ PlacesInv
  BY DEF BridgeInv
<1>2. CASE InitializeBridge
  <2>1. ev = 0
    BY <1>1, <1>2 DEF SenderInv, InitializeBridge
  <2>2. QED
    BY <1>1, <1>2, <2>1, DiscardKeepsPlaces DEF InitializeBridge
<1>3. CASE JoinSender
  <2>1. ev = 0
    BY <1>1, <1>3 DEF SenderInv, JoinSender
  <2>2. QED
    BY <1>1, <1>3, <2>1, DiscardKeepsPlaces DEF JoinSender
<1>4. CASE UNCHANGED <<events, ev, sent, published, eventsTaken, failed, discarded>>
  BY <1>1, <1>4 DEF PlacesInv, Waiting, Gone
<1>5. CASE Publish
  BY <1>1, <1>4, <1>5, PublishKeepsPlaces DEF Publish
<1>6. CASE PopEvent
  <2>1. ev = 0
    BY <1>1, <1>6 DEF SenderInv, PopEvent
  <2>2. QED
    BY <1>1, <1>4, <1>6, <2>1, PopKeepsPlaces DEF PopEvent
<1>7. CASE SendMessage
  <2>1. ev \in Nat \ {0}
    BY <1>1, <1>7 DEF SenderInv, SendMessage
  <2>2. QED
    BY <1>1, <1>7, <2>1, SendKeepsPlaces, FailKeepsPlaces DEF SendMessage
<1>8. QED
  BY <1>2, <1>3, <1>4, <1>5, <1>6, <1>7 DEF BridgeNext, StopBridge, CheckRunning

LEMMA BridgeInvStep == BridgeInv /\ [BridgeNext]_bridgeVars => BridgeInv'
<1>1. ASSUME BridgeInv, BridgeNext PROVE BridgeInv'
  BY <1>1, SenderInvStep, PlacesInvStep, CountersInvStep DEF BridgeInv
<1>2. ASSUME BridgeInv, UNCHANGED bridgeVars PROVE BridgeInv'
  BY <1>2 DEF BridgeInv, SenderInv, PlacesInv, CountersInv, Waiting, Gone, bridgeVars
<1>3. QED
  BY <1>1, <1>2

\* Every event the bridge accepted is in one place and sent at most once and in
\* order, and the counters are exact, for every capacity and across any number of
\* restarts: publish, run and stop() of ZMQBridge.
THEOREM BridgeIsExact == BridgeSpec => []BridgeAccounts
<1>1. BridgeInv => BridgeAccounts
  <2> SUFFICES ASSUME BridgeInv PROVE BridgeAccounts
    OBVIOUS
  <2>1. failed \cup discarded \cup Waiting = Gone \cup Waiting
    BY DEF Gone
  <2>2. ~ bridgeRunning /\ ~ stopping => sender = "none"
    BY DEF BridgeInv, SenderInv
  <2>3. ~ bridgeDead => offered = eventsTaken + dropped
    BY DEF BridgeInv, CountersInv
  <2>4. /\ 1 .. eventsTaken = Range(sent) \cup Waiting \cup failed \cup discarded
        /\ \A i, j \in DOMAIN sent : i < j => sent[i] < sent[j]
        /\ \A e \in Waiting : \A d \in Range(sent) \cup failed \cup discarded : d < e
    BY DEF BridgeInv, PlacesInv, Increasing, Gone
  <2>5. published = Len(sent) /\ published + Cardinality(failed \cup discarded \cup Waiting) = eventsTaken
    BY <2>1 DEF BridgeInv, PlacesInv
  <2>6. QED
    BY <2>2, <2>3, <2>4, <2>5 DEF BridgeAccounts, Waiting
<1>2. QED
  BY <1>1, BridgeInvInit, BridgeInvStep, PTL DEF BridgeSpec

-----------------------------------------------------------------------------
(* ErrorHandler *)

\* The history and its ghost: while no error has met a full history they are equal,
\* and the next entry is the first or behind the last.
HistoryInv ==
    /\ history \in Seq(Nat) /\ log \in Seq(Nat) /\ writeIndex \in Nat /\ maxHistory \in Nat \ {0}
    /\ Len(history) <= maxHistory /\ Len(history) <= Len(log)
    /\ Len(log) = Len(history) => log = history /\ writeIndex \in {0, Len(history)}

LEMMA ReportKeepsHistory ==
    ASSUME HistoryInv, NEW e \in Nat, AddToHistory(e), log' = Append(log, e), maxHistory' = maxHistory
    PROVE  HistoryInv'
<1>1. /\ Len(history) \in Nat /\ Len(log) \in Nat /\ log' \in Seq(Nat) /\ Len(log') = Len(log) + 1
      /\ history \in Seq(Nat) /\ log \in Seq(Nat) /\ maxHistory \in Nat \ {0} /\ writeIndex \in Nat
      /\ Len(history) <= maxHistory /\ Len(history) <= Len(log)
  BY DEF HistoryInv
<1>2. CASE Len(history) < maxHistory
  <2>1. history' = Append(history, e) /\ writeIndex' = Len(history) + 1
    BY <1>2 DEF AddToHistory
  <2>2. history' \in Seq(Nat) /\ Len(history') = Len(history) + 1
    BY <1>1, <2>1
  <2>3. Len(log') = Len(history') => log' = history'
    <3>1. Len(log') = Len(history') => Len(log) = Len(history)
      BY <1>1, <2>2
    <3>2. Len(log) = Len(history) => log = history
      BY DEF HistoryInv
    <3>3. QED
      BY <2>1, <3>1, <3>2
  <2>4. writeIndex' = Len(history') /\ writeIndex' \in Nat /\ Len(history') <= maxHistory
        /\ Len(history') <= Len(log')
    BY <1>1, <1>2, <2>1, <2>2
  <2>5. QED
    BY <1>1, <2>2, <2>3, <2>4 DEF HistoryInv
<1>3. CASE ~ (Len(history) < maxHistory)
  <2>1. /\ history' = IF writeIndex >= Len(history) THEN history ELSE [history EXCEPT ![writeIndex + 1] = e]
        /\ writeIndex' = (writeIndex + 1) % maxHistory
    BY <1>3 DEF AddToHistory
  <2>2. history' \in Seq(Nat) /\ Len(history') = Len(history)
    BY <1>1, <2>1
  <2>3. writeIndex' \in Nat
    BY <1>1, <2>1
  <2>4. Len(history') <= Len(log') /\ Len(history') # Len(log')
    BY <1>1, <2>2
  <2>5. QED
    BY <1>1, <2>2, <2>3, <2>4 DEF HistoryInv
<1>4. QED
  BY <1>2, <1>3

LEMMA ResizeKeepsHistory ==
    ASSUME HistoryInv, NEW n \in HistorySizes, SetMaxHistorySize(n)
    PROVE  HistoryInv'
<1>1. n \in Nat \ {0} /\ maxHistory' = n
  BY ErrorAssumption DEF SetMaxHistorySize
<1>2. CASE Len(history) > n
  <2>1. history' = SubSeq(history, 1, n) /\ writeIndex' = 0 /\ log' = SubSeq(history, 1, n)
    BY <1>2 DEF SetMaxHistorySize
  <2>2. history' \in Seq(Nat) /\ Len(history') = n /\ log' = history'
    BY <1>1, <1>2, <2>1 DEF HistoryInv
  <2>3. QED
    BY <1>1, <2>1, <2>2 DEF HistoryInv
<1>3. CASE ~ (Len(history) > n)
  <2>1. UNCHANGED <<history, writeIndex, log>>
    BY <1>3 DEF SetMaxHistorySize
  <2>2. QED
    BY <1>1, <1>3, <2>1 DEF HistoryInv
<1>4. QED
  BY <1>2, <1>3

\* What getRecentErrors finds behind the write index.
LEMMA RecentAreLatest ==
    ASSUME HistoryInv, Len(log) <= Len(history)
    PROVE  RecentErrors(maxHistory) = Reverse(log)
<1> DEFINE size == Len(history)
<1>1. /\ size \in Nat /\ log = history /\ writeIndex \in {0, size} /\ history \in Seq(Nat)
      /\ maxHistory \in Nat /\ size <= maxHistory
  <2>1. /\ Len(log) \in Nat /\ size \in Nat /\ size <= Len(log) /\ history \in Seq(Nat)
        /\ maxHistory \in Nat /\ size <= maxHistory
    BY DEF HistoryInv
  <2>2. Len(log) = size
    BY <2>1
  <2>3. QED
    BY <2>1, <2>2 DEF HistoryInv
<1>2. (IF maxHistory < size THEN maxHistory ELSE size) = size
  BY <1>1
<1>3. \A i \in 1 .. size : ((writeIndex + size - i) % size) + 1 = (size - i) + 1
  <2> TAKE i \in 1 .. size
  <2>1. size - i \in 0 .. size - 1 /\ size > 0
    BY <1>1
  <2>2. (size - i) % size = size - i /\ (size + (size - i)) % size = size - i
    <3> HIDE DEF size
    <3>1. \A a \in 0 .. size - 1 : a % size = a /\ (size + a) % size = a
      BY <1>1, <2>1
    <3>2. QED
      BY <2>1, <3>1
  <2>3. writeIndex + size - i = size - i \/ writeIndex + size - i = size + (size - i)
    BY <1>1
  <2>4. QED
    BY <2>2, <2>3
<1>4. RecentErrors(maxHistory) = [i \in 1 .. size |-> history[((writeIndex + size - i) % size) + 1]]
  BY <1>2 DEF RecentErrors
<1> HIDE DEF size
<1>5. RecentErrors(maxHistory) = [i \in 1 .. size |-> history[(size - i) + 1]]
  BY <1>3, <1>4
<1>6. Reverse(log) = [i \in 1 .. size |-> history[(size - i) + 1]]
  BY <1>1 DEF Reverse, size
<1>7. QED
  BY <1>5, <1>6


Meant(id) == {e.n : e \in {e \in Range(taken) : MeantFor(id, e)}}
AcceptedError == [n : Nat, cat : Categories]
Span == [from : Nat, to : Nat, cat : Categories \cup {"all"}]

(* What the callbacks have heard.  A registered one is meant for whatever  *)
(* comes, one that is gone for nothing that comes, and a new id is none of *)
(* the old ones.                                                           *)
CallbacksInv ==
    /\ reported \in Nat /\ reported <= MaxErrors /\ nextCallback \in Nat
    /\ taken \in Seq(AcceptedError) /\ \A e \in Range(taken) : e.n <= reported
    /\ DOMAIN span = DOMAIN heard /\ DOMAIN callbacks \subseteq DOMAIN heard
    /\ \A id \in DOMAIN heard :
          /\ id \in Nat /\ id < nextCallback
          /\ span[id] \in Span /\ span[id].from <= reported
          /\ IF id \in DOMAIN callbacks THEN callbacks[id] = span[id].cat /\ span[id].to = MaxErrors
                                        ELSE span[id].to <= reported
          /\ heard[id] \in Seq(Nat) /\ Increasing(heard[id])
          /\ Range(heard[id]) = Meant(id)

LEMMA InMeant ==
    \A id, m : m \in Meant(id) <=> \E e \in Range(taken) : MeantFor(id, e) /\ m = e.n
  BY DEF Meant

LEMMA MeantWereReported ==
    ASSUME CallbacksInv, NEW id \in DOMAIN heard
    PROVE  \A m \in Meant(id) : m \in Nat /\ m <= reported
<1>1. \A e \in Range(taken) : e \in AcceptedError
  BY DEF CallbacksInv, Range
<1>2. \A e \in Range(taken) : e.n \in Nat /\ e.n <= reported
  BY <1>1 DEF CallbacksInv, AcceptedError
<1>3. QED
  BY <1>2 DEF Meant

LEMMA ReportKeepsCallbacks ==
    ASSUME CallbacksInv, NEW cat \in Categories, reported < MaxErrors, reported' = reported + 1,
           InvokeCallbacks(reported', cat), taken' = Append(taken, [n |-> reported', cat |-> cat]),
           UNCHANGED <<callbacks, nextCallback, span>>
    PROVE  CallbacksInv'
<1> DEFINE x == reported + 1
           a == [n |-> x, cat |-> cat]
<1>1. x \in Nat /\ reported \in Nat /\ MaxErrors \in Nat /\ x <= MaxErrors /\ reported < x /\ taken \in Seq(AcceptedError)
  BY ErrorAssumption DEF CallbacksInv
<1>2. a \in AcceptedError
  BY <1>1 DEF AcceptedError
<1>3. taken' \in Seq(AcceptedError) /\ Range(taken') = Range(taken) \cup {a}
  <2>1. taken' = Append(taken, a)
    OBVIOUS
  <2> HIDE DEF a
  <2>2. QED
    BY <1>1, <1>2, <2>1, RangeOfAppend
<1>4. a.n = x /\ a.cat = cat
  OBVIOUS
<1> HIDE DEF a
<1>5. \A e \in Range(taken') : e.n <= reported'
  <2>1. \A e \in Range(taken) : e \in AcceptedError /\ e.n <= reported
    BY DEF CallbacksInv, Range
  <2>2. \A e \in Range(taken) : e.n \in Nat /\ e.n <= reported
    BY <2>1 DEF AcceptedError
  <2>3. QED
    BY <1>1, <1>3, <1>4, <2>2
<1>6. DOMAIN heard' = DOMAIN heard
  BY DEF InvokeCallbacks
<1>7. ASSUME NEW id \in DOMAIN heard
      PROVE  heard'[id] \in Seq(Nat) /\ Increasing(heard'[id]) /\ Range(heard'[id]) = Meant(id)'
  <2>1. /\ heard[id] \in Seq(Nat) /\ Increasing(heard[id]) /\ Range(heard[id]) = Meant(id)
        /\ span[id] \in Span /\ span[id].from <= reported
    BY DEF CallbacksInv
  <2>2. span[id].from \in Nat /\ span[id].to \in Nat
    BY <2>1 DEF Span
  <2>3. \A m \in Range(heard[id]) : m < x
    BY <1>1, <2>1, MeantWereReported
  <2>4. Meant(id)' = Meant(id) \cup (IF MeantFor(id, a) THEN {x} ELSE {})
    <3>1. \A e : MeantFor(id, e)' <=> MeantFor(id, e)
      BY DEF MeantFor
    <3>2. \A m : m \in Meant(id)' <=> \E e \in Range(taken') : MeantFor(id, e)' /\ m = e.n
      BY DEF Meant
    <3>3. \A m : m \in Meant(id)' <=> m \in Meant(id) \/ (MeantFor(id, a) /\ m = x)
      BY <1>3, <1>4, <3>1, <3>2, InMeant
    <3>4. QED
      BY <3>3
  <2>5. MeantFor(id, a) <=> id \in DOMAIN callbacks /\ callbacks[id] \in {"all", cat}
    <3>1. CASE id \in DOMAIN callbacks
      BY <1>1, <1>4, <2>1, <2>2, <3>1 DEF MeantFor, CallbacksInv
    <3>2. CASE id \notin DOMAIN callbacks
      BY <1>1, <1>4, <2>1, <2>2, <3>2 DEF MeantFor, CallbacksInv
    <3>3. QED
      BY <3>1, <3>2
  <2>6. CASE MeantFor(id, a)
    <3>1. heard'[id] = Append(heard[id], x)
      BY <2>5, <2>6 DEF InvokeCallbacks
    <3>2. heard'[id] \in Seq(Nat) /\ Increasing(heard'[id])
      BY <1>1, <2>1, <2>3, <3>1, IncreasingAppend
    <3>3. Range(heard'[id]) = Range(heard[id]) \cup {x}
      BY <1>1, <2>1, <3>1, RangeOfAppend
    <3>4. QED
      BY <2>1, <2>4, <2>6, <3>2, <3>3
  <2>7. CASE ~ MeantFor(id, a)
    <3>1. heard'[id] = heard[id]
      BY <2>5, <2>7 DEF InvokeCallbacks
    <3>2. QED
      BY <2>1, <2>4, <2>7, <3>1
  <2>8. QED
    BY <2>6, <2>7
<1>8. ASSUME NEW id \in DOMAIN heard
      PROVE  /\ span[id].from <= reported'
             /\ id \notin DOMAIN callbacks => span[id].to <= reported'
  <2>1. span[id] \in Span /\ span[id].from <= reported /\ (id \notin DOMAIN callbacks => span[id].to <= reported)
    BY DEF CallbacksInv
  <2>2. span[id].from \in Nat /\ span[id].to \in Nat
    BY <2>1 DEF Span
  <2>3. QED
    BY <1>1, <2>1, <2>2
<1>9. QED
  BY <1>1, <1>3, <1>5, <1>6, <1>7, <1>8 DEF CallbacksInv

LEMMA RegisterKeepsCallbacks ==
    ASSUME CallbacksInv, NEW cat \in Categories \cup {"all"}, Registering(cat)
    PROVE  CallbacksInv'
<1> DEFINE s == [from |-> reported, to |-> MaxErrors, cat |-> cat]
<1> PICK new : new = nextCallback
  OBVIOUS
<1>1. /\ nextCallback' = new + 1 /\ callbacks' = Extended(callbacks, new, cat)
      /\ heard' = Extended(heard, new, <<>>) /\ span' = Extended(span, new, s)
      /\ UNCHANGED <<reported, taken>>
  BY DEF Registering
<1>2. s \in Span /\ s.from = reported /\ s.to = MaxErrors /\ s.cat = cat
  BY ErrorAssumption DEF CallbacksInv, Span
<1> HIDE DEF s
<1>3. new \in Nat /\ new \notin DOMAIN heard /\ reported \in Nat
  BY DEF CallbacksInv
<1>4. /\ DOMAIN heard' = DOMAIN heard \cup {new} /\ DOMAIN span' = DOMAIN heard \cup {new}
      /\ DOMAIN callbacks' = DOMAIN callbacks \cup {new}
      /\ DOMAIN callbacks \subseteq DOMAIN heard
  BY <1>1 DEF Extended, CallbacksInv
<1>5. /\ heard'[new] = <<>> /\ span'[new] = s /\ callbacks'[new] = cat
      /\ \A id \in DOMAIN heard : /\ heard'[id] = heard[id] /\ span'[id] = span[id]
                                  /\ id \in DOMAIN callbacks => callbacks'[id] = callbacks[id]
                                  /\ id \in DOMAIN callbacks' <=> id \in DOMAIN callbacks
  BY <1>1, <1>3, <1>4 DEF Extended
<1>6. ASSUME NEW id \in DOMAIN heard
      PROVE  /\ id \in Nat /\ id < nextCallback' /\ span'[id] \in Span /\ span'[id].from <= reported'
             /\ IF id \in DOMAIN callbacks' THEN callbacks'[id] = span'[id].cat /\ span'[id].to = MaxErrors
                                            ELSE span'[id].to <= reported'
             /\ heard'[id] \in Seq(Nat) /\ Increasing(heard'[id])
             /\ Range(heard'[id]) = Meant(id)'
  <2>1. Meant(id)' = Meant(id)
    BY <1>1, <1>5 DEF Meant, MeantFor
  <2>2. id \in Nat /\ id < nextCallback'
    BY <1>1, <1>3 DEF CallbacksInv
  <2>3. QED
    BY <1>1, <1>5, <2>1, <2>2 DEF CallbacksInv
<1>7. Meant(new)' = {}
  <2>1. \A e \in Range(taken) : e \in AcceptedError /\ e.n <= reported
    BY DEF CallbacksInv, Range
  <2>2. \A e \in Range(taken) : ~ (e.n > reported)
    BY <1>3, <2>1 DEF AcceptedError
  <2>3. QED
    BY <1>1, <1>2, <1>5, <2>2 DEF Meant, MeantFor
<1>8. /\ new \in Nat /\ new < nextCallback' /\ span'[new] \in Span /\ span'[new].from <= reported'
      /\ new \in DOMAIN callbacks' /\ callbacks'[new] = span'[new].cat /\ span'[new].to = MaxErrors
      /\ heard'[new] \in Seq(Nat) /\ Increasing(heard'[new])
      /\ Range(heard'[new]) = Meant(new)'
  <2>1. Range(<<>>) = {} /\ Increasing(<<>>) /\ <<>> \in Seq(Nat)
    BY DEF Range, Increasing
  <2>2. new < nextCallback' /\ reported <= reported'
    BY <1>1, <1>3
  <2>3. span'[new] \in Span /\ span'[new].from = reported /\ span'[new].to = MaxErrors /\ span'[new].cat = cat
    BY <1>2, <1>5
  <2>4. heard'[new] \in Seq(Nat) /\ Increasing(heard'[new]) /\ Range(heard'[new]) = Meant(new)'
    BY <1>5, <1>7, <2>1, Zenon
  <2>5. QED
    BY <1>3, <1>4, <1>5, <2>2, <2>3, <2>4
<1>9. QED
  BY <1>1, <1>3, <1>4, <1>6, <1>8 DEF CallbacksInv

\* An error below the minimum severity is only numbered.
LEMMA FilteredKeepsCallbacks ==
    ASSUME CallbacksInv, reported < MaxErrors, reported' = reported + 1,
           UNCHANGED <<heard, taken, callbacks, nextCallback, span>>
    PROVE  CallbacksInv'
<1>1. reported \in Nat /\ MaxErrors \in Nat /\ reported' \in Nat /\ reported' <= MaxErrors /\ reported <= reported'
  BY ErrorAssumption DEF CallbacksInv
<1>2. \A e \in Range(taken) : e.n <= reported'
  <2>1. \A e \in Range(taken) : e \in AcceptedError /\ e.n <= reported
    BY DEF CallbacksInv, Range
  <2>2. \A e \in Range(taken) : e.n \in Nat /\ e.n <= reported
    BY <2>1 DEF AcceptedError
  <2>3. QED
    BY <1>1, <2>2
<1>3. ASSUME NEW id \in DOMAIN heard
      PROVE  /\ span[id].from <= reported'
             /\ id \notin DOMAIN callbacks => span[id].to <= reported'
  <2>1. span[id] \in Span /\ span[id].from <= reported /\ (id \notin DOMAIN callbacks => span[id].to <= reported)
    BY DEF CallbacksInv
  <2>2. span[id].from \in Nat /\ span[id].to \in Nat
    BY <2>1 DEF Span
  <2>3. QED
    BY <1>1, <2>1, <2>2
<1>4. \A id : Meant(id)' = Meant(id)
  BY DEF Meant, MeantFor
<1>5. QED
  BY <1>1, <1>2, <1>3, <1>4 DEF CallbacksInv

LEMMA UnregisterKeepsCallbacks ==
    ASSUME CallbacksInv, NEW gone \in DOMAIN callbacks, Unregistering(gone)
    PROVE  CallbacksInv'
<1>1. /\ callbacks' = [i \in DOMAIN callbacks \ {gone} |-> callbacks[i]]
      /\ span' = [span EXCEPT ![gone].to = reported]
      /\ UNCHANGED <<nextCallback, reported, heard, taken>>
  BY DEF Unregistering
<1>2. gone \in DOMAIN heard /\ DOMAIN span = DOMAIN heard /\ span[gone] \in Span /\ reported \in Nat
      /\ span[gone].to = MaxErrors
  BY DEF CallbacksInv
<1>3. /\ DOMAIN span' = DOMAIN heard /\ DOMAIN callbacks' = DOMAIN callbacks \ {gone}
      /\ \A id \in DOMAIN heard \ {gone} : span'[id] = span[id]
      /\ \A id \in DOMAIN callbacks' : callbacks'[id] = callbacks[id]
  BY <1>1, <1>2
<1>4. span'[gone] = [span[gone] EXCEPT !.to = reported]
  BY <1>1, <1>2
<1>5. span'[gone] \in Span
  BY <1>2, <1>4 DEF Span
<1>6. span'[gone].to = reported /\ span'[gone].from = span[gone].from /\ span'[gone].cat = span[gone].cat
  BY <1>2, <1>4 DEF Span
<1>7. Meant(gone)' = Meant(gone)
  <2>1. \A e \in Range(taken) : e \in AcceptedError /\ e.n <= reported
    BY DEF CallbacksInv, Range
  <2>2. \A e \in Range(taken) : e.n \in Nat /\ e.n <= reported /\ e.n <= MaxErrors
    BY <1>2, <2>1, ErrorAssumption DEF AcceptedError, CallbacksInv
  <2>3. \A e \in Range(taken) : MeantFor(gone, e)' <=> MeantFor(gone, e)
    BY <1>2, <1>6, <2>2 DEF MeantFor
  <2>4. \A m : m \in Meant(gone)' <=> \E e \in Range(taken) : MeantFor(gone, e)' /\ m = e.n
    BY <1>1 DEF Meant
  <2>5. \A m : m \in Meant(gone)' <=> m \in Meant(gone)
    BY <2>3, <2>4, InMeant
  <2>6. QED
    BY <2>5
<1>8. \A id \in DOMAIN heard \ {gone} : Meant(id)' = Meant(id)
  BY <1>1, <1>3 DEF Meant, MeantFor
<1>9. ASSUME NEW id \in DOMAIN heard
      PROVE  /\ id \in Nat /\ id < nextCallback' /\ span'[id] \in Span /\ span'[id].from <= reported'
             /\ IF id \in DOMAIN callbacks' THEN callbacks'[id] = span'[id].cat /\ span'[id].to = MaxErrors
                                            ELSE span'[id].to <= reported'
             /\ heard'[id] \in Seq(Nat) /\ Increasing(heard'[id])
             /\ Range(heard'[id]) = Meant(id)'
  <2>1. CASE id = gone
    BY <1>1, <1>2, <1>3, <1>5, <1>6, <1>7, <2>1 DEF CallbacksInv
  <2>2. CASE id # gone
    BY <1>1, <1>3, <1>8, <2>2 DEF CallbacksInv
  <2>3. QED
    BY <2>1, <2>2
<1>10. QED
  BY <1>1, <1>3, <1>9 DEF CallbacksInv

ErrorInv == HistoryInv /\ CallbacksInv

LEMMA ErrorInvInit == ErrorInit => ErrorInv
<1> SUFFICES ASSUME ErrorInit PROVE ErrorInv
  OBVIOUS
<1>1. HistoryInv
  BY ErrorAssumption DEF ErrorInit, HistoryInv
<1>2. Range(taken) = {} /\ DOMAIN heard = {} /\ DOMAIN callbacks = {} /\ DOMAIN span = {}
  BY DEF ErrorInit, Range
<1>3. CallbacksInv
  BY <1>2, ErrorAssumption DEF ErrorInit, CallbacksInv
<1>4. QED
  BY <1>1, <1>3 DEF ErrorInv

LEMMA ErrorInvStep == ErrorInv /\ [ErrorNext]_errorVars => ErrorInv'
<1> SUFFICES ASSUME HistoryInv, CallbacksInv, [ErrorNext]_errorVars PROVE HistoryInv' /\ CallbacksInv'
  BY DEF ErrorInv
<1>1. ASSUME UNCHANGED <<history, writeIndex, maxHistory, log>>  PROVE HistoryInv'
  BY <1>1 DEF HistoryInv
<1>2. ASSUME UNCHANGED <<callbacks, nextCallback, reported, heard, taken, span>>  PROVE CallbacksInv'
  <2>1. \A id : Meant(id)' = Meant(id)
    BY <1>2 DEF Meant, MeantFor
  <2>2. QED
    BY <1>2, <2>1 DEF CallbacksInv
<1>3. ASSUME NEW sev \in Severities, NEW cat \in Categories, ReportError(sev, cat)
      PROVE  HistoryInv' /\ CallbacksInv'
  <2>1. CASE sev < minSeverity
    BY <1>1, <1>3, <2>1, FilteredKeepsCallbacks DEF ReportError
  <2>2. CASE ~ (sev < minSeverity)
    <3>1. reported' \in Nat
      BY <1>3 DEF ReportError, CallbacksInv
    <3>2. HistoryInv'
      BY <1>3, <2>2, <3>1, ReportKeepsHistory DEF ReportError
    <3>3. CallbacksInv'
      BY <1>3, <2>2, ReportKeepsCallbacks DEF ReportError
    <3>4. QED
      BY <3>2, <3>3
  <2>3. QED
    BY <2>1, <2>2
<1>4. ASSUME NEW cat \in Categories \cup {"all"}, Registering(cat)  PROVE HistoryInv' /\ CallbacksInv'
  BY <1>1, <1>4, RegisterKeepsCallbacks DEF Registering
<1>5. ASSUME NEW id \in DOMAIN callbacks, Unregistering(id)  PROVE HistoryInv' /\ CallbacksInv'
  BY <1>1, <1>5, UnregisterKeepsCallbacks DEF Unregistering
<1>6. CASE ResetStatistics
  BY <1>1, <1>2, <1>6 DEF ResetStatistics
<1>7. CASE ClearHistory
  <2>1. history' = <<>> /\ writeIndex' = 0 /\ log' = <<>> /\ maxHistory' = maxHistory
    BY <1>7 DEF ClearHistory
  <2>2. HistoryInv'
    BY <2>1 DEF HistoryInv
  <2>3. QED
    BY <1>2, <1>7, <2>2 DEF ClearHistory
<1>8. ASSUME NEW n \in HistorySizes, SetMaxHistorySize(n)  PROVE HistoryInv' /\ CallbacksInv'
  BY <1>2, <1>8, ResizeKeepsHistory DEF SetMaxHistorySize
<1>9. ASSUME NEW sev \in Severities, SetMinimumSeverity(sev)  PROVE HistoryInv' /\ CallbacksInv'
  BY <1>1, <1>2, <1>9 DEF SetMinimumSeverity
<1>10. CASE UNCHANGED errorVars
  BY <1>1, <1>2, <1>10 DEF errorVars
<1>11. QED
  BY <1>3, <1>4, <1>5, <1>6, <1>7, <1>8, <1>9, <1>10
     DEF ErrorNext, RegisterCallback, RegisterCategoryCallback, UnregisterCallback, UnregisterCategoryCallback

\* For every set of categories, every sequence of history sizes and any number of
\* callbacks: getRecentErrors returns the latest errors as long as none met a full
\* history, and each callback has heard just what was meant for it.
THEOREM ErrorsAreSeen == ErrorSpec => []ErrorsSeen
<1>1. ErrorInv => ErrorsSeen
  <2> SUFFICES ASSUME HistoryInv, CallbacksInv PROVE ErrorsSeen
    BY DEF ErrorInv
  <2>1. Len(log) <= Len(history) => RecentErrors(maxHistory) = Reverse(log)
    BY RecentAreLatest
  <2>2. \A id \in DOMAIN heard : Range(heard[id]) = Meant(id) /\ Increasing(heard[id])
    BY DEF CallbacksInv
  <2>3. QED
    BY <2>1, <2>2, Zenon DEF ErrorsSeen, Increasing, Meant
<1>2. QED
  BY <1>1, ErrorInvInit, ErrorInvStep, PTL DEF ErrorSpec

-----------------------------------------------------------------------------
(* PositionManager.  Every fill is accounted for, with saves, crashes and  *)
(* loads anywhere between: what the arithmetic of updatePosition leaves    *)
(* out is at most what its one rounded quotient can lose.                  *)

\* an entry: a flat one has average price 0
Position == {p \in [qty : Int, avg : Nat, pnl : Int] : p.avg = 0 <=> p.qty = 0}
Ledger == [net : Int, cash : Int, drift : Int]

\* what a fill has to be for updatePosition to apply it
IsFill(f) == /\ f.symbol \in Symbols /\ f.side \in {"buy", "sell"}
             /\ f.price \in Nat \ {0} /\ f.qty \in Nat \ {0}

\* The cash of the fills that the position does not explain.
Error(p, l) == l.cash - (p.pnl - p.qty * p.avg)

\* PositionsBalance, for one position and the ledger of its fills.
Balanced(p, l) == p.qty = l.net /\ 2 * Abs(Error(p, l)) <= l.drift

-----------------------------------------------------------------------------
(* The arithmetic of updatePosition *)

\* The quotient of fpm::fixed is off by at most half of the divisor.
LEMMA RoundedDivBound ==
    ASSUME NEW n \in Nat, NEW d \in Nat \ {0}
    PROVE  /\ RoundedDiv(n, d) \in Nat
           /\ 2 * (d * RoundedDiv(n, d)) <= 2 * n + d
           /\ 2 * n - d <= 2 * (d * RoundedDiv(n, d))
  BY DEF RoundedDiv

\* An average of prices that are not zero is not rounded to zero.
LEMMA RoundedDivPositive ==
    ASSUME NEW n \in Nat, NEW d \in Nat \ {0}, d <= n
    PROVE  RoundedDiv(n, d) # 0
<1>1. RoundedDiv(n, d) = 0 => 2 * n <= d
  BY RoundedDivBound
<1>2. QED
  BY <1>1

\* The fields of an entry and of a ledger.
LEMMA Fields ==
    ASSUME NEW p \in Position, NEW l \in Ledger
    PROVE  /\ p.qty \in Int /\ p.avg \in Nat /\ p.pnl \in Int
           /\ p.avg = 0 <=> p.qty = 0
           /\ l.net \in Int /\ l.cash \in Int /\ l.drift \in Int
           /\ Error(p, l) \in Int
  BY DEF Position, Ledger, Error

LEMMA PositionFields ==
    ASSUME NEW qty \in Int, NEW avg \in Nat, NEW pnl \in Int, avg = 0 <=> qty = 0
    PROVE  [qty |-> qty, avg |-> avg, pnl |-> pnl] \in Position
  BY DEF Position

\* A signed quantity is what the fill adds to the position.
LEMMA SignedFill ==
    ASSUME NEW fill, IsFill(fill)
    PROVE  /\ Signed(fill.side, fill.qty) \in Int \ {0}
           /\ fill.side = "buy" => Signed(fill.side, fill.qty) = fill.qty
           /\ fill.side # "buy" => Signed(fill.side, fill.qty) = -fill.qty
           /\ fill.price \in Nat \ {0} /\ fill.qty \in Nat \ {0}
  BY DEF IsFill, Signed

\* A position opened from nothing, or from a flat one, explains its first fill.
LEMMA EstablishBalances ==
    ASSUME NEW p \in Position, NEW l \in Ledger, Balanced(p, l), p.qty = 0,
           NEW fill, IsFill(fill)
    PROVE  /\ Establish(p.pnl, fill) \in Position
           /\ Balanced(Establish(p.pnl, fill), Entered(l, fill))
<1> DEFINE q == Signed(fill.side, fill.qty)
           price == fill.price
<1>1. q \in Int \ {0} /\ price \in Nat \ {0}
  BY SignedFill
<1>2. Establish(p.pnl, fill) = [qty |-> q, avg |-> price, pnl |-> p.pnl]
  BY DEF Establish
<1>3. Entered(l, fill) = [net |-> q, cash |-> l.cash - q * price, drift |-> l.drift]
  <2>1. l.net = 0 /\ ~ (l.net * q > 0) /\ l.net + q = q /\ l.drift + 0 = l.drift
    BY <1>1, Fields DEF Balanced
  <2>2. QED
    BY <2>1 DEF Entered
<1> HIDE DEF q, price
<1>4. Establish(p.pnl, fill) \in Position
  BY <1>1, <1>2, Fields, PositionFields
<1>5. Error(Establish(p.pnl, fill), Entered(l, fill)) = Error(p, l)
  BY <1>1, <1>2, <1>3, Fields DEF Error
<1>6. QED
  BY <1>2, <1>3, <1>4, <1>5 DEF Balanced

\* Averaging a fill into a position of the same direction moves what is not
\* explained by at most half a unit for each unit of the new quantity.
LEMMA IncreaseBalances ==
    ASSUME NEW p \in Position, NEW l \in Ledger, Balanced(p, l), p.qty # 0,
           NEW fill, IsFill(fill), SameDirection(p, fill)
    PROVE  /\ Increase(p, fill) \in Position
           /\ Balanced(Increase(p, fill), Entered(l, fill))
<1> DEFINE q == Signed(fill.side, fill.qty)
           price == fill.price
           n == Abs(p.qty) * p.avg + fill.qty * price
           d == Abs(p.qty) + fill.qty
           a == CalcWeightedAverage(p, fill)
<1>1. q \in Int \ {0} /\ price \in Nat \ {0} /\ fill.qty \in Nat \ {0}
  BY SignedFill
<1>2. \/ p.qty > 0 /\ q = fill.qty
      \/ p.qty < 0 /\ q = -fill.qty
  BY SignedFill, Fields DEF SameDirection, IsFill
<1>3. n \in Nat /\ d \in Nat \ {0}
  BY <1>1, Fields DEF Abs
<1>4. d <= n
  <2>1. \A x \in Nat, y \in Nat \ {0} : x <= x * y
    OBVIOUS
  <2>2. p.avg \in Nat \ {0} /\ Abs(p.qty) \in Nat
    BY Fields DEF Abs
  <2>3. Abs(p.qty) <= Abs(p.qty) * p.avg /\ fill.qty <= fill.qty * price
    BY <1>1, <2>1, <2>2
  <2>4. QED
    BY <1>1, <2>2, <2>3
<1>5. /\ a \in Nat \ {0}
      /\ 2 * (d * a) <= 2 * n + d
      /\ 2 * n - d <= 2 * (d * a)
  <2>1. a = RoundedDiv(n, d)
    BY DEF CalcWeightedAverage
  <2> HIDE DEF a, n, d
  <2>2. QED
    BY <1>3, <1>4, <2>1, RoundedDivBound, RoundedDivPositive
<1>6. Increase(p, fill) = [qty |-> p.qty + q, avg |-> a, pnl |-> p.pnl]
  <2>1. p \in [qty : Int, avg : Nat, pnl : Int]
    BY DEF Position
  <2> HIDE DEF a
  <2>2. Increase(p, fill) = [p EXCEPT !.qty = p.qty + q, !.avg = a]
    BY DEF Increase, a
  <2>3. QED
    BY <2>1, <2>2
<1>7. Entered(l, fill) = [net |-> p.qty + q, cash |-> l.cash - q * price,
                          drift |-> l.drift + d]
  <2>1. l.net = p.qty /\ l.net * q > 0 /\ Abs(l.net + q) = d
    BY <1>1, <1>2, Fields DEF Balanced, Abs
  <2>2. QED
    BY <2>1 DEF Entered
<1>8. Increase(p, fill) \in Position
  BY <1>1, <1>2, <1>5, <1>6, Fields, PositionFields
<1>9. 2 * Abs(Error(Increase(p, fill), Entered(l, fill))) <= l.drift + d
  <2> DEFINE e == Error(p, l)
             f == Error(Increase(p, fill), Entered(l, fill))
  <2>1. f = e - p.qty * p.avg - q * price + (p.qty + q) * a
    BY <1>1, <1>5, <1>6, <1>7, Fields DEF Error
  <2>2. CASE p.qty > 0 /\ q = fill.qty
    BY <1>1, <1>5, <2>1, <2>2, Fields DEF Abs, Balanced
  <2>3. CASE p.qty < 0 /\ q = -fill.qty
    BY <1>1, <1>5, <2>1, <2>3, Fields DEF Abs, Balanced
  <2>4. QED
    BY <1>2, <2>2, <2>3
<1>10. QED
  BY <1>6, <1>7, <1>8, <1>9 DEF Balanced


\* Closing part of a position, or all of it, realizes exactly what it explains.
LEMMA ReduceBalances ==
    ASSUME NEW p \in Position, NEW l \in Ledger, Balanced(p, l), p.qty # 0,
           NEW fill, IsFill(fill), ~ SameDirection(p, fill), fill.qty <= Abs(p.qty)
    PROVE  /\ Reduce(p, fill) \in Position
           /\ Balanced(Reduce(p, fill), Entered(l, fill))
<1> DEFINE q == Signed(fill.side, fill.qty)
           price == fill.price
           a == IF p.qty + q = 0 THEN 0 ELSE p.avg
           r == CalcRealizedPnLOnReduce(p, price, fill.qty)
<1>1. q \in Int \ {0} /\ price \in Nat \ {0} /\ fill.qty \in Nat \ {0}
  BY SignedFill
<1>2. \/ p.qty > 0 /\ q = -fill.qty
      \/ p.qty < 0 /\ q = fill.qty
  BY SignedFill, Fields DEF SameDirection, IsFill
<1>3. r = -(q * (price - p.avg)) /\ r \in Int
  BY <1>1, <1>2, Fields DEF CalcRealizedPnLOnReduce
<1>4. a \in Nat /\ (a = 0 <=> p.qty + q = 0) /\ (p.qty + q) * a = (p.qty + q) * p.avg
  BY <1>1, Fields
<1>5. Reduce(p, fill) = [qty |-> p.qty + q, avg |-> a, pnl |-> p.pnl + r]
  BY DEF Reduce
<1>6. Entered(l, fill) = [net |-> p.qty + q, cash |-> l.cash - q * price, drift |-> l.drift]
  <2>1. l.net = p.qty /\ ~ (l.net * q > 0) /\ l.drift + 0 = l.drift
    BY <1>1, <1>2, Fields DEF Balanced
  <2>2. QED
    BY <2>1 DEF Entered
<1> HIDE DEF q, price, a, r
<1>7. Reduce(p, fill) \in Position
  <2>1. p.qty + q \in Int /\ p.pnl + r \in Int
    BY <1>1, <1>3, Fields
  <2>2. QED
    BY <1>4, <1>5, <2>1, PositionFields
<1>8. Error(Reduce(p, fill), Entered(l, fill)) = Error(p, l)
  <2>1. Error(Reduce(p, fill), Entered(l, fill))
            = (l.cash - q * price) - ((p.pnl + r) - (p.qty + q) * p.avg)
    BY <1>4, <1>5, <1>6 DEF Error
  <2>2. QED
    BY <1>1, <1>3, <2>1, Fields DEF Error
<1>9. QED
  BY <1>5, <1>6, <1>7, <1>8 DEF Balanced

\* So does flipping it: the old side is realized in full, and the rest opens the
\* other side at the price of the fill.
LEMMA FlipBalances ==
    ASSUME NEW p \in Position, NEW l \in Ledger, Balanced(p, l), p.qty # 0,
           NEW fill, IsFill(fill), ~ SameDirection(p, fill), ~ (fill.qty <= Abs(p.qty))
    PROVE  /\ Flip(p, fill) \in Position
           /\ Balanced(Flip(p, fill), Entered(l, fill))
<1> DEFINE q == Signed(fill.side, fill.qty)
           price == fill.price
           r == CalcRealizedPnLOnReduce(p, price, Abs(p.qty))
<1>1. q \in Int \ {0} /\ price \in Nat \ {0} /\ fill.qty \in Nat \ {0}
  BY SignedFill
<1>2. \/ p.qty > 0 /\ q = -fill.qty
      \/ p.qty < 0 /\ q = fill.qty
  BY SignedFill, Fields DEF SameDirection, IsFill
<1>3. r = p.qty * (price - p.avg) /\ r \in Int
  BY <1>1, <1>2, Fields DEF CalcRealizedPnLOnReduce, Abs
<1>4. Signed(fill.side, fill.qty - Abs(p.qty)) = p.qty + q /\ p.qty + q # 0
  BY <1>1, <1>2, Fields DEF Abs, Signed, IsFill
<1>5. Flip(p, fill) = [qty |-> p.qty + q, avg |-> price, pnl |-> p.pnl + r]
  BY <1>4 DEF Flip
<1>6. Entered(l, fill) = [net |-> p.qty + q, cash |-> l.cash - q * price, drift |-> l.drift]
  <2>1. l.net = p.qty /\ ~ (l.net * q > 0) /\ l.drift + 0 = l.drift
    BY <1>1, <1>2, Fields DEF Balanced
  <2>2. QED
    BY <2>1 DEF Entered
<1> HIDE DEF q, price, r
<1>7. Flip(p, fill) \in Position
  <2>1. p.qty + q \in Int /\ p.pnl + r \in Int
    BY <1>1, <1>3, Fields
  <2>2. QED
    BY <1>1, <1>4, <1>5, <2>1, PositionFields
<1>8. Error(Flip(p, fill), Entered(l, fill)) = Error(p, l)
  <2>1. Error(Flip(p, fill), Entered(l, fill))
            = (l.cash - q * price) - ((p.pnl + r) - (p.qty + q) * price)
    BY <1>5, <1>6 DEF Error
  <2>2. QED
    BY <1>1, <1>3, <2>1, Fields DEF Error
<1>9. QED
  BY <1>5, <1>6, <1>7, <1>8 DEF Balanced

-----------------------------------------------------------------------------
(* The state *)

NoPosition == [qty |-> 0, avg |-> 0, pnl |-> 0]
At(ps, s) == IF s \in DOMAIN ps THEN ps[s] ELSE NoPosition

\* positions_ with the ledger of the fills it is made of
Book(ps, led) ==
    /\ DOMAIN ps \in SUBSET Symbols
    /\ ps \in [DOMAIN ps -> Position]
    /\ led \in [Symbols -> Ledger]
    /\ \A s \in Symbols : Balanced(At(ps, s), led[s])

(* A load replaces the positions by what a save wrote, long before maybe,  *)
(* so the invariant says the same of the snapshot in the file and of the   *)
(* one a savePositions under way is about to write.                        *)
BooksInv == /\ Book(positions, ledger)
            /\ \A j \in file : Book(j.positions, j.ledger)
            /\ \A j \in saving : Book(j.positions, j.ledger)

\* No positions and an empty ledger balance.
LEMMA BlankBalances ==
    /\ NoPosition \in Position /\ Blank \in Ledger /\ Balanced(NoPosition, Blank)
    /\ Book(NoPositions, [s \in Symbols |-> Blank])
<1>1. NoPosition \in Position /\ Blank \in Ledger
  BY DEF NoPosition, Position, Blank, Ledger
<1>2. Balanced(NoPosition, Blank)
  BY DEF NoPosition, Blank, Balanced, Error, Abs
<1>3. DOMAIN NoPositions = {} /\ NoPositions \in [DOMAIN NoPositions -> Position]
  BY DEF NoPositions
<1>4. QED
  BY <1>1, <1>2, <1>3 DEF Book, At

\* A position that a fill has reached balances with its ledger, whichever of the
\* cases of updatePosition applies.
LEMMA UpdatedBalances ==
    ASSUME NEW ps, NEW led, Book(ps, led), NEW fill, IsFill(fill)
    PROVE  /\ Updated(ps, fill) \in Position
           /\ Balanced(Updated(ps, fill), Entered(led[fill.symbol], fill))
<1> DEFINE s == fill.symbol
           p == At(ps, s)
           l == led[s]
<1>1. s \in Symbols
  BY DEF IsFill
<1>2. p \in Position /\ l \in Ledger /\ Balanced(p, l)
  BY <1>1, BlankBalances DEF Book, At
<1>3. CASE s \notin DOMAIN ps
  <2>1. p = NoPosition /\ p.pnl = 0 /\ p.qty = 0
    BY <1>3 DEF At, NoPosition
  <2>2. Updated(ps, fill) = Establish(p.pnl, fill)
    BY <1>3, <2>1 DEF Updated
  <2> HIDE DEF p, l
  <2>3. QED
    BY <1>2, <2>1, <2>2, EstablishBalances DEF l
<1>4. CASE s \in DOMAIN ps /\ p.qty = 0
  <2>1. Updated(ps, fill) = Establish(p.pnl, fill)
    BY <1>4 DEF Updated, At
  <2> HIDE DEF p, l
  <2>2. QED
    BY <1>2, <1>4, <2>1, EstablishBalances DEF l
<1>5. CASE s \in DOMAIN ps /\ p.qty # 0 /\ SameDirection(p, fill)
  <2>1. Updated(ps, fill) = Increase(p, fill)
    BY <1>5 DEF Updated, At
  <2> HIDE DEF p, l
  <2>2. QED
    BY <1>2, <1>5, <2>1, IncreaseBalances DEF l
<1>6. CASE s \in DOMAIN ps /\ p.qty # 0 /\ ~ SameDirection(p, fill) /\ fill.qty <= Abs(p.qty)
  <2>1. Updated(ps, fill) = Reduce(p, fill)
    BY <1>6 DEF Updated, At
  <2> HIDE DEF p, l
  <2>2. QED
    BY <1>2, <1>6, <2>1, ReduceBalances DEF l
<1>7. CASE s \in DOMAIN ps /\ p.qty # 0 /\ ~ SameDirection(p, fill) /\ ~ (fill.qty <= Abs(p.qty))
  <2>1. Updated(ps, fill) = Flip(p, fill)
    BY <1>7 DEF Updated, At
  <2> HIDE DEF p, l
  <2>2. QED
    BY <1>2, <1>7, <2>1, FlipBalances DEF l
<1>8. QED
  BY <1>3, <1>4, <1>5, <1>6, <1>7

LEMMA EnteredIsLedger ==
    ASSUME NEW l \in Ledger, NEW fill, IsFill(fill)
    PROVE  Entered(l, fill) \in Ledger
  BY DEF Entered, Ledger, IsFill, Signed, Abs

\* What savePositions writes balances too: the flat positions it skips take their
\* realized profit and their fills with them.
LEMMA SnapshotBalances ==
    ASSUME Book(positions, ledger)
    PROVE  Book(ToJson.positions, ToJson.ledger)
<1> DEFINE ps == [s \in Open(positions) |-> positions[s]]
           led == [s \in Symbols |-> IF s \in Open(positions) THEN ledger[s] ELSE Blank]
<1>1. Open(positions) \subseteq DOMAIN positions /\ Open(positions) \subseteq Symbols
  BY DEF Open, Book
<1>2. DOMAIN ps = Open(positions) /\ ps \in [Open(positions) -> Position]
  BY <1>1 DEF Book
<1>3. led \in [Symbols -> Ledger]
  BY BlankBalances DEF Book
<1>4. ASSUME NEW s \in Symbols  PROVE Balanced(At(ps, s), led[s])
  <2>1. CASE s \in Open(positions)
    <3>1. At(ps, s) = At(positions, s) /\ led[s] = ledger[s]
      BY <1>1, <2>1 DEF At
    <3>2. QED
      BY <3>1 DEF Book
  <2>2. CASE s \notin Open(positions)
    <3>1. At(ps, s) = NoPosition /\ led[s] = Blank
      BY <2>2 DEF At
    <3>2. QED
      BY <3>1, BlankBalances
  <2>3. QED
    BY <2>1, <2>2
<1> HIDE DEF ps, led
<1>5. Book(ps, led)
  BY <1>1, <1>2, <1>3, <1>4 DEF Book
<1>6. QED
  BY <1>5 DEF ToJson, ps, led


\* Every fill keeps the books, one of quantity 0 included.
LEMMA UpdateKeepsBook ==
    ASSUME Book(positions, ledger), NEW fill \in Fills, UpdatePosition(fill)
    PROVE  Book(positions, ledger)'
<1>1. CASE fill.qty = 0
  BY <1>1 DEF UpdatePosition, Book, At
<1>2. CASE fill.qty # 0
  <2> DEFINE s0 == fill.symbol
  <2>1. IsFill(fill)
    BY <1>2, FillsAssumption DEF IsFill
  <2>2. /\ positions' = [s \in DOMAIN positions \cup {s0} |->
              IF s = s0 THEN Updated(positions, fill) ELSE positions[s]]
        /\ ledger' = [ledger EXCEPT ![s0] = Entered(ledger[s0], fill)]
    BY <1>2 DEF UpdatePosition
  <2>3. /\ s0 \in Symbols
        /\ Updated(positions, fill) \in Position
        /\ Entered(ledger[s0], fill) \in Ledger
        /\ Balanced(Updated(positions, fill), Entered(ledger[s0], fill))
    BY <2>1, UpdatedBalances, EnteredIsLedger DEF Book, IsFill
  <2> HIDE DEF s0
  <2>4. /\ DOMAIN positions' \in SUBSET Symbols
        /\ positions' \in [DOMAIN positions' -> Position]
    BY <2>2, <2>3 DEF Book
  <2>5. ledger' \in [Symbols -> Ledger]
    BY <2>2, <2>3 DEF Book
  <2>6. ASSUME NEW s \in Symbols  PROVE Balanced(At(positions', s), ledger'[s])
    <3>1. CASE s = s0
      BY <2>2, <2>3, <3>1 DEF At, Book
    <3>2. CASE s # s0
      <4>1. At(positions', s) = At(positions, s) /\ ledger'[s] = ledger[s]
        BY <2>2, <3>2 DEF At, Book
      <4>2. QED
        BY <4>1 DEF Book
    <3>3. QED
      BY <3>1, <3>2
  <2>7. QED
    BY <2>4, <2>5, <2>6 DEF Book
<1>3. QED
  BY <1>1, <1>2

LEMMA BooksInductive == BooksInv /\ [Next]_vars => BooksInv'
<1> SUFFICES ASSUME BooksInv, [Next]_vars PROVE BooksInv'
  OBVIOUS
<1> USE DEF BooksInv
<1>1. ASSUME NEW fill \in Fills, UpdatePosition(fill)  PROVE BooksInv'
  <2>1. Book(positions, ledger)'
    BY <1>1, UpdateKeepsBook
  <2>2. file' = file /\ saving' = saving
    BY <1>1 DEF UpdatePosition
  <2>3. QED
    BY <2>1, <2>2
<1>2. CASE Clear
  BY <1>2, BlankBalances DEF Clear
<1>3. CASE SaveOpen
  <2>1. Book(ToJson.positions, ToJson.ledger)
    BY SnapshotBalances
  <2>2. saving' = {ToJson} /\ file' = {} /\ positions' = positions /\ ledger' = ledger
    BY <1>3 DEF SaveOpen
  <2>3. QED
    BY <2>1, <2>2
<1>4. CASE SaveWrite
  BY <1>4 DEF SaveWrite
<1>5. CASE LoadPositions
  <2>1. PICK j \in file : positions' = j.positions /\ ledger' = j.ledger
    BY <1>5 DEF LoadPositions
  <2>2. Book(positions, ledger)'
    BY <2>1
  <2>3. file' = file /\ saving' = saving
    BY <1>5 DEF LoadPositions
  <2>4. QED
    BY <2>2, <2>3
<1>6. CASE Crash
  BY <1>6, BlankBalances DEF Crash
<1>7. CASE UNCHANGED vars
  BY <1>7 DEF vars
<1>8. QED
  BY <1>1, <1>2, <1>3, <1>4, <1>5, <1>6, <1>7 DEF Next

\* A position accounts for every fill it is made of, through opening, averaging,
\* reducing, closing and flipping, and through saves, crashes and loads: quantity
\* exactly, cash up to the rounding of the averages.
THEOREM FillsAccounted == Spec => []PositionsBalance
<1>1. Init => BooksInv
  BY BlankBalances DEF Init, BooksInv
<1>2. BooksInv => PositionsBalance
  BY DEF BooksInv, Book, At, NoPosition, PositionsBalance, PositionOf, Balanced, Error
<1>3. QED
  BY <1>1, <1>2, BooksInductive, PTL DEF Spec


-----------------------------------------------------------------------------
(* The cached total *)

\* Without positions the value is 0: the sum over no entries is its base.  The
\* recursive function behind the sum is defined, because some function satisfies
\* its equation on the one subset of the empty set.
LEMMA NothingIsWorthless == ValueOf(NoPositions) = 0
<1> DEFINE D == DOMAIN NoPositions
           pick(s) == CHOOSE x \in s : TRUE
           value(x) == Abs(NoPositions[x].qty) * NoPositions[x].avg
           body(f, s) == IF s = {} THEN 0 ELSE value(pick(s)) + f[s \ {pick(s)}]
           iter == CHOOSE f : f = [s \in SUBSET D |-> body(f, s)]
<1>1. D = {}
  BY DEF NoPositions
<1>2. ValueOf(NoPositions) = iter[D]
  BY DEF ValueOf, MapThenSumSet, MapThenFoldSet
<1>3. \A f : \A s \in SUBSET D : body(f, s) = 0
  BY <1>1
<1> HIDE DEF D, body
<1>4. \E f : f = [s \in SUBSET D |-> body(f, s)]
  <2> DEFINE g == [s \in SUBSET D |-> 0]
  <2>1. g = [s \in SUBSET D |-> body(g, s)]
    BY <1>3
  <2>2. QED
    BY <2>1
<1>5. iter = [s \in SUBSET D |-> body(iter, s)]
  BY <1>4
<1> HIDE DEF iter
<1>6. iter[D] = 0
  BY <1>3, <1>5
<1>7. QED
  BY <1>2, <1>6

\* The total that checkOrder reads is the value of the positions after every
\* operation, whatever the fills and the snapshots loaded.
THEOREM TotalIsCurrent == Spec => []CachedTotalIsCurrent
<1>1. Init => CachedTotalIsCurrent
  BY NothingIsWorthless DEF Init, CachedTotalIsCurrent
<1>2. CachedTotalIsCurrent /\ [Next]_vars => CachedTotalIsCurrent'
  <2> SUFFICES ASSUME CachedTotalIsCurrent, [Next]_vars PROVE CachedTotalIsCurrent'
    OBVIOUS
  <2>1. CASE UNCHANGED <<positions, total>>
    BY <2>1 DEF CachedTotalIsCurrent
  <2>2. CASE positions' = NoPositions /\ total' = 0
    BY <2>2, NothingIsWorthless DEF CachedTotalIsCurrent
  <2>3. CASE total' = ValueOf(positions')
    BY <2>3 DEF CachedTotalIsCurrent
  <2>4. ASSUME NEW fill \in Fills, UpdatePosition(fill)
        PROVE  UNCHANGED <<positions, total>> \/ total' = ValueOf(positions')
    BY <2>4 DEF UpdatePosition
  <2>5. ASSUME Clear \/ Crash  PROVE positions' = NoPositions /\ total' = 0
    BY <2>5 DEF Clear, Crash
  <2>6. ASSUME SaveOpen \/ SaveWrite \/ UNCHANGED vars
        PROVE  UNCHANGED <<positions, total>>
    BY <2>6 DEF SaveOpen, SaveWrite, vars
  <2>7. ASSUME LoadPositions  PROVE total' = ValueOf(positions')
    BY <2>7 DEF LoadPositions
  <2>8. QED
    BY <2>1, <2>2, <2>3, <2>4, <2>5, <2>6, <2>7 DEF Next
<1>3. QED
  BY <1>1, <1>2, PTL DEF Spec

-----------------------------------------------------------------------------
(* TickPipeline: the order of the levels in a message *)

LEMMA BetterIsOrder ==
    ASSUME NEW s, NEW p \in Nat, NEW q \in Nat, NEW r \in Nat
    PROVE  /\ ~ Better(s, p, p)
           /\ p # q => Better(s, p, q) \/ Better(s, q, p)
           /\ Better(s, p, q) /\ Better(s, q, r) => Better(s, p, r)
  BY DEF Better

\* The ranks of a finite set of prices are the numbers from 1 to its size, each once: a price has
\* at least one price fewer above it than the next one, and none counts itself.
LEMMA RanksAreNumbers ==
    ASSUME NEW s, NEW ps \in SUBSET Nat, IsFiniteSet(ps)
    PROVE  /\ Cardinality(ps) \in Nat
           /\ \A p \in ps : Rank(s, ps, p) \in 1 .. Cardinality(ps)
           /\ \A i \in 1 .. Cardinality(ps) : \E p \in ps : Rank(s, ps, p) = i
           /\ \A p, q \in ps : p # q => Rank(s, ps, p) # Rank(s, ps, q)
<1> DEFINE above(p) == {q \in ps : Better(s, q, p)}
           n == Cardinality(ps)
           rank == [p \in ps |-> Rank(s, ps, p)]
<1>1. n \in Nat
  BY FS_CardinalityType
<1>2. ASSUME NEW p \in ps  PROVE IsFiniteSet(above(p)) /\ Cardinality(above(p)) \in Nat
  <2>1. above(p) \in SUBSET ps
    OBVIOUS
  <2> HIDE DEF above
  <2>2. IsFiniteSet(above(p))
    BY <2>1, FS_Subset
  <2>3. QED
    BY <2>2, FS_CardinalityType
<1>3. ASSUME NEW p \in ps  PROVE Rank(s, ps, p) = 1 + Cardinality(above(p))
  BY DEF Rank
<1>4. ASSUME NEW p \in ps  PROVE Rank(s, ps, p) \in 1 .. n
  <2>1. above(p) \in SUBSET ps /\ above(p) # ps
    BY BetterIsOrder
  <2> HIDE DEF above
  <2>2. Cardinality(above(p)) <= n /\ Cardinality(above(p)) # n
    BY <2>1, FS_Subset
  <2>3. QED
    BY <1>1, <1>2, <1>3, <2>2
<1>5. ASSUME NEW p \in ps, NEW q \in ps, Better(s, p, q)  PROVE Rank(s, ps, p) # Rank(s, ps, q)
  <2>1. above(p) \in SUBSET above(q) /\ p \in above(q) /\ p \notin above(p)
    BY <1>5, BetterIsOrder
  <2> HIDE DEF above
  <2>2. Cardinality(above(p)) # Cardinality(above(q))
    BY <1>2, <2>1, FS_Subset
  <2>3. QED
    BY <1>2, <1>3, <2>2
<1>5a. \A p, q \in ps : p # q => Rank(s, ps, p) # Rank(s, ps, q)
  BY <1>5, BetterIsOrder
<1>6. rank \in Injection(ps, 1 .. n)
  <2> HIDE DEF n
  <2>2. rank \in [ps -> 1 .. n]
    BY <1>4
  <2>3. \A p, q \in ps : rank[p] = rank[q] => p = q
    BY <1>5a
  <2> HIDE DEF rank
  <2>4. QED
    BY <2>2, <2>3 DEF Injection, IsInjective
<1>7. IsFiniteSet(1 .. n) /\ Cardinality(1 .. n) = n
  BY <1>1, FS_Interval
<1>8. rank \in Surjection(ps, 1 .. n)
  <2> HIDE DEF rank
  <2>1. QED
    BY <1>6, <1>7, FS_Injection
<1>9. \A i \in 1 .. n : \E p \in ps : rank[p] = i
  <2> HIDE DEF rank, n
  <2>1. QED
    BY <1>8 DEF Surjection
<1>10. QED
  BY <1>1, <1>4, <1>5a, <1>9

\* So a message has every level of the set, each with its quantity.
LEMMA LevelsOfAll ==
    ASSUME NEW s \in Sides, NEW ps \in SUBSET Quotes, NEW b \in Books
    PROVE  LET ls == LevelsOf(b, s, ps) IN
           /\ ls \in Seq(Quotes \X (0 .. MaxLot))
           /\ \A i \in DOMAIN ls : ls[i][2] = b[s][ls[i][1]]
           /\ \A i \in DOMAIN ls : ls[i][1] \in ps
           /\ \A p \in ps : \E i \in DOMAIN ls : ls[i][1] = p
<1> DEFINE n == Cardinality(ps)
           f == BestFirst(s, ps)
           ls == LevelsOf(b, s, ps)
<1>1. IsFiniteSet(ps) /\ ps \in SUBSET Nat /\ Quotes \in SUBSET Nat
  BY FeedsAssumption, FS_Subset
<1>2. /\ n \in Nat
      /\ \A p \in ps : Rank(s, ps, p) \in 1 .. n
      /\ \A i \in 1 .. n : \E p \in ps : Rank(s, ps, p) = i
      /\ \A p, q \in ps : p # q => Rank(s, ps, p) # Rank(s, ps, q)
  BY <1>1, RanksAreNumbers
<1>3. DOMAIN f = 1 .. n /\ \A i \in 1 .. n : f[i] \in ps /\ Rank(s, ps, f[i]) = i
  <2>1. f = [i \in 1 .. n |-> CHOOSE p \in ps : Rank(s, ps, p) = i]
    BY DEF BestFirst
  <2> HIDE DEF f, n
  <2>2. QED
    BY <1>2, <2>1
<1>4. ASSUME NEW p \in ps  PROVE \E i \in 1 .. n : f[i] = p
  <2>1. PICK i \in 1 .. n : i = Rank(s, ps, p)
    BY <1>2
  <2>3. f[i] \in ps /\ Rank(s, ps, f[i]) = Rank(s, ps, p)
    BY <1>3, <2>1
  <2> HIDE DEF f, n
  <2>4. QED
    BY <1>2, <2>3
<1>5. DOMAIN ls = 1 .. n /\ \A i \in 1 .. n : ls[i] = <<f[i], b[s][f[i]]>>
  <2>1. ls = [i \in DOMAIN f |-> <<f[i], b[s][f[i]]>>]
    BY DEF LevelsOf
  <2> HIDE DEF f, ls, n
  <2>2. QED
    BY <1>3, <2>1
<1>6. ls = [i \in 1 .. n |-> ls[i]]
  <2>1. ls = [i \in DOMAIN ls |-> ls[i]]
    BY DEF LevelsOf
  <2> HIDE DEF f, ls, n
  <2>2. QED
    BY <1>5, <2>1
<1> HIDE DEF f, ls, n
<1>7. \A i \in 1 .. n : b[s][f[i]] \in 0 .. MaxLot /\ f[i] \in Quotes
  BY <1>3 DEF Books
<1>8. ls \in Seq(Quotes \X (0 .. MaxLot))
  <2>1. \A i \in 1 .. n : ls[i] \in Quotes \X (0 .. MaxLot)
    BY <1>5, <1>7
  <2>2. QED
    BY <1>2, <1>6, <2>1
<1>9. \A i \in DOMAIN ls : ls[i][2] = b[s][ls[i][1]] /\ ls[i][1] \in ps
  BY <1>3, <1>5
<1>10. \A p \in ps : \E i \in DOMAIN ls : ls[i][1] = p
  BY <1>4, <1>5
<1>11. QED
  BY <1>8, <1>9, <1>10 DEF ls

-----------------------------------------------------------------------------
(* TickPipeline: messages and their ticks *)

BookChannels == {"depth", "depth5", "books5"}
Ticks == [side : {"bid", "ask", "trade"}, price : Quotes, qty : Nat, flags : {0, 1}]

LevelsIn(m, s) == IF s = "bid" THEN m.bids ELSE m.asks
LevelSeqs == Seq(Quotes \X (0 .. MaxLot))

Messages == [channel : BookChannels, bids : LevelSeqs, asks : LevelSeqs]
            \cup [channel : {"trades"}, buy : BOOLEAN, price : Quotes, qty : {1}]
            \cup [channel : {"ticker"}]

LEMMA MessageParts ==
    ASSUME NEW m \in Messages
    PROVE  /\ m.channel \in BookChannels => m.bids \in LevelSeqs /\ m.asks \in LevelSeqs
           /\ m.channel = "trades" => m.buy \in BOOLEAN /\ m.price \in Quotes /\ m.qty = 1
  BY DEF Messages, BookChannels

\* the message has the level; and all that it says of the level is quantity q
Mentions(m, s, p) ==
    m.channel \in BookChannels /\ \E i \in DOMAIN LevelsIn(m, s) : LevelsIn(m, s)[i][1] = p
Says(m, s, p, q) == \A i \in DOMAIN LevelsIn(m, s) : LevelsIn(m, s)[i][1] = p => LevelsIn(m, s)[i][2] = q

\* a tick of a book message for the level
OfDepth(t, s, p) == t.flags = 0 /\ LevelOf(t) = <<s, p>>

\* The elements of a concatenation.
LEMMA ConcatAt ==
    ASSUME NEW S, NEW a \in Seq(S), NEW b \in Seq(S)
    PROVE  /\ a \o b \in Seq(S)
           /\ DOMAIN (a \o b) = 1 .. Len(a) + Len(b) /\ Len(a \o b) = Len(a) + Len(b)
           /\ \A k \in 1 .. Len(a) : (a \o b)[k] = a[k]
           /\ \A k \in 1 .. Len(b) : (a \o b)[Len(a) + k] = b[k]
  OBVIOUS

LEMMA EmitsTicks ==
    ASSUME NEW ls \in LevelSeqs, NEW side \in Sides
    PROVE  /\ Emit(ls, side) \in Seq(Ticks) /\ DOMAIN Emit(ls, side) = DOMAIN ls
           /\ Len(Emit(ls, side)) = Len(ls)
           /\ \A i \in DOMAIN ls : Emit(ls, side)[i] = [side |-> side, price |-> ls[i][1],
                                                        qty |-> ls[i][2], flags |-> 0]
<1> DEFINE e == Emit(ls, side)
<1>1. e = [i \in 1 .. Len(ls) |-> [side |-> side, price |-> ls[i][1], qty |-> ls[i][2], flags |-> 0]]
  BY DEF Emit, LevelSeqs
<1>2. Len(ls) \in Nat /\ DOMAIN ls = 1 .. Len(ls) /\ \A i \in 1 .. Len(ls) : ls[i] \in Quotes \X (0 .. MaxLot)
  BY DEF LevelSeqs
<1>3. \A i \in 1 .. Len(ls) : ls[i][1] \in Quotes /\ ls[i][2] \in Nat
  <2>1. 0 .. MaxLot \subseteq Nat
    BY FeedsAssumption
  <2>2. QED
    BY <1>2, <2>1
<1>4. \A i \in 1 .. Len(ls) :
          [side |-> side, price |-> ls[i][1], qty |-> ls[i][2], flags |-> 0] \in Ticks
  BY <1>3 DEF Ticks, Sides
<1> HIDE DEF e
<1>5. e \in Seq(Ticks) /\ Len(e) = Len(ls) /\ DOMAIN e = DOMAIN ls
  BY <1>1, <1>2, <1>4
<1>6. \A i \in DOMAIN ls : e[i] = [side |-> side, price |-> ls[i][1], qty |-> ls[i][2], flags |-> 0]
  BY <1>1, <1>2
<1>7. QED
  BY <1>5, <1>6 DEF e

\* The ticks of a book message: its bids and then its asks, all with the quantities it gives.
LEMMA BookTicks ==
    ASSUME NEW m, m.bids \in LevelSeqs, m.asks \in LevelSeqs, m.channel \in BookChannels
    PROVE  LET ts == Emit(m.bids, "bid") \o Emit(m.asks, "ask") IN
           /\ ts \in Seq(Ticks)
           /\ \A s \in Sides, p \in Quotes :
                 Mentions(m, s, p) <=> \E k \in DOMAIN ts : OfDepth(ts[k], s, p)
           /\ \A s \in Sides, p \in Quotes, q \in Nat :
                 Says(m, s, p, q) => \A k \in DOMAIN ts : OfDepth(ts[k], s, p) => ts[k].qty = q
<1> DEFINE a == Emit(m.bids, "bid")
           b == Emit(m.asks, "ask")
           ts == a \o b
<1>1. /\ a \in Seq(Ticks) /\ DOMAIN a = DOMAIN m.bids /\ Len(a) = Len(m.bids)
      /\ \A i \in DOMAIN m.bids : a[i] = [side |-> "bid", price |-> m.bids[i][1], qty |-> m.bids[i][2],
                                          flags |-> 0]
  BY EmitsTicks DEF Sides
<1>2. /\ b \in Seq(Ticks) /\ DOMAIN b = DOMAIN m.asks /\ Len(b) = Len(m.asks)
      /\ \A i \in DOMAIN m.asks : b[i] = [side |-> "ask", price |-> m.asks[i][1], qty |-> m.asks[i][2],
                                          flags |-> 0]
  BY EmitsTicks DEF Sides
<1> HIDE DEF a, b
<1>3. /\ ts \in Seq(Ticks) /\ DOMAIN ts = 1 .. Len(a) + Len(b)
      /\ \A k \in 1 .. Len(a) : ts[k] = a[k]
      /\ \A k \in 1 .. Len(b) : ts[Len(a) + k] = b[k]
  <2>1. a \in Seq(Ticks) /\ b \in Seq(Ticks)
    BY <1>1, <1>2
  <2>2. QED
    BY <2>1, ConcatAt
<1>4. /\ Len(a) \in Nat /\ Len(b) \in Nat
      /\ DOMAIN m.bids = 1 .. Len(a) /\ DOMAIN m.asks = 1 .. Len(b)
  BY <1>1, <1>2
<1> HIDE DEF ts
<1>5. \A k \in DOMAIN ts : k \in 1 .. Len(a) \/ \E l \in 1 .. Len(b) : k = Len(a) + l
  <2> TAKE k \in DOMAIN ts
  <2>1. k \in 1 .. Len(a) \/ (k - Len(a) \in 1 .. Len(b) /\ k = Len(a) + (k - Len(a)))
    BY <1>3, <1>4
  <2>2. QED
    BY <2>1
<1>6. \A k \in 1 .. Len(a) : /\ k \in DOMAIN ts /\ k \in DOMAIN m.bids
                             /\ ts[k].flags = 0 /\ LevelOf(ts[k]) = <<"bid", m.bids[k][1]>>
                             /\ ts[k].qty = m.bids[k][2]
  <2> TAKE k \in 1 .. Len(a)
  <2>1. k \in DOMAIN ts /\ k \in DOMAIN m.bids
    BY <1>3, <1>4
  <2>2. ts[k] = [side |-> "bid", price |-> m.bids[k][1], qty |-> m.bids[k][2], flags |-> 0]
    BY <1>1, <1>3, <2>1
  <2>3. QED
    BY <2>1, <2>2 DEF LevelOf, SideOf
<1>7. \A l \in 1 .. Len(b) : /\ Len(a) + l \in DOMAIN ts /\ l \in DOMAIN m.asks
                             /\ ts[Len(a) + l].flags = 0 /\ LevelOf(ts[Len(a) + l]) = <<"ask", m.asks[l][1]>>
                             /\ ts[Len(a) + l].qty = m.asks[l][2]
  <2> TAKE l \in 1 .. Len(b)
  <2>1. Len(a) + l \in DOMAIN ts /\ l \in DOMAIN m.asks
    BY <1>3, <1>4
  <2>2. ts[Len(a) + l] = [side |-> "ask", price |-> m.asks[l][1], qty |-> m.asks[l][2], flags |-> 0]
    BY <1>2, <1>3, <2>1
  <2>3. QED
    BY <2>1, <2>2 DEF LevelOf, SideOf
<1>8. ASSUME NEW s \in Sides, NEW p \in Quotes
      PROVE  Mentions(m, s, p) <=> \E k \in DOMAIN ts : OfDepth(ts[k], s, p)
  <2>1. CASE s = "bid"
    <3>1. Mentions(m, s, p) <=> \E i \in 1 .. Len(a) : m.bids[i][1] = p
      BY <1>4, <2>1 DEF Mentions, LevelsIn
    <3>2. \A l \in 1 .. Len(b) : ~ OfDepth(ts[Len(a) + l], s, p)
      BY <1>7, <2>1 DEF OfDepth
    <3>3. \A k \in 1 .. Len(a) : OfDepth(ts[k], s, p) <=> m.bids[k][1] = p
      BY <1>6, <2>1 DEF OfDepth
    <3>4. QED
      BY <1>5, <1>6, <3>1, <3>2, <3>3
  <2>2. CASE s = "ask"
    <3>1. Mentions(m, s, p) <=> \E i \in 1 .. Len(b) : m.asks[i][1] = p
      BY <1>4, <2>2 DEF Mentions, LevelsIn
    <3>2. \A k \in 1 .. Len(a) : ~ OfDepth(ts[k], s, p)
      BY <1>6, <2>2 DEF OfDepth
    <3>3. \A l \in 1 .. Len(b) : OfDepth(ts[Len(a) + l], s, p) <=> m.asks[l][1] = p
      BY <1>7, <2>2 DEF OfDepth
    <3>4. QED
      BY <1>5, <1>7, <3>1, <3>2, <3>3
  <2>3. QED
    BY <2>1, <2>2 DEF Sides
<1>9. ASSUME NEW s \in Sides, NEW p \in Quotes, NEW q \in Nat, Says(m, s, p, q),
             NEW k \in DOMAIN ts, OfDepth(ts[k], s, p)
      PROVE  ts[k].qty = q
  <2>1. CASE k \in 1 .. Len(a)
    <3>1. s = "bid" /\ p = m.bids[k][1]
      BY <1>6, <1>9, <2>1 DEF OfDepth
    <3>2. QED
      BY <1>6, <1>9, <2>1, <3>1 DEF Says, LevelsIn
  <2>2. CASE \E l \in 1 .. Len(b) : k = Len(a) + l
    <3>1. PICK l \in 1 .. Len(b) : k = Len(a) + l
      BY <2>2
    <3>2. s = "ask" /\ p = m.asks[l][1]
      BY <1>7, <1>9, <3>1 DEF OfDepth
    <3>3. QED
      BY <1>7, <1>9, <3>1, <3>2 DEF Says, LevelsIn
  <2>3. QED
    BY <1>5, <2>1, <2>2
<1>10. QED
  BY <1>3, <1>8, <1>9 DEF ts, a, b

Parsed(m) == CASE feed = "binance" -> BinanceMessage(m)
               [] feed = "okx" -> OkxMessage(m)
               [] feed = "binance_mux" -> BinanceProtocol(m)
               [] feed = "okx_mux" -> OkxProtocol(m)

\* What a parser makes of a message: a book message's levels, or no depth tick at all.
LEMMA ParserTicks ==
    ASSUME NEW m \in Messages, m.channel \in Channels,
           feed \in {"binance", "okx", "binance_mux", "okx_mux"}
    PROVE  /\ Parsed(m) \in Seq(Ticks)
           /\ \A s \in Sides, p \in Quotes :
                 Mentions(m, s, p) <=> \E k \in DOMAIN Parsed(m) : OfDepth(Parsed(m)[k], s, p)
           /\ \A s \in Sides, p \in Quotes, q \in Nat :
                 Mentions(m, s, p) /\ Says(m, s, p, q)
                 => \A k \in DOMAIN Parsed(m) : OfDepth(Parsed(m)[k], s, p) => Parsed(m)[k].qty = q
<1> DEFINE trade == <<[side |-> IF m.buy THEN "bid" ELSE "trade", price |-> m.price, qty |-> m.qty,
                       flags |-> 1]>>
<1> USE MessageParts DEF Channels, BookChannels
<1>1. \/ m.channel \in BookChannels /\ Parsed(m) = Emit(m.bids, "bid") \o Emit(m.asks, "ask")
      \/ m.channel = "trades" /\ Parsed(m) = trade
      \/ m.channel = "ticker" /\ Parsed(m) = <<>>
  <2>1. CASE feed = "binance"
    BY <2>1 DEF Parsed, BinanceSubscribe, BinanceMessage, ParseDepthUpdate, ParseTrade
  <2>2. CASE feed = "okx"
    BY <2>2 DEF Parsed, OkxSubscribe, OkxMessage, ParseBooks5, OkxParseTrade, ParseTrade
  <2>3. CASE feed = "binance_mux"
    BY <2>3 DEF Parsed, BinanceSubscribeRequest, BinanceProtocol, ProtocolDepthUpdate, ProtocolTrade, ParseTrade
  <2>4. CASE feed = "okx_mux"
    BY <2>4 DEF Parsed, OkxSubscribeRequest, OkxProtocol, ProtocolBooks5, OkxProtocolTrade, ParseTrade
  <2>5. QED
    BY <2>1, <2>2, <2>3, <2>4
<1>2. CASE m.channel \in BookChannels /\ Parsed(m) = Emit(m.bids, "bid") \o Emit(m.asks, "ask")
  BY <1>2, BookTicks
<1>3. CASE m.channel = "trades" /\ Parsed(m) = trade
  <2>1. Parsed(m) \in Seq(Ticks) /\ DOMAIN Parsed(m) = {1} /\ Parsed(m)[1].flags = 1
    BY <1>3 DEF Ticks
  <2>2. \A s \in Sides, p \in Quotes : ~ Mentions(m, s, p)
    BY <1>3 DEF Mentions
  <2>3. \A s \in Sides, p \in Quotes, k \in DOMAIN Parsed(m) : ~ OfDepth(Parsed(m)[k], s, p)
    BY <2>1 DEF OfDepth
  <2>4. QED
    BY <2>1, <2>2, <2>3
<1>4. CASE m.channel = "ticker" /\ Parsed(m) = <<>>
  <2>1. \A s \in Sides, p \in Quotes : ~ Mentions(m, s, p)
    BY <1>4 DEF Mentions
  <2>2. Parsed(m) \in Seq(Ticks) /\ DOMAIN Parsed(m) = {}
    BY <1>4
  <2>3. QED
    BY <2>1, <2>2
<1>5. QED
  BY <1>1, <1>2, <1>3, <1>4

-----------------------------------------------------------------------------
(* TickPipeline: a level on its way from the exchange to the book *)

\* BookMatchesFeed speaks of a quiet pipeline only.  What is invariant is where the present quantity
\* q of a level is: in the last message of the inbox that mentions the level; or, when none does, in
\* every tick of the message being parsed that is for it; or, when there is none, and the last one
\* was neither dropped nor followed by a trade's, in the last tick for it in the queue; or in the
\* book.
LastTold(ms, s, p, q) ==
    \A k \in DOMAIN ms :
        Mentions(ms[k], s, p) /\ (\A l \in k + 1 .. Len(ms) : ~ Mentions(ms[l], s, p)) => Says(ms[k], s, p, q)
NoneTold(ms, s, p) == \A k \in DOMAIN ms : ~ Mentions(ms[k], s, p)

AllTicked(ts, s, p, q) == \A k \in DOMAIN ts : OfDepth(ts[k], s, p) => ts[k].qty = q
NoneTicked(ts, s, p) == \A k \in DOMAIN ts : ~ OfDepth(ts[k], s, p)

LastPiped(pp, s, p, q) ==
    \A k \in DOMAIN pp :
        LevelOf(pp[k]) = <<s, p>> /\ (\A l \in k + 1 .. Len(pp) : LevelOf(pp[l]) # <<s, p>>) => pp[k].qty = q
NonePiped(pp, s, p) == \A k \in DOMAIN pp : LevelOf(pp[k]) # <<s, p>>

Settled(s, p, q) == /\ LastPiped(pipe, s, p, q)
                    /\ NonePiped(pipe, s, p) => book[s][p] = q

OnItsWay(s, p, q) ==
    /\ LastTold(inbox, s, p, q)
    /\ NoneTold(inbox, s, p) =>
          /\ AllTicked(ticks, s, p, q)
          /\ NoneTicked(ticks, s, p) /\ <<s, p>> \notin lost \cup traded => Settled(s, p, q)

PipelineInv ==
    /\ feed \in {"binance", "okx", "binance_mux", "okx_mux"}
    /\ market \in Books
    /\ DOMAIN book = Sides /\ \A s \in Sides : DOMAIN book[s] = Quotes
    /\ inbox \in Seq(Messages) /\ \A k \in DOMAIN inbox : inbox[k].channel \in Channels
    /\ ticks \in Seq(Ticks) /\ pipe \in Seq(Ticks)
    /\ \A s \in Sides : \A p \in Told(s) : OnItsWay(s, p, market[s][p])

\* A message at the end of the inbox, one that mentions the level or one that does not.
LEMMA AppendTold ==
    ASSUME NEW ms \in Seq(Messages), NEW m \in Messages, NEW s \in Sides, NEW p \in Quotes, NEW q \in Nat,
           Mentions(m, s, p), Says(m, s, p, q)
    PROVE  LastTold(Append(ms, m), s, p, q) /\ ~ NoneTold(Append(ms, m), s, p)
<1> DEFINE ns == Append(ms, m)
           n == Len(ms)
<1>1. n \in Nat /\ Len(ns) = n + 1 /\ DOMAIN ns = 1 .. n + 1 /\ ns[n + 1] = m
  OBVIOUS
<1> HIDE DEF ns, n
<1>2. ASSUME NEW k \in DOMAIN ns, \A l \in k + 1 .. Len(ns) : ~ Mentions(ns[l], s, p)
      PROVE  Says(ns[k], s, p, q)
  <2>1. k = n + 1
    <3> SUFFICES ASSUME k # n + 1 PROVE FALSE
      OBVIOUS
    <3>1. n + 1 \in k + 1 .. Len(ns)
      BY <1>1
    <3>2. QED
      BY <1>1, <1>2, <3>1
  <2>2. QED
    BY <1>1, <2>1
<1>3. LastTold(ns, s, p, q)
  BY <1>2 DEF LastTold
<1>4. ~ NoneTold(ns, s, p)
  <2>1. n + 1 \in DOMAIN ns
    BY <1>1
  <2>2. QED
    BY <1>1, <2>1 DEF NoneTold
<1>5. QED
  BY <1>3, <1>4 DEF ns

LEMMA AppendUntold ==
    ASSUME NEW ms \in Seq(Messages), NEW m \in Messages, NEW s \in Sides, NEW p \in Quotes, NEW q \in Nat,
           ~ Mentions(m, s, p), LastTold(ms, s, p, q)
    PROVE  LastTold(Append(ms, m), s, p, q) /\ (NoneTold(Append(ms, m), s, p) => NoneTold(ms, s, p))
<1> DEFINE ns == Append(ms, m)
           n == Len(ms)
<1>1. /\ n \in Nat /\ Len(ns) = n + 1 /\ DOMAIN ns = 1 .. n + 1 /\ ns[n + 1] = m /\ DOMAIN ms = 1 .. n
      /\ \A k \in 1 .. n : ns[k] = ms[k]
  OBVIOUS
<1> HIDE DEF ns
<1>2. ASSUME NEW k \in DOMAIN ns, Mentions(ns[k], s, p),
             \A l \in k + 1 .. Len(ns) : ~ Mentions(ns[l], s, p)
      PROVE  Says(ns[k], s, p, q)
  <2>1. k \in DOMAIN ms /\ ns[k] = ms[k]
    BY <1>1, <1>2
  <2>2. \A l \in k + 1 .. Len(ms) : l \in k + 1 .. Len(ns) /\ ns[l] = ms[l]
    BY <1>1, <2>1
  <2>3. \A l \in k + 1 .. Len(ms) : ~ Mentions(ms[l], s, p)
    BY <1>2, <2>2
  <2>4. QED
    BY <1>2, <2>1, <2>3 DEF LastTold
<1>3. LastTold(ns, s, p, q)
  BY <1>2 DEF LastTold
<1>4. NoneTold(ns, s, p) => NoneTold(ms, s, p)
  <2>1. \A k \in DOMAIN ms : k \in DOMAIN ns /\ ns[k] = ms[k]
    BY <1>1
  <2>2. QED
    BY <2>1 DEF NoneTold
<1>5. QED
  BY <1>3, <1>4 DEF ns

\* The message for a new state of the market gives quantities of that state, and has the level if
\* the channel shows it and it changed.
LEMMA BookMessageTells ==
    ASSUME NEW new \in Books, market \in Books, feed \in {"binance", "okx", "binance_mux", "okx_mux"}
    PROVE  LET m == BookMessage(new) IN
           /\ m \in Messages /\ m.channel \in Channels
           /\ \A s \in Sides, p \in Quotes : Says(m, s, p, new[s][p])
           /\ "depth" \in Channels => \A s \in Sides, p \in Quotes : new[s][p] # market[s][p] => Mentions(m, s, p)
           /\ "depth" \notin Channels => \A s \in Sides : \A p \in Shown(new, s) : Mentions(m, s, p)
<1> DEFINE m == BookMessage(new)
           changed(s) == {p \in Quotes : new[s][p] # market[s][p]}
           told(s) == IF "depth" \in Channels THEN changed(s) ELSE Shown(new, s)
<1>1. /\ m.channel \in BookChannels /\ m.channel \in Channels
      /\ m = [channel |-> m.channel, bids |-> LevelsOf(new, "bid", told("bid")),
              asks |-> LevelsOf(new, "ask", told("ask"))]
  <2> USE DEF BookChannels
  <2>1. CASE feed = "binance"
    <3>1. "depth" \in Channels /\ m = Depth(new)
      BY <2>1 DEF Channels, BinanceSubscribe, BookMessage
    <3>2. QED
      BY <3>1 DEF Depth
  <2>2. CASE feed = "binance_mux"
    <3>1. "depth" \notin Channels /\ "depth5" \in Channels /\ "books5" \notin Channels
      BY <2>2 DEF Channels, BinanceSubscribeRequest
    <3>2. m = Top("depth5", new)
      BY <3>1 DEF BookMessage
    <3>3. QED
      BY <3>1, <3>2 DEF Top
  <2>3. CASE feed \in {"okx", "okx_mux"}
    <3>1. "depth" \notin Channels /\ "depth5" \notin Channels /\ "books5" \in Channels
      BY <2>3 DEF Channels, OkxSubscribe, OkxSubscribeRequest
    <3>2. m = Top("books5", new)
      BY <3>1 DEF BookMessage
    <3>3. QED
      BY <3>1, <3>2 DEF Top
  <2>4. QED
    BY <2>1, <2>2, <2>3
<1>2. \A s \in Sides : told(s) \in SUBSET Quotes
  BY DEF Shown, Levels
<1>3. \A s \in Sides : LevelsIn(m, s) = LevelsOf(new, s, told(s))
  <2>1. LevelsIn(m, "bid") = LevelsOf(new, "bid", told("bid")) /\ LevelsIn(m, "ask") = LevelsOf(new, "ask", told("ask"))
    <3> HIDE DEF told, m
    <3>1. QED
      BY <1>1 DEF LevelsIn
  <2>2. QED
    BY <2>1 DEF Sides
<1> HIDE DEF m
<1>4. ASSUME NEW s \in Sides
      PROVE  /\ LevelsIn(m, s) \in LevelSeqs
             /\ \A i \in DOMAIN LevelsIn(m, s) : LevelsIn(m, s)[i][2] = new[s][LevelsIn(m, s)[i][1]]
             /\ \A p \in told(s) : \E i \in DOMAIN LevelsIn(m, s) : LevelsIn(m, s)[i][1] = p
  <2> HIDE DEF told
  <2>1. QED
    BY <1>2, <1>3, LevelsOfAll, SMTT(60) DEF LevelSeqs
<1>5. m \in Messages
  <2>1. m = [channel |-> m.channel, bids |-> LevelsIn(m, "bid"), asks |-> LevelsIn(m, "ask")]
    <3> HIDE DEF told
    <3>1. QED
      BY <1>1, <1>3 DEF Sides
  <2>2. LevelsIn(m, "bid") \in LevelSeqs /\ LevelsIn(m, "ask") \in LevelSeqs
    BY <1>4 DEF Sides
  <2>3. QED
    BY <1>1, <2>1, <2>2 DEF Messages
<1>6. \A s \in Sides, p \in Quotes : Says(m, s, p, new[s][p])
  BY <1>4 DEF Says
<1>7. \A s \in Sides : \A p \in told(s) : Mentions(m, s, p)
  <2> HIDE DEF told
  <2>1. QED
    BY <1>1, <1>4 DEF Mentions
<1>8. QED
  BY <1>1, <1>5, <1>6, <1>7 DEF m

LEMMA ShownAreQuotes == ASSUME NEW s PROVE Told(s) \in SUBSET Quotes
  BY DEF Told, Shown, Levels

\* The market moves: after what is in the inbox, ms, comes the message about the new state.
LEMMA MoveKeepsPipeline ==
    ASSUME PipelineInv, NEW new \in Books, NEW ms \in Seq(Messages),
           \A k \in DOMAIN ms : ms[k].channel \in Channels,
           \A s \in Sides, p \in Quotes, q \in Nat :
               LastTold(inbox, s, p, q) => /\ LastTold(ms, s, p, q)
                                           /\ NoneTold(ms, s, p) => NoneTold(inbox, s, p),
           market' = new, inbox' = Append(ms, BookMessage(new)),
           UNCHANGED <<feed, ticks, pipe, book, lost, traded>>
    PROVE  PipelineInv'
<1> DEFINE m == BookMessage(new)
<1>1. feed \in {"binance", "okx", "binance_mux", "okx_mux"} /\ market \in Books
  BY DEF PipelineInv
<1>2. /\ m \in Messages /\ m.channel \in Channels
      /\ \A s \in Sides, p \in Quotes : Says(m, s, p, new[s][p])
      /\ "depth" \in Channels => \A s \in Sides, p \in Quotes : new[s][p] # market[s][p] => Mentions(m, s, p)
      /\ "depth" \notin Channels => \A s \in Sides : \A p \in Shown(new, s) : Mentions(m, s, p)
  BY <1>1, BookMessageTells
<1>3. Channels' = Channels
  BY DEF Channels
<1>4. /\ inbox' \in Seq(Messages)
      /\ \A k \in DOMAIN inbox' : inbox'[k].channel \in Channels'
  <2> HIDE DEF m
  <2>1. Append(ms, m) \in Seq(Messages) /\ DOMAIN Append(ms, m) = 1 .. Len(ms) + 1 /\ DOMAIN ms = 1 .. Len(ms)
        /\ Len(ms) \in Nat
        /\ (\A k \in 1 .. Len(ms) : Append(ms, m)[k] = ms[k]) /\ Append(ms, m)[Len(ms) + 1] = m
    BY <1>2
  <2>2. inbox' = Append(ms, m)
    BY DEF m
  <2>3. ASSUME NEW k \in 1 .. Len(ms) + 1  PROVE inbox'[k].channel \in Channels
    <3>1. CASE k = Len(ms) + 1
      BY <1>2, <2>1, <2>2, <3>1
    <3>2. CASE k \in 1 .. Len(ms)
      BY <2>1, <2>2, <3>2
    <3>3. QED
      BY <2>1, <3>1, <3>2
  <2>4. QED
    BY <1>3, <2>1, <2>2, <2>3
<1>5. ASSUME NEW s \in Sides, NEW p \in Told(s)'  PROVE OnItsWay(s, p, new[s][p])'
  <2>1. p \in Quotes
    BY <1>3, <1>5 DEF Told, Shown, Levels
  <2>2. new[s][p] \in Nat
    <3>1. new[s][p] \in 0 .. MaxLot /\ 0 .. MaxLot \subseteq Nat
      BY <2>1, FeedsAssumption DEF Books
    <3>2. QED
      BY <3>1
  <2>3. CASE Mentions(m, s, p)
    <3>1. LastTold(inbox', s, p, new[s][p]) /\ ~ NoneTold(inbox', s, p)
      <4>1. inbox' = Append(ms, m)
        OBVIOUS
      <4> HIDE DEF m
      <4>2. QED
        BY <1>2, <2>1, <2>2, <2>3, <4>1, AppendTold
    <3>2. QED
      BY <3>1 DEF OnItsWay
  <2>4. CASE ~ Mentions(m, s, p)
    <3>1. "depth" \in Channels /\ new[s][p] = market[s][p] /\ p \in Told(s)
      <4>1. "depth" \in Channels
        <5> SUFFICES ASSUME "depth" \notin Channels PROVE FALSE
          OBVIOUS
        <5>1. p \in Shown(new, s)
          BY <1>3, <1>5 DEF Told, Shown, Levels
        <5> HIDE DEF m
        <5>2. QED
          BY <1>2, <2>4, <5>1
      <4> HIDE DEF m
      <4>2. QED
        BY <1>2, <2>1, <2>4, <4>1 DEF Told
    <3>2. OnItsWay(s, p, new[s][p])
      BY <3>1 DEF PipelineInv
    <3>3. LastTold(ms, s, p, new[s][p]) /\ (NoneTold(ms, s, p) => NoneTold(inbox, s, p))
      BY <2>1, <2>2, <3>2 DEF OnItsWay
    <3>4. /\ LastTold(inbox', s, p, new[s][p])
          /\ NoneTold(inbox', s, p) => NoneTold(inbox, s, p)
      <4>1. inbox' = Append(ms, m)
        OBVIOUS
      <4> HIDE DEF m
      <4>2. QED
        BY <1>2, <2>1, <2>2, <2>4, <3>3, <4>1, AppendUntold
    <3>5. QED
      BY <3>2, <3>4 DEF OnItsWay, Settled
  <2>5. QED
    BY <2>3, <2>4
<1>6. QED
  BY <1>1, <1>4, <1>5 DEF PipelineInv

LEMMA RequoteKeepsPipeline == ASSUME PipelineInv, Requote PROVE PipelineInv'
<1>1. PICK new \in Markets : Moved(new) /\ inbox' = Append(inbox, BookMessage(new))
  BY DEF Requote
<1>2. new \in Books
  BY DEF Markets
<1>3. market' = new /\ UNCHANGED <<feed, ticks, pipe, book, lost, traded>>
  BY <1>1 DEF Moved
<1>4. inbox \in Seq(Messages) /\ \A k \in DOMAIN inbox : inbox[k].channel \in Channels
  BY DEF PipelineInv
<1>5. QED
  BY <1>1, <1>2, <1>3, <1>4, MoveKeepsPipeline

LEMMA DealKeepsPipeline == ASSUME PipelineInv, NEW s \in Sides, Deal(s) PROVE PipelineInv'
<1> DEFINE new(p) == [market EXCEPT ![s][p] = @ - 1]
           trade(p) == [channel |-> "trades", buy |-> s = "ask", price |-> p, qty |-> 1]
<1>1. PICK p \in Levels(market, s) : Moved(new(p)) /\ inbox' = inbox \o <<trade(p), BookMessage(new(p))>>
  BY DEF Deal
<1>2. p \in Quotes /\ market[s][p] > 0 /\ market \in Books
  BY DEF Levels, PipelineInv
<1>3. new(p) \in Books
  <2>1. market[s][p] - 1 \in 0 .. MaxLot
    BY <1>2, FeedsAssumption DEF Books
  <2>2. QED
    BY <1>2, <2>1 DEF Books
<1>4. market' = new(p) /\ UNCHANGED <<feed, ticks, pipe, book, lost, traded>>
  BY <1>1 DEF Moved
<1>5. /\ inbox \in Seq(Messages) /\ \A k \in DOMAIN inbox : inbox[k].channel \in Channels
      /\ feed \in {"binance", "okx", "binance_mux", "okx_mux"}
  BY DEF PipelineInv
<1>6. trade(p) \in Messages /\ trade(p).channel = "trades" /\ "trades" \in Channels
  BY <1>2, <1>5 DEF Messages, Channels, BinanceSubscribe, OkxSubscribe, BinanceSubscribeRequest, OkxSubscribeRequest
<1>7. BookMessage(new(p)) \in Messages
  <2> HIDE DEF new
  <2>1. QED
    BY <1>2, <1>3, <1>5, BookMessageTells
<1> DEFINE ms == Append(inbox, trade(p))
<1>8. inbox' = Append(ms, BookMessage(new(p)))
  <2> HIDE DEF new, trade
  <2>1. QED
    BY <1>1, <1>5, <1>6, <1>7
<1>9. ms \in Seq(Messages) /\ \A k \in DOMAIN ms : ms[k].channel \in Channels
  <2> HIDE DEF trade
  <2>1. ms \in Seq(Messages) /\ DOMAIN ms = 1 .. Len(inbox) + 1 /\ DOMAIN inbox = 1 .. Len(inbox)
        /\ Len(inbox) \in Nat
        /\ (\A k \in 1 .. Len(inbox) : ms[k] = inbox[k]) /\ ms[Len(inbox) + 1] = trade(p)
    BY <1>5, <1>6
  <2> HIDE DEF ms
  <2>2. ASSUME NEW k \in 1 .. Len(inbox) + 1  PROVE ms[k].channel \in Channels
    <3>1. CASE k = Len(inbox) + 1
      BY <1>6, <2>1, <3>1
    <3>2. CASE k \in 1 .. Len(inbox)
      BY <1>5, <2>1, <3>2
    <3>3. QED
      BY <2>1, <3>1, <3>2
  <2>3. QED
    BY <2>1, <2>2
<1>10. \A r \in Sides, x \in Quotes, q \in Nat :
           LastTold(inbox, r, x, q) => /\ LastTold(ms, r, x, q)
                                       /\ NoneTold(ms, r, x) => NoneTold(inbox, r, x)
  <2>1. \A r \in Sides, x \in Quotes : ~ Mentions(trade(p), r, x)
    BY <1>6 DEF Mentions, BookChannels
  <2> HIDE DEF trade
  <2>2. QED
    BY <1>5, <1>6, <2>1, AppendUntold
<1> HIDE DEF new, ms
<1>11. QED
  BY <1>3, <1>4, <1>8, <1>9, <1>10, MoveKeepsPipeline

LEMMA TickerKeepsPipeline == ASSUME PipelineInv, Ticker PROVE PipelineInv'
<1> DEFINE m == [channel |-> "ticker"]
<1>1. /\ "ticker" \in Channels /\ inbox = <<>> /\ inbox' = <<m>>
      /\ UNCHANGED <<feed, market, ticks, pipe, book, lost, traded>>
  BY DEF Ticker
<1>2. m \in Messages /\ \A s \in Sides, p \in Quotes : ~ Mentions(m, s, p)
  BY DEF Messages, Mentions, BookChannels
<1>3. Channels' = Channels /\ \A s \in Sides : Told(s)' = Told(s)
  BY <1>1 DEF Channels, Told
<1>4. inbox' \in Seq(Messages) /\ \A k \in DOMAIN inbox' : inbox'[k].channel \in Channels'
  BY <1>1, <1>2, <1>3
<1>5. ASSUME NEW s \in Sides, NEW p \in Told(s)'  PROVE OnItsWay(s, p, market[s][p])'
  <2>1. p \in Told(s) /\ p \in Quotes
    BY <1>3, <1>5, ShownAreQuotes
  <2>2. OnItsWay(s, p, market[s][p])
    BY <2>1 DEF PipelineInv
  <2>3. NoneTold(inbox, s, p) /\ NoneTold(inbox', s, p)
    <3>1. DOMAIN inbox = {} /\ DOMAIN inbox' = {1} /\ inbox'[1] = m
      BY <1>1
    <3> HIDE DEF m
    <3>2. QED
      BY <1>2, <2>1, <3>1 DEF NoneTold
  <2>4. LastTold(inbox', s, p, market[s][p])
    BY <2>3 DEF LastTold, NoneTold
  <2>5. QED
    BY <1>1, <2>2, <2>3, <2>4 DEF OnItsWay, Settled
<1>6. QED
  BY <1>1, <1>4, <1>5 DEF PipelineInv

\* Without its first message, the inbox tells the same unless that was the only one to tell.
LEMMA TailTold ==
    ASSUME NEW ms \in Seq(Messages), ms # <<>>, NEW s \in Sides, NEW p \in Quotes, NEW q \in Nat,
           LastTold(ms, s, p, q)
    PROVE  /\ LastTold(Tail(ms), s, p, q)
           /\ NoneTold(Tail(ms), s, p) =>
                 \/ NoneTold(ms, s, p)
                 \/ Mentions(Head(ms), s, p) /\ Says(Head(ms), s, p, q)
<1> DEFINE n == Len(ms)
           ns == Tail(ms)
<1>1. /\ n \in Nat \ {0} /\ DOMAIN ms = 1 .. n /\ Len(ns) = n - 1 /\ DOMAIN ns = 1 .. n - 1
      /\ Head(ms) = ms[1] /\ \A k \in 1 .. n - 1 : ns[k] = ms[k + 1]
  OBVIOUS
<1> HIDE DEF ns
<1>2. LastTold(ns, s, p, q)
  <2> SUFFICES ASSUME NEW k \in DOMAIN ns, Mentions(ns[k], s, p),
                      \A l \in k + 1 .. Len(ns) : ~ Mentions(ns[l], s, p)
               PROVE  Says(ns[k], s, p, q)
    BY DEF LastTold
  <2>1. k + 1 \in DOMAIN ms /\ ms[k + 1] = ns[k]
    BY <1>1
  <2>2. ASSUME NEW l \in k + 2 .. n  PROVE ~ Mentions(ms[l], s, p)
    <3>1. l - 1 \in k + 1 .. Len(ns) /\ l - 1 \in 1 .. n - 1 /\ (l - 1) + 1 = l
      BY <1>1
    <3>2. ns[l - 1] = ms[l]
      BY <1>1, <3>1
    <3>3. QED
      BY <3>1, <3>2
  <2>3. \A l \in (k + 1) + 1 .. Len(ms) : l \in k + 2 .. n
    BY <1>1
  <2>4. QED
    BY <2>1, <2>2, <2>3 DEF LastTold
<1>3. ASSUME NoneTold(ns, s, p), ~ NoneTold(ms, s, p)
      PROVE  Mentions(Head(ms), s, p) /\ Says(Head(ms), s, p, q)
  <2>1. \A k \in 2 .. n : ~ Mentions(ms[k], s, p)
    <3> TAKE k \in 2 .. n
    <3>1. k - 1 \in DOMAIN ns /\ ns[k - 1] = ms[k]
      BY <1>1
    <3>2. QED
      BY <1>3, <3>1 DEF NoneTold
  <2>2. Mentions(ms[1], s, p)
    <3>1. PICK k \in DOMAIN ms : Mentions(ms[k], s, p)
      BY <1>3 DEF NoneTold
    <3>2. k = 1
      BY <1>1, <2>1, <3>1
    <3>3. QED
      BY <3>1, <3>2
  <2>3. 1 \in DOMAIN ms /\ \A l \in 1 + 1 .. Len(ms) : l \in 2 .. n
    BY <1>1
  <2>4. QED
    BY <1>1, <2>1, <2>2, <2>3 DEF LastTold
<1>4. QED
  BY <1>2, <1>3 DEF ns

LEMMA ReadKeepsPipeline == ASSUME PipelineInv, ReadMessage PROVE PipelineInv'
<1> DEFINE m == Head(inbox)
<1>1. /\ inbox # <<>> /\ ticks = <<>> /\ inbox' = Tail(inbox) /\ ticks' = Parsed(m)
      /\ UNCHANGED <<feed, market, pipe, book, lost, traded>>
  BY DEF ReadMessage, Parsed
<1>2. /\ inbox \in Seq(Messages) /\ \A k \in DOMAIN inbox : inbox[k].channel \in Channels
      /\ feed \in {"binance", "okx", "binance_mux", "okx_mux"} /\ market \in Books
  BY DEF PipelineInv
<1>3. m \in Messages /\ m.channel \in Channels
  <2>1. m = inbox[1] /\ 1 \in DOMAIN inbox /\ m \in Messages
    BY <1>1, <1>2
  <2> HIDE DEF m
  <2>2. QED
    BY <1>2, <2>1
<1> HIDE DEF m
<1>4. /\ Parsed(m) \in Seq(Ticks)
      /\ \A s \in Sides, p \in Quotes :
            Mentions(m, s, p) <=> \E k \in DOMAIN Parsed(m) : OfDepth(Parsed(m)[k], s, p)
      /\ \A s \in Sides, p \in Quotes, q \in Nat :
            Mentions(m, s, p) /\ Says(m, s, p, q)
            => \A k \in DOMAIN Parsed(m) : OfDepth(Parsed(m)[k], s, p) => Parsed(m)[k].qty = q
  BY <1>2, <1>3, ParserTicks
<1>5. Channels' = Channels /\ \A s \in Sides : Told(s)' = Told(s)
  BY <1>1 DEF Channels, Told
<1>6. inbox' \in Seq(Messages) /\ \A k \in DOMAIN inbox' : inbox'[k].channel \in Channels'
  <2>1. \A k \in DOMAIN Tail(inbox) : k + 1 \in DOMAIN inbox /\ Tail(inbox)[k] = inbox[k + 1]
    BY <1>1, <1>2
  <2>2. Tail(inbox) \in Seq(Messages)
    BY <1>1, <1>2
  <2>3. QED
    BY <1>1, <1>2, <1>5, <2>1, <2>2
<1>7. ASSUME NEW s \in Sides, NEW p \in Told(s)'  PROVE OnItsWay(s, p, market[s][p])'
  <2> DEFINE q == market[s][p]
  <2>1. p \in Told(s) /\ p \in Quotes
    BY <1>5, <1>7, ShownAreQuotes
  <2>2. q \in Nat
    <3>1. q \in 0 .. MaxLot /\ 0 .. MaxLot \subseteq Nat
      BY <1>2, <2>1, FeedsAssumption DEF Books
    <3>2. QED
      BY <3>1
  <2>3. OnItsWay(s, p, q)
    BY <2>1 DEF PipelineInv
  <2>4. q' = q
    BY <1>1
  <2> HIDE DEF q
  <2>5. /\ LastTold(inbox', s, p, q)
        /\ NoneTold(inbox', s, p) => \/ NoneTold(inbox, s, p)
                                     \/ Mentions(m, s, p) /\ Says(m, s, p, q)
    <3>1. LastTold(inbox, s, p, q)
      BY <2>3 DEF OnItsWay
    <3>2. QED
      BY <1>1, <1>2, <2>1, <2>2, <3>1, TailTold DEF m
  <2>6. ASSUME NoneTold(inbox, s, p)
        PROVE  /\ AllTicked(ticks', s, p, q)
               /\ NoneTicked(ticks', s, p) /\ <<s, p>> \notin (lost \cup traded)' => Settled(s, p, q)'
    <3>1. ~ Mentions(m, s, p)
      <4>1. m = inbox[1] /\ 1 \in DOMAIN inbox
        BY <1>1, <1>2 DEF m
      <4>2. QED
        BY <2>6, <4>1 DEF NoneTold
    <3>2. \A k \in DOMAIN ticks' : ~ OfDepth(ticks'[k], s, p)
      BY <1>1, <1>4, <2>1, <3>1
    <3>3. AllTicked(ticks', s, p, q)
      BY <3>2 DEF AllTicked
    <3>4. NoneTicked(ticks, s, p)
      BY <1>1 DEF NoneTicked
    <3>5. <<s, p>> \notin lost \cup traded => Settled(s, p, q)
      BY <2>3, <2>6, <3>4 DEF OnItsWay
    <3>6. QED
      BY <1>1, <2>4, <3>3, <3>5 DEF Settled
  <2>7. ASSUME Mentions(m, s, p), Says(m, s, p, q)
        PROVE  AllTicked(ticks', s, p, q) /\ ~ NoneTicked(ticks', s, p)
    BY <1>1, <1>4, <2>1, <2>2, <2>7 DEF AllTicked, NoneTicked
  <2>8. OnItsWay(s, p, q)'
    BY <2>4, <2>5, <2>6, <2>7 DEF OnItsWay
  <2>9. QED
    BY <2>8 DEF q
<1>8. QED
  BY <1>1, <1>2, <1>4, <1>6, <1>7 DEF PipelineInv

\* A tick that is pushed is the last one in the queue for its level; one for another level changes
\* nothing for this one.
LEMMA AppendPiped ==
    ASSUME NEW pp \in Seq(Ticks), NEW t \in Ticks, NEW s \in Sides, NEW p \in Quotes, NEW q \in Nat
    PROVE  LET np == Append(pp, t) IN
           /\ LevelOf(t) = <<s, p>> /\ t.qty = q => LastPiped(np, s, p, q) /\ ~ NonePiped(np, s, p)
           /\ LevelOf(t) # <<s, p>> /\ LastPiped(pp, s, p, q) =>
                 LastPiped(np, s, p, q) /\ (NonePiped(np, s, p) => NonePiped(pp, s, p))
<1> DEFINE np == Append(pp, t)
           n == Len(pp)
<1>1. /\ n \in Nat /\ Len(np) = n + 1 /\ DOMAIN np = 1 .. n + 1 /\ np[n + 1] = t /\ DOMAIN pp = 1 .. n
      /\ \A k \in 1 .. n : np[k] = pp[k]
  OBVIOUS
<1> HIDE DEF np
<1>2. ASSUME LevelOf(t) = <<s, p>>, t.qty = q  PROVE LastPiped(np, s, p, q) /\ ~ NonePiped(np, s, p)
  <2>1. n + 1 \in DOMAIN np /\ \A k \in DOMAIN np : k = n + 1 \/ n + 1 \in k + 1 .. Len(np)
    BY <1>1
  <2>2. QED
    BY <1>1, <1>2, <2>1 DEF LastPiped, NonePiped
<1>3. ASSUME LevelOf(t) # <<s, p>>, LastPiped(pp, s, p, q)
      PROVE  LastPiped(np, s, p, q) /\ (NonePiped(np, s, p) => NonePiped(pp, s, p))
  <2>1. \A k \in DOMAIN np : LevelOf(np[k]) = <<s, p>> =>
            k \in DOMAIN pp /\ np[k] = pp[k] /\ \A l \in k + 1 .. Len(pp) : l \in k + 1 .. Len(np) /\ np[l] = pp[l]
    BY <1>1, <1>3
  <2>2. LastPiped(np, s, p, q)
    BY <1>3, <2>1 DEF LastPiped
  <2>3. \A k \in DOMAIN pp : k \in DOMAIN np /\ np[k] = pp[k]
    BY <1>1
  <2>4. QED
    BY <2>2, <2>3 DEF NonePiped
<1>4. QED
  BY <1>2, <1>3 DEF np

LEMMA PushKeepsPipeline == ASSUME PipelineInv, PushTick PROVE PipelineInv'
<1> DEFINE t == Head(ticks)
           fits == Len(pipe) < PipeCap
<1>1. /\ ticks # <<>> /\ ticks' = Tail(ticks) /\ UNCHANGED <<feed, market, inbox, book>>
      /\ pipe' = IF fits THEN Append(pipe, t) ELSE pipe
      /\ lost' = IF fits THEN lost \ {LevelOf(t)} ELSE lost \cup {LevelOf(t)}
      /\ traded' = IF t.flags = 1 THEN traded \cup {LevelOf(t)} ELSE traded \ {LevelOf(t)}
  BY DEF PushTick
<1>2. ticks \in Seq(Ticks) /\ pipe \in Seq(Ticks) /\ market \in Books
  BY DEF PipelineInv
<1>3. /\ t \in Ticks /\ t.flags \in {0, 1} /\ t = ticks[1] /\ 1 \in DOMAIN ticks
      /\ Tail(ticks) \in Seq(Ticks)
      /\ \A k \in DOMAIN Tail(ticks) : k + 1 \in DOMAIN ticks /\ Tail(ticks)[k] = ticks[k + 1]
      /\ \A k \in DOMAIN ticks : k = 1 \/ (k - 1 \in DOMAIN Tail(ticks) /\ Tail(ticks)[k - 1] = ticks[k])
  <2>1. t \in Ticks /\ t = ticks[1] /\ 1 \in DOMAIN ticks /\ Tail(ticks) \in Seq(Ticks)
    BY <1>1, <1>2
  <2>2. \A k \in DOMAIN Tail(ticks) : k + 1 \in DOMAIN ticks /\ Tail(ticks)[k] = ticks[k + 1]
    BY <1>1, <1>2
  <2>3. \A k \in DOMAIN ticks : k = 1 \/ (k - 1 \in DOMAIN Tail(ticks) /\ Tail(ticks)[k - 1] = ticks[k])
    <3>1. /\ Len(ticks) \in Nat /\ DOMAIN ticks = 1 .. Len(ticks)
          /\ DOMAIN Tail(ticks) = 1 .. Len(ticks) - 1
      BY <1>1, <1>2
    <3>2. \A k \in DOMAIN ticks : k = 1 \/ (k - 1 \in DOMAIN Tail(ticks) /\ (k - 1) + 1 = k)
      BY <3>1
    <3>3. ASSUME NEW k \in DOMAIN ticks, k # 1
          PROVE  k - 1 \in DOMAIN Tail(ticks) /\ Tail(ticks)[k - 1] = ticks[k]
      <4>1. k - 1 \in DOMAIN Tail(ticks) /\ (k - 1) + 1 = k
        BY <3>2, <3>3
      <4>2. Tail(ticks)[k - 1] = ticks[(k - 1) + 1]
        BY <2>2, <4>1
      <4>3. QED
        BY <4>1, <4>2
    <3>4. QED
      BY <3>3
  <2> HIDE DEF t
  <2>4. t.flags \in {0, 1}
    BY <2>1 DEF Ticks
  <2>5. QED
    BY <2>1, <2>2, <2>3, <2>4
<1> HIDE DEF t, fits
<1>4. pipe' \in Seq(Ticks)
  <2>1. Append(pipe, t) \in Seq(Ticks)
    BY <1>2, <1>3
  <2>2. QED
    BY <1>1, <1>2, <2>1
<1>5. Channels' = Channels /\ \A s \in Sides : Told(s)' = Told(s)
  BY <1>1 DEF Channels, Told
<1>6. ASSUME NEW s \in Sides, NEW p \in Told(s)'  PROVE OnItsWay(s, p, market[s][p])'
  <2> DEFINE q == market[s][p]
  <2>1. p \in Told(s) /\ p \in Quotes
    BY <1>5, <1>6, ShownAreQuotes
  <2>2. q \in Nat
    <3>1. q \in 0 .. MaxLot /\ 0 .. MaxLot \subseteq Nat
      BY <1>2, <2>1, FeedsAssumption DEF Books
    <3>2. QED
      BY <3>1
  <2>3. OnItsWay(s, p, q)
    BY <2>1 DEF PipelineInv
  <2>4. q' = q
    BY <1>1
  <2> HIDE DEF q
  <2>5. SUFFICES ASSUME NoneTold(inbox, s, p)
                 PROVE  /\ AllTicked(ticks', s, p, q)
                        /\ NoneTicked(ticks', s, p) /\ <<s, p>> \notin (lost \cup traded)' => Settled(s, p, q)'
    <3>1. LastTold(inbox', s, p, q)
      BY <1>1, <2>3 DEF OnItsWay
    <3>2. QED
      BY <1>1, <2>4, <3>1 DEF OnItsWay, q
  <2>6. /\ AllTicked(ticks, s, p, q)
        /\ NoneTicked(ticks, s, p) /\ <<s, p>> \notin lost \cup traded => Settled(s, p, q)
    BY <2>3, <2>5 DEF OnItsWay
  <2>7. AllTicked(ticks', s, p, q)
    BY <1>1, <1>3, <2>6 DEF AllTicked
  <2>8. ASSUME NoneTicked(ticks', s, p), <<s, p>> \notin (lost \cup traded)'
        PROVE  Settled(s, p, q)'
    <3>1. CASE LevelOf(t) = <<s, p>>
      <4>1. fits /\ t.flags = 0
        BY <1>1, <1>3, <2>8, <3>1
      <4>2. t.qty = q
        BY <1>3, <2>6, <3>1, <4>1 DEF AllTicked, OfDepth
      <4>3. LastPiped(Append(pipe, t), s, p, q) /\ ~ NonePiped(Append(pipe, t), s, p)
        BY <1>2, <1>3, <2>1, <2>2, <3>1, <4>2, AppendPiped
      <4>4. QED
        BY <1>1, <2>4, <4>1, <4>3 DEF Settled
    <3>2. CASE LevelOf(t) # <<s, p>>
      <4>1. <<s, p>> \notin lost \cup traded
        BY <1>1, <2>8, <3>2
      <4>2. NoneTicked(ticks, s, p)
        <5> SUFFICES ASSUME NEW k \in DOMAIN ticks, OfDepth(ticks[k], s, p) PROVE FALSE
          BY DEF NoneTicked
        <5>1. CASE k = 1
          BY <1>3, <3>2, <5>1 DEF OfDepth
        <5>2. CASE k # 1
          BY <1>1, <1>3, <2>8, <5>2 DEF NoneTicked
        <5>3. QED
          BY <5>1, <5>2
      <4>3. Settled(s, p, q)
        BY <2>6, <4>1, <4>2
      <4>4. LastPiped(Append(pipe, t), s, p, q) /\ (NonePiped(Append(pipe, t), s, p) => NonePiped(pipe, s, p))
        BY <1>2, <1>3, <2>1, <2>2, <3>2, <4>3, AppendPiped DEF Settled
      <4>5. QED
        BY <1>1, <2>4, <4>3, <4>4 DEF Settled
    <3>3. QED
      BY <3>1, <3>2
  <2>9. QED
    BY <2>7, <2>8
<1>7. QED
  BY <1>1, <1>3, <1>4, <1>5, <1>6 DEF PipelineInv

LEMMA TakeKeepsPipeline == ASSUME PipelineInv, TakeTick PROVE PipelineInv'
<1> DEFINE t == Head(pipe)
<1>1. /\ pipe # <<>> /\ pipe' = Tail(pipe) /\ UNCHANGED <<feed, market, inbox, ticks, lost, traded>>
      /\ book' = [book EXCEPT ![SideOf(t)][t.price] = t.qty]
  BY DEF TakeTick
<1>2. /\ pipe \in Seq(Ticks) /\ market \in Books
      /\ DOMAIN book = Sides /\ \A s \in Sides : DOMAIN book[s] = Quotes
  BY DEF PipelineInv
<1> DEFINE n == Len(pipe)
<1>3. /\ t \in Ticks /\ t = pipe[1] /\ Tail(pipe) \in Seq(Ticks) /\ n \in Nat \ {0}
      /\ DOMAIN pipe = 1 .. n /\ Len(Tail(pipe)) = n - 1 /\ DOMAIN Tail(pipe) = 1 .. n - 1
      /\ \A k \in 1 .. n - 1 : Tail(pipe)[k] = pipe[k + 1]
  BY <1>1, <1>2
<1> HIDE DEF t
<1>4. SideOf(t) \in Sides /\ t.price \in Quotes
  BY <1>3 DEF SideOf, Sides, Ticks
<1>5. /\ DOMAIN book' = Sides /\ \A s \in Sides : DOMAIN book'[s] = Quotes
      /\ \A s \in Sides, p \in Quotes : book'[s][p] = IF LevelOf(t) = <<s, p>> THEN t.qty ELSE book[s][p]
  BY <1>1, <1>2, <1>4 DEF LevelOf
<1>6. Channels' = Channels /\ \A s \in Sides : Told(s)' = Told(s)
  BY <1>1 DEF Channels, Told
<1>7. ASSUME NEW s \in Sides, NEW p \in Told(s)'  PROVE OnItsWay(s, p, market[s][p])'
  <2> DEFINE q == market[s][p]
  <2>1. p \in Told(s) /\ p \in Quotes
    BY <1>6, <1>7, ShownAreQuotes
  <2>2. OnItsWay(s, p, q)
    BY <2>1 DEF PipelineInv
  <2>3. q' = q
    BY <1>1
  <2> HIDE DEF q
  <2>4. ASSUME Settled(s, p, q)  PROVE Settled(s, p, q)'
    <3> DEFINE np == Tail(pipe)
    <3>1. LastPiped(np, s, p, q)
      <4> SUFFICES ASSUME NEW k \in DOMAIN np, LevelOf(np[k]) = <<s, p>>,
                          \A l \in k + 1 .. Len(np) : LevelOf(np[l]) # <<s, p>>
                   PROVE  np[k].qty = q
        BY DEF LastPiped
      <4> HIDE DEF np
      <4>1. k + 1 \in DOMAIN pipe /\ pipe[k + 1] = np[k]
        BY <1>3 DEF np
      <4>2. ASSUME NEW l \in (k + 1) + 1 .. Len(pipe)  PROVE LevelOf(pipe[l]) # <<s, p>>
        <5>1. l - 1 \in k + 1 .. Len(np) /\ np[l - 1] = pipe[l]
          <6>1. l - 1 \in k + 1 .. n - 1 /\ l - 1 \in 1 .. n - 1 /\ (l - 1) + 1 = l
            BY <1>3, <4>1
          <6>2. QED
            BY <1>3, <6>1 DEF np
        <5>2. QED
          BY <5>1
      <4>3. QED
        BY <2>4, <4>1, <4>2 DEF Settled, LastPiped
    <3>2. ASSUME NonePiped(np, s, p)  PROVE book'[s][p] = q
      <4>1. \A k \in 2 .. n : LevelOf(pipe[k]) # <<s, p>>
        <5> TAKE k \in 2 .. n
        <5>1. k - 1 \in 1 .. n - 1 /\ (k - 1) + 1 = k
          BY <1>3
        <5>2. k - 1 \in DOMAIN np /\ np[k - 1] = pipe[k]
          BY <1>3, <5>1
        <5> HIDE DEF np
        <5>3. QED
          BY <3>2, <5>2 DEF NonePiped
      <4>2. CASE LevelOf(t) = <<s, p>>
        <5>1. 1 \in DOMAIN pipe /\ \A l \in 1 + 1 .. Len(pipe) : l \in 2 .. n
          BY <1>3
        <5>2. t.qty = q
          BY <1>3, <2>4, <4>1, <4>2, <5>1 DEF Settled, LastPiped
        <5>3. QED
          BY <1>5, <2>1, <4>2, <5>2
      <4>3. CASE LevelOf(t) # <<s, p>>
        <5>1. \A k \in DOMAIN pipe : k = 1 \/ k \in 2 .. n
          BY <1>3
        <5>2. NonePiped(pipe, s, p)
          BY <1>3, <4>1, <4>3, <5>1 DEF NonePiped
        <5>3. QED
          BY <1>5, <2>1, <2>4, <4>3, <5>2 DEF Settled
      <4>4. QED
        BY <4>2, <4>3
    <3>3. QED
      BY <1>1, <2>3, <3>1, <3>2 DEF Settled
  <2>5. OnItsWay(s, p, q)'
    BY <1>1, <2>2, <2>3, <2>4 DEF OnItsWay
  <2>6. QED
    BY <2>5 DEF q
<1>8. QED
  BY <1>1, <1>2, <1>3, <1>5, <1>6, <1>7 DEF PipelineInv

LEMMA PipelineInvInit == PipelineInit => PipelineInv
<1> SUFFICES ASSUME PipelineInit PROVE PipelineInv
  OBVIOUS
<1>1. EmptyBook \in Books
  BY FeedsAssumption DEF EmptyBook, Books
<1>2. \A s \in Sides : \A p \in Told(s) : OnItsWay(s, p, market[s][p])
  <2> TAKE s \in Sides
  <2> TAKE p \in Told(s)
  <2>1. DOMAIN inbox = {} /\ DOMAIN ticks = {} /\ DOMAIN pipe = {} /\ book = market
    BY DEF PipelineInit
  <2>2. QED
    BY <2>1 DEF OnItsWay, LastTold, AllTicked, Settled, LastPiped
<1>3. QED
  BY <1>1, <1>2, FeedsAssumption DEF PipelineInit, PipelineInv, EmptyBook

LEMMA PipelineInvStep == PipelineInv /\ [PipelineNext]_pipelineVars => PipelineInv'
<1> SUFFICES ASSUME PipelineInv, [PipelineNext]_pipelineVars PROVE PipelineInv'
  OBVIOUS
<1>1. CASE UNCHANGED pipelineVars
  BY <1>1 DEF pipelineVars, PipelineInv, OnItsWay, Settled, Told, Channels
<1>2. QED
  BY <1>1, RequoteKeepsPipeline, DealKeepsPipeline, TickerKeepsPipeline, ReadKeepsPipeline,
     PushKeepsPipeline, TakeKeepsPipeline DEF PipelineNext

(* For every feed, market, number of levels shown and size of the tick     *)
(* queue: when nothing is on its way any more, the strategy's book has the *)
(* exchange's quantity at every level the feed reports, unless the level's *)
(* last tick was dropped by a full queue or a trade's tick overwrote it.   *)
THEOREM BookFollowsFeed == PipelineSpec => []BookMatchesFeed
<1>1. PipelineInv => BookMatchesFeed
  <2> SUFFICES ASSUME PipelineInv, Quiet, NEW s \in Sides, NEW p \in Told(s), <<s, p>> \notin lost \cup traded
               PROVE  book[s][p] = market[s][p]
    BY DEF BookMatchesFeed
  <2>1. DOMAIN inbox = {} /\ DOMAIN ticks = {} /\ DOMAIN pipe = {}
    BY DEF Quiet
  <2>2. NoneTold(inbox, s, p) /\ NoneTicked(ticks, s, p) /\ NonePiped(pipe, s, p)
    BY <2>1 DEF NoneTold, NoneTicked, NonePiped
  <2>3. QED
    BY <2>2 DEF PipelineInv, OnItsWay, Settled
<1>2. QED
  BY <1>1, PipelineInvInit, PipelineInvStep, PTL DEF PipelineSpec
=============================================================================
