------------------------- MODULE OrderBookV2_proofs -------------------------
(***************************************************************************)
(* Proofs about OrderBookV2 for every depth, every set of prices and any   *)
(* number of readers: an optimistic read never returns levels of two       *)
(* versions (the sequence lock), an undisturbed read of a cold buffer      *)
(* returns the book it started on (double buffering), and the arrays hold  *)
(* the book of the feed, with the hot levels its best ones (binary search, *)
(* insertion, trimming and removal).                                       *)
(***************************************************************************)
EXTENDS OrderBookV2, SequenceTheorems, FiniteSetTheorems, TLAPS

-----------------------------------------------------------------------------
(* Hot readers *)

IsBook(b) == b = [s \in Side |-> b[s]]

(* The version is odd exactly while the writer is between its two          *)
(* increments, the only time hot_data_ changes.                            *)
WriterInv ==
    /\ version \in Nat
    /\ wpc \in {"idle", "odd", "bid", "ask", "even", "swap", "refill"}
    /\ version % 2 = IF wpc \in {"bid", "ask", "even"} THEN 1 ELSE 0
    /\ IsBook(hot)

(* What a reader past its first load holds: an even version no greater     *)
(* than the present one.  While the two are equal hot_data_ is what it was *)
(* at that load, so the sides copied so far are those of that book.        *)
ReaderInv(r) ==
    /\ pc[r] \in {"idle", "before", "bid", "ask", "after", "read"}
    /\ IsBook(result[r])
    /\ pc[r] \in {"bid", "ask", "after"} =>
          /\ held[r] \in Nat /\ held[r] % 2 = 0 /\ held[r] <= version
          /\ IsBook(span[r][1])
          /\ held[r] = version =>
                /\ hot = span[r][1]
                /\ pc[r] \in {"ask", "after"} => result[r]["bid"] = span[r][1]["bid"]
                /\ pc[r] = "after" => result[r]["ask"] = span[r][1]["ask"]
    /\ pc[r] = "read" => result[r] = span[r][1]

ReaderTypes == /\ DOMAIN pc = Readers /\ DOMAIN held = Readers
               /\ DOMAIN result = Readers /\ DOMAIN span = Readers

SeqLockInv == WriterInv /\ ReaderTypes /\ \A r \in HotReaders : ReaderInv(r)

\* A step of the writer that leaves hot_data_ and its version alone disturbs no
\* hot reader: update and clear before the copy, and the swap of the cold buffers.
LEMMA ColdStep ==
    ASSUME SeqLockInv, UNCHANGED <<hot, version, pc, held, result>>,
           DOMAIN span' = Readers,
           \A r \in HotReaders : span'[r] = span[r],
           wpc' \in {"idle", "odd", "swap", "refill"},
           wpc \notin {"bid", "ask", "even"}
    PROVE  SeqLockInv'
<1>1. WriterInv' /\ ReaderTypes'
  BY DEF SeqLockInv, WriterInv, ReaderTypes, IsBook
<1>2. ASSUME NEW r \in HotReaders PROVE ReaderInv(r)'
  BY <1>2 DEF SeqLockInv, ReaderInv, IsBook
<1>3. QED
  BY <1>1, <1>2 DEF SeqLockInv

\* An increment of the version leaves every reader behind that had not finished.
LEMMA Bump ==
    ASSUME SeqLockInv, version' = version + 1, UNCHANGED <<hot, pc, held, result, span>>,
           \/ wpc = "odd" /\ wpc' = "bid"
           \/ wpc = "even" /\ wpc' = "swap"
    PROVE  SeqLockInv'
<1>1. WriterInv' /\ ReaderTypes'
  BY DEF SeqLockInv, WriterInv, ReaderTypes, IsBook
<1>2. ASSUME NEW r \in HotReaders PROVE ReaderInv(r)'
  BY <1>2 DEF SeqLockInv, WriterInv, ReaderInv, IsBook
<1>3. QED
  BY <1>1, <1>2 DEF SeqLockInv

\* The copy of a side changes hot_data_ while the version is odd, so no reader
\* that holds an even version can take it for the one it loaded.
LEMMA Copy ==
    ASSUME SeqLockInv, NEW s \in Side, CopySide(s)
    PROVE  SeqLockInv'
<1>1. wpc \in {"bid", "ask"} /\ wpc' \in {"ask", "even"}
  BY DEF CopySide, Side
<1>2. UNCHANGED <<version, pc, held, result, span>>
  BY DEF CopySide, readerVars
<1>3. IsBook(hot')
  BY DEF CopySide, SeqLockInv, WriterInv, IsBook, Side
<1>4. WriterInv' /\ ReaderTypes'
  BY <1>1, <1>2, <1>3 DEF SeqLockInv, WriterInv, ReaderTypes
<1>5. ASSUME NEW r \in HotReaders PROVE ReaderInv(r)'
  BY <1>1, <1>2 DEF SeqLockInv, WriterInv, ReaderInv, IsBook
<1>6. QED
  BY <1>4, <1>5 DEF SeqLockInv

\* A step of a reader leaves the writer's state alone.
LEMMA ReaderStep ==
    ASSUME SeqLockInv, UNCHANGED <<hot, version, wpc>>, ReaderTypes',
           \A r \in HotReaders : ReaderInv(r)'
    PROVE  SeqLockInv'
  BY DEF SeqLockInv, WriterInv, IsBook

\* The first load of an even version: the reader starts from the present levels.
LEMMA LoadBeforeKeeps ==
    ASSUME SeqLockInv, NEW r \in HotReaders, LoadBefore(r)
    PROVE  ReaderInv(r)'
<1>1. /\ pc'[r] = "bid" /\ version % 2 = 0 /\ held'[r] = version
      /\ span'[r] = <<hot>> /\ result'[r] = result[r]
  BY DEF LoadBefore, Goto, SeqLockInv, ReaderTypes, Readers
<1>2. version \in Nat /\ hot' = hot /\ version' = version
  BY DEF LoadBefore, writerVars, SeqLockInv, WriterInv
<1>3. IsBook(result'[r])
  BY <1>1 DEF SeqLockInv, ReaderInv
<1>4. span'[r][1] = hot
  BY <1>1
<1>5. IsBook(span'[r][1])
  BY <1>4 DEF SeqLockInv, WriterInv
<1>6. QED
  BY <1>1, <1>2, <1>3, <1>4, <1>5 DEF ReaderInv

\* A hot reader's step keeps its own invariant, and touches no other reader.
LEMMA HotReaderStep ==
    ASSUME SeqLockInv, NEW r \in HotReaders, HotReader(r)
    PROVE  SeqLockInv'
<1> USE DEF Goto
<1>1. UNCHANGED <<hot, version, wpc>>
  BY DEF HotReader, ReadHot, LoadBefore, LoadAfter, Return, ReadHotSide, writerVars
<1>2. ReaderTypes'
  BY DEF HotReader, ReadHot, LoadBefore, LoadAfter, Return, ReadHotSide, SeqLockInv, ReaderTypes
<1>3. \A q \in Readers \ {r} : /\ pc'[q] = pc[q] /\ held'[q] = held[q]
                               /\ result'[q] = result[q] /\ span'[q] = span[q]
  BY DEF HotReader, ReadHot, LoadBefore, LoadAfter, Return, ReadHotSide, SeqLockInv, ReaderTypes
<1>4. ASSUME NEW q \in HotReaders, q # r PROVE ReaderInv(q)'
  BY <1>1, <1>3, <1>4 DEF SeqLockInv, ReaderInv, IsBook, Readers
<1>5. ReaderInv(r)'
  <2> USE DEF SeqLockInv, WriterInv, ReaderTypes, ReaderInv, IsBook, Readers, writerVars
  <2>1. CASE ReadHot(r)
    BY <2>1 DEF ReadHot
  <2>2. CASE LoadBefore(r)
    BY <2>2, LoadBeforeKeeps
  <2>3. ASSUME NEW s \in Side, ReadHotSide(r, s) PROVE ReaderInv(r)'
    <3>1. CASE s = "bid"
      BY <2>3, <3>1 DEF ReadHotSide, Side
    <3>2. CASE s = "ask"
      BY <2>3, <3>2 DEF ReadHotSide, Side
    <3>3. QED
      BY <2>3, <3>1, <3>2 DEF Side
  <2>4. CASE LoadAfter(r)
    <3>1. CASE version = held[r]
      <4>1. \A s \in Side : result[r][s] = span[r][1][s]
        BY <2>4, <3>1 DEF LoadAfter, Side
      <4>2. result[r] = span[r][1]
        <5> DEFINE a == result[r]
                   b == span[r][1]
        <5>1. a = [s \in Side |-> a[s]] /\ b = [s \in Side |-> b[s]]
          BY <2>4 DEF LoadAfter
        <5>2. \A s \in Side : a[s] = b[s]
          BY <4>1
        <5> HIDE DEF a, b
        <5>3. a = b
          BY <5>1, <5>2, ZenonT(60)
        <5>4. QED
          BY <5>3 DEF a, b
      <4>3. QED
        BY <2>4, <3>1, <4>2 DEF LoadAfter
    <3>2. CASE version # held[r]
      BY <2>4, <3>2 DEF LoadAfter
    <3>3. QED
      BY <3>1, <3>2
  <2>5. CASE Return(r)
    BY <2>5 DEF Return, NoBook
  <2>6. QED
    BY <2>1, <2>2, <2>3, <2>4, <2>5 DEF HotReader
<1>6. QED
  BY <1>1, <1>2, <1>4, <1>5, ReaderStep

\* A cold reader's step concerns no hot reader.
LEMMA ColdReaderStep ==
    ASSUME SeqLockInv, NEW r \in ColdReaders, ColdReader(r)
    PROVE  SeqLockInv'
<1> USE DEF Goto
<1>1. UNCHANGED <<hot, version, wpc>>
  BY DEF ColdReader, GetReadBuffer, CopyColdSide, Return, writerVars
<1>2. ReaderTypes'
  BY DEF ColdReader, GetReadBuffer, CopyColdSide, Return, SeqLockInv, ReaderTypes
<1>3. \A q \in Readers \ {r} : /\ pc'[q] = pc[q] /\ held'[q] = held[q]
                               /\ result'[q] = result[q] /\ span'[q] = span[q]
  BY DEF ColdReader, GetReadBuffer, CopyColdSide, Return, SeqLockInv, ReaderTypes
<1>4. ASSUME NEW q \in HotReaders PROVE ReaderInv(q)'
  BY <1>1, <1>3, ReaderAssumption DEF SeqLockInv, ReaderInv, IsBook, Readers
<1>5. QED
  BY <1>1, <1>2, <1>4, ReaderStep

\* readHotDataOptimistic returns the hot levels of one version, for every number
\* of readers and every schedule of the writer.
THEOREM HotReadsSound == Spec => []HotReadIsOneVersion
<1>1. Init => SeqLockInv
  BY DEF Init, SeqLockInv, WriterInv, ReaderTypes, ReaderInv, IsBook, NoBook, Readers
<1>2. SeqLockInv /\ [Next]_vars => SeqLockInv'
  <2> SUFFICES ASSUME SeqLockInv, [Next]_vars PROVE SeqLockInv'
    OBVIOUS
  <2>1. ASSUME NEW s \in Side, NEW p \in Price, NEW q \in 0 .. MaxQty, UpdateLevels(s, p, q)
        PROVE  SeqLockInv'
    <3>1. /\ UNCHANGED <<hot, version, pc, held, result, span>>
          /\ wpc = "idle" /\ wpc' \in {"odd", "swap"}
      BY <2>1 DEF UpdateLevels, readerVars
    <3>2. QED
      BY <3>1, ColdStep DEF SeqLockInv, ReaderTypes
  <2>2. CASE Clear
    BY <2>2, ColdStep DEF Clear, readerVars, SeqLockInv, ReaderTypes
  <2>3. CASE BumpOdd
    BY <2>3, Bump DEF BumpOdd, readerVars
  <2>4. CASE BumpEven
    BY <2>4, Bump DEF BumpEven, readerVars
  <2>5. CASE Swap
    <3>1. DOMAIN span' = Readers /\ \A r \in HotReaders : span'[r] = span[r]
      BY <2>5, ReaderAssumption DEF Swap, Readers
    <3>2. QED
      BY <2>5, <3>1, ColdStep DEF Swap
  <2>6. CASE Refill
    BY <2>6, ColdStep DEF Refill, readerVars, SeqLockInv, ReaderTypes
  <2>7. ASSUME NEW s \in Side, CopySide(s) PROVE SeqLockInv'
    BY <2>7, Copy
  <2>8. ASSUME NEW r \in HotReaders, HotReader(r) PROVE SeqLockInv'
    BY <2>8, HotReaderStep
  <2>9. ASSUME NEW r \in ColdReaders, ColdReader(r) PROVE SeqLockInv'
    BY <2>9, ColdReaderStep
  <2>10. CASE UNCHANGED vars
    BY <2>10 DEF vars, feedVars, SeqLockInv, WriterInv, ReaderTypes, ReaderInv, IsBook
  <2>11. QED
    BY <2>1, <2>2, <2>3, <2>4, <2>5, <2>6, <2>7, <2>8, <2>9, <2>10 DEF Next, Writer
<1>3. SeqLockInv => HotReadIsOneVersion
  BY DEF SeqLockInv, ReaderInv, HotReadIsOneVersion
<1>4. QED
  BY <1>1, <1>2, <1>3, PTL DEF Spec


-----------------------------------------------------------------------------
(* Cold readers *)

BuffersInv ==
    /\ active \in Buffer /\ writeIdx \in Buffer
    /\ DOMAIN cold = Buffer /\ \A b \in Buffer : IsBook(cold[b])

(* What a cold reader holds that no swap and no first update has            *)
(* disturbed: the buffer that is still active, which is not the one the     *)
(* writer writes, so the sides copied so far are those of that book.        *)
ColdInv(r) ==
    /\ pc[r] \in {"idle", "bid", "ask", "snapped"}
    /\ IsBook(result[r])
    /\ span[r] # <<>> =>
          /\ active # writeIdx /\ held[r] = active /\ span[r] = <<cold[active]>>
          /\ pc[r] \in {"ask", "snapped"} => result[r]["bid"] = cold[active]["bid"]
          /\ pc[r] = "snapped" => result[r]["ask"] = cold[active]["ask"]

ColdReadersInv == BuffersInv /\ ReaderTypes /\ \A r \in ColdReaders : ColdInv(r)

\* The writer touches only the buffer that is not the active one: a reader of the
\* active buffer notices nothing of update, clear and the memcpy.
LEMMA WriteStep ==
    ASSUME ColdReadersInv, NEW book, IsBook(book),
           cold' = [cold EXCEPT ![writeIdx] = book],
           UNCHANGED <<active, writeIdx, pc, held, result, span>>
    PROVE  ColdReadersInv'
<1>1. BuffersInv' /\ ReaderTypes'
  BY DEF ColdReadersInv, BuffersInv, ReaderTypes, IsBook
<1>2. active # writeIdx => cold'[active] = cold[active]
  BY DEF ColdReadersInv, BuffersInv
<1>3. ASSUME NEW r \in ColdReaders  PROVE ColdInv(r)'
  BY <1>2 DEF ColdReadersInv, ColdInv, IsBook
<1>4. QED
  BY <1>1, <1>3 DEF ColdReadersInv

\* A step that leaves the cold buffers and the cold readers alone.
LEMMA ColdUntouched ==
    ASSUME ColdReadersInv, UNCHANGED <<cold, active, writeIdx>>, ReaderTypes',
           \A r \in ColdReaders : ColdInv(r)'
    PROVE  ColdReadersInv'
  BY DEF ColdReadersInv, BuffersInv, IsBook

\* A cold reader's step keeps its own invariant, and touches no other reader.
LEMMA ColdReaderKeeps ==
    ASSUME ColdReadersInv, NEW r \in ColdReaders, ColdReader(r)
    PROVE  ColdReadersInv'
<1> USE DEF Goto
<1>1. UNCHANGED <<cold, active, writeIdx>>
  BY DEF ColdReader, GetReadBuffer, CopyColdSide, Return, writerVars
<1>2. ReaderTypes'
  BY DEF ColdReader, GetReadBuffer, CopyColdSide, Return, ColdReadersInv, ReaderTypes
<1>3. \A q \in Readers \ {r} : /\ pc'[q] = pc[q] /\ held'[q] = held[q]
                               /\ result'[q] = result[q] /\ span'[q] = span[q]
  BY DEF ColdReader, GetReadBuffer, CopyColdSide, Return, ColdReadersInv, ReaderTypes
<1>4. ASSUME NEW q \in ColdReaders, q # r  PROVE ColdInv(q)'
  BY <1>1, <1>3, <1>4 DEF ColdReadersInv, ColdInv, IsBook, Readers
<1>5. ColdInv(r)'
  <2> USE DEF ColdReadersInv, ReaderTypes, Readers
  <2>1. CASE GetReadBuffer(r)
    <3>1. /\ pc'[r] = "bid" /\ held'[r] = active /\ result'[r] = result[r]
          /\ span'[r] = IF active = writeIdx THEN <<>> ELSE <<cold[active]>>
      BY <2>1 DEF GetReadBuffer
    <3>2. QED
      BY <1>1, <3>1 DEF ColdInv, IsBook
  <2>2. ASSUME NEW s \in Side, CopyColdSide(r, s)  PROVE ColdInv(r)'
    <3>1. /\ held'[r] = held[r] /\ span'[r] = span[r]
          /\ pc[r] = s /\ pc'[r] = IF s = "bid" THEN "ask" ELSE "snapped"
          /\ result'[r] = [result[r] EXCEPT ![s] = cold[held[r]][s]]
      BY <2>2 DEF CopyColdSide
    <3>2. IsBook(result'[r])
      BY <3>1 DEF ColdInv, IsBook
    <3>3. CASE s = "bid"
      BY <1>1, <3>1, <3>2, <3>3 DEF ColdInv, IsBook, Side
    <3>4. CASE s = "ask"
      BY <1>1, <3>1, <3>2, <3>4 DEF ColdInv, IsBook, Side
    <3>5. QED
      BY <3>3, <3>4 DEF Side
  <2>3. CASE Return(r)
    BY <2>3 DEF Return, NoBook, ColdInv, IsBook
  <2>4. QED
    BY <2>1, <2>2, <2>3 DEF ColdReader
<1>6. QED
  BY <1>1, <1>2, <1>4, <1>5, ColdUntouched

\* A hot reader's step concerns no cold reader.
LEMMA HotReaderLeavesCold ==
    ASSUME ColdReadersInv, NEW r \in HotReaders, HotReader(r)
    PROVE  ColdReadersInv'
<1> USE DEF Goto
<1>1. UNCHANGED <<cold, active, writeIdx>>
  BY DEF HotReader, ReadHot, LoadBefore, LoadAfter, Return, ReadHotSide, writerVars
<1>2. ReaderTypes'
  BY DEF HotReader, ReadHot, LoadBefore, LoadAfter, Return, ReadHotSide, ColdReadersInv, ReaderTypes
<1>3. \A q \in Readers \ {r} : /\ pc'[q] = pc[q] /\ held'[q] = held[q]
                               /\ result'[q] = result[q] /\ span'[q] = span[q]
  BY DEF HotReader, ReadHot, LoadBefore, LoadAfter, Return, ReadHotSide, ColdReadersInv, ReaderTypes
<1>4. ASSUME NEW q \in ColdReaders  PROVE ColdInv(q)'
  BY <1>1, <1>3, ReaderAssumption DEF ColdReadersInv, ColdInv, IsBook, Readers
<1>5. QED
  BY <1>1, <1>2, <1>4, ColdUntouched

LEMMA ColdReadersInductive == ColdReadersInv /\ [Next]_vars => ColdReadersInv'
<1> SUFFICES ASSUME ColdReadersInv, [Next]_vars PROVE ColdReadersInv'
  OBVIOUS
<1>1. ASSUME NEW s \in Side, NEW p \in Price, NEW q \in 0 .. MaxQty, UpdateLevels(s, p, q)
      PROVE  ColdReadersInv'
  <2> DEFINE done == Apply(s, cold[writeIdx][s], p, q)
             book == [cold[writeIdx] EXCEPT ![s] = done.levels]
  <2>1. /\ cold' = [cold EXCEPT ![writeIdx] = book]
        /\ UNCHANGED <<active, writeIdx, pc, held, result, span>>
    BY <1>1 DEF UpdateLevels, readerVars
  <2>2. IsBook(book)
    BY DEF ColdReadersInv, BuffersInv, IsBook
  <2> HIDE DEF book
  <2>3. QED
    BY <2>1, <2>2, WriteStep
<1>2. CASE Clear
  BY <1>2, WriteStep DEF Clear, readerVars, NoBook, IsBook
<1>3. CASE BumpOdd \/ BumpEven \/ \E s \in Side : CopySide(s)
  <2>1. UNCHANGED <<cold, active, writeIdx, pc, held, result, span>>
    BY <1>3 DEF BumpOdd, BumpEven, CopySide, readerVars
  <2>2. QED
    BY <2>1 DEF ColdReadersInv, BuffersInv, ReaderTypes, ColdInv, IsBook
<1>4. CASE Swap
  <2>1. /\ writeIdx' \in Buffer /\ active' \in Buffer
        /\ UNCHANGED <<cold, pc, held, result>>
        /\ DOMAIN span' = Readers /\ \A r \in ColdReaders : span'[r] = <<>>
    BY <1>4 DEF Swap, ColdReadersInv, BuffersInv, Buffer, Readers
  <2>2. QED
    BY <2>1 DEF ColdReadersInv, BuffersInv, ReaderTypes, ColdInv, IsBook
<1>5. CASE Refill
  BY <1>5, WriteStep DEF Refill, readerVars, ColdReadersInv, BuffersInv
<1>6. ASSUME NEW r \in HotReaders, HotReader(r)  PROVE ColdReadersInv'
  BY <1>6, HotReaderLeavesCold
<1>7. ASSUME NEW r \in ColdReaders, ColdReader(r)  PROVE ColdReadersInv'
  BY <1>7, ColdReaderKeeps
<1>8. CASE UNCHANGED vars
  BY <1>8 DEF vars, ColdReadersInv, BuffersInv, ReaderTypes, ColdInv, IsBook
<1>9. QED
  BY <1>1, <1>2, <1>3, <1>4, <1>5, <1>6, <1>7, <1>8 DEF Next, Writer

\* generateSnapshot returns exactly the book that was active when it loaded the
\* pointer, for any number of readers, unless the buffers were swapped meanwhile.
THEOREM ColdReadsSound == Spec => []ColdReadUndisturbed
<1>1. Init => ColdReadersInv
  BY DEF Init, ColdReadersInv, BuffersInv, Buffer, ReaderTypes, ColdInv, IsBook, NoBook, Readers
<1>2. ColdReadersInv => ColdReadUndisturbed
  <2> SUFFICES ASSUME ColdReadersInv, NEW r \in ColdReaders, pc[r] = "snapped", span[r] # <<>>
               PROVE  result[r] = span[r][1]
    BY DEF ColdReadUndisturbed
  <2> DEFINE a == result[r]
             b == cold[active]
  <2>1. a = [s \in Side |-> a[s]] /\ b = [s \in Side |-> b[s]]
    BY DEF ColdReadersInv, BuffersInv, ColdInv, IsBook
  <2>2. \A s \in Side : a[s] = b[s]
    BY DEF ColdReadersInv, ColdInv, Side
  <2>3. span[r][1] = b
    BY DEF ColdReadersInv, ColdInv
  <2> HIDE DEF a, b
  <2>4. a = b
    BY <2>1, <2>2, Zenon
  <2>5. QED
    BY <2>3, <2>4 DEF a
<1>3. QED
  BY <1>1, <1>2, ColdReadersInductive, PTL DEF Spec

-----------------------------------------------------------------------------
(* The binary search *)

\* A set of natural numbers that is not empty has a least element.
LEMMA LeastElement ==
    ASSUME NEW T \in SUBSET Nat, T # {}
    PROVE  \E x \in T : \A y \in T : x <= y
<1> DEFINE R == OpToRel(<, Nat)
<1>1. IsWellFoundedOn(R, Nat)
  BY NatLessThanWellFounded
<1>2. \A x, y \in Nat : x < y => <<x, y>> \in R
  BY DEF OpToRel
<1> HIDE DEF R
<1>3. PICK x \in T : \A y \in T : ~ (<<y, x>> \in R)
  BY <1>1, WFMin
<1>4. ASSUME NEW y \in T  PROVE x <= y
  <2>1. ~ (y < x)
    BY <1>2, <1>3
  <2>2. QED
    BY <2>1
<1>5. QED
  BY <1>4

\* Best first, no price twice.
Sorted(s, levels) ==
    \A i, j \in 1 .. Len(levels) : i < j => Better(s, levels[i].price, levels[j].price)

\* Exactly the first k levels are better than price p.
SplitsAt(s, levels, p, k) ==
    \A i \in 1 .. Len(levels) : Better(s, levels[i].price, p) <=> i <= k

\* Better is a strict total order of the prices.
LEMMA BetterOrder ==
    ASSUME NEW s, NEW p \in Price, NEW q \in Price, NEW r \in Price
    PROVE  /\ Better(s, p, q) /\ Better(s, q, r) => Better(s, p, r)
           /\ ~ (Better(s, p, q) /\ Better(s, q, p))
           /\ ~ Better(s, p, p)
           /\ Better(s, p, q) \/ p = q \/ Better(s, q, p)
  BY PriceAssumption DEF Better

LEMMA LevelFields ==
    ASSUME NEW levels \in Seq(Level)
    PROVE  /\ Len(levels) \in Nat /\ DOMAIN levels = 1 .. Len(levels)
           /\ \A i \in 1 .. Len(levels) : /\ levels[i] \in Level /\ levels[i].price \in Price
                                          /\ levels[i].qty \in 1 .. MaxQty
<1>1. /\ Len(levels) \in Nat /\ DOMAIN levels = 1 .. Len(levels)
      /\ \A i \in 1 .. Len(levels) : levels[i] \in Level
  OBVIOUS
<1>2. QED
  BY <1>1 DEF Level

\* In a sorted side the levels better than a price come first.
LEMMA SortedSplits ==
    ASSUME NEW s, NEW levels \in Seq(Level), Sorted(s, levels), NEW p \in Price
    PROVE  \E k \in 0 .. Len(levels) : SplitsAt(s, levels, p, k)
<1> DEFINE n == Len(levels)
           T == {k \in 0 .. n : \A i \in 1 .. n : i > k => ~ Better(s, levels[i].price, p)}
<1>1. n \in Nat
  BY LevelFields
<1>2. n \in T
  BY <1>1
<1>3. PICK k \in T : \A j \in T : k <= j
  <2>1. T \in SUBSET Nat /\ T # {}
    BY <1>1, <1>2
  <2> HIDE DEF T
  <2>2. QED
    BY <2>1, LeastElement
<1>4. k \in 0 .. n /\ \A i \in 1 .. n : i > k => ~ Better(s, levels[i].price, p)
  OBVIOUS
<1>5. ASSUME NEW i \in 1 .. n, i <= k  PROVE Better(s, levels[i].price, p)
  <2>1. k - 1 \notin T /\ k - 1 \in 0 .. n
    <3>1. k \in Nat /\ k - 1 \in 0 .. n
      BY <1>1, <1>4, <1>5
    <3> HIDE DEF T
    <3>2. k - 1 \in T => k <= k - 1
      BY <1>3
    <3>3. QED
      BY <3>1, <3>2
  <2>2. PICK j \in 1 .. n : j > k - 1 /\ Better(s, levels[j].price, p)
    BY <2>1
  <2>3. j = k
    BY <1>1, <1>4, <2>2
  <2>4. CASE i = k
    BY <2>2, <2>3, <2>4
  <2>5. CASE i < k
    <3>1. Better(s, levels[i].price, levels[j].price)
      BY <2>3, <2>5 DEF Sorted
    <3>2. levels[i].price \in Price /\ levels[j].price \in Price
      BY LevelFields
    <3>3. QED
      BY <2>2, <3>1, <3>2, BetterOrder, ZenonT(60)
  <2>6. QED
    BY <1>1, <1>4, <1>5, <2>4, <2>5
<1> HIDE DEF T
<1>6. SplitsAt(s, levels, p, k)
  BY <1>1, <1>4, <1>5 DEF SplitsAt
<1>7. QED
  BY <1>4, <1>6

\* The search finds that place, and finds it in every window that contains it: the
\* induction is on the width of the window.
LEMMA SearchFinds ==
    ASSUME NEW s, NEW levels \in Seq(Level), NEW p,
           NEW k \in 0 .. Len(levels), SplitsAt(s, levels, p, k)
    PROVE  InsertionPoint(s, levels, p) = k
<1> DEFINE n == Len(levels)
           W == (0 .. n) \X (0 .. n)
           mid(w) == w[1] + (w[2] - w[1]) \div 2
           better(w) == Better(s, levels[mid(w) + 1].price, p)
           step(f, w) == IF w[1] >= w[2] THEN w[1]
                         ELSE IF better(w) THEN f[<<mid(w) + 1, w[2]>>]
                         ELSE f[<<w[1], mid(w)>>]
           search == CHOOSE f : f = [w \in W |-> step(f, w)]
<1>1. InsertionPoint(s, levels, p) = search[<<0, n>>]
  BY DEF InsertionPoint
<1>2. n \in Nat /\ k \in 0 .. n
  BY LevelFields
<1>3. ASSUME NEW w \in W, w[1] < w[2]
      PROVE  /\ w[1] \in 0 .. n /\ w[2] \in 0 .. n /\ mid(w) \in w[1] .. (w[2] - 1)
             /\ <<mid(w) + 1, w[2]>> \in W /\ <<w[1], mid(w)>> \in W
             /\ better(w) <=> mid(w) + 1 <= k
  <2>1. w[1] \in 0 .. n /\ w[2] \in 0 .. n
    OBVIOUS
  <2>2. mid(w) \in w[1] .. (w[2] - 1)
    BY <1>2, <1>3, <2>1
  <2> HIDE DEF mid
  <2>3. mid(w) + 1 \in 1 .. n /\ mid(w) \in 0 .. n
    BY <1>2, <2>1, <2>2
  <2>4. QED
    BY <2>1, <2>2, <2>3 DEF SplitsAt
<1> HIDE DEF mid, better
<1>4. \E f : f = [w \in W |-> step(f, w)]
  <2> DEFINE c(w) == IF w[1] >= w[2] \/ k < w[1] THEN w[1] ELSE IF k > w[2] THEN w[2] ELSE k
             g == [w \in W |-> c(w)]
  <2>1. ASSUME NEW w \in W  PROVE c(w) = step(g, w)
    <3>1. CASE w[1] >= w[2]
      BY <3>1
    <3>2. CASE w[1] < w[2] /\ better(w)
      <4>1. /\ w[1] \in 0 .. n /\ w[2] \in 0 .. n /\ mid(w) \in w[1] .. (w[2] - 1)
            /\ <<mid(w) + 1, w[2]>> \in W /\ mid(w) + 1 <= k
        BY <1>3, <3>2
      <4>2. step(g, w) = c(<<mid(w) + 1, w[2]>>)
        BY <1>2, <3>2, <4>1
      <4>3. QED
        BY <1>2, <3>2, <4>1, <4>2
    <3>3. CASE w[1] < w[2] /\ ~ better(w)
      <4>1. /\ w[1] \in 0 .. n /\ w[2] \in 0 .. n /\ mid(w) \in w[1] .. (w[2] - 1)
            /\ <<w[1], mid(w)>> \in W /\ ~ (mid(w) + 1 <= k)
        BY <1>3, <3>3
      <4>2. step(g, w) = c(<<w[1], mid(w)>>)
        BY <1>2, <3>3, <4>1
      <4>3. QED
        BY <1>2, <3>3, <4>1, <4>2
    <3>4. QED
      BY <1>2, <3>1, <3>2, <3>3
  <2> HIDE DEF c
  <2>2. g = [w \in W |-> step(g, w)]
    <3> HIDE DEF step, W
    <3>1. QED
      BY <2>1
  <2> HIDE DEF g
  <2>3. QED
    BY <2>2
<1>5. search = [w \in W |-> step(search, w)]
  <2> HIDE DEF step, W
  <2>1. QED
    BY <1>4
<1> HIDE DEF search
<1>6. ASSUME NEW v \in W, v[1] <= k, k <= v[2], search[v] # k  PROVE FALSE
  <2> DEFINE Bad == {d \in Nat : \E w \in W : /\ w[2] - w[1] = d /\ w[1] <= k /\ k <= w[2]
                                              /\ search[w] # k}
  <2>1. v[2] - v[1] \in Bad
    BY <1>2, <1>6
  <2>2. PICK d \in Bad : \A e \in Bad : d <= e
    <3>1. Bad \in SUBSET Nat /\ Bad # {}
      BY <2>1
    <3> HIDE DEF Bad
    <3>2. QED
      BY <3>1, LeastElement
  <2>3. PICK w \in W : w[2] - w[1] = d /\ w[1] <= k /\ k <= w[2] /\ search[w] # k
    OBVIOUS
  <2>4. ASSUME NEW u \in W, u[2] - u[1] < d, u[1] <= k, k <= u[2]
        PROVE  search[u] = k
    <3>1. u[2] - u[1] \in Nat
      BY <1>2, <2>4
    <3>2. u[2] - u[1] \notin Bad
      BY <2>2, <2>4, <3>1, SMTT(60)
    <3>3. QED
      BY <2>4, <3>1, <3>2
  <2> HIDE DEF Bad
  <2>5. search[w] = step(search, w)
    BY <1>5
  <2>6. CASE w[1] >= w[2]
    BY <1>2, <2>3, <2>5, <2>6
  <2>7. CASE w[1] < w[2] /\ better(w)
    <3> DEFINE u == <<mid(w) + 1, w[2]>>
    <3>1. /\ w[1] \in 0 .. n /\ w[2] \in 0 .. n /\ mid(w) \in w[1] .. (w[2] - 1)
          /\ u \in W /\ mid(w) + 1 <= k
      BY <1>3, <2>7
    <3>2. u[1] <= k /\ k <= u[2] /\ u[2] - u[1] < d
      BY <1>2, <2>3, <3>1
    <3>3. search[u] = k
      BY <2>4, <3>1, <3>2
    <3>4. QED
      BY <2>3, <2>5, <2>7, <3>1, <3>3
  <2>8. CASE w[1] < w[2] /\ ~ better(w)
    <3> DEFINE u == <<w[1], mid(w)>>
    <3>1. /\ w[1] \in 0 .. n /\ w[2] \in 0 .. n /\ mid(w) \in w[1] .. (w[2] - 1)
          /\ u \in W /\ ~ (mid(w) + 1 <= k)
      BY <1>3, <2>8
    <3>2. u[1] <= k /\ k <= u[2] /\ u[2] - u[1] < d
      BY <1>2, <2>3, <3>1
    <3>3. search[u] = k
      BY <2>4, <3>1, <3>2
    <3>4. QED
      BY <2>3, <2>5, <2>8, <3>1, <3>3
  <2>9. QED
    BY <1>2, <2>6, <2>7, <2>8
<1>7. <<0, n>> \in W /\ <<0, n>>[1] <= k /\ k <= <<0, n>>[2]
  BY <1>2
<1>8. QED
  BY <1>1, <1>6, <1>7

-----------------------------------------------------------------------------
(* The sorted arrays *)

\* What the two shifting loops leave, in insertLevel and in removeLevel.
With(a, k, x) == SubSeq(a, 1, k) \o <<x>> \o SubSeq(a, k + 1, Len(a))
Without(a, k) == SubSeq(a, 1, k) \o SubSeq(a, k + 2, Len(a))

\* Shifting the levels from place k + 1 on to make room for level x.
LEMMA InsertAt ==
    ASSUME NEW a \in Seq(Level), NEW x \in Level, NEW k \in 0 .. Len(a)
    PROVE  /\ With(a, k, x) \in Seq(Level) /\ Len(With(a, k, x)) = Len(a) + 1
           /\ \A i \in 1 .. Len(With(a, k, x)) :
                 With(a, k, x)[i] = IF i <= k THEN a[i] ELSE IF i = k + 1 THEN x ELSE a[i - 1]
<1> DEFINE b == With(a, k, x)
           front == SubSeq(a, 1, k)
           back == SubSeq(a, k + 1, Len(a))
           two == front \o <<x>>
<1>1. Len(a) \in Nat /\ \A i \in 1 .. Len(a) : a[i] \in Level
  BY LevelFields
<1>2. /\ front \in Seq(Level) /\ Len(front) = k
      /\ \A i \in 1 .. k : front[i] = a[i]
  <2>1. \A i \in 1 .. k : a[i] \in Level
    BY <1>1
  <2>2. /\ front \in Seq(Level) /\ Len(front) = (IF 1 <= k THEN k - 1 + 1 ELSE 0)
        /\ \A i \in 1 .. k - 1 + 1 : front[i] = a[1 + i - 1]
    BY <1>1, <2>1, SubSeqProperties
  <2> HIDE DEF front
  <2>3. QED
    BY <1>1, <2>2
<1>3. /\ back \in Seq(Level) /\ Len(back) = Len(a) - k
      /\ \A i \in 1 .. Len(a) - k : back[i] = a[k + i]
  <2>1. \A i \in k + 1 .. Len(a) : a[i] \in Level
    BY <1>1
  <2>2. /\ back \in Seq(Level) /\ Len(back) = (IF k + 1 <= Len(a) THEN Len(a) - (k + 1) + 1 ELSE 0)
        /\ \A i \in 1 .. Len(a) - (k + 1) + 1 : back[i] = a[(k + 1) + i - 1]
    BY <1>1, <2>1, SubSeqProperties
  <2> HIDE DEF back
  <2>3. QED
    BY <1>1, <2>2
<1> HIDE DEF front, back
<1>4. /\ <<x>> \in Seq(Level) /\ Len(<<x>>) = 1 /\ <<x>>[1] = x
  OBVIOUS
<1>5. /\ two \in Seq(Level) /\ Len(two) = k + 1
      /\ \A i \in 1 .. k + 1 : two[i] = IF i <= k THEN a[i] ELSE x
  <2>1. /\ two \in Seq(Level) /\ Len(two) = Len(front) + Len(<<x>>)
        /\ \A i \in 1 .. Len(front) + Len(<<x>>) :
              two[i] = IF i <= Len(front) THEN front[i] ELSE <<x>>[i - Len(front)]
    BY <1>2, <1>4, ConcatProperties
  <2> HIDE DEF two
  <2>2. QED
    BY <1>1, <1>2, <1>4, <2>1
<1>6. /\ b \in Seq(Level) /\ Len(b) = Len(two) + Len(back)
      /\ \A i \in 1 .. Len(two) + Len(back) :
            b[i] = IF i <= Len(two) THEN two[i] ELSE back[i - Len(two)]
  <2>1. b = two \o back
    BY DEF With, front, back
  <2> HIDE DEF two
  <2>2. /\ two \o back \in Seq(Level) /\ Len(two \o back) = Len(two) + Len(back)
        /\ \A i \in 1 .. Len(two) + Len(back) :
              (two \o back)[i] = IF i <= Len(two) THEN two[i] ELSE back[i - Len(two)]
    BY <1>3, <1>5, ConcatProperties, Zenon
  <2>3. QED
    BY <2>1, <2>2, Zenon
<1> HIDE DEF two, b
<1>7. k \in Nat /\ Len(a) \in Nat /\ Len(b) = Len(a) + 1
  <2>1. k \in Nat /\ Len(a) \in Nat
    BY <1>1
  <2>2. Len(b) = (k + 1) + (Len(a) - k)
    BY <1>3, <1>5, <1>6, Zenon
  <2>3. QED
    BY <2>1, <2>2
<1>8. ASSUME NEW i \in 1 .. Len(b)
      PROVE  b[i] = IF i <= k THEN a[i] ELSE IF i = k + 1 THEN x ELSE a[i - 1]
  <2>1. CASE i <= k + 1
    <3>1. i \in 1 .. k + 1 /\ (i > k => i = k + 1)
      BY <1>7, <2>1
    <3>2. b[i] = two[i]
      BY <1>5, <1>6, <1>7, <2>1
    <3>3. QED
      BY <1>5, <3>1, <3>2
  <2>2. CASE i > k + 1
    <3>1. i - (k + 1) \in 1 .. Len(a) - k /\ ~ (i <= k + 1)
      BY <1>7, <2>2
    <3>2. b[i] = back[i - (k + 1)]
      BY <1>5, <1>6, <3>1
    <3>3. back[i - (k + 1)] = a[k + (i - (k + 1))]
      BY <1>3, <3>1
    <3>4. k + (i - (k + 1)) = i - 1
      BY <1>7
    <3>5. QED
      BY <1>7, <2>2, <3>2, <3>3, <3>4
  <2>3. QED
    BY <1>7, <2>1, <2>2
<1>9. QED
  BY <1>6, <1>7, <1>8 DEF b

\* Shifting the levels after place k + 1 over it.
LEMMA RemoveAt ==
    ASSUME NEW a \in Seq(Level), NEW k \in 0 .. Len(a) - 1
    PROVE  /\ Without(a, k) \in Seq(Level) /\ Len(Without(a, k)) = Len(a) - 1
           /\ \A i \in 1 .. Len(Without(a, k)) : Without(a, k)[i] = IF i <= k THEN a[i] ELSE a[i + 1]
<1> DEFINE b == Without(a, k)
           front == SubSeq(a, 1, k)
           back == SubSeq(a, k + 2, Len(a))
<1>1. Len(a) \in Nat /\ \A i \in 1 .. Len(a) : a[i] \in Level
  BY LevelFields
<1>2. /\ front \in Seq(Level) /\ Len(front) = k
      /\ \A i \in 1 .. k : front[i] = a[i]
  <2>1. \A i \in 1 .. k : a[i] \in Level
    BY <1>1
  <2>2. /\ front \in Seq(Level) /\ Len(front) = (IF 1 <= k THEN k - 1 + 1 ELSE 0)
        /\ \A i \in 1 .. k - 1 + 1 : front[i] = a[1 + i - 1]
    BY <1>1, <2>1, SubSeqProperties
  <2> HIDE DEF front
  <2>3. QED
    BY <1>1, <2>2
<1>3. /\ back \in Seq(Level) /\ Len(back) = Len(a) - k - 1
      /\ \A i \in 1 .. Len(a) - k - 1 : back[i] = a[k + 1 + i]
  <2>1. \A i \in k + 2 .. Len(a) : a[i] \in Level
    BY <1>1
  <2>2. /\ back \in Seq(Level) /\ Len(back) = (IF k + 2 <= Len(a) THEN Len(a) - (k + 2) + 1 ELSE 0)
        /\ \A i \in 1 .. Len(a) - (k + 2) + 1 : back[i] = a[(k + 2) + i - 1]
    BY <1>1, <2>1, SubSeqProperties
  <2> HIDE DEF back
  <2>3. QED
    BY <1>1, <2>2
<1> HIDE DEF front, back
<1>4. /\ b \in Seq(Level) /\ Len(b) = Len(front) + Len(back)
      /\ \A i \in 1 .. Len(front) + Len(back) :
            b[i] = IF i <= Len(front) THEN front[i] ELSE back[i - Len(front)]
  <2>1. b = front \o back
    BY DEF Without, front, back
  <2>2. /\ front \o back \in Seq(Level) /\ Len(front \o back) = Len(front) + Len(back)
        /\ \A i \in 1 .. Len(front) + Len(back) :
              (front \o back)[i] = IF i <= Len(front) THEN front[i] ELSE back[i - Len(front)]
    BY <1>2, <1>3, ConcatProperties, Zenon
  <2>3. QED
    BY <2>1, <2>2, Zenon
<1> HIDE DEF b
<1>5. k \in Nat /\ Len(a) \in Nat /\ Len(b) = Len(a) - 1
  <2>1. k \in Nat /\ Len(a) \in Nat
    BY <1>1
  <2>2. Len(b) = k + (Len(a) - k - 1)
    BY <1>2, <1>3, <1>4, Zenon
  <2>3. QED
    BY <2>1, <2>2
<1>6. ASSUME NEW i \in 1 .. Len(b)
      PROVE  b[i] = IF i <= k THEN a[i] ELSE a[i + 1]
  <2>1. CASE i <= k
    BY <1>1, <1>2, <1>3, <1>4, <1>5, <2>1
  <2>2. CASE i > k
    <3>1. i - k \in 1 .. Len(a) - k - 1 /\ ~ (i <= k)
      BY <1>5, <2>2
    <3>2. b[i] = back[i - k]
      BY <1>2, <1>4, <3>1
    <3>3. back[i - k] = a[k + 1 + (i - k)]
      BY <1>3, <3>1
    <3>4. k + 1 + (i - k) = i + 1
      BY <1>5
    <3>5. QED
      BY <1>5, <2>2, <3>2, <3>3, <3>4
  <2>3. QED
    BY <1>5, <2>1, <2>2
<1>7. QED
  BY <1>4, <1>5, <1>6 DEF b

\* Keeping the first m levels.
LEMMA Prefix ==
    ASSUME NEW a \in Seq(Level), NEW m \in 0 .. Len(a)
    PROVE  /\ SubSeq(a, 1, m) \in Seq(Level) /\ Len(SubSeq(a, 1, m)) = m
           /\ \A i \in 1 .. m : SubSeq(a, 1, m)[i] = a[i]
<1> DEFINE b == SubSeq(a, 1, m)
<1>1. Len(a) \in Nat /\ \A i \in 1 .. m : a[i] \in Level
  BY LevelFields
<1>2. /\ b \in Seq(Level) /\ Len(b) = (IF 1 <= m THEN m - 1 + 1 ELSE 0)
      /\ \A i \in 1 .. m - 1 + 1 : b[i] = a[1 + i - 1]
  BY <1>1, SubSeqProperties
<1> HIDE DEF b
<1>3. b \in Seq(Level) /\ Len(b) = m /\ \A i \in 1 .. m : b[i] = a[i]
  BY <1>1, <1>2
<1>4. QED
  BY <1>3 DEF b

Prices(levels) == {l.price : l \in Levels(levels)}

\* A side of a book as update finds it and has to leave it.
SideOK(s, levels) ==
    levels \in Seq(Level) /\ Len(levels) <= MaxDepth /\ Sorted(s, levels)

\* What update does to a side, for a tick of quantity q at price p: the other
\* levels stay, the new one is there with its quantity, unless the side was full;
\* and when the place is not among the hot ones, the hot levels are as before.
Outcome(s, a, p, q, b, pos) ==
    /\ SideOK(s, b)
    /\ \A l \in Levels(b) : IF l.price = p THEN q = l.qty ELSE l \in Levels(a)
    /\ \/ q = 0 /\ Prices(b) = Prices(a) \ {p}
       \/ q > 0 /\ Prices(b) = Prices(a) \cup {p}
       \/ q > 0 /\ p \notin Prices(a) /\ Len(a) = MaxDepth
    /\ ~ IsHot(pos) => Top(b) = Top(a)

\* The same prices and levels, by place in the array.
LEMMA ByPlace ==
    ASSUME NEW a \in Seq(Level)
    PROVE  /\ \A l : l \in Levels(a) <=> \E i \in 1 .. Len(a) : l = a[i]
           /\ \A p : p \in Prices(a) <=> \E i \in 1 .. Len(a) : p = a[i].price
  BY DEF Levels, Prices

\* Where price p belongs: the levels before are better, the ones from there on are
\* worse, except one of exactly this price, which is the first of them.
LEMMA Place ==
    ASSUME NEW s, NEW a, SideOK(s, a), NEW p \in Price,
           NEW k \in 0 .. Len(a), SplitsAt(s, a, p, k)
    PROVE  /\ \A i \in 1 .. Len(a) : i <= k => Better(s, a[i].price, p)
           /\ \A i \in 1 .. Len(a) : i > k + 1 => Better(s, p, a[i].price)
           /\ k < Len(a) => a[k + 1].price = p \/ Better(s, p, a[k + 1].price)
           /\ \A i \in 1 .. Len(a) : a[i].price = p => i = k + 1
<1>1. /\ Len(a) \in Nat /\ k \in Nat
      /\ \A i \in 1 .. Len(a) : a[i].price \in Price
  BY LevelFields DEF SideOK
<1>2. \A i \in 1 .. Len(a) : i <= k => Better(s, a[i].price, p)
  BY DEF SplitsAt
<1>3. k < Len(a) => a[k + 1].price = p \/ Better(s, p, a[k + 1].price)
  <2> SUFFICES ASSUME k < Len(a)  PROVE a[k + 1].price = p \/ Better(s, p, a[k + 1].price)
    OBVIOUS
  <2>1. k + 1 \in 1 .. Len(a) /\ ~ (k + 1 <= k)
    BY <1>1
  <2>2. ~ Better(s, a[k + 1].price, p)
    BY <2>1 DEF SplitsAt
  <2>3. QED
    BY <1>1, <2>1, <2>2, BetterOrder
<1>4. ASSUME NEW i \in 1 .. Len(a), i > k + 1  PROVE Better(s, p, a[i].price)
  <2>1. k + 1 \in 1 .. Len(a) /\ k + 1 < i /\ k < Len(a)
    BY <1>1, <1>4
  <2>2. Better(s, a[k + 1].price, a[i].price)
    BY <2>1 DEF SideOK, Sorted
  <2>3. CASE a[k + 1].price = p
    BY <2>2, <2>3
  <2>4. CASE Better(s, p, a[k + 1].price)
    <3> DEFINE u == a[k + 1].price
               v == a[i].price
    <3>1. u \in Price /\ v \in Price
      BY <1>1, <2>1
    <3>2. Better(s, p, u) /\ Better(s, u, v)
      BY <2>2, <2>4
    <3> HIDE DEF u, v
    <3>3. Better(s, p, v)
      BY <3>1, <3>2, BetterOrder
    <3>4. QED
      BY <3>3 DEF v
  <2>5. QED
    BY <1>3, <2>1, <2>3, <2>4
<1>5. ASSUME NEW i \in 1 .. Len(a), a[i].price = p  PROVE i = k + 1
  <2>1. ~ Better(s, p, p)
    BY BetterOrder
  <2>2. ~ (i <= k) /\ ~ (i > k + 1)
    BY <1>2, <1>4, <1>5, <2>1
  <2>3. QED
    BY <1>1, <2>2
<1>6. QED
  BY <1>2, <1>3, <1>4, <1>5

\* The hot levels depend on the first HotDepth levels only.
LEMMA TopSame ==
    ASSUME NEW a \in Seq(Level), NEW b \in Seq(Level), HotDepth <= Len(a), HotDepth <= Len(b),
           \A i \in 1 .. HotDepth : a[i] = b[i]
    PROVE  Top(b) = Top(a)
<1>1. HotDepth \in Nat /\ Len(a) \in Nat /\ Len(b) \in Nat
  BY DepthAssumption, LevelFields
<1> DEFINE x == SubSeq(a, 1, HotDepth)
           y == SubSeq(b, 1, HotDepth)
<1>2. Top(a) = x /\ Top(b) = y
  <2>1. /\ (IF Len(a) < HotDepth THEN Len(a) ELSE HotDepth) = HotDepth
        /\ (IF Len(b) < HotDepth THEN Len(b) ELSE HotDepth) = HotDepth
    BY <1>1
  <2>2. QED
    BY <2>1, Zenon DEF Top
<1>3. /\ x \in Seq(Level) /\ Len(x) = HotDepth /\ \A i \in 1 .. HotDepth : x[i] = a[i]
      /\ y \in Seq(Level) /\ Len(y) = HotDepth /\ \A i \in 1 .. HotDepth : y[i] = b[i]
  <2>1. HotDepth \in 0 .. Len(a) /\ HotDepth \in 0 .. Len(b)
    BY <1>1
  <2>2. QED
    BY <2>1, Prefix
<1> HIDE DEF x, y
<1>4. \A i \in 1 .. Len(x) : x[i] = y[i]
  BY <1>3
<1>5. x = y
  BY <1>3, <1>4, SeqEqual
<1>6. QED
  BY <1>2, <1>5

\* A tick at a price that has a level changes its quantity in place.
LEMMA ReplaceOutcome ==
    ASSUME NEW s, NEW a, SideOK(s, a), NEW p \in Price, NEW q \in 1 .. MaxQty,
           NEW k \in 0 .. Len(a), SplitsAt(s, a, p, k), k < Len(a), a[k + 1].price = p
    PROVE  Outcome(s, a, p, q, [a EXCEPT ![k + 1] = [price |-> p, qty |-> q]], k)
<1> DEFINE x == [price |-> p, qty |-> q]
           b == [a EXCEPT ![k + 1] = x]
<1>1. /\ a \in Seq(Level) /\ Len(a) \in Nat /\ k \in Nat /\ k + 1 \in 1 .. Len(a)
      /\ x \in Level /\ x.price = p /\ x.qty = q /\ q > 0
  BY LevelFields DEF SideOK, Level
<1> HIDE DEF x
<1>2. /\ b \in Seq(Level) /\ Len(b) = Len(a)
      /\ \A i \in 1 .. Len(a) : b[i] = IF i = k + 1 THEN x ELSE a[i]
  BY <1>1, ExceptSeq
<1> HIDE DEF b
<1>3. \A i \in 1 .. Len(a) : b[i].price = a[i].price
  BY <1>1, <1>2
<1>4. SideOK(s, b)
  BY <1>1, <1>2, <1>3 DEF SideOK, Sorted
<1>5. ASSUME NEW l \in Levels(b)
      PROVE  IF l.price = p THEN q = l.qty ELSE l \in Levels(a)
  <2>1. PICK i \in 1 .. Len(a) : l = b[i]
    BY <1>2, ByPlace
  <2>2. CASE i = k + 1
    BY <1>1, <1>2, <2>1, <2>2
  <2>3. CASE i # k + 1
    <3>1. l = a[i] /\ l \in Levels(a)
      BY <1>1, <1>2, <2>1, <2>3, ByPlace
    <3>2. l.price # p
      BY <2>3, <3>1, Place
    <3>3. QED
      BY <3>1, <3>2
  <2>4. QED
    BY <2>2, <2>3
<1>6. Prices(b) = Prices(a) \cup {p}
  <2>1. p \in Prices(a)
    BY <1>1, ByPlace
  <2>2. \A r : r \in Prices(b) <=> r \in Prices(a)
    BY <1>1, <1>2, <1>3, ByPlace
  <2>3. QED
    BY <2>1, <2>2
<1>7. ~ IsHot(k) => Top(b) = Top(a)
  <2> SUFFICES ASSUME ~ IsHot(k)  PROVE Top(b) = Top(a)
    OBVIOUS
  <2>1. HotDepth \in Nat /\ HotDepth <= k
    BY <1>1, DepthAssumption DEF IsHot
  <2>2. HotDepth <= Len(a) /\ HotDepth <= Len(b) /\ \A i \in 1 .. HotDepth : i \in 1 .. Len(a) /\ i # k + 1
    BY <1>1, <1>2, <2>1
  <2>3. \A i \in 1 .. HotDepth : a[i] = b[i]
    BY <1>2, <2>2
  <2>4. QED
    BY <1>1, <1>2, <2>2, <2>3, TopSame
<1>8. Outcome(s, a, p, q, b, k)
  BY <1>1, <1>4, <1>5, <1>6, <1>7 DEF Outcome
<1>9. QED
  BY <1>8 DEF b, x

\* A tick at a new price puts a level in its place; the last level of a full side
\* falls off the end.
LEMMA InsertOutcome ==
    ASSUME NEW s, NEW a, SideOK(s, a), NEW p \in Price, NEW q \in 1 .. MaxQty,
           NEW k \in 0 .. Len(a), SplitsAt(s, a, p, k), k < MaxDepth,
           ~ (k < Len(a) /\ a[k + 1].price = p), NEW x, x = [price |-> p, qty |-> q]
    PROVE  Outcome(s, a, p, q, IF Len(a) >= MaxDepth THEN SubSeq(With(a, k, x), 1, MaxDepth)
                                                     ELSE With(a, k, x), k)
<1> DEFINE all == With(a, k, x)
           b == IF Len(a) >= MaxDepth THEN SubSeq(all, 1, MaxDepth) ELSE all
<1>1. /\ a \in Seq(Level) /\ Len(a) \in Nat /\ k \in Nat /\ MaxDepth \in Nat /\ HotDepth \in Nat
      /\ Len(a) <= MaxDepth /\ k <= Len(a) /\ HotDepth <= MaxDepth
      /\ x \in Level /\ x.price = p /\ x.qty = q /\ q > 0
  BY LevelFields, DepthAssumption DEF SideOK, Level
<1>2. \A i \in 1 .. Len(a) : i > k => Better(s, p, a[i].price)
  <2> TAKE i \in 1 .. Len(a)
  <2> HAVE i > k
  <2>1. CASE i = k + 1
    <3>1. k < Len(a)
      BY <1>1, <2>1
    <3>2. QED
      BY <2>1, <3>1, Place
  <2>2. CASE i > k + 1
    BY <2>2, Place
  <2>3. QED
    BY <1>1, <2>1, <2>2
<1>3. p \notin Prices(a)
  <2> SUFFICES ASSUME NEW i \in 1 .. Len(a), a[i].price = p  PROVE FALSE
    BY <1>1, ByPlace
  <2>1. i = k + 1
    BY Place
  <2>2. k < Len(a)
    BY <1>1, <2>1
  <2>3. QED
    BY <2>1, <2>2
<1>4. /\ b \in Seq(Level) /\ Len(b) \in Nat
      /\ Len(b) = IF Len(a) >= MaxDepth THEN MaxDepth ELSE Len(a) + 1
      /\ \A i \in 1 .. Len(b) : b[i] = IF i <= k THEN a[i] ELSE IF i = k + 1 THEN x ELSE a[i - 1]
  <2>1. /\ all \in Seq(Level) /\ Len(all) = Len(a) + 1
        /\ \A i \in 1 .. Len(all) :
              all[i] = IF i <= k THEN a[i] ELSE IF i = k + 1 THEN x ELSE a[i - 1]
    BY <1>1, InsertAt
  <2> HIDE DEF all
  <2>2. CASE Len(a) >= MaxDepth
    <3>1. MaxDepth \in 0 .. Len(all)
      BY <1>1, <2>1, <2>2
    <3>2. /\ SubSeq(all, 1, MaxDepth) \in Seq(Level) /\ Len(SubSeq(all, 1, MaxDepth)) = MaxDepth
          /\ \A i \in 1 .. MaxDepth : SubSeq(all, 1, MaxDepth)[i] = all[i]
      BY <2>1, <3>1, Prefix
    <3>3. b = SubSeq(all, 1, MaxDepth)
      BY <2>2
    <3> HIDE DEF b
    <3>4. /\ b \in Seq(Level) /\ Len(b) = MaxDepth
          /\ \A i \in 1 .. MaxDepth : b[i] = all[i] /\ i \in 1 .. Len(all)
      BY <1>1, <2>1, <2>2, <3>2, <3>3
    <3>5. QED
      BY <1>1, <2>1, <2>2, <3>4
  <2>3. CASE ~ (Len(a) >= MaxDepth)
    <3>1. b = all
      BY <2>3
    <3> HIDE DEF b
    <3>2. QED
      BY <1>1, <2>1, <2>3, <3>1
  <2>4. QED
    BY <2>2, <2>3
<1> HIDE DEF b, all
<1>5. k + 1 \in 1 .. Len(b) /\ Len(b) <= Len(a) + 1 /\ Len(b) <= MaxDepth
  BY <1>1, <1>4
<1>6. ASSUME NEW i \in 1 .. Len(b), NEW j \in 1 .. Len(b), i < j
      PROVE  Better(s, b[i].price, b[j].price)
  <2>1. \A g, h \in 1 .. Len(a) : g < h => Better(s, a[g].price, a[h].price)
    BY DEF SideOK, Sorted
  <2>2. CASE j <= k
    <3>1. i \in 1 .. Len(a) /\ j \in 1 .. Len(a) /\ b[i] = a[i] /\ b[j] = a[j]
      BY <1>1, <1>4, <1>6, <2>2
    <3>2. QED
      BY <1>6, <2>1, <3>1
  <2>3. CASE j = k + 1
    <3>1. i \in 1 .. Len(a) /\ i <= k /\ b[i] = a[i] /\ b[j] = x
      BY <1>1, <1>4, <1>6, <2>3
    <3>2. QED
      BY <1>1, <3>1, Place
  <2>4. CASE j > k + 1 /\ i <= k
    <3>1. i \in 1 .. Len(a) /\ j - 1 \in 1 .. Len(a) /\ i < j - 1 /\ b[i] = a[i] /\ b[j] = a[j - 1]
      BY <1>1, <1>4, <1>5, <1>6, <2>4
    <3>2. QED
      BY <2>1, <3>1
  <2>5. CASE j > k + 1 /\ i = k + 1
    <3>1. j - 1 \in 1 .. Len(a) /\ j - 1 > k /\ b[i] = x /\ b[j] = a[j - 1]
      BY <1>1, <1>4, <1>5, <1>6, <2>5
    <3>2. QED
      BY <1>1, <1>2, <3>1
  <2>6. CASE i > k + 1
    <3>1. i - 1 \in 1 .. Len(a) /\ j - 1 \in 1 .. Len(a) /\ i - 1 < j - 1
      BY <1>1, <1>5, <1>6, <2>6
    <3>2. b[i] = a[i - 1] /\ b[j] = a[j - 1]
      BY <1>1, <1>4, <1>6, <2>6
    <3>3. QED
      BY <2>1, <3>1, <3>2
  <2>7. QED
    BY <1>1, <1>4, <1>6, <2>2, <2>3, <2>4, <2>5, <2>6
<1>7. SideOK(s, b)
  BY <1>4, <1>5, <1>6 DEF SideOK, Sorted
<1>8. ASSUME NEW i \in 1 .. Len(b)
      PROVE  b[i] = x \/ (b[i] \in Levels(a) /\ b[i].price \in Prices(a) /\ b[i].price # p)
  <2>1. CASE i = k + 1
    BY <1>1, <1>4, <2>1
  <2>2. CASE i # k + 1
    <3>1. PICK j \in 1 .. Len(a) : b[i] = a[j]
      <4>1. CASE i <= k
        BY <1>1, <1>4, <4>1
      <4>2. CASE i > k + 1
        <5>1. i - 1 \in 1 .. Len(a) /\ b[i] = a[i - 1]
          BY <1>1, <1>4, <1>5, <4>2
        <5>2. QED
          BY <5>1
      <4>3. QED
        BY <1>1, <1>4, <2>2, <4>1, <4>2
    <3>2. b[i] \in Levels(a) /\ b[i].price \in Prices(a)
      BY <1>1, <3>1, ByPlace
    <3>3. QED
      BY <1>3, <3>2
  <2>3. QED
    BY <2>1, <2>2
<1>9. \A l \in Levels(b) : IF l.price = p THEN q = l.qty ELSE l \in Levels(a)
  BY <1>1, <1>4, <1>8, ByPlace, SMTT(60)
<1>10. ASSUME Len(a) < MaxDepth  PROVE Prices(b) = Prices(a) \cup {p}
  <2>1. Len(b) = Len(a) + 1
    BY <1>1, <1>4, <1>10
  <2>2. ASSUME NEW r, r \in Prices(a)  PROVE r \in Prices(b)
    <3>1. PICK i \in 1 .. Len(a) : r = a[i].price
      BY <1>1, <2>2, ByPlace
    <3>2. CASE i <= k
      <4>1. i \in 1 .. Len(b) /\ b[i] = a[i]
        BY <1>1, <1>4, <2>1, <3>2
      <4>2. QED
        BY <1>4, <3>1, <4>1, ByPlace
    <3>3. CASE i > k
      <4>1. i + 1 \in 1 .. Len(b) /\ i + 1 > k + 1 /\ (i + 1) - 1 = i
        BY <1>1, <2>1, <3>3
      <4>2. b[i + 1] = a[i]
        BY <1>1, <1>4, <4>1
      <4>3. QED
        BY <1>4, <3>1, <4>1, <4>2, ByPlace
    <3>4. QED
      BY <1>1, <3>2, <3>3
  <2>3. p \in Prices(b)
    <3>1. b[k + 1] = x
      BY <1>1, <1>4, <1>5
    <3>2. QED
      BY <1>1, <1>4, <1>5, <3>1, ByPlace
  <2>4. ASSUME NEW r, r \in Prices(b)  PROVE r \in Prices(a) \cup {p}
    <3>1. PICK i \in 1 .. Len(b) : r = b[i].price
      BY <1>4, <2>4, ByPlace
    <3>2. QED
      BY <1>1, <1>8, <3>1
  <2>5. QED
    BY <2>2, <2>3, <2>4
<1>11. \/ Prices(b) = Prices(a) \cup {p}
       \/ p \notin Prices(a) /\ Len(a) = MaxDepth
  BY <1>1, <1>3, <1>10
<1>12. ~ IsHot(k) => Top(b) = Top(a)
  <2> SUFFICES ASSUME ~ IsHot(k)  PROVE Top(b) = Top(a)
    OBVIOUS
  <2>1. HotDepth <= k
    BY <1>1 DEF IsHot
  <2>2. HotDepth <= Len(a) /\ HotDepth <= Len(b) /\ \A i \in 1 .. HotDepth : i \in 1 .. Len(b) /\ i <= k
    BY <1>1, <1>4, <1>5, <2>1
  <2>3. \A i \in 1 .. HotDepth : a[i] = b[i]
    BY <1>4, <2>2
  <2>4. QED
    BY <1>1, <1>4, <2>2, <2>3, TopSame
<1>13. Outcome(s, a, p, q, b, k)
  BY <1>1, <1>7, <1>9, <1>11, <1>12 DEF Outcome
<1>14. QED
  BY <1>13 DEF b, all

\* A tick of quantity 0 at a price that has a level takes it out.
LEMMA RemoveOutcome ==
    ASSUME NEW s, NEW a, SideOK(s, a), NEW p \in Price,
           NEW k \in 0 .. Len(a), SplitsAt(s, a, p, k), k < Len(a), a[k + 1].price = p
    PROVE  Outcome(s, a, p, 0, Without(a, k), k)
<1> DEFINE b == Without(a, k)
<1>1. /\ a \in Seq(Level) /\ Len(a) \in Nat /\ k \in Nat /\ MaxDepth \in Nat /\ HotDepth \in Nat
      /\ Len(a) <= MaxDepth /\ k \in 0 .. Len(a) - 1
  BY LevelFields, DepthAssumption DEF SideOK
<1>2. /\ b \in Seq(Level) /\ Len(b) = Len(a) - 1
      /\ \A i \in 1 .. Len(b) : b[i] = IF i <= k THEN a[i] ELSE a[i + 1]
  BY <1>1, RemoveAt
<1> HIDE DEF b
<1>3. Len(b) \in Nat /\ Len(b) <= MaxDepth
  BY <1>1, <1>2
<1>4. ASSUME NEW i \in 1 .. Len(b)
      PROVE  \E j \in 1 .. Len(a) : /\ b[i] = a[j] /\ j # k + 1
                                    /\ j = IF i <= k THEN i ELSE i + 1
  <2>1. CASE i <= k
    BY <1>1, <1>2, <2>1
  <2>2. CASE i > k
    <3>1. i + 1 \in 1 .. Len(a) /\ b[i] = a[i + 1] /\ i + 1 # k + 1
      BY <1>1, <1>2, <2>2
    <3>2. QED
      BY <1>1, <2>2, <3>1
  <2>3. QED
    BY <1>1, <1>2, <2>1, <2>2
<1>5. ASSUME NEW i \in 1 .. Len(b), NEW j \in 1 .. Len(b), i < j
      PROVE  Better(s, b[i].price, b[j].price)
  <2>1. PICK g \in 1 .. Len(a) : b[i] = a[g] /\ g = IF i <= k THEN i ELSE i + 1
    BY <1>4
  <2>2. PICK h \in 1 .. Len(a) : b[j] = a[h] /\ h = IF j <= k THEN j ELSE j + 1
    BY <1>4
  <2>3. g < h
    BY <1>1, <1>2, <1>5, <2>1, <2>2
  <2>4. QED
    BY <2>1, <2>2, <2>3 DEF SideOK, Sorted
<1>6. SideOK(s, b)
  BY <1>2, <1>3, <1>5 DEF SideOK, Sorted
<1>7. ASSUME NEW i \in 1 .. Len(b)
      PROVE  b[i] \in Levels(a) /\ b[i].price \in Prices(a) /\ b[i].price # p
  <2>1. PICK j \in 1 .. Len(a) : b[i] = a[j] /\ j # k + 1
    BY <1>4
  <2>2. b[i] \in Levels(a) /\ b[i].price \in Prices(a)
    BY <1>1, <2>1, ByPlace
  <2>3. a[j].price # p
    BY <2>1, Place
  <2>4. QED
    BY <2>1, <2>2, <2>3
<1>8. \A l \in Levels(b) : IF l.price = p THEN 0 = l.qty ELSE l \in Levels(a)
  BY <1>2, <1>7, ByPlace
<1>9. Prices(b) = Prices(a) \ {p}
  <2>1. ASSUME NEW r, r \in Prices(b)  PROVE r \in Prices(a) /\ r # p
    <3>1. PICK i \in 1 .. Len(b) : r = b[i].price
      BY <1>2, <2>1, ByPlace
    <3>2. QED
      BY <1>7, <3>1
  <2>2. ASSUME NEW r, r \in Prices(a), r # p  PROVE r \in Prices(b)
    <3>1. PICK j \in 1 .. Len(a) : r = a[j].price
      BY <1>1, <2>2, ByPlace
    <3>2. j # k + 1
      BY <2>2, <3>1
    <3>3. CASE j <= k
      <4>1. j \in 1 .. Len(b) /\ b[j] = a[j]
        BY <1>1, <1>2, <3>3
      <4>2. QED
        BY <1>2, <3>1, <4>1, ByPlace
    <3>4. CASE j > k + 1
      <4>1. j - 1 \in 1 .. Len(b) /\ ~ (j - 1 <= k) /\ (j - 1) + 1 = j
        BY <1>1, <1>2, <3>4
      <4>2. b[j - 1] = a[j]
        BY <1>2, <4>1
      <4>3. QED
        BY <1>2, <3>1, <4>1, <4>2, ByPlace
    <3>5. QED
      BY <1>1, <3>2, <3>3, <3>4
  <2>3. QED
    BY <2>1, <2>2
<1>10. ~ IsHot(k) => Top(b) = Top(a)
  <2> SUFFICES ASSUME ~ IsHot(k)  PROVE Top(b) = Top(a)
    OBVIOUS
  <2>1. HotDepth <= k
    BY <1>1 DEF IsHot
  <2>2. HotDepth <= Len(a) /\ HotDepth <= Len(b) /\ \A i \in 1 .. HotDepth : i \in 1 .. Len(b) /\ i <= k
    BY <1>1, <1>2, <2>1
  <2>3. \A i \in 1 .. HotDepth : a[i] = b[i]
    BY <1>2, <2>2
  <2>4. QED
    BY <1>1, <1>2, <2>2, <2>3, TopSame
<1>11. Outcome(s, a, p, 0, b, k)
  BY <1>6, <1>8, <1>9, <1>10 DEF Outcome
<1>12. QED
  BY <1>11 DEF b

\* Whatever the tick, update leaves the side in order and changes what it should.
LEMMA ApplyOutcome ==
    ASSUME NEW s, NEW a, SideOK(s, a), NEW p \in Price, NEW q \in 0 .. MaxQty
    PROVE  Outcome(s, a, p, q, Apply(s, a, p, q).levels, Apply(s, a, p, q).pos)
<1> DEFINE x == [price |-> p, qty |-> q]
<1>1. /\ a \in Seq(Level) /\ Len(a) \in Nat /\ MaxDepth \in Nat /\ MaxQty \in Nat /\ Len(a) <= MaxDepth
  BY LevelFields, DepthAssumption DEF SideOK
<1>2. PICK k \in 0 .. Len(a) : SplitsAt(s, a, p, k)
  BY SortedSplits DEF SideOK
<1>3. InsertionPoint(s, a, p) = k
  BY <1>1, <1>2, SearchFinds
<1>4. CASE q > 0 /\ k < Len(a) /\ a[k + 1].price = p
  <2>1. Apply(s, a, p, q) = [levels |-> [a EXCEPT ![k + 1] = x], pos |-> k]
    BY <1>3, <1>4 DEF Apply, InsertLevel
  <2>2. q \in 1 .. MaxQty
    BY <1>1, <1>4
  <2>3. Outcome(s, a, p, q, [a EXCEPT ![k + 1] = x], k)
    BY <1>2, <1>4, <2>2, ReplaceOutcome
  <2> HIDE DEF x
  <2>4. QED
    BY <2>1, <2>3
<1>5. CASE q > 0 /\ ~ (k < Len(a) /\ a[k + 1].price = p) /\ k >= MaxDepth
  <2>1. Apply(s, a, p, q) = [levels |-> a, pos |-> -1]
    BY <1>3, <1>5 DEF Apply, InsertLevel
  <2>2. Len(a) = MaxDepth
    BY <1>1, <1>5
  <2>3. \A i \in 1 .. Len(a) : a[i].price # p
    <3> TAKE i \in 1 .. Len(a)
    <3>1. i <= k /\ i # k + 1
      BY <1>1, <1>5
    <3>2. QED
      BY <1>2, <3>1, Place
  <2>4. p \notin Prices(a)
    BY <1>1, <2>3, ByPlace
  <2>5. \A l \in Levels(a) : IF l.price = p THEN q = l.qty ELSE l \in Levels(a)
    BY <1>1, <2>3, ByPlace
  <2>6. QED
    BY <1>5, <2>1, <2>2, <2>4, <2>5 DEF Outcome
<1>6. CASE q > 0 /\ ~ (k < Len(a) /\ a[k + 1].price = p) /\ ~ (k >= MaxDepth)
  <2> DEFINE b == IF Len(a) >= MaxDepth THEN SubSeq(With(a, k, x), 1, MaxDepth) ELSE With(a, k, x)
  <2>1. Apply(s, a, p, q) = [levels |-> b, pos |-> k]
    BY <1>3, <1>6 DEF Apply, InsertLevel, With
  <2>2. q \in 1 .. MaxQty /\ k < MaxDepth
    BY <1>1, <1>6
  <2>3. Outcome(s, a, p, q, b, k)
    BY <1>2, <1>6, <2>2, InsertOutcome
  <2> HIDE DEF b
  <2>4. QED
    BY <2>1, <2>3
<1>7. CASE q = 0 /\ k < Len(a) /\ a[k + 1].price = p
  <2>1. Apply(s, a, p, q) = [levels |-> Without(a, k), pos |-> k]
    BY <1>3, <1>7 DEF Apply, RemoveLevel, Without
  <2>2. Outcome(s, a, p, 0, Without(a, k), k)
    BY <1>2, <1>7, RemoveOutcome
  <2>3. QED
    BY <1>7, <2>1, <2>2
<1>8. CASE q = 0 /\ ~ (k < Len(a) /\ a[k + 1].price = p)
  <2>1. Apply(s, a, p, q) = [levels |-> a, pos |-> -1]
    BY <1>3, <1>8 DEF Apply, RemoveLevel
  <2>2. ASSUME NEW i \in 1 .. Len(a)  PROVE a[i].price # p
    <3>1. a[i].price = p => i = k + 1
      BY <1>2, Place
    <3>2. i = k + 1 => k < Len(a)
      BY <1>1
    <3>3. QED
      BY <1>8, <3>1, <3>2
  <2>3. p \notin Prices(a)
    BY <1>1, <2>2, ByPlace
  <2>4. \A l \in Levels(a) : IF l.price = p THEN q = l.qty ELSE l \in Levels(a)
    BY <1>1, <2>2, ByPlace
  <2>5. QED
    BY <1>8, <2>1, <2>3, <2>4 DEF Outcome
<1>9. QED
  BY <1>1, <1>4, <1>5, <1>6, <1>7, <1>8

\* A side has as many prices as levels.
LEMMA PriceCount ==
    ASSUME NEW s, NEW a, SideOK(s, a)
    PROVE  IsFiniteSet(Prices(a)) /\ Cardinality(Prices(a)) = Len(a)
<1> DEFINE n == Len(a)
           f == [i \in 1 .. n |-> a[i].price]
<1>1. n \in Nat /\ a \in Seq(Level) /\ \A i \in 1 .. n : a[i].price \in Price
  BY LevelFields DEF SideOK
<1>2. \A i, j \in 1 .. n : i < j => a[i].price # a[j].price
  <2> TAKE i, j \in 1 .. n
  <2> HAVE i < j
  <2>1. Better(s, a[i].price, a[j].price)
    BY DEF SideOK, Sorted
  <2>2. ~ Better(s, a[i].price, a[i].price)
    BY <1>1, BetterOrder
  <2>3. QED
    BY <2>1, <2>2
<1>3. f \in [1 .. n -> Prices(a)]
  BY <1>1, ByPlace
<1>4. \A i, j \in 1 .. n : f[i] = f[j] => i = j
  BY <1>1, <1>2
<1>5. \A r \in Prices(a) : \E i \in 1 .. n : f[i] = r
  BY <1>1, ByPlace
<1> HIDE DEF f
<1>6. f \in Bijection(1 .. n, Prices(a))
  BY <1>3, <1>4, <1>5 DEF Bijection, Injection, Surjection, IsInjective
<1>7. ExistsBijection(1 .. n, Prices(a))
  BY <1>6 DEF ExistsBijection
<1>8. IsFiniteSet(1 .. n) /\ Cardinality(1 .. n) = n
  <2>1. IsFiniteSet(1 .. n) /\ Cardinality(1 .. n) = (IF 1 > n THEN 0 ELSE n - 1 + 1)
    BY <1>1, FS_Interval
  <2>2. QED
    BY <1>1, <2>1
<1>9. QED
  BY <1>7, <1>8, FS_Bijection

\* A side tells the feed: its quantities are the last ones the ticks gave, and no
\* level of the feed is missing unless the side was once too deep.
ExactSide(s, levels, f, d) ==
    /\ SideOK(s, levels)
    /\ \A l \in Levels(levels) : f[s][l.price] = l.qty
    /\ s \notin d => LevelsOf(f, s) = Prices(levels)

\* update keeps a side exact: a level is lost only to a side that is too deep.
LEMMA UpdateKeepsExact ==
    ASSUME NEW s \in Side, NEW a, NEW p \in Price, NEW q \in 0 .. MaxQty, NEW b, NEW pos,
           feed \in [Side -> [Price -> Nat]], ExactSide(s, a, feed, deep),
           Outcome(s, a, p, q, b, pos), NEW f, f = Fed(s, p, q), NEW d,
           d = IF Cardinality(LevelsOf(f, s)) > MaxDepth THEN deep \cup {s} ELSE deep
    PROVE  ExactSide(s, b, f, d)
<1>1. /\ f[s] \in [Price -> Nat] /\ f[s][p] = q
      /\ \A r \in Price : r # p => f[s][r] = feed[s][r]
  BY DepthAssumption DEF Fed
<1>2. SideOK(s, b) /\ SideOK(s, a)
  BY DEF Outcome, ExactSide
<1>3. \A l \in Levels(a) \cup Levels(b) : l.price \in Price
  <2> SUFFICES ASSUME NEW c \in Seq(Level), NEW l \in Levels(c)  PROVE l.price \in Price
    BY <1>2 DEF SideOK
  <2>1. PICK i \in 1 .. Len(c) : l = c[i]
    BY ByPlace
  <2>2. QED
    BY <2>1, LevelFields
<1>4. \A l \in Levels(b) : f[s][l.price] = l.qty
  <2> TAKE l \in Levels(b)
  <2>1. l.price \in Price
    BY <1>3
  <2>2. CASE l.price = p
    BY <1>1, <2>2 DEF Outcome
  <2>3. CASE l.price # p
    BY <1>1, <2>1, <2>3 DEF Outcome, ExactSide
  <2>4. QED
    BY <2>2, <2>3
<1>5. /\ q > 0 => LevelsOf(f, s) = LevelsOf(feed, s) \cup {p}
      /\ q = 0 => LevelsOf(f, s) = LevelsOf(feed, s) \ {p}
  BY <1>1 DEF LevelsOf
<1>6. ASSUME s \notin d  PROVE LevelsOf(f, s) = Prices(b)
  <2>1. s \notin deep /\ ~ (Cardinality(LevelsOf(f, s)) > MaxDepth)
    BY <1>6
  <2>2. LevelsOf(feed, s) = Prices(a)
    BY <2>1 DEF ExactSide
  <2>3. CASE q = 0 /\ Prices(b) = Prices(a) \ {p}
    BY <1>5, <2>2, <2>3
  <2>4. CASE q > 0 /\ Prices(b) = Prices(a) \cup {p}
    BY <1>5, <2>2, <2>4
  <2>5. CASE q > 0 /\ p \notin Prices(a) /\ Len(a) = MaxDepth
    <3>1. LevelsOf(f, s) = Prices(a) \cup {p}
      BY <1>5, <2>2, <2>5
    <3>2. IsFiniteSet(Prices(a)) /\ Cardinality(Prices(a)) = MaxDepth
      BY <1>2, <2>5, PriceCount
    <3>3. Cardinality(Prices(a) \cup {p}) = MaxDepth + 1
      BY <2>5, <3>2, FS_AddElement
    <3>4. QED
      BY <2>1, <3>1, <3>3, DepthAssumption
  <2>6. QED
    BY <2>3, <2>4, <2>5 DEF Outcome
<1>7. QED
  BY <1>2, <1>4, <1>6 DEF ExactSide

-----------------------------------------------------------------------------
(* The writer *)

\* The buffer that holds the last update: the memcpy after a swap is still to copy
\* it to the other one.
Latest == IF wpc = "refill" THEN active ELSE writeIdx

\* The sides of the hot levels that are up to date: those an update left alone, or
\* the ones rebuildHotData has copied so far.
Rebuilt == CASE wpc \in {"idle", "even", "swap", "refill"} -> Side
             [] wpc = "ask" -> {"bid"}
             [] OTHER -> {}

(* BookIsExact and HotIsTop speak of the time between two updates; the     *)
(* invariant follows the latest book through the copy of the hot levels,   *)
(* the swap and the memcpy.                                                *)
WriterSteps == {"idle", "odd", "bid", "ask", "even", "swap", "refill"}

BookInv ==
    /\ BuffersInv /\ IsBook(hot)
    /\ feed \in [Side -> [Price -> Nat]] /\ wpc \in WriterSteps
    /\ wpc = "refill" => active # writeIdx
    /\ wpc = "idle" => cold[0] = cold[1]
    /\ \A s \in Side : ExactSide(s, cold[Latest][s], feed, deep)
    /\ \A s \in Rebuilt : hot[s] = Top(cold[Latest][s])

\* An empty side is exact when the feed is empty, and has no hot levels.
LEMMA EmptySide ==
    /\ \A d : \A s \in Side : ExactSide(s, <<>>, [t \in Side |-> [p \in Price |-> 0]], d)
    /\ Top(<<>>) = <<>>
<1>1. <<>> \in Seq(Level) /\ Len(<<>>) = 0
  OBVIOUS
<1>2. Levels(<<>>) = {} /\ Prices(<<>>) = {}
  BY <1>1 DEF Levels, Prices
<1>3. \A s \in Side : SideOK(s, <<>>)
  BY <1>1, DepthAssumption DEF SideOK, Sorted
<1>4. \A s \in Side : LevelsOf([t \in Side |-> [p \in Price |-> 0]], s) = {}
  BY DEF LevelsOf
<1>5. Top(<<>>) = SubSeq(<<>>, 1, 0)
  <2>1. (IF Len(<<>>) < HotDepth THEN Len(<<>>) ELSE HotDepth) = 0
    BY <1>1, DepthAssumption
  <2>2. QED
    BY <2>1, Zenon DEF Top
<1>6. Top(<<>>) = <<>>
  BY <1>5, SubSeqEmpty
<1>7. QED
  BY <1>2, <1>3, <1>4, <1>6 DEF ExactSide

LEMMA InitBook == Init => BookInv
<1> SUFFICES ASSUME Init PROVE BookInv
  OBVIOUS
<1>1. BuffersInv /\ IsBook(hot) /\ cold[0] = cold[1] /\ wpc = "idle" /\ feed \in [Side -> [Price -> Nat]]
  BY DEF Init, BuffersInv, Buffer, IsBook, NoBook
<1>2. \A s \in Side : cold[Latest][s] = <<>> /\ hot[s] = <<>>
  BY DEF Init, Buffer, NoBook, Latest
<1>3. \A s \in Side : ExactSide(s, cold[Latest][s], feed, deep)
  BY <1>2, EmptySide DEF Init
<1>4. \A s \in Side : hot[s] = Top(cold[Latest][s])
  BY <1>2, EmptySide
<1>5. Rebuilt = Side
  BY <1>1 DEF Rebuilt
<1>6. QED
  BY <1>1, <1>3, <1>4, <1>5 DEF BookInv, WriterSteps

\* A tick, applied to the write buffer.
LEMMA UpdateKeepsBook ==
    ASSUME BookInv, NEW s \in Side, NEW p \in Price, NEW q \in 0 .. MaxQty, UpdateLevels(s, p, q)
    PROVE  BookInv'
<1> DEFINE a == cold[writeIdx][s]
           done == Apply(s, a, p, q)
           b == done.levels
           book == [cold[writeIdx] EXCEPT ![s] = b]
<1>1. /\ wpc = "idle" /\ Latest = writeIdx /\ Rebuilt = Side
      /\ active \in Buffer /\ writeIdx \in Buffer /\ DOMAIN cold = Buffer
      /\ \A i \in Buffer : IsBook(cold[i])
      /\ feed \in [Side -> [Price -> Nat]]
  BY DEF UpdateLevels, BookInv, BuffersInv, Latest, Rebuilt
<1>2. /\ cold' = [cold EXCEPT ![writeIdx] = book]
      /\ wpc' = IF IsHot(done.pos) THEN "odd" ELSE "swap"
      /\ feed' = Fed(s, p, q)
      /\ deep' = IF Cardinality(LevelsOf(feed', s)) > MaxDepth THEN deep \cup {s} ELSE deep
      /\ UNCHANGED <<active, writeIdx, hot>>
  BY DEF UpdateLevels
<1>3. ExactSide(s, a, feed, deep) /\ Outcome(s, a, p, q, b, done.pos)
  <2>1. ExactSide(s, a, feed, deep)
    BY <1>1 DEF BookInv
  <2> HIDE DEF a
  <2>2. QED
    BY <2>1, ApplyOutcome DEF ExactSide
<1>4. ExactSide(s, b, feed', deep')
  <2> HIDE DEF a, b, done
  <2>1. QED
    BY <1>1, <1>2, <1>3, UpdateKeepsExact
<1>5. wpc' \in {"odd", "swap"} /\ Latest' = writeIdx
  BY <1>2 DEF Latest
<1> HIDE DEF done, b
<1>6. /\ cold'[writeIdx] = book /\ book[s] = b
      /\ \A t \in Side : t # s => book[t] = cold[writeIdx][t]
      /\ IsBook(book)
  BY <1>1, <1>2 DEF IsBook
<1> HIDE DEF book
<1>7. BuffersInv'
  BY <1>1, <1>2, <1>6 DEF BuffersInv, IsBook
<1>8. feed' \in [Side -> [Price -> Nat]]
  BY <1>1, <1>2, DepthAssumption DEF Fed
<1>9. ASSUME NEW t \in Side, t # s  PROVE ExactSide(t, book[t], feed', deep')
  <2>1. ExactSide(t, book[t], feed, deep)
    BY <1>1, <1>6, <1>9 DEF BookInv
  <2>2. feed'[t] = feed[t] /\ (t \in deep' <=> t \in deep)
    BY <1>1, <1>2, <1>9 DEF Fed
  <2>3. LevelsOf(feed', t) = LevelsOf(feed, t)
    BY <2>2 DEF LevelsOf
  <2>4. QED
    BY <2>1, <2>2, <2>3 DEF ExactSide
<1>10. \A t \in Side : ExactSide(t, cold'[Latest'][t], feed', deep')
  BY <1>4, <1>5, <1>6, <1>9
<1>11. ASSUME wpc' = "swap"  PROVE \A t \in Side : hot[t] = Top(book[t])
  <2>1. ~ IsHot(done.pos)
    BY <1>2, <1>11
  <2>2. Top(b) = Top(a)
    BY <1>3, <2>1 DEF Outcome
  <2>3. \A t \in Side : hot[t] = Top(cold[writeIdx][t])
    BY <1>1 DEF BookInv
  <2>4. QED
    BY <1>6, <2>2, <2>3
<1>12. \A t \in Rebuilt' : hot'[t] = Top(cold'[Latest'][t])
  <2>1. CASE wpc' = "odd"
    BY <2>1 DEF Rebuilt
  <2>2. CASE wpc' = "swap"
    <3>1. Rebuilt' = Side
      BY <2>2 DEF Rebuilt
    <3>2. QED
      BY <1>2, <1>5, <1>6, <1>11, <2>2, <3>1
  <2>3. QED
    BY <1>5, <2>1, <2>2
<1>13. IsBook(hot')
  BY <1>2 DEF BookInv
<1>14. QED
  BY <1>5, <1>7, <1>8, <1>10, <1>12, <1>13 DEF BookInv, WriterSteps

\* clear empties the write buffer and forgets the feed.
LEMMA ClearKeepsBook ==
    ASSUME BookInv, Clear
    PROVE  BookInv'
<1>1. /\ active \in Buffer /\ writeIdx \in Buffer /\ DOMAIN cold = Buffer
      /\ \A i \in Buffer : IsBook(cold[i])
  BY DEF BookInv, BuffersInv
<1>2. /\ cold' = [cold EXCEPT ![writeIdx] = NoBook] /\ wpc' = "odd"
      /\ feed' = [s \in Side |-> [p \in Price |-> 0]]
      /\ UNCHANGED <<active, writeIdx, hot>>
  BY DEF Clear
<1>3. BuffersInv' /\ IsBook(hot') /\ feed' \in [Side -> [Price -> Nat]]
  BY <1>1, <1>2 DEF BuffersInv, IsBook, NoBook, BookInv
<1>4. Latest' = writeIdx /\ Rebuilt' = {}
  BY <1>2 DEF Latest, Rebuilt
<1>5. \A s \in Side : cold'[writeIdx][s] = <<>>
  BY <1>1, <1>2 DEF NoBook
<1>6. \A s \in Side : ExactSide(s, cold'[Latest'][s], feed', deep')
  BY <1>2, <1>4, <1>5, EmptySide
<1>7. QED
  BY <1>2, <1>3, <1>4, <1>6 DEF BookInv, WriterSteps

\* A step of the writer that changes neither the buffers nor the feed.
LEMMA SameBook ==
    ASSUME BookInv, UNCHANGED <<cold, active, writeIdx, feed, deep>>, IsBook(hot'),
           wpc \notin {"idle", "refill"}, wpc' \in WriterSteps \ {"idle", "refill"},
           \A s \in Rebuilt' : hot'[s] = Top(cold[writeIdx][s])
    PROVE  BookInv'
<1>1. Latest = writeIdx /\ Latest' = writeIdx
  BY DEF Latest
<1>2. BuffersInv'
  BY DEF BookInv, BuffersInv, IsBook
<1>3. \A s \in Side : ExactSide(s, cold'[Latest'][s], feed', deep')
  BY <1>1 DEF BookInv
<1>4. \A s \in Rebuilt' : hot'[s] = Top(cold'[Latest'][s])
  BY <1>1
<1>5. QED
  BY <1>2, <1>3, <1>4 DEF BookInv

\* rebuildHotData: the version first, then the bids, the asks, and the version.
LEMMA RebuildKeepsBook ==
    ASSUME BookInv, BumpOdd \/ BumpEven \/ \E s \in Side : CopySide(s)
    PROVE  BookInv'
<1>1. CASE BumpOdd
  <2>1. /\ UNCHANGED <<cold, active, writeIdx, feed, deep, hot>>
        /\ wpc = "odd" /\ wpc' = "bid" /\ Rebuilt' = {}
    BY <1>1 DEF BumpOdd, feedVars, Rebuilt
  <2>2. QED
    BY <2>1, SameBook DEF WriterSteps, BookInv
<1>2. CASE BumpEven
  <2>1. /\ UNCHANGED <<cold, active, writeIdx, feed, deep, hot>>
        /\ wpc = "even" /\ wpc' = "swap" /\ Rebuilt' = Side /\ Rebuilt = Side /\ Latest = writeIdx
    BY <1>2 DEF BumpEven, feedVars, Rebuilt, Latest
  <2>2. \A s \in Rebuilt' : hot'[s] = Top(cold[writeIdx][s])
    BY <2>1 DEF BookInv
  <2>3. QED
    BY <2>1, <2>2, SameBook DEF WriterSteps, BookInv
<1>3. ASSUME NEW s \in Side, CopySide(s)  PROVE BookInv'
  <2>1. /\ UNCHANGED <<cold, active, writeIdx, feed, deep>>
        /\ wpc = s /\ wpc' = IF s = "bid" THEN "ask" ELSE "even"
        /\ hot' = [hot EXCEPT ![s] = Top(cold[writeIdx][s])]
    BY <1>3 DEF CopySide, feedVars
  <2>2. IsBook(hot') /\ hot'[s] = Top(cold[writeIdx][s]) /\ \A t \in Side : t # s => hot'[t] = hot[t]
    BY <2>1 DEF BookInv, IsBook
  <2>3. CASE s = "bid"
    <3>1. wpc' = "ask" /\ Rebuilt' = {"bid"}
      BY <2>1, <2>3 DEF Rebuilt
    <3>2. QED
      BY <2>1, <2>2, <2>3, <3>1, SameBook DEF WriterSteps
  <2>4. CASE s = "ask"
    <3>1. wpc' = "even" /\ Rebuilt' = Side /\ Rebuilt = {"bid"} /\ Latest = writeIdx
      BY <2>1, <2>4 DEF Rebuilt, Latest
    <3>2. hot["bid"] = Top(cold[writeIdx]["bid"])
      BY <3>1 DEF BookInv
    <3>3. \A t \in Side : hot'[t] = Top(cold[writeIdx][t])
      BY <2>2, <2>4, <3>2 DEF Side
    <3>4. QED
      BY <2>1, <2>2, <2>4, <3>1, <3>3, SameBook DEF WriterSteps
  <2>5. QED
    BY <2>3, <2>4 DEF Side
<1>4. QED
  BY <1>1, <1>2, <1>3

\* The swap makes the latest book the active one, and the memcpy makes the two equal.
LEMMA SwapKeepsBook ==
    ASSUME BookInv, Swap \/ Refill
    PROVE  BookInv'
<1>1. /\ active \in Buffer /\ writeIdx \in Buffer /\ DOMAIN cold = Buffer
      /\ \A i \in Buffer : IsBook(cold[i])
  BY DEF BookInv, BuffersInv
<1>2. CASE Swap
  <2>1. /\ wpc = "swap" /\ wpc' = "refill" /\ UNCHANGED <<cold, hot, feed, deep>>
        /\ active' = writeIdx /\ writeIdx' = 1 - writeIdx
    BY <1>2 DEF Swap, feedVars
  <2>2. Latest = writeIdx /\ Latest' = writeIdx /\ Rebuilt = Side /\ Rebuilt' = Side
    BY <2>1 DEF Latest, Rebuilt
  <2>3. active' # writeIdx' /\ active' \in Buffer /\ writeIdx' \in Buffer
    BY <1>1, <2>1 DEF Buffer
  <2>4. BuffersInv' /\ IsBook(hot')
    BY <1>1, <2>1, <2>3 DEF BuffersInv, IsBook, BookInv
  <2>5. \A s \in Side : /\ ExactSide(s, cold'[Latest'][s], feed', deep')
                        /\ hot'[s] = Top(cold'[Latest'][s])
    BY <2>1, <2>2 DEF BookInv
  <2>6. QED
    BY <2>1, <2>2, <2>3, <2>4, <2>5 DEF BookInv, WriterSteps
<1>3. CASE Refill
  <2>1. /\ wpc = "refill" /\ wpc' = "idle" /\ UNCHANGED <<active, writeIdx, hot, feed, deep>>
        /\ cold' = [cold EXCEPT ![writeIdx] = cold[active]]
    BY <1>3 DEF Refill, feedVars
  <2>2. Latest = active /\ Latest' = writeIdx /\ Rebuilt = Side /\ Rebuilt' = Side
    BY <2>1 DEF Latest, Rebuilt
  <2>3. active # writeIdx
    BY <2>1 DEF BookInv
  <2>4. cold'[writeIdx] = cold[active] /\ cold'[active] = cold[active]
    BY <1>1, <2>1, <2>3
  <2>5. cold'[0] = cold'[1]
    BY <1>1, <2>3, <2>4 DEF Buffer
  <2>6. BuffersInv' /\ IsBook(hot')
    BY <1>1, <2>1 DEF BuffersInv, IsBook, BookInv
  <2>7. \A s \in Side : /\ ExactSide(s, cold'[Latest'][s], feed', deep')
                        /\ hot'[s] = Top(cold'[Latest'][s])
    BY <2>1, <2>2, <2>4 DEF BookInv
  <2>8. QED
    BY <2>1, <2>2, <2>5, <2>6, <2>7 DEF BookInv, WriterSteps
<1>4. QED
  BY <1>2, <1>3

\* Readers change nothing the writer relies on.
LEMMA ReadersKeepBook ==
    ASSUME BookInv, UNCHANGED <<cold, active, writeIdx, hot, wpc, feed, deep>>
    PROVE  BookInv'
<1>1. Latest' = Latest /\ Rebuilt' = Rebuilt
  BY DEF Latest, Rebuilt
<1>2. QED
  BY <1>1 DEF BookInv, BuffersInv, IsBook

LEMMA BookInductive == BookInv /\ [Next]_vars => BookInv'
<1> SUFFICES ASSUME BookInv, [Next]_vars PROVE BookInv'
  OBVIOUS
<1>1. CASE Writer
  BY <1>1, UpdateKeepsBook, ClearKeepsBook, RebuildKeepsBook, SwapKeepsBook DEF Writer
<1>2. ASSUME NEW r \in HotReaders, HotReader(r)  PROVE BookInv'
  <2>1. UNCHANGED <<cold, active, writeIdx, hot, wpc, feed, deep>>
    BY <1>2 DEF HotReader, ReadHot, LoadBefore, LoadAfter, Return, ReadHotSide, writerVars, feedVars
  <2>2. QED
    BY <2>1, ReadersKeepBook
<1>3. ASSUME NEW r \in ColdReaders, ColdReader(r)  PROVE BookInv'
  <2>1. UNCHANGED <<cold, active, writeIdx, hot, wpc, feed, deep>>
    BY <1>3 DEF ColdReader, GetReadBuffer, CopyColdSide, Return, writerVars, feedVars
  <2>2. QED
    BY <2>1, ReadersKeepBook
<1>4. CASE UNCHANGED vars
  BY <1>4, ReadersKeepBook DEF vars
<1>5. QED
  BY <1>1, <1>2, <1>3, <1>4 DEF Next

LEMMA BookInvHolds == Spec => []BookInv
  BY InitBook, BookInductive, PTL DEF Spec

\* No sequence of inserts, updates, trims and removals corrupts a side, for every
\* depth and every set of prices: binary search, shifting and trimming included.
THEOREM BookStaysExact == Spec => []BookIsExact
<1>1. BookInv => BookIsExact
  <2> SUFFICES ASSUME BookInv, NEW s \in Side, wpc = "idle"
               PROVE  LET levels == cold[writeIdx][s]
                      IN  /\ \A i, j \in 1 .. Len(levels) :
                                i < j => Better(s, levels[i].price, levels[j].price)
                          /\ \A l \in Levels(levels) : feed[s][l.price] = l.qty
                          /\ s \notin deep => LevelsOf(feed, s) = {l.price : l \in Levels(levels)}
    BY DEF BookIsExact
  <2>1. Latest = writeIdx
    BY DEF Latest
  <2>2. ExactSide(s, cold[writeIdx][s], feed, deep)
    BY <2>1 DEF BookInv
  <2>3. QED
    BY <2>2 DEF ExactSide, SideOK, Sorted, Prices
<1>2. QED
  BY <1>1, BookInvHolds, PTL

\* The hot levels are the best levels of the book between two updates, although the
\* copy is skipped whenever update finds that no hot level changed.
THEOREM HotStaysTop == Spec => []HotIsTop
<1>1. BookInv => HotIsTop
  <2> SUFFICES ASSUME BookInv, wpc = "idle"
               PROVE  cold[0] = cold[1] /\ \A s \in Side : hot[s] = Top(cold[active][s])
    BY DEF HotIsTop
  <2>1. Latest = writeIdx /\ Rebuilt = Side
    BY DEF Latest, Rebuilt
  <2>2. cold[0] = cold[1] /\ cold[active] = cold[writeIdx]
    BY DEF BookInv, BuffersInv, Buffer
  <2>3. QED
    BY <2>1, <2>2 DEF BookInv
<1>2. QED
  BY <1>1, BookInvHolds, PTL
=============================================================================
