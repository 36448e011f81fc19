------------------------- MODULE RiskParams_proofs -------------------------
(***************************************************************************)
(* Proof that the hot parameters of RiskEngine are an atomic register, for *)
(* every number of fields, readers, snapshots, updates and retries, as     *)
(* long as updateParameters is not called by two threads.                  *)
(***************************************************************************)
EXTENDS RiskParams, TLAPS

OneWriter == \A v, w \in Writers : v = w

Places == {"idle", "params", "build", "loadOdd", "storeOdd", "copy", "loadEven", "storeEven", "swap",
           "flip", "v1", "fields", "v2", "verified", "fallback", "blind", "snapshot"}

LocalType == [dark : Buffer, ver : Nat, retry : Nat, update : Nat]

Types ==
    /\ hot \in [Field -> Nat] /\ version \in Nat /\ issued \in Nat
    /\ cold \in [Buffer -> [params : [Field -> Nat], hot : [Field -> Nat]]]
    /\ active \in Buffer /\ writeIdx \in Buffer
    /\ pc \in [Threads -> Places]
    /\ todo \in [Threads -> SUBSET Field]
    /\ local \in [Threads -> LocalType]
    /\ result \in [Readers \cup Snapshotters -> [Field -> Nat]]
    /\ floor \in [Readers -> Nat]

(* What the hot parameters and the version are while the writer is at each *)
(* of its steps: the version is twice the number of the update that is in  *)
(* them, and odd while they are copied.                                    *)
WriterInv(w) ==
    /\ pc[w] \in {"idle", "params", "build", "loadOdd", "storeOdd", "copy", "loadEven", "storeEven", "swap", "flip"}
    /\ pc[w] = "idle" => version = 2 * issued
    /\ pc[w] # "idle" => issued > 0 /\ local[w].update = issued
    /\ pc[w] \in {"params", "build", "loadOdd", "storeOdd"} => version = 2 * issued - 2
    /\ pc[w] \in {"copy", "loadEven", "storeEven"} => version = 2 * issued - 1
    /\ pc[w] \in {"swap", "flip"} => version = 2 * issued
    /\ pc[w] \in {"storeOdd", "storeEven"} => local[w].ver = version + 1
    /\ pc[w] \in {"params", "loadOdd", "storeOdd", "copy"} => local[w].dark = writeIdx
    /\ pc[w] = "params" => \A f \in Field \ todo[w] : cold[writeIdx].params[f] = issued
    /\ pc[w] = "build" => \A f \in Field : cold[writeIdx].params[f] = issued
    /\ pc[w] \in {"loadOdd", "storeOdd", "copy"} => \A f \in Field : cold[writeIdx].hot[f] = issued
    /\ pc[w] = "copy" => \A f \in Field \ todo[w] : hot[f] = issued
    /\ pc[w] \in {"loadEven", "storeEven"} => \A f \in Field : hot[f] = issued

HotInv == version % 2 = 0 => \A f \in Field : 2 * hot[f] = version

(* A reader past its first load holds an even version; while it is the     *)
(* present one, what it has copied belongs to it.  Nothing it has returned *)
(* or knows of is newer than the version.                                  *)
ReaderInv(r) ==
    /\ 2 * floor[r] <= version
    /\ pc[r] \in {"fields", "v2"} =>
          /\ local[r].ver % 2 = 0 /\ 2 * floor[r] <= local[r].ver /\ local[r].ver <= version
          /\ local[r].ver = version => \A f \in Field \ todo[r] : 2 * result[r][f] = version
    /\ pc[r] = "v2" => todo[r] = {}
    /\ pc[r] = "verified" => /\ \A f, g \in Field : result[r][f] = result[r][g]
                             /\ \A f \in Field : floor[r] <= result[r][f]
    /\ pc[r] \in {"idle", "verified"} => \A f \in Field : 2 * result[r][f] <= version

SeqLock == /\ Types /\ HotInv
           /\ Writers = {} => version = 2 * issued
           /\ \A w \in Writers : WriterInv(w)
           /\ \A r \in Readers : ReaderInv(r)

\* Copying a field keeps the types of the thread's place and of its rest.
LEMMA FieldDoneTypes ==
    ASSUME Types, NEW t \in Threads, NEW f \in Field, NEW next \in Places, FieldDone(t, f, next)
    PROVE  /\ pc' \in [Threads -> Places] /\ todo' \in [Threads -> SUBSET Field]
           /\ todo'[t] = todo[t] \ {f}
           /\ pc'[t] = IF todo[t] = {f} THEN next ELSE pc[t]
           /\ \A u \in Threads \ {t} : pc'[u] = pc[u] /\ todo'[u] = todo[u]
  BY DEF Types, FieldDone, Goto

\* Assigning to variables of one thread.
LEMMA LocalEffect ==
    ASSUME Types, NEW t \in Threads, NEW new \in LocalType, local' = [local EXCEPT ![t] = new]
    PROVE  /\ local' \in [Threads -> LocalType] /\ local'[t] = new
           /\ \A u \in Threads \ {t} : local'[u] = local[u]
  BY DEF Types, LocalType

\* Twice a number is even, the number before it odd.
LEMMA Parity ==
    /\ \A n \in Nat : (2 * n) % 2 = 0
    /\ \A n \in Nat : n > 0 => (2 * n - 1) % 2 = 1
  OBVIOUS

\* The writer's steps.
LEMMA WriteKeeps ==
    ASSUME Types, HotInv, NEW w \in Writers, WriterInv(w), Write(w)
    PROVE  /\ Types' /\ HotInv' /\ WriterInv(w)'
           /\ version <= version' /\ result' = result /\ floor' = floor
           /\ \A t \in Threads \ {w} : pc'[t] = pc[t] /\ todo'[t] = todo[t] /\ local'[t] = local[t]
<1> DEFINE Others == \A t \in Threads \ {w} : pc'[t] = pc[t] /\ todo'[t] = todo[t] /\ local'[t] = local[t]
           Goal == /\ Types' /\ HotInv' /\ WriterInv(w)'
                   /\ version <= version' /\ result' = result /\ floor' = floor /\ Others
<1>0. w \in Threads
  BY DEF Threads
<1>a. local[w] \in LocalType /\ version \in Nat /\ issued \in Nat /\ writeIdx \in Buffer
  BY <1>0 DEF Types
<1>1. CASE UpdateBegin(w)
  <2>0. /\ local' \in [Threads -> LocalType]
        /\ local'[w].dark = writeIdx /\ local'[w].update = issued + 1
        /\ \A t \in Threads \ {w} : local'[t] = local[t]
    <3> DEFINE mid == [local[w] EXCEPT !.dark = writeIdx]
    <3>1. mid \in LocalType /\ mid.dark = writeIdx
      BY <1>a DEF LocalType
    <3>2. local' = [local EXCEPT ![w] = [mid EXCEPT !.update = issued + 1]]
      BY <1>0, <1>1 DEF UpdateBegin, Types
    <3> HIDE DEF mid
    <3> DEFINE new == [mid EXCEPT !.update = issued + 1]
    <3>3. new \in LocalType /\ new.dark = writeIdx /\ new.update = issued + 1
      BY <1>a, <3>1 DEF LocalType
    <3>4. local' = [local EXCEPT ![w] = new]
      BY <3>2
    <3> HIDE DEF new
    <3>5. QED
      BY <1>0, <3>3, <3>4, LocalEffect
  <2>1. Types' /\ Others
    BY <1>0, <1>1, <2>0 DEF UpdateBegin, Goto, Types, Places
  <2>2. WriterInv(w)'
    <3>1. pc[w] = "idle" /\ pc'[w] = "params" /\ todo'[w] = Field /\ version' = version /\ writeIdx' = writeIdx
      BY <1>0, <1>1 DEF UpdateBegin, Goto, Types
    <3>2. issued' = issued + 1 /\ version = 2 * issued /\ issued \in Nat
      BY <1>1, <3>1 DEF UpdateBegin, WriterInv, Types
    <3>3. QED
      BY <2>0, <3>1, <3>2 DEF WriterInv
  <2>3. HotInv' /\ version <= version' /\ result' = result /\ floor' = floor
    BY <1>1 DEF UpdateBegin, Goto, Types, HotInv, WriterInv
  <2>4. QED
    BY <2>1, <2>2, <2>3
<1>2. CASE BuildHot(w)
  <2>1. Types' /\ Others
    BY <1>0, <1>2, ZenonT(60) DEF BuildHot, Goto, Types, LocalType, Places, Buffer
  <2>2. WriterInv(w)'
    BY <1>0, <1>2 DEF BuildHot, Goto, Types, LocalType, WriterInv, Buffer
  <2>3. HotInv' /\ version <= version' /\ result' = result /\ floor' = floor
    BY <1>2 DEF BuildHot, Goto, Types, HotInv, WriterInv
  <2>4. QED
    BY <2>1, <2>2, <2>3
<1>3. CASE LoadVersion(w)
  <2>0. /\ local' \in [Threads -> LocalType]
        /\ \A t \in Threads \ {w} : local'[t] = local[t]
    <3> DEFINE new == [local[w] EXCEPT !.ver = version + 1]
    <3>1. new \in LocalType
      BY <1>a DEF LocalType
    <3>2. local' = [local EXCEPT ![w] = new]
      BY <1>0, <1>3 DEF LoadVersion, Types
    <3> HIDE DEF new
    <3>3. QED
      BY <1>0, <3>1, <3>2, LocalEffect
  <2>1. Types' /\ Others
    BY <1>0, <1>3, <2>0 DEF LoadVersion, Goto, shared, Types, Places
  <2>2. WriterInv(w)'
    BY <1>0, <1>3 DEF LoadVersion, Goto, shared, Types, LocalType, WriterInv, Buffer
  <2>3. HotInv' /\ version <= version' /\ result' = result /\ floor' = floor
    BY <1>3 DEF LoadVersion, Goto, shared, Types, HotInv, WriterInv
  <2>4. QED
    BY <2>1, <2>2, <2>3
<1>4. CASE StoreOdd(w)
  <2>1. Types' /\ Others
    BY <1>0, <1>4 DEF StoreOdd, Goto, Types, LocalType, Places, Buffer
  <2>2. WriterInv(w)'
    BY <1>0, <1>4 DEF StoreOdd, Goto, Types, LocalType, WriterInv, Buffer
  <2>3. HotInv' /\ version <= version' /\ result' = result /\ floor' = floor
    <3>1. version' = 2 * issued - 1 /\ version' = version + 1 /\ issued \in Nat /\ issued > 0
      BY <1>4, <1>a DEF StoreOdd, WriterInv
    <3>2. version' % 2 = 1
      BY <3>1, Parity
    <3>3. QED
      BY <1>4, <3>1, <3>2 DEF StoreOdd, HotInv, Types
  <2>4. QED
    BY <2>1, <2>2, <2>3
<1>5. CASE StoreEven(w)
  <2>1. Types' /\ Others
    BY <1>0, <1>5 DEF StoreEven, Goto, Types, LocalType, Places, Buffer
  <2>0. version' = local[w].ver /\ issued' = issued /\ pc[w] = "storeEven"
    BY <1>5 DEF StoreEven
  <2>5. local[w].ver = version + 1 /\ version = 2 * issued - 1 /\ issued \in Nat
    BY <2>0 DEF Types, WriterInv
  <2>2. WriterInv(w)'
    BY <1>0, <1>5, <2>0, <2>5 DEF StoreEven, Goto, Types, WriterInv
  <2>3. HotInv' /\ version <= version' /\ result' = result /\ floor' = floor
    BY <1>5, <2>0, <2>5 DEF StoreEven, Types, HotInv, WriterInv
  <2>4. QED
    BY <2>1, <2>2, <2>3
<1>6. CASE SwapActive(w)
  <2>1. Types' /\ Others
    BY <1>0, <1>6 DEF SwapActive, Goto, Types, LocalType, Places, Buffer
  <2>2. WriterInv(w)'
    BY <1>0, <1>6 DEF SwapActive, Goto, Types, LocalType, WriterInv, Buffer
  <2>3. HotInv' /\ version <= version' /\ result' = result /\ floor' = floor
    BY <1>6 DEF SwapActive, Goto, Types, HotInv, WriterInv
  <2>4. QED
    BY <2>1, <2>2, <2>3
<1>7. CASE FlipAndRefill(w)
  <2>1. Types' /\ Others
    BY <1>0, <1>7, SMTT(60) DEF FlipAndRefill, Goto, Types, LocalType, Places, Buffer
  <2>2. WriterInv(w)'
    BY <1>0, <1>7 DEF FlipAndRefill, Goto, Types, LocalType, WriterInv, Buffer
  <2>3. HotInv' /\ version <= version' /\ result' = result /\ floor' = floor
    BY <1>7 DEF FlipAndRefill, Goto, Types, HotInv, WriterInv
  <2>4. QED
    BY <2>1, <2>2, <2>3
<1>8. ASSUME NEW f \in Field, StoreParam(w, f)  PROVE Goal
  <2>0. cold' \in [Buffer -> [params : [Field -> Nat], hot : [Field -> Nat]]]
    BY <1>a, <1>8, ZenonT(60) DEF StoreParam, Types, LocalType
  <2>1. Types' /\ Others
    BY <1>0, <1>8, <2>0, FieldDoneTypes DEF StoreParam, Types, Places
  <2>2. WriterInv(w)'
    <3>1. pc[w] = "params" /\ UNCHANGED <<hot, version, writeIdx, issued, local>>
      BY <1>8 DEF StoreParam
    <3>2. /\ todo'[w] = todo[w] \ {f}
          /\ pc'[w] = IF todo[w] = {f} THEN "build" ELSE "params"
      BY <1>0, <1>8, <3>1, FieldDoneTypes DEF StoreParam, Places
    <3>3. /\ issued > 0 /\ local[w].update = issued /\ version = 2 * issued - 2 /\ local[w].dark = writeIdx
          /\ \A g \in Field \ todo[w] : cold[writeIdx].params[g] = issued
      BY <3>1 DEF WriterInv
    <3>4. /\ cold'[writeIdx].params[f] = issued
          /\ \A g \in Field \ {f} : cold'[writeIdx].params[g] = cold[writeIdx].params[g]
      BY <1>a, <1>8, <3>3 DEF StoreParam, Types
    <3>5. \A g \in Field \ todo'[w] : cold'[writeIdx].params[g] = issued
      BY <3>2, <3>3, <3>4
    <3>6. QED
      BY <3>1, <3>2, <3>3, <3>5 DEF WriterInv
  <2>3. HotInv' /\ version <= version' /\ result' = result /\ floor' = floor
    BY <1>8 DEF StoreParam, Types, HotInv, WriterInv
  <2>4. QED
    BY <2>1, <2>2, <2>3
<1>9. ASSUME NEW f \in Field, CopyHot(w, f)  PROVE Goal
  <2>1. Types' /\ Others
    BY <1>0, <1>a, <1>9, FieldDoneTypes DEF CopyHot, Types, LocalType, Places
  <2>2. WriterInv(w)'
    BY <1>0, <1>9, FieldDoneTypes DEF CopyHot, Types, WriterInv, Places, Buffer
  <2>3. HotInv' /\ version <= version' /\ result' = result /\ floor' = floor
    <3>1. version = 2 * issued - 1 /\ issued \in Nat /\ issued > 0 /\ version' = version
      BY <1>9 DEF CopyHot, Types, WriterInv
    <3>2. version' % 2 = 1
      BY <3>1, Parity
    <3>3. QED
      BY <1>9, <3>1, <3>2 DEF CopyHot, HotInv, Types
  <2>4. QED
    BY <2>1, <2>2, <2>3
<1>10. QED
  BY <1>1, <1>2, <1>3, <1>4, <1>5, <1>6, <1>7, <1>8, <1>9 DEF Write

\* Nothing that a reader can know of when it begins is newer than the version.
LEMMA KnownIsPublished ==
    ASSUME SeqLock, OneWriter, NEW u \in Known
    PROVE  u \in Nat /\ 2 * u <= version
<1>0. version \in Nat /\ issued \in Nat
  BY DEF SeqLock, Types
<1>1. CASE u \in {x \in 0 .. issued : \A w \in Writers : pc[w] # "idle" => x < local[w].update}
  <2>1. u \in Nat /\ u <= issued
    BY <1>0, <1>1
  <2>2. CASE Writers = {}
    BY <1>0, <2>1, <2>2 DEF SeqLock
  <2>3. CASE Writers # {}
    <3>1. PICK w \in Writers : TRUE
      BY <2>3
    <3>2. CASE pc[w] = "idle"
      BY <1>0, <2>1, <3>2 DEF SeqLock, WriterInv
    <3>3. CASE pc[w] # "idle"
      <4>1. u < issued
        BY <1>1, <3>3 DEF SeqLock, WriterInv
      <4>2. version = 2 * issued - 2 \/ version = 2 * issued - 1 \/ version = 2 * issued
        BY <3>3 DEF SeqLock, WriterInv
      <4>3. QED
        BY <1>0, <2>1, <4>1, <4>2
    <3>4. QED
      BY <3>2, <3>3
  <2>4. QED
    BY <2>2, <2>3
<1>2. CASE u \in {result[r][f] : r \in {x \in Readers : pc[x] = "idle"}, f \in Field}
  <2>1. PICK r \in Readers, f \in Field : pc[r] = "idle" /\ u = result[r][f]
    BY <1>2
  <2>2. result[r][f] \in Nat
    BY DEF SeqLock, Types
  <2>3. QED
    BY <2>1, <2>2 DEF SeqLock, ReaderInv
<1>3. QED
  BY <1>1, <1>2 DEF Known

\* A reader is not disturbed by a step that leaves its own variables alone
\* and does not take the version back.
LEMMA ReaderUndisturbed ==
    ASSUME Types, Types', NEW r \in Readers, ReaderInv(r), version <= version',
           pc'[r] = pc[r], todo'[r] = todo[r], local'[r] = local[r],
           result'[r] = result[r], floor'[r] = floor[r]
    PROVE  ReaderInv(r)'
<1>0. /\ version \in Nat /\ version' \in Nat /\ floor[r] \in Nat /\ local[r].ver \in Nat
      /\ \A f \in Field : result[r][f] \in Nat
  BY DEF Types, Threads, LocalType
<1>1. QED
  BY <1>0 DEF ReaderInv

\* A step of another thread than the writers' leaves the writers and the
\* published parameters as they are.
LEMMA SharedKept ==
    ASSUME SeqLock, NEW t \in Readers \cup Snapshotters, UNCHANGED shared,
           \A u \in Threads \ {t} : pc'[u] = pc[u] /\ todo'[u] = todo[u] /\ local'[u] = local[u]
    PROVE  /\ HotInv' /\ (Writers = {} => version' = 2 * issued')
           /\ \A w \in Writers : WriterInv(w)'
<1>1. HotInv' /\ (Writers = {} => version' = 2 * issued')
  BY DEF SeqLock, HotInv, shared
<1>2. ASSUME NEW w \in Writers  PROVE WriterInv(w)'
  <2>1. w \in Threads \ {t}
    BY ThreadAssumption DEF Threads
  <2>2. pc'[w] = pc[w] /\ todo'[w] = todo[w] /\ local'[w] = local[w]
    BY <2>1
  <2>3. WriterInv(w)
    BY DEF SeqLock
  <2>4. QED
    BY <2>2, <2>3 DEF WriterInv, shared
<1>3. QED
  BY <1>1, <1>2

\* What a turn of the retry loop does to the reader.
LEMMA RetryKeeps ==
    ASSUME Types, NEW r \in Readers, Retry(r)
    PROVE  /\ pc' \in [Threads -> Places] /\ todo' \in [Threads -> SUBSET Field]
           /\ local' \in [Threads -> LocalType]
           /\ pc'[r] \in {"v1", "fallback"}
           /\ \A u \in Threads \ {r} : pc'[u] = pc[u] /\ todo'[u] = todo[u] /\ local'[u] = local[u]
<1>0. r \in Threads /\ local[r] \in LocalType
  BY DEF Types, Threads
<1>1. /\ local' \in [Threads -> LocalType]
      /\ \A u \in Threads \ {r} : local'[u] = local[u]
  <2> DEFINE new == [local[r] EXCEPT !.retry = local[r].retry + 1]
  <2>1. new \in LocalType
    BY <1>0 DEF LocalType
  <2>2. local' = [local EXCEPT ![r] = new]
    BY <1>0 DEF Retry, Types
  <2> HIDE DEF new
  <2>3. QED
    BY <1>0, <2>1, <2>2, LocalEffect
<1>2. CASE local[r].retry + 1 < MaxRetries
  BY <1>0, <1>1, <1>2 DEF Retry, Goto, Types, Places
<1>3. CASE ~(local[r].retry + 1 < MaxRetries)
  <2>1. pc' = [pc EXCEPT ![r] = "fallback"] /\ todo' = [todo EXCEPT ![r] = Field]
    BY <1>3 DEF Retry, Goto
  <2>2. pc \in [Threads -> Places] /\ todo \in [Threads -> SUBSET Field] /\ "fallback" \in Places
    BY DEF Types, Places
  <2>3. QED
    BY <1>0, <1>1, <2>1, <2>2
<1>4. QED
  BY <1>2, <1>3

\* The reader's steps.
LEMMA ReadKeeps ==
    ASSUME SeqLock, OneWriter, NEW r \in Readers, Read(r)
    PROVE  /\ Types' /\ ReaderInv(r)' /\ UNCHANGED shared
           /\ \A u \in Threads \ {r} : pc'[u] = pc[u] /\ todo'[u] = todo[u] /\ local'[u] = local[u]
           /\ \A u \in Readers \ {r} : result'[u] = result[u] /\ floor'[u] = floor[u]
<1> DEFINE Others == \A u \in Threads \ {r} : pc'[u] = pc[u] /\ todo'[u] = todo[u] /\ local'[u] = local[u]
           OtherReads == \A u \in Readers \ {r} : result'[u] = result[u] /\ floor'[u] = floor[u]
           Goal == Types' /\ ReaderInv(r)' /\ UNCHANGED shared /\ Others /\ OtherReads
<1>0. r \in Threads /\ Types /\ HotInv /\ ReaderInv(r)
  BY DEF Threads, SeqLock
<1>a. /\ local[r] \in LocalType /\ version \in Nat /\ floor[r] \in Nat /\ local[r].ver \in Nat
      /\ \A f \in Field : result[r][f] \in Nat /\ hot[f] \in Nat
  BY <1>0 DEF Types, LocalType
<1>1. CASE ReadBegin(r)
  <2>1. PICK k \in Known : floor' = [floor EXCEPT ![r] = k]
    BY <1>1 DEF ReadBegin
  <2>2. k \in Nat /\ 2 * k <= version
    BY KnownIsPublished
  <2>3. floor' \in [Readers -> Nat] /\ floor'[r] = k /\ \A u \in Readers \ {r} : floor'[u] = floor[u]
    BY <1>0, <2>1, <2>2 DEF Types
  <2>4. /\ local' \in [Threads -> LocalType]
        /\ \A u \in Threads \ {r} : local'[u] = local[u]
    <3> DEFINE new == [local[r] EXCEPT !.retry = 0]
    <3>1. new \in LocalType
      BY <1>a DEF LocalType
    <3>2. local' = [local EXCEPT ![r] = new]
      BY <1>0, <1>1 DEF ReadBegin, Types
    <3> HIDE DEF new
    <3>3. QED
      BY <1>0, <3>1, <3>2, LocalEffect
  <2>5. UNCHANGED <<shared, todo, result>> /\ pc' = [pc EXCEPT ![r] = "v1"]
    BY <1>1 DEF ReadBegin, Goto
  <2>6. Types' /\ Others /\ pc'[r] = "v1"
    BY <1>0, <2>3, <2>4, <2>5 DEF Types, shared, Places
  <2>7. ReaderInv(r)'
    BY <2>2, <2>3, <2>5, <2>6 DEF ReaderInv, shared
  <2>8. QED
    BY <2>3, <2>5, <2>6, <2>7
<1>2. CASE LoadV1(r)
  <2>0. UNCHANGED <<shared, result, floor>> /\ pc[r] = "v1"
    BY <1>2 DEF LoadV1
  <2>1. CASE version % 2 = 1 /\ Retry(r)
    <3>1. Types' /\ Others /\ pc'[r] \in {"v1", "fallback"}
      BY <1>0, <2>0, <2>1, RetryKeeps DEF Types, shared
    <3>2. ReaderInv(r)'
      BY <1>0, <2>0, <3>1 DEF ReaderInv, shared
    <3>3. QED
      BY <2>0, <3>1, <3>2
  <2>2. CASE /\ version % 2 = 0
             /\ local' = [local EXCEPT ![r].ver = version]
             /\ todo' = [todo EXCEPT ![r] = Field]
             /\ Goto(r, "fields")
    <3>1. /\ local' \in [Threads -> LocalType] /\ local'[r].ver = version
          /\ \A u \in Threads \ {r} : local'[u] = local[u]
      <4> DEFINE new == [local[r] EXCEPT !.ver = version]
      <4>1. new \in LocalType /\ new.ver = version
        BY <1>a DEF LocalType
      <4>2. local' = [local EXCEPT ![r] = new]
        BY <1>0, <2>2 DEF Types
      <4> HIDE DEF new
      <4>3. QED
        BY <1>0, <4>1, <4>2, LocalEffect
    <3>2. Types' /\ Others /\ pc'[r] = "fields" /\ todo'[r] = Field
      BY <1>0, <2>0, <2>2, <3>1 DEF Types, shared, Goto, Places
    <3>3. ReaderInv(r)'
      BY <1>0, <1>a, <2>0, <2>2, <3>1, <3>2 DEF ReaderInv, shared
    <3>4. QED
      BY <2>0, <3>2, <3>3
  <2>3. QED
    BY <1>2, <2>1, <2>2 DEF LoadV1
<1>3. CASE LoadV2(r)
  <2>0. UNCHANGED <<shared, result, floor>> /\ pc[r] = "v2"
    BY <1>3 DEF LoadV2
  <2>1. CASE version = local[r].ver /\ Goto(r, "verified") /\ UNCHANGED <<local, todo>>
    <3>1. Types' /\ Others /\ pc'[r] = "verified"
      BY <1>0, <2>0, <2>1 DEF Types, shared, Goto, Places
    <3>2. 2 * floor[r] <= version /\ \A f \in Field : 2 * result[r][f] = version
      BY <1>0, <2>0, <2>1 DEF ReaderInv
    <3>3. /\ \A f, g \in Field : result[r][f] = result[r][g]
          /\ \A f \in Field : floor[r] <= result[r][f] /\ 2 * result[r][f] <= version
      BY <1>a, <3>2
    <3>4. ReaderInv(r)'
      BY <2>0, <3>1, <3>2, <3>3 DEF ReaderInv, shared
    <3>5. QED
      BY <2>0, <2>1, <3>1, <3>4
  <2>2. CASE version # local[r].ver /\ Retry(r)
    <3>1. Types' /\ Others /\ pc'[r] \in {"v1", "fallback"}
      BY <1>0, <2>0, <2>2, RetryKeeps DEF Types, shared
    <3>2. ReaderInv(r)'
      BY <1>0, <2>0, <3>1 DEF ReaderInv, shared
    <3>3. QED
      BY <2>0, <3>1, <3>2
  <2>3. QED
    BY <1>3, <2>1, <2>2 DEF LoadV2
<1>4. CASE ReadReturn(r)
  <2>0. /\ UNCHANGED <<shared, todo, local, floor>> /\ pc[r] \in {"verified", "blind"}
        /\ pc' = [pc EXCEPT ![r] = "idle"]
        /\ result' = [result EXCEPT ![r] = IF pc[r] = "blind" THEN ParamSet(0) ELSE @]
    BY <1>4 DEF ReadReturn, Goto
  <2>1. /\ Types' /\ Others /\ pc'[r] = "idle"
        /\ \A u \in Readers \ {r} : result'[u] = result[u]
    BY <1>0, <2>0 DEF Types, shared, Places, ParamSet
  <2>2. \A f \in Field : result'[r][f] = 0 \/ (pc[r] = "verified" /\ result'[r][f] = result[r][f])
    BY <1>0, <2>0 DEF Types, ParamSet
  <2>3. \A f \in Field : 2 * result'[r][f] <= version
    BY <1>0, <1>a, <2>2 DEF ReaderInv
  <2>4. ReaderInv(r)'
    BY <1>0, <2>0, <2>1, <2>3 DEF ReaderInv, shared
  <2>5. QED
    BY <2>0, <2>1, <2>4
<1>5. ASSUME NEW f \in Field, ReadField(r, f)  PROVE Goal
  <2>0. /\ UNCHANGED <<shared, local, floor>> /\ pc[r] \in {"fields", "fallback"}
        /\ result' = [result EXCEPT ![r][f] = hot[f]]
        /\ FieldDone(r, f, IF pc[r] = "fields" THEN "v2" ELSE "blind")
    BY <1>5 DEF ReadField
  <2>1. /\ pc' \in [Threads -> Places] /\ todo' \in [Threads -> SUBSET Field]
        /\ todo'[r] = todo[r] \ {f}
        /\ pc'[r] = IF todo[r] = {f} THEN (IF pc[r] = "fields" THEN "v2" ELSE "blind") ELSE pc[r]
        /\ \A u \in Threads \ {r} : pc'[u] = pc[u] /\ todo'[u] = todo[u]
    BY <1>0, <2>0, FieldDoneTypes DEF Places
  <2>2. /\ result' \in [Readers \cup Snapshotters -> [Field -> Nat]]
        /\ result'[r][f] = hot[f] /\ \A g \in Field \ {f} : result'[r][g] = result[r][g]
        /\ \A u \in Readers \ {r} : result'[u] = result[u]
    BY <1>0, <1>a, <2>0 DEF Types
  <2>3. Types' /\ Others
    BY <1>0, <2>0, <2>1, <2>2 DEF Types, shared
  <2>4. CASE pc[r] = "fallback"
    <3>1. pc'[r] \in {"fallback", "blind"}
      BY <2>1, <2>4
    <3>2. QED
      BY <1>0, <2>0, <2>2, <2>3, <3>1 DEF ReaderInv, shared
  <2>5. CASE pc[r] = "fields"
    <3>1. pc'[r] \in {"fields", "v2"} /\ (pc'[r] = "v2" => todo'[r] = {})
      BY <2>1, <2>5
    <3>2. /\ local[r].ver % 2 = 0 /\ 2 * floor[r] <= local[r].ver /\ local[r].ver <= version
          /\ local[r].ver = version => \A g \in Field \ todo[r] : 2 * result[r][g] = version
          /\ 2 * floor[r] <= version
      BY <1>0, <2>5 DEF ReaderInv
    <3>3. local[r].ver = version => \A g \in Field \ todo'[r] : 2 * result'[r][g] = version
      BY <1>0, <2>1, <2>2, <3>2 DEF HotInv
    <3>4. ReaderInv(r)'
      BY <2>0, <3>1, <3>2, <3>3 DEF ReaderInv, shared
    <3>5. QED
      BY <2>0, <2>2, <2>3, <3>4
  <2>6. QED
    BY <2>0, <2>4, <2>5
<1>6. QED
  BY <1>1, <1>2, <1>3, <1>4, <1>5 DEF Read

\* The steps of getParameters stay on their own thread.
LEMMA SnapshotKeeps ==
    ASSUME Types, NEW s \in Snapshotters, Snapshot(s)
    PROVE  /\ Types' /\ UNCHANGED shared
           /\ \A u \in Threads \ {s} : pc'[u] = pc[u] /\ todo'[u] = todo[u] /\ local'[u] = local[u]
           /\ \A u \in Readers : result'[u] = result[u] /\ floor'[u] = floor[u]
<1> DEFINE Others == \A u \in Threads \ {s} : pc'[u] = pc[u] /\ todo'[u] = todo[u] /\ local'[u] = local[u]
           OtherReads == \A u \in Readers : result'[u] = result[u] /\ floor'[u] = floor[u]
<1>0. s \in Threads /\ s \notin Readers
  BY ThreadAssumption DEF Threads
<1>a. local[s] \in LocalType /\ active \in Buffer /\ issued \in Nat
  BY <1>0 DEF Types
<1>1. CASE SnapshotBegin(s)
  <2>0. UNCHANGED <<shared, result, floor>>
    BY <1>1 DEF SnapshotBegin
  <2>1. /\ local' \in [Threads -> LocalType]
        /\ \A t \in Threads \ {s} : local'[t] = local[t]
    <3> DEFINE mid == [local[s] EXCEPT !.dark = active]
    <3>1. mid \in LocalType
      BY <1>a DEF LocalType
    <3>2. local' = [local EXCEPT ![s] = [mid EXCEPT !.update = issued]]
      BY <1>0, <1>1 DEF SnapshotBegin, Types
    <3> HIDE DEF mid
    <3> DEFINE new == [mid EXCEPT !.update = issued]
    <3>3. new \in LocalType
      BY <1>a, <3>1 DEF LocalType
    <3>4. local' = [local EXCEPT ![s] = new]
      BY <3>2
    <3> HIDE DEF new
    <3>5. QED
      BY <1>0, <3>3, <3>4, LocalEffect
  <2>2. /\ pc' = [pc EXCEPT ![s] = "snapshot"] /\ todo' = [todo EXCEPT ![s] = Field]
    BY <1>1 DEF SnapshotBegin, Goto
  <2>3. Types' /\ Others
    BY <1>0, <2>0, <2>1, <2>2 DEF Types, shared, Places
  <2>4. QED
    BY <2>0, <2>3
<1>2. ASSUME NEW f \in Field, SnapshotField(s, f)
      PROVE  Types' /\ UNCHANGED shared /\ Others /\ OtherReads
  <2>0. /\ UNCHANGED <<shared, local, floor>> /\ FieldDone(s, f, "idle")
        /\ result' = [result EXCEPT ![s][f] = cold[local[s].dark].params[f]]
    BY <1>2 DEF SnapshotField
  <2>1. cold[local[s].dark].params[f] \in Nat
    BY <1>a DEF Types, LocalType
  <2>2. /\ result' \in [Readers \cup Snapshotters -> [Field -> Nat]]
        /\ \A u \in Readers : result'[u] = result[u]
    BY <1>0, <2>0, <2>1 DEF Types
  <2>3. /\ pc' \in [Threads -> Places] /\ todo' \in [Threads -> SUBSET Field]
        /\ \A u \in Threads \ {s} : pc'[u] = pc[u] /\ todo'[u] = todo[u]
    BY <1>0, <2>0, FieldDoneTypes DEF Places
  <2>4. Types' /\ Others
    BY <2>0, <2>2, <2>3 DEF Types, shared
  <2>5. QED
    BY <2>0, <2>2, <2>4
<1>3. QED
  BY <1>1, <1>2 DEF Snapshot

\* The engine starts with the defaults published as update 0.
LEMMA SeqLockInit == Init => SeqLock
<1> SUFFICES ASSUME Init  PROVE SeqLock
  OBVIOUS
<1>1. Types
  <2>1. \A t \in Threads : local[t] \in LocalType
    BY DEF Init, LocalType, Buffer
  <2>2. local \in [Threads -> LocalType]
    BY <2>1 DEF Init
  <2>3. ParamSet(0) \in [Field -> Nat]
    BY DEF ParamSet
  <2>4. QED
    BY <2>2, <2>3 DEF Init, Types, Places, Buffer
<1>2. HotInv /\ (Writers = {} => version = 2 * issued)
  BY DEF Init, HotInv, ParamSet
<1>3. \A w \in Writers : WriterInv(w)
  BY DEF Init, WriterInv, Threads
<1>4. \A r \in Readers : ReaderInv(r)
  BY DEF Init, ReaderInv, Threads, ParamSet
<1>5. QED
  BY <1>1, <1>2, <1>3, <1>4 DEF SeqLock

\* Every step keeps the sequence lock's invariant.
LEMMA SeqLockNext ==
    ASSUME OneWriter, SeqLock, [Next]_vars
    PROVE  SeqLock'
<1>1. ASSUME NEW w \in Writers, Write(w)  PROVE SeqLock'
  <2>1. /\ Types' /\ HotInv' /\ WriterInv(w)'
        /\ version <= version' /\ result' = result /\ floor' = floor
        /\ \A t \in Threads \ {w} : pc'[t] = pc[t] /\ todo'[t] = todo[t] /\ local'[t] = local[t]
    BY <1>1, WriteKeeps DEF SeqLock
  <2>2. \A v \in Writers : WriterInv(v)'
    BY <2>1 DEF OneWriter
  <2>3. ASSUME NEW r \in Readers  PROVE ReaderInv(r)'
    <3>1. r \in Threads \ {w}
      BY ThreadAssumption DEF Threads
    <3>2. QED
      BY <2>1, <3>1, ReaderUndisturbed DEF SeqLock
  <2>4. QED
    BY <2>1, <2>2, <2>3 DEF SeqLock
<1>2. ASSUME NEW r \in Readers, Read(r)  PROVE SeqLock'
  <2>1. /\ Types' /\ ReaderInv(r)' /\ UNCHANGED shared
        /\ \A u \in Threads \ {r} : pc'[u] = pc[u] /\ todo'[u] = todo[u] /\ local'[u] = local[u]
        /\ \A u \in Readers \ {r} : result'[u] = result[u] /\ floor'[u] = floor[u]
    BY <1>2, ReadKeeps
  <2>2. /\ HotInv' /\ (Writers = {} => version' = 2 * issued')
        /\ \A w \in Writers : WriterInv(w)'
    BY <2>1, SharedKept
  <2>3. version <= version'
    BY <2>1 DEF shared, SeqLock, Types
  <2>4. ASSUME NEW q \in Readers \ {r}  PROVE ReaderInv(q)'
    <3>1. q \in Threads \ {r}
      BY DEF Threads
    <3>2. QED
      BY <2>1, <2>3, <3>1, ReaderUndisturbed DEF SeqLock
  <2>5. QED
    BY <2>1, <2>2, <2>4 DEF SeqLock
<1>3. ASSUME NEW s \in Snapshotters, Snapshot(s)  PROVE SeqLock'
  <2>1. /\ Types' /\ UNCHANGED shared
        /\ \A u \in Threads \ {s} : pc'[u] = pc[u] /\ todo'[u] = todo[u] /\ local'[u] = local[u]
        /\ \A u \in Readers : result'[u] = result[u] /\ floor'[u] = floor[u]
    BY <1>3, SnapshotKeeps DEF SeqLock
  <2>2. /\ HotInv' /\ (Writers = {} => version' = 2 * issued')
        /\ \A w \in Writers : WriterInv(w)'
    BY <2>1, SharedKept
  <2>3. version <= version'
    BY <2>1 DEF shared, SeqLock, Types
  <2>4. ASSUME NEW q \in Readers  PROVE ReaderInv(q)'
    <3>1. q \in Threads \ {s}
      BY ThreadAssumption DEF Threads
    <3>2. QED
      BY <2>1, <2>3, <3>1, ReaderUndisturbed DEF SeqLock
  <2>5. QED
    BY <2>1, <2>2, <2>4 DEF SeqLock
<1>4. CASE UNCHANGED vars
  BY <1>4 DEF vars, SeqLock, Types, HotInv, WriterInv, ReaderInv
<1>5. QED
  BY <1>1, <1>2, <1>3, <1>4 DEF Next

(* With one thread in updateParameters, a verified read of the hot         *)
(* parameters (checkOrder, checkRateLimit) returns one parameter set, at   *)
(* least as new as any whose update had returned, or that any thread had   *)
(* read, before it began.                                                  *)
THEOREM HotReadsAtomic ==
    ASSUME OneWriter
    PROVE  Spec => []HotReadIsAtomic
<1>1. SeqLock => HotReadIsAtomic
  <2> SUFFICES ASSUME SeqLock, NEW r \in Readers, pc[r] = "verified"
               PROVE  Untorn(r) /\ \A f \in Field : result[r][f] >= floor[r]
    BY DEF HotReadIsAtomic
  <2>1. /\ \A f, g \in Field : result[r][f] = result[r][g]
        /\ \A f \in Field : floor[r] <= result[r][f]
    BY DEF SeqLock, ReaderInv
  <2>2. floor[r] \in Nat /\ \A f \in Field : result[r][f] \in Nat
    BY DEF SeqLock, Types
  <2>3. QED
    BY <2>1, <2>2 DEF Untorn
<1>2. Init => SeqLock
  BY SeqLockInit
<1>3. SeqLock /\ [Next]_vars => SeqLock'
  BY SeqLockNext
<1>4. QED
  BY <1>1, <1>2, <1>3, PTL DEF Spec

-----------------------------------------------------------------------------
(* getParameters *)

Uniform(b) == \A f, g \in Field : cold[b].params[f] = cold[b].params[g]

(* The active buffer holds one parameter set, and the writer fills the     *)
(* other one until it has swapped them.                                    *)
BufferInv ==
    /\ Uniform(active)
    /\ \A w \in Writers :
          /\ pc[w] = "flip" <=> active = writeIdx
          /\ pc[w] \in {"build", "loadOdd", "storeOdd", "copy", "loadEven", "storeEven", "swap", "flip"} =>
                \A f \in Field : cold[writeIdx].params[f] = issued

(* Until another update begins, nobody writes the buffer a copy is made    *)
(* of.                                                                     *)
CopyInv(s) ==
    /\ pc[s] \in {"idle", "snapshot"} /\ local[s].update <= issued
    /\ pc[s] = "snapshot" /\ local[s].update = issued =>
          /\ Uniform(local[s].dark)
          /\ \A f \in Field \ todo[s] : result[s][f] = cold[local[s].dark].params[f]
          /\ \A w \in Writers : pc[w] = "params" => local[s].dark # writeIdx
    /\ pc[s] = "idle" /\ local[s].update = issued => Untorn(s)

SnapInv == SeqLock /\ BufferInv /\ \A s \in Snapshotters : CopyInv(s)

\* What the writer leaves of the cold parameters.
LEMMA ColdKept ==
    ASSUME Types, NEW w \in Writers, WriterInv(w), Write(w)
    PROVE  /\ \A b \in Buffer : pc[w] # "params" \/ b # writeIdx => cold'[b].params = cold[b].params
           /\ issued' = issued \/ (issued' = issued + 1 /\ pc[w] = "idle" /\ pc'[w] = "params")
           /\ pc'[w] = "params" => pc[w] \in {"idle", "params"}
           /\ writeIdx' = writeIdx \/ (writeIdx' = 1 - writeIdx /\ pc[w] = "flip" /\ pc'[w] = "idle")
           /\ active' = active \/ (active' = writeIdx /\ pc[w] = "swap" /\ pc'[w] = "flip")
           /\ pc[w] = "flip" => pc'[w] = "idle" /\ writeIdx' = 1 - writeIdx
           /\ pc'[w] = "flip" => active' = writeIdx
           /\ pc[w] = "params" => active' = active
<1>0. w \in Threads /\ local[w].dark \in Buffer /\ writeIdx \in Buffer
  BY DEF Threads, Types, LocalType
<1>1. CASE UpdateBegin(w) \/ LoadVersion(w) \/ StoreOdd(w) \/ StoreEven(w) \/ SwapActive(w)
  BY <1>0, <1>1 DEF UpdateBegin, LoadVersion, StoreOdd, StoreEven, SwapActive, Goto, Types, shared
<1>2. CASE BuildHot(w)
  BY <1>0, <1>2 DEF BuildHot, Goto, Types, Buffer
<1>3. CASE FlipAndRefill(w)
  BY <1>0, <1>3 DEF FlipAndRefill, Goto, Types, Buffer
<1>4. ASSUME NEW f \in Field, StoreParam(w, f)
      PROVE  /\ \A b \in Buffer : b # writeIdx => cold'[b].params = cold[b].params
             /\ UNCHANGED <<issued, writeIdx, active>> /\ pc[w] = "params"
             /\ pc'[w] \in {"params", "build"}
  <2>1. pc[w] = "params" /\ local[w].dark = writeIdx /\ UNCHANGED <<issued, writeIdx, active>>
    BY <1>4 DEF StoreParam, WriterInv
  <2>2. \A b \in Buffer : b # writeIdx => cold'[b] = cold[b]
    BY <1>0, <1>4, <2>1 DEF StoreParam, Types
  <2>3. pc'[w] \in {"params", "build"}
    BY <1>0, <1>4, <2>1, FieldDoneTypes DEF StoreParam, Places
  <2>4. QED
    BY <2>1, <2>2, <2>3
<1>5. ASSUME NEW f \in Field, CopyHot(w, f)
      PROVE  UNCHANGED <<cold, issued, writeIdx, active>> /\ pc[w] = "copy" /\ pc'[w] \in {"copy", "loadEven"}
  BY <1>0, <1>5, FieldDoneTypes DEF CopyHot, Places
<1>6. QED
  BY <1>1, <1>2, <1>3, <1>4, <1>5 DEF Write

\* The writer keeps the buffers apart.
LEMMA WriteBuffers ==
    ASSUME OneWriter, SeqLock, SeqLock', BufferInv, NEW w \in Writers, Write(w)
    PROVE  BufferInv'
<1>0. /\ w \in Threads /\ Types /\ WriterInv(w) /\ WriterInv(w)' /\ active \in Buffer /\ writeIdx \in Buffer
      /\ issued \in Nat /\ pc[w] \in Places
  BY DEF SeqLock, Threads, Types
<1>1. /\ \A b \in Buffer : pc[w] # "params" \/ b # writeIdx => cold'[b].params = cold[b].params
      /\ issued' = issued \/ (issued' = issued + 1 /\ pc[w] = "idle" /\ pc'[w] = "params")
      /\ pc'[w] = "params" => pc[w] \in {"idle", "params"}
      /\ writeIdx' = writeIdx \/ (writeIdx' = 1 - writeIdx /\ pc[w] = "flip" /\ pc'[w] = "idle")
      /\ active' = active \/ (active' = writeIdx /\ pc[w] = "swap" /\ pc'[w] = "flip")
      /\ pc[w] = "flip" => pc'[w] = "idle" /\ writeIdx' = 1 - writeIdx
      /\ pc'[w] = "flip" => active' = writeIdx
      /\ pc[w] = "params" => active' = active
  BY <1>0, ColdKept
<1>2. pc[w] = "flip" <=> active = writeIdx
  BY DEF BufferInv
<1>3. Uniform(active)'
  <2>1. CASE active' = active
    <3>1. pc[w] # "params" \/ active # writeIdx
      BY <1>2
    <3>2. cold'[active].params = cold[active].params
      BY <1>0, <1>1, <3>1
    <3>3. QED
      BY <2>1, <3>2 DEF BufferInv, Uniform
  <2>2. CASE active' = writeIdx /\ pc[w] = "swap"
    <3>1. cold'[writeIdx].params = cold[writeIdx].params
      BY <1>0, <1>1, <2>2
    <3>2. \A f \in Field : cold[writeIdx].params[f] = issued
      BY <2>2 DEF BufferInv
    <3>3. QED
      BY <2>2, <3>1, <3>2 DEF Uniform
  <2>3. QED
    BY <1>1, <2>1, <2>2
<1>4. pc'[w] = "flip" <=> active' = writeIdx'
  <2>1. CASE pc[w] = "flip"
    BY <1>0, <1>1, <1>2, <2>1 DEF Buffer
  <2>2. CASE pc[w] # "flip"
    BY <1>0, <1>1, <1>2, <2>2
  <2>3. QED
    BY <2>1, <2>2
<1>5. pc'[w] \in {"build", "loadOdd", "storeOdd", "copy", "loadEven", "storeEven", "swap", "flip"} =>
         \A f \in Field : cold'[writeIdx'].params[f] = issued'
  <2>1. CASE pc'[w] = "build"
    BY <1>0, <2>1 DEF WriterInv
  <2>2. CASE pc'[w] \in {"loadOdd", "storeOdd", "copy", "loadEven", "storeEven", "swap", "flip"}
    <3>1. pc[w] \in {"build", "loadOdd", "storeOdd", "copy", "loadEven", "storeEven", "swap"}
      BY <1>0, <2>2, FieldDoneTypes, ZenonT(60) DEF Write, UpdateBegin, StoreParam, BuildHot, LoadVersion, StoreOdd, CopyHot,
           StoreEven, SwapActive, FlipAndRefill, Goto, Types, Places
    <3>2. issued' = issued /\ writeIdx' = writeIdx /\ cold'[writeIdx].params = cold[writeIdx].params
      BY <1>0, <1>1, <2>2, <3>1
    <3>3. QED
      BY <3>1, <3>2 DEF BufferInv
  <2>3. QED
    BY <2>1, <2>2
<1>6. QED
  BY <1>3, <1>4, <1>5 DEF OneWriter, BufferInv

\* A copy that is not overtaken by an update is not disturbed by the writer.
LEMMA WriteCopy ==
    ASSUME OneWriter, SeqLock, SeqLock', BufferInv, NEW w \in Writers, Write(w),
           NEW s \in Snapshotters, CopyInv(s)
    PROVE  CopyInv(s)'
<1>0. /\ s \in Threads \ {w} /\ Types /\ WriterInv(w) /\ HotInv /\ issued \in Nat
      /\ local[s].update \in Nat /\ local[s].dark \in Buffer
  BY ThreadAssumption DEF Threads, SeqLock, Types, LocalType
<1>1. /\ result' = result /\ pc'[s] = pc[s] /\ todo'[s] = todo[s] /\ local'[s] = local[s]
  BY <1>0, WriteKeeps
<1>2. /\ \A b \in Buffer : pc[w] # "params" \/ b # writeIdx => cold'[b].params = cold[b].params
      /\ issued' = issued \/ (issued' = issued + 1 /\ pc[w] = "idle" /\ pc'[w] = "params")
      /\ pc'[w] = "params" => pc[w] \in {"idle", "params"}
      /\ writeIdx' = writeIdx \/ (writeIdx' = 1 - writeIdx /\ pc[w] = "flip" /\ pc'[w] = "idle")
  BY <1>0, ColdKept
<1>3. local'[s].update <= issued' /\ (local'[s].update = issued' => local[s].update = issued /\ issued' = issued)
  BY <1>0, <1>1, <1>2 DEF CopyInv
<1>4. ASSUME pc[s] = "snapshot", local'[s].update = issued'
      PROVE  /\ Uniform(local[s].dark)'
             /\ \A f \in Field \ todo[s] : result[s][f] = cold'[local[s].dark].params[f]
             /\ pc'[w] = "params" => local[s].dark # writeIdx'
  <2>1. local[s].update = issued /\ issued' = issued
    BY <1>3, <1>4
  <2>2. /\ Uniform(local[s].dark)
        /\ \A f \in Field \ todo[s] : result[s][f] = cold[local[s].dark].params[f]
        /\ pc[w] = "params" => local[s].dark # writeIdx
    BY <1>4, <2>1 DEF CopyInv
  <2>3. cold'[local[s].dark].params = cold[local[s].dark].params
    BY <1>0, <1>2, <2>2
  <2>4. pc'[w] = "params" => pc[w] = "params" /\ writeIdx' = writeIdx
    <3>1. ~UpdateBegin(w)
      BY <1>0, <2>1 DEF UpdateBegin
    <3>2. QED
      BY <1>0, <1>2, <3>1, FieldDoneTypes DEF Write, StoreParam, BuildHot, LoadVersion, StoreOdd, CopyHot,
           StoreEven, SwapActive, FlipAndRefill, Goto, Types, Places, Threads
  <2>5. local'[s].dark = local[s].dark
    BY <1>1
  <2>6. QED
    BY <1>1, <2>2, <2>3, <2>4, <2>5 DEF Uniform
<1>5. pc[s] = "idle" /\ local'[s].update = issued' => Untorn(s)'
  BY <1>1, <1>3 DEF CopyInv, Untorn
<1>6. \A v \in Writers : v = w
  BY DEF OneWriter
<1>7. QED
  BY <1>1, <1>3, <1>4, <1>5, <1>6 DEF CopyInv, Uniform

\* Other threads leave the buffers alone.
LEMMA BuffersKept ==
    ASSUME BufferInv, NEW t \in Readers \cup Snapshotters, UNCHANGED shared,
           \A u \in Threads \ {t} : pc'[u] = pc[u]
    PROVE  BufferInv'
<1>1. \A w \in Writers : w \in Threads \ {t}
  BY ThreadAssumption DEF Threads
<1>2. UNCHANGED <<cold, active, writeIdx, issued>> /\ \A w \in Writers : pc'[w] = pc[w]
  BY <1>1 DEF shared
<1>3. QED
  BY <1>2 DEF BufferInv, Uniform

\* A copy is not disturbed by another reader or snapshot.
LEMMA CopyKept ==
    ASSUME NEW s \in Snapshotters, CopyInv(s), NEW t \in Readers \cup Snapshotters, s # t, UNCHANGED shared,
           result'[s] = result[s],
           \A u \in Threads \ {t} : pc'[u] = pc[u] /\ todo'[u] = todo[u] /\ local'[u] = local[u]
    PROVE  CopyInv(s)'
<1>1. s \in Threads \ {t} /\ \A w \in Writers : w \in Threads \ {t}
  BY ThreadAssumption DEF Threads
<1>2. /\ UNCHANGED <<cold, writeIdx, issued>> /\ \A w \in Writers : pc'[w] = pc[w]
      /\ pc'[s] = pc[s] /\ todo'[s] = todo[s] /\ local'[s] = local[s]
  BY <1>1 DEF shared
<1>3. QED
  BY <1>2 DEF CopyInv, Uniform, Untorn

\* What getParameters itself does.
LEMMA SnapshotCopies ==
    ASSUME Types, BufferInv, NEW s \in Snapshotters, CopyInv(s), Snapshot(s)
    PROVE  CopyInv(s)' /\ \A u \in Snapshotters \ {s} : result'[u] = result[u]
<1>0. /\ s \in Threads /\ local[s] \in LocalType /\ issued \in Nat /\ active \in Buffer
      /\ \A w \in Writers : w # s
  BY ThreadAssumption DEF Threads, Types
<1>1. CASE SnapshotBegin(s)
  <2>1. UNCHANGED <<shared, result>> /\ pc' = [pc EXCEPT ![s] = "snapshot"] /\ todo' = [todo EXCEPT ![s] = Field]
    BY <1>1 DEF SnapshotBegin, Goto
  <2>2. local'[s].dark = active /\ local'[s].update = issued
    <3> DEFINE mid == [local[s] EXCEPT !.dark = active]
    <3>1. mid \in LocalType /\ mid.dark = active
      BY <1>0 DEF LocalType
    <3>2. local' = [local EXCEPT ![s] = [mid EXCEPT !.update = issued]]
      BY <1>0, <1>1 DEF SnapshotBegin, Types
    <3> HIDE DEF mid
    <3>3. local'[s] = [mid EXCEPT !.update = issued]
      BY <1>0, <3>2 DEF Types
    <3>4. QED
      BY <3>1, <3>3 DEF LocalType
  <2>3. pc'[s] = "snapshot" /\ todo'[s] = Field /\ \A w \in Writers : pc'[w] = pc[w]
    BY <1>0, <2>1 DEF Types
  <2>4. UNCHANGED <<cold, writeIdx, issued, active>>
    BY <2>1 DEF shared
  <2>5. Uniform(active) /\ \A w \in Writers : pc[w] = "params" => active # writeIdx
    BY DEF BufferInv
  <2>6. CopyInv(s)'
    BY <1>0, <2>2, <2>3, <2>4, <2>5 DEF CopyInv, Uniform
  <2>7. QED
    BY <2>1, <2>6
<1>2. ASSUME NEW f \in Field, SnapshotField(s, f)
      PROVE  CopyInv(s)' /\ \A u \in Snapshotters \ {s} : result'[u] = result[u]
  <2>1. /\ UNCHANGED <<shared, local>> /\ FieldDone(s, f, "idle") /\ pc[s] = "snapshot" /\ f \in todo[s]
        /\ result' = [result EXCEPT ![s][f] = cold[local[s].dark].params[f]]
    BY <1>2 DEF SnapshotField
  <2>2. /\ result'[s][f] = cold[local[s].dark].params[f]
        /\ \A g \in Field \ {f} : result'[s][g] = result[s][g]
        /\ \A u \in Snapshotters \ {s} : result'[u] = result[u]
    BY <2>1 DEF Types
  <2>3. /\ todo'[s] = todo[s] \ {f} /\ pc'[s] = IF todo[s] = {f} THEN "idle" ELSE "snapshot"
        /\ \A w \in Writers : pc'[w] = pc[w]
    <3>1. /\ todo'[s] = todo[s] \ {f} /\ pc'[s] = IF todo[s] = {f} THEN "idle" ELSE pc[s]
          /\ \A u \in Threads \ {s} : pc'[u] = pc[u]
      BY <1>0, <2>1, FieldDoneTypes DEF Places
    <3>2. QED
      BY <1>0, <2>1, <3>1 DEF Threads
  <2>4. UNCHANGED <<cold, writeIdx, issued>>
    BY <2>1 DEF shared
  <2>5. ASSUME local[s].update = issued
        PROVE  /\ Uniform(local[s].dark)
               /\ \A g \in Field \ todo'[s] : result'[s][g] = cold[local[s].dark].params[g]
               /\ \A w \in Writers : pc[w] = "params" => local[s].dark # writeIdx
    BY <2>1, <2>2, <2>3, <2>5 DEF CopyInv
  <2>6. ASSUME local[s].update = issued, todo'[s] = {}  PROVE Untorn(s)'
    BY <2>5, <2>6 DEF Uniform, Untorn
  <2>7. CopyInv(s)'
    BY <2>1, <2>3, <2>4, <2>5, <2>6 DEF CopyInv, Uniform
  <2>8. QED
    BY <2>2, <2>7
<1>3. QED
  BY <1>1, <1>2 DEF Snapshot

LEMMA SnapInvInit == Init => SnapInv
<1> SUFFICES ASSUME Init  PROVE SnapInv
  OBVIOUS
<1>1. SeqLock
  BY SeqLockInit
<1>2. \A b \in Buffer : \A f \in Field : cold[b].params[f] = 0
  BY DEF Init, ParamSet
<1>3. active = 0 /\ writeIdx = 1 /\ issued = 0 /\ active \in Buffer
  BY DEF Init, Buffer
<1>4. BufferInv
  BY <1>2, <1>3 DEF Init, BufferInv, Uniform, Threads
<1>5. \A s \in Snapshotters : CopyInv(s)
  <2>1. \A s \in Snapshotters : pc[s] = "idle" /\ local[s].update = 0 /\ Untorn(s)
    BY DEF Init, Threads, Untorn, ParamSet
  <2>2. QED
    BY <1>3, <2>1 DEF CopyInv
<1>6. QED
  BY <1>1, <1>4, <1>5 DEF SnapInv

LEMMA SnapInvNext ==
    ASSUME OneWriter, SnapInv, [Next]_vars
    PROVE  SnapInv'
<1>0. SeqLock' /\ SeqLock /\ BufferInv /\ Types
  BY SeqLockNext DEF SnapInv, SeqLock
<1>1. ASSUME NEW w \in Writers, Write(w)  PROVE SnapInv'
  BY <1>0, <1>1, WriteBuffers, WriteCopy DEF SnapInv
<1>2. ASSUME NEW r \in Readers, Read(r)  PROVE SnapInv'
  <2>1. /\ UNCHANGED shared
        /\ \A u \in Threads \ {r} : pc'[u] = pc[u] /\ todo'[u] = todo[u] /\ local'[u] = local[u]
    BY <1>0, <1>2, ReadKeeps
  <2>2. \A s \in Snapshotters : s # r /\ result'[s] = result[s]
    BY <1>0, <1>2, ThreadAssumption DEF Read, ReadBegin, LoadV1, LoadV2, ReadReturn, ReadField, Types
  <2>3. QED
    BY <1>0, <2>1, <2>2, BuffersKept, CopyKept DEF SnapInv
<1>3. ASSUME NEW t \in Snapshotters, Snapshot(t)  PROVE SnapInv'
  <2>1. /\ UNCHANGED shared
        /\ \A u \in Threads \ {t} : pc'[u] = pc[u] /\ todo'[u] = todo[u] /\ local'[u] = local[u]
    BY <1>0, <1>3, SnapshotKeeps
  <2>2. CopyInv(t)' /\ \A s \in Snapshotters \ {t} : result'[s] = result[s]
    BY <1>0, <1>3, SnapshotCopies DEF SnapInv
  <2>3. \A s \in Snapshotters \ {t} : CopyInv(s)'
    BY <2>1, <2>2, CopyKept DEF SnapInv
  <2>4. QED
    BY <1>0, <2>1, <2>2, <2>3, BuffersKept DEF SnapInv
<1>4. CASE UNCHANGED vars
  <2>1. BufferInv'
    BY <1>0, <1>4 DEF vars, BufferInv, Uniform
  <2>2. \A s \in Snapshotters : CopyInv(s)'
    BY <1>4 DEF SnapInv, vars, CopyInv, Uniform, Untorn
  <2>3. QED
    BY <1>0, <2>1, <2>2 DEF SnapInv
<1>5. QED
  BY <1>1, <1>2, <1>3, <1>4 DEF Next

(* With one thread in updateParameters, the copy that getParameters makes  *)
(* without a lock is a mix of two parameter sets only if another update    *)
(* began after it loaded active_cold_: the two cold buffers are enough for *)
(* the update it runs into.                                                *)
THEOREM SnapshotsSurvive ==
    ASSUME OneWriter
    PROVE  Spec => []SnapshotSurvivesUpdate
<1>1. SnapInv => SnapshotSurvivesUpdate
  <2> SUFFICES ASSUME SnapInv, NEW s \in Snapshotters, pc[s] = "idle"
               PROVE  Untorn(s) \/ issued > local[s].update
    BY DEF SnapshotSurvivesUpdate
  <2>1. CopyInv(s) /\ issued \in Nat /\ local[s].update \in Nat
    BY DEF SnapInv, SeqLock, Types, LocalType, Threads
  <2>2. QED
    BY <2>1 DEF CopyInv
<1>2. Init => SnapInv
  BY SnapInvInit
<1>3. SnapInv /\ [Next]_vars => SnapInv'
  BY SnapInvNext
<1>4. QED
  BY <1>1, <1>2, <1>3, PTL DEF Spec

=============================================================================
