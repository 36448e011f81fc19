----------------------------- MODULE RiskParams -----------------------------
(***************************************************************************)
(* How chronos::risk::RiskEngine publishes its parameters: updateParameters *)
(* fills the dark cold buffer, copies its converted form into hot_params_   *)
(* under a sequence lock and swaps the cold buffers; checkOrder reads       *)
(* hot_params_ optimistically; getParameters copies the active cold buffer. *)
(*                                                                         *)
(* The structures are copied without locks, so they are copied here field  *)
(* by field.  A parameter set is named by the number of the update that    *)
(* brought it (0: the defaults); every field of it carries that number.    *)
(* Accesses take effect in program order (x86 build of the seqlock).       *)
(***************************************************************************)
EXTENDS Integers, FiniteSets

CONSTANTS Field,        \* fields of RiskParameters / HotParams
          Writers,      \* threads that call updateParameters
          Readers,      \* threads that call checkOrder / checkRateLimit
          Snapshotters, \* threads that call getParameters
          MaxUpdates,   \* bound: calls of updateParameters
          MaxRetries    \* MAX_RETRIES of readHotParamsOptimistic

ASSUME FieldAssumption == Field # {} /\ IsFiniteSet(Field)
ASSUME BoundAssumption == MaxUpdates \in Nat /\ MaxRetries \in Nat \ {0}
ASSUME ThreadAssumption == /\ Writers \cap Readers = {}
                           /\ Writers \cap Snapshotters = {}
                           /\ Readers \cap Snapshotters = {}

Threads == Writers \cup Readers \cup Snapshotters
Update == 0 .. MaxUpdates
Buffer == 0 .. 1
ParamSet(u) == [f \in Field |-> u]

VARIABLES hot,       \* hot_params_, its five fields
          version,   \* hot_params_.version
          cold,      \* cold_buffers_: .params and .hot
          active,    \* index of the buffer active_cold_ points to
          writeIdx,  \* write_idx_
          issued,    \* updates begun
          pc, todo,  \* per thread: next step, fields a copy has not reached
          local,     \* per thread: buffer pointer, loaded version, retry counter, and
                     \*   update written (history for a snapshot: last one it saw begun)
          result,    \* per reader: the parameter set being assembled / returned
          floor      \* history, per reader: newest update known when the read began

vars == <<hot, version, cold, active, writeIdx, issued, pc, todo, local, result, floor>>
shared == <<hot, version, cold, active, writeIdx, issued>>

Init == /\ hot = ParamSet(0)
        /\ version = 0
        /\ cold = [b \in Buffer |-> [params |-> ParamSet(0), hot |-> ParamSet(0)]]
        /\ active = 0
        /\ writeIdx = 1
        /\ issued = 0
        /\ pc = [t \in Threads |-> "idle"]
        /\ todo = [t \in Threads |-> {}]
        /\ local = [t \in Threads |-> [dark |-> 0, ver |-> 0, retry |-> 0, update |-> 0]]
        /\ result = [r \in Readers \cup Snapshotters |-> ParamSet(0)]
        /\ floor = [r \in Readers |-> 0]

Goto(t, where) == pc' = [pc EXCEPT ![t] = where]

\* copying the last field of todo[t] moves the thread on
FieldDone(t, f, next) == /\ todo' = [todo EXCEPT ![t] = @ \ {f}]
                         /\ Goto(t, IF todo[t] = {f} THEN next ELSE pc[t])

-----------------------------------------------------------------------------
(* updateParameters, publishParams, swapColdBuffers *)

UpdateBegin(w) ==
    /\ pc[w] = "idle"
    /\ issued < MaxUpdates
    /\ issued' = issued + 1
    /\ local' = [local EXCEPT ![w].dark = writeIdx, ![w].update = issued + 1]
    /\ todo' = [todo EXCEPT ![w] = Field]
    /\ Goto(w, "params")
    /\ UNCHANGED <<hot, version, cold, active, writeIdx, result, floor>>

\* dark->params = params
StoreParam(w, f) ==
    /\ pc[w] = "params"
    /\ f \in todo[w]
    /\ cold' = [cold EXCEPT ![local[w].dark].params[f] = local[w].update]
    /\ FieldDone(w, f, "build")
    /\ UNCHANGED <<hot, version, active, writeIdx, issued, local, result, floor>>

\* dark = getWriteBuffer(); dark->buildHot()
BuildHot(w) ==
    /\ pc[w] = "build"
    /\ local' = [local EXCEPT ![w].dark = writeIdx]
    /\ cold' = [cold EXCEPT ![writeIdx].hot = cold[writeIdx].params]
    /\ Goto(w, "loadOdd")
    /\ UNCHANGED <<hot, version, active, writeIdx, issued, todo, result, floor>>

\* version.load() + 1, then version.store(): twice, around the copy
LoadVersion(w) ==
    /\ pc[w] \in {"loadOdd", "loadEven"}
    /\ local' = [local EXCEPT ![w].ver = version + 1]
    /\ Goto(w, IF pc[w] = "loadOdd" THEN "storeOdd" ELSE "storeEven")
    /\ UNCHANGED <<shared, todo, result, floor>>

\* mutant: the version is not made odd before the copy
StoreOdd_NoStore(w) ==
    /\ pc[w] = "storeOdd"
    /\ todo' = [todo EXCEPT ![w] = Field]
    /\ Goto(w, "copy")
    /\ UNCHANGED <<shared, local, result, floor>>

StoreOdd(w) ==
    /\ pc[w] = "storeOdd"
    /\ version' = local[w].ver
    /\ todo' = [todo EXCEPT ![w] = Field]
    /\ Goto(w, "copy")
    /\ UNCHANGED <<hot, cold, active, writeIdx, issued, local, result, floor>>

CopyHot(w, f) ==
    /\ pc[w] = "copy"
    /\ f \in todo[w]
    /\ hot' = [hot EXCEPT ![f] = cold[local[w].dark].hot[f]]
    /\ FieldDone(w, f, "loadEven")
    /\ UNCHANGED <<version, cold, active, writeIdx, issued, local, result, floor>>

StoreEven(w) ==
    /\ pc[w] = "storeEven"
    /\ version' = local[w].ver
    /\ Goto(w, "swap")
    /\ UNCHANGED <<hot, cold, active, writeIdx, issued, todo, local, result, floor>>

SwapActive(w) ==
    /\ pc[w] = "swap"
    /\ active' = writeIdx
    /\ Goto(w, "flip")
    /\ UNCHANGED <<hot, version, cold, writeIdx, issued, todo, local, result, floor>>

\* mutant: the index is not flipped
FlipAndRefill_NoFlip(w) ==
    /\ pc[w] = "flip"
    /\ cold' = [cold EXCEPT ![writeIdx].hot = hot]
    /\ Goto(w, "idle")
    /\ UNCHANGED <<hot, version, active, writeIdx, issued, todo, local, result, floor>>

\* write_idx_ flips and the next dark buffer takes over the hot form
FlipAndRefill(w) ==
    /\ pc[w] = "flip"
    /\ writeIdx' = 1 - writeIdx
    /\ cold' = [cold EXCEPT ![1 - writeIdx].hot = hot]
    /\ Goto(w, "idle")
    /\ UNCHANGED <<hot, version, active, issued, todo, local, result, floor>>

-----------------------------------------------------------------------------
(* readHotParamsOptimistic *)

\* updates whose updateParameters has returned, or that some reader has returned
Known == {u \in 0 .. issued : \A w \in Writers : pc[w] # "idle" => u < local[w].update}
         \cup {result[r][f] : r \in {x \in Readers : pc[x] = "idle"}, f \in Field}

ReadBegin(r) ==
    /\ pc[r] = "idle"
    /\ local' = [local EXCEPT ![r].retry = 0]
    /\ \E u \in Known : /\ \A v \in Known : v <= u
                        /\ floor' = [floor EXCEPT ![r] = u]
    /\ Goto(r, "v1")
    /\ UNCHANGED <<shared, todo, result>>

\* mutant: retries are not counted
Retry_Unbounded(r) == Goto(r, "v1") /\ UNCHANGED <<local, todo>>

\* next turn of the for loop, or the fallback after it
Retry(r) == /\ local' = [local EXCEPT ![r].retry = @ + 1]
            /\ IF local[r].retry + 1 < MaxRetries
               THEN Goto(r, "v1") /\ UNCHANGED todo
               ELSE Goto(r, "fallback") /\ todo' = [todo EXCEPT ![r] = Field]

LoadV1(r) ==
    /\ pc[r] = "v1"
    /\ \/ version % 2 = 1 /\ Retry(r)
       \/ /\ version % 2 = 0
          /\ local' = [local EXCEPT ![r].ver = version]
          /\ todo' = [todo EXCEPT ![r] = Field]
          /\ Goto(r, "fields")
    /\ UNCHANGED <<shared, result, floor>>

\* func(hot_params_), in the loop or as the fallback
ReadField(r, f) ==
    /\ pc[r] \in {"fields", "fallback"}
    /\ f \in todo[r]
    /\ result' = [result EXCEPT ![r][f] = hot[f]]
    /\ FieldDone(r, f, IF pc[r] = "fields" THEN "v2" ELSE "blind")
    /\ UNCHANGED <<shared, local, floor>>

LoadV2(r) ==
    /\ pc[r] = "v2"
    /\ \/ version = local[r].ver /\ Goto(r, "verified") /\ UNCHANGED <<local, todo>>
       \/ version # local[r].ver /\ Retry(r)
    /\ UNCHANGED <<shared, result, floor>>

\* the caller has used the result; a blind one is forgotten
ReadReturn(r) ==
    /\ pc[r] \in {"verified", "blind"}
    /\ result' = [result EXCEPT ![r] = IF pc[r] = "blind" THEN ParamSet(0) ELSE @]
    /\ Goto(r, "idle")
    /\ UNCHANGED <<shared, todo, local, floor>>

-----------------------------------------------------------------------------
(* getParameters *)

SnapshotBegin(s) ==
    /\ pc[s] = "idle"
    /\ local' = [local EXCEPT ![s].dark = active, ![s].update = issued]
    /\ todo' = [todo EXCEPT ![s] = Field]
    /\ Goto(s, "snapshot")
    /\ UNCHANGED <<shared, result, floor>>

SnapshotField(s, f) ==
    /\ pc[s] = "snapshot"
    /\ f \in todo[s]
    /\ result' = [result EXCEPT ![s][f] = cold[local[s].dark].params[f]]
    /\ FieldDone(s, f, "idle")
    /\ UNCHANGED <<shared, local, floor>>

-----------------------------------------------------------------------------

Write(w) == \/ UpdateBegin(w) \/ BuildHot(w) \/ LoadVersion(w) \/ StoreOdd(w)
            \/ StoreEven(w) \/ SwapActive(w) \/ FlipAndRefill(w)
            \/ \E f \in Field : StoreParam(w, f) \/ CopyHot(w, f)

Read(r) == \/ ReadBegin(r) \/ LoadV1(r) \/ LoadV2(r) \/ ReadReturn(r)
           \/ \E f \in Field : ReadField(r, f)

Snapshot(s) == SnapshotBegin(s) \/ \E f \in Field : SnapshotField(s, f)

Next == \/ \E w \in Writers : Write(w)
        \/ \E r \in Readers : Read(r)
        \/ \E s \in Snapshotters : Snapshot(s)

Spec == Init /\ [][Next]_vars

(* Readers are scheduled; nothing is assumed of the writers, which may be  *)
(* preempted for ever in the middle of an update.                          *)
FairSpec == Spec /\ \A r \in Readers : WF_vars(pc[r] # "idle" /\ Read(r))

-----------------------------------------------------------------------------
(* Every variable keeps its type; the version never runs ahead of the two  *)
(* bumps per update.                                                       *)
TypeOK ==
    /\ hot \in [Field -> Update]
    /\ version \in 0 .. 2 * MaxUpdates
    /\ cold \in [Buffer -> [params : [Field -> Update], hot : [Field -> Update]]]
    /\ active \in Buffer /\ writeIdx \in Buffer
    /\ issued \in Update
    /\ todo \in [Threads -> SUBSET Field]
    /\ local \in [Threads -> [dark : Buffer, ver : 0 .. 2 * MaxUpdates,
                              retry : 0 .. MaxRetries, update : Update]]
    /\ result \in [Readers \cup Snapshotters -> [Field -> Update]]
    /\ floor \in [Readers -> Update]

Untorn(s) == \A f, g \in Field : result[s][f] = result[s][g]

(* A verified optimistic read returns one parameter set, never a mix of    *)
(* two, and one at least as new as every update that had returned and      *)
(* every set that had been read before it began: with one writer, hot      *)
(* parameters are an atomic register.                                      *)
HotReadIsAtomic ==
    \A r \in Readers : pc[r] = "verified" =>
        Untorn(r) /\ \A f \in Field : result[r][f] >= floor[r]

(* getParameters copies the buffer without a lock, and an update in        *)
(* progress does not disturb it: a copy is a mix of two parameter sets     *)
(* only if a further update began after getParameters had loaded           *)
(* active_cold_.                                                           *)
SnapshotSurvivesUpdate ==
    \A s \in Snapshotters : pc[s] = "idle" => Untorn(s) \/ issued > local[s].update

(* A hot read returns although the writer is stopped in mid-update: the    *)
(* retries are bounded.                                                    *)
ReadsReturn == \A r \in Readers : (pc[r] # "idle") ~> (pc[r] = "idle")

(* "Fallback: read anyway (reader won't see corruption, just possibly      *)
(* stale)", risk_engine.hpp:224.                                           *)
FallbackIsUntorn == \A r \in Readers : pc[r] = "blind" => Untorn(r)
=============================================================================
