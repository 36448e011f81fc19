---------------------------- MODULE ErrorHandler ----------------------------
(***************************************************************************)
(* chronos::ErrorHandler: statistics, a bounded history in a ring buffer,  *)
(* and callbacks for all errors or for those of one category.  Every       *)
(* method runs under one mutex, so each is one step; callbacks run inside  *)
(* reportError, under the mutex, and an exception of one does not keep the *)
(* others from running.  A callback that calls the handler again waits for *)
(* itself for ever; the callbacks here do not.                             *)
(*                                                                         *)
(* An error is the number of its report.  A write behind the end of the    *)
(* history is undefined behaviour; here the error is lost.                 *)
(***************************************************************************)
EXTENDS Integers, Sequences, SequencesExt

CONSTANTS Categories,
          Severities,    \* numbers, DEBUG the smallest
          HistorySizes,  \* values of max_history_size_
          MaxErrors,     \* bound: errors reported
          MaxCallbacks   \* bound: callbacks registered

ASSUME ErrorAssumption ==
    /\ Severities \subseteq Nat /\ HistorySizes \subseteq Nat \ {0} /\ HistorySizes # {}
    /\ MaxErrors \in Nat /\ MaxCallbacks \in Nat /\ "all" \notin Categories

VARIABLES history, writeIndex, maxHistory, minSeverity, totals,
          callbacks,   \* [id -> category or "all"], on the ids registered
          nextCallback,
          reported,    \* number of calls of reportError, the number of the last error
          log,         \* history: errors accepted since the history was last cleared or cut
          heard,       \* history: [id -> errors a callback was called with]
          taken,       \* history: errors accepted: [n, cat]
          span         \* history: [id -> errors reported before it came and before it went]

errorVars == <<history, writeIndex, maxHistory, minSeverity, totals, callbacks, nextCallback, reported,
               log, heard, taken, span>>

NoTotals == [total |-> 0, by |-> [c \in Categories |-> 0]]

\* recordError: the total, and the counts by category
Counted(t, cat) == [t EXCEPT !.total = @ + 1, !.by[cat] = @ + 1]

\* mutant: the index is that of the last entry instead of the next
AddToHistory_OneLess(e) ==
    IF Len(history) < maxHistory
    THEN history' = Append(history, e) /\ writeIndex' = Len(history)
    ELSE /\ history' = [history EXCEPT ![writeIndex + 1] = e]
         /\ writeIndex' = (writeIndex + 1) % maxHistory

\* writeIndex counts from 0; right after the last push it is the size
AddToHistory(e) ==
    IF Len(history) < maxHistory
    THEN /\ history' = Append(history, e) /\ writeIndex' = Len(history) + 1
    ELSE /\ history' = IF writeIndex >= Len(history) THEN history
                       ELSE [history EXCEPT ![writeIndex + 1] = e]
         /\ writeIndex' = (writeIndex + 1) % maxHistory

\* the global callbacks, then those of the category
InvokeCallbacks(e, cat) ==
    heard' = [id \in DOMAIN heard |->
                 IF id \in DOMAIN callbacks /\ callbacks[id] \in {"all", cat} THEN Append(heard[id], e)
                                                                             ELSE heard[id]]

ReportError(sev, cat) ==
    /\ reported < MaxErrors /\ reported' = reported + 1
    /\ IF sev < minSeverity
       THEN UNCHANGED <<history, writeIndex, totals, heard, log, taken>>
       ELSE /\ totals' = Counted(totals, cat)
            /\ AddToHistory(reported')
            /\ InvokeCallbacks(reported', cat)
            /\ log' = Append(log, reported')
            /\ taken' = Append(taken, [n |-> reported', cat |-> cat])
    /\ UNCHANGED <<maxHistory, minSeverity, callbacks, nextCallback, span>>

Extended(f, x, v) == [y \in DOMAIN f \cup {x} |-> IF y = x THEN v ELSE f[y]]

Registering(cat) ==
    /\ nextCallback <= MaxCallbacks /\ nextCallback' = nextCallback + 1
    /\ callbacks' = Extended(callbacks, nextCallback, cat)
    /\ heard' = Extended(heard, nextCallback, <<>>)
    /\ span' = Extended(span, nextCallback, [from |-> reported, to |-> MaxErrors, cat |-> cat])
    /\ UNCHANGED <<history, writeIndex, maxHistory, minSeverity, totals, reported, log, taken>>

RegisterCallback == Registering("all")
RegisterCategoryCallback(cat) == Registering(cat)

Unregistering(id) ==
    /\ id \in DOMAIN callbacks
    /\ callbacks' = [i \in DOMAIN callbacks \ {id} |-> callbacks[i]]
    /\ span' = [span EXCEPT ![id].to = reported]
    /\ UNCHANGED <<history, writeIndex, maxHistory, minSeverity, totals, nextCallback, reported, log,
                   heard, taken>>

UnregisterCallback(id) == Unregistering(id) /\ callbacks[id] = "all"
UnregisterCategoryCallback(id) == Unregistering(id) /\ callbacks[id] # "all"

ResetStatistics ==
    /\ totals.total > 0 /\ totals' = NoTotals
    /\ UNCHANGED <<history, writeIndex, maxHistory, minSeverity, callbacks, nextCallback, reported, log,
                   heard, taken, span>>

ClearHistory ==
    /\ history # <<>>
    /\ history' = <<>> /\ writeIndex' = 0 /\ log' = <<>>
    /\ UNCHANGED <<maxHistory, minSeverity, totals, callbacks, nextCallback, reported, heard, taken, span>>

\* a history that is cut keeps its first entries, not its last
SetMaxHistorySize(n) ==
    /\ n # maxHistory /\ maxHistory' = n
    /\ IF Len(history) > n
       THEN history' = SubSeq(history, 1, n) /\ writeIndex' = 0 /\ log' = SubSeq(history, 1, n)
       ELSE UNCHANGED <<history, writeIndex, log>>
    /\ UNCHANGED <<minSeverity, totals, callbacks, nextCallback, reported, heard, taken, span>>

SetMinimumSeverity(sev) ==
    /\ minSeverity' = sev
    /\ UNCHANGED <<history, writeIndex, maxHistory, totals, callbacks, nextCallback, reported, log, heard,
                   taken, span>>

\* getRecentErrors, the most recent first
RecentErrors(n) ==
    LET size == Len(history)
        count == IF n < size THEN n ELSE size IN
    [i \in 1 .. count |-> history[((writeIndex + size - i) % size) + 1]]

-----------------------------------------------------------------------------
ErrorInit == /\ history = <<>> /\ writeIndex = 0 /\ maxHistory \in HistorySizes
             /\ minSeverity = CHOOSE s \in Severities : \A t \in Severities : s <= t
             /\ totals = NoTotals
             /\ callbacks = <<>> /\ nextCallback = 1
             /\ reported = 0 /\ log = <<>> /\ heard = <<>>
             /\ taken = <<>> /\ span = <<>>

ErrorNext == \/ \E sev \in Severities, cat \in Categories : ReportError(sev, cat)
             \/ RegisterCallback \/ \E cat \in Categories : RegisterCategoryCallback(cat)
             \/ \E id \in DOMAIN callbacks : UnregisterCallback(id) \/ UnregisterCategoryCallback(id)
             \/ ResetStatistics \/ ClearHistory \/ (\E n \in HistorySizes : SetMaxHistorySize(n))
             \/ \E sev \in Severities : SetMinimumSeverity(sev)

ErrorSpec == ErrorInit /\ [][ErrorNext]_errorVars

\* Every variable keeps its type.
ErrorTypeOK ==
    /\ Len(history) <= maxHistory /\ writeIndex \in Nat
    /\ maxHistory \in HistorySizes /\ minSeverity \in Severities
    /\ totals.total \in 0 .. reported /\ reported \in 0 .. MaxErrors

\* the callback was there when the error came, and asked for its category
MeantFor(id, e) == /\ e.n > span[id].from /\ e.n <= span[id].to
                   /\ span[id].cat \in {"all", e.cat}

(* The history is exact as long as it never was full when an error came:   *)
(* through filters, clears, cuts and growing limits the recent errors are  *)
(* the latest; and callbacks, whenever registered and removed, have heard  *)
(* every error that was meant for them, in order.                          *)
ErrorsSeen ==
    /\ Len(log) <= Len(history) => RecentErrors(maxHistory) = Reverse(log)
    /\ \A id \in DOMAIN heard :
          /\ Range(heard[id]) = {e.n : e \in {e \in Range(taken) : MeantFor(id, e)}}
          /\ \A i, j \in DOMAIN heard[id] : i < j => heard[id][i] < heard[id][j]
=============================================================================
