------------------------------ MODULE LogFiles ------------------------------
(***************************************************************************)
(* chronos::logging: LogWriter, its buffers, its background thread and its *)
(* dated files, across midnights, crashes and restarts, and LogReader,     *)
(* which maps a file and searches it by timestamp.                         *)
(*                                                                         *)
(* A record is the number of its acceptance.  A file is a sequence of      *)
(* halves <<record, 1>>, <<record, 2>>, because a crash in fwrite can      *)
(* leave part of a record behind; its header comes and goes with it.  What *)
(* a thread has still to do is a sequence of operations <<op, type, day>>, *)
(* one step each: a buffer's flush runs under that buffer's mutex, opening *)
(* and closing runs under none.                                            *)
(***************************************************************************)
EXTENDS Integers, Sequences, SequencesExt, FiniteSetsExt

CONSTANTS LogTypes,   \* the logs, in the order the code goes through them
          BufCap,     \* records in a buffer
          Retention,  \* retention_days
          MaxRecords, \* bound: records accepted for each log
          LastDay     \* bound: days

ASSUME LogAssumption == /\ {BufCap, Retention, MaxRecords, LastDay} \subseteq Nat /\ LastDay > 0
                        /\ LogTypes \in Seq(STRING)

VARIABLES buf,       \* [type -> records]
          handle,    \* [type -> day of the open file], 0 for nullptr
          disk,      \* [type -> [day -> halves]], <<>> for no file
          today, currentDate,
          logRunning,
          work,      \* [thread -> operations to do]
          accepted,  \* [type -> number of records accepted]
          crashed,   \* history: [type -> records that died with the process]
          deleted,   \* history: [type -> records of deleted files]
          spliced,   \* history: files that were appended to after half a record
          raced      \* history: two rotations overlapped, or a file was closed or opened while
                     \* another thread used it

logVars == <<buf, handle, disk, today, currentDate, logRunning, work, accepted, crashed, deleted,
             spliced, raced>>

Types == Range(LogTypes)
LogThreads == {"app", "writer"}
Days == 1 .. LastDay
Each(op, day) == [i \in DOMAIN LogTypes |-> <<op, LogTypes[i], day>>]

Halves(rs) == [i \in 1 .. 2 * Len(rs) |-> <<rs[(i + 1) \div 2], 2 - (i % 2)>>]

\* the records that are whole in a file, and where they end
Ends(f) == {j \in DOMAIN f : f[j][2] = 2}
RecordsOf(f) == {f[j][1] : j \in Ends(f)}

-----------------------------------------------------------------------------
(* LogWriter: the hot path *)

\* a record that does not fit is refused, and changes nothing
AppendToBuffer(type, record) ==
    /\ Len(buf[type]) < BufCap
    /\ buf' = [buf EXCEPT ![type] = Append(@, record)]

\* writeTick, writeOrder, writeFill
Write(type) ==
    /\ accepted[type] < MaxRecords /\ currentDate # 0
    /\ AppendToBuffer(type, accepted[type] + 1)
    /\ accepted' = [accepted EXCEPT ![type] = @ + 1]
    /\ UNCHANGED <<handle, disk, today, currentDate, logRunning, work, crashed, deleted, spliced, raced>>

-----------------------------------------------------------------------------
(* What the threads do *)

FlushBuffer == Each("flush", 0)
CloseAllFiles == Each("close", 0)

\* the day is the one that run() or rotateNow() has read
RotateFiles(day) == FlushBuffer \o CloseAllFiles \o <<<<"date", "none", day>>>> \o Each("open", day)
                    \o <<<<"delete", "none", 0>>>>

Rotating(t) == \E i \in DOMAIN work[t] : work[t][i][1] = "delete"

Goes(t, ops) == work' = [work EXCEPT ![t] = ops]

\* a round of the background thread
Run ==
    /\ logRunning /\ work["writer"] = <<>>
    /\ \/ today = currentDate /\ Goes("writer", FlushBuffer) /\ UNCHANGED raced
       \/ /\ today # currentDate /\ Goes("writer", RotateFiles(today) \o FlushBuffer)
          /\ raced' = (raced \/ Rotating("app"))
    /\ UNCHANGED <<buf, handle, disk, today, currentDate, logRunning, accepted, crashed, deleted,
                   spliced>>

\* flush() and rotateNow() of the application
AppFlush ==
    /\ work["app"] = <<>> /\ currentDate # 0
    /\ \/ Goes("app", FlushBuffer) /\ UNCHANGED raced
       \/ /\ today # currentDate /\ Goes("app", RotateFiles(today))
          /\ raced' = (raced \/ Rotating("writer"))
    /\ UNCHANGED <<buf, handle, disk, today, currentDate, logRunning, accepted, crashed, deleted,
                   spliced>>

StopLog ==
    /\ work["app"] = <<>> /\ logRunning
    /\ logRunning' = FALSE
    /\ Goes("app", <<<<"join", "none", 0>>>> \o FlushBuffer \o CloseAllFiles)
    /\ UNCHANGED <<buf, handle, disk, today, currentDate, accepted, crashed, deleted, spliced, raced>>

Doing(t, op, type) == work[t] # <<>> /\ Head(work[t])[1] = op /\ Head(work[t])[2] = type
DayOf(t) == Head(work[t])[3]
Done(t) == Goes(t, Tail(work[t]))

JoinWriter ==
    /\ Doing("app", "join", "none") /\ work["writer"] = <<>>
    /\ Done("app")
    /\ UNCHANGED <<buf, handle, disk, today, currentDate, logRunning, accepted, crashed, deleted,
                   spliced, raced>>

\* mutant: the buffer is emptied also when there is no file to write it to
FlushOne_Forgets(t, type) ==
    /\ Doing(t, "flush", type) /\ Done(t)
    /\ disk' = IF handle[type] = 0 THEN disk
               ELSE [disk EXCEPT ![type][handle[type]] = @ \o Halves(buf[type])]
    /\ buf' = [buf EXCEPT ![type] = <<>>]
    /\ UNCHANGED <<handle, today, currentDate, logRunning, accepted, crashed, deleted, spliced, raced>>

\* fwrite, fflush and the write position, under the buffer's mutex
FlushOne(t, type) ==
    /\ Doing(t, "flush", type) /\ Done(t)
    /\ IF handle[type] = 0 THEN UNCHANGED <<buf, disk>>
       ELSE /\ disk' = [disk EXCEPT ![type][handle[type]] = @ \o Halves(buf[type])]
            /\ buf' = [buf EXCEPT ![type] = <<>>]
    /\ UNCHANGED <<handle, today, currentDate, logRunning, accepted, crashed, deleted, spliced, raced>>

\* the other thread may be at the same file: undefined behaviour
Racing(t, type) == \E u \in LogThreads \ {t} : work[u] # <<>> /\ Head(work[u])[2] = type

CloseOne(t, type) ==
    /\ Doing(t, "close", type) /\ Done(t)
    /\ handle' = [handle EXCEPT ![type] = 0]
    /\ raced' = (raced \/ Racing(t, type))
    /\ UNCHANGED <<buf, disk, today, currentDate, logRunning, accepted, crashed, deleted, spliced>>

SetDate(t) ==
    /\ Doing(t, "date", "none") /\ Done(t)
    /\ currentDate' = DayOf(t)
    /\ UNCHANGED <<buf, handle, disk, today, logRunning, accepted, crashed, deleted, spliced, raced>>

\* openLogFile appends to the file of the day, whatever it ends with
Splices(type, day) == IF Len(disk[type][day]) % 2 = 1 THEN {<<type, day>>} ELSE {}

OpenOne(t, type) ==
    /\ Doing(t, "open", type) /\ Done(t)
    /\ handle' = [handle EXCEPT ![type] = DayOf(t)]
    /\ spliced' = spliced \cup Splices(type, DayOf(t))
    /\ raced' = (raced \/ Racing(t, type))
    /\ UNCHANGED <<buf, disk, today, currentDate, logRunning, accepted, crashed, deleted>>

\* deleteOldFiles: every file of an earlier day than the present one
OldDays(date) == IF Retention = 0 THEN {} ELSE {d \in Days : d < date}

Deleting(date) ==
    /\ disk' = [type \in Types |-> [d \in Days |-> IF d \in OldDays(date) THEN <<>> ELSE disk[type][d]]]
    /\ deleted' = [type \in Types |->
                      deleted[type] \cup UNION {RecordsOf(disk[type][d]) : d \in OldDays(date)}]

DeleteOldFiles(t) ==
    /\ Doing(t, "delete", "none") /\ Done(t)
    /\ Deleting(currentDate)
    /\ UNCHANGED <<buf, handle, today, currentDate, logRunning, accepted, crashed, spliced, raced>>

\* the background thread is not running yet
Initialize ==
    /\ work["app"] = <<>> /\ ~ logRunning
    /\ currentDate' = today
    /\ handle' = [type \in Types |-> today]
    /\ spliced' = spliced \cup UNION {Splices(type, today) : type \in Types}
    /\ Deleting(today)
    /\ logRunning' = TRUE
    /\ UNCHANGED <<buf, today, work, accepted, crashed, raced>>

LogStep(t) == \/ \E type \in Types : FlushOne(t, type) \/ CloseOne(t, type) \/ OpenOne(t, type)
              \/ SetDate(t) \/ DeleteOldFiles(t)

-----------------------------------------------------------------------------
(* External: the clock and the end of the process *)

Midnight == today < LastDay /\ today' = today + 1
            /\ UNCHANGED <<buf, handle, disk, currentDate, logRunning, work, accepted, crashed, deleted,
                           spliced, raced>>

\* the process dies; flushes that were under way leave any part of their bytes
LogCrash ==
    /\ currentDate # 0
    /\ \E part \in [Types -> 0 .. 2 * BufCap] :
          /\ \A type \in Types :
                part[type] > 0 => /\ \E t \in LogThreads : Doing(t, "flush", type)
                                  /\ handle[type] # 0 /\ part[type] <= 2 * Len(buf[type])
          /\ disk' = [type \in Types |-> [d \in Days |->
                         IF d = handle[type] THEN disk[type][d] \o SubSeq(Halves(buf[type]), 1, part[type])
                                             ELSE disk[type][d]]]
          /\ crashed' = [type \in Types |-> crashed[type] \cup
                             {buf[type][i] : i \in part[type] \div 2 + 1 .. Len(buf[type])}]
    /\ buf' = [type \in Types |-> <<>>] /\ handle' = [type \in Types |-> 0]
    /\ currentDate' = 0 /\ logRunning' = FALSE
    /\ work' = [t \in LogThreads |-> <<>>]
    /\ UNCHANGED <<today, accepted, deleted, spliced, raced>>

-----------------------------------------------------------------------------
LogInit == /\ buf = [type \in Types |-> <<>>] /\ handle = [type \in Types |-> 0]
           /\ disk = [type \in Types |-> [d \in Days |-> <<>>]]
           /\ today = 1 /\ currentDate = 0 /\ logRunning = FALSE
           /\ work = [t \in LogThreads |-> <<>>]
           /\ accepted = [type \in Types |-> 0]
           /\ crashed = [type \in Types |-> {}] /\ deleted = [type \in Types |-> {}]
           /\ spliced = {} /\ raced = FALSE

LogNext == \/ \E type \in Types : Write(type)
           \/ Run \/ AppFlush \/ StopLog \/ JoinWriter \/ Initialize
           \/ (\E t \in LogThreads : LogStep(t))
           \/ Midnight \/ LogCrash

LogSpec == LogInit /\ [][LogNext]_logVars

-----------------------------------------------------------------------------
(* LogReader *)

\* open: a trailing part of a record is not counted
RecordCount(f) == Len(f) \div 2

\* recordAt, from 0
RecordAt(f, i) == SubSeq(f, 2 * i + 1, 2 * i + 2)

\* two records in a row have the same timestamp
TimestampAt(f, i) == (RecordAt(f, i)[1][1] + 1) \div 2

\* mutant: the upper half is left out of the search
SeekToTimestamp_Short(f, ts) ==
    LET n == RecordCount(f)
        search[w \in (0 .. n) \X (0 .. n)] ==
            LET mid == w[1] + (w[2] - w[1]) \div 2 IN
            IF w[1] >= w[2] THEN w[1]
            ELSE IF TimestampAt(f, mid) <= ts THEN search[<<mid + 1, w[2]>>] ELSE search[<<w[1], mid>>] IN
    search[<<0, n>>]

\* the shortcut before the search changes nothing on sorted files, and is kept
SeekToTimestamp(f, ts) ==
    LET n == RecordCount(f)
        search[w \in (0 .. n) \X (0 .. n)] ==
            LET mid == w[1] + (w[2] - w[1]) \div 2 IN
            IF w[1] >= w[2] THEN w[1]
            ELSE IF TimestampAt(f, mid) < ts THEN search[<<mid + 1, w[2]>>] ELSE search[<<w[1], mid>>] IN
    IF n = 0 THEN 0 ELSE IF TimestampAt(f, n - 1) < ts THEN n ELSE search[<<0, n>>]

-----------------------------------------------------------------------------
\* Every variable keeps its type.
LogTypeOK ==
    /\ \A type \in Types : /\ Len(buf[type]) <= BufCap
                           /\ handle[type] \in 0 .. LastDay
                           /\ accepted[type] \in 0 .. MaxRecords
    /\ today \in Days /\ currentDate \in 0 .. LastDay
    /\ logRunning \in BOOLEAN /\ raced \in BOOLEAN /\ spliced \subseteq Types \X Days

InFile(type, d) == RecordsOf(disk[type][d])

(* Unless rotateNow() or flush() of the application met the background     *)
(* thread at a rotation, or at a file it was closing, every record whose   *)
(* write was accepted is in exactly one place: a file, the buffer, a       *)
(* deleted file, or lost in a crash; the files of the days and then the    *)
(* buffer have the records in the order of their acceptance; and no file   *)
(* is deleted that is still open.                                          *)
LogComplete ==
    ~ raced => \A type \in Types :
        /\ 1 .. accepted[type] = Range(buf[type]) \cup crashed[type] \cup deleted[type]
                                 \cup UNION {InFile(type, d) : d \in Days}
        /\ Range(buf[type]) \cap (crashed[type] \cup deleted[type]) = {}
        /\ \A d \in Days :
              /\ \A r \in InFile(type, d) : /\ r \notin crashed[type] \cup deleted[type]
                                            /\ \A s \in Range(buf[type]) : r < s
                                            /\ \A e \in d + 1 .. LastDay : \A s \in InFile(type, e) : r < s
              /\ \A i, j \in Ends(disk[type][d]) : i < j => disk[type][d][i][1] < disk[type][d][j][1]
        /\ \A t \in LogThreads : Doing(t, "delete", "none") => handle[type] \notin OldDays(currentDate)

(* A file that was not appended to after half a record reads back as the   *)
(* records written to it, in their order, a half one at its end excepted,  *)
(* and a search by timestamp returns the first record that is not earlier. *)
LogReadsBack ==
    ~ raced => \A type \in Types, d \in Days : <<type, d>> \notin spliced =>
        LET f == disk[type][d]  n == RecordCount(f) IN
        /\ \A i \in 0 .. n - 1 : \E r \in RecordsOf(f) : RecordAt(f, i) = Halves(<<r>>)
        /\ \A r \in RecordsOf(f) : \E i \in 0 .. n - 1 : RecordAt(f, i) = Halves(<<r>>)
        /\ \A i, j \in 0 .. n - 1 : i < j => RecordAt(f, i)[1][1] < RecordAt(f, j)[1][1]
        /\ \A ts \in 0 .. MaxRecords :
              LET k == SeekToTimestamp(f, ts) IN
              /\ k \in 0 .. n
              /\ \A i \in 0 .. n - 1 : TimestampAt(f, i) < ts <=> i < k
=============================================================================
