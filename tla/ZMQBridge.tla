----------------------------- MODULE ZMQBridge -----------------------------
(***************************************************************************)
(* chronos::logging::ZMQBridge: publishers put events into a queue, a      *)
(* thread sends them over a PUB socket (external).  initialize and stop    *)
(* are called by one thread, publish by several; publish looks at neither  *)
(* running_ nor queue_, so one that meets a bridge that is not initialized *)
(* or is stopped uses a null pointer: bridgeDead.  The queue is the FIFO   *)
(* that MPMCQueue implements.                                              *)
(*                                                                         *)
(* An event is the number of its acceptance.                               *)
(***************************************************************************)
EXTENDS Integers, Sequences, SequencesExt, FiniteSets

CONSTANTS BridgeCap,  \* capacity of the queue
          MaxEvents,  \* bound: events offered
          MaxStarts   \* bound: calls of initialize

ASSUME BridgeAssumption == {BridgeCap, MaxEvents, MaxStarts} \subseteq Nat

VARIABLES bridgeRunning,
          events,      \* the queue, <<>> also when there is none
          exists,      \* queue_ is not null
          sender,      \* publisher thread: "none", "check", "drain", "send", "exited"
          ev,          \* the event it has taken
          stopping,    \* stop() is waiting for the thread
          sent,        \* external: what the socket took
          published, dropped,
          offered, eventsTaken,
          failed,      \* history: events the socket refused
          discarded,   \* history: events left in the queue when stop() destroyed it
          starts, bridgeDead

bridgeVars == <<bridgeRunning, events, exists, sender, ev, stopping, sent, published, dropped, offered,
                eventsTaken, failed, discarded, starts, bridgeDead>>

\* a socket that cannot be made or bound leaves the new queue in place, and nothing running
InitializeBridge ==
    /\ ~ bridgeRunning /\ ~ stopping /\ starts < MaxStarts /\ starts' = starts + 1
    /\ discarded' = discarded \cup Range(events)
    /\ events' = <<>> /\ exists' = TRUE
    /\ \/ bridgeRunning' = TRUE /\ sender' = "check"
       \/ UNCHANGED <<bridgeRunning, sender>>
    /\ UNCHANGED <<ev, stopping, sent, published, dropped, offered, eventsTaken, failed, bridgeDead>>

StopBridge ==
    /\ bridgeRunning /\ ~ stopping
    /\ bridgeRunning' = FALSE /\ stopping' = TRUE
    /\ UNCHANGED <<events, exists, sender, ev, sent, published, dropped, offered, eventsTaken, failed,
                   discarded, starts, bridgeDead>>

\* mutant: the queue goes before the thread
JoinSender_Early ==
    /\ stopping
    /\ stopping' = FALSE /\ sender' = "none"
    /\ discarded' = discarded \cup Range(events)
    /\ events' = <<>> /\ exists' = FALSE
    /\ UNCHANGED <<bridgeRunning, ev, sent, published, dropped, offered, eventsTaken, failed, starts,
                   bridgeDead>>

\* what is in the queue once the thread has gone is destroyed with it
JoinSender ==
    /\ stopping /\ sender = "exited"
    /\ stopping' = FALSE /\ sender' = "none"
    /\ discarded' = discarded \cup Range(events)
    /\ events' = <<>> /\ exists' = FALSE
    /\ UNCHANGED <<bridgeRunning, ev, sent, published, dropped, offered, eventsTaken, failed, starts,
                   bridgeDead>>

\* publishTick, publishOrder and publishFill, which differ in the size of the event
Publish ==
    /\ offered < MaxEvents /\ offered' = offered + 1
    /\ bridgeDead' = ~ exists
    /\ IF exists /\ Len(events) < BridgeCap
       THEN /\ events' = Append(events, eventsTaken + 1) /\ eventsTaken' = eventsTaken + 1
            /\ UNCHANGED dropped
       ELSE /\ dropped' = IF exists THEN dropped + 1 ELSE dropped
            /\ UNCHANGED <<events, eventsTaken>>
    /\ UNCHANGED <<bridgeRunning, exists, sender, ev, stopping, sent, published, failed, discarded, starts>>

\* run(): running_ is looked at only when the queue was found empty
CheckRunning ==
    /\ sender = "check"
    /\ sender' = IF bridgeRunning THEN "drain" ELSE "exited"
    /\ UNCHANGED <<bridgeRunning, events, exists, ev, stopping, sent, published, dropped, offered,
                   eventsTaken, failed, discarded, starts, bridgeDead>>

PopEvent ==
    /\ sender = "drain"
    /\ IF events = <<>> THEN sender' = "check" /\ UNCHANGED <<events, ev>>
       ELSE sender' = "send" /\ ev' = Head(events) /\ events' = Tail(events)
    /\ UNCHANGED <<bridgeRunning, exists, stopping, sent, published, dropped, offered, eventsTaken, failed,
                   discarded, starts, bridgeDead>>

\* sendMessage does not wait: an event the socket does not take is gone, and not counted
SendMessage ==
    /\ sender = "send" /\ sender' = "drain"
    /\ \/ sent' = Append(sent, ev) /\ published' = published + 1 /\ UNCHANGED failed
       \/ failed' = failed \cup {ev} /\ UNCHANGED <<sent, published>>
    /\ ev' = 0
    /\ UNCHANGED <<bridgeRunning, events, exists, stopping, dropped, offered, eventsTaken, discarded, starts,
                   bridgeDead>>

-----------------------------------------------------------------------------
BridgeInit == /\ bridgeRunning = FALSE /\ events = <<>> /\ exists = FALSE /\ sender = "none"
              /\ ev = 0 /\ stopping = FALSE /\ sent = <<>> /\ published = 0 /\ dropped = 0
              /\ offered = 0 /\ eventsTaken = 0 /\ failed = {} /\ discarded = {} /\ starts = 0
              /\ bridgeDead = FALSE

BridgeNext == /\ ~ bridgeDead
              /\ \/ InitializeBridge \/ StopBridge \/ JoinSender \/ Publish
                 \/ CheckRunning \/ PopEvent \/ SendMessage

BridgeSpec == BridgeInit /\ [][BridgeNext]_bridgeVars

\* Every variable keeps its type.
BridgeTypeOK ==
    /\ sender \in {"none", "check", "drain", "send", "exited"}
    /\ Len(events) <= BridgeCap /\ ev \in 0 .. eventsTaken
    /\ published \in Nat /\ dropped \in Nat /\ bridgeRunning \in BOOLEAN /\ exists \in BOOLEAN

(* Across restarts, a full queue, a socket that refuses and publishers     *)
(* that go on while stop() runs, an event that was accepted is in one      *)
(* place, sent ones are sent once and in order, the events ahead are the   *)
(* later ones, and the counters tell how many were sent and turned away.   *)
BridgeAccounts ==
    LET waiting == Range(events) \cup (IF ev = 0 THEN {} ELSE {ev}) IN
    /\ 1 .. eventsTaken = Range(sent) \cup waiting \cup failed \cup discarded
    /\ \A i, j \in DOMAIN sent : i < j => sent[i] < sent[j]
    /\ \A e \in waiting : \A d \in Range(sent) \cup failed \cup discarded : d < e
    /\ published = Len(sent) /\ published + Cardinality(failed \cup discarded \cup waiting) = eventsTaken
    /\ ~ bridgeDead => offered = eventsTaken + dropped
    /\ ~ bridgeRunning /\ ~ stopping => sender = "none"
=============================================================================
