----------------------------- MODULE MPMCQueue -----------------------------
(***************************************************************************)
(* chronos::utils::MPMCQueue<T, N>, the lock-free ring buffer every queue  *)
(* of the library is made of (ticks, orders, fills, bridge events).        *)
(*                                                                         *)
(* One action per atomic access: the load of head_/tail_, the load of a    *)
(* slot's sequence number, the compare-exchange, the copy of the payload   *)
(* and the release store that publishes or frees the slot.  The payload    *)
(* copy is not atomic in the code, so a slot is "accessed" from the        *)
(* compare-exchange to the release store (ExclusiveSlot).                  *)
(*                                                                         *)
(* Positions are natural numbers: 2^64 operations do not happen.  A        *)
(* relaxed load returns the current value; a thread that is delayed after  *)
(* the load holds the stale one.                                           *)
(***************************************************************************)
EXTENDS Integers, Sequences, FiniteSets

CONSTANTS N,           \* capacity
          Producers,   \* threads that call try_push
          Consumers,   \* threads that call try_pop
          Observers,   \* threads that call size()
          MaxPushes,   \* bound: calls of try_push of each producer
          WordMod      \* number of values of size_t (2^64)

ASSUME NAssumption == N \in Nat \ {0}
ASSUME ThreadAssumption == /\ Producers \cap Consumers = {}
                           /\ Producers \cap Observers = {}
                           /\ Consumers \cap Observers = {}
ASSUME BoundAssumption == MaxPushes \in [Producers -> Nat] /\ WordMod \in Nat \ {0}

Threads == Producers \cup Consumers \cup Observers
Slots == 0 .. N - 1
NoItem == <<>>
\* the k-th call of a producer pushes <<p, k>>
Item == UNION {{p} \X (1 .. MaxPushes[p]) : p \in Producers}

VARIABLES head, tail,   \* head_, tail_
          seq,          \* slots_[i].seq
          data,         \* slots_[i].data
          pc,           \* next atomic access of each thread, "idle" between calls
          pos,          \* local pos (size(): local h)
          pushes,       \* try_push calls each producer has made
          out,          \* the val a consumer's last successful try_pop filled in
          sized         \* the last result of size()

vars == <<head, tail, seq, data, pc, pos, pushes, out, sized>>

\* slots_[pos & (N - 1)]
SlotOf(ticket) == ticket % N

Init == /\ head = 0
        /\ tail = 0
        /\ seq = [i \in Slots |-> i]
        /\ data = [i \in Slots |-> NoItem]
        /\ pc = [t \in Threads |-> "idle"]
        /\ pos = [t \in Threads |-> 0]
        /\ pushes = [p \in Producers |-> 0]
        /\ out = [c \in Consumers |-> NoItem]
        /\ sized = [o \in Observers |-> 0]

Goto(t, where) == pc' = [pc EXCEPT ![t] = where]

-----------------------------------------------------------------------------
(* try_push *)

PushCall(p) ==
    /\ pc[p] = "idle"
    /\ pushes[p] < MaxPushes[p]
    /\ pushes' = [pushes EXCEPT ![p] = @ + 1]
    /\ pos' = [pos EXCEPT ![p] = head]
    /\ Goto(p, "slot")
    /\ UNCHANGED <<head, tail, seq, data, out, sized>>

\* mutant: full is not told from free
PushLoadSeq_IgnoresFull(p) ==
    /\ pc[p] = "slot"
    /\ LET diff == seq[SlotOf(pos[p])] - pos[p]
       IN  \/ diff <= 0 /\ Goto(p, "cas")
           \/ diff > 0 /\ Goto(p, "reload")
    /\ UNCHANGED <<head, tail, seq, data, pos, pushes, out, sized>>

\* diff = seq - pos decides: claim the ticket, report full, or start over
PushLoadSeq(p) ==
    /\ pc[p] = "slot"
    /\ LET diff == seq[SlotOf(pos[p])] - pos[p]
       IN  \/ diff = 0 /\ Goto(p, "cas")
           \/ diff < 0 /\ Goto(p, "idle")
           \/ diff > 0 /\ Goto(p, "reload")
    /\ UNCHANGED <<head, tail, seq, data, pos, pushes, out, sized>>

\* mutant: the ticket is not loaded again
PushReload_KeepsTicket(p) ==
    /\ pc[p] = "reload"
    /\ Goto(p, "slot")
    /\ UNCHANGED <<head, tail, seq, data, pos, pushes, out, sized>>

PushReload(p) ==
    /\ pc[p] = "reload"
    /\ pos' = [pos EXCEPT ![p] = head]
    /\ Goto(p, "slot")
    /\ UNCHANGED <<head, tail, seq, data, pushes, out, sized>>

\* mutant: the slot is published before it is written
PushClaim_PublishesEarly(p) ==
    /\ pc[p] = "cas"
    /\ head = pos[p]
    /\ head' = pos[p] + 1
    /\ seq' = [seq EXCEPT ![SlotOf(pos[p])] = pos[p] + 1]
    /\ Goto(p, "write")
    /\ UNCHANGED <<tail, data, pos, pushes, out, sized>>

PushClaim(p) ==
    /\ pc[p] = "cas"
    /\ head = pos[p]
    /\ head' = pos[p] + 1
    /\ Goto(p, "write")
    /\ UNCHANGED <<tail, seq, data, pos, pushes, out, sized>>

\* compare_exchange_weak may fail although head_ = pos; either way it reloads pos
PushClaimFails(p) ==
    /\ pc[p] = "cas"
    /\ pos' = [pos EXCEPT ![p] = head]
    /\ Goto(p, "slot")
    /\ UNCHANGED <<head, tail, seq, data, pushes, out, sized>>

PushWrite(p) ==
    /\ pc[p] = "write"
    /\ data' = [data EXCEPT ![SlotOf(pos[p])] = <<p, pushes[p]>>]
    /\ Goto(p, "publish")
    /\ UNCHANGED <<head, tail, seq, pos, pushes, out, sized>>

\* mutant: the sequence number is not stored
PushPublish_NoStore(p) ==
    /\ pc[p] = "publish"
    /\ Goto(p, "idle")
    /\ UNCHANGED <<head, tail, seq, data, pos, pushes, out, sized>>

PushPublish(p) ==
    /\ pc[p] = "publish"
    /\ seq' = [seq EXCEPT ![SlotOf(pos[p])] = pos[p] + 1]
    /\ Goto(p, "idle")
    /\ UNCHANGED <<head, tail, data, pos, pushes, out, sized>>

-----------------------------------------------------------------------------
(* try_pop *)

PopCall(c) ==
    /\ pc[c] = "idle"
    /\ pos' = [pos EXCEPT ![c] = tail]
    /\ Goto(c, "slot")
    /\ UNCHANGED <<head, tail, seq, data, pushes, out, sized>>

PopLoadSeq(c) ==
    /\ pc[c] = "slot"
    /\ LET diff == seq[SlotOf(pos[c])] - (pos[c] + 1)
       IN  \/ diff = 0 /\ Goto(c, "cas")
           \/ diff < 0 /\ Goto(c, "idle")
           \/ diff > 0 /\ Goto(c, "reload")
    /\ UNCHANGED <<head, tail, seq, data, pos, pushes, out, sized>>

PopReload(c) ==
    /\ pc[c] = "reload"
    /\ pos' = [pos EXCEPT ![c] = tail]
    /\ Goto(c, "slot")
    /\ UNCHANGED <<head, tail, seq, data, pushes, out, sized>>

\* mutant: the slot is handed back before it is read
PopClaim_FreesEarly(c) ==
    /\ pc[c] = "cas"
    /\ tail = pos[c]
    /\ tail' = pos[c] + 1
    /\ seq' = [seq EXCEPT ![SlotOf(pos[c])] = pos[c] + N]
    /\ Goto(c, "read")
    /\ UNCHANGED <<head, data, pos, pushes, out, sized>>

PopClaim(c) ==
    /\ pc[c] = "cas"
    /\ tail = pos[c]
    /\ tail' = pos[c] + 1
    /\ Goto(c, "read")
    /\ UNCHANGED <<head, seq, data, pos, pushes, out, sized>>

PopClaimFails(c) ==
    /\ pc[c] = "cas"
    /\ pos' = [pos EXCEPT ![c] = tail]
    /\ Goto(c, "slot")
    /\ UNCHANGED <<head, tail, seq, data, pushes, out, sized>>

PopRead(c) ==
    /\ pc[c] = "read"
    /\ out' = [out EXCEPT ![c] = data[SlotOf(pos[c])]]
    /\ Goto(c, "free")
    /\ UNCHANGED <<head, tail, seq, data, pos, pushes, sized>>

PopFree(c) ==
    /\ pc[c] = "free"
    /\ seq' = [seq EXCEPT ![SlotOf(pos[c])] = pos[c] + N]
    /\ Goto(c, "idle")
    /\ UNCHANGED <<head, tail, data, pos, pushes, out, sized>>

-----------------------------------------------------------------------------
(* size(): head_ is loaded first, tail_ second, and h - t is unsigned *)

SizeLoadHead(o) ==
    /\ pc[o] = "idle"
    /\ pos' = [pos EXCEPT ![o] = head]
    /\ Goto(o, "tail")
    /\ UNCHANGED <<head, tail, seq, data, pushes, out, sized>>

\* mutant: the operands are swapped
SizeLoadTail_Swapped(o) ==
    /\ pc[o] = "tail"
    /\ sized' = [sized EXCEPT ![o] = (tail - pos[o]) % WordMod]
    /\ pos' = [pos EXCEPT ![o] = 0]
    /\ Goto(o, "idle")
    /\ UNCHANGED <<head, tail, seq, data, pushes, out>>

SizeLoadTail(o) ==
    /\ pc[o] = "tail"
    /\ sized' = [sized EXCEPT ![o] = (pos[o] - tail) % WordMod]
    /\ pos' = [pos EXCEPT ![o] = 0]
    /\ Goto(o, "idle")
    /\ UNCHANGED <<head, tail, seq, data, pushes, out>>

-----------------------------------------------------------------------------

Push(p) == \/ PushCall(p)  \/ PushLoadSeq(p)    \/ PushReload(p)
           \/ PushClaim(p) \/ PushClaimFails(p) \/ PushWrite(p) \/ PushPublish(p)

Pop(c) == \/ PopCall(c)  \/ PopLoadSeq(c)    \/ PopReload(c)
          \/ PopClaim(c) \/ PopClaimFails(c) \/ PopRead(c) \/ PopFree(c)

Size(o) == SizeLoadHead(o) \/ SizeLoadTail(o)

Next == \/ \E p \in Producers : Push(p)
        \/ \E c \in Consumers : Pop(c)
        \/ \E o \in Observers : Size(o)

Spec == Init /\ [][Next]_vars

(* The scheduler runs every thread that is inside a call, consumers poll   *)
(* for ever (StrategyEngine::run, OrderGateway::run, ZMQBridge::run), and  *)
(* a compare-exchange that is retried while the expected value is there    *)
(* succeeds at last.                                                       *)
Fairness == /\ \A p \in Producers : /\ WF_vars(pc[p] # "idle" /\ Push(p))
                                    /\ SF_vars(PushClaim(p))
            /\ \A c \in Consumers : /\ WF_vars(Pop(c))
                                    /\ SF_vars(PopClaim(c))

FairSpec == Spec /\ Fairness

-----------------------------------------------------------------------------
(* Types *)

ThreadPC == {"idle", "slot", "reload", "cas", "write", "publish",
             "read", "free", "tail"}

(* Every variable holds a value the code could store there; a producer is  *)
(* never at a step of try_pop and the other way round.                     *)
TypeOK == /\ head \in Nat
          /\ tail \in Nat
          /\ seq \in [Slots -> Nat]
          /\ data \in [Slots -> Item \cup {NoItem}]
          /\ pc \in [Threads -> ThreadPC]
          /\ \A p \in Producers : pc[p] \notin {"read", "free", "tail"}
          /\ \A c \in Consumers : pc[c] \notin {"write", "publish", "tail"}
          /\ \A o \in Observers : pc[o] \in {"idle", "tail"}
          /\ pos \in [Threads -> Nat]
          /\ pushes \in [Producers -> Nat] /\ \A p \in Producers : pushes[p] <= MaxPushes[p]
          /\ \A p \in Producers : pc[p] # "idle" => pushes[p] > 0
          /\ out \in [Consumers -> Item \cup {NoItem}]
          /\ sized \in [Observers -> 0 .. WordMod - 1]

-----------------------------------------------------------------------------
(* Safety *)

\* p owns the slot of its ticket from its compare-exchange to the publishing store
Writing(p) == pc[p] \in {"write", "publish"}
Reading(c) == pc[c] \in {"read", "free"}
Accessing(t) == Writing(t) \/ Reading(t)

(* The memcpy of lines 65 and 91 never runs on a slot another thread is    *)
(* copying into or out of: the payload copies are free of data races.      *)
ExclusiveSlot ==
    \A s, t \in Threads :
        s # t /\ Accessing(s) /\ Accessing(t) => SlotOf(pos[s]) # SlotOf(pos[t])

(* Producers never run a lap ahead of the consumers and consumers never    *)
(* run ahead of the producers, even between a claim and its store.         *)
WithinCapacity == tail <= head /\ head <= tail + N

(* size() loads head_ before tail_, so a stale result errs on the low      *)
(* side: it exceeds the capacity only when pops have overtaken the loaded  *)
(* head and the unsigned difference has wrapped.                           *)
SizeErrsLow ==
    \A o \in Observers : sized[o] <= N \/ sized[o] >= WordMod - tail

-----------------------------------------------------------------------------
(* The inductive invariant behind ExclusiveSlot and WithinCapacity.  The   *)
(* N tickets from tail on name every slot once: those below head have been *)
(* claimed by a producer, the others wait for one, and the sequence number *)
(* of the slot tells how far the ticket has come.                          *)

TicketInv ==
    /\ \A t \in tail .. head - 1 : seq[SlotOf(t)] \in {t, t + 1}
    /\ \A t \in head .. tail + N - 1 : seq[SlotOf(t)] \in {t, t - N + 1}

WriterInv ==
    /\ \A p \in Producers : Writing(p) =>
          tail <= pos[p] /\ pos[p] < head /\ seq[SlotOf(pos[p])] = pos[p]
    /\ \A p, r \in Producers :
          p # r /\ Writing(p) /\ Writing(r) => pos[p] # pos[r]

ReaderInv ==
    /\ \A c \in Consumers : Reading(c) =>
          pos[c] < tail /\ head <= pos[c] + N /\ seq[SlotOf(pos[c])] = pos[c] + 1
    /\ \A c, d \in Consumers :
          c # d /\ Reading(c) /\ Reading(d) => pos[c] # pos[d]

\* sequence numbers only grow, so what a thread saw before its compare-exchange bounds them
ClaimInv ==
    /\ \A p \in Producers : pc[p] = "cas" => seq[SlotOf(pos[p])] >= pos[p]
    /\ \A c \in Consumers : pc[c] = "cas" => seq[SlotOf(pos[c])] >= pos[c] + 1

(* The sequence number of every slot and the tickets threads hold agree    *)
(* at every step of every thread (for N > 1).                              *)
SlotProtocol == WithinCapacity /\ TicketInv /\ WriterInv /\ ReaderInv /\ ClaimInv

-----------------------------------------------------------------------------
(* The queue implements the bounded FIFO.  A push takes effect at its      *)
(* compare-exchange, so the item of a ticket is in the slot once it is     *)
(* published and in the hands of the producer before.                      *)

ItemOf(ticket) ==
    IF seq[SlotOf(ticket)] = ticket + 1
    THEN data[SlotOf(ticket)]
    ELSE LET p == CHOOSE x \in Producers : Writing(x) /\ pos[x] = ticket
         IN  <<p, pushes[p]>>

\* the items in the queue, and what each consumer has popped last
Contents == [i \in 1 .. head - tail |-> ItemOf(tail + i - 1)]
Got == [c \in Consumers |-> IF pc[c] = "read" THEN data[SlotOf(pos[c])] ELSE out[c]]

FIFO == INSTANCE BoundedFIFO
          WITH Capacity <- N, Consumer <- Consumers, q <- Contents, got <- Got

(* No item is lost, duplicated, overwritten or delivered out of order,     *)
(* whatever the interleaving of try_push and try_pop.                      *)
RefinesFIFO == FIFO!Spec

-----------------------------------------------------------------------------
(* Liveness *)

(* Every call of try_push and try_pop returns: no thread spins for ever.   *)
CallsReturn == \A t \in Producers \cup Consumers : []<>(pc[t] = "idle")

(* Every item whose push took effect is popped: pushes being bounded here, *)
(* consumers that keep polling drain the queue.                            *)
EventuallyPopped == []<>(tail = head)
=============================================================================
