------------------------- MODULE MPMCQueue_proofs -------------------------
(***************************************************************************)
(* Machine-checked safety of MPMCQueue for every capacity N > 1, every set *)
(* of threads and every number of calls.                                   *)
(***************************************************************************)
EXTENDS MPMCQueue, TLAPS

-----------------------------------------------------------------------------
(* Arithmetic of slot indices *)

(* Division with remainder. *)
LEMMA ModBasics ==
    ASSUME NEW n \in Nat \ {0}, NEW a \in Nat
    PROVE  /\ a % n \in 0 .. n - 1
           /\ a \div n \in Nat
           /\ a = n * (a \div n) + (a % n)
OBVIOUS

(* The only multiple of n closer to zero than n is zero. *)
LEMMA SmallMultiple ==
    ASSUME NEW n \in Nat \ {0}, NEW k \in Int, n * k > -n, n * k < n
    PROVE  k = 0
<1>1. CASE k <= -1 BY <1>1
<1>2. CASE k >= 1 BY <1>2
<1> QED BY <1>1, <1>2

(* Quotient and remainder are unique. *)
LEMMA UniqueResidue ==
    ASSUME NEW n \in Nat \ {0}, NEW q1 \in Int, NEW r1 \in 0 .. n - 1,
           NEW q2 \in Int, NEW r2 \in 0 .. n - 1, n * q1 + r1 = n * q2 + r2
    PROVE  r1 = r2
<1>1. n * (q1 - q2) = n * q1 - n * q2 OBVIOUS
<1>2. n * q1 \in Int /\ n * q2 \in Int /\ n * (q1 - q2) \in Int OBVIOUS
<1>3. n * (q1 - q2) = r2 - r1 BY <1>1, <1>2
<1>4. n * (q1 - q2) > -n /\ n * (q1 - q2) < n BY <1>3
<1>5. q1 - q2 = 0 BY <1>4, SmallMultiple
<1>6. q1 = q2 BY <1>5
<1> QED BY <1>6

(* A ticket and the one N later use the same slot. *)
LEMMA SlotShift ==
    ASSUME NEW a \in Nat
    PROVE  SlotOf(a + N) = SlotOf(a)
<1> DEFINE qa == a \div N
           ra == a % N
           b == a + N
           qb == b \div N
           rb == b % N
<1>1. N \in Nat \ {0} BY NAssumption
<1>2. b \in Nat BY <1>1
<1>3. qa \in Nat /\ ra \in 0 .. N - 1 /\ a = N * qa + ra BY <1>1, ModBasics
<1> HIDE DEF b, qa, ra
<1>4. qb \in Nat /\ rb \in 0 .. N - 1 /\ b = N * qb + rb BY <1>1, <1>2, ModBasics
<1> HIDE DEF qb, rb
<1>5. N * (qa + 1) = N * qa + N BY <1>1, <1>3
<1>6. b = a + N BY DEF b
<1>7. N * (qa + 1) + ra = N * qb + rb BY <1>1, <1>3, <1>4, <1>5, <1>6
<1>8. qa + 1 \in Int /\ qb \in Int BY <1>3, <1>4
<1>9. ra = rb BY <1>1, <1>3, <1>4, <1>7, <1>8, UniqueResidue
<1> QED BY <1>9 DEF SlotOf, ra, rb, b

(* Tickets less than N apart use different slots. *)
LEMMA SlotDistinct ==
    ASSUME NEW a \in Nat, NEW b \in Nat, a < b, b < a + N
    PROVE  SlotOf(a) # SlotOf(b)
<1> SUFFICES ASSUME a % N = b % N PROVE FALSE BY DEF SlotOf
<1> DEFINE qa == a \div N
           qb == b \div N
           r == a % N
<1>0. N \in Nat \ {0} BY NAssumption
<1>1. qa \in Int /\ qb \in Int /\ r \in Int BY <1>0, ModBasics
<1>2. a = N * qa + r BY <1>0, ModBasics
<1>3. b = N * qb + r BY <1>0, ModBasics
<1> HIDE DEF qa, qb, r
<1>4. N * (qb - qa) = N * qb - N * qa BY <1>0, <1>1
<1>5. N * (qb - qa) = b - a BY <1>0, <1>1, <1>2, <1>3, <1>4
<1>6. qb - qa = 0 BY <1>0, <1>5, <1>1, SmallMultiple
<1>7. qa = qb BY <1>6, <1>1
<1> QED BY <1>7, <1>2, <1>3

(* The same, whichever of the two tickets is the older. *)
LEMMA SlotsApart ==
    ASSUME NEW a \in Nat, NEW b \in Nat, a # b, a < b + N, b < a + N
    PROVE  SlotOf(a) # SlotOf(b)
<1>1. CASE a < b BY <1>1, SlotDistinct
<1>2. CASE b < a BY <1>2, SlotDistinct
<1> QED BY <1>1, <1>2

(* Every ticket has a slot. *)
LEMMA SlotType ==
    ASSUME NEW a \in Nat
    PROVE  SlotOf(a) \in Slots
BY NAssumption, ModBasics DEF SlotOf, Slots

-----------------------------------------------------------------------------
(* Type correctness *)

(* The constructor stores values of the right types. *)
LEMMA TypeInit == Init => TypeOK
BY NAssumption, ThreadAssumption, BoundAssumption, SlotType
   DEF Init, TypeOK, Threads, Slots, ThreadPC, Item, NoItem

(* A step of a producer inside or at the start of try_push keeps the types. *)
LEMMA TypePush == ASSUME TypeOK, NEW p \in Producers, Push(p) PROVE TypeOK'
<1> USE ThreadAssumption, NAssumption, BoundAssumption DEF TypeOK, Threads, ThreadPC, Goto
<1>0. p \in Threads /\ p \notin Consumers /\ p \notin Observers OBVIOUS
<1>1. CASE PushCall(p) BY <1>0, <1>1 DEF PushCall
<1>2. CASE PushLoadSeq(p) BY <1>0, <1>2 DEF PushLoadSeq
<1>3. CASE PushReload(p) BY <1>0, <1>3 DEF PushReload
<1>4. CASE PushClaim(p) BY <1>0, <1>4 DEF PushClaim
<1>5. CASE PushClaimFails(p) BY <1>0, <1>5 DEF PushClaimFails
<1>6. CASE PushWrite(p)
  <2>1. <<p, pushes[p]>> \in Item BY <1>0, <1>6 DEF PushWrite, Item
  <2>2. SlotOf(pos[p]) \in Slots BY <1>0, SlotType
  <2>3. data' \in [Slots -> Item \cup {NoItem}]
        BY <2>1, <2>2, <1>6 DEF PushWrite
  <2> QED BY <1>0, <1>6, <2>3 DEF PushWrite
<1>7. CASE PushPublish(p)
  <2>1. SlotOf(pos[p]) \in Slots BY <1>0, SlotType
  <2>2. pos[p] + 1 \in Nat BY <1>0
  <2> QED BY <1>0, <1>7, <2>1, <2>2 DEF PushPublish
<1> QED BY <1>1, <1>2, <1>3, <1>4, <1>5, <1>6, <1>7 DEF Push

(* A step of a consumer keeps the types. *)
LEMMA TypePop == ASSUME TypeOK, NEW c \in Consumers, Pop(c) PROVE TypeOK'
<1> USE ThreadAssumption, NAssumption, BoundAssumption DEF TypeOK, Threads, ThreadPC, Goto
<1>0. c \in Threads /\ c \notin Producers /\ c \notin Observers OBVIOUS
<1>1. CASE PopCall(c) BY <1>0, <1>1 DEF PopCall
<1>2. CASE PopLoadSeq(c) BY <1>0, <1>2 DEF PopLoadSeq
<1>3. CASE PopReload(c) BY <1>0, <1>3 DEF PopReload
<1>4. CASE PopClaim(c) BY <1>0, <1>4 DEF PopClaim
<1>5. CASE PopClaimFails(c) BY <1>0, <1>5 DEF PopClaimFails
<1>6. CASE PopRead(c)
  <2>1. data[SlotOf(pos[c])] \in Item \cup {NoItem} BY <1>0, SlotType
  <2> QED BY <1>0, <1>6, <2>1 DEF PopRead
<1>7. CASE PopFree(c)
  <2>1. SlotOf(pos[c]) \in Slots BY <1>0, SlotType
  <2>2. pos[c] + N \in Nat BY <1>0
  <2> QED BY <1>0, <1>7, <2>1, <2>2 DEF PopFree
<1> QED BY <1>1, <1>2, <1>3, <1>4, <1>5, <1>6, <1>7 DEF Pop

(* A step of size() keeps the types. *)
LEMMA TypeSize == ASSUME TypeOK, NEW o \in Observers, Size(o) PROVE TypeOK'
<1> USE ThreadAssumption, NAssumption, BoundAssumption DEF TypeOK, Threads, ThreadPC, Goto
<1>0. o \in Threads /\ o \notin Producers /\ o \notin Consumers OBVIOUS
<1>1. CASE SizeLoadHead(o) BY <1>0, <1>1 DEF SizeLoadHead
<1>2. CASE SizeLoadTail(o)
  <2>1. pos[o] - tail \in Int BY <1>0
  <2>2. (pos[o] - tail) % WordMod \in 0 .. WordMod - 1 BY <2>1
  <2> QED BY <1>0, <1>2, <2>2 DEF SizeLoadTail
<1> QED BY <1>1, <1>2 DEF Size

(* Every step of every thread keeps the types. *)
LEMMA TypeStep == TypeOK /\ [Next]_vars => TypeOK'
<1> SUFFICES ASSUME TypeOK, [Next]_vars PROVE TypeOK' OBVIOUS
<1>1. CASE UNCHANGED vars BY <1>1 DEF TypeOK, vars
<1>2. CASE Next BY <1>2, TypePush, TypePop, TypeSize DEF Next
<1> QED BY <1>1, <1>2

(* Every variable of the queue keeps its type: in particular an item read  *)
(* from a slot is one that some producer pushed.                           *)
THEOREM TypeCorrect == Spec => []TypeOK
BY TypeInit, TypeStep, PTL DEF Spec

-----------------------------------------------------------------------------
(* The slot protocol *)

(* The constructor establishes the protocol: slot i waits for ticket i. *)
LEMMA ProtocolInit == ASSUME N > 1, Init PROVE SlotProtocol
<1> USE NAssumption
<1>1. WithinCapacity BY DEF Init, WithinCapacity
<1>2. TicketInv
  <2>1. \A t \in 0 .. N - 1 : SlotOf(t) = t BY DEF SlotOf
  <2> QED BY <2>1 DEF Init, TicketInv, Slots
<1>3. WriterInv /\ ReaderInv /\ ClaimInv
      BY DEF Init, WriterInv, ReaderInv, ClaimInv, Writing, Reading, Threads
<1> QED BY <1>1, <1>2, <1>3 DEF SlotProtocol

(* A step that leaves the tickets and the sequence numbers alone, and      *)
(* moves one thread to a place where it owns no slot and has no expectation *)
(* about one, keeps the protocol.                                          *)
LEMMA LocalStep ==
    ASSUME TypeOK, SlotProtocol, NEW t \in Threads, NEW where,
           where \notin {"cas", "write", "publish", "read", "free"},
           pc' = [pc EXCEPT ![t] = where],
           \A s \in Threads \ {t} : pos'[s] = pos[s],
           UNCHANGED <<head, tail, seq>>
    PROVE  SlotProtocol'
<1>1. WithinCapacity' /\ TicketInv'
      BY DEF SlotProtocol, WithinCapacity, TicketInv
<1>2. WriterInv' BY DEF SlotProtocol, WriterInv, Writing, TypeOK, Threads
<1>3. ReaderInv' BY DEF SlotProtocol, ReaderInv, Reading, TypeOK, Threads
<1>4. ClaimInv'
  <2>1. \A s \in Threads : pc'[s] = "cas" => s # t /\ pc[s] = "cas"
        BY DEF TypeOK
  <2> QED BY <2>1 DEF SlotProtocol, ClaimInv, Threads
<1> QED BY <1>1, <1>2, <1>3, <1>4 DEF SlotProtocol

(* Two owned tickets that differ are in different slots. *)
LEMMA OwnersApart ==
    ASSUME TypeOK, SlotProtocol
    PROVE  /\ \A p, r \in Producers : p # r /\ Writing(p) /\ Writing(r)
                  => SlotOf(pos[p]) # SlotOf(pos[r])
           /\ \A c, d \in Consumers : c # d /\ Reading(c) /\ Reading(d)
                  => SlotOf(pos[c]) # SlotOf(pos[d])
           /\ \A p \in Producers, c \in Consumers : Writing(p) /\ Reading(c)
                  => SlotOf(pos[p]) # SlotOf(pos[c])
<1> USE NAssumption DEF SlotProtocol, TypeOK, Threads
<1>1. ASSUME NEW p \in Producers, NEW r \in Producers, p # r, Writing(p), Writing(r)
      PROVE  SlotOf(pos[p]) # SlotOf(pos[r])
  <2>1. /\ pos[p] \in Nat /\ pos[r] \in Nat /\ pos[p] # pos[r]
        /\ pos[p] < pos[r] + N /\ pos[r] < pos[p] + N
        BY <1>1 DEF WriterInv, WithinCapacity
  <2> QED BY <2>1, SlotsApart
<1>2. ASSUME NEW c \in Consumers, NEW d \in Consumers, c # d, Reading(c), Reading(d)
      PROVE  SlotOf(pos[c]) # SlotOf(pos[d])
  <2>1. /\ pos[c] \in Nat /\ pos[d] \in Nat /\ pos[c] # pos[d]
        /\ pos[c] < pos[d] + N /\ pos[d] < pos[c] + N
        BY <1>2 DEF ReaderInv, WithinCapacity
  <2> QED BY <2>1, SlotsApart
<1>3. ASSUME NEW p \in Producers, NEW c \in Consumers, Writing(p), Reading(c)
      PROVE  SlotOf(pos[p]) # SlotOf(pos[c])
  <2>1. /\ pos[p] \in Nat /\ pos[c] \in Nat
        /\ pos[c] < pos[p] /\ pos[p] < pos[c] + N /\ pos[c] < pos[p] + N
        BY <1>3 DEF WriterInv, ReaderInv
  <2> QED BY <2>1, SlotsApart
<1> QED BY <1>1, <1>2, <1>3

(* A producer whose compare-exchange succeeds finds the slot free, and no  *)
(* other thread inside it.                                                 *)
LEMMA ClaimFindsFree ==
    ASSUME N > 1, TypeOK, SlotProtocol, NEW p \in Producers, PushClaim(p)
    PROVE  /\ head < tail + N
           /\ seq[SlotOf(head)] = head
           /\ \A c \in Consumers : Reading(c) => head < pos[c] + N
<1> USE NAssumption DEF TypeOK, Threads
<1>1. /\ head = pos[p] /\ seq[SlotOf(head)] >= head
      /\ tail <= head /\ head <= tail + N
      BY DEF PushClaim, SlotProtocol, ClaimInv, WithinCapacity
<1>2. head # tail + N
  <2> SUFFICES ASSUME head = tail + N PROVE FALSE OBVIOUS
  <2>1. SlotOf(head) = SlotOf(tail) BY SlotShift
  <2>2. seq[SlotOf(tail)] \in {tail, tail + 1} BY DEF SlotProtocol, TicketInv
  <2> QED BY <1>1, <2>1, <2>2
<1>3. seq[SlotOf(head)] \in {head, head - N + 1}
      BY <1>1, <1>2 DEF SlotProtocol, TicketInv
<1>4. ASSUME NEW c \in Consumers, Reading(c), ~(head < pos[c] + N) PROVE FALSE
  <2>1. head = pos[c] + N /\ pos[c] \in Nat /\ seq[SlotOf(pos[c])] = pos[c] + 1
        BY <1>4 DEF SlotProtocol, ReaderInv
  <2>2. SlotOf(head) = SlotOf(pos[c]) BY <2>1, SlotShift
  <2> QED BY <1>1, <2>1, <2>2
<1> QED BY <1>1, <1>2, <1>3, <1>4

(* A consumer whose compare-exchange succeeds finds a published item, and  *)
(* no producer inside the slot.                                            *)
LEMMA ClaimFindsPublished ==
    ASSUME N > 1, TypeOK, SlotProtocol, NEW c \in Consumers, PopClaim(c)
    PROVE  /\ tail < head
           /\ seq[SlotOf(tail)] = tail + 1
           /\ \A p \in Producers : Writing(p) => tail < pos[p]
<1> USE NAssumption DEF TypeOK, Threads
<1>1. /\ tail = pos[c] /\ seq[SlotOf(tail)] >= tail + 1
      /\ tail <= head /\ head <= tail + N
      BY DEF PopClaim, SlotProtocol, ClaimInv, WithinCapacity
<1>2. tail # head
  <2> SUFFICES ASSUME tail = head PROVE FALSE OBVIOUS
  <2>1. seq[SlotOf(head)] \in {head, head - N + 1} BY DEF SlotProtocol, TicketInv
  <2> QED BY <1>1, <2>1
<1>3. seq[SlotOf(tail)] \in {tail, tail + 1}
      BY <1>1, <1>2 DEF SlotProtocol, TicketInv
<1>4. ASSUME NEW p \in Producers, Writing(p), ~(tail < pos[p]) PROVE FALSE
      BY <1>1, <1>4 DEF SlotProtocol, WriterInv
<1> QED BY <1>1, <1>2, <1>3, <1>4

(* try_push keeps the protocol. *)
LEMMA ProtocolPush ==
    ASSUME N > 1, TypeOK, SlotProtocol, NEW p \in Producers, Push(p)
    PROVE  SlotProtocol'
<1> USE NAssumption, ThreadAssumption
<1>0. p \in Threads /\ p \notin Consumers BY DEF Threads
<1>1. CASE PushCall(p) BY <1>0, <1>1, LocalStep DEF PushCall, Goto, TypeOK
<1>2. CASE PushLoadSeq(p)
  <2>1. CASE pc' = [pc EXCEPT ![p] = "cas"] /\ seq[SlotOf(pos[p])] - pos[p] = 0
    <3>1. UNCHANGED <<head, tail, seq, pos>> BY <1>2 DEF PushLoadSeq
    <3>2. WithinCapacity' /\ TicketInv' BY <3>1 DEF SlotProtocol, WithinCapacity, TicketInv
    <3>3. \A t \in Threads : t # p => pc'[t] = pc[t] BY <2>1 DEF TypeOK
    <3>4. pc'[p] = "cas" BY <2>1, <1>0 DEF TypeOK
    <3>5. WriterInv' BY <3>1, <3>3, <3>4 DEF SlotProtocol, WriterInv, Writing, Threads
    <3>6. ReaderInv' BY <3>1, <3>3, <3>4, <1>0 DEF SlotProtocol, ReaderInv, Reading, Threads
    <3>7. seq[SlotOf(pos[p])] >= pos[p] BY <2>1, <1>0, SlotType DEF TypeOK
    <3>8. ClaimInv' BY <3>1, <3>3, <3>4, <3>7, <1>0 DEF SlotProtocol, ClaimInv, Threads
    <3> QED BY <3>2, <3>5, <3>6, <3>8 DEF SlotProtocol
  <2>2. CASE pc' = [pc EXCEPT ![p] = "idle"] \/ pc' = [pc EXCEPT ![p] = "reload"]
        BY <1>0, <1>2, <2>2, LocalStep DEF PushLoadSeq
  <2> QED BY <1>2, <2>1, <2>2 DEF PushLoadSeq, Goto
<1>3. CASE PushReload(p) BY <1>0, <1>3, LocalStep DEF PushReload, Goto, TypeOK
<1>4. CASE PushClaim(p)
  <2>0. /\ head' = head + 1 /\ pos[p] = head /\ pc' = [pc EXCEPT ![p] = "write"]
        /\ UNCHANGED <<tail, seq, pos>>
        BY <1>4 DEF PushClaim, Goto
  <2>1. /\ head < tail + N /\ seq[SlotOf(head)] = head
        /\ \A c \in Consumers : Reading(c) => head < pos[c] + N
        BY <1>4, ClaimFindsFree
  <2>2. WithinCapacity' BY <2>0, <2>1 DEF SlotProtocol, WithinCapacity, TypeOK
  <2>3. TicketInv' BY <2>0, <2>1 DEF SlotProtocol, TicketInv, WithinCapacity, TypeOK
  <2>4. \A t \in Threads : t # p => pc'[t] = pc[t] BY <2>0 DEF TypeOK
  <2>5. pc'[p] = "write" BY <2>0, <1>0 DEF TypeOK
  <2>6. WriterInv'
        BY <2>0, <2>1, <2>4, <2>5
        DEF SlotProtocol, WriterInv, WithinCapacity, Writing, Threads, TypeOK
  <2>7. ReaderInv'
        BY <1>0, <2>0, <2>1, <2>4, <2>5 DEF SlotProtocol, ReaderInv, Reading, Threads, TypeOK
  <2>8. ClaimInv' BY <1>0, <2>0, <2>4, <2>5 DEF SlotProtocol, ClaimInv, Threads
  <2> QED BY <2>2, <2>3, <2>6, <2>7, <2>8 DEF SlotProtocol
<1>5. CASE PushClaimFails(p) BY <1>0, <1>5, LocalStep DEF PushClaimFails, Goto, TypeOK
<1>6. CASE PushWrite(p)
  <2>0. pc[p] = "write" /\ pc' = [pc EXCEPT ![p] = "publish"] /\ UNCHANGED <<head, tail, seq, pos>>
        BY <1>6 DEF PushWrite, Goto
  <2>1. \A t \in Threads : t # p => pc'[t] = pc[t] BY <2>0 DEF TypeOK
  <2>2. pc'[p] = "publish" BY <2>0, <1>0 DEF TypeOK
  <2>3. WithinCapacity' /\ TicketInv' BY <2>0 DEF SlotProtocol, WithinCapacity, TicketInv
  <2>4. WriterInv' BY <2>0, <2>1, <2>2 DEF SlotProtocol, WriterInv, Writing, Threads
  <2>5. ReaderInv' BY <1>0, <2>0, <2>1, <2>2 DEF SlotProtocol, ReaderInv, Reading, Threads
  <2>6. ClaimInv' BY <1>0, <2>0, <2>1, <2>2 DEF SlotProtocol, ClaimInv, Threads
  <2> QED BY <2>3, <2>4, <2>5, <2>6 DEF SlotProtocol
<1>7. CASE PushPublish(p)
  <2> DEFINE k == SlotOf(pos[p])
  <2>0. /\ Writing(p) /\ pc' = [pc EXCEPT ![p] = "idle"]
        /\ seq' = [seq EXCEPT ![k] = pos[p] + 1] /\ UNCHANGED <<head, tail, pos>>
        BY <1>7 DEF PushPublish, Goto, Writing
  <2>1. pos[p] \in Nat /\ k \in Slots BY <1>0, SlotType DEF TypeOK
  <2>2. /\ tail <= pos[p] /\ pos[p] < head /\ seq[k] = pos[p]
        BY <2>0 DEF SlotProtocol, WriterInv
  <2>3. seq'[k] = pos[p] + 1 /\ \A i \in Slots : i # k => seq'[i] = seq[i]
        BY <2>0, <2>1 DEF TypeOK
  <2>4. \A t \in Threads : t # p => pc'[t] = pc[t] BY <2>0 DEF TypeOK
  <2>5. pc'[p] = "idle" BY <2>0, <1>0 DEF TypeOK
  <2>6. WithinCapacity' BY <2>0 DEF SlotProtocol, WithinCapacity
  <2>7. TicketInv'
    <3>1. ASSUME NEW t \in Nat, tail <= t, t < tail + N, t # pos[p]
          PROVE  seq'[SlotOf(t)] = seq[SlotOf(t)]
      <4>1. SlotOf(t) # k
            BY <2>1, <2>2, <3>1, SlotsApart DEF SlotProtocol, WithinCapacity, TypeOK
      <4> QED BY <4>1, <2>3, <3>1, SlotType
    <3> QED BY <2>0, <2>1, <2>2, <2>3, <3>1 DEF SlotProtocol, TicketInv, WithinCapacity, TypeOK
  <2>8. WriterInv'
    <3>1. ASSUME NEW r \in Producers, r # p, Writing(r)
          PROVE  seq'[SlotOf(pos[r])] = seq[SlotOf(pos[r])]
      <4>1. SlotOf(pos[r]) # k BY <2>0, <3>1, OwnersApart
      <4>2. SlotOf(pos[r]) \in Slots BY SlotType DEF TypeOK, Threads
      <4> QED BY <4>1, <4>2, <2>3
    <3> QED BY <2>0, <2>4, <2>5, <3>1 DEF SlotProtocol, WriterInv, Writing, Threads
  <2>9. ReaderInv'
    <3>1. ASSUME NEW c \in Consumers, Reading(c)
          PROVE  seq'[SlotOf(pos[c])] = seq[SlotOf(pos[c])]
      <4>1. SlotOf(pos[c]) # k BY <2>0, <3>1, OwnersApart
      <4>2. SlotOf(pos[c]) \in Slots BY SlotType DEF TypeOK, Threads
      <4> QED BY <4>1, <4>2, <2>3
    <3> QED BY <1>0, <2>0, <2>4, <2>5, <3>1 DEF SlotProtocol, ReaderInv, Reading, Threads
  <2>10. ClaimInv'
    <3>1. \A i \in Slots : seq'[i] >= seq[i] BY <2>1, <2>2, <2>3 DEF TypeOK
    <3>2. \A t \in Threads : SlotOf(pos[t]) \in Slots BY SlotType DEF TypeOK
    <3>3. seq' \in [Slots -> Nat] BY <2>0, <2>1 DEF TypeOK
    <3> QED BY <1>0, <2>0, <2>4, <2>5, <3>1, <3>2, <3>3 DEF SlotProtocol, ClaimInv, Threads, TypeOK
  <2> QED BY <2>6, <2>7, <2>8, <2>9, <2>10 DEF SlotProtocol
<1> QED BY <1>1, <1>2, <1>3, <1>4, <1>5, <1>6, <1>7 DEF Push

(* try_pop keeps the protocol. *)
LEMMA ProtocolPop ==
    ASSUME N > 1, TypeOK, SlotProtocol, NEW c \in Consumers, Pop(c)
    PROVE  SlotProtocol'
<1> USE NAssumption, ThreadAssumption
<1>0. c \in Threads /\ c \notin Producers BY DEF Threads
<1>1. CASE PopCall(c) BY <1>0, <1>1, LocalStep DEF PopCall, Goto, TypeOK
<1>2. CASE PopLoadSeq(c)
  <2>1. CASE pc' = [pc EXCEPT ![c] = "cas"] /\ seq[SlotOf(pos[c])] - (pos[c] + 1) = 0
    <3>1. UNCHANGED <<head, tail, seq, pos>> BY <1>2 DEF PopLoadSeq
    <3>2. WithinCapacity' /\ TicketInv' BY <3>1 DEF SlotProtocol, WithinCapacity, TicketInv
    <3>3. \A t \in Threads : t # c => pc'[t] = pc[t] BY <2>1 DEF TypeOK
    <3>4. pc'[c] = "cas" BY <2>1, <1>0 DEF TypeOK
    <3>5. WriterInv' BY <1>0, <3>1, <3>3, <3>4 DEF SlotProtocol, WriterInv, Writing, Threads
    <3>6. ReaderInv' BY <3>1, <3>3, <3>4 DEF SlotProtocol, ReaderInv, Reading, Threads
    <3>7. seq[SlotOf(pos[c])] >= pos[c] + 1 BY <2>1, <1>0, SlotType DEF TypeOK
    <3>8. ClaimInv' BY <3>1, <3>3, <3>4, <3>7, <1>0 DEF SlotProtocol, ClaimInv, Threads
    <3> QED BY <3>2, <3>5, <3>6, <3>8 DEF SlotProtocol
  <2>2. CASE pc' = [pc EXCEPT ![c] = "idle"] \/ pc' = [pc EXCEPT ![c] = "reload"]
        BY <1>0, <1>2, <2>2, LocalStep DEF PopLoadSeq
  <2> QED BY <1>2, <2>1, <2>2 DEF PopLoadSeq, Goto
<1>3. CASE PopReload(c) BY <1>0, <1>3, LocalStep DEF PopReload, Goto, TypeOK
<1>4. CASE PopClaim(c)
  <2>0. /\ tail' = tail + 1 /\ pos[c] = tail /\ pc' = [pc EXCEPT ![c] = "read"]
        /\ UNCHANGED <<head, seq, pos>>
        BY <1>4 DEF PopClaim, Goto
  <2>1. /\ tail < head /\ seq[SlotOf(tail)] = tail + 1
        /\ \A p \in Producers : Writing(p) => tail < pos[p]
        BY <1>4, ClaimFindsPublished
  <2>2. WithinCapacity' BY <2>0, <2>1 DEF SlotProtocol, WithinCapacity, TypeOK
  <2>3. TicketInv'
    <3>1. SlotOf(tail + N) = SlotOf(tail) BY SlotShift DEF TypeOK
    <3> QED BY <2>0, <2>1, <3>1 DEF SlotProtocol, TicketInv, WithinCapacity, TypeOK
  <2>4. \A t \in Threads : t # c => pc'[t] = pc[t] BY <2>0 DEF TypeOK
  <2>5. pc'[c] = "read" BY <2>0, <1>0 DEF TypeOK
  <2>6. WriterInv'
        BY <1>0, <2>0, <2>1, <2>4, <2>5 DEF SlotProtocol, WriterInv, Writing, Threads, TypeOK
  <2>7. ReaderInv'
        BY <2>0, <2>1, <2>4, <2>5
        DEF SlotProtocol, ReaderInv, WithinCapacity, Reading, Threads, TypeOK
  <2>8. ClaimInv' BY <1>0, <2>0, <2>4, <2>5 DEF SlotProtocol, ClaimInv, Threads
  <2> QED BY <2>2, <2>3, <2>6, <2>7, <2>8 DEF SlotProtocol
<1>5. CASE PopClaimFails(c) BY <1>0, <1>5, LocalStep DEF PopClaimFails, Goto, TypeOK
<1>6. CASE PopRead(c)
  <2>0. pc[c] = "read" /\ pc' = [pc EXCEPT ![c] = "free"] /\ UNCHANGED <<head, tail, seq, pos>>
        BY <1>6 DEF PopRead, Goto
  <2>1. \A t \in Threads : t # c => pc'[t] = pc[t] BY <2>0 DEF TypeOK
  <2>2. pc'[c] = "free" BY <2>0, <1>0 DEF TypeOK
  <2>3. WithinCapacity' /\ TicketInv' BY <2>0 DEF SlotProtocol, WithinCapacity, TicketInv
  <2>4. WriterInv' BY <1>0, <2>0, <2>1, <2>2 DEF SlotProtocol, WriterInv, Writing, Threads
  <2>5. ReaderInv' BY <2>0, <2>1, <2>2 DEF SlotProtocol, ReaderInv, Reading, Threads
  <2>6. ClaimInv' BY <1>0, <2>0, <2>1, <2>2 DEF SlotProtocol, ClaimInv, Threads
  <2> QED BY <2>3, <2>4, <2>5, <2>6 DEF SlotProtocol
<1>7. CASE PopFree(c)
  <2> DEFINE k == SlotOf(pos[c])
  <2>0. /\ Reading(c) /\ pc' = [pc EXCEPT ![c] = "idle"]
        /\ seq' = [seq EXCEPT ![k] = pos[c] + N] /\ UNCHANGED <<head, tail, pos>>
        BY <1>7 DEF PopFree, Goto, Reading
  <2>1. pos[c] \in Nat /\ k \in Slots BY <1>0, SlotType DEF TypeOK
  <2>2. /\ pos[c] < tail /\ head <= pos[c] + N /\ seq[k] = pos[c] + 1
        BY <2>0 DEF SlotProtocol, ReaderInv
  <2>3. seq'[k] = pos[c] + N /\ \A i \in Slots : i # k => seq'[i] = seq[i]
        BY <2>0, <2>1 DEF TypeOK
  <2>4. \A t \in Threads : t # c => pc'[t] = pc[t] BY <2>0 DEF TypeOK
  <2>5. pc'[c] = "idle" BY <2>0, <1>0 DEF TypeOK
  <2>6. WithinCapacity' BY <2>0 DEF SlotProtocol, WithinCapacity
  <2>7. TicketInv'
    <3>0. SlotOf(pos[c] + N) = k BY <2>1, SlotShift
    <3>1. ASSUME NEW t \in Nat, tail <= t, t < tail + N, t # pos[c] + N
          PROVE  seq'[SlotOf(t)] = seq[SlotOf(t)]
      <4>1. pos[c] + N \in Nat /\ t < (pos[c] + N) + N /\ pos[c] + N < t + N
            BY <2>1, <2>2, <3>1 DEF SlotProtocol, WithinCapacity, TypeOK
      <4>2. SlotOf(t) # SlotOf(pos[c] + N) BY <4>1, <3>1, SlotsApart
      <4> QED BY <4>2, <3>0, <2>3, <3>1, SlotType
    <3> QED BY <2>0, <2>1, <2>2, <2>3, <3>0, <3>1
            DEF SlotProtocol, TicketInv, WithinCapacity, TypeOK
  <2>8. WriterInv'
    <3>1. ASSUME NEW p \in Producers, Writing(p)
          PROVE  seq'[SlotOf(pos[p])] = seq[SlotOf(pos[p])]
      <4>1. SlotOf(pos[p]) # k BY <2>0, <3>1, OwnersApart
      <4>2. SlotOf(pos[p]) \in Slots BY SlotType DEF TypeOK, Threads
      <4> QED BY <4>1, <4>2, <2>3
    <3> QED BY <1>0, <2>0, <2>4, <2>5, <3>1 DEF SlotProtocol, WriterInv, Writing, Threads
  <2>9. ReaderInv'
    <3>1. ASSUME NEW d \in Consumers, d # c, Reading(d)
          PROVE  seq'[SlotOf(pos[d])] = seq[SlotOf(pos[d])]
      <4>1. SlotOf(pos[d]) # k BY <2>0, <3>1, OwnersApart
      <4>2. SlotOf(pos[d]) \in Slots BY SlotType DEF TypeOK, Threads
      <4> QED BY <4>1, <4>2, <2>3
    <3> QED BY <2>0, <2>4, <2>5, <3>1 DEF SlotProtocol, ReaderInv, Reading, Threads
  <2>10. ClaimInv'
    <3>1. \A i \in Slots : seq'[i] >= seq[i] BY <2>1, <2>2, <2>3 DEF TypeOK
    <3>2. \A t \in Threads : SlotOf(pos[t]) \in Slots BY SlotType DEF TypeOK
    <3>3. seq' \in [Slots -> Nat] BY <2>0, <2>1 DEF TypeOK
    <3> QED BY <1>0, <2>0, <2>4, <2>5, <3>1, <3>2, <3>3 DEF SlotProtocol, ClaimInv, Threads, TypeOK
  <2> QED BY <2>6, <2>7, <2>8, <2>9, <2>10 DEF SlotProtocol
<1> QED BY <1>1, <1>2, <1>3, <1>4, <1>5, <1>6, <1>7 DEF Pop

(* size() only loads, so it keeps the protocol. *)
LEMMA ProtocolSize ==
    ASSUME TypeOK, SlotProtocol, NEW o \in Observers, Size(o)
    PROVE  SlotProtocol'
<1>0. o \in Threads BY DEF Threads
<1>1. CASE SizeLoadHead(o) BY <1>0, <1>1, LocalStep DEF SizeLoadHead, Goto, TypeOK
<1>2. CASE SizeLoadTail(o) BY <1>0, <1>2, LocalStep DEF SizeLoadTail, Goto, TypeOK
<1> QED BY <1>1, <1>2 DEF Size

(* Every step of every thread keeps the protocol. *)
LEMMA ProtocolStep ==
    ASSUME N > 1, TypeOK, SlotProtocol, [Next]_vars
    PROVE  SlotProtocol'
<1>1. CASE UNCHANGED vars
      BY <1>1 DEF vars, SlotProtocol, WithinCapacity, TicketInv, WriterInv, ReaderInv,
                  ClaimInv, Writing, Reading
<1>2. CASE Next BY <1>2, ProtocolPush, ProtocolPop, ProtocolSize DEF Next
<1> QED BY <1>1, <1>2

(* Slot sequence numbers, head, tail and the tickets in the hands of       *)
(* threads agree in every reachable state, for every capacity above one.   *)
THEOREM ProtocolHolds == ASSUME N > 1 PROVE Spec => []SlotProtocol
<1>1. Init => SlotProtocol BY ProtocolInit
<1>2. TypeOK /\ SlotProtocol /\ [Next]_vars => SlotProtocol' BY ProtocolStep
<1> QED BY <1>1, <1>2, TypeCorrect, PTL DEF Spec

(* The payload copies of try_push and try_pop never overlap on a slot, for *)
(* every capacity above one and any number of producers and consumers.     *)
THEOREM DataRaceFree == ASSUME N > 1 PROVE Spec => []ExclusiveSlot
<1>1. TypeOK /\ SlotProtocol => ExclusiveSlot
  <2> SUFFICES ASSUME TypeOK, SlotProtocol, NEW s \in Threads, NEW t \in Threads,
                      s # t, Accessing(s), Accessing(t)
               PROVE  SlotOf(pos[s]) # SlotOf(pos[t])
      BY DEF ExclusiveSlot
  <2>1. \A x \in Threads : /\ Writing(x) => x \in Producers
                           /\ Reading(x) => x \in Consumers
        BY DEF TypeOK, Threads, Writing, Reading
  <2> QED BY <2>1, OwnersApart DEF Accessing
<1> QED BY <1>1, TypeCorrect, ProtocolHolds, PTL

-----------------------------------------------------------------------------
(* The queue is a FIFO *)

(* What the mapping to BoundedFIFO needs beyond the slot protocol: every   *)
(* claimed ticket that is not published is in the hands of a producer, and *)
(* what that producer has copied is still in the slot when it publishes.   *)
HeldInv ==
    /\ \A t \in tail .. head - 1 :
          seq[SlotOf(t)] = t => \E p \in Producers : Writing(p) /\ pos[p] = t
    /\ \A p \in Producers : pc[p] = "publish" => data[SlotOf(pos[p])] = <<p, pushes[p]>>

(* The item of a ticket is the data of its slot once it is published, and  *)
(* what its producer is pushing before.                                    *)
ItemsAre ==
    /\ \A t \in Nat : seq[SlotOf(t)] = t + 1 => ItemOf(t) = data[SlotOf(t)]
    /\ \A t \in Nat, p \in Producers : Writing(p) /\ pos[p] = t => ItemOf(t) = <<p, pushes[p]>>

(* Two producers never hold one ticket, so the choice in ItemOf is theirs. *)
LEMMA ItemValue == TypeOK /\ SlotProtocol => ItemsAre
<1> SUFFICES ASSUME TypeOK, SlotProtocol, NEW t \in Nat, NEW p \in Producers, Writing(p), pos[p] = t
             PROVE  ItemOf(t) = <<p, pushes[p]>>
    BY DEF ItemsAre, ItemOf
<1> DEFINE Holds(x) == Writing(x) /\ pos[x] = t
           q == CHOOSE x \in Producers : Holds(x)
<1>1. q \in Producers /\ Holds(q)
  <2>1. \E x \in Producers : Holds(x) OBVIOUS
  <2> HIDE DEF Holds
  <2> QED BY <2>1
<1>2. q = p BY <1>1 DEF SlotProtocol, WriterInv
<1>3. seq[SlotOf(t)] # t + 1 BY DEF SlotProtocol, WriterInv, TypeOK
<1>4. ItemOf(t) = <<q, pushes[q]>> BY <1>3 DEF ItemOf
<1> QED BY <1>2, <1>4

(* The same after a step. *)
LEMMA ItemValueNext == TypeOK' /\ SlotProtocol' => ItemsAre'
BY ItemValue, PTL

(* The slot of a ticket that waits to be popped is in nobody's hands but   *)
(* its own producer's.                                                     *)
LEMMA TicketsApart ==
    ASSUME TypeOK, SlotProtocol, NEW t \in Nat, tail <= t, t < head
    PROVE  /\ SlotOf(t) \in Slots
           /\ \A p \in Producers : Writing(p) /\ pos[p] # t => SlotOf(pos[p]) # SlotOf(t)
           /\ \A c \in Consumers : Reading(c) => SlotOf(pos[c]) # SlotOf(t)
<1> USE NAssumption
<1>1. ASSUME NEW p \in Producers, Writing(p), pos[p] # t PROVE SlotOf(pos[p]) # SlotOf(t)
  <2>1. pos[p] \in Nat /\ pos[p] < t + N /\ t < pos[p] + N
        BY <1>1 DEF SlotProtocol, WriterInv, WithinCapacity, TypeOK, Threads
  <2> QED BY <1>1, <2>1, SlotsApart
<1>2. ASSUME NEW c \in Consumers, Reading(c) PROVE SlotOf(pos[c]) # SlotOf(t)
  <2>1. pos[c] \in Nat /\ pos[c] # t /\ pos[c] < t + N /\ t < pos[c] + N
        BY <1>2 DEF SlotProtocol, ReaderInv, TypeOK, Threads
  <2> QED BY <2>1, SlotsApart
<1> QED BY <1>1, <1>2, SlotType

(* A step that moves no ticket, writes no slot and leaves every producer   *)
(* that holds a ticket alone keeps the items.                              *)
LEMMA ItemsStay ==
    ASSUME TypeOK, TypeOK', SlotProtocol, SlotProtocol', HeldInv,
           UNCHANGED <<head, tail, seq, data>>,
           \A p \in Producers : Writing(p) =>
               pc'[p] = pc[p] /\ pos'[p] = pos[p] /\ pushes'[p] = pushes[p],
           \A p \in Producers : Writing(p)' => Writing(p)
    PROVE  /\ HeldInv'
           /\ \A t \in tail .. head - 1 : ItemOf(t)' = ItemOf(t)
<1>1. \A p \in Producers : Writing(p) => Writing(p)' BY DEF Writing
<1>2. HeldInv'
  <2>1. \A t \in tail .. head - 1 :
          seq[SlotOf(t)] = t => \E p \in Producers : Writing(p)' /\ pos'[p] = t
        BY <1>1 DEF HeldInv
  <2>2. \A p \in Producers : pc'[p] = "publish" => Writing(p) /\ pc[p] = "publish" /\ pos'[p] = pos[p]
        BY DEF Writing
  <2>3. \A p \in Producers : pc'[p] = "publish" => data[SlotOf(pos'[p])] = <<p, pushes'[p]>>
        BY <2>2 DEF HeldInv
  <2> QED BY <2>1, <2>3 DEF HeldInv
<1>3. ItemsAre /\ ItemsAre' BY ItemValue, ItemValueNext
<1>4. ASSUME NEW t \in tail .. head - 1 PROVE ItemOf(t)' = ItemOf(t)
  <2>0. t \in Nat /\ tail <= t /\ t < head BY DEF TypeOK
  <2>1. seq[SlotOf(t)] \in {t, t + 1} BY <2>0 DEF SlotProtocol, TicketInv
  <2>2. CASE seq[SlotOf(t)] = t + 1 BY <1>3, <2>0, <2>2 DEF ItemsAre
  <2>3. CASE seq[SlotOf(t)] = t
    <3>1. PICK p \in Producers : Writing(p) /\ pos[p] = t BY <2>3 DEF HeldInv
    <3> QED BY <1>1, <1>3, <2>0, <3>1 DEF ItemsAre
  <2> QED BY <2>1, <2>2, <2>3
<1> QED BY <1>2, <1>4

(* Copying into a claimed slot changes no item: this one is the producer's *)
(* until it is published.                                                  *)
LEMMA ItemsWrite ==
    ASSUME TypeOK, TypeOK', SlotProtocol, SlotProtocol', HeldInv, NEW p \in Producers, PushWrite(p)
    PROVE  /\ HeldInv'
           /\ \A t \in tail .. head - 1 : ItemOf(t)' = ItemOf(t)
           /\ \A c \in Consumers : Reading(c) => data'[SlotOf(pos[c])] = data[SlotOf(pos[c])]
<1> DEFINE k == SlotOf(pos[p])
<1>0. /\ p \in Threads /\ Writing(p) /\ pc' = [pc EXCEPT ![p] = "publish"]
      /\ data' = [data EXCEPT ![k] = <<p, pushes[p]>>] /\ UNCHANGED <<head, tail, seq, pos, pushes>>
      BY DEF PushWrite, Goto, Writing, Threads
<1>1. pos[p] \in Nat /\ k \in Slots BY <1>0, SlotType DEF TypeOK
<1>2. data'[k] = <<p, pushes[p]>> /\ \A i \in Slots : i # k => data'[i] = data[i]
      BY <1>0, <1>1 DEF TypeOK
<1>3. pc'[p] = "publish" /\ \A t \in Threads : t # p => pc'[t] = pc[t] BY <1>0 DEF TypeOK
<1>4. \A r \in Producers : Writing(r)' <=> Writing(r) BY <1>0, <1>3 DEF Writing, Threads
<1>5. ASSUME NEW r \in Producers, r # p, Writing(r)
      PROVE  data'[SlotOf(pos[r])] = data[SlotOf(pos[r])]
  <2>1. SlotOf(pos[r]) # k BY <1>0, <1>5, OwnersApart
  <2>2. SlotOf(pos[r]) \in Slots BY SlotType DEF TypeOK, Threads
  <2> QED BY <1>2, <2>1, <2>2
<1>6. HeldInv'
  <2>1. \A t \in tail .. head - 1 :
          seq[SlotOf(t)] = t => \E r \in Producers : Writing(r)' /\ pos[r] = t
        BY <1>4 DEF HeldInv
  <2>2. \A r \in Producers : pc'[r] = "publish" => data'[SlotOf(pos[r])] = <<r, pushes[r]>>
        BY <1>2, <1>3, <1>5 DEF HeldInv, Writing, Threads
  <2> QED BY <1>0, <2>1, <2>2 DEF HeldInv
<1>7. ItemsAre /\ ItemsAre' BY ItemValue, ItemValueNext
<1>8. ASSUME NEW t \in tail .. head - 1 PROVE ItemOf(t)' = ItemOf(t)
  <2>0. t \in Nat /\ tail <= t /\ t < head BY DEF TypeOK
  <2>1. seq[SlotOf(t)] \in {t, t + 1} BY <2>0 DEF SlotProtocol, TicketInv
  <2>2. CASE seq[SlotOf(t)] = t + 1
    <3>1. pos[p] # t BY <1>0, <2>2 DEF SlotProtocol, WriterInv
    <3>2. data'[SlotOf(t)] = data[SlotOf(t)] BY <1>0, <1>2, <2>0, <3>1, TicketsApart
    <3> QED BY <1>0, <1>7, <2>0, <2>2, <3>2 DEF ItemsAre
  <2>3. CASE seq[SlotOf(t)] = t
    <3>1. PICK r \in Producers : Writing(r) /\ pos[r] = t BY <2>3 DEF HeldInv
    <3> QED BY <1>0, <1>4, <1>7, <2>0, <3>1 DEF ItemsAre
  <2> QED BY <2>1, <2>2, <2>3
<1>9. ASSUME NEW c \in Consumers, Reading(c) PROVE data'[SlotOf(pos[c])] = data[SlotOf(pos[c])]
  <2>1. SlotOf(pos[c]) # k BY <1>0, <1>9, OwnersApart
  <2>2. SlotOf(pos[c]) \in Slots BY SlotType DEF TypeOK, Threads
  <2> QED BY <1>2, <2>1, <2>2
<1> QED BY <1>6, <1>8, <1>9

(* Publishing moves the item from the producer's hands to its slot. *)
LEMMA ItemsPublish ==
    ASSUME TypeOK, TypeOK', SlotProtocol, SlotProtocol', HeldInv, NEW p \in Producers, PushPublish(p)
    PROVE  /\ HeldInv'
           /\ \A t \in tail .. head - 1 : ItemOf(t)' = ItemOf(t)
<1> DEFINE k == SlotOf(pos[p])
<1>0. /\ p \in Threads /\ pc[p] = "publish" /\ Writing(p) /\ pc' = [pc EXCEPT ![p] = "idle"]
      /\ seq' = [seq EXCEPT ![k] = pos[p] + 1] /\ UNCHANGED <<head, tail, data, pos, pushes>>
      BY DEF PushPublish, Goto, Writing, Threads
<1>1. pos[p] \in Nat /\ k \in Slots BY <1>0, SlotType DEF TypeOK
<1>2. seq'[k] = pos[p] + 1 /\ \A i \in Slots : i # k => seq'[i] = seq[i]
      BY <1>0, <1>1 DEF TypeOK
<1>3. pc'[p] = "idle" /\ \A t \in Threads : t # p => pc'[t] = pc[t] BY <1>0 DEF TypeOK
<1>4. \A r \in Producers : r # p => (Writing(r)' <=> Writing(r)) BY <1>0, <1>3 DEF Writing, Threads
<1>5. ASSUME NEW t \in Nat, tail <= t, t < head, t # pos[p]
      PROVE  seq'[SlotOf(t)] = seq[SlotOf(t)]
      BY <1>0, <1>2, <1>5, TicketsApart
<1>6. HeldInv'
  <2>1. ASSUME NEW t \in tail .. head - 1, seq'[SlotOf(t)] = t
        PROVE  \E r \in Producers : Writing(r)' /\ pos[r] = t
    <3>0. t \in Nat /\ tail <= t /\ t < head BY DEF TypeOK
    <3>1. t # pos[p] BY <1>1, <1>2, <2>1
    <3>2. seq[SlotOf(t)] = t BY <1>5, <2>1, <3>0, <3>1
    <3>3. PICK r \in Producers : Writing(r) /\ pos[r] = t BY <3>2 DEF HeldInv
    <3> QED BY <1>4, <3>1, <3>3
  <2>2. \A r \in Producers : pc'[r] = "publish" => data[SlotOf(pos[r])] = <<r, pushes[r]>>
        BY <1>3 DEF HeldInv, Threads
  <2> QED BY <1>0, <2>1, <2>2 DEF HeldInv
<1>7. ItemsAre /\ ItemsAre' BY ItemValue, ItemValueNext
<1>8. ASSUME NEW t \in tail .. head - 1 PROVE ItemOf(t)' = ItemOf(t)
  <2>0. t \in Nat /\ tail <= t /\ t < head BY DEF TypeOK
  <2>1. seq[SlotOf(t)] \in {t, t + 1} BY <2>0 DEF SlotProtocol, TicketInv
  <2>2. CASE t = pos[p]
    <3>1. ItemOf(t) = <<p, pushes[p]>> BY <1>0, <1>7, <2>0, <2>2 DEF ItemsAre
    <3>2. ItemOf(t)' = data[k] BY <1>0, <1>2, <1>7, <2>0, <2>2 DEF ItemsAre
    <3>3. data[k] = <<p, pushes[p]>> BY <1>0 DEF HeldInv
    <3> QED BY <3>1, <3>2, <3>3
  <2>3. CASE t # pos[p] /\ seq[SlotOf(t)] = t + 1
        BY <1>0, <1>5, <1>7, <2>0, <2>3 DEF ItemsAre
  <2>4. CASE t # pos[p] /\ seq[SlotOf(t)] = t
    <3>1. PICK r \in Producers : Writing(r) /\ pos[r] = t BY <2>4 DEF HeldInv
    <3>2. r # p /\ Writing(r)' BY <1>4, <2>4, <3>1
    <3> QED BY <1>0, <1>7, <2>0, <3>1, <3>2 DEF ItemsAre
  <2> QED BY <2>1, <2>2, <2>3, <2>4
<1> QED BY <1>6, <1>8

(* Handing a slot back changes no item: its ticket is popped. *)
LEMMA ItemsFree ==
    ASSUME TypeOK, TypeOK', SlotProtocol, SlotProtocol', HeldInv, NEW c \in Consumers, PopFree(c)
    PROVE  /\ HeldInv'
           /\ \A t \in tail .. head - 1 : ItemOf(t)' = ItemOf(t)
<1> DEFINE k == SlotOf(pos[c])
<1>0. /\ c \in Threads /\ c \notin Producers /\ Reading(c) /\ pc' = [pc EXCEPT ![c] = "idle"]
      /\ seq' = [seq EXCEPT ![k] = pos[c] + N] /\ UNCHANGED <<head, tail, data, pos, pushes>>
      BY ThreadAssumption DEF PopFree, Goto, Reading, Threads
<1>1. pos[c] \in Nat /\ k \in Slots BY <1>0, SlotType DEF TypeOK
<1>2. \A i \in Slots : i # k => seq'[i] = seq[i] BY <1>0, <1>1 DEF TypeOK
<1>3. \A p \in Producers : pc'[p] = pc[p] BY <1>0 DEF TypeOK, Threads
<1>4. \A p \in Producers : Writing(p)' <=> Writing(p) BY <1>3 DEF Writing
<1>5. ASSUME NEW t \in Nat, tail <= t, t < head PROVE seq'[SlotOf(t)] = seq[SlotOf(t)]
      BY <1>0, <1>2, <1>5, TicketsApart
<1>6. HeldInv'
  <2>1. ASSUME NEW t \in tail .. head - 1, seq'[SlotOf(t)] = t
        PROVE  \E r \in Producers : Writing(r)' /\ pos[r] = t
    <3>0. t \in Nat /\ tail <= t /\ t < head BY DEF TypeOK
    <3>1. seq[SlotOf(t)] = t BY <1>5, <2>1, <3>0
    <3>2. PICK r \in Producers : Writing(r) /\ pos[r] = t BY <3>1 DEF HeldInv
    <3> QED BY <1>4, <3>2
  <2>2. \A r \in Producers : pc'[r] = "publish" => data[SlotOf(pos[r])] = <<r, pushes[r]>>
        BY <1>3 DEF HeldInv
  <2> QED BY <1>0, <2>1, <2>2 DEF HeldInv
<1>7. ItemsAre /\ ItemsAre' BY ItemValue, ItemValueNext
<1>8. ASSUME NEW t \in tail .. head - 1 PROVE ItemOf(t)' = ItemOf(t)
  <2>0. t \in Nat /\ tail <= t /\ t < head BY DEF TypeOK
  <2>1. seq[SlotOf(t)] \in {t, t + 1} BY <2>0 DEF SlotProtocol, TicketInv
  <2>2. CASE seq[SlotOf(t)] = t + 1 BY <1>0, <1>5, <1>7, <2>0, <2>2 DEF ItemsAre
  <2>3. CASE seq[SlotOf(t)] = t
    <3>1. PICK r \in Producers : Writing(r) /\ pos[r] = t BY <2>3 DEF HeldInv
    <3> QED BY <1>0, <1>4, <1>7, <2>0, <3>1 DEF ItemsAre
  <2> QED BY <2>1, <2>2, <2>3
<1> QED BY <1>6, <1>8

(* A successful compare-exchange of a producer adds its item as the last. *)
LEMMA ItemsPush ==
    ASSUME N > 1, TypeOK, TypeOK', SlotProtocol, SlotProtocol', HeldInv, NEW p \in Producers, PushClaim(p)
    PROVE  /\ HeldInv'
           /\ head' = head + 1 /\ tail' = tail /\ head < tail + N
           /\ \A t \in tail .. head - 1 : ItemOf(t)' = ItemOf(t)
           /\ \A t \in Nat : t = head => ItemOf(t)' = <<p, pushes[p]>>
<1>0. /\ p \in Threads /\ pos[p] = head /\ head' = head + 1 /\ pc' = [pc EXCEPT ![p] = "write"]
      /\ pc[p] = "cas" /\ UNCHANGED <<tail, seq, data, pos, pushes>>
      BY DEF PushClaim, Goto, Threads
<1>1. head < tail + N BY ClaimFindsFree
<1>2. pc'[p] = "write" /\ \A t \in Threads : t # p => pc'[t] = pc[t] BY <1>0 DEF TypeOK
<1>3. Writing(p)' /\ \A r \in Producers : Writing(r) => Writing(r)'
      BY <1>0, <1>2 DEF Writing, Threads
<1>4. HeldInv'
  <2>1. ASSUME NEW t \in tail .. head, seq[SlotOf(t)] = t
        PROVE  \E r \in Producers : Writing(r)' /\ pos[r] = t
    <3>1. CASE t = head BY <1>0, <1>3, <3>1
    <3>2. CASE t # head
      <4>1. t \in tail .. head - 1 BY <3>2 DEF TypeOK
      <4> QED BY <1>3, <2>1, <4>1 DEF HeldInv
    <3> QED BY <3>1, <3>2
  <2>2. \A r \in Producers : pc'[r] = "publish" => data[SlotOf(pos[r])] = <<r, pushes[r]>>
        BY <1>2 DEF HeldInv, Threads
  <2>3. tail' .. head' - 1 = tail .. head BY <1>0 DEF TypeOK
  <2> QED BY <1>0, <2>1, <2>2, <2>3 DEF HeldInv
<1>5. ItemsAre /\ ItemsAre' BY ItemValue, ItemValueNext
<1>6. ASSUME NEW t \in tail .. head - 1 PROVE ItemOf(t)' = ItemOf(t)
  <2>0. t \in Nat /\ tail <= t /\ t < head BY DEF TypeOK
  <2>1. seq[SlotOf(t)] \in {t, t + 1} BY <2>0 DEF SlotProtocol, TicketInv
  <2>2. CASE seq[SlotOf(t)] = t + 1 BY <1>0, <1>5, <2>0, <2>2 DEF ItemsAre
  <2>3. CASE seq[SlotOf(t)] = t
    <3>1. PICK r \in Producers : Writing(r) /\ pos[r] = t BY <2>3 DEF HeldInv
    <3> QED BY <1>0, <1>3, <1>5, <2>0, <3>1 DEF ItemsAre
  <2> QED BY <2>1, <2>2, <2>3
<1>7. \A t \in Nat : t = head => ItemOf(t)' = <<p, pushes[p]>> BY <1>0, <1>3, <1>5 DEF ItemsAre
<1> QED BY <1>0, <1>1, <1>4, <1>6, <1>7

(* A successful compare-exchange of a consumer takes the first item, which *)
(* is the data of the slot it then reads.                                  *)
LEMMA ItemsPop ==
    ASSUME N > 1, TypeOK, TypeOK', SlotProtocol, SlotProtocol', HeldInv, NEW c \in Consumers, PopClaim(c)
    PROVE  /\ HeldInv'
           /\ tail' = tail + 1 /\ head' = head /\ tail < head
           /\ \A t \in tail + 1 .. head - 1 : ItemOf(t)' = ItemOf(t)
           /\ \A t \in Nat : t = tail => ItemOf(t) = data[SlotOf(tail)]
<1>0. /\ c \in Threads /\ c \notin Producers /\ tail' = tail + 1 /\ pc' = [pc EXCEPT ![c] = "read"]
      /\ pos[c] = tail /\ UNCHANGED <<head, seq, data, pos, pushes>>
      BY ThreadAssumption DEF PopClaim, Goto, Threads
<1>1. tail < head /\ seq[SlotOf(tail)] = tail + 1 BY ClaimFindsPublished
<1>2. \A p \in Producers : pc'[p] = pc[p] BY <1>0 DEF TypeOK, Threads
<1>3. \A p \in Producers : Writing(p)' <=> Writing(p) BY <1>2 DEF Writing
<1>4. HeldInv'
  <2>1. \A t \in tail + 1 .. head - 1 :
          seq[SlotOf(t)] = t => \E r \in Producers : Writing(r)' /\ pos[r] = t
        BY <1>3 DEF HeldInv, TypeOK
  <2>2. \A r \in Producers : pc'[r] = "publish" => data[SlotOf(pos[r])] = <<r, pushes[r]>>
        BY <1>2 DEF HeldInv
  <2> QED BY <1>0, <2>1, <2>2 DEF HeldInv
<1>5. ItemsAre /\ ItemsAre' BY ItemValue, ItemValueNext
<1>6. ASSUME NEW t \in tail + 1 .. head - 1 PROVE ItemOf(t)' = ItemOf(t)
  <2>0. t \in Nat /\ tail <= t /\ t < head BY DEF TypeOK
  <2>1. seq[SlotOf(t)] \in {t, t + 1} BY <2>0 DEF SlotProtocol, TicketInv
  <2>2. CASE seq[SlotOf(t)] = t + 1 BY <1>0, <1>5, <2>0, <2>2 DEF ItemsAre
  <2>3. CASE seq[SlotOf(t)] = t
    <3>1. PICK r \in Producers : Writing(r) /\ pos[r] = t BY <2>0, <2>3 DEF HeldInv
    <3> QED BY <1>0, <1>3, <1>5, <2>0, <3>1 DEF ItemsAre
  <2> QED BY <2>1, <2>2, <2>3
<1>7. \A t \in Nat : t = tail => ItemOf(t) = data[SlotOf(tail)] BY <1>1, <1>5 DEF ItemsAre
<1> QED BY <1>0, <1>1, <1>4, <1>6, <1>7

-----------------------------------------------------------------------------
(* The refinement *)

(* The mapped sequence is one, of the length of the ticket range. *)
LEMMA ContentsIsSeq ==
    ASSUME TypeOK, SlotProtocol
    PROVE  /\ Contents \in Seq({ItemOf(t) : t \in Nat}) /\ Len(Contents) = head - tail
           /\ DOMAIN Contents = 1 .. head - tail
           /\ \A i \in 1 .. head - tail : Contents[i] = ItemOf(tail + i - 1)
<1>1. head \in Nat /\ tail \in Nat /\ tail <= head BY DEF TypeOK, SlotProtocol, WithinCapacity
<1>2. \A i \in 1 .. head - tail : ItemOf(tail + i - 1) \in {ItemOf(t) : t \in Nat}
  <2> TAKE i \in 1 .. head - tail
  <2>1. PICK t \in Nat : t = tail + i - 1 BY <1>1
  <2>2. ItemOf(tail + i - 1) = ItemOf(t) BY <2>1
  <2> QED BY <2>2
<1> DEFINE S == {ItemOf(t) : t \in Nat}
           n == head - tail
<1>3. Contents \in [1 .. n -> S] BY <1>2 DEF Contents
<1>4. n \in Nat BY <1>1
<1> HIDE DEF S, n
<1>5. Contents \in Seq(S) /\ Len(Contents) = n BY <1>3, <1>4
<1> QED BY <1>5 DEF Contents, S, n

(* The constructor makes an empty queue. *)
LEMMA HeldInit == Init => HeldInv
BY DEF Init, HeldInv, Threads

(* A step that keeps the ticket range and the items keeps the sequence. *)
LEMMA ContentsStay ==
    ASSUME TypeOK, UNCHANGED <<head, tail>>, \A t \in tail .. head - 1 : ItemOf(t)' = ItemOf(t)
    PROVE  Contents' = Contents
<1>1. ASSUME NEW i \in 1 .. head - tail PROVE ItemOf(tail + i - 1)' = ItemOf(tail + i - 1)
  <2>1. PICK t \in tail .. head - 1 : t = tail + i - 1 BY DEF TypeOK
  <2> QED BY <2>1
<1>2. Contents' = [i \in 1 .. head - tail |-> ItemOf(tail + i - 1)'] BY DEF Contents
<1> QED BY <1>1, <1>2 DEF Contents

(* Two sequences of items that differ by one at the end or at the front. *)
LEMMA AppendIs ==
    ASSUME NEW S, NEW s \in Seq(S), NEW v, NEW r,
           DOMAIN r = 1 .. Len(s) + 1, r = [i \in DOMAIN r |-> r[i]],
           \A i \in 1 .. Len(s) : r[i] = s[i], r[Len(s) + 1] = v
    PROVE  r = Append(s, v)
OBVIOUS

LEMMA TailIs ==
    ASSUME NEW S, NEW s \in Seq(S), Len(s) > 0, NEW r,
           DOMAIN r = 1 .. Len(s) - 1, r = [i \in DOMAIN r |-> r[i]],
           \A i \in 1 .. Len(s) - 1 : r[i] = s[i + 1]
    PROVE  r = Tail(s) /\ Head(s) = s[1] /\ s # <<>>
OBVIOUS

\* what a step of the queue is for BoundedFIFO
Stutters == Contents' = Contents /\ Got' = Got
Enqueues == \E v \in Item : Len(Contents) < N /\ Contents' = Append(Contents, v) /\ Got' = Got
Dequeues == \E c \in Consumers : /\ Contents # <<>> /\ Contents' = Tail(Contents)
                                 /\ Got' = [Got EXCEPT ![c] = Head(Contents)]

(* What is received is not disturbed by a step of another thread that      *)
(* writes no slot being read.                                              *)
LEMMA GotStay ==
    ASSUME TypeOK,
           \A c \in Consumers : /\ pc'[c] = "read" <=> pc[c] = "read"
                                /\ out'[c] = out[c]
                                /\ pc[c] = "read" => /\ pos'[c] = pos[c]
                                                     /\ data'[SlotOf(pos[c])] = data[SlotOf(pos[c])]
    PROVE  Got' = Got
<1>1. Got' = [c \in Consumers |-> IF pc'[c] = "read" THEN data'[SlotOf(pos'[c])] ELSE out'[c]]
      BY DEF Got
<1> QED BY <1>1 DEF Got

(* try_push: the compare-exchange appends, everything else stutters. *)
LEMMA PushMaps ==
    ASSUME N > 1, TypeOK, TypeOK', SlotProtocol, SlotProtocol', HeldInv, NEW p \in Producers, Push(p)
    PROVE  HeldInv' /\ (Stutters \/ Enqueues)
<1> USE ThreadAssumption
<1>0. p \in Threads /\ p \notin Consumers BY DEF Threads
<1>1. CASE PushCall(p) \/ PushLoadSeq(p) \/ PushReload(p) \/ PushClaimFails(p)
  <2>1. /\ UNCHANGED <<head, tail, seq, data, out>> /\ ~ Writing(p)
        /\ \E where \in {"slot", "cas", "idle", "reload"} : pc' = [pc EXCEPT ![p] = where]
        /\ \A t \in Threads \ {p} : pos'[t] = pos[t]
        /\ \A r \in Producers \ {p} : pushes'[r] = pushes[r]
        BY <1>0, <1>1 DEF PushCall, PushLoadSeq, PushReload, PushClaimFails, Goto, Writing, TypeOK
  <2>2. /\ \A t \in Threads \ {p} : pc'[t] = pc[t]
        /\ pc'[p] \in {"slot", "cas", "idle", "reload"}
        BY <1>0, <2>1 DEF TypeOK
  <2>3. \A r \in Producers : Writing(r) =>
            pc'[r] = pc[r] /\ pos'[r] = pos[r] /\ pushes'[r] = pushes[r]
        BY <2>1, <2>2 DEF Threads
  <2>4. \A r \in Producers : Writing(r)' => Writing(r) BY <2>2 DEF Writing, Threads
  <2>5. HeldInv' /\ \A t \in tail .. head - 1 : ItemOf(t)' = ItemOf(t)
        BY <2>1, <2>3, <2>4, ItemsStay
  <2>6. Contents' = Contents BY <2>1, <2>5, ContentsStay
  <2>7. Got' = Got BY <1>0, <2>1, <2>2, GotStay DEF Threads
  <2> QED BY <2>5, <2>6, <2>7 DEF Stutters
<1>2. CASE PushClaim(p)
  <2>1. /\ HeldInv' /\ head' = head + 1 /\ tail' = tail /\ head < tail + N
        /\ \A t \in tail .. head - 1 : ItemOf(t)' = ItemOf(t)
        /\ \A t \in Nat : t = head => ItemOf(t)' = <<p, pushes[p]>>
        BY <1>2, ItemsPush
  <2>2. <<p, pushes[p]>> \in Item
    <3>1. pushes[p] \in 1 .. MaxPushes[p] BY <1>2, BoundAssumption DEF PushClaim, TypeOK
    <3> QED BY <3>1 DEF Item
  <2>3. /\ Contents \in Seq({ItemOf(t) : t \in Nat}) /\ Len(Contents) = head - tail
        /\ \A i \in 1 .. head - tail : Contents[i] = ItemOf(tail + i - 1)
        BY ContentsIsSeq
  <2>4. Contents' = [i \in 1 .. head + 1 - tail |-> ItemOf(tail + i - 1)']
    <3>1. Contents' = [i \in 1 .. head' - tail' |-> ItemOf(tail + i - 1)'] BY DEF Contents
    <3>2. head' - tail' = head + 1 - tail BY <2>1 DEF TypeOK
    <3> QED BY <3>1, <3>2
  <2>5. tail \in Nat /\ head \in Nat /\ tail <= head BY DEF TypeOK, SlotProtocol, WithinCapacity
  <2>6. DOMAIN Contents' = 1 .. Len(Contents) + 1 /\ Contents' = [i \in DOMAIN Contents' |-> Contents'[i]]
        BY <2>3, <2>4, <2>5
  <2>7. ASSUME NEW i \in 1 .. Len(Contents) PROVE Contents'[i] = Contents[i]
    <3>1. PICK t \in tail .. head - 1 : t = tail + i - 1 BY <2>3, <2>5
    <3>2. ItemOf(tail + i - 1)' = ItemOf(t)' BY <2>1, <3>1
    <3>3. Contents'[i] = ItemOf(tail + i - 1)' BY <2>3, <2>4, <2>5
    <3> QED BY <2>1, <2>3, <3>1, <3>2, <3>3
  <2>8. Contents'[Len(Contents) + 1] = <<p, pushes[p]>>
    <3>1. PICK t \in Nat, i \in 1 .. head + 1 - tail : t = head /\ i = head - tail + 1 /\ t = tail + i - 1
          BY <2>5
    <3>2. ItemOf(tail + i - 1)' = ItemOf(t)' BY <2>1, <3>1
    <3>3. Contents'[i] = ItemOf(tail + i - 1)' BY <2>4
    <3> QED BY <2>1, <2>3, <3>1, <3>2, <3>3
  <2>9. Contents' = Append(Contents, <<p, pushes[p]>>)
        BY <2>3, <2>6, <2>7, <2>8, AppendIs
  <2>10. Got' = Got
    <3>1. UNCHANGED <<data, pos, out>> /\ \A c \in Consumers : pc'[c] = pc[c]
          BY <1>0, <1>2 DEF PushClaim, Goto, TypeOK, Threads
    <3> QED BY <3>1, GotStay
  <2>11. Len(Contents) < N BY <2>1, <2>3, <2>5, NAssumption
  <2> QED BY <2>1, <2>2, <2>9, <2>10, <2>11 DEF Enqueues
<1>3. CASE PushWrite(p)
  <2>1. /\ HeldInv' /\ \A t \in tail .. head - 1 : ItemOf(t)' = ItemOf(t)
        /\ \A c \in Consumers : Reading(c) => data'[SlotOf(pos[c])] = data[SlotOf(pos[c])]
        BY <1>3, ItemsWrite
  <2>2. UNCHANGED <<head, tail, pos, out>> /\ \A c \in Consumers : pc'[c] = pc[c]
        BY <1>0, <1>3 DEF PushWrite, Goto, TypeOK, Threads
  <2>3. Contents' = Contents BY <2>1, <2>2, ContentsStay
  <2>4. Got' = Got BY <2>1, <2>2, GotStay DEF Reading
  <2> QED BY <2>1, <2>3, <2>4 DEF Stutters
<1>4. CASE PushPublish(p)
  <2>1. HeldInv' /\ \A t \in tail .. head - 1 : ItemOf(t)' = ItemOf(t) BY <1>4, ItemsPublish
  <2>2. UNCHANGED <<head, tail, data, pos, out>> /\ \A c \in Consumers : pc'[c] = pc[c]
        BY <1>0, <1>4 DEF PushPublish, Goto, TypeOK, Threads
  <2>3. Contents' = Contents BY <2>1, <2>2, ContentsStay
  <2>4. Got' = Got BY <2>2, GotStay
  <2> QED BY <2>1, <2>3, <2>4 DEF Stutters
<1> QED BY <1>1, <1>2, <1>3, <1>4 DEF Push

(* try_pop: the compare-exchange takes the head, everything else stutters. *)
LEMMA PopMaps ==
    ASSUME N > 1, TypeOK, TypeOK', SlotProtocol, SlotProtocol', HeldInv, NEW c \in Consumers, Pop(c)
    PROVE  HeldInv' /\ (Stutters \/ Dequeues)
<1> USE ThreadAssumption
<1>0. c \in Threads /\ c \notin Producers BY DEF Threads
<1>1. CASE PopCall(c) \/ PopLoadSeq(c) \/ PopReload(c) \/ PopClaimFails(c) \/ PopRead(c)
  <2>1. /\ UNCHANGED <<head, tail, seq, data, pushes>>
        /\ \E where \in {"slot", "cas", "idle", "reload", "free"} : pc' = [pc EXCEPT ![c] = where]
        /\ \A t \in Threads \ {c} : pos'[t] = pos[t]
        /\ out' = [out EXCEPT ![c] = IF pc[c] = "read" THEN data[SlotOf(pos[c])] ELSE @]
        BY <1>0, <1>1 DEF PopCall, PopLoadSeq, PopReload, PopClaimFails, PopRead, Goto, TypeOK
  <2>2. /\ \A t \in Threads \ {c} : pc'[t] = pc[t]
        /\ pc'[c] \in {"slot", "cas", "idle", "reload", "free"}
        BY <1>0, <2>1 DEF TypeOK
  <2>3. \A r \in Producers : pc'[r] = pc[r] /\ pos'[r] = pos[r] /\ pushes'[r] = pushes[r]
        BY <1>0, <2>1, <2>2 DEF Threads
  <2>4. \A r \in Producers : Writing(r)' => Writing(r) BY <2>3 DEF Writing
  <2>5. HeldInv' /\ \A t \in tail .. head - 1 : ItemOf(t)' = ItemOf(t)
        BY <2>1, <2>3, <2>4, ItemsStay
  <2>6. Contents' = Contents BY <2>1, <2>5, ContentsStay
  <2>7. Got' = Got
    <3>1. Got' = [d \in Consumers |-> IF pc'[d] = "read" THEN data[SlotOf(pos'[d])] ELSE out'[d]]
          BY <2>1 DEF Got
    <3>2. \A d \in Consumers : d # c => pc'[d] = pc[d] /\ pos'[d] = pos[d] /\ out'[d] = out[d]
          BY <2>1, <2>2 DEF Threads, TypeOK
    <3>3. out'[c] = IF pc[c] = "read" THEN data[SlotOf(pos[c])] ELSE out[c]
          BY <2>1 DEF TypeOK
    <3> QED BY <2>2, <3>1, <3>2, <3>3 DEF Got
  <2> QED BY <2>5, <2>6, <2>7 DEF Stutters
<1>2. CASE PopClaim(c)
  <2>1. /\ HeldInv' /\ tail' = tail + 1 /\ head' = head /\ tail < head
        /\ \A t \in tail + 1 .. head - 1 : ItemOf(t)' = ItemOf(t)
        /\ \A t \in Nat : t = tail => ItemOf(t) = data[SlotOf(tail)]
        BY <1>2, ItemsPop
  <2>2. /\ Contents \in Seq({ItemOf(t) : t \in Nat}) /\ Len(Contents) = head - tail
        /\ \A i \in 1 .. head - tail : Contents[i] = ItemOf(tail + i - 1)
        BY ContentsIsSeq
  <2>3. tail \in Nat /\ head \in Nat BY DEF TypeOK
  <2>4. Contents' = [i \in 1 .. head - (tail + 1) |-> ItemOf(tail + i - 1)'] BY <2>1 DEF Contents
  <2>5. /\ Len(Contents) > 0 /\ DOMAIN Contents' = 1 .. Len(Contents) - 1
        /\ Contents' = [i \in DOMAIN Contents' |-> Contents'[i]]
        BY <2>1, <2>2, <2>3, <2>4
  <2>6. ASSUME NEW i \in 1 .. Len(Contents) - 1 PROVE Contents'[i] = Contents[i + 1]
    <3>0. i \in Nat /\ 1 <= i /\ i <= head - tail - 1 BY <2>2, <2>3
    <3>a. PICK t \in tail + 1 .. head - 1 : t = tail + i BY <2>3, <3>0
    <3>b. PICK j \in 1 .. head - tail : j = i + 1 BY <2>3, <3>0
    <3>1. t = tail + i /\ j = i + 1 /\ t = tail + j - 1 BY <2>3, <3>0, <3>a, <3>b
    <3>2. t = tail' + i - 1 BY <2>1, <2>2, <2>3, <3>1
    <3>3. ItemOf(tail + i - 1)' = ItemOf(t)' BY <3>2
    <3>4. Contents'[i] = ItemOf(tail + i - 1)' BY <2>2, <2>3, <2>4
    <3>5. Contents[j] = ItemOf(t) BY <2>2, <3>1
    <3> QED BY <2>1, <3>1, <3>3, <3>4, <3>5
  <2>7. Contents' = Tail(Contents) /\ Head(Contents) = Contents[1] /\ Contents # <<>>
        BY <2>2, <2>5, <2>6, TailIs
  <2>8. Contents[1] = data[SlotOf(tail)]
    <3>1. PICK t \in Nat : t = tail + 1 - 1 BY <2>3
    <3> QED BY <2>1, <2>2, <2>3, <3>1
  <2>9. /\ UNCHANGED <<data, pos, out>> /\ pos[c] = tail /\ pc'[c] = "read"
        /\ \A d \in Consumers : d # c => pc'[d] = pc[d]
        BY <1>0, <1>2 DEF PopClaim, Goto, TypeOK, Threads
  <2>10. Got' = [Got EXCEPT ![c] = Head(Contents)]
    <3>1. Got' = [d \in Consumers |-> IF pc'[d] = "read" THEN data[SlotOf(pos[d])] ELSE out[d]]
          BY <2>9 DEF Got
    <3> QED BY <2>7, <2>8, <2>9, <3>1 DEF Got
  <2> QED BY <2>1, <2>7, <2>10 DEF Dequeues
<1>3. CASE PopFree(c)
  <2>1. HeldInv' /\ \A t \in tail .. head - 1 : ItemOf(t)' = ItemOf(t) BY <1>3, ItemsFree
  <2>2. /\ UNCHANGED <<head, tail, data, pos, out>>
        /\ \A d \in Consumers : pc'[d] = "read" <=> pc[d] = "read"
        BY <1>0, <1>3 DEF PopFree, Goto, TypeOK, Threads
  <2>3. Contents' = Contents BY <2>1, <2>2, ContentsStay
  <2>4. Got' = Got BY <2>2, GotStay
  <2> QED BY <2>1, <2>3, <2>4 DEF Stutters
<1> QED BY <1>1, <1>2, <1>3 DEF Pop

(* size() stutters. *)
LEMMA SizeMaps ==
    ASSUME TypeOK, TypeOK', SlotProtocol, SlotProtocol', HeldInv, NEW o \in Observers, Size(o)
    PROVE  HeldInv' /\ Stutters
<1> USE ThreadAssumption
<1>0. o \in Threads /\ o \notin Producers /\ o \notin Consumers BY DEF Threads
<1>1. /\ UNCHANGED <<head, tail, seq, data, pushes, out>>
      /\ \A t \in Threads \ {o} : pc'[t] = pc[t] /\ pos'[t] = pos[t]
      BY <1>0 DEF Size, SizeLoadHead, SizeLoadTail, Goto, TypeOK
<1>2. \A r \in Producers : pc'[r] = pc[r] /\ pos'[r] = pos[r] /\ pushes'[r] = pushes[r]
      BY <1>0, <1>1 DEF Threads
<1>3. \A r \in Producers : Writing(r)' => Writing(r) BY <1>2 DEF Writing
<1>4. HeldInv' /\ \A t \in tail .. head - 1 : ItemOf(t)' = ItemOf(t)
      BY <1>1, <1>2, <1>3, ItemsStay
<1>5. Contents' = Contents BY <1>1, <1>4, ContentsStay
<1>6. Got' = Got BY <1>0, <1>1, GotStay DEF Threads
<1> QED BY <1>4, <1>5, <1>6 DEF Stutters

(* Every step of the queue is a step of the bounded FIFO or invisible to it. *)
LEMMA StepMaps ==
    ASSUME N > 1, TypeOK, TypeOK', SlotProtocol, SlotProtocol', HeldInv, [Next]_vars
    PROVE  HeldInv' /\ [FIFO!Next]_(FIFO!fifoVars)
<1>1. HeldInv' /\ (Stutters \/ Enqueues \/ Dequeues)
  <2>1. CASE Next BY <2>1, PushMaps, PopMaps, SizeMaps DEF Next
  <2>2. CASE UNCHANGED vars
    <3>1. HeldInv' /\ \A t \in tail .. head - 1 : ItemOf(t)' = ItemOf(t)
          BY <2>2, ItemsStay DEF vars, Writing
    <3>2. Contents' = Contents BY <2>2, <3>1, ContentsStay DEF vars
    <3>3. Got' = Got BY <2>2, GotStay DEF vars
    <3> QED BY <3>1, <3>2, <3>3 DEF Stutters
  <2> QED BY <2>1, <2>2
<1>2. CASE Stutters BY <1>1, <1>2 DEF Stutters, FIFO!fifoVars
<1>3. CASE Enqueues BY <1>1, <1>3 DEF Enqueues, FIFO!Next, FIFO!Enqueue
<1>4. CASE Dequeues BY <1>1, <1>4 DEF Dequeues, FIFO!Next, FIFO!Dequeue
<1> QED BY <1>1, <1>2, <1>3, <1>4

(* For every capacity above one and any number of producers, consumers and *)
(* calls the queue implements the bounded FIFO: nothing pushed is lost,    *)
(* duplicated, overwritten or popped out of order.                         *)
THEOREM QueueIsFIFO == ASSUME N > 1 PROVE Spec => RefinesFIFO
<1>1. Init => FIFO!Init /\ HeldInv
  <2> SUFFICES ASSUME Init PROVE FIFO!Init BY HeldInit
  <2>1. Contents = <<>> BY DEF Init, Contents
  <2>2. Got \in [Consumers -> {<<>>}] BY DEF Init, Threads, NoItem, Got
  <2> QED BY <2>1, <2>2 DEF FIFO!Init
<1>2. TypeOK /\ TypeOK' /\ SlotProtocol /\ SlotProtocol' /\ HeldInv /\ [Next]_vars
          => HeldInv' /\ [FIFO!Next]_(FIFO!fifoVars)
      BY StepMaps
<1> QED BY <1>1, <1>2, TypeCorrect, ProtocolHolds, PTL DEF Spec, RefinesFIFO, FIFO!Spec

-----------------------------------------------------------------------------
(* size() *)

(* A remainder is not above a natural dividend, and a negative dividend is *)
(* raised by at least one modulus.                                         *)
LEMMA WrappedDifference ==
    ASSUME NEW n \in Nat \ {0}, NEW a \in Int
    PROVE  (a >= 0 => a % n <= a) /\ (a < 0 => a % n >= n + a)
<1> DEFINE k == a \div n
           r == a % n
<1>1. k \in Int /\ r \in 0 .. n - 1 /\ a = n * k + r OBVIOUS
<1> HIDE DEF k, r
<1>2. k >= 0 => n * k >= 0 BY <1>1
<1>3. k <= -1 => n * k <= -n BY <1>1
<1>4. n * k \in Int BY <1>1
<1>5. a >= 0 => r <= a BY <1>1, <1>2, <1>3, <1>4
<1>6. a < 0 => r >= n + a BY <1>1, <1>2, <1>3, <1>4
<1> QED BY <1>5, <1>6 DEF r

\* the head_ that size() has loaded is not ahead of the queue
LoadedHead == \A o \in Observers : pc[o] = "tail" => pos[o] <= head

(* Both counters only grow, so the bound a finished call of size() left    *)
(* stays true.                                                             *)
LEMMA SizeStep ==
    ASSUME TypeOK, TypeOK', SlotProtocol, LoadedHead, SizeErrsLow, [Next]_vars
    PROVE  LoadedHead' /\ SizeErrsLow'
<1> USE ThreadAssumption
<1>0. head \in Nat /\ tail \in Nat /\ tail <= head /\ head <= tail + N /\ N \in Nat
      BY NAssumption DEF TypeOK, SlotProtocol, WithinCapacity
<1>1. ASSUME UNCHANGED sized, head' >= head, tail' >= tail,
             \A o \in Observers : pc'[o] = pc[o] /\ pos'[o] = pos[o]
      PROVE  LoadedHead' /\ SizeErrsLow'
  <2>1. LoadedHead' BY <1>0, <1>1 DEF LoadedHead, TypeOK, Threads
  <2>2. SizeErrsLow' BY <1>0, <1>1, BoundAssumption DEF SizeErrsLow, TypeOK
  <2> QED BY <2>1, <2>2
<1>2. ASSUME NEW p \in Producers, Push(p) PROVE LoadedHead' /\ SizeErrsLow'
  <2>1. \A o \in Observers : pc'[o] = pc[o] /\ pos'[o] = pos[o]
        BY <1>2 DEF Push, PushCall, PushLoadSeq, PushReload, PushClaim, PushClaimFails,
                    PushWrite, PushPublish, Goto, TypeOK, Threads
  <2>2. UNCHANGED <<sized, tail>> /\ head' \in {head, head + 1}
        BY <1>2 DEF Push, PushCall, PushLoadSeq, PushReload, PushClaim, PushClaimFails,
                    PushWrite, PushPublish
  <2> QED BY <1>0, <1>1, <2>1, <2>2
<1>3. ASSUME NEW c \in Consumers, Pop(c) PROVE LoadedHead' /\ SizeErrsLow'
  <2>1. \A o \in Observers : pc'[o] = pc[o] /\ pos'[o] = pos[o]
        BY <1>3 DEF Pop, PopCall, PopLoadSeq, PopReload, PopClaim, PopClaimFails,
                    PopRead, PopFree, Goto, TypeOK, Threads
  <2>2. UNCHANGED <<sized, head>> /\ tail' \in {tail, tail + 1}
        BY <1>3 DEF Pop, PopCall, PopLoadSeq, PopReload, PopClaim, PopClaimFails,
                    PopRead, PopFree
  <2> QED BY <1>0, <1>1, <2>1, <2>2
<1>4. ASSUME NEW o \in Observers, SizeLoadHead(o) PROVE LoadedHead' /\ SizeErrsLow'
  <2>1. LoadedHead' BY <1>0, <1>4 DEF SizeLoadHead, Goto, LoadedHead, TypeOK, Threads
  <2>2. SizeErrsLow' BY <1>4 DEF SizeLoadHead, SizeErrsLow
  <2> QED BY <2>1, <2>2
<1>5. ASSUME NEW o \in Observers, SizeLoadTail(o) PROVE LoadedHead' /\ SizeErrsLow'
  <2>1. LoadedHead' BY <1>0, <1>5 DEF SizeLoadTail, Goto, LoadedHead, TypeOK, Threads
  <2>2. pos[o] \in Nat /\ pos[o] <= head BY <1>5 DEF SizeLoadTail, LoadedHead, TypeOK, Threads
  <2>3. WordMod \in Nat \ {0} /\ pos[o] - tail \in Int BY <1>0, <2>2, BoundAssumption
  <2> DEFINE r == (pos[o] - tail) % WordMod
  <2>4. r \in Int /\ (pos[o] - tail >= 0 => r <= pos[o] - tail)
        /\ (pos[o] - tail < 0 => r >= WordMod + (pos[o] - tail))
        BY <2>3, WrappedDifference
  <2>5. sized' = [sized EXCEPT ![o] = r] /\ tail' = tail BY <1>5 DEF SizeLoadTail
  <2> HIDE DEF r
  <2>6. r <= N \/ r >= WordMod - tail BY <1>0, <2>2, <2>3, <2>4
  <2>7. SizeErrsLow' BY <2>5, <2>6 DEF SizeErrsLow, TypeOK
  <2> QED BY <2>1, <2>7
<1>6. CASE UNCHANGED vars BY <1>0, <1>1, <1>6 DEF vars
<1> QED BY <1>2, <1>3, <1>4, <1>5, <1>6 DEF Next, Size

(* For every capacity above one, word size and number of threads size()    *)
(* errs on the low side: above the capacity only once it has wrapped.      *)
THEOREM SizeBounded == ASSUME N > 1 PROVE Spec => []SizeErrsLow
<1>1. Init => LoadedHead /\ SizeErrsLow
      BY NAssumption DEF Init, LoadedHead, SizeErrsLow, Threads
<1>2. TypeOK /\ TypeOK' /\ SlotProtocol /\ LoadedHead /\ SizeErrsLow /\ [Next]_vars
          => LoadedHead' /\ SizeErrsLow'
      BY SizeStep
<1> QED BY <1>1, <1>2, TypeCorrect, ProtocolHolds, PTL DEF Spec

=============================================================================
