--------------------------- MODULE Replay_proofs ----------------------------
(***************************************************************************)
(* Proofs about what is recorded and played back: LogWriter's files, which *)
(* LogReader searches, TimeReplayer's merge of the streams, and the grid   *)
(* strategy that BacktestEngine runs on them.                              *)
(***************************************************************************)
EXTENDS LogFiles, BacktestEngine, SequenceTheorems, FiniteSetTheorems, TLAPS

-----------------------------------------------------------------------------
(* Numbers and sequences *)

LEMMA LeastNumber ==
    ASSUME NEW T \in SUBSET Nat, T # {}
    PROVE  \E x \in T : \A y \in T : x <= y
<1> DEFINE R == OpToRel(<, Nat)
<1>1. IsWellFoundedOn(R, Nat)
  BY NatLessThanWellFounded
<1>2. \A x, y \in Nat : x < y => <<x, y>> \in R
  BY DEF OpToRel
<1> HIDE DEF R
<1>3. PICK x \in T : \A y \in T : ~ (<<y, x>> \in R)
  BY <1>1, WFMin
<1>4. ASSUME NEW y \in T  PROVE x <= y
  <2>1. ~ (y < x)
    BY <1>2, <1>3
  <2>2. QED
    BY <2>1
<1>5. QED
  BY <1>4

LEMMA RangeOfAppend ==
    ASSUME NEW S, NEW s \in Seq(S), NEW x \in S
    PROVE  Range(Append(s, x)) = Range(s) \cup {x}
<1>1. /\ DOMAIN Append(s, x) = 1 .. Len(s) + 1 /\ Len(s) \in Nat /\ DOMAIN s = 1 .. Len(s)
      /\ \A i \in 1 .. Len(s) : Append(s, x)[i] = s[i]
      /\ Append(s, x)[Len(s) + 1] = x
  OBVIOUS
<1>2. 1 .. Len(s) + 1 = 1 .. Len(s) \cup {Len(s) + 1}
  BY <1>1
<1> DEFINE t == Append(s, x)  n == Len(s)
<1> HIDE DEF t, n
<1>3. DOMAIN t = DOMAIN s \cup {n + 1} /\ (\A i \in DOMAIN s : t[i] = s[i]) /\ t[n + 1] = x
  BY <1>1, <1>2 DEF t, n
<1>4. Range(t) = Range(s) \cup {x}
  BY <1>3, ZenonT(60) DEF Range
<1>5. QED
  BY <1>4 DEF t

-----------------------------------------------------------------------------
(* LogFiles: what a flush writes *)

Half == Nat \X {1, 2}
Key(x) == 2 * x[1] + x[2]

\* the first k halves of the records b
IsPart(hs, b, k) ==
    /\ hs \in Seq(Half) /\ Len(hs) = k
    /\ \A i \in 1 .. k : hs[i] = <<b[(i + 1) \div 2], 2 - (i % 2)>>

LEMMA HalfOf ==
    ASSUME NEW n \in Nat, NEW i \in 1 .. 2 * n
    PROVE  (i + 1) \div 2 \in 1 .. n /\ 2 - (i % 2) \in {1, 2}
  OBVIOUS

\* All of a buffer, and what a crash leaves of it.
LEMMA HalvesArePart ==
    ASSUME NEW b \in Seq(Nat)
    PROVE  IsPart(Halves(b), b, 2 * Len(b))
<1> DEFINE n == Len(b)
           e(i) == <<b[(i + 1) \div 2], 2 - (i % 2)>>
<1>1. n \in Nat /\ 2 * n \in Nat /\ \A i \in 1 .. n : b[i] \in Nat
  OBVIOUS
<1>2. ASSUME NEW i \in 1 .. 2 * n  PROVE e(i) \in Half
  <2>1. (i + 1) \div 2 \in 1 .. n /\ 2 - (i % 2) \in {1, 2}
    BY <1>1, HalfOf
  <2>2. QED
    BY <1>1, <2>1 DEF Half
<1>3. Halves(b) = [i \in 1 .. 2 * n |-> e(i)]
  BY DEF Halves
<1> HIDE DEF e, n
<1>4. Halves(b) \in Seq(Half) /\ Len(Halves(b)) = 2 * n /\ \A i \in 1 .. 2 * n : Halves(b)[i] = e(i)
  BY <1>1, <1>2, <1>3
<1>5. QED
  BY <1>4 DEF IsPart, e, n

LEMMA SubSeqIsPart ==
    ASSUME NEW b \in Seq(Nat), NEW k \in 0 .. 2 * Len(b)
    PROVE  IsPart(SubSeq(Halves(b), 1, k), b, k)
<1> DEFINE hs == Halves(b)
<1>1. /\ hs \in Seq(Half) /\ Len(hs) = 2 * Len(b)
      /\ \A i \in 1 .. 2 * Len(b) : hs[i] = <<b[(i + 1) \div 2], 2 - (i % 2)>>
  BY HalvesArePart DEF IsPart
<1> HIDE DEF hs
<1>2. Len(b) \in Nat /\ k \in Nat /\ k <= 2 * Len(b)
  OBVIOUS
<1>3. /\ SubSeq(hs, 1, k) \in Seq(Half) /\ Len(SubSeq(hs, 1, k)) = k
      /\ \A i \in 1 .. k : SubSeq(hs, 1, k)[i] = hs[i]
  BY <1>1, <1>2
<1>4. \A i \in 1 .. k : i \in 1 .. 2 * Len(b)
  BY <1>2
<1>5. QED
  BY <1>1, <1>3, <1>4 DEF IsPart, hs

LEMMA ConcatAt ==
    ASSUME NEW S, NEW a \in Seq(S), NEW b \in Seq(S)
    PROVE  /\ a \o b \in Seq(S)
           /\ DOMAIN (a \o b) = 1 .. Len(a) + Len(b) /\ Len(a \o b) = Len(a) + Len(b)
           /\ \A k \in 1 .. Len(a) : (a \o b)[k] = a[k]
           /\ \A k \in 1 .. Len(b) : (a \o b)[Len(a) + k] = b[k]
  OBVIOUS

LEMMA ConcatFrom ==
    ASSUME NEW S, NEW a \in Seq(S), NEW b \in Seq(S), NEW j \in DOMAIN (a \o b)
    PROVE  \/ j \in 1 .. Len(a) /\ (a \o b)[j] = a[j]
           \/ \E i \in 1 .. Len(b) : j = Len(a) + i /\ (a \o b)[j] = b[i]
<1>1. Len(a) \in Nat /\ Len(b) \in Nat /\ j \in 1 .. Len(a) + Len(b)
  BY ConcatAt
<1>2. j \in 1 .. Len(a) \/ (j - Len(a) \in 1 .. Len(b) /\ j = Len(a) + (j - Len(a)))
  BY <1>1
<1>3. QED
  BY <1>2, ConcatAt

\* The whole records of a file after part of a buffer was written to it.
LEMMA RecordsAfter ==
    ASSUME NEW f \in Seq(Half), NEW b \in Seq(Nat), NEW k \in 0 .. 2 * Len(b), NEW hs, IsPart(hs, b, k)
    PROVE  RecordsOf(f \o hs) = RecordsOf(f) \cup {b[i] : i \in 1 .. k \div 2}
<1> DEFINE g == f \o hs
           n == Len(f)
<1>1. /\ hs \in Seq(Half) /\ Len(hs) = k /\ n \in Nat /\ k \in Nat
      /\ \A i \in 1 .. k : hs[i] = <<b[(i + 1) \div 2], 2 - (i % 2)>>
  BY DEF IsPart
<1>2. /\ DOMAIN g = 1 .. n + k /\ DOMAIN f = 1 .. n
      /\ \A j \in 1 .. n : g[j] = f[j]
      /\ \A i \in 1 .. k : g[n + i] = hs[i]
      /\ \A j \in DOMAIN g : j \in 1 .. n \/ \E i \in 1 .. k : j = n + i
  <2>1. hs \in Seq(Half) /\ Len(hs) = k
    BY <1>1
  <2>2. /\ DOMAIN g = 1 .. n + k /\ DOMAIN f = 1 .. n
        /\ \A j \in 1 .. n : g[j] = f[j]
        /\ \A i \in 1 .. k : g[n + i] = hs[i]
    <3>1. /\ DOMAIN (f \o hs) = 1 .. Len(f) + Len(hs)
          /\ \A j \in 1 .. Len(f) : (f \o hs)[j] = f[j]
          /\ \A i \in 1 .. Len(hs) : (f \o hs)[Len(f) + i] = hs[i]
      BY <2>1, SMTT(60)
    <3>2. DOMAIN f = 1 .. n
      OBVIOUS
    <3> HIDE DEF n, g
    <3>3. QED
      BY <2>1, <3>1, <3>2 DEF n, g
  <2>3. \A j \in 1 .. n + k : j \in 1 .. n \/ \E i \in 1 .. k : j = n + i
    <3> TAKE j \in 1 .. n + k
    <3>1. j \in 1 .. n \/ (j - n \in 1 .. k /\ j = n + (j - n))
      BY <1>1
    <3>2. QED
      BY <3>1
  <2> HIDE DEF g, n
  <2>4. QED
    BY <2>2, <2>3
<1> HIDE DEF g, n
<1>3. ASSUME NEW j \in Ends(g)  PROVE g[j][1] \in RecordsOf(f) \cup {b[i] : i \in 1 .. k \div 2}
  <2>1. j \in DOMAIN g /\ g[j][2] = 2
    BY <1>3 DEF Ends
  <2>2. CASE j \in 1 .. n
    BY <1>2, <2>1, <2>2 DEF RecordsOf, Ends
  <2>3. CASE \E i \in 1 .. k : j = n + i
    <3>1. PICK i \in 1 .. k : j = n + i
      BY <2>3
    <3>2. g[j][1] = b[(i + 1) \div 2] /\ 2 - (i % 2) = 2
      <4>1. g[j] = <<b[(i + 1) \div 2], 2 - (i % 2)>>
        BY <1>1, <1>2, <3>1
      <4>2. QED
        BY <2>1, <4>1
    <3>3. (i + 1) \div 2 \in 1 .. k \div 2
      <4>1. i \in Nat /\ i >= 1 /\ i <= k /\ i % 2 = 0
        BY <1>1, <3>2
      <4>2. PICK m \in Nat : i = 2 * m
        <5>1. i = 2 * (i \div 2) /\ i \div 2 \in Nat
          BY <4>1
        <5>2. QED
          BY <5>1
      <4>3. (i + 1) \div 2 = m /\ m >= 1
        BY <4>1, <4>2
      <4>4. m <= k \div 2 /\ k \div 2 \in Nat
        BY <1>1, <4>1, <4>2
      <4>5. QED
        BY <4>3, <4>4
    <3>4. QED
      BY <3>2, <3>3
  <2>4. QED
    BY <1>2, <2>1, <2>2, <2>3
<1>4. ASSUME NEW r \in RecordsOf(f)  PROVE r \in RecordsOf(g)
  <2>1. PICK j \in DOMAIN f : f[j][2] = 2 /\ r = f[j][1]
    BY <1>4 DEF RecordsOf, Ends
  <2>2. j \in DOMAIN g /\ g[j] = f[j]
    BY <1>1, <1>2
  <2>3. QED
    BY <2>1, <2>2 DEF RecordsOf, Ends
<1>5. ASSUME NEW i \in 1 .. k \div 2  PROVE b[i] \in RecordsOf(g)
  <2>1. 2 * i \in 1 .. k /\ (2 * i + 1) \div 2 = i /\ (2 * i) % 2 = 0 /\ n + 2 * i \in 1 .. n + k
    BY <1>1
  <2>2. hs[2 * i] = <<b[i], 2>>
    BY <1>1, <2>1, SMTT(60)
  <2>3. n + 2 * i \in DOMAIN g /\ g[n + 2 * i] = <<b[i], 2>>
    BY <1>2, <2>1, <2>2
  <2>4. n + 2 * i \in Ends(g) /\ g[n + 2 * i][1] = b[i]
    BY <2>3 DEF Ends
  <2>5. QED
    BY <2>4 DEF RecordsOf
<1>6. \A r \in RecordsOf(g) : r \in RecordsOf(f) \cup {b[i] : i \in 1 .. k \div 2}
  BY <1>3 DEF RecordsOf
<1>7. RecordsOf(g) = RecordsOf(f) \cup {b[i] : i \in 1 .. k \div 2}
  BY <1>4, <1>5, <1>6
<1>8. QED
  BY <1>7 DEF g

-----------------------------------------------------------------------------
(* LogFiles: the records of one log.  b is its buffer, h the day of its    *)
(* open file, f its files, n the number of records accepted, cr and de the *)
(* ones lost in crashes and with deleted files.                            *)

Ordered(b, f, n) ==
    /\ n \in Nat /\ b \in Seq(Nat) /\ f \in [Days -> Seq(Half)]
    /\ \A i \in DOMAIN b : b[i] <= n
    /\ \A i, j \in DOMAIN b : i < j => b[i] < b[j]
    /\ \A d \in Days : \A i \in DOMAIN f[d] : f[d][i][1] <= n /\ \A j \in DOMAIN b : f[d][i][1] < b[j]
    /\ \A d \in Days : \A i, j \in DOMAIN f[d] : i < j => Key(f[d][i]) < Key(f[d][j])
    /\ \A d, e \in Days : d < e => \A i \in DOMAIN f[d] : \A j \in DOMAIN f[e] : Key(f[d][i]) < Key(f[e][j])

Stored(f) == UNION {RecordsOf(f[d]) : d \in Days}

Placed(b, f, n, cr, de) ==
    /\ 1 .. n = Range(b) \cup cr \cup de \cup Stored(f)
    /\ Range(b) \cap (cr \cup de) = {}
    /\ Stored(f) \cap (cr \cup de) = {}

\* nothing is written to the file of an earlier day than one that has records
Latest(h, f) == h # 0 => h \in Days /\ \A d \in Days : f[d] # <<>> => d <= h

LEMMA KeyParts ==
    ASSUME NEW x \in Half
    PROVE  x[1] \in Nat /\ x[2] \in {1, 2} /\ Key(x) \in Nat /\ Key(x) = 2 * x[1] + x[2]
  BY DEF Half, Key

LEMMA KeyLess ==
    ASSUME NEW x \in Half, NEW y \in Half, x[1] < y[1]
    PROVE  Key(x) < Key(y)
<1> DEFINE a == x[1]
           b == x[2]
           c == y[1]
           d == y[2]
<1>1. a \in Nat /\ c \in Nat /\ b \in {1, 2} /\ d \in {1, 2} /\ a < c
  BY DEF Half
<1>2. Key(x) = 2 * a + b /\ Key(y) = 2 * c + d
  BY DEF Key
<1> HIDE DEF a, b, c, d
<1>3. QED
  BY <1>1, <1>2

\* A record that is in two places of the files is the same one.
LEMMA StoredOnce ==
    ASSUME NEW b, NEW f, NEW n, Ordered(b, f, n), NEW d \in Days, NEW e \in Days, d # e
    PROVE  RecordsOf(f[d]) \cap RecordsOf(f[e]) = {}
<1> SUFFICES ASSUME NEW r, r \in RecordsOf(f[d]), r \in RecordsOf(f[e]) PROVE FALSE
  OBVIOUS
<1>1. PICK i \in DOMAIN f[d] : f[d][i][2] = 2 /\ f[d][i][1] = r
  BY DEF RecordsOf, Ends
<1>2. PICK j \in DOMAIN f[e] : f[e][j][2] = 2 /\ f[e][j][1] = r
  BY DEF RecordsOf, Ends
<1>3. Key(f[d][i]) = Key(f[e][j])
  BY <1>1, <1>2 DEF Key
<1>4. Key(f[d][i]) \in Nat
  <2>1. f[d] \in Seq(Half)
    BY DEF Ordered
  <2>2. f[d][i] \in Half
    BY <2>1
  <2>3. QED
    BY <2>2, KeyParts
<1>5. d < e \/ e < d
  BY LogAssumption DEF Days
<1>6. Key(f[d][i]) < Key(f[e][j]) \/ Key(f[e][j]) < Key(f[d][i])
  BY <1>5 DEF Ordered
<1>7. QED
  BY <1>3, <1>4, <1>6

\* write: the record gets the next number.
LEMMA WriteOrdered ==
    ASSUME NEW b, NEW f, NEW n, Ordered(b, f, n)
    PROVE  Ordered(Append(b, n + 1), f, n + 1)
<1> DEFINE c == Append(b, n + 1)
           m == Len(b)
<1>1. n \in Nat /\ b \in Seq(Nat) /\ f \in [Days -> Seq(Half)]
  BY DEF Ordered
<1>2. /\ m \in Nat /\ DOMAIN b = 1 .. m /\ c \in Seq(Nat) /\ DOMAIN c = 1 .. m + 1 /\ c[m + 1] = n + 1
      /\ \A i \in 1 .. m : c[i] = b[i] /\ b[i] \in Nat
  BY <1>1
<1> HIDE DEF c, m
<1>3. \A i \in DOMAIN c : c[i] <= n + 1
  <2> TAKE i \in DOMAIN c
  <2>1. CASE i = m + 1
    BY <1>1, <1>2, <2>1
  <2>2. CASE i \in 1 .. m
    BY <1>1, <1>2, <2>2 DEF Ordered
  <2>3. QED
    BY <1>2, <2>1, <2>2
<1>4. \A i, j \in DOMAIN c : i < j => c[i] < c[j]
  <2> TAKE i, j \in DOMAIN c
  <2> SUFFICES ASSUME i < j PROVE c[i] < c[j]
    OBVIOUS
  <2>1. i \in 1 .. m /\ c[i] = b[i] /\ b[i] <= n /\ b[i] \in Nat
    BY <1>2 DEF Ordered
  <2>2. CASE j = m + 1
    BY <1>1, <1>2, <2>1, <2>2
  <2>3. CASE j \in 1 .. m
    BY <1>2, <2>1, <2>3 DEF Ordered
  <2>4. QED
    BY <1>2, <2>2, <2>3
<1>5. ASSUME NEW d \in Days, NEW i \in DOMAIN f[d]
      PROVE  f[d][i][1] <= n + 1 /\ \A j \in DOMAIN c : f[d][i][1] < c[j]
  <2>1. f[d][i][1] \in Nat /\ f[d][i][1] <= n /\ \A j \in DOMAIN b : f[d][i][1] < b[j]
    <3>1. f[d][i] \in Half
      BY <1>1
    <3>2. QED
      BY <3>1, KeyParts DEF Ordered
  <2> DEFINE x == f[d][i][1]
  <2> HIDE DEF x
  <2>2. x \in Nat /\ x <= n /\ \A j \in DOMAIN b : x < b[j]
    BY <2>1 DEF x
  <2>3. x <= n + 1 /\ x < n + 1
    BY <1>1, <2>2
  <2>4. ASSUME NEW j \in DOMAIN c  PROVE x < c[j]
    <3>1. CASE j = m + 1
      BY <1>2, <2>3, <3>1
    <3>2. CASE j \in 1 .. m
      BY <1>2, <2>2, <3>2
    <3>3. QED
      BY <1>2, <3>1, <3>2
  <2>5. QED
    BY <2>3, <2>4 DEF x
<1>6. QED
  BY <1>1, <1>2, <1>3, <1>4, <1>5 DEF Ordered, c

LEMMA WritePlaced ==
    ASSUME NEW b, NEW f, NEW n, NEW cr, NEW de, Ordered(b, f, n), Placed(b, f, n, cr, de)
    PROVE  Placed(Append(b, n + 1), f, n + 1, cr, de)
<1> DEFINE c == Append(b, n + 1)
           m == Len(b)
<1>1. n \in Nat /\ b \in Seq(Nat)
  BY DEF Ordered
<1>2. /\ m \in Nat /\ DOMAIN b = 1 .. m /\ DOMAIN c = 1 .. m + 1 /\ c[m + 1] = n + 1
      /\ \A i \in 1 .. m : c[i] = b[i] /\ i \in DOMAIN c
  BY <1>1
<1> HIDE DEF c, m
<1>3. Range(c) = Range(b) \cup {n + 1}
  <2>1. \A i \in DOMAIN c : i = m + 1 \/ i \in 1 .. m
    BY <1>2
  <2>2. m + 1 \in DOMAIN c
    BY <1>2
  <2>3. QED
    BY <1>2, <2>1, <2>2 DEF Range
<1>4. n + 1 \notin 1 .. n /\ 1 .. n + 1 = (1 .. n) \cup {n + 1}
  BY <1>1
<1>5. QED
  BY <1>3, <1>4 DEF Placed, c

\* a flush, or a crash in a flush: k halves of the buffer are in the open file, the rest is gone.
LEMMA PartOrdered ==
    ASSUME NEW b, NEW f, NEW n, NEW h \in Days, Ordered(b, f, n), Latest(h, f),
           NEW k \in 0 .. 2 * Len(b), NEW hs, IsPart(hs, b, k)
    PROVE  Ordered(<<>>, [f EXCEPT ![h] = @ \o hs], n)
<1> DEFINE g == [f EXCEPT ![h] = @ \o hs]
           m == Len(f[h])
<1>1. n \in Nat /\ b \in Seq(Nat) /\ f \in [Days -> Seq(Half)] /\ f[h] \in Seq(Half) /\ hs \in Seq(Half) /\ Len(hs) = k
  BY DEF Ordered, IsPart
<1>2. /\ g \in [Days -> Seq(Half)] /\ (\A d \in Days \ {h} : g[d] = f[d]) /\ g[h] = f[h] \o hs
      /\ m \in Nat /\ DOMAIN f[h] = 1 .. m
  BY <1>1
<1>3. ASSUME NEW j \in DOMAIN g[h]
      PROVE  \/ j \in 1 .. m /\ g[h][j] = f[h][j]
             \/ \E i \in 1 .. k : j = m + i /\ g[h][j] = hs[i]
  <2>1. /\ DOMAIN g[h] = 1 .. m + k /\ k \in Nat
        /\ \A x \in 1 .. m : g[h][x] = f[h][x]
        /\ \A x \in 1 .. k : g[h][m + x] = hs[x]
    <3>1. f[h] \in Seq(Half) /\ hs \in Seq(Half) /\ Len(hs) = k
      BY <1>1
    <3>2. /\ DOMAIN (f[h] \o hs) = 1 .. Len(f[h]) + Len(hs)
          /\ \A x \in 1 .. Len(f[h]) : (f[h] \o hs)[x] = f[h][x]
          /\ \A x \in 1 .. Len(hs) : (f[h] \o hs)[Len(f[h]) + x] = hs[x]
      <4> DEFINE a == f[h]
      <4>1. a \in Seq(Half) /\ hs \in Seq(Half)
        BY <3>1
      <4> HIDE DEF a
      <4>2. /\ DOMAIN (a \o hs) = 1 .. Len(a) + Len(hs)
            /\ \A x \in 1 .. Len(a) : (a \o hs)[x] = a[x]
            /\ \A x \in 1 .. Len(hs) : (a \o hs)[Len(a) + x] = hs[x]
        BY <4>1
      <4>3. QED
        BY <4>2, Zenon DEF a
    <3> HIDE DEF g, m
    <3>3. QED
      BY <1>2, <3>1, <3>2 DEF m
  <2> HIDE DEF g, m
  <2>2. j \in 1 .. m \/ (j - m \in 1 .. k /\ j = m + (j - m))
    BY <1>2, <2>1
  <2>3. QED
    BY <2>1, <2>2
<1> HIDE DEF g, m
<1>4. Len(b) \in Nat /\ k \in Nat /\ k <= 2 * Len(b)
  BY <1>1
<1>5. ASSUME NEW i \in 1 .. k
      PROVE  /\ hs[i] \in Half /\ hs[i][1] = b[(i + 1) \div 2] /\ hs[i][2] = 2 - (i % 2)
             /\ (i + 1) \div 2 \in DOMAIN b /\ hs[i][1] <= n
  <2>1. i \in 1 .. 2 * Len(b)
    BY <1>4
  <2>2. (i + 1) \div 2 \in DOMAIN b
    BY <1>1, <1>4, <2>1, HalfOf
  <2>3. hs[i] = <<b[(i + 1) \div 2], 2 - (i % 2)>> /\ hs[i] \in Half
    BY <1>1 DEF IsPart
  <2>4. QED
    BY <2>2, <2>3 DEF Ordered
<1>6. ASSUME NEW i \in 1 .. k, NEW j \in 1 .. k, i < j  PROVE Key(hs[i]) < Key(hs[j])
  <2> DEFINE x == (i + 1) \div 2
             y == (j + 1) \div 2
  <2>1. x \in DOMAIN b /\ y \in DOMAIN b /\ x \in Int /\ y \in Int /\ b[x] \in Nat /\ b[y] \in Nat
    <3>1. x \in DOMAIN b /\ y \in DOMAIN b
      BY <1>5
    <3> HIDE DEF x, y
    <3>2. QED
      BY <1>1, <3>1
  <2>2. x < y \/ (x = y /\ i % 2 = 1 /\ j % 2 = 0)
    BY <1>6
  <2>3. i % 2 \in {0, 1} /\ j % 2 \in {0, 1}
    OBVIOUS
  <2>4. Key(hs[i]) = 2 * b[x] + (2 - (i % 2)) /\ Key(hs[j]) = 2 * b[y] + (2 - (j % 2))
    BY <1>5 DEF Key
  <2>5. x < y => b[x] < b[y]
    BY <2>1 DEF Ordered
  <2> HIDE DEF x, y
  <2>6. QED
    BY <2>1, <2>2, <2>3, <2>4, <2>5
<1>7. ASSUME NEW d \in Days, NEW i \in DOMAIN f[d], NEW j \in 1 .. k  PROVE Key(f[d][i]) < Key(hs[j])
  <2>1. f[d][i] \in Half
    BY <1>1
  <2>2. f[d][i][1] < b[(j + 1) \div 2]
    BY <1>5 DEF Ordered
  <2>3. f[d][i][1] < hs[j][1]
    BY <1>5, <2>2
  <2>4. QED
    BY <1>5, <2>1, <2>3, KeyLess
<1>8. \A d \in Days : \A i \in DOMAIN g[d] : g[d][i][1] <= n
  <2> TAKE d \in Days
  <2> TAKE i \in DOMAIN g[d]
  <2>1. CASE d # h
    BY <1>2, <2>1 DEF Ordered
  <2>2. CASE d = h
    BY <1>2, <1>3, <1>5, <2>2 DEF Ordered
  <2>3. QED
    BY <2>1, <2>2
<1>9. \A d \in Days : \A i, j \in DOMAIN g[d] : i < j => Key(g[d][i]) < Key(g[d][j])
  <2> TAKE d \in Days
  <2> TAKE i, j \in DOMAIN g[d]
  <2> SUFFICES ASSUME i < j PROVE Key(g[d][i]) < Key(g[d][j])
    OBVIOUS
  <2>1. CASE d # h
    BY <1>2, <2>1 DEF Ordered
  <2>2. CASE d = h
    <3>1. CASE j \in 1 .. m
      <4>1. i \in 1 .. m
        BY <1>2, <1>3, <2>2, <3>1
      <4>2. g[h][i] = f[h][i] /\ g[h][j] = f[h][j]
        BY <1>2, <1>3, <2>2, <3>1, <4>1
      <4>3. QED
        BY <1>2, <2>2, <3>1, <4>1, <4>2 DEF Ordered
    <3>2. CASE j \notin 1 .. m
      <4>1. PICK y \in 1 .. k : j = m + y /\ g[h][j] = hs[y]
        BY <1>3, <2>2, <3>2
      <4>2. CASE i \in 1 .. m
        <5>1. g[h][i] = f[h][i]
          BY <1>2, <1>3, <2>2, <4>2
        <5>2. QED
          BY <1>2, <1>7, <2>2, <4>1, <4>2, <5>1
      <4>3. CASE i \notin 1 .. m
        <5>1. PICK x \in 1 .. k : i = m + x /\ g[h][i] = hs[x]
          BY <1>3, <2>2, <4>3
        <5>2. x < y
          BY <1>2, <4>1, <5>1
        <5>3. QED
          BY <1>6, <2>2, <4>1, <5>1, <5>2
      <4>4. QED
        BY <4>2, <4>3
    <3>3. QED
      BY <3>1, <3>2
  <2>3. QED
    BY <2>1, <2>2
<1>10. \A d, e \in Days : d < e => \A i \in DOMAIN g[d] : \A j \in DOMAIN g[e] : Key(g[d][i]) < Key(g[e][j])
  <2> TAKE d, e \in Days
  <2> SUFFICES ASSUME d < e, NEW i \in DOMAIN g[d], NEW j \in DOMAIN g[e] PROVE Key(g[d][i]) < Key(g[e][j])
    OBVIOUS
  <2>1. d # e
    BY LogAssumption DEF Days
  <2>2. CASE d # h /\ e # h
    BY <1>2, <2>2 DEF Ordered
  <2>3. CASE e = h
    <3>1. d # h /\ g[d] = f[d]
      BY <1>2, <2>1, <2>3
    <3>2. CASE j \in 1 .. m
      <4>1. g[h][j] = f[h][j]
        BY <1>2, <1>3, <2>3, <3>2
      <4>3. g[e][j] = f[e][j] /\ j \in DOMAIN f[e]
        BY <1>2, <2>3, <3>2, <4>1
      <4>2. QED
        BY <3>1, <4>3 DEF Ordered
    <3>3. CASE j \notin 1 .. m
      <4>1. PICK y \in 1 .. k : g[e][j] = hs[y]
        BY <1>3, <2>3, <3>3
      <4>2. QED
        BY <1>7, <3>1, <4>1
    <3>4. QED
      BY <3>2, <3>3
  <2>4. CASE d = h
    <3>1. e # h /\ g[e] = f[e] /\ f[e] # <<>>
      <4>1. e # h /\ g[e] = f[e]
        BY <1>2, <2>1, <2>4
      <4>2. f[e] # <<>>
        BY <4>1
      <4>3. QED
        BY <4>1, <4>2
    <3>2. e <= h /\ h # 0
      BY <3>1, LogAssumption DEF Latest, Days
    <3>3. QED
      BY <2>4, <3>2, LogAssumption DEF Days
  <2>5. QED
    BY <2>2, <2>3, <2>4
<1>11. Ordered(<<>>, g, n)
  BY <1>1, <1>2, <1>8, <1>9, <1>10 DEF Ordered
<1>12. QED
  BY <1>11 DEF g

LEMMA StoredBelowBuffer ==
    ASSUME NEW b, NEW f, NEW n, Ordered(b, f, n), NEW r \in Stored(f), NEW i \in DOMAIN b
    PROVE  r < b[i] /\ r # b[i]
<1>1. PICK d \in Days : r \in RecordsOf(f[d])
  BY DEF Stored
<1>2. PICK j \in DOMAIN f[d] : r = f[d][j][1]
  BY <1>1 DEF RecordsOf, Ends
<1>3. f[d][j] \in Half /\ b[i] \in Nat
  <2>1. f[d] \in Seq(Half) /\ b \in Seq(Nat)
    BY DEF Ordered
  <2>2. QED
    BY <2>1
<1>4. r \in Nat /\ r < b[i]
  BY <1>2, <1>3, KeyParts DEF Ordered
<1>5. QED
  BY <1>3, <1>4

LEMMA PartPlaced ==
    ASSUME NEW b, NEW f, NEW n, NEW cr, NEW de, NEW h \in Days, Ordered(b, f, n), Placed(b, f, n, cr, de),
           NEW k \in 0 .. 2 * Len(b), NEW hs, IsPart(hs, b, k)
    PROVE  Placed(<<>>, [f EXCEPT ![h] = @ \o hs], n, cr \cup {b[i] : i \in k \div 2 + 1 .. Len(b)}, de)
<1> DEFINE g == [f EXCEPT ![h] = @ \o hs]
           m == k \div 2
           in == {b[i] : i \in 1 .. m}
           out == {b[i] : i \in m + 1 .. Len(b)}
<1>1. b \in Seq(Nat) /\ f \in [Days -> Seq(Half)] /\ f[h] \in Seq(Half)
  BY DEF Ordered
<1>2. Len(b) \in Nat /\ m \in 0 .. Len(b) /\ DOMAIN b = 1 .. Len(b)
  BY <1>1
<1>3. RecordsOf(g[h]) = RecordsOf(f[h]) \cup in /\ \A d \in Days \ {h} : g[d] = f[d]
  <2>1. g[h] = f[h] \o hs /\ \A d \in Days \ {h} : g[d] = f[d]
    BY <1>1
  <2>2. RecordsOf(f[h] \o hs) = RecordsOf(f[h]) \cup in
    BY <1>1, RecordsAfter
  <2>3. QED
    BY <2>1, <2>2
<1> HIDE DEF g, m
<1>4. Stored(g) = Stored(f) \cup in
  <2>1. \A r \in Stored(g) : r \in Stored(f) \cup in
    BY <1>3 DEF Stored
  <2>2. \A r \in Stored(f) : r \in Stored(g)
    BY <1>3 DEF Stored
  <2>3. in \subseteq Stored(g)
    BY <1>3 DEF Stored
  <2> HIDE DEF in
  <2>4. QED
    BY <2>1, <2>2, <2>3
<1>5. Range(b) = in \cup out
  <2>1. \A i \in DOMAIN b : i \in 1 .. m \/ i \in m + 1 .. Len(b)
    BY <1>2
  <2>2. \A i \in 1 .. m : i \in DOMAIN b
    BY <1>2
  <2>3. \A i \in m + 1 .. Len(b) : i \in DOMAIN b
    BY <1>2
  <2>4. QED
    BY <2>1, <2>2, <2>3 DEF Range
<1>6. in \cap out = {}
  <2> SUFFICES ASSUME NEW i \in 1 .. m, NEW j \in m + 1 .. Len(b), b[i] = b[j] PROVE FALSE
    OBVIOUS
  <2>1. i \in DOMAIN b /\ j \in DOMAIN b /\ i < j /\ b[i] \in Nat
    BY <1>1, <1>2
  <2>2. b[i] < b[j]
    BY <2>1 DEF Ordered
  <2>3. QED
    BY <2>1, <2>2
<1>7. Stored(f) \cap Range(b) = {}
  BY StoredBelowBuffer DEF Range
<1>8. Range(<<>>) = {}
  BY DEF Range
<1> HIDE DEF in, out
<1>9. Placed(<<>>, g, n, cr \cup out, de)
  BY <1>4, <1>5, <1>6, <1>7, <1>8 DEF Placed
<1>10. QED
  BY <1>9 DEF g, out, m

LEMMA PartLatest ==
    ASSUME NEW f \in [Days -> Seq(Half)], NEW h \in Days, Latest(h, f), NEW hs
    PROVE  Latest(h, [f EXCEPT ![h] = @ \o hs])
<1> DEFINE g == [f EXCEPT ![h] = @ \o hs]
<1>1. \A d \in Days \ {h} : g[d] = f[d]
  OBVIOUS
<1> HIDE DEF g
<1>2. Latest(h, g)
  BY <1>1, LogAssumption DEF Latest, Days
<1>3. QED
  BY <1>2 DEF g

\* a crash while no file is open: the buffer is gone.
LEMMA LosePlaced ==
    ASSUME NEW b, NEW f, NEW n, NEW cr, NEW de, Ordered(b, f, n), Placed(b, f, n, cr, de)
    PROVE  /\ Ordered(<<>>, f, n)
           /\ Placed(<<>>, f, n, cr \cup {b[i] : i \in 1 .. Len(b)}, de)
<1>1. b \in Seq(Nat)
  BY DEF Ordered
<1>2. {b[i] : i \in 1 .. Len(b)} = Range(b)
  BY <1>1 DEF Range
<1>3. Stored(f) \cap Range(b) = {}
  BY StoredBelowBuffer DEF Range
<1>4. Range(<<>>) = {}
  BY DEF Range
<1>5. Placed(<<>>, f, n, cr \cup Range(b), de)
  BY <1>3, <1>4 DEF Placed
<1>6. Ordered(<<>>, f, n)
  BY DEF Ordered
<1>7. QED
  BY <1>2, <1>5, <1>6

\* deleteOldFiles, whatever the days.
Without(f, O) == [d \in Days |-> IF d \in O THEN <<>> ELSE f[d]]

LEMMA DeleteOrdered ==
    ASSUME NEW b, NEW f, NEW n, NEW O \in SUBSET Days, Ordered(b, f, n)
    PROVE  Ordered(b, Without(f, O), n)
<1> DEFINE g == Without(f, O)
<1>1. f \in [Days -> Seq(Half)]
  BY DEF Ordered
<1>2. g \in [Days -> Seq(Half)] /\ \A d \in Days : g[d] = IF d \in O THEN <<>> ELSE f[d]
  BY <1>1 DEF Without
<1>3. DOMAIN <<>> = {}
  OBVIOUS
<1> HIDE DEF g
<1>4. \A d \in Days : \A i \in DOMAIN g[d] : d \notin O /\ g[d] = f[d] /\ i \in DOMAIN f[d]
  BY <1>2, <1>3
<1>5. Ordered(b, g, n)
  <2>1. \A d \in Days : \A i \in DOMAIN g[d] : g[d][i][1] <= n /\ \A j \in DOMAIN b : g[d][i][1] < b[j]
    BY <1>4 DEF Ordered
  <2>2. \A d \in Days : \A i, j \in DOMAIN g[d] : i < j => Key(g[d][i]) < Key(g[d][j])
    BY <1>4 DEF Ordered
  <2>3. \A d, e \in Days : d < e => \A i \in DOMAIN g[d] : \A j \in DOMAIN g[e] : Key(g[d][i]) < Key(g[e][j])
    BY <1>4 DEF Ordered
  <2>4. QED
    BY <1>2, <2>1, <2>2, <2>3 DEF Ordered
<1>6. QED
  BY <1>5 DEF g

LEMMA DeletePlaced ==
    ASSUME NEW b, NEW f, NEW n, NEW cr, NEW de, NEW O \in SUBSET Days, Ordered(b, f, n), Placed(b, f, n, cr, de)
    PROVE  Placed(b, Without(f, O), n, cr, de \cup UNION {RecordsOf(f[d]) : d \in O})
<1> DEFINE g == Without(f, O)
           gone == UNION {RecordsOf(f[d]) : d \in O}
<1>1. \A d \in Days : RecordsOf(g[d]) = IF d \in O THEN {} ELSE RecordsOf(f[d])
  <2>1. RecordsOf(<<>>) = {}
    BY DEF RecordsOf, Ends
  <2>2. QED
    BY <2>1 DEF Without
<1> HIDE DEF g
<1>2. Stored(f) = Stored(g) \cup gone
  <2>1. \A r \in Stored(f) : r \in Stored(g) \cup gone
    BY <1>1 DEF Stored
  <2>2. \A r \in Stored(g) \cup gone : r \in Stored(f)
    BY <1>1 DEF Stored
  <2>3. QED
    BY <2>1, <2>2
<1>3. Stored(g) \cap gone = {}
  <2> SUFFICES ASSUME NEW d \in Days, NEW e \in O, NEW r \in RecordsOf(g[d]), r \in RecordsOf(f[e]) PROVE FALSE
    BY DEF Stored
  <2>1. d \notin O /\ r \in RecordsOf(f[d])
    BY <1>1
  <2>2. QED
    BY <2>1, StoredOnce
<1>4. Stored(f) \cap Range(b) = {}
  BY StoredBelowBuffer DEF Range
<1> HIDE DEF gone
<1>5. Placed(b, g, n, cr, de \cup gone)
  BY <1>2, <1>3, <1>4 DEF Placed
<1>6. QED
  BY <1>5 DEF g, gone

LEMMA DeleteLatest ==
    ASSUME NEW f, NEW O, NEW h, Latest(h, f)
    PROVE  Latest(h, Without(f, O))
  BY DEF Latest, Without

-----------------------------------------------------------------------------
(* LogFiles: where the records of a file begin *)

\* halves in pairs, the last one perhaps without its second
Aligned(f) ==
    /\ \A j \in DOMAIN f : f[j][2] = 2 - (j % 2)
    /\ \A j \in DOMAIN f : j % 2 = 0 => f[j][1] = f[j - 1][1]

Even(n) == n % 2 = 0

LEMMA PartAligned ==
    ASSUME NEW f \in Seq(Half), NEW b \in Seq(Nat), NEW k \in 0 .. 2 * Len(b), NEW hs, IsPart(hs, b, k),
           Aligned(f), Even(Len(f))
    PROVE  Aligned(f \o hs) /\ (k = 2 * Len(b) => Even(Len(f \o hs)))
<1> DEFINE g == f \o hs
           n == Len(f)
<1>1. /\ hs \in Seq(Half) /\ Len(hs) = k /\ n \in Nat /\ k \in Nat /\ Len(b) \in Nat
      /\ \A i \in 1 .. k : hs[i] = <<b[(i + 1) \div 2], 2 - (i % 2)>>
  BY DEF IsPart
<1>2. /\ DOMAIN g = 1 .. n + k /\ DOMAIN f = 1 .. n /\ Len(g) = n + k
      /\ \A j \in 1 .. n : g[j] = f[j]
      /\ \A i \in 1 .. k : g[n + i] = hs[i]
  <2>1. hs \in Seq(Half) /\ Len(hs) = k
    BY <1>1
  <2>2. /\ DOMAIN (f \o hs) = 1 .. Len(f) + Len(hs) /\ Len(f \o hs) = Len(f) + Len(hs)
        /\ \A j \in 1 .. Len(f) : (f \o hs)[j] = f[j]
        /\ \A i \in 1 .. Len(hs) : (f \o hs)[Len(f) + i] = hs[i]
    BY <2>1, SMTT(60)
  <2>3. DOMAIN f = 1 .. n
    OBVIOUS
  <2> HIDE DEF n, g
  <2>4. QED
    BY <2>1, <2>2, <2>3 DEF n, g
<1> HIDE DEF g, n
<1>3. n % 2 = 0
  BY DEF n, Even
<1>4. ASSUME NEW j \in DOMAIN g
      PROVE  g[j][2] = 2 - (j % 2) /\ (j % 2 = 0 => g[j][1] = g[j - 1][1])
  <2>1. CASE j \in 1 .. n
    <3>1. g[j][2] = 2 - (j % 2)
      BY <1>2, <2>1 DEF Aligned
    <3>2. ASSUME j % 2 = 0  PROVE g[j][1] = g[j - 1][1]
      <4>1. j - 1 \in 1 .. n
        BY <1>1, <2>1, <3>2
      <4>2. g[j] = f[j] /\ g[j - 1] = f[j - 1] /\ j \in DOMAIN f
        BY <1>2, <2>1, <4>1
      <4>3. QED
        BY <3>2, <4>2 DEF Aligned
    <3>3. QED
      BY <3>1, <3>2
  <2>2. CASE j \notin 1 .. n
    <3>1. PICK i \in 1 .. k : j = n + i
      <4>1. j - n \in 1 .. k /\ j = n + (j - n)
        BY <1>1, <1>2, <2>2
      <4>2. QED
        BY <4>1
    <3>2. j % 2 = i % 2
      <4>1. n \in Nat /\ i \in Nat /\ j = n + i
        BY <1>1, <3>1
      <4>2. QED
        BY <1>3, <4>1
    <3>3. g[j] = <<b[(i + 1) \div 2], 2 - (i % 2)>>
      BY <1>1, <1>2, <3>1
    <3>4. ASSUME j % 2 = 0  PROVE g[j][1] = g[j - 1][1]
      <4>1. i \in Nat /\ i % 2 = 0 /\ i >= 1
        BY <1>1, <3>2, <3>4
      <4>2. i - 1 \in 1 .. k /\ (i - 1) + 1 = i
        <5>1. i # 1
          BY <4>1
        <5>2. QED
          BY <1>1, <4>1, <5>1
      <4>3. (i + 1) \div 2 = i \div 2
        BY <4>1
      <4>4. j - 1 = n + (i - 1)
        BY <1>1, <3>1
      <4>5. g[j - 1] = hs[i - 1]
        BY <1>2, <4>2, <4>4
      <4>6. hs[i - 1] = <<b[((i - 1) + 1) \div 2], 2 - ((i - 1) % 2)>>
        BY <1>1, <4>2
      <4>7. hs[i - 1][1] = b[i \div 2]
        BY <4>2, <4>6
      <4>8. QED
        BY <3>3, <4>3, <4>5, <4>7
    <3>5. QED
      BY <3>2, <3>3, <3>4
  <2>3. QED
    BY <2>1, <2>2
<1>5. Aligned(g)
  BY <1>4 DEF Aligned
<1>6. k = 2 * Len(b) => Even(Len(g))
  <2>1. Len(g) = n + k
    BY <1>2
  <2>2. QED
    BY <1>1, <1>3, <2>1 DEF Even
<1>7. QED
  BY <1>5, <1>6 DEF g

-----------------------------------------------------------------------------
(* LogFiles: what a thread has to do *)

OpNames == {"flush", "close", "date", "open", "delete", "join"}
Ops == OpNames \X (Types \cup {"none"}) \X Nat

LEMMA IsOp ==
    ASSUME NEW op \in OpNames, NEW type \in Types \cup {"none"}, NEW day \in Nat
    PROVE  <<op, type, day>> \in Ops
  BY Zenon DEF Ops

LEMMA EachOp ==
    ASSUME NEW op \in OpNames, NEW day \in Nat
    PROVE  /\ Each(op, day) \in Seq(Ops) /\ Len(Each(op, day)) = Len(LogTypes)
           /\ \A i \in 1 .. Len(LogTypes) : Each(op, day)[i] = <<op, LogTypes[i], day>>
<1> DEFINE n == Len(LogTypes)
           e(i) == <<op, LogTypes[i], day>>
<1>1. LogTypes \in Seq(STRING)
  BY LogAssumption
<1>2. n \in Nat /\ DOMAIN LogTypes = 1 .. n /\ \A i \in 1 .. n : LogTypes[i] \in Types
  BY <1>1 DEF Types, Range
<1>3. \A i \in 1 .. n : e(i) \in Ops
  BY <1>2, IsOp, Zenon
<1>4. Each(op, day) = [i \in 1 .. n |-> e(i)]
  BY <1>2 DEF Each
<1> HIDE DEF n, e
<1>5. Each(op, day) \in Seq(Ops) /\ Len(Each(op, day)) = n /\ \A i \in 1 .. n : Each(op, day)[i] = e(i)
  BY <1>2, <1>3, <1>4
<1>6. QED
  BY <1>5 DEF n, e

LEMMA ConcatOf ==
    ASSUME NEW S, NEW a \in Seq(S), NEW b \in Seq(S)
    PROVE  /\ a \o b \in Seq(S) /\ Len(a \o b) = Len(a) + Len(b)
           /\ \A i \in 1 .. Len(a) + Len(b) : (a \o b)[i] = IF i <= Len(a) THEN a[i] ELSE b[i - Len(a)]
  OBVIOUS

\* A rotation, operation by operation.
LEMMA RotateAt ==
    ASSUME NEW day \in Nat
    PROVE  LET n == Len(LogTypes)
               w == RotateFiles(day) IN
           /\ n \in Nat /\ w \in Seq(Ops) /\ Len(w) = 3 * n + 2
           /\ \A i \in 1 .. n : w[i] = <<"flush", LogTypes[i], 0>>
           /\ \A i \in 1 .. n : w[n + i] = <<"close", LogTypes[i], 0>>
           /\ w[2 * n + 1] = <<"date", "none", day>>
           /\ \A i \in 1 .. n : w[2 * n + 1 + i] = <<"open", LogTypes[i], day>>
           /\ w[3 * n + 2] = <<"delete", "none", 0>>
<1> DEFINE n == Len(LogTypes)
           a == Each("flush", 0)
           b == Each("close", 0)
           c == <<<<"date", "none", day>>>>
           d == Each("open", day)
           e == <<<<"delete", "none", 0>>>>
           w1 == a \o b
           w2 == w1 \o c
           w3 == w2 \o d
           w4 == w3 \o e
<1>1. n \in Nat
  <2>1. LogTypes \in Seq(STRING)
    BY LogAssumption
  <2>2. QED
    BY <2>1
<1>2. a \in Seq(Ops) /\ Len(a) = n /\ \A i \in 1 .. n : a[i] = <<"flush", LogTypes[i], 0>>
  BY EachOp, Zenon DEF OpNames
<1>3. b \in Seq(Ops) /\ Len(b) = n /\ \A i \in 1 .. n : b[i] = <<"close", LogTypes[i], 0>>
  BY EachOp, Zenon DEF OpNames
<1>4. c \in Seq(Ops) /\ Len(c) = 1 /\ c[1] = <<"date", "none", day>>
  <2> DEFINE op == <<"date", "none", day>>
  <2>1. op \in Ops
    BY IsOp, Zenon DEF OpNames
  <2> HIDE DEF op
  <2>2. <<op>> \in Seq(Ops) /\ Len(<<op>>) = 1 /\ <<op>>[1] = op
    BY <2>1
  <2>3. QED
    BY <2>2, Zenon DEF op
<1>5. d \in Seq(Ops) /\ Len(d) = n /\ \A i \in 1 .. n : d[i] = <<"open", LogTypes[i], day>>
  BY EachOp, Zenon DEF OpNames
<1>6. e \in Seq(Ops) /\ Len(e) = 1 /\ e[1] = <<"delete", "none", 0>>
  <2> DEFINE op == <<"delete", "none", 0>>
  <2>1. op \in Ops
    BY IsOp, Zenon DEF OpNames
  <2> HIDE DEF op
  <2>2. <<op>> \in Seq(Ops) /\ Len(<<op>>) = 1 /\ <<op>>[1] = op
    BY <2>1
  <2>3. QED
    BY <2>2, Zenon DEF op
<1>7. RotateFiles(day) = w4
  BY DEF RotateFiles, FlushBuffer, CloseAllFiles
<1> HIDE DEF n, a, b, c, d, e
<1>8. /\ w1 \in Seq(Ops) /\ Len(w1) = 2 * n
      /\ \A i \in 1 .. n : w1[i] = a[i] /\ w1[n + i] = b[i]
  <2>1. a \in Seq(Ops) /\ b \in Seq(Ops) /\ Len(a) = n /\ Len(b) = n
    BY <1>2, <1>3
  <2>2. /\ w1 \in Seq(Ops) /\ Len(w1) = Len(a) + Len(b)
        /\ \A i \in 1 .. Len(a) + Len(b) : w1[i] = IF i <= Len(a) THEN a[i] ELSE b[i - Len(a)]
    BY <2>1, ConcatOf
  <2> HIDE DEF w1
  <2>3. QED
    BY <1>1, <2>1, <2>2
<1> HIDE DEF w1
<1>9. /\ w2 \in Seq(Ops) /\ Len(w2) = 2 * n + 1
      /\ \A i \in 1 .. 2 * n : w2[i] = w1[i]
      /\ w2[2 * n + 1] = c[1]
  <2>1. w1 \in Seq(Ops) /\ c \in Seq(Ops) /\ Len(w1) = 2 * n /\ Len(c) = 1
    BY <1>4, <1>8, Zenon
  <2>2. /\ w2 \in Seq(Ops) /\ Len(w2) = Len(w1) + Len(c)
        /\ \A i \in 1 .. Len(w1) + Len(c) : w2[i] = IF i <= Len(w1) THEN w1[i] ELSE c[i - Len(w1)]
    BY <2>1, ConcatOf
  <2> HIDE DEF w2
  <2>3. QED
    BY <1>1, <2>1, <2>2
<1> HIDE DEF w2
<1>10. /\ w3 \in Seq(Ops) /\ Len(w3) = 3 * n + 1
       /\ \A i \in 1 .. 2 * n + 1 : w3[i] = w2[i]
       /\ \A i \in 1 .. n : w3[2 * n + 1 + i] = d[i]
  <2>1. w2 \in Seq(Ops) /\ d \in Seq(Ops) /\ Len(w2) = 2 * n + 1 /\ Len(d) = n
    BY <1>5, <1>9
  <2>2. /\ w3 \in Seq(Ops) /\ Len(w3) = Len(w2) + Len(d)
        /\ \A i \in 1 .. Len(w2) + Len(d) : w3[i] = IF i <= Len(w2) THEN w2[i] ELSE d[i - Len(w2)]
    BY <2>1, ConcatOf
  <2> HIDE DEF w3
  <2>3. QED
    BY <1>1, <2>1, <2>2, SMTT(60)
<1> HIDE DEF w3
<1>11. /\ w4 \in Seq(Ops) /\ Len(w4) = 3 * n + 2
       /\ \A i \in 1 .. 3 * n + 1 : w4[i] = w3[i]
       /\ w4[3 * n + 2] = e[1]
  <2>1. w3 \in Seq(Ops) /\ e \in Seq(Ops) /\ Len(w3) = 3 * n + 1 /\ Len(e) = 1
    BY <1>6, <1>10
  <2>2. /\ w4 \in Seq(Ops) /\ Len(w4) = Len(w3) + Len(e)
        /\ \A i \in 1 .. Len(w3) + Len(e) : w4[i] = IF i <= Len(w3) THEN w3[i] ELSE e[i - Len(w3)]
    BY <2>1, ConcatOf
  <2> HIDE DEF w4
  <2>3. \A i \in 1 .. 3 * n + 1 : i \in 1 .. (3 * n + 1) + 1 /\ i <= 3 * n + 1
    BY <1>1
  <2>4. \A i \in 1 .. 3 * n + 1 : w4[i] = w3[i]
    BY <2>1, <2>2, <2>3
  <2>5. 3 * n + 2 \in 1 .. (3 * n + 1) + 1 /\ ~ (3 * n + 2 <= 3 * n + 1) /\ 3 * n + 2 - (3 * n + 1) = 1
    BY <1>1
  <2>6. w4[3 * n + 2] = e[1]
    BY <2>1, <2>2, <2>5
  <2>7. (3 * n + 1) + 1 = 3 * n + 2
    BY <1>1
  <2>8. QED
    BY <2>1, <2>2, <2>4, <2>6, <2>7
<1> HIDE DEF w4
<1>12. \A i \in 1 .. n : /\ w4[i] = a[i] /\ w4[n + i] = b[i] /\ w4[2 * n + 1 + i] = d[i]
  <2> TAKE i \in 1 .. n
  <2>1. /\ i \in 1 .. 3 * n + 1 /\ i \in 1 .. 2 * n + 1 /\ i \in 1 .. 2 * n
        /\ n + i \in 1 .. 3 * n + 1 /\ n + i \in 1 .. 2 * n + 1 /\ n + i \in 1 .. 2 * n
    BY <1>1
  <2>2. w4[i] = w1[i] /\ w4[n + i] = w1[n + i]
    BY <1>9, <1>10, <1>11, <2>1
  <2>3. 2 * n + 1 + i \in 1 .. 3 * n + 1
    BY <1>1
  <2>4. w1[i] = a[i] /\ w1[n + i] = b[i]
    BY <1>8
  <2>6. w4[2 * n + 1 + i] = d[i]
    BY <1>10, <1>11, <2>3
  <2>7. QED
    BY <2>2, <2>4, <2>6
<1>13. w4[2 * n + 1] = c[1]
  <2>1. 2 * n + 1 \in 1 .. 3 * n + 1 /\ 2 * n + 1 \in 1 .. 2 * n + 1
    BY <1>1
  <2>2. QED
    BY <1>9, <1>10, <1>11, <2>1
<1>14. QED
  BY <1>1, <1>2, <1>3, <1>4, <1>5, <1>6, <1>7, <1>11, <1>12, <1>13 DEF n

Has(w, op) == \E i \in DOMAIN w : w[i][1] = op
Closes(w, type) == \E i \in DOMAIN w : w[i][1] = "close" /\ w[i][2] = type

\* Files are closed before the date is set, opened and deleted after it, and whoever has a date to
\* set or a file to open has to delete afterwards.
Shape(w) ==
    /\ \A i, j \in DOMAIN w : w[j][1] = "date" => /\ w[i][1] = "close" => i < j
                                                  /\ w[i][1] \in {"open", "delete"} => j < i
                                                  /\ w[i][1] = "date" => i = j
    /\ \A i \in DOMAIN w : w[i][1] \in {"date", "open"} => \E j \in DOMAIN w : j > i /\ w[j][1] = "delete"

\* The date to set is not before the present one, cd, nor after today, td, and it is the day of the
\* files to open; once it is set, that is the present one.
Script(w, cd, td) ==
    /\ w \in Seq(Ops) /\ Shape(w)
    /\ \A i \in DOMAIN w : w[i][1] = "date" => w[i][3] \in cd .. td
    /\ \A i \in DOMAIN w : w[i][1] = "open" =>
          /\ \A j \in DOMAIN w : w[j][1] = "date" => w[j][3] = w[i][3]
          /\ ~ Has(w, "date") => w[i][3] = cd

LEMMA QuietScript ==
    ASSUME NEW w \in Seq(Ops), NEW cd, NEW td, \A i \in DOMAIN w : w[i][1] \notin {"date", "open", "delete"}
    PROVE  Script(w, cd, td) /\ ~ Has(w, "date") /\ ~ Has(w, "delete")
  BY DEF Script, Shape, Has

LEMMA TailAt ==
    ASSUME NEW S, NEW w \in Seq(S), w # <<>>
    PROVE  /\ Tail(w) \in Seq(S) /\ Head(w) = w[1] /\ 1 \in DOMAIN w /\ DOMAIN w \subseteq Nat
           /\ DOMAIN Tail(w) \subseteq Nat
           /\ \A i \in DOMAIN Tail(w) : i + 1 \in DOMAIN w /\ Tail(w)[i] = w[i + 1]
           /\ \A i \in DOMAIN w : i # 1 => i - 1 \in DOMAIN Tail(w) /\ Tail(w)[i - 1] = w[i]
<1> DEFINE n == Len(w)
           v == Tail(w)
<1>1. /\ n \in Nat \ {0} /\ DOMAIN w = 1 .. n /\ v \in Seq(S) /\ DOMAIN v = 1 .. n - 1 /\ Head(w) = w[1]
      /\ \A i \in 1 .. n - 1 : v[i] = w[i + 1]
  OBVIOUS
<1> HIDE DEF n, v
<1>2. \A i \in DOMAIN v : i + 1 \in DOMAIN w /\ v[i] = w[i + 1]
  BY <1>1
<1>3. ASSUME NEW i \in DOMAIN w, i # 1  PROVE i - 1 \in DOMAIN v /\ v[i - 1] = w[i]
  <2>1. i - 1 \in 1 .. n - 1 /\ (i - 1) + 1 = i
    BY <1>1, <1>3
  <2>2. v[i - 1] = w[(i - 1) + 1]
    BY <1>1, <2>1
  <2>3. QED
    BY <1>1, <2>1, <2>2
<1>4. 1 \in DOMAIN w /\ DOMAIN w \subseteq Nat /\ DOMAIN v \subseteq Nat
  BY <1>1
<1>5. QED
  BY <1>1, <1>2, <1>3, <1>4 DEF v

\* A thread goes on to its next operation.
LEMMA TailScript ==
    ASSUME NEW w, NEW cd \in Nat, NEW td \in Nat, Script(w, cd, td), w # <<>>
    PROVE  LET v == Tail(w) IN
           /\ Head(w)[1] # "date" => Script(v, cd, td)
           /\ Head(w)[1] = "date" => Head(w)[3] \in cd .. td /\ Script(v, Head(w)[3], td) /\ ~ Has(v, "date")
           /\ \A op : Has(v, op) => Has(w, op)
           /\ \A op : Has(w, op) => Head(w)[1] = op \/ Has(v, op)
           /\ \A type : Closes(w, type) => Closes(v, type) \/ (Head(w)[1] = "close" /\ Head(w)[2] = type)
<1> DEFINE v == Tail(w)
<1>1. w \in Seq(Ops)
  BY DEF Script
<1>2. /\ v \in Seq(Ops) /\ Head(w) = w[1] /\ 1 \in DOMAIN w /\ DOMAIN w \subseteq Nat /\ DOMAIN v \subseteq Nat
      /\ \A i \in DOMAIN v : i + 1 \in DOMAIN w /\ v[i] = w[i + 1]
      /\ \A i \in DOMAIN w : i # 1 => i - 1 \in DOMAIN v /\ v[i - 1] = w[i]
  BY <1>1, TailAt
<1> HIDE DEF v
<1>3. \A op : Has(v, op) => Has(w, op)
  BY <1>2 DEF Has
<1>4. \A op : Has(w, op) => Head(w)[1] = op \/ Has(v, op)
  <2> SUFFICES ASSUME NEW op, NEW i \in DOMAIN w, w[i][1] = op, Head(w)[1] # op PROVE Has(v, op)
    BY DEF Has
  <2>1. i # 1
    BY <1>2
  <2>2. QED
    BY <1>2, <2>1 DEF Has
<1>5. \A type : Closes(w, type) => Closes(v, type) \/ (Head(w)[1] = "close" /\ Head(w)[2] = type)
  <2> SUFFICES ASSUME NEW type, NEW i \in DOMAIN w, w[i][1] = "close", w[i][2] = type
               PROVE  Closes(v, type) \/ (Head(w)[1] = "close" /\ Head(w)[2] = type)
    BY DEF Closes
  <2>1. CASE i = 1
    BY <1>2, <2>1
  <2>2. CASE i # 1
    BY <1>2, <2>2 DEF Closes
  <2>3. QED
    BY <2>1, <2>2
<1>6. Shape(v)
  <2>1. ASSUME NEW i \in DOMAIN v, NEW j \in DOMAIN v, v[j][1] = "date"
        PROVE  /\ v[i][1] = "close" => i < j
               /\ v[i][1] \in {"open", "delete"} => j < i
               /\ v[i][1] = "date" => i = j
    <3>1. i + 1 \in DOMAIN w /\ j + 1 \in DOMAIN w /\ v[i] = w[i + 1] /\ v[j] = w[j + 1] /\ i \in Nat /\ j \in Nat
      BY <1>2
    <3>2. /\ v[i][1] = "close" => i + 1 < j + 1
          /\ v[i][1] \in {"open", "delete"} => j + 1 < i + 1
          /\ v[i][1] = "date" => i + 1 = j + 1
      BY <2>1, <3>1 DEF Script, Shape
    <3>3. QED
      BY <3>1, <3>2
  <2>2. ASSUME NEW i \in DOMAIN v, v[i][1] \in {"date", "open"}
        PROVE  \E j \in DOMAIN v : j > i /\ v[j][1] = "delete"
    <3>1. i + 1 \in DOMAIN w /\ v[i] = w[i + 1] /\ i \in Nat
      BY <1>2
    <3>2. PICK j \in DOMAIN w : j > i + 1 /\ w[j][1] = "delete"
      BY <2>2, <3>1 DEF Script, Shape
    <3>3. j \in Nat /\ j # 1
      BY <1>2, <3>1, <3>2
    <3>4. j - 1 \in DOMAIN v /\ v[j - 1] = w[j] /\ j - 1 > i
      BY <1>2, <3>1, <3>2, <3>3
    <3>5. QED
      BY <3>2, <3>4
  <2>3. QED
    BY <2>1, <2>2 DEF Shape
<1>7. ASSUME Head(w)[1] # "date"  PROVE Script(v, cd, td)
  <2>1. ~ Has(v, "date") => ~ Has(w, "date")
    BY <1>4, <1>7
  <2>2. \A i \in DOMAIN v : v[i][1] = "date" => v[i][3] \in cd .. td
    BY <1>2 DEF Script
  <2>3. \A i \in DOMAIN v : v[i][1] = "open" => /\ \A j \in DOMAIN v : v[j][1] = "date" => v[j][3] = v[i][3]
                                                /\ ~ Has(v, "date") => v[i][3] = cd
    BY <1>2, <2>1 DEF Script
  <2>4. QED
    BY <1>2, <1>6, <2>2, <2>3 DEF Script
<1>8. ASSUME Head(w)[1] = "date"
      PROVE  Head(w)[3] \in cd .. td /\ Script(v, Head(w)[3], td) /\ ~ Has(v, "date")
  <2>1. Head(w)[3] \in cd .. td
    BY <1>2, <1>8 DEF Script
  <2>2. ASSUME NEW i \in DOMAIN v  PROVE v[i][1] # "date"
    <3>1. i + 1 \in DOMAIN w /\ v[i] = w[i + 1] /\ i + 1 # 1
      <4>1. i \in Nat /\ i + 1 \in DOMAIN w /\ v[i] = w[i + 1] /\ i \in DOMAIN v
        BY <1>2
      <4>2. i # 0
        BY <1>2
      <4>3. QED
        BY <4>1, <4>2
    <3>2. \A j \in DOMAIN w : w[j][1] = "date" => j = 1
      <4>1. \A k, j \in DOMAIN w : w[j][1] = "date" /\ w[k][1] = "date" => k = j
        BY DEF Script, Shape
      <4>2. 1 \in DOMAIN w /\ w[1][1] = "date"
        BY <1>2, <1>8
      <4>3. QED
        BY <4>1, <4>2, Zenon
    <3>3. QED
      BY <3>1, <3>2
  <2>3. \A i \in DOMAIN v : v[i][1] = "open" => v[i][3] = Head(w)[3]
    BY <1>2, <1>8 DEF Script
  <2>4. QED
    BY <1>2, <1>6, <2>1, <2>2, <2>3 DEF Script, Has
<1>9. QED
  BY <1>3, <1>4, <1>5, <1>7, <1>8 DEF v

\* The parts of a rotation, and what follows it.
LEMMA RotateParts ==
    ASSUME NEW n \in Nat, NEW m \in Nat, NEW i \in 1 .. m
    PROVE  \/ i \in 1 .. n \/ i \in n + 1 .. 2 * n \/ i = 2 * n + 1 \/ i \in 2 * n + 2 .. 3 * n + 1 \/ i = 3 * n + 2
           \/ i \in 3 * n + 3 .. m
  OBVIOUS

\* A rotation, perhaps with flushes after it, as run() and rotateNow() start it.
LEMMA RotateScript ==
    ASSUME NEW cd \in Nat, NEW td \in Nat, cd <= td, NEW w \in Seq(Ops),
           LET r == RotateFiles(td) IN
           /\ Len(w) >= Len(r)
           /\ \A i \in 1 .. Len(r) : w[i] = r[i]
           /\ \A i \in Len(r) + 1 .. Len(w) : w[i][1] = "flush"
    PROVE  Script(w, cd, td) /\ Has(w, "date") /\ \A type \in Types : Closes(w, type)
<1> DEFINE n == Len(LogTypes)
           r == RotateFiles(td)
           m == Len(w)
<1>1. /\ n \in Nat /\ Len(r) = 3 * n + 2
      /\ \A i \in 1 .. n : r[i] = <<"flush", LogTypes[i], 0>>
      /\ \A i \in 1 .. n : r[n + i] = <<"close", LogTypes[i], 0>>
      /\ r[2 * n + 1] = <<"date", "none", td>>
      /\ \A i \in 1 .. n : r[2 * n + 1 + i] = <<"open", LogTypes[i], td>>
      /\ r[3 * n + 2] = <<"delete", "none", 0>>
  BY RotateAt
<1>2. /\ m \in Nat /\ m >= 3 * n + 2 /\ DOMAIN w = 1 .. m
      /\ \A i \in 1 .. 3 * n + 2 : w[i] = r[i]
      /\ \A i \in 3 * n + 3 .. m : w[i][1] = "flush"
  <2>1. m \in Nat /\ DOMAIN w = 1 .. m
    OBVIOUS
  <2>2. /\ Len(w) >= Len(r)
        /\ \A i \in 1 .. Len(r) : w[i] = r[i]
        /\ \A i \in Len(r) + 1 .. Len(w) : w[i][1] = "flush"
    OBVIOUS
  <2>3. Len(r) + 1 = 3 * n + 3
    BY <1>1
  <2> HIDE DEF m, n, r
  <2>4. QED
    BY <1>1, <2>1, <2>2, <2>3 DEF m
<1> HIDE DEF n, r, m
<1>3. ASSUME NEW i \in DOMAIN w
      PROVE  \/ w[i][1] = "flush"
             \/ w[i][1] = "close" /\ i <= 2 * n
             \/ w[i][1] = "date" /\ i = 2 * n + 1 /\ w[i][3] = td
             \/ w[i][1] = "open" /\ i > 2 * n + 1 /\ i < 3 * n + 2 /\ w[i][3] = td
             \/ w[i][1] = "delete" /\ i = 3 * n + 2
  <2>1. CASE i \in 1 .. n
    <3>1. w[i] = <<"flush", LogTypes[i], 0>>
      BY <1>1, <1>2, <2>1
    <3>2. QED
      BY <3>1
  <2>2. CASE i \in n + 1 .. 2 * n
    <3>1. i - n \in 1 .. n /\ n + (i - n) = i /\ i \in 1 .. 3 * n + 2
      <4>1. n \in Nat
        BY <1>1
      <4>2. QED
        BY <2>2, <4>1
    <3>2. r[n + (i - n)] = <<"close", LogTypes[i - n], 0>>
      BY <1>1, <3>1
    <3>3. w[i] = <<"close", LogTypes[i - n], 0>>
      BY <1>2, <3>1, <3>2
    <3>4. QED
      BY <1>1, <2>2, <3>3
  <2>3. CASE i = 2 * n + 1
    <3>1. i \in 1 .. 3 * n + 2
      BY <1>1, <2>3
    <3>2. w[i] = <<"date", "none", td>>
      BY <1>1, <1>2, <2>3, <3>1
    <3>3. QED
      BY <2>3, <3>2
  <2>4. CASE i \in 2 * n + 2 .. 3 * n + 1
    <3>1. i - (2 * n + 1) \in 1 .. n /\ 2 * n + 1 + (i - (2 * n + 1)) = i /\ i \in 1 .. 3 * n + 2
      <4>1. n \in Nat
        BY <1>1
      <4>2. QED
        BY <2>4, <4>1
    <3>2. r[2 * n + 1 + (i - (2 * n + 1))] = <<"open", LogTypes[i - (2 * n + 1)], td>>
      BY <1>1, <3>1
    <3>3. w[i] = <<"open", LogTypes[i - (2 * n + 1)], td>>
      BY <1>2, <3>1, <3>2
    <3>4. QED
      BY <1>1, <2>4, <3>3
  <2>5. CASE i = 3 * n + 2
    <3>1. i \in 1 .. 3 * n + 2
      BY <1>1, <2>5
    <3>2. w[i] = <<"delete", "none", 0>>
      BY <1>1, <1>2, <2>5, <3>1
    <3>3. QED
      BY <2>5, <3>2
  <2>6. CASE i \in 3 * n + 3 .. m
    BY <1>2, <2>6
  <2>7. \/ i \in 1 .. n \/ i \in n + 1 .. 2 * n \/ i = 2 * n + 1 \/ i \in 2 * n + 2 .. 3 * n + 1 \/ i = 3 * n + 2
        \/ i \in 3 * n + 3 .. m
    <3>1. n \in Nat /\ m \in Nat /\ i \in 1 .. m
      BY <1>1, <1>2
    <3>2. QED
      BY <3>1, RotateParts
  <2>8. QED
    BY <2>1, <2>2, <2>3, <2>4, <2>5, <2>6, <2>7
<1>4. /\ 2 * n + 1 \in DOMAIN w /\ w[2 * n + 1][1] = "date"
      /\ 3 * n + 2 \in DOMAIN w /\ w[3 * n + 2][1] = "delete"
  <2>1. 2 * n + 1 \in 1 .. 3 * n + 2 /\ 3 * n + 2 \in 1 .. 3 * n + 2 /\ 2 * n + 1 \in DOMAIN w /\ 3 * n + 2 \in DOMAIN w
    BY <1>1, <1>2
  <2>2. w[2 * n + 1] = <<"date", "none", td>> /\ w[3 * n + 2] = <<"delete", "none", 0>>
    BY <1>1, <1>2, <2>1
  <2>3. QED
    BY <2>1, <2>2
<1>5. Shape(w)
  <2>1. ASSUME NEW i \in DOMAIN w, NEW j \in DOMAIN w, w[j][1] = "date"
        PROVE  /\ w[i][1] = "close" => i < j
               /\ w[i][1] \in {"open", "delete"} => j < i
               /\ w[i][1] = "date" => i = j
    <3>1. j = 2 * n + 1
      BY <1>3, <2>1
    <3>2. /\ w[i][1] = "close" => i <= 2 * n
          /\ w[i][1] = "open" => i > 2 * n + 1
          /\ w[i][1] = "delete" => i = 3 * n + 2
          /\ w[i][1] = "date" => i = 2 * n + 1
      BY <1>3
    <3>3. i \in Nat
      BY <1>2
    <3>4. QED
      BY <1>1, <3>1, <3>2, <3>3
  <2>2. ASSUME NEW i \in DOMAIN w, w[i][1] \in {"date", "open"}
        PROVE  \E j \in DOMAIN w : j > i /\ w[j][1] = "delete"
    <3>1. (w[i][1] = "open" => i < 3 * n + 2) /\ (w[i][1] = "date" => i = 2 * n + 1)
      BY <1>3
    <3>2. i \in Nat
      BY <1>2
    <3>3. 3 * n + 2 > i
      BY <1>1, <2>2, <3>1, <3>2
    <3>4. QED
      BY <1>4, <3>3
  <2>3. QED
    BY <2>1, <2>2 DEF Shape
<1>6. \A i \in DOMAIN w : w[i][1] \in {"date", "open"} => w[i][3] = td
  BY <1>3
<1>7. Has(w, "date")
  BY <1>4 DEF Has
<1>8. td \in cd .. td
  OBVIOUS
<1>9. Script(w, cd, td)
  BY <1>5, <1>6, <1>7, <1>8 DEF Script
<1>10. ASSUME NEW type \in Types  PROVE Closes(w, type)
  <2>1. LogTypes \in Seq(STRING)
    BY LogAssumption
  <2>2. PICK i \in 1 .. n : LogTypes[i] = type
    BY <2>1 DEF Types, Range, n
  <2>3. n + i \in 1 .. 3 * n + 2 /\ n + i \in DOMAIN w
    BY <1>1, <1>2
  <2>4. w[n + i] = <<"close", type, 0>>
    BY <1>1, <1>2, <2>2, <2>3
  <2>5. w[n + i][1] = "close" /\ w[n + i][2] = type
    BY <2>4
  <2>6. QED
    BY <2>3, <2>5 DEF Closes
<1>11. QED
  BY <1>7, <1>9, <1>10

LEMMA FlushIsQuiet ==
    /\ FlushBuffer \in Seq(Ops)
    /\ \A i \in DOMAIN FlushBuffer : FlushBuffer[i][1] = "flush"
<1>1. /\ Each("flush", 0) \in Seq(Ops) /\ Len(Each("flush", 0)) = Len(LogTypes)
      /\ \A i \in 1 .. Len(LogTypes) : Each("flush", 0)[i] = <<"flush", LogTypes[i], 0>>
  BY EachOp, Zenon DEF OpNames
<1> DEFINE w == Each("flush", 0)
<1> HIDE DEF w
<1>2. DOMAIN w = 1 .. Len(LogTypes)
  BY <1>1 DEF w
<1>3. \A i \in DOMAIN w : w[i] = <<"flush", LogTypes[i], 0>>
  BY <1>1, <1>2 DEF w
<1>4. \A i \in DOMAIN w : w[i][1] = "flush"
  BY <1>3
<1>5. QED
  BY <1>1, <1>4 DEF FlushBuffer, w

\* run() flushes after the rotation, rotateNow() does not.
LEMMA StartScripts ==
    ASSUME NEW cd \in Nat, NEW td \in Nat, cd <= td
    PROVE  /\ \A w \in {RotateFiles(td), RotateFiles(td) \o FlushBuffer} :
                 Script(w, cd, td) /\ Has(w, "date") /\ \A type \in Types : Closes(w, type)
           /\ LET w == FlushBuffer IN Script(w, cd, td) /\ ~ Has(w, "date") /\ ~ Has(w, "delete")
<1> DEFINE r == RotateFiles(td)
           f == FlushBuffer
<1>1. r \in Seq(Ops)
  BY RotateAt
<1>2. f \in Seq(Ops) /\ \A i \in DOMAIN f : f[i][1] = "flush"
  BY FlushIsQuiet
<1>3. Script(r, cd, td) /\ Has(r, "date") /\ \A type \in Types : Closes(r, type)
  <2>1. Len(r) >= Len(r) /\ \A i \in Len(r) + 1 .. Len(r) : FALSE
    <3> HIDE DEF r
    <3>1. Len(r) \in Nat
      BY <1>1
    <3>2. QED
      BY <3>1
  <2>2. QED
    BY <1>1, <2>1, RotateScript
<1>4. /\ r \o f \in Seq(Ops) /\ Len(r \o f) >= Len(r)
      /\ \A i \in 1 .. Len(r) : (r \o f)[i] = r[i]
      /\ \A i \in Len(r) + 1 .. Len(r \o f) : (r \o f)[i][1] = "flush"
  <2> HIDE DEF r, f
  <2> DEFINE w == r \o f
  <2>1. /\ w \in Seq(Ops) /\ Len(w) = Len(r) + Len(f) /\ Len(r) \in Nat /\ Len(f) \in Nat
        /\ \A i \in 1 .. Len(r) + Len(f) : w[i] = IF i <= Len(r) THEN r[i] ELSE f[i - Len(r)]
    BY <1>1, <1>2, ConcatOf
  <2>2. DOMAIN f = 1 .. Len(f)
    BY <1>2
  <2> HIDE DEF w
  <2>3. Len(w) >= Len(r) /\ \A i \in 1 .. Len(r) : w[i] = r[i]
    BY <2>1
  <2>4. ASSUME NEW i \in Len(r) + 1 .. Len(w)  PROVE w[i][1] = "flush"
    <3>1. i \in 1 .. Len(r) + Len(f) /\ ~ (i <= Len(r)) /\ i - Len(r) \in DOMAIN f
      BY <2>1, <2>2
    <3>2. QED
      BY <1>2, <2>1, <3>1
  <2>5. QED
    BY <2>1, <2>3, <2>4 DEF w
<1>5. Script(r \o f, cd, td) /\ Has(r \o f, "date") /\ \A type \in Types : Closes(r \o f, type)
  BY <1>4, RotateScript
<1>6. Script(f, cd, td) /\ ~ Has(f, "date") /\ ~ Has(f, "delete")
  <2>1. \A i \in DOMAIN f : f[i][1] \notin {"date", "open", "delete"}
    <3> HIDE DEF f
    <3>1. QED
      BY <1>2
  <2>2. QED
    BY <1>2, <2>1, QuietScript
<1>7. QED
  BY <1>3, <1>5, <1>6

\* stop() joins the thread, flushes and closes.
LEMMA StopScript ==
    ASSUME NEW cd, NEW td
    PROVE  LET w == <<<<"join", "none", 0>>>> \o FlushBuffer \o CloseAllFiles IN
           /\ Script(w, cd, td) /\ ~ Has(w, "date") /\ ~ Has(w, "delete")
           /\ w # <<>> /\ Head(w)[1] = "join"
<1> DEFINE a == <<<<"join", "none", 0>>>>
           b == Each("flush", 0)
           c == Each("close", 0)
           ab == a \o b
           w == ab \o c
           n == Len(LogTypes)
<1>1. n \in Nat
  <2>1. LogTypes \in Seq(STRING)
    BY LogAssumption
  <2>2. QED
    BY <2>1
<1>2. b \in Seq(Ops) /\ Len(b) = n /\ \A i \in 1 .. n : b[i] = <<"flush", LogTypes[i], 0>>
  BY EachOp, Zenon DEF OpNames
<1>3. c \in Seq(Ops) /\ Len(c) = n /\ \A i \in 1 .. n : c[i] = <<"close", LogTypes[i], 0>>
  BY EachOp, Zenon DEF OpNames
<1>4. a \in Seq(Ops) /\ Len(a) = 1 /\ a[1] = <<"join", "none", 0>>
  <2> DEFINE op == <<"join", "none", 0>>
  <2>1. op \in Ops
    BY IsOp, Zenon DEF OpNames
  <2> HIDE DEF op
  <2>2. <<op>> \in Seq(Ops) /\ Len(<<op>>) = 1 /\ <<op>>[1] = op
    BY <2>1
  <2>3. QED
    BY <2>2, Zenon DEF op
<1> HIDE DEF a, b, c, n
<1>5. /\ ab \in Seq(Ops) /\ Len(ab) = Len(a) + Len(b)
      /\ \A i \in 1 .. Len(a) + Len(b) : ab[i] = IF i <= Len(a) THEN a[i] ELSE b[i - Len(a)]
  BY <1>2, <1>3, <1>4, ConcatOf
<1> HIDE DEF ab
<1>6. /\ w \in Seq(Ops) /\ Len(w) = Len(ab) + Len(c)
      /\ \A i \in 1 .. Len(ab) + Len(c) : w[i] = IF i <= Len(ab) THEN ab[i] ELSE c[i - Len(ab)]
  <2>1. ab \in Seq(Ops) /\ c \in Seq(Ops)
    BY <1>3, <1>5
  <2>2. QED
    BY <2>1, ConcatOf
<1> HIDE DEF w
<1>7. /\ w \in Seq(Ops) /\ Len(w) = 2 * n + 1 /\ DOMAIN w = 1 .. 2 * n + 1
      /\ w[1] = <<"join", "none", 0>>
      /\ \A i \in 2 .. n + 1 : w[i] = <<"flush", LogTypes[i - 1], 0>>
      /\ \A i \in n + 2 .. 2 * n + 1 : w[i] = <<"close", LogTypes[i - (n + 1)], 0>>
  <2>1. Len(a) = 1 /\ Len(b) = n /\ Len(c) = n /\ Len(ab) = n + 1 /\ Len(w) = 2 * n + 1
    BY <1>1, <1>2, <1>3, <1>4, <1>5, <1>6
  <2>2. DOMAIN w = 1 .. 2 * n + 1
    BY <1>6, <2>1
  <2>3. w[1] = <<"join", "none", 0>>
    <3>1. 1 \in 1 .. Len(ab) + Len(c) /\ 1 <= Len(ab) /\ 1 \in 1 .. Len(a) + Len(b) /\ 1 <= Len(a)
      BY <1>1, <2>1
    <3>2. w[1] = a[1]
      BY <1>5, <1>6, <3>1
    <3>3. QED
      BY <1>4, <3>2
  <2>4. ASSUME NEW i \in 2 .. n + 1  PROVE w[i] = <<"flush", LogTypes[i - 1], 0>>
    <3>1. /\ i \in 1 .. Len(ab) + Len(c) /\ i <= Len(ab) /\ i \in 1 .. Len(a) + Len(b) /\ ~ (i <= Len(a))
          /\ i - Len(a) = i - 1 /\ i - 1 \in 1 .. n
      BY <1>1, <2>1
    <3>2. w[i] = b[i - 1]
      BY <1>5, <1>6, <3>1
    <3>3. QED
      BY <1>2, <3>1, <3>2
  <2>5. ASSUME NEW i \in n + 2 .. 2 * n + 1  PROVE w[i] = <<"close", LogTypes[i - (n + 1)], 0>>
    <3>1. /\ i \in 1 .. Len(ab) + Len(c) /\ ~ (i <= Len(ab)) /\ i - Len(ab) = i - (n + 1) /\ i - (n + 1) \in 1 .. n
      BY <1>1, <2>1
    <3>2. w[i] = c[i - (n + 1)]
      BY <1>6, <3>1
    <3>3. QED
      BY <1>3, <3>1, <3>2
  <2>6. QED
    BY <1>6, <2>1, <2>2, <2>3, <2>4, <2>5
<1>8. ASSUME NEW i \in DOMAIN w  PROVE w[i][1] \notin {"date", "open", "delete"}
  <2>1. i = 1 \/ i \in 2 .. n + 1 \/ i \in n + 2 .. 2 * n + 1
    BY <1>1, <1>7
  <2>2. w[i][1] \in {"join", "flush", "close"}
    <3>1. CASE i = 1
      BY <1>7, <3>1
    <3>2. CASE i \in 2 .. n + 1
      <4>1. w[i] = <<"flush", LogTypes[i - 1], 0>>
        BY <1>7, <3>2
      <4>2. QED
        BY <4>1
    <3>3. CASE i \in n + 2 .. 2 * n + 1
      <4>1. w[i] = <<"close", LogTypes[i - (n + 1)], 0>>
        BY <1>7, <3>3
      <4>2. QED
        BY <4>1
    <3>4. QED
      BY <2>1, <3>1, <3>2, <3>3
  <2>3. QED
    BY <2>2
<1>9. w # <<>> /\ Head(w)[1] = "join"
  <2>1. Len(w) # 0 /\ w \in Seq(Ops)
    BY <1>1, <1>7
  <2>2. w # <<>> /\ Head(w) = w[1]
    BY <2>1
  <2>3. QED
    BY <1>7, <2>2
<1>10. Script(w, cd, td) /\ ~ Has(w, "date") /\ ~ Has(w, "delete")
  BY <1>7, <1>8, QuietScript
<1>11. QED
  BY <1>9, <1>10 DEF w, ab, a, b, c, FlushBuffer, CloseAllFiles

\* When its next operation is to set the date, open or delete, a rotation is past the ones before.
LEMMA NextOperation ==
    ASSUME NEW w, NEW cd, NEW td, Script(w, cd, td), w # <<>>
    PROVE  /\ Head(w)[1] \in {"open", "delete"} => ~ Has(w, "date") /\ Has(w, "delete")
           /\ Head(w)[1] = "open" => Head(w)[3] = cd
           /\ Head(w)[1] = "date" => Has(w, "delete") /\ \A type : ~ Closes(w, type)
           /\ Has(w, "date") => Has(w, "delete")
<1>1. w \in Seq(Ops)
  BY DEF Script
<1>2. Head(w) = w[1] /\ 1 \in DOMAIN w /\ DOMAIN w \subseteq Nat
  BY <1>1, TailAt
<1>3. \A i \in DOMAIN w : i >= 1
  BY <1>1
<1>4. Head(w)[1] \in {"open", "delete"} => ~ Has(w, "date")
  <2> SUFFICES ASSUME w[1][1] \in {"open", "delete"}, NEW j \in DOMAIN w, w[j][1] = "date" PROVE FALSE
    BY <1>2 DEF Has
  <2>1. j < 1
    BY <1>2 DEF Script, Shape
  <2>2. QED
    BY <1>2, <1>3, <2>1
<1>5. Has(w, "date") => Has(w, "delete")
  BY DEF Has, Script, Shape
<1>6. Head(w)[1] \in {"open", "delete"} => Has(w, "delete")
  BY <1>2 DEF Has, Script, Shape
<1>7. Head(w)[1] = "open" => Head(w)[3] = cd
  BY <1>2, <1>4 DEF Script
<1>8. Head(w)[1] = "date" => Has(w, "delete") /\ \A type : ~ Closes(w, type)
  <2> SUFFICES ASSUME w[1][1] = "date" PROVE Has(w, "delete") /\ \A type : ~ Closes(w, type)
    BY <1>2
  <2>1. Has(w, "delete")
    BY <1>2 DEF Has, Script, Shape
  <2>2. ASSUME NEW i \in DOMAIN w, w[i][1] = "close"  PROVE FALSE
    <3>1. i < 1
      BY <1>2, <2>2 DEF Script, Shape
    <3>2. QED
      BY <1>2, <1>3, <3>1
  <2>3. QED
    BY <2>1, <2>2 DEF Closes
<1>9. QED
  BY <1>4, <1>5, <1>6, <1>7, <1>8

-----------------------------------------------------------------------------
(* LogFiles: the inductive invariant *)

(* The threads' work.  While nobody raced, one thread rotates at most; the *)
(* date is set only after it has closed every file, so that from then on a *)
(* file that is open is that of the present date; a writer thread is gone  *)
(* when the log is not running, or stop() waits for it.                    *)
WorkInv ==
    /\ work \in [LogThreads -> Seq(Ops)]
    /\ \A t \in LogThreads : Script(work[t], currentDate, today)
    /\ ~ (Rotating("app") /\ Rotating("writer"))
    /\ \A t \in LogThreads : Has(work[t], "date") =>
          \A type \in Types : handle[type] = 0 \/ Closes(work[t], type)
    /\ \A t \in LogThreads : Rotating(t) /\ ~ Has(work[t], "date") =>
          \A type \in Types : handle[type] \in {0, currentDate}
    /\ ~ logRunning => work["writer"] = <<>> \/ (work["app"] # <<>> /\ Head(work["app"])[1] = "join")
    /\ currentDate = 0 => ~ logRunning /\ \A t \in LogThreads : work[t] = <<>>

LogTyped ==
    /\ buf \in [Types -> Seq(Nat)] /\ handle \in [Types -> 0 .. LastDay]
    /\ disk \in [Types -> [Days -> Seq(Half)]] /\ accepted \in [Types -> Nat]
    /\ today \in Days /\ currentDate \in 0 .. today

ContentInv == \A type \in Types : /\ Ordered(buf[type], disk[type], accepted[type])
                                  /\ Placed(buf[type], disk[type], accepted[type], crashed[type], deleted[type])
                                  /\ Latest(handle[type], disk[type])

DatesInv == \A type \in Types :
               /\ handle[type] <= currentDate
               /\ \A d \in Days : disk[type][d] # <<>> => d <= today /\ (currentDate # 0 => d <= currentDate)

AlignedInv == \A type \in Types, d \in Days : <<type, d>> \notin spliced =>
                 Aligned(disk[type][d]) /\ (handle[type] = d => Even(Len(disk[type][d])))

LogInv == ~ raced => LogTyped /\ ContentInv /\ DatesInv /\ AlignedInv /\ WorkInv

LEMMA RotatingIs == ASSUME NEW t PROVE Rotating(t) <=> Has(work[t], "delete")
  BY DEF Rotating, Has

\* An operation other than setting the date is done.
LEMMA DoneKeepsWork ==
    ASSUME WorkInv, LogTyped, NEW t \in LogThreads, work[t] # <<>>, Head(work[t])[1] # "date", Done(t),
           UNCHANGED <<currentDate, today, logRunning>>,
           Head(work[t])[1] = "join" => t = "app" /\ work["writer"] = <<>>,
           \A type \in Types :
              /\ \/ handle'[type] \in {0, handle[type]}
                 \/ handle'[type] = currentDate /\ Rotating(t) /\ ~ Has(work[t], "date")
              /\ Head(work[t])[1] = "close" /\ Head(work[t])[2] = type => handle'[type] = 0
    PROVE  WorkInv'
<1> DEFINE v == Tail(work[t])
<1>1. /\ work \in [LogThreads -> Seq(Ops)] /\ \A u \in LogThreads : Script(work[u], currentDate, today)
      /\ currentDate \in Nat /\ today \in Nat
  BY LogAssumption DEF WorkInv, LogTyped, Days
<1>2. /\ Script(v, currentDate, today)
      /\ \A op : Has(v, op) => Has(work[t], op)
      /\ \A op : Has(work[t], op) => Head(work[t])[1] = op \/ Has(v, op)
      /\ \A type : Closes(work[t], type) =>
            Closes(v, type) \/ (Head(work[t])[1] = "close" /\ Head(work[t])[2] = type)
  BY <1>1, TailScript
<1>3. v \in Seq(Ops)
  BY <1>2 DEF Script
<1>4. /\ work' \in [LogThreads -> Seq(Ops)] /\ work'[t] = v /\ \A u \in LogThreads \ {t} : work'[u] = work[u]
  <2>1. work' = [work EXCEPT ![t] = v]
    BY DEF Done, Goes
  <2> HIDE DEF v
  <2>2. QED
    BY <1>1, <1>3, <2>1
<1> HIDE DEF v
<1>5. \A u \in LogThreads : Script(work'[u], currentDate, today)
  BY <1>1, <1>2, <1>4
<1>6. \A u \in LogThreads : Rotating(u)' => Rotating(u)
  <2> TAKE u \in LogThreads
  <2>1. Rotating(u)' <=> Has(work'[u], "delete")
    BY DEF Rotating, Has
  <2>2. QED
    BY <1>2, <1>4, <2>1, RotatingIs
<1>7. ~ (Rotating("app") /\ Rotating("writer"))'
  BY <1>6 DEF WorkInv, LogThreads
<1>8. ASSUME NEW u \in LogThreads, Has(work'[u], "date"), NEW type \in Types
      PROVE  handle'[type] = 0 \/ Closes(work'[u], type)
  <2>1. Has(work[u], "date")
    BY <1>2, <1>4, <1>8
  <2>2. handle[type] = 0 \/ Closes(work[u], type)
    BY <2>1 DEF WorkInv
  <2>3. handle'[type] \in {0, handle[type]}
    <3>1. CASE u = t
      BY <2>1, <3>1
    <3>2. CASE u # t
      <4>1. work[u] # <<>>
        BY <2>1 DEF Has
      <4>2. Has(work[u], "delete")
        BY <1>1, <2>1, <4>1, NextOperation
      <4>3. Rotating(u)
        BY <4>2, RotatingIs
      <4>4. ~ Rotating(t)
        BY <3>2, <4>3 DEF WorkInv, LogThreads
      <4>5. QED
        BY <4>4
    <3>3. QED
      BY <3>1, <3>2
  <2>4. CASE handle[type] = 0
    BY <2>3, <2>4
  <2>5. CASE Closes(work[u], type)
    <3>1. CASE u # t
      BY <1>4, <2>5, <3>1
    <3>2. CASE u = t
      BY <1>2, <1>4, <2>5, <3>2
    <3>3. QED
      BY <3>1, <3>2
  <2>6. QED
    BY <2>2, <2>4, <2>5
<1>9. ASSUME NEW u \in LogThreads, Rotating(u)', ~ Has(work'[u], "date"), NEW type \in Types
      PROVE  handle'[type] \in {0, currentDate}
  <2>1. Rotating(u) /\ ~ Has(work[u], "date")
    BY <1>2, <1>4, <1>6, <1>9
  <2>2. handle[type] \in {0, currentDate}
    BY <2>1 DEF WorkInv
  <2>3. QED
    BY <2>2
<1>10. ASSUME ~ logRunning
       PROVE  work'["writer"] = <<>> \/ (work'["app"] # <<>> /\ Head(work'["app"])[1] = "join")
  <2>1. work["writer"] = <<>> \/ (work["app"] # <<>> /\ Head(work["app"])[1] = "join")
    BY <1>10 DEF WorkInv
  <2>2. t \in {"app", "writer"} /\ "app" \in LogThreads /\ "writer" \in LogThreads
    BY DEF LogThreads
  <2>3. CASE t = "writer"
    BY <1>4, <2>1, <2>2, <2>3
  <2>4. CASE t = "app"
    BY <1>4, <2>1, <2>2, <2>4
  <2>5. QED
    BY <2>2, <2>3, <2>4
<1>11. currentDate # 0
  BY DEF WorkInv
<1>12. QED
  BY <1>4, <1>5, <1>7, <1>8, <1>9, <1>10, <1>11 DEF WorkInv

\* The date is set: no file is open, and the other thread is not rotating.
LEMMA DateKeepsWork ==
    ASSUME WorkInv, LogTyped, NEW t \in LogThreads, SetDate(t)
    PROVE  /\ WorkInv' /\ currentDate' \in currentDate .. today /\ currentDate # 0
           /\ \A type \in Types : handle[type] = 0
<1> DEFINE v == Tail(work[t])
           day == Head(work[t])[3]
<1>1. /\ work \in [LogThreads -> Seq(Ops)] /\ \A u \in LogThreads : Script(work[u], currentDate, today)
      /\ currentDate \in Nat /\ today \in Nat
  BY LogAssumption DEF WorkInv, LogTyped, Days
<1>2. /\ work[t] # <<>> /\ Head(work[t])[1] = "date" /\ currentDate' = day
      /\ work' = [work EXCEPT ![t] = v] /\ UNCHANGED <<handle, today, logRunning>>
  BY DEF SetDate, Doing, Done, Goes, DayOf
<1>3. /\ day \in currentDate .. today /\ Script(v, day, today) /\ ~ Has(v, "date")
      /\ \A op : Has(v, op) => Has(work[t], op)
  BY <1>1, <1>2, TailScript
<1>4. v \in Seq(Ops)
  BY <1>3 DEF Script
<1>5. /\ work' \in [LogThreads -> Seq(Ops)] /\ work'[t] = v /\ \A u \in LogThreads \ {t} : work'[u] = work[u]
  <2> HIDE DEF v
  <2>1. QED
    BY <1>1, <1>2, <1>4
<1> HIDE DEF v, day
<1>6. Has(work[t], "date") /\ Has(work[t], "delete") /\ \A type : ~ Closes(work[t], type)
  <2>1. Has(work[t], "delete") /\ \A type : ~ Closes(work[t], type)
    BY <1>1, <1>2, NextOperation
  <2>2. Has(work[t], "date")
    <3>1. Head(work[t]) = work[t][1] /\ 1 \in DOMAIN work[t]
      BY <1>1, <1>2, TailAt
    <3>2. QED
      BY <1>2, <3>1 DEF Has
  <2>3. QED
    BY <2>1, <2>2
<1>7. \A type \in Types : handle[type] = 0
  BY <1>6 DEF WorkInv
<1>8. \A u \in LogThreads : Rotating(u)' => Rotating(u)
  <2> TAKE u \in LogThreads
  <2>1. Rotating(u)' <=> Has(work'[u], "delete")
    BY DEF Rotating, Has
  <2>2. QED
    BY <1>3, <1>5, <2>1, RotatingIs
<1>9. ASSUME NEW u \in LogThreads, u # t  PROVE ~ Has(work[u], "delete")
  <2>1. Rotating(t)
    BY <1>6, RotatingIs
  <2>2. ~ Rotating(u)
    BY <1>9, <2>1 DEF WorkInv, LogThreads
  <2>3. QED
    BY <2>2, RotatingIs
<1>10. ASSUME NEW u \in LogThreads  PROVE Script(work'[u], day, today) /\ ~ Has(work'[u], "date")
  <2>1. CASE u = t
    BY <1>3, <1>5, <2>1
  <2>2. CASE u # t
    <3>1. ~ Has(work[u], "delete") /\ work'[u] = work[u] /\ Script(work[u], currentDate, today)
      BY <1>1, <1>5, <1>9, <2>2
    <3>2. \A i \in DOMAIN work[u] : work[u][i][1] \notin {"date", "open", "delete"}
      BY <3>1 DEF Script, Shape, Has
    <3>3. work[u] \in Seq(Ops)
      BY <1>1
    <3>4. QED
      BY <3>1, <3>2, <3>3, QuietScript
  <2>3. QED
    BY <2>1, <2>2
<1>11. currentDate # 0
  BY <1>2 DEF WorkInv
<1>12. day # 0
  BY <1>1, <1>3, <1>11
<1>13. ASSUME ~ logRunning
       PROVE  work'["writer"] = <<>> \/ (work'["app"] # <<>> /\ Head(work'["app"])[1] = "join")
  <2>1. work["writer"] = <<>> \/ (work["app"] # <<>> /\ Head(work["app"])[1] = "join")
    BY <1>13 DEF WorkInv
  <2>2. t \in {"app", "writer"} /\ "app" \in LogThreads /\ "writer" \in LogThreads
    BY DEF LogThreads
  <2>3. CASE t = "writer"
    BY <1>2, <1>5, <2>1, <2>2, <2>3
  <2>4. CASE t = "app"
    BY <1>2, <1>5, <2>1, <2>2, <2>4
  <2>5. QED
    BY <2>2, <2>3, <2>4
<1>14. ~ (Rotating("app") /\ Rotating("writer"))'
  BY <1>8 DEF WorkInv, LogThreads
<1>15. WorkInv'
  BY <1>2, <1>5, <1>7, <1>10, <1>12, <1>13, <1>14 DEF WorkInv
<1>16. QED
  BY <1>2, <1>3, <1>7, <1>11, <1>15

\* A thread starts: flushes only, or a rotation while the other does not rotate.
LEMMA StartKeepsWork ==
    ASSUME WorkInv, LogTyped, NEW t \in LogThreads, NEW w, Goes(t, w), work[t] = <<>>, currentDate # 0,
           UNCHANGED <<handle, currentDate, today>>,
           Script(w, currentDate, today),
           \/ ~ Has(w, "date") /\ ~ Has(w, "delete")
           \/ /\ Has(w, "date") /\ \A type \in Types : Closes(w, type)
              /\ \A u \in LogThreads \ {t} : ~ Rotating(u),
           ~ logRunning' => work'["writer"] = <<>> \/ (work'["app"] # <<>> /\ Head(work'["app"])[1] = "join")
    PROVE  WorkInv'
<1>1. /\ work \in [LogThreads -> Seq(Ops)] /\ \A u \in LogThreads : Script(work[u], currentDate, today)
  BY DEF WorkInv
<1>2. w \in Seq(Ops)
  BY DEF Script
<1>3. /\ work' \in [LogThreads -> Seq(Ops)] /\ work'[t] = w /\ \A u \in LogThreads \ {t} : work'[u] = work[u]
  BY <1>1, <1>2 DEF Goes
<1>4. \A u \in LogThreads : Script(work'[u], currentDate, today)
  BY <1>1, <1>3
<1>5. \A u \in LogThreads : Rotating(u)' <=> Has(work'[u], "delete")
  BY DEF Rotating, Has
<1>6. ~ (Rotating("app") /\ Rotating("writer"))'
  <2>1. Rotating(t)' => \A u \in LogThreads \ {t} : ~ Rotating(u)'
    BY <1>3, <1>5, RotatingIs
  <2>2. QED
    BY <2>1 DEF LogThreads
<1>7. ASSUME NEW u \in LogThreads, Has(work'[u], "date"), NEW type \in Types
      PROVE  handle[type] = 0 \/ Closes(work'[u], type)
  <2>1. CASE u = t
    BY <1>3, <1>7, <2>1
  <2>2. CASE u # t
    BY <1>3, <1>7, <2>2 DEF WorkInv
  <2>3. QED
    BY <2>1, <2>2
<1>8. ASSUME NEW u \in LogThreads, Rotating(u)', ~ Has(work'[u], "date"), NEW type \in Types
      PROVE  handle[type] \in {0, currentDate}
  <2>1. u # t
    BY <1>3, <1>5, <1>8
  <2>2. Rotating(u) /\ ~ Has(work[u], "date")
    BY <1>3, <1>5, <1>8, <2>1, RotatingIs
  <2>3. QED
    BY <2>2 DEF WorkInv
<1>9. QED
  BY <1>3, <1>4, <1>6, <1>7, <1>8 DEF WorkInv

LEMMA RunKeepsWork == ASSUME WorkInv, LogTyped, Run, ~ raced' PROVE WorkInv'
<1>1. currentDate \in Nat /\ today \in Nat /\ currentDate <= today /\ "writer" \in LogThreads /\ "app" \in LogThreads
  BY LogAssumption DEF LogTyped, Days, LogThreads
<1>2. logRunning /\ work["writer"] = <<>> /\ UNCHANGED <<handle, currentDate, today, logRunning>>
  BY DEF Run
<1>3. currentDate # 0
  BY <1>2 DEF WorkInv
<1>4. CASE Goes("writer", FlushBuffer)
  <2>1. Script(FlushBuffer, currentDate, today) /\ ~ Has(FlushBuffer, "date") /\ ~ Has(FlushBuffer, "delete")
    BY <1>1, StartScripts
  <2>2. QED
    BY <1>1, <1>2, <1>3, <1>4, <2>1, StartKeepsWork
<1>5. CASE Goes("writer", RotateFiles(today) \o FlushBuffer) /\ raced' = (raced \/ Rotating("app"))
  <2> DEFINE w == RotateFiles(today) \o FlushBuffer
  <2>1. Script(w, currentDate, today) /\ Has(w, "date") /\ \A type \in Types : Closes(w, type)
    BY <1>1, StartScripts
  <2>2. \A u \in LogThreads \ {"writer"} : ~ Rotating(u)
    BY <1>5 DEF LogThreads
  <2>3. Goes("writer", w)
    BY <1>5
  <2> HIDE DEF w
  <2>4. QED
    BY <1>1, <1>2, <1>3, <2>1, <2>2, <2>3, StartKeepsWork
<1>6. QED
  BY <1>4, <1>5 DEF Run

LEMMA AppFlushKeepsWork == ASSUME WorkInv, LogTyped, AppFlush, ~ raced' PROVE WorkInv'
<1>1. currentDate \in Nat /\ today \in Nat /\ currentDate <= today /\ "writer" \in LogThreads /\ "app" \in LogThreads
  BY LogAssumption DEF LogTyped, Days, LogThreads
<1>2. work["app"] = <<>> /\ currentDate # 0 /\ UNCHANGED <<handle, currentDate, today, logRunning>>
  BY DEF AppFlush
<1>3. ASSUME NEW w, Goes("app", w)  PROVE ~ logRunning' => work'["writer"] = <<>>
  <2>1. work'["writer"] = work["writer"]
    <3>1. work \in [LogThreads -> Seq(Ops)] /\ work' = [work EXCEPT !["app"] = w] /\ "writer" # "app"
      BY <1>3 DEF WorkInv, Goes
    <3>2. QED
      BY <1>1, <3>1
  <2>2. QED
    BY <1>2, <2>1 DEF WorkInv
<1>4. CASE Goes("app", FlushBuffer)
  <2>1. Script(FlushBuffer, currentDate, today) /\ ~ Has(FlushBuffer, "date") /\ ~ Has(FlushBuffer, "delete")
    BY <1>1, StartScripts
  <2>2. ~ logRunning' => work'["writer"] = <<>>
    BY <1>3, <1>4
  <2>3. QED
    BY <1>1, <1>2, <1>4, <2>1, <2>2, StartKeepsWork
<1>5. CASE Goes("app", RotateFiles(today)) /\ raced' = (raced \/ Rotating("writer"))
  <2> DEFINE w == RotateFiles(today)
  <2>1. Script(w, currentDate, today) /\ Has(w, "date") /\ \A type \in Types : Closes(w, type)
    BY <1>1, StartScripts
  <2>2. \A u \in LogThreads \ {"app"} : ~ Rotating(u)
    BY <1>5 DEF LogThreads
  <2>3. Goes("app", w)
    BY <1>5
  <2> HIDE DEF w
  <2>4. ~ logRunning' => work'["writer"] = <<>>
    BY <1>3, <2>3
  <2>5. QED
    BY <1>1, <1>2, <2>1, <2>2, <2>3, <2>4, StartKeepsWork
<1>6. QED
  BY <1>4, <1>5 DEF AppFlush

LEMMA StopKeepsWork == ASSUME WorkInv, LogTyped, StopLog PROVE WorkInv'
<1> DEFINE w == <<<<"join", "none", 0>>>> \o FlushBuffer \o CloseAllFiles
<1>1. "app" \in LogThreads
  BY DEF LogThreads
<1>2. work["app"] = <<>> /\ logRunning /\ UNCHANGED <<handle, currentDate, today>> /\ Goes("app", w)
  BY DEF StopLog
<1>3. currentDate # 0
  BY <1>2 DEF WorkInv
<1>4. /\ Script(w, currentDate, today) /\ ~ Has(w, "date") /\ ~ Has(w, "delete")
      /\ w # <<>> /\ Head(w)[1] = "join"
  BY StopScript
<1> HIDE DEF w
<1>5. work'["app"] = w
  <2>1. work \in [LogThreads -> Seq(Ops)]
    BY DEF WorkInv
  <2>2. QED
    BY <1>1, <1>2, <2>1 DEF Goes
<1>6. QED
  BY <1>1, <1>2, <1>3, <1>4, <1>5, StartKeepsWork

LEMMA DayKeepsWork ==
    ASSUME WorkInv, LogTyped, UNCHANGED <<work, handle, currentDate, logRunning>>, today' \in Nat, today <= today'
    PROVE  WorkInv'
<1>1. today \in Nat /\ currentDate \in Nat
  BY LogAssumption DEF LogTyped, Days
<1>2. ASSUME NEW t \in LogThreads  PROVE Script(work[t], currentDate, today')
  <2>1. Script(work[t], currentDate, today)
    BY DEF WorkInv
  <2>2. \A x \in currentDate .. today : x \in currentDate .. today'
    BY <1>1
  <2>3. QED
    BY <2>1, <2>2 DEF Script
<1>3. \A t : Rotating(t)' <=> Rotating(t)
  BY DEF Rotating
<1>4. QED
  BY <1>2, <1>3 DEF WorkInv

LEMMA IdleKeepsWork ==
    ASSUME work' = [t \in LogThreads |-> <<>>], currentDate' = 0 => ~ logRunning'
    PROVE  WorkInv'
<1>1. <<>> \in Seq(Ops) /\ DOMAIN <<>> = {}
  OBVIOUS
<1>2. /\ work' \in [LogThreads -> Seq(Ops)] /\ \A t \in LogThreads : work'[t] = <<>>
      /\ "app" \in LogThreads /\ "writer" \in LogThreads
  BY <1>1 DEF LogThreads
<1>3. Script(<<>>, currentDate', today') /\ ~ Has(<<>>, "date") /\ ~ Has(<<>>, "delete")
  BY <1>1, QuietScript
<1>4. \A t \in LogThreads : ~ Rotating(t)'
  BY <1>1, <1>2 DEF Rotating
<1>5. QED
  BY <1>2, <1>3, <1>4 DEF WorkInv

-----------------------------------------------------------------------------
(* LogFiles: what the steps do to the records *)

LogData == LogTyped /\ ContentInv /\ DatesInv /\ AlignedInv

LEMMA DaysAreNumbers ==
    ASSUME LogTyped
    PROVE  /\ today \in Days /\ currentDate \in Nat /\ today \in Nat /\ currentDate <= today /\ today # 0
           /\ \A d \in Days : d \in Nat /\ d # 0
           /\ \A type \in Types : handle[type] \in Nat
  BY LogAssumption DEF LogTyped, Days

LEMMA QuietKeepsData ==
    ASSUME LogData, UNCHANGED <<buf, handle, disk, accepted, crashed, deleted, spliced, currentDate>>,
           today' \in Days, today <= today'
    PROVE  LogData'
<1>1. LogTyped'
  BY LogAssumption DEF LogData, LogTyped, Days
<1>2. ContentInv' /\ AlignedInv'
  BY DEF LogData, ContentInv, AlignedInv
<1>3. DatesInv'
  BY DaysAreNumbers, LogAssumption DEF LogData, DatesInv, Days
<1>4. QED
  BY <1>1, <1>2, <1>3 DEF LogData

LEMMA WriteKeepsData ==
    ASSUME LogData, NEW type \in Types, Write(type)
    PROVE  LogData'
<1>1. /\ buf' = [buf EXCEPT ![type] = Append(@, accepted[type] + 1)]
      /\ accepted' = [accepted EXCEPT ![type] = @ + 1]
      /\ UNCHANGED <<handle, disk, today, currentDate, crashed, deleted, spliced>>
  BY DEF Write, AppendToBuffer
<1>2. buf \in [Types -> Seq(Nat)] /\ accepted \in [Types -> Nat]
  BY DEF LogData, LogTyped
<1>3. /\ buf'[type] = Append(buf[type], accepted[type] + 1) /\ accepted'[type] = accepted[type] + 1
      /\ \A u \in Types \ {type} : buf'[u] = buf[u] /\ accepted'[u] = accepted[u]
  BY <1>1, <1>2
<1>4. Append(buf[type], accepted[type] + 1) \in Seq(Nat) /\ accepted[type] + 1 \in Nat
  BY <1>2
<1>5. LogTyped'
  BY <1>1, <1>2, <1>4 DEF LogData, LogTyped
<1>6. ASSUME NEW u \in Types
      PROVE  /\ Ordered(buf'[u], disk[u], accepted'[u])
             /\ Placed(buf'[u], disk[u], accepted'[u], crashed[u], deleted[u])
             /\ Latest(handle[u], disk[u])
  <2>1. /\ Ordered(buf[u], disk[u], accepted[u]) /\ Latest(handle[u], disk[u])
        /\ Placed(buf[u], disk[u], accepted[u], crashed[u], deleted[u])
    BY DEF LogData, ContentInv
  <2>2. CASE u = type
    BY <1>3, <2>1, <2>2, WriteOrdered, WritePlaced
  <2>3. CASE u # type
    BY <1>3, <2>1, <2>3
  <2>4. QED
    BY <2>2, <2>3
<1>7. ContentInv'
  BY <1>1, <1>6 DEF ContentInv
<1>8. DatesInv' /\ AlignedInv'
  BY <1>1 DEF LogData, DatesInv, AlignedInv
<1>9. QED
  BY <1>5, <1>7, <1>8 DEF LogData

\* A part of the buffer of one log is written to its open file: of all logs the same.
LEMMA PartKeepsLog ==
    ASSUME NEW b, NEW f, NEW n, NEW cr, NEW de, NEW h \in Days, Ordered(b, f, n),
           Placed(b, f, n, cr, de), Latest(h, f), NEW k \in 0 .. 2 * Len(b), NEW hs, IsPart(hs, b, k)
    PROVE  LET g == [f EXCEPT ![h] = @ \o hs] IN
           /\ g \in [Days -> Seq(Half)] /\ Ordered(<<>>, g, n)
           /\ Placed(<<>>, g, n, cr \cup {b[i] : i \in k \div 2 + 1 .. Len(b)}, de)
           /\ Latest(h, g)
           /\ \A d \in Days \ {h} : g[d] = f[d]
           /\ \A d \in Days : g[d] # <<>> => f[d] # <<>> \/ d = h
           /\ Aligned(f[h]) /\ Even(Len(f[h])) => Aligned(g[h]) /\ (k = 2 * Len(b) => Even(Len(g[h])))
<1> DEFINE g == [f EXCEPT ![h] = @ \o hs]
<1>1. f \in [Days -> Seq(Half)] /\ b \in Seq(Nat) /\ f[h] \in Seq(Half)
  BY DEF Ordered
<1>2. Ordered(<<>>, g, n)
  BY PartOrdered
<1>3. Placed(<<>>, g, n, cr \cup {b[i] : i \in k \div 2 + 1 .. Len(b)}, de)
  BY PartPlaced
<1>4. Latest(h, g)
  BY <1>1, PartLatest
<1>5. g[h] = f[h] \o hs /\ \A d \in Days \ {h} : g[d] = f[d]
  BY <1>1
<1>6. g \in [Days -> Seq(Half)]
  BY <1>2 DEF Ordered
<1>7. Aligned(f[h]) /\ Even(Len(f[h])) => Aligned(f[h] \o hs) /\ (k = 2 * Len(b) => Even(Len(f[h] \o hs)))
  BY <1>1, PartAligned
<1> HIDE DEF g
<1>8. \A d \in Days : g[d] # <<>> => f[d] # <<>> \/ d = h
  BY <1>5
<1>9. Aligned(f[h]) /\ Even(Len(f[h])) => Aligned(g[h]) /\ (k = 2 * Len(b) => Even(Len(g[h])))
  BY <1>5, <1>7
<1>10. QED
  BY <1>2, <1>3, <1>4, <1>5, <1>6, <1>8, <1>9 DEF g

LEMMA FlushKeepsData ==
    ASSUME LogData, NEW t, NEW type \in Types, FlushOne(t, type)
    PROVE  LogData'
<1> DEFINE b == buf[type]
           f == disk[type]
           h == handle[type]
           g == [f EXCEPT ![h] = @ \o Halves(b)]
<1>1. UNCHANGED <<handle, today, currentDate, accepted, crashed, deleted, spliced>>
  BY DEF FlushOne
<1>2. CASE h = 0
  <2>1. UNCHANGED <<buf, disk>>
    BY <1>2 DEF FlushOne
  <2>2. today' \in Days /\ today <= today'
    BY <1>1, DaysAreNumbers DEF LogData
  <2>3. QED
    BY <1>1, <2>1, <2>2, QuietKeepsData
<1>3. CASE h # 0
  <2>1. disk' = [disk EXCEPT ![type] = g] /\ buf' = [buf EXCEPT ![type] = <<>>]
    BY <1>3 DEF FlushOne
  <2>2. /\ buf \in [Types -> Seq(Nat)] /\ disk \in [Types -> [Days -> Seq(Half)]]
        /\ b \in Seq(Nat) /\ <<>> \in Seq(Nat) /\ Ordered(b, f, accepted[type])
        /\ Placed(b, f, accepted[type], crashed[type], deleted[type]) /\ Latest(h, f)
    BY DEF LogData, LogTyped, ContentInv
  <2>3. h \in Days
    BY <1>3, <2>2 DEF Latest
  <2> DEFINE k == 2 * Len(b)
  <2>4. k \in 0 .. 2 * Len(b) /\ k \div 2 + 1 .. Len(b) = {}
    BY <2>2
  <2>5. IsPart(Halves(b), b, k)
    BY <2>2, HalvesArePart
  <2>6. {b[i] : i \in k \div 2 + 1 .. Len(b)} = {}
    BY <2>4
  <2> HIDE DEF k, b, f, h
  <2>7. /\ g \in [Days -> Seq(Half)] /\ Ordered(<<>>, g, accepted[type])
        /\ Placed(<<>>, g, accepted[type], crashed[type] \cup {b[i] : i \in k \div 2 + 1 .. Len(b)}, deleted[type])
        /\ Latest(h, g) /\ \A d \in Days \ {h} : g[d] = f[d]
        /\ \A d \in Days : g[d] # <<>> => f[d] # <<>> \/ d = h
        /\ Aligned(f[h]) /\ Even(Len(f[h])) => Aligned(g[h]) /\ (k = 2 * Len(b) => Even(Len(g[h])))
    BY <2>2, <2>3, <2>4, <2>5, PartKeepsLog, ZenonT(30)
  <2>8. Placed(<<>>, g, accepted[type], crashed[type], deleted[type])
    <3>1. crashed[type] \cup {b[i] : i \in k \div 2 + 1 .. Len(b)} = crashed[type]
      BY <2>6
    <3>2. QED
      BY <2>7, <3>1
  <2>9. Aligned(f[h]) /\ Even(Len(f[h])) => Aligned(g[h]) /\ Even(Len(g[h]))
    BY <2>7 DEF k
  <2> HIDE DEF g
  <2>10. /\ disk'[type] = g /\ buf'[type] = <<>>
         /\ \A u \in Types \ {type} : disk'[u] = disk[u] /\ buf'[u] = buf[u]
    BY <2>1, <2>2
  <2>11. LogTyped'
    BY <1>1, <2>1, <2>2, <2>7 DEF LogData, LogTyped
  <2>12. ContentInv'
    <3>1. ASSUME NEW u \in Types
          PROVE  /\ Ordered(buf'[u], disk'[u], accepted[u])
                 /\ Placed(buf'[u], disk'[u], accepted[u], crashed[u], deleted[u])
                 /\ Latest(handle[u], disk'[u])
      <4>1. CASE u = type
        BY <2>7, <2>8, <2>10, <4>1 DEF h
      <4>2. CASE u # type
        BY <2>10, <4>2 DEF LogData, ContentInv
      <4>3. QED
        BY <4>1, <4>2
    <3>2. QED
      BY <1>1, <3>1 DEF ContentInv
  <2>13. DatesInv'
    <3>1. h <= currentDate /\ h <= today
      <4>1. h <= currentDate /\ h \in Nat
        BY DaysAreNumbers DEF LogData, DatesInv, h
      <4>2. QED
        BY <4>1, DaysAreNumbers DEF LogData
    <3>2. ASSUME NEW u \in Types, NEW d \in Days, disk'[u][d] # <<>>
          PROVE  d <= today /\ (currentDate # 0 => d <= currentDate)
      <4>1. CASE u = type
        BY <2>7, <2>10, <3>1, <3>2, <4>1 DEF LogData, DatesInv, f
      <4>2. CASE u # type
        BY <2>10, <3>2, <4>2 DEF LogData, DatesInv
      <4>3. QED
        BY <4>1, <4>2
    <3>3. QED
      BY <1>1, <3>2 DEF LogData, DatesInv
  <2>14. AlignedInv'
    <3>1. ASSUME NEW u \in Types, NEW d \in Days, <<u, d>> \notin spliced
          PROVE  Aligned(disk'[u][d]) /\ (handle[u] = d => Even(Len(disk'[u][d])))
      <4>1. Aligned(disk[u][d]) /\ (handle[u] = d => Even(Len(disk[u][d])))
        BY <3>1 DEF LogData, AlignedInv
      <4>2. CASE u = type /\ d = h
        BY <2>9, <2>10, <4>1, <4>2 DEF f, h
      <4>3. CASE u = type /\ d # h
        BY <2>7, <2>10, <4>1, <4>3 DEF f, h
      <4>4. CASE u # type
        BY <2>10, <4>1, <4>4
      <4>5. QED
        BY <4>2, <4>3, <4>4
    <3>2. QED
      BY <1>1, <3>1 DEF AlignedInv
  <2>15. QED
    BY <2>11, <2>12, <2>13, <2>14 DEF LogData
<1>4. QED
  BY <1>2, <1>3

LEMMA CloseKeepsData ==
    ASSUME LogData, NEW t, NEW type \in Types, CloseOne(t, type)
    PROVE  LogData'
<1>1. UNCHANGED <<buf, disk, today, currentDate, accepted, crashed, deleted, spliced>>
  BY DEF CloseOne
<1>2. handle' = [handle EXCEPT ![type] = 0] /\ handle \in [Types -> 0 .. LastDay] /\ 0 \in 0 .. LastDay
  BY LogAssumption DEF CloseOne, LogData, LogTyped
<1>3. /\ handle' \in [Types -> 0 .. LastDay] /\ handle'[type] = 0
      /\ \A u \in Types \ {type} : handle'[u] = handle[u]
  BY <1>2
<1>4. LogTyped'
  BY <1>1, <1>3 DEF LogData, LogTyped
<1>5. \A u \in Types : Latest(handle'[u], disk[u])
  BY <1>3 DEF LogData, ContentInv, Latest
<1>6. ContentInv'
  BY <1>1, <1>5 DEF LogData, ContentInv
<1>7. DatesInv'
  <2>1. \A u \in Types : handle'[u] <= currentDate
    BY <1>3, DaysAreNumbers DEF LogData, DatesInv
  <2>2. QED
    BY <1>1, <2>1 DEF LogData, DatesInv
<1>8. AlignedInv'
  <2>1. \A u \in Types, d \in Days : handle'[u] = d => handle[u] = d
    BY <1>3, DaysAreNumbers DEF LogData
  <2>2. QED
    BY <1>1, <2>1 DEF LogData, AlignedInv
<1>9. QED
  BY <1>4, <1>6, <1>7, <1>8 DEF LogData

LEMMA DateKeepsData ==
    ASSUME LogData, WorkInv, NEW t \in LogThreads, SetDate(t)
    PROVE  LogData'
<1>1. UNCHANGED <<buf, handle, disk, today, accepted, crashed, deleted, spliced>>
  BY DEF SetDate
<1>2. /\ currentDate' \in currentDate .. today /\ currentDate # 0
      /\ \A type \in Types : handle[type] = 0
  BY DateKeepsWork DEF LogData
<1>3. currentDate' \in 0 .. today /\ currentDate <= currentDate' /\ 0 <= currentDate'
  BY <1>2, DaysAreNumbers DEF LogData
<1>4. LogTyped'
  BY <1>1, <1>3 DEF LogData, LogTyped
<1>5. ContentInv' /\ AlignedInv'
  BY <1>1 DEF LogData, ContentInv, AlignedInv
<1>6. ASSUME NEW type \in Types, NEW d \in Days, disk[type][d] # <<>>  PROVE d <= today /\ d <= currentDate'
  <2>1. d <= today /\ d <= currentDate
    BY <1>2, <1>6 DEF LogData, DatesInv
  <2>2. QED
    BY <1>3, <2>1, DaysAreNumbers DEF LogData
<1>7. DatesInv'
  BY <1>1, <1>2, <1>3, <1>6 DEF DatesInv
<1>8. QED
  BY <1>4, <1>5, <1>7 DEF LogData

\* A file of the latest day is opened.
LEMMA OpenKeepsLog ==
    ASSUME NEW f, NEW day \in Days, \A d \in Days : f[d] # <<>> => d <= day
    PROVE  Latest(day, f)
  BY DEF Latest

LEMMA OpenKeepsData ==
    ASSUME LogData, WorkInv, NEW t \in LogThreads, NEW type \in Types, OpenOne(t, type)
    PROVE  LogData'
<1>1. /\ UNCHANGED <<buf, disk, today, currentDate, accepted, crashed, deleted>>
      /\ spliced' = spliced \cup Splices(type, DayOf(t))
      /\ handle' = [handle EXCEPT ![type] = DayOf(t)]
  BY DEF OpenOne
<1>2. DayOf(t) = currentDate /\ currentDate # 0
  <2>1. work[t] # <<>> /\ Head(work[t])[1] = "open" /\ Script(work[t], currentDate, today)
    BY DEF OpenOne, Doing, WorkInv
  <2>2. Head(work[t])[3] = currentDate
    BY <2>1, NextOperation
  <2>3. currentDate # 0
    BY <2>1 DEF WorkInv
  <2>4. QED
    BY <2>2, <2>3 DEF DayOf
<1>3. currentDate \in Days /\ currentDate \in 0 .. LastDay
  BY <1>2, LogAssumption DEF LogData, LogTyped, Days
<1>4. /\ handle' \in [Types -> 0 .. LastDay] /\ handle'[type] = currentDate
      /\ \A u \in Types \ {type} : handle'[u] = handle[u]
  BY <1>1, <1>2, <1>3 DEF LogData, LogTyped
<1>5. LogTyped'
  BY <1>1, <1>4 DEF LogData, LogTyped
<1>6. ASSUME NEW u \in Types  PROVE Latest(handle'[u], disk[u])
  <2>1. CASE u = type
    <3>1. \A d \in Days : disk[u][d] # <<>> => d <= currentDate
      BY <1>2 DEF LogData, DatesInv
    <3>2. QED
      BY <1>3, <1>4, <2>1, <3>1, OpenKeepsLog
  <2>2. CASE u # type
    BY <1>4, <2>2 DEF LogData, ContentInv
  <2>3. QED
    BY <2>1, <2>2
<1>7. ContentInv'
  BY <1>1, <1>6 DEF LogData, ContentInv
<1>8. DatesInv'
  <2>1. \A u \in Types : handle'[u] <= currentDate
    BY <1>4, DaysAreNumbers DEF LogData, DatesInv
  <2>2. QED
    BY <1>1, <2>1 DEF LogData, DatesInv
<1>9. ASSUME NEW u \in Types, NEW d \in Days, <<u, d>> \notin spliced', handle'[u] = d
      PROVE  Even(Len(disk[u][d]))
  <2>1. <<u, d>> \notin spliced
    BY <1>1, <1>9
  <2>2. CASE u = type
    <3>1. d = currentDate
      BY <1>4, <1>9, <2>2
    <3>2. <<type, currentDate>> \notin Splices(type, currentDate)
      BY <1>1, <1>2, <1>9, <2>2, <3>1
    <3>3. Len(disk[type][currentDate]) % 2 # 1
      BY <3>2 DEF Splices
    <3>4. Len(disk[type][currentDate]) \in Nat
      <4>1. disk[type][currentDate] \in Seq(Half)
        BY <1>3 DEF LogData, LogTyped
      <4>2. QED
        BY <4>1
    <3>5. \A n \in Nat : n % 2 # 1 => n % 2 = 0
      OBVIOUS
    <3>6. QED
      BY <2>2, <3>1, <3>3, <3>4, <3>5 DEF Even
  <2>3. CASE u # type
    BY <1>4, <1>9, <2>1, <2>3 DEF LogData, AlignedInv
  <2>4. QED
    BY <2>2, <2>3
<1>10. AlignedInv'
  <2>1. spliced \subseteq spliced'
    BY <1>1
  <2>2. QED
    BY <1>1, <1>9, <2>1 DEF LogData, AlignedInv
<1>11. QED
  BY <1>5, <1>7, <1>8, <1>10 DEF LogData

\* Files are deleted, of all logs the same days.
LEMMA DeletingKeeps ==
    ASSUME LogTyped, ContentInv, NEW date, Deleting(date)
    PROVE  /\ disk' \in [Types -> [Days -> Seq(Half)]]
           /\ \A type \in Types :
                 /\ Ordered(buf[type], disk'[type], accepted[type])
                 /\ Placed(buf[type], disk'[type], accepted[type], crashed[type], deleted'[type])
                 /\ \A h : Latest(h, disk[type]) => Latest(h, disk'[type])
                 /\ \A d \in Days : disk'[type][d] = disk[type][d] \/ disk'[type][d] = <<>>
<1> DEFINE O == OldDays(date)
<1>1. O \in SUBSET Days
  BY DEF OldDays
<1>2. /\ disk' = [type \in Types |-> Without(disk[type], O)]
      /\ deleted' = [type \in Types |-> deleted[type] \cup UNION {RecordsOf(disk[type][d]) : d \in O}]
  BY DEF Deleting, Without
<1> HIDE DEF O
<1>3. ASSUME NEW type \in Types
      PROVE  /\ Ordered(buf[type], disk'[type], accepted[type])
             /\ Placed(buf[type], disk'[type], accepted[type], crashed[type], deleted'[type])
             /\ \A h : Latest(h, disk[type]) => Latest(h, disk'[type])
             /\ \A d \in Days : disk'[type][d] = disk[type][d] \/ disk'[type][d] = <<>>
  <2>1. /\ disk'[type] = Without(disk[type], O)
        /\ deleted'[type] = deleted[type] \cup UNION {RecordsOf(disk[type][d]) : d \in O}
    BY <1>2
  <2>2. /\ Ordered(buf[type], disk[type], accepted[type])
        /\ Placed(buf[type], disk[type], accepted[type], crashed[type], deleted[type])
    BY DEF ContentInv
  <2>3. Ordered(buf[type], disk'[type], accepted[type])
    BY <1>1, <2>1, <2>2, DeleteOrdered
  <2>4. Placed(buf[type], disk'[type], accepted[type], crashed[type], deleted'[type])
    BY <1>1, <2>1, <2>2, DeletePlaced
  <2>5. \A h : Latest(h, disk[type]) => Latest(h, disk'[type])
    BY <2>1, DeleteLatest
  <2>6. \A d \in Days : disk'[type][d] = disk[type][d] \/ disk'[type][d] = <<>>
    BY <2>1 DEF Without
  <2>7. QED
    BY <2>3, <2>4, <2>5, <2>6
<1>4. disk' \in [Types -> [Days -> Seq(Half)]]
  <2>1. \A type \in Types : disk'[type] \in [Days -> Seq(Half)]
    BY <1>3 DEF Ordered
  <2>2. QED
    BY <1>2, <2>1
<1>5. QED
  BY <1>3, <1>4

LEMMA NoHalves == Aligned(<<>>) /\ Even(Len(<<>>))
<1>1. DOMAIN <<>> = {} /\ Len(<<>>) = 0 /\ 0 % 2 = 0
  OBVIOUS
<1>2. QED
  BY <1>1 DEF Aligned, Even

LEMMA DeleteKeepsData ==
    ASSUME LogData, NEW t, DeleteOldFiles(t)
    PROVE  LogData'
<1>1. /\ UNCHANGED <<buf, handle, today, currentDate, accepted, crashed, spliced>>
      /\ Deleting(currentDate)
  BY DEF DeleteOldFiles
<1>2. /\ disk' \in [Types -> [Days -> Seq(Half)]]
      /\ \A type \in Types :
            /\ Ordered(buf[type], disk'[type], accepted[type])
            /\ Placed(buf[type], disk'[type], accepted[type], crashed[type], deleted'[type])
            /\ \A h : Latest(h, disk[type]) => Latest(h, disk'[type])
            /\ \A d \in Days : disk'[type][d] = disk[type][d] \/ disk'[type][d] = <<>>
  BY <1>1, DeletingKeeps DEF LogData
<1>3. LogTyped'
  BY <1>1, <1>2 DEF LogData, LogTyped
<1>4. ContentInv'
  BY <1>1, <1>2 DEF LogData, ContentInv
<1>5. DatesInv'
  BY <1>1, <1>2 DEF LogData, DatesInv
<1>6. AlignedInv'
  BY <1>1, <1>2, NoHalves DEF LogData, AlignedInv
<1>7. QED
  BY <1>3, <1>4, <1>5, <1>6 DEF LogData

LEMMA InitializeKeepsData ==
    ASSUME LogData, Initialize
    PROVE  LogData'
<1>1. /\ UNCHANGED <<buf, today, accepted, crashed>> /\ Deleting(today) /\ currentDate' = today
      /\ handle' = [type \in Types |-> today]
      /\ spliced' = spliced \cup UNION {Splices(type, today) : type \in Types}
  BY DEF Initialize
<1>2. /\ disk' \in [Types -> [Days -> Seq(Half)]]
      /\ \A type \in Types :
            /\ Ordered(buf[type], disk'[type], accepted[type])
            /\ Placed(buf[type], disk'[type], accepted[type], crashed[type], deleted'[type])
            /\ \A h : Latest(h, disk[type]) => Latest(h, disk'[type])
            /\ \A d \in Days : disk'[type][d] = disk[type][d] \/ disk'[type][d] = <<>>
  BY <1>1, DeletingKeeps DEF LogData
<1>3. today \in Days /\ today \in 0 .. LastDay /\ today \in 0 .. today /\ today <= today
  BY LogAssumption DEF LogData, LogTyped, Days
<1>4. handle' \in [Types -> 0 .. LastDay] /\ \A type \in Types : handle'[type] = today
  BY <1>1, <1>3
<1>5. LogTyped'
  BY <1>1, <1>2, <1>3, <1>4 DEF LogData, LogTyped
<1>6. \A type \in Types : Latest(today, disk'[type])
  <2>1. \A type \in Types : Latest(today, disk[type])
    BY <1>3, OpenKeepsLog DEF LogData, DatesInv
  <2>2. QED
    BY <1>2, <2>1
<1>7. ContentInv'
  BY <1>1, <1>2, <1>4, <1>6 DEF ContentInv
<1>8. DatesInv'
  BY <1>1, <1>2, <1>3, <1>4 DEF LogData, DatesInv
<1>9. ASSUME NEW type \in Types, NEW d \in Days, <<type, d>> \notin spliced'
      PROVE  Aligned(disk'[type][d]) /\ (handle'[type] = d => Even(Len(disk'[type][d])))
  <2>1. Aligned(disk[type][d])
    BY <1>1, <1>9 DEF LogData, AlignedInv
  <2>2. handle'[type] = d => Even(Len(disk[type][d]))
    <3> SUFFICES ASSUME d = today PROVE Even(Len(disk[type][d]))
      BY <1>4
    <3>1. <<type, today>> \notin Splices(type, today)
      BY <1>1, <1>9
    <3>2. Len(disk[type][d]) % 2 # 1
      BY <3>1 DEF Splices
    <3>3. Len(disk[type][d]) \in Nat
      <4>1. disk[type][d] \in Seq(Half)
        BY DEF LogData, LogTyped
      <4>2. QED
        BY <4>1
    <3>4. \A n \in Nat : n % 2 # 1 => n % 2 = 0
      OBVIOUS
    <3>5. QED
      BY <3>2, <3>3, <3>4 DEF Even
  <2>3. QED
    BY <1>2, <2>1, <2>2, NoHalves
<1>10. AlignedInv'
  BY <1>9 DEF AlignedInv
<1>11. QED
  BY <1>5, <1>7, <1>8, <1>10 DEF LogData

\* The process dies: one log.
LEMMA CrashKeepsLog ==
    ASSUME LogData, NEW type \in Types, NEW k \in Nat,
           k > 0 => handle[type] # 0 /\ k <= 2 * Len(buf[type])
    PROVE  LET b == buf[type]  f == disk[type]  h == handle[type]
               g == [d \in Days |-> IF d = h THEN f[d] \o SubSeq(Halves(b), 1, k) ELSE f[d]] IN
           /\ Ordered(<<>>, g, accepted[type])
           /\ Placed(<<>>, g, accepted[type], crashed[type] \cup {b[i] : i \in k \div 2 + 1 .. Len(b)},
                     deleted[type])
           /\ \A d \in Days : g[d] # <<>> => d <= today
           /\ \A d \in Days : <<type, d>> \notin spliced => Aligned(g[d])
<1> DEFINE b == buf[type]
           f == disk[type]
           h == handle[type]
           n == accepted[type]
           cr == crashed[type]
           de == deleted[type]
           g == [d \in Days |-> IF d = h THEN f[d] \o SubSeq(Halves(b), 1, k) ELSE f[d]]
           lost == {b[i] : i \in k \div 2 + 1 .. Len(b)}
<1>1. /\ b \in Seq(Nat) /\ f \in [Days -> Seq(Half)] /\ Ordered(b, f, n) /\ Placed(b, f, n, cr, de)
      /\ Latest(h, f) /\ \A d \in Days : f[d] # <<>> => d <= today
      /\ \A d \in Days : <<type, d>> \notin spliced => Aligned(f[d]) /\ (h = d => Even(Len(f[d])))
      /\ h <= currentDate /\ h \in Nat
  BY DaysAreNumbers DEF LogData, LogTyped, ContentInv, DatesInv, AlignedInv
<1>2. h <= today
  BY <1>1, DaysAreNumbers DEF LogData
<1>3. k > 0 => h # 0 /\ k <= 2 * Len(b)
  OBVIOUS
<1>4. \A d \in Days : d # 0
  BY DaysAreNumbers DEF LogData
<1> HIDE DEF b, f, h, n, cr, de
<1>5. CASE h = 0
  <2>1. g = f
    BY <1>1, <1>4, <1>5
  <2>2. k = 0
    BY <1>3, <1>5
  <2>3. lost = {b[i] : i \in 1 .. Len(b)}
    <3>1. k \div 2 + 1 = 1
      BY <2>2
    <3>2. QED
      BY <3>1
  <2> HIDE DEF g, lost
  <2>4. Ordered(<<>>, f, n) /\ Placed(<<>>, f, n, cr \cup {b[i] : i \in 1 .. Len(b)}, de)
    BY <1>1, LosePlaced
  <2>5. Ordered(<<>>, g, n) /\ Placed(<<>>, g, n, cr \cup lost, de)
    BY <2>1, <2>3, <2>4
  <2>6. QED
    BY <1>1, <2>1, <2>5 DEF g, lost, b, f, h, n, cr, de
<1>6. CASE h # 0
  <2>1. h \in Days
    BY <1>1, <1>6 DEF Latest
  <2>2. k \in 0 .. 2 * Len(b)
    <3>1. Len(b) \in Nat
      BY <1>1
    <3>2. QED
      BY <1>3, <3>1
  <2> DEFINE hs == SubSeq(Halves(b), 1, k)
             e == [f EXCEPT ![h] = @ \o hs]
  <2>3. IsPart(hs, b, k)
    BY <1>1, <2>2, SubSeqIsPart
  <2>4. g = e
    BY <1>1
  <2> HIDE DEF hs, g
  <2>5. Ordered(b, f, n) /\ Placed(b, f, n, cr, de) /\ Latest(h, f)
    BY <1>1
  <2>6. /\ e \in [Days -> Seq(Half)] /\ Ordered(<<>>, e, n)
        /\ Placed(<<>>, e, n, cr \cup {b[i] : i \in k \div 2 + 1 .. Len(b)}, de)
        /\ Latest(h, e)
        /\ \A d \in Days \ {h} : e[d] = f[d]
        /\ \A d \in Days : e[d] # <<>> => f[d] # <<>> \/ d = h
        /\ Aligned(f[h]) /\ Even(Len(f[h])) => Aligned(e[h]) /\ (k = 2 * Len(b) => Even(Len(e[h])))
    BY <2>1, <2>2, <2>3, <2>5, PartKeepsLog, ZenonT(60)
  <2> HIDE DEF e, lost
  <2>7. \A d \in Days : e[d] # <<>> => d <= today
    BY <1>1, <1>2, <2>6
  <2>8. \A d \in Days : <<type, d>> \notin spliced => Aligned(e[d])
    BY <1>1, <2>1, <2>6
  <2>9. QED
    BY <2>4, <2>6, <2>7, <2>8 DEF g, b, f, h, n, cr, de
<1>7. QED
  BY <1>5, <1>6

LEMMA CrashKeepsData ==
    ASSUME LogData, LogCrash
    PROVE  LogData'
<1>1. PICK part \in [Types -> 0 .. 2 * BufCap] :
         /\ \A type \in Types : part[type] > 0 => handle[type] # 0 /\ part[type] <= 2 * Len(buf[type])
         /\ disk' = [type \in Types |-> [d \in Days |->
                        IF d = handle[type] THEN disk[type][d] \o SubSeq(Halves(buf[type]), 1, part[type])
                                            ELSE disk[type][d]]]
         /\ crashed' = [type \in Types |-> crashed[type] \cup
                            {buf[type][i] : i \in part[type] \div 2 + 1 .. Len(buf[type])}]
  BY DEF LogCrash
<1>2. /\ buf' = [type \in Types |-> <<>>] /\ handle' = [type \in Types |-> 0] /\ currentDate' = 0
      /\ UNCHANGED <<today, accepted, deleted, spliced>>
  BY DEF LogCrash
<1> DEFINE g(type) == [d \in Days |-> IF d = handle[type]
                                      THEN disk[type][d] \o SubSeq(Halves(buf[type]), 1, part[type])
                                      ELSE disk[type][d]]
           lost(type) == {buf[type][i] : i \in part[type] \div 2 + 1 .. Len(buf[type])}
<1>3. ASSUME NEW type \in Types
      PROVE  /\ Ordered(<<>>, g(type), accepted[type])
             /\ Placed(<<>>, g(type), accepted[type], crashed[type] \cup lost(type), deleted[type])
             /\ \A d \in Days : g(type)[d] # <<>> => d <= today
             /\ \A d \in Days : <<type, d>> \notin spliced => Aligned(g(type)[d])
  <2>1. part[type] \in Nat
    BY LogAssumption
  <2>2. part[type] > 0 => handle[type] # 0 /\ part[type] <= 2 * Len(buf[type])
    BY <1>1
  <2>3. QED
    BY <2>1, <2>2, CrashKeepsLog, ZenonT(60)
<1>4. disk' = [type \in Types |-> g(type)] /\ crashed' = [type \in Types |-> crashed[type] \cup lost(type)]
  BY <1>1
<1> HIDE DEF g, lost
<1>5. \A type \in Types : /\ disk'[type] = g(type) /\ crashed'[type] = crashed[type] \cup lost(type)
                          /\ buf'[type] = <<>> /\ handle'[type] = 0
  BY <1>2, <1>4
<1>6. LogTyped'
  <2>1. \A type \in Types : g(type) \in [Days -> Seq(Half)]
    BY <1>3 DEF Ordered
  <2>2. disk' \in [Types -> [Days -> Seq(Half)]]
    BY <1>4, <2>1
  <2>3. buf' \in [Types -> Seq(Nat)]
    BY <1>2
  <2>4. handle' \in [Types -> 0 .. LastDay] /\ 0 \in 0 .. today
    BY <1>2, LogAssumption, DaysAreNumbers DEF LogData
  <2>5. QED
    BY <1>2, <2>2, <2>3, <2>4 DEF LogData, LogTyped
<1>7. ContentInv'
  <2>1. \A f : Latest(0, f)
    BY DEF Latest
  <2>2. QED
    BY <1>2, <1>3, <1>5, <2>1 DEF ContentInv
<1>8. DatesInv'
  <2>1. 0 <= 0
    OBVIOUS
  <2>2. ASSUME NEW type \in Types, NEW d \in Days, disk'[type][d] # <<>>  PROVE d <= today'
    BY <1>2, <1>3, <1>5, <2>2
  <2>3. QED
    BY <1>2, <1>5, <2>1, <2>2 DEF DatesInv
<1>9. AlignedInv'
  <2>1. \A d \in Days : d # 0
    BY DaysAreNumbers DEF LogData
  <2>2. QED
    BY <1>2, <1>3, <1>5, <2>1 DEF AlignedInv
<1>10. QED
  BY <1>6, <1>7, <1>8, <1>9 DEF LogData

-----------------------------------------------------------------------------
(* LogFiles: the theorems *)

LEMMA LogInvInit == LogInit => LogInv
<1> SUFFICES ASSUME LogInit PROVE LogInv
  OBVIOUS
<1>1. /\ <<>> \in Seq(Nat) /\ <<>> \in Seq(Half) /\ DOMAIN <<>> = {} /\ Range(<<>>) = {}
      /\ 1 .. 0 = {} /\ 0 \in Nat
  BY DEF Range
<1>2. RecordsOf(<<>>) = {}
  BY <1>1 DEF RecordsOf, Ends
<1>3. LogTyped
  <2>1. 1 \in Days /\ 0 \in 0 .. LastDay /\ 0 \in 0 .. 1
    BY LogAssumption DEF Days
  <2>2. QED
    BY <1>1, <2>1 DEF LogInit, LogTyped
<1>4. \A type \in Types : /\ buf[type] = <<>> /\ accepted[type] = 0 /\ crashed[type] = {} /\ deleted[type] = {}
                          /\ handle[type] = 0 /\ \A d \in Days : disk[type][d] = <<>>
  BY DEF LogInit
<1>5. ContentInv
  <2>1. ASSUME NEW type \in Types
        PROVE  /\ Ordered(buf[type], disk[type], accepted[type]) /\ Latest(handle[type], disk[type])
               /\ Placed(buf[type], disk[type], accepted[type], crashed[type], deleted[type])
    <3>1. disk[type] \in [Days -> Seq(Half)]
      BY <1>3 DEF LogTyped
    <3>2. Ordered(buf[type], disk[type], accepted[type])
      BY <1>1, <1>4, <3>1 DEF Ordered
    <3>3. Stored(disk[type]) = {}
      BY <1>2, <1>4 DEF Stored
    <3>4. Placed(buf[type], disk[type], accepted[type], crashed[type], deleted[type])
      BY <1>1, <1>4, <3>3 DEF Placed
    <3>5. Latest(handle[type], disk[type])
      BY <1>4 DEF Latest
    <3>6. QED
      BY <3>2, <3>4, <3>5
  <2>2. QED
    BY <2>1 DEF ContentInv
<1>6. DatesInv
  <2>1. currentDate = 0 /\ 0 <= 0
    BY DEF LogInit
  <2>2. QED
    BY <1>4, <2>1 DEF DatesInv
<1>7. AlignedInv
  BY <1>4, NoHalves DEF AlignedInv
<1>8. WorkInv
  <2>1. work = [t \in LogThreads |-> <<>>] /\ currentDate = 0 /\ logRunning = FALSE
    BY DEF LogInit
  <2>2. /\ <<>> \in Seq(Ops) /\ "app" \in LogThreads /\ "writer" \in LogThreads
    BY DEF LogThreads
  <2>3. work \in [LogThreads -> Seq(Ops)] /\ \A t \in LogThreads : work[t] = <<>>
    BY <2>1, <2>2
  <2>4. Script(<<>>, currentDate, today) /\ ~ Has(<<>>, "date") /\ ~ Has(<<>>, "delete")
    BY <1>1, <2>2, QuietScript
  <2>5. \A t \in LogThreads : ~ Rotating(t)
    BY <1>1, <2>3 DEF Rotating
  <2>6. QED
    BY <2>1, <2>2, <2>3, <2>4, <2>5 DEF WorkInv
<1>9. QED
  BY <1>3, <1>5, <1>6, <1>7, <1>8 DEF LogInv

\* One operation of a thread.
LEMMA LogStepKeeps ==
    ASSUME LogData, WorkInv, NEW t \in LogThreads, LogStep(t)
    PROVE  LogData' /\ WorkInv'
<1>1. ASSUME NEW type \in Types, FlushOne(t, type)  PROVE LogData' /\ WorkInv'
  <2>1. /\ work[t] # <<>> /\ Head(work[t])[1] = "flush" /\ Done(t)
        /\ UNCHANGED <<handle, currentDate, today, logRunning>>
    BY <1>1 DEF FlushOne, Doing
  <2>2. WorkInv'
    BY <2>1, DoneKeepsWork DEF LogData
  <2>3. QED
    BY <1>1, <2>2, FlushKeepsData
<1>2. ASSUME NEW type \in Types, CloseOne(t, type)  PROVE LogData' /\ WorkInv'
  <2>1. /\ work[t] # <<>> /\ Head(work[t])[1] = "close" /\ Head(work[t])[2] = type /\ Done(t)
        /\ UNCHANGED <<currentDate, today, logRunning>> /\ handle' = [handle EXCEPT ![type] = 0]
    BY <1>2 DEF CloseOne, Doing
  <2>2. handle'[type] = 0 /\ \A u \in Types : handle'[u] \in {0, handle[u]}
    BY <2>1 DEF LogData, LogTyped
  <2>3. WorkInv'
    BY <2>1, <2>2, DoneKeepsWork DEF LogData
  <2>4. QED
    BY <1>2, <2>3, CloseKeepsData
<1>3. ASSUME NEW type \in Types, OpenOne(t, type)  PROVE LogData' /\ WorkInv'
  <2>1. /\ work[t] # <<>> /\ Head(work[t])[1] = "open" /\ Done(t)
        /\ UNCHANGED <<currentDate, today, logRunning>> /\ handle' = [handle EXCEPT ![type] = DayOf(t)]
    BY <1>3 DEF OpenOne, Doing
  <2>2. /\ ~ Has(work[t], "date") /\ Has(work[t], "delete") /\ DayOf(t) = currentDate
    <3>1. Script(work[t], currentDate, today)
      BY DEF WorkInv
    <3>2. QED
      BY <2>1, <3>1, NextOperation DEF DayOf
  <2>3. \A u \in Types : handle'[u] = handle[u] \/ handle'[u] = currentDate
    BY <2>1, <2>2 DEF LogData, LogTyped
  <2>4. Rotating(t)
    BY <2>2, RotatingIs
  <2>5. WorkInv'
    BY <2>1, <2>2, <2>3, <2>4, DoneKeepsWork DEF LogData
  <2>6. QED
    BY <1>3, <2>5, OpenKeepsData
<1>4. CASE SetDate(t)
  BY <1>4, DateKeepsWork, DateKeepsData DEF LogData
<1>5. CASE DeleteOldFiles(t)
  <2>1. /\ work[t] # <<>> /\ Head(work[t])[1] = "delete" /\ Done(t)
        /\ UNCHANGED <<handle, currentDate, today, logRunning>>
    BY <1>5 DEF DeleteOldFiles, Doing
  <2>2. WorkInv'
    BY <2>1, DoneKeepsWork DEF LogData
  <2>3. QED
    BY <1>5, <2>2, DeleteKeepsData
<1>6. QED
  BY <1>1, <1>2, <1>3, <1>4, <1>5 DEF LogStep

LEMMA LogInvStep == LogInv /\ [LogNext]_logVars => LogInv'
<1> SUFFICES ASSUME LogInv, [LogNext]_logVars, ~ raced' PROVE LogData' /\ WorkInv'
  BY DEF LogInv, LogData
<1>1. ~ raced
  BY DEF LogNext, logVars, Write, Run, AppFlush, StopLog, JoinWriter, Initialize, LogStep, FlushOne, CloseOne,
         OpenOne, SetDate, DeleteOldFiles, Midnight, LogCrash
<1>2. LogData /\ WorkInv
  BY <1>1 DEF LogInv, LogData
<1>3. today \in Nat /\ today \in Days /\ today <= today
  BY <1>2, DaysAreNumbers DEF LogData
<1>4. ASSUME NEW type \in Types, Write(type)  PROVE LogData' /\ WorkInv'
  <2>1. UNCHANGED <<work, handle, currentDate, logRunning, today>>
    BY <1>4 DEF Write
  <2>2. WorkInv'
    BY <1>2, <1>3, <2>1, DayKeepsWork DEF LogData
  <2>3. QED
    BY <1>2, <1>4, <2>2, WriteKeepsData
<1>5. CASE Run
  <2>1. UNCHANGED <<buf, handle, disk, accepted, crashed, deleted, spliced, currentDate, today>>
    BY <1>5 DEF Run
  <2>2. QED
    BY <1>2, <1>3, <1>5, <2>1, QuietKeepsData, RunKeepsWork DEF LogData
<1>6. CASE AppFlush
  <2>1. UNCHANGED <<buf, handle, disk, accepted, crashed, deleted, spliced, currentDate, today>>
    BY <1>6 DEF AppFlush
  <2>2. QED
    BY <1>2, <1>3, <1>6, <2>1, QuietKeepsData, AppFlushKeepsWork DEF LogData
<1>7. CASE StopLog
  <2>1. UNCHANGED <<buf, handle, disk, accepted, crashed, deleted, spliced, currentDate, today>>
    BY <1>7 DEF StopLog
  <2>2. QED
    BY <1>2, <1>3, <1>7, <2>1, QuietKeepsData, StopKeepsWork DEF LogData
<1>8. CASE JoinWriter
  <2>1. /\ UNCHANGED <<buf, handle, disk, accepted, crashed, deleted, spliced, currentDate, today, logRunning>>
        /\ work["app"] # <<>> /\ Head(work["app"])[1] = "join" /\ Done("app") /\ work["writer"] = <<>>
    BY <1>8 DEF JoinWriter, Doing
  <2>2. "app" \in LogThreads
    BY DEF LogThreads
  <2>3. WorkInv'
    BY <1>2, <2>1, <2>2, DoneKeepsWork DEF LogData
  <2>4. QED
    BY <1>2, <1>3, <2>1, <2>3, QuietKeepsData
<1>9. CASE Initialize
  <2>1. /\ work["app"] = <<>> /\ ~ logRunning /\ work' = work /\ currentDate' = today
    BY <1>9 DEF Initialize
  <2>2. work = [t \in LogThreads |-> <<>>]
    <3>1. work \in [LogThreads -> Seq(Ops)] /\ work["writer"] = <<>>
      BY <1>2, <2>1 DEF WorkInv
    <3>2. \A t \in LogThreads : work[t] = <<>>
      BY <2>1, <3>1 DEF LogThreads
    <3>3. QED
      BY <3>1, <3>2
  <2>3. currentDate' # 0
    BY <1>2, <2>1, DaysAreNumbers DEF LogData
  <2>4. WorkInv'
    BY <2>1, <2>2, <2>3, IdleKeepsWork
  <2>5. QED
    BY <1>2, <1>9, <2>4, InitializeKeepsData
<1>10. ASSUME NEW t \in LogThreads, LogStep(t)  PROVE LogData' /\ WorkInv'
  BY <1>2, <1>10, LogStepKeeps
<1>11. CASE Midnight
  <2>1. /\ UNCHANGED <<buf, handle, disk, accepted, crashed, deleted, spliced, currentDate, work, logRunning>>
        /\ today < LastDay /\ today' = today + 1
    BY <1>11 DEF Midnight
  <2>2. today' \in Days /\ today' \in Nat /\ today <= today'
    BY <1>3, <2>1, LogAssumption DEF Days
  <2>3. QED
    BY <1>2, <2>1, <2>2, QuietKeepsData, DayKeepsWork DEF LogData
<1>12. CASE LogCrash
  <2>1. work' = [t \in LogThreads |-> <<>>] /\ logRunning' = FALSE
    BY <1>12 DEF LogCrash
  <2>2. QED
    BY <1>2, <1>12, <2>1, CrashKeepsData, IdleKeepsWork
<1>13. CASE UNCHANGED logVars
  <2>1. UNCHANGED <<buf, handle, disk, accepted, crashed, deleted, spliced, currentDate, work, logRunning, today>>
    BY <1>13 DEF logVars
  <2>2. QED
    BY <1>2, <1>3, <2>1, QuietKeepsData, DayKeepsWork DEF LogData
<1>14. QED
  BY <1>4, <1>5, <1>6, <1>7, <1>8, <1>9, <1>10, <1>11, <1>12, <1>13 DEF LogNext

\* What the invariant says of a file's whole records.
LEMMA EndsInOrder ==
    ASSUME NEW x \in Half, NEW y \in Half, x[2] = 2, y[2] = 2, Key(x) < Key(y)
    PROVE  x[1] < y[1]
<1> DEFINE a == x[1]
           c == y[1]
<1>1. a \in Nat /\ c \in Nat
  BY DEF Half
<1>2. Key(x) = 2 * a + 2 /\ Key(y) = 2 * c + 2
  BY DEF Key
<1> HIDE DEF a, c
<1>3. a < c
  BY <1>1, <1>2
<1>4. QED
  BY <1>3 DEF a, c

LEMMA LogInvComplete == LogInv => LogComplete
<1> SUFFICES ASSUME LogInv, ~ raced, NEW type \in Types
             PROVE  /\ 1 .. accepted[type] = Range(buf[type]) \cup crashed[type] \cup deleted[type]
                                             \cup UNION {InFile(type, d) : d \in Days}
                    /\ Range(buf[type]) \cap (crashed[type] \cup deleted[type]) = {}
                    /\ \A d \in Days :
                          /\ \A r \in InFile(type, d) :
                                /\ r \notin crashed[type] \cup deleted[type]
                                /\ \A s \in Range(buf[type]) : r < s
                                /\ \A e \in d + 1 .. LastDay : \A s \in InFile(type, e) : r < s
                          /\ \A i, j \in Ends(disk[type][d]) : i < j => disk[type][d][i][1] < disk[type][d][j][1]
                    /\ \A t \in LogThreads : Doing(t, "delete", "none") => handle[type] \notin OldDays(currentDate)
  BY DEF LogComplete
<1> DEFINE f == disk[type]
           b == buf[type]
<1>1. /\ LogTyped /\ WorkInv /\ Ordered(b, f, accepted[type])
      /\ Placed(b, f, accepted[type], crashed[type], deleted[type])
  BY DEF LogInv, ContentInv
<1>2. \A d \in Days : InFile(type, d) = RecordsOf(f[d])
  BY DEF InFile
<1>3. UNION {InFile(type, d) : d \in Days} = Stored(f)
  BY <1>2 DEF Stored
<1> HIDE DEF f, b
<1>4. \A d \in Days : \A r \in RecordsOf(f[d]) : r \in Stored(f)
  BY DEF Stored
<1>5. /\ 1 .. accepted[type] = Range(b) \cup crashed[type] \cup deleted[type] \cup Stored(f)
      /\ Range(b) \cap (crashed[type] \cup deleted[type]) = {}
      /\ Stored(f) \cap (crashed[type] \cup deleted[type]) = {}
  BY <1>1 DEF Placed
<1>6. ASSUME NEW d \in Days, NEW i \in DOMAIN f[d]  PROVE f[d][i] \in Half
  <2>1. f[d] \in Seq(Half)
    BY <1>1 DEF Ordered
  <2>2. QED
    BY <2>1
<1>7. ASSUME NEW d \in Days, NEW e \in Days, d < e, NEW r \in RecordsOf(f[d]), NEW s \in RecordsOf(f[e])
      PROVE  r < s
  <2>1. PICK i \in DOMAIN f[d] : f[d][i][2] = 2 /\ f[d][i][1] = r
    BY DEF RecordsOf, Ends
  <2>2. PICK j \in DOMAIN f[e] : f[e][j][2] = 2 /\ f[e][j][1] = s
    BY DEF RecordsOf, Ends
  <2>3. Key(f[d][i]) < Key(f[e][j])
    BY <1>1, <1>7 DEF Ordered
  <2>4. QED
    BY <1>6, <2>1, <2>2, <2>3, EndsInOrder
<1>8. ASSUME NEW d \in Days, NEW i \in Ends(f[d]), NEW j \in Ends(f[d]), i < j
      PROVE  f[d][i][1] < f[d][j][1]
  <2>1. i \in DOMAIN f[d] /\ j \in DOMAIN f[d] /\ f[d][i][2] = 2 /\ f[d][j][2] = 2
    BY DEF Ends
  <2>2. Key(f[d][i]) < Key(f[d][j])
    BY <1>1, <1>8, <2>1 DEF Ordered
  <2>3. QED
    BY <1>6, <2>1, <2>2, EndsInOrder
<1>9. ASSUME NEW d \in Days, NEW r \in RecordsOf(f[d])
      PROVE  /\ r \notin crashed[type] \cup deleted[type]
             /\ \A s \in Range(b) : r < s
             /\ \A e \in d + 1 .. LastDay : \A s \in RecordsOf(f[e]) : r < s
  <2>1. r \in Stored(f)
    BY <1>4
  <2>2. \A s \in Range(b) : r < s
    BY <1>1, <2>1, StoredBelowBuffer DEF Range
  <2>3. \A e \in d + 1 .. LastDay : e \in Days /\ d < e
    BY LogAssumption DEF Days
  <2>4. QED
    BY <1>5, <1>7, <2>1, <2>2, <2>3
<1>10. ASSUME NEW t \in LogThreads, Doing(t, "delete", "none")
       PROVE  handle[type] \notin OldDays(currentDate)
  <2>1. work[t] # <<>> /\ Head(work[t])[1] = "delete" /\ Script(work[t], currentDate, today)
    BY <1>1, <1>10 DEF Doing, WorkInv
  <2>2. ~ Has(work[t], "date") /\ Has(work[t], "delete")
    BY <2>1, NextOperation
  <2>3. handle[type] \in {0, currentDate}
    BY <1>1, <2>2, RotatingIs DEF WorkInv
  <2>4. ~ (currentDate < currentDate) /\ 0 \notin Days
    BY <1>1, DaysAreNumbers
  <2>5. QED
    BY <2>3, <2>4 DEF OldDays
<1>11. \A d \in Days : \A e \in d + 1 .. LastDay : e \in Days
  BY LogAssumption DEF Days
<1>12. ASSUME NEW d \in Days
       PROVE  /\ \A r \in InFile(type, d) :
                    /\ r \notin crashed[type] \cup deleted[type]
                    /\ \A s \in Range(b) : r < s
                    /\ \A e \in d + 1 .. LastDay : \A s \in InFile(type, e) : r < s
              /\ \A i, j \in Ends(f[d]) : i < j => f[d][i][1] < f[d][j][1]
  BY <1>2, <1>8, <1>9, <1>11
<1>13. QED
  BY <1>3, <1>5, <1>10, <1>12 DEF f, b

(* LogWriter keeps every record it accepted, in exactly one place and in   *)
(* order, through flushes, rotations, midnights, stops, restarts and       *)
(* crashes, while no two rotations meet and no file is closed or opened    *)
(* under a thread that uses it; and it deletes no file that is open.       *)
THEOREM LogIsComplete == LogSpec => []LogComplete
<1>1. LogInit => LogInv
  BY LogInvInit
<1>2. LogInv /\ [LogNext]_logVars => LogInv'
  BY LogInvStep
<1>3. LogInv => LogComplete
  BY LogInvComplete
<1>4. QED
  BY <1>1, <1>2, <1>3, PTL DEF LogSpec

-----------------------------------------------------------------------------
(* LogReader *)

LEMMA HalvesOfOne ==
    ASSUME NEW r
    PROVE  Halves(<<r>>) = << <<r, 1>>, <<r, 2>> >>
<1>1. Len(<<r>>) = 1 /\ 2 * 1 = 2 /\ <<r>>[1] = r
  OBVIOUS
<1>2. \A i \in 1 .. 2 : (i + 1) \div 2 = 1 /\ 2 - (i % 2) = i
  OBVIOUS
<1>3. Halves(<<r>>) = [i \in 1 .. 2 |-> <<r, i>>]
  BY <1>1, <1>2 DEF Halves
<1>4. QED
  BY <1>3

\* The i-th pair of halves in a file whose records begin at odd places.
LEMMA RecordIs ==
    ASSUME NEW f \in Seq(Half), Aligned(f), NEW i \in 0 .. RecordCount(f) - 1
    PROVE  LET r == f[2 * i + 2][1] IN
           /\ 2 * i + 2 \in Ends(f) /\ r \in RecordsOf(f) /\ r \in Nat
           /\ RecordAt(f, i) = Halves(<<r>>) /\ RecordAt(f, i)[1][1] = r
<1> DEFINE j == 2 * i + 1
           k == 2 * i + 2
           r == f[k][1]
<1>1. /\ Len(f) \in Nat /\ i \in Nat /\ j \in 1 .. Len(f) /\ k \in 1 .. Len(f) /\ k = j + 1
      /\ j % 2 = 1 /\ k % 2 = 0 /\ k - 1 = j /\ DOMAIN f = 1 .. Len(f)
  BY DEF RecordCount
<1>2. RecordAt(f, i) = << f[j], f[k] >>
  <2>1. RecordAt(f, i) = [x \in 1 .. (k - j + 1) |-> f[j + x - 1]]
    BY DEF RecordAt
  <2>2. k - j + 1 = 2 /\ j + 1 - 1 = j /\ j + 2 - 1 = k
    BY <1>1
  <2> HIDE DEF j, k
  <2>3. RecordAt(f, i) = [x \in 1 .. 2 |-> f[j + x - 1]]
    BY <2>1, <2>2
  <2>4. QED
    BY <2>2, <2>3
<1> HIDE DEF j, k
<1>3. f[j] \in Half /\ f[k] \in Half
  BY <1>1
<1>4. f[j][2] = 1 /\ f[k][2] = 2 /\ f[k][1] = f[j][1]
  <2>1. 2 - (j % 2) = 1 /\ 2 - (k % 2) = 2
    BY <1>1
  <2>2. f[j][2] = 2 - (j % 2) /\ f[k][2] = 2 - (k % 2) /\ f[k][1] = f[k - 1][1]
    BY <1>1 DEF Aligned
  <2>3. QED
    BY <1>1, <2>1, <2>2
<1>5. f[j] = <<r, 1>> /\ f[k] = <<r, 2>> /\ r \in Nat
  BY <1>3, <1>4 DEF Half
<1>6. k \in Ends(f) /\ r \in RecordsOf(f)
  BY <1>1, <1>4 DEF Ends, RecordsOf
<1>7. RecordAt(f, i) = Halves(<<r>>)
  BY <1>2, <1>5, HalvesOfOne
<1>8. RecordAt(f, i)[1][1] = r
  BY <1>2, <1>5
<1>9. QED
  BY <1>5, <1>6, <1>7, <1>8 DEF k

\* Every whole record is one of them.
LEMMA RecordsRead ==
    ASSUME NEW f \in Seq(Half), Aligned(f), NEW r \in RecordsOf(f)
    PROVE  \E i \in 0 .. RecordCount(f) - 1 : f[2 * i + 2][1] = r
<1>1. PICK j \in DOMAIN f : f[j][2] = 2 /\ f[j][1] = r
  BY DEF RecordsOf, Ends
<1>2. j \in 1 .. Len(f) /\ Len(f) \in Nat
  OBVIOUS
<1>3. 2 - (j % 2) = 2
  BY <1>1 DEF Aligned
<1> DEFINE i == j \div 2 - 1
           n == Len(f)
<1>4. i \in 0 .. n \div 2 - 1 /\ 2 * i + 2 = j
  <2>1. j \in 1 .. n /\ n \in Nat /\ j % 2 = 0
    BY <1>2, <1>3
  <2> HIDE DEF n
  <2>2. PICK q \in Nat : j = 2 * q
    <3>1. j = 2 * (j \div 2) /\ j \div 2 \in Nat
      BY <2>1
    <3>2. QED
      BY <3>1
  <2>3. j \div 2 = q /\ q <= n \div 2 /\ q >= 1
    BY <2>1, <2>2
  <2>4. QED
    BY <2>1, <2>2, <2>3
<1> HIDE DEF i
<1>5. QED
  BY <1>1, <1>4 DEF RecordCount

\* The first k records of a file are the earlier ones.
EarlierAre(f, ts, k) == \A i \in 0 .. RecordCount(f) - 1 : TimestampAt(f, i) < ts <=> i < k

\* The records in order: there is such a k.
LEMMA EarlierExist ==
    ASSUME NEW f, RecordCount(f) \in Nat, NEW ts \in Nat,
           \A i \in 0 .. RecordCount(f) - 1 : TimestampAt(f, i) \in Nat,
           \A i, j \in 0 .. RecordCount(f) - 1 : i < j => TimestampAt(f, i) <= TimestampAt(f, j)
    PROVE  \E k \in 0 .. RecordCount(f) : EarlierAre(f, ts, k)
<1> DEFINE n == RecordCount(f)
           T == {i \in 0 .. n : i = n \/ ~ (TimestampAt(f, i) < ts)}
<1>1. n \in Nat
  OBVIOUS
<1>2. T \in SUBSET Nat /\ n \in T
  BY <1>1
<1>3. PICK k \in T : \A x \in T : k <= x
  <2> HIDE DEF T
  <2>1. QED
    BY <1>2, LeastNumber
<1>4. ASSUME NEW i \in 0 .. n - 1  PROVE TimestampAt(f, i) < ts <=> i < k
  <2>1. i \in 0 .. n /\ i # n /\ k \in 0 .. n
    BY <1>1
  <2>2. CASE i < k
    BY <1>2, <1>3, <2>1, <2>2
  <2>3. CASE i >= k
    <3>1. k \in 0 .. n - 1
      BY <1>1, <2>1, <2>3
    <3>2. ~ (TimestampAt(f, k) < ts) /\ TimestampAt(f, k) <= TimestampAt(f, i)
      BY <1>1, <1>3, <2>1, <2>3, <3>1
    <3>3. TimestampAt(f, k) \in Nat /\ TimestampAt(f, i) \in Nat
      BY <3>1
    <3>4. QED
      BY <2>1, <2>3, <3>2, <3>3
  <2>4. QED
    BY <2>1, <2>2, <2>3
<1>5. QED
  BY <1>3, <1>4 DEF EarlierAre

\* seekToTimestamp finds it: by the width of the window that is searched.
LEMMA SeekFinds ==
    ASSUME NEW f, RecordCount(f) \in Nat, NEW ts, NEW k \in 0 .. RecordCount(f), EarlierAre(f, ts, k)
    PROVE  SeekToTimestamp(f, ts) = k
<1> DEFINE n == RecordCount(f)
           W == (0 .. n) \X (0 .. n)
           mid(w) == w[1] + (w[2] - w[1]) \div 2
           less(w) == TimestampAt(f, mid(w)) < ts
           step(g, w) == IF w[1] >= w[2] THEN w[1]
                         ELSE IF less(w) THEN g[<<mid(w) + 1, w[2]>>]
                         ELSE g[<<w[1], mid(w)>>]
           search == CHOOSE g : g = [w \in W |-> step(g, w)]
<1>1. SeekToTimestamp(f, ts) = IF n = 0 THEN 0 ELSE IF TimestampAt(f, n - 1) < ts THEN n ELSE search[<<0, n>>]
  BY DEF SeekToTimestamp
<1>2. n \in Nat /\ k \in 0 .. n
  OBVIOUS
<1>3. ASSUME NEW w \in W, w[1] < w[2]
      PROVE  /\ w[1] \in 0 .. n /\ w[2] \in 0 .. n /\ mid(w) \in w[1] .. (w[2] - 1)
             /\ <<mid(w) + 1, w[2]>> \in W /\ <<w[1], mid(w)>> \in W
             /\ less(w) <=> mid(w) + 1 <= k
  <2>1. w[1] \in 0 .. n /\ w[2] \in 0 .. n
    OBVIOUS
  <2>2. mid(w) \in w[1] .. (w[2] - 1)
    BY <1>2, <1>3, <2>1
  <2> HIDE DEF mid
  <2>3. mid(w) \in 0 .. n - 1 /\ mid(w) \in 0 .. n /\ mid(w) + 1 \in 0 .. n
    BY <1>2, <2>1, <2>2
  <2>4. less(w) <=> mid(w) < k
    BY <2>3 DEF EarlierAre
  <2>5. mid(w) < k <=> mid(w) + 1 <= k
    BY <1>2, <2>3
  <2>6. QED
    BY <2>1, <2>2, <2>3, <2>4, <2>5
<1>4. CASE n = 0
  BY <1>1, <1>2, <1>4
<1>5. CASE n # 0 /\ TimestampAt(f, n - 1) < ts
  <2>1. n - 1 < k
    BY <1>2, <1>5 DEF EarlierAre
  <2>2. QED
    BY <1>1, <1>2, <1>5, <2>1
<1> HIDE DEF mid, less, n
<1>6. \E g : g = [w \in W |-> step(g, w)]
  <2> DEFINE c(w) == IF w[1] >= w[2] \/ k < w[1] THEN w[1] ELSE IF k > w[2] THEN w[2] ELSE k
             g == [w \in W |-> c(w)]
  <2>1. ASSUME NEW w \in W  PROVE c(w) = step(g, w)
    <3>1. CASE w[1] >= w[2]
      BY <3>1
    <3>2. CASE w[1] < w[2] /\ less(w)
      <4>1. /\ w[1] \in 0 .. n /\ w[2] \in 0 .. n /\ mid(w) \in w[1] .. (w[2] - 1)
            /\ <<mid(w) + 1, w[2]>> \in W /\ mid(w) + 1 <= k
        BY <1>3, <3>2
      <4>2. step(g, w) = c(<<mid(w) + 1, w[2]>>)
        BY <1>2, <3>2, <4>1
      <4>3. QED
        BY <1>2, <3>2, <4>1, <4>2
    <3>3. CASE w[1] < w[2] /\ ~ less(w)
      <4>1. /\ w[1] \in 0 .. n /\ w[2] \in 0 .. n /\ mid(w) \in w[1] .. (w[2] - 1)
            /\ <<w[1], mid(w)>> \in W /\ ~ (mid(w) + 1 <= k)
        BY <1>3, <3>3
      <4>2. step(g, w) = c(<<w[1], mid(w)>>)
        BY <1>2, <3>3, <4>1
      <4>3. QED
        BY <1>2, <3>3, <4>1, <4>2
    <3>4. QED
      BY <1>2, <3>1, <3>2, <3>3
  <2> HIDE DEF c
  <2>2. g = [w \in W |-> step(g, w)]
    <3> HIDE DEF step, W
    <3>1. QED
      BY <2>1
  <2> HIDE DEF g
  <2>3. QED
    BY <2>2
<1>7. search = [w \in W |-> step(search, w)]
  <2> HIDE DEF step, W
  <2>1. QED
    BY <1>6
<1> HIDE DEF search
<1>8. ASSUME NEW v \in W, v[1] <= k, k <= v[2], search[v] # k  PROVE FALSE
  <2> DEFINE Bad == {d \in Nat : \E w \in W : /\ w[2] - w[1] = d /\ w[1] <= k /\ k <= w[2]
                                              /\ search[w] # k}
  <2>1. v[2] - v[1] \in Bad
    BY <1>2, <1>8
  <2>2. PICK d \in Bad : \A e \in Bad : d <= e
    <3>1. Bad \in SUBSET Nat /\ Bad # {}
      BY <2>1
    <3> HIDE DEF Bad
    <3>2. QED
      BY <3>1, LeastNumber
  <2>3. PICK w \in W : w[2] - w[1] = d /\ w[1] <= k /\ k <= w[2] /\ search[w] # k
    OBVIOUS
  <2>4. ASSUME NEW u \in W, u[2] - u[1] < d, u[1] <= k, k <= u[2]
        PROVE  search[u] = k
    <3>1. u[2] - u[1] \in Nat
      BY <1>2, <2>4
    <3>2. u[2] - u[1] \notin Bad
      BY <2>2, <2>4, <3>1, SMTT(60)
    <3>3. QED
      BY <2>4, <3>1, <3>2
  <2> HIDE DEF Bad
  <2>5. search[w] = step(search, w)
    BY <1>7
  <2>6. CASE w[1] >= w[2]
    BY <1>2, <2>3, <2>5, <2>6
  <2>7. CASE w[1] < w[2] /\ less(w)
    <3> DEFINE u == <<mid(w) + 1, w[2]>>
    <3>1. /\ w[1] \in 0 .. n /\ w[2] \in 0 .. n /\ mid(w) \in w[1] .. (w[2] - 1)
          /\ u \in W /\ mid(w) + 1 <= k
      BY <1>3, <2>7
    <3>2. u[1] <= k /\ k <= u[2] /\ u[2] - u[1] < d
      BY <1>2, <2>3, <3>1
    <3>3. search[u] = k
      BY <2>4, <3>1, <3>2
    <3>4. QED
      BY <2>3, <2>5, <2>7, <3>1, <3>3
  <2>8. CASE w[1] < w[2] /\ ~ less(w)
    <3> DEFINE u == <<w[1], mid(w)>>
    <3>1. /\ w[1] \in 0 .. n /\ w[2] \in 0 .. n /\ mid(w) \in w[1] .. (w[2] - 1)
          /\ u \in W /\ ~ (mid(w) + 1 <= k)
      BY <1>3, <2>8
    <3>2. u[1] <= k /\ k <= u[2] /\ u[2] - u[1] < d
      BY <1>2, <2>3, <3>1
    <3>3. search[u] = k
      BY <2>4, <3>1, <3>2
    <3>4. QED
      BY <2>3, <2>5, <2>8, <3>1, <3>3
  <2>9. QED
    BY <1>2, <2>6, <2>7, <2>8
<1>9. <<0, n>> \in W /\ <<0, n>>[1] <= k /\ k <= <<0, n>>[2]
  BY <1>2
<1>10. search[<<0, n>>] = k
  BY <1>8, <1>9
<1>11. QED
  BY <1>1, <1>4, <1>5, <1>10

LEMMA LogInvReads == LogInv => LogReadsBack
<1> SUFFICES ASSUME LogInv, ~ raced, NEW type \in Types, NEW d \in Days, <<type, d>> \notin spliced
             PROVE  LET f == disk[type][d]  n == RecordCount(f) IN
                    /\ \A i \in 0 .. n - 1 : \E r \in RecordsOf(f) : RecordAt(f, i) = Halves(<<r>>)
                    /\ \A r \in RecordsOf(f) : \E i \in 0 .. n - 1 : RecordAt(f, i) = Halves(<<r>>)
                    /\ \A i, j \in 0 .. n - 1 : i < j => RecordAt(f, i)[1][1] < RecordAt(f, j)[1][1]
                    /\ \A ts \in 0 .. MaxRecords :
                          LET k == SeekToTimestamp(f, ts) IN
                          /\ k \in 0 .. n
                          /\ \A i \in 0 .. n - 1 : TimestampAt(f, i) < ts <=> i < k
  BY DEF LogReadsBack
<1> DEFINE f == disk[type][d]
           n == RecordCount(f)
           rec(i) == RecordAt(f, i)[1][1]
<1>1. f \in Seq(Half) /\ Aligned(f)
  BY DEF LogInv, LogTyped, AlignedInv
<1>2. \A i, j \in DOMAIN f : i < j => Key(f[i]) < Key(f[j])
  BY DEF LogInv, ContentInv, Ordered
<1> HIDE DEF f
<1>3. Len(f) \in Nat /\ n \in Nat
  BY <1>1 DEF RecordCount
<1>4. ASSUME NEW i \in 0 .. n - 1
      PROVE  /\ 2 * i + 2 \in Ends(f) /\ f[2 * i + 2][1] \in RecordsOf(f) /\ rec(i) \in Nat
             /\ RecordAt(f, i) = Halves(<<f[2 * i + 2][1]>>) /\ rec(i) = f[2 * i + 2][1]
  BY <1>1, RecordIs
<1> HIDE DEF n, rec
<1>5. \A i \in 0 .. n - 1 : \E r \in RecordsOf(f) : RecordAt(f, i) = Halves(<<r>>)
  BY <1>4
<1>6. \A r \in RecordsOf(f) : \E i \in 0 .. n - 1 : RecordAt(f, i) = Halves(<<r>>)
  <2> TAKE r \in RecordsOf(f)
  <2>1. PICK i \in 0 .. n - 1 : f[2 * i + 2][1] = r
    BY <1>1, RecordsRead DEF n
  <2>2. QED
    BY <1>4, <2>1
<1>7. ASSUME NEW i \in 0 .. n - 1, NEW j \in 0 .. n - 1, i < j  PROVE rec(i) < rec(j)
  <2> DEFINE x == 2 * i + 2
             y == 2 * j + 2
  <2>1. x < y
    BY <1>3, <1>7
  <2>2. x \in Ends(f) /\ y \in Ends(f) /\ rec(i) = f[x][1] /\ rec(j) = f[y][1]
    BY <1>4
  <2> HIDE DEF x, y
  <2>3. x \in DOMAIN f /\ y \in DOMAIN f /\ f[x][2] = 2 /\ f[y][2] = 2
    BY <2>2 DEF Ends
  <2>4. f[x] \in Half /\ f[y] \in Half
    BY <1>1, <2>3
  <2>5. f[x][1] < f[y][1]
    BY <1>2, <2>1, <2>3, <2>4, EndsInOrder
  <2>6. QED
    BY <2>2, <2>5
<1>8. \A i \in 0 .. n - 1 : TimestampAt(f, i) = (rec(i) + 1) \div 2 /\ TimestampAt(f, i) \in Nat
  <2> TAKE i \in 0 .. n - 1
  <2>1. TimestampAt(f, i) = (rec(i) + 1) \div 2
    BY DEF TimestampAt, rec
  <2>2. rec(i) \in Nat
    BY <1>4
  <2>3. \A x \in Nat : (x + 1) \div 2 \in Nat
    OBVIOUS
  <2>4. QED
    BY <2>1, <2>2, <2>3
<1>9. \A i, j \in 0 .. n - 1 : i < j => TimestampAt(f, i) <= TimestampAt(f, j)
  <2> SUFFICES ASSUME NEW i \in 0 .. n - 1, NEW j \in 0 .. n - 1, i < j
               PROVE  TimestampAt(f, i) <= TimestampAt(f, j)
    OBVIOUS
  <2>1. rec(i) \in Nat /\ rec(j) \in Nat
    BY <1>4
  <2>2. rec(i) < rec(j)
    BY <1>7
  <2>3. \A x, y \in Nat : x < y => (x + 1) \div 2 <= (y + 1) \div 2
    OBVIOUS
  <2>4. (rec(i) + 1) \div 2 <= (rec(j) + 1) \div 2
    BY <2>1, <2>2, <2>3
  <2>5. QED
    BY <1>8, <2>4
<1>10. ASSUME NEW ts \in 0 .. MaxRecords
       PROVE  LET k == SeekToTimestamp(f, ts) IN
              k \in 0 .. n /\ \A i \in 0 .. n - 1 : TimestampAt(f, i) < ts <=> i < k
  <2>1. ts \in Nat
    BY LogAssumption
  <2>2. PICK k \in 0 .. n : EarlierAre(f, ts, k)
    BY <1>3, <1>8, <1>9, <2>1, EarlierExist DEF n
  <2>3. SeekToTimestamp(f, ts) = k
    BY <1>3, <2>2, SeekFinds DEF n
  <2>4. QED
    BY <2>2, <2>3 DEF EarlierAre, n
<1>11. QED
  BY <1>5, <1>6, <1>7, <1>10 DEF f, n, rec

(* LogReader reads a file that was never appended to after half a record   *)
(* back as the whole records in it, in the order they were accepted, and   *)
(* its binary search returns the first that is not earlier than the        *)
(* timestamp asked for.                                                    *)
THEOREM LogReadsTrue == LogSpec => []LogReadsBack
<1>1. LogInit => LogInv
  BY LogInvInit
<1>2. LogInv /\ [LogNext]_logVars => LogInv'
  BY LogInvStep
<1>3. LogInv => LogReadsBack
  BY LogInvReads
<1>4. QED
  BY <1>1, <1>2, <1>3, PTL DEF LogSpec

-----------------------------------------------------------------------------
(* TimeReplayer, as the backtest drives it *)

SortedStream(s) == \A j, k \in DOMAIN s : j < k => s[j].ts <= s[k].ts
Stream == {s \in Seq(LoggedTick) : SortedStream(s)}

\* each logged stream is in the order of time
SortedLogs == \A ls \in LogSets : \A i \in DOMAIN ls : SortedStream(ls[i])

\* event d comes before event e
TsOf(d) == streams[d[1]][d[2]].ts
Before(d, e) == TsOf(d) <= TsOf(e) /\ d # e /\ (d[1] = e[1] => d[2] < e[2])

(* ReplayInOrder is not inductive: it does not say where the streams       *)
(* stand.  Of each, the events up to its position are the delivered ones   *)
(* and none of them is later than the current time; none of the others is  *)
(* earlier.  As long as streams are added nothing is delivered.            *)
StreamsInv ==
    /\ streams \in Seq(Stream) /\ toAdd \in Seq(Stream) /\ at \in Seq(Nat) /\ currentTime \in Nat
    /\ Len(at) = Len(streams)
    /\ \A i \in DOMAIN streams : at[i] <= Len(streams[i])
    /\ \A i \in DOMAIN streams : \A j \in DOMAIN streams[i] :
          IF j <= at[i] THEN streams[i][j].ts <= currentTime ELSE currentTime <= streams[i][j].ts

DeliveredInv ==
    /\ delivered \in Seq(Nat \X Nat)
    /\ toAdd # <<>> => delivered = <<>> /\ currentTime = 0
    /\ \A d \in Range(delivered) : d[1] \in DOMAIN streams /\ d[2] \in 1 .. at[d[1]]
    /\ \A i \in DOMAIN streams : \A j \in 1 .. at[i] : <<i, j>> \in Range(delivered)
    /\ \A k, l \in DOMAIN delivered : k < l => Before(delivered[k], delivered[l])

ReplayInv == StreamsInv /\ DeliveredInv

LEMMA ReplayInvInit ==
    ASSUME SortedLogs, ReplayInit
    PROVE  ReplayInv
<1>1. toAdd \in Seq(Stream)
  <2>1. toAdd \in Seq(Seq(LoggedTick)) /\ \A i \in DOMAIN toAdd : SortedStream(toAdd[i])
    BY StreamsAssumption DEF ReplayInit, SortedLogs
  <2>2. \A i \in 1 .. Len(toAdd) : toAdd[i] \in Stream
    BY <2>1 DEF Stream
  <2>3. QED
    BY <2>1, <2>2
<1>2. Range(<<>>) = {}
  BY DEF Range
<1>3. QED
  BY <1>1, <1>2 DEF ReplayInit, ReplayInv, StreamsInv, DeliveredInv

LEMMA StreamTypes ==
    ASSUME StreamsInv, NEW i \in DOMAIN streams
    PROVE  /\ i \in Nat /\ at[i] \in Nat /\ Len(streams[i]) \in Nat /\ DOMAIN streams[i] = 1 .. Len(streams[i])
           /\ \A j \in DOMAIN streams[i] : streams[i][j].ts \in Nat
           /\ SortedStream(streams[i]) /\ i \in DOMAIN at
<1>1. streams[i] \in Stream /\ i \in 1 .. Len(streams)
  BY DEF StreamsInv
<1>2. streams[i] \in Seq(LoggedTick) /\ SortedStream(streams[i])
  BY <1>1 DEF Stream
<1>3. \A j \in DOMAIN streams[i] : streams[i][j] \in LoggedTick
  BY <1>2
<1>4. \A j \in DOMAIN streams[i] : streams[i][j].ts \in Nat
  BY <1>3 DEF LoggedTick
<1>5. i \in DOMAIN at /\ at[i] \in Nat
  BY <1>1 DEF StreamsInv
<1>6. QED
  BY <1>1, <1>2, <1>4, <1>5

LEMMA AddKeepsReplay ==
    ASSUME ReplayInv, AddStream
    PROVE  ReplayInv'
<1>1. StreamsInv /\ delivered = <<>> /\ currentTime = 0 /\ toAdd # <<>> /\ toAdd \in Seq(Stream)
  BY DEF ReplayInv, DeliveredInv, StreamsInv, AddStream
<1>2. Head(toAdd) \in Stream /\ toAdd' \in Seq(Stream)
  BY <1>1 DEF AddStream
<1>3. delivered' = delivered /\ currentTime' = currentTime
  BY DEF AddStream
<1>4. \A i \in DOMAIN streams : at[i] = 0
  <2> TAKE i \in DOMAIN streams
  <2>1. at[i] \in Nat
    BY <1>1, StreamTypes
  <2>2. Range(delivered) = {}
    BY <1>1 DEF Range
  <2>3. \A j \in 1 .. at[i] : FALSE
    BY <2>2 DEF ReplayInv, DeliveredInv
  <2>4. QED
    BY <2>1, <2>3
<1>5. CASE Head(toAdd) = <<>>
  BY <1>1, <1>2, <1>3, <1>5 DEF AddStream, ReplayInv, StreamsInv, DeliveredInv, Before, TsOf
<1>6. CASE Head(toAdd) # <<>>
  <2> DEFINE s == Head(toAdd)  n == Len(streams)
  <2>1. streams' = Append(streams, s) /\ at' = Append(at, 0)
    BY <1>6 DEF AddStream
  <2>2. s \in Stream /\ streams \in Seq(Stream) /\ at \in Seq(Nat) /\ Len(at) = n /\ n \in Nat
    BY <1>1, <1>2 DEF StreamsInv
  <2> HIDE DEF s, n
  <2>3. /\ streams' \in Seq(Stream) /\ at' \in Seq(Nat) /\ Len(at') = Len(streams')
        /\ DOMAIN streams' = DOMAIN streams \cup {n + 1}
    BY <2>1, <2>2 DEF n
  <2>4. /\ \A i \in DOMAIN streams : streams'[i] = streams[i] /\ at'[i] = at[i]
        /\ streams'[n + 1] = s /\ at'[n + 1] = 0
    BY <2>1, <2>2 DEF n
  <2>5. Len(s) \in Nat /\ DOMAIN s = 1 .. Len(s) /\ \A j \in DOMAIN s : s[j].ts \in Nat
    <3>1. s \in Seq(LoggedTick)
      BY <2>2 DEF Stream
    <3>2. \A j \in DOMAIN s : s[j] \in LoggedTick
      BY <3>1
    <3>3. QED
      BY <3>1, <3>2 DEF LoggedTick
  <2>6. \A i \in DOMAIN streams' : at'[i] = 0 /\ at'[i] <= Len(streams'[i])
    BY <1>1, <1>4, <2>3, <2>4, <2>5, SMTT(60) DEF StreamsInv
  <2>7. ASSUME NEW i \in DOMAIN streams', NEW j \in DOMAIN streams'[i]
        PROVE  IF j <= at'[i] THEN streams'[i][j].ts <= currentTime' ELSE currentTime' <= streams'[i][j].ts
    <3>1. CASE i = n + 1
      BY <1>1, <1>3, <2>4, <2>5, <2>7, <3>1
    <3>2. CASE i \in DOMAIN streams
      BY <1>1, <1>3, <2>4, <2>7, <3>2 DEF StreamsInv
    <3>3. QED
      BY <2>3, <3>1, <3>2
  <2>8. StreamsInv'
    BY <1>1, <1>2, <1>3, <2>3, <2>6, <2>7 DEF StreamsInv
  <2>9. DeliveredInv'
    <3>1. Range(delivered') = {} /\ DOMAIN delivered' = {}
      BY <1>1, <1>3 DEF Range
    <3>2. \A i \in DOMAIN streams' : \A j \in 1 .. at'[i] : FALSE
      BY <2>6
    <3>3. delivered' = <<>> /\ currentTime' = 0 /\ delivered' \in Seq(Nat \X Nat)
      BY <1>1, <1>3
    <3>4. QED
      BY <3>1, <3>2, <3>3 DEF DeliveredInv
  <2>10. QED
    BY <2>8, <2>9 DEF ReplayInv
<1>7. QED
  BY <1>5, <1>6


\* The event taken from the heap: the next of its stream, and none that is left is earlier.
LEMMA HeapTop ==
    ASSUME StreamsInv, NEW i \in DOMAIN streams, AdvanceToNextEvent(i)
    PROVE  /\ at[i] + 1 \in DOMAIN streams[i]
           /\ \A k \in DOMAIN streams : \A j \in DOMAIN streams[k] :
                 at[k] < j => streams[i][at[i] + 1].ts <= streams[k][j].ts
<1>1. PICK e \in Heap : e[2] = i /\ \A f \in Heap : e[1] <= f[1]
  BY DEF AdvanceToNextEvent
<1>2. at[i] < Len(streams[i]) /\ e[1] = streams[i][at[i] + 1].ts
  BY <1>1 DEF Heap
<1>3. at[i] + 1 \in DOMAIN streams[i]
  BY <1>2, StreamTypes
<1>4. ASSUME NEW k \in DOMAIN streams, NEW j \in DOMAIN streams[k], at[k] < j
      PROVE  e[1] <= streams[k][j].ts
  <2>1. /\ at[k] \in Nat /\ Len(streams[k]) \in Nat /\ j \in 1 .. Len(streams[k])
        /\ DOMAIN streams[k] = 1 .. Len(streams[k]) /\ SortedStream(streams[k])
        /\ \A m \in DOMAIN streams[k] : streams[k][m].ts \in Nat
    BY StreamTypes
  <2>2. at[k] < Len(streams[k]) /\ at[k] + 1 \in DOMAIN streams[k]
    BY <1>4, <2>1
  <2>3. <<streams[k][at[k] + 1].ts, k>> \in Heap
    BY <2>2 DEF Heap
  <2>4. e[1] <= streams[k][at[k] + 1].ts
    BY <1>1, <2>3
  <2>5. streams[k][at[k] + 1].ts <= streams[k][j].ts
    <3>1. CASE j = at[k] + 1
      BY <2>1, <3>1
    <3>2. CASE at[k] + 1 < j
      BY <2>1, <2>2, <3>2 DEF SortedStream
    <3>3. QED
      BY <1>4, <2>1, <3>1, <3>2
  <2>6. e[1] \in Nat
    BY <1>2, <1>3, StreamTypes
  <2>7. QED
    BY <2>1, <2>2, <2>4, <2>5, <2>6
<1>5. QED
  BY <1>2, <1>3, <1>4

LEMMA AdvanceKeepsReplay ==
    ASSUME ReplayInv, toAdd = <<>>, NEW i \in DOMAIN streams, AdvanceToNextEvent(i)
    PROVE  ReplayInv'
<1> DEFINE n == at[i] + 1
           t == streams[i][n].ts
<1>1. /\ currentTime' = t /\ at' = [at EXCEPT ![i] = n] /\ delivered' = Append(delivered, <<i, n>>)
      /\ streams' = streams /\ toAdd' = toAdd
  BY DEF AdvanceToNextEvent
<1>2. /\ StreamsInv /\ DeliveredInv
      /\ n \in DOMAIN streams[i]
      /\ \A k \in DOMAIN streams : \A j \in DOMAIN streams[k] : at[k] < j => t <= streams[k][j].ts
  BY HeapTop DEF ReplayInv
<1>3. /\ i \in Nat /\ at[i] \in Nat /\ n \in Nat /\ t \in Nat /\ at[i] < n /\ n <= Len(streams[i])
      /\ i \in DOMAIN at /\ at \in Seq(Nat)
  BY <1>2, StreamTypes DEF StreamsInv
<1> HIDE DEF t
<1>4. /\ at'[i] = n /\ at' \in Seq(Nat) /\ Len(at') = Len(at)
      /\ \A k \in DOMAIN streams \ {i} : at'[k] = at[k]
  <2>1. DOMAIN at = DOMAIN streams
    BY <1>2 DEF StreamsInv
  <2>2. QED
    BY <1>1, <1>3, <2>1
<1>5. currentTime <= t /\ currentTime \in Nat
  BY <1>2, <1>3 DEF StreamsInv, t
<1>6. StreamsInv'
  <2>1. \A k \in DOMAIN streams : at'[k] <= Len(streams[k])
    BY <1>2, <1>3, <1>4 DEF StreamsInv
  <2>2. ASSUME NEW k \in DOMAIN streams, NEW j \in DOMAIN streams[k]
        PROVE  IF j <= at'[k] THEN streams[k][j].ts <= t ELSE t <= streams[k][j].ts
    <3>1. j \in Nat /\ at[k] \in Nat /\ streams[k][j].ts \in Nat
      BY <1>2, StreamTypes
    <3>2. CASE at[k] < j
      <4>1. t <= streams[k][j].ts
        BY <1>2, <3>2
      <4>2. j <= at'[k] => k = i /\ j = n
        <5>1. CASE k = i
          BY <1>3, <1>4, <3>1, <3>2, <5>1
        <5>2. CASE k # i
          <6>1. at'[k] = at[k]
            BY <1>4, <5>2
          <6>2. QED
            BY <3>1, <3>2, <6>1
        <5>3. QED
          BY <5>1, <5>2
      <4>3. QED
        BY <1>3, <4>1, <4>2 DEF t
    <3>3. CASE j <= at[k]
      <4>1. streams[k][j].ts <= currentTime
        BY <1>2, <3>3 DEF StreamsInv
      <4>2. j <= at'[k]
        BY <1>3, <1>4, <3>1, <3>3, SMTT(60)
      <4>3. QED
        BY <1>3, <1>5, <3>1, <4>1, <4>2
    <3>4. QED
      BY <3>1, <3>2, <3>3
  <2>3. QED
    BY <1>1, <1>2, <1>3, <1>4, <2>1, <2>2 DEF StreamsInv
<1>7. /\ delivered \in Seq(Nat \X Nat) /\ <<i, n>> \in Nat \X Nat /\ delivered' \in Seq(Nat \X Nat)
      /\ Range(delivered') = Range(delivered) \cup {<<i, n>>}
  <2>1. delivered \in Seq(Nat \X Nat) /\ <<i, n>> \in Nat \X Nat
    BY <1>2, <1>3 DEF DeliveredInv
  <2>2. Append(delivered, <<i, n>>) \in Seq(Nat \X Nat)
    BY <2>1
  <2>3. Range(Append(delivered, <<i, n>>)) = Range(delivered) \cup {<<i, n>>}
    <3>1. ASSUME NEW x \in Nat \X Nat  PROVE Range(Append(delivered, x)) = Range(delivered) \cup {x}
      BY <2>1, RangeOfAppend
    <3>2. QED
      BY <2>1, <3>1, Zenon
  <2>4. QED
    BY <1>1, <2>1, <2>2, <2>3, Zenon
<1>8. \A d \in Range(delivered') : d[1] \in DOMAIN streams /\ d[2] \in 1 .. at'[d[1]]
  <2>1. n \in 1 .. at'[i]
    BY <1>3, <1>4
  <2>2. ASSUME NEW d \in Range(delivered)  PROVE d[1] \in DOMAIN streams /\ d[2] \in 1 .. at'[d[1]]
    <3>1. d[1] \in DOMAIN streams /\ d[2] \in 1 .. at[d[1]]
      BY <1>2 DEF DeliveredInv
    <3>2. at[d[1]] \in Nat
      BY <1>2, <3>1, StreamTypes
    <3>3. QED
      <4>1. CASE d[1] = i
        BY <1>3, <1>4, <3>1, <4>1
      <4>2. CASE d[1] # i
        BY <1>4, <3>1, <4>2
      <4>3. QED
        BY <4>1, <4>2
  <2>3. QED
    BY <1>7, <2>1, <2>2
<1>9. \A k \in DOMAIN streams : \A j \in 1 .. at'[k] : <<k, j>> \in Range(delivered')
  <2> SUFFICES ASSUME NEW k \in DOMAIN streams, NEW j \in 1 .. at'[k] PROVE <<k, j>> \in Range(delivered')
    OBVIOUS
  <2>1. CASE k = i /\ j = n
    BY <1>7, <2>1
  <2>2. CASE ~ (k = i /\ j = n)
    <3>1. j \in 1 .. at[k]
      BY <1>3, <1>4, <2>2, SMTT(60)
    <3>2. QED
      BY <1>2, <1>7, <3>1 DEF DeliveredInv
  <2>3. QED
    BY <2>1, <2>2
<1>10. \A d \in Range(delivered) : Before(d, <<i, n>>)
  <2> TAKE d \in Range(delivered)
  <2>1. d[1] \in DOMAIN streams /\ d[2] \in 1 .. at[d[1]]
    BY <1>2 DEF DeliveredInv
  <2>2. at[d[1]] \in Nat /\ at[d[1]] <= Len(streams[d[1]]) /\ DOMAIN streams[d[1]] = 1 .. Len(streams[d[1]])
        /\ Len(streams[d[1]]) \in Nat
    BY <1>2, <2>1, StreamTypes DEF StreamsInv
  <2>3. d[2] \in DOMAIN streams[d[1]] /\ d[2] <= at[d[1]]
    BY <2>1, <2>2
  <2>4. TsOf(d) <= currentTime /\ TsOf(d) \in Nat
    BY <1>2, <2>1, <2>3, StreamTypes DEF TsOf, StreamsInv
  <2>5. TsOf(<<i, n>>) = t
    BY DEF TsOf, t
  <2>6. TsOf(d) <= t
    BY <1>3, <1>5, <2>4
  <2>7. d[1] = i => d[2] < n
    BY <1>3, <2>1
  <2>8. d # <<i, n>>
    <3>1. d = <<i, n>> => d[1] = i /\ d[2] = n
      OBVIOUS
    <3>2. QED
      BY <1>3, <2>7, <3>1
  <2>9. QED
    BY <2>5, <2>6, <2>7, <2>8 DEF Before
<1>11. \A k, l \in DOMAIN delivered' : k < l => Before(delivered'[k], delivered'[l])
  <2>1. /\ Len(delivered) \in Nat /\ DOMAIN delivered' = 1 .. Len(delivered) + 1
        /\ DOMAIN delivered = 1 .. Len(delivered)
        /\ \A k \in DOMAIN delivered : delivered'[k] = delivered[k]
        /\ delivered'[Len(delivered) + 1] = <<i, n>>
    BY <1>1, <1>7
  <2> SUFFICES ASSUME NEW k \in 1 .. Len(delivered) + 1, NEW l \in 1 .. Len(delivered) + 1, k < l
               PROVE  Before(delivered'[k], delivered'[l])
    BY <2>1
  <2>2. k \in DOMAIN delivered /\ delivered'[k] = delivered[k] /\ delivered[k] \in Range(delivered)
    BY <2>1 DEF Range
  <2>3. CASE l = Len(delivered) + 1
    BY <1>10, <2>1, <2>2, <2>3
  <2>4. CASE l # Len(delivered) + 1
    <3>1. l \in DOMAIN delivered /\ delivered'[l] = delivered[l]
      BY <2>1, <2>4
    <3>2. QED
      BY <1>2, <2>2, <3>1 DEF DeliveredInv
  <2>5. QED
    BY <2>3, <2>4
<1>12. DeliveredInv'
  BY <1>1, <1>7, <1>8, <1>9, <1>11, ZenonT(60) DEF DeliveredInv, Before, TsOf
<1>13. QED
  BY <1>6, <1>12 DEF ReplayInv

LEMMA ReplayInvStep == ReplayInv /\ [BacktestNext]_backtestVars => ReplayInv'
<1> SUFFICES ASSUME ReplayInv, [BacktestNext]_backtestVars PROVE ReplayInv'
  OBVIOUS
<1>1. CASE AddStream
  BY <1>1, AddKeepsReplay
<1>2. CASE UNCHANGED <<streams, toAdd, at, currentTime, delivered>>
  BY <1>2, ZenonT(60) DEF ReplayInv, StreamsInv, DeliveredInv, Before, TsOf
<1>3. CASE Replay
  BY <1>3, AdvanceKeepsReplay DEF Replay
<1>4. QED
  BY <1>1, <1>2, <1>3 DEF BacktestNext, PauseOrResume, backtestVars, replayVars

\* For all logs whose streams are in the order of time: addStream and
\* advanceToNextEvent merge them into one sequence in that order, whatever the
\* heap does with equal timestamps, and leave no event out.
THEOREM MergeIsOrdered ==
    ASSUME SortedLogs
    PROVE  BacktestSpec => []ReplayInOrder
<1>1. BacktestInit => ReplayInv
  BY ReplayInvInit DEF BacktestInit
<1>2. ReplayInv => ReplayInOrder
  <2> SUFFICES ASSUME ReplayInv PROVE ReplayInOrder
    OBVIOUS
  <2>1. \A k, l \in DOMAIN delivered : k < l => Before(delivered[k], delivered[l])
    BY DEF ReplayInv, DeliveredInv
  <2>2. ASSUME NEW i \in DOMAIN streams, NEW j \in DOMAIN streams[i], streams[i][j].ts < currentTime
        PROVE  <<i, j>> \in Range(delivered)
    <3>1. /\ StreamsInv /\ DeliveredInv /\ at[i] \in Nat /\ j \in Nat \ {0} /\ streams[i][j].ts \in Nat
          /\ currentTime \in Nat
      BY StreamTypes DEF ReplayInv, StreamsInv
    <3>2. ~ (currentTime <= streams[i][j].ts)
      BY <2>2, <3>1
    <3>3. j \in 1 .. at[i]
      BY <3>1, <3>2 DEF StreamsInv
    <3>4. QED
      BY <3>1, <3>3 DEF DeliveredInv
  <2>3. QED
    BY <2>1, <2>2 DEF ReplayInOrder, Before, TsOf
<1>3. QED
  BY <1>1, <1>2, ReplayInvStep, PTL DEF BacktestSpec

-----------------------------------------------------------------------------
(* BacktestEngine: the orders that are open, the ids that were filled and  *)
(* the ids on the levels of the grid                                       *)

Sides == {"buy", "sell"}
Order == [id : Nat, side : Sides]
NewOrder(n, s) == [id |-> n, side |-> s]
Distinct(q) == \A k, l \in DOMAIN q : k # l => q[k] # q[l]

\* Open orders O have ids of their own below the next one, and so have the filled ones, F.
Orders(O, n, F) ==
    /\ O \subseteq Order /\ n \in Nat \ {0} /\ F \subseteq Nat
    /\ \A o \in O : 0 < o.id /\ o.id < n /\ o.id \notin F
    /\ \A o, p \in O : o.id = p.id => o = p
    /\ \A x \in F : 0 < x /\ x < n

\* An id on a level is the one of an open order of that side, and on no other level.
Holds(lv, s, O) ==
    /\ lv \in [GridLevels -> Nat]
    /\ \A i \in GridLevels : lv[i] # 0 => \E o \in O : o.id = lv[i] /\ o.side = s
    /\ \A i, j \in GridLevels : i # j /\ lv[i] # 0 => lv[i] # lv[j]

LEMMA OrderFields ==
    ASSUME NEW o \in Order
    PROVE  o.id \in Nat /\ o.side \in Sides
  BY DEF Order

LEMMA SameOrder ==
    ASSUME NEW n \in Nat, NEW s \in Sides
    PROVE  /\ NewOrder(n, s) \in Order /\ NewOrder(n, s).id = n /\ NewOrder(n, s).side = s
           /\ \A o \in Order : o.id = n /\ o.side = s => o = NewOrder(n, s)
  BY DEF Order, NewOrder

LEMMA OrdersNext ==
    ASSUME NEW O, NEW n, NEW F, Orders(O, n, F)
    PROVE  Orders(O, n + 1, F)
<1>1. n \in Nat /\ n + 1 \in Nat \ {0} /\ F \subseteq Nat /\ \A x \in Nat : x < n => x < n + 1
  BY DEF Orders
<1>2. \A o \in O : o.id \in Nat
  BY OrderFields DEF Orders
<1>3. QED
  BY <1>1, <1>2 DEF Orders

LEMMA OrdersAdd ==
    ASSUME NEW O, NEW n, NEW F, NEW s \in Sides, Orders(O, n, F)
    PROVE  Orders(O \cup {NewOrder(n, s)}, n + 1, F) /\ NewOrder(n, s) \notin O /\ n \notin F
<1> DEFINE x == NewOrder(n, s)
<1>1. n \in Nat \ {0} /\ n + 1 \in Nat \ {0} /\ 0 < n /\ n < n + 1 /\ ~ (n < n)
  BY DEF Orders
<1>2. x \in Order /\ x.id = n
  BY <1>1, SameOrder
<1>3. \A o \in O : o.id # n
  BY <1>1 DEF Orders
<1>4. n \notin F
  BY <1>1 DEF Orders
<1>5. Orders(O, n + 1, F)
  BY OrdersNext
<1> HIDE DEF x
<1>6. \A o, p \in O \cup {x} : o.id = p.id => o = p
  BY <1>2, <1>3 DEF Orders
<1>7. Orders(O \cup {x}, n + 1, F)
  BY <1>1, <1>2, <1>4, <1>5, <1>6 DEF Orders
<1>8. QED
  BY <1>2, <1>3, <1>4, <1>7 DEF x

LEMMA OrdersFill ==
    ASSUME NEW O, NEW n, NEW F, NEW o \in O, Orders(O, n, F)
    PROVE  Orders(O \ {o}, n, F \cup {o.id})
<1>1. o.id \in Nat
  BY OrderFields DEF Orders
<1>2. QED
  BY <1>1 DEF Orders

LEMMA HoldsMore ==
    ASSUME NEW lv, NEW s, NEW O, NEW U, Holds(lv, s, O), O \subseteq U
    PROVE  Holds(lv, s, U)
  BY DEF Holds

LEMMA HoldsNew ==
    ASSUME NEW lv, NEW s \in Sides, NEW O, NEW n, NEW F, Holds(lv, s, O), Orders(O, n, F), NEW i \in GridLevels
    PROVE  Holds([lv EXCEPT ![i] = n], s, O \cup {NewOrder(n, s)})
<1> DEFINE v == [lv EXCEPT ![i] = n]
           x == NewOrder(n, s)
<1>1. n \in Nat \ {0} /\ lv \in [GridLevels -> Nat] /\ x.id = n /\ x.side = s /\ ~ (n < n)
  <2>1. n \in Nat \ {0} /\ lv \in [GridLevels -> Nat]
    BY DEF Orders, Holds
  <2>2. QED
    BY <2>1, SameOrder
<1>2. v \in [GridLevels -> Nat] /\ v[i] = n /\ \A j \in GridLevels \ {i} : v[j] = lv[j]
  BY <1>1
<1>3. \A j \in GridLevels : lv[j] # 0 => lv[j] # n
  BY <1>1 DEF Holds, Orders
<1> HIDE DEF v, x
<1>4. \A j \in GridLevels : v[j] # 0 => \E o \in O \cup {x} : o.id = v[j] /\ o.side = s
  BY <1>1, <1>2 DEF Holds
<1>5. ASSUME NEW j \in GridLevels, NEW k \in GridLevels, j # k, v[j] # 0  PROVE v[j] # v[k]
  <2>1. CASE j = i
    <3>1. v[k] = lv[k] /\ v[j] = n
      BY <1>2, <1>5, <2>1
    <3>2. QED
      BY <1>1, <1>3, <3>1
  <2>2. CASE k = i
    <3>1. v[j] = lv[j] /\ v[k] = n
      BY <1>2, <1>5, <2>2
    <3>2. QED
      BY <1>3, <1>5, <3>1
  <2>3. CASE j # i /\ k # i
    BY <1>2, <1>5, <2>3 DEF Holds
  <2>4. QED
    BY <2>1, <2>2, <2>3
<1>6. QED
  BY <1>2, <1>4, <1>5 DEF Holds, v, x

LEMMA HoldsLess ==
    ASSUME NEW lv, NEW s, NEW O, NEW n, NEW F, NEW o \in O, Holds(lv, s, O), Orders(O, n, F),
           \A i \in GridLevels : lv[i] # o.id
    PROVE  Holds(lv, s, O \ {o})
<1>1. ASSUME NEW i \in GridLevels, lv[i] # 0
      PROVE  \E p \in O \ {o} : p.id = lv[i] /\ p.side = s
  BY <1>1 DEF Holds
<1>2. QED
  BY <1>1 DEF Holds

\* The level of an order that is gone is cleared.
LEMMA HoldsCleared ==
    ASSUME NEW lv, NEW s, NEW O, Holds(lv, s, O), NEW i \in GridLevels
    PROVE  LET v == [lv EXCEPT ![i] = 0] IN
           /\ Holds(v, s, O)
           /\ lv[i] # 0 => \A j \in GridLevels : v[j] # lv[i]
<1> DEFINE v == [lv EXCEPT ![i] = 0]
<1>1. lv \in [GridLevels -> Nat] /\ 0 \in Nat
  BY DEF Holds
<1>2. v \in [GridLevels -> Nat] /\ v[i] = 0 /\ \A j \in GridLevels \ {i} : v[j] = lv[j]
  BY <1>1
<1> HIDE DEF v
<1>3. \A j, k \in GridLevels : j # k /\ v[j] # 0 => v[j] # v[k]
  BY <1>2 DEF Holds
<1>4. Holds(v, s, O)
  BY <1>2, <1>3 DEF Holds
<1>5. lv[i] # 0 => \A j \in GridLevels : v[j] # lv[i]
  BY <1>2 DEF Holds
<1>6. QED
  BY <1>4, <1>5 DEF v

-----------------------------------------------------------------------------
(* BacktestEngine: the grid.  P is what the simulated exchange has of its  *)
(* orders, F the ids of the filled ones.                                   *)

Grid == [buy : [GridLevels -> Nat], sell : [GridLevels -> Nat], next : Nat, queue : Seq(Order)]

Open(g, P) == Range(g.queue) \cup P

GridOK(g, P, F) ==
    /\ g \in Grid /\ Orders(Open(g, P), g.next, F)
    /\ Holds(g.buy, "buy", Open(g, P)) /\ Holds(g.sell, "sell", Open(g, P))
    /\ Distinct(g.queue) /\ Range(g.queue) \cap P = {}

LEMMA AppendDistinct ==
    ASSUME NEW S, NEW q \in Seq(S), NEW x \in S
    PROVE  /\ Append(q, x) \in Seq(S) /\ Range(Append(q, x)) = Range(q) \cup {x}
           /\ Distinct(q) /\ x \notin Range(q) => Distinct(Append(q, x))
<1> DEFINE n == Len(q)
           c == Append(q, x)
<1>1. /\ n \in Nat /\ DOMAIN q = 1 .. n /\ c \in Seq(S) /\ DOMAIN c = 1 .. n + 1 /\ c[n + 1] = x
      /\ \A i \in 1 .. n : c[i] = q[i]
  OBVIOUS
<1> HIDE DEF n, c
<1>2. \A i \in DOMAIN c : (i = n + 1 \/ i \in DOMAIN q) /\ (i # n + 1 => c[i] = q[i])
  BY <1>1
<1>3. n + 1 \in DOMAIN c /\ \A i \in DOMAIN q : i \in DOMAIN c /\ i # n + 1
  BY <1>1
<1>4. Range(c) = Range(q) \cup {x}
  BY <1>1, <1>2, <1>3 DEF Range
<1>5. Distinct(q) /\ x \notin Range(q) => Distinct(c)
  BY <1>1, <1>2, <1>3 DEF Distinct, Range
<1>6. QED
  BY <1>1, <1>4, <1>5 DEF c

\* submitOrder, whether the queue takes the order or not.
LEMMA SubmitKeeps ==
    ASSUME NEW g, NEW P, NEW F, GridOK(g, P, F), NEW s \in Sides
    PROVE  LET h == Submitted(g, s) IN
           /\ GridOK(h, P, F) /\ h.buy = g.buy /\ h.sell = g.sell /\ h.next = g.next + 1
           /\ Accepted(g) => Open(h, P) = Open(g, P) \cup {NewOrder(g.next, s)}
<1> DEFINE h == Submitted(g, s)
           n == g.next
           q == g.queue
           x == NewOrder(n, s)
           c == IF Len(q) < OrderQueueCap THEN Append(q, x) ELSE q
<1>1. g \in Grid /\ n \in Nat /\ q \in Seq(Order) /\ Distinct(q) /\ Range(q) \cap P = {}
  BY DEF GridOK, Grid
<1>2. h = [g EXCEPT !.next = n + 1, !.queue = c]
  BY DEF Submitted, NewOrder
<1>3. x \in Order
  BY <1>1, SameOrder
<1>4. Append(q, x) \in Seq(Order) /\ c \in Seq(Order)
  BY <1>1, <1>3
<1>5. n + 1 \in Nat
  BY <1>1
<1> HIDE DEF h, c, n, q
<1>6. h.buy = g.buy /\ h.sell = g.sell /\ h.next = n + 1 /\ h.queue = c /\ h \in Grid
  BY <1>1, <1>2, <1>4, <1>5 DEF Grid
<1> HIDE DEF x
<1>7. /\ Orders(Open(g, P), n, F) /\ Holds(g.buy, "buy", Open(g, P)) /\ Holds(g.sell, "sell", Open(g, P))
      /\ Open(g, P) = Range(q) \cup P
  BY DEF GridOK, Open, n, q
<1>8. CASE Len(q) < OrderQueueCap
  <2>1. c = Append(q, x)
    BY <1>8 DEF c
  <2>2. Orders(Open(g, P) \cup {x}, n + 1, F) /\ x \notin Open(g, P)
    BY <1>7, OrdersAdd DEF x
  <2>3. Range(c) = Range(q) \cup {x} /\ Distinct(c)
    BY <1>1, <1>3, <1>7, <2>1, <2>2, AppendDistinct
  <2>4. Open(h, P) = Open(g, P) \cup {x}
    BY <1>6, <1>7, <2>3 DEF Open
  <2>5. Range(c) \cap P = {}
    BY <1>1, <1>7, <2>2, <2>3
  <2>6. Holds(h.buy, "buy", Open(h, P)) /\ Holds(h.sell, "sell", Open(h, P))
    BY <1>6, <1>7, <2>4, HoldsMore
  <2>7. GridOK(h, P, F)
    BY <1>6, <2>2, <2>3, <2>4, <2>5, <2>6 DEF GridOK
  <2>8. QED
    BY <1>6, <2>4, <2>7 DEF h, x, n
<1>9. CASE ~ (Len(q) < OrderQueueCap)
  <2>1. c = q
    BY <1>9 DEF c
  <2>2. Open(h, P) = Open(g, P)
    BY <1>6, <1>7, <2>1 DEF Open
  <2>3. Orders(Open(g, P), n + 1, F)
    BY <1>7, OrdersNext
  <2>4. GridOK(h, P, F)
    BY <1>1, <1>6, <1>7, <2>1, <2>2, <2>3 DEF GridOK
  <2>5. ~ Accepted(g)
    BY <1>9 DEF Accepted, q
  <2>6. QED
    BY <1>6, <2>4, <2>5 DEF h, n
<1>10. QED
  BY <1>8, <1>9

\* placeBuyAt and placeSellAt.
LEMMA PlaceKeeps ==
    ASSUME NEW g, NEW P, NEW F, GridOK(g, P, F), NEW i \in GridLevels
    PROVE  GridOK(PlaceBuyAt(g, i), P, F) /\ GridOK(PlaceSellAt(g, i), P, F)
<1> DEFINE n == g.next
<1>1. Orders(Open(g, P), n, F) /\ Holds(g.buy, "buy", Open(g, P)) /\ Holds(g.sell, "sell", Open(g, P)) /\ n \in Nat
  BY DEF GridOK, Grid
<1>2. GridOK(PlaceBuyAt(g, i), P, F)
  <2> DEFINE h == Submitted(g, "buy")
             v == [g.buy EXCEPT ![i] = n]
             r == [h EXCEPT !.buy[i] = n]
  <2>1. /\ GridOK(h, P, F) /\ h.buy = g.buy /\ h.sell = g.sell /\ h.next = n + 1
        /\ Accepted(g) => Open(h, P) = Open(g, P) \cup {NewOrder(n, "buy")}
    BY SubmitKeeps DEF Sides
  <2>2. CASE Accepted(g)
    <3>1. PlaceBuyAt(g, i) = r
      BY <2>2 DEF PlaceBuyAt
    <3>2. h \in Grid
      BY <2>1 DEF GridOK
    <3>3. Holds(v, "buy", Open(h, P))
      <4>1. "buy" \in Sides
        BY DEF Sides
      <4>2. Holds(v, "buy", Open(g, P) \cup {NewOrder(n, "buy")})
        BY <1>1, <4>1, HoldsNew
      <4>3. QED
        BY <2>1, <2>2, <4>2
    <3>4. v \in [GridLevels -> Nat]
      BY <3>3 DEF Holds
    <3>5. r = [h EXCEPT !.buy = v]
      BY <2>1
    <3> HIDE DEF h, v, r, n
    <3>6. r \in Grid /\ r.buy = v /\ r.sell = h.sell /\ r.next = h.next /\ r.queue = h.queue
      BY <3>2, <3>4, <3>5 DEF Grid
    <3>7. Open(r, P) = Open(h, P)
      BY <3>6 DEF Open
    <3>8. QED
      BY <2>1, <3>1, <3>3, <3>6, <3>7 DEF GridOK
  <2>3. CASE ~ Accepted(g)
    BY <2>1, <2>3 DEF PlaceBuyAt
  <2>4. QED
    BY <2>2, <2>3
<1>3. GridOK(PlaceSellAt(g, i), P, F)
  <2> DEFINE h == Submitted(g, "sell")
             v == [g.sell EXCEPT ![i] = n]
             r == [h EXCEPT !.sell[i] = n]
  <2>1. /\ GridOK(h, P, F) /\ h.buy = g.buy /\ h.sell = g.sell /\ h.next = n + 1
        /\ Accepted(g) => Open(h, P) = Open(g, P) \cup {NewOrder(n, "sell")}
    BY SubmitKeeps DEF Sides
  <2>2. CASE Accepted(g)
    <3>1. PlaceSellAt(g, i) = r
      BY <2>2 DEF PlaceSellAt
    <3>2. h \in Grid
      BY <2>1 DEF GridOK
    <3>3. Holds(v, "sell", Open(h, P))
      <4>1. "sell" \in Sides
        BY DEF Sides
      <4>2. Holds(v, "sell", Open(g, P) \cup {NewOrder(n, "sell")})
        BY <1>1, <4>1, HoldsNew
      <4>3. QED
        BY <2>1, <2>2, <4>2
    <3>4. v \in [GridLevels -> Nat]
      BY <3>3 DEF Holds
    <3>5. r = [h EXCEPT !.sell = v]
      BY <2>1
    <3> HIDE DEF h, v, r, n
    <3>6. r \in Grid /\ r.sell = v /\ r.buy = h.buy /\ r.next = h.next /\ r.queue = h.queue
      BY <3>2, <3>4, <3>5 DEF Grid
    <3>7. Open(r, P) = Open(h, P)
      BY <3>6 DEF Open
    <3>8. QED
      BY <2>1, <3>1, <3>3, <3>6, <3>7 DEF GridOK
  <2>3. CASE ~ Accepted(g)
    BY <2>1, <2>3 DEF PlaceSellAt
  <2>4. QED
    BY <2>2, <2>3
<1>4. QED
  BY <1>2, <1>3

\* An order is filled that no level has, or has any more.
LEMMA FillKeeps ==
    ASSUME NEW g, NEW P, NEW F, GridOK(g, P, F), NEW o \in P,
           \A i \in GridLevels : g.buy[i] # o.id /\ g.sell[i] # o.id
    PROVE  GridOK(g, P \ {o}, F \cup {o.id})
<1>1. Open(g, P \ {o}) = Open(g, P) \ {o} /\ o \in Open(g, P)
  BY DEF GridOK, Open
<1>2. Orders(Open(g, P) \ {o}, g.next, F \cup {o.id})
  BY <1>1, OrdersFill DEF GridOK
<1>3. Holds(g.buy, "buy", Open(g, P) \ {o}) /\ Holds(g.sell, "sell", Open(g, P) \ {o})
  BY <1>1, HoldsLess DEF GridOK
<1>4. QED
  BY <1>1, <1>2, <1>3 DEF GridOK

\* A level forgets its order.
NoBuy(g, i) == [g EXCEPT !.buy[i] = 0]
NoSell(g, i) == [g EXCEPT !.sell[i] = 0]

LEMMA ClearBuyKeeps ==
    ASSUME NEW g, NEW P, NEW F, GridOK(g, P, F), NEW i \in GridLevels
    PROVE  /\ GridOK(NoBuy(g, i), P, F) /\ NoBuy(g, i).sell = g.sell
           /\ g.buy[i] # 0 => \A j \in GridLevels : NoBuy(g, i).buy[j] # g.buy[i]
<1> DEFINE h == NoBuy(g, i)
           v == [g.buy EXCEPT ![i] = 0]
<1>1. g \in Grid /\ Holds(g.buy, "buy", Open(g, P)) /\ Holds(g.sell, "sell", Open(g, P))
  BY DEF GridOK
<1>2. Holds(v, "buy", Open(g, P)) /\ (g.buy[i] # 0 => \A j \in GridLevels : v[j] # g.buy[i])
  BY <1>1, HoldsCleared
<1>3. h = [g EXCEPT !.buy = v]
  BY DEF NoBuy
<1> HIDE DEF h, v
<1>4. v \in [GridLevels -> Nat]
  BY <1>2 DEF Holds
<1>5. h \in Grid /\ h.buy = v /\ h.sell = g.sell /\ h.next = g.next /\ h.queue = g.queue
  BY <1>1, <1>3, <1>4 DEF Grid
<1>6. Open(h, P) = Open(g, P)
  BY <1>5 DEF Open
<1>7. GridOK(h, P, F)
  BY <1>2, <1>5, <1>6 DEF GridOK
<1>8. QED
  BY <1>2, <1>5, <1>7 DEF h

LEMMA ClearSellKeeps ==
    ASSUME NEW g, NEW P, NEW F, GridOK(g, P, F), NEW i \in GridLevels
    PROVE  /\ GridOK(NoSell(g, i), P, F) /\ NoSell(g, i).buy = g.buy
           /\ g.sell[i] # 0 => \A j \in GridLevels : NoSell(g, i).sell[j] # g.sell[i]
<1> DEFINE h == NoSell(g, i)
           v == [g.sell EXCEPT ![i] = 0]
<1>1. g \in Grid /\ Holds(g.sell, "sell", Open(g, P)) /\ Holds(g.buy, "buy", Open(g, P))
  BY DEF GridOK
<1>2. Holds(v, "sell", Open(g, P)) /\ (g.sell[i] # 0 => \A j \in GridLevels : v[j] # g.sell[i])
  BY <1>1, HoldsCleared
<1>3. h = [g EXCEPT !.sell = v]
  BY DEF NoSell
<1> HIDE DEF h, v
<1>4. v \in [GridLevels -> Nat]
  BY <1>2 DEF Holds
<1>5. h \in Grid /\ h.sell = v /\ h.buy = g.buy /\ h.next = g.next /\ h.queue = g.queue
  BY <1>1, <1>3, <1>4 DEF Grid
<1>6. Open(h, P) = Open(g, P)
  BY <1>5 DEF Open
<1>7. GridOK(h, P, F)
  BY <1>2, <1>5, <1>6 DEF GridOK
<1>8. QED
  BY <1>2, <1>5, <1>7 DEF h

\* A level that has the id of an open order is of its side.
LEMMA LevelOfOrder ==
    ASSUME NEW g, NEW P, NEW F, GridOK(g, P, F), NEW o \in P, NEW i \in GridLevels
    PROVE  /\ o.id # 0
           /\ g.buy[i] = o.id => o.side = "buy"
           /\ g.sell[i] = o.id => o.side = "sell"
<1>1. o \in Open(g, P)
  BY DEF Open
<1>2. o.id # 0
  BY <1>1 DEF GridOK, Orders
<1>3. g.buy[i] = o.id => o.side = "buy"
  BY <1>1, <1>2 DEF GridOK, Orders, Holds
<1>4. g.sell[i] = o.id => o.side = "sell"
  BY <1>1, <1>2 DEF GridOK, Orders, Holds
<1>5. QED
  BY <1>2, <1>3, <1>4

\* onFill of an order the exchange had.
LEMMA OnFillKeeps ==
    ASSUME NEW g, NEW P, NEW F, GridOK(g, P, F), NEW o \in P
    PROVE  GridOK(OnFill(g, o.id), P \ {o}, F \cup {o.id})
<1> DEFINE Q == P \ {o}
           E == F \cup {o.id}
           onBuy == \E i \in GridLevels : g.buy[i] = o.id
           onSell == \E i \in GridLevels : g.sell[i] = o.id
<1>1. (~ (onBuy /\ onSell) /\ o.id # 0) \/ GridLevels = {}
  BY LevelOfOrder
<1>2. CASE onBuy
  <2> DEFINE i == CHOOSE i \in GridLevels : g.buy[i] = o.id
             h == NoBuy(g, i)
  <2>1. i \in GridLevels /\ g.buy[i] = o.id
    BY <1>2
  <2>2. o.id # 0 /\ \A j \in GridLevels : g.sell[j] # o.id
    BY <1>1, <1>2
  <2>3. OnFill(g, o.id) = IF i + 1 \in GridLevels THEN PlaceSellAt(h, i + 1) ELSE h
    BY <1>2, <2>2 DEF OnFill, NoBuy
  <2> HIDE DEF i
  <2>4. /\ GridOK(h, P, F) /\ h.sell = g.sell
        /\ g.buy[i] # 0 => \A j \in GridLevels : h.buy[j] # g.buy[i]
    BY <2>1, ClearBuyKeeps
  <2> HIDE DEF h
  <2>5. GridOK(h, Q, E)
    BY <2>1, <2>2, <2>4, FillKeeps
  <2> HIDE DEF Q, E
  <2>6. CASE i + 1 \in GridLevels
    BY <2>3, <2>5, <2>6, PlaceKeeps DEF Q, E
  <2>7. CASE i + 1 \notin GridLevels
    BY <2>3, <2>5, <2>7 DEF Q, E
  <2>8. QED
    BY <2>6, <2>7
<1>3. CASE onSell
  <2> DEFINE i == CHOOSE i \in GridLevels : g.sell[i] = o.id
             h == NoSell(g, i)
  <2>1. i \in GridLevels /\ g.sell[i] = o.id
    BY <1>3
  <2>2. o.id # 0 /\ \A j \in GridLevels : g.buy[j] # o.id
    BY <1>1, <1>3
  <2>3. OnFill(g, o.id) = IF i - 1 \in GridLevels THEN PlaceBuyAt(h, i - 1) ELSE h
    BY <1>3, <2>2 DEF OnFill, NoSell
  <2> HIDE DEF i
  <2>4. /\ GridOK(h, P, F) /\ h.buy = g.buy
        /\ g.sell[i] # 0 => \A j \in GridLevels : h.sell[j] # g.sell[i]
    BY <2>1, ClearSellKeeps
  <2> HIDE DEF h
  <2>5. GridOK(h, Q, E)
    BY <2>1, <2>2, <2>4, FillKeeps
  <2> HIDE DEF Q, E
  <2>6. CASE i - 1 \in GridLevels
    BY <2>3, <2>5, <2>6, PlaceKeeps DEF Q, E
  <2>7. CASE i - 1 \notin GridLevels
    BY <2>3, <2>5, <2>7 DEF Q, E
  <2>8. QED
    BY <2>6, <2>7
<1>4. CASE ~ onBuy /\ ~ onSell
  <2>1. OnFill(g, o.id) = g
    BY <1>4 DEF OnFill
  <2>2. GridOK(g, Q, E)
    BY <1>4, FillKeeps
  <2>3. QED
    BY <2>1, <2>2
<1>5. QED
  BY <1>2, <1>3, <1>4

\* onTick: the levels one after the other.
LEMMA OnTickKeeps ==
    ASSUME NEW g, NEW P, NEW F, GridOK(g, P, F), NEW b
    PROVE  GridOK(OnTick(g, b), P, F)
<1> DEFINE N == Len(GridPrices)
           level(h, i) == IF Below(b, i) /\ h.buy[i] = 0 THEN PlaceBuyAt(h, i)
                          ELSE IF Above(b, i) /\ h.sell[i] = 0 THEN PlaceSellAt(h, i) ELSE h
           step(f, i) == IF i = 0 THEN g ELSE level(f[i - 1], i)
           upTo == CHOOSE f : f = [i \in 0 .. N |-> step(f, i)]
<1>1. OnTick(g, b) = IF HasMid(b) THEN upTo[N] ELSE g
  BY DEF OnTick
<1>2. N \in Nat /\ GridLevels = 1 .. N
  BY GridAssumption DEF GridLevels
<1>3. ASSUME NEW h, GridOK(h, P, F), NEW i \in 1 .. N  PROVE GridOK(level(h, i), P, F)
  BY <1>2, <1>3, PlaceKeeps
<1> HIDE DEF level, N
<1>4. ASSUME NEW n \in Nat  PROVE \E f : f = [i \in 0 .. n |-> step(f, i)]
  <2> DEFINE Bad == {m \in Nat : ~ \E f : f = [i \in 0 .. m |-> step(f, i)]}
  <2> SUFFICES ASSUME n \in Bad PROVE FALSE
    OBVIOUS
  <2>1. PICK m \in Bad : \A y \in Bad : m <= y
    <3>1. Bad \in SUBSET Nat /\ Bad # {}
      OBVIOUS
    <3> HIDE DEF Bad
    <3>2. QED
      BY <3>1, LeastNumber
  <2>2. m \in Nat /\ ~ \E f : f = [i \in 0 .. m |-> step(f, i)]
    OBVIOUS
  <2>3. CASE m = 0
    <3> DEFINE f == [i \in 0 .. 0 |-> g]
    <3>1. f = [i \in 0 .. 0 |-> step(f, i)]
      OBVIOUS
    <3> HIDE DEF f, step
    <3>2. QED
      BY <2>2, <2>3, <3>1
  <2>4. CASE m # 0
    <3>1. m - 1 \in Nat /\ m - 1 \notin Bad
      <4>1. m - 1 \in Nat /\ ~ (m <= m - 1)
        BY <2>2, <2>4
      <4> HIDE DEF Bad
      <4>2. QED
        BY <2>1, <4>1
    <3>2. PICK f : f = [i \in 0 .. m - 1 |-> step(f, i)]
      BY <3>1
    <3> DEFINE h == [i \in 0 .. m |-> IF i = m THEN level(f[m - 1], m) ELSE f[i]]
    <3>3. ASSUME NEW i \in 0 .. m  PROVE h[i] = step(h, i)
      <4>1. CASE i = 0
        <5>1. 0 \in 0 .. m - 1 /\ h[0] = f[0]
          BY <2>2, <2>4
        <5>2. f[0] = step(f, 0)
          BY <3>2, <5>1
        <5>3. QED
          BY <4>1, <5>1, <5>2
      <4>2. CASE i # 0
        <5>1. i - 1 \in 0 .. m - 1 /\ i - 1 \in 0 .. m /\ i - 1 # m
          BY <2>2, <2>4, <4>2
        <5>2. h[i - 1] = f[i - 1]
          BY <5>1
        <5>3. h[i] = level(f[i - 1], i)
          <6>1. CASE i = m
            BY <6>1
          <6>2. CASE i # m
            <7>1. i \in 0 .. m - 1 /\ h[i] = f[i]
              BY <2>2, <6>2
            <7>2. f[i] = step(f, i)
              BY <3>2, <7>1
            <7>3. QED
              BY <4>2, <7>1, <7>2
          <6>3. QED
            BY <6>1, <6>2
        <5>4. QED
          BY <4>2, <5>2, <5>3
      <4>3. QED
        BY <4>1, <4>2
    <3>4. h = [i \in 0 .. m |-> h[i]]
      OBVIOUS
    <3> HIDE DEF h, step
    <3>5. h = [i \in 0 .. m |-> step(h, i)]
      BY <3>3, <3>4
    <3>6. QED
      BY <2>2, <3>5
  <2>5. QED
    BY <2>3, <2>4
<1>5. upTo = [i \in 0 .. N |-> step(upTo, i)]
  <2> HIDE DEF step
  <2>1. QED
    BY <1>2, <1>4
<1> HIDE DEF upTo
<1>6. ASSUME NEW k \in 0 .. N, ~ GridOK(upTo[k], P, F)  PROVE FALSE
  <2> DEFINE Bad == {m \in 0 .. N : ~ GridOK(upTo[m], P, F)}
  <2>1. PICK m \in Bad : \A y \in Bad : m <= y
    <3>1. Bad \in SUBSET Nat /\ Bad # {}
      BY <1>2, <1>6
    <3> HIDE DEF Bad
    <3>2. QED
      BY <3>1, LeastNumber
  <2>2. m \in 0 .. N /\ ~ GridOK(upTo[m], P, F)
    OBVIOUS
  <2>3. upTo[m] = step(upTo, m)
    BY <1>5, <2>2
  <2>4. m # 0
    BY <2>2, <2>3
  <2>5. m - 1 \in 0 .. N /\ m \in 1 .. N /\ ~ (m <= m - 1)
    BY <1>2, <2>2, <2>4
  <2>6. GridOK(upTo[m - 1], P, F)
    BY <2>1, <2>5
  <2>7. upTo[m] = level(upTo[m - 1], m)
    BY <2>3, <2>4
  <2>8. QED
    BY <1>3, <2>2, <2>5, <2>6, <2>7
<1>7. GridOK(upTo[N], P, F)
  BY <1>2, <1>6
<1>8. QED
  BY <1>1, <1>7

\* drainOrderQueue.
LEMMA ConcatDistinct ==
    ASSUME NEW S, NEW p \in Seq(S), NEW q \in Seq(S)
    PROVE  /\ p \o q \in Seq(S) /\ Range(p \o q) = Range(p) \cup Range(q)
           /\ Distinct(p) /\ Distinct(q) /\ Range(p) \cap Range(q) = {} => Distinct(p \o q)
<1> DEFINE m == Len(p)
           n == Len(q)
           c == p \o q
<1>1. /\ m \in Nat /\ n \in Nat /\ DOMAIN p = 1 .. m /\ DOMAIN q = 1 .. n
      /\ c \in Seq(S) /\ DOMAIN c = 1 .. m + n
      /\ \A i \in 1 .. m + n : c[i] = IF i <= m THEN p[i] ELSE q[i - m]
  OBVIOUS
<1> HIDE DEF m, n, c
<1>2. ASSUME NEW i \in DOMAIN c
      PROVE  \/ i \in DOMAIN p /\ c[i] = p[i]
             \/ i \notin DOMAIN p /\ i - m \in DOMAIN q /\ c[i] = q[i - m]
  BY <1>1
<1>3. \A i \in DOMAIN p : i \in DOMAIN c /\ c[i] = p[i]
  BY <1>1
<1>4. ASSUME NEW i \in DOMAIN q  PROVE i + m \in DOMAIN c /\ c[i + m] = q[i]
  <2>1. i + m \in 1 .. m + n /\ ~ (i + m <= m) /\ i + m - m = i
    BY <1>1
  <2>2. QED
    BY <1>1, <2>1
<1>5. Range(c) = Range(p) \cup Range(q)
  <2>1. Range(c) \subseteq Range(p) \cup Range(q)
    BY <1>2 DEF Range
  <2>2. Range(p) \subseteq Range(c)
    BY <1>3 DEF Range
  <2>3. Range(q) \subseteq Range(c)
    BY <1>4 DEF Range
  <2>4. QED
    BY <2>1, <2>2, <2>3
<1>6. ASSUME Distinct(p), Distinct(q), Range(p) \cap Range(q) = {}, NEW k \in DOMAIN c, NEW l \in DOMAIN c, k # l
      PROVE  c[k] # c[l]
  <2>1. CASE k \in DOMAIN p /\ l \in DOMAIN p
    BY <1>3, <1>6, <2>1 DEF Distinct
  <2>2. CASE k \notin DOMAIN p /\ l \notin DOMAIN p
    <3>1. k - m \in DOMAIN q /\ l - m \in DOMAIN q /\ c[k] = q[k - m] /\ c[l] = q[l - m]
      BY <1>2, <2>2
    <3>2. k - m # l - m
      BY <1>1, <1>6
    <3>3. QED
      BY <1>6, <3>1, <3>2 DEF Distinct
  <2>3. CASE k \in DOMAIN p /\ l \notin DOMAIN p
    <3>1. c[k] \in Range(p) /\ c[l] \in Range(q)
      BY <1>2, <2>3 DEF Range
    <3>2. QED
      BY <1>6, <3>1
  <2>4. CASE k \notin DOMAIN p /\ l \in DOMAIN p
    <3>1. c[l] \in Range(p) /\ c[k] \in Range(q)
      BY <1>2, <2>4 DEF Range
    <3>2. QED
      BY <1>6, <3>1
  <2>5. QED
    BY <2>1, <2>2, <2>3, <2>4
<1>7. Distinct(p) /\ Distinct(q) /\ Range(p) \cap Range(q) = {} => Distinct(c)
  BY <1>6 DEF Distinct
<1>8. QED
  BY <1>1, <1>5, <1>7 DEF c

LEMMA DrainKeeps ==
    ASSUME NEW g, NEW p \in Seq(Order), Distinct(p), NEW F, GridOK(g, Range(p), F)
    PROVE  LET s == DrainOrderQueue(g, p) IN
           s.pending \in Seq(Order) /\ Distinct(s.pending) /\ GridOK(s.grid, Range(s.pending), F)
<1> DEFINE s == DrainOrderQueue(g, p)
           h == [g EXCEPT !.queue = <<>>]
           r == p \o g.queue
<1>1. s.grid = h /\ s.pending = r
  BY DEF DrainOrderQueue
<1>2. g \in Grid /\ g.queue \in Seq(Order) /\ Distinct(g.queue) /\ Range(g.queue) \cap Range(p) = {}
  BY DEF GridOK, Grid
<1>3. r \in Seq(Order) /\ Range(r) = Range(p) \cup Range(g.queue) /\ Distinct(r)
  BY <1>2, ConcatDistinct
<1>4. <<>> \in Seq(Order) /\ Range(<<>>) = {} /\ Distinct(<<>>)
  BY DEF Range, Distinct
<1>5. h \in Grid /\ h.buy = g.buy /\ h.sell = g.sell /\ h.next = g.next /\ h.queue = <<>>
  BY <1>2, <1>4 DEF Grid
<1> HIDE DEF s, h, r
<1>6. Open(h, Range(r)) = Open(g, Range(p))
  BY <1>3, <1>4, <1>5 DEF Open
<1>7. GridOK(h, Range(r), F)
  BY <1>4, <1>5, <1>6 DEF GridOK
<1>8. QED
  BY <1>1, <1>3, <1>7 DEF s

-----------------------------------------------------------------------------
(* BacktestEngine: the fills of a tick *)

Acc == [grid : Grid, pending : Seq(Order), filled : Seq(Nat), unknown : SUBSET Nat]

\* the orders after the k-th
Rest(p, k) == {p[j] : j \in k + 1 .. Len(p)}

\* After k of the orders p; E are the ids filled in earlier ticks.
FillsOK(acc, p, k, E) ==
    /\ acc \in Acc
    /\ GridOK(acc.grid, Range(acc.pending) \cup Rest(p, k), E \cup Range(acc.filled))
    /\ Distinct(acc.pending) /\ Range(acc.pending) \cap Rest(p, k) = {}
    /\ Distinct(acc.filled) /\ Range(acc.filled) \cap E = {}
    /\ acc.unknown \subseteq Range(acc.filled)

FillOrder(b, acc, order) ==
    IF Liquid(b, order)
    THEN [acc EXCEPT !.grid = OnFill(@, order.id), !.filled = Append(@, order.id),
                     !.unknown = IF Knows(acc.grid, order.id) THEN @ ELSE @ \cup {order.id}]
    ELSE [acc EXCEPT !.pending = Append(@, order)]

LEMMA RestIs ==
    ASSUME NEW p \in Seq(Order), Distinct(p), NEW k \in 1 .. Len(p)
    PROVE  p[k] \in Order /\ p[k] \notin Rest(p, k) /\ Rest(p, k - 1) = Rest(p, k) \cup {p[k]}
<1> DEFINE n == Len(p)
<1>1. n \in Nat /\ DOMAIN p = 1 .. n /\ k \in 1 .. n /\ p[k] \in Order
  OBVIOUS
<1> HIDE DEF n
<1>2. \A j \in k + 1 .. n : j \in DOMAIN p /\ k \in DOMAIN p /\ j # k
  BY <1>1
<1>3. p[k] \notin Rest(p, k)
  BY <1>2 DEF Rest, Distinct, n
<1>4. k - 1 + 1 .. n = (k + 1 .. n) \cup {k}
  BY <1>1
<1>5. Rest(p, k - 1) = Rest(p, k) \cup {p[k]}
  BY <1>4 DEF Rest, n
<1>6. QED
  BY <1>1, <1>3, <1>5

LEMMA FillOrderKeeps ==
    ASSUME NEW b, NEW p \in Seq(Order), Distinct(p), NEW k \in 1 .. Len(p), NEW E, NEW acc, FillsOK(acc, p, k - 1, E)
    PROVE  FillsOK(FillOrder(b, acc, p[k]), p, k, E)
<1> DEFINE o == p[k]
           r == FillOrder(b, acc, o)
           P == Range(acc.pending) \cup Rest(p, k - 1)
           F == E \cup Range(acc.filled)
           g == acc.grid
<1>1. o \in Order /\ o \notin Rest(p, k) /\ Rest(p, k - 1) = Rest(p, k) \cup {o}
  BY RestIs
<1>2. /\ acc \in Acc /\ GridOK(g, P, F) /\ Distinct(acc.pending) /\ Range(acc.pending) \cap Rest(p, k - 1) = {}
      /\ Distinct(acc.filled) /\ Range(acc.filled) \cap E = {} /\ acc.unknown \subseteq Range(acc.filled)
  BY DEF FillsOK
<1>3. /\ acc.grid \in Grid /\ acc.pending \in Seq(Order) /\ acc.filled \in Seq(Nat) /\ acc.unknown \in SUBSET Nat
      /\ o.id \in Nat
  BY <1>1, <1>2, OrderFields DEF Acc
<1>4. o \in P /\ o \notin Range(acc.pending)
  BY <1>1, <1>2
<1>5. o.id \notin F
  <2>1. o \in Open(g, P)
    BY <1>4 DEF Open
  <2>2. QED
    BY <1>2, <2>1 DEF GridOK, Orders
<1> HIDE DEF o
<1>6. CASE Liquid(b, o)
  <2> DEFINE h == OnFill(g, o.id)
             f == Append(acc.filled, o.id)
             u == IF Knows(g, o.id) THEN acc.unknown ELSE acc.unknown \cup {o.id}
  <2>1. GridOK(h, P \ {o}, F \cup {o.id})
    BY <1>2, <1>4, OnFillKeeps
  <2>2. h \in Grid
    BY <2>1 DEF GridOK
  <2>3. f \in Seq(Nat) /\ Range(f) = Range(acc.filled) \cup {o.id} /\ Distinct(f)
    BY <1>2, <1>3, <1>5, AppendDistinct
  <2>4. u \subseteq Range(f) /\ u \in SUBSET Nat
    BY <1>2, <1>3, <2>3
  <2>5. r = [acc EXCEPT !.grid = h, !.filled = f, !.unknown = u]
    BY <1>6 DEF FillOrder
  <2>6. P \ {o} = Range(acc.pending) \cup Rest(p, k)
    BY <1>1, <1>4
  <2>7. F \cup {o.id} = E \cup Range(f)
    BY <2>3
  <2>8. Range(acc.pending) \cap Rest(p, k) = {} /\ Range(f) \cap E = {}
    BY <1>1, <1>2, <1>5, <2>3
  <2> HIDE DEF h, f, u, r
  <2>9. r \in Acc /\ r.grid = h /\ r.pending = acc.pending /\ r.filled = f /\ r.unknown = u
    BY <1>2, <2>2, <2>3, <2>4, <2>5 DEF Acc
  <2>10. GridOK(r.grid, Range(r.pending) \cup Rest(p, k), E \cup Range(r.filled))
    BY <2>1, <2>6, <2>7, <2>9
  <2>11. FillsOK(r, p, k, E)
    BY <1>2, <2>3, <2>4, <2>8, <2>9, <2>10 DEF FillsOK
  <2>12. QED
    BY <2>11 DEF r, o
<1>7. CASE ~ Liquid(b, o)
  <2> DEFINE q == Append(acc.pending, o)
  <2>1. q \in Seq(Order) /\ Range(q) = Range(acc.pending) \cup {o} /\ Distinct(q)
    BY <1>1, <1>2, <1>3, <1>4, AppendDistinct
  <2>2. r = [acc EXCEPT !.pending = q]
    BY <1>7 DEF FillOrder
  <2>3. P = Range(q) \cup Rest(p, k) /\ Range(q) \cap Rest(p, k) = {}
    BY <1>1, <1>2, <2>1
  <2> HIDE DEF q, r
  <2>4. r \in Acc /\ r.grid = g /\ r.pending = q /\ r.filled = acc.filled /\ r.unknown = acc.unknown
    BY <1>2, <2>1, <2>2 DEF Acc
  <2>5. GridOK(r.grid, Range(r.pending) \cup Rest(p, k), E \cup Range(r.filled))
    BY <1>2, <2>3, <2>4
  <2>6. FillsOK(r, p, k, E)
    BY <1>2, <2>1, <2>3, <2>4, <2>5 DEF FillsOK
  <2>7. QED
    BY <2>6 DEF r, o
<1>8. QED
  BY <1>6, <1>7

\* simulateFillsForPending: the orders one after the other.
LEMMA SimulateKeeps ==
    ASSUME NEW b, NEW s, NEW E, s.pending \in Seq(Order), Distinct(s.pending), GridOK(s.grid, Range(s.pending), E)
    PROVE  LET p == s.pending IN FillsOK(SimulateFills(b, s), p, Len(p), E)
<1> DEFINE p == s.pending
           N == Len(p)
           start == [grid |-> s.grid, pending |-> <<>>, filled |-> <<>>, unknown |-> {}]
           step(f, i) == IF i = 0 THEN start ELSE FillOrder(b, f[i - 1], p[i])
           upTo == CHOOSE f : f = [i \in 0 .. N |-> step(f, i)]
<1>1. SimulateFills(b, s) = upTo[N]
  BY DEF SimulateFills, FillOrder
<1>2. p \in Seq(Order) /\ Distinct(p) /\ GridOK(s.grid, Range(p), E) /\ N \in Nat
  OBVIOUS
<1>3. FillsOK(start, p, 0, E)
  <2>1. <<>> \in Seq(Order) /\ <<>> \in Seq(Nat) /\ Range(<<>>) = {} /\ Distinct(<<>>) /\ {} \in SUBSET Nat
    BY DEF Range, Distinct
  <2>2. s.grid \in Grid
    BY <1>2 DEF GridOK
  <2>3. /\ start \in Acc /\ start.grid = s.grid /\ start.pending = <<>> /\ start.filled = <<>>
        /\ start.unknown = {}
    BY <2>1, <2>2 DEF Acc
  <2> HIDE DEF start, p
  <2>4. Rest(p, 0) = Range(p)
    <3>1. 0 + 1 .. Len(p) = DOMAIN p
      BY <1>2
    <3>2. QED
      BY <3>1 DEF Rest, Range
  <2>5. Range(start.pending) \cup Rest(p, 0) = Range(p) /\ E \cup Range(start.filled) = E
    BY <2>1, <2>3, <2>4
  <2>6. GridOK(start.grid, Range(start.pending) \cup Rest(p, 0), E \cup Range(start.filled))
    BY <1>2, <2>3, <2>5
  <2>7. QED
    BY <2>1, <2>3, <2>6 DEF FillsOK
<1> HIDE DEF start, p, N
<1>4. ASSUME NEW n \in Nat  PROVE \E f : f = [i \in 0 .. n |-> step(f, i)]
  <2> DEFINE Bad == {m \in Nat : ~ \E f : f = [i \in 0 .. m |-> step(f, i)]}
  <2> SUFFICES ASSUME n \in Bad PROVE FALSE
    OBVIOUS
  <2>1. PICK m \in Bad : \A y \in Bad : m <= y
    <3>1. Bad \in SUBSET Nat /\ Bad # {}
      OBVIOUS
    <3> HIDE DEF Bad
    <3>2. QED
      BY <3>1, LeastNumber
  <2>2. m \in Nat /\ ~ \E f : f = [i \in 0 .. m |-> step(f, i)]
    OBVIOUS
  <2>3. CASE m = 0
    <3> DEFINE f == [i \in 0 .. 0 |-> start]
    <3>1. f = [i \in 0 .. 0 |-> step(f, i)]
      OBVIOUS
    <3> HIDE DEF f, step
    <3>2. QED
      BY <2>2, <2>3, <3>1
  <2>4. CASE m # 0
    <3>1. m - 1 \in Nat /\ m - 1 \notin Bad
      <4>1. m - 1 \in Nat /\ ~ (m <= m - 1)
        BY <2>2, <2>4
      <4> HIDE DEF Bad
      <4>2. QED
        BY <2>1, <4>1
    <3>2. PICK f : f = [i \in 0 .. m - 1 |-> step(f, i)]
      BY <3>1
    <3> DEFINE h == [i \in 0 .. m |-> IF i = m THEN FillOrder(b, f[m - 1], p[m]) ELSE f[i]]
    <3>3. ASSUME NEW i \in 0 .. m  PROVE h[i] = step(h, i)
      <4>1. CASE i = 0
        <5>1. 0 \in 0 .. m - 1 /\ h[0] = f[0]
          BY <2>2, <2>4
        <5>2. f[0] = step(f, 0)
          BY <3>2, <5>1
        <5>3. QED
          BY <4>1, <5>1, <5>2
      <4>2. CASE i # 0
        <5>1. i - 1 \in 0 .. m - 1 /\ i - 1 \in 0 .. m /\ i - 1 # m
          BY <2>2, <2>4, <4>2
        <5>2. h[i - 1] = f[i - 1]
          BY <5>1
        <5>3. h[i] = FillOrder(b, f[i - 1], p[i])
          <6>1. CASE i = m
            BY <6>1
          <6>2. CASE i # m
            <7>1. i \in 0 .. m - 1 /\ h[i] = f[i]
              BY <2>2, <6>2
            <7>2. f[i] = step(f, i)
              BY <3>2, <7>1
            <7>3. QED
              BY <4>2, <7>1, <7>2
          <6>3. QED
            BY <6>1, <6>2
        <5>4. QED
          BY <4>2, <5>2, <5>3
      <4>3. QED
        BY <4>1, <4>2
    <3>4. h = [i \in 0 .. m |-> h[i]]
      OBVIOUS
    <3> HIDE DEF h, step
    <3>5. h = [i \in 0 .. m |-> step(h, i)]
      BY <3>3, <3>4
    <3>6. QED
      BY <2>2, <3>5
  <2>5. QED
    BY <2>3, <2>4
<1>5. upTo = [i \in 0 .. N |-> step(upTo, i)]
  <2> HIDE DEF step
  <2>1. QED
    BY <1>2, <1>4
<1> HIDE DEF upTo
<1>6. ASSUME NEW k \in 0 .. N, ~ FillsOK(upTo[k], p, k, E)  PROVE FALSE
  <2> DEFINE Bad == {m \in 0 .. N : ~ FillsOK(upTo[m], p, m, E)}
  <2>1. PICK m \in Bad : \A y \in Bad : m <= y
    <3>1. Bad \in SUBSET Nat /\ Bad # {}
      BY <1>2, <1>6
    <3> HIDE DEF Bad
    <3>2. QED
      BY <3>1, LeastNumber
  <2>2. m \in 0 .. N /\ ~ FillsOK(upTo[m], p, m, E)
    OBVIOUS
  <2>3. upTo[m] = step(upTo, m)
    BY <1>5, <2>2
  <2>4. m # 0
    BY <1>3, <2>2, <2>3
  <2>5. m - 1 \in 0 .. N /\ m \in 1 .. N /\ ~ (m <= m - 1)
    BY <1>2, <2>2, <2>4
  <2>6. FillsOK(upTo[m - 1], p, m - 1, E)
    BY <2>1, <2>5
  <2>7. upTo[m] = FillOrder(b, upTo[m - 1], p[m])
    BY <2>3, <2>4
  <2>8. FillsOK(FillOrder(b, upTo[m - 1], p[m]), p, m, E)
    BY <1>2, <2>5, <2>6, FillOrderKeeps DEF N
  <2>9. QED
    BY <2>2, <2>7, <2>8
<1>7. FillsOK(upTo[N], p, N, E)
  BY <1>2, <1>6
<1>8. QED
  BY <1>1, <1>7 DEF p, N

-----------------------------------------------------------------------------
(* BacktestEngine: the theorem *)

GridInv == /\ GridOK(grid, Range(pending), Range(filledIds))
           /\ pending \in Seq(Order) /\ Distinct(pending)
           /\ filledIds \in Seq(Nat) /\ Distinct(filledIds)
           /\ unmatched \subseteq Range(filledIds)

LEMMA GridInvInit == BacktestInit => GridInv
<1> SUFFICES ASSUME BacktestInit PROVE GridInv
  OBVIOUS
<1> DEFINE z == [i \in GridLevels |-> 0]
<1>1. <<>> \in Seq(Order) /\ <<>> \in Seq(Nat) /\ Range(<<>>) = {} /\ Distinct(<<>>)
  BY DEF Range, Distinct
<1>2. z \in [GridLevels -> Nat] /\ \A i \in GridLevels : z[i] = 0
  OBVIOUS
<1>3. /\ grid = [buy |-> z, sell |-> z, next |-> 1, queue |-> <<>>]
      /\ pending = <<>> /\ filledIds = <<>> /\ unmatched = {}
  BY DEF BacktestInit
<1> HIDE DEF z
<1>4. grid \in Grid /\ grid.buy = z /\ grid.sell = z /\ grid.next = 1 /\ grid.queue = <<>>
  BY <1>1, <1>2, <1>3 DEF Grid
<1>5. Open(grid, Range(pending)) = {}
  BY <1>1, <1>3, <1>4 DEF Open
<1>6. Orders({}, 1, {})
  BY DEF Orders
<1>7. Holds(z, "buy", {}) /\ Holds(z, "sell", {})
  BY <1>2 DEF Holds
<1>8. GridOK(grid, Range(pending), Range(filledIds))
  BY <1>1, <1>3, <1>4, <1>5, <1>6, <1>7 DEF GridOK
<1>9. QED
  BY <1>1, <1>3, <1>8 DEF GridInv

LEMMA TickKeeps ==
    ASSUME GridInv, NEW t, TickCallback(t)
    PROVE  GridInv'
<1> DEFINE b == BookAfter(sideBook, t)
           s == DrainOrderQueue(OnTick(grid, b), pending)
           p == s.pending
           r == SimulateFills(b, s)
           E == Range(filledIds)
<1>1. /\ grid' = r.grid /\ pending' = r.pending /\ filledIds' = filledIds \o r.filled
      /\ unmatched' = unmatched \cup r.unknown
  BY DEF TickCallback
<1>2. /\ GridOK(grid, Range(pending), E) /\ pending \in Seq(Order) /\ Distinct(pending)
      /\ filledIds \in Seq(Nat) /\ Distinct(filledIds) /\ unmatched \subseteq E
  BY DEF GridInv
<1> HIDE DEF b, E
<1>3. GridOK(OnTick(grid, b), Range(pending), E)
  BY <1>2, OnTickKeeps
<1>4. s.pending \in Seq(Order) /\ Distinct(s.pending) /\ GridOK(s.grid, Range(s.pending), E)
  BY <1>2, <1>3, DrainKeeps
<1> HIDE DEF s
<1>5. FillsOK(r, p, Len(p), E)
  BY <1>4, SimulateKeeps
<1> HIDE DEF r
<1>6. Rest(p, Len(p)) = {}
  <2>1. Len(p) + 1 .. Len(p) = {}
    <3>1. Len(p) \in Nat
      BY <1>4
    <3>2. QED
      BY <3>1
  <2>2. QED
    BY <2>1 DEF Rest
<1> HIDE DEF p
<1>7. /\ r \in Acc /\ GridOK(r.grid, Range(r.pending), E \cup Range(r.filled)) /\ Distinct(r.pending)
      /\ Distinct(r.filled) /\ Range(r.filled) \cap E = {} /\ r.unknown \subseteq Range(r.filled)
  <2>1. Range(r.pending) \cup Rest(p, Len(p)) = Range(r.pending)
    BY <1>6
  <2>2. QED
    BY <1>5, <2>1 DEF FillsOK
<1>8. r.pending \in Seq(Order) /\ r.filled \in Seq(Nat)
  BY <1>7 DEF Acc
<1>9. /\ filledIds' \in Seq(Nat) /\ Range(filledIds') = E \cup Range(r.filled) /\ Distinct(filledIds')
  BY <1>1, <1>2, <1>7, <1>8, ConcatDistinct DEF E
<1>10. unmatched' \subseteq Range(filledIds')
  BY <1>1, <1>2, <1>7, <1>9
<1>11. GridOK(grid', Range(pending'), Range(filledIds'))
  BY <1>1, <1>7, <1>9
<1>12. QED
  BY <1>1, <1>7, <1>8, <1>9, <1>10, <1>11 DEF GridInv

LEMMA GridInvStep == GridInv /\ [BacktestNext]_backtestVars => GridInv'
<1> SUFFICES ASSUME GridInv, [BacktestNext]_backtestVars PROVE GridInv'
  OBVIOUS
<1>1. CASE UNCHANGED <<grid, pending, filledIds, unmatched>>
  BY <1>1 DEF GridInv
<1>2. CASE Replay
  BY <1>2, TickKeeps DEF Replay
<1>3. QED
  BY <1>1, <1>2 DEF BacktestNext, backtestVars

LEMMA GridInvLive == GridInv => GridIdsLive
<1> SUFFICES ASSUME GridInv PROVE GridIdsLive
  OBVIOUS
<1> DEFINE q == grid.queue
           P == Range(pending)
           F == Range(filledIds)
           O == Open(grid, P)
           open == q \o pending
<1>1. /\ grid \in Grid /\ Orders(O, grid.next, F) /\ Holds(grid.buy, "buy", O) /\ Holds(grid.sell, "sell", O)
      /\ Distinct(q) /\ Range(q) \cap P = {} /\ pending \in Seq(Order) /\ Distinct(pending)
      /\ Distinct(filledIds) /\ unmatched \subseteq F
  BY DEF GridInv, GridOK
<1>2. q \in Seq(Order) /\ O = Range(q) \cup P
  BY <1>1 DEF Grid, Open
<1>3. open \in Seq(Order) /\ Range(open) = O /\ Distinct(open)
  BY <1>1, <1>2, ConcatDistinct
<1> HIDE DEF q, P, F, O, open
<1>4. /\ \A o \in O : o \in Order /\ 0 < o.id /\ o.id \notin F /\ o.id # 0
      /\ \A o, x \in O : o.id = x.id => o = x
      /\ \A x \in F : x # 0
  BY <1>1 DEF Orders
<1>5. ASSUME NEW k \in DOMAIN open  PROVE open[k] \in O
  BY <1>3 DEF Range
<1>6. ASSUME NEW lv, NEW s \in Sides, Holds(lv, s, O), NEW i \in GridLevels, lv[i] # 0
      PROVE  /\ \E k \in DOMAIN open : open[k] = NewOrder(lv[i], s)
             /\ lv[i] \notin F
  <2>1. PICK o \in O : o.id = lv[i] /\ o.side = s
    BY <1>6 DEF Holds
  <2>2. lv[i] \in Nat
    BY <1>6 DEF Holds
  <2>3. o = NewOrder(lv[i], s)
    BY <1>4, <2>1, <2>2, SameOrder
  <2>4. PICK k \in DOMAIN open : open[k] = o
    BY <1>3 DEF Range
  <2>5. QED
    BY <1>4, <2>1, <2>3, <2>4
<1>7. ASSUME NEW i \in GridLevels
      PROVE  /\ grid.buy[i] # 0 => \E k \in DOMAIN open : open[k] = [id |-> grid.buy[i], side |-> "buy"]
             /\ grid.sell[i] # 0 => \E k \in DOMAIN open : open[k] = [id |-> grid.sell[i], side |-> "sell"]
             /\ \A j \in GridLevels : i # j /\ grid.buy[i] # 0 => grid.buy[i] # grid.buy[j]
             /\ \A j \in GridLevels : i # j /\ grid.sell[i] # 0 => grid.sell[i] # grid.sell[j]
             /\ grid.buy[i] \notin F /\ grid.sell[i] \notin F
  <2>1. "buy" \in Sides /\ "sell" \in Sides
    BY DEF Sides
  <2>2. grid.buy[i] # 0 => grid.buy[i] \notin F /\ \E k \in DOMAIN open : open[k] = [id |-> grid.buy[i], side |-> "buy"]
    BY <1>1, <1>6, <2>1 DEF NewOrder
  <2>3. grid.sell[i] # 0 => grid.sell[i] \notin F /\ \E k \in DOMAIN open : open[k] = [id |-> grid.sell[i], side |-> "sell"]
    BY <1>1, <1>6, <2>1 DEF NewOrder
  <2>4. QED
    BY <1>1, <1>4, <2>2, <2>3 DEF Holds
<1>8. \A k, l \in DOMAIN open : k # l => open[k].id # open[l].id
  BY <1>3, <1>4, <1>5 DEF Distinct
<1>9. \A k, l \in DOMAIN filledIds : k # l => filledIds[k] # filledIds[l]
  BY <1>1 DEF Distinct
<1>10. Ids(open) \cap F = {}
  BY <1>4, <1>5 DEF Ids
<1>11. unmatched \subseteq F /\ \A id \in unmatched : ~ Knows(grid, id)
  BY <1>1, <1>7 DEF Knows
<1>12. QED
  BY <1>7, <1>8, <1>9, <1>10, <1>11 DEF GridIdsLive, F, q, open

(* In every run of the back test, whatever the ticks, the prices and the   *)
(* capacity of the order queue: the grid waits only for orders that are    *)
(* queued or pending, each on one level of its side; an order is filled at *)
(* most once, is not open when filled, and a fill the grid did not know is *)
(* of no order a level waits for.                                          *)
THEOREM GridStaysLive == BacktestSpec => []GridIdsLive
<1>1. BacktestInit => GridInv
  BY GridInvInit
<1>2. GridInv /\ [BacktestNext]_backtestVars => GridInv'
  BY GridInvStep
<1>3. GridInv => GridIdsLive
  BY GridInvLive
<1>4. QED
  BY <1>1, <1>2, <1>3, PTL DEF BacktestSpec
=============================================================================
