---------------------------- MODULE KHeapProofs ----------------------------
(***************************************************************************)
(* Proofs about KHeap for any sizes of pages, heap and requests.            *)
(*                                                                         *)
(* A call on a sound heap replaces what lies between two addresses at which *)
(* blocks, holes or the end of the heap begin, and nothing else; Replace    *)
(* says what it has to put there for the heap to stay sound.  Sound heaps   *)
(* are what makes the regions of KernelAllocator lie apart.                 *)
(***************************************************************************)
EXTENDS KHeap, SequenceTheorems, WellFoundedInduction, TLAPS

USE DEF Header, Footer
-----------------------------------------------------------------------------
(* Sizes of the heap are below the half of what 32 bits can address.        *)
LEMMA WordSizes ==
  /\ Words \in Nat /\ PageSize <= MaxSize /\ MaxSize < Words
  /\ \A n \in 0 .. MaxSize : Unsigned(n) = n
  /\ \A n \in -MaxSize .. MaxSize : Signed(n) = n
<1> DEFINE half == Words \div 2
<1> USE PagesAssumption, LimitsAssumption
<1>1. Words \in Nat /\ MaxSize < half
  BY WordsAssumption
<1>2. half \in Nat /\ 2 * half <= Words
  BY <1>1
<1> HIDE DEF half
<1>3. PageSize <= MaxSize /\ MaxSize < Words
  BY <1>1, <1>2
<1>4. \A n \in 0 .. MaxSize : n % Words = n
  BY <1>1, <1>3
<1>5. \A n \in -MaxSize .. MaxSize : Signed(n) = n
  <2> SUFFICES ASSUME NEW n \in -MaxSize .. MaxSize PROVE Signed(n) = n
    OBVIOUS
  <2> DEFINE u == n % Words
  <2>1. Signed(n) = IF u < half THEN u ELSE u - Words
    BY DEF Signed, Unsigned, half
  <2>2. n \in Int /\ -MaxSize <= n /\ n <= MaxSize /\ MaxSize \in Nat
    OBVIOUS
  <2>3. CASE n >= 0
    <3>1. u = n
      BY <1>4, <2>2, <2>3
    <3> HIDE DEF u
    <3> QED
      BY <1>1, <1>2, <2>1, <2>2, <3>1
  <2>4. CASE n < 0
    <3>1. u = n + Words
      BY <1>1, <1>3, <2>2, <2>4
    <3> HIDE DEF u
    <3> QED
      BY <1>1, <1>2, <2>1, <2>2, <3>1
  <2> QED
    BY <2>2, <2>3, <2>4
<1> QED
  BY <1>1, <1>3, <1>4, <1>5 DEF Unsigned

LEMMA UnsignedInt == ASSUME NEW n \in Int PROVE Unsigned(n) \in Int
<1>1. Words \in Nat /\ Words > 0
  BY WordSizes, PagesAssumption, LimitsAssumption
<1> QED
  BY <1>1 DEF Unsigned
-----------------------------------------------------------------------------
(* What is read after a write.                                              *)
LEMMA ReadStore ==
  ASSUME NEW m, NEW a, NEW ws, NEW x
  PROVE  /\ x \in a .. a + Len(ws) - 1 => Read(Store(m, a, ws), x) = ws[x - a + 1]
         /\ x \notin a .. a + Len(ws) - 1 => Read(Store(m, a, ws), x) = Read(m, x)
<1> DEFINE put == a .. a + Len(ws) - 1
           new == DOMAIN m \cup put
           s == [y \in new |-> IF y \in put THEN ws[y - a + 1] ELSE m[y]]
<1>1. Store(m, a, ws) = s
  BY Zenon DEF Store
<1>2. DOMAIN s = new /\ (x \in new => s[x] = IF x \in put THEN ws[x - a + 1] ELSE m[x])
  BY Zenon
<1>3. x \in new <=> x \in DOMAIN m \/ x \in put
  BY Zenon
<1> HIDE DEF s, new, put
<1>4. (x \in put => Read(s, x) = ws[x - a + 1]) /\ (x \notin put => Read(s, x) = Read(m, x))
  BY <1>2, <1>3, Zenon DEF Read
<1> QED
  BY <1>1, <1>4, Zenon DEF put

LEMMA ReadHeader ==
  ASSUME NEW m, NEW h \in Int, NEW hole, NEW n, NEW x \in Int
  PROVE  Read(SetHeader(m, h, hole, n), x)
           = IF x = h THEN HEAP_MAGIC ELSE IF x = h + 1 THEN hole
             ELSE IF x = h + 2 THEN Unsigned(n) ELSE Read(m, x)
<1> DEFINE u == Unsigned(n)
           ws == <<HEAP_MAGIC, hole, u>>
<1> HIDE DEF u
<1>1. Len(ws) = 3 /\ ws[1] = HEAP_MAGIC /\ ws[2] = hole /\ ws[3] = u
  OBVIOUS
<1> HIDE DEF ws
<1>2. /\ x \in h .. h + Len(ws) - 1 => Read(Store(m, h, ws), x) = ws[x - h + 1]
      /\ x \notin h .. h + Len(ws) - 1 => Read(Store(m, h, ws), x) = Read(m, x)
  BY ReadStore
<1>3. x \in h .. h + Len(ws) - 1 <=> x = h \/ x = h + 1 \/ x = h + 2
  BY <1>1
<1>4. (x = h => x - h + 1 = 1) /\ (x = h + 1 => x - h + 1 = 2) /\ (x = h + 2 => x - h + 1 = 3)
  OBVIOUS
<1>5. SetHeader(m, h, hole, n) = Store(m, h, ws)
  BY Zenon DEF SetHeader, ws, u
<1> QED
  BY <1>1, <1>2, <1>3, <1>4, <1>5, Zenon DEF u

LEMMA ReadFooter ==
  ASSUME NEW m, NEW f \in Int, NEW h, NEW x \in Int
  PROVE  Read(SetFooter(m, f, h), x)
           = IF x = f THEN HEAP_MAGIC ELSE IF x = f + 1 THEN h ELSE Read(m, x)
<1> DEFINE ws == <<HEAP_MAGIC, h>>
<1>1. Len(ws) = 2 /\ ws[1] = HEAP_MAGIC /\ ws[2] = h
  OBVIOUS
<1> HIDE DEF ws
<1>2. /\ x \in f .. f + Len(ws) - 1 => Read(Store(m, f, ws), x) = ws[x - f + 1]
      /\ x \notin f .. f + Len(ws) - 1 => Read(Store(m, f, ws), x) = Read(m, x)
  BY ReadStore
<1>3. x \in f .. f + Len(ws) - 1 <=> x = f \/ x = f + 1
  BY <1>1
<1>4. (x = f => x - f + 1 = 1) /\ (x = f + 1 => x - f + 1 = 2)
  OBVIOUS
<1>5. SetFooter(m, f, h) = Store(m, f, ws)
  BY Zenon DEF SetFooter, ws
<1> QED
  BY <1>1, <1>2, <1>3, <1>4, <1>5, Zenon

LEMMA ReadWord ==
  ASSUME NEW m, NEW a \in Int, NEW v, NEW x \in Int
  PROVE  Read(Store(m, a, <<v>>), x) = IF x = a THEN v ELSE Read(m, x)
<1> DEFINE ws == <<v>>
<1>1. Len(ws) = 1 /\ ws[1] = v
  OBVIOUS
<1> HIDE DEF ws
<1>2. /\ x \in a .. a + Len(ws) - 1 => Read(Store(m, a, ws), x) = ws[x - a + 1]
      /\ x \notin a .. a + Len(ws) - 1 => Read(Store(m, a, ws), x) = Read(m, x)
  BY ReadStore
<1>3. x \in a .. a + Len(ws) - 1 <=> x = a
  BY <1>1
<1>4. x = a => x - a + 1 = 1
  OBVIOUS
<1> QED
  BY <1>1, <1>2, <1>3, <1>4, Zenon DEF ws

LEMMA ReadSize ==
  ASSUME NEW m, NEW h \in Int, NEW n, NEW x \in Int
  PROVE  Read(SetSize(m, h, n), x) = IF x = h + 2 THEN Unsigned(n) ELSE Read(m, x)
<1> DEFINE u == Unsigned(n)
<1>1. SetSize(m, h, n) = Store(m, h + 2, <<u>>)
  BY Zenon DEF SetSize
<1>2. h + 2 \in Int
  OBVIOUS
<1> HIDE DEF u
<1>3. Read(Store(m, h + 2, <<u>>), x) = IF x = h + 2 THEN u ELSE Read(m, x)
  BY <1>2, ReadWord
<1> QED
  BY <1>1, <1>3, Zenon DEF u

LEMMA ReadClear ==
  ASSUME NEW m, NEW a, NEW b, NEW x
  PROVE  Read(Clear(m, a, b), x) = IF x \in a .. b THEN 0 ELSE Read(m, x)
<1> DEFINE left == DOMAIN m \ (a .. b)
           s == [y \in left |-> m[y]]
<1>1. DOMAIN s = left /\ (x \in left => s[x] = m[x])
  OBVIOUS
<1>2. x \in left <=> x \in DOMAIN m /\ x \notin a .. b
  OBVIOUS
<1>3. Clear(m, a, b) = s
  BY Zenon DEF Clear
<1> HIDE DEF s, left
<1> QED
  BY <1>1, <1>2, <1>3, Zenon DEF Read
-----------------------------------------------------------------------------
(* Memory holds words, and only at numbers of words from some address on.   *)
Memory(m, S) == DOMAIN m \subseteq S /\ \A x \in DOMAIN m : m[x] \in Int

LEMMA ReadMemory ==
  ASSUME NEW m, NEW S, Memory(m, S), NEW x
  PROVE  Read(m, x) \in Int
BY DEF Memory, Read

LEMMA StoreMemory ==
  ASSUME NEW m, NEW S, Memory(m, S), NEW a \in Int, NEW ws \in Seq(Int),
         a .. a + Len(ws) - 1 \subseteq S
  PROVE  Memory(Store(m, a, ws), S)
<1> DEFINE new == DOMAIN m \cup a .. a + Len(ws) - 1
           s == [x \in new |-> IF x \in a .. a + Len(ws) - 1 THEN ws[x - a + 1] ELSE m[x]]
<1>1. s = Store(m, a, ws)
  BY Zenon DEF Store
<1>2. new \subseteq S
  BY DEF Memory
<1>3. ASSUME NEW x \in new PROVE s[x] \in Int
  <2>1. CASE x \in a .. a + Len(ws) - 1
    <3>1. x - a + 1 \in 1 .. Len(ws)
      BY <2>1
    <3> QED
      BY <2>1, <3>1
  <2>2. CASE x \notin a .. a + Len(ws) - 1
    BY <2>2 DEF Memory
  <2> QED
    BY <2>1, <2>2
<1>4. DOMAIN s = new
  OBVIOUS
<1> QED
  BY <1>1, <1>2, <1>3, <1>4 DEF Memory

LEMMA HeaderMemory ==
  ASSUME NEW m, NEW S, Memory(m, S), NEW h \in Int, NEW hole \in Int, NEW n \in Int,
         {h, h + 1, h + 2} \subseteq S
  PROVE  Memory(SetHeader(m, h, hole, n), S)
<1> DEFINE u == Unsigned(n)
           ws == <<HEAP_MAGIC, hole, u>>
<1>1. u \in Int
  BY UnsignedInt
<1> HIDE DEF u
<1>2. ws \in Seq(Int) /\ Len(ws) = 3
  BY <1>1 DEF HEAP_MAGIC
<1> HIDE DEF ws
<1>3. h .. h + Len(ws) - 1 \subseteq S
  BY <1>2
<1>4. Memory(Store(m, h, ws), S)
  BY <1>2, <1>3, StoreMemory
<1> QED
  BY <1>4, Zenon DEF SetHeader, ws, u

LEMMA FooterMemory ==
  ASSUME NEW m, NEW S, Memory(m, S), NEW f \in Int, NEW h \in Int, {f, f + 1} \subseteq S
  PROVE  Memory(SetFooter(m, f, h), S)
<1> DEFINE ws == <<HEAP_MAGIC, h>>
<1>1. ws \in Seq(Int) /\ Len(ws) = 2
  BY DEF HEAP_MAGIC
<1> HIDE DEF ws
<1>2. f .. f + Len(ws) - 1 \subseteq S
  BY <1>1
<1>3. Memory(Store(m, f, ws), S)
  BY <1>1, <1>2, StoreMemory
<1> QED
  BY <1>3, Zenon DEF SetFooter, ws

LEMMA WordMemory ==
  ASSUME NEW m, NEW S, Memory(m, S), NEW a \in Int, NEW v \in Int, a \in S
  PROVE  Memory(Store(m, a, <<v>>), S)
<1>1. <<v>> \in Seq(Int) /\ Len(<<v>>) = 1
  OBVIOUS
<1>2. a .. a + Len(<<v>>) - 1 \subseteq S
  BY <1>1
<1> QED
  BY <1>1, <1>2, StoreMemory

LEMMA SizeMemory ==
  ASSUME NEW m, NEW S, Memory(m, S), NEW h \in Int, NEW n \in Int, h + 2 \in S
  PROVE  Memory(SetSize(m, h, n), S)
<1>1. Unsigned(n) \in Int
  BY UnsignedInt
<1>2. h + 2 \in Int
  OBVIOUS
<1>3. \A v \in Int : Memory(Store(m, h + 2, <<v>>), S)
  BY <1>2, WordMemory
<1> QED
  BY <1>1, <1>3 DEF SetSize

LEMMA ClearMemory ==
  ASSUME NEW m, NEW S, Memory(m, S), NEW a, NEW b
  PROVE  Memory(Clear(m, a, b), S)
BY DEF Memory, Clear
-----------------------------------------------------------------------------
(* The index as a set: every hole once.                                     *)
Distinct(s) == \A i, j \in 1 .. Len(s) : s[i] = s[j] => i = j

LEMMA RangeOf ==
  ASSUME NEW s \in Seq(Int), NEW x
  PROVE  x \in Range(s) <=> \E i \in 1 .. Len(s) : s[i] = x
<1>1. DOMAIN s = 1 .. Len(s)
  OBVIOUS
<1> QED
  BY <1>1 DEF Range

LEMMA LeastElement ==
  ASSUME NEW T \in SUBSET Nat, T # {}
  PROVE  \E i \in T : \A k \in T : ~(k < i)
<1> DEFINE R == {ss \in Nat \X Nat : ss[1] < ss[2]}
<1>1. IsWellFoundedOn(OpToRel(<, Nat), Nat)
  BY NatLessThanWellFounded, Zenon
<1>2. R = OpToRel(<, Nat)
  BY Zenon DEF OpToRel
<1>3. IsWellFoundedOn(R, Nat)
  BY <1>1, <1>2, Zenon
<1> HIDE DEF R
<1>4. \E i \in T : \A k \in T : ~(<<k, i>> \in R)
  BY <1>3, WFMin, Zenon
<1> QED
  BY <1>4 DEF R

LEMMA LeastOf ==
  ASSUME NEW n \in Nat, NEW S \in SUBSET (1 .. n), S # {}
  PROVE  Least(S) \in S /\ \A j \in S : Least(S) <= j
<1>1. S \in SUBSET Nat
  OBVIOUS
<1>2. PICK i \in S : \A k \in S : ~(k < i)
  BY <1>1, LeastElement
<1>3. \A k \in S : i <= k
  BY <1>1, <1>2
<1> QED
  BY <1>3, Zenon DEF Least

LEMMA GreatestOf ==
  ASSUME NEW n \in Nat, NEW S \in SUBSET (0 .. n), S # {}
  PROVE  \E i \in S : \A j \in S : j <= i
<1> DEFINE T == {n - i : i \in S}
<1>1. T \in SUBSET Nat
  OBVIOUS
<1>2. T # {}
  <2>1. PICK i \in S : TRUE
    OBVIOUS
  <2>2. n - i \in T
    OBVIOUS
  <2> QED
    BY <2>2
<1>3. PICK t \in T : \A k \in T : ~(k < t)
  BY <1>1, <1>2, LeastElement
<1>4. PICK i \in S : t = n - i
  OBVIOUS
<1>5. ASSUME NEW j \in S PROVE j <= i
  <2>1. n - j \in T
    OBVIOUS
  <2>2. ~(n - j < n - i)
    BY <1>3, <1>4, <2>1
  <2>3. i \in 0 .. n /\ j \in 0 .. n
    OBVIOUS
  <2> QED
    BY <2>2, <2>3
<1> QED
  BY <1>5

IsJoined(a, b, p, q, t) ==
  /\ t \in Seq(Int) /\ Len(t) = p + q
  /\ \A i \in 1 .. p : t[i] = a[i]
  /\ \A i \in p + 1 .. p + q : t[i] = b[i - p] /\ i - p \in 1 .. q

LEMMA Joined ==
  ASSUME NEW a \in Seq(Int), NEW b \in Seq(Int), NEW p \in Nat, NEW q \in Nat,
         Len(a) = p, Len(b) = q
  PROVE  IsJoined(a, b, p, q, a \o b)
<1> DEFINE t == a \o b
<1>1. /\ t \in Seq(Int) /\ Len(t) = Len(a) + Len(b)
      /\ \A i \in 1 .. Len(a) + Len(b) : t[i] = IF i <= Len(a) THEN a[i] ELSE b[i - Len(a)]
  BY ConcatProperties
<1> HIDE DEF t
<1>2. ASSUME NEW i \in 1 .. p PROVE t[i] = a[i]
  BY <1>1
<1>3. ASSUME NEW i \in p + 1 .. p + q PROVE t[i] = b[i - p] /\ i - p \in 1 .. q
  BY <1>1
<1>4. IsJoined(a, b, p, q, t)
  BY <1>1, <1>2, <1>3 DEF IsJoined
<1> QED
  BY <1>4 DEF t

(* What insert does wherever it finds the place.                            *)
Inserted(s, h, k, t) ==
  /\ t \in Seq(Int) /\ Len(t) = Len(s) + 1
  /\ \A i \in 1 .. Len(s) + 1 :
       t[i] = IF i <= k THEN s[i] ELSE IF i = k + 1 THEN h ELSE s[i - 1]

LEMMA InsertedAt ==
  ASSUME NEW s \in Seq(Int), NEW h \in Int, NEW k \in 0 .. Len(s)
  PROVE  Inserted(s, h, k, SubSeq(s, 1, k) \o <<h>> \o SubSeq(s, k + 1, Len(s)))
<1> DEFINE a == SubSeq(s, 1, k)
           b == SubSeq(s, k + 1, Len(s))
           n == Len(s)
<1>0. n \in Nat /\ k \in Nat /\ k <= n
  OBVIOUS
<1>1. a \in Seq(Int) /\ Len(a) = k /\ \A i \in 1 .. k : a[i] = s[i]
  OBVIOUS
<1>2. b \in Seq(Int) /\ Len(b) = n - k /\ \A i \in 1 .. n - k : b[i] = s[k + i]
  OBVIOUS
<1>3. <<h>> \in Seq(Int) /\ Len(<<h>>) = 1 /\ <<h>>[1] = h
  OBVIOUS
<1> HIDE DEF a, b
<1> DEFINE c == a \o <<h>>
           t == c \o b
<1> DEFINE q == n - k
<1>q. q \in Nat /\ k + 1 \in Nat /\ n + 1 = (k + 1) + q
  BY <1>0
<1> HIDE DEF q
<1>4. /\ c \in Seq(Int) /\ Len(c) = k + 1 /\ \A i \in 1 .. k : c[i] = s[i]
      /\ c[k + 1] = h
  <2>1. /\ c \in Seq(Int) /\ Len(c) = k + 1 /\ \A i \in 1 .. k : c[i] = a[i]
        /\ \A i \in k + 1 .. k + 1 : c[i] = <<h>>[i - k] /\ i - k \in 1 .. 1
    <3>1. IsJoined(a, <<h>>, k, 1, c)
      BY <1>0, <1>1, <1>3, Joined
    <3> QED
      BY <3>1, Zenon DEF IsJoined
  <2>2. k + 1 \in k + 1 .. k + 1 /\ (k + 1) - k = 1
    BY <1>0
  <2>3. c[k + 1] = <<h>>[1]
    BY <2>1, <2>2
  <2> QED
    BY <1>1, <1>3, <2>1, <2>3
<1> HIDE DEF c
<1>5. /\ t \in Seq(Int) /\ Len(t) = (k + 1) + q /\ \A i \in 1 .. k + 1 : t[i] = c[i]
      /\ \A i \in (k + 1) + 1 .. (k + 1) + q : t[i] = b[i - (k + 1)] /\ i - (k + 1) \in 1 .. q
  <2>1. b \in Seq(Int) /\ Len(b) = q /\ c \in Seq(Int) /\ Len(c) = k + 1
    BY <1>2, <1>4 DEF q
  <2>2. k + 1 \in Nat /\ q \in Nat
    BY <1>q
  <2>3. IsJoined(c, b, k + 1, q, t)
    BY <2>1, <2>2, Joined
  <2> QED
    BY <2>3, Zenon DEF IsJoined
<1> HIDE DEF t
<1>6. ASSUME NEW i \in 1 .. n + 1
      PROVE  t[i] = IF i <= k THEN s[i] ELSE IF i = k + 1 THEN h ELSE s[i - 1]
  <2>1. CASE i <= k + 1
    <3>1. t[i] = c[i]
      BY <1>0, <1>5, <2>1
    <3> QED
      BY <1>0, <1>4, <2>1, <3>1
  <2>2. CASE i > k + 1
    <3>1. t[i] = b[i - (k + 1)] /\ i - (k + 1) \in 1 .. n - k
      BY <1>0, <1>5, <1>q, <2>2 DEF q
    <3>2. b[i - (k + 1)] = s[k + (i - (k + 1))]
      BY <1>2, <3>1
    <3>3. k + (i - (k + 1)) = i - 1 /\ ~(i <= k) /\ i # k + 1
      BY <1>0, <2>2
    <3> QED
      BY <3>1, <3>2, <3>3
  <2> QED
    BY <1>0, <2>1, <2>2
<1> HIDE DEF n
<1>7. Inserted(s, h, k, t)
  BY <1>5, <1>6, <1>q, Zenon DEF Inserted, n
<1> QED
  BY <1>7, Zenon DEF a, b, c, t

LEMMA InsertFinds ==
  ASSUME NEW m, NEW s \in Seq(Int), NEW h
  PROVE  \E k \in 0 .. Len(s) : insert(m, s, h) = SubSeq(s, 1, k) \o <<h>> \o SubSeq(s, k + 1, Len(s))
<1> DEFINE smaller(k) == \A i \in 1 .. k : size(m, s[i]) < size(m, h)
           n == Len(s)
           ok(k) == smaller(k) /\ (k < n => ~smaller(k + 1))
           T == {k \in 0 .. n : ~smaller(k)}
<1>0. n \in Nat
  OBVIOUS
<1>1. \E k \in 0 .. n : ok(k)
  <2>1. CASE T = {}
    <3>1. n \in 0 .. n /\ ~(n < n)
      BY <1>0
    <3>2. smaller(n)
      BY <2>1, <3>1, Zenon
    <3> QED
      BY <3>1, <3>2, Zenon
  <2>2. CASE T # {}
    <3>1. T \in SUBSET Nat
      BY <1>0
    <3> HIDE DEF T
    <3>2. PICK j \in T : \A k \in T : ~(k < j)
      BY <2>2, <3>1, LeastElement
    <3> USE DEF T
    <3>3. smaller(0)
      OBVIOUS
    <3> HIDE DEF smaller
    <3>4. j \in 1 .. n
      BY <1>0, <3>3
    <3>5. j - 1 \in 0 .. n /\ j - 1 < j /\ (j - 1) + 1 = j
      BY <1>0, <3>4
    <3>6. smaller(j - 1)
      BY <3>2, <3>5
    <3>7. ~smaller((j - 1) + 1)
      BY <3>5
    <3> QED
      BY <3>5, <3>6, <3>7, Zenon
  <2> QED
    BY <2>1, <2>2
<1> DEFINE c == CHOOSE k \in 0 .. n : ok(k)
<1>2. c \in 0 .. n
  <2> HIDE DEF ok, n
  <2> QED
    BY <1>1, Zenon
<1>3. insert(m, s, h) = SubSeq(s, 1, c) \o <<h>> \o SubSeq(s, c + 1, n)
  BY Zenon DEF insert
<1> HIDE DEF c
<1> QED
  BY <1>2, <1>3, Zenon

LEMMA InsertFacts ==
  ASSUME NEW m, NEW s \in Seq(Int), NEW h \in Int
  PROVE  /\ insert(m, s, h) \in Seq(Int) /\ Range(insert(m, s, h)) = Range(s) \cup {h}
         /\ Distinct(s) /\ h \notin Range(s) => Distinct(insert(m, s, h))
<1> DEFINE n == Len(s)
           t == insert(m, s, h)
<1>0. n \in Nat
  OBVIOUS
<1>1. PICK k \in 0 .. n : t = SubSeq(s, 1, k) \o <<h>> \o SubSeq(s, k + 1, n)
  BY InsertFinds, Zenon
<1> HIDE DEF t
<1>2. /\ t \in Seq(Int) /\ Len(t) = n + 1
      /\ \A i \in 1 .. n + 1 : t[i] = IF i <= k THEN s[i] ELSE IF i = k + 1 THEN h ELSE s[i - 1]
  <2>1. Inserted(s, h, k, t)
    BY <1>1, InsertedAt, Zenon
  <2> QED
    BY <2>1, Zenon DEF Inserted
<1>3. ASSUME NEW x \in Range(t) PROVE x \in Range(s) \cup {h}
  <2>1. PICK i \in 1 .. n + 1 : t[i] = x
    BY <1>2, RangeOf
  <2>2. x = h \/ (i \in 1 .. n /\ x = s[i]) \/ (i - 1 \in 1 .. n /\ x = s[i - 1])
    BY <1>0, <1>2, <2>1, SMTT(30)
  <2> QED
    BY <2>2, RangeOf
<1>4. ASSUME NEW x \in Range(s) PROVE x \in Range(t)
  <2>1. PICK i \in 1 .. n : s[i] = x
    BY RangeOf
  <2>2. CASE i <= k
    <3>1. i \in 1 .. n + 1 /\ t[i] = x
      BY <1>0, <1>2, <2>1, <2>2, SMTT(30)
    <3> QED
      BY <1>2, <3>1, RangeOf
  <2>3. CASE i > k
    <3>1. i + 1 \in 1 .. n + 1 /\ t[i + 1] = x
      BY <1>0, <1>2, <2>1, <2>3, SMTT(30)
    <3> QED
      BY <1>2, <3>1, RangeOf
  <2> QED
    BY <1>0, <2>2, <2>3
<1>5. h \in Range(t)
  <2>1. k + 1 \in 1 .. n + 1 /\ t[k + 1] = h
    BY <1>0, <1>2
  <2> QED
    BY <1>2, <2>1, RangeOf
<1>6. ASSUME Distinct(s), h \notin Range(s) PROVE Distinct(t)
  <2> SUFFICES ASSUME NEW i \in 1 .. n + 1, NEW j \in 1 .. n + 1, t[i] = t[j] PROVE i = j
    BY <1>2, Zenon DEF Distinct
  <2> DEFINE old(l) == IF l <= k THEN l ELSE l - 1
  <2>1. ASSUME NEW l \in 1 .. n + 1, l # k + 1 PROVE old(l) \in 1 .. n /\ t[l] = s[old(l)]
    <3>1. t[l] = IF l <= k THEN s[l] ELSE IF l = k + 1 THEN h ELSE s[l - 1]
      BY <1>2
    <3>2. CASE l <= k
      BY <1>0, <3>1, <3>2
    <3>3. CASE ~(l <= k)
      BY <1>0, <2>1, <3>1, <3>3
    <3> QED
      BY <3>2, <3>3
  <2>2. \A l \in 1 .. n + 1 : l # k + 1 => t[l] # h
    BY <1>6, <2>1, RangeOf
  <2>3. t[k + 1] = h /\ k + 1 \in 1 .. n + 1
    BY <1>0, <1>2
  <2>4. CASE i = k + 1 \/ j = k + 1
    BY <2>2, <2>3, <2>4
  <2>5. CASE i # k + 1 /\ j # k + 1
    <3>1. s[old(i)] = s[old(j)] /\ old(i) \in 1 .. n /\ old(j) \in 1 .. n
      BY <2>1, <2>5
    <3>2. old(i) = old(j)
      BY <1>6, <3>1 DEF Distinct
    <3> QED
      BY <1>0, <2>5, <3>2
  <2> QED
    BY <2>4, <2>5
<1> QED
  BY <1>2, <1>3, <1>4, <1>5, <1>6, Zenon DEF t

(* The index when the hole h is put into it, or was in it.                  *)
LEMMA IndexAfter ==
  ASSUME NEW rest \in Seq(Int), Distinct(rest), NEW h \in Int, NEW left \in BOOLEAN,
         left <=> h \in Range(rest), NEW m, NEW ix, ix = IF left THEN rest ELSE insert(m, rest, h)
  PROVE  ix \in Seq(Int) /\ Distinct(ix) /\ Range(ix) = Range(rest) \cup {h}
<1>1. CASE left
  BY <1>1
<1>2. CASE ~left
  <2>1. /\ insert(m, rest, h) \in Seq(Int) /\ Range(insert(m, rest, h)) = Range(rest) \cup {h}
        /\ Distinct(rest) /\ h \notin Range(rest) => Distinct(insert(m, rest, h))
    BY InsertFacts
  <2>2. ix = insert(m, rest, h) /\ h \notin Range(rest)
    BY <1>2
  <2> QED
    BY <2>1, <2>2
<1> QED
  BY <1>1, <1>2

LEMMA RemoveFacts ==
  ASSUME NEW s \in Seq(Int), NEW k \in 1 .. Len(s)
  PROVE  /\ RemoveAt(s, k) \in Seq(Int) /\ Range(RemoveAt(s, k)) \subseteq Range(s)
         /\ Distinct(s) => /\ Distinct(RemoveAt(s, k))
                           /\ Range(RemoveAt(s, k)) = Range(s) \ {s[k]}
<1> DEFINE n == Len(s)
           a == SubSeq(s, 1, k - 1)
           b == SubSeq(s, k + 1, n)
           t == a \o b
<1>0. n \in Nat /\ k \in 1 .. n
  OBVIOUS
<1>1. a \in Seq(Int) /\ Len(a) = k - 1 /\ \A i \in 1 .. k - 1 : a[i] = s[i]
  BY <1>0
<1>2. b \in Seq(Int) /\ Len(b) = n - k /\ \A i \in 1 .. n - k : b[i] = s[k + i]
  BY <1>0
<1>3. RemoveAt(s, k) = t
  BY Zenon DEF RemoveAt
<1> HIDE DEF a, b
<1> DEFINE p == k - 1
           q == n - k
<1>q. p \in Nat /\ q \in Nat /\ p + q = n - 1 /\ k = p + 1 /\ n = p + q + 1
  BY <1>0
<1>a. Len(a) = p /\ Len(b) = q
  BY <1>1, <1>2
<1> HIDE DEF p, q
<1>c. /\ t \in Seq(Int) /\ Len(t) = p + q /\ \A i \in 1 .. p : t[i] = a[i]
      /\ \A i \in p + 1 .. p + q : t[i] = b[i - p] /\ i - p \in 1 .. q
  <2>1. a \in Seq(Int) /\ b \in Seq(Int)
    BY <1>1, <1>2
  <2>2. p \in Nat /\ q \in Nat
    BY <1>q
  <2>3. IsJoined(a, b, p, q, t)
    BY <1>a, <2>1, <2>2, Joined
  <2> HIDE DEF t
  <2> QED
    BY <2>3, Zenon DEF IsJoined
<1> HIDE DEF t
<1>4. t \in Seq(Int) /\ Len(t) = n - 1
  BY <1>q, <1>c
<1>5. \A i \in 1 .. n - 1 : t[i] = IF i < k THEN s[i] ELSE s[i + 1]
  <2> SUFFICES ASSUME NEW i \in 1 .. n - 1 PROVE t[i] = IF i < k THEN s[i] ELSE s[i + 1]
    OBVIOUS
  <2>1. CASE i < k
    <3>1. i \in 1 .. p /\ i \in 1 .. k - 1
      BY <1>0, <1>q, <2>1
    <3> QED
      BY <1>1, <1>c, <2>1, <3>1
  <2>2. CASE i >= k
    <3>1. i \in p + 1 .. p + q /\ ~(i < k) /\ k + (i - p) = i + 1
      BY <1>0, <1>q, <2>2
    <3>2. t[i] = b[i - p] /\ i - p \in 1 .. n - k
      BY <1>c, <3>1 DEF q
    <3>3. b[i - p] = s[i + 1]
      BY <1>2, <3>1, <3>2
    <3> QED
      BY <3>1, <3>2, <3>3
  <2>3. i < k \/ i >= k
    BY <1>0
  <2> QED
    BY <2>1, <2>2, <2>3
<1> DEFINE old(l) == IF l < k THEN l ELSE l + 1
<1>6. \A i \in 1 .. n - 1 : old(i) \in 1 .. n /\ old(i) # k /\ t[i] = s[old(i)]
  BY <1>0, <1>5, SMTT(30)
<1>7. ASSUME NEW x \in Range(t) PROVE \E l \in 1 .. n : l # k /\ s[l] = x
  <2>1. PICK i \in 1 .. n - 1 : t[i] = x
    BY <1>4, RangeOf
  <2> QED
    BY <1>6, <2>1
<1>8. ASSUME NEW l \in 1 .. n, l # k PROVE s[l] \in Range(t)
  <2> DEFINE i == IF l < k THEN l ELSE l - 1
  <2>1. i \in 1 .. n - 1 /\ old(i) = l
    BY <1>0, <1>8
  <2>2. t[i] = s[l]
    BY <1>6, <2>1
  <2> QED
    BY <1>4, <2>1, <2>2, RangeOf
<1>9. Range(t) \subseteq Range(s)
  BY <1>7, RangeOf
<1>10. ASSUME Distinct(s) PROVE Distinct(t) /\ Range(t) = Range(s) \ {s[k]}
  <2>1. ASSUME NEW i \in 1 .. n - 1, NEW j \in 1 .. n - 1, t[i] = t[j] PROVE i = j
    <3>1. s[old(i)] = s[old(j)] /\ old(i) \in 1 .. n /\ old(j) \in 1 .. n
      BY <1>6, <2>1
    <3>2. old(i) = old(j)
      BY <1>10, <3>1 DEF Distinct
    <3> QED
      BY <1>0, <3>2
  <2>2. ASSUME NEW x \in Range(t) PROVE x \in Range(s) /\ x # s[k]
    BY <1>7, <1>9, <1>10 DEF Distinct
  <2>3. ASSUME NEW x \in Range(s), x # s[k] PROVE x \in Range(t)
    BY <1>8, <2>3, RangeOf
  <2>4. Distinct(t)
    BY <1>4, <2>1 DEF Distinct
  <2> QED
    BY <2>2, <2>3, <2>4
<1> QED
  BY <1>3, <1>4, <1>9, <1>10
-----------------------------------------------------------------------------
(* Blocks and holes as tiles of the heap.                                   *)

(* At h is a block or a hole of n words, and what memory says of it.        *)
Tile(m, h, n, hole) ==
  /\ Read(m, h) = HEAP_MAGIC /\ Read(m, h + 2) = n
  /\ Read(m, h + 1) # 0 <=> hole
  /\ Read(m, h + n - 2) = HEAP_MAGIC => Read(m, h + n - 1) = h
  /\ ~hole => Read(m, h + n - 2) = HEAP_MAGIC

(* The blocks and holes at N lie side by side from a to c.                  *)
Tiles(m, N, a, c) ==
  /\ a \in N /\ N \subseteq Nat
  /\ \A h \in N : /\ a <= h /\ size(m, h) \in Nat /\ size(m, h) >= Header + Footer
                  /\ h + size(m, h) \in N \cup {c} /\ h + size(m, h) <= c
                  /\ \A g \in N : g < h => g + size(m, g) <= h

(* Sound, of memory, blocks, holes and the end of the heap.                 *)
Good(m, B, H, e) ==
  /\ e \in 0 .. MaxSize /\ B \cap H = {} /\ Tiles(m, B \cup H, 0, e)
  /\ \A h \in B \cup H : Tile(m, h, size(m, h), h \in H)

(* No tile begins inside another one.                                       *)
LEMMA Apart ==
  ASSUME NEW m, NEW T, NEW e \in Nat, Tiles(m, T, 0, e), NEW g \in T, NEW h \in T
  PROVE  /\ g \in Nat /\ h \in Nat /\ size(m, h) \in Nat /\ size(m, h) >= 5 /\ h + size(m, h) <= e
         /\ h + size(m, h) \in T \cup {e}
         /\ g < h \/ g = h \/ h + size(m, h) <= g
BY DEF Tiles

(* Tiles between a and b are replaced by others up to c.                    *)
LEMMA Splice ==
  ASSUME NEW m, NEW m2, NEW T, NEW e \in Nat, Tiles(m, T, 0, e),
         NEW a \in T \cup {e}, NEW b \in T \cup {e}, a <= b,
         NEW N, NEW c \in Nat, NEW e2 \in Nat, Tiles(m2, N, a, c),
         (c = b /\ e2 = e) \/ (b = e /\ e2 = c),
         \A g \in T \ (a .. b - 1) : size(m2, g) = size(m, g)
  PROVE  Tiles(m2, (T \ (a .. b - 1)) \cup N, 0, e2)
<1> DEFINE old == T \ (a .. b - 1)
           new == old \cup N
<1>1. a \in Nat /\ b \in Nat /\ a <= e /\ b <= e /\ T \subseteq Nat /\ N \subseteq Nat /\ a \in N
  BY DEF Tiles
<1>2. \A h \in N : /\ h \in Nat /\ a <= h /\ size(m2, h) \in Nat /\ size(m2, h) >= 5
                   /\ h + size(m2, h) \in N \cup {c} /\ h + size(m2, h) <= c
                   /\ \A g \in N : g < h => g + size(m2, g) <= h
  BY DEF Tiles
<1>3. \A h \in T : /\ h \in Nat /\ size(m, h) \in Nat /\ size(m, h) >= 5
                   /\ h + size(m, h) \in T \cup {e} /\ h + size(m, h) <= e
                   /\ \A g \in T : g < h => g + size(m, g) <= h
  BY DEF Tiles
<1>4. ASSUME NEW h \in old PROVE
        /\ h \in T /\ h \in Nat /\ size(m2, h) = size(m, h)
        /\ size(m2, h) \in Nat /\ size(m2, h) >= 5
        /\ h < a => h + size(m2, h) <= a
        /\ ~(h < a) => b <= h /\ c = b /\ e2 = e
  <2>1. h \in T /\ h \in Nat /\ size(m2, h) = size(m, h) /\ (h < a \/ b <= h)
    BY <1>1
  <2>2. h < a => h + size(m, h) <= a
    BY <1>1, <1>3, <2>1
  <2>3. ~(h < a) => b # e
    BY <1>1, <1>3, <2>1
  <2> QED
    BY <1>3, <2>1, <2>2, <2>3
<1>5. a + 5 <= c /\ c <= e2
  BY <1>1, <1>2
<1>6. 0 \in new
  <2>1. 0 \in T
    BY DEF Tiles
  <2>2. CASE 0 \in a .. b - 1
    BY <1>1, <2>2
  <2> QED
    BY <2>1, <2>2
<1>7. ASSUME NEW h \in old
      PROVE  /\ h \in Nat /\ size(m2, h) \in Nat /\ size(m2, h) >= 5
             /\ h + size(m2, h) \in new \cup {e2} /\ h + size(m2, h) <= e2
             /\ \A g \in new : g < h => g + size(m2, g) <= h
  <2> DEFINE n == h + size(m2, h)
  <2>1. n \in T \cup {e} /\ n <= e /\ n \in Nat /\ n > h
    BY <1>3, <1>4
  <2>2. n \in new \cup {e2} /\ n <= e2
    <3>1. CASE h < a
      <4>1. n <= a
        BY <1>4, <3>1
      <4>2. CASE n = a
        BY <1>1, <1>5, <4>2
      <4>3. CASE n < a
        <5>1. n \in T /\ n \notin a .. b - 1
          BY <1>1, <2>1, <4>3
        <5>2. n \in old
          BY <5>1
        <5>3. n <= e2
          BY <1>1, <1>5, <2>1, <4>3
        <5> HIDE DEF n, old
        <5> QED
          BY <5>2, <5>3
      <4> HIDE DEF n
      <4> QED
        BY <1>1, <2>1, <4>1, <4>2, <4>3
    <3>2. CASE ~(h < a)
      <4>1. b <= h /\ e2 = e
        BY <1>4, <3>2
      <4>2. n \notin a .. b - 1
        BY <1>1, <1>4, <2>1, <4>1
      <4> QED
        BY <2>1, <4>1, <4>2
    <3> QED
      BY <3>1, <3>2
  <2>3. ASSUME NEW g \in new, g < h PROVE g + size(m2, g) <= h
    <3>1. CASE g \in old
      BY <1>3, <1>4, <2>3, <3>1
    <3>2. CASE g \in N
      <4>1. g \in Nat /\ a <= g /\ g + size(m2, g) <= c
        BY <1>2, <3>2
      <4>2. ~(h < a)
        BY <1>1, <1>4, <2>3, <4>1
      <4>3. c = b /\ b <= h
        BY <1>4, <4>2
      <4>4. size(m2, g) \in Nat
        BY <1>2, <3>2
      <4> QED
        BY <1>1, <1>4, <4>1, <4>3, <4>4
    <3> QED
      BY <3>1, <3>2
  <2> QED
    BY <1>4, <2>2, <2>3
<1>8. ASSUME NEW h \in N
      PROVE  /\ h \in Nat /\ size(m2, h) \in Nat /\ size(m2, h) >= 5
             /\ h + size(m2, h) \in new \cup {e2} /\ h + size(m2, h) <= e2
             /\ \A g \in new : g < h => g + size(m2, g) <= h
  <2> DEFINE n == h + size(m2, h)
  <2>1. /\ h \in Nat /\ a <= h /\ size(m2, h) \in Nat /\ size(m2, h) >= 5
        /\ n \in N \cup {c} /\ n <= c
    BY <1>2
  <2>2. n <= e2
    BY <1>5, <2>1
  <2>3. c \in new \cup {e2}
    <3>1. CASE c = b /\ e2 = e
      <4>1. b \in T \cup {e} /\ b \notin a .. b - 1
        BY <1>1
      <4> QED
        BY <3>1, <4>1
    <3>2. CASE e2 = c
      BY <3>2
    <3> QED
      BY <3>1, <3>2
  <2>4. ASSUME NEW g \in new, g < h PROVE g + size(m2, g) <= h
    <3>1. CASE g \in N
      BY <1>2, <2>4, <3>1
    <3>2. CASE g \in old
      <4>1. g < a
        <5>1. CASE ~(g < a)
          <6>1. b <= g /\ c = b /\ g \in Nat
            BY <1>4, <3>2, <5>1
          <6> QED
            BY <1>1, <2>1, <2>4, <6>1
        <5> QED
          BY <5>1
      <4>2. g + size(m2, g) <= a /\ g \in Nat /\ size(m2, g) \in Nat
        BY <1>4, <3>2, <4>1
      <4> QED
        BY <1>1, <2>1, <4>2
    <3> QED
      BY <3>1, <3>2
  <2>5. n \in new \cup {e2}
    <3> HIDE DEF n, old
    <3> QED
      BY <2>1, <2>3
  <2> QED
    BY <2>1, <2>2, <2>4, <2>5
<1>9. new \subseteq Nat
  BY <1>1
<1> HIDE DEF old
<1> QED
  BY <1>6, <1>7, <1>8, <1>9 DEF Tiles

(* What is not written stays what it is.                                    *)
LEMMA SameTile ==
  ASSUME NEW m, NEW m2, NEW h \in Nat, NEW n \in Nat, n >= 5, NEW hole, Tile(m, h, n, hole),
         \A x \in h .. h + n - 1 : Read(m2, x) = Read(m, x)
  PROVE  Tile(m2, h, n, hole)
<1>1. /\ h \in h .. h + n - 1 /\ h + 1 \in h .. h + n - 1 /\ h + 2 \in h .. h + n - 1
      /\ h + n - 2 \in h .. h + n - 1 /\ h + n - 1 \in h .. h + n - 1
  OBVIOUS
<1> QED
  BY <1>1, Zenon DEF Tile

(* Blocks at NB and holes at NH side by side.                               *)
Piece(m, NB, NH, a, c) ==
  /\ NB \cap NH = {} /\ Tiles(m, NB \cup NH, a, c)
  /\ \A h \in NB \cup NH : Tile(m, h, size(m, h), h \in NH)

Ends(b, e, c, e2) == (c = b /\ e2 = e) \/ (b = e /\ e2 = c)
Kept(m, m2, a, b, e) == \A x \in Nat : x < a \/ (b <= x /\ x < e) => Read(m2, x) = Read(m, x)
Replaced(m, m2, B, H, a, b, NB, NH, e2) ==
  /\ Good(m2, (B \ (a .. b - 1)) \cup NB, (H \ (a .. b - 1)) \cup NH, e2)
  /\ \A g \in (B \cup H) \ (a .. b - 1) : size(m2, g) = size(m, g)

LEMMA Replace ==
  ASSUME NEW m, NEW m2, NEW B, NEW H, NEW e, Good(m, B, H, e),
         NEW a \in B \cup H \cup {e}, NEW b \in B \cup H \cup {e}, a <= b,
         NEW NB, NEW NH, NEW c \in Nat, NEW e2 \in 0 .. MaxSize, Piece(m2, NB, NH, a, c),
         Ends(b, e, c, e2), Kept(m, m2, a, b, e)
  PROVE  Replaced(m, m2, B, H, a, b, NB, NH, e2)
<1>0. /\ NB \cap NH = {} /\ Tiles(m2, NB \cup NH, a, c)
      /\ \A h \in NB \cup NH : Tile(m2, h, size(m2, h), h \in NH)
      /\ (c = b /\ e2 = e) \/ (b = e /\ e2 = c)
      /\ \A x \in Nat : x < a \/ (b <= x /\ x < e) => Read(m2, x) = Read(m, x)
  BY Zenon DEF Piece, Ends, Kept
<1> DEFINE T == B \cup H
           gone == a .. b - 1
           B2 == (B \ gone) \cup NB
           H2 == (H \ gone) \cup NH
<1>1. MaxSize \in Nat /\ e \in Nat /\ e2 \in Nat /\ Tiles(m, T, 0, e) /\ B \cap H = {}
  BY LimitsAssumption DEF Good
<1>2. T \subseteq Nat /\ a \in Nat /\ b \in Nat /\ a <= e /\ b <= e
  <2>1. \A h \in T : h \in Nat /\ size(m, h) \in Nat /\ h + size(m, h) <= e
    BY <1>1, Zenon DEF Tiles
  <2> QED
    BY <1>1, <2>1
<1>3. ASSUME NEW g \in T \ gone
      PROVE  /\ g \in Nat /\ size(m, g) \in Nat /\ size(m, g) >= 5
             /\ \A x \in g .. g + size(m, g) - 1 : Read(m2, x) = Read(m, x)
             /\ ~(g < a) => c = b
             /\ g < a \/ b <= g
  <2>1. g \in T /\ g \in Nat /\ (g < a \/ b <= g)
    BY <1>2
  <2>2. /\ size(m, g) \in Nat /\ size(m, g) >= 5 /\ g + size(m, g) <= e
        /\ g < a => g + size(m, g) <= a
    BY <1>1, <1>2, <2>1 DEF Tiles
  <2>3. ASSUME NEW x \in g .. g + size(m, g) - 1 PROVE x \in Nat /\ (x < a \/ (b <= x /\ x < e))
    BY <1>1, <1>2, <2>1, <2>2
  <2>4. ~(g < a) => b # e
    BY <1>1, <1>2, <2>1, <2>2
  <2> QED
    BY <1>0, <2>1, <2>2, <2>3, <2>4
<1>4. ASSUME NEW g \in T \ gone PROVE size(m2, g) = size(m, g)
  <2>1. g + 2 \in g .. g + size(m, g) - 1
    BY <1>3
  <2>2. Read(m2, g + 2) = Read(m, g + 2)
    BY <1>3, <2>1
  <2> QED
    BY <2>2 DEF size
<1>5. \A h \in NB \cup NH : h \in Nat /\ a <= h /\ h < c
  BY <1>0 DEF Tiles
<1>6. Tiles(m2, (T \ gone) \cup (NB \cup NH), 0, e2)
  BY <1>0, <1>1, <1>4, Splice
<1>7. B2 \cup H2 = (T \ gone) \cup (NB \cup NH)
  OBVIOUS
<1>8. \A g \in T \ gone : g \notin NB \cup NH
  <2> SUFFICES ASSUME NEW g \in T \ gone, g \in NB \cup NH PROVE FALSE
    OBVIOUS
  <2>1. g \in Nat /\ a <= g /\ g < c
    BY <1>5
  <2>2. ~(g < a) /\ c = b /\ b <= g
    BY <1>2, <1>3, <2>1
  <2> QED
    BY <1>2, <2>1, <2>2
<1>9. B2 \cap H2 = {}
  BY <1>0, <1>1, <1>8
<1>10. ASSUME NEW h \in B2 \cup H2 PROVE Tile(m2, h, size(m2, h), h \in H2)
  <2>1. CASE h \in T \ gone
    <3>1. h \in H2 <=> h \in H
      BY <1>8, <2>1
    <3>2. Tile(m, h, size(m, h), h \in H)
      BY <2>1 DEF Good
    <3>3. Tile(m2, h, size(m, h), h \in H)
      BY <1>3, <2>1, <3>2, SameTile
    <3> QED
      BY <1>4, <2>1, <3>1, <3>3
  <2>2. CASE h \in NB \cup NH
    <3>1. h \in H2 <=> h \in NH
      BY <1>8, <2>2
    <3> QED
      BY <1>0, <2>2, <3>1
  <2> QED
    BY <2>1, <2>2
<1> HIDE DEF gone, T
<1>11. Tiles(m2, B2 \cup H2, 0, e2)
  BY <1>6, <1>7, Zenon
<1> HIDE DEF B2, H2
<1>12. Good(m2, B2, H2, e2)
  BY <1>9, <1>10, <1>11, Zenon DEF Good
<1> QED
  BY <1>4, <1>12, Zenon DEF B2, H2, gone, T, Replaced
-----------------------------------------------------------------------------
(* Sound states are good ones with an index that has every hole once.       *)
SoundTiles(m, B, H, e) ==
  /\ B \cap H = {} /\ 0 \in B \cup H
  /\ \A h \in B \cup H :
       /\ IsMagic(m, h) /\ (IsHole(m, h) <=> h \in H)
       /\ size(m, h) >= Header + Footer
       /\ IsMagic(m, FooterOf(m, h)) => Read(m, FooterOf(m, h) + 1) = h
       /\ h + size(m, h) \in B \cup H \cup {e}
       /\ \A g \in B \cup H : g < h => g + size(m, g) <= h
  /\ \A h \in B : IsMagic(m, FooterOf(m, h))

LEMMA GoodIsSound ==
  ASSUME NEW m, NEW B, NEW H, NEW e, Good(m, B, H, e)
  PROVE  SoundTiles(m, B, H, e)
<1> DEFINE T == B \cup H
<1>1. e \in Nat /\ e <= MaxSize /\ MaxSize \in Nat /\ Tiles(m, T, 0, e) /\ B \cap H = {}
  BY LimitsAssumption DEF Good
<1>2. 0 \in T
  BY <1>1, Zenon DEF Tiles
<1>3. \A h \in T : /\ h \in Nat /\ size(m, h) \in Nat /\ size(m, h) >= Header + Footer
                   /\ h + size(m, h) \in T \cup {e} /\ h + size(m, h) <= e
                   /\ \A g \in T : g < h => g + size(m, g) <= h
  BY <1>1, Zenon DEF Tiles
<1>4. \A h \in T : Tile(m, h, size(m, h), h \in H)
  BY Zenon DEF Good
<1>5. ASSUME NEW h \in T PROVE FooterOf(m, h) = h + size(m, h) - 2
  <2>1. size(m, h) \in -MaxSize .. MaxSize
    BY <1>1, <1>3
  <2>2. Signed(size(m, h)) = size(m, h)
    BY <2>1, WordSizes
  <2> QED
    BY <2>2 DEF FooterOf
<1>6. ASSUME NEW h \in T
      PROVE  /\ IsMagic(m, h) /\ (IsHole(m, h) <=> h \in H)
             /\ IsMagic(m, FooterOf(m, h)) => Read(m, FooterOf(m, h) + 1) = h
             /\ h \in B => IsMagic(m, FooterOf(m, h))
  <2> DEFINE f == h + size(m, h) - 2
  <2>1. /\ Read(m, h) = HEAP_MAGIC /\ (Read(m, h + 1) # 0 <=> h \in H)
        /\ Read(m, f) = HEAP_MAGIC => Read(m, h + size(m, h) - 1) = h
        /\ h \notin H => Read(m, f) = HEAP_MAGIC
    BY <1>4, Zenon DEF Tile
  <2>2. h + size(m, h) - 1 = f + 1
    BY <1>3
  <2>3. FooterOf(m, h) = f
    BY <1>5
  <2>4. h \in B => h \notin H
    BY <1>1
  <2> HIDE DEF f
  <2> QED
    BY <2>1, <2>2, <2>3, <2>4, Zenon DEF IsMagic, IsHole
<1> QED
  BY <1>1, <1>2, <1>3, <1>6 DEF SoundTiles

LEMMA SoundIsGood ==
  ASSUME NEW m, NEW B, NEW H, NEW e, SoundTiles(m, B, H, e), Memory(m, Nat),
         B \cup H \subseteq 0 .. Words, e \in 0 .. MaxSize
  PROVE  Good(m, B, H, e)
<1> DEFINE T == B \cup H
<1>1. /\ B \cap H = {} /\ 0 \in T /\ T \subseteq 0 .. Words /\ Words \in Nat
      /\ \A h \in T : size(m, h) \in Int
  BY ReadMemory, WordSizes DEF SoundTiles, size
<1>2. \A h \in T : /\ size(m, h) >= Header + Footer /\ h + size(m, h) \in T \cup {e}
                   /\ \A g \in T : g < h => g + size(m, g) <= h
  BY Zenon DEF SoundTiles
<1>3. PICK top \in T : \A h \in T : h <= top
  BY <1>1, GreatestOf
<1>4. top + size(m, top) = e /\ size(m, top) >= 5
  <2>1. ~(top + size(m, top) <= top)
    BY <1>1, <1>2
  <2>2. top + size(m, top) \notin T
    BY <1>3, <2>1
  <2> QED
    BY <1>2, <2>2
<1>5. ASSUME NEW h \in T PROVE h \in Nat /\ size(m, h) \in Nat /\ h + size(m, h) <= e
  <2>1. h \in Nat /\ top \in Nat /\ size(m, h) \in Int /\ size(m, h) >= 5 /\ size(m, top) \in Int
    BY <1>1, <1>2
  <2>2. h = top \/ h < top
    BY <1>3, <2>1
  <2>3. h < top => h + size(m, h) <= top
    BY <1>2
  <2> QED
    BY <1>4, <2>1, <2>2, <2>3
<1>6. Tiles(m, T, 0, e)
  BY <1>1, <1>2, <1>5 DEF Tiles
<1>7. ASSUME NEW h \in T PROVE Tile(m, h, size(m, h), h \in H)
  <2> DEFINE f == h + size(m, h) - 2
  <2>1. size(m, h) \in -MaxSize .. MaxSize /\ h + size(m, h) - 1 = f + 1
    BY <1>5, LimitsAssumption
  <2>2. FooterOf(m, h) = f
    <3>1. Signed(size(m, h)) = size(m, h)
      BY <2>1, WordSizes
    <3> QED
      BY <3>1 DEF FooterOf
  <2>3. /\ IsMagic(m, h) /\ (IsHole(m, h) <=> h \in H)
        /\ IsMagic(m, FooterOf(m, h)) => Read(m, FooterOf(m, h) + 1) = h
        /\ h \in B => IsMagic(m, FooterOf(m, h))
    BY Zenon DEF SoundTiles
  <2>4. h \notin H => h \in B
    OBVIOUS
  <2> HIDE DEF f
  <2>5. /\ Read(m, h) = HEAP_MAGIC /\ (Read(m, h + 1) # 0 <=> h \in H)
        /\ Read(m, f) = HEAP_MAGIC => Read(m, h + size(m, h) - 1) = h
        /\ h \notin H => Read(m, f) = HEAP_MAGIC
    BY <2>1, <2>2, <2>3, <2>4, Zenon DEF IsMagic, IsHole
  <2> QED
    BY <2>5, Zenon DEF Tile, f, size
<1> QED
  BY <1>1, <1>6, <1>7 DEF Good

Held == \A u \in used : size(mem, u.ptr - Header) >= u.len + Header + Footer

Typed == TypeOK /\ DOMAIN mem \subseteq Nat /\ Blocks \cup Holes \subseteq 0 .. end

LEMMA SoundParts ==
  Sound <=> Typed /\ Distinct(index) /\ SoundTiles(mem, Blocks, Holes, end) /\ Held
BY Zenon DEF Sound, Typed, Distinct, SoundTiles, Held

LEMMA SoundPartsPrime ==
  Sound' <=> Typed' /\ Distinct(index') /\ SoundTiles(mem', Blocks', Holes', end') /\ Held'
BY Zenon DEF Sound, Typed, Distinct, SoundTiles, Held
-----------------------------------------------------------------------------
(* Writing a block or a hole.                                               *)
SetTile(m, h, hole, n) == SetFooter(SetHeader(m, h, hole, n), h + n - Footer, h)
Resize(m, h, n) == SetFooter(SetSize(m, h, n), h + n - Footer, h)

(* Memory m2 is m but for what lies from a on and before c.                 *)
Between(m, m2, a, c) == \A x \in Int : x < a \/ c <= x => Read(m2, x) = Read(m, x)

LEMMA SetTileFacts ==
  ASSUME NEW m, NEW h \in Nat, NEW hole, NEW n \in 5 .. MaxSize
  PROVE  /\ Tile(SetTile(m, h, hole, n), h, n, hole # 0) /\ size(SetTile(m, h, hole, n), h) = n
         /\ Between(m, SetTile(m, h, hole, n), h, h + n)
<1> DEFINE u == Unsigned(n)
           f == h + n - Footer
           m1 == SetHeader(m, h, hole, n)
           m2 == SetFooter(m1, f, h)
<1>1. u = n /\ n \in Nat /\ n >= 5 /\ f \in Int /\ f = h + n - 2
  BY WordSizes, LimitsAssumption
<1> HIDE DEF u
<1>2. \A x \in Int : Read(m1, x) = IF x = h THEN HEAP_MAGIC ELSE IF x = h + 1 THEN hole
                                   ELSE IF x = h + 2 THEN u ELSE Read(m, x)
  BY ReadHeader DEF u
<1> HIDE DEF m1, f
<1>3. \A x \in Int : Read(m2, x) = IF x = f THEN HEAP_MAGIC ELSE IF x = f + 1 THEN h ELSE Read(m1, x)
  BY <1>1, ReadFooter
<1>4. m2 = SetTile(m, h, hole, n)
  BY Zenon DEF SetTile, m1, f
<1> HIDE DEF m2
<1>5. /\ Read(m2, h) = HEAP_MAGIC /\ Read(m2, h + 1) = hole /\ Read(m2, h + 2) = n
      /\ Read(m2, h + n - 2) = HEAP_MAGIC /\ Read(m2, h + n - 1) = h
  BY <1>1, <1>2, <1>3
<1>6. Tile(m2, h, n, hole # 0) /\ size(m2, h) = n
  BY <1>5, Zenon DEF Tile, size
<1>7. Between(m, m2, h, h + n)
  BY <1>1, <1>2, <1>3 DEF Between
<1> QED
  BY <1>4, <1>6, <1>7

LEMMA ResizeFacts ==
  ASSUME NEW m, NEW h \in Nat, NEW n \in 5 .. MaxSize, Read(m, h) = HEAP_MAGIC, Read(m, h + 1) # 0
  PROVE  /\ Tile(Resize(m, h, n), h, n, TRUE) /\ size(Resize(m, h, n), h) = n
         /\ Between(m, Resize(m, h, n), h, h + n)
<1> DEFINE u == Unsigned(n)
           f == h + n - Footer
           m1 == SetSize(m, h, n)
           m2 == SetFooter(m1, f, h)
<1>1. u = n /\ n \in Nat /\ n >= 5 /\ f \in Int /\ f = h + n - 2
  BY WordSizes, LimitsAssumption
<1> HIDE DEF u
<1>2. \A x \in Int : Read(m1, x) = IF x = h + 2 THEN u ELSE Read(m, x)
  BY ReadSize DEF u
<1> HIDE DEF m1, f
<1>3. \A x \in Int : Read(m2, x) = IF x = f THEN HEAP_MAGIC ELSE IF x = f + 1 THEN h ELSE Read(m1, x)
  BY <1>1, ReadFooter
<1>4. m2 = Resize(m, h, n)
  BY Zenon DEF Resize, m1, f
<1> HIDE DEF m2
<1>5. /\ Read(m2, h) = HEAP_MAGIC /\ Read(m2, h + 1) # 0 /\ Read(m2, h + 2) = n
      /\ Read(m2, h + n - 2) = HEAP_MAGIC /\ Read(m2, h + n - 1) = h
  BY <1>1, <1>2, <1>3
<1>6. Tile(m2, h, n, TRUE) /\ size(m2, h) = n
  BY <1>5, Zenon DEF Tile, size
<1>7. Between(m, m2, h, h + n)
  BY <1>1, <1>2, <1>3 DEF Between
<1> QED
  BY <1>4, <1>6, <1>7

LEMMA OneTile ==
  ASSUME NEW m, NEW h \in Nat, NEW n \in Nat, size(m, h) = n, n >= 5
  PROVE  Tiles(m, {h}, h, h + n)
BY DEF Tiles

LEMMA OneMoreTile ==
  ASSUME NEW m, NEW N, NEW a \in Nat, NEW p \in Nat, Tiles(m, N, a, p),
         NEW n \in Nat, size(m, p) = n, n >= 5
  PROVE  Tiles(m, N \cup {p}, a, p + n)
<1>1. \A h \in N : /\ h \in Nat /\ a <= h /\ size(m, h) \in Nat /\ size(m, h) >= 5
                   /\ h + size(m, h) \in N \cup {p} /\ h + size(m, h) <= p
                   /\ \A g \in N : g < h => g + size(m, g) <= h
  BY DEF Tiles
<1>2. a \in N /\ a <= p
  BY <1>1 DEF Tiles
<1>3. \A h \in N : h < p
  BY <1>1
<1> DEFINE M == N \cup {p}
<1>4. ASSUME NEW h \in M
      PROVE  /\ h \in Nat /\ a <= h /\ size(m, h) \in Nat /\ size(m, h) >= Header + Footer
             /\ h + size(m, h) \in M \cup {p + n} /\ h + size(m, h) <= p + n
             /\ \A g \in M : g < h => g + size(m, g) <= h
  <2>1. CASE h = p
    BY <1>1, <1>2, <2>1
  <2>2. CASE h \in N
    BY <1>1, <1>3, <2>2
  <2> QED
    BY <2>1, <2>2
<1>5. a \in M /\ M \subseteq Nat
  BY <1>1, <1>2
<1> HIDE DEF M
<1>6. Tiles(m, M, a, p + n)
  BY <1>4, <1>5 DEF Tiles
<1> QED
  BY <1>6 DEF M

(* A second tile written behind a first one, which it leaves alone.         *)
LEMMA NextTile ==
  ASSUME NEW m, NEW m2, NEW N, NEW a \in Nat, NEW p \in Nat, Tiles(m, N, a, p),
         NEW H, \A h \in N : Tile(m, h, size(m, h), h \in H),
         NEW c \in Nat, Between(m, m2, p, c)
  PROVE  /\ Tiles(m2, N, a, p) /\ \A h \in N : Tile(m2, h, size(m2, h), h \in H)
         /\ \A h \in N : size(m2, h) = size(m, h)
<1>1. \A h \in N : /\ h \in Nat /\ a <= h /\ size(m, h) \in Nat /\ size(m, h) >= 5
                   /\ h + size(m, h) \in N \cup {p} /\ h + size(m, h) <= p
                   /\ \A g \in N : g < h => g + size(m, g) <= h
  BY DEF Tiles
<1>2. ASSUME NEW h \in N
      PROVE  Tile(m2, h, size(m, h), h \in H) /\ size(m2, h) = size(m, h)
  <2>1. ASSUME NEW x \in h .. h + size(m, h) - 1 PROVE Read(m2, x) = Read(m, x)
    <3>1. x \in Int /\ x < p
      BY <1>1
    <3> QED
      BY <3>1 DEF Between
  <2>2. h + 2 \in h .. h + size(m, h) - 1
    BY <1>1
  <2>3. size(m2, h) = size(m, h)
    BY <2>1, <2>2 DEF size
  <2>4. Tile(m2, h, size(m, h), h \in H)
    BY <1>1, <2>1, SameTile
  <2> QED
    BY <2>3, <2>4
<1>3. Tiles(m2, N, a, p)
  BY <1>2 DEF Tiles
<1> QED
  BY <1>2, <1>3
-----------------------------------------------------------------------------
LEMMA BetweenBoth ==
  ASSUME NEW m, NEW m1, NEW m2, NEW a \in Int, NEW b \in Int, NEW c \in Int, a <= b, b <= c,
         Between(m, m1, a, b), Between(m1, m2, b, c)
  PROVE  Between(m, m2, a, c)
BY DEF Between

LEMMA FirstBlock ==
  ASSUME NEW m, NEW p \in Nat, NEW n \in 5 .. MaxSize
  PROVE  /\ Piece(SetTile(m, p, 0, n), {p}, {}, p, p + n) /\ size(SetTile(m, p, 0, n), p) = n
         /\ Between(m, SetTile(m, p, 0, n), p, p + n)
<1> DEFINE m2 == SetTile(m, p, 0, n)
<1>1. Tile(m2, p, n, 0 # 0) /\ size(m2, p) = n /\ Between(m, m2, p, p + n)
  BY SetTileFacts
<1> HIDE DEF m2
<1>2. n \in Nat /\ n >= 5
  BY LimitsAssumption
<1>3. Tiles(m2, {p}, p, p + n)
  BY <1>1, <1>2, OneTile
<1>4. (0 # 0) <=> p \in {}
  OBVIOUS
<1>5. Tile(m2, p, size(m2, p), p \in {})
  BY <1>1, <1>4, Zenon DEF Tile
<1>6. Piece(m2, {p}, {}, p, p + n)
  BY <1>3, <1>5 DEF Piece
<1> QED
  BY <1>1, <1>6 DEF m2

LEMMA FirstHole ==
  ASSUME NEW m, NEW p \in Nat, NEW n \in 5 .. MaxSize
  PROVE  /\ Piece(SetTile(m, p, 1, n), {}, {p}, p, p + n) /\ size(SetTile(m, p, 1, n), p) = n
         /\ Between(m, SetTile(m, p, 1, n), p, p + n)
<1> DEFINE m2 == SetTile(m, p, 1, n)
<1>1. Tile(m2, p, n, 1 # 0) /\ size(m2, p) = n /\ Between(m, m2, p, p + n)
  BY SetTileFacts
<1> HIDE DEF m2
<1>2. n \in Nat /\ n >= 5
  BY LimitsAssumption
<1>3. Tiles(m2, {p}, p, p + n)
  BY <1>1, <1>2, OneTile
<1>4. (1 # 0) <=> p \in {p}
  OBVIOUS
<1>5. Tile(m2, p, size(m2, p), p \in {p})
  BY <1>1, <1>4, Zenon DEF Tile
<1>6. Piece(m2, {}, {p}, p, p + n)
  BY <1>3, <1>5 DEF Piece
<1> QED
  BY <1>1, <1>6 DEF m2

(* Another one behind a piece.                                              *)
Extends(m, m2, NB, NH, MB, MH, a, p, n) ==
  /\ Piece(m2, MB, MH, a, p + n) /\ size(m2, p) = n
  /\ \A h \in NB \cup NH : size(m2, h) = size(m, h)
  /\ Between(m, m2, p, p + n) /\ a < p

LEMMA NextPiece ==
  ASSUME NEW m, NEW NB, NEW NH, NEW a \in Nat, NEW p \in Nat, Piece(m, NB, NH, a, p),
         NEW n \in 5 .. MaxSize, NEW hole \in {0, 1}, NEW MB, NEW MH,
         (hole = 0 /\ MB = NB \cup {p} /\ MH = NH) \/ (hole = 1 /\ MB = NB /\ MH = NH \cup {p})
  PROVE  Extends(m, SetTile(m, p, hole, n), NB, NH, MB, MH, a, p, n)
<1> DEFINE m2 == SetTile(m, p, hole, n)
           N == NB \cup NH
<1>1. Tile(m2, p, n, hole # 0) /\ size(m2, p) = n /\ Between(m, m2, p, p + n)
  BY SetTileFacts
<1> HIDE DEF m2
<1>2. n \in Nat /\ n >= 5 /\ p + n \in Nat
  BY LimitsAssumption
<1>3. NB \cap NH = {} /\ Tiles(m, N, a, p) /\ \A h \in N : Tile(m, h, size(m, h), h \in NH)
  BY Zenon DEF Piece
<1>4. /\ Tiles(m2, N, a, p) /\ \A h \in N : Tile(m2, h, size(m2, h), h \in NH)
      /\ \A h \in N : size(m2, h) = size(m, h)
  BY <1>1, <1>2, <1>3, NextTile
<1>5. Tiles(m2, N \cup {p}, a, p + n)
  BY <1>1, <1>2, <1>4, OneMoreTile
<1>6. a \in N /\ \A h \in N : h < p /\ h # p
  <2>1. a \in N /\ \A h \in N : h \in Nat /\ size(m, h) \in Nat /\ size(m, h) >= 5 /\ h + size(m, h) <= p
    BY <1>3 DEF Tiles
  <2> QED
    BY <2>1
<1>7. MB \cup MH = N \cup {p} /\ MB \cap MH = {}
  BY <1>3, <1>6
<1>8. (hole # 0 <=> p \in MH) /\ \A h \in N : h \in MH <=> h \in NH
  BY <1>6
<1>9. Tile(m2, p, size(m2, p), p \in MH)
  BY <1>1, <1>8, Zenon DEF Tile
<1>10. \A h \in N : Tile(m2, h, size(m2, h), h \in MH)
  BY <1>4, <1>8
<1> HIDE DEF N
<1>11. Piece(m2, MB, MH, a, p + n)
  BY <1>5, <1>7, <1>9, <1>10 DEF Piece
<1> QED
  BY <1>1, <1>4, <1>6, <1>11 DEF m2, N, Extends

LEMMA NextBlock ==
  ASSUME NEW m, NEW NB, NEW NH, NEW a \in Nat, NEW p \in Nat, Piece(m, NB, NH, a, p),
         NEW n \in 5 .. MaxSize, NEW MB, MB = NB \cup {p}
  PROVE  Extends(m, SetTile(m, p, 0, n), NB, NH, MB, NH, a, p, n)
<1>1. 0 \in {0, 1}
  OBVIOUS
<1> QED
  BY <1>1, NextPiece

LEMMA NextHole ==
  ASSUME NEW m, NEW NB, NEW NH, NEW a \in Nat, NEW p \in Nat, Piece(m, NB, NH, a, p),
         NEW n \in 5 .. MaxSize, NEW MH, MH = NH \cup {p}
  PROVE  Extends(m, SetTile(m, p, 1, n), NB, NH, NB, MH, a, p, n)
<1>1. 1 \in {0, 1}
  OBVIOUS
<1> QED
  BY <1>1, NextPiece

(* A hole is cut into pieces.                                               *)
Cut(m, m2, B, H, e, h, NB, NH) ==
  /\ Good(m2, B \cup NB, (H \ {h}) \cup NH, e)
  /\ \A g \in B : size(m2, g) = size(m, g)
  /\ \A x \in NB \cup NH : x \notin (B \cup H) \ {h}

LEMMA CutHole ==
  ASSUME NEW m, NEW m2, NEW B, NEW H, NEW e, Good(m, B, H, e), NEW h \in H,
         NEW NB, NEW NH, Piece(m2, NB, NH, h, h + size(m, h)),
         Between(m, m2, h, h + size(m, h))
  PROVE  Cut(m, m2, B, H, e, h, NB, NH)
<1> DEFINE T == B \cup H
           b == h + size(m, h)
           gone == h .. b - 1
<1>1. e \in Nat /\ e \in 0 .. MaxSize /\ Tiles(m, T, 0, e) /\ B \cap H = {}
  BY LimitsAssumption DEF Good
<1>2. h \in T
  OBVIOUS
<1>3. h \in Nat /\ size(m, h) \in Nat /\ size(m, h) >= 5 /\ b \in T \cup {e} /\ b \in Nat /\ h <= b
  BY <1>1, <1>2, Apart
<1>4. \A g \in T : g \in Nat /\ (g \in gone <=> g = h)
  <2> SUFFICES ASSUME NEW g \in T PROVE g \in Nat /\ (g \in gone <=> g = h)
    OBVIOUS
  <2>1. g \in Nat /\ (g < h \/ g = h \/ b <= g)
    BY <1>1, <1>2, Apart
  <2> QED
    BY <1>3, <2>1
<1>5. B \ gone = B /\ H \ gone = H \ {h}
  BY <1>1, <1>4
<1>6. \A x \in NB \cup NH : x \in Nat /\ h <= x /\ x < b
  <2>1. \A x \in NB \cup NH : x \in Nat /\ h <= x /\ size(m2, x) \in Nat /\ size(m2, x) >= 5 /\ x + size(m2, x) <= b
    BY DEF Piece, Tiles
  <2> HIDE DEF b
  <2> QED
    BY <1>3, <2>1
<1> HIDE DEF b
<1>7. Piece(m2, NB, NH, h, b)
  BY Zenon DEF b
<1>8. Kept(m, m2, h, b, e) /\ Ends(b, e, b, e)
  BY DEF Between, b, Kept, Ends
<1>9. h \in B \cup H \cup {e} /\ b \in B \cup H \cup {e}
  BY <1>2, <1>3
<1>10. Replaced(m, m2, B, H, h, b, NB, NH, e)
  BY <1>1, <1>3, <1>7, <1>8, <1>9, Replace
<1>11. \A g \in B : g \in (B \cup H) \ gone
  BY <1>5
<1>12. \A x \in NB \cup NH : x \in gone
  BY <1>3, <1>6
<1>13. \A x \in NB \cup NH : x \notin T \ {h}
  BY <1>4, <1>12
<1> HIDE DEF gone
<1> QED
  BY <1>5, <1>10, <1>11, <1>13, Zenon DEF gone, Cut, Replaced

(* What alloc stores for a block that need not be aligned.                  *)
Took(m, m2, B, B2, H2, e, at, n) ==
  /\ Good(m2, B2, H2, e) /\ size(m2, at) = n
  /\ \A g \in B : size(m2, g) = size(m, g)

TookPart(m, m2, B, H, B2, H2, e, at, n, hole) ==
  Took(m, m2, B, B2, H2, e, at, n) /\ hole \notin B \cup H

LEMMA TakeAll ==
  ASSUME NEW m, NEW B, NEW H, NEW e, Good(m, B, H, e), NEW h \in H,
         NEW n \in 5 .. MaxSize, n = size(m, h), NEW m2, m2 = SetTile(m, h, 0, n)
  PROVE  Took(m, m2, B, B \cup {h}, H \ {h}, e, h, n)
<1>1. h \in Nat
  BY DEF Good, Tiles
<1>2. Piece(m2, {h}, {}, h, h + n) /\ size(m2, h) = n /\ Between(m, m2, h, h + n)
  BY <1>1, FirstBlock
<1>3. Cut(m, m2, B, H, e, h, {h}, {})
  BY <1>2, CutHole
<1>4. (H \ {h}) \cup {} = H \ {h}
  OBVIOUS
<1> QED
  BY <1>2, <1>3, <1>4 DEF Cut, Took

LEMMA TakePart ==
  ASSUME NEW m, NEW B, NEW H, NEW e, Good(m, B, H, e), NEW h \in H,
         NEW n \in 5 .. MaxSize, NEW r \in 5 .. MaxSize, n + r = size(m, h),
         NEW p, p = h + n,
         NEW m1, m1 = SetTile(m, h, 0, n), NEW m2, m2 = SetTile(m1, p, 1, r)
  PROVE  TookPart(m, m2, B, H, B \cup {h}, (H \ {h}) \cup {p}, e, h, n, p)
<1>1. h \in Nat /\ n \in Nat /\ r \in Nat /\ n >= 5
  BY LimitsAssumption DEF Good, Tiles
<1>2. Piece(m1, {h}, {}, h, p) /\ size(m1, h) = n /\ Between(m, m1, h, p)
  BY <1>1, FirstBlock
<1>3. p \in Nat /\ p + r = h + size(m, h) /\ p # h /\ h <= p /\ p <= p + r
  BY <1>1
<1>4. {} \cup {p} = {p} /\ 1 \in {0, 1}
  OBVIOUS
<1>5. Extends(m1, m2, {h}, {}, {h}, {p}, h, p, r)
  BY <1>1, <1>2, <1>3, <1>4, NextHole
<1>6. Between(m, m2, h, p + r)
  BY <1>1, <1>2, <1>3, <1>5, BetweenBoth DEF Extends
<1>7. Cut(m, m2, B, H, e, h, {h}, {p})
  BY <1>3, <1>5, <1>6, CutHole DEF Extends
<1>8. size(m2, h) = n /\ p \notin B \cup H
  BY <1>2, <1>3, <1>5, <1>7 DEF Extends, Cut
<1> QED
  BY <1>7, <1>8 DEF Cut, Took, TookPart

(* What alloc stores for a block that begins on a page.                     *)
LEMMA TakeAlignedAll ==
  ASSUME NEW m, NEW B, NEW H, NEW e, Good(m, B, H, e), NEW h \in H,
         NEW f \in 5 .. MaxSize, NEW n \in 5 .. MaxSize, f + n = size(m, h),
         NEW p, p = h + f,
         NEW m1, m1 = SetTile(m, h, 1, f), NEW m2, m2 = SetTile(m1, p, 0, n)
  PROVE  Took(m, m2, B, B \cup {p}, H, e, p, n)
<1>1. h \in Nat /\ n \in Nat /\ f \in Nat /\ f >= 5
  BY LimitsAssumption DEF Good, Tiles
<1>2. Piece(m1, {}, {h}, h, p) /\ size(m1, h) = f /\ Between(m, m1, h, p)
  BY <1>1, FirstHole
<1>3. p \in Nat /\ p + n = h + size(m, h) /\ h <= p /\ p <= p + n
  BY <1>1
<1>4. {} \cup {p} = {p} /\ 0 \in {0, 1}
  OBVIOUS
<1>5. Extends(m1, m2, {}, {h}, {p}, {h}, h, p, n)
  BY <1>1, <1>2, <1>3, <1>4, NextBlock
<1>6. Between(m, m2, h, p + n)
  BY <1>1, <1>2, <1>3, <1>5, BetweenBoth DEF Extends
<1>7. Cut(m, m2, B, H, e, h, {p}, {h})
  BY <1>3, <1>5, <1>6, CutHole DEF Extends
<1>8. (H \ {h}) \cup {h} = H
  OBVIOUS
<1> QED
  BY <1>5, <1>7, <1>8 DEF Extends, Cut, Took

LEMMA TakeAlignedPart ==
  ASSUME NEW m, NEW B, NEW H, NEW e, Good(m, B, H, e), NEW h \in H,
         NEW f \in 5 .. MaxSize, NEW n \in 5 .. MaxSize, NEW r \in 5 .. MaxSize,
         f + n + r = size(m, h), NEW p, p = h + f, NEW q, q = p + n,
         NEW m1, m1 = SetTile(m, h, 1, f), NEW m2, m2 = SetTile(m1, p, 0, n),
         NEW m3, m3 = SetTile(m2, q, 1, r)
  PROVE  TookPart(m, m3, B, H, B \cup {p}, H \cup {q}, e, p, n, q)
<1>1. h \in Nat /\ n \in Nat /\ f \in Nat /\ f >= 5 /\ n >= 5 /\ r \in Nat
  BY LimitsAssumption DEF Good, Tiles
<1>2. Piece(m1, {}, {h}, h, p) /\ size(m1, h) = f /\ Between(m, m1, h, p)
  BY <1>1, FirstHole
<1>3. /\ p \in Nat /\ p + n = q /\ h <= p /\ p <= q /\ q \in Nat /\ h <= q
      /\ q + r = h + size(m, h) /\ q <= q + r /\ q # h /\ p + n \in Nat
  BY <1>1
<1>4. {} \cup {p} = {p} /\ {h} \cup {q} = {h, q} /\ 0 \in {0, 1} /\ 1 \in {0, 1}
  OBVIOUS
<1>5. Extends(m1, m2, {}, {h}, {p}, {h}, h, p, n)
  BY <1>1, <1>2, <1>3, <1>4, NextBlock
<1>6. Between(m, m2, h, q)
  BY <1>1, <1>2, <1>3, <1>5, BetweenBoth DEF Extends
<1>7. Piece(m2, {p}, {h}, h, q)
  BY <1>3, <1>5 DEF Extends
<1>8. Extends(m2, m3, {p}, {h}, {p}, {h, q}, h, q, r)
  BY <1>1, <1>3, <1>4, <1>7, NextHole
<1>9. Between(m, m3, h, q + r)
  BY <1>1, <1>3, <1>6, <1>8, BetweenBoth DEF Extends
<1>10. Cut(m, m3, B, H, e, h, {p}, {h, q})
  BY <1>3, <1>8, <1>9, CutHole DEF Extends
<1>11. (H \ {h}) \cup {h, q} = H \cup {q}
  OBVIOUS
<1>12. q \notin B \cup H /\ size(m3, p) = n
  BY <1>3, <1>5, <1>8, <1>10 DEF Extends, Cut
<1> QED
  BY <1>10, <1>11, <1>12 DEF Cut, Took, TookPart
-----------------------------------------------------------------------------
(* What a sound heap is for the calls that follow: its tiles are good, and  *)
(* what is asked for fits into a word together with any size of the heap.   *)
Requests == Sizes \cup AlignedSizes

LEMMA RequestFits ==
  ASSUME NEW sz \in Requests
  PROVE  sz \in Nat /\ MaxSize + sz + 5 + PageSize < Words
<1>1. sz \in Nat /\ MaxSize + sz + Header + Footer + PageSize < Words
  BY WordsAssumption, Zenon DEF Requests
<1> QED
  BY <1>1, LimitsAssumption, PagesAssumption

LEMMA SoundFacts ==
  ASSUME Sound
  PROVE  /\ Good(mem, Blocks, Holes, end) /\ Distinct(index) /\ Held /\ Memory(mem, Nat)
         /\ index \in Seq(Int) /\ end \in MinSize .. MaxSize /\ end \in Nat
         /\ mapped \in end .. MaxSize
         /\ used \subseteq [ptr : Int, len : Requests] /\ halted \in BOOLEAN
<1>1. /\ Memory(mem, Nat) /\ Blocks \cup Holes \subseteq 0 .. Words
      /\ index \in Seq(Int) /\ end \in MinSize .. MaxSize /\ mapped \in end .. MaxSize
      /\ used \subseteq [ptr : Int, len : Requests] /\ halted \in BOOLEAN
  <2>1. TypeOK /\ DOMAIN mem \subseteq Nat /\ Blocks \cup Holes \subseteq 0 .. end
    BY SoundParts, Zenon DEF Typed
  <2>2. end \in MinSize .. MaxSize
    BY <2>1, Zenon DEF TypeOK
  <2>3. 0 .. end \subseteq 0 .. Words
    BY <2>2, WordSizes, LimitsAssumption
  <2> QED
    BY <2>1, <2>2, <2>3 DEF TypeOK, Requests, Memory
<1>2. end \in 0 .. MaxSize /\ end \in Nat
  BY <1>1, LimitsAssumption
<1>3. SoundTiles(mem, Blocks, Holes, end) /\ Distinct(index) /\ Held
  BY SoundParts, Zenon
<1> QED
  BY <1>1, <1>2, <1>3, SoundIsGood, Zenon

LEMMA SoundFactsPrime ==
  ASSUME Sound'
  PROVE  Good(mem', Blocks', Holes', end') /\ Held'
<1>1. TypeOK' /\ DOMAIN mem' \subseteq Nat /\ Blocks' \cup Holes' \subseteq 0 .. end'
  BY SoundPartsPrime, Zenon DEF Typed
<1>2. end' \in MinSize .. MaxSize /\ \A x \in DOMAIN mem' : mem'[x] \in Int
  BY <1>1, Zenon DEF TypeOK
<1>3. end' \in 0 .. MaxSize /\ 0 .. end' \subseteq 0 .. Words
  BY <1>2, WordSizes, LimitsAssumption
<1>4. Memory(mem', Nat)
  BY <1>1, <1>2 DEF Memory
<1>5. Blocks' \cup Holes' \subseteq 0 .. Words
  BY <1>1, <1>3
<1>6. SoundTiles(mem', Blocks', Holes', end') /\ Held'
  BY SoundPartsPrime, Zenon
<1> QED
  BY <1>3, <1>4, <1>5, <1>6, SoundIsGood, Zenon

LEMMA GoodBound ==
  ASSUME NEW m, NEW B, NEW H, NEW e, Good(m, B, H, e)
  PROVE  /\ B \cup H \subseteq Nat /\ B \cup H \subseteq 0 .. Words
         /\ \A h \in B \cup H : /\ size(m, h) \in 5 .. MaxSize /\ h + size(m, h) \in 5 .. MaxSize
                                /\ h + size(m, h) <= e
<1>1. e \in Nat /\ e <= MaxSize /\ MaxSize \in Nat /\ Tiles(m, B \cup H, 0, e)
  BY LimitsAssumption DEF Good
<1>2. \A h \in B \cup H : h \in Nat /\ size(m, h) \in Nat /\ size(m, h) >= 5 /\ h + size(m, h) <= e
  BY <1>1 DEF Tiles
<1> QED
  BY <1>1, <1>2, WordSizes

(* A step that leaves a good heap.                                          *)
LEMMA Closes ==
  ASSUME Memory(mem', Nat), Good(mem', Blocks', Holes', end'), Distinct(index'), Held',
         index' \in Seq(Int), end' \in MinSize .. MaxSize, mapped' \in end' .. MaxSize,
         used' \subseteq [ptr : Int, len : Requests], halted' \in BOOLEAN,
         call' \in [op : {"alloc", "free"}, arg : Int, align : BOOLEAN, ret : Int]
  PROVE  Sound'
<1>1. SoundTiles(mem', Blocks', Holes', end')
  BY GoodIsSound
<1>2. Blocks' \cup Holes' \subseteq 0 .. end'
  BY GoodBound
<1>3. /\ DOMAIN mem' \subseteq Nat /\ DOMAIN mem' \subseteq Int
      /\ \A x \in DOMAIN mem' : mem'[x] \in Int
  BY DEF Memory
<1>4. end' >= 0
  BY LimitsAssumption
<1>5. Typed'
  BY <1>2, <1>3, <1>4, Zenon DEF Typed, TypeOK, Requests
<1> QED
  BY <1>1, <1>5, SoundPartsPrime, Zenon

LEMMA TileMemory ==
  ASSUME NEW m, Memory(m, Nat), NEW h \in Nat, NEW hole \in Int, NEW n \in 5 .. MaxSize
  PROVE  Memory(SetTile(m, h, hole, n), Nat)
<1>1. n \in Int /\ {h, h + 1, h + 2} \subseteq Nat /\ h \in Int
  BY LimitsAssumption
<1>2. Memory(SetHeader(m, h, hole, n), Nat)
  BY <1>1, HeaderMemory
<1>3. h + n - Footer \in Int /\ {h + n - Footer, (h + n - Footer) + 1} \subseteq Nat
  BY LimitsAssumption
<1>4. Memory(SetFooter(SetHeader(m, h, hole, n), h + n - Footer, h), Nat)
  BY <1>1, <1>2, <1>3, FooterMemory
<1> QED
  BY <1>4, Zenon DEF SetTile

LEMMA InitIsSound == Init => Sound
<1> SUFFICES ASSUME Init PROVE Sound
  OBVIOUS
<1> DEFINE m == SetHeader(<<>>, 0, 1, InitialSize)
<1>1. /\ mem = m /\ index = <<0>> /\ end = InitialSize /\ mapped = InitialSize /\ used = {}
      /\ call = Freed(0, 0) /\ halted = FALSE
  BY Zenon DEF Init
<1>2. /\ InitialSize \in Nat /\ InitialSize >= 12 /\ InitialSize <= MaxSize /\ MaxSize \in Nat
      /\ InitialSize \in MinSize .. MaxSize
  BY LimitsAssumption, PagesAssumption
<1>3. Unsigned(InitialSize) = InitialSize
  BY <1>2, WordSizes
<1>4. \A x \in Int : Read(m, x) = IF x = 0 THEN HEAP_MAGIC ELSE IF x = 0 + 1 THEN 1
                                  ELSE IF x = 0 + 2 THEN InitialSize ELSE Read(<<>>, x)
  BY <1>3, ReadHeader
<1>5. \A x : Read(<<>>, x) = 0
  BY DEF Read
<1>6. Memory(m, Nat)
  <2>1. Memory(<<>>, Nat)
    BY DEF Memory
  <2> QED
    BY <1>2, <2>1, HeaderMemory
<1> HIDE DEF m
<1>7. size(m, 0) = InitialSize
  BY <1>4 DEF size
<1>8. Tile(m, 0, InitialSize, TRUE)
  BY <1>2, <1>4, <1>5 DEF Tile, HEAP_MAGIC
<1>9. Tiles(m, {0}, 0, InitialSize)
  BY <1>2, <1>7 DEF Tiles
<1>10. Blocks = {} /\ Holes = {0} /\ index \in Seq(Int) /\ Distinct(index) /\ Held
  <2>1. Range(<<0>>) = {0}
    BY DEF Range
  <2> QED
    BY <1>1, <2>1 DEF Blocks, Holes, Distinct, Held
<1>11. Good(m, {}, {0}, InitialSize)
  <2>1. 0 \in {0} <=> TRUE
    OBVIOUS
  <2>2. {} \cup {0} = {0} /\ {} \cap {0} = {}
    OBVIOUS
  <2>3. \A h \in {0} : Tile(m, h, size(m, h), h \in {0})
    BY <1>7, <1>8, <2>1, Zenon DEF Tile
  <2> QED
    BY <1>2, <1>9, <2>2, <2>3 DEF Good
<1>12. SoundTiles(mem, Blocks, Holes, end)
  BY <1>1, <1>10, <1>11, GoodIsSound
<1>13. DOMAIN mem \subseteq Nat /\ Blocks \cup Holes \subseteq 0 .. end
  BY <1>1, <1>2, <1>6, <1>10 DEF Memory
<1>14. call \in [op : {"alloc", "free"}, arg : Int, align : BOOLEAN, ret : Int]
  BY <1>1 DEF Freed
<1>15. TypeOK
  <2>1. DOMAIN mem \subseteq Int /\ \A x \in DOMAIN mem : mem[x] \in Int
    BY <1>1, <1>6 DEF Memory
  <2>2. end \in MinSize .. MaxSize /\ end >= 0 /\ mapped \in end .. MaxSize
    BY <1>1, <1>2
  <2>3. used \subseteq [ptr : Int, len : Sizes \cup AlignedSizes] /\ halted \in BOOLEAN
    BY <1>1
  <2> QED
    BY <1>10, <1>14, <2>1, <2>2, <2>3, Zenon DEF TypeOK
<1> QED
  BY <1>10, <1>12, <1>13, <1>15, SoundParts, Zenon DEF Typed
-----------------------------------------------------------------------------
(* alloc, when a hole fits.                                                 *)
LEMMA Taken ==
  ASSUME Sound, NEW sz \in Requests, NEW align \in BOOLEAN, Fits(sz + Header + Footer, align) # {}
  PROVE  LET i == Least(Fits(sz + Header + Footer, align))
             h == index[i]
         IN  /\ i \in 1 .. Len(index) /\ h \in Holes /\ h \in Nat
             /\ size(mem, h) \in 5 .. MaxSize
             /\ IF align THEN Signed(size(mem, h) - Offset(h)) >= sz + Header + Footer
                ELSE size(mem, h) >= sz + Header + Footer
<1> DEFINE n == sz + Header + Footer
           S == Fits(n, align)
           i == Least(S)
           h == index[i]
<1>1. index \in Seq(Int) /\ Good(mem, Blocks, Holes, end)
  BY SoundFacts, Zenon
<1>2. S \in SUBSET (1 .. Len(index)) /\ Len(index) \in Nat
  BY <1>1 DEF Fits
<1>3. i \in S
  BY <1>2, LeastOf
<1>4. i \in 1 .. Len(index) /\ IF align THEN Signed(size(mem, h) - Offset(h)) >= n
                               ELSE size(mem, h) >= n
  <2> DEFINE ok(j) == IF align THEN Signed(size(mem, index[j]) - Offset(index[j])) >= n
                      ELSE size(mem, index[j]) >= n
  <2>1. S = {j \in 1 .. Len(index) : ok(j)}
    BY Zenon DEF Fits
  <2> HIDE DEF S, ok, i
  <2>2. i \in 1 .. Len(index) /\ ok(i)
    BY <1>3, <2>1
  <2> QED
    BY <2>2, Zenon DEF ok
<1>5. h \in Holes
  BY <1>1, <1>4, RangeOf DEF Holes
<1>6. h \in Nat /\ size(mem, h) \in 5 .. MaxSize
  BY <1>1, <1>5, GoodBound
<1> HIDE DEF S
<1> QED
  BY <1>4, <1>5, <1>6 DEF S

LEMMA TakeCloses ==
  ASSUME Sound, NEW sz \in Requests, NEW align \in BOOLEAN, NEW at \in Nat,
         Memory(mem', Nat), Good(mem', Blocks \cup {at}, Holes', end),
         Distinct(index'), index' \in Seq(Int),
         size(mem', at) >= sz + 5, \A g \in Blocks : size(mem', g) = size(mem, g),
         used' = used \cup {[ptr |-> at + Header, len |-> sz]},
         call' = Alloc(sz, align, at + Header), end' = end, mapped' = mapped, halted' = halted
  PROVE  Sound' /\ call'.op = "alloc"
<1> DEFINE new == [ptr |-> at + Header, len |-> sz]
<1>1. sz \in Nat /\ new \in [ptr : Int, len : Requests] /\ new.ptr - Header = at /\ new.len = sz
  BY RequestFits
<1>2. /\ Held /\ used \subseteq [ptr : Int, len : Requests] /\ halted \in BOOLEAN
      /\ end \in MinSize .. MaxSize /\ mapped \in end .. MaxSize
  BY SoundFacts, Zenon
<1>3. used' = used \cup {new}
  OBVIOUS
<1> HIDE DEF new
<1>4. Blocks' = Blocks \cup {at}
  BY <1>1, <1>3 DEF Blocks
<1>5. Held'
  <2> SUFFICES ASSUME NEW u \in used' PROVE size(mem', u.ptr - Header) >= u.len + Header + Footer
    BY DEF Held
  <2>1. CASE u = new
    BY <1>1, <2>1
  <2>2. CASE u \in used
    <3>1. u.ptr - Header \in Blocks /\ size(mem, u.ptr - Header) >= u.len + Header + Footer
      BY <1>2, <2>2 DEF Held, Blocks
    <3> QED
      BY <3>1
  <2> QED
    BY <1>3, <2>1, <2>2
<1>6. used' \subseteq [ptr : Int, len : Requests]
  BY <1>1, <1>2, <1>3
<1>7. /\ call'.op = "alloc"
      /\ call' \in [op : {"alloc", "free"}, arg : Int, align : BOOLEAN, ret : Int]
  BY <1>1 DEF Alloc
<1>8. /\ Good(mem', Blocks', Holes', end') /\ end' \in MinSize .. MaxSize
      /\ mapped' \in end' .. MaxSize /\ halted' \in BOOLEAN
  BY <1>2, <1>4
<1> QED
  BY <1>5, <1>6, <1>7, <1>8, Closes

(* A hole is taken, or what is left of it reaches behind the mapped pages.  *)
LEMMA TakePanics ==
  ASSUME NEW sz, NEW align, AllocTake(sz, align), ~halted, halted'
  PROVE  Panic(Alloc(sz, align, Pending))
BY ZenonT(60) DEF AllocTake

LEMMA PlainTake ==
  ASSUME Sound, NEW sz \in Requests, AllocTake(sz, FALSE), ~halted'
  PROVE  Sound' /\ call'.op = "alloc"
<1> DEFINE i     == Least(Fits(sz + Header + Footer, FALSE))
           h     == index[i]
           whole == size(mem, h)
           n     == IF Unsigned(whole - sz - Header - Footer) < Header + Footer
                    THEN whole ELSE sz + Header + Footer
           rest  == Unsigned(whole - n)
           hole  == h + n
           block == SetFooter(SetHeader(mem, h, 0, n), h + n - Footer, h)
           tail  == SetHeader(block, hole, 1, rest)
           foot  == FooterOf(tail, hole)
           kept  == RemoveAt(index, i)
<1>1. /\ Fits(sz + Header + Footer, FALSE) # {}
      /\ mem' = IF rest = 0 THEN block ELSE IF foot < end THEN SetFooter(tail, foot, hole) ELSE tail
      /\ index' = IF rest = 0 THEN kept ELSE insert(mem', kept, hole)
      /\ used' = used \cup {[ptr |-> h + Header, len |-> sz]}
      /\ call' = Alloc(sz, FALSE, h + Header)
      /\ end' = end /\ mapped' = mapped /\ halted' = halted
  BY ZenonT(60) DEF AllocTake, Panic
<1>2. /\ i \in 1 .. Len(index) /\ h \in Holes /\ h \in Nat /\ whole \in 5 .. MaxSize
      /\ whole >= sz + Header + Footer
  BY <1>1, Taken, Zenon
<1>3. /\ Good(mem, Blocks, Holes, end) /\ Distinct(index) /\ index \in Seq(Int)
      /\ Memory(mem, Nat) /\ MaxSize \in Nat /\ sz \in Nat
  BY SoundFacts, RequestFits, LimitsAssumption, Zenon
<1> HIDE DEF i, h, whole
<1>4. whole - sz - Header - Footer \in 0 .. MaxSize
  BY <1>2, <1>3
<1>5. Unsigned(whole - sz - Header - Footer) = whole - sz - Header - Footer
  BY <1>4, WordSizes, Zenon
<1>6. n \in 5 .. MaxSize /\ n >= sz + 5 /\ (whole - n = 0 \/ whole - n \in 5 .. MaxSize)
  BY <1>2, <1>3, <1>5
<1>7. rest = whole - n
  <2>1. whole - n \in 0 .. MaxSize
    BY <1>3, <1>6
  <2> HIDE DEF n
  <2> QED
    BY <2>1, WordSizes, Zenon
<1> HIDE DEF n
<1>8. block = SetTile(mem, h, 0, n)
  BY Zenon DEF SetTile
<1> HIDE DEF block
<1>9. Memory(block, Nat)
  BY <1>2, <1>3, <1>6, <1>8, TileMemory
<1>10. /\ kept \in Seq(Int) /\ Distinct(kept) /\ Range(kept) = Holes \ {h}
  BY <1>2, <1>3, RemoveFacts, Zenon DEF Holes, h
<1> HIDE DEF kept
<1>11. CASE rest = 0
  <2>1. n = whole /\ mem' = block /\ index' = kept
    BY <1>1, <1>2, <1>3, <1>6, <1>7, <1>11
  <2>2. /\ Good(block, Blocks \cup {h}, Holes \ {h}, end) /\ size(block, h) = n
        /\ \A g \in Blocks : size(block, g) = size(mem, g)
    <3>1. Took(mem, block, Blocks, Blocks \cup {h}, Holes \ {h}, end, h, n)
      BY <1>2, <1>3, <1>6, <1>8, <2>1, TakeAll DEF whole
    <3> QED
      BY <3>1, Zenon DEF Took
  <2>3. Holes' = Holes \ {h}
    BY <1>10, <2>1 DEF Holes
  <2>4. /\ Memory(mem', Nat) /\ Good(mem', Blocks \cup {h}, Holes', end) /\ size(mem', h) >= sz + 5
        /\ \A g \in Blocks : size(mem', g) = size(mem, g)
        /\ Distinct(index') /\ index' \in Seq(Int)
    BY <1>6, <1>9, <1>10, <2>1, <2>2, <2>3
  <2> QED
    BY <1>1, <1>2, <2>4, TakeCloses
<1>12. CASE rest # 0
  <2>1. rest \in 5 .. MaxSize /\ n + rest = whole /\ hole \in Nat
    BY <1>2, <1>3, <1>6, <1>7, <1>12
  <2> HIDE DEF rest
  <2>2. foot = hole + rest - Footer
    <3>1. Read(tail, hole + 2) = Unsigned(rest)
      BY <2>1, ReadHeader
    <3>2. Unsigned(rest) = rest /\ Signed(rest) = rest
      BY <1>3, <2>1, WordSizes
    <3> QED
      BY <3>1, <3>2, Zenon DEF FooterOf, size
  <2>3. foot < end
    <3>1. h + whole <= end
      BY <1>2, <1>3, GoodBound DEF whole
    <3> HIDE DEF foot
    <3> QED
      BY <1>2, <1>3, <1>6, <2>1, <2>2, <3>1, SoundFacts
  <2>4. mem' = SetFooter(tail, foot, hole) /\ index' = insert(mem', kept, hole)
    BY <1>1, <1>12, <2>3
  <2>5. mem' = SetTile(block, hole, 1, rest)
    BY <2>2, <2>4, Zenon DEF SetTile
  <2> HIDE DEF foot, tail
  <2>6. /\ Good(mem', Blocks \cup {h}, (Holes \ {h}) \cup {hole}, end) /\ size(mem', h) = n
        /\ \A g \in Blocks : size(mem', g) = size(mem, g)
        /\ hole \notin Blocks \cup Holes
    <3>1. n + rest = size(mem, h) /\ hole = h + n
      BY <2>1 DEF whole
    <3> HIDE DEF hole
    <3>2. /\ h \in Holes /\ n \in 5 .. MaxSize /\ rest \in 5 .. MaxSize
          /\ Good(mem, Blocks, Holes, end)
      BY <1>2, <1>3, <1>6, <2>1, Zenon
    <3>3. block = SetTile(mem, h, 0, n) /\ mem' = SetTile(block, hole, 1, rest)
      BY <1>8, <2>5, Zenon
    <3>4. TookPart(mem, mem', Blocks, Holes, Blocks \cup {h}, (Holes \ {h}) \cup {hole}, end, h, n, hole)
      BY <3>1, <3>2, <3>3, TakePart
    <3> QED
      BY <3>4, Zenon DEF Took, TookPart
  <2>7. /\ index' \in Seq(Int) /\ Distinct(index') /\ Range(index') = (Holes \ {h}) \cup {hole}
    <3>1. hole \notin Range(kept) /\ hole \in Int
      BY <1>10, <2>1, <2>6
    <3> HIDE DEF hole
    <3>2. /\ insert(mem', kept, hole) \in Seq(Int)
          /\ Range(insert(mem', kept, hole)) = Range(kept) \cup {hole}
          /\ Distinct(insert(mem', kept, hole))
      BY <1>10, <3>1, InsertFacts
    <3> QED
      BY <1>10, <2>4, <3>2
  <2>8. Memory(mem', Nat)
    BY <1>9, <2>1, <2>5, TileMemory
  <2> HIDE DEF hole
  <2>9. /\ Good(mem', Blocks \cup {h}, Holes', end) /\ size(mem', h) >= sz + 5
        /\ \A g \in Blocks : size(mem', g) = size(mem, g)
    BY <1>6, <2>6, <2>7 DEF Holes
  <2> QED
    BY <1>1, <1>2, <2>7, <2>8, <2>9, TakeCloses
<1> QED
  BY <1>11, <1>12
-----------------------------------------------------------------------------
(* alloc of a block that begins on a page.                                  *)
LEMMA Division ==
  ASSUME NEW P \in Nat, P > 0, NEW h \in Int
  PROVE  /\ h \div P \in Int /\ h = P * (h \div P) + (h % P) /\ h % P \in 0 .. P - 1
OBVIOUS

LEMMA Quotient ==
  ASSUME NEW P \in Nat, P > 0, NEW a \in Int, NEW b \in Int, NEW r \in 0 .. P - 1,
         NEW s \in 0 .. P - 1, P * a + r = P * b + s
  PROVE  a = b /\ r = s
<1>1. ASSUME NEW x \in Int, NEW y \in Int, x < y PROVE P * x + P <= P * y
  <2> DEFINE k == y - x - 1
  <2>1. k \in Nat /\ y = x + 1 + k
    BY <1>1
  <2> HIDE DEF k
  <2>2. P * k >= 0 /\ P * k \in Int
    BY <2>1
  <2>3. P * y = P * x + P + P * k
    BY <2>1
  <2> QED
    BY <2>2, <2>3
<1>2. P * a \in Int /\ P * b \in Int
  OBVIOUS
<1>3. ~(a < b)
  BY <1>1, <1>2
<1>4. ~(b < a)
  BY <1>1, <1>2
<1> QED
  BY <1>2, <1>3, <1>4

LEMMA ModPlus ==
  ASSUME NEW P \in Nat, P > 0, NEW h \in Nat, NEW k \in Nat, (h % P) + k < P
  PROVE  (h + k) % P = (h % P) + k
<1> DEFINE a == h \div P
           r == h % P
           b == (h + k) \div P
           s == (h + k) % P
<1>1. a \in Int /\ h = P * a + r /\ r \in 0 .. P - 1
  BY Division
<1>2. b \in Int /\ h + k = P * b + s /\ s \in 0 .. P - 1
  BY Division
<1> HIDE DEF a, b, r, s
<1>3. r + k \in 0 .. P - 1
  BY <1>1 DEF r
<1>4. P * a + (r + k) = P * b + s
  BY <1>1, <1>2
<1>5. a = b /\ r + k = s
  BY <1>1, <1>2, <1>3, <1>4, Quotient
<1> QED
  BY <1>5 DEF r, s

(* The two lengths in front of an aligned block agree, if the first is not  *)
(* too short.                                                               *)
LEMMA OffsetIs ==
  ASSUME NEW h \in Nat, PageSize - (h % PageSize) - 3 >= 5
  PROVE  /\ Offset(h) = PageSize - (h % PageSize) - 3
         /\ PageSize - (h % PageSize) - 3 \in 5 .. PageSize
<1> DEFINE r == h % PageSize
<1>1. PageSize \in Nat /\ PageSize > 0
  BY PagesAssumption
<1>2. r \in 0 .. PageSize - 1
  BY <1>1, Division
<1>3. PageSize - r - 3 >= 5
  OBVIOUS
<1>4. 3 \in Nat /\ r + 3 < PageSize
  <2> HIDE DEF r
  <2> QED
    BY <1>1, <1>2, <1>3
<1>5. (h + 3) % PageSize = r + 3
  BY <1>1, <1>4, ModPlus
<1> DEFINE s == (h + 3) % PageSize
<1>6. Offset(h) = PageSize - s
  BY DEF Offset
<1>7. s = r + 3
  BY <1>5
<1> HIDE DEF r, s
<1>8. Offset(h) = PageSize - r - 3 /\ PageSize - r - 3 \in 5 .. PageSize
  BY <1>1, <1>2, <1>3, <1>6, <1>7
<1> QED
  BY <1>8 DEF r

(* A hole that is cut as LeavesCrampedHole says it should be.               *)
LEMMA AlignedCut ==
  ASSUME NEW h \in Nat, NEW whole \in 5 .. MaxSize, NEW sz \in Nat,
         Signed(whole - Offset(h)) >= sz + 5, PageSize - (h % PageSize) - 3 >= 5,
         ~(whole - (PageSize - (h % PageSize) - 3) - (sz + 5) \in 1 .. 4)
  PROVE  /\ PageSize - (h % PageSize) - 3 \in 5 .. MaxSize /\ sz + 5 \in 5 .. MaxSize
         /\ whole - (PageSize - (h % PageSize) - 3) - (sz + 5) \in {0} \cup 5 .. MaxSize
<1> DEFINE f == PageSize - (h % PageSize) - 3
<1>1. Offset(h) = f /\ f \in 5 .. PageSize
  BY OffsetIs
<1>2. PageSize \in Nat /\ PageSize <= MaxSize /\ MaxSize \in Nat
  BY PagesAssumption, LimitsAssumption, WordSizes
<1>3. ~(whole - f - (sz + 5) \in 1 .. 4) /\ Signed(whole - f) >= sz + 5
  BY <1>1, Zenon
<1> HIDE DEF f
<1>4. Signed(whole - f) = whole - f
  <2>1. whole - f \in -MaxSize .. MaxSize
    BY <1>1, <1>2
  <2> QED
    BY <2>1, WordSizes
<1>5. /\ f \in 5 .. MaxSize /\ sz + 5 \in 5 .. MaxSize
      /\ whole - f - (sz + 5) \in {0} \cup 5 .. MaxSize
  BY <1>1, <1>2, <1>3, <1>4
<1> QED
  BY <1>5, Zenon DEF f

LEMMA AlignedTake ==
  ASSUME Sound, NEW sz \in Requests, AllocTake(sz, TRUE), ~halted', ~LeavesCrampedHole(call')
  PROVE  Sound' /\ call'.op = "alloc"
<1> DEFINE i     == Least(Fits(sz + Header + Footer, TRUE))
           h     == index[i]
           whole == size(mem, h)
           n     == IF Unsigned(whole - sz - Header - Footer) < Header + Footer
                    THEN whole ELSE sz + Header + Footer
           f     == PageSize - (h % PageSize) - Header
           front == SplitFront(h)
           at    == h + PageSize - (h % PageSize) - Header
           rest  == Unsigned((whole - size(front, h)) - n)
           hole  == at + n
           block == SetFooter(SetHeader(front, at, 0, n), at + n - Footer, at)
           tail  == SetHeader(block, hole, 1, rest)
           foot  == FooterOf(tail, hole)
<1>1. /\ Fits(sz + Header + Footer, TRUE) # {}
      /\ mem' = IF rest = 0 THEN block ELSE IF foot < end THEN SetFooter(tail, foot, hole) ELSE tail
      /\ index' = IF rest = 0 THEN index ELSE insert(mem', index, hole)
      /\ used' = used \cup {[ptr |-> at + Header, len |-> sz]}
      /\ call' = Alloc(sz, TRUE, at + Header)
      /\ end' = end /\ mapped' = mapped /\ halted' = halted
  <2>1. Fits(sz + Header + Footer, TRUE) # {}
    BY ZenonT(60) DEF AllocTake, Panic
  <2>2. end' = end /\ mapped' = mapped /\ halted' = halted
    BY ZenonT(60) DEF AllocTake, Panic
  <2>3. call' = Alloc(sz, TRUE, at + Header)
    BY ZenonT(60) DEF AllocTake, Panic
  <2>4. used' = used \cup {[ptr |-> at + Header, len |-> sz]}
    BY ZenonT(60) DEF AllocTake, Panic
  <2>5. index' = IF rest = 0 THEN index ELSE insert(mem', index, hole)
    BY ZenonT(60) DEF AllocTake, Panic
  <2>6. mem' = IF rest = 0 THEN block ELSE IF foot < end THEN SetFooter(tail, foot, hole) ELSE tail
    BY ZenonT(60) DEF AllocTake, Panic
  <2> QED
    BY <2>1, <2>2, <2>3, <2>4, <2>5, <2>6, Zenon
<1>2. /\ h \in Holes /\ h \in Nat /\ whole \in 5 .. MaxSize
      /\ Signed(whole - Offset(h)) >= sz + Header + Footer
  BY <1>1, Taken, Zenon
<1>3. /\ Good(mem, Blocks, Holes, end) /\ Distinct(index) /\ index \in Seq(Int)
      /\ Memory(mem, Nat) /\ MaxSize \in Nat /\ sz \in Nat /\ end \in Nat
  BY SoundFacts, RequestFits, LimitsAssumption, Zenon
<1>4. PageSize \in Nat /\ h % PageSize \in 0 .. PageSize - 1
  <2> HIDE DEF h
  <2>1. PageSize \in Nat /\ PageSize > 0 /\ h \in Int
    BY <1>2, PagesAssumption
  <2> QED
    BY <2>1, Division
<1>5. /\ call'.op = "alloc" /\ call'.align /\ call'.arg = sz /\ call'.ret = at + Header
  BY <1>1, Zenon DEF Alloc
<1> HIDE DEF h
<1>6. at = h + f /\ at + Header # Pending
  BY <1>2, <1>4 DEF Pending
<1>7. ~(f < Header + Footer \/ whole - f - (sz + Header + Footer) \in 1 .. Header + Footer - 1)
  BY <1>5, <1>6, Zenon DEF LeavesCrampedHole, h
<1>8. /\ f \in 5 .. MaxSize /\ sz + 5 \in 5 .. MaxSize
      /\ whole - f - (sz + 5) \in {0} \cup 5 .. MaxSize
  <2> HIDE DEF whole, f
  <2>1. sz + Header + Footer = sz + 5 /\ Header + Footer = 5 /\ Header + Footer - 1 = 4
    BY <1>3
  <2>2. f = PageSize - (h % PageSize) - 3
    BY Zenon DEF f
  <2>3. f \in Int
    BY <1>4, <2>2
  <2>4. /\ Signed(whole - Offset(h)) >= sz + 5 /\ ~(whole - f - (sz + 5) \in 1 .. 4) /\ ~(f < 5)
    BY <1>2, <1>7, <2>1, Zenon
  <2>5. f >= 5
    BY <2>3, <2>4
  <2>6. /\ PageSize - (h % PageSize) - 3 >= 5
        /\ ~(whole - (PageSize - (h % PageSize) - 3) - (sz + 5) \in 1 .. 4)
    BY <2>2, <2>4, <2>5, Zenon
  <2>7. /\ PageSize - (h % PageSize) - 3 \in 5 .. MaxSize /\ sz + 5 \in 5 .. MaxSize
        /\ whole - (PageSize - (h % PageSize) - 3) - (sz + 5) \in {0} \cup 5 .. MaxSize
    BY <1>2, <1>3, <2>4, <2>6, AlignedCut
  <2> QED
    BY <2>2, <2>7, Zenon
<1>9. front = SetTile(mem, h, 1, f)
  BY Zenon DEF SplitFront, SetTile
<1> HIDE DEF i, whole, f, front, at
<1>10. whole - sz - 5 \in 5 .. MaxSize
  BY <1>2, <1>3, <1>8
<1>11. n = sz + 5
  <2>1. whole - sz - Header - Footer = whole - sz - 5 /\ whole - sz - 5 \in 0 .. MaxSize
    BY <1>2, <1>3, <1>8
  <2>2. Unsigned(whole - sz - Header - Footer) = whole - sz - 5
    BY <2>1, WordSizes
  <2> QED
    BY <1>3, <1>10, <2>2
<1>12. size(front, h) = f
  BY <1>2, <1>8, <1>9, SetTileFacts
<1> HIDE DEF n
<1>13. rest = whole - f - n
  <2>1. (whole - f) - n \in 0 .. MaxSize
    BY <1>2, <1>3, <1>8, <1>11
  <2> QED
    BY <1>12, <2>1, WordSizes
<1>14. n \in 5 .. MaxSize /\ n = sz + 5 /\ at \in Nat /\ (rest = 0 \/ rest \in 5 .. MaxSize)
       /\ f + n + rest = whole /\ hole \in Nat
  <2> HIDE DEF rest
  <2> QED
    BY <1>2, <1>3, <1>6, <1>8, <1>11, <1>13
<1> HIDE DEF rest
<1>15. block = SetTile(front, at, 0, n)
  BY Zenon DEF SetTile
<1> HIDE DEF block
<1>16. Memory(front, Nat) /\ Memory(block, Nat)
  BY <1>2, <1>3, <1>8, <1>9, <1>14, <1>15, TileMemory
<1>17. CASE rest = 0
  <2>1. mem' = block /\ index' = index /\ f + n = size(mem, h)
    BY <1>1, <1>2, <1>8, <1>14, <1>17 DEF whole
  <2>2. Took(mem, block, Blocks, Blocks \cup {at}, Holes, end, at, n)
    BY <1>2, <1>3, <1>6, <1>8, <1>9, <1>14, <1>15, <2>1, TakeAlignedAll
  <2>3. Holes' = Holes
    BY <2>1 DEF Holes
  <2>4. /\ Memory(mem', Nat) /\ Good(mem', Blocks \cup {at}, Holes', end) /\ size(mem', at) = n
        /\ \A g \in Blocks : size(mem', g) = size(mem, g)
        /\ Distinct(index') /\ index' \in Seq(Int)
    BY <1>3, <1>16, <2>1, <2>2, <2>3, Zenon DEF Took
  <2>5. size(mem', at) >= sz + 5
    BY <1>3, <1>14, <2>4
  <2> QED
    BY <1>1, <1>14, <2>4, <2>5, TakeCloses
<1>18. CASE rest # 0
  <2>1. rest \in 5 .. MaxSize
    BY <1>14, <1>18
  <2>2. foot = hole + rest - Footer
    <3>1. Read(tail, hole + 2) = Unsigned(rest)
      BY <1>14, <2>1, ReadHeader
    <3>2. Unsigned(rest) = rest /\ Signed(rest) = rest
      BY <1>3, <2>1, WordSizes
    <3> QED
      BY <3>1, <3>2, Zenon DEF FooterOf, size
  <2>3. foot < end
    <3>1. h + whole <= end
      BY <1>2, <1>3, GoodBound DEF whole
    <3> HIDE DEF foot
    <3> QED
      BY <1>2, <1>3, <1>6, <1>8, <1>14, <2>1, <2>2, <3>1
  <2>4. mem' = SetFooter(tail, foot, hole) /\ index' = insert(mem', index, hole)
    BY <1>1, <1>18, <2>3
  <2>5. mem' = SetTile(block, hole, 1, rest)
    BY <2>2, <2>4, Zenon DEF SetTile
  <2> HIDE DEF foot, tail
  <2>6. TookPart(mem, mem', Blocks, Holes, Blocks \cup {at}, Holes \cup {hole}, end, at, n, hole)
    <3>1. f + n + rest = size(mem, h) /\ hole = at + n
      BY <1>14 DEF whole
    <3> HIDE DEF hole
    <3>2. /\ h \in Holes /\ f \in 5 .. MaxSize /\ n \in 5 .. MaxSize /\ rest \in 5 .. MaxSize
          /\ Good(mem, Blocks, Holes, end) /\ at = h + f
      BY <1>2, <1>3, <1>6, <1>8, <1>14, <2>1, Zenon
    <3>3. front = SetTile(mem, h, 1, f) /\ block = SetTile(front, at, 0, n)
          /\ mem' = SetTile(block, hole, 1, rest)
      BY <1>9, <1>15, <2>5, Zenon
    <3> QED
      BY <3>1, <3>2, <3>3, TakeAlignedPart
  <2>7. /\ Good(mem', Blocks \cup {at}, Holes \cup {hole}, end) /\ size(mem', at) = n
        /\ \A g \in Blocks : size(mem', g) = size(mem, g) /\ hole \notin Blocks \cup Holes
    BY <2>6, Zenon DEF Took, TookPart
  <2>8. /\ index' \in Seq(Int) /\ Distinct(index') /\ Range(index') = Holes \cup {hole}
    <3>1. hole \notin Range(index) /\ hole \in Int /\ Range(index) = Holes
      BY <1>14, <2>6 DEF Holes, TookPart
    <3> HIDE DEF hole
    <3> DEFINE ix == insert(mem', index, hole)
    <3>2. ix \in Seq(Int) /\ Range(ix) = Range(index) \cup {hole} /\ Distinct(ix)
      <4>1. Distinct(index) /\ index \in Seq(Int)
        BY <1>3, Zenon
      <4> HIDE DEF ix
      <4>2. ix = IF FALSE THEN index ELSE insert(mem', index, hole)
        BY Zenon DEF ix
      <4>3. FALSE <=> hole \in Range(index)
        BY <3>1, Zenon
      <4> QED
        BY <3>1, <4>1, <4>2, <4>3, IndexAfter
    <3> HIDE DEF ix
    <3> QED
      BY <2>4, <3>1, <3>2, Zenon DEF ix
  <2>9. Memory(mem', Nat)
    BY <1>14, <1>16, <2>1, <2>5, TileMemory
  <2> HIDE DEF hole
  <2>10. /\ Good(mem', Blocks \cup {at}, Holes', end) /\ size(mem', at) >= sz + 5
         /\ \A g \in Blocks : size(mem', g) = size(mem, g)
    BY <1>3, <1>14, <2>7, <2>8 DEF Holes
  <2> QED
    BY <1>1, <1>14, <2>8, <2>9, <2>10, TakeCloses
<1> QED
  BY <1>14, <1>17, <1>18
-----------------------------------------------------------------------------
(* One hole in the place of what lies between two addresses.                *)
Leaves(m, m2, B, H, B2, H2, e2) ==
  /\ Good(m2, B2, H2, e2) /\ B2 \subseteq B
  /\ \A g \in B2 : size(m2, g) = size(m, g)

LEMMA Rewrite ==
  ASSUME NEW m, NEW m2, NEW B, NEW H, NEW e, Good(m, B, H, e),
         NEW a \in B \cup H, NEW b \in B \cup H \cup {e}, a <= b,
         NEW n \in Nat, n >= 5, NEW c, c = a + n, NEW e2 \in 0 .. MaxSize, Ends(b, e, c, e2),
         Tile(m2, a, n, TRUE), Kept(m, m2, a, b, e),
         NEW B2, NEW H2, \A g \in B : g \in B2 <=> ~(a <= g /\ g < b), B2 \subseteq B,
         \A g \in H : g \in H2 <=> ~(a <= g /\ g < b) \/ g = a, H2 \subseteq H \cup {a}, a \in H2
  PROVE  Leaves(m, m2, B, H, B2, H2, e2)
<1> DEFINE gone == a .. b - 1
<1>1. B \cup H \subseteq Nat /\ e \in Nat /\ a \in Nat /\ b \in Nat
  <2>1. B \cup H \subseteq Nat
    BY GoodBound
  <2>2. e \in Nat
    BY LimitsAssumption DEF Good
  <2> QED
    BY <2>1, <2>2
<1>2. \A g \in B \cup H : g \in gone <=> a <= g /\ g < b
  BY <1>1
<1>3. c \in Nat /\ a + n = c /\ a \in B \cup H \cup {e}
  BY <1>1
<1> HIDE DEF gone
<1>4. size(m2, a) = n
  BY DEF Tile, size
<1>5. Piece(m2, {}, {a}, a, c)
  <2>1. Tiles(m2, {a}, a, c)
    BY <1>1, <1>3, <1>4, OneTile
  <2>2. {} \cup {a} = {a} /\ {} \cap {a} = {} /\ (a \in {a} <=> TRUE)
    OBVIOUS
  <2>3. \A h \in {a} : Tile(m2, h, size(m2, h), h \in {a})
    BY <1>4, <2>2, Zenon DEF Tile
  <2> QED
    BY <2>1, <2>2, <2>3 DEF Piece
<1>6. Replaced(m, m2, B, H, a, b, {}, {a}, e2)
  BY <1>3, <1>5, Replace
<1>7. /\ Good(m2, (B \ gone) \cup {}, (H \ gone) \cup {a}, e2)
      /\ \A g \in (B \cup H) \ gone : size(m2, g) = size(m, g)
  BY <1>6, Zenon DEF Replaced, gone
<1>8. (B \ gone) \cup {} = B2 /\ (H \ gone) \cup {a} = H2
  BY <1>2
<1>9. \A g \in B2 : g \in (B \cup H) \ gone
  BY <1>8
<1> QED
  BY <1>7, <1>8, <1>9 DEF Leaves

(* A block becomes a hole.                                                  *)
LEMMA BlockToHole ==
  ASSUME NEW m, NEW m2, NEW B, NEW H, NEW e, Good(m, B, H, e), NEW a \in B,
         NEW n, n = size(m, a), Tile(m2, a, n, TRUE), Between(m, m2, a, a + n)
  PROVE  Leaves(m, m2, B, H, B \ {a}, H \cup {a}, e)
<1> DEFINE b == a + n
<1>1. e \in Nat /\ e \in 0 .. MaxSize /\ Tiles(m, B \cup H, 0, e) /\ B \cap H = {}
  BY LimitsAssumption DEF Good
<1>2. a \in Nat /\ n \in Nat /\ n >= 5 /\ b \in B \cup H \cup {e} /\ b \in Nat /\ a <= b
  BY <1>1, Apart
<1>3. \A g \in B \cup H : a <= g /\ g < b <=> g = a
  <2> SUFFICES ASSUME NEW g \in B \cup H PROVE a <= g /\ g < b <=> g = a
    OBVIOUS
  <2>1. g \in Nat /\ (g < a \/ g = a \/ b <= g)
    BY <1>1, Apart
  <2> QED
    BY <1>2, <2>1
<1>4. Kept(m, m2, a, b, e) /\ Ends(b, e, b, e)
  BY DEF Between, Kept, Ends
<1>5. /\ \A g \in B : g \in B \ {a} <=> ~(a <= g /\ g < b)
      /\ \A g \in H : g \in H \cup {a} <=> ~(a <= g /\ g < b) \/ g = a
  BY <1>1, <1>3
<1> HIDE DEF b
<1>6. b = a + n /\ B \ {a} \subseteq B /\ H \cup {a} \subseteq H \cup {a} /\ a \in H \cup {a}
  BY DEF b
<1> QED
  BY <1>1, <1>2, <1>4, <1>5, <1>6, Rewrite

(* Two holes side by side become one.                                       *)
LEMMA TwoHoles ==
  ASSUME NEW m, NEW m2, NEW B, NEW H, NEW e, Good(m, B, H, e), NEW a \in H, NEW q \in H,
         a + size(m, a) = q, NEW n, n = size(m, a) + size(m, q),
         Tile(m2, a, n, TRUE), Between(m, m2, a, a + n)
  PROVE  Leaves(m, m2, B, H, B, H \ {q}, e)
<1> DEFINE b == a + n
           G == H \ {q}
<1>1. e \in Nat /\ e \in 0 .. MaxSize /\ Tiles(m, B \cup H, 0, e) /\ B \cap H = {}
  BY LimitsAssumption DEF Good
<1>2. /\ a \in Nat /\ n \in Nat /\ n >= 5 /\ b \in B \cup H \cup {e} /\ b \in Nat /\ a <= b
      /\ q \in Nat /\ a < q /\ q < b /\ q + size(m, q) = b
  BY <1>1, Apart
<1>3. \A g \in B \cup H : a <= g /\ g < b <=> g = a \/ g = q
  <2> SUFFICES ASSUME NEW g \in B \cup H PROVE a <= g /\ g < b <=> g = a \/ g = q
    OBVIOUS
  <2>1. g \in Nat /\ (g < a \/ g = a \/ q <= g) /\ (g < q \/ g = q \/ b <= g)
    BY <1>1, <1>2, Apart
  <2> QED
    BY <1>2, <2>1
<1>4. Kept(m, m2, a, b, e) /\ Ends(b, e, b, e)
  BY DEF Between, Kept, Ends
<1>5. /\ \A g \in B : g \in B <=> ~(a <= g /\ g < b)
      /\ \A g \in H : g \in G <=> ~(a <= g /\ g < b) \/ g = a
  BY <1>1, <1>2, <1>3
<1> HIDE DEF b
<1>6. b = a + n /\ B \subseteq B /\ G \subseteq H \cup {a} /\ a \in G /\ a \in B \cup H
  BY <1>2 DEF b
<1> HIDE DEF G
<1>7. /\ n \in Nat /\ n >= 5 /\ b \in B \cup H \cup {e} /\ a <= b /\ e \in 0 .. MaxSize
      /\ Tile(m2, a, n, TRUE) /\ Good(m, B, H, e)
  BY <1>1, <1>2, Zenon
<1>8. Leaves(m, m2, B, H, B, G, e)
  BY <1>4, <1>5, <1>6, <1>7, Rewrite, ZenonT(60)
<1> QED
  BY <1>8 DEF G

(* The last hole reaches to another end of the heap.                        *)
LEMMA LastHole ==
  ASSUME NEW m, NEW m2, NEW B, NEW H, NEW e, Good(m, B, H, e), NEW a \in H,
         a + size(m, a) = e, NEW e2 \in 0 .. MaxSize, NEW n \in Nat, n >= 5, e2 = a + n,
         Tile(m2, a, n, TRUE), \A x \in Nat : x < a => Read(m2, x) = Read(m, x)
  PROVE  Leaves(m, m2, B, H, B, H, e2)
<1>1. e \in Nat /\ e \in 0 .. MaxSize /\ Tiles(m, B \cup H, 0, e) /\ B \cap H = {}
  BY LimitsAssumption DEF Good
<1>2. a \in Nat /\ a <= e
  BY <1>1, Apart
<1>3. \A g \in B \cup H : a <= g /\ g < e <=> g = a
  <2> SUFFICES ASSUME NEW g \in B \cup H PROVE a <= g /\ g < e <=> g = a
    OBVIOUS
  <2>1. g \in Nat /\ (g < a \/ g = a \/ e <= g) /\ size(m, a) >= 5 /\ size(m, a) \in Nat
    BY <1>1, Apart
  <2> QED
    BY <1>2, <2>1
<1>4. Kept(m, m2, a, e, e) /\ Ends(e, e, e2, e2)
  BY <1>1, <1>2 DEF Kept, Ends
<1>5. /\ \A g \in B : g \in B <=> ~(a <= g /\ g < e)
      /\ \A g \in H : g \in H <=> ~(a <= g /\ g < e) \/ g = a
  BY <1>1, <1>2, <1>3
<1>6. B \subseteq B /\ H \subseteq H \cup {a} /\ a \in H /\ a \in B \cup H /\ e \in B \cup H \cup {e}
  OBVIOUS
<1> QED
  BY <1>1, <1>2, <1>4, <1>5, <1>6, Rewrite

(* The last two holes become one that reaches to another end.               *)
LEMMA LastTwoHoles ==
  ASSUME NEW m, NEW m2, NEW B, NEW H, NEW e, Good(m, B, H, e), NEW a \in H, NEW q \in H,
         a + size(m, a) = q, q + size(m, q) = e,
         NEW e2 \in 0 .. MaxSize, NEW n \in Nat, n >= 5, e2 = a + n,
         Tile(m2, a, n, TRUE), \A x \in Nat : x < a => Read(m2, x) = Read(m, x)
  PROVE  Leaves(m, m2, B, H, B, H \ {q}, e2)
<1> DEFINE G == H \ {q}
<1>1. e \in Nat /\ e \in 0 .. MaxSize /\ Tiles(m, B \cup H, 0, e) /\ B \cap H = {}
  BY LimitsAssumption DEF Good
<1>2. a \in Nat /\ q \in Nat /\ a < q /\ q < e /\ a <= e
  BY <1>1, Apart
<1>3. \A g \in B \cup H : a <= g /\ g < e <=> g = a \/ g = q
  <2> SUFFICES ASSUME NEW g \in B \cup H PROVE a <= g /\ g < e <=> g = a \/ g = q
    OBVIOUS
  <2>1. g \in Nat /\ (g < a \/ g = a \/ q <= g) /\ (g < q \/ g = q \/ e <= g)
    BY <1>1, Apart
  <2> QED
    BY <1>1, <1>2, <2>1
<1>4. Kept(m, m2, a, e, e) /\ Ends(e, e, e2, e2)
  BY <1>1, <1>2 DEF Kept, Ends
<1>5. /\ \A g \in B : g \in B <=> ~(a <= g /\ g < e)
      /\ \A g \in H : g \in G <=> ~(a <= g /\ g < e) \/ g = a
  BY <1>1, <1>2, <1>3
<1>6. /\ B \subseteq B /\ G \subseteq H \cup {a} /\ a \in G /\ a \in B \cup H
      /\ e \in B \cup H \cup {e}
  BY <1>2
<1> HIDE DEF G
<1>7. Leaves(m, m2, B, H, B, G, e2)
  BY <1>1, <1>2, <1>4, <1>5, <1>6, Rewrite
<1> QED
  BY <1>7 DEF G

(* A hole behind the old end of the heap.                                   *)
LEMMA NewHole ==
  ASSUME NEW m, NEW m2, NEW B, NEW H, NEW e, Good(m, B, H, e),
         NEW e2 \in 0 .. MaxSize, NEW n \in 5 .. MaxSize, e2 = e + n, m2 = SetTile(m, e, 1, n)
  PROVE  Leaves(m, m2, B, H, B, H \cup {e}, e2)
<1> DEFINE gone == e .. e - 1
<1>1. e \in Nat /\ e \in 0 .. MaxSize /\ B \cup H \subseteq Nat
  <2>1. B \cup H \subseteq Nat
    BY GoodBound
  <2>2. e \in Nat /\ e \in 0 .. MaxSize
    BY LimitsAssumption DEF Good
  <2> QED
    BY <2>1, <2>2
<1>2. Piece(m2, {}, {e}, e, e2) /\ Between(m, m2, e, e2)
  BY <1>1, FirstHole
<1>3. Kept(m, m2, e, e, e) /\ Ends(e, e, e2, e2) /\ e2 \in Nat /\ e <= e
  BY <1>1, <1>2 DEF Between, Kept, Ends
<1>4. e \in B \cup H \cup {e}
  OBVIOUS
<1>5. Replaced(m, m2, B, H, e, e, {}, {e}, e2)
  BY <1>2, <1>3, <1>4, Replace
<1>6. gone = {}
  BY <1>1
<1> HIDE DEF gone
<1>7. /\ Good(m2, (B \ gone) \cup {}, (H \ gone) \cup {e}, e2)
      /\ \A g \in (B \cup H) \ gone : size(m2, g) = size(m, g)
  BY <1>5, Zenon DEF Replaced, gone
<1>8. (B \ gone) \cup {} = B /\ (H \ gone) \cup {e} = H \cup {e} /\ (B \cup H) \ gone = B \cup H
  BY <1>6
<1> QED
  BY <1>7, <1>8 DEF Leaves
-----------------------------------------------------------------------------
(* alloc, when no hole fits.                                                *)
LEMMA ExpandedIsMore ==
  ASSUME end \in Nat, NEW n \in Nat
  PROVE  Expanded(n) \in Nat /\ Expanded(n) > end + n
<1> DEFINE q == (end + n) \div PageSize
           r == (end + n) % PageSize
<1>1. PageSize \in Nat /\ PageSize > 0 /\ end + n \in Int
  BY PagesAssumption
<1>2. q \in Int /\ end + n = PageSize * q + r /\ r \in 0 .. PageSize - 1
  BY <1>1, Division
<1>3. Expanded(n) = q * PageSize + PageSize
  BY DEF Expanded
<1> HIDE DEF q, r
<1>4. q * PageSize = PageSize * q /\ PageSize * q \in Int
  BY <1>1, <1>2
<1> QED
  BY <1>1, <1>2, <1>3, <1>4

(* A call that leaves another good heap with the blocks of before, and with *)
(* the callers' view of it.                                                 *)
LEMMA KeepsBlocks ==
  ASSUME Sound, Memory(mem', Nat), Leaves(mem, mem', Blocks, Holes, Blocks, Holes', end'),
         Distinct(index'), index' \in Seq(Int), end' \in MinSize .. MaxSize,
         mapped' \in end' .. MaxSize, halted' = halted, used' = used,
         NEW sz \in Int, NEW align \in BOOLEAN, NEW ret \in Int,
         call' = Alloc(sz, align, ret)
  PROVE  Sound' /\ call'.op = "alloc"
<1>1. /\ Held /\ used \subseteq [ptr : Int, len : Requests] /\ halted \in BOOLEAN
  BY SoundFacts, Zenon
<1>2. Blocks' = Blocks
  BY DEF Blocks
<1>3. Good(mem', Blocks', Holes', end') /\ \A g \in Blocks : size(mem', g) = size(mem, g)
  BY <1>2, Zenon DEF Leaves
<1>4. Held'
  <2> SUFFICES ASSUME NEW u \in used PROVE size(mem', u.ptr - Header) >= u.len + Header + Footer
    BY DEF Held
  <2>1. u.ptr - Header \in Blocks /\ size(mem, u.ptr - Header) >= u.len + Header + Footer
    BY <1>1 DEF Held, Blocks
  <2> QED
    BY <1>3, <2>1
<1>5. /\ call'.op = "alloc"
      /\ call' \in [op : {"alloc", "free"}, arg : Int, align : BOOLEAN, ret : Int]
  BY DEF Alloc
<1> QED
  BY <1>1, <1>3, <1>4, <1>5, Closes

LEMMA ResizeMemory ==
  ASSUME NEW m, Memory(m, Nat), NEW h \in Nat, NEW n \in 5 .. MaxSize
  PROVE  Memory(Resize(m, h, n), Nat)
<1>1. n \in Int /\ h + 2 \in Nat /\ h \in Int
  BY LimitsAssumption
<1>2. Memory(SetSize(m, h, n), Nat)
  BY <1>1, SizeMemory
<1>3. h + n - Footer \in Int /\ {h + n - Footer, (h + n - Footer) + 1} \subseteq Nat
  BY LimitsAssumption
<1>4. Memory(SetFooter(SetSize(m, h, n), h + n - Footer, h), Nat)
  BY <1>1, <1>2, <1>3, FooterMemory
<1> QED
  BY <1>4, Zenon DEF Resize

LEMMA ExpandIsSound ==
  ASSUME Sound, NEW sz \in Requests, NEW align \in BOOLEAN, AllocExpand(sz, align),
         ~GrowsInnerHole(call')
  PROVE  Sound' /\ call'.op = "alloc"
<1> DEFINE n    == sz + Header + Footer
           new  == Expanded(n)
           last == CHOOSE h \in Range(index) : \A g \in Range(index) : g <= h
           longer == SetSize(mem, last, size(mem, last) + new - end)
           fresh  == SetFooter(SetHeader(mem, end, 1, new - end), new - Footer, end)
<1>1. /\ new <= MaxSize /\ end' = new /\ mapped' = IF new > mapped THEN new ELSE mapped
      /\ IF index = <<>>
         THEN index' = <<end>> /\ mem' = fresh
         ELSE mem' = SetFooter(longer, FooterOf(longer, last), last) /\ index' = index
      /\ call' = Alloc(sz, align, Pending) /\ used' = used /\ halted' = halted
  BY Zenon DEF AllocExpand
<1>2. /\ Good(mem, Blocks, Holes, end) /\ Distinct(index) /\ index \in Seq(Int)
      /\ Memory(mem, Nat) /\ end \in Nat /\ end \in MinSize .. MaxSize
      /\ mapped \in end .. MaxSize
  BY SoundFacts, Zenon
<1>3. sz \in Nat /\ MaxSize \in Nat /\ MinSize \in Nat
  BY RequestFits, LimitsAssumption
<1>4. n \in Nat /\ n >= 5
  BY <1>3
<1>5. new \in Nat /\ new > end + n
  BY <1>2, <1>4, ExpandedIsMore, Zenon
<1> HIDE DEF new, n
<1>6. /\ new \in 0 .. MaxSize /\ new \in MinSize .. MaxSize /\ new - end \in 5 .. MaxSize
      /\ new - end \in Nat /\ new - end >= 5 /\ new = end + (new - end) /\ new # end
      /\ mapped' \in end' .. MaxSize
  BY <1>1, <1>2, <1>3, <1>4, <1>5
<1>7. sz \in Int /\ Pending \in Int
  BY <1>3 DEF Pending
<1>8. CASE index = <<>>
  <2>1. index' = <<end>> /\ mem' = fresh
    BY <1>1, <1>8, Zenon
  <2>2. Holes = {} /\ Holes' = {end}
    BY <1>8, <2>1 DEF Holes, Range
  <2>3. mem' = SetTile(mem, end, 1, new - end)
    <3>1. end + (new - end) - Footer = new - Footer
      BY <1>2, <1>6
    <3> QED
      BY <2>1, <3>1 DEF SetTile
  <2>4. Leaves(mem, mem', Blocks, Holes, Blocks, Holes \cup {end}, new)
    BY <1>2, <1>6, <2>3, NewHole
  <2>5. Leaves(mem, mem', Blocks, Holes, Blocks, Holes', end')
    BY <1>1, <2>2, <2>4
  <2>6. Memory(mem', Nat)
    BY <1>2, <1>6, <2>3, TileMemory
  <2>7. Distinct(index') /\ index' \in Seq(Int)
    BY <1>2, <2>1 DEF Distinct
  <2> QED
    BY <1>1, <1>6, <1>7, <2>5, <2>6, <2>7, KeepsBlocks
<1>9. CASE index # <<>>
  <2>1. mem' = SetFooter(longer, FooterOf(longer, last), last) /\ index' = index
    BY <1>1, <1>9, Zenon
  <2>2. PICK z \in Holes : z + size(mem, z) = end
    <3>1. call'.op = "alloc" /\ end' # end
      BY <1>1, <1>6 DEF Alloc
    <3> QED
      BY <1>9, <3>1, Zenon DEF GrowsInnerHole
  <2>3. last \in Holes /\ \A g \in Holes : g <= last
    <3>1. Holes \in SUBSET (0 .. Words) /\ Words \in Nat /\ Holes # {}
      <4>1. Blocks \cup Holes \subseteq 0 .. Words
        BY <1>2, GoodBound
      <4> QED
        BY <2>2, <4>1, WordSizes
    <3>2. \E h \in Holes : \A g \in Holes : g <= h
      BY <3>1, GreatestOf
    <3> QED
      BY <3>2, Zenon DEF Holes
  <2> HIDE DEF last
  <2>4. last = z
    <3>1. Tiles(mem, Blocks \cup Holes, 0, end)
      BY <1>2 DEF Good
    <3>2. z <= last /\ z \in Blocks \cup Holes /\ last \in Blocks \cup Holes
      BY <2>2, <2>3
    <3>3. end \in Nat
      BY <1>2
    <3>4. /\ last \in Nat /\ size(mem, last) \in Nat /\ size(mem, last) >= 5
          /\ last + size(mem, last) <= end
      BY <3>1, <3>2, <3>3, Apart
    <3>5. z \in Nat /\ (last < z \/ last = z \/ z + size(mem, z) <= last)
      BY <3>1, <3>2, <3>3, Apart
    <3> QED
      BY <2>2, <3>2, <3>3, <3>4, <3>5
  <2>5. /\ last \in Holes /\ last \in Nat /\ last + size(mem, last) = end
        /\ size(mem, last) \in 5 .. MaxSize
    BY <1>2, <2>2, <2>4, GoodBound
  <2> DEFINE len == new - last
  <2>6. /\ len = size(mem, last) + new - end /\ len \in 5 .. MaxSize /\ new = last + len
        /\ len \in Nat /\ len >= 5
    <3> DEFINE s == size(mem, last)
    <3>1. /\ s \in Nat /\ s >= 5 /\ last \in Nat /\ last + s = end /\ end \in Nat /\ end < new
          /\ new \in Nat /\ new <= MaxSize /\ MaxSize \in Nat
      BY <1>2, <1>3, <1>6, <2>5
    <3> HIDE DEF s
    <3>2. len = s + new - end /\ len \in 5 .. MaxSize /\ new = last + len /\ len \in Nat /\ len >= 5
      BY <3>1
    <3> QED
      BY <3>2 DEF s
  <2> HIDE DEF len
  <2>7. longer = SetSize(mem, last, len)
    BY <2>6
  <2>8. FooterOf(longer, last) = last + len - Footer
    <3>1. size(longer, last) = Unsigned(len)
      <4>1. last \in Int /\ last + 2 \in Int
        BY <2>5
      <4>2. Read(SetSize(mem, last, len), last + 2) = Unsigned(len)
        BY <4>1, ReadSize
      <4> QED
        BY <2>7, <4>2, Zenon DEF size
    <3>2. Unsigned(len) = len /\ Signed(len) = len
      BY <1>3, <2>6, WordSizes
    <3> QED
      BY <3>1, <3>2, Zenon DEF FooterOf
  <2>9. mem' = Resize(mem, last, len)
    BY <2>1, <2>7, <2>8, Zenon DEF Resize
  <2>10. Tile(mem', last, len, TRUE) /\ Between(mem, mem', last, last + len)
    <3>1. Tile(mem, last, size(mem, last), TRUE)
      <4>1. last \in Blocks \cup Holes /\ (last \in Holes <=> TRUE)
        BY <2>5
      <4> QED
        BY <1>2, <2>5, <4>1, Zenon DEF Good, Tile
    <3>2. Read(mem, last) = HEAP_MAGIC /\ Read(mem, last + 1) # 0
      BY <3>1, Zenon DEF Tile
    <3> QED
      BY <2>5, <2>6, <2>9, <3>2, ResizeFacts
  <2>11. \A x \in Nat : x < last => Read(mem', x) = Read(mem, x)
    BY <2>10 DEF Between
  <2>12. Leaves(mem, mem', Blocks, Holes, Blocks, Holes, new)
    BY <1>2, <1>6, <2>5, <2>6, <2>10, <2>11, LastHole
  <2>13. Leaves(mem, mem', Blocks, Holes, Blocks, Holes', end')
    BY <1>1, <2>1, <2>12 DEF Holes
  <2>14. Memory(mem', Nat)
    BY <1>2, <2>5, <2>6, <2>9, ResizeMemory
  <2>15. Distinct(index') /\ index' \in Seq(Int)
    BY <1>2, <2>1
  <2> QED
    BY <1>1, <1>6, <1>7, <2>13, <2>14, <2>15, KeepsBlocks
<1> QED
  BY <1>8, <1>9
-----------------------------------------------------------------------------
(* free: the block becomes a hole.                                          *)
LEMMA BlockFacts ==
  ASSUME NEW m, NEW B, NEW H, NEW e, Good(m, B, H, e), NEW b \in B
  PROVE  /\ b \in Nat /\ size(m, b) \in 5 .. MaxSize /\ b + size(m, b) \in Nat
         /\ Tile(m, b, size(m, b), FALSE) /\ FooterOf(m, b) = b + size(m, b) - 2
         /\ IsMagic(m, b) /\ IsMagic(m, b + size(m, b) - 2)
         /\ b + size(m, b) \in B \cup H \cup {e} /\ b + size(m, b) <= e
<1>1. b \in Nat /\ size(m, b) \in 5 .. MaxSize /\ MaxSize \in Nat /\ b + size(m, b) <= e
  BY GoodBound, LimitsAssumption
<1>2. b \in B \cup H /\ b \notin H
  BY DEF Good
<1>3. Tile(m, b, size(m, b), FALSE)
  BY <1>2, Zenon DEF Good, Tile
<1>4. b + size(m, b) \in B \cup H \cup {e}
  BY <1>2 DEF Good, Tiles
<1>5. Signed(size(m, b)) = size(m, b)
  BY <1>1, WordSizes
<1>6. FooterOf(m, b) = b + size(m, b) - 2
  BY <1>5, Zenon DEF FooterOf
<1>7. IsMagic(m, b) /\ IsMagic(m, b + size(m, b) - 2)
  BY <1>3, Zenon DEF Tile, IsMagic
<1>8. b + size(m, b) \in Nat
  BY <1>1
<1> QED
  BY <1>1, <1>3, <1>4, <1>6, <1>7, <1>8

Clears(m, m2, b, n) ==
  Tile(m2, b, n, TRUE) /\ Between(m, m2, b, b + n) /\ Memory(m2, Nat)

LEMMA ClearedBlock ==
  ASSUME Memory(mem, Nat), NEW b \in Nat, NEW n \in 5 .. MaxSize, Tile(mem, b, n, FALSE),
         NEW ptr, ptr = b + 3, NEW foot, foot = b + n - 2
  PROVE  Clears(mem, Store(Zeroed(ptr, foot), b + 1, <<1>>), b, n)
<1> DEFINE z == Zeroed(ptr, foot)
           c == Store(z, b + 1, <<1>>)
<1>1. b \in Nat /\ n \in Nat /\ n >= 5 /\ ptr \in Nat /\ foot \in Nat /\ b + 1 \in Int
  BY LimitsAssumption
<1>2. \A x \in Int : Read(z, x) = IF ptr < foot /\ x \in ptr .. foot THEN 0 ELSE Read(mem, x)
  <2> SUFFICES ASSUME NEW x \in Int
               PROVE Read(z, x) = IF ptr < foot /\ x \in ptr .. foot THEN 0 ELSE Read(mem, x)
    OBVIOUS
  <2>1. Read(Clear(mem, ptr, foot), x) = IF x \in ptr .. foot THEN 0 ELSE Read(mem, x)
    BY ReadClear
  <2> QED
    BY <2>1, Zenon DEF Zeroed
<1>3. Memory(z, Nat)
  <2>1. Memory(Clear(mem, ptr, foot), Nat)
    BY ClearMemory
  <2> QED
    BY <2>1, Zenon DEF Zeroed
<1> HIDE DEF z
<1>4. \A x \in Int : Read(c, x) = IF x = b + 1 THEN 1 ELSE Read(z, x)
  BY <1>1, ReadWord
<1>5. Memory(c, Nat)
  BY <1>1, <1>3, WordMemory
<1> HIDE DEF c
<1>6. /\ Read(mem, b) = HEAP_MAGIC /\ Read(mem, b + 2) = n
      /\ Read(mem, b + n - 2) = HEAP_MAGIC /\ Read(mem, b + n - 1) = b
  BY DEF Tile
<1>7. /\ b \in Int /\ b + 1 \in Int /\ b + 2 \in Int /\ b + n - 2 \in Int /\ b + n - 1 \in Int
      /\ b # b + 1 /\ ~(b \in ptr .. foot) /\ b + 2 # b + 1 /\ ~(b + 2 \in ptr .. foot)
      /\ b + n - 2 # b + 1 /\ b + n - 1 # b + 1 /\ ~(b + n - 1 \in ptr .. foot)
  BY <1>1
<1>8. /\ Read(c, b) = HEAP_MAGIC /\ Read(c, b + 1) = 1 /\ Read(c, b + 2) = n
      /\ Read(c, b + n - 1) = b
  BY <1>2, <1>4, <1>6, <1>7, Zenon
<1>9. Tile(c, b, n, TRUE)
  BY <1>8 DEF Tile
<1>10. Between(mem, c, b, b + n)
  <2> SUFFICES ASSUME NEW x \in Int, x < b \/ b + n <= x PROVE Read(c, x) = Read(mem, x)
    BY DEF Between
  <2>1. x # b + 1 /\ ~(x \in ptr .. foot)
    BY <1>1
  <2> QED
    BY <1>2, <1>4, <2>1, Zenon
<1> QED
  BY <1>5, <1>9, <1>10, Zenon DEF Clears, c, z

(* free: the hole in front of the block.                                    *)
LEMMA Predecessor ==
  ASSUME NEW m, NEW B, NEW H, NEW e, Good(m, B, H, e), NEW b \in B \cup H, b # 0
  PROVE  \E g \in B \cup H : g < b /\ g + size(m, g) = b
<1> DEFINE T == B \cup H
           S == {g \in T : g < b}
<1>1. e \in Nat /\ Tiles(m, T, 0, e)
  BY LimitsAssumption DEF Good
<1>2. T \subseteq 0 .. Words /\ Words \in Nat /\ b \in Nat /\ b <= e
  <2>1. T \subseteq 0 .. Words
    BY GoodBound
  <2>2. b \in Nat /\ b <= e
    BY <1>1, Apart
  <2> QED
    BY <2>1, <2>2, WordSizes
<1>3. 0 \in S
  BY <1>1, <1>2 DEF Tiles
<1>4. S \in SUBSET (0 .. Words) /\ S # {}
  BY <1>2, <1>3
<1>5. PICK g \in S : \A j \in S : j <= g
  BY <1>2, <1>4, GreatestOf
<1> DEFINE next == g + size(m, g)
<1>6. g \in T /\ g < b
  OBVIOUS
<1>7. /\ g \in Nat /\ size(m, g) \in Nat /\ size(m, g) >= 5 /\ next \in T \cup {e}
      /\ (b < g \/ b = g \/ next <= b)
  BY <1>1, <1>6, Apart
<1>8. next <= b /\ g < next /\ next \in Nat
  BY <1>2, <1>6, <1>7
<1> HIDE DEF next
<1>9. CASE next \in T
  <2>1. next < b => next \in S
    BY <1>9
  <2>2. ~(next < b)
    BY <1>5, <1>7, <1>8, <2>1
  <2> QED
    BY <1>2, <1>6, <1>8, <2>2 DEF next
<1>10. CASE next = e
  BY <1>1, <1>2, <1>6, <1>8, <1>10 DEF next
<1> QED
  BY <1>7, <1>9, <1>10

LEMMA LeftHole ==
  ASSUME NEW m, NEW B, NEW H, NEW e, Good(m, B, H, e), Memory(m, Nat), NEW b \in B,
         NEW c, NEW n, Between(m, c, b, n), NEW prev, prev = Read(c, b - 1),
         IsMagic(c, b - Footer), Read(c, prev + 1) = 1
  PROVE  prev \in H /\ prev \in Nat /\ prev < b /\ prev + size(m, prev) = b /\ size(c, prev) = size(m, prev)
<1>1. b \in Nat /\ b \in B \cup H
  BY BlockFacts
<1>2. Read(c, b - 2) = Read(m, b - 2) /\ Read(c, b - 1) = Read(m, b - 1)
  BY <1>1 DEF Between
<1>3. Read(m, b - 2) = HEAP_MAGIC
  BY <1>2, Zenon DEF IsMagic, Footer
<1>4. b # 0
  <2>1. ASSUME b = 0 PROVE FALSE
    <3>1. b - 2 \notin DOMAIN m
      BY <2>1 DEF Memory
    <3> QED
      BY <1>3, <3>1 DEF Read, HEAP_MAGIC
  <2> QED
    BY <2>1
<1>5. PICK g \in B \cup H : g < b /\ g + size(m, g) = b
  <2>1. \A x \in B \cup H : x # 0 => \E g \in B \cup H : g < x /\ g + size(m, g) = x
    BY Predecessor
  <2> QED
    BY <1>1, <1>4, <2>1, Zenon
<1>6. g \in Nat /\ size(m, g) \in Nat /\ size(m, g) >= 5
  BY GoodBound DEF Good, Tiles
<1>7. Tile(m, g, size(m, g), g \in H)
  BY Zenon DEF Good
<1>8. g + size(m, g) - 2 = b - 2 /\ g + size(m, g) - 1 = b - 1
  BY <1>5, <1>6
<1>9. Read(m, b - 1) = g
  BY <1>3, <1>7, <1>8, Zenon DEF Tile
<1>10. prev = g
  BY <1>2, <1>9, Zenon
<1>11. g + 1 \in Int /\ g + 2 \in Int /\ g + 1 < b /\ g + 2 < b
  BY <1>1, <1>5, <1>6
<1>12. Read(c, g + 1) = Read(m, g + 1) /\ Read(c, g + 2) = Read(m, g + 2)
  BY <1>11, Zenon DEF Between
<1>13. Read(m, g + 1) # 0
  BY <1>10, <1>12
<1>14. g \in H
  BY <1>7, <1>13, Zenon DEF Tile
<1> QED
  BY <1>5, <1>6, <1>10, <1>12, <1>14 DEF size

(* What free makes of the block and the hole in front of it.                *)
Merged(m, m2, B, H, b, h, next, e) ==
  /\ Leaves(m, m2, B, H, B \ {b}, H \cup {h}, e)
  /\ h \in Nat /\ h + size(m2, h) = next /\ Between(m, m2, h, next) /\ Memory(m2, Nat)
  /\ h \in H \/ h = b

LEMMA LeavesTwice ==
  ASSUME NEW m, NEW m1, NEW m2, NEW B, NEW H, NEW B1, NEW H1, NEW B2, NEW H2, NEW e, NEW e2,
         Leaves(m, m1, B, H, B1, H1, e), Leaves(m1, m2, B1, H1, B2, H2, e2)
  PROVE  Leaves(m, m2, B, H, B2, H2, e2)
BY DEF Leaves

LEMMA MergedLeft ==
  ASSUME NEW m, NEW c, NEW B, NEW H, NEW e, Good(m, B, H, e), NEW b \in B, Memory(m, Nat),
         NEW n, n = size(m, b), Clears(m, c, b, n), NEW foot, foot = b + n - 2,
         NEW h, h = Read(c, b - 1), IsMagic(c, b - Footer), Read(c, h + 1) = 1,
         NEW s, s = size(c, h) + size(c, b),
         NEW m2, m2 = SetSize(Store(c, foot + 1, <<h>>), h, s)
  PROVE  Merged(m, m2, B, H, b, h, b + n, e) /\ h \in H
<1>1. /\ b \in Nat /\ n \in 5 .. MaxSize /\ b + n \in Nat /\ b + n <= e
  BY BlockFacts
<1>2. Tile(c, b, n, TRUE) /\ Between(m, c, b, b + n) /\ Memory(c, Nat)
  BY Zenon DEF Clears
<1>3. Leaves(m, c, B, H, B \ {b}, H \cup {b}, e)
  BY <1>2, BlockToHole
<1>4. /\ h \in H /\ h \in Nat /\ h < b /\ h + size(m, h) = b /\ size(c, h) = size(m, h)
  BY <1>2, LeftHole
<1>5. size(c, b) = n /\ size(c, h) \in Nat /\ size(c, h) >= 5
  <2>1. size(c, b) = n
    BY <1>2, Zenon DEF Tile, size
  <2>2. size(m, h) \in Nat /\ size(m, h) >= 5
    BY <1>4 DEF Good, Tiles
  <2> QED
    BY <1>4, <2>1, <2>2
<1>6. e \in 0 .. MaxSize /\ MaxSize \in Nat
  BY LimitsAssumption DEF Good
<1> DEFINE w == size(c, h)
<1>7. s = w + n /\ h + w = b /\ w \in Nat /\ w >= 5
  BY <1>4, <1>5
<1> HIDE DEF w
<1>8. s \in 5 .. MaxSize /\ h + s = b + n /\ s \in Int /\ s \in Nat /\ foot + 1 \in Int
  BY <1>1, <1>4, <1>6, <1>7
<1> DEFINE d == Store(c, foot + 1, <<h>>)
<1>9. \A x \in Int : Read(d, x) = IF x = foot + 1 THEN h ELSE Read(c, x)
  BY <1>8, ReadWord
<1>10. Memory(d, Nat)
  <2>1. foot + 1 \in Nat /\ h \in Int
    BY <1>1, <1>4
  <2> QED
    BY <1>2, <1>8, <2>1, WordMemory
<1> HIDE DEF d
<1>11. m2 = SetSize(d, h, s)
  BY DEF d
<1>12. Memory(m2, Nat)
  <2>1. h + 2 \in Nat /\ h \in Int
    BY <1>4
  <2> QED
    BY <1>8, <1>10, <1>11, <2>1, SizeMemory
<1>13. \A x \in Int : Read(m2, x) = IF x = h + 2 THEN s ELSE IF x = foot + 1 THEN h ELSE Read(c, x)
  <2>1. h \in Int /\ Unsigned(s) = s
    BY <1>4, <1>6, <1>8, WordSizes
  <2>2. \A x \in Int : Read(SetSize(d, h, s), x) = IF x = h + 2 THEN Unsigned(s) ELSE Read(d, x)
    BY <2>1, ReadSize
  <2> QED
    BY <1>9, <1>11, <2>1, <2>2
<1>14. Tile(m2, h, s, TRUE)
  <2>1. Read(c, h) = HEAP_MAGIC
    <3>1. h \in Int /\ h < b
      BY <1>4
    <3>2. Read(c, h) = Read(m, h)
      BY <1>2, <3>1, Zenon DEF Between
    <3>3. Tile(m, h, size(m, h), TRUE)
      <4>1. h \in B \cup H /\ (h \in H <=> TRUE)
        BY <1>4
      <4> QED
        BY <4>1, Zenon DEF Good, Tile
    <3> QED
      BY <3>2, <3>3, Zenon DEF Tile
  <2>2. /\ h \in Int /\ h + 1 \in Int /\ h + 2 \in Int /\ h + s - 1 \in Int
        /\ h # h + 2 /\ h # foot + 1 /\ h + 1 # h + 2 /\ h + 1 # foot + 1
        /\ h + s - 1 = foot + 1 /\ h + s - 1 # h + 2
    BY <1>1, <1>4, <1>8
  <2>3. /\ Read(m2, h) = HEAP_MAGIC /\ Read(m2, h + 2) = s /\ Read(m2, h + 1) = 1
        /\ Read(m2, h + s - 1) = h
    BY <1>13, <2>1, <2>2, Zenon
  <2> QED
    BY <2>3 DEF Tile
<1>15. Between(c, m2, h, h + s) /\ Between(m, m2, h, b + n)
  <2>1. \A x \in Int : x < h \/ b + n <= x => x # h + 2 /\ x # foot + 1 /\ (x < b \/ b + n <= x)
    BY <1>1, <1>4, <1>8
  <2>2. \A x \in Int : x < h \/ b + n <= x => Read(m2, x) = Read(c, x) /\ Read(c, x) = Read(m, x)
    BY <1>2, <1>13, <2>1, Zenon DEF Between
  <2> QED
    BY <1>8, <2>2, Zenon DEF Between
<1>16. Leaves(c, m2, B \ {b}, H \cup {b}, B \ {b}, H, e)
  <2> DEFINE B1 == B \ {b}
             H1 == H \cup {b}
  <2>1. Good(c, B1, H1, e) /\ h \in H1 /\ b \in H1 /\ h + size(c, h) = b
    BY <1>3, <1>4 DEF Leaves
  <2>2. H1 \ {b} = H
    <3>1. b \notin H
      BY DEF Good
    <3> QED
      BY <3>1
  <2> HIDE DEF B1, H1
  <2>3. Leaves(c, m2, B1, H1, B1, H1 \ {b}, e)
    BY <1>14, <1>15, <2>1, TwoHoles
  <2> QED
    BY <2>2, <2>3 DEF B1, H1
<1>17. Leaves(m, m2, B, H, B \ {b}, H \cup {h}, e)
  <2>1. H \cup {h} = H
    BY <1>4
  <2>2. Leaves(m, m2, B, H, B \ {b}, H, e)
    BY <1>3, <1>16, LeavesTwice
  <2> QED
    BY <2>1, <2>2
<1>18. size(m2, h) = s
  BY <1>14, Zenon DEF Tile, size
<1> QED
  BY <1>4, <1>8, <1>12, <1>15, <1>17, <1>18, Zenon DEF Merged

LEMMA NotMergedLeft ==
  ASSUME NEW m, NEW c, NEW B, NEW H, NEW e, Good(m, B, H, e), NEW b \in B,
         NEW n, n = size(m, b), Clears(m, c, b, n)
  PROVE  Merged(m, c, B, H, b, b, b + n, e)
<1>1. b \in Nat /\ Tile(c, b, n, TRUE) /\ Between(m, c, b, b + n) /\ Memory(c, Nat)
  BY BlockFacts, Zenon DEF Clears
<1>2. Leaves(m, c, B, H, B \ {b}, H \cup {b}, e)
  BY <1>1, BlockToHole
<1>3. size(c, b) = n
  BY <1>1, Zenon DEF Tile, size
<1> QED
  BY <1>1, <1>2, <1>3, Zenon DEF Merged
-----------------------------------------------------------------------------
(* free: the end of the heap.                                               *)
LEMMA ContractedIs ==
  ASSUME NEW h \in Nat, NEW e \in MinSize .. MaxSize, h <= e
  PROVE  /\ Contracted(h) \in MinSize .. MaxSize /\ Contracted(h) <= e
         /\ Contracted(h) = MinSize \/ Contracted(h) = h
<1> DEFINE odd == (h \div PageSize) % 2 = 1
           rounded == IF odd THEN 2 * PageSize ELSE h
<1> HIDE DEF odd
<1>1. /\ MinSize \in Nat /\ MaxSize \in Nat /\ PageSize \in Nat /\ 2 * PageSize <= MinSize
      /\ 2 * PageSize \in Nat /\ e \in Nat /\ MinSize <= e /\ e <= MaxSize
  BY LimitsAssumption, PagesAssumption
<1>2. Contracted(h) = IF rounded < MinSize THEN MinSize ELSE rounded
  BY Zenon DEF Contracted, odd
<1>3. CASE odd
  BY <1>1, <1>2, <1>3
<1>4. CASE ~odd
  BY <1>1, <1>2, <1>4
<1> QED
  BY <1>3, <1>4

(* The last hole of memory j gets the length that is left of it.            *)
Shortened(m, m2, h, n) ==
  /\ Tile(m2, h, n, TRUE) /\ Memory(m2, Nat)
  /\ \A x \in Nat : x < h => Read(m2, x) = Read(m, x)

LEMMA Shorten ==
  ASSUME NEW m, NEW j, NEW h \in Nat, NEW e \in 0 .. MaxSize, NEW new \in 0 .. MaxSize,
         h + 5 <= new, new <= e, Memory(j, Nat),
         Read(j, h) = HEAP_MAGIC, Read(j, h + 1) # 0, size(j, h) = e - h,
         \A x \in Nat : x < h => Read(j, x) = Read(m, x),
         NEW gives, gives = Unsigned(size(j, h) - (e - new)),
         NEW short, short = SetSize(j, h, gives)
  PROVE  gives # 0 /\ Shortened(m, SetFooter(short, FooterOf(short, h), h), h, new - h)
<1> DEFINE n == new - h
           m2 == SetFooter(short, FooterOf(short, h), h)
<1>1. MaxSize \in Nat /\ e \in Nat /\ new \in Nat
  BY LimitsAssumption
<1>2. n \in 5 .. MaxSize /\ n \in 0 .. MaxSize /\ n # 0 /\ h \in Int /\ h + 2 \in Int
  BY <1>1
<1>3. size(j, h) - (e - new) = n
  BY <1>1
<1> HIDE DEF n
<1>4. gives = n
  BY <1>1, <1>2, <1>3, WordSizes
<1>5. FooterOf(short, h) = h + n - Footer
  <2>1. Read(SetSize(j, h, n), h + 2) = Unsigned(n)
    BY <1>2, ReadSize
  <2>2. size(short, h) = Unsigned(n)
    BY <1>4, <2>1, Zenon DEF size
  <2>3. Unsigned(n) = n /\ Signed(n) = n
    BY <1>1, <1>2, WordSizes
  <2> QED
    BY <2>2, <2>3, Zenon DEF FooterOf
<1>6. m2 = Resize(j, h, n)
  BY <1>4, <1>5, Zenon DEF Resize
<1> HIDE DEF m2
<1>7. Tile(m2, h, n, TRUE) /\ Between(j, m2, h, h + n)
  BY <1>2, <1>6, ResizeFacts
<1>8. Memory(m2, Nat)
  BY <1>2, <1>6, ResizeMemory
<1>9. \A x \in Nat : x < h => Read(m2, x) = Read(m, x)
  BY <1>7 DEF Between
<1>10. Shortened(m, m2, h, n) /\ gives # 0
  BY <1>2, <1>4, <1>7, <1>8, <1>9, Zenon DEF Shortened
<1> QED
  BY <1>10, Zenon DEF m2, n

(* The pages given back lie behind the heap that is left.                   *)
LEMMA GivenBackBehind ==
  ASSUME end \in Nat, NEW new \in Nat, new = end \/ new % PageSize = 0, NEW x \in Nat, x < new
  PROVE  x \div PageSize \notin GivenBack(new)
<1> SUFFICES ASSUME x \div PageSize \in GivenBack(new) PROVE FALSE
  OBVIOUS
<1>1. PageSize \in Nat /\ PageSize > 0
  BY PagesAssumption
<1>2. PICK i \in new + 1 .. end - PageSize : x \div PageSize = i \div PageSize
  BY Zenon DEF GivenBack
<1>3. i \in Nat /\ new < i /\ new % PageSize = 0
  BY <1>1, <1>2
<1>4. \A h \in Nat : /\ h \div PageSize \in Int /\ h % PageSize \in 0 .. PageSize - 1
                     /\ h = PageSize * (h \div PageSize) + (h % PageSize)
  BY <1>1, Division
<1> DEFINE q == x \div PageSize
           t == new \div PageSize
           r == x % PageSize
           s == i % PageSize
<1>5. /\ q \in Int /\ t \in Int /\ r \in 0 .. PageSize - 1 /\ s \in 0 .. PageSize - 1
      /\ x = PageSize * q + r /\ i = PageSize * q + s /\ new = PageSize * t + 0
  <2>1. /\ x \div PageSize \in Int /\ x % PageSize \in 0 .. PageSize - 1
        /\ x = PageSize * (x \div PageSize) + (x % PageSize)
    BY <1>4
  <2>2. /\ i % PageSize \in 0 .. PageSize - 1
        /\ i = PageSize * (i \div PageSize) + (i % PageSize)
    BY <1>3, <1>4
  <2>3. /\ new \div PageSize \in Int
        /\ new = PageSize * (new \div PageSize) + (new % PageSize)
    BY <1>4
  <2> QED
    BY <1>2, <1>3, <2>1, <2>2, <2>3, Zenon
<1> HIDE DEF q, t, r, s
<1>6. q < t
  <2> SUFFICES ASSUME t <= q PROVE FALSE
    BY <1>5
  <2> DEFINE k == q - t
  <2>1. k \in Nat /\ q = t + k
    BY <1>5
  <2> HIDE DEF k
  <2>2. PageSize * k >= 0 /\ PageSize * k \in Int /\ PageSize * q = PageSize * t + PageSize * k
    BY <1>1, <1>5, <2>1
  <2> QED
    BY <1>1, <1>5, <2>2
<1>7. PageSize * q + PageSize <= PageSize * t
  <2> DEFINE k == t - q - 1
  <2>1. k \in Nat /\ t = q + 1 + k
    BY <1>5, <1>6
  <2> HIDE DEF k
  <2>2. /\ PageSize * k >= 0 /\ PageSize * k \in Int
        /\ PageSize * t = PageSize * q + PageSize + PageSize * k
    BY <1>1, <1>5, <2>1
  <2> QED
    BY <1>1, <1>5, <2>2
<1> QED
  BY <1>1, <1>3, <1>5, <1>7

(* What memory holds in front of the new end is not forgotten.              *)
LEMMA ForgetKeeps ==
  ASSUME end \in Nat, NEW new \in Nat, new = end \/ new % PageSize = 0,
         NEW lost \in SUBSET GivenBack(new), NEW m, Memory(m, Nat), NEW m2, m2 = Forget(m, lost)
  PROVE  Memory(m2, Nat) /\ \A x \in Nat : x < new => Read(m2, x) = Read(m, x)
<1> DEFINE D == {y \in DOMAIN m : y \div PageSize \notin lost}
           f == [x \in D |-> m[x]]
<1>1. m2 = f
  BY Zenon DEF Forget
<1>2. DOMAIN f = D /\ \A x \in D : f[x] = m[x]
  OBVIOUS
<1>3. ASSUME NEW x \in Nat, x < new PROVE x \in D <=> x \in DOMAIN m
  <2>1. x \div PageSize \notin GivenBack(new)
    BY <1>3, GivenBackBehind
  <2> QED
    BY <2>1
<1>4. D \subseteq DOMAIN m
  OBVIOUS
<1> HIDE DEF D, f
<1>5. Memory(f, Nat)
  BY <1>2, <1>4 DEF Memory
<1>6. \A x \in Nat : x < new => Read(f, x) = Read(m, x)
  BY <1>2, <1>3, Zenon DEF Read
<1> QED
  BY <1>1, <1>5, <1>6

LEMMA ForgetLeaves ==
  ASSUME NEW m, NEW m2, NEW B, NEW H, NEW B2, NEW H2, NEW e2, Leaves(m, m2, B, H, B2, H2, e2),
         NEW m3, \A x \in Nat : x < e2 => Read(m3, x) = Read(m2, x)
  PROVE  Leaves(m, m3, B, H, B2, H2, e2)
<1>1. /\ Good(m2, B2, H2, e2) /\ B2 \subseteq B /\ \A g \in B2 : size(m2, g) = size(m, g)
  BY Zenon DEF Leaves
<1>2. e2 \in Nat
  BY <1>1, LimitsAssumption DEF Good
<1>3. ASSUME NEW g \in B2 \cup H2
      PROVE  size(m3, g) = size(m2, g) /\ Tile(m3, g, size(m3, g), g \in H2)
  <2> DEFINE n == size(m2, g)
  <2>1. g \in Nat /\ n \in Nat /\ n >= 5 /\ g + n <= e2
    BY <1>1, GoodBound
  <2>2. Tile(m2, g, n, g \in H2)
    BY <1>1, Zenon DEF Good
  <2> HIDE DEF n
  <2>3. /\ g \in Nat /\ g + 1 \in Nat /\ g + 2 \in Nat /\ g + n - 2 \in Nat /\ g + n - 1 \in Nat
        /\ g < e2 /\ g + 1 < e2 /\ g + 2 < e2 /\ g + n - 2 < e2 /\ g + n - 1 < e2
    BY <1>2, <2>1
  <2>4. /\ Read(m3, g) = Read(m2, g) /\ Read(m3, g + 1) = Read(m2, g + 1)
        /\ Read(m3, g + 2) = Read(m2, g + 2)
        /\ Read(m3, g + n - 2) = Read(m2, g + n - 2) /\ Read(m3, g + n - 1) = Read(m2, g + n - 1)
    BY <2>3, Zenon
  <2>5. size(m3, g) = n
    BY <2>4, Zenon DEF size, n
  <2>6. Tile(m3, g, n, g \in H2)
    BY <2>2, <2>4, Zenon DEF Tile
  <2> QED
    BY <2>5, <2>6, Zenon DEF n
<1>4. Tiles(m3, B2 \cup H2, 0, e2)
  <2>1. Tiles(m2, B2 \cup H2, 0, e2)
    BY <1>1, Zenon DEF Good
  <2> QED
    BY <1>3, <2>1 DEF Tiles
<1>5. Good(m3, B2, H2, e2)
  BY <1>1, <1>3, <1>4, Zenon DEF Good
<1> QED
  BY <1>1, <1>3, <1>5 DEF Leaves

LEMMA FreeCloses ==
  ASSUME Sound, NEW ptr \in Int, Memory(mem', Nat),
         Leaves(mem, mem', Blocks, Holes, Blocks \ {ptr - Header}, Holes', end'),
         Distinct(index'), index' \in Seq(Int), end' \in MinSize .. MaxSize,
         mapped' \in end' .. MaxSize, halted' = halted,
         used' = {u \in used : u.ptr # ptr}, call' = Freed(ptr, 0)
  PROVE  Sound'
<1>1. /\ Held /\ used \subseteq [ptr : Int, len : Requests] /\ halted \in BOOLEAN
  BY SoundFacts, Zenon
<1>2. Blocks' = Blocks \ {ptr - Header}
  <2>1. \A u \in used : u.ptr \in Int /\ (u.ptr - Header = ptr - Header <=> u.ptr = ptr)
    BY <1>1
  <2> QED
    BY <2>1 DEF Blocks
<1>3. Good(mem', Blocks', Holes', end') /\ \A g \in Blocks' : size(mem', g) = size(mem, g)
  BY <1>2, Zenon DEF Leaves
<1>4. Held'
  <2> SUFFICES ASSUME NEW u \in used' PROVE size(mem', u.ptr - Header) >= u.len + Header + Footer
    BY DEF Held
  <2>1. u \in used /\ u.ptr - Header \in Blocks'
    BY DEF Blocks
  <2>2. size(mem, u.ptr - Header) >= u.len + Header + Footer
    BY <1>1, <2>1 DEF Held
  <2> QED
    BY <1>3, <2>1, <2>2
<1>5. call' \in [op : {"alloc", "free"}, arg : Int, align : BOOLEAN, ret : Int]
  BY DEF Freed
<1>6. used' \subseteq [ptr : Int, len : Requests]
  BY <1>1
<1> QED
  BY <1>1, <1>3, <1>4, <1>5, <1>6, Closes

LEMMA ReleaseIsSound ==
  ASSUME Sound, NEW ptr \in Int, ptr - Header \in Blocks, Release(ptr),
         ~MergesForward(call'), ~ShrinksPastHole(call'), ~OldHeaderAtEnd(call'),
         ~FaultsAtEnd(call')
  PROVE  Sound' /\ halted' = halted
<1> DEFINE block == ptr - Header
           foot  == FooterOf(mem, block)
           clear == Store(Zeroed(ptr, foot), block + 1, <<1>>)
           prev  == Read(clear, block - 1)
           left  == IsMagic(clear, block - Footer) /\ Read(clear, prev + 1) = 1
           h     == IF left THEN prev ELSE block
           back  == IF left
                    THEN SetSize(Store(clear, foot + 1, <<h>>), h, size(clear, h) + size(clear, block))
                    ELSE clear
           next  == foot + Footer
           right == IsMagic(back, next) /\ IsHole(back, next)
           joined == IF right THEN SetSize(back, h, size(back, h) + size(back, next)) ELSE back
           last  == IF right THEN FooterOf(back, next) ELSE foot
           rest  == IF right THEN RemoveAt(index, Least(Positions(next))) ELSE index
           atEnd == last + Footer = end
           new   == IF atEnd THEN Contracted(h) ELSE end
           gives == Unsigned(size(joined, h) - (end - new))
           short == SetSize(joined, h, gives)
           gone  == {i \in 1 .. Len(rest) : rest[i] = next}
           holes == IF atEnd /\ gives = 0 /\ gone # {} THEN RemoveAt(rest, Least(gone)) ELSE rest
           shrunk == IF atEnd /\ gives # 0 THEN SetFooter(short, FooterOf(short, h), h) ELSE joined
           n     == size(mem, block)
           B1    == Blocks \ {block}
           H1    == Holes \cup {h}
(* The assignments of Release.                                              *)
<1>1. ~(next >= mapped \/ (right /\ Positions(next) = {})) =>
        /\ end' = new /\ mapped' = mapped
        /\ \E lost \in SUBSET GivenBack(new) : mem' = Forget(shrunk, lost)
        /\ index' = IF left THEN holes ELSE insert(mem', holes, h)
        /\ used' = {u \in used : u.ptr # ptr} /\ call' = Freed(ptr, 0) /\ halted' = halted
  <2> SUFFICES ASSUME ~(next >= mapped \/ (right /\ Positions(next) = {}))
               PROVE  /\ end' = new /\ mapped' = mapped
                      /\ \E lost \in SUBSET GivenBack(new) : mem' = Forget(shrunk, lost)
                      /\ index' = IF left THEN holes ELSE insert(mem', holes, h)
                      /\ used' = {u \in used : u.ptr # ptr} /\ call' = Freed(ptr, 0)
                      /\ halted' = halted
    BY Zenon
  <2>1. end' = new
    BY Zenon DEF Release
  <2>2. \E lost \in SUBSET GivenBack(new) : mem' = Forget(shrunk, lost)
    BY Zenon DEF Release
  <2>3. index' = IF left THEN holes ELSE insert(mem', holes, h)
    BY Zenon DEF Release
  <2>4. /\ used' = {u \in used : u.ptr # ptr} /\ call' = Freed(ptr, 0)
        /\ mapped' = mapped /\ halted' = halted
    BY Zenon DEF Release
  <2> QED
    BY <2>1, <2>2, <2>3, <2>4, Zenon
<1>2. call'.op = "free" /\ call'.arg = ptr
  <2>1. call' = Freed(ptr, 0) \/ call' = Freed(ptr, Pending)
    BY Zenon DEF Release, Panic
  <2> QED
    BY <2>1 DEF Freed
<1>3. /\ Good(mem, Blocks, Holes, end) /\ Distinct(index) /\ index \in Seq(Int)
      /\ Memory(mem, Nat) /\ end \in Nat /\ end \in MinSize .. MaxSize
      /\ mapped \in end .. MaxSize
  BY SoundFacts, Zenon
<1>4. block \in Blocks
  OBVIOUS
<1> HIDE DEF block
<1>5. /\ block \in Nat /\ n \in 5 .. MaxSize /\ block + n \in Nat /\ Tile(mem, block, n, FALSE)
      /\ foot = block + n - 2 /\ block + n \in Blocks \cup Holes \cup {end} /\ block + n <= end
  BY <1>3, <1>4, BlockFacts, ZenonT(60)
<1> HIDE DEF n
<1>6. ptr = block + 3 /\ MaxSize \in Nat /\ MinSize \in Nat
  BY <1>5, LimitsAssumption DEF block
<1> HIDE DEF foot
<1>7. next = block + n
  BY <1>5, <1>6
<1>8. Clears(mem, clear, block, n)
  BY <1>3, <1>5, <1>6, ClearedBlock
<1> HIDE DEF clear
<1>9. /\ Merged(mem, back, Blocks, Holes, block, h, next, end)
      /\ left => h \in Holes
      /\ ~left => h = block
  <2>1. CASE left
    <3>1. h = prev
      BY <2>1, Zenon
    <3>2. back = SetSize(Store(clear, foot + 1, <<h>>), h, size(clear, h) + size(clear, block))
      BY <2>1, Zenon
    <3>3. IsMagic(clear, block - Footer) /\ h = Read(clear, block - 1) /\ Read(clear, h + 1) = 1
      BY <2>1, <3>1, Zenon
    <3> HIDE DEF h, back, left
    <3>4. Merged(mem, back, Blocks, Holes, block, h, block + n, end) /\ h \in Holes
      <4>1. foot = block + n - 2 /\ n = size(mem, block)
        BY <1>5 DEF n
      <4> DEFINE s == size(clear, h) + size(clear, block)
      <4>2. back = SetSize(Store(clear, foot + 1, <<h>>), h, s)
        BY <3>2, Zenon
      <4> HIDE DEF s
      <4>3. s = size(clear, h) + size(clear, block)
        BY Zenon DEF s
      <4>4. Good(mem, Blocks, Holes, end) /\ Memory(mem, Nat)
        BY <1>3, Zenon
      <4> QED
        BY <1>4, <1>8, <3>3, <4>1, <4>2, <4>3, <4>4, MergedLeft
    <3> QED
      BY <1>7, <2>1, <3>4, Zenon
  <2>2. CASE ~left
    <3>1. h = block /\ back = clear
      BY <2>2, Zenon
    <3>2. n = size(mem, block) /\ Good(mem, Blocks, Holes, end)
      BY <1>3, Zenon DEF n
    <3> HIDE DEF h, back, left
    <3>3. Merged(mem, clear, Blocks, Holes, block, block, block + n, end)
      BY <1>4, <1>8, <3>2, NotMergedLeft
    <3> QED
      BY <1>7, <2>2, <3>1, <3>3, Zenon
  <2> QED
    BY <2>1, <2>2, Zenon
<1> HIDE DEF prev, left, h, back, next
<1>10. /\ Leaves(mem, back, Blocks, Holes, B1, H1, end) /\ Good(back, B1, H1, end)
       /\ h \in Nat /\ h + size(back, h) = next /\ Between(mem, back, h, next) /\ Memory(back, Nat)
  BY <1>9, Zenon DEF Merged, Leaves
<1>11. /\ next \in Nat /\ next <= end /\ next \in Blocks \cup Holes \cup {end} /\ h \in H1
       /\ size(back, h) \in 5 .. MaxSize /\ h < next
  <2>1. size(back, h) \in 5 .. MaxSize
    BY <1>10, GoodBound
  <2> QED
    BY <1>5, <1>6, <1>7, <1>10, <2>1
<1>12. left \in BOOLEAN /\ (left <=> h \in Holes)
  <2>1. left \in BOOLEAN
    BY Zenon DEF left
  <2>2. block \notin Holes
    BY <1>3, <1>4 DEF Good
  <2> QED
    BY <1>9, <2>1, <2>2, Zenon
<1>13. block # next /\ h # next
  BY <1>5, <1>6, <1>7, <1>11
(* The page behind the block is present.                                    *)
<1>14. ~(next >= mapped)
  <2> SUFFICES ASSUME next >= mapped PROVE FALSE
    BY Zenon
  <2>1. next = end /\ end = mapped
    BY <1>3, <1>11
  <2> QED
    BY <1>2, <2>1, Zenon DEF FaultsAtEnd, next, foot, block
(* A block follows: the heap keeps its end.                                 *)
<1>15. CASE next \in Blocks
  <2>1. next \in B1
    BY <1>13, <1>15
  <2>2. /\ Tile(back, next, size(back, next), FALSE) /\ next + size(back, next) <= end
        /\ size(back, next) \in 5 .. MaxSize
    BY <1>10, <2>1, BlockFacts
  <2>3. ~right
    BY <2>2, Zenon DEF Tile, IsHole
  <2>4. joined = back /\ last = foot /\ rest = index
    BY <2>3, Zenon
  <2>5. ~atEnd
    <3>1. next # end
      BY <1>6, <1>11, <2>2
    <3> QED
      BY <2>4, <3>1 DEF next
  <2>6. new = end /\ holes = index
    BY <2>4, <2>5, Zenon
  <2>7. shrunk = back
    BY <2>4, <2>5, Zenon
  <2> HIDE DEF shrunk
  <2>8. /\ end' = end /\ mapped' = mapped
        /\ \E lost \in SUBSET GivenBack(end) : mem' = Forget(back, lost)
        /\ index' = IF left THEN index ELSE insert(mem', index, h)
        /\ used' = {u \in used : u.ptr # ptr} /\ call' = Freed(ptr, 0) /\ halted' = halted
    BY <1>1, <1>14, <2>3, <2>6, <2>7, Zenon
  <2>9. /\ Memory(mem', Nat) /\ \A x \in Nat : x < end => Read(mem', x) = Read(back, x)
    <3>1. PICK lost \in SUBSET GivenBack(end) : mem' = Forget(back, lost)
      BY <2>8, Zenon
    <3> QED
      BY <1>3, <1>10, <3>1, ForgetKeeps
  <2>10. index' \in Seq(Int) /\ Distinct(index') /\ Range(index') = Holes \cup {h}
    <3>1. h \in Int /\ Holes = Range(index)
      BY <1>10 DEF Holes
    <3> QED
      BY <1>3, <1>12, <2>8, <3>1, IndexAfter
  <2>11. Leaves(mem, mem', Blocks, Holes, Blocks \ {ptr - Header}, Holes', end')
    <3> HIDE DEF B1, H1
    <3>1. Leaves(mem, mem', Blocks, Holes, B1, H1, end)
      BY <1>10, <2>9, ForgetLeaves, Zenon
    <3> QED
      BY <2>8, <2>10, <3>1, Zenon DEF Holes, block, B1, H1
  <2> QED
    BY <1>3, <2>8, <2>10, <2>11, <2>9, FreeCloses
(* Otherwise the end of the heap follows, at once or behind one more hole.  *)
<1>16. CASE next \in Holes \cup {end} /\ next \notin Blocks
  <2>1. next = end => ~right
    <3> SUFFICES ASSUME next = end PROVE ~IsMagic(back, next)
      BY Zenon
    <3>1. ~IsMagic(mem, end)
      BY <1>2, Zenon DEF OldHeaderAtEnd, next, foot, block
    <3>2. Read(back, end) = Read(mem, end)
      BY <1>3, <1>10 DEF Between
    <3> QED
      BY <3>1, <3>2, Zenon DEF IsMagic
  <2>2. next # end => /\ next \in Holes /\ right /\ Tile(back, next, size(back, next), TRUE)
                      /\ size(back, next) \in 5 .. MaxSize
    <3> SUFFICES ASSUME next # end
                 PROVE  /\ next \in Holes /\ right /\ Tile(back, next, size(back, next), TRUE)
                        /\ size(back, next) \in 5 .. MaxSize
      OBVIOUS
    <3>1. next \in Holes /\ next \in H1 /\ next \in B1 \cup H1 /\ (next \in H1 <=> TRUE)
      BY <1>16
    <3>2. Tile(back, next, size(back, next), TRUE) /\ size(back, next) \in 5 .. MaxSize
      <4>1. size(back, next) \in 5 .. MaxSize
        BY <1>10, <3>1, GoodBound
      <4> QED
        BY <1>10, <3>1, <4>1, Zenon DEF Good, Tile
    <3> QED
      BY <3>1, <3>2, Zenon DEF Tile, IsMagic, IsHole
  <2>3. ~(right /\ Positions(next) = {})
    <3> SUFFICES ASSUME right PROVE Positions(next) # {}
      BY Zenon
    <3>1. next \in Range(index)
      BY <2>1, <2>2 DEF Holes
    <3>2. PICK i \in 1 .. Len(index) : index[i] = next
      BY <1>3, <3>1, RangeOf
    <3> QED
      BY <3>2 DEF Positions
  <2> HIDE DEF shrunk
  <2>4. /\ end' = new /\ mapped' = mapped
        /\ \E lost \in SUBSET GivenBack(new) : mem' = Forget(shrunk, lost)
        /\ index' = IF left THEN holes ELSE insert(mem', holes, h)
        /\ used' = {u \in used : u.ptr # ptr} /\ call' = Freed(ptr, 0) /\ halted' = halted
    BY <1>1, <1>14, <2>3, Zenon
  <2>5. next # end => next + size(back, next) = end
    <3> SUFFICES ASSUME next # end PROVE next + size(back, next) = end
      OBVIOUS
    <3>1. call'.ret # Pending
      BY <2>4 DEF Freed, Pending
    <3>2. next + size(mem, next) = end
      BY <1>2, <2>2, <3>1, Zenon DEF MergesForward, next, foot, block
    <3>3. next + 2 \in Int /\ next <= next + 2
      BY <1>11
    <3>4. Read(back, next + 2) = Read(mem, next + 2)
      BY <1>10, <3>3, Zenon DEF Between
    <3> QED
      BY <3>2, <3>4, Zenon DEF size
  <2>6. atEnd
    <3>1. CASE next = end
      <4>1. last = foot
        BY <2>1, <3>1, Zenon
      <4> QED
        BY <3>1, <4>1, Zenon DEF next
    <3>2. CASE next # end
      <4>1. last = next + Signed(size(back, next)) - Footer
        BY <2>2, <3>2, Zenon DEF FooterOf
      <4>2. Signed(size(back, next)) = size(back, next)
        BY <1>6, <2>2, <3>2, WordSizes
      <4>3. last = end - Footer
        BY <1>11, <2>2, <2>5, <3>2, <4>1, <4>2
      <4> HIDE DEF last
      <4> QED
        BY <1>3, <4>3
    <3> QED
      BY <3>1, <3>2, Zenon
  <2> HIDE DEF right, atEnd
  <2>7. last + Footer = end /\ new = Contracted(h)
    BY <2>6, Zenon DEF atEnd
  <2> HIDE DEF last, new
  <2>8. next = end => next \notin H1
    <3>1. \A g \in B1 \cup H1 : g # end
      <4> SUFFICES ASSUME NEW g \in B1 \cup H1 PROVE g # end
        OBVIOUS
      <4>1. g \in Nat /\ size(back, g) \in 5 .. MaxSize /\ g + size(back, g) <= end
        BY <1>10, GoodBound
      <4> QED
        BY <1>3, <1>6, <4>1
    <3> QED
      BY <3>1
  <2>9. rest \in Seq(Int) /\ Distinct(rest) /\ Range(rest) = Holes \ {next}
    <3>1. CASE next = end
      <4>1. rest = index /\ Range(index) = Holes
        BY <2>1, <3>1, Zenon DEF Holes
      <4>2. next \notin Holes
        BY <2>8, <3>1
      <4> QED
        BY <1>3, <4>1, <4>2
    <3>2. CASE next # end
      <4> DEFINE P == Positions(next)
                 k == Least(P)
      <4>1. P \in SUBSET (1 .. Len(index)) /\ P # {} /\ Len(index) \in Nat
        BY <1>3, <2>2, <2>3, <3>2 DEF Positions
      <4>2. k \in P
        BY <4>1, LeastOf
      <4>3. k \in 1 .. Len(index) /\ index[k] = next
        BY <4>2 DEF Positions
      <4>4. rest = RemoveAt(index, k) /\ Range(index) = Holes
        BY <2>2, <3>2, Zenon DEF Holes
      <4> HIDE DEF k, rest
      <4>5. /\ RemoveAt(index, k) \in Seq(Int)
            /\ Distinct(RemoveAt(index, k)) /\ Range(RemoveAt(index, k)) = Range(index) \ {index[k]}
        BY <1>3, <4>3, RemoveFacts
      <4> QED
        BY <4>3, <4>4, <4>5
    <3> QED
      BY <3>1, <3>2, Zenon
  <2> HIDE DEF rest
  <2>10. gone = {}
    <3>1. \A i \in 1 .. Len(rest) : rest[i] # next
      BY <2>9, RangeOf
    <3> QED
      BY <3>1
  <2>11. holes = rest
    BY <2>10, Zenon
  <2>12. index' \in Seq(Int) /\ Distinct(index') /\ Holes' = H1 \ {next} /\ h \in Holes'
    <3>1. index' = IF left THEN rest ELSE insert(mem', rest, h)
      BY <2>4, <2>11, Zenon
    <3>2. left <=> h \in Range(rest)
      BY <1>12, <1>13, <2>9
    <3>3. h \in Int
      BY <1>10
    <3>4. index' \in Seq(Int) /\ Distinct(index') /\ Range(index') = Range(rest) \cup {h}
      BY <1>12, <2>9, <3>1, <3>2, <3>3, IndexAfter
    <3> QED
      BY <1>13, <2>9, <3>4 DEF Holes
  <2>13. /\ new \in MinSize .. MaxSize /\ new \in 0 .. MaxSize /\ new <= end
         /\ end \in 0 .. MaxSize /\ h + 5 <= new /\ new \in Nat /\ new % PageSize = 0
         /\ mapped' \in end' .. MaxSize
    <3>1. h <= end /\ h + 5 <= end
      BY <1>3, <1>10, <1>11
    <3>2. new \in MinSize .. MaxSize /\ new <= end /\ (new = MinSize \/ new = h)
      BY <1>3, <1>10, <2>7, <3>1, ContractedIs
    <3>3. new # end => ~(h + Header + Footer > new)
      BY <1>2, <2>4, <2>12, Zenon DEF ShrinksPastHole
    <3>4. h + Header + Footer = h + 5
      BY <1>10
    <3>5. /\ new \in 0 .. MaxSize /\ end \in 0 .. MaxSize /\ h + 5 <= new /\ new \in Nat
          /\ mapped' \in end' .. MaxSize
      BY <1>3, <1>6, <1>10, <2>4, <3>1, <3>2, <3>3, <3>4
    <3>6. new = MinSize
      BY <1>10, <3>2, <3>5
    <3> QED
      BY <3>2, <3>5, <3>6, LimitsAssumption
  <2>14. /\ Memory(joined, Nat) /\ Read(joined, h) = HEAP_MAGIC /\ Read(joined, h + 1) # 0
         /\ size(joined, h) = end - h /\ \A x \in Nat : x < h => Read(joined, x) = Read(back, x)
    <3>1. Read(back, h) = HEAP_MAGIC /\ Read(back, h + 1) # 0
      <4>1. h \in B1 \cup H1 /\ (h \in H1 <=> TRUE)
        BY <1>11
      <4> QED
        BY <1>10, <4>1, Zenon DEF Good, Tile
    <3>2. CASE next = end
      <4>1. joined = back
        BY <2>1, <3>2, Zenon
      <4>2. size(back, h) = end - h
        BY <1>3, <1>10, <1>11, <3>2
      <4> QED
        BY <1>10, <3>1, <4>1, <4>2
    <3>3. CASE next # end
      <4> DEFINE s == size(back, h)
                 t == size(back, next)
                 sum == s + t
      <4>1. joined = SetSize(back, h, sum)
        BY <2>2, <3>3, Zenon
      <4>2. s \in 5 .. MaxSize /\ t \in 5 .. MaxSize /\ h + s = next /\ next + t = end
        BY <1>10, <1>11, <2>2, <2>5, <3>3
      <4> HIDE DEF s, t, joined
      <4>3. sum = end - h /\ sum \in 0 .. MaxSize /\ sum \in Int /\ h \in Int /\ h + 2 \in Nat
        BY <1>3, <1>6, <1>10, <4>2
      <4> HIDE DEF sum
      <4>4. Unsigned(sum) = sum
        BY <4>3, WordSizes
      <4>5. \A x \in Int : Read(joined, x) = IF x = h + 2 THEN sum ELSE Read(back, x)
        <5>1. \A x \in Int : Read(SetSize(back, h, sum), x) = IF x = h + 2 THEN Unsigned(sum) ELSE Read(back, x)
          BY <4>3, ReadSize
        <5> QED
          BY <4>1, <4>4, <5>1
      <4>6. Memory(joined, Nat)
        BY <1>10, <4>1, <4>3, SizeMemory
      <4>7. /\ h # h + 2 /\ h + 1 # h + 2 /\ h + 1 \in Int /\ h + 2 \in Int
            /\ \A x \in Nat : x < h => x \in Int /\ x # h + 2
        BY <1>10
      <4> QED
        BY <3>1, <4>3, <4>5, <4>6, <4>7, Zenon DEF size
    <3> QED
      BY <3>2, <3>3, Zenon
  <2> HIDE DEF joined
  <2>15. gives # 0 /\ Shortened(back, SetFooter(short, FooterOf(short, h), h), h, new - h)
    <3> DEFINE g == gives
               t == short
    <3>1. g = Unsigned(size(joined, h) - (end - new)) /\ t = SetSize(joined, h, g)
      BY Zenon
    <3> HIDE DEF g, t
    <3>2. g # 0 /\ Shortened(back, SetFooter(t, FooterOf(t, h), h), h, new - h)
      BY <1>10, <2>13, <2>14, <3>1, Shorten
    <3> QED
      BY <3>2, Zenon DEF g, t
  <2>16. Shortened(back, shrunk, h, new - h)
    BY <2>6, <2>15, Zenon DEF shrunk
  <2> HIDE DEF gives, short
  <2>17. Leaves(back, shrunk, B1, H1, B1, H1 \ {next}, new)
    <3> DEFINE l == new - h
    <3>1. l \in Nat /\ l >= 5 /\ new = h + l
      BY <1>6, <1>10, <2>13
    <3> HIDE DEF l
    <3>2. /\ Tile(shrunk, h, l, TRUE) /\ \A x \in Nat : x < h => Read(shrunk, x) = Read(back, x)
      BY <2>16, Zenon DEF Shortened, l
    <3> HIDE DEF B1
    <3>3. CASE next = end
      <4>1. H1 \ {next} = H1
        BY <2>8, <3>3
      <4> HIDE DEF H1
      <4>2. h + size(back, h) = end
        BY <1>10, <3>3, Zenon
      <4>3. Leaves(back, shrunk, B1, H1, B1, H1, new)
        BY <1>10, <1>11, <2>13, <3>1, <3>2, <4>2, LastHole
      <4> QED
        BY <4>1, <4>3
    <3>4. CASE next # end
      <4>1. next \in H1 /\ next + size(back, next) = end
        BY <2>2, <2>5, <3>4
      <4> HIDE DEF H1
      <4> QED
        BY <1>10, <1>11, <2>13, <3>1, <3>2, <4>1, LastTwoHoles
    <3> QED
      BY <3>3, <3>4
  <2>18. Memory(mem', Nat) /\ \A x \in Nat : x < new => Read(mem', x) = Read(shrunk, x)
    <3>1. PICK lost \in SUBSET GivenBack(new) : mem' = Forget(shrunk, lost)
      BY <2>4, Zenon
    <3>2. Memory(shrunk, Nat)
      BY <2>16, Zenon DEF Shortened
    <3> QED
      BY <1>3, <2>13, <3>1, <3>2, ForgetKeeps
  <2>19. Leaves(mem, mem', Blocks, Holes, Blocks \ {ptr - Header}, Holes', end')
    <3> HIDE DEF B1, H1
    <3>1. Leaves(mem, shrunk, Blocks, Holes, B1, H1 \ {next}, new)
      BY <1>10, <2>17, LeavesTwice
    <3>2. Leaves(mem, mem', Blocks, Holes, B1, H1 \ {next}, new)
      BY <2>18, <3>1, ForgetLeaves, Zenon
    <3> QED
      BY <2>4, <2>12, <3>2, Zenon DEF B1, block
  <2> QED
    BY <2>4, <2>12, <2>13, <2>18, <2>19, FreeCloses
<1> QED
  BY <1>11, <1>15, <1>16
-----------------------------------------------------------------------------
(* A step of careful callers.                                               *)
LEMMA PanicIsSound ==
  ASSUME Sound, NEW c \in [op : {"alloc", "free"}, arg : Int, align : BOOLEAN, ret : Int], Panic(c)
  PROVE  Sound' /\ call' = c
<1>1. /\ halted' = TRUE /\ call' = c /\ mem' = mem /\ index' = index /\ end' = end
      /\ mapped' = mapped /\ used' = used
  BY Zenon DEF Panic
<1>2. /\ Good(mem, Blocks, Holes, end) /\ Distinct(index) /\ Held /\ Memory(mem, Nat)
      /\ index \in Seq(Int) /\ end \in MinSize .. MaxSize /\ mapped \in end .. MaxSize
      /\ used \subseteq [ptr : Int, len : Requests]
  BY SoundFacts, Zenon
<1>3. Blocks' = Blocks /\ Holes' = Holes /\ (Held' <=> Held)
  BY <1>1 DEF Blocks, Holes, Held
<1>4. halted' \in BOOLEAN
  BY <1>1
<1> QED
  BY <1>1, <1>2, <1>3, <1>4, Closes

LEMMA AllocIsSound ==
  ASSUME Sound, NEW sz \in Requests, NEW align \in BOOLEAN, kmalloc(sz, align), CarefulNext
  PROVE  Sound' /\ call'.op = "alloc"
<1> DEFINE c == Alloc(sz, align, Pending)
<1>1. c \in [op : {"alloc", "free"}, arg : Int, align : BOOLEAN, ret : Int] /\ c.op = "alloc"
  BY RequestFits DEF Alloc, Pending
<1>2. CASE Panic(c)
  <2> HIDE DEF c
  <2> QED
    BY <1>1, <1>2, PanicIsSound
<1>3. CASE AllocTake(sz, align) /\ ~halted'
  <2>1. CASE align = TRUE
    BY <1>3, <2>1, AlignedTake, Zenon DEF CarefulNext, Careless
  <2>2. CASE align = FALSE
    BY <1>3, <2>2, PlainTake, Zenon
  <2> QED
    BY <2>1, <2>2
<1>4. CASE AllocExpand(sz, align)
  BY <1>4, ExpandIsSound, Zenon DEF CarefulNext, Careless
<1>5. AllocTake(sz, align) /\ halted' => Panic(c)
  <2>1. ~halted
    BY Zenon DEF kmalloc, Running
  <2> QED
    BY <2>1, TakePanics, Zenon
<1>6. AllocPanic(sz, align) => Panic(c)
  BY Zenon DEF AllocPanic
<1> QED
  BY <1>2, <1>3, <1>4, <1>5, <1>6, Zenon DEF kmalloc

LEMMA FreeIsSound ==
  ASSUME Sound, NEW u \in used, kfree(u.ptr), CarefulNext
  PROVE  Sound' /\ ~halted'
<1> DEFINE ptr == u.ptr
           b == ptr - Header
<1>1. Good(mem, Blocks, Holes, end) /\ used \subseteq [ptr : Int, len : Requests]
  BY SoundFacts, Zenon
<1>2. ptr \in Int /\ b \in Blocks
  BY <1>1 DEF Blocks
<1>3. IsMagic(mem, b) /\ IsMagic(mem, FooterOf(mem, b))
  <2>1. \A x \in Blocks : /\ IsMagic(mem, x) /\ IsMagic(mem, x + size(mem, x) - 2)
                          /\ FooterOf(mem, x) = x + size(mem, x) - 2
    BY <1>1, BlockFacts, ZenonT(60)
  <2> QED
    BY <1>2, <2>1, Zenon
<1>4. Release(ptr) /\ ~halted
  BY <1>3, Zenon DEF kfree, Running
<1> HIDE DEF ptr
<1>5. Sound' /\ halted' = halted
  BY <1>2, <1>4, ReleaseIsSound, Zenon DEF CarefulNext, Careless
<1> QED
  BY <1>4, <1>5

LEMMA CarefulStep ==
  ASSUME Sound, CarefulNext
  PROVE  Sound' /\ (halted' => call'.op = "alloc")
<1>1. /\ \A sz \in Sizes : sz \in Requests
      /\ \A sz \in AlignedSizes : sz \in Requests
      /\ TRUE \in BOOLEAN /\ FALSE \in BOOLEAN
  BY DEF Requests
<1>2. CASE \E sz \in Sizes : kmalloc(sz, FALSE)
  BY <1>1, <1>2, AllocIsSound, Zenon
<1>3. CASE \E sz \in AlignedSizes : kmalloc(sz, TRUE)
  BY <1>1, <1>3, AllocIsSound, Zenon
<1>4. CASE \E u \in used : kfree(u.ptr)
  BY <1>4, FreeIsSound, Zenon
<1> QED
  BY <1>2, <1>3, <1>4, Zenon DEF CarefulNext, Next

(* The calls of alloc and free that are not of the six kinds turn a sound   *)
(* heap of any size, whatever it holds, into a sound heap, and free halts   *)
(* neither by an assertion nor by a page fault.                             *)
THEOREM SoundHeapStaysSound == Spec => HeapStaysSound
<1> DEFINE A == Sound => (Sound' /\ (halted' => call'.op = "alloc")) \/ Careless(call')
<1>1. Next => A
  BY CarefulStep, Zenon DEF CarefulNext
<1> HIDE DEF A
<1>2. Spec => [][A]_vars
  BY <1>1, PTL DEF Spec
<1> QED
  BY <1>2, PTL DEF A, HeapStaysSound

(* The kernel's heap as long as no call is of the six kinds.                *)
LEMMA SoundInvariance == CarefulSpec => []Sound
<1>1. Sound /\ UNCHANGED vars => Sound'
  <2> SUFFICES ASSUME Sound, UNCHANGED vars PROVE Sound'
    OBVIOUS
  <2>1. /\ halted' = halted /\ call' = call /\ mem' = mem /\ index' = index
        /\ end' = end /\ mapped' = mapped /\ used' = used
    BY Zenon DEF vars
  <2>2. Blocks' = Blocks /\ Holes' = Holes
    BY <2>1 DEF Blocks, Holes
  <2> QED
    BY <2>1, <2>2 DEF Sound, TypeOK
<1>2. Sound /\ CarefulNext => Sound'
  BY CarefulStep, Zenon
<1> QED
  BY <1>1, <1>2, InitIsSound, PTL DEF CarefulSpec

(* Then the end of the heap stays between HEAP_MIN_SIZE and max_address,    *)
(* and the index holds addresses.                                           *)
THEOREM HeapTypes == CarefulSpec => []TypeOK
<1>1. Sound => TypeOK
  BY Zenon DEF Sound
<1> QED
  BY <1>1, SoundInvariance, PTL

(* And what kheap.h says of a header is true of every block in use: the     *)
(* six kinds are all that can break it.                                     *)
THEOREM HeadersAreKept == CarefulSpec => []BlocksKeepTheirHeaders
<1>1. Sound => BlocksKeepTheirHeaders
  <2> SUFFICES ASSUME Sound, NEW u \in used
               PROVE  LET h == u.ptr - Header
                      IN  /\ IsMagic(mem, h) /\ ~IsHole(mem, h)
                          /\ size(mem, h) >= u.len + Header + Footer
    BY DEF BlocksKeepTheirHeaders
  <2> DEFINE h == u.ptr - Header
  <2>1. Good(mem, Blocks, Holes, end) /\ Held
    BY SoundFacts, Zenon
  <2>2. h \in Blocks
    BY DEF Blocks
  <2>3. Tile(mem, h, size(mem, h), FALSE) /\ IsMagic(mem, h)
    <3>1. \A x \in Blocks : Tile(mem, x, size(mem, x), FALSE) /\ IsMagic(mem, x)
      BY <2>1, BlockFacts
    <3> QED
      BY <2>2, <3>1, Zenon
  <2>4. ~IsHole(mem, h)
    BY <2>3, Zenon DEF Tile, IsHole
  <2> QED
    BY <2>1, <2>3, <2>4, Zenon DEF Held
<1> QED
  BY <1>1, SoundInvariance, PTL
-----------------------------------------------------------------------------
(* The region that a call hands out.                                        *)
Placed(at, sz, align) ==
  /\ at \in Nat /\ at \notin Blocks /\ at + sz + 5 <= end
  /\ align => (at + 3) % PageSize = 0
  /\ used' = used \cup {[ptr |-> at + Header, len |-> sz]}
  /\ call' = Alloc(sz, align, at + Header)

LEMMA PlainPlace ==
  ASSUME Sound, NEW sz \in Requests, AllocTake(sz, FALSE), ~halted'
  PROVE  \E at \in Nat : Placed(at, sz, FALSE)
<1> DEFINE h == index[Least(Fits(sz + Header + Footer, FALSE))]
<1>1. /\ Fits(sz + Header + Footer, FALSE) # {}
      /\ used' = used \cup {[ptr |-> h + Header, len |-> sz]}
      /\ call' = Alloc(sz, FALSE, h + Header)
  BY ZenonT(60) DEF AllocTake, Panic
<1>2. h \in Holes /\ h \in Nat /\ size(mem, h) \in 5 .. MaxSize /\ size(mem, h) >= sz + Header + Footer
  BY <1>1, Taken, Zenon
<1> HIDE DEF h
<1>3. Good(mem, Blocks, Holes, end) /\ sz \in Nat /\ MaxSize \in Nat
  BY SoundFacts, RequestFits, LimitsAssumption, Zenon
<1>4. h \notin Blocks /\ h + size(mem, h) <= end /\ end \in Nat
  <2>1. Blocks \cap Holes = {} /\ end \in Nat
    BY <1>3, LimitsAssumption DEF Good
  <2>2. h + size(mem, h) <= end
    BY <1>2, <1>3, GoodBound
  <2> QED
    BY <1>2, <2>1, <2>2
<1>5. h + sz + 5 <= end
  BY <1>2, <1>3, <1>4
<1> QED
  BY <1>1, <1>2, <1>4, <1>5, Zenon DEF Placed

LEMMA OnPage ==
  ASSUME NEW h \in Nat
  PROVE  (h + (PageSize - (h % PageSize) - 3) + 3) % PageSize = 0
<1> DEFINE a == h \div PageSize
           x == h + (PageSize - (h % PageSize) - 3) + 3
           b == x \div PageSize
           s == x % PageSize
<1>1. PageSize \in Nat /\ PageSize > 0
  BY PagesAssumption
<1>2. a \in Int /\ h = PageSize * a + (h % PageSize) /\ h % PageSize \in 0 .. PageSize - 1
  BY <1>1, Division
<1> DEFINE r == h % PageSize
<1>3. r \in Int /\ h = PageSize * a + r /\ x = h + (PageSize - r - 3) + 3
  BY <1>2
<1> HIDE DEF a, r
<1>4. x = PageSize * a + PageSize /\ x \in Int
  <2> HIDE DEF x
  <2> QED
    BY <1>1, <1>3, <1>2
<1> HIDE DEF x
<1>5. b \in Int /\ x = PageSize * b + s /\ s \in 0 .. PageSize - 1
  BY <1>1, <1>4, Division
<1> HIDE DEF b, s
<1>6. PageSize * (a + 1) + 0 = PageSize * b + s /\ a + 1 \in Int /\ 0 \in 0 .. PageSize - 1
  BY <1>1, <1>2, <1>4, <1>5
<1>7. s = 0
  BY <1>1, <1>5, <1>6, Quotient
<1> QED
  BY <1>7 DEF s, x

LEMMA AlignedPlace ==
  ASSUME Sound, NEW sz \in Requests, AllocTake(sz, TRUE), ~halted', ~LeavesCrampedHole(call')
  PROVE  \E at \in Nat : Placed(at, sz, TRUE)
<1> DEFINE h     == index[Least(Fits(sz + Header + Footer, TRUE))]
           whole == size(mem, h)
           f     == PageSize - (h % PageSize) - Header
           at    == h + PageSize - (h % PageSize) - Header
<1>1. /\ Fits(sz + Header + Footer, TRUE) # {}
      /\ used' = used \cup {[ptr |-> at + Header, len |-> sz]}
      /\ call' = Alloc(sz, TRUE, at + Header)
  <2>1. Fits(sz + Header + Footer, TRUE) # {}
    BY ZenonT(60) DEF AllocTake, Panic
  <2>2. call' = Alloc(sz, TRUE, at + Header)
    BY ZenonT(60) DEF AllocTake, Panic
  <2>3. used' = used \cup {[ptr |-> at + Header, len |-> sz]}
    BY ZenonT(60) DEF AllocTake, Panic
  <2> QED
    BY <2>1, <2>2, <2>3, Zenon
<1>2. /\ h \in Holes /\ h \in Nat /\ whole \in 5 .. MaxSize
      /\ Signed(whole - Offset(h)) >= sz + Header + Footer
  BY <1>1, Taken, Zenon
<1>3. Good(mem, Blocks, Holes, end) /\ MaxSize \in Nat /\ sz \in Nat /\ end \in Nat
  BY SoundFacts, RequestFits, LimitsAssumption, Zenon
<1>4. PageSize \in Nat /\ h % PageSize \in 0 .. PageSize - 1
  <2> HIDE DEF h
  <2>1. PageSize \in Nat /\ PageSize > 0 /\ h \in Int
    BY <1>2, PagesAssumption
  <2> QED
    BY <2>1, Division
<1>5. call'.op = "alloc" /\ call'.align /\ call'.arg = sz /\ call'.ret = at + Header
  BY <1>1, Zenon DEF Alloc
<1> HIDE DEF h
<1>6. at = h + f /\ at + Header # Pending
  BY <1>2, <1>4 DEF Pending
<1>7. ~(f < Header + Footer \/ whole - f - (sz + Header + Footer) \in 1 .. Header + Footer - 1)
  BY <1>5, <1>6, Zenon DEF LeavesCrampedHole, h
<1> HIDE DEF at
<1>8. f \in 5 .. MaxSize /\ whole - f - (sz + 5) \in {0} \cup 5 .. MaxSize
  <2> HIDE DEF whole, f
  <2>1. sz + Header + Footer = sz + 5 /\ Header + Footer = 5 /\ Header + Footer - 1 = 4
    BY <1>3
  <2>2. f = PageSize - (h % PageSize) - 3
    BY Zenon DEF f
  <2>3. f \in Int
    BY <1>4, <2>2
  <2>4. /\ Signed(whole - Offset(h)) >= sz + 5 /\ ~(whole - f - (sz + 5) \in 1 .. 4) /\ ~(f < 5)
    BY <1>2, <1>7, <2>1, Zenon
  <2>5. f >= 5
    BY <2>3, <2>4
  <2>6. /\ PageSize - (h % PageSize) - 3 >= 5
        /\ ~(whole - (PageSize - (h % PageSize) - 3) - (sz + 5) \in 1 .. 4)
    BY <2>2, <2>4, <2>5, Zenon
  <2>7. /\ PageSize - (h % PageSize) - 3 \in 5 .. MaxSize
        /\ whole - (PageSize - (h % PageSize) - 3) - (sz + 5) \in {0} \cup 5 .. MaxSize
    BY <1>2, <1>3, <2>4, <2>6, AlignedCut
  <2> QED
    BY <2>2, <2>7, Zenon
<1>9. (at + 3) % PageSize = 0
  <2>1. at = h + (PageSize - (h % PageSize) - 3)
    BY <1>6, Zenon DEF f, Header
  <2> QED
    BY <1>2, <2>1, OnPage
<1> HIDE DEF f
<1>10. h + whole <= end
  BY <1>2, <1>3, GoodBound
<1> HIDE DEF whole
<1>11. at \in Nat /\ h < at /\ at < h + whole /\ at + sz + 5 <= end
  BY <1>2, <1>3, <1>6, <1>8, <1>10
<1>12. at \notin Blocks
  <2> SUFFICES ASSUME at \in Blocks PROVE FALSE
    OBVIOUS
  <2>1. Tiles(mem, Blocks \cup Holes, 0, end)
    BY <1>3, Zenon DEF Good
  <2>2. at < h \/ at = h \/ h + whole <= at
    BY <1>2, <1>3, <2>1, Apart DEF whole
  <2> QED
    BY <1>2, <1>11, <2>2
<1> QED
  BY <1>1, <1>9, <1>11, <1>12, Zenon DEF Placed

(* It lies apart from all others.                                           *)
LEMMA PlacedApart ==
  ASSUME Sound, Sound', NEW sz \in Requests, NEW align \in BOOLEAN, NEW at \in Nat,
         Placed(at, sz, align), NEW u \in used
  PROVE  Regions!Extent([ptr |-> at + Header, len |-> sz]) \cap Regions!Extent(u) = {}
<1> DEFINE r == [ptr |-> at + Header, len |-> sz]
           b == u.ptr - Header
<1>1. used \subseteq [ptr : Int, len : Requests] /\ sz \in Nat
  BY SoundFacts, RequestFits, Zenon
<1>2. u.ptr \in Int /\ u.len \in Nat /\ r.ptr = at + 3 /\ r.len = sz
  BY <1>1, RequestFits
<1>3. at \notin Blocks /\ u \in used' /\ r \in used' /\ b \in Blocks
  BY DEF Placed, Blocks
<1>4. at = r.ptr - Header /\ at \in Blocks' /\ b \in Blocks' /\ at # b
  BY <1>2, <1>3 DEF Blocks
<1>5. Good(mem', Blocks', Holes', end') /\ Held'
  BY SoundFactsPrime, Zenon
<1>6. Tiles(mem', Blocks' \cup Holes', 0, end') /\ end' \in Nat
  BY <1>5, LimitsAssumption DEF Good
<1>7. /\ size(mem', at) \in Nat /\ size(mem', b) \in Nat /\ b \in Nat
      /\ at < b \/ at = b \/ b + size(mem', b) <= at
      /\ b < at \/ at = b \/ at + size(mem', at) <= b
  <2> DEFINE T == Blocks' \cup Holes'
  <2>1. \A g, h \in T : /\ g \in Nat /\ size(mem', g) \in Nat
                        /\ (g < h \/ g = h \/ h + size(mem', h) <= g)
    BY <1>6, Apart
  <2>2. at \in T /\ b \in T
    BY <1>4
  <2> HIDE DEF T, b
  <2>3. /\ at < b \/ at = b \/ b + size(mem', b) <= at
        /\ b < at \/ b = at \/ at + size(mem', at) <= b
    BY <2>1, <2>2, Zenon
  <2>4. size(mem', at) \in Nat /\ size(mem', b) \in Nat /\ b \in Nat
    BY <2>1, <2>2, Zenon
  <2> QED
    BY <2>3, <2>4
<1>8. size(mem', at) >= sz + Header + Footer /\ size(mem', b) >= u.len + Header + Footer
  BY <1>2, <1>3, <1>4, <1>5 DEF Held
<1>9. /\ Regions!Extent(r) = at .. at + sz + 4
      /\ Regions!Extent(u) = b .. b + u.len + 4
  BY <1>1, <1>2 DEF Regions!Extent
<1> HIDE DEF r, b
<1>10. at + sz + 4 < b \/ b + u.len + 4 < at
  BY <1>1, <1>2, <1>4, <1>7, <1>8
<1>11. (at .. at + sz + 4) \cap (b .. b + u.len + 4) = {}
  BY <1>1, <1>2, <1>7, <1>10
<1> QED
  BY <1>9, <1>11, Zenon DEF r
-----------------------------------------------------------------------------
(* The heap of careful callers implements the allocator.                    *)
LEMMA TurnRefines ==
  ASSUME NEW sz, NEW align, Running \/ (~halted /\ call = Alloc(sz, align, Pending))
  PROVE  Regions!InTurn(sz, align)
BY Zenon DEF Running, Regions!InTurn, Regions!Pending, Pending, Regions!Kmalloced, Alloc

LEMMA TakeRefines ==
  ASSUME Sound, Sound', NEW sz \in Requests, NEW align \in BOOLEAN,
         Regions!InTurn(sz, align), NEW at \in Nat, Placed(at, sz, align)
  PROVE  Regions!Kmalloc(sz, align)
<1> DEFINE r == [ptr |-> at + Header, len |-> sz]
<1>1. \A u \in used : Regions!Extent(r) \cap Regions!Extent(u) = {}
  BY PlacedApart
<1>2. /\ used' = used \cup {r} /\ call' = Alloc(sz, align, at + Header)
      /\ at + sz + 5 <= end /\ (align => (at + 3) % PageSize = 0)
  BY Zenon DEF Placed
<1>3. sz \in Nat /\ end \in MinSize .. MaxSize /\ MinSize \in Nat /\ MaxSize \in Nat
  BY SoundFacts, RequestFits, LimitsAssumption, Zenon
<1>4. at + Header \in Header .. MaxSize - sz - Footer /\ at + Header = at + 3
  BY <1>2, <1>3
<1>5. align => (at + Header) % PageSize = 0
  BY <1>2, <1>4, Zenon
<1>6. Regions!Clear(r)
  BY <1>1, Zenon DEF Regions!Clear
<1>7. call' = Regions!Kmalloced(sz, align, at + Header)
  BY <1>2, Zenon DEF Regions!Kmalloced, Alloc
<1> QED
  BY <1>2, <1>4, <1>5, <1>6, <1>7, Zenon DEF Regions!Kmalloc

LEMMA AllocRefines ==
  ASSUME Sound, NEW sz \in Requests, NEW align \in BOOLEAN, kmalloc(sz, align), CarefulNext
  PROVE  Regions!Kmalloc(sz, align) \/ Regions!Wait(sz, align)
<1>1. Regions!InTurn(sz, align)
  BY TurnRefines, Zenon DEF kmalloc
<1>2. CASE AllocTake(sz, align) /\ ~halted'
  <2>1. \E at \in Nat : Placed(at, sz, align)
    <3>1. CASE align = TRUE
      BY <1>2, <3>1, AlignedPlace, Zenon DEF CarefulNext, Careless
    <3>2. CASE align = FALSE
      BY <1>2, <3>2, PlainPlace, Zenon
    <3> QED
      BY <3>1, <3>2
  <2>2. Sound'
    BY CarefulStep, Zenon
  <2> QED
    BY <1>1, <2>1, <2>2, TakeRefines, Zenon
<1>3. CASE \/ AllocTake(sz, align) /\ halted'
           \/ AllocExpand(sz, align) \/ AllocPanic(sz, align)
  <2>1. used' = used /\ call' = Alloc(sz, align, Pending)
    <3>1. AllocTake(sz, align) /\ halted' => Panic(Alloc(sz, align, Pending))
      <4>1. ~halted
        BY Zenon DEF kmalloc, Running
      <4> QED
        BY <4>1, TakePanics, Zenon
    <3> QED
      BY <1>3, <3>1, Zenon DEF AllocExpand, AllocPanic, Panic
  <2>2. call' = Regions!Kmalloced(sz, align, Regions!Pending)
    BY <2>1, Zenon DEF Regions!Kmalloced, Regions!Pending, Pending, Alloc
  <2> QED
    BY <1>1, <2>1, <2>2, Zenon DEF Regions!Wait
<1> QED
  BY <1>2, <1>3, Zenon DEF kmalloc

LEMMA FreeRefines ==
  ASSUME Sound, NEW u \in used, kfree(u.ptr), CarefulNext
  PROVE  Regions!Kfree(u)
<1>1. ~halted' /\ Running
  BY FreeIsSound, Zenon DEF kfree
<1>2. ~Panic(Freed(u.ptr, Pending))
  BY <1>1, Zenon DEF Panic
<1>3. used' = {v \in used : v.ptr # u.ptr} /\ call' = Freed(u.ptr, 0)
  <2>1. Release(u.ptr)
    BY <1>2, Zenon DEF kfree
  <2> QED
    BY <1>2, <2>1, ZenonT(60) DEF Release
<1>4. call.ret # Regions!Pending /\ call' = Regions!Kfreed(u.ptr)
  BY <1>1, <1>3, Zenon DEF Running, Regions!Pending, Pending, Regions!Kfreed, Freed
<1> QED
  BY <1>3, <1>4, Zenon DEF Regions!Kfree

LEMMA StepRefines ==
  ASSUME Sound, CarefulNext
  PROVE  Regions!Next
<1>1. /\ \A sz \in Sizes : sz \in Requests
      /\ \A sz \in AlignedSizes : sz \in Requests
      /\ TRUE \in BOOLEAN /\ FALSE \in BOOLEAN
  BY DEF Requests
<1>2. CASE \E sz \in Sizes : kmalloc(sz, FALSE)
  BY <1>1, <1>2, AllocRefines, Zenon DEF Regions!Next
<1>3. CASE \E sz \in AlignedSizes : kmalloc(sz, TRUE)
  BY <1>1, <1>3, AllocRefines, Zenon DEF Regions!Next
<1>4. CASE \E u \in used : kfree(u.ptr)
  BY <1>4, FreeRefines, Zenon DEF Regions!Next
<1> QED
  BY <1>2, <1>3, <1>4, Zenon DEF CarefulNext, Next

LEMMA InitRefines == Init => Regions!Init
BY Zenon DEF Init, Regions!Init, Regions!Kfreed, Freed

(* A call that is of none of the six kinds hands out, on any sound heap, a  *)
(* region that no other one overlaps, on a page if that was asked for, and  *)
(* kfree takes it back and returns.                                         *)
THEOREM SoundHeapIsAllocator == Spec => SoundHeapAllocates
<1> DEFINE A == Sound => Regions!Next \/ Careless(call')
<1>1. Next => A
  BY StepRefines, Zenon DEF CarefulNext
<1> HIDE DEF A
<1>2. Spec => [][A]_vars
  BY <1>1, PTL DEF Spec
<1>3. Spec => Regions!Init
  BY InitRefines, PTL DEF Spec
<1> QED
  BY <1>2, <1>3, PTL DEF A, SoundHeapAllocates

(* Whatever sizes they ask for and in whichever order, callers that make no *)
(* call of the six kinds find kmalloc and kfree to be an allocator.         *)
THEOREM Refinement == CarefulSpec => ImplementsKernelAllocator
<1>1. Sound /\ [CarefulNext]_vars => [Regions!Next]_(Regions!vars)
  <2>1. CASE CarefulNext
    BY <2>1, StepRefines, Zenon
  <2>2. CASE UNCHANGED vars
    BY <2>2 DEF vars, Regions!vars
  <2> QED
    BY <2>1, <2>2
<1> QED
  BY <1>1, InitRefines, SoundInvariance, PTL DEF CarefulSpec, ImplementsKernelAllocator, Regions!Spec
=============================================================================
