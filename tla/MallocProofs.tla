---------------------------- MODULE MallocProofs ----------------------------
(***************************************************************************)
(* Proofs about Malloc for every size of the heap and of a header and every *)
(* set of requested sizes.                                                  *)
(*                                                                         *)
(* Tiling says where a block begins by its predecessor; that blocks far     *)
(* apart do not overlap would need an induction over the chain, so the      *)
(* inductive invariant carries the order of any two blocks with it.  The    *)
(* chain is covered without gaps by the well-foundedness of the naturals.   *)
(***************************************************************************)
EXTENDS Malloc, SequenceTheorems, TLAPS

Numbers == INSTANCE Folding WITH Op <- +    \* only for its LeastElement

(* The blocks of s fill the heap, one behind the other. *)
Tiled(s) ==
  /\ s # <<>> /\ s[1].at = 0 /\ End(s[Len(s)]) = HeapSize
  /\ \A i \in 1 .. Len(s) - 1 : s[i + 1].at = End(s[i])
  /\ \A i, j \in 1 .. Len(s) : i < j => End(s[i]) <= s[j].at

(* Two neighbours in s are both free at most where the first is block c. *)
MergedBut(s, c) ==
  \A i \in 1 .. Len(s) - 1 : s[i].isFree /\ s[i + 1].isFree => i = c

Merged(s) == \A i \in 1 .. Len(s) - 1 : ~(s[i].isFree /\ s[i + 1].isFree)

IInv == TypeOK /\ (head # <<>> => Tiled(head)) /\ Merged(head)

Region(b) == [ptr |-> b.at + Header, len |-> b.size]
Regions(s) ==
  {[ptr |-> b.at + Header, len |-> b.size] :
     b \in {s[i] : i \in {j \in 1 .. Len(s) : ~s[j].isFree}}}
-----------------------------------------------------------------------------
USE HeaderAssumption, HeapSizeAssumption, SizesAssumption

(* The sequence s with the elements i up to j - 1 replaced by those of mid. *)
Spliced(s, i, mid, j) == SubSeq(s, 1, i - 1) \o mid \o SubSeq(s, j, Len(s))

IsSplice(t, s, i, mid, j) ==
  /\ Len(t) = (i - 1) + Len(mid) + (Len(s) - j + 1)
  /\ \A k \in 1 .. i - 1 : t[k] = s[k]
  /\ \A k \in 1 .. Len(mid) : t[i - 1 + k] = mid[k]
  /\ \A k \in j .. Len(s) : t[k - j + i + Len(mid)] = s[k]

(* What a splice holds, element by element.                                 *)
LEMMA Splice ==
  ASSUME NEW S, NEW s \in Seq(S), NEW mid \in Seq(S),
         NEW i \in 1 .. Len(s), NEW j \in i .. Len(s) + 1
  PROVE  Spliced(s, i, mid, j) \in Seq(S) /\ IsSplice(Spliced(s, i, mid, j), s, i, mid, j)
<1> DEFINE t == Spliced(s, i, mid, j)
<1> DEFINE a == SubSeq(s, 1, i - 1)
<1> DEFINE c == SubSeq(s, j, Len(s))
<1>1. Len(s) \in Nat /\ Len(mid) \in Nat /\ i \in Int /\ j \in Int
  OBVIOUS
<1>2. \A k \in 1 .. Len(s) : s[k] \in S
  OBVIOUS
<1>3. a \in Seq(S) /\ Len(a) = i - 1 /\ \A k \in 1 .. i - 1 : a[k] = s[k]
  <2>1. \A k \in 1 .. i - 1 : s[k] \in S
    BY <1>1, <1>2
  <2>2. /\ a \in Seq(S) /\ Len(a) = IF 1 <= i - 1 THEN i - 1 - 1 + 1 ELSE 0
        /\ \A k \in 1 .. i - 1 - 1 + 1 : a[k] = s[1 + k - 1]
    BY <1>1, <2>1, SubSeqProperties
  <2> HIDE DEF a
  <2>3. ASSUME NEW k \in 1 .. i - 1 PROVE a[k] = s[k]
    <3>1. k \in 1 .. i - 1 - 1 + 1 /\ 1 + k - 1 = k
      BY <1>1
    <3> QED
      BY <2>2, <3>1
  <2>4. Len(a) = i - 1
    BY <1>1, <2>2
  <2> QED
    BY <2>2, <2>3, <2>4
<1>4. /\ c \in Seq(S) /\ Len(c) = Len(s) - j + 1
      /\ \A k \in 1 .. Len(s) - j + 1 : c[k] = s[j + k - 1]
  <2>1. \A k \in j .. Len(s) : s[k] \in S
    BY <1>1, <1>2
  <2>2. /\ c \in Seq(S) /\ Len(c) = IF j <= Len(s) THEN Len(s) - j + 1 ELSE 0
        /\ \A k \in 1 .. Len(s) - j + 1 : c[k] = s[j + k - 1]
    BY <1>1, <2>1, SubSeqProperties
  <2> HIDE DEF c
  <2>3. Len(c) = Len(s) - j + 1
    <3>1. j <= Len(s) \/ (j = Len(s) + 1 /\ ~(j <= Len(s)) /\ Len(s) - j + 1 = 0)
      BY <1>1
    <3>2. Len(c) = IF j <= Len(s) THEN Len(s) - j + 1 ELSE 0
      BY <2>2
    <3> QED
      BY <3>1, <3>2
  <2> QED
    BY <2>2, <2>3
<1> DEFINE b == a \o mid
<1>5. t = b \o c
  BY DEF Spliced
<1> HIDE DEF a, c, t
<1>6. /\ b \in Seq(S) /\ Len(b) = i - 1 + Len(mid)
      /\ \A k \in 1 .. i - 1 + Len(mid) : b[k] = IF k <= i - 1 THEN a[k] ELSE mid[k - (i - 1)]
  <2>1. /\ b \in Seq(S) /\ Len(b) = Len(a) + Len(mid)
        /\ \A k \in 1 .. Len(a) + Len(mid) :
              b[k] = IF k <= Len(a) THEN a[k] ELSE mid[k - Len(a)]
    BY <1>3, ConcatProperties
  <2> QED
    BY <1>3, <2>1
<1> HIDE DEF b
<1>7. /\ t \in Seq(S) /\ Len(t) = Len(b) + Len(c)
      /\ \A k \in 1 .. Len(b) + Len(c) : t[k] = IF k <= Len(b) THEN b[k] ELSE c[k - Len(b)]
  <2>1. b \in Seq(S) /\ c \in Seq(S)
    BY <1>4, <1>6
  <2> QED
    BY <1>5, <2>1, ConcatProperties
<1>8. ASSUME NEW k \in 1 .. i - 1 PROVE t[k] = s[k]
  <2>1. k \in 1 .. Len(b) + Len(c) /\ k <= Len(b) /\ k \in 1 .. i - 1 + Len(mid)
    BY <1>1, <1>4, <1>6
  <2>2. t[k] = b[k]
    BY <1>7, <2>1
  <2>3. b[k] = a[k]
    <3>1. k <= i - 1
      BY <1>1
    <3> QED
      BY <1>6, <2>1, <3>1
  <2> QED
    BY <1>3, <2>2, <2>3
<1>9. ASSUME NEW k \in 1 .. Len(mid) PROVE t[i - 1 + k] = mid[k]
  <2> DEFINE m == i - 1 + k
  <2>1. /\ m \in 1 .. Len(b) + Len(c) /\ m <= Len(b) /\ m \in 1 .. i - 1 + Len(mid)
        /\ ~(m <= i - 1) /\ m - (i - 1) = k
    BY <1>1, <1>4, <1>6
  <2> HIDE DEF m
  <2>2. t[m] = b[m]
    BY <1>7, <2>1
  <2>3. b[m] = mid[k]
    BY <1>6, <2>1
  <2> QED
    BY <2>2, <2>3 DEF m
<1>10. ASSUME NEW k \in j .. Len(s) PROVE t[k - j + i + Len(mid)] = s[k]
  <2> DEFINE m == k - j + i + Len(mid)
  <2>1. m \in 1 .. Len(b) + Len(c) /\ ~(m <= Len(b)) /\ m - Len(b) = k - j + 1
    BY <1>1, <1>4, <1>6
  <2>2. t[m] = c[k - j + 1]
    BY <1>7, <2>1
  <2>3. k - j + 1 \in 1 .. Len(s) - j + 1 /\ j + (k - j + 1) - 1 = k
    BY <1>1
  <2> QED
    BY <1>4, <2>2, <2>3
<1>11. Len(t) = (i - 1) + Len(mid) + (Len(s) - j + 1)
  BY <1>1, <1>4, <1>6, <1>7
<1>12. IsSplice(t, s, i, mid, j)
  BY <1>8, <1>9, <1>10, <1>11 DEF IsSplice
<1> QED
  BY <1>7, <1>12 DEF t

(* The block made of two neighbours ends where the second did. *)
LEMMA Joined ==
  \A a, h, y, z \in Nat : (a + h + y) + h + z = a + h + (y + z + h)
  OBVIOUS

(* It is no longer than the heap. *)
LEMMA Bounded ==
  \A a, h, y, z, max \in Nat :
     a + h + (y + z + h) <= max => y + z + h \in 0 .. max
  OBVIOUS

(* Writing one field of a header leaves the others.                         *)
LEMMA BlockExcept ==
  ASSUME NEW b \in Block, NEW v
  PROVE  /\ [b EXCEPT !.isFree = v] = [at |-> b.at, size |-> b.size, isFree |-> v]
         /\ [b EXCEPT !.size = v] = [at |-> b.at, size |-> v, isFree |-> b.isFree]
  BY DEF Block

(* What TypeOK says of a block, as numbers. *)
LEMMA BlockFacts ==
  ASSUME NEW s \in Seq(Block), NEW i \in 1 .. Len(s)
  PROVE  /\ s[i] \in Block /\ s[i].at \in Nat /\ s[i].size \in Nat /\ s[i].isFree \in BOOLEAN
         /\ End(s[i]) = s[i].at + Header + s[i].size /\ End(s[i]) \in Nat
         /\ s[i].at < End(s[i])
<1>1. s[i] \in Block
  OBVIOUS
<1> QED
  BY <1>1 DEF Block, End

(* The blocks of a tiled heap end within it. *)
LEMMA TiledBound ==
  ASSUME NEW s \in Seq(Block), Tiled(s), NEW i \in 1 .. Len(s)
  PROVE  End(s[i]) <= HeapSize
<1>1. Len(s) \in Nat /\ Len(s) \in 1 .. Len(s)
  OBVIOUS
<1>2. CASE i = Len(s)
  BY <1>1, <1>2 DEF Tiled
<1>3. CASE i # Len(s)
  <2>1. End(s[i]) <= s[Len(s)].at
    BY <1>1, <1>3 DEF Tiled
  <2>2. s[Len(s)].at < End(s[Len(s)]) /\ End(s[i]) \in Nat /\ s[Len(s)].at \in Nat
        /\ End(s[Len(s)]) \in Nat
    BY <1>1, BlockFacts
  <2>3. End(s[Len(s)]) = HeapSize
    BY DEF Tiled
  <2> QED
    BY <2>1, <2>2, <2>3
<1> QED
  BY <1>2, <1>3

(* In a tiled heap every byte belongs to a block: the first block that ends *)
(* behind it.                                                               *)
LEMMA Covered ==
  ASSUME NEW s \in Seq(Block), Tiled(s), NEW a \in 0 .. HeapSize - 1
  PROVE  \E i \in 1 .. Len(s) : s[i].at <= a /\ a < End(s[i])
<1> DEFINE T == {i \in 1 .. Len(s) : a < End(s[i])}
<1>1. Len(s) \in Nat /\ Len(s) \in 1 .. Len(s)
  BY DEF Tiled
<1>2. T \subseteq Nat /\ T # {}
  <2>1. Len(s) \in T
    BY <1>1 DEF Tiled
  <2> QED
    BY <1>1, <2>1
<1>3. PICK i \in T : \A k \in T : ~(k < i)
  BY <1>2, Numbers!LeastElement
<1>4. \A k \in T : ~(k < i)
  BY <1>3
<1>5. i \in 1 .. Len(s) /\ a < End(s[i])
  OBVIOUS
<1>6. CASE i = 1
  BY <1>5, <1>6 DEF Tiled
<1>7. CASE i # 1
  <2>1. i - 1 \in 1 .. Len(s) /\ i - 1 \in 1 .. Len(s) - 1 /\ (i - 1) + 1 = i /\ i - 1 < i
    BY <1>1, <1>5, <1>7
  <2>2. ~(a < End(s[i - 1]))
    BY <1>4, <2>1
  <2>3. s[i].at = End(s[i - 1])
    BY <2>1 DEF Tiled
  <2>4. End(s[i - 1]) \in Nat
    BY <2>1, BlockFacts
  <2> QED
    BY <1>5, <2>2, <2>3, <2>4
<1> QED
  BY <1>6, <1>7

(* Blocks of a tiled heap are told apart by their addresses.                *)
LEMMA AddressesDiffer ==
  ASSUME NEW s \in Seq(Block), Tiled(s), NEW i \in 1 .. Len(s), NEW j \in 1 .. Len(s),
         s[i].at = s[j].at
  PROVE  i = j
<1>1. /\ s[i].at < End(s[i]) /\ s[j].at < End(s[j])
      /\ s[i].at \in Nat /\ End(s[i]) \in Nat /\ s[j].at \in Nat /\ End(s[j]) \in Nat
  BY BlockFacts
<1>2. ~(i < j)
  BY <1>1 DEF Tiled
<1>3. ~(j < i)
  BY <1>1 DEF Tiled
<1> QED
  BY <1>2, <1>3

(* The two blocks that a block is split into lie where it lay. *)
LEMMA Pieces ==
  ASSUME NEW b \in Block, NEW n \in Nat, b.size > n + Header, End(b) <= HeapSize
  PROVE  /\ Taken(b, n) \in Block /\ Rest(b, n) \in Block
         /\ Taken(b, n).at = b.at /\ End(Taken(b, n)) = Rest(b, n).at
         /\ End(Rest(b, n)) = End(b)
<1>1. PICK a \in Nat, z \in Nat : a = b.at /\ z = b.size
  BY DEF Block
<1>2. z > n + Header /\ a + Header + z <= HeapSize
  BY <1>1 DEF End
<1>3. /\ a \in 0 .. HeapSize /\ n \in 0 .. HeapSize /\ a + Header + n \in 0 .. HeapSize
      /\ z - n - Header \in 0 .. HeapSize
      /\ a + Header + n + Header + (z - n - Header) = a + Header + z
  BY <1>2
<1> QED
  BY <1>1, <1>3 DEF Block, End, Taken, Rest

Marked(s, i, v) == [s EXCEPT ![i].isFree = v]

(* Changing only whether a block is free keeps the tiling.                  *)
LEMMA MarkTiled ==
  ASSUME NEW s \in Seq(Block), Tiled(s), NEW i \in 1 .. Len(s), NEW v \in BOOLEAN,
         NEW t, t = Marked(s, i, v)
  PROVE  /\ t \in Seq(Block) /\ Tiled(t) /\ Len(t) = Len(s)
         /\ \A k \in 1 .. Len(s) :
               t[k] = IF k = i THEN [at |-> s[i].at, size |-> s[i].size, isFree |-> v]
                               ELSE s[k]
<1>1. \A k \in 1 .. Len(s) : s[k] \in Block
  OBVIOUS
<1>2. [at |-> s[i].at, size |-> s[i].size, isFree |-> v] \in Block
  BY <1>1 DEF Block
<1>3. [s[i] EXCEPT !.isFree = v] = [at |-> s[i].at, size |-> s[i].size, isFree |-> v]
  BY <1>1, BlockExcept
<1>4. t = [s EXCEPT ![i] = [at |-> s[i].at, size |-> s[i].size, isFree |-> v]]
  BY <1>3 DEF Marked
<1>5. /\ t \in Seq(Block) /\ Len(t) = Len(s)
      /\ \A k \in 1 .. Len(s) :
            t[k] = IF k = i THEN [at |-> s[i].at, size |-> s[i].size, isFree |-> v]
                            ELSE s[k]
  BY <1>2, <1>4
<1>6. \A k \in 1 .. Len(s) : t[k].at = s[k].at /\ End(t[k]) = End(s[k])
  BY <1>5 DEF End
<1>7. Len(s) \in 1 .. Len(s) /\ 1 \in 1 .. Len(s) /\ Len(s) \in Nat
  OBVIOUS
<1>8. t # <<>> /\ t[1].at = 0 /\ End(t[Len(t)]) = HeapSize
  BY <1>5, <1>6, <1>7 DEF Tiled
<1>9. ASSUME NEW k \in 1 .. Len(t) - 1 PROVE t[k + 1].at = End(t[k])
  <2>1. k \in 1 .. Len(s) /\ k + 1 \in 1 .. Len(s) /\ k \in 1 .. Len(s) - 1
    BY <1>5, <1>7
  <2> QED
    BY <1>6, <2>1 DEF Tiled
<1>10. ASSUME NEW k \in 1 .. Len(t), NEW l \in 1 .. Len(t), k < l
       PROVE  End(t[k]) <= t[l].at
  BY <1>5, <1>6, <1>10 DEF Tiled
<1> QED
  BY <1>5, <1>8, <1>9, <1>10 DEF Tiled

(* Cutting a free block in two keeps the tiling, and the rest meets no free *)
(* neighbour that the hole had not.                                         *)
LEMMA SplitTiled ==
  ASSUME NEW s \in Seq(Block), Tiled(s), s = list,
         NEW i \in 1 .. Len(s), s[i].isFree, NEW size \in Nat, s[i].size > size + Header
  PROVE  LET t == Split(i, size)
         IN  /\ t \in Seq(Block) /\ Tiled(t) /\ Len(t) = Len(s) + 1
             /\ t[i] = Taken(s[i], size) /\ t[i + 1] = Rest(s[i], size)
             /\ \A k \in 1 .. i - 1 : t[k] = s[k]
             /\ \A k \in i + 1 .. Len(s) : t[k + 1] = s[k]
<1> DEFINE t == Split(i, size)
<1> DEFINE taken == Taken(s[i], size)
<1> DEFINE rest == Rest(s[i], size)
<1>1. /\ s[i].at \in Nat /\ s[i].size \in Nat /\ End(s[i]) <= HeapSize
      /\ End(s[i]) = s[i].at + Header + s[i].size
  BY BlockFacts, TiledBound
<1>2. /\ taken \in Block /\ rest \in Block
      /\ End(taken) = rest.at /\ End(rest) = End(s[i])
  <2>1. s[i] \in Block
    BY BlockFacts
  <2> QED
    BY <1>1, <2>1, Pieces
<1>3. /\ taken.at = s[i].at /\ End(taken) = rest.at /\ End(rest) = End(s[i])
      /\ s[i].at <= rest.at /\ rest.at <= End(s[i]) /\ End(taken) <= End(s[i])
      /\ rest.at \in Nat /\ End(rest) \in Nat /\ End(taken) \in Nat /\ taken.at \in Nat
  <2>1. \A b \in Block : b.at \in Nat /\ End(b) \in Nat /\ b.at <= End(b)
    BY SMTT(30) DEF Block, End
  <2>2. taken.at = s[i].at
    BY <1>1 DEF Taken
  <2> HIDE DEF taken, rest
  <2>3. rest.at \in Nat /\ End(rest) \in Nat /\ rest.at <= End(rest)
        /\ taken.at \in Nat /\ End(taken) \in Nat /\ taken.at <= End(taken)
    BY <1>2, <2>1
  <2> QED
    BY <1>2, <2>2, <2>3
<1>4. Len(s) \in Nat /\ Len(s) \in 1 .. Len(s) /\ 1 \in 1 .. Len(s) /\ i \in Nat
  OBVIOUS
<1> DEFINE mid == <<taken, rest>>
<1>5. mid \in Seq(Block) /\ Len(mid) = 2 /\ mid[1] = taken /\ mid[2] = rest
  BY <1>2
<1>6. t = Spliced(s, i, mid, i + 1)
  BY DEF Split, Spliced
<1> HIDE DEF t, mid, taken, rest
<1>7. i + 1 \in i .. Len(s) + 1
  BY <1>4
<1>8. /\ t \in Seq(Block) /\ Len(t) = (i - 1) + Len(mid) + (Len(s) - (i + 1) + 1)
      /\ \A k \in 1 .. i - 1 : t[k] = s[k]
      /\ \A k \in 1 .. Len(mid) : t[i - 1 + k] = mid[k]
      /\ \A k \in i + 1 .. Len(s) : t[k - (i + 1) + i + Len(mid)] = s[k]
  <2>1. t \in Seq(Block) /\ IsSplice(t, s, i, mid, i + 1)
    BY <1>5, <1>6, <1>7, Splice
  <2> QED
    BY <2>1 DEF IsSplice
<1>9. Len(t) = Len(s) + 1
  BY <1>4, <1>5, <1>8
<1>10. t[i] = taken
  <2>1. 1 \in 1 .. Len(mid) /\ i - 1 + 1 = i
    BY <1>4, <1>5
  <2> QED
    BY <1>5, <1>8, <2>1
<1>11. t[i + 1] = rest
  <2>1. 2 \in 1 .. Len(mid) /\ i - 1 + 2 = i + 1
    BY <1>4, <1>5
  <2> QED
    BY <1>5, <1>8, <2>1
<1>12. ASSUME NEW k \in i + 1 .. Len(s) PROVE t[k + 1] = s[k]
  <2>1. k - (i + 1) + i + Len(mid) = k + 1
    BY <1>4, <1>5
  <2> QED
    BY <1>8, <2>1
<1>13. ASSUME NEW k \in 1 .. Len(t)
       PROVE  k \in 1 .. i - 1 \/ k = i \/ k = i + 1
              \/ (k - 1 \in i + 1 .. Len(s) /\ t[k] = s[k - 1])
  <2>1. k \in 1 .. i - 1 \/ k = i \/ k = i + 1
        \/ (k - 1 \in i + 1 .. Len(s) /\ (k - 1) + 1 = k)
    BY <1>4, <1>9
  <2> QED
    BY <1>12, <2>1
(* Where the blocks of t lie, by those of s. *)
<1>14. ASSUME NEW k \in 1 .. Len(s) PROVE s[k].at \in Nat /\ End(s[k]) \in Nat
  BY BlockFacts
<1>15. t # <<>> /\ t[1].at = 0
  <2>1. CASE i = 1
    BY <1>3, <1>9, <1>10, <2>1, <1>4 DEF Tiled
  <2>2. CASE i # 1
    <3>1. 1 \in 1 .. i - 1
      BY <1>4, <2>2
    <3> QED
      BY <1>4, <1>8, <1>9, <3>1 DEF Tiled
  <2> QED
    BY <2>1, <2>2
<1>16. End(t[Len(t)]) = HeapSize
  <2>1. CASE i = Len(s)
    BY <1>3, <1>9, <1>11, <2>1 DEF Tiled
  <2>2. CASE i # Len(s)
    <3>1. Len(s) \in i + 1 .. Len(s)
      BY <1>4, <2>2
    <3> QED
      BY <1>9, <1>12, <3>1 DEF Tiled
  <2> QED
    BY <2>1, <2>2
<1>17. ASSUME NEW k \in 1 .. Len(t) - 1 PROVE t[k + 1].at = End(t[k])
  <2>1. CASE k + 1 \in 1 .. i - 1
    <3>1. k \in 1 .. i - 1 /\ k \in 1 .. Len(s) - 1
      BY <1>4, <2>1
    <3> QED
      BY <1>8, <2>1, <3>1 DEF Tiled
  <2>2. CASE k + 1 = i
    <3>1. k \in 1 .. i - 1 /\ k \in 1 .. Len(s) - 1
      BY <1>4, <2>2
    <3> QED
      BY <1>3, <1>8, <1>10, <2>2, <3>1 DEF Tiled
  <2>3. CASE k = i
    BY <1>3, <1>10, <1>11, <2>3
  <2>4. CASE k = i + 1
    <3>1. i \in 1 .. Len(s) - 1 /\ i + 1 \in i + 1 .. Len(s) /\ k + 1 = (i + 1) + 1
      BY <1>4, <1>9, <2>4
    <3>2. t[(i + 1) + 1] = s[i + 1]
      BY <1>12, <3>1
    <3> QED
      BY <1>3, <1>11, <2>4, <3>1, <3>2 DEF Tiled
  <2>5. CASE k > i + 1
    <3>1. /\ k - 1 \in i + 1 .. Len(s) /\ k \in i + 1 .. Len(s) /\ k - 1 \in 1 .. Len(s) - 1
          /\ (k - 1) + 1 = k
      BY <1>4, <1>9, <2>5
    <3>2. t[(k - 1) + 1] = s[k - 1] /\ t[k + 1] = s[k]
      BY <1>12, <3>1
    <3>3. s[(k - 1) + 1].at = End(s[k - 1])
      BY <3>1 DEF Tiled
    <3> QED
      BY <3>1, <3>2, <3>3
  <2>6. k \in Nat
    BY <1>4, <1>9
  <2> QED
    BY <1>4, <1>9, <2>1, <2>2, <2>3, <2>4, <2>5, <2>6
<1>18. ASSUME NEW k \in 1 .. Len(t), NEW l \in 1 .. Len(t), k < l
       PROVE  End(t[k]) <= t[l].at
  (* Both lie in a block of s, t[k] not behind that of t[l]. *)
  <2>1. PICK p \in 1 .. Len(s) :
           /\ End(t[k]) <= End(s[p]) /\ (k <= i => p = k) /\ (k > i => p = k - 1)
           /\ (k # i => End(t[k]) = End(s[p]))
    <3>1. CASE k < i
      <4>1. k \in 1 .. Len(s) /\ t[k] = s[k] /\ End(s[k]) <= End(s[k]) /\ ~(k > i)
        BY <1>4, <1>8, <1>14, <3>1
      <4> QED
        BY <3>1, <4>1
    <3>2. CASE k = i
      BY <1>3, <1>4, <1>10, <3>2
    <3>3. CASE k = i + 1
      BY <1>3, <1>4, <1>11, <3>3
    <3>4. CASE k > i + 1
      <4>1. /\ k - 1 \in 1 .. Len(s) /\ t[k] = s[k - 1] /\ End(s[k - 1]) <= End(s[k - 1])
            /\ ~(k <= i)
        <5>1. k - 1 \in 1 .. Len(s) /\ k - 1 \in i + 1 .. Len(s) /\ (k - 1) + 1 = k /\ ~(k <= i)
          BY <1>4, <1>9, <3>4
        <5>2. t[(k - 1) + 1] = s[k - 1]
          BY <1>12, <5>1
        <5> QED
          BY <1>14, <5>1, <5>2
      <4> QED
        BY <3>4, <4>1
    <3> QED
      BY <1>4, <1>9, <3>1, <3>2, <3>3, <3>4
  <2>2. PICK q \in 1 .. Len(s) :
           /\ s[q].at <= t[l].at /\ (l <= i => q = l) /\ (l > i => q = l - 1)
    <3>1. CASE l < i
      <4>1. l \in 1 .. Len(s) /\ t[l] = s[l] /\ s[l].at <= s[l].at /\ ~(l > i)
        <5>1. l \in 1 .. i - 1 /\ l \in 1 .. Len(s) /\ ~(l > i)
          BY <1>4, <3>1
        <5>2. t[l] = s[l]
          BY <1>8, <5>1
        <5>3. s[l].at \in Nat
          BY <1>14, <5>1
        <5> QED
          BY <5>1, <5>2, <5>3
      <4> QED
        BY <3>1, <4>1
    <3>2. CASE l = i
      BY <1>3, <1>4, <1>10, <3>2
    <3>3. CASE l = i + 1
      BY <1>3, <1>4, <1>11, <1>1, <3>3
    <3>4. CASE l > i + 1
      <4>1. /\ l - 1 \in 1 .. Len(s) /\ t[l] = s[l - 1] /\ s[l - 1].at <= s[l - 1].at
            /\ ~(l <= i)
        <5>1. l - 1 \in 1 .. Len(s) /\ l - 1 \in i + 1 .. Len(s) /\ (l - 1) + 1 = l /\ ~(l <= i)
          BY <1>4, <1>9, <3>4
        <5>2. t[(l - 1) + 1] = s[l - 1]
          BY <1>12, <5>1
        <5> QED
          BY <1>14, <5>1, <5>2, SMTT(30)
      <4> QED
        BY <3>4, <4>1
    <3> QED
      BY <1>4, <1>9, <3>1, <3>2, <3>3, <3>4
  <2>3. CASE k = i /\ l = i + 1
    BY <1>3, <1>10, <1>11, <2>3
  <2>4. CASE ~(k = i /\ l = i + 1)
    <3>1. p < q
      BY <1>4, <1>9, <1>18, <2>1, <2>2, <2>4
    <3>2. End(s[p]) <= s[q].at
      BY <3>1 DEF Tiled
    <3>3. End(t[k]) \in Nat /\ t[l].at \in Nat /\ End(s[p]) \in Nat /\ s[q].at \in Nat
      BY <1>8, <1>14, BlockFacts
    <3> QED
      BY <2>1, <2>2, <3>2, <3>3, SMTT(30)
  <2> QED
    BY <2>3, <2>4
<1>19. Tiled(t)
  BY <1>15, <1>16, <1>17, <1>18 DEF Tiled
<1> QED
  BY <1>8, <1>9, <1>10, <1>11, <1>12, <1>19 DEF t, taken, rest

(* A block that swallows its successor keeps the tiling.                    *)
LEMMA AbsorbTiled ==
  ASSUME NEW s \in Seq(Block), Tiled(s), NEW i \in 1 .. Len(s) - 1
  PROVE  LET t == Absorb(s, i)
             both == [at |-> s[i].at, size |-> s[i].size + s[i + 1].size + Header,
                      isFree |-> s[i].isFree]
         IN  /\ t \in Seq(Block) /\ Tiled(t) /\ Len(t) = Len(s) - 1
             /\ t[i] = both
             /\ \A k \in 1 .. i - 1 : t[k] = s[k]
             /\ \A k \in i + 1 .. Len(s) - 1 : t[k] = s[k + 1]
<1> DEFINE t == Absorb(s, i)
<1> DEFINE both == [at |-> s[i].at, size |-> s[i].size + s[i + 1].size + Header,
                    isFree |-> s[i].isFree]
<1>1. /\ Len(s) \in Nat /\ Len(s) \in 1 .. Len(s) /\ 1 \in 1 .. Len(s) /\ i \in Nat
      /\ i \in 1 .. Len(s) /\ i + 1 \in 1 .. Len(s) /\ i + 2 \in i .. Len(s) + 1
  OBVIOUS
<1>2. \A k \in 1 .. Len(s) : s[k].at \in Nat /\ s[k].size \in Nat /\ End(s[k]) \in Nat
  BY BlockFacts
<1>3. s[i + 1].at = End(s[i]) /\ End(s[i + 1]) <= HeapSize
  BY <1>1, TiledBound DEF Tiled
<1>4. /\ both.at = s[i].at /\ End(both) = End(s[i + 1])
      /\ s[i].size + s[i + 1].size + Header \in 0 .. HeapSize
  <2>1. /\ s[i].at \in Nat /\ s[i].size \in Nat /\ s[i + 1].size \in Nat
        /\ Header \in Nat /\ HeapSize \in Nat
    BY <1>1, <1>2
  <2>2. End(s[i + 1]) = (s[i].at + Header + s[i].size) + Header + s[i + 1].size
    BY <1>3 DEF End
  <2>3. End(both) = s[i].at + Header + (s[i].size + s[i + 1].size + Header)
    BY DEF End
  <2>4. (s[i].at + Header + s[i].size) + Header + s[i + 1].size
          = s[i].at + Header + (s[i].size + s[i + 1].size + Header)
    BY <2>1, Joined, SMTT(30)
  <2>5. s[i].size + s[i + 1].size + Header \in 0 .. HeapSize
    BY <1>3, <2>1, <2>2, <2>4, Bounded
  <2> QED
    BY <2>2, <2>3, <2>4, <2>5
<1>5. both \in Block
  <2>1. s[i] \in Block
    BY <1>1
  <2> QED
    BY <1>4, <2>1 DEF Block
<1> DEFINE mid == <<both>>
<1>6. mid \in Seq(Block) /\ Len(mid) = 1 /\ mid[1] = both
  BY <1>5
<1>7. t = Spliced(s, i, mid, i + 2)
  <2>1. [s[i] EXCEPT !.size = @ + s[i + 1].size + Header] = both
    <3>1. s[i] \in Block
      BY <1>1
    <3> QED
      BY <3>1, BlockExcept
  <2> QED
    BY <2>1 DEF Absorb, Spliced
<1> HIDE DEF t, both, mid
<1>8. t \in Seq(Block) /\ IsSplice(t, s, i, mid, i + 2)
  BY <1>1, <1>6, <1>7, Splice
<1>9. Len(t) = Len(s) - 1 /\ \A k \in 1 .. i - 1 : t[k] = s[k]
  BY <1>1, <1>6, <1>8 DEF IsSplice
<1>10. t[i] = both
  <2>1. 1 \in 1 .. Len(mid) /\ i - 1 + 1 = i
    BY <1>1, <1>6
  <2> QED
    BY <1>6, <1>8, <2>1 DEF IsSplice
<1>11. ASSUME NEW k \in i + 1 .. Len(s) - 1 PROVE t[k] = s[k + 1]
  <2>1. k + 1 \in i + 2 .. Len(s) /\ (k + 1) - (i + 2) + i + Len(mid) = k
    BY <1>1, <1>6
  <2> QED
    BY <1>8, <2>1 DEF IsSplice
(* Each block of t lies where one of s lies, or two of them. *)
<1>12. t # <<>> /\ t[1].at = 0
  <2>1. CASE i = 1
    BY <1>1, <1>4, <1>9, <1>10, <2>1 DEF Tiled
  <2>2. CASE i # 1
    <3>1. 1 \in 1 .. i - 1
      BY <1>1, <2>2
    <3> QED
      BY <1>1, <1>9, <3>1 DEF Tiled
  <2> QED
    BY <2>1, <2>2
<1>13. End(t[Len(t)]) = HeapSize
  <2>1. CASE i = Len(s) - 1
    BY <1>1, <1>4, <1>9, <1>10, <2>1 DEF Tiled
  <2>2. CASE i # Len(s) - 1
    <3>1. Len(s) - 1 \in i + 1 .. Len(s) - 1 /\ (Len(s) - 1) + 1 = Len(s)
      BY <1>1, <2>2
    <3> QED
      BY <1>9, <1>11, <3>1 DEF Tiled
  <2> QED
    BY <2>1, <2>2
<1>14. ASSUME NEW k \in 1 .. Len(t) - 1 PROVE t[k + 1].at = End(t[k])
  <2>1. CASE k + 1 < i
    <3>1. k \in 1 .. i - 1 /\ k + 1 \in 1 .. i - 1 /\ k \in 1 .. Len(s) - 1
      BY <1>1, <1>9, <2>1
    <3> QED
      BY <1>9, <3>1 DEF Tiled
  <2>2. CASE k + 1 = i
    <3>1. k \in 1 .. i - 1 /\ k \in 1 .. Len(s) - 1
      BY <1>1, <1>9, <2>2
    <3> QED
      BY <1>4, <1>9, <1>10, <2>2, <3>1 DEF Tiled
  <2>3. CASE k = i
    <3>1. k + 1 \in i + 1 .. Len(s) - 1 /\ i + 1 \in 1 .. Len(s) - 1
      BY <1>1, <1>9, <2>3
    <3>2. t[k + 1] = s[(i + 1) + 1]
      BY <1>11, <2>3, <3>1
    <3> QED
      BY <1>4, <1>10, <2>3, <3>1, <3>2 DEF Tiled
  <2>4. CASE k > i
    <3>1. /\ k \in i + 1 .. Len(s) - 1 /\ k + 1 \in i + 1 .. Len(s) - 1
          /\ k + 1 \in 1 .. Len(s) - 1
      BY <1>1, <1>9, <2>4
    <3>2. t[k] = s[k + 1] /\ t[k + 1] = s[(k + 1) + 1]
      BY <1>11, <3>1
    <3> QED
      BY <3>1, <3>2 DEF Tiled
  <2> QED
    BY <1>1, <1>9, <2>1, <2>2, <2>3, <2>4
<1>15. ASSUME NEW k \in 1 .. Len(t), NEW l \in 1 .. Len(t), k < l
       PROVE  End(t[k]) <= t[l].at
  <2>1. PICK p \in 1 .. Len(s) :
           End(t[k]) = End(s[p]) /\ (k < i => p = k) /\ (k >= i => p = k + 1)
    <3>1. CASE k < i
      <4>1. k \in 1 .. Len(s) /\ t[k] = s[k] /\ ~(k >= i)
        BY <1>1, <1>9, <3>1
      <4> QED
        BY <3>1, <4>1
    <3>2. CASE k = i
      BY <1>1, <1>4, <1>10, <3>2, SMTT(30)
    <3>3. CASE k > i
      <4>1. k + 1 \in 1 .. Len(s) /\ k \in i + 1 .. Len(s) - 1 /\ ~(k < i)
        BY <1>1, <1>9, <3>3
      <4>2. t[k] = s[k + 1]
        BY <1>11, <4>1
      <4> QED
        BY <4>1, <4>2
    <3> QED
      BY <1>1, <1>9, <3>1, <3>2, <3>3
  <2>2. PICK q \in 1 .. Len(s) :
           t[l].at = s[q].at /\ (l <= i => q = l) /\ (l > i => q = l + 1)
    <3>1. CASE l < i
      <4>1. l \in 1 .. Len(s) /\ t[l] = s[l] /\ ~(l > i)
        BY <1>1, <1>9, <3>1, SMTT(30)
      <4> QED
        BY <4>1
    <3>2. CASE l = i
      <4>1. i \in 1 .. Len(s) /\ t[l].at = s[i].at /\ ~(l > i)
        <5>1. i \in 1 .. Len(s) /\ ~(l > i)
          BY <1>1, <3>2
        <5>2. t[l].at = both.at /\ both.at = s[i].at
          BY <1>4, <1>10, <3>2
        <5> QED
          BY <5>1, <5>2
      <4> QED
        BY <3>2, <4>1
    <3>3. CASE l > i
      <4>1. l + 1 \in 1 .. Len(s) /\ l \in i + 1 .. Len(s) - 1 /\ ~(l <= i)
        BY <1>1, <1>9, <3>3
      <4>2. t[l] = s[l + 1]
        BY <1>11, <4>1
      <4> QED
        BY <4>1, <4>2
    <3> QED
      BY <1>1, <1>9, <3>1, <3>2, <3>3
  <2>3. p < q
    BY <1>1, <1>9, <1>15, <2>1, <2>2
  <2>4. End(s[p]) <= s[q].at
    BY <2>3 DEF Tiled
  <2> QED
    BY <2>1, <2>2, <2>4
<1>16. Tiled(t)
  BY <1>12, <1>13, <1>14, <1>15 DEF Tiled
<1> QED
  BY <1>8, <1>9, <1>10, <1>11, <1>16 DEF t, both
-----------------------------------------------------------------------------
(* The chain that malloc walks is well formed, the one it first makes too.  *)
LEMMA ListFacts ==
  ASSUME IInv
  PROVE  /\ list \in Seq(Block) /\ Tiled(list) /\ Merged(list)
         /\ (head # <<>> => list = head)
<1> DEFINE whole == [at |-> 0, size |-> HeapSize - Header, isFree |-> TRUE]
<1>1. CASE head = <<>>
  <2>1. whole \in Block /\ End(whole) = HeapSize
    BY DEF Block, End
  <2>2. list = <<whole>>
    BY <1>1 DEF list
  <2> HIDE DEF whole
  <2>3. list \in Seq(Block) /\ Len(list) = 1 /\ list[1] = whole
    BY <2>1, <2>2
  <2>4. list # <<>> /\ list[1].at = 0 /\ End(list[Len(list)]) = HeapSize
    <3>1. whole.at = 0
      BY DEF whole
    <3> QED
      BY <2>1, <2>3, <3>1
  <2>5. Tiled(list)
    BY <2>3, <2>4 DEF Tiled
  <2>6. Merged(list)
    BY <2>3 DEF Merged
  <2> QED
    BY <1>1, <2>3, <2>5, <2>6
<1>2. CASE head # <<>>
  BY <1>2 DEF list, IInv, TypeOK
<1> QED
  BY <1>1, <1>2

(* A block taken whole, in use from now on, meets no free neighbour.        *)
LEMMA TakeKeeps ==
  ASSUME IInv, NEW i \in 1 .. Len(list)
  PROVE  Take(i) \in Seq(Block) /\ Tiled(Take(i)) /\ Merged(Take(i))
<1> DEFINE s == list
<1>1. s \in Seq(Block) /\ Tiled(s) /\ Merged(s) /\ i \in 1 .. Len(s)
  BY ListFacts
<1> DEFINE t == Take(i)
<1>2. t = [s EXCEPT ![i].isFree = FALSE]
  BY DEF Take
<1> HIDE DEF s, t
<1>3. /\ t \in Seq(Block) /\ Tiled(t) /\ Len(t) = Len(s)
      /\ \A k \in 1 .. Len(s) :
            t[k] = IF k = i THEN [at |-> s[i].at, size |-> s[i].size, isFree |-> FALSE]
                            ELSE s[k]
  <2>1. PICK v \in BOOLEAN : v = FALSE
    OBVIOUS
  <2>2. t = Marked(s, i, v)
    BY <1>2, <2>1 DEF Marked
  <2>3. /\ t \in Seq(Block) /\ Tiled(t) /\ Len(t) = Len(s)
        /\ \A k \in 1 .. Len(s) :
              t[k] = IF k = i THEN [at |-> s[i].at, size |-> s[i].size, isFree |-> v]
                              ELSE s[k]
    BY <1>1, <2>2, MarkTiled
  <2> HIDE DEF t
  <2> QED
    BY <2>1, <2>3
<1>4. \A k \in 1 .. Len(s) : t[k].isFree => s[k].isFree
  BY <1>3
<1>5. Merged(t)
  BY <1>1, <1>3, <1>4 DEF Merged
<1> QED
  BY <1>3, <1>5 DEF t

(* The rest of a hole has no free neighbour: the hole had none.             *)
LEMMA SplitKeeps ==
  ASSUME IInv, NEW i \in 1 .. Len(list), list[i].isFree,
         NEW size \in Nat, list[i].size > size + Header
  PROVE  Split(i, size) \in Seq(Block) /\ Tiled(Split(i, size)) /\ Merged(Split(i, size))
<1> DEFINE s == list
<1> DEFINE t == Split(i, size)
<1>1. s \in Seq(Block) /\ Tiled(s) /\ Merged(s) /\ i \in 1 .. Len(s) /\ s[i].isFree
  BY ListFacts
<1>2. /\ t \in Seq(Block) /\ Tiled(t) /\ Len(t) = Len(s) + 1
      /\ t[i] = Taken(s[i], size) /\ t[i + 1] = Rest(s[i], size)
      /\ \A k \in 1 .. i - 1 : t[k] = s[k]
      /\ \A k \in i + 1 .. Len(s) : t[k + 1] = s[k]
  BY <1>1, SplitTiled
<1> HIDE DEF s, t
<1>3. Len(s) \in Nat /\ i \in Nat
  BY <1>1
<1>4. ~t[i].isFree
  BY <1>2 DEF Taken
<1>5. ASSUME NEW k \in 1 .. Len(t) - 1 PROVE ~(t[k].isFree /\ t[k + 1].isFree)
  <2>1. CASE k + 1 < i
    <3>1. k \in 1 .. i - 1 /\ k + 1 \in 1 .. i - 1 /\ k \in 1 .. Len(s) - 1
      BY <1>1, <1>3, <2>1
    <3> QED
      BY <1>1, <1>2, <3>1 DEF Merged
  <2>2. CASE k = i \/ k + 1 = i
    BY <1>4, <2>2
  <2>3. CASE k = i + 1
    <3>1. i \in 1 .. Len(s) - 1 /\ i + 1 \in i + 1 .. Len(s) /\ k + 1 = (i + 1) + 1
      BY <1>2, <1>3, <2>3
    <3>2. t[(i + 1) + 1] = s[i + 1]
      BY <1>2, <3>1
    <3> QED
      BY <1>1, <3>1, <3>2 DEF Merged
  <2>4. CASE k > i + 1
    <3>1. /\ k - 1 \in i + 1 .. Len(s) /\ k \in i + 1 .. Len(s)
          /\ k - 1 \in 1 .. Len(s) - 1 /\ (k - 1) + 1 = k
      BY <1>2, <1>3, <2>4
    <3>2. t[(k - 1) + 1] = s[k - 1] /\ t[k + 1] = s[k]
      BY <1>2, <3>1
    <3>3. ~(s[k - 1].isFree /\ s[(k - 1) + 1].isFree)
      BY <1>1, <3>1 DEF Merged
    <3> QED
      BY <3>1, <3>2, <3>3
  <2>5. k \in Nat
    BY <1>2, <1>3
  <2> QED
    BY <1>3, <2>1, <2>2, <2>3, <2>4, <2>5
<1>6. Merged(t)
  BY <1>5 DEF Merged
<1> QED
  BY <1>2, <1>6 DEF t

(* Swallowing a successor leaves at most the pairs it is part of unmerged.  *)
LEMMA AbsorbMerges ==
  ASSUME NEW s \in Seq(Block), Tiled(s), NEW i \in 1 .. Len(s) - 1,
         \A k \in 1 .. Len(s) - 1 : s[k].isFree /\ s[k + 1].isFree => k \in {i, i + 1},
         s[i].isFree
  PROVE  /\ MergedBut(Absorb(s, i), i)
         /\ (i + 1 < Len(s) => Absorb(s, i)[i + 1] = s[i + 2])
<1> DEFINE t == Absorb(s, i)
<1> DEFINE both == [at |-> s[i].at, size |-> s[i].size + s[i + 1].size + Header,
                    isFree |-> s[i].isFree]
<1>1. /\ t \in Seq(Block) /\ Tiled(t) /\ Len(t) = Len(s) - 1
      /\ t[i].isFree = s[i].isFree
      /\ \A k \in 1 .. i - 1 : t[k] = s[k]
      /\ \A k \in i + 1 .. Len(s) - 1 : t[k] = s[k + 1]
  <2>1. /\ t \in Seq(Block) /\ Tiled(t) /\ Len(t) = Len(s) - 1
        /\ t[i] = both
        /\ \A k \in 1 .. i - 1 : t[k] = s[k]
        /\ \A k \in i + 1 .. Len(s) - 1 : t[k] = s[k + 1]
    BY AbsorbTiled
  <2>2. both.isFree = s[i].isFree
    OBVIOUS
  <2> HIDE DEF t, both
  <2> QED
    BY <2>1, <2>2
<1> HIDE DEF t
<1>2. Len(s) \in Nat /\ i \in Nat
  OBVIOUS
<1>3. ASSUME NEW k \in 1 .. Len(t) - 1, t[k].isFree, t[k + 1].isFree PROVE k = i
  <2>1. CASE k + 1 < i
    <3>1. k \in 1 .. i - 1 /\ k + 1 \in 1 .. i - 1 /\ k \in 1 .. Len(s) - 1
      BY <1>1, <1>2, <2>1
    <3>2. s[k].isFree /\ s[k + 1].isFree /\ k \notin {i, i + 1}
      BY <1>1, <1>2, <1>3, <2>1, <3>1
    <3> QED
      BY <3>1, <3>2
  <2>2. CASE k + 1 = i
    <3>1. k \in 1 .. i - 1 /\ k \in 1 .. Len(s) - 1 /\ k \notin {i, i + 1}
      BY <1>1, <1>2, <2>2
    <3>2. s[k].isFree /\ s[k + 1].isFree
      BY <1>1, <1>3, <2>2, <3>1
    <3> QED
      BY <3>1, <3>2
  <2>3. CASE k > i
    <3>1. /\ k \in i + 1 .. Len(s) - 1 /\ k + 1 \in i + 1 .. Len(s) - 1
          /\ k + 1 \in 1 .. Len(s) - 1 /\ k + 1 \notin {i, i + 1}
      BY <1>1, <1>2, <2>3
    <3>2. s[k + 1].isFree /\ s[(k + 1) + 1].isFree
      BY <1>1, <1>3, <3>1
    <3> QED
      BY <3>1, <3>2
  <2>4. k \in Nat
    BY <1>1, <1>2
  <2> QED
    BY <1>2, <2>1, <2>2, <2>3, <2>4
<1>4. MergedBut(t, i)
  BY <1>3 DEF MergedBut
<1>5. ASSUME i + 1 < Len(s) PROVE t[i + 1] = s[i + 2]
  <2>1. i + 1 \in i + 1 .. Len(s) - 1 /\ (i + 1) + 1 = i + 2
    BY <1>2, <1>5
  <2> QED
    BY <1>1, <2>1
<1> QED
  BY <1>4, <1>5 DEF t

(* A free block that at most its successor joins is merged with it.         *)
LEMMA MergeForward ==
  ASSUME NEW s \in Seq(Block), Tiled(s), NEW c \in 1 .. Len(s), s[c].isFree, MergedBut(s, c),
         NEW t, t = IF c < Len(s) /\ s[c + 1].isFree THEN Absorb(s, c) ELSE s
  PROVE  t \in Seq(Block) /\ Tiled(t) /\ Merged(t)
<1>1. Len(s) \in Nat /\ c \in Nat
  OBVIOUS
<1>2. CASE c < Len(s) /\ s[c + 1].isFree
  <2>1. c \in 1 .. Len(s) - 1 /\ t = Absorb(s, c)
    BY <1>1, <1>2
  <2>2. t \in Seq(Block) /\ Tiled(t) /\ Len(t) = Len(s) - 1
    BY <2>1, AbsorbTiled, ZenonT(30)
  <2>3. MergedBut(t, c) /\ (c + 1 < Len(s) => t[c + 1] = s[c + 2])
    BY <2>1, AbsorbMerges DEF MergedBut
  <2>4. ASSUME NEW k \in 1 .. Len(t) - 1, t[k].isFree, t[k + 1].isFree PROVE FALSE
    <3>1. k = c
      BY <2>3, <2>4 DEF MergedBut
    <3>2. c + 1 < Len(s) /\ c + 1 \in 1 .. Len(s) - 1 /\ (c + 1) + 1 = c + 2 /\ c + 1 # c
      BY <1>1, <2>2, <3>1
    <3>3. s[c + 1].isFree /\ s[(c + 1) + 1].isFree
      BY <1>2, <2>3, <2>4, <3>1, <3>2
    <3> QED
      BY <3>2, <3>3 DEF MergedBut
  <2> QED
    BY <2>2, <2>4 DEF Merged
<1>3. CASE ~(c < Len(s) /\ s[c + 1].isFree)
  <2>1. t = s
    BY <1>3
  <2>2. ASSUME NEW k \in 1 .. Len(s) - 1, s[k].isFree, s[k + 1].isFree PROVE FALSE
    <3>1. k = c
      BY <2>2 DEF MergedBut
    <3>2. c < Len(s)
      BY <1>1, <3>1
    <3> QED
      BY <1>3, <2>2, <3>1, <3>2
  <2> QED
    BY <2>1, <2>2 DEF Merged
<1> QED
  BY <1>2, <1>3

(* A freed block is merged with free neighbours on either side.             *)
LEMMA ReleaseKeeps ==
  ASSUME IInv, head # <<>>, NEW i \in 1 .. Len(head)
  PROVE  Release(i) \in Seq(Block) /\ Tiled(Release(i)) /\ Merged(Release(i))
<1> DEFINE s == head
<1>1. s \in Seq(Block) /\ Tiled(s) /\ Merged(s) /\ i \in 1 .. Len(s)
  BY DEF IInv, TypeOK
<1> DEFINE marked  == [s EXCEPT ![i].isFree = TRUE]
<1> DEFINE back    == i > 1 /\ marked[i - 1].isFree
<1> DEFINE joined  == IF back THEN Absorb(marked, i - 1) ELSE marked
<1> DEFINE current == IF back THEN i - 1 ELSE i
<1>2. Release(i) = IF current < Len(joined) /\ joined[current + 1].isFree
                   THEN Absorb(joined, current) ELSE joined
  BY DEF Release
<1>3. /\ marked \in Seq(Block) /\ Tiled(marked) /\ Len(marked) = Len(s)
      /\ \A k \in 1 .. Len(s) :
            marked[k] = IF k = i THEN [at |-> s[i].at, size |-> s[i].size, isFree |-> TRUE]
                                 ELSE s[k]
  <2>1. PICK v \in BOOLEAN : v = TRUE
    OBVIOUS
  <2>2. marked = Marked(s, i, v)
    BY <2>1 DEF Marked
  <2> HIDE DEF marked
  <2>3. /\ marked \in Seq(Block) /\ Tiled(marked) /\ Len(marked) = Len(s)
        /\ \A k \in 1 .. Len(s) :
              marked[k] = IF k = i THEN [at |-> s[i].at, size |-> s[i].size, isFree |-> v]
                              ELSE s[k]
    BY <1>1, <2>2, MarkTiled
  <2> QED
    BY <2>1, <2>3
<1> HIDE DEF s, marked
<1>4. Len(s) \in Nat /\ i \in Nat
  BY <1>1
<1>5. marked[i].isFree /\ \A k \in 1 .. Len(s) : k # i => marked[k] = s[k]
  BY <1>1, <1>3
<1>6. ASSUME NEW k \in 1 .. Len(s) - 1, marked[k].isFree, marked[k + 1].isFree
      PROVE  k = i - 1 \/ k = i
  <2>1. k \in 1 .. Len(s) /\ k + 1 \in 1 .. Len(s)
    BY <1>4
  <2>2. k = i \/ k + 1 = i \/ (s[k].isFree /\ s[k + 1].isFree)
    BY <1>5, <1>6, <2>1
  <2> QED
    BY <1>1, <1>4, <2>2 DEF Merged
<1>7. /\ joined \in Seq(Block) /\ Tiled(joined) /\ current \in 1 .. Len(joined)
      /\ joined[current].isFree /\ MergedBut(joined, current)
  <2>1. CASE back
    <3>1. i - 1 \in 1 .. Len(marked) - 1 /\ marked[i - 1].isFree /\ (i - 1) + 1 = i
      BY <1>1, <1>3, <1>4, <2>1
    <3>2. /\ Absorb(marked, i - 1) \in Seq(Block) /\ Tiled(Absorb(marked, i - 1))
          /\ Len(Absorb(marked, i - 1)) = Len(marked) - 1
          /\ Absorb(marked, i - 1)[i - 1].isFree = marked[i - 1].isFree
      <4> DEFINE both == [at |-> marked[i - 1].at,
                          size |-> marked[i - 1].size + marked[i - 1 + 1].size + Header,
                          isFree |-> marked[i - 1].isFree]
      <4>1. /\ Absorb(marked, i - 1) \in Seq(Block) /\ Tiled(Absorb(marked, i - 1))
            /\ Len(Absorb(marked, i - 1)) = Len(marked) - 1
            /\ Absorb(marked, i - 1)[i - 1] = both
        BY <1>3, <3>1, AbsorbTiled, ZenonT(30)
      <4>2. both.isFree = marked[i - 1].isFree
        OBVIOUS
      <4> HIDE DEF both
      <4> QED
        BY <4>1, <4>2
    <3>3. MergedBut(Absorb(marked, i - 1), i - 1)
      <4>1. \A k \in 1 .. Len(marked) - 1 :
               marked[k].isFree /\ marked[k + 1].isFree => k \in {i - 1, i - 1 + 1}
        BY <1>3, <1>6, <3>1
      <4> QED
        BY <1>3, <3>1, <4>1, AbsorbMerges
    <3> QED
      BY <1>3, <1>4, <2>1, <3>1, <3>2, <3>3
  <2>2. CASE ~back
    <3>1. MergedBut(marked, i)
      <4>1. ASSUME NEW k \in 1 .. Len(marked) - 1, marked[k].isFree, marked[k + 1].isFree
            PROVE  k = i
        <5>1. k = i - 1 \/ k = i
          BY <1>3, <1>6, <4>1
        <5>2. k # i - 1
          BY <1>3, <1>4, <2>2, <4>1
        <5> QED
          BY <5>1, <5>2
      <4> QED
        BY <4>1 DEF MergedBut
    <3> QED
      BY <1>1, <1>3, <1>5, <2>2, <3>1
  <2> QED
    BY <2>1, <2>2
<1> HIDE DEF joined, current
<1> QED
  BY <1>2, <1>7, MergeForward
-----------------------------------------------------------------------------
(* Freeing a block that is free already changes nothing: being free it has  *)
(* no free neighbour to be merged with.                                     *)
LEMMA ReleaseOfFree ==
  ASSUME IInv, NEW i \in 1 .. Len(head), head[i].isFree
  PROVE  Release(i) = head
<1> DEFINE s == head
<1>1. s \in Seq(Block) /\ Merged(s) /\ i \in 1 .. Len(s) /\ s[i].isFree
  BY DEF IInv, TypeOK
<1> DEFINE marked == [s EXCEPT ![i].isFree = TRUE]
<1>2. marked = s
  <2>1. s[i] \in Block /\ s[i].isFree = TRUE
    <3>1. s[i] \in Block /\ s[i].isFree \in BOOLEAN
      BY <1>1, BlockFacts
    <3> QED
      BY <1>1, <3>1, Zenon
  <2>2. [s[i] EXCEPT !.isFree = TRUE] = s[i]
    BY <2>1 DEF Block
  <2> QED
    BY <1>1, <2>2
<1>3. Len(s) \in Nat /\ i \in Nat
  BY <1>1
<1>4. ~(i > 1 /\ s[i - 1].isFree)
  <2>1. ASSUME i > 1 PROVE ~s[i - 1].isFree
    <3>1. i - 1 \in 1 .. Len(s) - 1 /\ (i - 1) + 1 = i
      BY <1>1, <1>3, <2>1
    <3> QED
      BY <1>1, <3>1 DEF Merged
  <2> QED
    BY <2>1
<1>5. ~(i < Len(s) /\ s[i + 1].isFree)
  <2>1. ASSUME i < Len(s) PROVE ~s[i + 1].isFree
    <3>1. i \in 1 .. Len(s) - 1
      BY <1>1, <1>3, <2>1
    <3> QED
      BY <1>1, <3>1 DEF Merged
  <2> QED
    BY <2>1
<1>6. ~(i > 1 /\ marked[i - 1].isFree) /\ ~(i < Len(marked) /\ marked[i + 1].isFree)
  BY <1>2, <1>4, <1>5
<1>7. Release(i) = marked
  BY <1>6 DEF Release
<1> QED
  BY <1>2, <1>7

(* The pointer to a block lies in the heap.                                 *)
LEMMA PointerInHeap ==
  ASSUME NEW s \in Seq(Block), Tiled(s), NEW i \in 1 .. Len(s)
  PROVE  s[i].at + Header \in 0 .. HeapSize
<1>1. /\ s[i].at \in Nat /\ s[i].size \in Nat /\ End(s[i]) <= HeapSize
      /\ End(s[i]) = s[i].at + Header + s[i].size
  BY BlockFacts, TiledBound
<1> QED
  BY <1>1

(* The initial states satisfy the inductive invariant.                      *)
LEMMA InitIInv == Init => IInv
<1> SUFFICES ASSUME Init PROVE IInv
  OBVIOUS
<1>1. head = <<>> /\ reply = Freed(NULL)
  BY DEF Init
<1>2. head \in Seq(Block) /\ Len(head) = 0
  BY <1>1
<1>3. Merged(head)
  BY <1>2 DEF Merged
<1>4. TypeOK
  BY <1>1, <1>2 DEF TypeOK
<1> QED
  BY <1>1, <1>3, <1>4 DEF IInv

(* Every call preserves the inductive invariant.                            *)
LEMMA StepIInv == IInv /\ [Next]_vars => IInv'
<1> SUFFICES ASSUME IInv, [Next]_vars PROVE IInv'
  OBVIOUS
<1> DEFINE Keeps == head' \in Seq(Block) /\ (head' # <<>> => Tiled(head')) /\ Merged(head')
<1> DEFINE Replies ==
  {Malloced(size, ptr) : size \in Sizes, ptr \in {NULL} \cup 0 .. HeapSize}
    \cup {Freed(ptr) : ptr \in {NULL} \cup 0 .. HeapSize}
<1>1. ASSUME Keeps, reply' \in Replies PROVE IInv'
  BY <1>1 DEF IInv, TypeOK, Tiled, Merged, End
<1>2. list \in Seq(Block) /\ Tiled(list) /\ Merged(list)
  BY ListFacts
<1>3. head \in Seq(Block) /\ (head # <<>> => Tiled(head)) /\ Merged(head) /\ reply \in Replies
  BY DEF IInv, TypeOK
<1>4. ASSUME NEW size \in Sizes, Malloc(size) PROVE IInv'
  <2>1. PICK i \in Fits(size) :
           /\ head' = IF list[i].size > size + Header THEN Split(i, size) ELSE Take(i)
           /\ reply' = Malloced(size, list[i].at + Header)
    BY <1>4 DEF Malloc
  <2>2. i \in 1 .. Len(list) /\ list[i].isFree /\ size \in Nat
    BY DEF Fits
  <2>3. list[i].at + Header \in 0 .. HeapSize
    BY <1>2, <2>2, PointerInHeap
  <2>4. reply' \in Replies
    BY <2>1, <2>3
  <2>5. Take(i) \in Seq(Block) /\ Tiled(Take(i)) /\ Merged(Take(i))
    BY <2>2, TakeKeeps
  <2>6. ASSUME list[i].size > size + Header
        PROVE  /\ Split(i, size) \in Seq(Block) /\ Tiled(Split(i, size))
               /\ Merged(Split(i, size))
    BY <2>2, <2>6, SplitKeeps
  <2>7. head' \in Seq(Block) /\ Tiled(head') /\ Merged(head')
    BY <2>1, <2>5, <2>6
  <2> QED
    BY <1>1, <2>4, <2>7
<1>5. ASSUME NEW size \in Sizes, MallocFails(size) PROVE IInv'
  <2>1. head' = list /\ reply' = Malloced(size, NULL)
    BY <1>5 DEF MallocFails
  <2>2. reply' \in Replies
    BY <2>1
  <2> QED
    BY <1>1, <1>2, <2>1, <2>2
<1>6. ASSUME NEW ptr \in {NULL} \cup 0 .. HeapSize, Free(ptr) PROVE IInv'
  <2>1. PICK i \in 1 .. Len(head) : head' = Release(i)
    BY <1>6 DEF Free
  <2>2. head # <<>>
    BY <1>3
  <2>3. head' \in Seq(Block) /\ Tiled(head') /\ Merged(head')
    BY <2>1, <2>2, ReleaseKeeps
  <2>4. reply' \in Replies
    BY <1>6 DEF Free
  <2> QED
    BY <1>1, <2>3, <2>4
<1>7. ASSUME NEW ptr \in {NULL} \cup 0 .. HeapSize, FreeIgnored(ptr) PROVE IInv'
  BY <1>1, <1>3, <1>7 DEF FreeIgnored
<1>8. CASE UNCHANGED vars
  BY <1>1, <1>3, <1>8 DEF vars
<1> QED
  BY <1>4, <1>5, <1>6, <1>7, <1>8 DEF Next

(* The inductive invariant holds in every reachable state.                  *)
THEOREM Invariance == Spec => []IInv
<1> QED
  BY InitIInv, StepIInv, PTL DEF Spec

(* The variables of memory.c keep their types, for every heap and size.     *)
THEOREM TypeCorrect == Spec => []TypeOK
<1>1. IInv => TypeOK
  BY DEF IInv
<1> QED
  BY <1>1, Invariance, PTL

(* The blocks tile the heap: malloc and m_free neither lose nor share a     *)
(* byte, however they are called.                                           *)
THEOREM HeapIsTiled == Spec => []Tiling
<1>1. IInv => Tiling
  BY DEF IInv, Tiling, Tiled
<1> QED
  BY <1>1, Invariance, PTL

(* m_free leaves no two free neighbours, and malloc makes none.             *)
THEOREM NeighboursMerged == Spec => []Coalesced
<1>1. IInv => Coalesced
  BY DEF IInv, Coalesced, Merged
<1> QED
  BY <1>1, Invariance, PTL

(* A second m_free of a block, or one of a pointer that malloc never        *)
(* returned, leaves the heap as it is.                                      *)
THEOREM FreeTwiceIsHarmless == Spec => FreeOfFreeIsHarmless
<1> DEFINE A ==
  \A ptr \in {NULL} \cup 0 .. HeapSize :
    /\ reply' = Freed(ptr)
    /\ \A i \in 1 .. Len(head) : head[i].at + Header = ptr => head[i].isFree
    => head' = head
<1>1. IInv /\ [Next]_vars => [A]_vars
  <2> SUFFICES ASSUME IInv, Next,
                      NEW ptr \in {NULL} \cup 0 .. HeapSize, reply' = Freed(ptr),
                      \A i \in 1 .. Len(head) : head[i].at + Header = ptr => head[i].isFree
               PROVE  head' = head
    OBVIOUS
  <2>1. ASSUME NEW size \in Sizes, Malloc(size) \/ MallocFails(size) PROVE FALSE
    <3>1. PICK q : reply' = Malloced(size, q)
      BY <2>1 DEF Malloc, MallocFails
    <3> QED
      BY <3>1 DEF Malloced, Freed
  <2>2. ASSUME NEW p \in {NULL} \cup 0 .. HeapSize, Free(p) PROVE head' = head
    <3>1. p = ptr
      BY <2>2 DEF Free, Freed
    <3>2. PICK i \in 1 .. Len(head) : head[i].at + Header = p /\ head' = Release(i)
      BY <2>2 DEF Free
    <3> QED
      BY <3>1, <3>2, ReleaseOfFree
  <2>3. ASSUME NEW p \in {NULL} \cup 0 .. HeapSize, FreeIgnored(p) PROVE head' = head
    BY <2>3 DEF FreeIgnored
  <2> QED
    BY <2>1, <2>2, <2>3 DEF Next
<1> HIDE DEF A
<1>2. Spec => [][A]_vars
  BY <1>1, Invariance, PTL DEF Spec
<1> QED
  BY <1>2 DEF A, FreeOfFreeIsHarmless
-----------------------------------------------------------------------------
(* Malloc implements Allocator.  The regions handed out are the blocks in   *)
(* use.                                                                     *)

(* A region handed out is a block that is in use. *)
LEMMA RegionsAre ==
  ASSUME NEW s, NEW r
  PROVE  r \in Regions(s) <=> \E j \in 1 .. Len(s) : ~s[j].isFree /\ r = Region(s[j])
  BY DEF Regions, Region

(* Regions of blocks at different places share no byte, headers included.   *)
LEMMA RegionFacts ==
  ASSUME NEW b \in Block
  PROVE  /\ Region(b).ptr = b.at + Header /\ Region(b).len = b.size
         /\ Heap!Extent(Region(b)) = b.at .. End(b) - 1
<1>1. b.at \in Nat /\ b.size \in Nat
  BY DEF Block
<1>2. Region(b).ptr = b.at + Header /\ Region(b).len = b.size
  BY DEF Region
<1>3. (b.at + Header) - Header = b.at /\ (b.at + Header) + (b.size - 1) = End(b) - 1
  BY <1>1 DEF End
<1>4. ASSUME NEW p, NEW n PROVE Heap!Extent([ptr |-> p, len |-> n]) = (p - Header) .. (p + n - 1)
  BY DEF Heap!Extent
<1>5. Heap!Extent(Region(b)) = ((b.at + Header) - Header) .. ((b.at + Header) + (b.size - 1))
  BY <1>4 DEF Region
<1>6. Heap!Extent(Region(b)) = b.at .. End(b) - 1
  BY <1>3, <1>5, Zenon
<1> QED
  BY <1>2, <1>6

(* While head is NULL no region is handed out, and none in the one block    *)
(* that malloc then makes.                                                  *)
LEMMA RegionsOfList ==
  ASSUME IInv
  PROVE  Regions(list) = Regions(head)
<1>1. CASE head = <<>>
  <2>1. Len(head) = 0 /\ Len(list) = 1 /\ list[1].isFree
    BY <1>1 DEF list
  <2>2. Regions(head) = {} /\ Regions(list) = {}
    BY <2>1, RegionsAre
  <2> QED
    BY <2>2
<1>2. CASE head # <<>>
  BY <1>2, ListFacts
<1> QED
  BY <1>1, <1>2

(* A taken block is one region more.                                        *)
LEMMA TakeRegions ==
  ASSUME IInv, NEW i \in 1 .. Len(list), list[i].isFree
  PROVE  Regions(Take(i)) = Regions(list) \cup {Region(list[i])}
<1> DEFINE s == list
<1> DEFINE t == Take(i)
<1>1. s \in Seq(Block) /\ i \in 1 .. Len(s) /\ s[i].isFree /\ s[i] \in Block
  BY ListFacts
<1>2. /\ Len(t) = Len(s) /\ t[i] = [s[i] EXCEPT !.isFree = FALSE]
      /\ \A k \in 1 .. Len(s) : k # i => t[k] = s[k]
  <2> DEFINE inUse == [s[i] EXCEPT !.isFree = FALSE]
  <2>1. t = [s EXCEPT ![i] = inUse]
    BY DEF Take
  <2> HIDE DEF s, t, inUse
  <2>2. Len(t) = Len(s) /\ t[i] = inUse /\ \A k \in 1 .. Len(s) : k # i => t[k] = s[k]
    BY <1>1, <2>1
  <2> QED
    BY <2>2 DEF inUse
<1> HIDE DEF s, t
<1>3. ~t[i].isFree /\ Region(t[i]) = Region(s[i])
  BY <1>1, <1>2, BlockExcept DEF Region
<1>4. ASSUME NEW r PROVE r \in Regions(t) <=> r \in Regions(s) \cup {Region(s[i])}
  <2>1. ASSUME r \in Regions(t) PROVE r \in Regions(s) \cup {Region(s[i])}
    <3>1. PICK j \in 1 .. Len(t) : ~t[j].isFree /\ r = Region(t[j])
      BY <2>1, RegionsAre
    <3>2. r = Region(s[i]) \/ (j \in 1 .. Len(s) /\ ~s[j].isFree /\ r = Region(s[j]))
      BY <1>2, <1>3, <3>1
    <3> QED
      BY <3>2, RegionsAre
  <2>2. ASSUME r \in Regions(s) PROVE r \in Regions(t)
    <3>1. PICK j \in 1 .. Len(s) : ~s[j].isFree /\ r = Region(s[j])
      BY <2>2, RegionsAre
    <3>2. j \in 1 .. Len(t) /\ ~t[j].isFree /\ r = Region(t[j])
      BY <1>1, <1>2, <3>1
    <3> QED
      BY <3>2, RegionsAre
  <2>3. Region(s[i]) \in Regions(t)
    BY <1>1, <1>2, <1>3, RegionsAre
  <2> QED
    BY <2>1, <2>2, <2>3
<1>5. Regions(t) = Regions(s) \cup {Region(s[i])}
  BY <1>4
<1> QED
  BY <1>5 DEF s, t

(* So is the first part of a hole that is cut.                              *)
LEMMA SplitRegions ==
  ASSUME IInv, NEW i \in 1 .. Len(list), list[i].isFree,
         NEW size \in Nat, list[i].size > size + Header
  PROVE  Regions(Split(i, size)) = Regions(list) \cup {Region(Taken(list[i], size))}
<1> DEFINE s == list
<1> DEFINE t == Split(i, size)
<1>1. s \in Seq(Block) /\ Tiled(s) /\ i \in 1 .. Len(s) /\ s[i].isFree
  BY ListFacts
<1>2. /\ Len(t) = Len(s) + 1
      /\ t[i] = Taken(s[i], size) /\ t[i + 1] = Rest(s[i], size)
      /\ \A k \in 1 .. i - 1 : t[k] = s[k]
      /\ \A k \in i + 1 .. Len(s) : t[k + 1] = s[k]
  BY <1>1, SplitTiled
<1> DEFINE new == Region(Taken(s[i], size))
<1>3. new = Region(t[i]) /\ ~t[i].isFree /\ t[i + 1].isFree
  BY <1>2 DEF Taken, Rest
<1> HIDE DEF s, t, new
<1>4. Len(s) \in Nat /\ i \in Nat
  BY <1>1
<1>5. ASSUME NEW r, r \in Regions(t) PROVE r \in Regions(s) \cup {new}
  <2>1. PICK j \in 1 .. Len(t) : ~t[j].isFree /\ r = Region(t[j])
    BY <1>5, RegionsAre
  <2>2. CASE j < i
    <3>1. j \in 1 .. i - 1 /\ j \in 1 .. Len(s)
      BY <1>4, <1>2, <1>1, <2>2
    <3>2. t[j] = s[j]
      BY <1>2, <3>1
    <3> QED
      BY <2>1, <3>1, <3>2, RegionsAre
  <2>3. CASE j = i
    BY <1>3, <2>1, <2>3
  <2>4. CASE j = i + 1
    BY <1>3, <2>1, <2>4
  <2>5. CASE j > i + 1
    <3>1. j - 1 \in i + 1 .. Len(s) /\ j - 1 \in 1 .. Len(s) /\ (j - 1) + 1 = j
      BY <1>2, <1>4, <2>5
    <3>2. t[(j - 1) + 1] = s[j - 1]
      BY <1>2, <3>1
    <3>3. ~s[j - 1].isFree /\ r = Region(s[j - 1])
      BY <2>1, <3>1, <3>2
    <3> QED
      BY <3>1, <3>3, RegionsAre
  <2>6. j \in Nat
    BY <1>2, <1>4
  <2> QED
    BY <1>4, <2>2, <2>3, <2>4, <2>5, <2>6
<1>6. ASSUME NEW r, r \in Regions(s) PROVE r \in Regions(t)
  <2>1. PICK j \in 1 .. Len(s) : ~s[j].isFree /\ r = Region(s[j])
    BY <1>6, RegionsAre
  <2>2. CASE j < i
    <3>1. j \in 1 .. i - 1 /\ j \in 1 .. Len(t)
      BY <1>2, <1>4, <2>2
    <3>2. t[j] = s[j]
      BY <1>2, <3>1
    <3> QED
      BY <2>1, <3>1, <3>2, RegionsAre
  <2>3. CASE j = i
    BY <1>1, <2>1, <2>3
  <2>4. CASE j > i
    <3>1. j \in i + 1 .. Len(s) /\ j + 1 \in 1 .. Len(t)
      BY <1>2, <1>4, <2>4
    <3>2. t[j + 1] = s[j]
      BY <1>2, <3>1
    <3>3. ~t[j + 1].isFree /\ r = Region(t[j + 1])
      BY <2>1, <3>2
    <3> QED
      BY <3>1, <3>3, RegionsAre
  <2> QED
    BY <1>4, <2>2, <2>3, <2>4
<1>7. new \in Regions(t)
  <2>1. i \in 1 .. Len(t)
    BY <1>1, <1>2, <1>4
  <2> QED
    BY <1>3, <2>1, RegionsAre
<1>8. Regions(t) = Regions(s) \cup {new}
  BY <1>5, <1>6, <1>7
<1> QED
  BY <1>8 DEF s, t, new

(* Merging two free blocks hands out nothing and takes nothing back.        *)
LEMMA AbsorbRegions ==
  ASSUME NEW s \in Seq(Block), Tiled(s), NEW i \in 1 .. Len(s) - 1,
         s[i].isFree, s[i + 1].isFree
  PROVE  Regions(Absorb(s, i)) = Regions(s)
<1> DEFINE t == Absorb(s, i)
<1> DEFINE both == [at |-> s[i].at, size |-> s[i].size + s[i + 1].size + Header,
                    isFree |-> s[i].isFree]
<1>1. /\ Len(t) = Len(s) - 1 /\ t[i] = both
      /\ \A k \in 1 .. i - 1 : t[k] = s[k]
      /\ \A k \in i + 1 .. Len(s) - 1 : t[k] = s[k + 1]
  BY AbsorbTiled
<1>2. both.isFree
  OBVIOUS
<1> HIDE DEF t, both
<1>3. Len(s) \in Nat /\ i \in Nat
  OBVIOUS
<1>4. ASSUME NEW r, r \in Regions(t) PROVE r \in Regions(s)
  <2>1. PICK j \in 1 .. Len(t) : ~t[j].isFree /\ r = Region(t[j])
    BY <1>4, RegionsAre
  <2>2. CASE j < i
    <3>1. j \in 1 .. i - 1 /\ j \in 1 .. Len(s)
      BY <1>1, <1>3, <2>2
    <3>2. t[j] = s[j]
      BY <1>1, <3>1
    <3> QED
      BY <2>1, <3>1, <3>2, RegionsAre
  <2>3. CASE j = i
    BY <1>1, <1>2, <2>1, <2>3
  <2>4. CASE j > i
    <3>1. j \in i + 1 .. Len(s) - 1 /\ j + 1 \in 1 .. Len(s)
      BY <1>1, <1>3, <2>4
    <3>2. t[j] = s[j + 1]
      BY <1>1, <3>1
    <3> QED
      BY <2>1, <3>1, <3>2, RegionsAre
  <2>5. j \in Nat
    BY <1>1, <1>3
  <2> QED
    BY <1>3, <2>2, <2>3, <2>4, <2>5
<1>5. ASSUME NEW r, r \in Regions(s) PROVE r \in Regions(t)
  <2>1. PICK j \in 1 .. Len(s) : ~s[j].isFree /\ r = Region(s[j])
    BY <1>5, RegionsAre
  <2>2. CASE j < i
    <3>1. j \in 1 .. i - 1 /\ j \in 1 .. Len(t)
      BY <1>1, <1>3, <2>2
    <3>2. t[j] = s[j]
      BY <1>1, <3>1
    <3> QED
      BY <2>1, <3>1, <3>2, RegionsAre
  <2>3. CASE j = i \/ j = i + 1
    BY <2>1, <2>3
  <2>4. CASE j > i + 1
    <3>1. j - 1 \in i + 1 .. Len(s) - 1 /\ j - 1 \in 1 .. Len(t) /\ (j - 1) + 1 = j
      BY <1>1, <1>3, <2>4
    <3>2. t[j - 1] = s[(j - 1) + 1]
      BY <1>1, <3>1
    <3>3. ~t[j - 1].isFree /\ r = Region(t[j - 1])
      BY <2>1, <3>1, <3>2
    <3> QED
      BY <3>1, <3>3, RegionsAre
  <2>5. j \in Nat
    BY <1>3
  <2> QED
    BY <1>3, <2>2, <2>3, <2>4, <2>5
<1>6. Regions(t) = Regions(s)
  BY <1>4, <1>5
<1> QED
  BY <1>6 DEF t

(* A freed block is one region less.                                        *)
LEMMA ReleaseRegions ==
  ASSUME IInv, head # <<>>, NEW i \in 1 .. Len(head)
  PROVE  Regions(Release(i)) = {r \in Regions(head) : r.ptr # head[i].at + Header}
<1> DEFINE s == head
<1>1. s \in Seq(Block) /\ Tiled(s) /\ i \in 1 .. Len(s)
  BY DEF IInv, TypeOK
<1> DEFINE marked  == [s EXCEPT ![i].isFree = TRUE]
<1> DEFINE back    == i > 1 /\ marked[i - 1].isFree
<1> DEFINE joined  == IF back THEN Absorb(marked, i - 1) ELSE marked
<1> DEFINE current == IF back THEN i - 1 ELSE i
<1>2. Release(i) = IF current < Len(joined) /\ joined[current + 1].isFree
                   THEN Absorb(joined, current) ELSE joined
  BY DEF Release
<1>3. /\ marked \in Seq(Block) /\ Tiled(marked) /\ Len(marked) = Len(s)
      /\ \A k \in 1 .. Len(s) :
            marked[k] = IF k = i THEN [at |-> s[i].at, size |-> s[i].size, isFree |-> TRUE]
                                 ELSE s[k]
  <2>1. PICK v \in BOOLEAN : v = TRUE
    OBVIOUS
  <2>2. marked = Marked(s, i, v)
    BY <2>1 DEF Marked
  <2> HIDE DEF marked
  <2>3. /\ marked \in Seq(Block) /\ Tiled(marked) /\ Len(marked) = Len(s)
        /\ \A k \in 1 .. Len(s) :
              marked[k] = IF k = i THEN [at |-> s[i].at, size |-> s[i].size, isFree |-> v]
                              ELSE s[k]
    BY <1>1, <2>2, MarkTiled
  <2> QED
    BY <2>1, <2>3
<1> HIDE DEF s, marked
<1>4. Len(s) \in Nat /\ i \in Nat
  BY <1>1
<1>5. marked[i].isFree /\ \A k \in 1 .. Len(s) : k # i => marked[k] = s[k]
  BY <1>1, <1>3
<1>6. Regions(marked) = {r \in Regions(s) : r.ptr # s[i].at + Header}
  <2>1. ASSUME NEW k \in 1 .. Len(s)
        PROVE  /\ Region(s[k]).ptr = s[k].at + Header
               /\ (s[k].at + Header = s[i].at + Header => k = i)
    <3>1. s[k].at \in Nat /\ s[i].at \in Nat /\ s[k] \in Block
      BY <1>1, BlockFacts
    <3>2. s[k].at + Header = s[i].at + Header => s[k].at = s[i].at
      BY <3>1
    <3> QED
      BY <1>1, <3>1, <3>2, AddressesDiffer, RegionFacts
  <2>2. ASSUME NEW r, r \in Regions(marked)
        PROVE  r \in Regions(s) /\ r.ptr # s[i].at + Header
    <3>1. PICK k \in 1 .. Len(marked) : ~marked[k].isFree /\ r = Region(marked[k])
      BY <2>2, RegionsAre
    <3>2. k \in 1 .. Len(s) /\ k # i /\ marked[k] = s[k]
      BY <1>3, <1>5, <3>1
    <3> QED
      BY <2>1, <3>1, <3>2, RegionsAre
  <2>3. ASSUME NEW r, r \in Regions(s), r.ptr # s[i].at + Header PROVE r \in Regions(marked)
    <3>1. PICK k \in 1 .. Len(s) : ~s[k].isFree /\ r = Region(s[k])
      BY <2>3, RegionsAre
    <3>2. k \in 1 .. Len(marked) /\ marked[k] = s[k]
      BY <1>3, <1>5, <2>1, <2>3, <3>1
    <3> QED
      BY <3>1, <3>2, RegionsAre
  <2> QED
    BY <2>2, <2>3
<1>7. /\ joined \in Seq(Block) /\ Tiled(joined) /\ current \in 1 .. Len(joined)
      /\ joined[current].isFree /\ Regions(joined) = Regions(marked)
  <2>1. CASE back
    <3>1. i - 1 \in 1 .. Len(marked) - 1 /\ marked[i - 1].isFree /\ marked[(i - 1) + 1].isFree
      BY <1>1, <1>3, <1>4, <1>5, <2>1
    <3>2. /\ Absorb(marked, i - 1) \in Seq(Block) /\ Tiled(Absorb(marked, i - 1))
          /\ Len(Absorb(marked, i - 1)) = Len(marked) - 1
          /\ Absorb(marked, i - 1)[i - 1].isFree = marked[i - 1].isFree
      <4> DEFINE both == [at |-> marked[i - 1].at,
                          size |-> marked[i - 1].size + marked[i - 1 + 1].size + Header,
                          isFree |-> marked[i - 1].isFree]
      <4>1. /\ Absorb(marked, i - 1) \in Seq(Block) /\ Tiled(Absorb(marked, i - 1))
            /\ Len(Absorb(marked, i - 1)) = Len(marked) - 1
            /\ Absorb(marked, i - 1)[i - 1] = both
        BY <1>3, <3>1, AbsorbTiled, ZenonT(30)
      <4>2. both.isFree = marked[i - 1].isFree
        OBVIOUS
      <4> HIDE DEF both
      <4> QED
        BY <4>1, <4>2
    <3>3. Regions(Absorb(marked, i - 1)) = Regions(marked)
      BY <1>3, <3>1, AbsorbRegions
    <3> QED
      BY <1>3, <1>4, <2>1, <3>1, <3>2, <3>3
  <2>2. CASE ~back
    BY <1>1, <1>3, <1>5, <2>2
  <2> QED
    BY <2>1, <2>2
<1> HIDE DEF joined, current
<1>8. Regions(Release(i)) = Regions(joined)
  <2>1. CASE current < Len(joined) /\ joined[current + 1].isFree
    <3>1. current \in 1 .. Len(joined) - 1
      BY <1>7, <2>1
    <3> QED
      BY <1>2, <1>7, <2>1, <3>1, AbsorbRegions
  <2>2. CASE ~(current < Len(joined) /\ joined[current + 1].isFree)
    BY <1>2, <2>2
  <2> QED
    BY <2>1, <2>2
<1> QED
  BY <1>6, <1>7, <1>8 DEF s

(* A region inside a free block is clear of all that are handed out.        *)
LEMMA HoleIsClear ==
  ASSUME NEW s \in Seq(Block), Tiled(s), NEW i \in 1 .. Len(s), s[i].isFree,
         NEW b \in Block, b.at = s[i].at, End(b) <= End(s[i])
  PROVE  \A q \in Regions(s) : Heap!Extent(Region(b)) \cap Heap!Extent(q) = {}
<1> SUFFICES ASSUME NEW q \in Regions(s)
             PROVE  Heap!Extent(Region(b)) \cap Heap!Extent(q) = {}
  OBVIOUS
<1>1. PICK j \in 1 .. Len(s) : ~s[j].isFree /\ q = Region(s[j])
  BY RegionsAre
<1>2. i # j
  BY <1>1
<1>3. /\ Heap!Extent(Region(b)) = b.at .. End(b) - 1
      /\ Heap!Extent(q) = s[j].at .. End(s[j]) - 1
  BY <1>1, BlockFacts, RegionFacts
<1>4. End(s[i]) <= s[j].at \/ End(s[j]) <= s[i].at
  BY <1>2 DEF Tiled
<1>5. /\ End(b) \in Nat /\ b.at \in Nat /\ s[j].at \in Nat /\ End(s[j]) \in Nat
      /\ s[i].at \in Nat /\ End(s[i]) \in Nat
  <2>1. b.at \in Nat /\ b.size \in Nat
    BY DEF Block
  <2>2. End(b) \in Nat
    BY <2>1 DEF End
  <2> QED
    BY <2>1, <2>2, BlockFacts
<1>6. End(b) <= s[j].at \/ End(s[j]) <= b.at
  BY <1>4, <1>5
<1>7. (b.at .. End(b) - 1) \cap (s[j].at .. End(s[j]) - 1) = {}
  BY <1>5, <1>6
<1> QED
  BY <1>3, <1>7

(* Where a region of the size asked for could be handed out there is one    *)
(* free block of that size: a gap clear of all regions does not reach into  *)
(* the block behind it, which is in use because free neighbours are merged. *)
LEMMA RoomIsFound ==
  ASSUME NEW s \in Seq(Block), Tiled(s), Merged(s), NEW size \in Nat,
         NEW at \in 0 .. HeapSize - Header - size,
         \A q \in Regions(s) :
            Heap!Extent([ptr |-> at + Header, len |-> size]) \cap Heap!Extent(q) = {}
  PROVE  \E i \in 1 .. Len(s) : s[i].isFree /\ s[i].size >= size
<1> DEFINE last == at + Header + size - 1
<1>1. /\ at \in Nat /\ at \in 0 .. HeapSize - 1 /\ last \in Nat /\ at <= last
      /\ last < HeapSize /\ last = (at + Header) + (size - 1) /\ at = (at + Header) - Header
  OBVIOUS
<1>2. Heap!Extent([ptr |-> at + Header, len |-> size]) = at .. last
  <2>1. ASSUME NEW p, NEW n PROVE Heap!Extent([ptr |-> p, len |-> n]) = (p - Header) .. (p + (n - 1))
    BY DEF Heap!Extent
  <2>2. Heap!Extent([ptr |-> at + Header, len |-> size])
          = ((at + Header) - Header) .. ((at + Header) + (size - 1))
    BY <2>1
  <2> QED
    BY <1>1, <2>2
<1> HIDE DEF last
<1>3. ASSUME NEW j \in 1 .. Len(s), ~s[j].isFree, NEW a \in at .. last,
             s[j].at <= a, a < End(s[j])
      PROVE  FALSE
  <2>1. Region(s[j]) \in Regions(s)
    BY <1>3, RegionsAre
  <2>2. Heap!Extent(Region(s[j])) = s[j].at .. End(s[j]) - 1
    BY BlockFacts, RegionFacts
  <2>3. (at .. last) \cap (s[j].at .. End(s[j]) - 1) = {}
    BY <1>2, <2>1, <2>2
  <2>4. s[j].at \in Nat /\ End(s[j]) \in Nat
    BY BlockFacts
  <2>5. a \in s[j].at .. End(s[j]) - 1
    BY <1>1, <1>3, <2>4
  <2> QED
    BY <2>3, <2>5
<1>4. PICK i \in 1 .. Len(s) : s[i].at <= at /\ at < End(s[i])
  BY <1>1, Covered
<1>5. s[i].isFree
  <2>1. at \in at .. last
    BY <1>1
  <2> QED
    BY <1>3, <1>4, <2>1
<1>6. Len(s) \in Nat /\ i \in Nat
  OBVIOUS
<1>7. last < End(s[i])
  <2> SUFFICES ASSUME ~(last < End(s[i])) PROVE FALSE
    OBVIOUS
  <2>1. End(s[i]) \in Nat
    BY BlockFacts
  <2>2. i # Len(s)
    BY <1>1, <2>1 DEF Tiled
  <2>3. i \in 1 .. Len(s) - 1 /\ i + 1 \in 1 .. Len(s)
    BY <1>6, <2>2
  <2>4. s[i + 1].at = End(s[i]) /\ ~s[i + 1].isFree
    BY <1>5, <2>3 DEF Tiled, Merged
  <2>5. End(s[i]) \in at .. last
    BY <1>1, <1>4, <2>1
  <2>6. s[i + 1].at <= End(s[i]) /\ End(s[i]) < End(s[i + 1])
    BY <2>1, <2>3, <2>4, BlockFacts
  <2> QED
    BY <1>3, <2>3, <2>4, <2>5, <2>6
<1>8. s[i].size >= size
  <2>1. PICK a \in Nat, z \in Nat : a = s[i].at /\ z = s[i].size
    BY BlockFacts
  <2>2. a <= at /\ last < a + Header + z
    BY <1>4, <1>7, <2>1 DEF End
  <2>3. z >= size
    BY <1>1, <2>2
  <2> QED
    BY <2>1, <2>3
<1> QED
  BY <1>5, <1>8

(* The abstract initial state.                                              *)
LEMMA RefinesInit == Init => Heap!Init
<1> SUFFICES ASSUME Init PROVE Heap!Init
  OBVIOUS
<1>1. head = <<>> /\ reply = Freed(NULL)
  BY DEF Init
<1>2. Regions(head) = {}
  <2>1. Len(head) = 0
    BY <1>1
  <2> QED
    BY <2>1, RegionsAre
<1> QED
  BY <1>1, <1>2 DEF Heap!Init, Regions, Freed, Heap!Freed, NULL, Heap!NULL

(* A malloc that returns a block hands out a region clear of all others.    *)
LEMMA RefinesMalloc ==
  ASSUME IInv, NEW size \in Sizes, Malloc(size)
  PROVE  Heap!Malloc(size)
<1>1. PICK i \in Fits(size) :
         /\ head' = IF list[i].size > size + Header THEN Split(i, size) ELSE Take(i)
         /\ reply' = Malloced(size, list[i].at + Header)
  BY DEF Malloc
<1>2. /\ i \in 1 .. Len(list) /\ list[i].isFree /\ list[i].size >= size
      /\ size \in Nat
  BY DEF Fits
<1>3. list \in Seq(Block) /\ Tiled(list) /\ Regions(list) = Regions(head)
  BY ListFacts, RegionsOfList
<1> DEFINE new == IF list[i].size > size + Header THEN Taken(list[i], size) ELSE list[i]
<1>4. /\ list[i] \in Block /\ list[i].at \in Nat /\ list[i].size \in Nat
      /\ End(list[i]) = list[i].at + Header + list[i].size /\ End(list[i]) <= HeapSize
  BY <1>2, <1>3, BlockFacts, TiledBound
<1>5. /\ new \in Block /\ new.at = list[i].at /\ new.size \in size .. size + Header
      /\ End(new) <= End(list[i]) /\ Regions(head') = Regions(head) \cup {Region(new)}
  <2>1. CASE list[i].size > size + Header
    <3>1. new = Taken(list[i], size) /\ head' = Split(i, size)
      BY <1>1, <2>1
    <3>2. Regions(Split(i, size)) = Regions(list) \cup {Region(Taken(list[i], size))}
      BY <1>2, <2>1, SplitRegions
    <3>3. Taken(list[i], size) \in Block
      BY <1>2, <1>4, <2>1, Pieces
    <3>4. Taken(list[i], size).at = list[i].at /\ Taken(list[i], size).size = size
      BY DEF Taken
    <3>5. End(Taken(list[i], size)) = list[i].at + Header + size
      BY <3>4 DEF End
    <3>6. End(Taken(list[i], size)) <= End(list[i]) /\ size \in size .. size + Header
      <4>1. PICK a \in Nat, z \in Nat : a = list[i].at /\ z = list[i].size
        BY <1>4
      <4>2. z > size + Header
        BY <2>1, <4>1
      <4>3. a + Header + size <= a + Header + z /\ size \in size .. size + Header
        BY <1>2, <4>2
      <4> QED
        BY <1>4, <3>5, <4>1, <4>3
    <3> HIDE DEF new
    <3> QED
      BY <1>3, <3>1, <3>2, <3>3, <3>4, <3>6
  <2>2. CASE ~(list[i].size > size + Header)
    <3>1. new = list[i] /\ head' = Take(i)
      BY <1>1, <2>2
    <3>2. Regions(Take(i)) = Regions(list) \cup {Region(list[i])}
      BY <1>2, TakeRegions
    <3>3. list[i].size \in size .. size + Header
      BY <1>2, <1>4, <2>2
    <3>4. End(list[i]) <= End(list[i])
      BY <1>4
    <3> HIDE DEF new
    <3> QED
      BY <1>3, <1>4, <3>1, <3>2, <3>3, <3>4
  <2> QED
    BY <2>1, <2>2
<1> HIDE DEF new
<1>6. Heap!Clear(Region(new))
  <2>1. \A q \in Regions(list) : Heap!Extent(Region(new)) \cap Heap!Extent(q) = {}
    BY <1>2, <1>3, <1>5, HoleIsClear
  <2> QED
    BY <1>3, <2>1 DEF Heap!Clear, Regions
<1>7. PICK at \in Nat, len \in Nat : at = new.at /\ len = new.size
  BY <1>4, <1>5 DEF Block
<1>8. /\ at \in 0 .. HeapSize - Header /\ len \in size .. size + Header
      /\ (at + Header) + len <= HeapSize
  <2>1. End(new) = at + Header + len
    BY <1>7 DEF End
  <2>2. at + Header + len <= HeapSize
    <3>1. End(new) <= HeapSize
      <4>1. End(new) \in Nat /\ End(list[i]) \in Nat
        BY <1>4, <2>1
      <4> QED
        BY <1>4, <1>5, <4>1
    <3> QED
      BY <2>1, <3>1
  <2>3. len \in size .. size + Header
    BY <1>5, <1>7
  <2> QED
    BY <2>2, <2>3
<1>9. Region(new) = [ptr |-> at + Header, len |-> len]
  BY <1>7 DEF Region
<1>10. reply' = Heap!Malloced(size, at + Header)
  BY <1>1, <1>5, <1>7 DEF Malloced, Heap!Malloced
<1>11. Regions(head') = Regions(head) \cup {[ptr |-> at + Header, len |-> len]}
  BY <1>5, <1>9
<1>12. Heap!Clear([ptr |-> at + Header, len |-> len])
  BY <1>6, <1>9
<1> QED
  BY <1>8, <1>10, <1>11, <1>12 DEF Heap!Malloc, Regions

(* A malloc that returns NULL found no room.                                *)
LEMMA RefinesFail ==
  ASSUME IInv, NEW size \in Sizes, MallocFails(size)
  PROVE  Heap!Fail(size)
<1>1. list \in Seq(Block) /\ Tiled(list) /\ Merged(list) /\ Regions(list) = Regions(head)
  BY ListFacts, RegionsOfList
<1>2. head' = list /\ reply' = Malloced(size, NULL) /\ Fits(size) = {}
  BY DEF MallocFails
<1>3. size \in Nat
  OBVIOUS
<1>4. ~Heap!Room(size)
  <2> SUFFICES ASSUME NEW at \in 0 .. HeapSize - Header - size,
                      Heap!Clear([ptr |-> at + Header, len |-> size])
               PROVE  FALSE
    BY DEF Heap!Room
  <2>1. \A q \in Regions(list) :
           Heap!Extent([ptr |-> at + Header, len |-> size]) \cap Heap!Extent(q) = {}
    BY <1>1 DEF Heap!Clear, Regions
  <2>2. \E i \in 1 .. Len(list) : list[i].isFree /\ list[i].size >= size
    BY <1>1, <1>3, <2>1, RoomIsFound
  <2> QED
    BY <1>2, <2>2 DEF Fits
<1>5. Regions(head') = Regions(head)
  BY <1>1, <1>2
<1> QED
  BY <1>2, <1>4, <1>5 DEF Heap!Fail, Regions, Malloced, Heap!Malloced, NULL, Heap!NULL

(* An m_free takes back the region of that address, or none.                *)
LEMMA RefinesFree ==
  ASSUME IInv, NEW ptr, Free(ptr) \/ FreeIgnored(ptr)
  PROVE  Heap!Free(ptr)
<1>1. Regions(head') = {r \in Regions(head) : r.ptr # ptr}
  <2>1. CASE Free(ptr)
    <3>1. PICK i \in 1 .. Len(head) : head[i].at + Header = ptr /\ head' = Release(i)
      BY <2>1 DEF Free
    <3>2. head # <<>>
      BY DEF IInv, TypeOK
    <3> QED
      BY <3>1, <3>2, ReleaseRegions
  <2>2. CASE FreeIgnored(ptr)
    <3>1. head' = head /\ \A i \in 1 .. Len(head) : head[i].at + Header # ptr
      BY <2>2 DEF FreeIgnored
    <3>2. ASSUME NEW r \in Regions(head) PROVE r.ptr # ptr
      <4>1. PICK j \in 1 .. Len(head) : r = Region(head[j])
        BY RegionsAre
      <4>2. r.ptr = head[j].at + Header
        BY <4>1 DEF Region
      <4> QED
        BY <3>1, <4>2
    <3> QED
      BY <3>1, <3>2
  <2> QED
    BY <2>1, <2>2
<1>2. reply' = Freed(ptr)
  BY DEF Free, FreeIgnored
<1> QED
  BY <1>1, <1>2 DEF Heap!Free, Regions, Freed, Heap!Freed, NULL, Heap!NULL

(* malloc and m_free keep the promises of Allocator to every caller: the    *)
(* regions handed out never overlap one another or a header, and NULL means *)
(* that there is no room.                                                   *)
THEOREM Refinement == Spec => ImplementsAllocator
<1>1. IInv /\ [Next]_vars => [Heap!Next]_(Heap!vars)
  <2> SUFFICES ASSUME IInv, [Next]_vars PROVE [Heap!Next]_(Heap!vars)
    OBVIOUS
  <2>1. ASSUME NEW size \in Sizes, Malloc(size) PROVE Heap!Next
    BY <2>1, RefinesMalloc DEF Heap!Next
  <2>2. ASSUME NEW size \in Sizes, MallocFails(size) PROVE Heap!Next
    BY <2>2, RefinesFail DEF Heap!Next
  <2>3. ASSUME NEW ptr \in {NULL} \cup 0 .. HeapSize, Free(ptr) \/ FreeIgnored(ptr)
        PROVE  Heap!Next
    BY <2>3, RefinesFree DEF Heap!Next, NULL, Heap!NULL
  <2>4. CASE UNCHANGED vars
    BY <2>4 DEF vars, Heap!vars
  <2> QED
    BY <2>1, <2>2, <2>3, <2>4 DEF Next
<1> QED
  BY <1>1, RefinesInit, Invariance, PTL DEF Spec, ImplementsAllocator, Heap!Spec
=============================================================================
