------------------------------ MODULE Folding ------------------------------
(***************************************************************************)
(* What FoldLeft of SequencesExt computes, for any operator and sequence.   *)
(* The operator is a constant of the module, so that a proof about a fold   *)
(* instantiates it with its own.                                            *)
(***************************************************************************)
EXTENDS Integers, SequencesExt, WellFoundedInduction, TLAPS

CONSTANT Op(_, _)

fold(base, seq) == FoldLeft(Op, base, seq)
-----------------------------------------------------------------------------
(* Every set of natural numbers with an element has a least one.            *)
LEMMA LeastElement ==
  ASSUME NEW T \in SUBSET Nat, T # {}
  PROVE  \E i \in T : \A k \in T : ~(k < i)
<1> DEFINE R == {ss \in Nat \X Nat : ss[1] < ss[2]}
<1>1. IsWellFoundedOn(OpToRel(<, Nat), Nat)
  BY NatLessThanWellFounded, Zenon
<1>2. R = OpToRel(<, Nat)
  BY Zenon DEF OpToRel
<1>3. IsWellFoundedOn(R, Nat)
  BY <1>1, <1>2, Zenon
<1> HIDE DEF R
<1>4. \E i \in T : \A k \in T : ~(<<k, i>> \in R)
  BY <1>3, WFMin, Zenon
<1> QED
  BY <1>4 DEF R

(* Induction over the numbers up to n, for the set of those that have some  *)
(* property.                                                                *)
LEMMA Induction ==
  ASSUME NEW n \in Nat, NEW T, 0 \in T, \A i \in 0 .. n - 1 : i \in T => i + 1 \in T
  PROVE  \A i \in 0 .. n : i \in T
<1> DEFINE U == {i \in 0 .. n : i \notin T}
<1>1. SUFFICES ASSUME U # {} PROVE FALSE
  OBVIOUS
<1>2. PICK i \in U : \A k \in U : ~(k < i)
  <2>1. U \in SUBSET Nat
    OBVIOUS
  <2> QED
    BY <1>1, <2>1, LeastElement
<1>3. i \in 0 .. n /\ i \notin T /\ i # 0
  OBVIOUS
<1>4. i - 1 \in 0 .. n - 1 /\ i - 1 \in 0 .. n /\ i - 1 < i /\ (i - 1) + 1 = i
  BY <1>3
<1>5. i - 1 \in T
  BY <1>2, <1>4
<1> QED
  BY <1>3, <1>4, <1>5

LEMMA MaxOfSome ==
  ASSUME NEW n \in Nat, NEW s \in SUBSET (1 .. n), s # {}
  PROVE  Max(s) \in s /\ \A y \in s : Max(s) >= y
<1> DEFINE T == {n - i : i \in s}
<1>1. T \in SUBSET Nat
  OBVIOUS
<1>2. T # {}
  <2>1. PICK i \in s : TRUE
    OBVIOUS
  <2>2. n - i \in T
    OBVIOUS
  <2> QED
    BY <2>2
<1>3. PICK t \in T : \A k \in T : ~(k < t)
  BY <1>1, <1>2, LeastElement, Zenon
<1>4. PICK m \in s : t = n - m
  OBVIOUS
<1>5. \A y \in s : m >= y
  <2> TAKE y \in s
  <2>1. n - y \in T
    OBVIOUS
  <2>2. ~(n - y < n - m)
    BY <1>3, <1>4, <2>1
  <2> QED
    BY <2>2
<1> QED
  BY <1>5, Zenon DEF Max

(* The recursive function behind the folds.                                 *)
IterOn(it, base, seq, D) ==
  it = [s \in SUBSET D |-> IF s = {} THEN base ELSE Op(it[s \ {Max(s)}], seq[Max(s)])]

LEMMA IterExists ==
  ASSUME NEW base, NEW seq, NEW n \in Nat
  PROVE  \E it : IterOn(it, base, seq, 1 .. n)
<1> DEFINE T == {i \in 0 .. n : \E it : IterOn(it, base, seq, 1 .. i)}
<1>1. 0 \in T
  <2> DEFINE it == [s \in SUBSET (1 .. 0) |-> base]
  <2>1. 1 .. 0 = {} /\ \A s \in SUBSET (1 .. 0) : s = {}
    OBVIOUS
  <2>2. IterOn(it, base, seq, 1 .. 0)
    BY <2>1 DEF IterOn
  <2> HIDE DEF it
  <2> QED
    BY <2>2
<1>2. ASSUME NEW i \in 0 .. n - 1, i \in T PROVE i + 1 \in T
  <2>1. PICK it : IterOn(it, base, seq, 1 .. i)
    BY <1>2
  <2> DEFINE more == [s \in SUBSET (1 .. i + 1) |->
                        IF i + 1 \in s THEN Op(it[s \ {i + 1}], seq[i + 1]) ELSE it[s]]
  <2>2. ASSUME NEW s \in SUBSET (1 .. i + 1), i + 1 \in s
        PROVE  Max(s) = i + 1 /\ s # {} /\ s \ {i + 1} \in SUBSET (1 .. i)
               /\ s \ {i + 1} \in SUBSET (1 .. i + 1) /\ i + 1 \notin s \ {i + 1}
    <3>1. s # {} /\ i + 1 \in Nat
      BY <2>2
    <3>2. Max(s) \in s /\ \A y \in s : Max(s) >= y
      BY <3>1, MaxOfSome
    <3>3. Max(s) = i + 1
      <4>1. Max(s) \in 1 .. i + 1 /\ Max(s) >= i + 1
        BY <2>2, <3>2
      <4> QED
        BY <3>1, <4>1
    <3> QED
      BY <2>2, <3>1, <3>3
  <2>3. ASSUME NEW s \in SUBSET (1 .. i + 1), i + 1 \notin s
        PROVE  s \in SUBSET (1 .. i) /\ s \ {Max(s)} \in SUBSET (1 .. i)
               /\ s \ {Max(s)} \in SUBSET (1 .. i + 1) /\ i + 1 \notin s \ {Max(s)}
    <3>1. s \in SUBSET (1 .. i)
      BY <2>3
    <3>2. s \ {Max(s)} \subseteq s
      BY Zenon
    <3> QED
      BY <2>3, <3>1, <3>2, Zenon
  <2>4. ASSUME NEW s \in SUBSET (1 .. i + 1)
        PROVE  more[s] = IF s = {} THEN base ELSE Op(more[s \ {Max(s)}], seq[Max(s)])
    <3>1. CASE i + 1 \in s
      BY <2>2, <3>1, Zenon
    <3>2. CASE i + 1 \notin s
      <4>1. more[s] = it[s] /\ more[s \ {Max(s)}] = it[s \ {Max(s)}]
        BY <2>3, <3>2, Zenon
      <4>2. it[s] = IF s = {} THEN base ELSE Op(it[s \ {Max(s)}], seq[Max(s)])
        BY <2>1, <2>3, <3>2, Zenon DEF IterOn
      <4> QED
        BY <4>1, <4>2, Zenon
    <3> QED
      BY <3>1, <3>2
  <2>5. more = [s \in SUBSET (1 .. i + 1) |-> more[s]]
    BY Zenon
  <2> HIDE DEF more
  <2>6. IterOn(more, base, seq, 1 .. i + 1)
    BY <2>4, <2>5, Zenon DEF IterOn
  <2>7. i + 1 \in 0 .. n
    OBVIOUS
  <2> QED
    BY <2>6, <2>7, Zenon
<1> HIDE DEF T
<1>3. \A i \in 0 .. n : i \in T
  BY <1>1, <1>2, Induction
<1>4. n \in T
  BY <1>3
<1> QED
  BY <1>4 DEF T

(* A fold is a walk over the sequence: from base, one step per element.     *)
IsWalk(f, base, seq, n) == f[0] = base /\ \A i \in 1 .. n : f[i] = Op(f[i - 1], seq[i])

LEMMA FoldWalk ==
  ASSUME NEW base, NEW seq, NEW n \in Nat, DOMAIN seq = 1 .. n
  PROVE  \E f : IsWalk(f, base, seq, n) /\ fold(base, seq) = f[n]
<1> DEFINE it == CHOOSE g : IterOn(g, base, seq, 1 .. n)
           f == [i \in 0 .. n |-> it[1 .. i]]
<1>1. IterOn(it, base, seq, 1 .. n)
  BY IterExists, Zenon
<1>2. fold(base, seq) = it[1 .. n]
  <2>1. fold(base, seq) = (CHOOSE g : IterOn(g, base, seq, DOMAIN seq))[DOMAIN seq]
    BY Zenon DEF fold, FoldLeft, MapThenFoldSet, IterOn
  <2> QED
    BY <2>1, Zenon
<1> HIDE DEF it
<1>3. f[0] = base
  <2>1. 1 .. 0 = {} /\ 0 \in 0 .. n /\ {} \in SUBSET (1 .. n)
    OBVIOUS
  <2>2. it[{}] = base
    BY <1>1, <2>1, Zenon DEF IterOn
  <2> QED
    BY <2>1, <2>2, Zenon
<1>4. ASSUME NEW i \in 1 .. n PROVE f[i] = Op(f[i - 1], seq[i])
  <2>1. 1 .. i \in SUBSET (1 .. n) /\ 1 .. i # {} /\ i \in 0 .. n /\ i - 1 \in 0 .. n /\ i \in Nat
    OBVIOUS
  <2>2. Max(1 .. i) \in 1 .. i /\ \A y \in 1 .. i : Max(1 .. i) >= y
    BY <2>1, MaxOfSome
  <2>3. Max(1 .. i) = i
    <3>1. i \in 1 .. i
      OBVIOUS
    <3>2. Max(1 .. i) >= i
      BY <2>2, <3>1
    <3> HIDE DEF it
    <3> QED
      BY <2>2, <3>2
  <2>4. (1 .. i) \ {i} = 1 .. (i - 1)
    OBVIOUS
  <2>5. it[1 .. i] = Op(it[(1 .. i) \ {Max(1 .. i)}], seq[Max(1 .. i)])
    BY <1>1, <2>1, Zenon DEF IterOn
  <2> QED
    BY <2>1, <2>3, <2>4, <2>5, Zenon
<1>5. f[n] = it[1 .. n]
  OBVIOUS
<1> HIDE DEF f
<1>6. IsWalk(f, base, seq, n) /\ fold(base, seq) = f[n]
  BY <1>2, <1>3, <1>4, <1>5 DEF IsWalk
<1> QED
  BY <1>6, Zenon

(* The fold over a sequence that has one element more.                      *)
LEMMA FoldNext ==
  ASSUME NEW base, NEW seq, NEW more, NEW n \in Nat, DOMAIN seq = 1 .. n,
         DOMAIN more = 1 .. n + 1, \A i \in 1 .. n : more[i] = seq[i]
  PROVE  fold(base, more) = Op(fold(base, seq), more[n + 1])
<1>1. PICK f : IsWalk(f, base, seq, n) /\ fold(base, seq) = f[n]
  BY FoldWalk
<1>2. PICK g : IsWalk(g, base, more, n + 1) /\ fold(base, more) = g[n + 1]
  BY FoldWalk
<1> DEFINE T == {i \in 0 .. n : f[i] = g[i]}
<1>3. 0 \in T
  BY <1>1, <1>2 DEF IsWalk
<1>4. ASSUME NEW i \in 0 .. n - 1, i \in T PROVE i + 1 \in T
  <2>1. i + 1 \in 1 .. n /\ i + 1 \in 1 .. n + 1 /\ (i + 1) - 1 = i /\ i + 1 \in 0 .. n
    OBVIOUS
  <2>2. f[i + 1] = Op(f[i], seq[i + 1]) /\ g[i + 1] = Op(g[i], more[i + 1])
    BY <1>1, <1>2, <2>1 DEF IsWalk
  <2> QED
    BY <1>4, <2>1, <2>2
<1> HIDE DEF T
<1>5. \A i \in 0 .. n : i \in T
  BY <1>3, <1>4, Induction
<1>6. f[n] = g[n]
  <2>1. n \in T
    BY <1>5
  <2> QED
    BY <2>1 DEF T
<1>7. g[n + 1] = Op(g[n], more[n + 1])
  <2>1. n + 1 \in 1 .. n + 1 /\ (n + 1) - 1 = n
    OBVIOUS
  <2> QED
    BY <1>2, <2>1 DEF IsWalk
<1> QED
  BY <1>1, <1>2, <1>6, <1>7

(* The fold over nothing.                                                   *)
LEMMA FoldNothing ==
  ASSUME NEW base, NEW seq, DOMAIN seq = {}
  PROVE  fold(base, seq) = base
<1>1. DOMAIN seq = 1 .. 0
  OBVIOUS
<1>2. PICK f : IsWalk(f, base, seq, 0) /\ fold(base, seq) = f[0]
  BY <1>1, FoldWalk
<1> QED
  BY <1>2 DEF IsWalk
=============================================================================
