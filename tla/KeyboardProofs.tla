--------------------------- MODULE KeyboardProofs ---------------------------
(***************************************************************************)
(* Proofs about Console and Keyboard for any screen, any messages and       *)
(* numbers, any prompt, and any number and order of scan codes.             *)
(***************************************************************************)
EXTENDS Keyboard, SequenceTheorems, TLAPS

USE CodesAssumption, ScreenAssumption

(* A screen, and a text whose lines fit on it.                              *)
Cell == [ch : Nat, lit : BOOLEAN]
Screens == [x : Int, y : 0 .. Lines - 1, cells : [Cells -> Cell], stray : BOOLEAN]
Texts == [lines : Seq(Seq(Nat)), polite : BOOLEAN]
IsText(t) ==
  /\ t \in Texts
  /\ t.polite => /\ Len(t.lines) \in 1 .. Lines
                 /\ \A i \in 1 .. Len(t.lines) : Len(t.lines[i]) <= Columns

(* Cell k of row r of the screen s shows what the text t has there.         *)
Glyph(t, r, k) ==
  IF r < Len(t.lines) /\ k < Len(t.lines[r + 1]) THEN Seen(Shown(t.lines[r + 1][k + 1])) ELSE Space
Shows(s, t) ==
  \A r \in 0 .. Lines - 1, k \in 0 .. Columns - 1 :
    Seen(s.cells[r * Columns + k]) = Glyph(t, r, k)

(* A screen and a text that belong together.                                *)
Fits(s, t) ==
  /\ s \in Screens /\ IsText(t)
  /\ t.polite => /\ ~s.stray
                 /\ s.y = Len(t.lines) - 1 /\ s.x = Len(Last(t.lines))
                 /\ Shows(s, t)
-----------------------------------------------------------------------------
(* The cells of the screen are its rows and columns, each of them once.     *)
LEMMA CellAt ==
  ASSUME NEW r \in 0 .. Lines - 1, NEW k \in 0 .. Columns - 1
  PROVE  r * Columns + k \in Cells
<1>1. r * Columns \in Nat /\ r * Columns + Columns <= Columns * Lines
  <2>1. r + 1 <= Lines /\ r \in Nat /\ Columns \in Nat /\ Lines \in Nat
    OBVIOUS
  <2>2. (r + 1) * Columns <= Lines * Columns /\ (r + 1) * Columns = r * Columns + Columns
    BY <2>1
  <2> QED
    BY <2>1, <2>2
<1>2. r * Columns + k \in Nat /\ r * Columns + k < r * Columns + Columns
  BY <1>1
<1>3. Columns * Lines \in Nat
  OBVIOUS
<1> QED
  BY <1>1, <1>2, <1>3 DEF Cells

LEMMA CellOnce ==
  ASSUME NEW r \in Nat, NEW k \in 0 .. Columns - 1, NEW q \in Nat, NEW j \in 0 .. Columns - 1,
         r * Columns + k = q * Columns + j
  PROVE  r = q /\ k = j
<1>1. ASSUME NEW a \in Nat, NEW b \in Nat, NEW c \in 0 .. Columns - 1, NEW d \in 0 .. Columns - 1,
             a < b
      PROVE  a * Columns + c < b * Columns + d
  <2>1. (a + 1) * Columns <= b * Columns /\ (a + 1) * Columns = a * Columns + Columns
    BY <1>1
  <2>2. a * Columns \in Nat /\ b * Columns \in Nat
    OBVIOUS
  <2> QED
    BY <2>1, <2>2
<1>2. ~(r < q) /\ ~(q < r)
  BY <1>1
<1>3. r = q
  BY <1>2
<1> QED
  BY <1>3

(* A row below: the cells that scroll_up reads.                             *)
LEMMA CellBelow ==
  ASSUME NEW r \in 0 .. Lines - 1, NEW k \in 0 .. Columns - 1
  PROVE  /\ (r * Columns + k) + Columns = (r + 1) * Columns + k
         /\ (r * Columns + k) + Columns \in Cells <=> r + 1 \in 0 .. Lines - 1
<1>1. (r * Columns + k) + Columns = (r + 1) * Columns + k
  <2>1. (r + 1) * Columns = r * Columns + Columns /\ r * Columns \in Nat
    OBVIOUS
  <2> QED
    BY <2>1
<1>2. ASSUME r + 1 \in 0 .. Lines - 1 PROVE (r + 1) * Columns + k \in Cells
  BY <1>2, CellAt
<1>3. ASSUME r + 1 \notin 0 .. Lines - 1 PROVE (r + 1) * Columns + k \notin Cells
  <2>1. r + 1 = Lines
    BY <1>3
  <2>2. Lines * Columns = Columns * Lines /\ Columns * Lines \in Nat
    OBVIOUS
  <2> QED
    BY <2>1, <2>2 DEF Cells
<1> QED
  BY <1>1, <1>2, <1>3

(* The last line of a polite text is a line, where the cursor stands.       *)
LEMMA LastLine ==
  ASSUME NEW t, IsText(t), t.polite
  PROVE  /\ Len(t.lines) \in 1 .. Lines /\ Last(t.lines) = t.lines[Len(t.lines)]
         /\ \A i \in 1 .. Len(t.lines) : t.lines[i] \in Seq(Nat) /\ Len(t.lines[i]) \in 0 .. Columns
         /\ Last(t.lines) \in Seq(Nat) /\ Len(Last(t.lines)) \in 0 .. Columns
<1>1. t.lines \in Seq(Seq(Nat)) /\ Len(t.lines) \in 1 .. Lines
  BY DEF IsText, Texts
<1>2. ASSUME NEW i \in 1 .. Len(t.lines)
      PROVE  t.lines[i] \in Seq(Nat) /\ Len(t.lines[i]) \in 0 .. Columns
  <2>1. t.lines[i] \in Seq(Nat)
    BY <1>1, ElementOfSeq
  <2>2. Len(t.lines[i]) <= Columns /\ Len(t.lines[i]) \in Nat
    BY <2>1 DEF IsText
  <2> QED
    BY <2>1, <2>2
<1>3. Len(t.lines) \in 1 .. Len(t.lines)
  BY <1>1
<1> QED
  BY <1>1, <1>2, <1>3 DEF Last

(* A sequence without its last element.                                     *)
LEMMA FrontFacts ==
  ASSUME NEW S, NEW s \in Seq(S), s # <<>>
  PROVE  /\ Front(s) \in Seq(S) /\ Len(s) \in Nat \ {0} /\ Len(Front(s)) = Len(s) - 1
         /\ \A i \in 1 .. Len(s) - 1 : Front(s)[i] = s[i]
<1> DEFINE n == Len(s) - 1
<1>1. Len(s) \in Nat \ {0}
  BY EmptySeq
<1>2. \A i \in 1 .. n : s[i] \in S
  BY <1>1
<1>3. n \in Nat /\ n - 1 + 1 = n /\ \A i \in 1 .. n : 1 + i - 1 = i
  BY <1>1
<1>4. (IF 1 <= n THEN n - 1 + 1 ELSE 0) = n
  <2> HIDE DEF n
  <2> QED
    BY <1>3
<1> HIDE DEF n
<1>5. /\ SubSeq(s, 1, n) \in Seq(S) /\ Len(SubSeq(s, 1, n)) = IF 1 <= n THEN n - 1 + 1 ELSE 0
      /\ \A i \in 1 .. n - 1 + 1 : SubSeq(s, 1, n)[i] = s[1 + i - 1]
  BY <1>2, <1>3, SubSeqProperties DEF n
<1>6. /\ Len(SubSeq(s, 1, n)) = n /\ \A i \in 1 .. n : SubSeq(s, 1, n)[i] = s[i]
  BY <1>3, <1>4, <1>5
<1> QED
  BY <1>1, <1>5, <1>6 DEF Front, n

(* Writing a character behind the last line, and nothing else.              *)
LEMMA WrittenFacts ==
  ASSUME NEW t, IsText(t), NEW ch \in Nat, ch # NL
  PROVE  LET u == Written(t, ch)
             n == Len(t.lines)
         IN  /\ IsText(u)
             /\ u.polite => /\ t.polite /\ Len(Last(t.lines)) < Columns /\ Len(u.lines) = n
                            /\ Last(u.lines) = Append(Last(t.lines), ch)
                            /\ u.lines = [t.lines EXCEPT ![n] = Append(t.lines[n], ch)]
<1> DEFINE n == Len(t.lines)
<1>1. CASE ~t.polite
  BY <1>1 DEF Written, IsText
<1>2. CASE t.polite
  <2>1. /\ n \in 1 .. Lines /\ Last(t.lines) = t.lines[n]
        /\ t.lines[n] \in Seq(Nat) /\ Len(t.lines[n]) \in 0 .. Columns
        /\ t.lines \in Seq(Seq(Nat)) /\ n \in 1 .. n
    <3>1. n \in 1 .. Lines /\ Last(t.lines) = t.lines[n] /\ t.lines \in Seq(Seq(Nat))
      BY <1>2, LastLine DEF IsText, Texts
    <3>2. n \in 1 .. n
      BY <3>1
    <3> QED
      BY <1>2, <3>1, <3>2, LastLine
  <2>2. CASE Len(t.lines[n]) = Columns
    <3>1. Written(t, ch) = Impolite
      BY <1>2, <2>2 DEF Written
    <3>2. Impolite \in Texts /\ ~Impolite.polite
      <4>1. <<>> \in Seq(Seq(Nat))
        BY EmptySeq
      <4> QED
        BY <4>1 DEF Impolite, Texts
    <3> QED
      BY <3>1, <3>2 DEF IsText
  <2>3. CASE Len(t.lines[n]) # Columns
    <3> DEFINE more == [t.lines EXCEPT ![n] = Append(t.lines[n], ch)]
    <3>1. Append(t.lines[n], ch) \in Seq(Nat) /\ Len(Append(t.lines[n], ch)) <= Columns
      BY <2>1, <2>3, AppendProperties
    <3>2. /\ more \in Seq(Seq(Nat)) /\ Len(more) = n /\ more[n] = Append(t.lines[n], ch)
          /\ \A i \in 1 .. n : i # n => more[i] = t.lines[i]
      <4>1. DOMAIN t.lines = 1 .. n /\ n \in 1 .. n /\ t.lines \in Seq(Seq(Nat))
        BY <2>1
      <4>2. Append(t.lines[n], ch) \in Seq(Nat)
        BY <3>1
      <4> HIDE DEF n
      <4>3. /\ more \in Seq(Seq(Nat)) /\ DOMAIN more = DOMAIN t.lines
        BY <4>1, <4>2, ExceptSeq
      <4>4. Len(more) = n
        BY <4>1, <4>3, LenProperties, SMTT(30) DEF n
      <4> QED
        BY <4>1, <4>3, <4>4
    <3>3. Written(t, ch) = [t EXCEPT !.lines = more]
      BY <1>2, <2>3 DEF Written
    <3>4. \A i \in 1 .. n : Len(more[i]) <= Columns
      BY <1>2, <3>1, <3>2 DEF IsText
    <3> HIDE DEF more
    <3>5. Written(t, ch) \in Texts /\ Written(t, ch).lines = more /\ Written(t, ch).polite = t.polite
      BY <3>2, <3>3 DEF IsText, Texts
    <3>6. Last(more) = Append(Last(t.lines), ch)
      BY <2>1, <3>2 DEF Last
    <3>7. Len(Last(t.lines)) < Columns
      BY <2>1, <2>3
    <3>8. IsText(Written(t, ch))
      BY <2>1, <3>2, <3>4, <3>5 DEF IsText
    <3> QED
      BY <1>2, <3>2, <3>5, <3>6, <3>7, <3>8 DEF more
  <2> QED
    BY <2>2, <2>3
<1> QED
  BY <1>1, <1>2

(* Erasing the last character of the last line.                             *)
LEMMA ErasedFacts ==
  ASSUME NEW t, IsText(t)
  PROVE  LET u == Erased(t)
             n == Len(t.lines)
         IN  /\ IsText(u)
             /\ u.polite => /\ t.polite /\ Last(t.lines) # <<>> /\ Len(u.lines) = n
                            /\ Last(u.lines) = Front(Last(t.lines))
                            /\ u.lines = [t.lines EXCEPT ![n] = Front(t.lines[n])]
<1> DEFINE n == Len(t.lines)
<1>0. IsText(Impolite) /\ ~Impolite.polite
  <2>1. <<>> \in Seq(Seq(Nat))
    BY EmptySeq
  <2> QED
    BY <2>1 DEF Impolite, Texts, IsText
<1>1. CASE ~t.polite
  BY <1>0, <1>1 DEF Erased
<1>2. CASE t.polite
  <2>1. /\ n \in 1 .. Lines /\ Last(t.lines) = t.lines[n]
        /\ t.lines[n] \in Seq(Nat) /\ Len(t.lines[n]) \in 0 .. Columns
        /\ t.lines \in Seq(Seq(Nat)) /\ n \in 1 .. n
    <3>1. n \in 1 .. Lines /\ Last(t.lines) = t.lines[n] /\ t.lines \in Seq(Seq(Nat))
      BY <1>2, LastLine DEF IsText, Texts
    <3>2. n \in 1 .. n
      BY <3>1
    <3> QED
      BY <1>2, <3>1, <3>2, LastLine
  <2>2. CASE t.lines[n] = <<>>
    BY <1>0, <1>2, <2>2 DEF Erased
  <2>3. CASE t.lines[n] # <<>>
    <3> DEFINE less == [t.lines EXCEPT ![n] = Front(t.lines[n])]
    <3>1. Front(t.lines[n]) \in Seq(Nat) /\ Len(Front(t.lines[n])) <= Columns
      BY <2>1, <2>3, FrontFacts
    <3>2. /\ less \in Seq(Seq(Nat)) /\ Len(less) = n /\ less[n] = Front(t.lines[n])
          /\ \A i \in 1 .. n : i # n => less[i] = t.lines[i]
      <4>1. DOMAIN t.lines = 1 .. n /\ n \in 1 .. n /\ t.lines \in Seq(Seq(Nat))
        BY <2>1
      <4>2. Front(t.lines[n]) \in Seq(Nat)
        BY <3>1
      <4> HIDE DEF n
      <4>3. /\ less \in Seq(Seq(Nat)) /\ DOMAIN less = DOMAIN t.lines
        BY <4>1, <4>2, ExceptSeq
      <4>4. Len(less) = n
        BY <4>1, <4>3, LenProperties, SMTT(30) DEF n
      <4> QED
        BY <4>1, <4>3, <4>4
    <3>3. Erased(t) = [t EXCEPT !.lines = less]
      BY <1>2, <2>3 DEF Erased
    <3>4. \A i \in 1 .. n : Len(less[i]) <= Columns
      BY <1>2, <3>1, <3>2 DEF IsText
    <3> HIDE DEF less
    <3>5. Erased(t) \in Texts /\ Erased(t).lines = less /\ Erased(t).polite = t.polite
      BY <3>2, <3>3 DEF IsText, Texts
    <3>6. Last(less) = Front(Last(t.lines))
      BY <2>1, <3>2 DEF Last
    <3>7. IsText(Erased(t))
      BY <2>1, <3>2, <3>4, <3>5 DEF IsText
    <3> QED
      BY <1>2, <2>1, <2>3, <3>2, <3>5, <3>6, <3>7 DEF less
  <2> QED
    BY <2>2, <2>3
<1> QED
  BY <1>1, <1>2

(* Ending a line, with or without a line that scrolls away.                 *)
LEMMA EndedFacts ==
  ASSUME NEW t, IsText(t)
  PROVE  LET u == Written(t, NL)
             n == Len(t.lines)
         IN  /\ IsText(u) /\ u.polite = t.polite
             /\ t.polite => /\ Last(u.lines) = <<>>
                            /\ n < Lines => /\ Len(u.lines) = n + 1
                                            /\ \A i \in 1 .. n : u.lines[i] = t.lines[i]
                            /\ n = Lines => /\ Len(u.lines) = n
                                            /\ \A i \in 1 .. n - 1 : u.lines[i] = t.lines[i + 1]
<1> DEFINE n == Len(t.lines)
           more == Append(t.lines, <<>>)
<1>1. CASE ~t.polite
  BY <1>1 DEF Written
<1>2. CASE t.polite
  <2>1. n \in 1 .. Lines /\ t.lines \in Seq(Seq(Nat)) /\ t \in Texts
    BY <1>2 DEF IsText, Texts
  <2>2. /\ more \in Seq(Seq(Nat)) /\ Len(more) = n + 1 /\ more # <<>>
        /\ more[n + 1] = <<>> /\ \A i \in 1 .. n : more[i] = t.lines[i]
    <3>1. <<>> \in Seq(Nat)
      BY EmptySeq
    <3>2. /\ more \in Seq(Seq(Nat)) /\ Len(more) = Len(t.lines) + 1
          /\ more[Len(t.lines) + 1] = <<>> /\ \A i \in 1 .. Len(t.lines) : more[i] = t.lines[i]
      BY <2>1, <3>1, AppendProperties
    <3> HIDE DEF more
    <3>3. more # <<>>
      BY <2>1, <3>2
    <3> QED
      BY <3>2, <3>3
  <2>3. /\ Tail(more) \in Seq(Seq(Nat)) /\ Len(Tail(more)) = n
        /\ \A i \in 1 .. n : Tail(more)[i] = more[i + 1]
    <3> HIDE DEF more
    <3> QED
      BY <2>1, <2>2, HeadTailProperties
  <2> DEFINE lines == IF n = Lines THEN Tail(more) ELSE more
  <2>4. Written(t, NL) = [t EXCEPT !.lines = lines]
    BY <1>2 DEF Written
  <2>5. lines \in Seq(Seq(Nat)) /\ Len(lines) \in 1 .. Lines
    <3> HIDE DEF more, n
    <3>1. CASE n = Lines
      BY <2>1, <2>3, <3>1
    <3>2. CASE n # Lines
      BY <2>1, <2>2, <3>2
    <3> QED
      BY <3>1, <3>2
  <2>6. \A i \in 1 .. n : Len(t.lines[i]) <= Columns
    BY <1>2 DEF IsText
  <2>7. CASE n = Lines
    <3>1. lines = Tail(more)
      BY <2>7
    <3> HIDE DEF lines, more
    <3>2. ASSUME NEW i \in 1 .. n - 1 PROVE lines[i] = t.lines[i + 1]
      <4>1. i \in 1 .. n /\ i + 1 \in 1 .. n
        BY <2>1, <3>2
      <4> QED
        BY <2>2, <2>3, <3>1, <4>1
    <3>3. lines[n] = <<>>
      <4>1. n \in 1 .. n
        BY <2>1
      <4> QED
        BY <2>2, <2>3, <3>1, <4>1
    <3>4. Last(lines) = <<>> /\ Len(lines) = n
      BY <2>3, <3>1, <3>3 DEF Last
    <3>5. \A i \in 1 .. n : Len(lines[i]) <= Columns
      <4> TAKE i \in 1 .. n
      <4>1. CASE i = n
        BY <3>3, <4>1
      <4>2. CASE i # n
        <5>1. i \in 1 .. n - 1 /\ i + 1 \in 1 .. n
          BY <2>1, <4>2
        <5> QED
          BY <2>6, <3>2, <5>1
      <4> QED
        BY <4>1, <4>2
    <3> HIDE DEF n
    <3>6. Written(t, NL) \in Texts /\ Written(t, NL).lines = lines /\ Written(t, NL).polite = t.polite
      BY <2>1, <2>4, <2>5 DEF Texts
    <3>7. IsText(Written(t, NL))
      BY <2>5, <3>4, <3>5, <3>6 DEF IsText
    <3>8. ~(n < Lines)
      BY <2>7
    <3> QED
      BY <3>2, <3>4, <3>6, <3>7, <3>8 DEF n
  <2>8. CASE n # Lines
    <3>1. lines = more
      BY <2>8
    <3> HIDE DEF lines, more
    <3>2. Last(lines) = <<>> /\ Len(lines) = n + 1
      BY <2>2, <3>1 DEF Last
    <3>3. \A i \in 1 .. n + 1 : Len(lines[i]) <= Columns
      <4> TAKE i \in 1 .. n + 1
      <4>1. CASE i = n + 1
        BY <2>2, <3>1, <4>1
      <4>2. CASE i # n + 1
        <5>1. i \in 1 .. n
          BY <2>1, <4>2
        <5> QED
          BY <2>2, <2>6, <3>1, <5>1
      <4> QED
        BY <4>1, <4>2
    <3>4. Written(t, NL) \in Texts /\ Written(t, NL).lines = lines /\ Written(t, NL).polite = t.polite
      BY <2>1, <2>4, <2>5 DEF Texts
    <3>5. IsText(Written(t, NL))
      BY <2>5, <3>2, <3>3, <3>4 DEF IsText
    <3> QED
      BY <2>2, <2>8, <3>1, <3>2, <3>4, <3>5
  <2> QED
    BY <2>7, <2>8
<1> QED
  BY <1>1, <1>2
-----------------------------------------------------------------------------
(* What the screen shows changes at one cell at most.                       *)
LEMMA OneCell ==
  ASSUME NEW s \in Screens, NEW t, NEW u, Shows(s, t),
         NEW y \in 0 .. Lines - 1, NEW x \in 0 .. Columns - 1, NEW cell \in Cell,
         Seen(cell) = Glyph(u, y, x),
         \A r \in 0 .. Lines - 1, k \in 0 .. Columns - 1 :
           ~(r = y /\ k = x) => Glyph(u, r, k) = Glyph(t, r, k),
         NEW z, z = [s EXCEPT !.cells[y * Columns + x] = cell]
  PROVE  z \in Screens /\ Shows(z, u)
<1> DEFINE i == y * Columns + x
<1>1. i \in Cells
  BY CellAt
<1>2. z \in Screens /\ z.cells = [s.cells EXCEPT ![i] = cell]
  BY <1>1 DEF Screens
<1>3. ASSUME NEW r \in 0 .. Lines - 1, NEW k \in 0 .. Columns - 1
      PROVE  Seen(z.cells[r * Columns + k]) = Glyph(u, r, k)
  <2>1. r * Columns + k \in Cells /\ s.cells \in [Cells -> Cell]
    BY CellAt DEF Screens
  <2>2. CASE r = y /\ k = x
    BY <1>1, <1>2, <2>1, <2>2
  <2>3. CASE ~(r = y /\ k = x)
    <3>1. r * Columns + k # i
      <4>1. r \in Nat /\ y \in Nat
        OBVIOUS
      <4> QED
        BY <2>3, <4>1, CellOnce
    <3> HIDE DEF i
    <3>2. z.cells[r * Columns + k] = s.cells[r * Columns + k]
      BY <1>2, <2>1, <3>1
    <3> QED
      BY <2>3, <3>2 DEF Shows
  <2> QED
    BY <2>2, <2>3
<1> QED
  BY <1>2, <1>3 DEF Shows

(* Moving the cursor, and storing in a cell or, without a test of the       *)
(* index, somewhere else.                                                   *)
LEMMA Moved ==
  ASSUME NEW s \in Screens, NEW x \in Int, NEW y \in 0 .. Lines - 1
  PROVE  LET z == vga_set_cursor_pos(s, x, y)
         IN  /\ z \in Screens
             /\ z.x = x /\ z.y = y /\ z.cells = s.cells /\ z.stray = s.stray
<1> DEFINE z == vga_set_cursor_pos(s, x, y)
<1>1. z = [s EXCEPT !.x = x, !.y = y]
  BY DEF vga_set_cursor_pos
<1> HIDE DEF z
<1>2. z = [x |-> x, y |-> y, cells |-> s.cells, stray |-> s.stray]
  BY <1>1 DEF Screens
<1>3. s.cells \in [Cells -> Cell] /\ s.stray \in BOOLEAN
  BY DEF Screens
<1> QED
  BY <1>2, <1>3 DEF Screens, z

LEMMA Stored ==
  ASSUME NEW s \in Screens, NEW i, NEW cell \in Cell, NEW x \in Int
  PROVE  LET z == IF i \in Cells THEN [s EXCEPT !.cells[i] = cell] ELSE [s EXCEPT !.stray = TRUE]
         IN  vga_set_cursor_pos(z, x, s.y) \in Screens
<1>1. s.y \in 0 .. Lines - 1
  BY DEF Screens
<1>2. [s EXCEPT !.stray = TRUE] \in Screens /\ [s EXCEPT !.stray = TRUE].y = s.y
  BY DEF Screens
<1>3. i \in Cells => /\ [s EXCEPT !.cells[i] = cell] \in Screens
                     /\ [s EXCEPT !.cells[i] = cell].y = s.y
  BY DEF Screens
<1> QED
  BY <1>1, <1>2, <1>3, Moved

LEMMA CharKeeps ==
  ASSUME NEW s, NEW t, Fits(s, t), NEW ch \in Nat, ch # NL
  PROVE  Fits(putchar(s, ch), Written(t, ch))
<1> DEFINE u == Written(t, ch)
           i == Cursor(s)
           z == IF i \in Cells THEN [s EXCEPT !.cells[i] = Shown(ch)] ELSE [s EXCEPT !.stray = TRUE]
<1>1. s \in Screens /\ IsText(t) /\ Shown(ch) \in Cell
  BY DEF Fits, Shown, Cell
<1>2. /\ IsText(u)
      /\ u.polite => /\ t.polite /\ Len(Last(t.lines)) < Columns /\ Len(u.lines) = Len(t.lines)
                     /\ Last(u.lines) = Append(Last(t.lines), ch)
                     /\ u.lines = [t.lines EXCEPT ![Len(t.lines)] = Append(t.lines[Len(t.lines)], ch)]
  BY <1>1, WrittenFacts
<1>3. putchar(s, ch) = vga_set_cursor_pos(z, s.x + 1, s.y)
  BY DEF putchar
<1>4. putchar(s, ch) \in Screens
  <2>1. s.x \in Int /\ s.x + 1 \in Int /\ s.y \in 0 .. Lines - 1
    BY <1>1 DEF Screens
  <2>2. i \in Int
    BY <2>1 DEF Cursor
  <2> HIDE DEF i
  <2> QED
    BY <1>1, <1>3, <2>1, <2>2, Stored
<1> HIDE DEF u
<1>5. ASSUME u.polite
      PROVE  /\ ~putchar(s, ch).stray
             /\ putchar(s, ch).y = Len(u.lines) - 1 /\ putchar(s, ch).x = Len(Last(u.lines))
             /\ Shows(putchar(s, ch), u)
  <2> DEFINE y == s.y
             x == s.x
             n == Len(t.lines)
             l == t.lines[n]
  <2>1. /\ t.polite /\ x < Columns /\ Len(u.lines) = n /\ Last(u.lines) = Append(l, ch)
        /\ u.lines = [t.lines EXCEPT ![n] = Append(l, ch)]
        /\ ~s.stray /\ y = n - 1 /\ x = Len(l) /\ Shows(s, t)
    BY <1>1, <1>2, <1>5, LastLine DEF Fits
  <2>2. /\ l \in Seq(Nat) /\ n \in 1 .. Lines /\ t.lines \in Seq(Seq(Nat)) /\ u.lines[n] = Append(l, ch)
    BY <1>1, <2>1, LastLine DEF IsText, Texts
  <2>3. /\ Len(Append(l, ch)) = x + 1 /\ Append(l, ch)[x + 1] = ch
        /\ \A j \in 1 .. x : Append(l, ch)[j] = l[j]
    BY <2>1, <2>2, AppendProperties
  <2>4. y \in 0 .. Lines - 1 /\ x \in 0 .. Columns - 1 /\ y + 1 = n
    <3>1. Len(l) \in Nat
      BY <2>2
    <3> HIDE DEF l, n, x, y
    <3>2. x < Columns /\ y = n - 1 /\ x = Len(l) /\ n \in 1 .. Lines
      BY <2>1, <2>2
    <3> QED
      BY <3>1, <3>2
  <2> HIDE DEF l, n, x, y
  <2>5. \A j \in 1 .. n : j # n => u.lines[j] = t.lines[j]
    <3>1. DOMAIN t.lines = 1 .. n /\ u.lines = [t.lines EXCEPT ![n] = Append(l, ch)]
      BY <2>1, <2>2 DEF n
    <3> QED
      BY <3>1
  <2>6. Seen(Shown(ch)) = Glyph(u, y, x)
    <3>1. y < Len(u.lines) /\ u.lines[y + 1] = Append(l, ch) /\ x < Len(u.lines[y + 1])
      BY <2>1, <2>2, <2>3, <2>4
    <3> QED
      BY <2>3, <3>1 DEF Glyph
  <2>7. ASSUME NEW r \in 0 .. Lines - 1, NEW k \in 0 .. Columns - 1, ~(r = y /\ k = x)
        PROVE  Glyph(u, r, k) = Glyph(t, r, k)
    <3>1. CASE r # y
      <4>1. r < n => r + 1 \in 1 .. n /\ r + 1 # n
        BY <2>2, <2>4, <3>1
      <4>2. Len(u.lines) = n /\ Len(t.lines) = n
        BY <2>1 DEF n
      <4> QED
        BY <2>5, <4>1, <4>2 DEF Glyph
    <3>2. CASE r = y
      <4>0. r + 1 = n /\ r < n /\ Len(u.lines) = n /\ Len(t.lines) = n /\ t.lines[n] = l
        BY <2>1, <2>4, <3>2 DEF l, n
      <4>1. /\ u.lines[r + 1] = Append(l, ch) /\ t.lines[r + 1] = l
            /\ r < Len(u.lines) /\ r < Len(t.lines)
        BY <2>2, <4>0
      <4>2. k # x /\ (k < x + 1 <=> k < x) /\ (k < x => k + 1 \in 1 .. x)
        BY <2>4, <2>7, <3>2
      <4>3. Len(l) = x
        BY <2>1
      <4> QED
        BY <2>3, <4>1, <4>2, <4>3 DEF Glyph
    <3> QED
      BY <3>1, <3>2
  <2>8. i = y * Columns + x /\ i \in Cells
    BY <2>4, CellAt DEF Cursor, x, y
  <2>9. z = [s EXCEPT !.cells[y * Columns + x] = Shown(ch)]
    BY <2>8, Zenon
  <2>10. z \in Screens /\ Shows(z, u)
    <3>1. \A r \in 0 .. Lines - 1, k \in 0 .. Columns - 1 :
            ~(r = y /\ k = x) => Glyph(u, r, k) = Glyph(t, r, k)
      BY <2>7
    <3>2. Shows(s, t)
      BY <2>1
    <3> HIDE DEF z, i
    <3> QED
      BY <1>1, <2>4, <2>6, <2>9, <3>1, <3>2, OneCell
  <2>11. ~z.stray
    BY <1>1, <2>1, <2>9 DEF Screens
  <2> HIDE DEF z
  <2>12. /\ putchar(s, ch).stray = z.stray /\ putchar(s, ch).cells = z.cells
         /\ putchar(s, ch).y = y /\ putchar(s, ch).x = x + 1
    BY <1>3, <2>10 DEF vga_set_cursor_pos, Screens, x, y
  <2> QED
    BY <2>1, <2>2, <2>3, <2>4, <2>10, <2>11, <2>12 DEF Shows
<1> QED
  BY <1>2, <1>4, <1>5 DEF Fits, u

LEMMA NewlineKeeps ==
  ASSUME NEW s, NEW t, Fits(s, t)
  PROVE  Fits(newline(s), Written(t, NL))
<1> DEFINE u == Written(t, NL)
           z == newline(s)
           n == Len(t.lines)
<1>1. s \in Screens /\ IsText(t) /\ s.y \in 0 .. Lines - 1 /\ s.cells \in [Cells -> Cell]
  BY DEF Fits, Screens
<1>2. /\ IsText(u) /\ u.polite = t.polite
      /\ t.polite => /\ Last(u.lines) = <<>>
                     /\ n < Lines => /\ Len(u.lines) = n + 1
                                     /\ \A i \in 1 .. n : u.lines[i] = t.lines[i]
                     /\ n = Lines => /\ Len(u.lines) = n
                                     /\ \A i \in 1 .. n - 1 : u.lines[i] = t.lines[i + 1]
  BY <1>1, EndedFacts
<1> HIDE DEF u
<1>3. t.polite => /\ n \in 1 .. Lines /\ s.y = n - 1 /\ ~s.stray /\ Shows(s, t)
                  /\ Len(u.lines) \in 1 .. Lines /\ u.lines[Len(u.lines)] = <<>>
  BY <1>1, <1>2, LastLine DEF Fits, Last
<1>4. CASE s.y >= Lines - 1
  <2> DEFINE up == scroll_up(s)
             rows == [i \in Cells |-> IF i + Columns \in Cells THEN s.cells[i + Columns] ELSE Blank]
  <2>1. z = vga_set_cursor_pos(up, 0, s.y)
    BY <1>4 DEF newline
  <2>2. Blank \in Cell /\ Seen(Blank) = Space
    BY DEF Blank, Shown, Cell, Seen, Space
  <2>3. /\ z \in Screens /\ z.x = 0 /\ z.y = s.y /\ z.stray = s.stray
        /\ \A i \in Cells : z.cells[i] = IF i + Columns \in Cells THEN s.cells[i + Columns]
                                         ELSE Blank
    <3>1. rows \in [Cells -> Cell]
      BY <1>1, <2>2
    <3>2. up = [s EXCEPT !.cells = rows]
      BY DEF scroll_up
    <3>3. \A i \in Cells : rows[i] = IF i + Columns \in Cells THEN s.cells[i + Columns] ELSE Blank
      OBVIOUS
    <3> HIDE DEF rows, up
    <3>4. up \in Screens /\ up.cells = rows /\ up.stray = s.stray
      BY <1>1, <3>1, <3>2 DEF Screens
    <3>5. z \in Screens /\ z.x = 0 /\ z.y = s.y /\ z.stray = up.stray /\ z.cells = up.cells
      BY <1>1, <2>1, <3>4, Moved
    <3> HIDE DEF z
    <3> QED
      BY <3>3, <3>4, <3>5
  <2> HIDE DEF z
  <2>4. ASSUME t.polite
        PROVE  /\ z.y = Len(u.lines) - 1 /\ z.x = Len(Last(u.lines)) /\ ~z.stray
               /\ Shows(z, u)
    <3>1. n = Lines /\ Len(u.lines) = n /\ \A i \in 1 .. n - 1 : u.lines[i] = t.lines[i + 1]
      <4>1. n = Lines
        BY <1>1, <1>3, <1>4, <2>4
      <4> HIDE DEF n
      <4> QED
        BY <1>2, <2>4, <4>1 DEF n
    <3>2. ASSUME NEW r \in 0 .. Lines - 1, NEW k \in 0 .. Columns - 1
          PROVE  Seen(z.cells[r * Columns + k]) = Glyph(u, r, k)
      <4>1. r * Columns + k \in Cells
        BY CellAt
      <4>2. /\ (r * Columns + k) + Columns = (r + 1) * Columns + k
            /\ (r * Columns + k) + Columns \in Cells <=> r + 1 \in 0 .. Lines - 1
        BY CellBelow
      <4>3. CASE r + 1 \in 0 .. Lines - 1
        <5>1. z.cells[r * Columns + k] = s.cells[(r + 1) * Columns + k]
          BY <2>3, <4>1, <4>2, <4>3
        <5>2. Seen(s.cells[(r + 1) * Columns + k]) = Glyph(t, r + 1, k)
          BY <1>3, <2>4, <4>3 DEF Shows
        <5>3. u.lines[r + 1] = t.lines[(r + 1) + 1] /\ r < Len(u.lines) /\ r + 1 < Len(t.lines)
          <6>1. r + 1 \in 1 .. n - 1
            BY <3>1, <4>3
          <6> QED
            BY <3>1, <6>1
        <5> QED
          BY <5>1, <5>2, <5>3 DEF Glyph
      <4>4. CASE r + 1 \notin 0 .. Lines - 1
        <5>1. z.cells[r * Columns + k] = Blank
          BY <2>3, <4>1, <4>2, <4>4
        <5>2. r + 1 = Len(u.lines)
          BY <3>1, <4>4
        <5>3. u.lines[r + 1] = <<>>
          BY <1>3, <2>4, <5>2
        <5>4. ~(k < Len(u.lines[r + 1]))
          BY <5>3
        <5> QED
          BY <2>2, <5>1, <5>4 DEF Glyph
      <4> QED
        BY <4>3, <4>4
    <3>3. z.x = Len(Last(u.lines))
      BY <1>2, <2>3, <2>4
    <3>4. z.y = Len(u.lines) - 1
      BY <1>3, <2>3, <2>4, <3>1
    <3>5. Shows(z, u)
      BY <3>2 DEF Shows
    <3> QED
      BY <1>3, <2>3, <2>4, <3>3, <3>4, <3>5
  <2> QED
    BY <1>2, <2>3, <2>4 DEF Fits, u, z
<1>5. CASE ~(s.y >= Lines - 1)
  <2>1. z = vga_set_cursor_pos(s, 0, s.y + 1)
    BY <1>5 DEF newline
  <2>2. s.y + 1 \in 0 .. Lines - 1
    BY <1>1, <1>5
  <2>3. z \in Screens /\ z.x = 0 /\ z.y = s.y + 1 /\ z.stray = s.stray /\ z.cells = s.cells
    BY <1>1, <2>1, <2>2, Moved
  <2> HIDE DEF z
  <2>4. ASSUME t.polite
        PROVE  /\ z.y = Len(u.lines) - 1 /\ z.x = Len(Last(u.lines)) /\ ~z.stray
               /\ Shows(z, u)
    <3>1. n < Lines /\ Len(u.lines) = n + 1 /\ \A i \in 1 .. n : u.lines[i] = t.lines[i]
      <4>1. n < Lines
        BY <1>1, <1>3, <1>5, <2>4
      <4> HIDE DEF n
      <4> QED
        BY <1>2, <2>4, <4>1 DEF n
    <3>2. ASSUME NEW r \in 0 .. Lines - 1, NEW k \in 0 .. Columns - 1
          PROVE  Seen(z.cells[r * Columns + k]) = Glyph(u, r, k)
      <4>1. Seen(z.cells[r * Columns + k]) = Glyph(t, r, k)
        BY <1>3, <2>3, <2>4 DEF Shows
      <4>2. CASE r < n
        <5>1. r + 1 \in 1 .. n /\ r < Len(u.lines)
          BY <1>3, <2>4, <3>1, <4>2
        <5>2. u.lines[r + 1] = t.lines[r + 1]
          BY <3>1, <5>1
        <5> QED
          BY <4>1, <4>2, <5>1, <5>2 DEF Glyph
      <4>3. CASE ~(r < n)
        <5>1. Glyph(t, r, k) = Space
          BY <4>3 DEF Glyph
        <5>2. CASE r = n
          <6>1. u.lines[r + 1] = <<>>
            BY <1>3, <2>4, <3>1, <5>2
          <6>2. ~(k < Len(u.lines[r + 1]))
            BY <6>1
          <6> QED
            BY <4>1, <5>1, <6>2 DEF Glyph
        <5>3. CASE r # n
          <6>1. ~(r < Len(u.lines))
            BY <1>3, <2>4, <3>1, <4>3, <5>3
          <6> QED
            BY <4>1, <5>1, <6>1 DEF Glyph
        <5> QED
          BY <5>2, <5>3
      <4> QED
        BY <4>2, <4>3
    <3>3. z.x = Len(Last(u.lines))
      BY <1>2, <2>3, <2>4
    <3>4. z.y = Len(u.lines) - 1
      BY <1>3, <2>3, <2>4, <3>1
    <3>5. Shows(z, u)
      BY <3>2 DEF Shows
    <3> QED
      BY <1>3, <2>3, <2>4, <3>3, <3>4, <3>5
  <2> QED
    BY <1>2, <2>3, <2>4 DEF Fits, u, z
<1> QED
  BY <1>4, <1>5

LEMMA PutcharKeeps ==
  ASSUME NEW s, NEW t, Fits(s, t), NEW ch \in Nat
  PROVE  Fits(putchar(s, ch), Written(t, ch))
<1>1. CASE ch = NL
  <2>1. putchar(s, ch) = newline(s)
    BY <1>1 DEF putchar
  <2> QED
    BY <1>1, <2>1, NewlineKeeps
<1>2. CASE ch # NL
  BY <1>2, CharKeeps
<1> QED
  BY <1>1, <1>2

LEMMA DelsymKeeps ==
  ASSUME NEW s, NEW t, Fits(s, t)
  PROVE  Fits(delsym(s), Erased(t))
<1> DEFINE u == Erased(t)
           i == Cursor(s) - 1
           z == IF i \in Cells THEN [s EXCEPT !.cells[i].lit = FALSE] ELSE [s EXCEPT !.stray = TRUE]
           n == Len(t.lines)
           l == t.lines[n]
<1>1. /\ s \in Screens /\ IsText(t) /\ s.y \in 0 .. Lines - 1 /\ s.x \in Int
      /\ s.cells \in [Cells -> Cell]
  BY DEF Fits, Screens
<1>2. /\ IsText(u)
      /\ u.polite => /\ t.polite /\ Last(t.lines) # <<>> /\ Len(u.lines) = n
                     /\ Last(u.lines) = Front(Last(t.lines))
                     /\ u.lines = [t.lines EXCEPT ![n] = Front(t.lines[n])]
  BY <1>1, ErasedFacts
<1>3. delsym(s) = vga_set_cursor_pos(z, s.x - 1, s.y)
  BY DEF delsym
<1>4. i \in Int
  BY <1>1 DEF Cursor
<1>5. delsym(s) \in Screens
  <2> DEFINE dark == [s.cells[i] EXCEPT !.lit = FALSE]
  <2> HIDE DEF i
  <2>1. s.x - 1 \in Int
    BY <1>1
  <2>2. CASE i \in Cells
    <3>1. dark \in Cell
      BY <1>1, <2>2 DEF Cell
    <3>2. z = [s EXCEPT !.cells[i] = dark]
      BY <1>1, <2>2 DEF Screens
    <3>3. z = IF i \in Cells THEN [s EXCEPT !.cells[i] = dark] ELSE [s EXCEPT !.stray = TRUE]
      BY <2>2, <3>2
    <3> HIDE DEF dark, z
    <3> QED
      BY <1>1, <1>3, <2>1, <3>1, <3>3, Stored
  <2>3. CASE i \notin Cells
    <3>1. Blank \in Cell
      BY DEF Blank, Shown, Cell, Space
    <3>2. z = IF i \in Cells THEN [s EXCEPT !.cells[i] = Blank] ELSE [s EXCEPT !.stray = TRUE]
      BY <2>3
    <3> HIDE DEF z
    <3> QED
      BY <1>1, <1>3, <2>1, <3>1, <3>2, Stored
  <2> QED
    BY <2>2, <2>3
<1> HIDE DEF u, z
<1>6. ASSUME u.polite
      PROVE  /\ ~delsym(s).stray
             /\ delsym(s).y = Len(u.lines) - 1 /\ delsym(s).x = Len(Last(u.lines))
             /\ Shows(delsym(s), u)
  <2> DEFINE y == s.y
             x == s.x - 1
  <2>1. /\ t.polite /\ l # <<>> /\ Len(u.lines) = n /\ Last(u.lines) = Front(l)
        /\ u.lines = [t.lines EXCEPT ![n] = Front(l)]
        /\ ~s.stray /\ y = n - 1 /\ s.x = Len(l) /\ Shows(s, t)
    BY <1>1, <1>2, <1>6, LastLine DEF Fits
  <2>2. /\ l \in Seq(Nat) /\ n \in 1 .. Lines /\ t.lines \in Seq(Seq(Nat)) /\ Len(l) \in 0 .. Columns
    BY <1>1, <2>1, LastLine DEF IsText, Texts
  <2>3. /\ Len(l) = x + 1 /\ x \in 0 .. Columns - 1 /\ Len(Front(l)) = x
        /\ \A j \in 1 .. x : Front(l)[j] = l[j]
    <3>1. /\ Len(l) \in Nat \ {0} /\ Len(Front(l)) = Len(l) - 1
          /\ \A j \in 1 .. Len(l) - 1 : Front(l)[j] = l[j]
      BY <2>1, <2>2, FrontFacts
    <3> HIDE DEF l, n
    <3>2. Len(l) = x + 1 /\ x \in 0 .. Columns - 1 /\ Len(l) - 1 = x
      BY <2>1, <2>2, <3>1
    <3> HIDE DEF x
    <3> QED
      BY <3>1, <3>2
  <2>4. y \in 0 .. Lines - 1 /\ y + 1 = n /\ s.x = x + 1
    <3> HIDE DEF l, n
    <3> QED
      BY <1>1, <2>1, <2>2
  <2> HIDE DEF l, n, x, y
  <2>5. u.lines[n] = Front(l) /\ \A j \in 1 .. n : j # n => u.lines[j] = t.lines[j]
    <3>1. DOMAIN t.lines = 1 .. n /\ u.lines = [t.lines EXCEPT ![n] = Front(l)]
      BY <2>1, <2>2 DEF n
    <3>2. n \in 1 .. n
      BY <2>2
    <3> QED
      BY <3>1, <3>2
  <2>6. i = y * Columns + x /\ i \in Cells
    <3>1. Cursor(s) = y * Columns + s.x
      BY DEF Cursor, y
    <3>2. y * Columns \in Int /\ x \in Int
      BY <2>3, <2>4
    <3>3. i = y * Columns + x
      BY <2>4, <3>1, <3>2
    <3> QED
      BY <2>3, <2>4, <3>3, CellAt
  <2> DEFINE dark == [s.cells[i] EXCEPT !.lit = FALSE]
  <2>7. dark \in Cell /\ Seen(dark) = Space
    BY <1>1, <2>6 DEF Cell, Seen
  <2>8. z = [s EXCEPT !.cells[i] = dark]
    BY <1>1, <2>6 DEF Screens, z
  <2> HIDE DEF dark
  <2>9. Glyph(u, y, x) = Space
    <3>1. u.lines[y + 1] = Front(l) /\ ~(x < Len(Front(l)))
      BY <2>3, <2>4, <2>5
    <3> QED
      BY <3>1 DEF Glyph
  <2>10. ASSUME NEW r \in 0 .. Lines - 1, NEW k \in 0 .. Columns - 1, ~(r = y /\ k = x)
         PROVE  Glyph(u, r, k) = Glyph(t, r, k)
    <3>1. CASE r # y
      <4>1. r < n => r + 1 \in 1 .. n /\ r + 1 # n
        BY <2>2, <2>4, <3>1
      <4>2. Len(u.lines) = n /\ Len(t.lines) = n
        BY <2>1 DEF n
      <4> QED
        BY <2>5, <4>1, <4>2 DEF Glyph
    <3>2. CASE r = y
      <4>0. r + 1 = n /\ r < n /\ Len(u.lines) = n /\ Len(t.lines) = n /\ t.lines[n] = l
        BY <2>1, <2>4, <3>2 DEF l, n
      <4>1. /\ u.lines[r + 1] = Front(l) /\ t.lines[r + 1] = l
            /\ r < Len(u.lines) /\ r < Len(t.lines)
        BY <2>5, <4>0
      <4>2. (k < x + 1 <=> k < x) /\ (k < x => k + 1 \in 1 .. x)
        BY <2>3, <2>10, <3>2
      <4> QED
        BY <2>3, <4>1, <4>2 DEF Glyph
    <3> QED
      BY <3>1, <3>2
  <2>11. z \in Screens /\ Shows(z, u)
    <3>1. \A r \in 0 .. Lines - 1, k \in 0 .. Columns - 1 :
            ~(r = y /\ k = x) => Glyph(u, r, k) = Glyph(t, r, k)
      BY <2>10
    <3>2. Shows(s, t) /\ y \in 0 .. Lines - 1 /\ x \in 0 .. Columns - 1
      BY <2>1, <2>3, <2>4
    <3>3. z = [s EXCEPT !.cells[y * Columns + x] = dark] /\ Seen(dark) = Glyph(u, y, x)
      BY <2>6, <2>7, <2>8, <2>9
    <3> HIDE DEF i
    <3> QED
      BY <1>1, <2>7, <3>1, <3>2, <3>3, OneCell
  <2>12. ~z.stray
    BY <1>1, <2>1, <2>8 DEF Screens
  <2>13. /\ delsym(s).stray = z.stray /\ delsym(s).cells = z.cells
         /\ delsym(s).y = y /\ delsym(s).x = x
    BY <1>3, <2>11 DEF vga_set_cursor_pos, Screens, x, y
  <2> QED
    BY <2>1, <2>3, <2>4, <2>11, <2>12, <2>13 DEF Shows
<1> QED
  BY <1>2, <1>5, <1>6 DEF Fits, u

(* The empty screen, after cls or at the start.                             *)
LEMMA EmptyFits ==
  ASSUME NEW s \in Screens, s.x = 0, s.y = 0, ~s.stray, \A i \in Cells : s.cells[i] = Blank
  PROVE  Fits(s, EmptyText)
<1>1. EmptyText.lines = <<<<>>>> /\ EmptyText.polite = TRUE /\ EmptyText \in Texts
  <2>1. <<>> \in Seq(Nat)
    BY EmptySeq
  <2>2. <<<<>>>> \in Seq(Seq(Nat))
    BY <2>1
  <2> QED
    BY <2>2 DEF EmptyText, Texts
<1>2. /\ Len(EmptyText.lines) = 1 /\ EmptyText.lines[1] = <<>> /\ Len(EmptyText.lines[1]) = 0
      /\ Last(EmptyText.lines) = <<>> /\ Len(Last(EmptyText.lines)) = 0
  BY <1>1 DEF Last
<1>3. IsText(EmptyText)
  BY <1>1, <1>2 DEF IsText
<1>4. ASSUME NEW r \in 0 .. Lines - 1, NEW k \in 0 .. Columns - 1
      PROVE  Seen(s.cells[r * Columns + k]) = Glyph(EmptyText, r, k)
  <2>1. s.cells[r * Columns + k] = Blank
    BY CellAt
  <2>2. Seen(Blank) = Space
    BY DEF Blank, Shown, Seen, Space
  <2>3. r < 1 => r = 0
    OBVIOUS
  <2>4. Glyph(EmptyText, r, k) = Space
    BY <1>2, <2>3 DEF Glyph
  <2> QED
    BY <2>1, <2>2, <2>4
<1>5. Shows(s, EmptyText)
  BY <1>4 DEF Shows
<1> QED
  BY <1>2, <1>3, <1>5 DEF Fits
-----------------------------------------------------------------------------
(* A message is a fold of its characters, on the screen and in the text.    *)
OnScreen == INSTANCE Folding WITH Op <- putchar
InText == INSTANCE Folding WITH Op <- Written

LEMMA PrintKeeps ==
  ASSUME NEW s, NEW t, Fits(s, t), NEW m \in Seq(Nat)
  PROVE  Fits(printf(s, m), FoldLeft(Written, t, m))
<1> DEFINE n == Len(m)
<1>1. n \in Nat /\ DOMAIN m = 1 .. n /\ \A i \in 1 .. n : m[i] \in Nat
  OBVIOUS
<1> HIDE DEF n
<1>2. PICK f : OnScreen!IsWalk(f, s, m, n) /\ OnScreen!fold(s, m) = f[n]
  BY <1>1, OnScreen!FoldWalk
<1>3. PICK g : InText!IsWalk(g, t, m, n) /\ InText!fold(t, m) = g[n]
  BY <1>1, InText!FoldWalk
<1> DEFINE T == {i \in 0 .. n : Fits(f[i], g[i])}
<1>4. 0 \in T
  BY <1>1, <1>2, <1>3 DEF OnScreen!IsWalk, InText!IsWalk
<1>5. ASSUME NEW i \in 0 .. n - 1, i \in T PROVE i + 1 \in T
  <2>1. i + 1 \in 1 .. n /\ i + 1 \in 0 .. n /\ (i + 1) - 1 = i
    BY <1>1
  <2>2. f[i + 1] = putchar(f[i], m[i + 1]) /\ g[i + 1] = Written(g[i], m[i + 1]) /\ m[i + 1] \in Nat
    BY <1>1, <1>2, <1>3, <2>1 DEF OnScreen!IsWalk, InText!IsWalk
  <2>3. Fits(f[i], g[i])
    BY <1>5
  <2>4. Fits(f[i + 1], g[i + 1])
    BY <2>2, <2>3, PutcharKeeps
  <2> QED
    BY <2>1, <2>4
<1> HIDE DEF T
<1>6. \A i \in 0 .. n : i \in T
  BY <1>1, <1>4, <1>5, OnScreen!Induction
<1>7. Fits(f[n], g[n])
  <2>1. n \in T
    BY <1>1, <1>6
  <2> QED
    BY <2>1 DEF T
<1>8. OnScreen!fold(s, m) = printf(s, m)
  BY Zenon DEF OnScreen!fold, printf, FoldLeft, MapThenFoldSet, OnScreen!FoldLeft,
               OnScreen!MapThenFoldSet, OnScreen!Max, Max
<1>9. InText!fold(t, m) = FoldLeft(Written, t, m)
  BY Zenon DEF InText!fold, FoldLeft, MapThenFoldSet, InText!FoldLeft, InText!MapThenFoldSet,
               InText!Max, Max
<1> QED
  BY <1>2, <1>3, <1>7, <1>8, <1>9, Zenon

(* Power is what its recursive definition says.                             *)
Sixteenfold(p, i) == 16 * p
Powers == INSTANCE Folding WITH Op <- Sixteenfold

LEMMA PowerFacts ==
  /\ Power[0] = 1 /\ \A i \in 1 .. Nibbles : Power[i] = 16 * Power[i - 1]
  /\ \A i \in 0 .. Nibbles : Power[i] \in Nat \ {0}
<1>0. Nibbles \in Nat
  BY NumbersAssumption
<1> DEFINE Step(p, i) == IF i = 0 THEN 1 ELSE 16 * p[i - 1]
           seq == [i \in 1 .. Nibbles |-> i]
<1>1. \E p : p = [i \in 0 .. Nibbles |-> Step(p, i)]
  <2>1. DOMAIN seq = 1 .. Nibbles
    OBVIOUS
  <2> HIDE DEF seq
  <2>2. PICK f : Powers!IsWalk(f, 1, seq, Nibbles)
    BY <1>0, <2>1, Powers!FoldWalk
  <2> DEFINE p == [i \in 0 .. Nibbles |-> f[i]]
  <2>3. ASSUME NEW i \in 0 .. Nibbles PROVE p[i] = Step(p, i)
    <3>1. CASE i = 0
      BY <2>2, <3>1 DEF Powers!IsWalk
    <3>2. CASE i # 0
      <4>1. i \in 1 .. Nibbles /\ i - 1 \in 0 .. Nibbles
        BY <1>0, <3>2
      <4>2. f[i] = 16 * f[i - 1]
        BY <2>2, <4>1 DEF Powers!IsWalk, Sixteenfold
      <4> QED
        BY <3>2, <4>1, <4>2
    <3> QED
      BY <3>1, <3>2
  <2>4. p = [i \in 0 .. Nibbles |-> p[i]]
    OBVIOUS
  <2> HIDE DEF p, Step
  <2>5. p = [i \in 0 .. Nibbles |-> Step(p, i)]
    BY <2>3, <2>4
  <2> QED
    BY <2>5, Zenon
<1>2. Power = [i \in 0 .. Nibbles |-> Step(Power, i)]
  BY <1>1, Zenon DEF Power
<1>3. /\ Power[0] = 1 /\ \A i \in 1 .. Nibbles : Power[i] = 16 * Power[i - 1]
  <2>1. 0 \in 0 .. Nibbles /\ \A i \in 1 .. Nibbles : i \in 0 .. Nibbles /\ i # 0
    BY <1>0
  <2> QED
    BY <1>2, <2>1, Zenon
<1> DEFINE T == {i \in 0 .. Nibbles : Power[i] \in Nat \ {0}}
<1>4. 0 \in T
  BY <1>0, <1>3
<1>5. ASSUME NEW i \in 0 .. Nibbles - 1, i \in T PROVE i + 1 \in T
  <2>1. i + 1 \in 1 .. Nibbles /\ (i + 1) - 1 = i /\ i + 1 \in 0 .. Nibbles
    BY <1>0
  <2>2. Power[i + 1] = 16 * Power[i]
    BY <1>3, <2>1
  <2> QED
    BY <1>5, <2>1, <2>2
<1> HIDE DEF T
<1>6. \A i \in 0 .. Nibbles : i \in T
  BY <1>0, <1>4, <1>5, Powers!Induction
<1> QED
  BY <1>3, <1>6 DEF T

(* A prefix of the sequence g, and the next one.                            *)
LEMMA AppendNext ==
  ASSUME NEW S, NEW g \in Seq(S), NEW m \in Nat, m + 1 \in 1 .. Len(g)
  PROVE  Append([j \in 1 .. m |-> g[j]], g[m + 1]) = [j \in 1 .. m + 1 |-> g[j]]
<1> DEFINE p == [j \in 1 .. m |-> g[j]]
           q == [j \in 1 .. m + 1 |-> g[j]]
<1>1. \A j \in 1 .. m + 1 : j \in 1 .. Len(g) /\ g[j] \in S
  BY Z3
<1>2. p \in Seq(S) /\ Len(p) = m /\ q \in Seq(S) /\ Len(q) = m + 1 /\ g[m + 1] \in S
  <2>1. \A j \in 1 .. m : j \in 1 .. m + 1
    OBVIOUS
  <2> QED
    BY <1>1, <2>1
<1>3. (\A j \in 1 .. m : p[j] = g[j]) /\ (\A j \in 1 .. m + 1 : q[j] = g[j])
  OBVIOUS
<1> HIDE DEF p, q
<1>4. /\ Append(p, g[m + 1]) \in Seq(S) /\ Len(Append(p, g[m + 1])) = m + 1
      /\ \A j \in 1 .. m : Append(p, g[m + 1])[j] = p[j]
      /\ Append(p, g[m + 1])[m + 1] = g[m + 1]
  BY <1>2, AppendProperties
<1>5. ASSUME NEW j \in 1 .. m + 1 PROVE Append(p, g[m + 1])[j] = q[j]
  <2>1. CASE j = m + 1
    BY <1>3, <1>4, <2>1
  <2>2. CASE j # m + 1
    <3>1. j \in 1 .. m
      BY <2>2
    <3> QED
      BY <1>3, <1>4, <3>1
  <2> QED
    BY <2>1, <2>2
<1> QED
  BY <1>2, <1>4, <1>5, SeqEqual DEF p, q

(* How many digits a number has: those above are zeros, and the first of    *)
(* them is none.                                                            *)
IsLength(n, k) == n < Power[k] /\ (k = 1 \/ n >= Power[k - 1])

LEMMA LengthExists ==
  ASSUME NEW n \in Numbers
  PROVE  \E k \in 1 .. Nibbles : IsLength(n, k)
<1> DEFINE T == {k \in 1 .. Nibbles : n < Power[k]}
<1>1. Nibbles \in Nat \ {0} /\ n \in Nat /\ n < Power[Nibbles]
  <2>1. Nibbles \in Nat \ {0} /\ n \in 0 .. Power[Nibbles] - 1
    BY NumbersAssumption
  <2>2. Power[Nibbles] \in Nat
    BY <2>1, PowerFacts
  <2> QED
    BY <2>1, <2>2
<1>2. Nibbles \in T /\ T \in SUBSET Nat
  BY <1>1
<1>3. PICK k \in T : \A j \in T : ~(j < k)
  <2> HIDE DEF T
  <2> QED
    BY <1>2, OnScreen!LeastElement
<1>4. k \in 1 .. Nibbles /\ n < Power[k]
  OBVIOUS
<1>5. CASE k = 1
  BY <1>4, <1>5 DEF IsLength
<1>6. CASE k # 1
  <2>1. k - 1 \in 1 .. Nibbles /\ k - 1 < k /\ k - 1 \in 0 .. Nibbles
    BY <1>1, <1>4, <1>6
  <2>2. ~(n < Power[k - 1])
    BY <1>3, <2>1
  <2>3. Power[k - 1] \in Nat
    BY <2>1, PowerFacts
  <2>4. n >= Power[k - 1]
    BY <1>1, <2>2, <2>3
  <2> QED
    BY <1>4, <2>4 DEF IsLength
<1> QED
  BY <1>5, <1>6

LEMMA NibbleFacts ==
  ASSUME NEW n \in Numbers, NEW k \in 1 .. Nibbles, IsLength(n, k)
  PROVE  /\ \A i \in 0 .. Nibbles - 1 : Nibble(n, i) \in 0 .. 15
         /\ \A i \in k .. Nibbles - 1 : Nibble(n, i) = 0
         /\ k > 1 => Nibble(n, k - 1) # 0
<1>1. Nibbles \in Nat \ {0} /\ n \in Nat
  <2>1. Nibbles \in Nat \ {0} /\ n \in 0 .. Power[Nibbles] - 1
    BY NumbersAssumption
  <2>2. Power[Nibbles] \in Nat
    BY <2>1, PowerFacts
  <2> QED
    BY <2>1, <2>2
<1>2. ASSUME NEW i \in 0 .. Nibbles - 1
      PROVE  /\ Power[i] \in Nat \ {0} /\ n \div Power[i] \in Nat
             /\ Power[i] * (n \div Power[i]) <= n /\ n < Power[i] * (n \div Power[i]) + Power[i]
             /\ Nibble(n, i) \in 0 .. 15
  <2>1. Power[i] \in Nat \ {0}
    <3>1. i \in 0 .. Nibbles
      BY <1>1
    <3> QED
      BY <3>1, PowerFacts
  <2>2. ASSUME NEW a \in Nat, NEW d \in Nat \ {0}
        PROVE  /\ a \div d \in Nat /\ d * (a \div d) <= a /\ a < d * (a \div d) + d
               /\ (a \div d) % 16 \in 0 .. 15
    OBVIOUS
  <2> QED
    BY <1>1, <2>1, <2>2 DEF Nibble
<1> DEFINE T == {i \in 0 .. Nibbles - k : n < Power[k + i]}
<1>3. \A i \in 0 .. Nibbles - k : i \in T
  <2>1. 0 \in T
    BY <1>1 DEF IsLength
  <2>2. ASSUME NEW i \in 0 .. (Nibbles - k) - 1, i \in T PROVE i + 1 \in T
    <3>1. k + i + 1 \in 1 .. Nibbles /\ (k + i + 1) - 1 = k + i /\ k + i \in 0 .. Nibbles
      BY <1>1
    <3>2. Power[k + i + 1] = 16 * Power[k + i] /\ Power[k + i] \in Nat
      BY <3>1, PowerFacts
    <3>3. n < Power[k + i]
      BY <2>2
    <3>4. n < Power[k + i + 1]
      BY <1>1, <3>2, <3>3
    <3>5. i + 1 \in 0 .. Nibbles - k /\ k + (i + 1) = k + i + 1
      BY <1>1
    <3> QED
      BY <3>4, <3>5
  <2>3. Nibbles - k \in Nat
    BY <1>1
  <2> HIDE DEF T
  <2> QED
    BY <2>1, <2>2, <2>3, OnScreen!Induction
<1>4. ASSUME NEW i \in k .. Nibbles - 1 PROVE Nibble(n, i) = 0
  <2>1. i - k \in 0 .. Nibbles - k /\ k + (i - k) = i /\ i \in 0 .. Nibbles - 1
    BY <1>1
  <2>2. n < Power[i]
    BY <1>3, <2>1
  <2>3. n \div Power[i] = 0
    <3>1. \A a \in Nat, d \in Nat : d * (a + 1) = d * a + d /\ d * a \in Nat
      OBVIOUS
    <3>2. ASSUME n \div Power[i] # 0 PROVE FALSE
      <4>1. PICK a \in Nat : n \div Power[i] = a + 1
        <5>1. n \div Power[i] \in Nat /\ (n \div Power[i]) - 1 \in Nat
          BY <1>2, <2>1, <3>2
        <5> QED
          BY <5>1
      <4>2. Power[i] * (a + 1) <= n /\ Power[i] \in Nat
        BY <1>2, <2>1, <4>1
      <4> QED
        BY <1>1, <2>2, <3>1, <4>2
    <3> QED
      BY <3>2
  <2>4. 0 % 16 = 0
    OBVIOUS
  <2> QED
    BY <2>3, <2>4 DEF Nibble
<1>5. ASSUME k > 1 PROVE Nibble(n, k - 1) # 0
  <2> DEFINE p == Power[k - 1]
             q == n \div p
  <2>1. k - 1 \in 0 .. Nibbles - 1
    BY <1>1, <1>5
  <2>2. n >= p /\ n < 16 * p
    <3>1. Power[k] = 16 * p
      BY PowerFacts
    <3> QED
      BY <1>5, <3>1 DEF IsLength
  <2>3. p \in Nat \ {0} /\ q \in Nat /\ p * q <= n /\ n < p * q + p
    BY <1>2, <2>1
  <2> HIDE DEF p, q
  <2>4. q # 0
    BY <1>1, <2>2, <2>3
  <2>5. q < 16
    <3>1. ASSUME q >= 16 PROVE FALSE
      <4>1. p * q >= p * 16
        BY <2>3, <3>1
      <4>2. p * 16 = 16 * p
        BY <2>3
      <4>3. p * q \in Nat /\ 16 * p \in Nat
        BY <2>3
      <4> HIDE DEF p
      <4> QED
        BY <1>1, <2>2, <2>3, <4>1, <4>2, <4>3
    <3> QED
      BY <2>3, <3>1
  <2>6. q % 16 = q
    BY <2>3, <2>5
  <2> QED
    BY <2>4, <2>6 DEF Nibble, p, q
<1> QED
  BY <1>2, <1>4, <1>5

(* The digits that printfhex prints are those of the number.                *)
Digits == INSTANCE Folding WITH Op <- PrintDigit

LEMMA HexDigitsRight ==
  ASSUME NEW n \in Numbers
  PROVE  HexDigits(n) = Hexadecimal(n) /\ Hexadecimal(n) \in Seq(Nat)
<1> DEFINE k == CHOOSE k \in 1 .. Nibbles : n < Power[k] /\ (k = 1 \/ n >= Power[k - 1])
           g == [j \in 1 .. k |-> HexChar(Nibble(n, k - j))]
           d == [i \in 1 .. Nibbles - 1 |-> Nibble(n, Nibbles - i)]
           last == HexChar(Nibble(n, 0))
<1>1. k \in 1 .. Nibbles /\ IsLength(n, k)
  BY LengthExists DEF IsLength
<1>2. Hexadecimal(n) = g
  BY Zenon DEF Hexadecimal
<1>3. HexDigits(n) = Append(Digits!fold(<<>>, d), last)
  BY Zenon DEF HexDigits, Digits!fold, FoldLeft, MapThenFoldSet, Digits!FoldLeft,
               Digits!MapThenFoldSet, Digits!Max, Max
<1> HIDE DEF k
<1>4. Nibbles \in Nat \ {0} /\ k \in Nat \ {0} /\ k <= Nibbles
  BY <1>1, NumbersAssumption
<1>5. /\ \A i \in 0 .. Nibbles - 1 : Nibble(n, i) \in 0 .. 15 /\ HexChar(Nibble(n, i)) \in Nat
      /\ \A i \in k .. Nibbles - 1 : Nibble(n, i) = 0
      /\ k > 1 => Nibble(n, k - 1) # 0
  <2>1. \A e \in 0 .. 15 : HexChar(e) \in Nat
    BY DEF HexChar
  <2> QED
    BY <1>1, <2>1, NibbleFacts
<1>6. /\ \A j \in 1 .. k : g[j] = HexChar(Nibble(n, k - j))
      /\ g \in Seq(Nat) /\ Len(g) = k
  <2>1. \A j \in 1 .. k : HexChar(Nibble(n, k - j)) \in Nat
    <3> TAKE j \in 1 .. k
    <3>1. k - j \in 0 .. Nibbles - 1
      BY <1>4
    <3> QED
      BY <1>5, <3>1
  <2> QED
    BY <1>4, <2>1
<1>7. DOMAIN d = 1 .. Nibbles - 1 /\ \A i \in 1 .. Nibbles - 1 : d[i] = Nibble(n, Nibbles - i)
  OBVIOUS
<1>8. Nibbles - 1 \in Nat
  BY <1>4
<1> HIDE DEF g, d
<1>9. PICK f : Digits!IsWalk(f, <<>>, d, Nibbles - 1) /\ Digits!fold(<<>>, d) = f[Nibbles - 1]
  BY <1>7, <1>8, Digits!FoldWalk
<1>10. /\ f[0] = <<>> /\ \A i \in 1 .. Nibbles - 1 : f[i] = PrintDigit(f[i - 1], d[i])
  BY <1>9 DEF Digits!IsWalk
<1> DEFINE Prefix(m) == [j \in 1 .. m |-> g[j]]
           T == {i \in 0 .. Nibbles - 1 : f[i] = Prefix(k - Nibbles + i)}
<1>11. ASSUME NEW m \in Int, m <= 0 PROVE Prefix(m) = <<>>
  <2>1. 1 .. m = {}
    BY <1>11
  <2> QED
    BY <2>1
<1>12. ASSUME NEW m \in Nat, m + 1 <= k PROVE Append(Prefix(m), g[m + 1]) = Prefix(m + 1)
  <2>1. m + 1 \in 1 .. Len(g)
    BY <1>4, <1>6, <1>12
  <2> QED
    BY <1>6, <2>1, AppendNext, Zenon
<1>13. ASSUME NEW m \in Nat, m # 0 PROVE Prefix(m) # <<>>
  <2>1. DOMAIN Prefix(m) = 1 .. m /\ DOMAIN <<>> = {} /\ 1 \in 1 .. m
    BY <1>13
  <2> HIDE DEF Prefix
  <2> QED
    BY <2>1
<1> HIDE DEF Prefix
<1>14. 0 \in T
  <2>1. k - Nibbles + 0 \in Int /\ k - Nibbles + 0 <= 0 /\ 0 \in 0 .. Nibbles - 1
    BY <1>4
  <2>2. Prefix(k - Nibbles + 0) = <<>>
    BY <1>11, <2>1, Zenon
  <2> QED
    BY <1>10, <2>1, <2>2, Zenon
<1>15. ASSUME NEW i \in 0 .. (Nibbles - 1) - 1, i \in T PROVE i + 1 \in T
  <2> DEFINE m == k - Nibbles + i
             e == Nibble(n, Nibbles - (i + 1))
  <2>1. /\ i + 1 \in 1 .. Nibbles - 1 /\ (i + 1) - 1 = i /\ m \in Int
        /\ k - Nibbles + (i + 1) = m + 1 /\ i + 1 \in 0 .. Nibbles - 1 /\ m + 1 <= k
    BY <1>4
  <2>2. f[i + 1] = PrintDigit(Prefix(m), e)
    BY <1>7, <1>10, <1>15, <2>1
  <2>3. PrintDigit(Prefix(m), e) = Prefix(m + 1)
    <3>1. CASE m < 0
      <4>1. Nibbles - (i + 1) \in k .. Nibbles - 1
        BY <1>4, <3>1
      <4>2. e = 0
        BY <1>5, <4>1
      <4>3. m + 1 <= 0 /\ m <= 0 /\ m + 1 \in Int
        BY <2>1, <3>1
      <4>4. Prefix(m) = <<>> /\ Prefix(m + 1) = <<>>
        BY <1>11, <2>1, <4>3
      <4> HIDE DEF e, m
      <4> QED
        BY <4>2, <4>4 DEF PrintDigit
    <3>2. CASE ~(m < 0)
      <4>1. m \in Nat /\ m + 1 \in 1 .. k /\ k - (m + 1) = Nibbles - (i + 1)
        BY <1>4, <2>1, <3>2
      <4>2. g[m + 1] = HexChar(e)
        BY <1>6, <4>1
      <4>3. e # 0 \/ Prefix(m) # <<>>
        <5>1. CASE m = 0
          <6>1. Nibbles - (i + 1) = k - 1 /\ k > 1
            BY <1>4, <5>1
          <6> QED
            BY <1>5, <6>1
        <5>2. CASE m # 0
          <6> HIDE DEF m
          <6> QED
            BY <1>13, <4>1, <5>2
        <5> QED
          BY <5>1, <5>2
      <4>4. Append(Prefix(m), g[m + 1]) = Prefix(m + 1)
        <5>1. m + 1 <= k
          BY <2>1
        <5> HIDE DEF m
        <5> QED
          BY <1>12, <4>1, <5>1
      <4> HIDE DEF e, m
      <4> QED
        BY <4>2, <4>3, <4>4 DEF PrintDigit
    <3> QED
      BY <3>1, <3>2
  <2> QED
    BY <2>1, <2>2, <2>3
<1> HIDE DEF T
<1>16. f[Nibbles - 1] = Prefix(k - 1)
  <2>1. \A i \in 0 .. Nibbles - 1 : i \in T
    BY <1>8, <1>14, <1>15, Digits!Induction
  <2>2. Nibbles - 1 \in 0 .. Nibbles - 1 /\ k - Nibbles + (Nibbles - 1) = k - 1
    BY <1>4
  <2>3. Nibbles - 1 \in T
    BY <2>1, <2>2
  <2> QED
    BY <2>2, <2>3 DEF T
<1>17. Append(Prefix(k - 1), last) = Prefix(k)
  <2>1. k - 1 \in Nat /\ (k - 1) + 1 = k /\ k <= k /\ k - k = 0 /\ k \in 1 .. k
    BY <1>4
  <2>2. g[k] = last
    BY <1>6, <2>1
  <2> QED
    BY <1>12, <2>1, <2>2
<1>18. Prefix(k) = g
  BY <1>6 DEF Prefix
<1> QED
  BY <1>2, <1>3, <1>6, <1>9, <1>16, <1>17, <1>18
-----------------------------------------------------------------------------
(* Each call of the console, whoever makes it.                              *)
LEMMA ConsoleKeeps == Fits(screen, text) /\ ConsoleNext => Fits(screen', text')
<1> SUFFICES ASSUME Fits(screen, text), ConsoleNext PROVE Fits(screen', text')
  OBVIOUS
<1>1. ASSUME NEW m \in Messages, Printf(m) PROVE Fits(screen', text')
  <2>1. m \in Seq(Nat)
    BY MessagesAssumption
  <2> QED
    BY <1>1, <2>1, PrintKeeps DEF Printf
<1>2. ASSUME NEW n \in Numbers, Printfhex(n) PROVE Fits(screen', text')
  <2> DEFINE m == <<48, 120>> \o Hexadecimal(n)
  <2>1. HexDigits(n) = Hexadecimal(n) /\ Hexadecimal(n) \in Seq(Nat)
    BY HexDigitsRight
  <2>2. m \in Seq(Nat)
    <3>1. <<48, 120>> \in Seq(Nat)
      OBVIOUS
    <3> QED
      BY <2>1, <3>1, ConcatProperties
  <2>3. screen' = printf(screen, m) /\ text' = FoldLeft(Written, text, m)
    BY <1>2, <2>1, Zenon DEF Printfhex, printfhex
  <2> HIDE DEF m
  <2> QED
    BY <2>2, <2>3, PrintKeeps, Zenon
<1>3. CASE Newline
  BY <1>3, NewlineKeeps DEF Newline
<1>4. CASE Delete
  BY <1>4, DelsymKeeps DEF Delete
<1>5. CASE Clear
  <2> DEFINE blanks == [i \in Cells |-> Blank]
             s == cls(screen)
             z == vga_set_cursor_pos(s, 0, 0)
  <2>1. screen \in Screens
    BY DEF Fits
  <2>2. Blank \in Cell
    BY DEF Blank, Shown, Cell, Space
  <2>3. blanks \in [Cells -> Cell] /\ s = [screen EXCEPT !.cells = blanks]
        /\ \A i \in Cells : blanks[i] = Blank
    BY <2>2 DEF cls
  <2> HIDE DEF s, blanks
  <2>4. s \in Screens /\ s.cells = blanks /\ s.stray = screen.stray
    BY <2>1, <2>3 DEF Screens
  <2>5. 0 \in 0 .. Lines - 1
    OBVIOUS
  <2>6. z \in Screens /\ z.x = 0 /\ z.y = 0 /\ z.cells = blanks /\ z.stray = screen.stray
    BY <2>4, <2>5, Moved
  <2>7. screen' = z /\ text' = IF text.polite THEN EmptyText ELSE text
    BY <1>5 DEF Clear, s
  <2> HIDE DEF z
  <2>8. CASE text.polite
    <3>1. ~z.stray
      BY <2>6, <2>8 DEF Fits
    <3>2. \A i \in Cells : z.cells[i] = Blank
      BY <2>3, <2>6
    <3>3. Fits(z, EmptyText)
      BY <2>6, <3>1, <3>2, EmptyFits
    <3> QED
      BY <2>7, <2>8, <3>3
  <2>9. CASE ~text.polite
    BY <2>6, <2>7, <2>9 DEF Fits
  <2> QED
    BY <2>8, <2>9
<1> QED
  BY <1>1, <1>2, <1>3, <1>4, <1>5 DEF ConsoleNext
-----------------------------------------------------------------------------
(* How many codes were read since the start, at most: all that came but the *)
(* one at the port that was not read yet.                                   *)
Read == IF full THEN latch.n - 1 ELSE latch.n

InputType ==
  /\ coming \in {0, MaxCodes} /\ latch \in [code : Codes, n : 0 .. MaxCodes]
  /\ full \in BOOLEAN /\ (full => latch.n > 0)
  /\ pc \in {"idle", "status", "data"} /\ status \in BOOLEAN /\ polled \in 0 .. latch.n
  /\ data \in [-MaxCodes .. MaxCodes -> Nat] /\ ptr \in -Read .. Read
  /\ line \in Nat
  /\ coming = 0 => pc = "idle"

(* What was read of the status is still true of the code, but for a code    *)
(* that came since.                                                         *)
StatusInv ==
  pc = "data" =>
    /\ status => full \/ latch.code < 0
    /\ ~status /\ full => latch.n > polled

ConsoleInv == Fits(screen, text)
IInv == InputType /\ ConsoleInv /\ StatusInv /\ EchoMatchesBuffer

-----------------------------------------------------------------------------
LEMMA InitIInv == Init => IInv
<1> SUFFICES ASSUME Init PROVE IInv
  OBVIOUS
<1>1. InputType
  <2>1. /\ coming \in {0, MaxCodes} /\ latch \in [code : Codes, n : {0}] /\ full = FALSE
        /\ pc = "idle" /\ status = FALSE /\ polled = 0 /\ ptr = 0 /\ line = 0
        /\ data = [i \in -MaxCodes .. MaxCodes |-> 0]
    BY DEF Init
  <2>2. latch.n = 0 /\ latch \in [code : Codes, n : 0 .. MaxCodes] /\ Read = 0
    BY <2>1 DEF Read
  <2>3. data \in [-MaxCodes .. MaxCodes -> Nat]
    BY <2>1
  <2>4. ptr \in -Read .. Read /\ polled \in 0 .. latch.n
    BY <2>1, <2>2
  <2> QED
    BY <2>1, <2>2, <2>3, <2>4 DEF InputType
<1>2. ConsoleInv
  <2> DEFINE blanks == [i \in Cells |-> Blank]
             s == [x |-> 0, y |-> 0, cells |-> blanks, stray |-> FALSE]
  <2>1. Blank \in Cell
    BY DEF Blank, Shown, Cell, Space
  <2>2. blanks \in [Cells -> Cell] /\ \A i \in Cells : blanks[i] = Blank
    BY <2>1
  <2>3. screen = printf(s, Prompt) /\ text = FoldLeft(Written, EmptyText, Prompt)
    BY Zenon DEF Init
  <2> HIDE DEF blanks
  <2>4. s \in Screens /\ s.x = 0 /\ s.y = 0 /\ ~s.stray /\ s.cells = blanks
    <3>1. 0 \in 0 .. Lines - 1
      OBVIOUS
    <3> QED
      BY <2>2, <3>1 DEF Screens
  <2> HIDE DEF s
  <2>5. Fits(s, EmptyText)
    BY <2>2, <2>4, EmptyFits
  <2> QED
    BY <2>3, <2>5, PromptAssumption, PrintKeeps DEF ConsoleInv
<1>3. StatusInv /\ EchoMatchesBuffer
  BY DEF Init, StatusInv, EchoMatchesBuffer
<1> QED
  BY <1>1, <1>2, <1>3 DEF IInv

LEMMA OthersKeep == IInv /\ Others => IInv'
<1> SUFFICES ASSUME IInv, Others PROVE IInv'
  OBVIOUS
<1>1. coming = 0 /\ UNCHANGED <<coming, latch, full, inputVars>> /\ ConsoleNext
  BY DEF Others
<1>2. pc = "idle" /\ pc' = pc
  BY <1>1 DEF IInv, InputType, inputVars
<1>3. InputType'
  BY <1>1 DEF IInv, InputType, Read, inputVars
<1>4. ConsoleInv'
  BY <1>1, ConsoleKeeps DEF IInv, ConsoleInv
<1>5. StatusInv' /\ EchoMatchesBuffer'
  BY <1>1, <1>2 DEF StatusInv, EchoMatchesBuffer
<1> QED
  BY <1>3, <1>4, <1>5 DEF IInv

LEMMA StrikeKeeps == ASSUME IInv, NEW code \in Codes, Strike(code) PROVE IInv'
<1>1. /\ ~full /\ latch.n < coming /\ latch' = [code |-> code, n |-> latch.n + 1]
      /\ full' = TRUE /\ UNCHANGED <<consoleVars, coming, inputVars>>
  BY DEF Strike
<1>2. latch.n \in Nat /\ coming \in {0, MaxCodes}
  BY DEF IInv, InputType
<1>3. latch'.n = latch.n + 1 /\ latch' \in [code : Codes, n : 0 .. MaxCodes]
  BY <1>1, <1>2
<1>4. InputType'
  BY <1>1, <1>2, <1>3, SMTT(30) DEF IInv, InputType, Read, inputVars
<1>5. ConsoleInv' /\ EchoMatchesBuffer'
  BY <1>1 DEF IInv, ConsoleInv, EchoMatchesBuffer, consoleVars, inputVars
<1>6. StatusInv'
  BY <1>1, <1>2, <1>3 DEF IInv, InputType, StatusInv, inputVars
<1> QED
  BY <1>4, <1>5, <1>6 DEF IInv

LEMMA InputKeeps == IInv /\ Input => IInv'
<1> SUFFICES ASSUME IInv, Input PROVE IInv'
  OBVIOUS
<1>1. /\ coming > 0 /\ pc' = "status" /\ ptr' = 0
      /\ line' = IF text.polite THEN Len(Last(text.lines)) ELSE 0
      /\ UNCHANGED <<consoleVars, coming, latch, full, status, polled, data, capslock, shift>>
  BY DEF Input
<1>2. text.polite => Last(text.lines) \in Seq(Nat)
  BY <1>1, LastLine DEF IInv, ConsoleInv, Fits
<1>3. Read \in Nat
  BY DEF IInv, InputType, Read
<1>4. InputType'
  BY <1>1, <1>2, <1>3, SMTT(30) DEF IInv, InputType, Read
<1>5. ConsoleInv' /\ StatusInv'
  BY <1>1 DEF IInv, ConsoleInv, StatusInv, consoleVars
<1>6. EchoMatchesBuffer'
  BY <1>1, <1>2 DEF EchoMatchesBuffer, consoleVars
<1> QED
  BY <1>4, <1>5, <1>6 DEF IInv

LEMMA ReadStatusKeeps == IInv /\ ReadStatus => IInv'
<1> SUFFICES ASSUME IInv, ReadStatus PROVE IInv'
  OBVIOUS
<1>1. /\ pc = "status" /\ pc' = "data" /\ status' = full /\ polled' = latch.n
      /\ UNCHANGED <<consoleVars, coming, latch, full, data, ptr, capslock, shift, line>>
  BY DEF ReadStatus
<1>2. latch.n \in Nat
  BY DEF IInv, InputType
<1>3. InputType'
  BY <1>1, <1>2, SMTT(30) DEF IInv, InputType, Read
<1>4. ConsoleInv' /\ EchoMatchesBuffer'
  BY <1>1 DEF IInv, ConsoleInv, EchoMatchesBuffer, consoleVars
<1>5. StatusInv'
  BY <1>1 DEF StatusInv
<1> QED
  BY <1>3, <1>4, <1>5 DEF IInv

LEMMA SkipReleaseKeeps == IInv /\ SkipRelease => IInv'
<1> SUFFICES ASSUME IInv, SkipRelease PROVE IInv'
  OBVIOUS
<1>1. /\ latch.code < 0 /\ full' = FALSE
      /\ UNCHANGED <<consoleVars, coming, latch, inputVars>>
  BY DEF SkipRelease
<1>2. InputType'
  <2>1. latch.n \in Nat /\ Read \in Int /\ Read <= latch.n /\ Read' = latch.n
    BY <1>1, SMTT(30) DEF IInv, InputType, Read
  <2>2. ptr' \in -latch.n .. latch.n
    BY <1>1, <2>1 DEF IInv, InputType, inputVars
  <2> QED
    BY <1>1, <2>1, <2>2 DEF IInv, InputType, inputVars
<1>3. ConsoleInv' /\ EchoMatchesBuffer' /\ StatusInv'
  BY <1>1 DEF IInv, ConsoleInv, EchoMatchesBuffer, StatusInv, consoleVars, inputVars
<1> QED
  BY <1>2, <1>3 DEF IInv

(* What every action that takes a code does: the code counts as read, and   *)
(* one that is handled was not read before.                                 *)
LEMMA KeycodeFacts ==
  ASSUME IInv, NEW codes, Keycode(codes)
  PROVE  /\ pc = "data" /\ coming > 0 /\ latch.code \in codes /\ latch.n \in 0 .. MaxCodes
         /\ UNCHANGED <<coming, latch, status, polled, line>> /\ full' = FALSE
         /\ Read' = latch.n /\ Read \in Int /\ Read <= latch.n
         /\ status => full /\ Read = latch.n - 1
<1>1. /\ pc = "data" /\ latch.code >= 0 /\ latch.code \in codes /\ full' = FALSE
      /\ UNCHANGED <<coming, latch, status, polled, line>>
  BY DEF Keycode
<1>2. /\ latch.n \in 0 .. MaxCodes /\ latch.code \in Int /\ coming \in {0, MaxCodes}
      /\ full \in BOOLEAN /\ coming # 0
  BY <1>1 DEF IInv, InputType
<1>3. status => full
  BY <1>1, <1>2 DEF IInv, StatusInv
<1> QED
  BY <1>1, <1>2, <1>3 DEF Read

(* The input variables after such an action.                                *)
LEMMA KeycodeType ==
  ASSUME IInv, NEW codes, Keycode(codes), pc' \in {"idle", "status"},
         data' \in [-MaxCodes .. MaxCodes -> Nat], ptr' \in -latch.n .. latch.n
  PROVE  InputType' /\ StatusInv'
<1>1. InputType'
  BY KeycodeFacts DEF IInv, InputType
<1>2. StatusInv'
  BY DEF StatusInv
<1> QED
  BY <1>1, <1>2

(* A code that is dropped, and one that turns Shift or Caps Lock over,      *)
(* leave line and screen as they are.                                       *)
LEMMA QuietKeeps ==
  ASSUME IInv, NEW codes, Keycode(codes), pc' \in {"idle", "status"},
         UNCHANGED <<consoleVars, data, ptr>>
  PROVE  IInv'
<1>1. InputType' /\ StatusInv'
  <2>1. data' \in [-MaxCodes .. MaxCodes -> Nat] /\ ptr' \in -Read .. Read
    BY DEF IInv, InputType
  <2>2. ptr' \in -latch.n .. latch.n
    <3>1. Read \in Int /\ Read <= latch.n /\ latch.n \in Nat
      <4>1. Read \in Int /\ Read <= latch.n /\ latch.n \in 0 .. MaxCodes
        BY KeycodeFacts
      <4> QED
        BY <4>1
    <3> QED
      BY <2>1, <3>1
  <2> QED
    BY <2>1, <2>2, KeycodeType
<1>2. ConsoleInv' /\ EchoMatchesBuffer'
  BY KeycodeFacts DEF IInv, ConsoleInv, EchoMatchesBuffer, consoleVars
<1> QED
  BY <1>1, <1>2 DEF IInv

LEMMA DropKeeps == IInv /\ Drop => IInv'
BY QuietKeeps DEF Drop, LoopOn

LEMMA ToggleKeeps == IInv /\ Toggle => IInv'
BY QuietKeeps DEF Toggle

LEMMA EndLineKeeps == IInv /\ EndLine => IInv'
<1> SUFFICES ASSUME IInv, EndLine PROVE IInv'
  OBVIOUS
<1>1. /\ Keycode({Enter}) /\ text' = Written(text, NL) /\ pc' = "idle"
      /\ screen' = putchar(screen, NL)
      /\ UNCHANGED <<data, ptr>>
  BY DEF EndLine
<1>2. coming > 0 /\ coming' = coming
  BY <1>1, KeycodeFacts
<1>3. InputType' /\ StatusInv'
  <2>1. data' \in [-MaxCodes .. MaxCodes -> Nat] /\ ptr' \in -Read .. Read
    BY <1>1 DEF IInv, InputType
  <2>2. ptr' \in -latch.n .. latch.n
    <3>1. Read \in Int /\ Read <= latch.n /\ latch.n \in Nat
      <4>1. Read \in Int /\ Read <= latch.n /\ latch.n \in 0 .. MaxCodes
        BY <1>1, KeycodeFacts
      <4> QED
        BY <4>1
    <3> QED
      BY <2>1, <3>1
  <2> QED
    BY <1>1, <2>1, <2>2, KeycodeType
<1>4. ConsoleInv'
  <2>1. NL \in Nat
    BY DEF NL
  <2> QED
    BY <1>1, <2>1, PutcharKeeps DEF IInv, ConsoleInv
<1>5. EchoMatchesBuffer'
  BY <1>1 DEF EchoMatchesBuffer
<1> QED
  BY <1>3, <1>4, <1>5 DEF IInv

LEMMA TypeKeyKeeps == IInv /\ TypeKey => IInv'
<1> SUFFICES ASSUME IInv, TypeKey PROVE IInv'
  OBVIOUS
<1>1. /\ Keycode(DOMAIN keyboard_map) /\ status /\ text' = Written(text, Typed)
      /\ screen' = putchar(screen, Typed)
      /\ data' = [data EXCEPT ![ptr] = Typed] /\ ptr' = ptr + 1 /\ pc' \in {"idle", "status"}
  BY DEF TypeKey, LoopOn
<1>2. Typed \in Nat /\ Typed # NL
  <2>1. latch.code \in {0, 30, 59}
    BY <1>1, KeycodeFacts DEF keyboard_map
  <2>2. \A k \in {0, 30, 59} : keyboard_map[k] \in {0, 97} /\ Capskeyboard_map[k] \in {0, 65}
    BY DEF keyboard_map, Capskeyboard_map
  <2>3. Typed \in {0, 97, 65}
    BY <2>1, <2>2 DEF Typed
  <2> QED
    BY <2>3 DEF NL
<1>3. /\ coming > 0 /\ coming' = coming /\ latch.n \in 0 .. MaxCodes /\ Read = latch.n - 1
      /\ pc = "data" /\ line' = line
  BY <1>1, KeycodeFacts
<1>4. /\ data \in [-MaxCodes .. MaxCodes -> Nat] /\ ptr \in -Read .. Read /\ line \in Nat
  BY DEF IInv, InputType
<1>5. ptr \in -MaxCodes .. MaxCodes /\ ptr' \in -latch.n .. latch.n
  <2>1. MaxCodes \in Nat /\ latch.n \in Nat /\ latch.n <= MaxCodes
    BY <1>3, CodesAssumption
  <2>2. ptr \in Int /\ 1 - latch.n <= ptr /\ ptr <= latch.n - 1
    BY <1>3, <1>4, <2>1
  <2>3. ptr' = ptr + 1
    BY <1>1
  <2> QED
    BY <2>1, <2>2, <2>3
<1>6. InputType' /\ StatusInv'
  <2>1. data' \in [-MaxCodes .. MaxCodes -> Nat]
    BY <1>1, <1>2, <1>4
  <2> QED
    BY <1>1, <1>5, <2>1, KeycodeType
<1>7. /\ ConsoleInv'
      /\ text'.polite => text.polite /\ Last(text'.lines) = Append(Last(text.lines), Typed)
  <2>1. Fits(screen, text) /\ IsText(text)
    BY DEF IInv, ConsoleInv, Fits
  <2>2. ConsoleInv'
    BY <1>1, <1>2, <2>1, PutcharKeeps DEF ConsoleInv
  <2> QED
    BY <1>1, <1>2, <2>1, <2>2, WrittenFacts
<1>8. EchoMatchesBuffer'
  <2> SUFFICES ASSUME text'.polite
               PROVE  /\ Len(Last(text'.lines)) = line + ptr'
                      /\ \A i \in 0 .. ptr' - 1 : data'[i] = Last(text'.lines)[line + i + 1]
    BY <1>3 DEF EchoMatchesBuffer
  <2> DEFINE shown == Last(text.lines)
  <2>1. shown \in Seq(Nat)
    BY <1>3, <1>7, LastLine DEF IInv, ConsoleInv, Fits
  <2>2. Len(shown) = line + ptr /\ \A i \in 0 .. ptr - 1 : data[i] = shown[line + i + 1]
    BY <1>3, <1>7 DEF IInv, EchoMatchesBuffer
  <2>3. Last(text'.lines) = Append(shown, Typed)
    BY <1>7
  <2> HIDE DEF shown
  <2>4. /\ Len(Append(shown, Typed)) = line + ptr + 1
        /\ \A i \in 1 .. line + ptr : Append(shown, Typed)[i] = shown[i]
        /\ Append(shown, Typed)[line + ptr + 1] = Typed
    BY <1>2, <2>1, <2>2, AppendProperties
  <2>5. ASSUME NEW i \in 0 .. ptr' - 1
        PROVE  data'[i] = Append(shown, Typed)[line + i + 1]
    <3>1. CASE i = ptr
      BY <1>1, <1>4, <1>5, <2>4, <3>1
    <3>2. CASE i # ptr
      <4>1. i \in 0 .. ptr - 1 /\ line + i + 1 \in 1 .. line + ptr
        BY <1>1, <1>3, <1>4, <3>2
      <4>2. data'[i] = data[i]
        BY <1>1, <1>3, <1>4, <1>5, <3>2, <4>1
      <4> QED
        BY <2>2, <2>4, <4>1, <4>2
    <3> QED
      BY <3>1, <3>2
  <2>6. Len(Append(shown, Typed)) = line + ptr'
    BY <1>1, <1>4, <2>4
  <2> QED
    BY <2>3, <2>5, <2>6
<1> QED
  BY <1>6, <1>7, <1>8 DEF IInv

LEMMA DeleteLastKeeps == IInv /\ DeleteLast => IInv'
<1> SUFFICES ASSUME IInv, DeleteLast PROVE IInv'
  OBVIOUS
<1>1. /\ Keycode({Backspace}) /\ status /\ text' = Erased(text)
      /\ screen' = delsym(screen)
      /\ data' = [data EXCEPT ![ptr - 1] = 0] /\ ptr' = ptr - 1 /\ pc' \in {"idle", "status"}
  BY DEF DeleteLast
<1>2. /\ coming > 0 /\ coming' = coming /\ latch.n \in 0 .. MaxCodes /\ Read = latch.n - 1
      /\ pc = "data" /\ line' = line
  BY <1>1, KeycodeFacts
<1>3. /\ data \in [-MaxCodes .. MaxCodes -> Nat] /\ ptr \in -Read .. Read /\ line \in Nat
  BY DEF IInv, InputType
<1>4. ptr - 1 \in -MaxCodes .. MaxCodes /\ ptr' \in -latch.n .. latch.n
  <2>1. latch.n \in Nat /\ latch.n <= MaxCodes /\ ptr \in Int /\ -(latch.n - 1) <= ptr /\ ptr < latch.n
    BY <1>2, <1>3
  <2> QED
    BY <1>1, <2>1
<1>5. InputType' /\ StatusInv'
  <2>1. data' \in [-MaxCodes .. MaxCodes -> Nat]
    BY <1>1, <1>3
  <2> QED
    BY <1>1, <1>4, <2>1, KeycodeType
<1>6. /\ ConsoleInv'
      /\ text'.polite => /\ text.polite /\ Last(text.lines) # <<>>
                         /\ Last(text'.lines) = Front(Last(text.lines))
  <2>1. Fits(screen, text) /\ IsText(text)
    BY DEF IInv, ConsoleInv, Fits
  <2>2. ConsoleInv'
    BY <1>1, <2>1, DelsymKeeps DEF ConsoleInv
  <2> QED
    BY <1>1, <2>1, <2>2, ErasedFacts
<1>7. EchoMatchesBuffer'
  <2> SUFFICES ASSUME text'.polite
               PROVE  /\ Len(Last(text'.lines)) = line + ptr'
                      /\ \A i \in 0 .. ptr' - 1 : data'[i] = Last(text'.lines)[line + i + 1]
    BY <1>2 DEF EchoMatchesBuffer
  <2> DEFINE shown == Last(text.lines)
  <2>1. shown \in Seq(Nat) /\ shown # <<>>
    BY <1>2, <1>6, LastLine DEF IInv, ConsoleInv, Fits
  <2>2. Len(shown) = line + ptr /\ \A i \in 0 .. ptr - 1 : data[i] = shown[line + i + 1]
    BY <1>2, <1>6 DEF IInv, EchoMatchesBuffer
  <2>3. Last(text'.lines) = Front(shown)
    BY <1>6
  <2> HIDE DEF shown
  <2>4. /\ Len(Front(shown)) = line + ptr - 1
        /\ \A i \in 1 .. line + ptr - 1 : Front(shown)[i] = shown[i]
    <3>1. Len(shown) \in Nat \ {0}
      BY <2>1, EmptySeq
    <3>2. \A i \in 1 .. Len(shown) - 1 : shown[i] \in Nat
      BY <2>1, <3>1
    <3>3. /\ Len(Front(shown)) = Len(shown) - 1
          /\ \A i \in 1 .. Len(shown) - 1 : Front(shown)[i] = shown[i]
      <4> DEFINE n == Len(shown) - 1
      <4>1. n \in Int /\ n - 1 + 1 = n /\ \A i \in 1 .. n : 1 + i - 1 = i
        BY <3>1
      <4>2. (IF 1 <= n THEN n - 1 + 1 ELSE 0) = n
        <5>1. n \in Nat
          BY <3>1
        <5> HIDE DEF n
        <5> QED
          BY <5>1
      <4> HIDE DEF n
      <4>3. /\ Len(SubSeq(shown, 1, n)) = IF 1 <= n THEN n - 1 + 1 ELSE 0
            /\ \A i \in 1 .. n - 1 + 1 : SubSeq(shown, 1, n)[i] = shown[1 + i - 1]
        BY <3>2, <4>1, SubSeqProperties DEF n
      <4>4. /\ Len(SubSeq(shown, 1, n)) = n
            /\ \A i \in 1 .. n : SubSeq(shown, 1, n)[i] = shown[i]
        BY <4>1, <4>2, <4>3
      <4> QED
        BY <4>4 DEF Front, n
    <3>4. Len(shown) - 1 = line + ptr - 1
      <4>1. Len(shown) = line + ptr /\ line \in Int /\ ptr \in Int
        BY <1>2, <1>3, <2>2
      <4> QED
        BY <4>1
    <3> QED
      BY <3>3, <3>4
  <2>5. ASSUME NEW i \in 0 .. ptr' - 1
        PROVE  data'[i] = Front(shown)[line + i + 1]
    <3>1. i \in 0 .. ptr - 1 /\ i # ptr - 1 /\ line + i + 1 \in 1 .. line + ptr - 1
      BY <1>1, <1>2, <1>3
    <3>2. data'[i] = data[i]
      BY <1>1, <1>2, <1>3, <1>4, <3>1
    <3> QED
      BY <2>2, <2>4, <3>1, <3>2
  <2> QED
    BY <1>1, <1>3, <2>3, <2>4, <2>5
<1> QED
  BY <1>5, <1>6, <1>7 DEF IInv

LEMMA NextIInv == IInv /\ [Next]_vars => IInv'
<1> SUFFICES ASSUME IInv, [Next]_vars PROVE IInv'
  OBVIOUS
<1>1. CASE UNCHANGED vars
  BY <1>1 DEF vars, consoleVars, inputVars, IInv, InputType, Read, ConsoleInv, StatusInv,
              EchoMatchesBuffer
<1>2. ASSUME NEW code \in Codes, Strike(code) PROVE IInv'
  BY <1>2, StrikeKeeps
<1> QED
  BY <1>1, <1>2, OthersKeep, InputKeeps, ReadStatusKeeps, SkipReleaseKeeps, DropKeeps,
     ToggleKeeps, EndLineKeeps, DeleteLastKeeps, TypeKeyKeeps DEF Next

(* What of the types the proofs above do not need.                          *)
FlagsInv ==
  /\ line \in 0 .. Columns
  /\ capslock \in {false, true, CapsLockAtBoot} /\ shift \in {false, true, ShiftAtBoot}

LEMMA NextFlags == IInv /\ FlagsInv /\ [Next]_vars => FlagsInv'
<1> SUFFICES ASSUME IInv, FlagsInv, [Next]_vars PROVE FlagsInv'
  OBVIOUS
<1>1. CASE UNCHANGED <<capslock, shift, line>>
  BY <1>1 DEF FlagsInv
<1>2. CASE Input
  <2>1. /\ line' = IF text.polite THEN Len(Last(text.lines)) ELSE 0
        /\ UNCHANGED <<capslock, shift>>
    BY <1>2 DEF Input
  <2>2. text.polite => Len(Last(text.lines)) \in 0 .. Columns
    BY LastLine DEF IInv, ConsoleInv, Fits
  <2>3. 0 \in 0 .. Columns
    OBVIOUS
  <2> QED
    BY <2>1, <2>2, <2>3 DEF FlagsInv
<1>3. CASE Toggle
  <2>1. line' = line
    BY <1>3 DEF Toggle, Keycode
  <2>2. /\ capslock' \in {capslock, Turned(capslock)} /\ shift' \in {shift, Turned(shift)}
    BY <1>3 DEF Toggle
  <2>3. \A b : Turned(b) \in {false, true, b}
    BY DEF Turned
  <2> QED
    BY <2>1, <2>2, <2>3 DEF FlagsInv
<1>4. ASSUME NEW code \in Codes, Strike(code) PROVE UNCHANGED <<capslock, shift, line>>
  BY <1>4 DEF Strike, inputVars
<1>5. Others \/ ReadStatus \/ SkipRelease \/ Drop \/ EndLine \/ DeleteLast \/ TypeKey
        \/ UNCHANGED vars => UNCHANGED <<capslock, shift, line>>
  BY DEF Others, ReadStatus, SkipRelease, Drop, EndLine, DeleteLast, TypeKey, Keycode, vars, inputVars
<1> QED
  BY <1>1, <1>2, <1>3, <1>4, <1>5 DEF Next
-----------------------------------------------------------------------------
(* For any screen, messages, numbers, prompt and scan codes, and however    *)
(* the console is used besides: every variable keeps its type, the cursor   *)
(* stays in the lines of the screen, and input() stays in its buffer's      *)
(* surroundings as far as codes came.                                       *)
THEOREM KeyboardTypes == Spec => []TypeOK
<1>1. Init => IInv /\ FlagsInv
  BY InitIInv DEF Init, FlagsInv
<1>2. IInv /\ FlagsInv /\ [Next]_vars => IInv' /\ FlagsInv'
  BY NextIInv, NextFlags
<1>3. IInv /\ FlagsInv => TypeOK
  <2> SUFFICES ASSUME IInv, FlagsInv PROVE TypeOK
    OBVIOUS
  <2>1. ScreenOK
    <3>1. screen \in Screens /\ text \in Texts
      BY DEF IInv, ConsoleInv, Fits, IsText
    <3> QED
      BY <3>1 DEF ScreenOK, Screens, Texts, Cell
  <2>2. /\ latch \in [code : Codes, n : 0 .. MaxCodes] /\ full \in BOOLEAN
        /\ pc \in {"idle", "status", "data"} /\ status \in BOOLEAN
        /\ data \in [-MaxCodes .. MaxCodes -> Nat] /\ coming \in {0, MaxCodes}
    BY DEF IInv, InputType
  <2>3. polled \in 0 .. MaxCodes /\ ptr \in -MaxCodes .. MaxCodes
    <3>1. latch.n \in 0 .. MaxCodes
      BY <2>2
    <3>2. polled \in 0 .. latch.n /\ ptr \in -Read .. Read
      BY DEF IInv, InputType
    <3>3. Read \in Int /\ Read <= latch.n
      BY <2>2, <3>1 DEF Read
    <3> QED
      BY <3>1, <3>2, <3>3
  <2> QED
    BY <2>1, <2>2, <2>3 DEF FlagsInv, TypeOK
<1> QED
  BY <1>1, <1>2, <1>3, PTL DEF Spec

(* For any screen and any calls, by input() or by others, and messages of   *)
(* any length: while the callers are polite, the screen shows the last      *)
(* lines of the text they wrote, numbers in their shortest hexadecimal form *)
(* included, and nothing else.                                              *)
THEOREM ScreenIsText == Spec => []ScreenShowsText
<1>1. Init => IInv
  BY InitIInv
<1>2. IInv /\ [Next]_vars => IInv'
  BY NextIInv
<1>3. IInv => ScreenShowsText
  BY Zenon DEF IInv, ConsoleInv, Fits, Shows, Glyph, ScreenShowsText
<1> QED
  BY <1>1, <1>2, <1>3, PTL DEF Spec

(* For any screen and any calls: no store goes outside the memory of the    *)
(* screen unless a caller passed the end of a line or went back over its    *)
(* beginning before.                                                        *)
THEOREM PoliteStays == Spec => []PoliteStaysOnScreen
<1>1. Init => IInv
  BY InitIInv
<1>2. IInv /\ [Next]_vars => IInv'
  BY NextIInv
<1>3. IInv => PoliteStaysOnScreen
  BY DEF IInv, ConsoleInv, Fits, PoliteStaysOnScreen
<1> QED
  BY <1>1, <1>2, <1>3, PTL DEF Spec
(* For any screen, any prompt and any scan codes: while a line is typed,    *)
(* what is shown behind the prompt is what the buffer holds.                *)
THEOREM EchoIsBuffer == Spec => []EchoMatchesBuffer
<1>1. Init => IInv
  BY InitIInv
<1>2. IInv /\ [Next]_vars => IInv'
  BY NextIInv
<1>3. IInv => EchoMatchesBuffer
  BY DEF IInv
<1> QED
  BY <1>1, <1>2, <1>3, PTL DEF Spec

(* For any scan codes in any order and at any time: no code is handled      *)
(* twice, and a code is dropped unread only if it came behind the status.   *)
THEOREM CodesOnce == Spec => EachCodeOnce
<1>1. Init => IInv
  BY InitIInv
<1>2. IInv /\ [Next]_vars => IInv'
  BY NextIInv
<1>3. IInv /\ [Next]_vars => [/\ Handles => full
                              /\ Drop /\ full => latch.n > polled]_vars
  <2> SUFFICES ASSUME IInv
               PROVE  (Handles => full) /\ (Drop /\ full => latch.n > polled)
    OBVIOUS
  <2>1. ASSUME Handles PROVE full
    BY <2>1, KeycodeFacts DEF Handles, Toggle, EndLine, DeleteLast, TypeKey
  <2>2. ASSUME Drop, full PROVE latch.n > polled
    BY <2>2 DEF IInv, StatusInv, Drop, Keycode
  <2> QED
    BY <2>1, <2>2
<1> QED
  BY <1>1, <1>2, <1>3, PTL DEF Spec, EachCodeOnce
=============================================================================
