------------------------------- MODULE Console -------------------------------
(***************************************************************************)
(* The VGA text console of vga.c: the memory of the screen, the cursor, and *)
(* what printf, printfhex, newline, delsym and cls do to them.  Next to it  *)
(* the model keeps the text that the callers wrote, line by line; what is   *)
(* on the screen is compared with it.                                       *)
(*                                                                         *)
(* cursor_x counts bytes in the code, and every call moves it by whole      *)
(* cells of two bytes; it counts cells here.  A cell is a character and     *)
(* whether its attribute is VGA_DEFAULT_COLOR or the 0, black on black,     *)
(* that delete stores in its place.                                         *)
(***************************************************************************)
EXTENDS Integers, Sequences, SequencesExt

CONSTANTS
  Columns,    \* VGA_COLUMNS_IN_LINE
  Lines,      \* VGA_LINES
  Nibbles,    \* hexadecimal digits of an uint32_t: 8
  Messages,   \* what printf is called with
  Numbers     \* what printfhex is called with

ASSUME ScreenAssumption == Columns \in Nat \ {0} /\ Lines \in Nat \ {0}

(* What a digit counts for.                                                 *)
Power[i \in 0 .. Nibbles] == IF i = 0 THEN 1 ELSE 16 * Power[i - 1]

ASSUME MessagesAssumption == Messages \subseteq Seq(Nat)
ASSUME NumbersAssumption == Nibbles \in Nat \ {0} /\ Numbers \subseteq 0 .. Power[Nibbles] - 1

VARIABLES
  screen,   \* vidmem, cursor_x and cursor_y; stray: a store went outside vidmem
  text      \* the lines written, and whether the callers were polite: no line
            \* longer than Columns, no delsym at the beginning of a line

consoleVars == <<screen, text>>

NL == 10
Space == 32
Cells == 0 .. Columns * Lines - 1
Shown(c) == [ch |-> c, lit |-> TRUE]
Blank == Shown(Space)
-----------------------------------------------------------------------------
(* The screen s. *)
Cursor(s) == s.y * Columns + s.x
vga_set_cursor_pos(s, x, y) == [s EXCEPT !.x = x, !.y = y]

(* The bug of a scroll_up without clear_line.                               *)
ScrollUpUncleared(s) ==
  [s EXCEPT !.cells = [i \in Cells |-> IF i + Columns \in Cells THEN s.cells[i + Columns]
                                       ELSE s.cells[i]]]

scroll_up(s) ==
  [s EXCEPT !.cells = [i \in Cells |-> IF i + Columns \in Cells THEN s.cells[i + Columns]
                                       ELSE Blank]]

(* The bug of one line too many in the comparison of newline.               *)
NewlineOneMore(s) ==
  IF s.y > Lines - 1 THEN vga_set_cursor_pos(scroll_up(s), 0, s.y)
  ELSE vga_set_cursor_pos(s, 0, s.y + 1)

newline(s) ==
  IF s.y >= Lines - 1 THEN vga_set_cursor_pos(scroll_up(s), 0, s.y)
  ELSE vga_set_cursor_pos(s, 0, s.y + 1)

(* A line that is too long goes on in the cells of the next one.            *)
putchar(s, c) ==
  LET stored == IF Cursor(s) \in Cells THEN [s EXCEPT !.cells[Cursor(s)] = Shown(c)]
                ELSE [s EXCEPT !.stray = TRUE]
  IN  IF c = NL THEN newline(s) ELSE vga_set_cursor_pos(stored, s.x + 1, s.y)

printf(s, message) == FoldLeft(putchar, s, message)

HexChar(d) == IF d >= 10 THEN d - 10 + 97 ELSE d + 48
Nibble(n, i) == (n \div Power[i]) % 16

(* The loop of printfhex, from the first digit to the last but one, leaves  *)
(* out zeros until a digit was printed; the last digit is always printed.   *)
PrintDigit(digits, d) == IF d = 0 /\ digits = <<>> THEN digits ELSE Append(digits, HexChar(d))
HexDigits(n) ==
  Append(FoldLeft(PrintDigit, <<>>, [i \in 1 .. Nibbles - 1 |-> Nibble(n, Nibbles - i)]),
         HexChar(Nibble(n, 0)))

printfhex(s, n) == printf(s, <<48, 120>> \o HexDigits(n))

(* delsym and delete: the attribute of the cell before the cursor gets 0.   *)
delsym(s) ==
  LET i == Cursor(s) - 1
      stored == IF i \in Cells THEN [s EXCEPT !.cells[i].lit = FALSE]
                ELSE [s EXCEPT !.stray = TRUE]
  IN  vga_set_cursor_pos(stored, s.x - 1, s.y)

cls(s) == [s EXCEPT !.cells = [i \in Cells |-> Blank]]
-----------------------------------------------------------------------------
(* The text t: what callers see as written.  Only the lines the screen has  *)
(* room for are kept, and none once a caller was not polite.                *)
EmptyText == [lines |-> <<<<>>>>, polite |-> TRUE]
Impolite == [lines |-> <<>>, polite |-> FALSE]

Written(t, c) ==
  LET n == Len(t.lines)
      more == Append(t.lines, <<>>)
  IN  IF ~t.polite THEN t
      ELSE IF c = NL THEN [t EXCEPT !.lines = IF n = Lines THEN Tail(more) ELSE more]
      ELSE IF Len(t.lines[n]) = Columns THEN Impolite
      ELSE [t EXCEPT !.lines[n] = Append(@, c)]

Erased(t) ==
  LET n == Len(t.lines)
  IN  IF ~t.polite \/ t.lines[n] = <<>> THEN Impolite ELSE [t EXCEPT !.lines[n] = Front(@)]

(* The digits of n, none of them a leading zero.                            *)
Hexadecimal(n) ==
  LET k == CHOOSE k \in 1 .. Nibbles : n < Power[k] /\ (k = 1 \/ n >= Power[k - 1])
  IN  [i \in 1 .. k |-> HexChar(Nibble(n, k - i))]
-----------------------------------------------------------------------------
(* The screen after the first two calls of _kmain.                          *)
ConsoleInit ==
  /\ screen = [x |-> 0, y |-> 0, cells |-> [i \in Cells |-> Blank], stray |-> FALSE]
  /\ text = EmptyText

Printf(message) ==
  /\ screen' = printf(screen, message)
  /\ text' = FoldLeft(Written, text, message)

Printfhex(n) ==
  /\ screen' = printfhex(screen, n)
  /\ text' = FoldLeft(Written, text, <<48, 120>> \o Hexadecimal(n))

Newline ==
  /\ screen' = newline(screen)
  /\ text' = Written(text, NL)

Delete ==
  /\ screen' = delsym(screen)
  /\ text' = Erased(text)

(* cls and vga_set_cursor_pos(0, 0), as _kmain calls them.                  *)
Clear ==
  /\ screen' = vga_set_cursor_pos(cls(screen), 0, 0)
  /\ text' = IF text.polite THEN EmptyText ELSE text

ConsoleNext ==
  \/ \E m \in Messages : Printf(m)
  \/ \E n \in Numbers : Printfhex(n)
  \/ Newline
  \/ Delete
  \/ Clear

ConsoleSpec == ConsoleInit /\ [][ConsoleNext]_consoleVars
-----------------------------------------------------------------------------
ScreenOK ==
  /\ screen.x \in Int /\ screen.y \in 0 .. Lines - 1
  /\ screen.cells \in [Cells -> [ch : Nat, lit : BOOLEAN]]
  /\ screen.stray \in BOOLEAN
  /\ text.lines \in Seq(Seq(Nat)) /\ text.polite \in BOOLEAN

(* What is seen of a cell: nothing if it is black on black or NUL.          *)
Seen(cell) == IF cell.lit /\ cell.ch # 0 THEN cell.ch ELSE Space

(* While the callers are polite, the screen shows the last lines of what    *)
(* they wrote and nothing else: putchar, newline with its scrolling, and    *)
(* delsym lose no character, show none that was deleted, and leave the      *)
(* cursor behind the last one.                                              *)
ScreenShowsText ==
  text.polite =>
    /\ screen.y = Len(text.lines) - 1
    /\ screen.x = Len(Last(text.lines))
    /\ \A r \in 0 .. Lines - 1, k \in 0 .. Columns - 1 :
         Seen(screen.cells[r * Columns + k]) =
           IF r < Len(text.lines) /\ k < Len(text.lines[r + 1])
           THEN Seen(Shown(text.lines[r + 1][k + 1])) ELSE Space

(* No call stores outside the memory of the screen, unless one has passed   *)
(* the end of a line or gone back over its beginning before: nothing in     *)
(* vga.c tests the cell it writes.                                          *)
PoliteStaysOnScreen == screen.stray => ~text.polite
=============================================================================
