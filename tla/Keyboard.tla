------------------------------ MODULE Keyboard -------------------------------
(***************************************************************************)
(* keyboard.c: input() polls the keyboard controller and edits a line, in   *)
(* the buffer of its caller and on the console.  The controller holds one   *)
(* scan code, and the keyboard keeps further ones back until it was read;   *)
(* any sequence of codes may come, for a key may be held when it is asked   *)
(* first, and a key that is held repeats its make code.                     *)
(*                                                                         *)
(* A scan code is a signed char: a key that goes down sends its number, a   *)
(* key that goes up a negative one, and 0 reports an error.                 *)
(***************************************************************************)
EXTENDS Console

CONSTANTS
  Codes,       \* the scan codes that come: make codes, release codes, 0
  MaxCodes,    \* how many of them: a bound of the model
  Prompt,      \* what the caller printed before
  ShiftAtBoot,     \* what gdt_install leaves in shift and in capslock, if the
  CapsLockAtBoot   \* linker puts them behind gdt[3], as the documented build does

ASSUME CodesAssumption == Codes \subseteq Int /\ MaxCodes \in Nat
ASSUME PromptAssumption == Prompt \in Seq(Nat)

VARIABLES
  coming,    \* how many codes come: MaxCodes, or 0 to explore the console alone
  latch,     \* the scan code at port 0x60, and how many came before it
  full,      \* bit 0 of port 0x64: the code was not read yet
  pc,        \* where input() is: "idle", "status" or "data"
  status,    \* its local variable, as a truth value of bit 0
  polled,    \* how many codes had come when status was read
  data,      \* the buffer, and the memory around it
  ptr,       \* dataPtr - data
  capslock,  \* a bool is an int: false, true, or what was left there
  shift,
  line       \* the length of the console's line when input() was called

inputVars == <<pc, status, polled, data, ptr, capslock, shift, line>>
vars == <<consoleVars, coming, latch, full, inputVars>>

false == 0
true == 1

LeftShift == 42
RightShift == 54
CapsLock == 58
Enter == 28
Backspace == 14

(* Of the two tables: an error, the key A and the key F1.                   *)
keyboard_map == [c \in {0, 30, 59} |-> IF c = 30 THEN 97 ELSE 0]
Capskeyboard_map == [c \in {0, 30, 59} |-> IF c = 30 THEN 65 ELSE 0]

Init ==
  /\ screen = printf([x |-> 0, y |-> 0, cells |-> [i \in Cells |-> Blank], stray |-> FALSE],
                     Prompt)
  /\ text = FoldLeft(Written, EmptyText, Prompt)
  /\ coming \in {0, MaxCodes}
  /\ latch \in [code : Codes, n : {0}]
  /\ full = FALSE
  /\ pc = "idle" /\ status = FALSE /\ polled = 0
  /\ data = [i \in -MaxCodes .. MaxCodes |-> 0]
  /\ ptr = 0 /\ line = 0
  /\ \/ shift = false /\ capslock = false
     \/ shift = ShiftAtBoot /\ capslock = CapsLockAtBoot
  /\ coming = 0 => latch.code = 0 /\ shift = false

(* A key goes down or up, and the controller has room for its code.         *)
Strike(code) ==
  /\ ~full /\ latch.n < coming
  /\ latch' = [code |-> code, n |-> latch.n + 1]
  /\ full' = TRUE
  /\ UNCHANGED <<consoleVars, coming, inputVars>>

Input ==
  /\ pc = "idle" /\ coming > 0
  /\ pc' = "status" /\ ptr' = 0
  /\ line' = IF text.polite THEN Len(Last(text.lines)) ELSE 0
  /\ UNCHANGED <<consoleVars, coming, latch, full, status, polled, data, capslock, shift>>

(* The bug of a status that is not read before the code.                    *)
ReadStatusNot ==
  /\ pc = "status"
  /\ status' = TRUE /\ polled' = latch.n
  /\ pc' = "data"
  /\ UNCHANGED <<consoleVars, coming, latch, full, data, ptr, capslock, shift, line>>

(* The beginning of the loop.  The EOI in front of it ends no interrupt:    *)
(* input() is not called inside one.                                        *)
ReadStatus ==
  /\ pc = "status"
  /\ status' = full /\ polled' = latch.n
  /\ pc' = "data"
  /\ UNCHANGED <<consoleVars, coming, latch, full, data, ptr, capslock, shift, line>>

(* get_input_keycode reads until the code is not a release; reading leaves  *)
(* the code at the port.                                                    *)
SkipRelease ==
  /\ pc = "data" /\ latch.code < 0
  /\ full' = FALSE
  /\ UNCHANGED <<consoleVars, coming, latch, inputVars>>

Keycode(codes) ==
  /\ pc = "data" /\ latch.code >= 0 /\ latch.code \in codes
  /\ full' = FALSE
  /\ UNCHANGED <<coming, latch, status, polled, line>>

LoopOn == pc' = IF latch.code > 0 THEN "status" ELSE "idle"

(* Without bit 0 of the status the code is dropped.                         *)
Drop ==
  /\ Keycode(Codes) /\ ~status
  /\ LoopOn
  /\ UNCHANGED <<consoleVars, data, ptr, capslock, shift>>

(* A make code of Shift or Caps Lock turns it over, unless it is no bool.   *)
Turned(b) == IF b = true THEN false ELSE IF b = false THEN true ELSE b

Toggle ==
  /\ Keycode({LeftShift, RightShift, CapsLock}) /\ status
  /\ IF latch.code = CapsLock THEN capslock' = Turned(capslock) /\ UNCHANGED shift
     ELSE shift' = Turned(shift) /\ UNCHANGED capslock
  /\ pc' = "status"
  /\ UNCHANGED <<consoleVars, data, ptr>>

EndLine ==
  /\ Keycode({Enter}) /\ status
  /\ screen' = putchar(screen, NL) /\ text' = Written(text, NL)
  /\ pc' = "idle"
  /\ UNCHANGED <<data, ptr, capslock, shift>>

(* The bug of a delete that leaves dataPtr where it is.                     *)
DeleteLastPtrKept ==
  /\ Keycode({Backspace}) /\ status
  /\ screen' = delsym(screen) /\ text' = Erased(text)
  /\ data' = [data EXCEPT ![ptr - 1] = 0]
  /\ pc' = "status"
  /\ UNCHANGED <<ptr, capslock, shift>>

DeleteLast ==
  /\ Keycode({Backspace}) /\ status
  /\ screen' = delsym(screen) /\ text' = Erased(text)
  /\ data' = [data EXCEPT ![ptr - 1] = 0] /\ ptr' = ptr - 1
  /\ pc' = "status"
  /\ UNCHANGED <<capslock, shift>>

Typed ==
  IF capslock = true \/ shift = true THEN Capskeyboard_map[latch.code] ELSE keyboard_map[latch.code]

TypeKey ==
  /\ Keycode(DOMAIN keyboard_map) /\ status
  /\ screen' = putchar(screen, Typed) /\ text' = Written(text, Typed)
  /\ data' = [data EXCEPT ![ptr] = Typed] /\ ptr' = ptr + 1
  /\ LoopOn
  /\ UNCHANGED <<capslock, shift>>

(* Bounds: the console is used by others only if no code comes, and what    *)
(* follows their first impolite call is not explored.                       *)
Others ==
  /\ coming = 0
  /\ ConsoleNext
  /\ UNCHANGED <<coming, latch, full, inputVars>>
ConsolePolite == coming > 0 \/ text.polite

Next ==
  \/ Others
  \/ \E code \in Codes : Strike(code)
  \/ Input \/ ReadStatus \/ SkipRelease \/ Drop
  \/ Toggle \/ EndLine \/ DeleteLast \/ TypeKey

Spec == Init /\ [][Next]_vars
-----------------------------------------------------------------------------
TypeOK ==
  /\ ScreenOK
  /\ latch \in [code : Codes, n : 0 .. MaxCodes] /\ full \in BOOLEAN
  /\ pc \in {"idle", "status", "data"} /\ status \in BOOLEAN /\ polled \in 0 .. MaxCodes
  /\ data \in [-MaxCodes .. MaxCodes -> Nat] /\ ptr \in -MaxCodes .. MaxCodes
  /\ capslock \in {false, true, CapsLockAtBoot} /\ shift \in {false, true, ShiftAtBoot}
  /\ coming \in {0, MaxCodes} /\ line \in 0 .. Columns

(* While a line is typed, what the console shows behind the prompt is what  *)
(* the buffer holds: editing keeps both together, in every state of Shift   *)
(* and Caps Lock, and even when a backspace goes back over the prompt and,  *)
(* in the buffer, in front of its first byte.                               *)
EchoMatchesBuffer ==
  pc # "idle" /\ text.polite =>
    LET shown == Last(text.lines)
    IN  /\ Len(shown) = line + ptr
        /\ \A i \in 0 .. ptr - 1 : data[i] = shown[line + i + 1]

Handles == Toggle \/ EndLine \/ DeleteLast \/ TypeKey

(* No code is handled twice, though the port keeps showing the last one;    *)
(* and a code is dropped unread only if it came behind the status that was  *)
(* read with it.  (That window is there, and input() drops every key that   *)
(* comes in it.)                                                            *)
EachCodeOnce ==
  [][/\ Handles => full
     /\ Drop /\ full => latch.n > polled]_vars
=============================================================================
