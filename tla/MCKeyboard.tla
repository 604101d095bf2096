----------------------------- MODULE MCKeyboard ------------------------------
(***************************************************************************)
(* A screen of 3 lines of 4 cells, and bytes of two hexadecimal digits: the *)
(* numbers leave a cell of a line, fill it, and begin with a zero digit.    *)
(* The codes are a key with a character, its release, Shift, Caps Lock,     *)
(* Enter, Backspace and an error.                                           *)
(***************************************************************************)
EXTENDS Keyboard

SomeMessages == {<<97, NL>>}
SomeNumbers == {10, 160}
SomeCodes == {30, -98, LeftShift, CapsLock, Enter, Backspace, 0}
SomePrompt == <<62>>
=============================================================================
