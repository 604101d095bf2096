---------------------------- MODULE MCInterrupts -----------------------------
(***************************************************************************)
(* Two-bit half bytes; all vectors; two known system calls and an unknown   *)
(* one; a handler may be interrupted once.                                  *)
(***************************************************************************)
EXTENDS Interrupts

AllVectors == 0 .. 47 \cup {SyscallVector}
=============================================================================
