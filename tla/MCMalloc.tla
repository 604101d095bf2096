------------------------------ MODULE MCMalloc ------------------------------
(***************************************************************************)
(* Malloc on a heap of 12 bytes with headers of 2: up to six blocks, and sizes *)
(* that fill a hole exactly, leave a rest too small to be a block (one or   *)
(* two bytes) or the smallest that is one.                                  *)
(***************************************************************************)
EXTENDS Malloc

RequestSizes == {0, 1, 2, 5}
=============================================================================
