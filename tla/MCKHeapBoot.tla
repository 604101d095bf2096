----------------------------- MODULE MCKHeapBoot -----------------------------
(***************************************************************************)
(* The constants of the machine, in words: the index takes 0x80000 bytes at *)
(* 0xC0000000 and create_heap skips to the next page behind it.             *)
(***************************************************************************)
EXTENDS KHeapBoot

NoSizes == {}
=============================================================================
