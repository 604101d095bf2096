------------------------------- MODULE MCKHeap -------------------------------
(***************************************************************************)
(* A heap of 3 pages of 8 words that may grow to 4 and shrink to 2.  A block *)
(* of one word takes 6 words, an aligned one of three words a page less the *)
(* header of its successor.                                                 *)
(***************************************************************************)
EXTENDS KHeap

SmallSizes == {1}
SmallAlignedSizes == {3}
=============================================================================
