------------------------------- MODULE Malloc -------------------------------
(***************************************************************************)
(* malloc and m_free of memory.c: a first-fit allocator over the static     *)
(* array heap, with a header in front of every block and the headers        *)
(* chained in a list from head.                                             *)
(*                                                                         *)
(* Abstractions: an address is its offset in heap; the chain of headers is  *)
(* the sequence of its blocks.  No caller of the repository runs in an      *)
(* interrupt, so a call is one step.                                        *)
(***************************************************************************)
EXTENDS Integers, Sequences

CONSTANTS
  HeapSize,   \* heap_size: 25000 in memory.h
  Header,     \* sizeof(memory): 12 on the machine
  Sizes       \* the sizes that callers ask for

ASSUME HeaderAssumption == Header \in Nat /\ Header > 0
ASSUME HeapSizeAssumption == HeapSize \in Nat /\ HeapSize > Header
ASSUME SizesAssumption == Sizes \subseteq Nat

NULL == -1

VARIABLES
  head,    \* the blocks in the order of the chain; <<>> while head is NULL
  reply    \* the last call with its argument and what it returned

vars == <<head, reply>>

Block == [at : 0 .. HeapSize, size : 0 .. HeapSize, isFree : BOOLEAN]

Malloced(size, ptr) == [call |-> "malloc", arg |-> size, ret |-> ptr]
Freed(ptr) == [call |-> "m_free", arg |-> ptr, ret |-> NULL]

(* The first byte behind a block. *)
End(b) == b.at + Header + b.size
-----------------------------------------------------------------------------
Init == head = <<>> /\ reply = Freed(NULL)

(* The first call of malloc makes one free block of the heap. *)
list ==
  IF head = <<>>
  THEN <<[at |-> 0, size |-> HeapSize - Header, isFree |-> TRUE]>>
  ELSE head

(* The bug of a hole that must be larger than what is asked for. *)
FitsLargerOnly(size) == {i \in 1 .. Len(list) : list[i].isFree /\ list[i].size > size}

Fits(size) == {i \in 1 .. Len(list) : list[i].isFree /\ list[i].size >= size}

(* Block i is taken whole. *)
Take(i) == [list EXCEPT ![i].isFree = FALSE]

(* The two blocks that block b is cut into: what was asked for, and the     *)
(* rest behind it with a header of its own.                                 *)
Taken(b, size) == [at |-> b.at, size |-> size, isFree |-> FALSE]

(* The bug of a rest that is not made smaller by its header. *)
RestHeaderForgotten(b, size) ==
  [at |-> b.at + Header + size, size |-> b.size - size, isFree |-> TRUE]

Rest(b, size) ==
  [at |-> b.at + Header + size, size |-> b.size - size - Header, isFree |-> TRUE]

Split(i, size) ==
  SubSeq(list, 1, i - 1) \o <<Taken(list[i], size), Rest(list[i], size)>>
                         \o SubSeq(list, i + 1, Len(list))

(* The bug of an off-by-one in the test for a rest: with nothing left the   *)
(* new block would have no room for its header.                             *)
MallocSplitAlways(size) ==
  \E i \in Fits(size) :
     /\ \A j \in Fits(size) : i <= j
     /\ head' = IF list[i].size > size THEN Split(i, size) ELSE Take(i)
     /\ reply' = Malloced(size, list[i].at + Header)

Malloc(size) ==
  \E i \in Fits(size) :
     /\ \A j \in Fits(size) : i <= j
     /\ head' = IF list[i].size > size + Header THEN Split(i, size) ELSE Take(i)
     /\ reply' = Malloced(size, list[i].at + Header)

MallocFails(size) ==
  /\ Fits(size) = {}
  /\ head' = list
  /\ reply' = Malloced(size, NULL)

(* Block i swallows its successor. *)
Absorb(blocks, i) ==
  SubSeq(blocks, 1, i - 1)
    \o <<[blocks[i] EXCEPT !.size = @ + blocks[i + 1].size + Header]>>
    \o SubSeq(blocks, i + 2, Len(blocks))

(* The bug of a block that is not merged with the one before it. *)
ReleasePreviousKept(i) ==
  LET marked == [head EXCEPT ![i].isFree = TRUE]
  IN  IF i < Len(marked) /\ marked[i + 1].isFree THEN Absorb(marked, i) ELSE marked

(* The bug of a block that is not merged with the one behind it. *)
ReleaseNextKept(i) ==
  LET marked == [head EXCEPT ![i].isFree = TRUE]
  IN  IF i > 1 /\ marked[i - 1].isFree THEN Absorb(marked, i - 1) ELSE marked

(* m_free of block i: it is merged with a free block before it, then with   *)
(* the one behind it.                                                       *)
Release(i) ==
  LET marked  == [head EXCEPT ![i].isFree = TRUE]
      back    == i > 1 /\ marked[i - 1].isFree
      joined  == IF back THEN Absorb(marked, i - 1) ELSE marked
      current == IF back THEN i - 1 ELSE i
  IN  IF current < Len(joined) /\ joined[current + 1].isFree
      THEN Absorb(joined, current) ELSE joined

(* m_free of a block, in use or not: the walk looks at the addresses only.  *)
Free(ptr) ==
  /\ \E i \in 1 .. Len(head) : head[i].at + Header = ptr /\ head' = Release(i)
  /\ reply' = Freed(ptr)

(* m_free of NULL or of an address that is not that of a block. *)
FreeIgnored(ptr) ==
  /\ \A i \in 1 .. Len(head) : head[i].at + Header # ptr
  /\ reply' = Freed(ptr)
  /\ UNCHANGED head

Next ==
  \/ \E size \in Sizes : Malloc(size) \/ MallocFails(size)
  \/ \E ptr \in {NULL} \cup 0 .. HeapSize : Free(ptr) \/ FreeIgnored(ptr)

Spec == Init /\ [][Next]_vars
-----------------------------------------------------------------------------
TypeOK ==
  /\ head \in Seq(Block)
  /\ reply \in {Malloced(size, ptr) : size \in Sizes, ptr \in {NULL} \cup 0 .. HeapSize}
               \cup {Freed(ptr) : ptr \in {NULL} \cup 0 .. HeapSize}

(* The blocks tile the heap: splitting and merging, in whatever order       *)
(* blocks are taken and freed, loses no byte and gives none to two blocks.  *)
Tiling ==
  head # <<>> =>
     /\ head[1].at = 0 /\ End(head[Len(head)]) = HeapSize
     /\ \A i \in 1 .. Len(head) - 1 : head[i + 1].at = End(head[i])

(* Free neighbours are always merged. *)
Coalesced ==
  \A i \in 1 .. Len(head) - 1 : ~(head[i].isFree /\ head[i + 1].isFree)

(* Freeing a block a second time, or freeing what malloc never returned,    *)
(* leaves the heap as it is: m_free has no test for it.                     *)
FreeOfFreeIsHarmless ==
  [][\A ptr \in {NULL} \cup 0 .. HeapSize :
        /\ reply' = Freed(ptr)
        /\ \A i \in 1 .. Len(head) : head[i].at + Header = ptr => head[i].isFree
        => head' = head]_vars

(* malloc and m_free keep the promises of Allocator.                        *)
Heap == INSTANCE Allocator WITH
  allocated <- {[ptr |-> b.at + Header, len |-> b.size] :
                  b \in {head[i] : i \in {j \in 1 .. Len(head) : ~head[j].isFree}}}

ImplementsAllocator == Heap!Spec
=============================================================================
