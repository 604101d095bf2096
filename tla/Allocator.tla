----------------------------- MODULE Allocator -----------------------------
(***************************************************************************)
(* What malloc and m_free of memory.c promise their callers: every region   *)
(* handed out lies in the heap, is as long as asked for, overlaps no other  *)
(* (nor the bookkeeping in front of it) and stays put until it is freed;    *)
(* NULL is returned only if there is no room.  Where the free regions are   *)
(* and how they are found is left to Malloc.                                *)
(***************************************************************************)
EXTENDS Integers

CONSTANTS
  HeapSize,   \* the bytes of the heap
  Header,     \* the bytes of bookkeeping in front of every region
  Sizes       \* the sizes that are asked for

NULL == -1

VARIABLES
  allocated,  \* the regions handed out: [ptr, len]
  reply       \* the last call with its argument and what it returned

vars == <<allocated, reply>>

Malloced(size, ptr) == [call |-> "malloc", arg |-> size, ret |-> ptr]
Freed(ptr) == [call |-> "m_free", arg |-> ptr, ret |-> NULL]

(* The bytes that belong to a region, bookkeeping included. *)
Extent(r) == (r.ptr - Header) .. (r.ptr + r.len - 1)

(* A region r can be handed out without touching another. *)
Clear(r) == \A q \in allocated : Extent(r) \cap Extent(q) = {}

Room(size) ==
  \E at \in 0 .. HeapSize - Header - size : Clear([ptr |-> at + Header, len |-> size])

Init == allocated = {} /\ reply = Freed(NULL)

(* A region may be a little longer than asked for: what is left of a hole   *)
(* and could not hold a header of its own stays with it.                    *)
Malloc(size) ==
  \E at \in 0 .. HeapSize - Header : \E len \in size .. size + Header :
     LET r == [ptr |-> at + Header, len |-> len]
     IN  /\ r.ptr + len <= HeapSize /\ Clear(r)
         /\ allocated' = allocated \cup {r}
         /\ reply' = Malloced(size, r.ptr)

Fail(size) ==
  /\ ~Room(size)
  /\ reply' = Malloced(size, NULL)
  /\ UNCHANGED allocated

(* Freeing what is not allocated changes nothing. *)
Free(ptr) ==
  /\ allocated' = {r \in allocated : r.ptr # ptr}
  /\ reply' = Freed(ptr)

Next ==
  \/ \E size \in Sizes : Malloc(size) \/ Fail(size)
  \/ \E ptr \in {NULL} \cup 0 .. HeapSize : Free(ptr)

Spec == Init /\ [][Next]_vars
=============================================================================
