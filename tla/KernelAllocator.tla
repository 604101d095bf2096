-------------------------- MODULE KernelAllocator --------------------------
(***************************************************************************)
(* What kmalloc and kfree of kheap.c promise their callers: every region    *)
(* that is handed out lies in the heap, begins on a page if that was asked  *)
(* for, overlaps no other one (nor the header and the footer around it) and *)
(* stays put until it is freed; and every kfree returns.  Which regions are *)
(* handed out, and whether a call is answered at once, when the heap has    *)
(* grown or never, is left to KHeap.                                        *)
(***************************************************************************)
EXTENDS Integers

CONSTANTS
  PageSize, MaxSize,   \* words in a page, and in the largest heap
  Header, Footer,      \* the words of bookkeeping around every region
  Sizes, AlignedSizes  \* the sizes that are asked for

Pending == -1

VARIABLES
  allocated,  \* the regions handed out: [ptr, len]
  reply       \* the last call with its argument and what it returned

vars == <<allocated, reply>>

Kmalloced(sz, align, ptr) == [op |-> "alloc", arg |-> sz, align |-> align, ret |-> ptr]
Kfreed(ptr) == [op |-> "free", arg |-> ptr, align |-> FALSE, ret |-> 0]

(* The words that belong to a region, bookkeeping included.                 *)
Extent(r) == (r.ptr - Header) .. (r.ptr + r.len + Footer - 1)

Clear(r) == \A q \in allocated : Extent(r) \cap Extent(q) = {}

(* A call that is not answered yet is the only one that can be.             *)
InTurn(sz, align) == reply.ret = Pending => reply = Kmalloced(sz, align, Pending)

Init == allocated = {} /\ reply = Kfreed(0)

Kmalloc(sz, align) ==
  /\ InTurn(sz, align)
  /\ \E ptr \in Header .. MaxSize - sz - Footer :
       LET r == [ptr |-> ptr, len |-> sz]
       IN  /\ align => ptr % PageSize = 0
           /\ Clear(r)
           /\ allocated' = allocated \cup {r}
           /\ reply' = Kmalloced(sz, align, ptr)

(* The heap grows, or the kernel panics because it cannot.                  *)
Wait(sz, align) ==
  InTurn(sz, align) /\ reply' = Kmalloced(sz, align, Pending) /\ UNCHANGED allocated

Kfree(r) ==
  /\ reply.ret # Pending
  /\ allocated' = {q \in allocated : q.ptr # r.ptr}
  /\ reply' = Kfreed(r.ptr)

Next ==
  \/ \E sz \in Sizes : Kmalloc(sz, FALSE) \/ Wait(sz, FALSE)
  \/ \E sz \in AlignedSizes : Kmalloc(sz, TRUE) \/ Wait(sz, TRUE)
  \/ \E r \in allocated : Kfree(r)

Spec == Init /\ [][Next]_vars
=============================================================================
