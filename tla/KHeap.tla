-------------------------------- MODULE KHeap --------------------------------
(***************************************************************************)
(* The kernel heap of kheap.c over the ordered array of ordered_array.c: an *)
(* array of holes, and in memory a header in front of every block and hole  *)
(* and a footer behind it, by which free finds the neighbours.              *)
(*                                                                         *)
(* Memory is kept word by word, because a call may write over what another  *)
(* one wrote: every size that the kernel asks for is a multiple of a word.  *)
(* An address is the number of words behind heap->start_address, which lies *)
(* on a page and far behind the first one, so the tests for address bits    *)
(* above the first page are left out.  What callers store in their blocks   *)
(* is not kept, except for the zeros that paging.c stores.  A page that was *)
(* never mapped cannot be read: page_fault ends in PANIC.                   *)
(***************************************************************************)
EXTENDS Integers, Sequences, SequencesExt

CONSTANTS
  PageSize,      \* words in a page: 1024
  InitialSize,   \* the size create_heap begins with, 0x7F000 bytes
  MinSize,       \* HEAP_MIN_SIZE: 0x70000 bytes, a multiple of a page
  MaxSize,       \* the size at which the heap reaches max_address
  Sizes,         \* what callers of kmalloc ask for
  AlignedSizes,  \* what callers of kmalloc_a and kmalloc_ap ask for
  Words          \* the words that 32 bits can address: 2^30

Header == 3            \* words of header_t
Footer == 2            \* words of footer_t
HEAP_MAGIC == -1       \* a word that is no size and no address

ASSUME PagesAssumption ==
  PageSize \in Nat /\ PageSize > Header + Footer /\ InitialSize % PageSize = 0
ASSUME LimitsAssumption ==
  /\ MinSize \in Nat /\ InitialSize \in Nat /\ MaxSize \in Nat
  /\ MinSize % PageSize = 0 /\ 2 * PageSize <= MinSize /\ MinSize <= InitialSize /\ InitialSize <= MaxSize
(* The heap takes less than half of the address space, and no caller asks   *)
(* for so much that the size of its block wraps around.                     *)
ASSUME WordsAssumption ==
  /\ Words \in Nat /\ MaxSize < Words \div 2
  /\ \A sz \in Sizes \cup AlignedSizes :
       sz \in Nat /\ MaxSize + sz + Header + Footer + PageSize < Words

VARIABLES
  mem,      \* the words written so far; every other word is 0
  index,    \* heap->index: the addresses of the holes
  end,      \* heap->end_address
  mapped,   \* the pages in front of this address are present, no other is
  used,     \* the callers' view: the blocks they hold, with the size asked for
  call,     \* the call that runs or returned last
  halted    \* an ASSERT failed or a page fault: PANIC does not return

vars == <<mem, index, end, mapped, used, call, halted>>

Pending == -1
Alloc(size, align, ret) == [op |-> "alloc", arg |-> size, align |-> align, ret |-> ret]
Freed(ptr, ret) == [op |-> "free", arg |-> ptr, align |-> FALSE, ret |-> ret]
-----------------------------------------------------------------------------
(* Reading and writing memory.  A size is unsigned; an address computed     *)
(* from it wraps around.                                                    *)
Read(m, a) == IF a \in DOMAIN m THEN m[a] ELSE 0

Store(m, a, words) ==
  [x \in DOMAIN m \cup a .. a + Len(words) - 1 |->
     IF x \in a .. a + Len(words) - 1 THEN words[x - a + 1] ELSE m[x]]

Clear(m, a, b) == [x \in DOMAIN m \ (a .. b) |-> m[x]]

Unsigned(n) == n % Words
Signed(n) == IF Unsigned(n) < Words \div 2 THEN Unsigned(n) ELSE Unsigned(n) - Words

size(m, h) == Read(m, h + 2)
IsMagic(m, a) == Read(m, a) = HEAP_MAGIC
IsHole(m, h) == Read(m, h + 1) # 0
FooterOf(m, h) == h + Signed(size(m, h)) - Footer
SetHeader(m, h, hole, n) == Store(m, h, <<HEAP_MAGIC, hole, Unsigned(n)>>)
SetFooter(m, f, h) == Store(m, f, <<HEAP_MAGIC, h>>)
SetSize(m, h, n) == Store(m, h + 2, <<Unsigned(n)>>)
-----------------------------------------------------------------------------
(* The ordered array: behind all that are smaller.  remove closes the gap.  *)
insert(m, array, h) ==
  LET smaller(k) == \A i \in 1 .. k : size(m, array[i]) < size(m, h)
      k == CHOOSE k \in 0 .. Len(array) :
             smaller(k) /\ (k < Len(array) => ~smaller(k + 1))
  IN  SubSeq(array, 1, k) \o <<h>> \o SubSeq(array, k + 1, Len(array))

Positions(h) == {i \in 1 .. Len(index) : index[i] = h}
Least(S) == CHOOSE i \in S : \A j \in S : i <= j

(* create_heap: one hole with a header and no footer, in the pages that     *)
(* initialise_paging has mapped, and no other is.                           *)
Init ==
  /\ mem = SetHeader(<<>>, 0, 1, InitialSize)
  /\ index = <<0>>
  /\ end = InitialSize
  /\ mapped = InitialSize
  /\ used = {}
  /\ call = Freed(0, 0)
  /\ halted = FALSE

Running == ~halted /\ call.ret # Pending

Panic(c) == halted' = TRUE /\ call' = c /\ UNCHANGED <<mem, index, end, mapped, used>>
-----------------------------------------------------------------------------
(* alloc *)

(* What a hole loses in front of a block that is to begin on a page.        *)
Offset(h) == PageSize - ((h + Header) % PageSize)

(* The bug of a search that forgets the footer of the block.                *)
FitsWithoutFooter(n, align) ==
  {i \in 1 .. Len(index) :
     IF align THEN Signed(size(mem, index[i]) - Offset(index[i])) >= n - Footer
     ELSE size(mem, index[i]) >= n - Footer}

Fits(n, align) ==
  {i \in 1 .. Len(index) :
     IF align THEN Signed(size(mem, index[i]) - Offset(index[i])) >= n
     ELSE size(mem, index[i]) >= n}

(* The new length that expand rounds up to, by a whole page if it is one.   *)
Expanded(n) == ((end + n) \div PageSize) * PageSize + PageSize

(* expand, when no hole fits: the heap gets pages, and the hole with the    *)
(* highest address gets longer; if there is none, a new one begins at the   *)
(* old end.  alloc then calls itself.                                       *)
AllocExpand(sz, align) ==
  LET n    == sz + Header + Footer
      new  == Expanded(n)
      last == CHOOSE h \in Range(index) : \A g \in Range(index) : g <= h
      longer == SetSize(mem, last, size(mem, last) + new - end)
      fresh  == SetFooter(SetHeader(mem, end, 1, new - end), new - Footer, end)
  IN  /\ Fits(n, align) = {}
      /\ new <= MaxSize
      /\ end' = new
      /\ mapped' = IF new > mapped THEN new ELSE mapped
      /\ IF index = <<>>
         THEN index' = <<end>> /\ mem' = fresh
         ELSE mem' = SetFooter(longer, FooterOf(longer, last), last) /\ UNCHANGED index
      /\ call' = Alloc(sz, align, Pending)
      /\ UNCHANGED <<used, halted>>

AllocPanic(sz, align) ==
  /\ Fits(sz + Header + Footer, align) = {}
  /\ Expanded(sz + Header + Footer) > MaxSize
  /\ Panic(Alloc(sz, align, Pending))

(* The block that begins on a page: what is in front of it stays a hole, at *)
(* the same place in the index.                                             *)
SplitFront(h) ==
  LET n == PageSize - (h % PageSize) - Header
  IN  SetFooter(SetHeader(mem, h, 1, n), h + n - Footer, h)

(* The first hole that fits, cut into the block and a hole behind it; a     *)
(* rest too small for a header and a footer goes to the block.  What is     *)
(* left behind an aligned block may not even hold a header, which then      *)
(* reaches into a page that is not present.                                 *)
AllocTake(sz, align) ==
  LET i     == Least(Fits(sz + Header + Footer, align))
      h     == index[i]
      whole == size(mem, h)
      n     == IF Unsigned(whole - sz - Header - Footer) < Header + Footer
               THEN whole ELSE sz + Header + Footer
      front == IF align THEN SplitFront(h) ELSE mem
      at    == IF align THEN h + PageSize - (h % PageSize) - Header ELSE h
      rest  == Unsigned((IF align THEN whole - size(front, h) ELSE whole) - n)
      hole  == at + n
      block == SetFooter(SetHeader(front, at, 0, n), at + n - Footer, at)
      tail  == SetHeader(block, hole, 1, rest)
      foot  == FooterOf(tail, hole)
      kept  == IF align THEN index ELSE RemoveAt(index, i)
  IN  /\ Fits(sz + Header + Footer, align) # {}
      /\ IF rest # 0 /\ hole + Header > mapped
         THEN Panic(Alloc(sz, align, Pending))
         ELSE /\ mem' = IF rest = 0 THEN block
                        ELSE IF foot < end THEN SetFooter(tail, foot, hole) ELSE tail
              /\ index' = IF rest = 0 THEN kept ELSE insert(mem', kept, hole)
              /\ used' = used \cup {[ptr |-> at + Header, len |-> sz]}
              /\ call' = Alloc(sz, align, at + Header)
              /\ UNCHANGED <<end, mapped, halted>>

kmalloc(sz, align) ==
  /\ Running \/ (~halted /\ call = Alloc(sz, align, Pending))
  /\ AllocTake(sz, align) \/ AllocExpand(sz, align) \/ AllocPanic(sz, align)
-----------------------------------------------------------------------------
(* free *)

(* The bug of zeros that also cover the footer and what is behind it.       *)
ZeroedTooFar(ptr, foot) == IF ptr < foot THEN Clear(mem, ptr, foot + Footer) ELSE mem

(* The zeros begin at the data and advance by bytes, four at a time: the    *)
(* last ones reach into the magic of the footer.                            *)
Zeroed(ptr, foot) == IF ptr < foot THEN Clear(mem, ptr, foot) ELSE mem

(* The bug of a contract that does not stop at HEAP_MIN_SIZE.               *)
ContractedFreely(n) == IF (n \div PageSize) % 2 = 1 THEN 2 * PageSize ELSE n

(* contract keeps one bit of the length where it means to round it up.      *)
Contracted(n) ==
  LET rounded == IF (n \div PageSize) % 2 = 1 THEN 2 * PageSize ELSE n
  IN  IF rounded < MinSize THEN MinSize ELSE rounded

(* The pages, by number, whose frames contract gives back when the heap     *)
(* shrinks to new.  free_frame leaves them present, with frame 0, whose     *)
(* words are taken to be no magic; the processor may go on with the frames  *)
(* they had, so any of them may seem to have kept its words.                *)
GivenBack(new) ==
  {i \div PageSize : i \in {j \in new + 1 .. end - PageSize : (end - j) % PageSize = 0}}
Forget(m, pages) == [x \in {y \in DOMAIN m : y \div PageSize \notin pages} |-> m[x]]

(* free of a block with good magics: merged with the hole before it if that *)
(* one's footer says so, then with the one behind it; a hole at the end of  *)
(* the heap gives pages back.  The magic behind the block is read even if   *)
(* the heap ends there: a page fault if that page is not present.           *)
Release(ptr) ==
  LET block == ptr - Header
      foot  == FooterOf(mem, block)
      clear == Store(Zeroed(ptr, foot), block + 1, <<1>>)
      prev  == Read(clear, block - 1)
      left  == IsMagic(clear, block - Footer) /\ Read(clear, prev + 1) = 1
      h     == IF left THEN prev ELSE block
      back  == IF left
               THEN SetSize(Store(clear, foot + 1, <<h>>), h, size(clear, h) + size(clear, block))
               ELSE clear
      next  == foot + Footer
      right == IsMagic(back, next) /\ IsHole(back, next)
      joined == IF right THEN SetSize(back, h, size(back, h) + size(back, next)) ELSE back
      last  == IF right THEN FooterOf(back, next) ELSE foot
      rest  == IF right THEN RemoveAt(index, Least(Positions(next))) ELSE index
      atEnd == last + Footer = end
      new   == IF atEnd THEN Contracted(h) ELSE end
      gives == Unsigned(size(joined, h) - (end - new))
      short == SetSize(joined, h, gives)
      gone  == {i \in 1 .. Len(rest) : rest[i] = next}
      holes == IF atEnd /\ gives = 0 /\ gone # {} THEN RemoveAt(rest, Least(gone)) ELSE rest
      shrunk == IF atEnd /\ gives # 0 THEN SetFooter(short, FooterOf(short, h), h)
                ELSE joined
  IN  IF next >= mapped \/ (right /\ Positions(next) = {})
      THEN Panic(Freed(ptr, Pending))
      ELSE /\ end' = new
           /\ \E lost \in SUBSET GivenBack(new) : mem' = Forget(shrunk, lost)
           /\ index' = IF left THEN holes ELSE insert(mem', holes, h)
           /\ used' = {u \in used : u.ptr # ptr}
           /\ call' = Freed(ptr, 0)
           /\ UNCHANGED <<mapped, halted>>

kfree(ptr) ==
  /\ Running
  /\ IF IsMagic(mem, ptr - Header) /\ IsMagic(mem, FooterOf(mem, ptr - Header))
     THEN Release(ptr)
     ELSE Panic(Freed(ptr, Pending))

Next ==
  \/ \E sz \in Sizes : kmalloc(sz, FALSE)
  \/ \E sz \in AlignedSizes : kmalloc(sz, TRUE)
  \/ \E u \in used : kfree(u.ptr)

Spec == Init /\ [][Next]_vars
-----------------------------------------------------------------------------
Blocks == {u.ptr - Header : u \in used}
Holes == Range(index)

TypeOK ==
  /\ DOMAIN mem \subseteq Int /\ \A x \in DOMAIN mem : mem[x] \in Int
  /\ index \in Seq(Int)
  /\ end \in MinSize .. MaxSize /\ end >= 0 /\ mapped \in end .. MaxSize
  /\ used \subseteq [ptr : Int, len : Sizes \cup AlignedSizes]
  /\ call \in [op : {"alloc", "free"}, arg : Int, align : BOOLEAN, ret : Int]
  /\ halted \in BOOLEAN

(* What alloc and free rely on: blocks and holes tile the heap, the index   *)
(* has every hole once, headers say what is a hole, and every footer with   *)
(* the magic leads to its own header.                                       *)
Sound ==
  /\ TypeOK /\ DOMAIN mem \subseteq Nat /\ Blocks \cup Holes \subseteq 0 .. end
  /\ \A i, j \in 1 .. Len(index) : index[i] = index[j] => i = j
  /\ Blocks \cap Holes = {} /\ 0 \in Blocks \cup Holes
  /\ \A u \in used : size(mem, u.ptr - Header) >= u.len + Header + Footer
  /\ \A h \in Blocks \cup Holes :
       /\ IsMagic(mem, h) /\ (IsHole(mem, h) <=> h \in Holes)
       /\ size(mem, h) >= Header + Footer
       /\ IsMagic(mem, FooterOf(mem, h)) => Read(mem, FooterOf(mem, h) + 1) = h
       /\ h + size(mem, h) \in Blocks \cup Holes \cup {end}
       /\ \A g \in Blocks \cup Holes : g < h => g + size(mem, g) <= h
  /\ \A h \in Blocks : IsMagic(mem, FooterOf(mem, h))

(* The six kinds of call c that leave a heap that is not sound, or halt.    *)

(* What is left in front of an aligned block, or behind it, is a hole too   *)
(* small for its own header and footer.                                     *)
LeavesCrampedHole(c) ==
  /\ c.op = "alloc" /\ c.align /\ c.ret # Pending
  /\ LET n     == c.arg + Header + Footer
         h     == index[Least(Fits(n, TRUE))]
         front == PageSize - (h % PageSize) - Header
     IN  front < Header + Footer \/ size(mem, h) - front - n \in 1 .. Header + Footer - 1

(* The heap grows, and there is a hole, but a block lies at the end.        *)
GrowsInnerHole(c) ==
  /\ c.op = "alloc" /\ end' # end
  /\ index # <<>> /\ \A h \in Holes : h + size(mem, h) # end

(* The block is merged with the hole behind it, whose footer goes on        *)
(* leading to that hole, except at the end of the heap.                     *)
MergesForward(c) ==
  /\ c.op = "free" /\ c.ret # Pending
  /\ LET next == FooterOf(mem, c.arg - Header) + Footer
     IN  next \in Holes /\ next + size(mem, next) # end

(* The heap shrinks to an end in front of the header or inside it.          *)
ShrinksPastHole(c) ==
  c.op = "free" /\ end' # end /\ \E h \in Holes' : h + Header + Footer > end'

(* The last block is freed, and behind the heap lies an old header.         *)
OldHeaderAtEnd(c) ==
  c.op = "free" /\ FooterOf(mem, c.arg - Header) + Footer = end /\ IsMagic(mem, end)

(* The last block is freed, and the page behind the heap was never mapped:  *)
(* the heap has never been longer than it is.                               *)
FaultsAtEnd(c) ==
  c.op = "free" /\ FooterOf(mem, c.arg - Header) + Footer = end /\ end = mapped

Careless(c) ==
  \/ LeavesCrampedHole(c) \/ GrowsInnerHole(c) \/ MergesForward(c)
  \/ ShrinksPastHole(c) \/ OldHeaderAtEnd(c) \/ FaultsAtEnd(c)

(* Every other call of alloc and free on a sound heap leaves a sound heap:  *)
(* no byte belongs to two blocks, none is lost, and the index, the headers  *)
(* and the footers agree; and free then halts by no assertion and no fault. *)
HeapStaysSound ==
  [][Sound => (Sound' /\ (halted' => call'.op = "alloc")) \/ Careless(call')]_vars

(* On a sound heap such a call hands out or takes back a region as          *)
(* KernelAllocator says: apart from all others, on a page where that was    *)
(* asked for; and a call of kfree returns.                                  *)
Regions == INSTANCE KernelAllocator WITH allocated <- used, reply <- call

SoundHeapAllocates ==
  Regions!Init /\ [][Sound => Regions!Next \/ Careless(call')]_vars

(* The heap under callers that make no call of the six kinds, and what it  *)
(* is to them.                                                              *)
CarefulNext == Next /\ ~Careless(call')
CarefulSpec == Init /\ [][CarefulNext]_vars

ImplementsKernelAllocator == Regions!Spec

(* What kheap.h says of a header, for every block in use: is_hole is "0 if  *)
(* this is a block", and size is the "size of the block, including the end  *)
(* footer".                                                                 *)
BlocksKeepTheirHeaders ==
  \A u \in used : LET h == u.ptr - Header
                  IN  /\ IsMagic(mem, h) /\ ~IsHole(mem, h)
                      /\ size(mem, h) >= u.len + Header + Footer
=============================================================================
