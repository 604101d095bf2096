------------------------------ MODULE KHeapBoot ------------------------------
(***************************************************************************)
(* The kernel heap as the kernel uses it: the calls of kmalloc and          *)
(* kmalloc_a from initialise_paging to the second create_proc of _kmain, in *)
(* their order, at the sizes of the machine, and the memset of              *)
(* paging.c:196, which clears more than the page table it has just got.     *)
(* Nothing in the kernel calls kfree.                                       *)
(***************************************************************************)
EXTENDS KHeap

CONSTANT
  MaxFiles   \* the most files that ramdisk.c puts into the initial ramdisk

VARIABLES
  todo,      \* the calls still to come
  table      \* the page table that clone_table has yet to clear, or 0

bootVars == <<vars, todo, table>>

(* Sizes in words. *)
PageDirectory == 2049
PageTable == 1024
KernelStack == 512
Task == 7
FsNode == 46

Kmalloc(sz) == [size |-> sz, align |-> FALSE, clone |-> FALSE]
KmallocA(sz) == [size |-> sz, align |-> TRUE, clone |-> FALSE]
CloneTable == [size |-> PageTable, align |-> TRUE, clone |-> TRUE]

(* initialise_tasking: move_stack maps two tables of 4 MB that the kernel   *)
(* directory does not have, and every later clone copies them.              *)
InitialiseTasking == <<KmallocA(PageTable), KmallocA(PageTable), Kmalloc(Task),
                       KmallocA(KernelStack)>>
InitialiseInitrd(nfiles) == <<Kmalloc(FsNode), Kmalloc(FsNode), Kmalloc(FsNode * nfiles)>>
CreateProc == <<KmallocA(PageDirectory), CloneTable, CloneTable, Kmalloc(Task),
                KmallocA(KernelStack)>>

KernelCalls(nfiles) ==
  <<KmallocA(PageDirectory)>> \o InitialiseTasking \o InitialiseInitrd(nfiles)
    \o CreateProc \o CreateProc

BootInit ==
  /\ Init
  /\ todo \in {KernelCalls(nfiles) : nfiles \in 0 .. MaxFiles}
  /\ table = 0

(* The next call of the kernel, which returns or expands the heap first.    *)
Call ==
  /\ todo # <<>> /\ table = 0
  /\ kmalloc(Head(todo).size, Head(todo).align)
  /\ IF call'.ret = Pending THEN UNCHANGED <<todo, table>>
     ELSE /\ todo' = Tail(todo)
          /\ table' = IF Head(todo).clone THEN call'.ret ELSE 0

(* clone_table clears sizeof(page_directory_t) bytes in its page table.     *)
ClearTable ==
  /\ table # 0
  /\ mem' = Clear(mem, table, table + PageDirectory - 1)
  /\ table' = 0
  /\ UNCHANGED <<index, end, mapped, used, call, halted, todo>>

BootNext == Call \/ ClearTable

BootSpec == BootInit /\ [][BootNext]_bootVars
=============================================================================
