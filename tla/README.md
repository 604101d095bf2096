# NembusOS in TLA+

NembusOS is a small 32-bit x86 kernel: boot code, descriptor tables and
interrupt controllers, paging, a kernel heap, cooperative and preemptive
multitasking, a read-only initial ramdisk, a VGA console and a keyboard. This
directory holds TLA+ models of it, what TLC checks about them and what TLAPS
proves. The models are translations of the C and assembly under `src/src`; where
a comment of the code says something else than the code does, the model follows
the code and a run shows the difference.

Paths below are relative to the repository: `impl/task.c` is
`src/src/impl/task.c`.

## 1. The system

### Components, their state and their operations

| Component | Code | State | Operations |
|---|---|---|---|
| Tasking | `impl/task.c`, `impl/process.asm`, `kernel/kernel.c` | `current_task`, `ready_queue`, `next_pid`, one `task_t` per task, one stack per page directory | `initialise_tasking`, `create_proc`, `fork`, `switch_task`, `switch_to_user_mode`, `getpid` |
| Timer and IRQ delivery | `impl/timer.c`, `impl/isr.c` (1-93), `impl/interrupt.asm` | `timer_ticks`, `irq_routines`, the registers of the two 8259s | `irq_remap`, `irq_handler`, `timer_handler`, `timer_wait` |
| Exceptions, system calls, descriptor tables | `impl/isr.c` (128-265), `impl/gdt.c`, `impl/gdt.asm` | `idt`, `gdt`, `tss_entry`, `syscalls` | `fault_handler`, `idt_set_gate`, `gdt_set_gate`, `set_kernel_stack` |
| Paging | `impl/paging.c` | the bitmap `frames`, page tables, page directories, `kernel_directory`, `current_directory` | `initialise_paging`, `get_page`, `alloc_frame`, `free_frame`, `clone_directory`, `switch_page_directory` |
| Kernel heap | `impl/kheap.c`, `impl/ordered_array.c` | `placement_address`, `kheap`, headers and footers in memory, an array of holes ordered by size | `kmalloc*`, `kfree`, `alloc`, `free`, `expand`, `contract` |
| Static heap | `impl/memory.c` | `heap`, the list of headers from `head` | `malloc`, `m_free` |
| VGA console | `impl/vga.c` | `cursor_x`, `cursor_y`, video memory | `putchar`, `newline`, `printf`, `scroll_up`, `delete` |
| Keyboard | `impl/keyboard.c` | `shift`, `capslock`, the caller's line buffer | `input` |
| Files | `impl/vfs.c`, `impl/initrd.c`, `src/ramdisk.c` | `root_nodes`, `file_headers`, one static `dirent` | `initialise_initrd`, read, readdir, finddir |
| Strings, clock, ports, assert | `impl/string.c`, `std.c`, `cmos.c`, `io.c`, `assert.c` | none | pure functions, port I/O, halt |

### How they interact

`_kmain` runs first, on the boot stack, with interrupts on from line 54. It
installs the timer's handler, switches paging on, makes itself the first task
(`initialise_tasking` moves its stack), creates two tasks that run `proc`, and
goes to user mode. From then on the timer handler calls `switch_task` inside the
IRQ, and `proc` calls it directly. Tasks share the kernel's page tables; every
task has its own copy of the tables that the kernel directory does not have,
which are those of the stack. `clone_directory` takes its tables from the kernel
heap, and the kernel heap takes its pages through `get_page` and `alloc_frame`.
IRQs and exceptions go through one table, `irq_routines`.

### What is hard, and what makes each component correct

* **Tasking.** Nothing locks `switch_task` or the ready queue. A switch from
  `proc` runs with interrupts enabled; one from the timer runs inside an IRQ
  whose EOI is sent only when the preempted task gets the CPU back. Correct
  means: the scheduler's variables name the task the CPU really runs; a switch
  is never entered in the middle of another; a task is only switched to when
  its saved context is its own; the round is a round robin; every task runs
  again and again; every interrupt taken is acknowledged.
* **Paging.** A frame must not back two pages, the kernel's own pages must keep
  the frames they were loaded in and stay mapped in every directory, private
  tables must not be shared, a clone must copy. Frames run out; the heap gives
  pages back; the bitmap is only partly cleared.
* **Static heap.** Bytes must neither be lost nor be handed out twice, whatever
  is freed in whatever order, twice, or without having been allocated.
* **Kernel heap.** The same, for a heap that grows and shrinks and hands out
  page-aligned blocks; its index must hold exactly the holes, and headers and
  footers, by which `free` finds the neighbours, must agree with it. Most of
  what can go wrong takes a particular order of calls.
* **Interrupt dispatch.** A handler must find the registers of whoever was
  interrupted in the frame its stub built, with or without an error code from
  the processor, and the return must restore them, however handlers nest. Slot
  14 belongs to an exception and to a line at once, exceptions 16 to 31 index
  behind the table, and `gdt` has three entries of the six that are written.
* **Console and keyboard.** The screen must show what was written, also when it
  scrolls; the edited line on the screen and the one in the buffer must be the
  same; a scan code must be handled once, whenever it comes.
* **Files.** A read stays in its file; what `ramdisk.c` wrote is what is read; a
  listing is complete although all callers share one `dirent`; what is listed
  is found.

`PROJECT.json` lists these hazards one by one with the line where they bite and
the properties that cover them.

## 2. Modules

| Module | What it is |
|---|---|
| `Tasking` | tasking, timer and IRQ path, one action per step that another flow of control can see |
| `Pic8259` | operators: what the two 8259s grant and what an EOI clears |
| `RoundRobin` | abstract scheduler, implemented by `Tasking` |
| `MCTasking` | its instances |
| `TaskingProofs` | its theorems |
| `Paging` | frames, tables, directories, boot mapping, clones |
| `MCPaging`, `PagingProofs` | its instances and theorems, those about the boot mapping and about clones last |
| `Malloc` | `malloc` and `m_free` |
| `Allocator` | abstract allocator, implemented by `Malloc` |
| `MCMalloc`, `MallocProofs` | its instance and theorems |
| `KHeap` | the kernel heap over its ordered array, word by word |
| `KernelAllocator` | abstract allocator, implemented by `KHeap` under careful callers |
| `KHeapBoot` | `KHeap` under the calls that the kernel makes, with the clearing of `clone_table` |
| `MCKHeap`, `MCKHeapBoot` | their instances |
| `KHeapProofs` | the theorems of `KHeap` |
| `Interrupts` | descriptors, gates, stubs, frames, dispatch and return |
| `MCInterrupts`, `InterruptsProofs` | its instance and theorems |
| `Console` | screen, cursor, scrolling, numbers; the text that was written |
| `Keyboard` | extends `Console`: keyboard controller, scan codes, line editing |
| `MCKeyboard`, `KeyboardProofs` | its instance and theorems |
| `Initrd` | the image of `ramdisk.c`, and reading, listing and finding in it |
| `MCInitrd`, `InitrdProofs` | its instance and theorems |
| `Folding` | what `FoldLeft` computes, step by step and for any operator; least and greatest elements of sets of naturals |

An operator whose comment begins "The bug of" is not part of a model: it is a
plausible mistake, kept next to the definition it would replace, that shows that
a property can fail.

### Tasking

One CPU runs one flow of control: `pc` is the next step, `cr3` the page directory
and with it the stack in use (all stacks are at the same virtual address).
`stack[d]` is the sequence of return points on the stack of directory `d`; what
a task switch saves is a pointer into it. Between any two steps an IRQ may be
taken if `iflag` is set and `Granted` names a line.

| Code | Actions |
|---|---|
| `task.c:11-31` `initialise_tasking` | `InitialiseTaskingCli`, `InitialiseTasking` |
| `task.c:102-142` `create_proc` | `CreateProcCli`, `CreateProcNew`, `CreateProcLink`, `CreateProcRet` |
| `task.c:144-184` `fork` | `ForkCli`, `ForkNew`, `ForkLink`, `ForkRet`, `ForkChild` |
| `task.c:69-100` `switch_task` | `SwitchTaskIdle`, `SwitchTaskSave`, `SwitchTaskNext`, `SwitchTaskWrap`, `PerformTaskSwitch` |
| `task.c:190`, `kernel.c:68-74` | `SwitchToUserMode`, `Syscall` |
| `kernel.c:24-31` `proc` | `ProcYield` |
| `isr.c:77-93`, `interrupt.asm`, `timer.c` | `Raise`, `Interrupt`, `TimerHandler`, `NoHandler`, `PageFaultHandler`, `IrqEoi`, `IrqIret` |

The steps between `cli` and `sti` are kept apart, because that the flag protects
them is a claim of the model and not an assumption: a mutant without the `cli`
breaks `SavedContextOwn`. `_kmain` of the model calls `create_proc` or `fork`,
in any order, `NProcs` times.

### Paging

A table and a directory are named by the order in which they were made, 0 is a
null pointer and directory 1 is `kernel_directory`. A page is present, rw and
frame. `Init` leaves the bits of the frames from `Cleared` on arbitrary, which is
what `kmalloc(INDEX_FROM_BIT(nframes))` and the `memset` behind it do (they count
words as bytes). `BootMap` is one page of the loops of `initialise_paging`. A
clone is one step per slot and per page: it runs under `cli`, so nothing
interleaves, but frames may run out in the middle of it. `MapPage` is
`alloc_frame(get_page(p, 1, dir))` with whichever table it has to make;
`MoveStack`, `HeapExpand` and `BootMap` are its callers. `HeapContract` is
`free_frame` as it is: it clears the bit of frame 0 and leaks the frame.
`Write` stands for whatever the running program stores on its stack.

### Malloc

The list of headers is the sequence of its blocks with address, size and flag.
`Malloc` takes the first hole that fits, splits it or takes it whole; `Free`
merges with the block before, then with the one behind; `FreeIgnored` is NULL and
every pointer that is not that of a block. A call is one step: no caller of the
repository runs in an interrupt.

### KHeap and KHeapBoot

Memory is a function from word addresses to words, because the interesting calls
write over what others wrote: a header is three words, a footer two. `kmalloc` is
one pass through `alloc`: `AllocTake` cuts a block out of the first hole that
fits, `AllocExpand` makes the heap longer and leaves the call pending, so that
`alloc` calls itself, and `AllocPanic` is the assertion of `expand`. `kfree` is the
whole of `free`, `contract` included. `mapped` is where the pages that are present end:
`initialise_paging` maps the initial heap, `expand` what it grows by, and nothing takes
a page out again, since `free_frame` clears its frame and not its present bit. An access
at or behind `mapped` is a page fault and ends in `PANIC`: `free` reads the magic behind a
block even if the heap ends there, and `alloc` may leave behind an aligned block
a rest that does not hold a header. In a page given back (`GivenBack`) the old words
are still seen or are gone (`Forget`): the processor may keep the old translation, as
nothing flushes it. Of a system that halted, memory is not kept. Sizes are unsigned and wrap around where the
code's do. `Sound` states what the algorithm relies on. `CarefulSpec` leaves
out the six kinds of call after which it fails (section 3), and `KernelAllocator` is
what the heap then is to its callers.

`KHeapBoot` does not choose its calls: they are those of `initialise_paging`,
`initialise_tasking`, `initialise_initrd` and twice `create_proc`, in the order of
`_kmain`, with the sizes of the machine; only the number of files in the ramdisk is
open. `ClearTable` is the `memset` of `clone_table`, by which paging stores behind
the block that the heap gave it. This is the composition of paging and heap.

### Interrupts

The six entries and the gates are records of the fields that the code fills, and
`Base`, `Limit` and `Target` put them together as the processor does. `Enter` is
everything from the vector to the call of the handler: what the processor pushes,
the two words of the stub, `pusha` and the segments. `FaultHandler`, `IrqHandler` and
`SyscallHandler` are the handlers as far as they touch the frame or halt the system;
`Leave` is the end of the stubs and `iret`, which finds its words by counting and not
by knowing who was interrupted. `Compute` loads the number of the next system call,
and `ToggleShift` is what `input` does to a variable that the documented build puts
into the memory of entry 3.

The system call leaves its result in the frame or elsewhere: the assembly of
`isr.c:228` names no register that the call destroys, so where `r` still is depends
on the compiler, and `SyscallHandler` takes either.

### Console and Keyboard

The variables of `vga.c` are the record `screen`; `text` is what the callers wrote,
kept by the model alone, and `ScreenShowsText` compares the two. Every function of the
console is an operator on the screen, and so is every use of it by `input`.

| Code | Actions |
|---|---|
| port 0x60 and bit 0 of port 0x64 | `Strike` |
| `keyboard.c:93-102`, `get_input_keycode` | `Input`, `ReadStatus`, `SkipRelease`, and `Keycode` in the others |
| Shift and Caps Lock | `Toggle` |
| Enter, Backspace, a character | `EndLine`, `DeleteLast`, `TypeKey` |
| a status without bit 0 | `Drop` |
| calls of `vga.c` by others | `Printf`, `Printfhex`, `Newline`, `Delete`, `Clear` |

The status and the code are read in two steps, and a key may come in between.

### Initrd

The k-th byte of the i-th file is the pair of both numbers, so a read that strays
is seen. `initialise_initrd` adds the location to every offset; `read_fs` clips; a
client lists a directory with `readdir_fs` until it gets NULL, and looks into the one
static `dirent` in a step of its own (`Look`), so that another client's call can
come between. `finddir_fs` does not ask where it searches.

## 3. What TLC checks

| Run | Instance | Result |
|---|---|---|
| `tasking` | 3 created tasks, IRQ lines 0, 1, 8, 14, three frames per stack, ticks modulo 2 | holds: `TypeOK`, `SwitchNotReentered`, `RunningIsCurrent`, `SavedContextOwn`, `UserModeKernelStack`, `ImplementsRoundRobin` |
| `tasking_live` | 2 created tasks, lines 0, 1, 8, two frames, with fairness | holds: `ImplementsFairRoundRobin`, `EveryTaskRuns`, `InterruptsAcknowledged` |
| `tasking_kernel_stack` | one created task | `EveryTaskHasKernelStack` is violated |
| `malloc` | 12 bytes, headers of 2, requests of 0, 1, 2 and 5 | holds: `TypeOK`, `Tiling`, `Coalesced`, `FreeOfFreeIsHarmless`, `ImplementsAllocator` |
| `paging` | 5 frames of which 2 are cleared, 4 slots of 2 entries, up to 4 directories and 6 tables | holds: `TypeOK`, `FramesExclusive`, `IdentityMapped`, `TablesPrivate`, `KernelMappedEverywhere`, `CloneCopies` |
| `paging_exhausted` | the same, all bits cleared | `PanicsWithoutFrames` is violated |
| `kheap` | pages of 8 words; a heap of 3 pages that grows to 4 and shrinks to 2; requests of 1 word, aligned ones of 3 | holds: `TypeOK`, `HeapStaysSound`, `SoundHeapAllocates` |
| `kheap_boot` | the machine's sizes, 0 to 63 files | `BlocksKeepTheirHeaders` is violated |
| `interrupts` | all 49 vectors, two-bit half bytes, two known system calls and one unknown, two handlers deep | holds: `TypeOK`, `SegmentsAreFlat`, `FrameTellsTheTruth`, `ResumesInterrupted` |
| `page_fault` | the same | `PageFaultSeesErrorCode` is violated |
| `keyboard` | 3 lines of 4 cells, numbers of 2 digits; any 6 of 7 scan codes | holds: `TypeOK`, `ScreenShowsText`, `PoliteStaysOnScreen`, `EchoMatchesBuffer`, `EachCodeOnce` |
| `initrd` | up to 2 files of up to 2 bytes named `dev` or `a`, numbers of 4 bits, 2 clients | holds: `TypeOK`, `ReadsTheFile`, `ListingComplete`, `FindsWhatItLists` |

**Why the bounds are enough.** Three created tasks are the fewest with which the
round has a first, a middle and a last created task, and with which a task is
linked while others run. Of the lines, 0 has the timer, 1 and 8 have no handler,
one on each chip, 14 has `page_fault`; the others behave as 1 or 8 do. A third
frame lets an interrupt nest in an interrupt. Twelve bytes hold up to five blocks,
and the request sizes fill a hole exactly, leave a rest too small for a block,
or the smallest that is one. With five frames they run out within a clone or two, which
is when the interesting steps happen; two entries let a table be half full; four
slots hold the kernel, the heap, the part the heap grows into and a stack; four
directories let a clone be cloned. In the kernel heap a block of one word takes
six words of a page of eight and leaves no room behind it for a hole, and an
aligned one of three takes a page but for the header of the next: blocks begin
and end everywhere, the heap grows by one page and gives it back. With 6 codes a
line is filled, passes the end of the screen's line, is deleted over its
beginning, and a line feed scrolls a screen that is full. Two files are the
fewest with a first and a last one, and equal names; reads begin behind the end
and sizes wrap around. Two handlers are one that interrupts another.

`MaxFrames`, `TickModulus`, `MaxTables`, `MaxDirectories`, `MaxDepth` and
`MaxCodes` are bounds that the code does not have. Two runs stop where a
precondition of everything that follows has gone: `kheap` explores a heap up to
and including the first state that is not `Sound`, and `keyboard`, when the
console is used alone, up to the first call that is not polite, that is, passes
the end of a line or goes back over its beginning (`ConsolePolite`). `keyboard` begins
either with the console alone or with `input` alone (`coming`), since nothing in the
kernel writes to the console while a line is typed.

**Deadlock** is checked except in `tasking`, the runs of `KHeap`, `interrupts` and
`page_fault`, where the system halts for good (a page fault, `PANIC`), in
`kheap_boot` also because its calls come to an end.

**Fairness** (`FairSpec` of `Tasking`, used by `tasking_live` only). The CPU
never stops executing: weak fairness of `Execute`. The timer is programmed by the
BIOS to tick for ever: weak fairness of `Raise(0)`. A granted request is taken at
an instruction boundary with the flag set; the CPU meets such boundaries again
and again, not continuously, so `Interrupt(i)` is strongly fair. Interrupts come
slower than their handlers run, so the code they interrupt gets on: strong
fairness of `Kmain` and `IrqIret`. No fairness between tasks is assumed: that
every task runs again follows from the round, and from `proc` calling
`switch_task` (a mutant that does not yield breaks it: with line 0 in service
no timer takes the CPU from a created task).

### What the runs show about the code

* A switch needs no lock because of an accident of ordering: `irq_handler` sends
  the EOI behind the timer handler, so line 0 stays in service and everything
  is masked while any created task runs. Sending the EOI first, as a mutant does,
  lets an interrupt land in the middle of `switch_task`. The price is that
  created tasks are not preempted at all.
* `create_proc` and `fork` store the new task's kernel stack in
  `current_task->kernel_stack` (`task.c:116`, `158`). The new task's field, which
  `task.h:19` calls "Kernel stack location.", is never written, and `switch_task`
  loads the TSS from it (`tasking_kernel_stack`).
* `alloc_frame` compares `first_frame()` with -1, beside the comment "PANIC! no
  free frames!!" (`paging.c:71-74`); `first_frame` returns 0 when there is none,
  so the page is mapped to frame 0 and the system goes on (`paging_exhausted`).
* Frame 0 is "no frame" for `alloc_frame` and `free_frame`, and `free_frame`
  clears its bit instead of that of the frame it gives back (`paging.c:92`).
  `FramesExclusive` therefore leaves frame 0 out, and holds for all others: a
  frame given back leaks, it is never handed out twice.
* The identity mapping of the kernel holds by the order of allocation only.
* `m_free` of a pointer that is free already is harmless because a merged block
  has disappeared from the list and an unmerged one has no free neighbour.
* `kfree` of the last block of the kernel heap reads the magic of a header at the end of
  the heap (`kheap.c:326-327`). That page was never mapped unless the heap was longer
  before, so the call does not return: it ends in a page fault and `PANIC`.
* The kernel heap keeps itself in order except in six kinds of call, each of them
  an operator of `KHeap`, and all six are needed (`HeapStaysSound` is violated without
  any one of them): the page fault just mentioned (`FaultsAtEnd`); an aligned block may leave a hole
  too small for its own header and footer (`LeavesCrampedHole`, `kheap.c:247`); a heap
  that grows lengthens the hole with the highest address although a block lies
  between it and the end (`GrowsInnerHole`, `kheap.c:188`); merging with the hole
  behind leaves that one's footer leading to a header that is no more
  (`MergesForward`, `kheap.c:339`); `contract` rounds by the wrong mask
  (`ShrinksPastHole`, `kheap.c:95`); and behind a heap that has shrunk, where the last
  block can be freed, an old header is taken for a neighbour (`OldHeaderAtEnd`). Nothing in the kernel calls `kfree`.
* The second of these, with the 8196 bytes that `clone_table` clears in a table of
  4096 (`paging.c:196`), meets at boot: the calls of `_kmain` up to its second
  `create_proc` destroy the header of a page table in use, which `kheap.h` says is
  there for every block (`kheap_boot`, 18 steps).
* Every stub pushes a 0 where the processor has pushed an error code for some
  exceptions (`ISR_NOERRCODE 14`, `interrupt.asm:44`), so `page_fault` reads 0 and tells
  nothing of the fault (`page_fault`). `ResumesInterrupted`
  holds all the same, because every exception with an error code halts the system.
* Vector 0 runs the timer handler and returns to the instruction that divided by
  zero; IRQ 14 runs `page_fault`; exceptions from 16 on jump through whatever lies
  behind `irq_routines`.
* `gdt_install` writes three entries behind the end of `gdt` (`gdt.c:4`). In the
  documented build `shift` and `capslock` lie there and hold neither true nor false
  afterwards, so neither key does anything; this is also why the descriptor stays
  whole (`SegmentsAreFlat`). `Keyboard` begins with both possibilities. `get_time`,
  which nothing calls, would write over the other two.
* `input` drops a key that comes between its reading of the status and of the code,
  and only such a key (`EachCodeOnce`). A backspace at the start of a line deletes the
  prompt and stores in front of the buffer, and yet the echo and the buffer agree.
* Reads stay in their file unless `offset+size` exceeds 32 bits (`initrd.c:18`), which
  is the condition of `ReadsTheFile`.
* One static `dirent` serves all listings: a listing is complete unless another
  caller's `readdir` came between a call and the look at its result, which is the
  condition of `ListingComplete`. `finddir` of `/dev` finds the files of the root.

## 4. What is proved

All proofs are for every value of the constants that satisfies the named
assumptions of the modules: any number of tasks and any set of lines with the
timer; any heap, header and request sizes; any number of frames up to 4096 and
any shape of tables and directories; any image, any names and any number of
clients; any screen, prompt and scan codes; a byte of any width from four bits on,
any vectors and handlers nested to any depth.

| Module | Theorems |
|---|---|
| `TaskingProofs` | `Invariance`, `TypeCorrect`, `SwitchIsNotReentered`, `RunningTaskIsCurrent`, `SavedContextIsOwn`, `UserModeHasKernelStack`, `Refinement` (of `RoundRobin`) |
| `MallocProofs` | `Invariance`, `TypeCorrect`, `HeapIsTiled`, `NeighboursMerged`, `FreeTwiceIsHarmless`, `Refinement` (of `Allocator`) |
| `PagingProofs` | `Invariance`, `TypeCorrect`, `FramesAreExclusive`, `TablesArePrivate`, `BootInvariance`, `KernelIsIdentityMapped`, `KernelIsMappedEverywhere`, `ClonesCopy` |
| `KHeapProofs` | `SoundHeapStaysSound`, `HeapTypes`, `HeadersAreKept`, `SoundHeapIsAllocator`, `Refinement` (of `KernelAllocator`) |
| `KeyboardProofs` | `KeyboardTypes`, `ScreenIsText`, `PoliteStays`, `EchoIsBuffer`, `CodesOnce` |
| `InitrdProofs` | `InitrdTypes`, `ReadsFiles`, `ListingIsComplete`, `FindsTheListed` |
| `InterruptsProofs` | `TypeCorrect`, `SegmentsCoverMemory`, `FramesTellTheTruth`, `InterruptedResume` |

**Tasking.** None of the properties is inductive. What makes them so is `Masked`:
while a created task runs or a switch is under way line 0 is in service, hence
nothing is granted. Around it `IInv` says what every stack looks like at
every `pc` (`MainStack`, `TaskStacks`), that the queue is the chain of pids in
order (`Queue`), and which tasks have a context, a fresh entry or nothing yet
(`Saved`, `Modes`). One lemma per action keeps it. The refinement follows: the
only step that changes `cr3` is `PerformTaskSwitch`, to the successor in the
round, and the only one that changes the linked tasks appends one.

**Malloc.** `IInv` is the type of the blocks, `Tiling` and `Coalesced`. `Coalesced`
is needed for `TypeOK` and `Tiling` no more than for itself, but it is what makes
the second `m_free` harmless and what lets `NULL` mean that there is no room: a
gap between two allocated blocks is one block, so if no block fits, no gap does
(`Refinement`). The lemmas are about splicing a sequence: cutting one block in
two and joining two into one keep tiling.

**Paging.** `FramesExclusive` and `TablesPrivate` are inductive once it is
known that slots refer to tables that exist, that a new table is in no directory,
and that the table a clone is filling is in none until the clone is done with it
(`CloneInv`). `MapPageKeeps` carries the argument for the three callers of
`alloc_frame(get_page(...))`; `FrameNumber` is why `free_frame` clears frame 0's
bit and no other: a frame number below 4096 divided by 4096 is 0.

**The boot mapping.** That page n keeps frame n is a fact about the whole boot:
`FreshInv` says that while the first pages are mapped the frames in use are exactly
those of the pages before, and that the pages to come have none; so `first_frame`
returns the number of the page. Afterwards no step changes a page that has a frame,
because the heap and the stacks lie elsewhere (`BootAssumption`). `ShareInv` is what
makes `KernelMappedEverywhere` inductive: the tables of the kernel exist before the
first clone, every directory has them, and the one that a clone fills has those
of the slots it came by.

**Clones.** `CloneCopies` is about a step, the last of a clone, and about pages that
were copied in steps long before it. `CopyInv` carries them: the slots that the clone
has passed are copied, so are the first entries of the table it fills, and the
rest of that table is empty. Each further step writes one frame, and
`FramesExclusive` says that it backs neither a page of the parent nor one that was
copied already; a slot that is shared is its own copy. The writes that the program
makes between clones do not matter, since nothing is claimed until a clone begins.

**Kernel heap.** `SoundHeapStaysSound` and `SoundHeapIsAllocator` are the properties
that TLC checks, about any sound heap: of any size, with any blocks and holes, and
whatever memory holds between what `alloc` and `free` wrote. `Sound` is its own
inductive invariant, but only for a step that is none of the six kinds
(`CarefulNext`), so the theorems about reachable states, `HeapTypes`, `HeadersAreKept`
and `Refinement`, are about the behaviours without such a step (`CarefulSpec`). That is
a real condition on the callers: the run `kheap_boot` violates the same
`BlocksKeepTheirHeaders` at boot.

The argument takes `Sound` apart into `Good`, about memory, blocks, holes and an end,
and `Distinct`, about the index. In a good heap blocks and holes lie side by side
(`Tiles`), and each agrees with memory by itself (`Tile`). Every call replaces what
lies between two addresses at which tiles begin: `Replace` says that the heap stays
good if what is put there is good, if the rest of memory is kept, and if it ends where
the old ended, or at the new end of the heap. Each store of the code is then one case:
a hole cut into pieces (`CutHole`), a block that becomes a hole (`BlockToHole`), two
holes that become one (`TwoHoles`), a last hole that gets another length (`LastHole`,
`LastTwoHoles`), a new one at the end (`NewHole`). Pages that are given back do not
matter, because they lie behind the new end (`GivenBackBehind`, `ForgetLeaves`). What is hard in between is that the
code does not know tiles: `free` finds the hole in front by a magic, which may be left
over from something else. There is always a tile that ends where the block begins
(`Predecessor`), and in a good heap a magic at its end is that of its own footer
(`LeftHole`). `InsertFacts` and `RemoveFacts` say that the ordered array loses no hole,
though the sizes by which it was ordered have changed since. For the abstract allocator
it remains that a new block begins where none did (`Placed`), and on a page if asked
(`OnPage`): that regions lie apart is then read off the next sound heap. The
assumptions: the heap takes less than half of the address space and no request comes
near its size (`WordsAssumption`), and sizes are multiples of a page where the
constants of `kheap.h` are (`PagesAssumption`, `LimitsAssumption`).

**Console.** `Fits` says that a screen and a text belong together: the cursor stands
behind the last line, every cell shows what the text has there, and nothing was
stored outside the memory, as long as the callers are polite. It is inductive over
characters, and `OnScreen` and `InText` (`Folding`) carry it over messages. For
numbers, `HexDigitsRight` shows that the loop of `printfhex` prints the digits
from the first that is no zero on: the fold is followed digit by digit, which needs
`Power`, a recursive function, and `IsLength`, how many digits a number has.
The assumptions: messages and prompt are characters, and numbers fit the digits.

**Keyboard.** `EchoMatchesBuffer` is inductive with the types: the pointer into the
buffer never leaves it because each code moves it by at most one and there are
`MaxCodes` of them (`Read`), whatever that number is. For `EachCodeOnce` the invariant
`StatusInv` relates what was read of the status to the controller as it is now.

**Initrd.** `NodesInv` says that the nodes are those of the files that `ramdisk.c` was
given; `ListingInv` that a listing which was not spoiled has taken the first names
there are, and that the `dirent` holds the next one while the client has not looked
at it, unless someone else's call came, which spoils it. `ReadsTheFile` rests on where
the files lie in the image (`Place`): the lengths of those before are summed up by a
fold, and files do not overlap because the sums grow. `HeadersInv` says that the
headers hold these places, relocated once. The image fits into 32 bits
(`RoomAssumption`).

**Folds.** No theorem of the library about folds can be used, since they take
operators as parameters. `Folding` proves what `FoldLeft` does from its definition:
the recursive function that the definition chooses exists (`IterExists`, by way of a
least counterexample), hence a sequence of intermediate values from the base to
the fold, one step for each element (`FoldWalk`).
A module that folds instantiates it with its operator.

**Interrupts.** The frames of nested handlers lie on one stack, so `IInv` describes
all of it: `Frame(a, stack)` says where the words of handler `a` are, counted from
where it was entered, and `FramesInv` that each frame begins where the one below
ends. A handler touches its own frame only (`FrameKept`), and one that returns has
no error code, which would shift what `iret` finds: that is `FaultHandler`, where
a vector with an error code always ends in a halt. `SegmentsCoverMemory` rests on
arithmetic about the digits of a number (`TwoDigits`, `GateBase`, `FlatLimit`), and on
`EntryIsNoBoolean`: the keyboard does not take the entry for `false` or `true`.
The assumptions: stubs have addresses that fit (`HalfAssumption`), and the
TSS has a limit that fits (`TssAssumption`).

**Only model-checked.** The properties of `tasking_live`: that every task runs, that
interrupts are acknowledged, and that `Tasking` implements the fairness of the abstract
scheduler. They need liveness or ENABLED, which the prover does not reason about. The violations are
single traces by nature, and nothing is claimed of the kernel heap once a call has
been of one of the six kinds.

## 5. What is not modelled, and why

* Of the kernel heap: `kfree` of a null pointer, which no caller passes; the placement
  allocation before the heap exists, which only counts upwards; the end of the index
  (`ordered_array.c:43`), 131072 slots, while a hole needs 20 bytes and the heap has a
  megabyte. What callers keep in their blocks, which might by accident hold a magic, and
  in general what memory held before the heap wrote to it, or what a frame held that
  is mapped again: such words count as 0. Frame 0, which a page given back then shows,
  is taken to hold no magic.
* The translation cache of the processor beyond that: nothing invalidates it but a load of
  `cr3`, so a page that the heap gave back and got again may be written through its old frame.
* The composition of `KHeap` with `Paging` beyond `KHeapBoot`: `Paging` takes its tables
  from nowhere, since `BlocksKeepTheirHeaders` says that the heap does not keep them
  apart anyway.
* System calls with two to five arguments, which nothing defines, and the fields of
  the TSS but `esp0`.
* `scroll`, `putcharat` and `vga_disable_cursor` of `vga.c`, `get_ascii_char` and the names
  of `kbdef.h`, `get_time` and the CMOS, most of `string.c`: nothing calls them. `input` has
  no caller either; it is the keyboard driver all the same.
* The exits of `ramdisk.c`: a file that it cannot open ends the builder (`ramdisk.c:32-36`)
  before it wrote anything, and when `fopen` fails for the image it crashes. Either way
  there is no image of this run to boot.
* What the properties of the files and of the console take for granted: `ReadsTheFile`
  leaves out a read whose offset and size overflow, `ListingComplete` leaves out a listing
  that another client's call disturbed, no caller of the console deletes what is not
  there, and the keyboard run lets the pointer of `input` go below its buffer. What the code
  does then is listed among the hazards with the reason why no property excludes it.
* Port I/O has no state of its own; `assert.c` prints and halts, which the modules that
  need it have as a state in which nothing goes on.
* The accessed, dirty and user bits: nothing reads the first two, and every
  caller sets user with present. The contents of messages.
* `move_stack`'s relocation of the words on the boot stack, which depends on
  addresses and on the compiler's frames.
* `timer_wait` and `sleep`: nothing of the kernel calls them while tasks run. Negative
  sizes of `malloc`. How deep interrupts nest on a 2048-byte kernel stack.
* Boot code, linking, and the build scripts.

## 6. Plan

What is left, in order:

1. **Tables made after a clone** (`kheap.c:84`): a directory that was cloned before the
   heap grew into a new table has no entry for it. A statement of what the kernel
   would need, and the run that shows where it fails, once a caller relies on it.
