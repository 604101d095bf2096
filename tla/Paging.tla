------------------------------- MODULE Paging -------------------------------
(***************************************************************************)
(* Frames, page tables and page directories of paging.c: the bitmap of      *)
(* frames, the pages that initialise_paging, the kernel heap and move_stack *)
(* map, and clone_directory, which create_proc and fork call.               *)
(*                                                                         *)
(* A clone runs with interrupts masked; its loops are one step per page, so *)
(* that running out of frames in the middle of one shows.  Tables and       *)
(* directories are named by their position in a sequence, 0 being none; the *)
(* first directory is kernel_directory.  The bits accessed and dirty, which *)
(* nothing reads, are left out, and so is user: every caller passes         *)
(* is_kernel = 0, so it is set with present.                                *)
(***************************************************************************)
EXTENDS Integers, Sequences

CONSTANTS
  NFrames,      \* nframes: 4096, the frames of 16 MB
  Entries,      \* pages in a table: 1024
  Slots,        \* tables in a directory: 1024
  Cleared,      \* the frames whose bits initialise_paging clears: 1024
  Identity,     \* the pages mapped to themselves: those of the first 4 MB
  HeapStart,    \* the first page of the kernel heap
  HeapPages,    \* the pages that the heap has to begin with
  HeapMax,      \* the last page that the heap may grow to
  StackPages,   \* the pages that move_stack maps
  Values,       \* what a page may hold
  MaxTables, MaxDirectories   \* bounds of the model, not of the code

PageSize == 4096

ASSUME FramesAssumption == NFrames \in 1 .. PageSize
ASSUME TablesAssumption == Entries \in Nat \ {0} /\ Slots \in Nat \ {0}
ASSUME BootAssumption ==
  /\ Identity \in Nat \ {0} /\ HeapStart \in Nat /\ HeapPages \in Nat \ {0} /\ HeapMax \in Nat
  /\ Cleared \in Identity .. NFrames
  /\ Identity <= HeapStart /\ HeapStart + HeapPages - 1 <= HeapMax
  /\ HeapMax < Slots * Entries /\ StackPages \subseteq Identity .. Slots * Entries - 1
  /\ HeapStart \div Entries = (HeapStart + HeapPages - 1) \div Entries

Frames == 0 .. NFrames - 1
Pages == 0 .. Slots * Entries - 1
Slot(p) == p \div Entries
Entry(p) == p % Entries

Page == [present : BOOLEAN, rw : BOOLEAN, frame : Frames]
EmptyTable == [e \in 0 .. Entries - 1 |-> [present |-> FALSE, rw |-> FALSE, frame |-> 0]]
EmptyDirectory == [s \in 0 .. Slots - 1 |-> 0]
kernel_directory == 1

NoClone == [src |-> 0, slot |-> 0, table |-> 0, entry |-> 0]

VARIABLES
  frames,             \* the frames whose bit is set
  tables,             \* the page tables, in the order they were made
  directories,        \* the page directories: in each slot a table or 0
  current_directory,  \* 0 until paging is enabled
  boot,               \* how many pages initialise_paging has mapped
  clone,              \* how far clone_directory is, NoClone while not called
  ram                 \* what each frame holds

vars == <<frames, tables, directories, current_directory, boot, clone, ram>>
-----------------------------------------------------------------------------
(* INDEX_FROM_BIT counts words where kmalloc and memset take bytes: only    *)
(* the first quarter of the bitmap is cleared, the rest holds any bits.     *)
(* The table of the kernel heap is made before any page is mapped.          *)
Init ==
  /\ frames \in SUBSET (Cleared .. NFrames - 1)
  /\ tables = <<EmptyTable>>
  /\ directories = <<[EmptyDirectory EXCEPT ![Slot(HeapStart)] = 1]>>
  /\ current_directory = 0
  /\ boot = 0
  /\ clone = NoClone
  /\ ram \in {[f \in Frames |-> v] : v \in Values}

(* The bug of a scan that runs past the bitmap. *)
FirstFramePastEnd ==
  CHOOSE f \in 0 .. NFrames : f \notin frames /\ \A g \in Frames \ frames : f <= g

(* The bug of a scan that begins behind frame 0. *)
FirstFrameFromOne ==
  IF Frames \subseteq frames \cup {0} THEN 0
  ELSE CHOOSE f \in Frames \ (frames \cup {0}) : \A g \in Frames \ (frames \cup {0}) : f <= g

(* The lowest frame that is free, and 0 when there is none. *)
first_frame ==
  IF Frames \subseteq frames THEN 0
  ELSE CHOOSE f \in Frames \ frames : \A g \in Frames \ frames : f <= g

(* alloc_frame: a page that has a frame keeps it, and frame 0 counts as none. *)
alloc_frame(page, is_writeable) ==
  IF page.frame # 0 THEN page
  ELSE [present |-> TRUE, rw |-> is_writeable, frame |-> first_frame]

(* The bug of an index that stays in the first word of the bitmap. *)
SetFrameFirstWord(page) ==
  IF page.frame # 0 THEN frames ELSE frames \cup {first_frame % Cleared}

set_frame(page) == IF page.frame # 0 THEN frames ELSE frames \cup {first_frame}

(* alloc_frame(get_page(p, 1, dir)): the table is made if there is none.    *)
MapPage(dir, p, is_writeable) ==
  LET old  == directories[dir][Slot(p)]
      made == IF old = 0 THEN Append(tables, EmptyTable) ELSE tables
      id   == IF old = 0 THEN Len(made) ELSE old
      page == made[id][Entry(p)]
  IN  /\ old = 0 => Len(tables) < MaxTables
      /\ directories' = [directories EXCEPT ![dir][Slot(p)] = id]
      /\ tables' = [made EXCEPT ![id][Entry(p)] = alloc_frame(page, is_writeable)]
      /\ frames' = set_frame(page)
-----------------------------------------------------------------------------
(* initialise_paging *)

BootPages == Identity + HeapPages

BootMap ==
  /\ boot < BootPages
  /\ MapPage(kernel_directory,
             IF boot < Identity THEN boot ELSE HeapStart + (boot - Identity), FALSE)
  /\ boot' = boot + 1
  /\ UNCHANGED <<current_directory, clone, ram>>

CloneBegin(src) ==
  /\ directories' = Append(directories, EmptyDirectory)
  /\ clone' = [NoClone EXCEPT !.src = src]
  /\ UNCHANGED <<frames, tables, boot, ram>>

(* Paging is switched on, and the kernel goes on in a clone of its directory. *)
EnablePaging ==
  /\ boot = BootPages /\ current_directory = 0
  /\ current_directory' = kernel_directory
  /\ CloneBegin(kernel_directory)
-----------------------------------------------------------------------------
(* clone_directory builds the last directory. *)

Running == current_directory # 0 /\ clone = NoClone
Cloning == clone # NoClone
child == Len(directories)
source == directories[clone.src][clone.slot]

(* create_proc and fork *)
CloneDirectory ==
  /\ Running /\ Len(directories) < MaxDirectories
  /\ CloneBegin(current_directory)
  /\ UNCHANGED current_directory

CloneSkip ==
  /\ Cloning /\ clone.slot < Slots /\ source = 0
  /\ clone' = [clone EXCEPT !.slot = @ + 1]
  /\ UNCHANGED <<frames, tables, directories, current_directory, boot, ram>>

(* The bug of a clone that shares every table. *)
SharedAlways == TRUE

(* The bug of a clone that copies the tables of the kernel, too. *)
SharedNever == FALSE

Shared == directories[kernel_directory][clone.slot] = source

CloneLink ==
  /\ Cloning /\ clone.slot < Slots /\ source # 0 /\ Shared
  /\ directories' = [directories EXCEPT ![child][clone.slot] = source]
  /\ clone' = [clone EXCEPT !.slot = @ + 1]
  /\ UNCHANGED <<frames, tables, current_directory, boot, ram>>

CloneTable ==
  /\ Cloning /\ clone.slot < Slots /\ source # 0 /\ ~Shared
  /\ clone.table = 0 /\ Len(tables) < MaxTables
  /\ tables' = Append(tables, EmptyTable)
  /\ clone' = [clone EXCEPT !.table = Len(tables) + 1]
  /\ UNCHANGED <<frames, directories, current_directory, boot, ram>>

(* copy_page_physical of process.asm *)
CopyPageBackwards(src, dest) == [ram EXCEPT ![src] = ram[dest]]

copy_page_physical(src, dest) == [ram EXCEPT ![dest] = ram[src]]

(* The copy gets a frame of its own, the rights and the contents.           *)
ClonePage ==
  LET page == tables[source][clone.entry]
      copy == alloc_frame(tables[clone.table][clone.entry], FALSE)
  IN  /\ clone.table # 0 /\ clone.entry < Entries
      /\ IF page.frame = 0
         THEN UNCHANGED <<frames, tables, ram>>
         ELSE /\ frames' = set_frame(tables[clone.table][clone.entry])
              /\ tables' = [tables EXCEPT ![clone.table][clone.entry] =
                              [copy EXCEPT !.present = @ \/ page.present, !.rw = @ \/ page.rw]]
              /\ ram' = copy_page_physical(page.frame, copy.frame)
      /\ clone' = [clone EXCEPT !.entry = @ + 1]
      /\ UNCHANGED <<directories, current_directory, boot>>

CloneTableDone ==
  /\ clone.table # 0 /\ clone.entry = Entries
  /\ directories' = [directories EXCEPT ![child][clone.slot] = clone.table]
  /\ clone' = [NoClone EXCEPT !.src = clone.src, !.slot = clone.slot + 1]
  /\ UNCHANGED <<frames, tables, current_directory, boot, ram>>

(* initialise_paging switches to the clone it made; the others leave that   *)
(* to the switch to the new task.                                           *)
CloneReturn ==
  /\ Cloning /\ clone.slot = Slots
  /\ clone' = NoClone
  /\ current_directory' =
       IF current_directory = kernel_directory THEN child ELSE current_directory
  /\ UNCHANGED <<frames, tables, directories, boot, ram>>
-----------------------------------------------------------------------------
(* move_stack maps pages where the caller runs.                             *)
MoveStack(p) ==
  /\ Running
  /\ MapPage(current_directory, p, TRUE)
  /\ UNCHANGED <<current_directory, boot, clone, ram>>

(* expand of kheap.c maps pages in kernel_directory, whichever runs.        *)
HeapExpand(p) ==
  /\ Running
  /\ MapPage(kernel_directory, p, TRUE)
  /\ UNCHANGED <<current_directory, boot, clone, ram>>

(* free_frame hands clear_frame the number of the frame where an address is *)
(* expected: the bit that is cleared is that of frame 0.  present stays.    *)
Freed(page) == [page EXCEPT !.frame = 0]
clear_frame(frame_addr) == frames \ {frame_addr \div PageSize}

HeapContract(p) ==
  LET id == directories[kernel_directory][Slot(p)]
  IN  /\ Running /\ id # 0
      /\ tables[id][Entry(p)].frame # 0
      /\ tables' = [tables EXCEPT ![id][Entry(p)] = Freed(@)]
      /\ frames' = clear_frame(tables[id][Entry(p)].frame)
      /\ UNCHANGED <<directories, current_directory, boot, clone, ram>>

(* switch_page_directory to that of a task. *)
SwitchPageDirectory(dir) ==
  /\ Running
  /\ current_directory' = dir
  /\ UNCHANGED <<frames, tables, directories, boot, clone, ram>>

(* What runs writes to its stack, the memory it does not share.             *)
Write(p, v) ==
  LET id == directories[current_directory][Slot(p)]
  IN  /\ Running /\ id # 0 /\ tables[id][Entry(p)].present
      /\ ram' = [ram EXCEPT ![tables[id][Entry(p)].frame] = v]
      /\ UNCHANGED <<frames, tables, directories, current_directory, boot, clone>>

Next ==
  \/ BootMap \/ EnablePaging
  \/ CloneDirectory \/ CloneSkip \/ CloneLink \/ CloneTable \/ ClonePage
  \/ CloneTableDone \/ CloneReturn
  \/ \E p \in StackPages : MoveStack(p)
  \/ \E p \in HeapStart .. HeapMax : HeapExpand(p) \/ HeapContract(p)
  \/ \E dir \in 2 .. Len(directories) : SwitchPageDirectory(dir)
  \/ \E p \in StackPages, v \in Values : Write(p, v)

Spec == Init /\ [][Next]_vars
-----------------------------------------------------------------------------
TypeOK ==
  /\ frames \subseteq Frames
  /\ tables \in Seq([0 .. Entries - 1 -> Page])
  /\ directories \in Seq([0 .. Slots - 1 -> 0 .. Len(tables)])
  /\ current_directory \in 0 .. Len(directories)
  /\ boot \in 0 .. BootPages
  /\ clone \in [src : 0 .. Len(directories), slot : 0 .. Slots,
                table : 0 .. Len(tables), entry : 0 .. Entries]
  /\ ram \in [Frames -> Values]

(* No frame backs two pages, whoever maps, clones, expands and contracts in *)
(* whatever order, and none is free while a page has it.  Frame 0 is the    *)
(* exception the code makes: it stands for no frame.                        *)
FramesExclusive ==
  \A t, u \in 1 .. Len(tables) : \A d, e \in 0 .. Entries - 1 :
     tables[t][d].frame # 0 =>
        /\ tables[t][d].frame \in frames
        /\ (tables[t][d].frame = tables[u][e].frame => t = u /\ d = e)

(* The kernel runs where it was loaded: the first pages are mapped to the   *)
(* frames of their own number, which holds because of the order in which    *)
(* initialise_paging allocates and because first_frame finds frame 0 once.  *)
IdentityMapped ==
  \A p \in Pages : p < boot /\ p < Identity =>
     LET page == tables[directories[kernel_directory][Slot(p)]][Entry(p)]
     IN  page.present /\ page.frame = p

(* A table outside the kernel's belongs to one directory: tasks share what  *)
(* the kernel maps and nothing else.                                        *)
TablesPrivate ==
  \A c, d \in 1 .. Len(directories) : \A r, s \in 0 .. Slots - 1 :
     directories[c][r] = directories[d][s] /\ directories[c][r] # 0 /\ (c # d \/ r # s)
       => r = s /\ directories[c][r] = directories[kernel_directory][s]

(* Whatever runs finds the kernel and the heap as it began mapped as the    *)
(* kernel directory has them: a switch never takes them away.               *)
KernelMappedEverywhere ==
  \A d \in 1 .. Len(directories) : \A s \in {Slot(p) : p \in 0 .. Identity - 1} \cup {Slot(HeapStart)} :
     (d = child /\ Cloning) \/ directories[d][s] = directories[kernel_directory][s]

(* A clone leaves the memory of the parent as it is, and the child begins   *)
(* with a copy of it, page for page, with the same rights.  The pages that  *)
(* got frame 0 are left out: they were given it when no frame was free, or  *)
(* after free_frame had cleared its bit.                                    *)
Lookup(dir, p) ==
  IF directories[dir][Slot(p)] = 0 THEN EmptyTable[0]
  ELSE tables[directories[dir][Slot(p)]][Entry(p)]

CloneCopies ==
  [][Cloning => \A p \in Pages :
       LET old == Lookup(clone.src, p)
           new == Lookup(child, p)
       IN  old.frame # 0 =>
             /\ ram'[old.frame] = ram[old.frame]
             /\ CloneReturn =>
                  /\ new.present /\ new.rw = old.rw
                  /\ new.frame # 0 => ram[new.frame] = ram[old.frame]]_vars

(* The comment in alloc_frame: with no free frame the kernel panics, so no  *)
(* page is mapped from then on.                                             *)
PanicsWithoutFrames ==
  [][Frames \subseteq frames =>
       \A t \in 1 .. Len(tables), e \in 0 .. Entries - 1 :
          ~tables[t][e].present => ~tables'[t][e].present]_vars
=============================================================================
