---------------------------- MODULE PagingProofs ----------------------------
(***************************************************************************)
(* Proofs about Paging for every number of frames and every shape of tables *)
(* and directories: types, exclusive frames and private tables; then that   *)
(* the first pages are mapped to their own frames, that no directory loses  *)
(* them or the heap, and that a clone is a copy.                            *)
(***************************************************************************)
EXTENDS Paging, SequenceTheorems, TLAPS

Numbers == INSTANCE Folding WITH Op <- +    \* only for its LeastElement

Table == [0 .. Entries - 1 -> Page]
Directory == [0 .. Slots - 1 -> Nat]

(* FramesExclusive for any tables and bitmap. *)
Exclusive(tabs, fr) ==
  \A t, u \in 1 .. Len(tabs) : \A d, e \in 0 .. Entries - 1 :
     tabs[t][d].frame # 0 =>
        /\ tabs[t][d].frame \in fr
        /\ (tabs[t][d].frame = tabs[u][e].frame => t = u /\ d = e)

(* free_frame hands clear_frame a number below 4096.                        *)
LEMMA FrameNumber == \A f \in Frames : f \div PageSize = 0
<1>1. NFrames \in 1 .. 4096 /\ PageSize = 4096
  BY FramesAssumption DEF PageSize
<1>2. Frames \subseteq 0 .. 4095
  BY <1>1 DEF Frames
<1>3. ASSUME NEW f \in Frames PROVE f \div PageSize = 0
  <2>1. f \in 0 .. 4095
    BY <1>2
  <2>2. f \div 4096 = 0
    BY <2>1
  <2> QED
    BY <1>1, <2>2
<1> QED
  BY <1>3

USE FramesAssumption, TablesAssumption
-----------------------------------------------------------------------------
(* The table and the entry of a page are within bounds.                     *)
LEMMA PageParts ==
  ASSUME NEW p \in Pages
  PROVE  Slot(p) \in 0 .. Slots - 1 /\ Entry(p) \in 0 .. Entries - 1
<1> DEFINE q == p \div Entries
<1>1. p \in Nat /\ Entries \in Nat /\ Entries > 0 /\ Slots \in Nat /\ Slots > 0
      /\ p < Slots * Entries
  BY DEF Pages
<1>2. q \in Int /\ p % Entries \in 0 .. Entries - 1 /\ p = Entries * q + (p % Entries)
  BY <1>1
<1> HIDE DEF q
<1>3. q >= 0
  BY <1>1, <1>2
<1>4. q < Slots
  BY <1>1, <1>2
<1> QED
  BY <1>2, <1>3, <1>4 DEF Slot, Entry, q

(* first_frame finds a frame whose bit is not set, or returns 0.            *)
LEMMA FirstFrame ==
  ASSUME frames \subseteq Frames
  PROVE  first_frame \in Frames /\ (first_frame # 0 => first_frame \notin frames)
<1>1. 0 \in Frames
  BY DEF Frames, PageSize
<1>2. CASE Frames \subseteq frames
  BY <1>1, <1>2 DEF first_frame
<1>3. CASE ~(Frames \subseteq frames)
  <2> DEFINE free == Frames \ frames
  <2>1. free \in SUBSET Nat /\ free # {}
    BY <1>3 DEF Frames, PageSize
  <2>2. PICK f \in free : \A g \in free : ~(g < f)
    BY <2>1, Numbers!LeastElement
  <2>3. \E h \in free : \A g \in free : h <= g
    <3>1. \A g \in free : f <= g
      BY <2>1, <2>2
    <3> QED
      BY <3>1
  <2>4. (CHOOSE h \in free : \A g \in free : h <= g) \in free
    BY <2>3
  <2> QED
    BY <1>3, <2>4 DEF first_frame
<1> QED
  BY <1>2, <1>3

(* alloc_frame leaves a page with the frame it had or gives it one that was *)
(* not in use, and marks it.                                                *)
LEMMA AllocFrame ==
  ASSUME frames \subseteq Frames, NEW page \in Page, NEW w \in BOOLEAN
  PROVE  /\ alloc_frame(page, w) \in Page
         /\ set_frame(page) \subseteq Frames /\ frames \subseteq set_frame(page)
         /\ \/ alloc_frame(page, w).frame \in {0, page.frame}
            \/ /\ alloc_frame(page, w).frame \notin frames
               /\ alloc_frame(page, w).frame \in set_frame(page)
<1>1. first_frame \in Frames /\ (first_frame # 0 => first_frame \notin frames)
  BY FirstFrame
<1>2. CASE page.frame # 0
  BY <1>2 DEF alloc_frame, set_frame
<1>3. CASE page.frame = 0
  <2>1. alloc_frame(page, w) = [present |-> TRUE, rw |-> w, frame |-> first_frame]
    BY <1>3 DEF alloc_frame
  <2>2. set_frame(page) = frames \cup {first_frame}
    BY <1>3 DEF set_frame
  <2>3. alloc_frame(page, w) \in Page
    BY <1>1, <2>1 DEF Page
  <2> QED
    BY <1>1, <2>1, <2>2, <2>3
<1> QED
  BY <1>2, <1>3

Put(tabs, t, e, page) == [tabs EXCEPT ![t][e] = page]

(* A page of a table is replaced. *)
LEMMA PutFacts ==
  ASSUME NEW tabs \in Seq(Table), NEW t \in 1 .. Len(tabs), NEW e \in 0 .. Entries - 1,
         NEW page \in Page
  PROVE  /\ Put(tabs, t, e, page) \in Seq(Table) /\ Len(Put(tabs, t, e, page)) = Len(tabs)
         /\ \A u \in 1 .. Len(tabs) : \A d \in 0 .. Entries - 1 :
               Put(tabs, t, e, page)[u][d] = IF u = t /\ d = e THEN page ELSE tabs[u][d]
<1> DEFINE row == [tabs[t] EXCEPT ![e] = page]
<1>1. tabs[t] \in Table
  OBVIOUS
<1>2. row \in Table /\ \A d \in 0 .. Entries - 1 : row[d] = IF d = e THEN page ELSE tabs[t][d]
  BY <1>1 DEF Table
<1>3. Put(tabs, t, e, page) = [tabs EXCEPT ![t] = row]
  BY DEF Put
<1> HIDE DEF row
<1>4. /\ [tabs EXCEPT ![t] = row] \in Seq(Table) /\ Len([tabs EXCEPT ![t] = row]) = Len(tabs)
      /\ \A u \in 1 .. Len(tabs) : [tabs EXCEPT ![t] = row][u] = IF u = t THEN row ELSE tabs[u]
  BY <1>2
<1> QED
  BY <1>2, <1>3, <1>4

(* A page that takes no frame, keeps its own or takes one not in use leaves *)
(* the frames exclusive.                                                    *)
LEMMA PutExclusive ==
  ASSUME NEW tabs \in Seq(Table), NEW fr, NEW fs, Exclusive(tabs, fr),
         \A f \in fr : f # 0 => f \in fs,
         NEW t \in 1 .. Len(tabs), NEW e \in 0 .. Entries - 1, NEW page \in Page,
         \/ page.frame \in {0, tabs[t][e].frame}
         \/ page.frame \notin fr /\ page.frame \in fs
  PROVE  Exclusive(Put(tabs, t, e, page), fs)
<1> DEFINE new == Put(tabs, t, e, page)
<1>1. /\ Len(new) = Len(tabs)
      /\ \A u \in 1 .. Len(tabs) : \A d \in 0 .. Entries - 1 :
            new[u][d] = IF u = t /\ d = e THEN page ELSE tabs[u][d]
  BY PutFacts
<1> HIDE DEF new
<1>2. ASSUME NEW u \in 1 .. Len(tabs), NEW d \in 0 .. Entries - 1, new[u][d].frame # 0
      PROVE  new[u][d].frame \in fs
  <2>1. CASE u = t /\ d = e
    BY <1>1, <1>2, <2>1 DEF Exclusive
  <2>2. CASE ~(u = t /\ d = e)
    BY <1>1, <1>2, <2>2 DEF Exclusive
  <2> QED
    BY <2>1, <2>2
<1>3. ASSUME NEW u \in 1 .. Len(tabs), NEW d \in 0 .. Entries - 1,
             NEW v \in 1 .. Len(tabs), NEW c \in 0 .. Entries - 1,
             new[u][d].frame # 0, new[u][d].frame = new[v][c].frame
      PROVE  u = v /\ d = c
  <2>1. CASE (u = t /\ d = e) /\ (v = t /\ c = e)
    BY <2>1
  <2>2. CASE (u = t /\ d = e) /\ ~(v = t /\ c = e)
    <3>1. page.frame # 0 /\ page.frame = tabs[v][c].frame
      BY <1>1, <1>3, <2>2
    <3>2. page.frame \in fr
      BY <3>1 DEF Exclusive
    <3>3. tabs[t][e].frame = tabs[v][c].frame
      BY <3>1, <3>2
    <3> QED
      BY <2>2, <3>1, <3>3 DEF Exclusive
  <2>3. CASE ~(u = t /\ d = e) /\ (v = t /\ c = e)
    <3>1. page.frame # 0 /\ page.frame = tabs[u][d].frame
      BY <1>1, <1>3, <2>3
    <3>2. page.frame \in fr
      BY <3>1 DEF Exclusive
    <3>3. tabs[t][e].frame = tabs[u][d].frame
      BY <3>1, <3>2
    <3> QED
      BY <2>3, <3>1, <3>3 DEF Exclusive
  <2>4. CASE ~(u = t /\ d = e) /\ ~(v = t /\ c = e)
    <3>1. new[u][d] = tabs[u][d] /\ new[v][c] = tabs[v][c]
      BY <1>1, <2>4
    <3> QED
      BY <1>3, <3>1 DEF Exclusive
  <2> QED
    BY <2>1, <2>2, <2>3, <2>4
<1>4. Exclusive(new, fs)
  BY <1>1, <1>2, <1>3 DEF Exclusive
<1> QED
  BY <1>4 DEF new

(* A new table has no frames yet. *)
LEMMA AppendTable ==
  ASSUME NEW tabs \in Seq(Table)
  PROVE  /\ Append(tabs, EmptyTable) \in Seq(Table)
         /\ Len(Append(tabs, EmptyTable)) = Len(tabs) + 1
         /\ \A fr : Exclusive(tabs, fr) => Exclusive(Append(tabs, EmptyTable), fr)
<1> DEFINE new == Append(tabs, EmptyTable)
<1>1. EmptyTable \in Table /\ \A e \in 0 .. Entries - 1 : EmptyTable[e].frame = 0
  <2>1. 0 \in Frames
    BY DEF Frames, PageSize
  <2> QED
    BY <2>1 DEF EmptyTable, Table, Page
<1>2. /\ new \in Seq(Table) /\ Len(new) = Len(tabs) + 1 /\ new[Len(tabs) + 1] = EmptyTable
      /\ \A t \in 1 .. Len(tabs) : new[t] = tabs[t]
  BY <1>1
<1> HIDE DEF new
<1>3. ASSUME NEW fr, Exclusive(tabs, fr) PROVE Exclusive(new, fr)
  <2>1. \A t \in 1 .. Len(new) : \A e \in 0 .. Entries - 1 :
           new[t][e].frame # 0 => t \in 1 .. Len(tabs) /\ new[t] = tabs[t]
    BY <1>1, <1>2
  <2> QED
    <3>1. ASSUME NEW t \in 1 .. Len(new), NEW d \in 0 .. Entries - 1, new[t][d].frame # 0
          PROVE  new[t][d].frame \in fr
      BY <1>3, <2>1, <3>1 DEF Exclusive
    <3>2. ASSUME NEW t \in 1 .. Len(new), NEW d \in 0 .. Entries - 1,
                 NEW u \in 1 .. Len(new), NEW e \in 0 .. Entries - 1,
                 new[t][d].frame # 0, new[t][d].frame = new[u][e].frame
          PROVE  t = u /\ d = e
      <4>1. /\ t \in 1 .. Len(tabs) /\ new[t] = tabs[t]
            /\ u \in 1 .. Len(tabs) /\ new[u] = tabs[u]
        BY <2>1, <3>2
      <4> QED
        BY <1>3, <3>2, <4>1 DEF Exclusive
    <3> QED
      BY <3>1, <3>2 DEF Exclusive
<1> QED
  BY <1>2, <1>3 DEF new
-----------------------------------------------------------------------------
(* TablesPrivate for any directories. *)
Private(dirs) ==
  \A c, d \in 1 .. Len(dirs) : \A r, s \in 0 .. Slots - 1 :
     dirs[c][r] = dirs[d][s] /\ dirs[c][r] # 0 /\ (c # d \/ r # s)
       => r = s /\ dirs[c][r] = dirs[kernel_directory][s]

(* What Private says of two slots.                                          *)
LEMMA PrivateSlots ==
  ASSUME NEW dirs, Private(dirs), NEW c \in 1 .. Len(dirs), NEW d \in 1 .. Len(dirs),
         NEW r \in 0 .. Slots - 1, NEW s \in 0 .. Slots - 1,
         dirs[c][r] = dirs[d][s], dirs[c][r] # 0, c # d \/ r # s
  PROVE  r = s /\ dirs[c][r] = dirs[kernel_directory][s]
  BY DEF Private

(* The slots of the directories hold 0 or one of n tables. *)
References(dirs, n) ==
  /\ dirs \in Seq(Directory) /\ Len(dirs) > 0
  /\ \A d \in 1 .. Len(dirs) : \A s \in 0 .. Slots - 1 : dirs[d][s] <= n

SetSlot(dirs, d, s, id) == [dirs EXCEPT ![d][s] = id]

(* A slot of a directory is written. *)
LEMMA SetSlotFacts ==
  ASSUME NEW dirs \in Seq(Directory), NEW d \in 1 .. Len(dirs), NEW s \in 0 .. Slots - 1,
         NEW id \in Nat
  PROVE  /\ SetSlot(dirs, d, s, id) \in Seq(Directory)
         /\ Len(SetSlot(dirs, d, s, id)) = Len(dirs)
         /\ \A c \in 1 .. Len(dirs) : \A r \in 0 .. Slots - 1 :
               SetSlot(dirs, d, s, id)[c][r] = IF c = d /\ r = s THEN id ELSE dirs[c][r]
<1> DEFINE row == [dirs[d] EXCEPT ![s] = id]
<1>1. dirs[d] \in Directory
  OBVIOUS
<1>2. row \in Directory /\ \A r \in 0 .. Slots - 1 : row[r] = IF r = s THEN id ELSE dirs[d][r]
  BY <1>1 DEF Directory
<1>3. SetSlot(dirs, d, s, id) = [dirs EXCEPT ![d] = row]
  BY DEF SetSlot
<1> HIDE DEF row
<1>4. /\ [dirs EXCEPT ![d] = row] \in Seq(Directory)
      /\ Len([dirs EXCEPT ![d] = row]) = Len(dirs)
      /\ \A c \in 1 .. Len(dirs) : [dirs EXCEPT ![d] = row][c] = IF c = d THEN row ELSE dirs[c]
  BY <1>2
<1> QED
  BY <1>2, <1>3, <1>4

(* Tables stay private when a slot gets a table that no slot holds, the one *)
(* it had, or the kernel's for that slot.                                   *)
LEMMA SetSlotPrivate ==
  ASSUME NEW dirs \in Seq(Directory), Len(dirs) > 0, Private(dirs),
         NEW d \in 1 .. Len(dirs), NEW s \in 0 .. Slots - 1, NEW id \in Nat,
         \/ \A c \in 1 .. Len(dirs) : \A r \in 0 .. Slots - 1 : dirs[c][r] # id
         \/ id \in {dirs[d][s], dirs[kernel_directory][s]},
         d = kernel_directory => dirs[d][s] \in {0, id}
  PROVE  Private(SetSlot(dirs, d, s, id))
<1> DEFINE new == SetSlot(dirs, d, s, id)
<1>1. /\ Len(new) = Len(dirs)
      /\ \A c \in 1 .. Len(dirs) : \A r \in 0 .. Slots - 1 :
            new[c][r] = IF c = d /\ r = s THEN id ELSE dirs[c][r]
  BY SetSlotFacts
<1> HIDE DEF new
<1>2. kernel_directory \in 1 .. Len(dirs)
  BY DEF kernel_directory
<1> HIDE DEF kernel_directory
<1>3. ASSUME NEW r \in 0 .. Slots - 1, dirs[kernel_directory][r] # 0
      PROVE  new[kernel_directory][r] = dirs[kernel_directory][r]
  BY <1>1, <1>2, <1>3
(* The written slot against another. *)
<1>4. ASSUME NEW c \in 1 .. Len(dirs), NEW r \in 0 .. Slots - 1, ~(c = d /\ r = s),
             dirs[c][r] = id, id # 0
      PROVE  r = s /\ id = new[kernel_directory][s]
  <2>1. CASE id = dirs[d][s]
    <3>1. r = s /\ dirs[d][s] = dirs[kernel_directory][s]
      BY <1>4, <2>1 DEF Private
    <3> QED
      BY <1>3, <1>4, <2>1, <3>1
  <2>2. CASE id = dirs[kernel_directory][s]
    <3>1. r = s
      BY <1>2, <1>4, <2>2 DEF Private
    <3> QED
      BY <1>3, <1>4, <2>2, <3>1
  <2> QED
    BY <1>4, <2>1, <2>2
<1>5. ASSUME NEW c \in 1 .. Len(new), NEW b \in 1 .. Len(new),
             NEW r \in 0 .. Slots - 1, NEW q \in 0 .. Slots - 1,
             new[c][r] = new[b][q], new[c][r] # 0, c # b \/ r # q
      PROVE  r = q /\ new[c][r] = new[kernel_directory][q]
  <2>1. CASE c = d /\ r = s
    <3>1. ~(b = d /\ q = s) /\ dirs[b][q] = id /\ id # 0 /\ new[c][r] = id
      BY <1>1, <1>5, <2>1
    <3>2. q = s /\ id = new[kernel_directory][s]
      BY <1>1, <1>4, <3>1
    <3> QED
      BY <2>1, <3>1, <3>2
  <2>2. CASE b = d /\ q = s
    <3>1. ~(c = d /\ r = s) /\ dirs[c][r] = id /\ id # 0 /\ new[c][r] = id
      BY <1>1, <1>5, <2>2
    <3>2. r = s /\ id = new[kernel_directory][s]
      BY <1>1, <1>4, <3>1
    <3> QED
      BY <2>2, <3>1, <3>2
  <2>3. CASE ~(c = d /\ r = s) /\ ~(b = d /\ q = s)
    <3>1. new[c][r] = dirs[c][r] /\ new[b][q] = dirs[b][q]
      BY <1>1, <2>3
    <3>2. /\ c \in 1 .. Len(dirs) /\ b \in 1 .. Len(dirs)
          /\ dirs[c][r] = dirs[b][q] /\ dirs[c][r] # 0 /\ (c # b \/ r # q)
      BY <1>1, <1>5, <3>1
    <3>3. r = q /\ dirs[c][r] = dirs[kernel_directory][q]
      BY <3>2, PrivateSlots, SMTT(30)
    <3>4. dirs[kernel_directory][q] # 0
      BY <3>2, <3>3
    <3> QED
      BY <1>3, <3>1, <3>3, <3>4
  <2> QED
    BY <2>1, <2>2, <2>3
<1>6. Private(new)
  BY <1>5 DEF Private
<1> QED
  BY <1>6 DEF new

(* A new directory shares nothing. *)
LEMMA AppendDirectory ==
  ASSUME NEW dirs, NEW n \in Nat, References(dirs, n)
  PROVE  /\ References(Append(dirs, EmptyDirectory), n)
         /\ Len(Append(dirs, EmptyDirectory)) = Len(dirs) + 1
         /\ Private(dirs) => Private(Append(dirs, EmptyDirectory))
         /\ \A c \in 1 .. Len(dirs) + 1 : \A r \in 0 .. Slots - 1 :
               Append(dirs, EmptyDirectory)[c][r] = IF c <= Len(dirs) THEN dirs[c][r] ELSE 0
<1> DEFINE new == Append(dirs, EmptyDirectory)
<1>1. dirs \in Seq(Directory) /\ Len(dirs) > 0 /\ Len(dirs) \in Nat
  BY DEF References
<1>2. EmptyDirectory \in Directory /\ \A r \in 0 .. Slots - 1 : EmptyDirectory[r] = 0
  BY DEF EmptyDirectory, Directory
<1>3. /\ new \in Seq(Directory) /\ Len(new) = Len(dirs) + 1
      /\ new[Len(dirs) + 1] = EmptyDirectory /\ \A c \in 1 .. Len(dirs) : new[c] = dirs[c]
  BY <1>1, <1>2
<1> HIDE DEF new
<1>4. \A c \in 1 .. Len(dirs) + 1 : c <= Len(dirs) => c \in 1 .. Len(dirs)
  BY <1>1
<1>5. \A c \in 1 .. Len(dirs) + 1 : c <= Len(dirs) \/ c = Len(dirs) + 1
  BY <1>1
<1>6. ASSUME NEW c \in 1 .. Len(dirs) + 1, NEW r \in 0 .. Slots - 1
      PROVE  new[c][r] = IF c <= Len(dirs) THEN dirs[c][r] ELSE 0
  <2>1. CASE c <= Len(dirs)
    BY <1>3, <1>4, <2>1
  <2>2. CASE ~(c <= Len(dirs))
    BY <1>2, <1>3, <1>5, <2>2
  <2> QED
    BY <2>1, <2>2
<1>7. References(new, n)
  <2>1. ASSUME NEW c \in 1 .. Len(new), NEW r \in 0 .. Slots - 1 PROVE new[c][r] <= n
    BY <1>3, <1>4, <1>6, <2>1 DEF References
  <2> QED
    BY <1>1, <1>3, <2>1 DEF References
<1>8. ASSUME Private(dirs) PROVE Private(new)
  <2>1. kernel_directory \in 1 .. Len(dirs) /\ kernel_directory \in 1 .. Len(dirs) + 1
        /\ kernel_directory <= Len(dirs)
    BY <1>1 DEF kernel_directory
  <2> HIDE DEF kernel_directory
  <2>2. ASSUME NEW c \in 1 .. Len(new), NEW b \in 1 .. Len(new),
               NEW r \in 0 .. Slots - 1, NEW q \in 0 .. Slots - 1,
               new[c][r] = new[b][q], new[c][r] # 0, c # b \/ r # q
        PROVE  r = q /\ new[c][r] = new[kernel_directory][q]
    <3>1. /\ c \in 1 .. Len(dirs) /\ new[c][r] = dirs[c][r]
          /\ b \in 1 .. Len(dirs) /\ new[b][q] = dirs[b][q]
      BY <1>3, <1>4, <1>6, <2>2
    <3>2. new[kernel_directory][q] = dirs[kernel_directory][q]
      BY <1>6, <2>1
    <3>3. dirs[c][r] = dirs[b][q] /\ dirs[c][r] # 0
      BY <2>2, <3>1
    <3>4. r = q /\ dirs[c][r] = dirs[kernel_directory][q]
      BY <1>8, <2>2, <3>1, <3>3, PrivateSlots
    <3> QED
      BY <3>1, <3>2, <3>4
  <2> QED
    BY <2>2 DEF Private
<1> QED
  BY <1>3, <1>6, <1>7, <1>8 DEF new
-----------------------------------------------------------------------------
TypeInv ==
  /\ frames \subseteq Frames
  /\ tables \in Seq(Table)
  /\ References(directories, Len(tables))
  /\ current_directory \in 0 .. Len(directories)
  /\ boot \in 0 .. BootPages
  /\ ram \in [Frames -> Values]

CloneType ==
  /\ clone \in [src : Nat, slot : Nat, table : Nat, entry : Nat]
  /\ clone.src <= Len(directories) /\ clone.slot <= Slots
  /\ clone.table <= Len(tables) /\ clone.entry <= Entries

(* A clone under way has a directory to copy and another to fill; the table *)
(* it is filling is in no directory yet.                                    *)
CloneInv ==
  /\ current_directory # 0 => boot = BootPages
  /\ Cloning => clone.src > 0 /\ Len(directories) > 1 /\ current_directory # 0
  /\ clone.table # 0 =>
       /\ clone.slot < Slots /\ source # 0 /\ ~Shared
       /\ \A d \in 1 .. Len(directories) : \A s \in 0 .. Slots - 1 :
             directories[d][s] # clone.table

IInv ==
  /\ TypeInv /\ CloneType /\ CloneInv
  /\ Exclusive(tables, frames)
  /\ Private(directories)

LEMMA Bounds ==
  ASSUME TypeInv
  PROVE  /\ Len(tables) \in Nat /\ Len(directories) \in Nat /\ Len(directories) > 0
         /\ directories \in Seq(Directory)
         /\ \A d \in 1 .. Len(directories) : \A s \in 0 .. Slots - 1 :
               directories[d][s] \in 0 .. Len(tables)
<1>1. tables \in Seq(Table) /\ directories \in Seq(Directory) /\ Len(directories) > 0
  BY DEF TypeInv, References
<1>2. Len(tables) \in Nat /\ Len(directories) \in Nat
  BY <1>1
<1>3. ASSUME NEW d \in 1 .. Len(directories), NEW s \in 0 .. Slots - 1
      PROVE  directories[d][s] \in 0 .. Len(tables)
  <2>1. directories[d] \in Directory
    BY <1>1
  <2>2. directories[d][s] \in Nat
    BY <2>1 DEF Directory
  <2>3. directories[d][s] <= Len(tables)
    BY DEF TypeInv, References
  <2> QED
    BY <1>2, <2>2, <2>3
<1> QED
  BY <1>1, <1>2, <1>3

(* Mapping a page, in an old table or in a new one.                         *)
LEMMA MapPageKeeps ==
  ASSUME TypeInv, Exclusive(tables, frames), Private(directories),
         NEW dir \in 1 .. Len(directories), NEW p \in Pages, NEW w \in BOOLEAN,
         MapPage(dir, p, w)
  PROVE  /\ frames' \subseteq Frames /\ tables' \in Seq(Table)
         /\ References(directories', Len(tables'))
         /\ Len(directories') = Len(directories) /\ Len(tables') >= Len(tables)
         /\ Exclusive(tables', frames') /\ Private(directories')
<1> DEFINE s == Slot(p)
           e == Entry(p)
           old == directories[dir][s]
           made == IF old = 0 THEN Append(tables, EmptyTable) ELSE tables
           id == IF old = 0 THEN Len(made) ELSE old
           page == made[id][e]
<1>1. s \in 0 .. Slots - 1 /\ e \in 0 .. Entries - 1
  BY PageParts
<1>2. /\ directories' = SetSlot(directories, dir, s, id)
      /\ tables' = Put(made, id, e, alloc_frame(page, w))
      /\ frames' = set_frame(page)
  BY DEF MapPage, SetSlot, Put
<1> HIDE DEF s, e
<1>3. /\ Len(tables) \in Nat /\ directories \in Seq(Directory)
      /\ Len(directories) > 0 /\ tables \in Seq(Table) /\ frames \subseteq Frames
      /\ \A d \in 1 .. Len(directories) : \A r \in 0 .. Slots - 1 :
            directories[d][r] \in 0 .. Len(tables)
  BY Bounds DEF TypeInv
<1>4. old \in 0 .. Len(tables)
  BY <1>1, <1>3
<1>5. /\ made \in Seq(Table) /\ Exclusive(made, frames) /\ Len(made) \in Nat
      /\ Len(made) >= Len(tables) /\ id \in 1 .. Len(made) /\ id \in Nat
      /\ (old # 0 => id = old)
      /\ (old = 0 => id = Len(tables) + 1)
  <2>1. CASE old = 0
    <3>1. made = Append(tables, EmptyTable)
      BY <2>1
    <3>2. made \in Seq(Table) /\ Len(made) = Len(tables) + 1 /\ Exclusive(made, frames)
      BY <1>3, <3>1, AppendTable
    <3>3. id = Len(made)
      BY <2>1
    <3> QED
      BY <1>3, <2>1, <3>2, <3>3
  <2>2. CASE old # 0
    <3>1. made = tables /\ id = old
      BY <2>2
    <3> QED
      BY <1>3, <1>4, <2>2, <3>1
  <2> QED
    BY <2>1, <2>2
<1> HIDE DEF made, id
<1>6. page \in Page
  <2>1. made[id] \in Table
    BY <1>5
  <2> QED
    BY <1>1, <2>1 DEF Table
<1> HIDE DEF page
<1> DEFINE new == alloc_frame(page, w)
<1>7. /\ new \in Page
      /\ set_frame(page) \subseteq Frames /\ frames \subseteq set_frame(page)
      /\ \/ new.frame \in {0, page.frame}
         \/ new.frame \notin frames /\ new.frame \in set_frame(page)
  BY <1>3, <1>6, AllocFrame
<1> HIDE DEF new
<1>8. tables' \in Seq(Table) /\ Len(tables') = Len(made)
  BY <1>1, <1>2, <1>5, <1>7, PutFacts DEF new
<1>9. Exclusive(tables', frames')
  <2>1. tables' = Put(made, id, e, new) /\ page = made[id][e]
    BY <1>2 DEF new, page
  <2> DEFINE fs == set_frame(page)
  <2>2. /\ \A f \in frames : f # 0 => f \in fs
        /\ \/ new.frame \in {0, made[id][e].frame}
           \/ new.frame \notin frames /\ new.frame \in fs
    BY <1>7, <2>1
  <2> HIDE DEF fs
  <2>3. Exclusive(Put(made, id, e, new), fs)
    BY <1>1, <1>5, <1>7, <2>2, PutExclusive
  <2> QED
    BY <1>2, <2>1, <2>3 DEF fs
<1>10. Len(directories') = Len(directories) /\ References(directories', Len(tables'))
  <2>1. /\ directories' \in Seq(Directory) /\ Len(directories') = Len(directories)
        /\ \A c \in 1 .. Len(directories) : \A r \in 0 .. Slots - 1 :
              directories'[c][r] = IF c = dir /\ r = s THEN id ELSE directories[c][r]
    BY <1>1, <1>2, <1>3, <1>5, SetSlotFacts
  <2>2. ASSUME NEW c \in 1 .. Len(directories'), NEW r \in 0 .. Slots - 1
        PROVE  directories'[c][r] <= Len(tables')
    <3>1. directories'[c][r] \in {id, directories[c][r]}
      BY <2>1
    <3>2. directories[c][r] \in 0 .. Len(tables)
      BY <1>3, <2>1
    <3>3. directories'[c][r] \in 0 .. Len(made)
      BY <1>3, <1>5, <3>1, <3>2, SMTT(30)
    <3> QED
      BY <1>5, <1>8, <3>3
  <2> QED
    BY <1>3, <2>1, <2>2 DEF References
<1>11. Private(directories')
  <2>1. \/ \A c \in 1 .. Len(directories) : \A r \in 0 .. Slots - 1 : directories[c][r] # id
        \/ id \in {directories[dir][s], directories[kernel_directory][s]}
    <3>1. CASE old = 0
      <4>1. ASSUME NEW c \in 1 .. Len(directories), NEW r \in 0 .. Slots - 1
            PROVE  directories[c][r] # id
        <5>1. PICK n \in Nat : n = Len(tables)
          BY <1>3
        <5>2. directories[c][r] \in 0 .. n
          BY <1>3, <5>1
        <5>3. id = n + 1
          BY <1>5, <3>1, <5>1
        <5> QED
          BY <5>2, <5>3
      <4> QED
        BY <4>1
    <3>2. CASE old # 0
      BY <1>5, <3>2
    <3> QED
      BY <3>1, <3>2
  <2>2. directories[dir][s] \in {0, id}
    BY <1>5
  <2>3. Private(SetSlot(directories, dir, s, id))
    BY <1>1, <1>3, <1>5, <2>1, <2>2, SetSlotPrivate
  <2> QED
    BY <1>2, <2>3
<1>12. frames' \subseteq Frames
  BY <1>2, <1>7
<1> QED
  BY <1>5, <1>8, <1>9, <1>10, <1>11, <1>12
-----------------------------------------------------------------------------
LEMMA InitIInv == Init => IInv
<1> SUFFICES ASSUME Init PROVE IInv
  OBVIOUS
<1> DEFINE first == [EmptyDirectory EXCEPT ![Slot(HeapStart)] = 1]
<1>1. HeapStart \in Pages
  BY BootAssumption DEF Pages
<1>2. Slot(HeapStart) \in 0 .. Slots - 1
  BY <1>1, PageParts
<1>3. first \in Directory
      /\ \A s \in 0 .. Slots - 1 : first[s] = IF s = Slot(HeapStart) THEN 1 ELSE 0
  BY <1>2 DEF EmptyDirectory, Directory
<1>4. EmptyTable \in Table /\ \A e \in 0 .. Entries - 1 : EmptyTable[e].frame = 0
  <2>1. 0 \in Frames
    BY DEF Frames, PageSize
  <2> QED
    BY <2>1 DEF EmptyTable, Table, Page
<1> HIDE DEF first
<1>5. tables \in Seq(Table) /\ Len(tables) = 1 /\ tables[1] = EmptyTable
  BY <1>4 DEF Init
<1>6. directories \in Seq(Directory) /\ Len(directories) = 1 /\ directories[1] = first
  BY <1>3 DEF Init, first
<1>7. References(directories, Len(tables))
  <2>1. ASSUME NEW d \in 1 .. Len(directories), NEW s \in 0 .. Slots - 1
        PROVE  directories[d][s] <= Len(tables)
    BY <1>3, <1>5, <1>6
  <2> QED
    BY <1>6, <2>1 DEF References
<1>8. TypeInv
  <2>1. frames \subseteq Frames
    BY BootAssumption DEF Init, Frames, PageSize
  <2>2. ram \in [Frames -> Values]
    BY DEF Init
  <2>3. current_directory \in 0 .. Len(directories) /\ boot \in 0 .. BootPages
    BY <1>6, BootAssumption DEF Init, BootPages
  <2> QED
    BY <1>5, <1>7, <2>1, <2>2, <2>3 DEF TypeInv
<1>9. Exclusive(tables, frames)
  BY <1>4, <1>5 DEF Exclusive
<1>10. Private(directories)
  <2>1. ASSUME NEW c \in 1 .. Len(directories), NEW d \in 1 .. Len(directories),
               NEW r \in 0 .. Slots - 1, NEW s \in 0 .. Slots - 1,
               directories[c][r] = directories[d][s], directories[c][r] # 0
        PROVE  c = d /\ r = s
    BY <1>3, <1>6, <2>1
  <2> QED
    BY <2>1 DEF Private
<1>11. CloneType /\ CloneInv
  <2>1. clone = NoClone
    BY DEF Init
  <2> QED
    BY <1>5, <1>6, <2>1 DEF Init, CloneType, CloneInv, NoClone, Cloning
<1> QED
  BY <1>8, <1>9, <1>10, <1>11 DEF IInv

(* A page is mapped while no clone is under way.                            *)
LEMMA MapPageStep ==
  ASSUME IInv, NEW dir \in 1 .. Len(directories), NEW p \in Pages, NEW w \in BOOLEAN,
         MapPage(dir, p, w), clone = NoClone, boot' \in 0 .. BootPages,
         current_directory # 0 => boot' = BootPages,
         UNCHANGED <<current_directory, clone, ram>>
  PROVE  IInv'
<1>1. /\ frames' \subseteq Frames /\ tables' \in Seq(Table)
      /\ References(directories', Len(tables'))
      /\ Len(directories') = Len(directories) /\ Len(tables') >= Len(tables)
      /\ Exclusive(tables', frames') /\ Private(directories')
  BY MapPageKeeps DEF IInv
<1>2. TypeInv'
  BY <1>1 DEF IInv, TypeInv
<1>3. Len(tables') \in Nat /\ Len(directories') \in Nat
  BY <1>1 DEF References
<1>4. CloneType' /\ CloneInv'
  BY <1>3 DEF CloneType, CloneInv, Cloning, NoClone
<1> QED
  BY <1>1, <1>2, <1>4 DEF IInv

LEMMA BootMapStep ==
  ASSUME IInv, BootMap
  PROVE  IInv'
<1> DEFINE p == IF boot < Identity THEN boot ELSE HeapStart + (boot - Identity)
<1>1. boot \in 0 .. BootPages /\ boot < BootPages /\ Len(directories) \in Nat /\ Len(directories) > 0
  BY Bounds DEF IInv, TypeInv, BootMap
<1>2. p \in Pages
  BY <1>1, BootAssumption DEF Pages, BootPages
<1>3. clone = NoClone
  BY <1>1 DEF IInv, CloneInv, Cloning
<1>4. boot' \in 0 .. BootPages
  BY <1>1, BootAssumption DEF BootMap, BootPages
<1>5. current_directory = 0
  BY <1>1 DEF IInv, CloneInv
<1>6. kernel_directory \in 1 .. Len(directories)
  BY <1>1 DEF kernel_directory
<1>7. MapPage(kernel_directory, p, FALSE)
  BY DEF BootMap
<1>8. UNCHANGED <<current_directory, clone, ram>>
  BY DEF BootMap
<1> HIDE DEF p
<1> QED
  BY <1>2, <1>3, <1>4, <1>5, <1>6, <1>7, <1>8, MapPageStep

LEMMA MoveStackStep ==
  ASSUME IInv, NEW p \in StackPages, MoveStack(p)
  PROVE  IInv'
<1>1. p \in Pages
  BY BootAssumption DEF Pages
<1>2. current_directory \in 1 .. Len(directories)
  BY Bounds DEF IInv, TypeInv, MoveStack, Running
<1>3. boot' \in 0 .. BootPages /\ (current_directory # 0 => boot' = BootPages)
  BY DEF IInv, TypeInv, CloneInv, MoveStack
<1> QED
  BY <1>1, <1>2, <1>3, MapPageStep DEF MoveStack, Running

LEMMA HeapExpandStep ==
  ASSUME IInv, NEW p \in HeapStart .. HeapMax, HeapExpand(p)
  PROVE  IInv'
<1>1. p \in Pages
  BY BootAssumption DEF Pages
<1>2. kernel_directory \in 1 .. Len(directories)
  BY Bounds DEF IInv, kernel_directory
<1>3. boot' \in 0 .. BootPages /\ (current_directory # 0 => boot' = BootPages)
  BY DEF IInv, TypeInv, CloneInv, HeapExpand
<1> QED
  BY <1>1, <1>2, <1>3, MapPageStep DEF HeapExpand, Running

(* A clone begins with an empty directory. *)
LEMMA CloneBeginStep ==
  ASSUME IInv, NEW src \in 1 .. Len(directories), CloneBegin(src), boot = BootPages,
         current_directory' \in 1 .. Len(directories)
  PROVE  IInv'
<1>1. Len(tables) \in Nat /\ Len(directories) \in Nat /\ Len(directories) > 0
  BY Bounds DEF IInv
<1>2. /\ References(directories', Len(tables)) /\ Len(directories') = Len(directories) + 1
      /\ Private(directories')
  BY <1>1, AppendDirectory DEF IInv, TypeInv, CloneBegin
<1>3. UNCHANGED <<frames, tables, boot, ram>>
  BY DEF CloneBegin
<1>4. clone' = [src |-> src, slot |-> 0, table |-> 0, entry |-> 0]
  BY DEF CloneBegin, NoClone
<1>5. TypeInv'
  BY <1>1, <1>2, <1>3 DEF IInv, TypeInv
<1>6. CloneType'
  BY <1>1, <1>2, <1>3, <1>4 DEF CloneType
<1>7. CloneInv'
  BY <1>1, <1>2, <1>3, <1>4 DEF CloneInv, Cloning
<1>8. Exclusive(tables', frames')
  BY <1>3 DEF IInv
<1> QED
  BY <1>2, <1>5, <1>6, <1>7, <1>8 DEF IInv

LEMMA EnablePagingStep ==
  ASSUME IInv, EnablePaging
  PROVE  IInv'
<1>1. kernel_directory \in 1 .. Len(directories)
  BY Bounds DEF IInv, kernel_directory
<1> QED
  BY <1>1, CloneBeginStep DEF EnablePaging

LEMMA CloneDirectoryStep ==
  ASSUME IInv, CloneDirectory
  PROVE  IInv'
<1>1. current_directory \in 1 .. Len(directories)
  BY Bounds DEF IInv, TypeInv, CloneDirectory, Running
<1>2. boot = BootPages
  BY DEF IInv, CloneInv, CloneDirectory, Running
<1> QED
  BY <1>1, <1>2, CloneBeginStep DEF CloneDirectory
-----------------------------------------------------------------------------
(* The loops of clone_directory.                                            *)
LEMMA CloneFacts ==
  ASSUME IInv, Cloning
  PROVE  /\ child \in 1 .. Len(directories) /\ child # kernel_directory
         /\ kernel_directory \in 1 .. Len(directories)
         /\ clone.src \in 1 .. Len(directories)
         /\ current_directory # 0 /\ boot = BootPages
<1>1. Len(directories) \in Nat
  BY Bounds DEF IInv
<1>2. clone.src \in Nat /\ clone.src <= Len(directories) /\ clone.src > 0
      /\ Len(directories) > 1 /\ current_directory # 0
  BY DEF IInv, CloneType, CloneInv
<1>3. child \in 1 .. Len(directories) /\ child # kernel_directory
      /\ kernel_directory \in 1 .. Len(directories)
  <2>1. PICK n \in Nat : n = Len(directories)
    BY <1>1
  <2>2. n > 1
    BY <1>2, <2>1
  <2>3. n \in 1 .. n /\ n # 1 /\ 1 \in 1 .. n
    BY <2>2
  <2> QED
    BY <2>1, <2>3 DEF child, kernel_directory
<1>4. clone.src \in 1 .. Len(directories)
  BY <1>1, <1>2
<1>5. boot = BootPages
  BY <1>2 DEF IInv, CloneInv
<1> QED
  BY <1>2, <1>3, <1>4, <1>5

(* The clone goes on to the next slot. *)
LEMMA NextSlot ==
  ASSUME IInv, Cloning, clone.slot < Slots, clone'.table = 0, clone'.entry \in 0 .. Entries,
         clone' \in [src : Nat, slot : Nat, table : Nat, entry : Nat],
         clone'.src = clone.src, clone'.slot = clone.slot + 1,
         References(directories', Len(tables)), Len(directories') = Len(directories),
         Private(directories'),
         UNCHANGED <<frames, tables, current_directory, boot, ram>>
  PROVE  IInv'
<1>1. Len(tables) \in Nat /\ Len(directories) \in Nat
  BY Bounds DEF IInv
<1>2. clone.slot \in Nat /\ clone.src \in Nat
  BY DEF IInv, CloneType
<1>3. TypeInv'
  BY DEF IInv, TypeInv
<1>4. CloneType'
  BY <1>1, <1>2 DEF IInv, CloneType
<1>5. CloneInv'
  BY DEF IInv, CloneInv, Cloning
<1>6. Exclusive(tables', frames')
  BY DEF IInv
<1> QED
  BY <1>3, <1>4, <1>5, <1>6 DEF IInv

LEMMA CloneSkipStep ==
  ASSUME IInv, CloneSkip
  PROVE  IInv'
<1>1. Cloning /\ clone.slot < Slots /\ source = 0 /\ clone' = [clone EXCEPT !.slot = @ + 1]
      /\ UNCHANGED <<frames, tables, directories, current_directory, boot, ram>>
  BY DEF CloneSkip
<1>2. clone \in [src : Nat, slot : Nat, table : Nat, entry : Nat] /\ clone.entry <= Entries
  BY DEF IInv, CloneType
<1>3. clone.table = 0
  BY <1>1 DEF IInv, CloneInv
<1>4. /\ clone' \in [src : Nat, slot : Nat, table : Nat, entry : Nat]
      /\ clone'.table = 0 /\ clone'.entry \in 0 .. Entries
      /\ clone'.src = clone.src /\ clone'.slot = clone.slot + 1
  BY <1>1, <1>2, <1>3
<1>5. References(directories', Len(tables)) /\ Private(directories')
  BY <1>1 DEF IInv, TypeInv
<1> QED
  BY <1>1, <1>4, <1>5, NextSlot

(* The child gets a table in the slot that the clone is at.                 *)
LEMMA SetChildSlot ==
  ASSUME IInv, Cloning, clone.slot < Slots, NEW id \in 0 .. Len(tables),
         \/ \A c \in 1 .. Len(directories) : \A r \in 0 .. Slots - 1 : directories[c][r] # id
         \/ id = directories[kernel_directory][clone.slot],
         directories' = SetSlot(directories, child, clone.slot, id)
  PROVE  /\ References(directories', Len(tables))
         /\ Len(directories') = Len(directories) /\ Private(directories')
<1> DEFINE s == clone.slot
<1>1. s \in 0 .. Slots - 1
  BY DEF IInv, CloneType
<1>2. /\ Len(tables) \in Nat /\ Len(directories) \in Nat /\ Len(directories) > 0
      /\ directories \in Seq(Directory)
      /\ \A d \in 1 .. Len(directories) : \A r \in 0 .. Slots - 1 :
            directories[d][r] \in 0 .. Len(tables)
  BY Bounds DEF IInv
<1>3. child \in 1 .. Len(directories) /\ child # kernel_directory
  BY CloneFacts
<1>4. directories' = SetSlot(directories, child, s, id) /\ id \in Nat
  BY <1>2
<1> HIDE DEF s, child
<1>5. /\ directories' \in Seq(Directory) /\ Len(directories') = Len(directories)
      /\ \A c \in 1 .. Len(directories) : \A r \in 0 .. Slots - 1 :
            directories'[c][r] = IF c = child /\ r = s THEN id ELSE directories[c][r]
  <2>1. PICK d \in 1 .. Len(directories), t \in 0 .. Slots - 1 : d = child /\ t = s
    BY <1>1, <1>3
  <2>2. /\ SetSlot(directories, d, t, id) \in Seq(Directory)
        /\ Len(SetSlot(directories, d, t, id)) = Len(directories)
        /\ \A c \in 1 .. Len(directories) : \A r \in 0 .. Slots - 1 :
              SetSlot(directories, d, t, id)[c][r]
                = IF c = d /\ r = t THEN id ELSE directories[c][r]
    BY <1>2, <1>4, SetSlotFacts
  <2>3. directories' = SetSlot(directories, d, t, id)
    BY <1>4, <2>1
  <2> QED
    BY <2>1, <2>2, <2>3
<1>6. References(directories', Len(tables))
  <2>1. ASSUME NEW c \in 1 .. Len(directories'), NEW r \in 0 .. Slots - 1
        PROVE  directories'[c][r] <= Len(tables)
    <3>1. directories'[c][r] \in {id, directories[c][r]}
      BY <1>5
    <3> QED
      BY <1>2, <1>5, <3>1
  <2> QED
    BY <1>2, <1>5, <2>1 DEF References
<1>7. Private(directories')
  <2>1. \/ \A c \in 1 .. Len(directories) : \A r \in 0 .. Slots - 1 : directories[c][r] # id
        \/ id \in {directories[child][s], directories[kernel_directory][s]}
    BY DEF s
  <2>2. Private(directories)
    BY DEF IInv
  <2>3. Private(SetSlot(directories, child, s, id))
    BY <1>1, <1>2, <1>3, <1>4, <2>1, <2>2, SetSlotPrivate
  <2> QED
    BY <1>4, <2>3
<1> QED
  BY <1>5, <1>6, <1>7

LEMMA CloneLinkStep ==
  ASSUME IInv, CloneLink
  PROVE  IInv'
<1>1. /\ Cloning /\ clone.slot < Slots /\ Shared
      /\ directories' = SetSlot(directories, child, clone.slot, source)
      /\ clone' = [clone EXCEPT !.slot = @ + 1]
      /\ UNCHANGED <<frames, tables, current_directory, boot, ram>>
  BY DEF CloneLink, SetSlot
<1>2. clone \in [src : Nat, slot : Nat, table : Nat, entry : Nat] /\ clone.entry <= Entries
  BY DEF IInv, CloneType
<1>3. clone.table = 0
  BY <1>1 DEF IInv, CloneInv
<1>4. source = directories[kernel_directory][clone.slot]
  BY <1>1 DEF Shared
<1>5. source \in 0 .. Len(tables)
  <2>1. clone.slot \in 0 .. Slots - 1
    BY <1>1, <1>2
  <2> QED
    BY <1>1, <2>1, CloneFacts, Bounds DEF IInv, source
<1> HIDE DEF source
<1>6. /\ References(directories', Len(tables))
      /\ Len(directories') = Len(directories) /\ Private(directories')
  BY <1>1, <1>4, <1>5, SetChildSlot
<1>7. /\ clone' \in [src : Nat, slot : Nat, table : Nat, entry : Nat]
      /\ clone'.table = 0 /\ clone'.entry \in 0 .. Entries
      /\ clone'.src = clone.src /\ clone'.slot = clone.slot + 1
  BY <1>1, <1>2, <1>3
<1> QED
  BY <1>1, <1>6, <1>7, NextSlot

LEMMA CloneTableDoneStep ==
  ASSUME IInv, CloneTableDone
  PROVE  IInv'
<1>1. /\ clone.table # 0
      /\ directories' = SetSlot(directories, child, clone.slot, clone.table)
      /\ clone' = [src |-> clone.src, slot |-> clone.slot + 1, table |-> 0, entry |-> 0]
      /\ UNCHANGED <<frames, tables, current_directory, boot, ram>>
  BY DEF CloneTableDone, NoClone, SetSlot
<1>2. clone \in [src : Nat, slot : Nat, table : Nat, entry : Nat]
  BY DEF IInv, CloneType
<1>3. Cloning /\ clone.slot < Slots
  BY <1>1 DEF IInv, CloneInv, Cloning, NoClone
<1>4. \A d \in 1 .. Len(directories) : \A s \in 0 .. Slots - 1 :
         directories[d][s] # clone.table
  BY <1>1 DEF IInv, CloneInv
<1>5. clone.table \in 0 .. Len(tables)
  <2>1. clone.table \in Nat /\ clone.table <= Len(tables)
    BY <1>2 DEF IInv, CloneType
  <2> QED
    BY <2>1, Bounds DEF IInv
<1>6. /\ References(directories', Len(tables))
      /\ Len(directories') = Len(directories) /\ Private(directories')
  BY <1>1, <1>3, <1>4, <1>5, SetChildSlot
<1>7. /\ clone' \in [src : Nat, slot : Nat, table : Nat, entry : Nat]
      /\ clone'.table = 0 /\ clone'.entry \in 0 .. Entries
      /\ clone'.src = clone.src /\ clone'.slot = clone.slot + 1
  BY <1>1, <1>2
<1> QED
  BY <1>1, <1>3, <1>6, <1>7, NextSlot

LEMMA CloneTableStep ==
  ASSUME IInv, CloneTable
  PROVE  IInv'
<1>1. /\ Cloning /\ clone.slot < Slots /\ source # 0 /\ ~Shared
      /\ tables' = Append(tables, EmptyTable)
      /\ clone' = [clone EXCEPT !.table = Len(tables) + 1]
      /\ UNCHANGED <<frames, directories, current_directory, boot, ram>>
  BY DEF CloneTable
<1>2. /\ tables \in Seq(Table) /\ Len(tables) \in Nat /\ Len(directories) \in Nat
      /\ \A d \in 1 .. Len(directories) : \A s \in 0 .. Slots - 1 :
            directories[d][s] \in 0 .. Len(tables)
  BY Bounds DEF IInv, TypeInv
<1>3. /\ tables' \in Seq(Table) /\ Len(tables') = Len(tables) + 1
      /\ Exclusive(tables', frames')
  BY <1>1, <1>2, AppendTable DEF IInv
<1>4. /\ clone \in [src : Nat, slot : Nat, table : Nat, entry : Nat]
      /\ clone.src <= Len(directories) /\ clone.slot <= Slots /\ clone.entry <= Entries
  BY DEF IInv, CloneType
<1>5. /\ clone' \in [src : Nat, slot : Nat, table : Nat, entry : Nat]
      /\ clone'.src = clone.src /\ clone'.slot = clone.slot
      /\ clone'.table = Len(tables) + 1 /\ clone'.entry = clone.entry
  <2>1. PICK n \in Nat : n = Len(tables) + 1
    BY <1>2
  <2>2. clone' = [clone EXCEPT !.table = n]
    BY <1>1, <2>1
  <2> QED
    BY <1>4, <2>1, <2>2
<1>6. References(directories', Len(tables'))
  <2>1. \A d \in 1 .. Len(directories) : \A s \in 0 .. Slots - 1 :
           directories[d][s] <= Len(tables')
    BY <1>2, <1>3
  <2> QED
    BY <1>1, <2>1 DEF IInv, TypeInv, References
<1>7. TypeInv'
  BY <1>1, <1>3, <1>6 DEF IInv, TypeInv
<1>8. CloneType'
  BY <1>1, <1>2, <1>3, <1>4, <1>5 DEF CloneType
<1>9. CloneInv'
  <2>1. source' = source /\ Shared' = Shared
    BY <1>1, <1>5 DEF source, Shared
  <2>2. \A d \in 1 .. Len(directories) : \A s \in 0 .. Slots - 1 :
           directories[d][s] # clone'.table
    BY <1>2, <1>5
  <2>3. /\ current_directory # 0 /\ boot = BootPages
        /\ clone.src > 0 /\ Len(directories) > 1
    BY <1>1 DEF IInv, CloneInv
  <2>4. current_directory' # 0 /\ boot' = BootPages
        /\ clone'.src > 0 /\ Len(directories') > 1 /\ clone'.slot < Slots
    BY <1>1, <1>5, <2>3
  <2>5. directories' = directories
    BY <1>1
  <2> QED
    BY <1>1, <2>1, <2>2, <2>4, <2>5 DEF CloneInv
<1>10. Private(directories')
  BY <1>1 DEF IInv
<1> QED
  BY <1>3, <1>7, <1>8, <1>9, <1>10 DEF IInv

(* A page of the table that is being filled gets a frame, or none.          *)
LEMMA ClonePageStep ==
  ASSUME IInv, ClonePage
  PROVE  IInv'
<1> DEFINE t == clone.table
           e == clone.entry
           page == tables[source][e]
           copy == alloc_frame(tables[t][e], FALSE)
           marked == [copy EXCEPT !.present = @ \/ page.present, !.rw = @ \/ page.rw]
<1>1. /\ t # 0 /\ e < Entries
      /\ clone' = [clone EXCEPT !.entry = @ + 1]
      /\ UNCHANGED <<directories, current_directory, boot>>
  BY DEF ClonePage
<1>2. /\ tables \in Seq(Table) /\ Len(tables) \in Nat /\ Len(directories) \in Nat
      /\ frames \subseteq Frames /\ ram \in [Frames -> Values]
      /\ \A d \in 1 .. Len(directories) : \A s \in 0 .. Slots - 1 :
            directories[d][s] \in 0 .. Len(tables)
  BY Bounds DEF IInv, TypeInv
<1>3. /\ clone \in [src : Nat, slot : Nat, table : Nat, entry : Nat]
      /\ clone.src <= Len(directories) /\ clone.slot <= Slots
      /\ clone.table <= Len(tables) /\ clone.entry <= Entries
  BY DEF IInv, CloneType
<1>4. t \in 1 .. Len(tables) /\ e \in 0 .. Entries - 1
  BY <1>1, <1>2, <1>3
<1>5. Cloning /\ clone.slot < Slots /\ source # 0
  BY <1>1 DEF IInv, CloneInv, Cloning, NoClone
<1>6. source \in 1 .. Len(tables)
  <2>1. clone.slot \in 0 .. Slots - 1
    BY <1>3, <1>5
  <2>2. source \in 0 .. Len(tables)
    BY <1>2, <1>5, <2>1, CloneFacts DEF source
  <2> QED
    BY <1>2, <1>5, <2>2
<1>7. page \in Page /\ tables[t][e] \in Page
  <2>1. tables[source] \in Table /\ tables[t] \in Table
    BY <1>2, <1>4, <1>6
  <2> QED
    BY <1>4, <2>1 DEF Table
<1> DEFINE fs == set_frame(tables[t][e])
<1>8. /\ copy \in Page /\ fs \subseteq Frames /\ frames \subseteq fs
      /\ \/ copy.frame \in {0, tables[t][e].frame}
         \/ copy.frame \notin frames /\ copy.frame \in fs
  BY <1>2, <1>7, AllocFrame
<1>9. \/ UNCHANGED <<frames, tables, ram>>
      \/ /\ frames' = fs /\ tables' = Put(tables, t, e, marked)
         /\ ram' = copy_page_physical(page.frame, copy.frame)
  BY DEF ClonePage, Put
<1> HIDE DEF copy, fs, page
<1>10. marked \in Page /\ marked.frame = copy.frame
  BY <1>7, <1>8 DEF Page
<1> HIDE DEF marked, t, e
<1>11. /\ frames' \subseteq Frames /\ tables' \in Seq(Table) /\ Len(tables') = Len(tables)
       /\ Exclusive(tables', frames') /\ ram' \in [Frames -> Values]
  <2>1. CASE UNCHANGED <<frames, tables, ram>>
    BY <1>2, <2>1 DEF IInv
  <2>2. CASE /\ frames' = fs /\ tables' = Put(tables, t, e, marked)
             /\ ram' = copy_page_physical(page.frame, copy.frame)
    <3>1. Put(tables, t, e, marked) \in Seq(Table)
          /\ Len(Put(tables, t, e, marked)) = Len(tables)
      BY <1>2, <1>4, <1>10, PutFacts
    <3>2. Exclusive(Put(tables, t, e, marked), fs)
      <4>1. Exclusive(tables, frames)
        BY DEF IInv
      <4>2. /\ \A f \in frames : f # 0 => f \in fs
            /\ \/ marked.frame \in {0, tables[t][e].frame}
               \/ marked.frame \notin frames /\ marked.frame \in fs
        BY <1>8, <1>10
      <4> QED
        BY <1>2, <1>4, <1>10, <4>1, <4>2, PutExclusive
    <3>3. ram' \in [Frames -> Values]
      <4>1. page.frame \in Frames
        BY <1>7 DEF Page
      <4>2. ram[page.frame] \in Values
        BY <1>2, <4>1
      <4> QED
        BY <1>2, <2>2, <4>2 DEF copy_page_physical
    <3> QED
      BY <1>8, <2>2, <3>1, <3>2, <3>3
  <2> QED
    BY <1>9, <2>1, <2>2
<1>12. /\ clone' \in [src : Nat, slot : Nat, table : Nat, entry : Nat]
       /\ clone'.src = clone.src /\ clone'.slot = clone.slot
       /\ clone'.table = clone.table /\ clone'.entry <= Entries
  <2>1. clone.entry \in 0 .. Entries - 1
    BY <1>4 DEF e
  <2>2. PICK n \in 0 .. Entries : n = clone.entry + 1
    BY <2>1
  <2>3. clone' = [clone EXCEPT !.entry = n]
    BY <1>1, <2>2
  <2> QED
    BY <1>3, <2>2, <2>3
<1>13. References(directories', Len(tables')) /\ Private(directories')
  BY <1>1, <1>11 DEF IInv, TypeInv
<1>14. TypeInv'
  BY <1>1, <1>11, <1>13 DEF IInv, TypeInv
<1>15. CloneType'
  BY <1>1, <1>3, <1>11, <1>12 DEF CloneType
<1>16. CloneInv'
  <2>1. source' = source /\ Shared' = Shared
    BY <1>1, <1>12 DEF source, Shared
  <2> QED
    BY <1>1, <1>5, <1>12, <2>1 DEF IInv, CloneInv, t
<1> QED
  BY <1>11, <1>13, <1>14, <1>15, <1>16 DEF IInv

LEMMA CloneReturnStep ==
  ASSUME IInv, CloneReturn
  PROVE  IInv'
<1>1. /\ Cloning /\ clone' = [src |-> 0, slot |-> 0, table |-> 0, entry |-> 0]
      /\ current_directory' \in {child, current_directory}
      /\ UNCHANGED <<frames, tables, directories, boot, ram>>
  BY DEF CloneReturn, NoClone
<1>2. child \in 1 .. Len(directories) /\ current_directory # 0 /\ boot = BootPages
  BY <1>1, CloneFacts
<1>3. current_directory' \in 0 .. Len(directories)
  BY <1>1, <1>2 DEF IInv, TypeInv
<1>4. Len(tables) \in Nat /\ Len(directories) \in Nat
  BY Bounds DEF IInv
<1>5. TypeInv'
  BY <1>1, <1>3 DEF IInv, TypeInv
<1>6. CloneType'
  BY <1>1, <1>4 DEF CloneType
<1>7. CloneInv'
  <2>1. boot' = BootPages /\ clone' = NoClone
    BY <1>1, <1>2 DEF NoClone
  <2> QED
    BY <1>1, <2>1 DEF CloneInv, Cloning
<1>8. Exclusive(tables', frames') /\ Private(directories')
  BY <1>1 DEF IInv
<1> QED
  BY <1>5, <1>6, <1>7, <1>8 DEF IInv

(* A page of the heap is given back: the bit of frame 0 is cleared.         *)
LEMMA HeapContractStep ==
  ASSUME IInv, NEW p \in HeapStart .. HeapMax, HeapContract(p)
  PROVE  IInv'
<1> DEFINE id == directories[kernel_directory][Slot(p)]
           e == Entry(p)
           page == tables[id][e]
<1>1. /\ Running /\ id # 0
      /\ tables' = Put(tables, id, e, Freed(page))
      /\ frames' = frames \ {page.frame \div PageSize}
      /\ UNCHANGED <<directories, current_directory, boot, clone, ram>>
  BY DEF HeapContract, Put, clear_frame
<1>2. p \in Pages
  BY BootAssumption DEF Pages
<1>3. Slot(p) \in 0 .. Slots - 1 /\ e \in 0 .. Entries - 1
  BY <1>2, PageParts
<1>4. /\ tables \in Seq(Table) /\ Len(tables) \in Nat /\ frames \subseteq Frames
      /\ kernel_directory \in 1 .. Len(directories) /\ id \in 0 .. Len(tables)
  BY <1>3, Bounds, SMTT(30) DEF IInv, TypeInv, kernel_directory
<1> HIDE DEF e, id
<1>5. id \in 1 .. Len(tables)
  BY <1>1, <1>4
<1>6. page \in Page
  <2>1. tables[id] \in Table
    BY <1>4, <1>5
  <2> QED
    BY <1>3, <2>1 DEF Table
<1> HIDE DEF page
<1>7. page.frame \div PageSize = 0
  BY <1>6, FrameNumber DEF Page
<1>8. Freed(page) \in Page /\ Freed(page).frame = 0
  <2>1. 0 \in Frames
    BY DEF Frames, PageSize
  <2> QED
    BY <1>6, <2>1 DEF Freed, Page
<1>9. tables' \in Seq(Table) /\ Len(tables') = Len(tables)
  BY <1>1, <1>3, <1>4, <1>5, <1>8, PutFacts
<1>10. Exclusive(tables', frames')
  <2>1. Exclusive(tables, frames)
    BY DEF IInv
  <2> DEFINE fs == frames \ {0}
             new == Freed(page)
  <2>2. /\ \A f \in frames : f # 0 => f \in fs
        /\ new \in Page /\ new.frame \in {0, tables[id][e].frame}
    BY <1>8
  <2> HIDE DEF fs, new
  <2>3. Exclusive(Put(tables, id, e, new), fs)
    BY <1>3, <1>4, <1>5, <2>1, <2>2, PutExclusive
  <2> QED
    BY <1>1, <1>7, <2>3 DEF fs, new
<1>11. TypeInv'
  BY <1>1, <1>4, <1>9 DEF IInv, TypeInv
<1>12. CloneType' /\ CloneInv' /\ Private(directories')
  BY <1>1, <1>9 DEF IInv, CloneType, CloneInv, Cloning, Running, NoClone
<1> QED
  BY <1>10, <1>11, <1>12 DEF IInv

LEMMA SwitchStep ==
  ASSUME IInv, NEW dir \in 2 .. Len(directories), SwitchPageDirectory(dir)
  PROVE  IInv'
<1>1. /\ clone = NoClone /\ current_directory # 0 /\ current_directory' = dir
      /\ UNCHANGED <<frames, tables, directories, boot, clone, ram>>
  BY DEF SwitchPageDirectory, Running
<1>2. current_directory' \in 0 .. Len(directories)
  BY <1>1, Bounds DEF IInv
<1>3. TypeInv'
  BY <1>1, <1>2 DEF IInv, TypeInv
<1>4. CloneType' /\ CloneInv'
  BY <1>1 DEF IInv, CloneType, CloneInv, Cloning, NoClone
<1>5. Exclusive(tables', frames') /\ Private(directories')
  BY <1>1 DEF IInv
<1> QED
  BY <1>3, <1>4, <1>5 DEF IInv

LEMMA WriteStep ==
  ASSUME IInv, NEW p \in StackPages, NEW v \in Values, Write(p, v)
  PROVE  IInv'
<1>1. /\ clone = NoClone
      /\ UNCHANGED <<frames, tables, directories, current_directory, boot, clone>>
  BY DEF Write, Running
<1>2. ram' \in [Frames -> Values]
  BY DEF Write, IInv, TypeInv
<1>3. TypeInv'
  BY <1>1, <1>2 DEF IInv, TypeInv
<1>4. CloneType' /\ CloneInv'
  BY <1>1 DEF IInv, CloneType, CloneInv, Cloning, NoClone
<1>5. Exclusive(tables', frames') /\ Private(directories')
  BY <1>1 DEF IInv
<1> QED
  BY <1>3, <1>4, <1>5 DEF IInv

LEMMA NextIInv == IInv /\ [Next]_vars => IInv'
<1> SUFFICES ASSUME IInv, [Next]_vars PROVE IInv'
  OBVIOUS
<1>1. CASE BootMap
  BY <1>1, BootMapStep
<1>2. CASE EnablePaging
  BY <1>2, EnablePagingStep
<1>3. CASE CloneDirectory
  BY <1>3, CloneDirectoryStep
<1>4. CASE CloneSkip
  BY <1>4, CloneSkipStep
<1>5. CASE CloneLink
  BY <1>5, CloneLinkStep
<1>6. CASE CloneTable
  BY <1>6, CloneTableStep
<1>7. CASE ClonePage
  BY <1>7, ClonePageStep
<1>8. CASE CloneTableDone
  BY <1>8, CloneTableDoneStep
<1>9. CASE CloneReturn
  BY <1>9, CloneReturnStep
<1>10. CASE \E p \in StackPages : MoveStack(p)
  BY <1>10, MoveStackStep
<1>11. CASE \E p \in HeapStart .. HeapMax : HeapExpand(p) \/ HeapContract(p)
  BY <1>11, HeapExpandStep, HeapContractStep
<1>12. CASE \E dir \in 2 .. Len(directories) : SwitchPageDirectory(dir)
  BY <1>12, SwitchStep
<1>13. CASE \E p \in StackPages, v \in Values : Write(p, v)
  BY <1>13, WriteStep
<1>14. CASE UNCHANGED vars
  BY <1>14 DEF vars, IInv, TypeInv, CloneType, CloneInv, Cloning, source, Shared
<1> QED
  BY <1>1, <1>2, <1>3, <1>4, <1>5, <1>6, <1>7, <1>8, <1>9, <1>10, <1>11, <1>12, <1>13, <1>14
  DEF Next

(* The inductive invariant holds in every state that paging.c reaches.      *)
THEOREM Invariance == Spec => []IInv
BY InitIInv, NextIInv, PTL DEF Spec

(* Frames, tables, directories and the progress of a clone stay in range,   *)
(* whatever initialise_paging, clone_directory, move_stack and the heap do. *)
THEOREM TypeCorrect == Spec => []TypeOK
<1>1. IInv => TypeOK
  <2> SUFFICES ASSUME IInv PROVE TypeOK
    OBVIOUS
  <2>1. /\ Len(tables) \in Nat /\ Len(directories) \in Nat
        /\ directories \in Seq(Directory)
        /\ \A d \in 1 .. Len(directories) : \A s \in 0 .. Slots - 1 :
              directories[d][s] \in 0 .. Len(tables)
    BY Bounds DEF IInv
  <2>2. directories \in Seq([0 .. Slots - 1 -> 0 .. Len(tables)])
    <3>1. ASSUME NEW d \in 1 .. Len(directories)
          PROVE  directories[d] \in [0 .. Slots - 1 -> 0 .. Len(tables)]
      <4>1. directories[d] \in [0 .. Slots - 1 -> Nat]
        BY <2>1 DEF Directory
      <4> QED
        BY <2>1, <4>1
    <3>2. directories = [d \in 1 .. Len(directories) |-> directories[d]]
      BY <2>1
    <3> QED
      BY <2>1, <3>1, <3>2
  <2>3. clone \in [src : 0 .. Len(directories), slot : 0 .. Slots,
                   table : 0 .. Len(tables), entry : 0 .. Entries]
    <3>1. /\ clone \in [src : Nat, slot : Nat, table : Nat, entry : Nat]
          /\ clone.src <= Len(directories) /\ clone.slot <= Slots
          /\ clone.table <= Len(tables) /\ clone.entry <= Entries
      BY DEF IInv, CloneType
    <3>2. /\ clone.src \in 0 .. Len(directories) /\ clone.slot \in 0 .. Slots
          /\ clone.table \in 0 .. Len(tables) /\ clone.entry \in 0 .. Entries
      BY <2>1, <3>1
    <3> QED
      BY <3>1, <3>2
  <2>4. tables \in Seq([0 .. Entries - 1 -> Page])
    BY DEF IInv, TypeInv, Table
  <2> QED
    BY <2>2, <2>3, <2>4 DEF IInv, TypeInv, TypeOK
<1> QED
  BY <1>1, Invariance, PTL

(* No two pages have the same frame and no frame of a page is free, for any *)
(* number of frames, tables and directories, whatever is mapped, cloned,    *)
(* given back by the heap and mapped again.                                 *)
THEOREM FramesAreExclusive == Spec => []FramesExclusive
<1>1. IInv => FramesExclusive
  BY DEF IInv, Exclusive, FramesExclusive
<1> QED
  BY <1>1, Invariance, PTL

(* However often directories are cloned, from clones, too, a table that two *)
(* of them hold is one of the kernel's.                                     *)
THEOREM TablesArePrivate == Spec => []TablesPrivate
<1>1. IInv => TablesPrivate
  BY DEF IInv, Private, TablesPrivate
<1> QED
  BY <1>1, Invariance, PTL
-----------------------------------------------------------------------------
(* The directories: initialise_paging maps the first pages to their own     *)
(* frames, no directory ever loses them or the heap, and a clone is a copy. *)
kernel(s) == directories[kernel_directory][s]
KernelSlots == {Slot(p) : p \in 0 .. Identity - 1} \cup {Slot(HeapStart)}

(* The tables of the kernel are there, and every directory has them but for *)
(* the one that a clone fills, which has those it came by.                  *)
ShareInv ==
  /\ current_directory = 0 => clone = NoClone /\ Len(directories) = 1
  /\ kernel(Slot(HeapStart)) # 0
  /\ \A p \in Pages : p < boot /\ p < Identity => kernel(Slot(p)) # 0
  /\ KernelMappedEverywhere
  /\ Cloning => /\ clone.src # child
                /\ \A s \in KernelSlots :
                     directories[child][s] = IF s < clone.slot THEN kernel(s) ELSE 0

(* While the first pages are mapped, the frames that are taken are those of *)
(* the pages before, and the pages that follow have none.                   *)
FreshInv ==
  boot < Identity =>
    /\ \A f \in 0 .. Cleared - 1 : f \in frames <=> f < boot
    /\ \A p \in Pages : p >= boot /\ kernel(Slot(p)) # 0 =>
         tables[kernel(Slot(p))][Entry(p)].frame = 0

BootInv == IInv /\ ShareInv /\ IdentityMapped /\ FreshInv

USE BootAssumption
-----------------------------------------------------------------------------
(* A page is known by its table and its entry.                              *)
LEMMA SamePage ==
  ASSUME NEW p \in Pages, NEW q \in Pages, Slot(p) = Slot(q), Entry(p) = Entry(q)
  PROVE  p = q
<1>1. p \in Nat /\ q \in Nat /\ Entries \in Nat /\ Entries > 0
  BY DEF Pages
<1>2. p = Entries * (p \div Entries) + (p % Entries) /\ q = Entries * (q \div Entries) + (q % Entries)
  BY <1>1
<1> QED
  BY <1>2 DEF Slot, Entry

(* The slots of the kernel lie in a directory.                              *)
LEMMA KernelSlotsFacts ==
  /\ KernelSlots \subseteq 0 .. Slots - 1 /\ Slot(HeapStart) \in KernelSlots
  /\ \A p \in Pages : p < Identity => Slot(p) \in KernelSlots
<1>1. HeapStart \in Pages /\ \A p \in 0 .. Identity - 1 : p \in Pages
  BY DEF Pages
<1>2. \A p \in Pages : p < Identity => p \in 0 .. Identity - 1
  BY DEF Pages
<1> QED
  BY <1>1, <1>2, PageParts DEF KernelSlots

(* What MapPage does to directories, tables and frames.                     *)
LEMMA MapPageEffect ==
  ASSUME TypeInv, NEW dir \in 1 .. Len(directories), NEW p \in Pages, NEW w \in BOOLEAN,
         MapPage(dir, p, w)
  PROVE  LET old  == directories[dir][Slot(p)]
             id   == IF old = 0 THEN Len(tables) + 1 ELSE old
             page == IF old = 0 THEN EmptyTable[Entry(p)] ELSE tables[old][Entry(p)]
         IN  /\ Len(directories') = Len(directories)
             /\ \A c \in 1 .. Len(directories), r \in 0 .. Slots - 1 :
                  directories'[c][r] = IF c = dir /\ r = Slot(p) THEN id ELSE directories[c][r]
             /\ \A t \in 1 .. Len(tables), e \in 0 .. Entries - 1 :
                  ~(t = id /\ e = Entry(p)) => tables'[t][e] = tables[t][e]
             /\ old = 0 => \A e \in 0 .. Entries - 1 :
                             e # Entry(p) => tables'[id][e] = EmptyTable[e]
             /\ tables'[id][Entry(p)] = alloc_frame(page, w)
             /\ frames' = set_frame(page)
<1> DEFINE s == Slot(p)
           e == Entry(p)
           old == directories[dir][s]
           made == IF old = 0 THEN Append(tables, EmptyTable) ELSE tables
           id == IF old = 0 THEN Len(made) ELSE old
           page == made[id][e]
<1>1. s \in 0 .. Slots - 1 /\ e \in 0 .. Entries - 1
  BY PageParts
<1>2. /\ directories' = SetSlot(directories, dir, s, id)
      /\ tables' = Put(made, id, e, alloc_frame(page, w))
      /\ frames' = set_frame(page)
  BY DEF MapPage, SetSlot, Put
<1> HIDE DEF s, e
<1>3. /\ Len(tables) \in Nat /\ directories \in Seq(Directory)
      /\ Len(directories) > 0 /\ tables \in Seq(Table) /\ frames \subseteq Frames
      /\ old \in 0 .. Len(tables)
  BY <1>1, Bounds DEF TypeInv
<1> HIDE DEF old
<1>4. /\ made \in Seq(Table) /\ id \in 1 .. Len(made)
      /\ id = IF old = 0 THEN Len(tables) + 1 ELSE old
      /\ \A t \in 1 .. Len(tables) : t \in 1 .. Len(made) /\ made[t] = tables[t]
      /\ old = 0 => made[id] = EmptyTable
  <2>1. CASE old = 0
    <3>1. EmptyTable \in Table
      <4>1. 0 \in Frames
        BY DEF Frames, PageSize
      <4> QED
        BY <4>1 DEF EmptyTable, Table, Page
    <3> QED
      BY <1>3, <2>1, <3>1, AppendProperties
  <2>2. CASE old # 0
    BY <1>3, <2>2
  <2> QED
    BY <2>1, <2>2
<1> HIDE DEF made, id
<1>5. page \in Page
  <2>1. made[id] \in Table
    BY <1>4
  <2> QED
    BY <1>1, <2>1 DEF Table
<1>6. page = IF old = 0 THEN EmptyTable[e] ELSE tables[old][e]
  BY <1>3, <1>4
<1> HIDE DEF page
<1>7. alloc_frame(page, w) \in Page
  BY <1>3, <1>5, AllocFrame
<1>8. /\ Len(directories') = Len(directories)
      /\ \A c \in 1 .. Len(directories), r \in 0 .. Slots - 1 :
           directories'[c][r] = IF c = dir /\ r = s THEN id ELSE directories[c][r]
  <2>1. id \in Nat
    BY <1>4
  <2> QED
    <3>1. /\ directories \in Seq(Directory) /\ dir \in 1 .. Len(directories)
          /\ s \in 0 .. Slots - 1 /\ id \in Nat
      BY <1>1, <1>3, <2>1
    <3>2. /\ Len(SetSlot(directories, dir, s, id)) = Len(directories)
          /\ \A c \in 1 .. Len(directories) : \A r \in 0 .. Slots - 1 :
               SetSlot(directories, dir, s, id)[c][r]
                 = IF c = dir /\ r = s THEN id ELSE directories[c][r]
      BY <3>1, SetSlotFacts, SMTT(30)
    <3>3. directories' = SetSlot(directories, dir, s, id)
      BY <1>2
    <3>4. /\ Len(directories') = Len(directories)
          /\ \A c \in 1 .. Len(directories) : \A r \in 0 .. Slots - 1 :
               directories'[c][r] = IF c = dir /\ r = s THEN id ELSE directories[c][r]
      BY <3>2, <3>3
    <3> QED
      BY <3>4
<1>9. \A t \in 1 .. Len(made), d \in 0 .. Entries - 1 :
         tables'[t][d] = IF t = id /\ d = e THEN alloc_frame(page, w) ELSE made[t][d]
  <2> DEFINE new == alloc_frame(page, w)
  <2>1. new \in Page
    BY <1>7
  <2> HIDE DEF new
  <2>2. \A u \in 1 .. Len(made) : \A d \in 0 .. Entries - 1 :
           Put(made, id, e, new)[u][d] = IF u = id /\ d = e THEN new ELSE made[u][d]
    <3>1. made \in Seq(Table) /\ id \in 1 .. Len(made) /\ e \in 0 .. Entries - 1
      BY <1>1, <1>4
    <3>2. /\ Put(made, id, e, new) \in Seq(Table) /\ Len(Put(made, id, e, new)) = Len(made)
          /\ \A u \in 1 .. Len(made) : \A d \in 0 .. Entries - 1 :
               Put(made, id, e, new)[u][d] = IF u = id /\ d = e THEN new ELSE made[u][d]
      BY <2>1, <3>1, PutFacts
    <3> QED
      BY <3>2
  <2>3. tables' = Put(made, id, e, new)
    BY <1>2 DEF new
  <2> QED
    BY <2>2, <2>3 DEF new
<1>10. /\ \A t \in 1 .. Len(tables), d \in 0 .. Entries - 1 :
            ~(t = id /\ d = e) => tables'[t][d] = tables[t][d]
       /\ old = 0 => \A d \in 0 .. Entries - 1 : d # e => tables'[id][d] = EmptyTable[d]
       /\ tables'[id][e] = alloc_frame(page, w)
  BY <1>1, <1>4, <1>9, ZenonT(30)
<1> QED
  BY <1>2, <1>4, <1>6, <1>8, <1>10, ZenonT(30) DEF s, e, old

(* A page of the kernel that is not the one that is mapped stays.           *)
LEMMA MapPageKeepsOthers ==
  ASSUME TypeInv, Private(directories), NEW dir \in 1 .. Len(directories), NEW p \in Pages,
         NEW w \in BOOLEAN, MapPage(dir, p, w), NEW q \in Pages, q # p, kernel(Slot(q)) # 0
  PROVE  /\ kernel(Slot(q))' = kernel(Slot(q))
         /\ tables'[kernel(Slot(q))][Entry(q)] = tables[kernel(Slot(q))][Entry(q)]
<1> DEFINE old == directories[dir][Slot(p)]
           id == IF old = 0 THEN Len(tables) + 1 ELSE old
           t == kernel(Slot(q))
<1>1. /\ Slot(p) \in 0 .. Slots - 1 /\ Entry(p) \in 0 .. Entries - 1
      /\ Slot(q) \in 0 .. Slots - 1 /\ Entry(q) \in 0 .. Entries - 1
  BY PageParts
<1>2. /\ kernel_directory \in 1 .. Len(directories) /\ t \in 1 .. Len(tables)
      /\ Len(tables) \in Nat
  <2>1. Len(tables) \in Nat /\ Len(directories) \in Nat /\ Len(directories) > 0
    BY Bounds
  <2>2. kernel_directory \in 1 .. Len(directories)
    BY <2>1 DEF kernel_directory
  <2>3. t \in 0 .. Len(tables) /\ t # 0
    BY <1>1, <2>2, Bounds DEF kernel
  <2> QED
    BY <2>1, <2>2, <2>3
<1>3. /\ \A c \in 1 .. Len(directories), r \in 0 .. Slots - 1 :
           directories'[c][r] = IF c = dir /\ r = Slot(p) THEN id ELSE directories[c][r]
      /\ \A u \in 1 .. Len(tables), e \in 0 .. Entries - 1 :
           ~(u = id /\ e = Entry(p)) => tables'[u][e] = tables[u][e]
  BY MapPageEffect
<1>4. directories'[kernel_directory][Slot(q)] = t
  BY <1>1, <1>2, <1>3 DEF kernel
<1>5. ~(t = id /\ Entry(q) = Entry(p))
  <2> SUFFICES ASSUME t = id, Entry(q) = Entry(p) PROVE FALSE
    OBVIOUS
  <2>1. old = t /\ old # 0
    BY <1>2
  <2>2. Slot(p) # Slot(q)
    BY SamePage
  <2>3. directories[dir][Slot(p)] = directories[kernel_directory][Slot(q)]
    BY <2>1 DEF kernel
  <2> QED
    BY <1>1, <1>2, <2>1, <2>2, <2>3, PrivateSlots, SMTT(30)
<1>6. kernel(Slot(q))' = directories'[kernel_directory][Slot(q)]
  BY DEF kernel
<1> QED
  BY <1>1, <1>2, <1>3, <1>4, <1>5, <1>6
-----------------------------------------------------------------------------
(* Once initialise_paging has mapped its pages, the kernel has its tables.  *)
LEMMA KernelSlotsThere ==
  ASSUME ShareInv, boot = BootPages
  PROVE  \A s \in KernelSlots : kernel(s) # 0
<1> SUFFICES ASSUME NEW s \in KernelSlots, s # Slot(HeapStart) PROVE kernel(s) # 0
  BY DEF ShareInv
<1>1. PICK p \in 0 .. Identity - 1 : s = Slot(p)
  BY DEF KernelSlots
<1>2. p \in Pages /\ p < boot /\ p < Identity
  BY <1>1 DEF Pages, BootPages
<1> QED
  BY <1>1, <1>2 DEF ShareInv

(* From then on no page that is mapped gives a directory another table in   *)
(* one of these slots.                                                      *)
LEMMA MapPageShare ==
  ASSUME TypeInv, ShareInv, boot = BootPages, clone = NoClone, current_directory # 0,
         NEW dir \in 1 .. Len(directories), NEW p \in Pages, NEW w \in BOOLEAN,
         MapPage(dir, p, w), UNCHANGED <<current_directory, boot, clone>>
  PROVE  ShareInv'
<1>1. Len(directories) \in Nat /\ Len(directories) > 0
  BY Bounds
<1>2. ~Cloning /\ ~Cloning' /\ kernel_directory \in 1 .. Len(directories)
  BY <1>1 DEF Cloning, kernel_directory
<1>3. \A d \in 1 .. Len(directories), s \in KernelSlots : directories[d][s] = kernel(s)
  BY <1>2 DEF ShareInv, KernelMappedEverywhere, KernelSlots, kernel
<1>4. \A s \in KernelSlots : kernel(s) # 0 /\ s \in 0 .. Slots - 1
  BY KernelSlotsThere, KernelSlotsFacts
<1>5. /\ Len(directories') = Len(directories)
      /\ \A c \in 1 .. Len(directories), r \in 0 .. Slots - 1 :
           \/ directories'[c][r] = directories[c][r]
           \/ c = dir /\ r = Slot(p) /\ directories[dir][Slot(p)] = 0
  BY MapPageEffect
<1>6. \A d \in 1 .. Len(directories), s \in KernelSlots : directories'[d][s] = kernel(s)
  BY <1>3, <1>4, <1>5
<1>7. KernelMappedEverywhere'
  BY <1>2, <1>5, <1>6 DEF KernelMappedEverywhere, KernelSlots
<1>8. \A s \in KernelSlots : kernel(s)' # 0
  BY <1>2, <1>4, <1>6 DEF kernel
<1>9. kernel(Slot(HeapStart))' # 0
  BY <1>8, KernelSlotsFacts
<1>10. \A q \in Pages : q < Identity => kernel(Slot(q))' # 0
  BY <1>8, KernelSlotsFacts
<1> QED
  BY <1>2, <1>7, <1>9, <1>10 DEF ShareInv

(* Nor does it take a page of its own away from the kernel.                 *)
LEMMA MapPageIdentity ==
  ASSUME TypeInv, Private(directories), ShareInv, IdentityMapped, NEW b \in Nat, b <= boot,
         NEW dir \in 1 .. Len(directories), NEW p \in Pages, NEW w \in BOOLEAN,
         MapPage(dir, p, w), b <= p \/ Identity <= p
  PROVE  \A q \in Pages : q < b /\ q < Identity =>
           LET page == tables'[kernel(Slot(q))'][Entry(q)] IN page.present /\ page.frame = q
<1> SUFFICES ASSUME NEW q \in Pages, q < b, q < Identity
             PROVE  LET page == tables'[kernel(Slot(q))'][Entry(q)]
                    IN  page.present /\ page.frame = q
  OBVIOUS
<1>1. p # q /\ q < boot
  BY DEF Pages, TypeInv
<1>2. kernel(Slot(q)) # 0
  BY <1>1 DEF ShareInv
<1>3. tables'[kernel(Slot(q))'][Entry(q)] = tables[kernel(Slot(q))][Entry(q)]
  BY <1>1, <1>2, MapPageKeepsOthers
<1> QED
  BY <1>1, <1>3 DEF IdentityMapped, kernel

(* A page that is mapped after initialise_paging.                           *)
LEMMA MapPageBoot ==
  ASSUME BootInv, current_directory # 0, clone = NoClone,
         NEW dir \in 1 .. Len(directories), NEW p \in Pages, NEW w \in BOOLEAN,
         MapPage(dir, p, w), Identity <= p,
         UNCHANGED <<current_directory, boot, clone>>
  PROVE  (ShareInv /\ IdentityMapped /\ FreshInv)'
<1>1. TypeInv /\ Private(directories) /\ boot = BootPages /\ boot \in Nat
  BY SMTT(30) DEF BootInv, IInv, CloneInv, BootPages
<1>2. ShareInv'
  BY <1>1, MapPageShare DEF BootInv
<1>3. \A q \in Pages : q < boot /\ q < Identity =>
        LET page == tables'[kernel(Slot(q))'][Entry(q)] IN page.present /\ page.frame = q
  BY <1>1, MapPageIdentity DEF BootInv
<1>4. IdentityMapped'
  BY <1>3 DEF IdentityMapped, kernel, kernel_directory
<1>5. FreshInv'
  BY <1>1 DEF FreshInv, BootPages
<1> QED
  BY <1>2, <1>4, <1>5
-----------------------------------------------------------------------------
(* While the frames below boot are taken and boot is not, it is the first.  *)
LEMMA FirstIsBoot ==
  ASSUME TypeInv, FreshInv, boot < Identity
  PROVE  first_frame = boot
<1> DEFINE free == Frames \ frames
<1>1. boot \in Nat /\ NFrames \in Nat /\ Cleared \in Int /\ boot < Cleared /\ Cleared <= NFrames
  BY DEF TypeInv, PageSize
<1>2. boot \in free
  BY <1>1 DEF FreshInv, Frames
<1>3. \A g \in free : boot <= g
  BY <1>1 DEF FreshInv, Frames
<1>4. \A h \in free : (\A g \in free : h <= g) => h = boot
  BY <1>1, <1>2, <1>3 DEF Frames
<1>5. (CHOOSE h \in free : \A g \in free : h <= g) = boot
  BY <1>2, <1>3, <1>4
<1> QED
  BY <1>2, <1>5 DEF first_frame

LEMMA BootMapBoot ==
  ASSUME BootInv, BootMap
  PROVE  (ShareInv /\ IdentityMapped /\ FreshInv)'
<1>1. /\ TypeInv /\ Private(directories) /\ ShareInv /\ IdentityMapped /\ FreshInv
      /\ boot \in Nat /\ boot < BootPages
  BY DEF BootInv, IInv, TypeInv, BootMap, BootPages
<1>2. /\ current_directory = 0 /\ clone = NoClone /\ Len(directories) = 1
      /\ kernel_directory \in 1 .. Len(directories)
  <2>1. current_directory = 0
    BY <1>1 DEF BootInv, IInv, CloneInv
  <2>2. clone = NoClone /\ Len(directories) = 1
    BY <1>1, <2>1 DEF ShareInv
  <2> QED
    BY <2>1, <2>2 DEF kernel_directory
<1> DEFINE at == IF boot < Identity THEN boot ELSE HeapStart + (boot - Identity)
<1>3. PICK p \in Pages : p = at
  <2>1. at \in Pages
    BY <1>1 DEF Pages, BootPages
  <2> QED
    BY <2>1
<1>4. /\ MapPage(kernel_directory, p, FALSE) /\ boot' = boot + 1
      /\ UNCHANGED <<current_directory, clone, ram>>
      /\ (boot <= p \/ Identity <= p) /\ (boot < Identity => p = boot)
  <2>1. /\ MapPage(kernel_directory, at, FALSE) /\ boot' = boot + 1
        /\ UNCHANGED <<current_directory, clone, ram>>
    BY DEF BootMap
  <2>2. (boot <= at \/ Identity <= at) /\ (boot < Identity => at = boot)
    BY <1>1
  <2> HIDE DEF at
  <2> QED
    BY <1>3, <2>1, <2>2
<1> HIDE DEF at
<1> DEFINE old == kernel(Slot(p))
           id == IF old = 0 THEN Len(tables) + 1 ELSE old
           page == IF old = 0 THEN EmptyTable[Entry(p)] ELSE tables[old][Entry(p)]
<1>5. /\ Slot(p) \in 0 .. Slots - 1 /\ Entry(p) \in 0 .. Entries - 1
      /\ Len(tables) \in Nat /\ old \in 0 .. Len(tables)
  BY <1>1, <1>2, PageParts, Bounds DEF kernel
<1>6. /\ Len(directories') = Len(directories)
      /\ \A r \in 0 .. Slots - 1 : kernel(r)' = IF r = Slot(p) THEN id ELSE kernel(r)
      /\ old = 0 => \A e \in 0 .. Entries - 1 :
                       e # Entry(p) => tables'[id][e] = EmptyTable[e]
      /\ tables'[id][Entry(p)] = alloc_frame(page, FALSE)
      /\ frames' = set_frame(page)
  <2>1. /\ Len(directories') = Len(directories)
        /\ \A c \in 1 .. Len(directories), r \in 0 .. Slots - 1 :
             directories'[c][r] =
               IF c = kernel_directory /\ r = Slot(p) THEN id ELSE directories[c][r]
        /\ old = 0 => \A e \in 0 .. Entries - 1 :
                         e # Entry(p) => tables'[id][e] = EmptyTable[e]
        /\ tables'[id][Entry(p)] = alloc_frame(page, FALSE)
        /\ frames' = set_frame(page)
    BY <1>1, <1>2, <1>4, MapPageEffect, ZenonT(30) DEF kernel
  <2> HIDE DEF id, page
  <2>2. \A r \in 0 .. Slots - 1 : kernel(r)' = IF r = Slot(p) THEN id ELSE kernel(r)
    BY <1>2, <2>1 DEF kernel
  <2> QED
    BY <2>1, <2>2
<1>7. id # 0
  BY <1>5
<1>8. /\ \A r \in 0 .. Slots - 1 : kernel(r) # 0 => kernel(r)' # 0
      /\ kernel(Slot(p))' = id
  BY <1>5, <1>6, <1>7
<1> HIDE DEF id, old
<1>9. ShareInv'
  <2>1. kernel(Slot(HeapStart))' # 0
    BY <1>1, <1>8, KernelSlotsFacts DEF ShareInv
  <2>2. ASSUME NEW q \in Pages, q < boot', q < Identity PROVE kernel(Slot(q))' # 0
    <3>1. CASE q < boot
      BY <1>1, <1>8, <2>2, <3>1, PageParts DEF ShareInv
    <3>2. CASE ~(q < boot)
      <4>1. q = boot /\ q = p
        BY <1>1, <1>4, <2>2, <3>2 DEF Pages
      <4> QED
        BY <1>7, <1>8, <4>1
    <3> QED
      BY <3>1, <3>2
  <2>3. KernelMappedEverywhere'
    BY <1>2, <1>6 DEF KernelMappedEverywhere, kernel_directory
  <2>4. ~Cloning' /\ clone' = NoClone /\ Len(directories') = 1
    BY <1>2, <1>4, <1>6 DEF Cloning
  <2> QED
    BY <2>1, <2>2, <2>3, <2>4 DEF ShareInv
<1>10. boot < Identity => page.frame = 0 /\ first_frame = boot
  <2> SUFFICES ASSUME boot < Identity PROVE page.frame = 0
    BY <1>1, FirstIsBoot
  <2>1. CASE old = 0
    BY <1>5, <2>1 DEF EmptyTable
  <2>2. CASE old # 0
    <3>1. p >= boot
      BY <1>1, <1>4
    <3> QED
      BY <1>1, <1>4, <2>2, <3>1 DEF FreshInv, old
  <2> QED
    BY <2>1, <2>2
<1> HIDE DEF page
<1>11. boot < Identity => /\ alloc_frame(page, FALSE).present
                          /\ alloc_frame(page, FALSE).frame = boot
                          /\ frames' = frames \cup {boot}
  BY <1>6, <1>10 DEF alloc_frame, set_frame
<1>12. IdentityMapped'
  <2> SUFFICES ASSUME NEW q \in Pages, q < boot', q < Identity
               PROVE  /\ tables'[kernel(Slot(q))'][Entry(q)].present
                      /\ tables'[kernel(Slot(q))'][Entry(q)].frame = q
    BY DEF IdentityMapped, kernel, kernel_directory
  <2>1. CASE q < boot
    <3>1. boot <= boot
      BY <1>1
    <3>2. \A r \in Pages : r < boot /\ r < Identity =>
            LET mapped == tables'[kernel(Slot(r))'][Entry(r)] IN mapped.present /\ mapped.frame = r
      BY <1>1, <1>2, <1>4, <3>1, MapPageIdentity
    <3> QED
      BY <2>1, <3>2
  <2>2. CASE ~(q < boot)
    <3>1. q = boot /\ q = p /\ boot < Identity
      BY <1>1, <1>4, <2>2 DEF Pages
    <3> QED
      BY <1>6, <1>8, <1>11, <3>1
  <2> QED
    BY <2>1, <2>2
<1>13. FreshInv'
  <2> SUFFICES ASSUME boot' < Identity
               PROVE  /\ \A f \in 0 .. Cleared - 1 : f \in frames' <=> f < boot'
                      /\ \A q \in Pages : q >= boot' /\ kernel(Slot(q))' # 0 =>
                           tables'[kernel(Slot(q))'][Entry(q)].frame = 0
    BY DEF FreshInv
  <2>1. boot < Identity /\ p = boot
    BY <1>1, <1>4
  <2>2. \A f \in 0 .. Cleared - 1 : f \in frames' <=> f < boot'
    BY <1>1, <1>4, <1>11, <2>1 DEF FreshInv
  <2>3. ASSUME NEW q \in Pages, q >= boot', kernel(Slot(q))' # 0
        PROVE  tables'[kernel(Slot(q))'][Entry(q)].frame = 0
    <3>1. q # p /\ q >= boot
      BY <1>1, <1>4, <2>1, <2>3 DEF Pages
    <3>2. CASE kernel(Slot(q)) # 0
      <4>1. kernel(Slot(q))' = kernel(Slot(q))
            /\ tables'[kernel(Slot(q))][Entry(q)] = tables[kernel(Slot(q))][Entry(q)]
        BY <1>1, <1>2, <1>4, <3>1, <3>2, MapPageKeepsOthers
      <4> QED
        BY <1>1, <2>1, <3>1, <3>2, <4>1 DEF FreshInv
    <3>3. CASE kernel(Slot(q)) = 0
      <4>1. Slot(q) = Slot(p) /\ old = 0
        BY <1>6, <2>3, <3>3, PageParts DEF old
      <4>2. Entry(q) # Entry(p) /\ Entry(q) \in 0 .. Entries - 1
        BY <1>4, <3>1, <4>1, SamePage, PageParts
      <4>3. tables'[id][Entry(q)] = EmptyTable[Entry(q)]
        BY <1>6, <4>1, <4>2
      <4> QED
        BY <1>8, <4>1, <4>2, <4>3 DEF EmptyTable
    <3> QED
      BY <3>2, <3>3
  <2> QED
    BY <2>2, <2>3
<1> QED
  BY <1>9, <1>12, <1>13
-----------------------------------------------------------------------------
(* A clone begins with nothing, and no directory there is gains or loses    *)
(* anything.                                                                *)
LEMMA CloneBeginBoot ==
  ASSUME BootInv, clone = NoClone, boot = BootPages, current_directory' # 0,
         NEW src \in 1 .. Len(directories), CloneBegin(src)
  PROVE  (ShareInv /\ IdentityMapped /\ FreshInv)'
<1>1. /\ Len(directories) \in Nat /\ Len(directories) > 0 /\ directories \in Seq(Directory)
      /\ kernel_directory \in 1 .. Len(directories) /\ boot \in Nat
  BY Bounds DEF BootInv, IInv, TypeInv, kernel_directory, BootPages
<1>2. /\ directories' = Append(directories, EmptyDirectory)
      /\ clone' = [src |-> src, slot |-> 0, table |-> 0, entry |-> 0]
      /\ UNCHANGED <<frames, tables, boot, ram>>
  BY DEF CloneBegin, NoClone
<1>3. /\ Len(directories') = Len(directories) + 1
      /\ directories'[Len(directories) + 1] = EmptyDirectory
      /\ \A d \in 1 .. Len(directories) : directories'[d] = directories[d]
  BY <1>1, <1>2
<1>4. \A s : kernel(s)' = kernel(s)
  BY <1>1, <1>3 DEF kernel
<1>5. ~Cloning /\ Cloning' /\ clone'.src # child' /\ clone'.slot = 0
  BY <1>1, <1>2, <1>3 DEF Cloning, NoClone, child
<1>6. \A s \in KernelSlots : directories'[child'][s] = 0 /\ ~(s < 0)
  BY <1>3, KernelSlotsFacts DEF child, EmptyDirectory
<1>7. KernelMappedEverywhere'
  <2> SUFFICES ASSUME NEW d \in 1 .. Len(directories'), NEW s \in KernelSlots, d # child'
               PROVE  directories'[d][s] = kernel(s)'
    BY <1>5, SMTT(30) DEF KernelMappedEverywhere, KernelSlots, kernel
  <2>1. d \in 1 .. Len(directories)
    BY <1>1, <1>3 DEF child
  <2>2. directories[d][s] = kernel(s)
    BY <1>5, <2>1 DEF BootInv, ShareInv, KernelMappedEverywhere, KernelSlots, kernel
  <2> QED
    BY <1>3, <1>4, <2>1, <2>2
<1>8. ShareInv'
  BY <1>2, <1>4, <1>5, <1>6, <1>7 DEF BootInv, ShareInv
<1>9. IdentityMapped'
  BY <1>1, <1>2, <1>3 DEF BootInv, IdentityMapped, kernel_directory
<1>10. FreshInv'
  BY <1>1, <1>2 DEF FreshInv, BootPages
<1> QED
  BY <1>8, <1>9, <1>10

(* What a clone knows of the directory it copies: in the slots of the       *)
(* kernel it finds the kernel's tables.                                     *)
LEMMA SourceIsKernel ==
  ASSUME BootInv, Cloning, clone.slot \in KernelSlots
  PROVE  source = kernel(clone.slot) /\ source # 0 /\ Shared
<1>1. clone.src \in 1 .. Len(directories) /\ boot = BootPages
  BY CloneFacts DEF BootInv
<1>2. source = kernel(clone.slot)
  BY <1>1 DEF BootInv, ShareInv, KernelMappedEverywhere, KernelSlots, kernel, source
<1>3. kernel(clone.slot) # 0
  BY <1>1, KernelSlotsThere DEF BootInv
<1> QED
  BY <1>2, <1>3 DEF Shared, kernel

(* The clone leaves the kernel's tables alone.                              *)
LEMMA CloneKeepsIdentity ==
  ASSUME BootInv, Cloning, UNCHANGED boot,
         \A s : kernel(s)' = kernel(s),
         \A s \in 0 .. Slots - 1, e \in 0 .. Entries - 1 :
            kernel(s) # 0 => tables'[kernel(s)][e] = tables[kernel(s)][e]
  PROVE  (IdentityMapped /\ FreshInv)'
<1>1. boot = BootPages
  BY CloneFacts DEF BootInv
<1>2. ASSUME NEW q \in Pages, q < boot, q < Identity
      PROVE  tables'[kernel(Slot(q))'][Entry(q)] = tables[kernel(Slot(q))][Entry(q)]
  <2>1. kernel(Slot(q)) # 0 /\ Slot(q) \in 0 .. Slots - 1 /\ Entry(q) \in 0 .. Entries - 1
    BY <1>2, PageParts DEF BootInv, ShareInv
  <2> QED
    BY <2>1
<1>3. IdentityMapped'
  <2> SUFFICES ASSUME NEW q \in Pages, q < boot, q < Identity
               PROVE  /\ tables'[kernel(Slot(q))'][Entry(q)].present
                      /\ tables'[kernel(Slot(q))'][Entry(q)].frame = q
    BY DEF IdentityMapped, kernel, kernel_directory
  <2>1. /\ tables[kernel(Slot(q))][Entry(q)].present
        /\ tables[kernel(Slot(q))][Entry(q)].frame = q
    BY DEF BootInv, IdentityMapped, kernel
  <2> QED
    BY <1>2, <2>1
<1>4. FreshInv'
  <2>1. ~(BootPages < Identity)
    BY DEF BootPages
  <2> QED
    BY <1>1, <2>1 DEF FreshInv
<1> QED
  BY <1>3, <1>4

(* The clone goes on to the next slot: what the child has there is the      *)
(* kernel's, if the slot is one of the kernel's.                            *)
LEMMA NextSlotBoot ==
  ASSUME BootInv, Cloning, clone'.slot = clone.slot + 1, clone'.src = clone.src, Cloning',
         Len(directories') = Len(directories),
         \A c \in 1 .. Len(directories), r \in 0 .. Slots - 1 :
            ~(c = child /\ r = clone.slot) => directories'[c][r] = directories[c][r],
         clone.slot \in KernelSlots => directories'[child][clone.slot] = kernel(clone.slot),
         UNCHANGED <<frames, tables, current_directory, boot, ram>>
  PROVE  (ShareInv /\ IdentityMapped /\ FreshInv)'
<1>1. /\ child \in 1 .. Len(directories) /\ child # kernel_directory /\ current_directory # 0
      /\ kernel_directory \in 1 .. Len(directories) /\ clone.src \in 1 .. Len(directories)
  BY CloneFacts DEF BootInv
<1>2. \A r \in 0 .. Slots - 1 : kernel(r)' = kernel(r)
  BY <1>1 DEF kernel
<1>3. child' = child /\ clone.slot \in Nat
  BY DEF child, BootInv, IInv, CloneType
<1>4. ASSUME NEW s \in KernelSlots
      PROVE  directories'[child'][s] = IF s < clone'.slot THEN kernel(s)' ELSE 0
  <2>1. s \in 0 .. Slots - 1
    BY <1>4, KernelSlotsFacts
  <2>2. directories[child][s] = IF s < clone.slot THEN kernel(s) ELSE 0
    BY <1>4 DEF BootInv, ShareInv
  <2>3. CASE s = clone.slot
    BY <1>2, <1>3, <1>4, <2>1, <2>3
  <2>4. CASE s # clone.slot
    <3>1. directories'[child'][s] = directories[child][s]
      BY <1>1, <1>3, <2>1, <2>4
    <3>2. (s < clone'.slot) = (s < clone.slot)
      BY <1>3, <2>1, <2>4
    <3> QED
      BY <1>2, <2>1, <2>2, <3>1, <3>2
  <2> QED
    BY <2>3, <2>4
<1>5. KernelMappedEverywhere'
  <2> SUFFICES ASSUME NEW d \in 1 .. Len(directories), NEW s \in KernelSlots, d # child
               PROVE  directories'[d][s] = kernel(s)'
    BY <1>3 DEF KernelMappedEverywhere, KernelSlots, kernel
  <2>1. s \in 0 .. Slots - 1
    BY KernelSlotsFacts
  <2>2. directories[d][s] = kernel(s)
    BY DEF BootInv, ShareInv, KernelMappedEverywhere, KernelSlots, kernel
  <2> QED
    BY <1>2, <2>1, <2>2
<1>6. \A p \in Pages : kernel(Slot(p))' = kernel(Slot(p))
  BY <1>2, PageParts
<1>7. ShareInv'
  <2>1. kernel(Slot(HeapStart))' # 0
    BY <1>2, KernelSlotsFacts DEF BootInv, ShareInv
  <2>2. \A p \in Pages : p < boot' /\ p < Identity => kernel(Slot(p))' # 0
    BY <1>6 DEF BootInv, ShareInv
  <2>3. current_directory' # 0 /\ clone'.src # child'
    BY <1>1, <1>3 DEF BootInv, ShareInv
  <2> QED
    BY <1>4, <1>5, <2>1, <2>2, <2>3 DEF ShareInv
<1>8. IdentityMapped'
  BY <1>6 DEF BootInv, IdentityMapped, kernel, kernel_directory
<1>9. FreshInv'
  BY CloneFacts DEF FreshInv, BootPages, BootInv
<1> QED
  BY <1>7, <1>8, <1>9

LEMMA CloneSkipBoot == BootInv /\ CloneSkip => (ShareInv /\ IdentityMapped /\ FreshInv)'
<1> SUFFICES ASSUME BootInv, CloneSkip PROVE (ShareInv /\ IdentityMapped /\ FreshInv)'
  OBVIOUS
<1>1. /\ Cloning /\ source = 0 /\ clone' = [clone EXCEPT !.slot = @ + 1]
      /\ UNCHANGED <<frames, tables, directories, current_directory, boot, ram>>
  BY DEF CloneSkip
<1>2. clone.slot \notin KernelSlots
  BY <1>1, SourceIsKernel
<1>3. /\ clone \in [src : Nat, slot : Nat, table : Nat, entry : Nat] /\ clone.src > 0
  BY <1>1 DEF BootInv, IInv, CloneType, CloneInv
<1>4. clone'.slot = clone.slot + 1 /\ clone'.src = clone.src /\ Cloning'
  BY <1>1, <1>3 DEF Cloning, NoClone
<1> QED
  BY <1>1, <1>2, <1>4, NextSlotBoot

(* The slot of the child that the clone is at is written.                   *)
LEMMA ChildSlotFacts ==
  ASSUME IInv, Cloning, clone.slot \in 0 .. Slots - 1, NEW id \in Nat,
         directories' = SetSlot(directories, child, clone.slot, id)
  PROVE  /\ Len(directories') = Len(directories)
         /\ \A c \in 1 .. Len(directories), r \in 0 .. Slots - 1 :
              directories'[c][r] = IF c = child /\ r = clone.slot THEN id ELSE directories[c][r]
<1>1. child \in 1 .. Len(directories) /\ directories \in Seq(Directory)
  BY CloneFacts, Bounds DEF IInv
<1>2. PICK d \in 1 .. Len(directories), s \in 0 .. Slots - 1 : d = child /\ s = clone.slot
  BY <1>1
<1>3. /\ Len(SetSlot(directories, d, s, id)) = Len(directories)
      /\ \A c \in 1 .. Len(directories) : \A r \in 0 .. Slots - 1 :
           SetSlot(directories, d, s, id)[c][r] = IF c = d /\ r = s THEN id ELSE directories[c][r]
  BY <1>1, SetSlotFacts
<1> QED
  BY <1>2, <1>3

LEMMA CloneLinkBoot == BootInv /\ CloneLink => (ShareInv /\ IdentityMapped /\ FreshInv)'
<1> SUFFICES ASSUME BootInv, CloneLink PROVE (ShareInv /\ IdentityMapped /\ FreshInv)'
  OBVIOUS
<1>1. /\ Cloning /\ clone.slot < Slots /\ clone' = [clone EXCEPT !.slot = @ + 1]
      /\ directories' = SetSlot(directories, child, clone.slot, source)
      /\ UNCHANGED <<frames, tables, current_directory, boot, ram>>
  BY DEF CloneLink, SetSlot
<1>2. /\ clone \in [src : Nat, slot : Nat, table : Nat, entry : Nat] /\ clone.src > 0
      /\ child \in 1 .. Len(directories) /\ clone.src \in 1 .. Len(directories)
      /\ directories \in Seq(Directory)
  BY <1>1, CloneFacts, Bounds DEF BootInv, IInv, CloneType, CloneInv
<1>3. clone'.slot = clone.slot + 1 /\ clone'.src = clone.src /\ Cloning'
  BY <1>1, <1>2, SMTT(30) DEF Cloning, NoClone
<1>4. clone.slot \in 0 .. Slots - 1
  BY <1>1, <1>2
<1>5. source \in Nat
  <2>1. directories[clone.src] \in Directory
    BY <1>2
  <2> QED
    BY <1>4, <2>1 DEF source, Directory
<1> HIDE DEF source, child
<1>6. /\ Len(directories') = Len(directories)
      /\ \A c \in 1 .. Len(directories), r \in 0 .. Slots - 1 :
           directories'[c][r] = IF c = child /\ r = clone.slot THEN source ELSE directories[c][r]
  <2>1. PICK id \in Nat : id = source
    BY <1>5
  <2>2. directories' = SetSlot(directories, child, clone.slot, id)
    BY <1>1, <2>1
  <2> QED
    BY <1>1, <1>4, <2>1, <2>2, ChildSlotFacts DEF BootInv
<1>7. clone.slot \in KernelSlots => directories'[child][clone.slot] = kernel(clone.slot)
  BY <1>1, <1>2, <1>4, <1>6, SourceIsKernel
<1> QED
  BY <1>1, <1>3, <1>6, <1>7, NextSlotBoot

(* A table of its own is made for a slot that is not the kernel's.          *)
LEMMA OwnTable ==
  ASSUME BootInv, clone.table # 0
  PROVE  /\ Cloning /\ clone.slot \in 0 .. Slots - 1 /\ clone.slot \notin KernelSlots
         /\ clone.table \in Nat
         /\ \A s \in 0 .. Slots - 1 : kernel(s) # clone.table
<1>1. /\ clone.slot < Slots /\ ~Shared
      /\ \A d \in 1 .. Len(directories) : \A s \in 0 .. Slots - 1 :
           directories[d][s] # clone.table
  BY DEF BootInv, IInv, CloneInv
<1>2. Cloning
  BY DEF Cloning, NoClone
<1>3. clone.slot \in Nat /\ clone.table \in Nat
  BY DEF BootInv, IInv, CloneType
<1>4. clone.slot \notin KernelSlots
  BY <1>1, <1>2, SourceIsKernel
<1>5. kernel_directory \in 1 .. Len(directories)
  BY <1>2, CloneFacts DEF BootInv
<1>6. \A s \in 0 .. Slots - 1 : kernel(s) # clone.table
  BY <1>1, <1>5 DEF kernel
<1> QED
  BY <1>1, <1>2, <1>3, <1>4, <1>6

LEMMA CloneTableDoneBoot ==
  BootInv /\ CloneTableDone => (ShareInv /\ IdentityMapped /\ FreshInv)'
<1> SUFFICES ASSUME BootInv, CloneTableDone PROVE (ShareInv /\ IdentityMapped /\ FreshInv)'
  OBVIOUS
<1>1. /\ clone.table # 0
      /\ clone' = [src |-> clone.src, slot |-> clone.slot + 1, table |-> 0, entry |-> 0]
      /\ directories' = SetSlot(directories, child, clone.slot, clone.table)
      /\ UNCHANGED <<frames, tables, current_directory, boot, ram>>
  BY DEF CloneTableDone, NoClone, SetSlot
<1>2. /\ Cloning /\ clone.slot \in 0 .. Slots - 1 /\ clone.slot \notin KernelSlots
      /\ clone.table \in Nat
  BY <1>1, OwnTable
<1>3. /\ clone.src \in 1 .. Len(directories) /\ child \in 1 .. Len(directories)
      /\ directories \in Seq(Directory)
  BY <1>2, CloneFacts, Bounds DEF BootInv, IInv
<1>4. clone'.slot = clone.slot + 1 /\ clone'.src = clone.src /\ Cloning'
  BY <1>1, <1>3 DEF Cloning, NoClone
<1> HIDE DEF child
<1>5. /\ Len(directories') = Len(directories)
      /\ \A c \in 1 .. Len(directories), r \in 0 .. Slots - 1 :
           directories'[c][r]
             = IF c = child /\ r = clone.slot THEN clone.table ELSE directories[c][r]
  BY <1>1, <1>2, <1>3, SetSlotFacts, SMTT(30)
<1> QED
  BY <1>1, <1>2, <1>4, <1>5, NextSlotBoot

(* The steps of a clone that change no directory.                           *)
LEMMA CloneTablesBoot ==
  ASSUME BootInv, Cloning, UNCHANGED <<directories, current_directory, boot>>,
         clone'.src = clone.src, clone'.slot = clone.slot, Cloning',
         \A s \in 0 .. Slots - 1, e \in 0 .. Entries - 1 :
            kernel(s) # 0 => tables'[kernel(s)][e] = tables[kernel(s)][e]
  PROVE  (ShareInv /\ IdentityMapped /\ FreshInv)'
<1>1. \A s : kernel(s)' = kernel(s)
  BY DEF kernel
<1>2. ShareInv'
  <2>1. KernelMappedEverywhere'
    BY DEF BootInv, ShareInv, KernelMappedEverywhere, child
  <2>2. current_directory' # 0
    BY CloneFacts DEF BootInv
  <2> QED
    BY <1>1, <2>1, <2>2 DEF BootInv, ShareInv, child
<1> QED
  BY <1>1, <1>2, CloneKeepsIdentity

LEMMA CloneTableBoot == BootInv /\ CloneTable => (ShareInv /\ IdentityMapped /\ FreshInv)'
<1> SUFFICES ASSUME BootInv, CloneTable PROVE (ShareInv /\ IdentityMapped /\ FreshInv)'
  OBVIOUS
<1>1. /\ Cloning /\ tables' = Append(tables, EmptyTable)
      /\ clone' = [clone EXCEPT !.table = Len(tables) + 1]
      /\ UNCHANGED <<frames, directories, current_directory, boot, ram>>
  BY DEF CloneTable
<1>2. /\ clone \in [src : Nat, slot : Nat, table : Nat, entry : Nat] /\ clone.src > 0
      /\ tables \in Seq(Table) /\ Len(tables) \in Nat
      /\ kernel_directory \in 1 .. Len(directories)
      /\ \A d \in 1 .. Len(directories), s \in 0 .. Slots - 1 :
           directories[d][s] \in 0 .. Len(tables)
  <2>1. IInv
    BY DEF BootInv
  <2>2. TypeInv /\ CloneType /\ CloneInv
    BY <2>1 DEF IInv, TypeInv
  <2>3. clone \in [src : Nat, slot : Nat, table : Nat, entry : Nat] /\ tables \in Seq(Table)
    BY <2>2 DEF TypeInv, CloneType
  <2>4. clone.src > 0 /\ kernel_directory \in 1 .. Len(directories)
    BY <1>1, <2>1, CloneFacts, SMTT(30)
  <2> QED
    BY <1>1, <2>2, <2>3, <2>4, Bounds
<1>3. clone'.src = clone.src /\ clone'.slot = clone.slot /\ Cloning'
  <2>1. PICK n \in Nat : n = Len(tables) + 1
    <3>1. Len(tables) + 1 \in Nat
      BY <1>2
    <3> QED
      BY <3>1, Zenon
  <2>2. clone' = [clone EXCEPT !.table = n]
    BY <1>1, <2>1
  <2>3. clone'.src = clone.src /\ clone'.slot = clone.slot
    BY <1>2, <2>2
  <2> QED
    BY <1>2, <2>3 DEF Cloning, NoClone
<1>4. \A t \in 1 .. Len(tables) : tables'[t] = tables[t]
  BY <1>1, <1>2
<1>5. \A s \in 0 .. Slots - 1 : kernel(s) # 0 => kernel(s) \in 1 .. Len(tables)
  <2>1. \A s \in 0 .. Slots - 1 : kernel(s) \in 0 .. Len(tables)
    BY <1>2 DEF kernel
  <2> QED
    BY <1>2, <2>1
<1> QED
  BY <1>1, <1>3, <1>4, <1>5, CloneTablesBoot

LEMMA ClonePageBoot == BootInv /\ ClonePage => (ShareInv /\ IdentityMapped /\ FreshInv)'
<1> SUFFICES ASSUME BootInv, ClonePage PROVE (ShareInv /\ IdentityMapped /\ FreshInv)'
  OBVIOUS
<1>1. /\ clone.table # 0 /\ clone' = [clone EXCEPT !.entry = @ + 1]
      /\ UNCHANGED <<directories, current_directory, boot>>
      /\ \/ tables' = tables
         \/ \E page : tables' = [tables EXCEPT ![clone.table][clone.entry] = page]
  BY DEF ClonePage
<1>2. /\ Cloning /\ \A s \in 0 .. Slots - 1 : kernel(s) # clone.table
  BY <1>1, OwnTable
<1>3. /\ clone \in [src : Nat, slot : Nat, table : Nat, entry : Nat] /\ clone.src > 0
      /\ tables \in Seq(Table) /\ Len(tables) \in Nat
      /\ kernel_directory \in 1 .. Len(directories)
      /\ \A d \in 1 .. Len(directories), s \in 0 .. Slots - 1 :
           directories[d][s] \in 0 .. Len(tables)
  BY <1>2, CloneFacts, Bounds DEF BootInv, IInv, TypeInv, CloneType, CloneInv
<1>4. clone'.src = clone.src /\ clone'.slot = clone.slot /\ Cloning'
  BY <1>1, <1>3 DEF Cloning, NoClone
<1>5. \A t \in 1 .. Len(tables) : t # clone.table => tables'[t] = tables[t]
  <2>1. CASE tables' = tables
    BY <2>1
  <2>2. CASE \E page : tables' = [tables EXCEPT ![clone.table][clone.entry] = page]
    <3>1. PICK page : tables' = [tables EXCEPT ![clone.table][clone.entry] = page]
      BY <2>2
    <3>2. DOMAIN tables = 1 .. Len(tables)
      BY <1>3
    <3> QED
      BY <3>1, <3>2
  <2> QED
    BY <1>1, <2>1, <2>2
<1>6. \A s \in 0 .. Slots - 1 : kernel(s) # 0 => kernel(s) \in 1 .. Len(tables)
  <2>1. \A s \in 0 .. Slots - 1 : kernel(s) \in 0 .. Len(tables)
    BY <1>3 DEF kernel
  <2> QED
    BY <1>3, <2>1
<1> QED
  BY <1>1, <1>2, <1>4, <1>5, <1>6, CloneTablesBoot

LEMMA CloneReturnBoot == BootInv /\ CloneReturn => (ShareInv /\ IdentityMapped /\ FreshInv)'
<1> SUFFICES ASSUME BootInv, CloneReturn PROVE (ShareInv /\ IdentityMapped /\ FreshInv)'
  OBVIOUS
<1>1. /\ Cloning /\ clone.slot = Slots /\ clone' = NoClone
      /\ current_directory' \in {child, current_directory}
      /\ UNCHANGED <<frames, tables, directories, boot, ram>>
  BY DEF CloneReturn
<1>2. /\ child \in 1 .. Len(directories) /\ current_directory # 0 /\ boot = BootPages
  BY <1>1, CloneFacts DEF BootInv
<1>3. current_directory' # 0 /\ ~Cloning'
  BY <1>1, <1>2, Bounds DEF Cloning, BootInv, IInv
<1>4. \A s \in KernelSlots : directories[child][s] = kernel(s)
  BY <1>1, KernelSlotsFacts DEF BootInv, ShareInv
<1>5. KernelMappedEverywhere'
  BY <1>1, <1>4 DEF BootInv, ShareInv, KernelMappedEverywhere, KernelSlots, kernel
<1>6. ShareInv'
  BY <1>1, <1>3, <1>5 DEF BootInv, ShareInv, kernel
<1>7. IdentityMapped' /\ FreshInv'
  BY <1>1 DEF BootInv, IdentityMapped, FreshInv, kernel
<1> QED
  BY <1>6, <1>7
-----------------------------------------------------------------------------
(* The heap gives pages back that lie behind those of the kernel.           *)
LEMMA HeapContractBoot ==
  ASSUME BootInv, NEW p \in HeapStart .. HeapMax, HeapContract(p)
  PROVE  (ShareInv /\ IdentityMapped /\ FreshInv)'
<1> DEFINE id == kernel(Slot(p))
<1>1. /\ clone = NoClone /\ current_directory # 0 /\ id # 0
      /\ \E page : tables' = [tables EXCEPT ![id][Entry(p)] = page]
      /\ UNCHANGED <<directories, current_directory, boot, clone, ram>>
  BY DEF HeapContract, Running, kernel
<1>2. p \in Pages /\ p >= Identity
  BY DEF Pages
<1>3. /\ Slot(p) \in 0 .. Slots - 1 /\ Entry(p) \in 0 .. Entries - 1
      /\ tables \in Seq(Table) /\ Private(directories) /\ Len(tables) \in Nat
      /\ kernel_directory \in 1 .. Len(directories) /\ boot = BootPages
      /\ \A s \in 0 .. Slots - 1 : kernel(s) \in 0 .. Len(tables)
  <2>1. TypeInv /\ tables \in Seq(Table) /\ Private(directories) /\ boot = BootPages
    BY <1>1 DEF BootInv, IInv, TypeInv, CloneInv
  <2>2. kernel_directory \in 1 .. Len(directories)
    BY <2>1, Bounds DEF kernel_directory
  <2>3. Len(tables) \in Nat /\ \A s \in 0 .. Slots - 1 : kernel(s) \in 0 .. Len(tables)
    BY <2>1, <2>2, Bounds DEF kernel
  <2> QED
    BY <1>2, <2>1, <2>2, <2>3, PageParts
<1>4. ShareInv'
  BY <1>1 DEF BootInv, ShareInv, KernelMappedEverywhere, kernel, Cloning, child
<1>5. IdentityMapped'
  <2> SUFFICES ASSUME NEW q \in Pages, q < boot, q < Identity
               PROVE  tables'[kernel(Slot(q))][Entry(q)] = tables[kernel(Slot(q))][Entry(q)]
    BY <1>1 DEF BootInv, IdentityMapped, kernel
  <2> DEFINE t == kernel(Slot(q))
  <2>1. /\ t \in 1 .. Len(tables) /\ Slot(q) \in 0 .. Slots - 1 /\ Entry(q) \in 0 .. Entries - 1
    <3>1. t # 0 /\ Slot(q) \in 0 .. Slots - 1 /\ Entry(q) \in 0 .. Entries - 1
      BY PageParts DEF BootInv, ShareInv
    <3>2. t \in 0 .. Len(tables)
      BY <1>3, <3>1
    <3> QED
      BY <1>3, <3>1, <3>2, SMTT(30)
  <2>2. ~(t = id /\ Entry(q) = Entry(p))
    <3> SUFFICES ASSUME t = id, Entry(q) = Entry(p) PROVE FALSE
      OBVIOUS
    <3>1. q # p
      BY <1>2 DEF Pages
    <3>2. Slot(q) # Slot(p)
      BY <1>2, <3>1, SamePage
    <3>3. directories[kernel_directory][Slot(q)] = directories[kernel_directory][Slot(p)]
          /\ directories[kernel_directory][Slot(q)] # 0
      BY <1>1 DEF kernel
    <3>4. Slot(q) = Slot(p)
      <4>1. \A r, s \in 0 .. Slots - 1 :
               directories[kernel_directory][r] = directories[kernel_directory][s]
                 /\ directories[kernel_directory][r] # 0 /\ r # s => r = s
        <5>1. Private(directories) /\ kernel_directory \in 1 .. Len(directories)
          BY <1>3
        <5>2. SUFFICES ASSUME NEW r \in 0 .. Slots - 1, NEW s \in 0 .. Slots - 1,
                              directories[kernel_directory][r] = directories[kernel_directory][s],
                              directories[kernel_directory][r] # 0, r # s
                       PROVE  r = s
          BY Zenon
        <5> QED
          BY <5>1, <5>2, PrivateSlots
      <4> QED
        BY <1>3, <2>1, <3>3, <4>1
    <3> QED
      BY <3>2, <3>4
  <2>3. PICK page : tables' = [tables EXCEPT ![id][Entry(p)] = page]
    BY <1>1
  <2>4. tables[t] \in Table /\ DOMAIN tables = 1 .. Len(tables)
    BY <1>3, <2>1, SMTT(30)
  <2> HIDE DEF t, id
  <2>5. tables'[t][Entry(q)] = tables[t][Entry(q)]
    <3>1. CASE t # id
      BY <2>1, <2>3, <2>4, <3>1
    <3>2. CASE t = id /\ Entry(q) # Entry(p)
      <4>1. tables'[t] = [tables[t] EXCEPT ![Entry(p)] = page]
        BY <2>1, <2>3, <2>4, <3>2
      <4> QED
        BY <2>1, <2>4, <3>2, <4>1 DEF Table
    <3> QED
      BY <2>2, <3>1, <3>2
  <2> QED
    BY <2>5 DEF t
<1>6. FreshInv'
  BY <1>1, <1>3 DEF FreshInv, BootPages
<1> QED
  BY <1>4, <1>5, <1>6

LEMMA InitBoot == Init => BootInv
<1> SUFFICES ASSUME Init PROVE BootInv
  OBVIOUS
<1>1. IInv
  BY InitIInv
<1>2. /\ tables = <<EmptyTable>>
      /\ directories = <<[EmptyDirectory EXCEPT ![Slot(HeapStart)] = 1]>>
      /\ current_directory = 0 /\ boot = 0 /\ clone = NoClone
      /\ frames \subseteq Cleared .. NFrames - 1
  BY DEF Init
<1>3. \A s \in 0 .. Slots - 1 : kernel(s) = IF s = Slot(HeapStart) THEN 1 ELSE 0
  BY <1>2 DEF kernel, kernel_directory, EmptyDirectory
<1>4. ShareInv
  <2>1. kernel(Slot(HeapStart)) # 0
    <3>1. Slot(HeapStart) \in 0 .. Slots - 1
      BY KernelSlotsFacts
    <3> QED
      BY <1>3, <3>1
  <2>2. Len(directories) = 1 /\ ~Cloning
    BY <1>2 DEF Cloning
  <2>3. KernelMappedEverywhere
    BY <2>2 DEF KernelMappedEverywhere, kernel_directory
  <2>4. \A p \in Pages : ~(p < boot)
    BY <1>2 DEF Pages
  <2> QED
    BY <1>2, <2>1, <2>2, <2>3, <2>4 DEF ShareInv
<1>5. IdentityMapped
  BY <1>2 DEF IdentityMapped, Pages
<1>6. FreshInv
  <2>1. \A f \in 0 .. Cleared - 1 : f \in frames <=> f < boot
    BY <1>2, PageParts DEF PageSize
  <2>2. \A p \in Pages : kernel(Slot(p)) # 0 => tables[kernel(Slot(p))][Entry(p)].frame = 0
    BY <1>2, <1>3, PageParts DEF EmptyTable
  <2> QED
    BY <2>1, <2>2 DEF FreshInv
<1> QED
  BY <1>1, <1>4, <1>5, <1>6 DEF BootInv

LEMMA NextBoot == BootInv /\ [Next]_vars => BootInv'
<1> SUFFICES ASSUME BootInv, [Next]_vars PROVE (ShareInv /\ IdentityMapped /\ FreshInv)'
  BY NextIInv DEF BootInv
<1>1. CASE BootMap
  BY <1>1, BootMapBoot
<1>2. CASE EnablePaging
  <2>1. /\ kernel_directory \in 1 .. Len(directories) /\ clone = NoClone
        /\ current_directory' # 0
    BY <1>2, Bounds DEF EnablePaging, BootInv, IInv, ShareInv, kernel_directory
  <2> QED
    BY <1>2, <2>1, CloneBeginBoot DEF EnablePaging
<1>3. CASE CloneDirectory
  <2>1. /\ current_directory \in 1 .. Len(directories) /\ current_directory' # 0
        /\ clone = NoClone /\ boot = BootPages
    BY <1>3, Bounds DEF CloneDirectory, Running, BootInv, IInv, TypeInv, CloneInv
  <2> QED
    BY <1>3, <2>1, CloneBeginBoot DEF CloneDirectory
<1>4. CASE CloneSkip
  BY <1>4, CloneSkipBoot
<1>5. CASE CloneLink
  BY <1>5, CloneLinkBoot
<1>6. CASE CloneTable
  BY <1>6, CloneTableBoot
<1>7. CASE ClonePage
  BY <1>7, ClonePageBoot
<1>8. CASE CloneTableDone
  BY <1>8, CloneTableDoneBoot
<1>9. CASE CloneReturn
  BY <1>9, CloneReturnBoot
<1>10. ASSUME NEW p \in StackPages, MoveStack(p)
       PROVE  (ShareInv /\ IdentityMapped /\ FreshInv)'
  <2>1. p \in Pages /\ Identity <= p
    BY DEF Pages
  <2>2. current_directory \in 1 .. Len(directories) /\ current_directory # 0 /\ clone = NoClone
    BY <1>10, Bounds DEF MoveStack, Running, BootInv, IInv, TypeInv
  <2> QED
    BY <1>10, <2>1, <2>2, MapPageBoot DEF MoveStack
<1>11. ASSUME NEW p \in HeapStart .. HeapMax, HeapExpand(p)
       PROVE  (ShareInv /\ IdentityMapped /\ FreshInv)'
  <2>1. p \in Pages /\ Identity <= p
    BY DEF Pages
  <2>2. kernel_directory \in 1 .. Len(directories) /\ current_directory # 0 /\ clone = NoClone
    BY <1>11, Bounds DEF HeapExpand, Running, BootInv, IInv, kernel_directory
  <2> QED
    BY <1>11, <2>1, <2>2, MapPageBoot DEF HeapExpand
<1>12. ASSUME NEW p \in HeapStart .. HeapMax, HeapContract(p)
       PROVE  (ShareInv /\ IdentityMapped /\ FreshInv)'
  BY <1>12, HeapContractBoot
<1>13. CASE \/ \E dir \in 2 .. Len(directories) : SwitchPageDirectory(dir)
            \/ \E p \in StackPages, v \in Values : Write(p, v)
  <2>1. /\ UNCHANGED <<frames, tables, directories, boot, clone>>
        /\ current_directory # 0 /\ current_directory' # 0
    <3>1. CASE \E dir \in 2 .. Len(directories) : SwitchPageDirectory(dir)
      <4>1. PICK dir \in 2 .. Len(directories) : SwitchPageDirectory(dir)
        BY <3>1
      <4>2. dir # 0
        OBVIOUS
      <4> QED
        BY <4>1, <4>2 DEF SwitchPageDirectory, Running
    <3>2. CASE \E p \in StackPages, v \in Values : Write(p, v)
      BY <3>2 DEF Write, Running
    <3> QED
      BY <1>13, <3>1, <3>2
  <2>2. ShareInv'
    BY <2>1 DEF BootInv, ShareInv, KernelMappedEverywhere, kernel, Cloning, child
  <2>3. IdentityMapped'
    BY <2>1 DEF BootInv, IdentityMapped, kernel
  <2>4. FreshInv'
    BY <2>1 DEF BootInv, FreshInv, kernel
  <2> QED
    BY <2>2, <2>3, <2>4
<1>14. CASE UNCHANGED vars
  BY <1>14 DEF vars, BootInv, ShareInv, IdentityMapped, FreshInv, KernelMappedEverywhere, kernel,
               Cloning, child
<1> QED
  BY <1>1, <1>2, <1>3, <1>4, <1>5, <1>6, <1>7, <1>8, <1>9, <1>10, <1>11, <1>12, <1>13, <1>14
  DEF Next

(* From boot on, in every reachable state: what was mapped stays with its    *)
(* own frames, and every directory has the tables of the kernel.            *)
THEOREM BootInvariance == Spec => []BootInv
BY InitBoot, NextBoot, PTL DEF Spec

(* For any number of frames and any shape of tables and directories, the    *)
(* first pages are mapped to the frames of their own number, and nothing    *)
(* that the heap, move_stack or clone_directory does changes that.          *)
THEOREM KernelIsIdentityMapped == Spec => []IdentityMapped
<1>1. BootInv => IdentityMapped
  BY DEF BootInv
<1> QED
  BY <1>1, BootInvariance, PTL

(* Every directory that is not under construction has the tables of the     *)
(* kernel and of the heap as it began.                                      *)
THEOREM KernelIsMappedEverywhere == Spec => []KernelMappedEverywhere
<1>1. BootInv => KernelMappedEverywhere
  BY DEF BootInv, ShareInv
<1> QED
  BY <1>1, BootInvariance, PTL
-----------------------------------------------------------------------------
(* A page with a frame is present.                                          *)
Backed(page) == page.frame # 0 => page.present
Present(tabs) == \A t \in 1 .. Len(tabs), e \in 0 .. Entries - 1 : Backed(tabs[t][e])

(* What a clone makes of a page: nothing is said of it if it had no frame,  *)
(* or if there was none for the copy.                                       *)
CopyOf(old, new, mem) ==
  old.frame # 0 => /\ new.present /\ new.rw = old.rw
                   /\ new.frame # 0 => mem[new.frame] = mem[old.frame]

(* The page in an entry of the table that a slot refers to.                 *)
Row(id, e) == IF id = 0 THEN EmptyTable[e] ELSE tables[id][e]

(* The slots that a clone has passed are copied, and so are the entries of  *)
(* the table that it fills; the others of that table are still empty.       *)
SlotsCopied ==
  Cloning => \A s \in 0 .. Slots - 1, e \in 0 .. Entries - 1 : s < clone.slot =>
    CopyOf(Row(directories[clone.src][s], e), Row(directories[child][s], e), ram)
PagesCopied ==
  IF clone.table = 0 THEN clone.entry = 0
  ELSE \A e \in 0 .. Entries - 1 :
         IF e < clone.entry THEN CopyOf(tables[source][e], tables[clone.table][e], ram)
         ELSE tables[clone.table][e] = EmptyTable[e]
CopyInv == Present(tables) /\ SlotsCopied /\ PagesCopied

(* The tables new are tabs but for one page.                                *)
IsPut(new, tabs, t, e, page) ==
  /\ Len(new) = Len(tabs)
  /\ \A u \in 1 .. Len(tabs), d \in 0 .. Entries - 1 :
       new[u][d] = IF u = t /\ d = e THEN page ELSE tabs[u][d]

LEMMA PutIsPut ==
  ASSUME NEW tabs \in Seq(Table), NEW t \in 1 .. Len(tabs), NEW e \in 0 .. Entries - 1,
         NEW page \in Page
  PROVE  IsPut(Put(tabs, t, e, page), tabs, t, e, page)
<1>1. Len(Put(tabs, t, e, page)) = Len(tabs)
  BY PutFacts
<1>2. ASSUME NEW u \in 1 .. Len(tabs), NEW d \in 0 .. Entries - 1
      PROVE  Put(tabs, t, e, page)[u][d] = IF u = t /\ d = e THEN page ELSE tabs[u][d]
  BY PutFacts
<1> QED
  BY <1>1, <1>2, Zenon DEF IsPut

LEMMA PutPresent ==
  ASSUME NEW tabs \in Seq(Table), Present(tabs), NEW t \in 1 .. Len(tabs),
         NEW e \in 0 .. Entries - 1, NEW page \in Page, Backed(page)
  PROVE  Present(Put(tabs, t, e, page))
<1>1. IsPut(Put(tabs, t, e, page), tabs, t, e, page)
  BY PutIsPut
<1> QED
  BY <1>1, Zenon DEF Present, IsPut

LEMMA AppendPresent ==
  ASSUME NEW tabs \in Seq(Table), Present(tabs)
  PROVE  Present(Append(tabs, EmptyTable))
<1>1. \A e \in 0 .. Entries - 1 : Backed(EmptyTable[e])
  BY DEF EmptyTable, Backed
<1>2. /\ Len(Append(tabs, EmptyTable)) = Len(tabs) + 1 /\ Len(tabs) \in Nat
      /\ \A t \in 1 .. Len(tabs) : Append(tabs, EmptyTable)[t] = tabs[t]
      /\ Append(tabs, EmptyTable)[Len(tabs) + 1] = EmptyTable
  OBVIOUS
<1>3. \A t \in 1 .. Len(tabs) + 1 : t \in 1 .. Len(tabs) \/ t = Len(tabs) + 1
  BY <1>2
<1> QED
  BY <1>1, <1>2, <1>3, Zenon DEF Present

LEMMA MapPagePresent ==
  ASSUME TypeInv, Present(tables), NEW dir \in 1 .. Len(directories), NEW p \in Pages,
         NEW w \in BOOLEAN, MapPage(dir, p, w)
  PROVE  Present(tables')
<1> DEFINE s == Slot(p)
           e == Entry(p)
           old == directories[dir][s]
           made == IF old = 0 THEN Append(tables, EmptyTable) ELSE tables
           id == IF old = 0 THEN Len(made) ELSE old
           page == made[id][e]
<1>1. s \in 0 .. Slots - 1 /\ e \in 0 .. Entries - 1
  BY PageParts
<1>2. tables' = Put(made, id, e, alloc_frame(page, w))
  BY DEF MapPage, Put
<1> HIDE DEF s, e
<1>3. /\ Len(tables) \in Nat /\ tables \in Seq(Table) /\ frames \subseteq Frames
      /\ old \in 0 .. Len(tables)
  BY <1>1, Bounds DEF TypeInv
<1> HIDE DEF old
<1>4. made \in Seq(Table) /\ id \in 1 .. Len(made) /\ Present(made)
  <2>1. CASE old = 0
    BY <1>3, <2>1, AppendTable, AppendPresent
  <2>2. CASE old # 0
    BY <1>3, <2>2
  <2> QED
    BY <2>1, <2>2
<1> HIDE DEF made, id
<1>5. page \in Page /\ Backed(page)
  <2>1. made[id] \in Table
    BY <1>4
  <2> QED
    BY <1>1, <1>4, <2>1 DEF Table, Present
<1> HIDE DEF page
<1>6. alloc_frame(page, w) \in Page /\ Backed(alloc_frame(page, w))
  <2>1. alloc_frame(page, w) \in Page
    BY <1>3, <1>5, AllocFrame
  <2> QED
    BY <1>5, <2>1 DEF alloc_frame, Backed
<1> QED
  BY <1>1, <1>2, <1>4, <1>6, PutPresent

(* Where no clone is under way, only the pages matter.                      *)
LEMMA NotCloning ==
  ASSUME Present(tables), ~Cloning
  PROVE  CopyInv
BY DEF CopyInv, SlotsCopied, PagesCopied, Cloning, NoClone

(* The clone writes to a frame that no page has, or to frame 0.             *)
LEMMA FramesKept ==
  ASSUME IInv, NEW src, NEW dest, dest = 0 \/ dest \notin frames,
         ram' = copy_page_physical(src, dest),
         NEW t \in 1 .. Len(tables), NEW e \in 0 .. Entries - 1, tables[t][e].frame # 0
  PROVE  tables[t][e].frame # dest /\ ram'[tables[t][e].frame] = ram[tables[t][e].frame]
<1> DEFINE f == tables[t][e].frame
<1>1. f \in frames
  BY DEF IInv, Exclusive
<1>2. frames \subseteq Frames /\ DOMAIN ram = Frames
  BY DEF IInv, TypeInv
<1> HIDE DEF f
<1>3. f # dest
  BY <1>1 DEF f
<1>4. ram'[f] = ram[f]
  BY <1>1, <1>2, <1>3, Zenon DEF copy_page_physical
<1> QED
  BY <1>3, <1>4 DEF f

LEMMA CloneTypes ==
  ASSUME BootInv, Cloning
  PROVE  /\ clone.src \in 1 .. Len(directories) /\ child \in 1 .. Len(directories)
         /\ clone.src # child /\ Len(directories) \in Nat /\ directories \in Seq(Directory)
         /\ tables \in Seq(Table) /\ Len(tables) \in Nat
         /\ clone \in [src : Nat, slot : Nat, table : Nat, entry : Nat] /\ clone.src # 0
         /\ clone.slot <= Slots /\ clone.table <= Len(tables) /\ clone.entry <= Entries
         /\ \A d \in 1 .. Len(directories) : \A s \in 0 .. Slots - 1 :
              directories[d][s] \in 0 .. Len(tables)
<1>1. IInv /\ TypeInv /\ CloneType /\ ShareInv
  BY DEF BootInv, IInv
<1>2. clone.src \in 1 .. Len(directories) /\ child \in 1 .. Len(directories)
  BY <1>1, CloneFacts
<1>3. /\ Len(tables) \in Nat /\ Len(directories) \in Nat /\ directories \in Seq(Directory)
      /\ \A d \in 1 .. Len(directories) : \A s \in 0 .. Slots - 1 :
           directories[d][s] \in 0 .. Len(tables)
  BY <1>1, Bounds
<1>4. clone.src # child
  BY <1>1 DEF ShareInv
<1>5. /\ clone \in [src : Nat, slot : Nat, table : Nat, entry : Nat]
      /\ clone.slot <= Slots /\ clone.table <= Len(tables) /\ clone.entry <= Entries
  BY <1>1 DEF CloneType
<1> QED
  BY <1>1, <1>2, <1>3, <1>4, <1>5 DEF TypeInv

(* The clone goes on to the next slot, once the entries of this one are     *)
(* copied.                                                                  *)
LEMMA NextSlotCopied ==
  ASSUME BootInv, CopyInv, Cloning, clone.slot < Slots,
         clone'.slot = clone.slot + 1, clone'.src = clone.src,
         clone'.table = 0, clone'.entry = 0,
         Len(directories') = Len(directories),
         \A c \in 1 .. Len(directories), r \in 0 .. Slots - 1 :
            ~(c = child /\ r = clone.slot) => directories'[c][r] = directories[c][r],
         \A e \in 0 .. Entries - 1 :
            CopyOf(Row(source, e), Row(directories'[child][clone.slot], e), ram),
         UNCHANGED <<tables, ram>>
  PROVE  CopyInv'
<1>1. /\ clone.src \in 1 .. Len(directories) /\ child \in 1 .. Len(directories)
      /\ clone.src # child /\ clone.slot \in Nat
  BY CloneTypes
<1>2. child' = child
  BY DEF child
<1>3. \A id, e : Row(id, e)' = Row(id', e)
  BY DEF Row
<1>4. ASSUME NEW s \in 0 .. Slots - 1, NEW e \in 0 .. Entries - 1, s < clone.slot + 1
      PROVE  CopyOf(Row(directories'[clone.src][s], e), Row(directories'[child][s], e), ram)
  <2>1. directories'[clone.src][s] = directories[clone.src][s]
    BY <1>1
  <2>2. CASE s = clone.slot
    BY <2>1, <2>2 DEF source
  <2>3. CASE s # clone.slot
    <3>1. s < clone.slot
      BY <1>1, <1>4, <2>3
    <3>2. directories'[child][s] = directories[child][s]
      BY <1>1, <2>3
    <3>3. CopyOf(Row(directories[clone.src][s], e), Row(directories[child][s], e), ram)
      BY <3>1 DEF CopyInv, SlotsCopied
    <3> QED
      BY <2>1, <3>2, <3>3
  <2> QED
    BY <2>2, <2>3
<1>5. SlotsCopied'
  BY <1>2, <1>3, <1>4 DEF SlotsCopied, Row
<1>6. PagesCopied'
  BY DEF PagesCopied
<1> QED
  BY <1>5, <1>6 DEF CopyInv

LEMMA CloneSkipCopied ==
  ASSUME BootInv, CopyInv, CloneSkip
  PROVE  CopyInv'
<1>1. /\ Cloning /\ clone.slot < Slots /\ source = 0 /\ clone' = [clone EXCEPT !.slot = @ + 1]
      /\ UNCHANGED <<frames, tables, directories, current_directory, boot, ram>>
  BY DEF CloneSkip
<1>2. clone \in [src : Nat, slot : Nat, table : Nat, entry : Nat]
  BY <1>1, CloneTypes
<1>3. clone.table = 0
  BY <1>1 DEF BootInv, IInv, CloneInv
<1>4. clone.entry = 0
  BY <1>3 DEF CopyInv, PagesCopied
<1>5. /\ clone'.slot = clone.slot + 1 /\ clone'.src = clone.src
      /\ clone'.table = 0 /\ clone'.entry = 0
  BY <1>1, <1>2, <1>3, <1>4
<1>6. \A e \in 0 .. Entries - 1 :
        CopyOf(Row(source, e), Row(directories'[child][clone.slot], e), ram)
  BY <1>1 DEF CopyOf, Row, EmptyTable
<1> HIDE DEF source
<1> QED
  BY <1>1, <1>5, <1>6, NextSlotCopied

LEMMA CloneLinkCopied ==
  ASSUME BootInv, CopyInv, CloneLink
  PROVE  CopyInv'
<1>1. /\ Cloning /\ clone.slot < Slots /\ source # 0 /\ Shared
      /\ clone' = [clone EXCEPT !.slot = @ + 1]
      /\ directories' = SetSlot(directories, child, clone.slot, source)
      /\ UNCHANGED <<frames, tables, current_directory, boot, ram>>
  BY DEF CloneLink, SetSlot
<1>2. /\ clone \in [src : Nat, slot : Nat, table : Nat, entry : Nat]
      /\ clone.src \in 1 .. Len(directories) /\ child \in 1 .. Len(directories)
      /\ \A d \in 1 .. Len(directories) : \A s \in 0 .. Slots - 1 :
              directories[d][s] \in 0 .. Len(tables)
      /\ Len(tables) \in Nat
  BY <1>1, CloneTypes
<1>3. clone.table = 0
  BY <1>1 DEF BootInv, IInv, CloneInv
<1>4. clone.entry = 0
  BY <1>3 DEF CopyInv, PagesCopied
<1>5. /\ clone'.slot = clone.slot + 1 /\ clone'.src = clone.src
      /\ clone'.table = 0 /\ clone'.entry = 0
  BY <1>1, <1>2, <1>3, <1>4
<1>6. clone.slot \in 0 .. Slots - 1
  <2>1. clone.slot \in Nat
    BY <1>2
  <2> QED
    BY <1>1, <2>1
<1>7. source \in 1 .. Len(tables)
  <2>1. source \in 0 .. Len(tables)
    BY <1>2, <1>6 DEF source
  <2>2. source # 0 /\ Len(tables) \in Nat
    BY <1>1, <1>2
  <2> QED
    BY <2>1, <2>2
<1> HIDE DEF source, child
<1>8. /\ Len(directories') = Len(directories)
      /\ \A c \in 1 .. Len(directories), r \in 0 .. Slots - 1 :
           directories'[c][r] = IF c = child /\ r = clone.slot THEN source ELSE directories[c][r]
  <2>1. IInv /\ source \in Nat
    BY <1>2, <1>7 DEF BootInv
  <2> QED
    BY <1>1, <1>6, <2>1, ChildSlotFacts
<1>9. \A e \in 0 .. Entries - 1 :
        CopyOf(Row(source, e), Row(directories'[child][clone.slot], e), ram)
  <2>1. directories'[child][clone.slot] = source
    BY <1>2, <1>6, <1>8
  <2>2. \A e \in 0 .. Entries - 1 : CopyOf(Row(source, e), Row(source, e), ram)
    BY <1>1, <1>7 DEF CopyOf, Row, CopyInv, Present, Backed
  <2> QED
    BY <2>1, <2>2
<1> QED
  BY <1>1, <1>5, <1>8, <1>9, NextSlotCopied

LEMMA CloneTableDoneCopied ==
  ASSUME BootInv, CopyInv, CloneTableDone
  PROVE  CopyInv'
<1>1. /\ clone.table # 0 /\ clone.entry = Entries
      /\ clone' = [src |-> clone.src, slot |-> clone.slot + 1, table |-> 0, entry |-> 0]
      /\ directories' = SetSlot(directories, child, clone.slot, clone.table)
      /\ UNCHANGED <<frames, tables, current_directory, boot, ram>>
  BY DEF CloneTableDone, NoClone, SetSlot
<1>2. Cloning /\ clone.slot \in 0 .. Slots - 1 /\ clone.table \in Nat
  BY <1>1, OwnTable
<1>3. child \in 1 .. Len(directories) /\ Len(directories) \in Nat
  BY <1>2, CloneTypes
<1>4. /\ clone'.slot = clone.slot + 1 /\ clone'.src = clone.src
      /\ clone'.table = 0 /\ clone'.entry = 0
  BY <1>1
<1> HIDE DEF child
<1>5. /\ Len(directories') = Len(directories)
      /\ \A c \in 1 .. Len(directories), r \in 0 .. Slots - 1 :
           directories'[c][r]
             = IF c = child /\ r = clone.slot THEN clone.table ELSE directories[c][r]
  <2>1. PICK id \in Nat : id = clone.table
    BY <1>2
  <2>2. directories' = SetSlot(directories, child, clone.slot, id)
    BY <1>1, <2>1
  <2> QED
    BY <1>2, <2>1, <2>2, ChildSlotFacts DEF BootInv
<1>6. \A e \in 0 .. Entries - 1 :
        CopyOf(Row(source, e), Row(directories'[child][clone.slot], e), ram)
  <2>1. directories'[child][clone.slot] = clone.table
    BY <1>2, <1>3, <1>5
  <2>2. source # 0
    BY <1>1 DEF BootInv, IInv, CloneInv
  <2>3. ASSUME NEW e \in 0 .. Entries - 1
        PROVE  CopyOf(tables[source][e], tables[clone.table][e], ram)
    <3>1. e < clone.entry
      BY <1>1
    <3> QED
      BY <1>1, <3>1, Zenon DEF CopyInv, PagesCopied
  <2> QED
    BY <1>1, <2>1, <2>2, <2>3 DEF Row
<1>7. clone.slot < Slots
  BY <1>1 DEF BootInv, IInv, CloneInv
<1> QED
  BY <1>1, <1>2, <1>4, <1>5, <1>6, <1>7, NextSlotCopied

(* A step of the clone that changes no directory: what the rows of the      *)
(* source and of the child hold stays, and so does what is in their frames. *)
LEMMA TablesCopied ==
  ASSUME BootInv, CopyInv, Cloning, UNCHANGED directories,
         clone'.slot = clone.slot, clone'.src = clone.src,
         \A d \in 1 .. Len(directories) : \A s \in 0 .. Slots - 1 : \A e \in 0 .. Entries - 1 :
            directories[d][s] # 0 =>
              tables'[directories[d][s]][e] = tables[directories[d][s]][e],
         \A t \in 1 .. Len(tables) : \A e \in 0 .. Entries - 1 :
            tables[t][e].frame # 0 => ram'[tables[t][e].frame] = ram[tables[t][e].frame]
  PROVE  SlotsCopied'
<1>1. /\ clone.src \in 1 .. Len(directories) /\ child \in 1 .. Len(directories)
      /\ \A d \in 1 .. Len(directories) : \A s \in 0 .. Slots - 1 :
           directories[d][s] \in 0 .. Len(tables)
      /\ Len(tables) \in Nat
  BY CloneTypes
<1>2. child' = child
  BY DEF child
<1>3. ASSUME NEW d \in 1 .. Len(directories), NEW s \in 0 .. Slots - 1, NEW e \in 0 .. Entries - 1
      PROVE  /\ Row(directories[d][s], e)' = Row(directories[d][s], e)
             /\ LET f == Row(directories[d][s], e).frame IN f # 0 => ram'[f] = ram[f]
  <2> DEFINE id == directories[d][s]
  <2>1. id \in 0 .. Len(tables) /\ (id # 0 => tables'[id][e] = tables[id][e])
        /\ directories'[d][s] = id
    BY <1>1
  <2>2. id # 0 => id \in 1 .. Len(tables)
    BY <1>1, <2>1
  <2>3. Row(directories[d][s], e)' = IF id = 0 THEN EmptyTable[e] ELSE tables'[id][e]
    BY <2>1, Zenon DEF Row
  <2>4. id # 0 => LET f == tables[id][e].frame IN f # 0 => ram'[f] = ram[f]
    BY <2>2
  <2>5. EmptyTable[e].frame = 0
    BY DEF EmptyTable
  <2> HIDE DEF id
  <2>6. Row(id, e)' = IF id' = 0 THEN EmptyTable[e] ELSE tables'[id'][e]
    BY DEF Row
  <2> QED
    BY <2>1, <2>3, <2>4, <2>5, Zenon DEF Row, id
<1>4. ASSUME NEW s \in 0 .. Slots - 1, NEW e \in 0 .. Entries - 1, s < clone.slot
      PROVE  CopyOf(Row(directories[clone.src][s], e)', Row(directories[child][s], e)', ram')
  <2> DEFINE old == Row(directories[clone.src][s], e)
             new == Row(directories[child][s], e)
  <2>1. CopyOf(old, new, ram)
    BY <1>4 DEF CopyInv, SlotsCopied
  <2>2. /\ Row(directories[clone.src][s], e)' = old /\ Row(directories[child][s], e)' = new
    <3>1. ASSUME NEW d \in 1 .. Len(directories)
          PROVE  Row(directories[d][s], e)' = Row(directories[d][s], e)
      BY <1>3
    <3>2. /\ directories'[clone.src'][s] = directories'[clone.src][s]
          /\ directories'[child'][s] = directories'[child][s]
      BY <1>2
    <3> QED
      BY <1>1, <3>1, <3>2 DEF Row
  <2>3. /\ old.frame # 0 => ram'[old.frame] = ram[old.frame]
        /\ new.frame # 0 => ram'[new.frame] = ram[new.frame]
    BY <1>1, <1>3
  <2> HIDE DEF old, new
  <2>4. CopyOf(old, new, ram')
    BY <2>1, <2>3 DEF CopyOf
  <2> QED
    BY <2>2, <2>4
<1> QED
  BY <1>4 DEF SlotsCopied

LEMMA CloneTableCopied ==
  ASSUME BootInv, CopyInv, CloneTable
  PROVE  CopyInv'
<1>1. /\ Cloning /\ source # 0 /\ clone.table = 0
      /\ tables' = Append(tables, EmptyTable)
      /\ clone' = [clone EXCEPT !.table = Len(tables) + 1]
      /\ UNCHANGED <<frames, directories, current_directory, boot, ram>>
  BY DEF CloneTable
<1>2. /\ clone \in [src : Nat, slot : Nat, table : Nat, entry : Nat]
      /\ tables \in Seq(Table) /\ Len(tables) \in Nat
      /\ \A d \in 1 .. Len(directories) : \A s \in 0 .. Slots - 1 :
           directories[d][s] \in 0 .. Len(tables)
  BY <1>1, CloneTypes
<1>3. clone.entry = 0
  BY <1>1 DEF CopyInv, PagesCopied
<1>4. PICK n \in Nat : n = Len(tables) + 1
  BY <1>2
<1>5. /\ clone'.table = n /\ clone'.entry = 0 /\ clone'.slot = clone.slot /\ clone'.src = clone.src
  <2>1. clone' = [clone EXCEPT !.table = n]
    BY <1>1, <1>4
  <2> QED
    BY <1>2, <1>3, <2>1
<1>6. /\ \A t \in 1 .. Len(tables) : tables'[t] = tables[t]
      /\ tables'[n] = EmptyTable
  BY <1>1, <1>2, <1>4
<1>7. Present(tables')
  BY <1>1, <1>2, AppendPresent DEF CopyInv
<1>8. SlotsCopied'
  <2>1. \A d \in 1 .. Len(directories) : \A s \in 0 .. Slots - 1 : \A e \in 0 .. Entries - 1 :
          directories[d][s] # 0 =>
            tables'[directories[d][s]][e] = tables[directories[d][s]][e]
    <3> SUFFICES ASSUME NEW d \in 1 .. Len(directories), NEW s \in 0 .. Slots - 1,
                        directories[d][s] # 0
                 PROVE  tables'[directories[d][s]] = tables[directories[d][s]]
      OBVIOUS
    <3>1. directories[d][s] \in 0 .. Len(tables)
      BY <1>2
    <3>2. directories[d][s] \in 1 .. Len(tables)
      BY <1>2, <3>1
    <3> QED
      BY <1>6, <3>2
  <2> QED
    BY <1>1, <1>5, <2>1, TablesCopied
<1>9. PagesCopied'
  <2>1. \A e \in 0 .. Entries - 1 : ~(e < 0) /\ tables'[n][e] = EmptyTable[e]
    BY <1>6
  <2>2. n # 0
    BY <1>2, <1>4
  <2> QED
    BY <1>5, <2>1, <2>2 DEF PagesCopied
<1> QED
  BY <1>7, <1>8, <1>9 DEF CopyInv

(* One page more is copied, into a frame that no page has, or frame 0.      *)
LEMMA ClonePageEffect ==
  ASSUME BootInv, CopyInv, ClonePage
  PROVE  LET page == tables[source][clone.entry]
             copy == [present |-> TRUE, rw |-> page.rw, frame |-> first_frame]
         IN  /\ Cloning /\ clone.table \in 1 .. Len(tables) /\ clone.entry \in 0 .. Entries - 1
             /\ source \in 1 .. Len(tables) /\ source # clone.table
             /\ page \in Page /\ copy \in Page
             /\ first_frame = 0 \/ first_frame \notin frames
             /\ IF page.frame = 0 THEN UNCHANGED <<tables, ram>>
                ELSE /\ tables' = Put(tables, clone.table, clone.entry, copy)
                     /\ ram' = copy_page_physical(page.frame, first_frame)
<1> DEFINE t == clone.table
           e == clone.entry
           page == tables[source][e]
           new == alloc_frame(tables[t][e], FALSE)
           copy == [present |-> TRUE, rw |-> page.rw, frame |-> first_frame]
<1>1. /\ t # 0 /\ e < Entries
      /\ page.frame = 0 => UNCHANGED <<tables, ram>>
      /\ page.frame # 0 =>
           /\ tables' = Put(tables, t, e, [new EXCEPT !.present = @ \/ page.present, !.rw = @ \/ page.rw])
           /\ ram' = copy_page_physical(page.frame, new.frame)
  BY Zenon DEF ClonePage, Put
<1>2. /\ Cloning /\ clone.slot \in 0 .. Slots - 1
  BY <1>1, OwnTable
<1>3. /\ clone \in [src : Nat, slot : Nat, table : Nat, entry : Nat]
      /\ tables \in Seq(Table) /\ Len(tables) \in Nat /\ clone.table <= Len(tables)
      /\ clone.src \in 1 .. Len(directories)
      /\ \A d \in 1 .. Len(directories) : \A s \in 0 .. Slots - 1 :
           directories[d][s] \in 0 .. Len(tables)
  BY <1>2, CloneTypes
<1>4. t \in 1 .. Len(tables) /\ e \in 0 .. Entries - 1
  <2>1. t \in Nat /\ e \in Nat /\ t <= Len(tables)
    BY <1>3
  <2>2. t # 0 /\ e < Entries
    BY <1>1
  <2> HIDE DEF t, e
  <2> QED
    BY <1>3, <2>1, <2>2
<1>5. source # 0 /\ source # clone.table
  BY <1>1, <1>2, <1>3 DEF BootInv, IInv, CloneInv, source
<1>6. source \in 1 .. Len(tables)
  <2>1. source \in 0 .. Len(tables)
    BY <1>2, <1>3 DEF source
  <2> QED
    BY <1>3, <1>5, <2>1
<1>7. page \in Page
  <2>1. tables[source] \in Table
    BY <1>3, <1>6
  <2> QED
    BY <1>4, <2>1 DEF Table
<1>8. tables[t][e] = EmptyTable[e]
  <2>1. ~(e < clone.entry)
    BY <1>4
  <2> QED
    BY <1>1, <1>4, <2>1, Zenon DEF CopyInv, PagesCopied
<1>9. new = [present |-> TRUE, rw |-> FALSE, frame |-> first_frame]
  <2>1. tables[t][e].frame = 0
    BY <1>4, <1>8 DEF EmptyTable
  <2> QED
    BY <2>1, Zenon DEF alloc_frame
<1>10. first_frame \in Frames /\ (first_frame = 0 \/ first_frame \notin frames)
  BY FirstFrame DEF BootInv, IInv, TypeInv
<1>11. page.rw \in BOOLEAN /\ page.present \in BOOLEAN
  BY <1>7 DEF Page
<1> HIDE DEF page, new
<1>12. copy \in Page
  BY <1>10, <1>11 DEF Page
<1>13. [new EXCEPT !.present = @ \/ page.present, !.rw = @ \/ page.rw] = copy
  <2>1. /\ new.present = TRUE /\ new.rw = FALSE /\ new \in [present : BOOLEAN, rw : BOOLEAN, frame : Frames]
        /\ new.frame = first_frame
    BY <1>9, <1>10
  <2>2. (new.present \/ page.present) = TRUE /\ (new.rw \/ page.rw) = page.rw
    BY <1>11, <2>1
  <2> DEFINE marked == [new EXCEPT !.present = @ \/ page.present, !.rw = @ \/ page.rw]
  <2>3. /\ marked \in [present : BOOLEAN, rw : BOOLEAN, frame : Frames]
        /\ marked.frame = new.frame
    BY <1>11, <2>1
  <2>4. marked.present = (new.present \/ page.present)
    BY <1>11, <2>1
  <2>5. marked.rw = (new.rw \/ page.rw)
    BY <1>11, <2>1
  <2> HIDE DEF marked
  <2>6. marked.present = TRUE /\ marked.rw = page.rw /\ marked.frame = first_frame
    BY <2>1, <2>2, <2>3, <2>4, <2>5
  <2>7. marked = [present |-> marked.present, rw |-> marked.rw, frame |-> marked.frame]
    BY <2>3
  <2> QED
    BY <2>6, <2>7, Zenon DEF copy, marked
<1>14. new.frame = first_frame
  BY <1>9
<1> HIDE DEF copy
<1> QED
  BY <1>1, <1>2, <1>4, <1>5, <1>6, <1>7, <1>10, <1>12, <1>13, <1>14, Zenon DEF page, copy

LEMMA ClonePageCopied ==
  ASSUME BootInv, CopyInv, ClonePage
  PROVE  CopyInv'
<1> DEFINE t == clone.table
           e == clone.entry
           page == tables[source][e]
           copy == [present |-> TRUE, rw |-> page.rw, frame |-> first_frame]
<1>1. /\ Cloning /\ t \in 1 .. Len(tables) /\ e \in 0 .. Entries - 1
      /\ source \in 1 .. Len(tables) /\ source # t /\ page \in Page /\ copy \in Page
      /\ first_frame = 0 \/ first_frame \notin frames
      /\ IF page.frame = 0 THEN UNCHANGED <<tables, ram>>
         ELSE /\ tables' = Put(tables, t, e, copy)
              /\ ram' = copy_page_physical(page.frame, first_frame)
  BY ClonePageEffect
<1>2. clone' = [clone EXCEPT !.entry = @ + 1] /\ UNCHANGED directories
  BY DEF ClonePage
<1>3. /\ clone \in [src : Nat, slot : Nat, table : Nat, entry : Nat] /\ tables \in Seq(Table)
      /\ Len(tables) \in Nat
  BY <1>1, CloneTypes
<1>4. /\ clone'.src = clone.src /\ clone'.slot = clone.slot /\ clone'.table = t
      /\ clone'.entry = e + 1 /\ source' = source
  <2>1. PICK n \in Nat : n = clone.entry + 1
    BY <1>3
  <2>2. clone' = [clone EXCEPT !.entry = n]
    BY <1>2, <2>1
  <2> QED
    BY <1>2, <1>3, <2>1, <2>2 DEF source
<1>5. \A d \in 1 .. Len(directories) : \A s \in 0 .. Slots - 1 : directories[d][s] # t
  <2>1. clone.table # 0
    BY <1>1
  <2> QED
    BY <2>1, Zenon DEF BootInv, IInv, CloneInv
<1> HIDE DEF t, e, source, copy
<1>6. \A u \in 1 .. Len(tables) : \A d \in 0 .. Entries - 1 :
        tables'[u][d] = IF page.frame # 0 /\ u = t /\ d = e THEN copy ELSE tables[u][d]
  <2>1. CASE page.frame = 0
    BY <1>1, <2>1
  <2>2. CASE page.frame # 0
    <3>1. \A u \in 1 .. Len(tables) : \A d \in 0 .. Entries - 1 :
            Put(tables, t, e, copy)[u][d] = IF u = t /\ d = e THEN copy ELSE tables[u][d]
      <4>1. /\ tables \in Seq(Table) /\ t \in 1 .. Len(tables) /\ e \in 0 .. Entries - 1
            /\ copy \in Page
        BY <1>1, <1>3
      <4>2. IsPut(Put(tables, t, e, copy), tables, t, e, copy)
        BY <4>1, PutIsPut
      <4> QED
        BY <4>2, Zenon DEF IsPut
    <3> QED
      BY <1>1, <2>2, <3>1
  <2> QED
    BY <2>1, <2>2
<1>7. Present(tables')
  <2>1. Backed(copy)
    BY DEF Backed, copy
  <2> QED
    BY <1>1, <1>3, <2>1, PutPresent DEF CopyInv
<1>8. \A u \in 1 .. Len(tables) : \A d \in 0 .. Entries - 1 :
        tables[u][d].frame # 0 => ram'[tables[u][d].frame] = ram[tables[u][d].frame]
  <2>1. CASE page.frame = 0
    BY <1>1, <2>1
  <2>2. CASE page.frame # 0
    BY <1>1, <2>2, FramesKept DEF BootInv
  <2> QED
    BY <2>1, <2>2
<1>9. SlotsCopied'
  <2>1. ASSUME NEW d \in 1 .. Len(directories), NEW s \in 0 .. Slots - 1,
               NEW c \in 0 .. Entries - 1, directories[d][s] # 0
        PROVE  tables'[directories[d][s]][c] = tables[directories[d][s]][c]
    <3>1. directories[d][s] \in 0 .. Len(tables)
      BY <1>1, CloneTypes
    <3>2. directories[d][s] \in 1 .. Len(tables)
      BY <2>1, <3>1
    <3>3. directories[d][s] # t
      BY <1>5
    <3> QED
      BY <1>6, <3>2, <3>3
  <2> QED
    BY <1>1, <1>2, <1>4, <1>8, <2>1, TablesCopied
<1>10. ASSUME NEW d \in 0 .. Entries - 1
       PROVE  IF d < e + 1 THEN CopyOf(tables'[source][d], tables'[t][d], ram')
              ELSE tables'[t][d] = EmptyTable[d]
  <2>1. tables'[source][d] = tables[source][d]
    BY <1>1, <1>6
  <2>2. IF d < e THEN CopyOf(tables[source][d], tables[t][d], ram)
        ELSE tables[t][d] = EmptyTable[d]
    <3>1. clone.table # 0
      <4>1. t # 0
        BY <1>1
      <4> QED
        BY <4>1 DEF t
    <3> QED
      BY <3>1, Zenon DEF CopyInv, PagesCopied, t, e
  <2>3. CASE d = e
    <3>1. d < e + 1
      BY <1>1, <2>3
    <3>2. CopyOf(page, tables'[t][d], ram')
      <4>1. CASE page.frame = 0
        BY <4>1 DEF CopyOf
      <4>2. CASE page.frame # 0
        <5>1. tables'[t][d] = copy
          BY <1>1, <1>6, <2>3, <4>2
        <5>2. ram'[page.frame] = ram[page.frame]
          BY <1>1, <1>8, <4>2 DEF page
        <5>3. first_frame # 0 => ram'[first_frame] = ram[page.frame]
          <6>1. first_frame \in Frames /\ DOMAIN ram = Frames
            BY <1>1 DEF BootInv, IInv, TypeInv, copy, Page
          <6> QED
            BY <1>1, <4>2, <6>1 DEF copy_page_physical
        <5>4. copy.present /\ copy.rw = page.rw /\ copy.frame = first_frame
          BY DEF copy
        <5> QED
          BY <5>1, <5>2, <5>3, <5>4 DEF CopyOf
      <4> QED
        BY <4>1, <4>2
    <3> QED
      BY <2>1, <2>3, <3>1, <3>2
  <2>4. CASE d # e
    <3>1. d < e + 1 <=> d < e
      <4>1. e \in Nat /\ d \in Nat
        BY <1>1
      <4> QED
        BY <2>4, <4>1
    <3>2. tables'[t][d] = tables[t][d]
      BY <1>1, <1>6, <2>4
    <3>3. CopyOf(tables[source][d], tables[t][d], ram) => CopyOf(tables[source][d], tables[t][d], ram')
      BY <1>1, <1>8 DEF CopyOf
    <3> QED
      BY <2>1, <2>2, <3>1, <3>2, <3>3
  <2> QED
    BY <2>3, <2>4
<1>11. PagesCopied'
  <2>1. t # 0
    BY <1>1
  <2> QED
    BY <1>4, <1>10, <2>1 DEF PagesCopied
<1> QED
  BY <1>7, <1>9, <1>11 DEF CopyInv

LEMMA InitCopied == Init => CopyInv
<1> SUFFICES ASSUME Init PROVE CopyInv
  OBVIOUS
<1>1. tables = <<EmptyTable>> /\ ~Cloning
  BY DEF Init, Cloning
<1>2. Present(tables)
  BY <1>1 DEF Present, Backed, EmptyTable
<1> QED
  BY <1>1, <1>2, NotCloning

LEMMA CloneBeginCopied ==
  ASSUME CopyInv, NEW src, CloneBegin(src)
  PROVE  CopyInv'
<1>1. /\ clone' = [src |-> src, slot |-> 0, table |-> 0, entry |-> 0]
      /\ UNCHANGED <<frames, tables, boot, ram>>
  BY DEF CloneBegin, NoClone
<1>2. Present(tables')
  BY <1>1 DEF CopyInv
<1>3. SlotsCopied'
  <2>1. \A s \in 0 .. Slots - 1 : ~(s < clone'.slot)
    BY <1>1
  <2> QED
    BY <2>1 DEF SlotsCopied
<1>4. PagesCopied'
  BY <1>1 DEF PagesCopied
<1> QED
  BY <1>2, <1>3, <1>4 DEF CopyInv

(* The steps of everything else, which wait while a clone is under way.     *)
LEMMA OtherCopied ==
  ASSUME BootInv, CopyInv, ~Cloning, UNCHANGED clone, Present(tables')
  PROVE  CopyInv'
<1>1. clone' = NoClone
  BY DEF Cloning
<1> QED
  BY <1>1 DEF CopyInv, SlotsCopied, PagesCopied, Cloning, NoClone

LEMMA BootMapWaits == BootInv /\ BootMap => ~Cloning
<1> SUFFICES ASSUME BootInv, BootMap, Cloning PROVE FALSE
  OBVIOUS
<1>1. boot < BootPages /\ boot \in Nat /\ BootPages \in Nat
  BY DEF BootMap, BootInv, IInv, TypeInv, BootPages
<1>2. boot = BootPages
  BY CloneFacts DEF BootInv
<1> QED
  BY <1>1, <1>2

LEMMA NextCopied == BootInv /\ CopyInv /\ [Next]_vars => CopyInv'
<1> SUFFICES ASSUME BootInv, CopyInv, [Next]_vars PROVE CopyInv'
  OBVIOUS
<1>0. TypeInv /\ Present(tables)
  BY DEF BootInv, IInv, CopyInv
<1>1. CASE BootMap
  <2>1. boot \in Nat /\ boot < BootPages /\ kernel_directory \in 1 .. Len(directories)
        /\ UNCHANGED clone
    BY <1>0, <1>1, Bounds DEF TypeInv, BootMap, kernel_directory
  <2>2. PICK p \in Pages : MapPage(kernel_directory, p, FALSE)
    <3>1. (IF boot < Identity THEN boot ELSE HeapStart + (boot - Identity)) \in Pages
      <4>1. Identity <= HeapMax /\ boot < Identity + HeapPages
        BY <2>1 DEF BootPages
      <4>2. \A q \in Nat : q <= HeapMax => q \in Pages
        BY DEF Pages
      <4> QED
        BY <2>1, <4>1, <4>2
    <3> QED
      BY <1>1, <3>1 DEF BootMap
  <2>3. Present(tables')
    BY <1>0, <2>1, <2>2, MapPagePresent
  <2> QED
    BY <1>1, <2>1, <2>3, OtherCopied, BootMapWaits
<1>2. CASE EnablePaging
  BY <1>2, CloneBeginCopied DEF EnablePaging
<1>3. CASE CloneDirectory
  BY <1>3, CloneBeginCopied DEF CloneDirectory
<1>4. CASE CloneSkip
  BY <1>4, CloneSkipCopied
<1>5. CASE CloneLink
  BY <1>5, CloneLinkCopied
<1>6. CASE CloneTable
  BY <1>6, CloneTableCopied
<1>7. CASE ClonePage
  BY <1>7, ClonePageCopied
<1>8. CASE CloneTableDone
  BY <1>8, CloneTableDoneCopied
<1>9. CASE CloneReturn
  <2>1. clone' = NoClone /\ tables' = tables
    BY <1>9 DEF CloneReturn
  <2> QED
    BY <1>0, <2>1 DEF CopyInv, SlotsCopied, PagesCopied, Cloning, NoClone
<1>10. ASSUME NEW p \in StackPages, MoveStack(p) PROVE CopyInv'
  <2>1. p \in Pages
    BY DEF Pages
  <2>2. /\ current_directory \in 1 .. Len(directories) /\ ~Cloning /\ UNCHANGED clone
        /\ MapPage(current_directory, p, TRUE)
    <3>1. /\ current_directory # 0 /\ ~Cloning /\ UNCHANGED clone
          /\ MapPage(current_directory, p, TRUE)
      BY <1>10 DEF MoveStack, Running, Cloning
    <3>2. current_directory \in 0 .. Len(directories) /\ Len(directories) \in Nat
      BY <1>0, Bounds DEF TypeInv
    <3>3. current_directory \in 1 .. Len(directories)
      BY <3>1, <3>2
    <3> QED
      BY <3>1, <3>3, Zenon
  <2>3. Present(tables')
    BY <1>0, <2>1, <2>2, MapPagePresent
  <2> QED
    BY <2>2, <2>3, OtherCopied
<1>11. ASSUME NEW p \in HeapStart .. HeapMax, HeapExpand(p) PROVE CopyInv'
  <2>1. p \in Pages
    BY DEF Pages
  <2>2. /\ kernel_directory \in 1 .. Len(directories) /\ ~Cloning /\ UNCHANGED clone
        /\ MapPage(kernel_directory, p, TRUE)
    <3>1. ~Cloning /\ UNCHANGED clone /\ MapPage(kernel_directory, p, TRUE)
      BY <1>11 DEF HeapExpand, Running, Cloning
    <3>2. kernel_directory \in 1 .. Len(directories)
      BY <1>0, Bounds DEF kernel_directory
    <3> QED
      BY <3>1, <3>2, Zenon
  <2>3. Present(tables')
    BY <1>0, <2>1, <2>2, MapPagePresent
  <2> QED
    BY <2>2, <2>3, OtherCopied
<1>12. ASSUME NEW p \in HeapStart .. HeapMax, HeapContract(p) PROVE CopyInv'
  <2> DEFINE id == directories[kernel_directory][Slot(p)]
             e == Entry(p)
             page == tables[id][e]
  <2>1. /\ ~Cloning /\ UNCHANGED clone /\ id # 0 /\ tables' = Put(tables, id, e, Freed(page))
    BY <1>12 DEF HeapContract, Running, Cloning, Put
  <2>2. p \in Pages
    BY DEF Pages
  <2>3. Slot(p) \in 0 .. Slots - 1 /\ e \in 0 .. Entries - 1
    BY <2>2, PageParts
  <2>4. /\ kernel_directory \in 1 .. Len(directories) /\ Len(tables) \in Nat
        /\ id \in 0 .. Len(tables) /\ tables \in Seq(Table)
    BY <1>0, <2>3, Bounds DEF kernel_directory, TypeInv
  <2> HIDE DEF id, e
  <2>5. id \in 1 .. Len(tables)
    BY <2>1, <2>4
  <2>6. page \in Page
    <3>1. tables[id] \in Table
      BY <2>4, <2>5
    <3> QED
      BY <2>3, <3>1 DEF Table
  <2> HIDE DEF page
  <2>7. Freed(page) \in Page /\ Backed(Freed(page))
    <3>1. 0 \in Frames
      BY DEF Frames, PageSize
    <3> QED
      BY <2>6, <3>1 DEF Freed, Page, Backed
  <2>8. Present(tables')
    BY <1>0, <2>1, <2>3, <2>4, <2>5, <2>7, PutPresent
  <2> QED
    BY <2>1, <2>8, OtherCopied
<1>13. CASE \/ \E dir \in 2 .. Len(directories) : SwitchPageDirectory(dir)
            \/ \E p \in StackPages, v \in Values : Write(p, v)
  <2>1. ~Cloning /\ UNCHANGED <<clone, tables>>
    BY <1>13 DEF SwitchPageDirectory, Write, Running, Cloning
  <2>2. Present(tables')
    BY <1>0, <2>1
  <2> QED
    BY <2>1, <2>2, OtherCopied
<1>14. CASE UNCHANGED vars
  BY <1>14 DEF vars, CopyInv, SlotsCopied, PagesCopied, Cloning, Row, child, source
<1> QED
  BY <1>1, <1>2, <1>3, <1>4, <1>5, <1>6, <1>7, <1>8, <1>9, <1>10, <1>11, <1>12, <1>13, <1>14
  DEF Next

(* What a step of the system does to the memory of the parent, and what the *)
(* last step of a clone leaves.                                             *)
Copies ==
  Cloning => \A p \in Pages :
    LET old == Lookup(clone.src, p)
        new == Lookup(child, p)
    IN  old.frame # 0 =>
          /\ ram'[old.frame] = ram[old.frame]
          /\ CloneReturn =>
               /\ new.present /\ new.rw = old.rw
               /\ new.frame # 0 => ram[new.frame] = ram[old.frame]

LEMMA StepCopies == BootInv /\ CopyInv /\ Next => Copies
<1> SUFFICES ASSUME BootInv, CopyInv, Next, Cloning, NEW p \in Pages, Lookup(clone.src, p).frame # 0
             PROVE  LET old == Lookup(clone.src, p)
                        new == Lookup(child, p)
                    IN  /\ ram'[old.frame] = ram[old.frame]
                        /\ CloneReturn =>
                             /\ new.present /\ new.rw = old.rw
                             /\ new.frame # 0 => ram[new.frame] = ram[old.frame]
  BY Zenon DEF Copies
<1> DEFINE s == Slot(p)
           e == Entry(p)
           old == Lookup(clone.src, p)
           new == Lookup(child, p)
<1>1. /\ old = Row(directories[clone.src][s], e) /\ new = Row(directories[child][s], e)
      /\ s \in 0 .. Slots - 1 /\ e \in 0 .. Entries - 1
  <2>1. EmptyTable[0] = EmptyTable[e]
    BY PageParts DEF EmptyTable
  <2> QED
    BY <2>1, PageParts, Zenon DEF Lookup, Row
<1> HIDE DEF s, e, old, new
<1>2. old.frame # 0
  BY DEF old
<1>3. ram'[old.frame] = ram[old.frame]
  <2>1. CASE ClonePage
    <3>1. PICK t \in 1 .. Len(tables) : old = tables[t][e]
      <4>1. directories[clone.src][s] \in 0 .. Len(tables) /\ Len(tables) \in Nat
        BY <1>1, CloneTypes
      <4>2. directories[clone.src][s] # 0
        BY <1>1, <1>2 DEF Row, EmptyTable
      <4>3. directories[clone.src][s] \in 1 .. Len(tables)
        BY <4>1, <4>2
      <4> QED
        BY <1>1, <4>2, <4>3 DEF Row
    <3>2. /\ first_frame = 0 \/ first_frame \notin frames
          /\ \/ ram' = ram
             \/ \E src : ram' = copy_page_physical(src, first_frame)
      BY <2>1, ClonePageEffect
    <3>3. IInv
      BY DEF BootInv
    <3> QED
      <4>1. tables[t][e].frame # 0 /\ e \in 0 .. Entries - 1
        BY <1>1, <1>2, <3>1
      <4>2. CASE ram' = ram
        BY <4>2
      <4>3. CASE \E src : ram' = copy_page_physical(src, first_frame)
        <5>1. PICK src : ram' = copy_page_physical(src, first_frame)
          BY <4>3
        <5>2. ram'[tables[t][e].frame] = ram[tables[t][e].frame]
          BY <3>2, <3>3, <4>1, <5>1, FramesKept
        <5> QED
          BY <3>1, <5>2
      <4> QED
        BY <3>2, <4>2, <4>3
  <2>2. CASE ~ClonePage
    <3>1. ram' = ram
      BY <2>2 DEF Next, BootMap, EnablePaging, CloneDirectory, CloneBegin, CloneSkip, CloneLink,
                  CloneTable, CloneTableDone, CloneReturn, MoveStack, HeapExpand, HeapContract,
                  SwitchPageDirectory, Write, Running, Cloning
    <3> QED
      BY <3>1
  <2> QED
    BY <2>1, <2>2
<1>4. ASSUME CloneReturn
      PROVE  /\ new.present /\ new.rw = old.rw
             /\ new.frame # 0 => ram[new.frame] = ram[old.frame]
  <2>1. clone.slot = Slots
    BY <1>4 DEF CloneReturn
  <2>2. s < clone.slot
    BY <1>1, <2>1
  <2>3. CopyOf(old, new, ram)
    BY <1>1, <2>2 DEF CopyInv, SlotsCopied
  <2> QED
    BY <1>2, <2>3 DEF CopyOf
<1> QED
  BY <1>3, <1>4, Zenon DEF old, new

(* For any number of frames and any shape of tables and directories, and    *)
(* however often frames run out: a clone leaves what the parent's pages     *)
(* hold, and every page of the parent that has a frame is in the child with *)
(* the same rights and, unless the copy got frame 0, the same contents.     *)
THEOREM ClonesCopy == Spec => CloneCopies
<1>1. Init => BootInv /\ CopyInv
  BY InitBoot, InitCopied
<1>2. BootInv /\ CopyInv /\ [Next]_vars => BootInv' /\ CopyInv'
  BY NextBoot, NextCopied
<1>3. BootInv /\ CopyInv /\ [Next]_vars => [Copies]_vars
  BY StepCopies
<1>4. Spec => [][Copies]_vars
  BY <1>1, <1>2, <1>3, PTL DEF Spec
<1> QED
  BY <1>4 DEF CloneCopies, Copies
=============================================================================
