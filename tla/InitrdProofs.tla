---------------------------- MODULE InitrdProofs ----------------------------
(***************************************************************************)
(* Proofs about Initrd for any number of files, names and callers.          *)
(***************************************************************************)
EXTENDS Initrd, SequenceTheorems, TLAPS

Lengths == INSTANCE Folding WITH Op <- AddLength

File == [name : Names, length : 0 .. MaxLength]
Name == Names \cup {"dev"}
EntryName == Name \cup {""}    \* what the dirent may hold

(* A node for every file, in their order.                                   *)
NodesOfFiles ==
  [i \in 1 .. Len(files) |->
     [name |-> files[i].name, length |-> files[i].length, inode |-> i - 1]]

(* initialise_initrd finds the headers as ramdisk.c wrote them and makes    *)
(* the nodes of them.                                                       *)
NodesInv ==
  /\ files \in Seq(File) /\ Len(files) <= MaxFiles
  /\ ready \in BOOLEAN
  /\ ~ready => headers = Image(files) /\ nodes = <<>>
  /\ ready => nodes = NodesOfFiles

(* A listing that was not spoiled took the first names there are to take,   *)
(* and has the next one in the dirent between readdir and the look at it.   *)
Listed(node) == IF node = root THEN RootNames ELSE <<>>
Taken(l) == IF l.holds THEN l.next - 1 ELSE l.next
Follows(l, d) ==
  /\ Len(l.names) = Taken(l) /\ l.next <= Len(Listed(l.node))
  /\ \A i \in 1 .. Len(l.names) : l.names[i] = Listed(l.node)[i]
  /\ l.holds => l.next > 0 /\ d.name = Listed(l.node)[l.next]
  /\ l.ended => ~l.holds /\ l.next = Len(Listed(l.node))

Listing ==
  [node : Int, next : 0 .. MaxFiles + 1, names : Seq(EntryName), holds : BOOLEAN,
   ended : BOOLEAN, spoiled : BOOLEAN]

ListingInv ==
  /\ dirent.name \in EntryName
  /\ listing \in [Clients -> Listing]
  /\ \A c \in Clients : ~listing[c].spoiled => Follows(listing[c], dirent)

IInv == NodesInv /\ ListingInv /\ FindsWhatItLists

USE SizesAssumption
-----------------------------------------------------------------------------
(* An index before 0 is behind every node.                                  *)
LEMMA FewFiles == MaxFiles < Word
<1>1. Slots * HeaderSize >= Slots
  BY SMT
<1>2. MaxFiles * MaxLength >= 0
  BY SMT
<1> DEFINE a == Slots * HeaderSize
           b == MaxFiles * MaxLength
<1>3. a \in Int /\ b \in Int /\ Location + CountSize + a + b <= Word
  BY RoomAssumption
<1>4. a >= Slots /\ b >= 0
  BY <1>1, <1>2
<1> HIDE DEF a, b
<1> QED
  BY <1>3, <1>4, SlotsAssumption

(* The names of the root directory.                                         *)
LEMMA RootNamesFacts ==
  ASSUME NodesInv
  PROVE  /\ RootNames \in Seq(Name) /\ Len(RootNames) = Len(files) + 1
         /\ RootNames[1] = "dev"
         /\ \A i \in 1 .. Len(files) : RootNames[i + 1] = files[i].name
<1> DEFINE names == [i \in 1 .. Len(files) |-> files[i].name]
<1>1. Len(files) \in Nat /\ \A i \in 1 .. Len(files) : files[i].name \in Name
  <2>1. Len(files) \in Nat
    BY DEF NodesInv
  <2>2. ASSUME NEW i \in 1 .. Len(files) PROVE files[i].name \in Name
    <3>1. files[i] \in File
      BY <2>1, ElementOfSeq DEF NodesInv
    <3> QED
      BY <3>1 DEF File, Name
  <2> QED
    BY <2>1, <2>2
<1>2. names \in Seq(Name) /\ Len(names) = Len(files)
  BY <1>1
<1>3. <<"dev">> \in Seq(Name) /\ Len(<<"dev">>) = 1 /\ <<"dev">>[1] = "dev"
  BY DEF Name
<1> HIDE DEF names
<1>4. /\ <<"dev">> \o names \in Seq(Name)
      /\ Len(<<"dev">> \o names) = 1 + Len(files)
      /\ \A i \in 1 .. 1 + Len(files) :
           (<<"dev">> \o names)[i] = IF i <= 1 THEN <<"dev">>[i] ELSE names[i - 1]
  BY <1>2, <1>3, ConcatProperties
<1>5. RootNames = <<"dev">> \o names
  BY DEF RootNames, names
<1>6. ASSUME NEW i \in 1 .. Len(files) PROVE RootNames[i + 1] = files[i].name
  <2>1. i + 1 \in 1 .. 1 + Len(files) /\ ~(i + 1 <= 1) /\ (i + 1) - 1 = i
    BY <1>1
  <2>2. RootNames[i + 1] = names[i]
    BY <1>4, <1>5, <2>1
  <2> QED
    BY <2>2 DEF names
<1>7. RootNames[1] = "dev"
  BY <1>1, <1>3, <1>4, <1>5
<1> QED
  BY <1>1, <1>4, <1>5, <1>6, <1>7

(* What readdir answers for the root: the name at that index, and nothing   *)
(* behind the last one.                                                     *)
LEMMA ReaddirRoot ==
  ASSUME NodesInv, ready, NEW k \in 0 .. MaxFiles + 1
  PROVE  IF k < Len(RootNames)
         THEN initrd_readdir(root, k) # NoEntry /\ initrd_readdir(root, k).name = RootNames[k + 1]
         ELSE initrd_readdir(root, k) = NoEntry
<1>1. Len(files) \in Nat /\ Len(files) <= MaxFiles /\ MaxFiles \in Nat /\ Word \in Nat
  BY DEF NodesInv
<1>2. /\ Len(nodes) = Len(files)
      /\ \A i \in 1 .. Len(files) : nodes[i].name = files[i].name /\ nodes[i].inode = i - 1
  BY <1>1 DEF NodesInv, NodesOfFiles
<1>3. CASE k = 0
  <2>1. initrd_readdir(root, k) = [name |-> "dev", ino |-> 0]
    BY <1>3 DEF initrd_readdir
  <2>2. [name |-> "dev", ino |-> 0] # NoEntry
    BY DEF NoEntry
  <2>3. 0 < Len(RootNames) /\ RootNames[0 + 1] = "dev"
    BY <1>1, RootNamesFacts
  <2> QED
    BY <1>3, <2>1, <2>2, <2>3
<1>4. CASE k > 0
  <2>1. (k - 1) % Word = k - 1
    BY <1>1, <1>4, FewFiles
  <2>2. CASE k - 1 >= Len(files)
    BY <1>1, <1>2, <1>4, <2>1, <2>2, RootNamesFacts DEF initrd_readdir
  <2>3. CASE k - 1 < Len(files)
    <3>1. k \in 1 .. Len(files)
      BY <1>1, <1>4, <2>3
    <3>2. initrd_readdir(root, k) = [name |-> nodes[k].name, ino |-> nodes[k].inode]
      BY <1>1, <1>2, <1>4, <2>1, <2>3 DEF initrd_readdir
    <3>3. nodes[k].name = files[k].name /\ nodes[k].inode = k - 1
      BY <1>2, <3>1
    <3>4. initrd_readdir(root, k).name = files[k].name /\ initrd_readdir(root, k).ino = k - 1
      BY <3>2, <3>3
    <3>5. initrd_readdir(root, k) # NoEntry
      <4>1. k - 1 # -1 /\ NoEntry.ino = -1
        BY <3>1 DEF NoEntry
      <4> QED
        BY <3>4, <4>1
    <3>6. k < Len(RootNames) /\ RootNames[k + 1] = files[k].name
      BY <1>1, <3>1, RootNamesFacts
    <3> QED
      BY <3>4, <3>5, <3>6
  <2> QED
    BY <1>1, <2>2, <2>3
<1> QED
  BY <1>3, <1>4

(* Nothing is listed in /dev from the beginning.                            *)
LEMMA ReaddirDev ==
  ASSUME NodesInv, ready
  PROVE  initrd_readdir(dev, 0) = NoEntry
<1>1. Len(files) \in Nat /\ Len(files) <= MaxFiles /\ MaxFiles \in Nat /\ Word \in Nat
  BY DEF NodesInv
<1>2. Len(nodes) = Len(files)
  BY <1>1 DEF NodesInv, NodesOfFiles
<1>3. (0 - 1) % Word = Word - 1
  BY <1>1, FewFiles
<1> QED
  BY <1>1, <1>2, <1>3, FewFiles DEF initrd_readdir, dev, root

(* An entry is one of the names, in any listing, and its index is in range. *)
LEMMA ReaddirEntry ==
  ASSUME NodesInv, ready, NEW node, NEW k \in 0 .. MaxFiles + 1,
         initrd_readdir(node, k) # NoEntry
  PROVE  initrd_readdir(node, k).name \in Name /\ k + 1 <= MaxFiles + 1
<1>1. Len(files) \in Nat /\ Len(files) <= MaxFiles /\ MaxFiles \in Nat /\ Word \in Nat
  BY DEF NodesInv
<1>2. /\ Len(nodes) = Len(files)
      /\ \A i \in 1 .. Len(files) : nodes[i].name \in Names
  <2>1. Len(nodes) = Len(files) /\ \A i \in 1 .. Len(files) : nodes[i].name = files[i].name
    BY <1>1 DEF NodesInv, NodesOfFiles
  <2>2. ASSUME NEW i \in 1 .. Len(files) PROVE files[i].name \in Names
    <3>1. files[i] \in File
      BY <1>1, ElementOfSeq DEF NodesInv
    <3> QED
      BY <3>1 DEF File
  <2> QED
    BY <2>1, <2>2
<1>3. CASE k = 0
  <2>1. (0 - 1) % Word = Word - 1
    BY <1>1, FewFiles
  <2> QED
    BY <1>1, <1>2, <1>3, <2>1, FewFiles DEF initrd_readdir, Name
<1>4. CASE k > 0
  <2>1. (k - 1) % Word = k - 1
    BY <1>1, <1>4, FewFiles
  <2>2. k - 1 < Len(files)
    BY <1>1, <1>2, <1>4, <2>1 DEF initrd_readdir
  <2>3. k \in 1 .. Len(files)
    BY <1>1, <1>4, <2>2
  <2>4. initrd_readdir(node, k) = [name |-> nodes[k].name, ino |-> nodes[k].inode]
    BY <1>1, <1>2, <1>4, <2>1, <2>2 DEF initrd_readdir
  <2> QED
    BY <1>1, <1>2, <2>3, <2>4 DEF Name
<1> QED
  BY <1>3, <1>4
-----------------------------------------------------------------------------
(* Where the files lie: one behind the other, and all of them inside the    *)
(* memory that an uint32_t addresses.                                       *)
LEMMA LengthsNext ==
  ASSUME NEW fs \in Seq(File)
  PROVE  /\ LengthsBefore(fs, 1) = 0
         /\ \A i \in 1 .. Len(fs) : LengthsBefore(fs, i + 1) = LengthsBefore(fs, i) + fs[i].length
<1> DEFINE before(i) == SubSeq(fs, 1, i - 1)
<1>1. \A i \in 1 .. Len(fs) + 1 : LengthsBefore(fs, i) = Lengths!fold(0, before(i))
  BY Zenon DEF LengthsBefore, Lengths!fold, FoldLeft, MapThenFoldSet, Lengths!FoldLeft,
               Lengths!MapThenFoldSet, Lengths!Max, Max
<1>2. ASSUME NEW i \in 1 .. Len(fs) + 1
      PROVE  DOMAIN before(i) = 1 .. i - 1 /\ \A j \in 1 .. i - 1 : before(i)[j] = fs[j]
  <2>1. Len(fs) \in Nat /\ i - 1 \in Nat
    OBVIOUS
  <2>2. \A j \in 1 .. i - 1 : fs[j] \in File /\ 1 + j - 1 = j
    BY <2>1
  <2>3. (IF 1 <= i - 1 THEN (i - 1) - 1 + 1 ELSE 0) = i - 1 /\ (i - 1) - 1 + 1 = i - 1
    BY <2>1
  <2> DEFINE m == i - 1
  <2>4. /\ SubSeq(fs, 1, m) \in Seq(File) /\ Len(SubSeq(fs, 1, m)) = IF 1 <= m THEN m - 1 + 1 ELSE 0
        /\ \A j \in 1 .. m - 1 + 1 : SubSeq(fs, 1, m)[j] = fs[1 + j - 1]
    <3>1. m \in Int /\ \A j \in 1 .. m : fs[j] \in File
      BY <2>1, <2>2
    <3> HIDE DEF m
    <3> QED
      BY <3>1, SubSeqProperties
  <2>5. before(i) \in Seq(File) /\ Len(before(i)) = i - 1
    BY <2>3, <2>4
  <2>6. \A j \in 1 .. i - 1 : before(i)[j] = fs[j]
    BY <2>2, <2>3, <2>4
  <2> HIDE DEF before
  <2> QED
    BY <2>5, <2>6
<1> HIDE DEF before
<1>3. LengthsBefore(fs, 1) = 0
  <2>1. 1 \in 1 .. Len(fs) + 1 /\ 1 .. 1 - 1 = {}
    OBVIOUS
  <2>2. DOMAIN before(1) = {}
    BY <1>2, <2>1
  <2> QED
    BY <1>1, <2>1, <2>2, Lengths!FoldNothing
<1>4. ASSUME NEW i \in 1 .. Len(fs)
      PROVE  LengthsBefore(fs, i + 1) = LengthsBefore(fs, i) + fs[i].length
  <2> DEFINE n == i - 1
  <2>1. /\ n \in Nat /\ n + 1 = i /\ (i + 1) - 1 = n + 1 /\ i \in 1 .. Len(fs) + 1
        /\ i + 1 \in 1 .. Len(fs) + 1 /\ i \in 1 .. (i + 1) - 1
        /\ \A j \in 1 .. n : j \in 1 .. (i + 1) - 1
    OBVIOUS
  <2>2. DOMAIN before(i) = 1 .. n /\ \A j \in 1 .. n : before(i)[j] = fs[j]
    BY <1>2, <2>1
  <2>3. DOMAIN before(i + 1) = 1 .. n + 1 /\ \A j \in 1 .. n + 1 : before(i + 1)[j] = fs[j]
    BY <1>2, <2>1
  <2>4. \A j \in 1 .. n : before(i + 1)[j] = before(i)[j]
    BY <2>1, <2>2, <2>3
  <2> HIDE DEF n
  <2>5. Lengths!fold(0, before(i + 1)) = AddLength(Lengths!fold(0, before(i)), before(i + 1)[n + 1])
    BY <2>1, <2>2, <2>3, <2>4, Lengths!FoldNext
  <2>6. before(i + 1)[n + 1] = fs[i]
    BY <2>1, <2>3
  <2> QED
    BY <1>1, <2>1, <2>5, <2>6 DEF AddLength
<1> QED
  BY <1>3, <1>4

LEMMA LengthsBounds ==
  ASSUME NEW fs \in Seq(File)
  PROVE  \A i \in 1 .. Len(fs) + 1 : LengthsBefore(fs, i) \in 0 .. (i - 1) * MaxLength
<1> DEFINE n == Len(fs)
           T == {i \in 0 .. n : LengthsBefore(fs, i + 1) \in 0 .. i * MaxLength}
<1>1. n \in Nat /\ \A i \in 1 .. n : fs[i].length \in 0 .. MaxLength
  <2>1. n \in Nat /\ \A i \in 1 .. n : fs[i] \in File
    OBVIOUS
  <2> QED
    BY <2>1 DEF File
<1>2. 0 \in T
  <2>1. 0 \in 0 .. n /\ 0 + 1 = 1 /\ 0 \in 0 .. 0 * MaxLength
    BY <1>1
  <2> QED
    BY <2>1, LengthsNext
<1>3. ASSUME NEW i \in 0 .. n - 1, i \in T PROVE i + 1 \in T
  <2>1. i + 1 \in 1 .. n /\ i + 1 \in 0 .. n /\ i \in Nat
    BY <1>1
  <2>2. LengthsBefore(fs, (i + 1) + 1) = LengthsBefore(fs, i + 1) + fs[i + 1].length
    BY <2>1, LengthsNext
  <2>3. fs[i + 1].length \in 0 .. MaxLength /\ LengthsBefore(fs, i + 1) \in 0 .. i * MaxLength
    BY <1>1, <1>3, <2>1
  <2>4. (i + 1) * MaxLength = i * MaxLength + MaxLength /\ i * MaxLength \in Nat
    BY <2>1
  <2> QED
    BY <2>1, <2>2, <2>3, <2>4
<1>4. \A i \in 0 .. n : i \in T
  <2> HIDE DEF T, n
  <2> QED
    BY <1>1, <1>2, <1>3, Lengths!Induction
<1> SUFFICES ASSUME NEW i \in 1 .. n + 1 PROVE LengthsBefore(fs, i) \in 0 .. (i - 1) * MaxLength
  OBVIOUS
<1>5. i - 1 \in 0 .. n /\ (i - 1) + 1 = i
  BY <1>1
<1>6. i - 1 \in T
  BY <1>4, <1>5
<1> QED
  BY <1>5, <1>6

(* A file ends before the next one begins.                                  *)
LEMMA LengthsApart ==
  ASSUME NEW fs \in Seq(File), NEW i \in 1 .. Len(fs), NEW j \in i + 1 .. Len(fs) + 1
  PROVE  LengthsBefore(fs, i) + fs[i].length <= LengthsBefore(fs, j)
<1> DEFINE at(k) == LengthsBefore(fs, k)
           m == Len(fs) - i
           T == {k \in 0 .. m : at(i) + fs[i].length <= at(i + 1 + k)}
<1>1. Len(fs) \in Nat /\ m \in Nat
  OBVIOUS
<1>2. ASSUME NEW k \in 1 .. Len(fs) PROVE fs[k].length \in Nat /\ at(k) \in Nat /\ at(k + 1) = at(k) + fs[k].length
  <2>1. fs[k] \in File
    OBVIOUS
  <2>2. at(k + 1) = at(k) + fs[k].length
    BY LengthsNext
  <2>3. k \in 1 .. Len(fs) + 1
    OBVIOUS
  <2>4. at(k) \in 0 .. (k - 1) * MaxLength
    BY <2>3, LengthsBounds
  <2> QED
    BY <2>1, <2>2, <2>4 DEF File
<1> HIDE DEF at
<1>3. 0 \in T
  <2>1. i + 1 + 0 = i + 1
    OBVIOUS
  <2> QED
    BY <1>1, <1>2, <2>1
<1>4. ASSUME NEW k \in 0 .. m - 1, k \in T PROVE k + 1 \in T
  <2>1. i + 1 + k \in 1 .. Len(fs) /\ i + 1 + (k + 1) = (i + 1 + k) + 1 /\ k + 1 \in 0 .. m
    BY <1>1
  <2>2. at(i) + fs[i].length <= at(i + 1 + k)
    BY <1>4
  <2>3. /\ fs[i + 1 + k].length \in Nat /\ at(i + 1 + k) \in Nat
        /\ at((i + 1 + k) + 1) = at(i + 1 + k) + fs[i + 1 + k].length
    BY <1>2, <2>1
  <2>4. at(i) \in Nat /\ fs[i].length \in Nat
    BY <1>2
  <2>5. at(i) + fs[i].length <= at(i + 1 + (k + 1))
    <3>1. at(i + 1 + (k + 1)) = at(i + 1 + k) + fs[i + 1 + k].length
      BY <2>1, <2>3
    <3> DEFINE x == at(i + 1 + k)
               y == fs[i + 1 + k].length
               z == at(i) + fs[i].length
    <3>2. x \in Nat /\ y \in Nat /\ z \in Nat /\ z <= x
      BY <2>2, <2>3, <2>4
    <3>3. at(i + 1 + (k + 1)) = x + y
      BY <3>1
    <3> HIDE DEF x, y, z
    <3>4. z <= x + y
      BY <3>2
    <3> QED
      BY <3>3, <3>4 DEF z
  <2> QED
    BY <2>1, <2>5
<1>5. \A k \in 0 .. m : k \in T
  <2> HIDE DEF T, m
  <2> QED
    BY <1>1, <1>3, <1>4, Lengths!Induction
<1>6. j - (i + 1) \in 0 .. m /\ i + 1 + (j - (i + 1)) = j
  BY <1>1
<1>7. j - (i + 1) \in T
  BY <1>5, <1>6
<1> QED
  BY <1>6, <1>7 DEF at

(* The address of the first byte of a file.                                 *)
Place(i) == Location + FirstFile + LengthsBefore(files, i)

LEMMA PlaceFacts ==
  ASSUME NodesInv, NEW i \in 1 .. Len(files)
  PROVE  /\ files[i].length \in 0 .. MaxLength /\ Place(i) \in Nat
         /\ Place(i) + files[i].length < Word /\ FirstFile + LengthsBefore(files, i) \in 0 .. Word - 1
<1>1. /\ files \in Seq(File) /\ Len(files) \in Nat /\ Len(files) <= MaxFiles /\ i \in 1 .. MaxFiles
      /\ i \in 1 .. Len(files) + 1
  BY DEF NodesInv
<1>2. files[i].length \in 0 .. MaxLength
  <2>1. files[i] \in File
    BY <1>1, ElementOfSeq
  <2> QED
    BY <2>1 DEF File
<1> DEFINE l == files[i].length
           b == LengthsBefore(files, i)
           most == (i - 1) * MaxLength
           all == MaxFiles * MaxLength
           hs == Slots * HeaderSize
<1>3. b \in 0 .. most
  BY <1>1, LengthsBounds
<1>4. most + MaxLength <= all /\ most \in Nat /\ all \in Nat
  <2>1. i <= MaxFiles /\ i \in Nat /\ MaxFiles \in Nat /\ MaxLength \in Nat
    BY <1>1
  <2>2. i * MaxLength <= MaxFiles * MaxLength /\ i * MaxLength = (i - 1) * MaxLength + MaxLength
    BY <2>1
  <2>3. (i - 1) * MaxLength \in Nat /\ MaxFiles * MaxLength \in Nat
    BY <1>1
  <2> QED
    BY <2>2, <2>3
<1>5. hs \in Nat /\ Location + CountSize + hs + all < Word
  BY RoomAssumption
<1>6. Place(i) = Location + (hs + CountSize) + b /\ FirstFile = hs + CountSize
  BY DEF Place, FirstFile
<1>7. l \in 0 .. MaxLength
  BY <1>2
<1> HIDE DEF l, b, most, all, hs
<1>8. Place(i) \in Nat /\ Place(i) + l < Word /\ FirstFile + b \in 0 .. Word - 1
  BY <1>3, <1>4, <1>5, <1>6, <1>7
<1> QED
  BY <1>2, <1>8 DEF l, b

(* No two files share an address: the byte there is the file's own.         *)
LEMMA ByteOfFile ==
  ASSUME NodesInv, NEW i \in 1 .. Len(files), NEW a \in Place(i) .. Place(i) + files[i].length - 1
  PROVE  Byte(a) = <<i, a - Place(i) + 1>>
<1>1. files \in Seq(File) /\ Len(files) \in Nat
  BY DEF NodesInv
<1> DEFINE at(j) == Location + CountSize + Slots * HeaderSize + LengthsBefore(files, j)
           here == {j \in 1 .. Len(files) : a \in at(j) .. at(j) + files[j].length - 1}
<1>2. ASSUME NEW j \in 1 .. Len(files) PROVE at(j) = Place(j)
  <2>1. LengthsBefore(files, j) \in Int
    <3>1. j \in 1 .. Len(files) + 1
      BY <1>1
    <3>2. LengthsBefore(files, j) \in 0 .. (j - 1) * MaxLength
      BY <1>1, <3>1, LengthsBounds
    <3> QED
      BY <3>2
  <2> DEFINE hs == Slots * HeaderSize
  <2>2. hs \in Int
    OBVIOUS
  <2>3. at(j) = Location + CountSize + hs + LengthsBefore(files, j)
        /\ Place(j) = Location + (hs + CountSize) + LengthsBefore(files, j)
    BY DEF Place, FirstFile
  <2> HIDE DEF hs
  <2> QED
    BY <2>1, <2>2, <2>3
<1>3. Byte(a) = IF here = {} THEN Garbage
                ELSE LET j == CHOOSE j \in here : TRUE IN <<j, a - at(j) + 1>>
  BY Zenon DEF Byte
<1> HIDE DEF at
<1>4. i \in here
  BY <1>2
<1>5. ASSUME NEW j \in here PROVE j = i
  <2>1. /\ j \in 1 .. Len(files) /\ a \in Place(j) .. Place(j) + files[j].length - 1
    BY <1>2
  <2>2. ASSUME NEW p \in 1 .. Len(files), NEW q \in 1 .. Len(files), p < q,
               a \in Place(p) .. Place(p) + files[p].length - 1,
               a \in Place(q) .. Place(q) + files[q].length - 1
        PROVE  FALSE
    <3>1. q \in p + 1 .. Len(files) + 1
      BY <1>1, <2>2
    <3>2. LengthsBefore(files, p) + files[p].length <= LengthsBefore(files, q)
      BY <1>1, <3>1, LengthsApart
    <3>3. /\ LengthsBefore(files, p) \in Nat /\ LengthsBefore(files, q) \in Nat
      <4>1. p \in 1 .. Len(files) + 1 /\ q \in 1 .. Len(files) + 1
        BY <1>1
      <4>2. /\ LengthsBefore(files, p) \in 0 .. (p - 1) * MaxLength
            /\ LengthsBefore(files, q) \in 0 .. (q - 1) * MaxLength
        BY <1>1, <4>1, LengthsBounds
      <4> QED
        BY <4>2
    <3> DEFINE first == Location + FirstFile
    <3>4. first \in Int /\ Place(p) = first + LengthsBefore(files, p)
          /\ Place(q) = first + LengthsBefore(files, q)
      BY DEF FirstFile, Place
    <3>5. files[p].length \in Nat
      <4>1. files[p] \in File
        BY <1>1, ElementOfSeq
      <4> QED
        BY <4>1 DEF File
    <3> DEFINE x == LengthsBefore(files, p)
               y == LengthsBefore(files, q)
               l == files[p].length
    <3>6. x \in Nat /\ y \in Nat /\ l \in Nat /\ x + l <= y
      BY <3>2, <3>3, <3>5
    <3>7. a \in first + x .. first + x + l - 1 /\ a \in first + y .. first + y + files[q].length - 1
      BY Zenon, <2>2, <3>4
    <3>8. a <= first + x + l - 1 /\ first + y <= a /\ a \in Int
      BY <3>7
    <3> HIDE DEF first, x, y, l
    <3> QED
      BY <3>4, <3>6, <3>8
  <2>3. ~(i < j) /\ ~(j < i)
    BY <2>1, <2>2
  <2> QED
    BY <2>1, <2>3
<1>6. (CHOOSE j \in here : TRUE) = i
  <2> HIDE DEF here
  <2> QED
    BY <1>4, <1>5
<1>7. here # {}
  BY <1>4
<1>8. Byte(a) = <<i, a - at(i) + 1>>
  <2> HIDE DEF here
  <2> QED
    BY <1>3, <1>6, <1>7, Zenon
<1> QED
  BY <1>2, <1>8
-----------------------------------------------------------------------------
(* The invariant holds in every image and before the first call.            *)
LEMMA InitIInv == Init => IInv
<1> SUFFICES ASSUME Init PROVE IInv
  OBVIOUS
<1>1. NodesInv
  <2>1. PICK n \in 0 .. MaxFiles : files \in [1 .. n -> File]
    BY DEF Init, File
  <2>2. files \in Seq(File) /\ Len(files) = n
    BY <2>1
  <2>3. headers = Image(files) /\ nodes = <<>> /\ ready = FALSE
    BY DEF Init
  <2>4. Len(files) <= MaxFiles
    BY <2>2
  <2> QED
    BY <2>2, <2>3, <2>4 DEF NodesInv
<1>2. NoListing \in Listing
  BY DEF NoListing, Listing, root
<1>3. Follows(NoListing, dirent)
  <2>1. Len(RootNames) \in Nat
    BY <1>1, RootNamesFacts DEF NodesInv
  <2> QED
    BY <2>1 DEF Follows, NoListing, Listed, Taken
<1>4. ListingInv
  BY <1>2, <1>3 DEF Init, ListingInv, EntryName
<1>5. FindsWhatItLists
  BY DEF Init, NoReply, FindsWhatItLists
<1> QED
  BY <1>1, <1>4, <1>5 DEF IInv

(* The names of the root do not change.                                     *)
LEMMA SameNames ==
  ASSUME UNCHANGED files
  PROVE  RootNames' = RootNames /\ \A node : Listed(node)' = Listed(node)
BY DEF RootNames, Listed

LEMMA InitialiseKeeps == IInv /\ initialise_initrd => IInv'
<1> SUFFICES ASSUME IInv, initialise_initrd PROVE IInv'
  OBVIOUS
<1> USE DEF IInv
<1>1. /\ UNCHANGED <<files, dirent, reply, listing>> /\ ready' = TRUE
      /\ headers = Image(files)
  BY DEF initialise_initrd, NodesInv
<1>2. Len(files) \in Nat
  BY DEF NodesInv
<1>3. /\ Len(headers) = Len(files)
      /\ \A i \in 1 .. Len(files) :
           headers[i].name = files[i].name /\ headers[i].length = files[i].length
  BY <1>1, <1>2 DEF Image
<1>4. nodes' = NodesOfFiles
  BY <1>2, <1>3 DEF initialise_initrd, NodesOfFiles
<1>5. NodesInv'
  BY <1>1, <1>4 DEF NodesInv, NodesOfFiles
<1>6. ListingInv'
  BY <1>1, SameNames DEF ListingInv, Follows, Taken, Listed
<1>7. FindsWhatItLists'
  BY <1>1, SameNames DEF FindsWhatItLists
<1> QED
  BY <1>5, <1>6, <1>7

(* The first node of a name is the first entry of that name.                *)
LEMMA FindFirst ==
  ASSUME NodesInv, ready, NEW name
  PROVE  LET listed == {i \in 1 .. Len(RootNames) : RootNames[i] = name}
         IN  IF listed = {} THEN initrd_finddir(root, name) = Null
             ELSE \E i \in listed : /\ \A j \in listed : i <= j
                                    /\ initrd_finddir(root, name) = IF i = 1 THEN dev ELSE i - 1
<1> DEFINE listed == {i \in 1 .. Len(RootNames) : RootNames[i] = name}
           named == {i \in 1 .. Len(nodes) : nodes[i].name = name}
<1>1. Len(files) \in Nat
  BY DEF NodesInv
<1>2. Len(nodes) = Len(files) /\ \A i \in 1 .. Len(files) : nodes[i].name = files[i].name
  BY <1>1 DEF NodesInv, NodesOfFiles
<1>3. Len(RootNames) = Len(nodes) + 1
  BY <1>2, RootNamesFacts
<1>4. CASE name = "dev"
  <2>1. 1 \in listed /\ \A j \in listed : 1 <= j
    BY <1>1, <1>2, <1>3, <1>4, RootNamesFacts
  <2>2. initrd_finddir(root, name) = dev
    BY <1>4 DEF initrd_finddir
  <2> QED
    BY <2>1, <2>2
<1>5. CASE name # "dev"
  <2>1. \A i \in listed : i - 1 \in named
    <3> SUFFICES ASSUME NEW i \in listed PROVE i - 1 \in named
      OBVIOUS
    <3>1. i # 1 /\ i \in 1 .. Len(files) + 1 /\ RootNames[i] = name
      BY <1>2, <1>3, <1>5, RootNamesFacts
    <3>2. i - 1 \in 1 .. Len(files) /\ (i - 1) + 1 = i
      BY <1>1, <3>1
    <3>3. RootNames[(i - 1) + 1] = nodes[i - 1].name
      BY <1>2, <3>2, RootNamesFacts
    <3> QED
      BY <1>2, <3>1, <3>2, <3>3
  <2>2. \A i \in named : i + 1 \in listed
    BY <1>1, <1>2, <1>3, RootNamesFacts
  <2>3. CASE named = {}
    <3>1. listed = {}
      BY <2>1, <2>3
    <3>2. initrd_finddir(root, name) = Null
      BY <1>5, <2>3 DEF initrd_finddir
    <3> QED
      BY <3>1, <3>2
  <2>4. CASE named # {}
    <3>1. named \in SUBSET Nat
      BY <1>1, <1>2
    <3>2. PICK k \in named : \A j \in named : ~(j < k)
      BY <2>4, <3>1, Lengths!LeastElement
    <3>3. \E i \in named : \A j \in named : i <= j
      <4>1. \A j \in named : k <= j
        BY <3>1, <3>2
      <4> QED
        BY <4>1
    <3> DEFINE first == CHOOSE i \in named : \A j \in named : i <= j
    <3>4. first \in named /\ \A j \in named : first <= j
      BY <3>3
    <3>5. initrd_finddir(root, name) = first
      BY <1>5, <2>4 DEF initrd_finddir
    <3> HIDE DEF first, named, listed
    <3>6. first \in Nat /\ first > 0
      BY <1>1, <1>2, <3>4 DEF named
    <3>7. first + 1 \in listed /\ \A j \in listed : first + 1 <= j
      <4>1. ASSUME NEW j \in listed PROVE first + 1 <= j
        <5>1. j \in Int /\ first <= j - 1
          BY <1>1, <1>2, <1>3, <2>1, <3>4 DEF listed
        <5> QED
          BY <3>6, <5>1
      <4> QED
        BY <2>2, <3>4, <4>1
    <3>8. first + 1 # 1 /\ (first + 1) - 1 = first
      BY <3>6
    <3> QED
      BY <3>5, <3>7, <3>8 DEF listed
  <2> QED
    BY <2>3, <2>4
<1> QED
  BY <1>4, <1>5

LEMMA FindKeeps ==
  IInv /\ (\E node \in Nodes, name \in Name : finddir_fs(node, name)) => IInv'
<1> SUFFICES ASSUME IInv, NEW node \in Nodes, NEW name \in Name, finddir_fs(node, name)
             PROVE  IInv'
  OBVIOUS
<1> USE DEF IInv
<1>1. UNCHANGED <<files, headers, nodes, ready, dirent, listing>> /\ ready
  BY DEF finddir_fs
<1>2. NodesInv' /\ ListingInv'
  BY <1>1, SameNames DEF NodesInv, NodesOfFiles, ListingInv, Follows, Taken, Listed
<1>3. FindsWhatItLists'
  <2> SUFFICES ASSUME node = root
               PROVE  FindsWhatItLists'
    BY DEF finddir_fs, FindsWhatItLists
  <2>1. reply' = [op |-> "find", node |-> node, name |-> name, ret |-> initrd_finddir(root, name)]
    BY DEF finddir_fs, Directories
  <2>2. reply'.name = name /\ reply'.ret = initrd_finddir(root, name)
    BY <2>1
  <2>3. RootNames' = RootNames
    BY <1>1, SameNames
  <2> QED
    BY <1>1, <2>2, <2>3, FindFirst DEF FindsWhatItLists
<1> QED
  BY <1>2, <1>3

LEMMA ReadKeeps ==
  ASSUME IInv, NEW node, NEW offset, NEW size, read_fs(node, offset, size)
  PROVE  IInv'
<1> USE DEF IInv
<1>1. UNCHANGED <<files, headers, nodes, ready, dirent, listing>> /\ reply'.op = "read"
  BY DEF read_fs
<1>2. NodesInv' /\ ListingInv'
  BY <1>1, SameNames DEF NodesInv, NodesOfFiles, ListingInv, Follows, Taken, Listed
<1>3. FindsWhatItLists'
  BY <1>1 DEF FindsWhatItLists
<1> QED
  BY <1>2, <1>3

LEMMA LookKeeps ==
  ASSUME IInv, NEW c \in Clients, Look(c)
  PROVE  IInv'
<1> USE DEF IInv
<1> DEFINE l == listing[c]
           m == [l EXCEPT !.names = Append(@, dirent.name), !.holds = FALSE]
<1>1. /\ UNCHANGED <<files, headers, nodes, ready, dirent, reply>>
      /\ l.holds /\ listing' = [listing EXCEPT ![c] = m]
  BY DEF Look
<1>2. l \in Listing
  BY DEF ListingInv
<1>3. /\ m \in Listing /\ m.names = Append(l.names, dirent.name) /\ m.holds = FALSE
      /\ m.node = l.node /\ m.next = l.next /\ m.ended = l.ended /\ m.spoiled = l.spoiled
  <2>1. dirent.name \in EntryName
    BY DEF ListingInv
  <2>2. Append(l.names, dirent.name) \in Seq(EntryName)
    BY <1>2, <2>1, AppendProperties DEF Listing
  <2> HIDE DEF l
  <2> QED
    BY <1>2, <2>2 DEF Listing
<1> HIDE DEF m, l
<1>4. NodesInv' /\ FindsWhatItLists'
  BY <1>1, SameNames DEF NodesInv, NodesOfFiles, FindsWhatItLists
<1>5. ~l.spoiled => Follows(m, dirent)
  <2> SUFFICES ASSUME ~l.spoiled PROVE Follows(m, dirent)
    OBVIOUS
  <2>1. Follows(l, dirent)
    BY DEF ListingInv, l
  <2>2. l.next \in Int /\ l.names \in Seq(EntryName)
    <3>1. l.next \in 0 .. MaxFiles + 1 /\ l.names \in Seq(EntryName)
      BY <1>2 DEF Listing
    <3>2. l.next \in Int
      BY <3>1
    <3> QED
      BY <3>1, <3>2
  <2>3. Len(l.names) = l.next - 1 /\ dirent.name = Listed(l.node)[l.next]
    BY <1>1, <2>1 DEF Follows, Taken
  <2>4. /\ Len(m.names) = l.next
        /\ \A i \in 1 .. Len(m.names) :
             m.names[i] = IF i = l.next THEN dirent.name ELSE l.names[i]
    <3>1. dirent.name \in EntryName
      BY DEF ListingInv
    <3> QED
      BY <1>3, <2>2, <2>3, <3>1, AppendProperties
  <2>5. \A i \in 1 .. Len(m.names) : m.names[i] = Listed(m.node)[i]
    <3> SUFFICES ASSUME NEW i \in 1 .. Len(m.names) PROVE m.names[i] = Listed(l.node)[i]
      BY <1>3
    <3>1. CASE i = l.next
      BY <2>3, <2>4, <3>1
    <3>2. CASE i # l.next
      <4>1. i \in 1 .. Len(l.names) /\ m.names[i] = l.names[i]
        BY <2>2, <2>3, <2>4, <3>2
      <4> QED
        BY <2>1, <4>1 DEF Follows
    <3> QED
      BY <3>1, <3>2
  <2> QED
    BY <1>1, <1>3, <2>1, <2>4, <2>5 DEF Follows, Taken
<1>6. ListingInv'
  <2>1. listing' \in [Clients -> Listing] /\ dirent' = dirent
    BY <1>1, <1>3 DEF ListingInv
  <2>2. \A d \in Clients : listing'[d] = IF d = c THEN m ELSE listing[d]
    BY <1>1 DEF ListingInv
  <2>3. \A d \in Clients : ~listing'[d].spoiled => Follows(listing'[d], dirent)
    BY <1>3, <1>5, <2>2 DEF ListingInv, l
  <2> QED
    <3>1. dirent'.name \in EntryName
      BY <2>1 DEF ListingInv
    <3>2. ASSUME NEW d \in Clients, ~listing'[d].spoiled
          PROVE  Follows(listing[d], dirent)'
      <4>1. Follows(listing'[d], dirent)
        BY <2>3, <3>2
      <4> QED
        BY <1>1, <4>1, SameNames DEF Follows, Taken, Listed
    <3> QED
      BY <2>1, <3>1, <3>2 DEF ListingInv
<1> QED
  BY <1>4, <1>6

LEMMA ListKeeps ==
  ASSUME IInv, NEW c \in Clients, NEW node \in Nodes, List(c, node)
  PROVE  IInv'
<1> USE DEF IInv
<1> DEFINE m == [NoListing EXCEPT !.node = node]
<1>1. /\ UNCHANGED <<files, headers, nodes, ready, dirent, reply>>
      /\ listing' = [listing EXCEPT ![c] = m]
  BY DEF List
<1>2. Len(files) \in Nat /\ Len(nodes) \in Nat
  BY DEF NodesInv, NodesOfFiles
<1>3. node \in Int
  BY <1>2 DEF Nodes, Directories, root, dev
<1>4. /\ m.node = node /\ m.next = 0 /\ m.names = <<>> /\ m.holds = FALSE /\ m.ended = FALSE
      /\ m.spoiled = FALSE
  BY DEF NoListing
<1>5. m \in Listing
  <2>1. <<>> \in Seq(EntryName) /\ 0 \in 0 .. MaxFiles + 1
    BY EmptySeq
  <2>2. NoListing \in Listing
    BY <2>1 DEF NoListing, Listing, root
  <2> QED
    BY <1>3, <2>2 DEF Listing
<1> HIDE DEF m
<1>6. Follows(m, dirent)
  <2>1. Len(Listed(node)) \in Nat
    BY <1>2, RootNamesFacts DEF Listed
  <2> QED
    BY <1>4, <2>1 DEF Follows, Taken
<1>7. NodesInv' /\ FindsWhatItLists'
  BY <1>1, SameNames DEF NodesInv, NodesOfFiles, FindsWhatItLists
<1>8. ListingInv'
  <2>1. /\ listing' \in [Clients -> Listing]
        /\ \A d \in Clients : listing'[d] = IF d = c THEN m ELSE listing[d]
    BY <1>1, <1>5 DEF ListingInv
  <2>2. ASSUME NEW d \in Clients, ~listing'[d].spoiled
        PROVE  Follows(listing[d], dirent)'
    <3>1. Follows(listing'[d], dirent)
      BY <1>6, <2>1, <2>2 DEF ListingInv
    <3> QED
      BY <1>1, <3>1, SameNames DEF Follows, Taken, Listed
  <2> QED
    BY <1>1, <2>1, <2>2 DEF ListingInv
<1> QED
  BY <1>7, <1>8

LEMMA ReaddirKeeps ==
  ASSUME IInv, NEW c \in Clients, readdir_fs(c)
  PROVE  IInv'
<1> USE DEF IInv
<1> DEFINE l == listing[c]
           entry == IF l.node \in Directories THEN initrd_readdir(l.node, l.next) ELSE NoEntry
           last == [l EXCEPT !.ended = TRUE]
           more == [l EXCEPT !.holds = TRUE, !.next = @ + 1]
<1>1. /\ UNCHANGED <<files, headers, nodes, ready>> /\ reply' = NoReply
      /\ ready /\ ~l.holds /\ ~l.ended
  BY DEF readdir_fs
<1>2. l \in Listing /\ Len(files) \in Nat /\ dirent.name \in EntryName
  BY DEF ListingInv, NodesInv
<1>3. /\ l.next \in 0 .. MaxFiles + 1
      /\ ~l.spoiled => Follows(l, dirent)
  BY <1>2 DEF ListingInv, Listing
<1>4. NodesInv' /\ FindsWhatItLists'
  BY <1>1 DEF NodesInv, NodesOfFiles, FindsWhatItLists, NoReply
<1>5. ASSUME NEW d \in Clients, ~listing'[d].spoiled, Follows(listing'[d], dirent')
      PROVE  Follows(listing[d], dirent)'
  BY <1>1, <1>5, SameNames DEF Follows, Taken, Listed
<1>6. ~l.spoiled => /\ l.next <= Len(Listed(l.node)) /\ Len(l.names) = l.next
                    /\ \A i \in 1 .. Len(l.names) : l.names[i] = Listed(l.node)[i]
  BY <1>1, <1>3 DEF Follows, Taken
<1>7. CASE entry = NoEntry
  <2>1. dirent' = dirent /\ listing' = [listing EXCEPT ![c] = last]
    BY <1>7 DEF readdir_fs, ListingInv
  <2>2. /\ last \in Listing /\ last.names = l.names /\ last.next = l.next
        /\ last.holds = l.holds /\ last.ended = TRUE /\ last.node = l.node
        /\ last.spoiled = l.spoiled
    <3> HIDE DEF l
    <3> QED
      BY <1>2 DEF Listing
  <2>3. ~l.spoiled => l.next = Len(Listed(l.node))
    <3> SUFFICES ASSUME ~l.spoiled PROVE l.next = Len(Listed(l.node))
      OBVIOUS
    <3>1. CASE l.node = root
      <4>1. initrd_readdir(root, l.next) = NoEntry
        BY <1>7, <3>1 DEF Directories
      <4>2. ~(l.next < Len(RootNames)) /\ Len(RootNames) \in Nat
        BY <1>1, <1>2, <1>3, <4>1, ReaddirRoot, RootNamesFacts
      <4> QED
        BY <1>3, <1>6, <3>1, <4>2 DEF Listed
    <3>2. CASE l.node # root
      BY <1>3, <1>6, <3>2 DEF Listed
    <3> QED
      BY <3>1, <3>2
  <2> HIDE DEF last, entry
  <2>4. ~l.spoiled => Follows(last, dirent)
    BY <1>1, <1>6, <2>2, <2>3 DEF Follows, Taken
  <2>5. /\ listing' \in [Clients -> Listing]
        /\ \A d \in Clients : listing'[d] = IF d = c THEN last ELSE listing[d]
    BY <2>1, <2>2 DEF ListingInv
  <2>6. \A d \in Clients : ~listing'[d].spoiled => Follows(listing'[d], dirent')
    BY <2>1, <2>2, <2>4, <2>5 DEF ListingInv
  <2> QED
    BY <1>2, <1>4, <1>5, <2>1, <2>5, <2>6 DEF ListingInv
<1>8. CASE entry # NoEntry
  <2> DEFINE other(d) == [listing[d] EXCEPT !.spoiled = @ \/ listing[d].holds]
  <2>1. /\ dirent' = entry
        /\ listing' = [d \in Clients |-> IF d = c THEN more ELSE other(d)]
    BY <1>8 DEF readdir_fs
  <2>2. l.node \in Directories /\ entry = initrd_readdir(l.node, l.next)
    BY <1>8
  <2>3. entry.name \in EntryName /\ l.next + 1 \in 0 .. MaxFiles + 1
    <3>1. entry.name \in Name /\ l.next + 1 <= MaxFiles + 1
      BY <1>1, <1>3, <1>8, <2>2, ReaddirEntry
    <3>2. entry.name \in EntryName
      BY <3>1, Zenon DEF EntryName
    <3> QED
      BY <1>3, <3>1, <3>2
  <2>4. /\ more \in Listing /\ more.names = l.names /\ more.next = l.next + 1
        /\ more.holds = TRUE /\ more.ended = l.ended /\ more.node = l.node
        /\ more.spoiled = l.spoiled
    <3> HIDE DEF l
    <3> QED
      BY <1>2, <2>3 DEF Listing
  <2>5. ~l.spoiled => Follows(more, entry)
    <3> SUFFICES ASSUME ~l.spoiled PROVE Follows(more, entry)
      OBVIOUS
    <3>1. CASE l.node = root
      <4>1. l.next < Len(RootNames) /\ entry.name = RootNames[l.next + 1]
        BY <1>1, <1>3, <1>8, <2>2, <3>1, ReaddirRoot
      <4>2. Len(RootNames) \in Nat /\ Listed(l.node) = RootNames
        BY <1>2, <3>1, RootNamesFacts DEF Listed
      <4> HIDE DEF more, entry, l
      <4> QED
        BY <1>1, <1>3, <1>6, <2>4, <4>1, <4>2 DEF Follows, Taken
    <3>2. CASE l.node # root
      <4>1. l.node = dev /\ l.next = 0
        BY <1>3, <1>6, <2>2, <3>2 DEF Directories, Listed
      <4> QED
        BY <1>1, <1>8, <2>2, <4>1, ReaddirDev
    <3> QED
      BY <3>1, <3>2
  <2>6. ASSUME NEW d \in Clients
        PROVE  /\ other(d) \in Listing
               /\ ~other(d).spoiled => Follows(other(d), entry)
    <3> DEFINE o == listing[d]
    <3>1. o \in Listing
      BY DEF ListingInv
    <3>2. /\ other(d) \in Listing /\ other(d).names = o.names /\ other(d).next = o.next
          /\ other(d).holds = o.holds /\ other(d).ended = o.ended /\ other(d).node = o.node
          /\ other(d).spoiled = (o.spoiled \/ o.holds)
      BY <3>1 DEF Listing
    <3>3. ~o.spoiled => Follows(o, dirent)
      BY DEF ListingInv
    <3> HIDE DEF o, other, entry, l
    <3> QED
      BY <3>2, <3>3 DEF Follows, Taken
  <2> HIDE DEF more, entry, other, l
  <2>7. listing' \in [Clients -> Listing]
    BY <2>1, <2>4, <2>6
  <2>8. \A d \in Clients : ~listing'[d].spoiled => Follows(listing'[d], dirent')
    BY <2>1, <2>4, <2>5, <2>6
  <2> QED
    BY <1>4, <1>5, <2>1, <2>3, <2>7, <2>8 DEF ListingInv
<1> QED
  BY <1>7, <1>8

LEMMA NextIInv == IInv /\ [Next]_vars => IInv'
<1> SUFFICES ASSUME IInv, [Next]_vars PROVE IInv'
  OBVIOUS
<1>1. CASE initialise_initrd
  BY <1>1, InitialiseKeeps
<1>2. CASE \E node \in Nodes, offset \in 0 .. MaxLength + 1, size \in 0 .. Word - 1 :
             read_fs(node, offset, size)
  BY <1>2, ReadKeeps
<1>3. CASE \E node \in Nodes, name \in Name : finddir_fs(node, name)
  BY <1>3, FindKeeps
<1>4. ASSUME NEW c \in Clients, readdir_fs(c) PROVE IInv'
  BY <1>4, ReaddirKeeps
<1>5. ASSUME NEW c \in Clients, Look(c) PROVE IInv'
  BY <1>5, LookKeeps
<1>6. ASSUME NEW c \in Clients, NEW node \in Nodes, List(c, node) PROVE IInv'
  BY <1>6, ListKeeps
<1>7. CASE UNCHANGED vars
  BY <1>7, SameNames DEF vars, IInv, NodesInv, NodesOfFiles, ListingInv, Follows, Taken, Listed,
                         FindsWhatItLists
<1> QED
  BY <1>1, <1>2, <1>3, <1>4, <1>5, <1>6, <1>7 DEF Next, Name
-----------------------------------------------------------------------------
(* What is read is the file: the headers keep the addresses of the files    *)
(* after they were relocated, once.                                         *)
HeadersInv == ready => headers = [i \in 1 .. Len(files) |->
  [name |-> files[i].name, offset |-> Place(i), length |-> files[i].length]]
DirentInv == dirent \in [name : EntryName, ino : 0 .. MaxFiles]
ReadInv == HeadersInv /\ DirentInv /\ ReadsTheFile

LEMMA ImageIs ==
  ASSUME NodesInv, ~ready
  PROVE  /\ Len(headers) = Len(files)
         /\ \A i \in 1 .. Len(files) :
              headers[i] = [name |-> files[i].name, offset |-> FirstFile + LengthsBefore(files, i),
                            length |-> files[i].length]
<1>1. Len(files) \in Nat /\ headers = Image(files)
  BY DEF NodesInv
<1> QED
  BY <1>1 DEF Image

LEMMA RelocateKeeps == IInv /\ ReadInv /\ initialise_initrd => ReadInv'
<1> SUFFICES ASSUME IInv, ReadInv, initialise_initrd PROVE ReadInv'
  OBVIOUS
<1>1. /\ ~ready /\ UNCHANGED <<files, dirent, reply, listing>> /\ NodesInv
      /\ headers' = [i \in 1 .. Len(headers) |-> [headers[i] EXCEPT !.offset = @ + Location]]
  BY DEF initialise_initrd, IInv
<1>2. Len(files) \in Nat
  BY <1>1 DEF NodesInv
<1>3. ASSUME NEW i \in 1 .. Len(files)
      PROVE  [headers[i] EXCEPT !.offset = @ + Location] =
               [name |-> files[i].name, offset |-> Place(i), length |-> files[i].length]
  <2> DEFINE o == FirstFile + LengthsBefore(files, i)
  <2>1. o \in Int /\ Place(i) = o + Location
    <3>1. o \in 0 .. Word - 1
      BY <1>1, PlaceFacts
    <3>2. FirstFile \in Int /\ LengthsBefore(files, i) \in Int
      <4>1. i \in 1 .. Len(files) + 1 /\ files \in Seq(File)
        BY <1>1, <1>2 DEF NodesInv
      <4>2. LengthsBefore(files, i) \in 0 .. (i - 1) * MaxLength
        BY <4>1, LengthsBounds
      <4> QED
        BY <4>2 DEF FirstFile
    <3> QED
      BY <3>1, <3>2 DEF Place
  <2>2. headers[i] = [name |-> files[i].name, offset |-> o, length |-> files[i].length]
    BY <1>1, ImageIs
  <2> HIDE DEF o
  <2>3. [headers[i] EXCEPT !.offset = @ + Location] =
          [name |-> files[i].name, offset |-> o + Location, length |-> files[i].length]
    BY <2>2
  <2> QED
    BY Zenon, <2>1, <2>3
<1>4. headers' = [i \in 1 .. Len(files) |->
                    [name |-> files[i].name, offset |-> Place(i), length |-> files[i].length]]
  BY <1>1, <1>2, <1>3, ImageIs
<1>5. \A i : Place(i)' = Place(i)
  BY <1>1 DEF Place
<1>6. HeadersInv'
  BY <1>1, <1>4, <1>5, Zenon DEF HeadersInv
<1>7. DirentInv' /\ ReadsTheFile'
  BY <1>1 DEF ReadInv, DirentInv, ReadsTheFile, Directories, root, dev
<1> QED
  BY <1>6, <1>7 DEF ReadInv

(* What initrd_read copies, of a request that does not wrap around.         *)
LEMMA CopiedLength ==
  ASSUME NEW header, header.length \in Nat, NEW offset \in Nat, NEW size \in Nat,
         offset + size < Word
  PROVE  LET left == header.length - offset
             n == initrd_read(header, offset, size)
         IN  /\ n = IF left < 0 THEN 0 ELSE IF left < size THEN left ELSE size
             /\ n \in Nat /\ n # 0 => offset + n <= header.length
<1>1. (offset + size) % Word = offset + size
  BY Z3
<1> QED
  BY <1>1 DEF initrd_read

LEMMA ReadFileKeeps ==
  ASSUME IInv, ReadInv, NEW node \in Nodes, NEW offset \in Nat, NEW size \in Nat,
         read_fs(node, offset, size)
  PROVE  ReadInv'
<1>1. /\ ready /\ UNCHANGED <<files, headers, nodes, ready, dirent, listing>> /\ NodesInv
      /\ HeadersInv
  BY DEF read_fs, IInv, ReadInv
<1>2. HeadersInv' /\ DirentInv'
  <2>1. \A i : Place(i)' = Place(i)
    BY <1>1 DEF Place
  <2> QED
    BY <1>1, <2>1, Zenon DEF HeadersInv, DirentInv, ReadInv
<1>3. ReadsTheFile'
  <2> SUFFICES ASSUME node \notin Directories, offset + size < Word
               PROVE  ReadsTheFile'
    BY DEF read_fs, ReadsTheFile, Directories, root, dev
  <2> DEFINE header == headers[nodes[node].inode + 1]
             n == initrd_read(header, offset, size)
             buffer == [k \in 1 .. n |-> Byte((header.offset + offset + k - 1) % Word)]
  <2>1. /\ reply'.node = node /\ reply'.offset = offset /\ reply'.size = size
        /\ reply'.buffer = buffer
    BY Zenon DEF read_fs
  <2>2. node \in 1 .. Len(files) /\ header = headers[node] /\ Len(files) \in Nat
    <3>1. Len(files) \in Nat /\ nodes = NodesOfFiles
      BY <1>1 DEF NodesInv
    <3>2. Len(nodes) = Len(files) /\ \A i \in 1 .. Len(files) : nodes[i].inode = i - 1
      BY <3>1 DEF NodesOfFiles
    <3>3. node \in 1 .. Len(files)
      BY <3>2 DEF Nodes
    <3>4. nodes[node].inode + 1 = node
      BY <3>1, <3>2, <3>3
    <3> QED
      BY <3>1, <3>3, <3>4
  <2>3. header.offset = Place(node) /\ header.length = files[node].length
    BY <1>1, <2>2 DEF HeadersInv
  <2>4. files[node].length \in Nat /\ Place(node) \in Nat /\ Place(node) + files[node].length < Word
    BY <1>1, <2>2, PlaceFacts
  <2>5. /\ n = LET left == files[node].length - offset
               IN  IF left < 0 THEN 0 ELSE IF left < size THEN left ELSE size
        /\ n \in Nat /\ n # 0 => offset + n <= files[node].length
    <3> HIDE DEF header
    <3> QED
      BY <2>3, <2>4, CopiedLength
  <2> HIDE DEF header, n
  <2>6. ASSUME NEW k \in 1 .. n
        PROVE  Byte((header.offset + offset + k - 1) % Word) = <<node, offset + k>>
    <3> DEFINE a == Place(node) + offset + k - 1
    <3>1. /\ a \in Place(node) .. Place(node) + files[node].length - 1
          /\ a \in Nat /\ a < Word /\ a - Place(node) + 1 = offset + k
      BY <2>4, <2>5
    <3>2. a % Word = a
      <4> HIDE DEF a
      <4> QED
        BY <3>1
    <3>3. header.offset + offset + k - 1 = a
      BY <2>3
    <3> HIDE DEF a
    <3>4. Byte(a) = <<node, a - Place(node) + 1>>
      BY <1>1, <2>2, <3>1, ByteOfFile
    <3> QED
      BY <3>1, <3>2, <3>3, <3>4
  <2>7. buffer = [k \in 1 .. n |-> <<node, offset + k>>]
    BY <2>6
  <2>8. Len(buffer) = n
    BY <2>5, <2>7
  <2> HIDE DEF buffer
  <2>9. reply'.buffer = [k \in 1 .. Len(reply'.buffer) |-> <<node, offset + k>>]
        /\ Len(reply'.buffer) = n
    BY <2>1, <2>7, <2>8
  <2> QED
    BY <1>1, <2>1, <2>5, <2>9 DEF ReadsTheFile
<1> QED
  BY <1>2, <1>3 DEF ReadInv

LEMMA ReaddirDirent ==
  ASSUME IInv, ReadInv, NEW c \in Clients, readdir_fs(c)
  PROVE  ReadInv'
<1> DEFINE node == listing[c].node
           k == listing[c].next
           entry == IF node \in Directories THEN initrd_readdir(node, k) ELSE NoEntry
<1>1. /\ ready /\ UNCHANGED <<files, headers, nodes, ready>> /\ reply' = NoReply
      /\ NodesInv /\ HeadersInv /\ DirentInv
      /\ dirent' = IF entry = NoEntry THEN dirent ELSE entry
  BY Zenon DEF readdir_fs, IInv, ReadInv
<1>2. HeadersInv' /\ ReadsTheFile'
  <2>1. \A i : Place(i)' = Place(i)
    BY <1>1 DEF Place
  <2>2. HeadersInv'
    BY <1>1, <2>1, Zenon DEF HeadersInv
  <2>3. ReadsTheFile'
    BY <1>1 DEF ReadsTheFile, NoReply
  <2> QED
    BY <2>2, <2>3
<1>3. k \in 0 .. MaxFiles + 1
  BY DEF IInv, ListingInv, Listing
<1> HIDE DEF node, k
<1>4. ASSUME entry # NoEntry PROVE entry \in [name : EntryName, ino : 0 .. MaxFiles]
  <2>1. initrd_readdir(node, k) # NoEntry /\ entry = initrd_readdir(node, k)
    BY <1>4
  <2>2. initrd_readdir(node, k).name \in Name
    BY <1>1, <1>3, <2>1, ReaddirEntry
  <2>3. /\ Len(files) \in Nat /\ Len(files) <= MaxFiles /\ Len(nodes) = Len(files)
        /\ \A i \in 1 .. Len(files) : nodes[i].inode = i - 1
    BY <1>1 DEF NodesInv, NodesOfFiles
  <2>4. CASE node = root /\ k = 0
    <3>1. entry = [name |-> "dev", ino |-> 0]
      BY Zenon, <2>1, <2>4 DEF initrd_readdir
    <3>2. "dev" \in EntryName /\ 0 \in 0 .. MaxFiles
      BY DEF EntryName, Name
    <3> QED
      BY <3>1, <3>2
  <2>5. CASE ~(node = root /\ k = 0)
    <3>1. /\ entry = [name |-> nodes[k].name, ino |-> nodes[k].inode]
          /\ ~((k - 1) % Word >= Len(nodes))
      BY <2>1, <2>5 DEF initrd_readdir
    <3>2. k \in 1 .. Len(files)
      <4>1. k # 0
        <5>1. (0 - 1) % Word = Word - 1
          BY FewFiles
        <5> QED
          BY <2>3, <3>1, <5>1, FewFiles
      <4>2. (k - 1) % Word = k - 1
        BY <1>3, <4>1, FewFiles
      <4> QED
        BY <1>3, <2>3, <3>1, <4>1, <4>2
    <3>3. nodes[k].inode \in 0 .. MaxFiles
      BY <2>3, <3>2
    <3>4. nodes[k].name \in EntryName
      <4>1. initrd_readdir(node, k).name = nodes[k].name
        <5>1. initrd_readdir(node, k) = [name |-> nodes[k].name, ino |-> nodes[k].inode]
          BY Zenon, <2>1, <3>1
        <5> QED
          BY <5>1
      <4> QED
        BY Zenon, <2>2, <4>1 DEF EntryName
    <3> QED
      BY <3>1, <3>3, <3>4
  <2> QED
    BY <2>4, <2>5
<1>5. DirentInv'
  <2> HIDE DEF entry
  <2> QED
    BY <1>1, <1>4 DEF DirentInv
<1> QED
  BY <1>2, <1>5 DEF ReadInv

LEMMA NextReadInv == IInv /\ ReadInv /\ [Next]_vars => ReadInv'
<1> SUFFICES ASSUME IInv, ReadInv, [Next]_vars PROVE ReadInv'
  OBVIOUS
<1>1. ASSUME UNCHANGED <<files, headers, nodes, ready, dirent>>,
             reply' = reply \/ reply'.op = "find"
      PROVE  ReadInv'
  <2>1. \A i : Place(i)' = Place(i)
    BY <1>1 DEF Place
  <2>2. HeadersInv' /\ DirentInv'
    BY <1>1, <2>1, Zenon DEF HeadersInv, DirentInv, ReadInv
  <2>3. ReadsTheFile'
    BY <1>1 DEF ReadsTheFile, ReadInv
  <2> QED
    BY <2>2, <2>3 DEF ReadInv
<1>2. ASSUME NEW node \in Nodes, NEW offset \in 0 .. MaxLength + 1, NEW size \in 0 .. Word - 1,
             read_fs(node, offset, size)
      PROVE  ReadInv'
  BY <1>2, ReadFileKeeps
<1>3. ASSUME NEW node, NEW name, finddir_fs(node, name) PROVE ReadInv'
  <2>1. reply'.op = "find" /\ UNCHANGED <<files, headers, nodes, ready, dirent>>
    BY <1>3 DEF finddir_fs
  <2> QED
    BY <1>1, <2>1
<1>4. ASSUME NEW c \in Clients, Look(c) \/ \E node \in Nodes : List(c, node) PROVE ReadInv'
  <2>1. UNCHANGED <<files, headers, nodes, ready, dirent, reply>>
    BY <1>4 DEF Look, List
  <2> QED
    BY <1>1, <2>1
<1>5. CASE UNCHANGED vars
  BY <1>1, <1>5 DEF vars
<1> QED
  BY <1>2, <1>3, <1>4, <1>5, RelocateKeeps, ReaddirDirent DEF Next
-----------------------------------------------------------------------------
(* An unspoiled listing is a prefix of what there is to list, and all of it *)
(* when it has ended.                                                       *)
LEMMA FollowsIsPrefix == IInv => ListingComplete
<1> SUFFICES ASSUME IInv, NEW c \in Clients, ~listing[c].spoiled
             PROVE  LET names == Listed(listing[c].node)
                    IN  /\ IsPrefix(listing[c].names, names)
                        /\ listing[c].ended => listing[c].names = names
  BY DEF ListingComplete, Listed
<1> DEFINE l == listing[c]
           names == Listed(l.node)
<1>1. NodesInv /\ Follows(l, dirent) /\ l \in Listing
  BY DEF IInv, ListingInv
<1> HIDE DEF l
<1>2. l.names \in Seq(EntryName) /\ l.next \in Nat /\ l.holds \in BOOLEAN
  BY <1>1 DEF Listing
<1>3. names \in Seq(EntryName)
  <2>1. RootNames \in Seq(Name) /\ Name \subseteq EntryName
    BY <1>1, RootNamesFacts DEF EntryName
  <2>2. RootNames \in Seq(EntryName)
    BY <2>1
  <2> QED
    BY <2>2 DEF Listed
<1> HIDE DEF names
<1>4. /\ Len(l.names) \in Nat /\ Len(names) \in Nat /\ Len(l.names) <= Len(names)
      /\ \A i \in 1 .. Len(l.names) : l.names[i] = names[i]
      /\ l.ended => Len(l.names) = Len(names)
  BY <1>1, <1>2, <1>3 DEF Follows, Taken, names
<1>5. SubSeq(l.names, 1, Len(l.names)) = SubSeq(names, 1, Len(l.names))
  BY <1>2, <1>3, <1>4
<1>6. l.ended => l.names = names
  BY <1>2, <1>3, <1>4
<1> QED
  BY <1>4, <1>5, <1>6 DEF IsPrefix, l, names

(* For any image of the ramdisk, any number of callers and any order of     *)
(* their calls, a listing that was not spoiled gives every name once, in    *)
(* order, and ends behind the last.                                         *)
THEOREM ListingIsComplete == Spec => []ListingComplete
<1>1. Init => IInv
  BY InitIInv
<1>2. IInv /\ [Next]_vars => IInv'
  BY NextIInv
<1>3. IInv => ListingComplete
  BY FollowsIsPrefix
<1> QED
  BY <1>1, <1>2, <1>3, PTL DEF Spec

(* For any image, finddir finds in the root what readdir lists there, and   *)
(* of two entries of one name the one that is listed first.                 *)
THEOREM FindsTheListed == Spec => []FindsWhatItLists
<1>1. Init => IInv
  BY InitIInv
<1>2. IInv /\ [Next]_vars => IInv'
  BY NextIInv
<1>3. IInv => FindsWhatItLists
  BY DEF IInv
<1> QED
  BY <1>1, <1>2, <1>3, PTL DEF Spec

LEMMA InitReadInv == Init => ReadInv
<1> SUFFICES ASSUME Init PROVE ReadInv
  OBVIOUS
<1>1. HeadersInv
  BY DEF Init, HeadersInv
<1>2. DirentInv
  <2>1. dirent = [name |-> "", ino |-> 0]
    BY DEF Init
  <2>2. "" \in EntryName /\ 0 \in 0 .. MaxFiles
    BY DEF EntryName
  <2> QED
    BY <2>1, <2>2 DEF DirentInv
<1>3. ReadsTheFile
  <2>1. reply.op = "none"
    BY DEF Init, NoReply
  <2> QED
    BY <2>1 DEF ReadsTheFile
<1> QED
  BY <1>1, <1>2, <1>3 DEF ReadInv

(* For any image that fits into memory, any callers and any requests: what  *)
(* read_fs copies is the file, byte by byte, clipped to its end, unless the *)
(* end of the request wraps around.                                         *)
THEOREM ReadsFiles == Spec => []ReadsTheFile
<1>1. Init => IInv /\ ReadInv
  BY InitIInv, InitReadInv
<1>2. IInv /\ ReadInv /\ [Next]_vars => IInv' /\ ReadInv'
  BY NextIInv, NextReadInv
<1>3. ReadInv => ReadsTheFile
  BY DEF ReadInv
<1> QED
  BY <1>1, <1>2, <1>3, PTL DEF Spec

(* For any image that fits into memory, before and after the relocation:    *)
(* every offset fits into an uint32_t, no node and no entry has a number of *)
(* its own, and no listing asks further than one behind the last entry.     *)
THEOREM InitrdTypes == Spec => []TypeOK
<1>1. Init => IInv /\ ReadInv
  BY InitIInv, InitReadInv
<1>2. IInv /\ ReadInv /\ [Next]_vars => IInv' /\ ReadInv'
  BY NextIInv, NextReadInv
<1>3. IInv /\ ReadInv => TypeOK
  <2> SUFFICES ASSUME IInv, ReadInv PROVE TypeOK
    OBVIOUS
  <2>1. /\ NodesInv /\ HeadersInv /\ Len(files) \in Nat /\ Len(files) <= MaxFiles
        /\ ready \in BOOLEAN
    BY DEF IInv, ReadInv, NodesInv
  <2>2. \A i \in 1 .. Len(files) : files[i].name \in Names /\ files[i].length \in 0 .. MaxLength
    <3>1. \A i \in 1 .. Len(files) : files[i] \in File
      BY <2>1 DEF NodesInv
    <3> QED
      BY <3>1 DEF File
  <2> DEFINE Header == [name : Names, offset : 0 .. Word - 1, length : 0 .. MaxLength]
  <2>3. headers \in Seq(Header)
    <3>1. CASE ready
      <4>1. headers = [i \in 1 .. Len(files) |->
              [name |-> files[i].name, offset |-> Place(i), length |-> files[i].length]]
        BY <2>1, <3>1 DEF HeadersInv
      <4>2. \A i \in 1 .. Len(files) : Place(i) \in 0 .. Word - 1
        <5> TAKE i \in 1 .. Len(files)
        <5>1. Place(i) \in Nat /\ files[i].length \in Nat /\ Place(i) + files[i].length < Word
          BY <2>1, PlaceFacts
        <5> QED
          BY <5>1
      <4> QED
        BY <2>1, <2>2, <4>1, <4>2
    <3>2. CASE ~ready
      <4>1. \A i \in 1 .. Len(files) : FirstFile + LengthsBefore(files, i) \in 0 .. Word - 1
        BY <2>1, PlaceFacts
      <4>2. headers = Image(files)
        BY <2>1, <3>2 DEF NodesInv
      <4> QED
        BY <2>1, <2>2, <4>1, <4>2 DEF Image
    <3> QED
      BY <2>1, <3>1, <3>2
  <2>4. nodes \in Seq([name : Names, length : 0 .. MaxLength, inode : 0 .. MaxFiles])
    <3>1. CASE ready
      <4>1. \A i \in 1 .. Len(files) : i - 1 \in 0 .. MaxFiles
        BY <2>1
      <4>2. nodes = [i \in 1 .. Len(files) |->
                       [name |-> files[i].name, length |-> files[i].length, inode |-> i - 1]]
        BY <2>1, <3>1 DEF NodesInv, NodesOfFiles
      <4> QED
        BY <2>2, <4>1, <4>2
    <3>2. CASE ~ready
      BY <2>1, <3>2, EmptySeq DEF NodesInv
    <3> QED
      BY <2>1, <3>1, <3>2
  <2>5. dirent \in [name : Names \cup {"dev", ""}, ino : 0 .. MaxFiles]
    BY DEF ReadInv, DirentInv, EntryName, Name
  <2>6. \A c \in Clients : listing[c].next \in 0 .. MaxFiles + 1
    BY DEF IInv, ListingInv, Listing
  <2> QED
    BY <2>1, <2>3, <2>4, <2>5, <2>6 DEF TypeOK
<1> QED
  BY <1>1, <1>2, <1>3, PTL DEF Spec
=============================================================================
