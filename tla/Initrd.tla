-------------------------------- MODULE Initrd --------------------------------
(***************************************************************************)
(* The initial ramdisk: the image that ramdisk.c builds, the nodes that     *)
(* initialise_initrd makes of it in memory, and what read_fs, readdir_fs    *)
(* and finddir_fs of vfs.c do with them.  Callers list a node as the        *)
(* interface asks for, with 0, 1, ... until the answer is NULL, and take    *)
(* the name out of the dirent in a step of its own.  write_fs, open_fs and  *)
(* close_fs do nothing: no node has such a function.                        *)
(*                                                                         *)
(* Memory is kept byte by byte where the files lie.  The k-th byte of the   *)
(* i-th file is <<i, k>>, so that no two bytes are mistaken for another.    *)
(***************************************************************************)
EXTENDS Integers, Sequences, SequencesExt

CONSTANTS
  Names,       \* names of files; "dev" may be one of them
  MaxFiles,    \* files in an image: at most Slots
  MaxLength,   \* bytes in a file
  Slots,       \* headers in an image: 64
  HeaderSize,  \* sizeof(initrd_file_header_t): 76
  CountSize,   \* sizeof(initrd_header_t): 4
  Location,    \* where the boot loader puts the image
  Word,        \* numbers of an uint32_t: 2^32
  Clients      \* callers that list directories

ASSUME SizesAssumption ==
  /\ MaxFiles \in Nat /\ MaxLength \in Nat /\ Slots \in Nat /\ Location \in Nat /\ Word \in Nat
  /\ HeaderSize \in Nat \ {0} /\ CountSize \in Nat \ {0}
ASSUME SlotsAssumption == MaxFiles <= Slots
ASSUME RoomAssumption ==
  Location + CountSize + Slots * HeaderSize + MaxFiles * MaxLength < Word

VARIABLES
  files,      \* the arguments of ramdisk.c: names and lengths
  headers,    \* the file headers in memory
  nodes,      \* root_nodes
  ready,      \* initialise_initrd has run
  dirent,     \* the static struct dirent that readdir returns
  reply,      \* the last call of read_fs or finddir_fs and its answer
  listing     \* of a client: the node it lists, the index it asks for next,
              \* the names it took, whether it has a dirent to look at, whether
              \* it met NULL, and whether a call came before it had looked

vars == <<files, headers, nodes, ready, dirent, reply, listing>>

root == -1      \* initrd_root
dev == -2       \* initrd_dev
Null == -3
NoEntry == [name |-> "", ino |-> -1]
Garbage == <<>> \* a byte outside the files
-----------------------------------------------------------------------------
(* ramdisk.c: the headers, and behind them the files in their order.        *)
AddLength(sum, f) == sum + f.length
LengthsBefore(fs, i) == FoldLeft(AddLength, 0, SubSeq(fs, 1, i - 1))
FirstFile == Slots * HeaderSize + CountSize
Image(fs) ==
  [i \in 1 .. Len(fs) |->
     [name |-> fs[i].name, offset |-> FirstFile + LengthsBefore(fs, i), length |-> fs[i].length]]

(* The byte at an address, the image at Location.                           *)
Byte(a) ==
  LET at(i) == Location + CountSize + Slots * HeaderSize + LengthsBefore(files, i)
      here == {i \in 1 .. Len(files) : a \in at(i) .. at(i) + files[i].length - 1}
  IN  IF here = {} THEN Garbage
      ELSE LET i == CHOOSE i \in here : TRUE IN <<i, a - at(i) + 1>>

NoReply == [op |-> "none"]
NoListing ==
  [node |-> root, next |-> 0, names |-> <<>>, holds |-> FALSE, ended |-> FALSE, spoiled |-> FALSE]

Init ==
  /\ files \in UNION {[1 .. n -> [name : Names, length : 0 .. MaxLength]] : n \in 0 .. MaxFiles}
  /\ headers = Image(files)
  /\ nodes = <<>>
  /\ ready = FALSE
  /\ dirent = [name |-> "", ino |-> 0]
  /\ reply = NoReply
  /\ listing = [c \in Clients |-> NoListing]

(* The bug of headers that are relocated more than once.                    *)
InitialiseTwice ==
  /\ ready' = TRUE
  /\ headers' = [i \in 1 .. Len(headers) |-> [headers[i] EXCEPT !.offset = @ + Location]]
  /\ nodes' = [i \in 1 .. Len(headers) |->
                 [name |-> headers[i].name, length |-> headers[i].length, inode |-> i - 1]]
  /\ UNCHANGED <<files, dirent, reply, listing>>

(* Offsets become addresses.                                                *)
initialise_initrd ==
  /\ ~ready /\ ready' = TRUE
  /\ headers' = [i \in 1 .. Len(headers) |-> [headers[i] EXCEPT !.offset = @ + Location]]
  /\ nodes' = [i \in 1 .. Len(headers) |->
                 [name |-> headers[i].name, length |-> headers[i].length, inode |-> i - 1]]
  /\ UNCHANGED <<files, dirent, reply, listing>>
-----------------------------------------------------------------------------
Directories == {root, dev}
Nodes == Directories \cup 1 .. Len(nodes)

(* The bug of a clip that forgets the offset.                               *)
ReadClipsSizeOnly(header, offset, size) ==
  IF offset > header.length THEN 0
  ELSE IF size > header.length THEN header.length - offset
  ELSE size

(* What initrd_read returns: the size, clipped to the file, of what it      *)
(* copies.  The end is an uint32_t.                                         *)
initrd_read(header, offset, size) ==
  IF offset > header.length THEN 0
  ELSE IF (offset + size) % Word > header.length THEN header.length - offset
  ELSE size

(* Directories have no read.                                                *)
read_fs(node, offset, size) ==
  /\ ready
  /\ LET n == IF node \in Directories THEN 0
              ELSE initrd_read(headers[nodes[node].inode + 1], offset, size)
     IN  reply' = [op |-> "read", node |-> node, offset |-> offset, size |-> size, ret |-> n,
                   buffer |-> [k \in 1 .. n |->
                     Byte((headers[nodes[node].inode + 1].offset + offset + k - 1) % Word)]]
  /\ UNCHANGED <<files, headers, nodes, ready, dirent, listing>>

(* The bug of a search that forgets the directory /dev.                     *)
FinddirFilesOnly(node, name) ==
  LET named == {i \in 1 .. Len(nodes) : nodes[i].name = name}
  IN  IF named = {} THEN Null ELSE CHOOSE i \in named : \A j \in named : i <= j

(* The first file of that name; finddir does not ask which directory it is, *)
(* except for "dev".  Files have no finddir.                                *)
initrd_finddir(node, name) ==
  LET named == {i \in 1 .. Len(nodes) : nodes[i].name = name}
  IN  IF node = root /\ name = "dev" THEN dev
      ELSE IF named = {} THEN Null
      ELSE CHOOSE i \in named : \A j \in named : i <= j

finddir_fs(node, name) ==
  /\ ready
  /\ reply' = [op |-> "find", node |-> node, name |-> name,
               ret |-> IF node \in Directories THEN initrd_finddir(node, name) ELSE Null]
  /\ UNCHANGED <<files, headers, nodes, ready, dirent, listing>>

(* The bug of a listing that forgets that "dev" took an index.              *)
ReaddirOneLess(node, index) ==
  IF node = root /\ index = 0 THEN [name |-> "dev", ino |-> 0]
  ELSE IF index >= Len(nodes) \/ index = 0 THEN NoEntry
  ELSE [name |-> nodes[index].name, ino |-> nodes[index].inode]

(* The entry that initrd_readdir writes into the one dirent it has, if any. *)
(* The index before 0 is a large unsigned number.                           *)
initrd_readdir(node, index) ==
  IF node = root /\ index = 0 THEN [name |-> "dev", ino |-> 0]
  ELSE IF (index - 1) % Word >= Len(nodes) THEN NoEntry
  ELSE [name |-> nodes[index].name, ino |-> nodes[index].inode]

(* Client c asks for its next entry.  Files have no readdir.                *)
readdir_fs(c) ==
  LET node  == listing[c].node
      entry == IF node \in Directories THEN initrd_readdir(node, listing[c].next) ELSE NoEntry
  IN  /\ ready /\ ~listing[c].holds /\ ~listing[c].ended
      /\ IF entry = NoEntry
         THEN listing' = [listing EXCEPT ![c].ended = TRUE] /\ UNCHANGED dirent
         ELSE /\ dirent' = entry
              /\ listing' = [d \in Clients |->
                   IF d = c THEN [listing[c] EXCEPT !.holds = TRUE, !.next = @ + 1]
                   ELSE [listing[d] EXCEPT !.spoiled = @ \/ listing[d].holds]]
      /\ reply' = NoReply
      /\ UNCHANGED <<files, headers, nodes, ready>>

(* The client looks at the dirent it got.                                   *)
Look(c) ==
  /\ listing[c].holds
  /\ listing' = [listing EXCEPT ![c].names = Append(@, dirent.name), ![c].holds = FALSE]
  /\ UNCHANGED <<files, headers, nodes, ready, dirent, reply>>

(* The client begins another listing.                                       *)
List(c, node) ==
  /\ listing[c].ended
  /\ listing' = [listing EXCEPT ![c] = [NoListing EXCEPT !.node = node]]
  /\ UNCHANGED <<files, headers, nodes, ready, dirent, reply>>

(* Bounds: read_fs and finddir_fs, which share no state with a listing, are *)
(* called between listings, and a read begins no further than one byte      *)
(* behind the end of the longest file.                                      *)
Between == \A c \in Clients : listing[c] = NoListing

Next ==
  \/ initialise_initrd
  \/ Between /\ \E node \in Nodes, offset \in 0 .. MaxLength + 1, size \in 0 .. Word - 1 :
                  read_fs(node, offset, size)
  \/ Between /\ \E node \in Nodes, name \in Names \cup {"dev"} : finddir_fs(node, name)
  \/ \E c \in Clients : readdir_fs(c) \/ Look(c) \/ \E node \in Nodes : List(c, node)

Spec == Init /\ [][Next]_vars
-----------------------------------------------------------------------------
TypeOK ==
  /\ headers \in Seq([name : Names, offset : 0 .. Word - 1, length : 0 .. MaxLength])
  /\ ready \in BOOLEAN
  /\ nodes \in Seq([name : Names, length : 0 .. MaxLength, inode : 0 .. MaxFiles])
  /\ dirent \in [name : Names \cup {"dev", ""}, ino : 0 .. MaxFiles]
  /\ \A c \in Clients : listing[c].next \in 0 .. MaxFiles + 1

(* read_fs gives the bytes of the file from offset on, as many as there are *)
(* and as were asked for, whatever files lie around it; but if the end of   *)
(* the request does not fit into 32 bits, it may give bytes behind the file.*)
ReadsTheFile ==
  reply.op = "read" /\ reply.node \notin Directories /\ reply.offset + reply.size < Word =>
    reply.buffer = [k \in 1 .. Len(reply.buffer) |-> <<reply.node, reply.offset + k>>]
      /\ LET left == files[reply.node].length - reply.offset
         IN  Len(reply.buffer) = IF left < 0 THEN 0 ELSE IF left < reply.size THEN left
                                 ELSE reply.size

RootNames == <<"dev">> \o [i \in 1 .. Len(files) |-> files[i].name]

(* A listing of the root gives "dev" and every file once, in their order,   *)
(* and ends behind them, and one of /dev or of a file ends at once, unless  *)
(* readdir was called for another listing before a name was looked at.      *)
ListingComplete ==
  \A c \in Clients : ~listing[c].spoiled =>
    LET names == IF listing[c].node = root THEN RootNames ELSE <<>>
    IN  /\ IsPrefix(listing[c].names, names)
        /\ listing[c].ended => listing[c].names = names

(* What the root directory lists is found in it, by its name, as the first  *)
(* entry of that name, and nothing else is.                                 *)
FindsWhatItLists ==
  reply.op = "find" /\ reply.node = root =>
    LET listed == {i \in 1 .. Len(RootNames) : RootNames[i] = reply.name}
    IN  IF listed = {} THEN reply.ret = Null
        ELSE \E i \in listed : /\ \A j \in listed : i <= j
                               /\ reply.ret = IF i = 1 THEN dev ELSE i - 1
=============================================================================
