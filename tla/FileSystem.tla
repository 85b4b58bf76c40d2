---------------------------- MODULE FileSystem ----------------------------
(***************************************************************************)
(* The file system of Project 3 (src/Project3/src): bitmap, index nodes    *)
(* and directories in filesys.dat, and the programs that change them       *)
(* (touch, tee, mkdir, ln, rm, fsck).  Each program is an operating-system *)
(* process of its own with its own copies of what it has read; programs    *)
(* run one after the other, and may be stopped between any two writes.     *)
(*                                                                         *)
(* A step of a call puts the disk writes it makes into pending; Flush      *)
(* makes them one by one, and only then does the call go on.  Directories  *)
(* are counted in entries, files in blocks.                                *)
(***************************************************************************)
EXTENDS Integers, Sequences, FiniteSets, FiniteSetsExt, SequencesExt

CONSTANTS
  NumInodes, NumBlocks,  \* getInodeCount; data blocks
  PerBlock,              \* directory entries in a block
  MaxDirectBlocks,       \* MAX_DIRECT_BLOCKS
  HopThresh,             \* bound: symbolic links followed in a row.  The code counts
                         \* anew after each link, and fails in a loop when it has no
                         \* file descriptor left.
  Names,                 \* file names, numbers in the order of strcmp
  Subdirs, Inner,        \* names that may occur before "/"; after it, and
                         \* as the second argument of mkdir
  Commands,              \* the kinds of programs that are run
  MaxContent             \* bound: blocks tee writes

ASSUME FileSystemAssumption ==
  /\ NumInodes \in Nat \ {0} /\ NumBlocks \in Nat \ {0}
  /\ PerBlock \in Nat \ {0, 1} /\ MaxDirectBlocks \in Nat \ {0}
  /\ HopThresh \in Nat /\ MaxContent \in Nat
  /\ Names \subseteq Nat \ {0} /\ Subdirs \subseteq Names /\ Inner \subseteq Names
  /\ IsFiniteSet(Names)

Inodes  == 0 .. NumInodes - 1
Blocks  == 0 .. NumBlocks - 1
Root    == 0        \* ROOT_INDEX_NODE_NUMBER
NoBlock == -1       \* NOT_A_BLOCK
NoInode == -1
Dot == -1           \* "." and ".." come before all names
DotDot == 0
Paths == {<<n>> : n \in Names} \cup {<<d, n>> : d \in Subdirs, n \in Inner}

VARIABLES
  bitmap,   \* the blocks whose bit is set in the free list
  inode,    \* index nodes on disk
  block,    \* data blocks on disk
  pending,  \* disk writes of the current step that are still to be made
  pc,       \* where the running program is
  call,     \* the program and its arguments
  mem,      \* what it keeps in memory
  harm,     \* the troubles the program has met
  before    \* the directory entries when the program started

vars == <<bitmap, inode, block, pending, pc, call, mem, harm, before>>
disk == <<bitmap, inode, block>>

NoAddresses == [k \in 0 .. MaxDirectBlocks - 1 |-> NoBlock]

\* An index node mkfs has not written: the file is filled with zeros.
Zeroed == [mode |-> "file", nlink |-> 0, size |-> 0,
           addr |-> [k \in 0 .. MaxDirectBlocks - 1 |-> 0]]

New(mode) == [mode |-> mode, nlink |-> 1, size |-> 0, addr |-> NoAddresses]

Entry(ino, name) == [ino |-> ino, name |-> name]
Blank   == Entry(0, -2)
NoLink  == <<>>

Data         == [entry |-> [k \in 0 .. PerBlock - 1 |-> Blank], to |-> NoLink]
LinkTo(path) == [Data EXCEPT !.to = path]

\* The program has not opened, allocated or read anything.
Fresh == [root |-> Zeroed, bitHint |-> 0, inoHint |-> 0, ino |-> NoInode, file |-> Zeroed,
          dirNo |-> Root, dir |-> Zeroed, pos |-> 0, carry |-> Blank, done |-> 0, ok |-> TRUE]

Idle == [kind |-> "none"]

\* mkfs
Init ==
  /\ bitmap = {0}
  /\ inode = [i \in Inodes |->
       IF i = Root THEN [mode |-> "dir", nlink |-> 3, size |-> 2,
                         addr |-> [NoAddresses EXCEPT ![0] = 0]]
       ELSE Zeroed]
  /\ block = [b \in Blocks |->
       IF b = 0 THEN [Data EXCEPT !.entry[0] = Entry(Root, Dot), !.entry[1] = Entry(Root, DotDot)]
       ELSE Data]
  /\ pending = <<>> /\ pc = "idle" /\ call = Idle /\ mem = Fresh
  /\ harm = {} /\ before = {}

-----------------------------------------------------------------------------
(* The disk *)

SetBit(b)          == [to |-> "bitmap", at |-> b, set |-> TRUE]
ResetBit(b)        == [to |-> "bitmap", at |-> b, set |-> FALSE]
WriteInode(i, node) == [to |-> "inode", at |-> i, node |-> node]
WriteData(b, data) == [to |-> "block", at |-> b, data |-> data]

\* One write reaches the disk.
Flush ==
  /\ pending # <<>>
  /\ LET w == Head(pending) IN
     /\ bitmap' = CASE w.to # "bitmap" -> bitmap
                    [] w.to = "bitmap" /\ w.set -> bitmap \cup {w.at}
                    [] OTHER -> bitmap \ {w.at}
     /\ inode' = IF w.to = "inode" THEN [inode EXCEPT ![w.at] = w.node] ELSE inode
     /\ block' = IF w.to = "block" THEN [block EXCEPT ![w.at] = w.data] ELSE block
  /\ pending' = Tail(pending)
  /\ UNCHANGED <<pc, call, mem, harm, before>>

\* The process is killed, or the machine stops.
Crash ==
  /\ pc # "idle"
  /\ pc' = "idle" /\ call' = Idle /\ mem' = Fresh /\ pending' = <<>>
  /\ harm' = {} /\ before' = {}
  /\ UNCHANGED disk

\* Variant: the bit that is tested is that of the next block.
FreeDistancesNext == {k \in 0 .. NumBlocks - 1 : (mem.bitHint + k + 1) % NumBlocks \notin bitmap}

\* allocateBlock: next fit, from the hint and around.
FreeDistances == {k \in 0 .. NumBlocks - 1 : (mem.bitHint + k) % NumBlocks \notin bitmap}

allocateBlock == IF FreeDistances = {} THEN NoBlock
                 ELSE (mem.bitHint + Min(FreeDistances)) % NumBlocks

\* allocateIndexNode
UnusedDistances == {k \in Inodes : inode[(mem.inoHint + k) % NumInodes].nlink = 0}

allocateIndexNode == IF UnusedDistances = {} THEN NoInode
                     ELSE (mem.inoHint + Min(UnusedDistances)) % NumInodes

BlocksOf(node) ==
  IF node.mode = "dir" THEN (node.size + PerBlock - 1) \div PerBlock ELSE node.size

ClearedTo(node, n) == [node EXCEPT !.addr = [k \in DOMAIN @ |-> IF k < n THEN NoBlock ELSE @[k]]]

FreeBlocks(node) == [k \in 1 .. BlocksOf(node) |-> ResetBit(node.addr[k - 1])]

\* Variant: the last block stays allocated.
freeIndexNodeShort(i) ==
  LET node == inode[i] IN
  FreeBlocks([node EXCEPT !.size = IF @ = 0 THEN 0 ELSE @ - 1])
    \o <<WriteInode(i, [ClearedTo(node, BlocksOf(node)) EXCEPT !.nlink = 0, !.size = 0])>>

freeIndexNode(i) ==
  LET node == inode[i] IN
  FreeBlocks(node) \o
    <<WriteInode(i, [ClearedTo(node, BlocksOf(node)) EXCEPT !.nlink = 0, !.size = 0])>>

(***************************************************************************)
(* writeBlock and setSize for index node i, of which the program has the   *)
(* copy node: block k gets the data, the size becomes size if it grows.    *)
(***************************************************************************)
Placed(node, k) ==
  IF node.addr[k] # NoBlock THEN node ELSE [node EXCEPT !.addr[k] = allocateBlock]

\* Variant: it goes unnoticed that no block is free.
CanPlaceUnchecked(node, k) == k < MaxDirectBlocks

\* An index node has a limited number of blocks (EFBIG); else a block that is
\* not there yet must be free (ENOSPC).
CanPlace(node, k) ==
  k < MaxDirectBlocks /\ (node.addr[k] # NoBlock \/ allocateBlock # NoBlock)

Grown(node, k, size) == [Placed(node, k) EXCEPT !.size = Max({node.size, size})]

HintAfter(node, k) ==
  IF node.addr[k] # NoBlock THEN mem.bitHint ELSE (allocateBlock + 1) % NumBlocks

Put(i, node, k, data, size) ==
  LET placed == Placed(node, k) IN
  (IF node.addr[k] # NoBlock THEN <<>>
   ELSE <<SetBit(placed.addr[k]), WriteInode(i, placed)>>)
  \o <<WriteData(placed.addr[k], data)>>
  \o (IF size > node.size THEN <<WriteInode(i, Grown(node, k, size))>> ELSE <<>>)

-----------------------------------------------------------------------------
(* Directories and paths *)

\* readdir at position k of a directory, read through the copy node.
EntryAt(node, k) ==
  LET b == node.addr[k \div PerBlock] IN IF b = NoBlock THEN Blank ELSE block[b].entry[k % PerBlock]

Positions(node, name) == {k \in 0 .. node.size - 1 : EntryAt(node, k).name = name}

\* The copy of index node i from which open reads a directory: that of the
\* root was read when the program started.
CopyOf(i) == IF i = Root THEN mem.root ELSE inode[i]

NodeIn(node, name) ==
  LET found == Positions(node, name) IN
  IF found = {} THEN NoInode ELSE EntryAt(node, Min(found)).ino

EntryNode(dirNo, name) == NodeIn(CopyOf(dirNo), name)

(***************************************************************************)
(* findIndexNode and findNextIndexNode: the index node at the end of a     *)
(* path, symbolic links followed; NoInode if there is none.  An empty      *)
(* link leads to the root.                                                 *)
(***************************************************************************)
Target(i) ==
  IF inode[i].size = 0 \/ inode[i].addr[0] = NoBlock THEN NoLink ELSE block[inode[i].addr[0]].to

findIndexNode ==
  LET find[h \in 0 .. HopThresh] ==
        LET Follow(i) == IF i = NoInode \/ inode[i].mode # "link" THEN i
                         ELSE IF Target(i) = NoLink THEN Root
                         ELSE IF h = 0 THEN NoInode ELSE find[h - 1][Target(i)]
            IsDir(i)  == i # NoInode /\ CopyOf(i).mode = "dir"
        IN [p \in Paths |->
              IF Len(p) = 1 THEN Follow(EntryNode(Root, p[1]))
              ELSE LET d == Follow(EntryNode(Root, p[1])) IN
                   IF IsDir(d) THEN Follow(EntryNode(d, p[2])) ELSE NoInode]
  IN find[HopThresh]

\* The directory a path leads into: open(getDeepestDir(path)).
DirOf(p) == IF Len(p) = 1 THEN Root ELSE findIndexNode[<<p[1]>>]

IsDir(i) == i # NoInode /\ CopyOf(i).mode = "dir"

\* The last name of the path is a symbolic link that leads nowhere.
BrokenLink(p) ==
  /\ findIndexNode[p] = NoInode
  /\ EntryNode(DirOf(p), Last(p)) # NoInode

\* All directory entries: directory, name and index node.
Entries ==
  UNION {{<<d, EntryAt(inode[d], k).name, EntryAt(inode[d], k).ino>> : k \in 0 .. inode[d].size - 1} :
           d \in {i \in Inodes : inode[i].nlink # 0 /\ inode[i].mode = "dir"}}

\* writedir with the copy of the opened directory.
DirBlock(node, k, e) ==
  IF node.addr[k \div PerBlock] = NoBlock THEN [Data EXCEPT !.entry[k % PerBlock] = e]
  ELSE [block[node.addr[k \div PerBlock]] EXCEPT !.entry[k % PerBlock] = e]

\* The directory entry e is written at position k; the rest of the memory
\* is rest.  A failure of writedir is not noticed.
writedir(k, e, rest) ==
  LET bk == k \div PerBlock IN
  IF CanPlace(mem.dir, bk)
  THEN /\ pending' = Put(mem.dirNo, mem.dir, bk, DirBlock(mem.dir, k, e), k + 1)
       /\ mem' = [rest EXCEPT !.dir = Grown(mem.dir, bk, k + 1),
                              !.bitHint = HintAfter(mem.dir, bk)]
       /\ UNCHANGED harm
  ELSE /\ pending' = <<>>
       /\ mem' = rest
       /\ harm' = harm \cup {"full"}

-----------------------------------------------------------------------------
(* Programs, and the file system as they should find and leave it *)

Ready(at) == pc = at /\ pending = <<>>

\* The program ends; the status it reports.
Exit(ok) ==
  /\ pc' = "exit" /\ mem' = [mem EXCEPT !.ok = ok]

Live == {i \in Inodes : inode[i].nlink # 0}

AddressesOf(i) == {inode[i].addr[k] : k \in DOMAIN NoAddresses} \ {NoBlock}

\* The directories there are, and the entries in them that refer to i.
Directories ==
  {Root} \cup {d \in Inodes : /\ inode[d].mode = "dir"
                              /\ \E k \in 2 .. inode[Root].size - 1 : EntryAt(inode[Root], k).ino = d}

References(i) ==
  Cardinality({at \in Directories \X (0 .. PerBlock * MaxDirectBlocks - 1) :
                 /\ at[2] < inode[at[1]].size
                 /\ EntryAt(inode[at[1]], at[2]).ino = i})

\* Taken are the blocks in use, and each index node has as many links as
\* directory entries refer to it (the root one more).
Clean ==
  /\ bitmap = UNION {AddressesOf(i) : i \in Live}
  /\ \A i \in Inodes : inode[i].nlink = References(i) + (IF i = Root THEN 1 ELSE 0)

Sorted(i) == \A j, k \in 0 .. inode[i].size - 1 :
               j < k => EntryAt(inode[i], j).name < EntryAt(inode[i], k).name

\* No block has two owners, sizes and addresses agree, directories are sorted
\* and begin with "." and "..".
Sound ==
  /\ \A i, j \in Live : i # j => AddressesOf(i) \cap AddressesOf(j) = {}
  /\ \A i \in Live :
       /\ \A k \in DOMAIN NoAddresses : inode[i].addr[k] # NoBlock <=> k < BlocksOf(inode[i])
       /\ Cardinality(AddressesOf(i)) = BlocksOf(inode[i])
       /\ inode[i].mode = "dir" =>
            /\ Sorted(i) /\ inode[i].size >= 2
            /\ EntryAt(inode[i], 0) = Entry(i, Dot) /\ EntryAt(inode[i], 1) = Entry(Root, DotDot)

Consistent == Clean /\ Sound

\* A program is run by a user who keeps the file system in order: if something
\* is wrong, fsck is run before any other program.
Start(c, at) ==
  /\ pc = "idle"
  /\ c.kind \in Commands
  /\ Consistent
  /\ call' = c
  /\ pc' = at
  /\ mem' = [Fresh EXCEPT !.root = inode[Root]]
  /\ before' = Entries
  /\ harm' = {}
  /\ UNCHANGED <<disk, pending>>

\* touch (no content) and tee.
Create == \E p \in Paths, n \in 0 .. MaxContent :
  Start([kind |-> "create", path |-> p, blocks |-> n], "creat")

\* mkdir in the root, with one argument or two.
Mkdir == \E a \in Subdirs, more \in {<<>>} \cup {<<<<b>>>> : b \in Inner} :
  Start([kind |-> "mkdir", path |-> <<a>>, more |-> more], "creat")

Ln == \E p, q \in Paths :
  Start([kind |-> "link", path |-> q, old |-> p], "link")

\* Bound: symbolic links lead to names in the root.
LnS == \E n \in Names, q \in Paths :
  Start([kind |-> "symlink", path |-> q, old |-> <<n>>], "symlink")

Rm == \E p \in Paths : Start([kind |-> "unlink", path |-> p], "unlink")

Return ==
  /\ Ready("exit")
  /\ pc' = "idle" /\ call' = Idle /\ mem' = Fresh
  /\ harm' = {} /\ before' = {}
  /\ UNCHANGED <<disk, pending>>

-----------------------------------------------------------------------------
(* creat *)

\* The name is new: an index node is allocated and written.  If the path ends
\* in a broken link, the node still holds what was read from the link.
CreatNew ==
  /\ Ready("creat") /\ IsDir(DirOf(call.path)) /\ findIndexNode[call.path] = NoInode
  /\ LET i    == allocateIndexNode
         mode == IF call.kind = "mkdir" THEN "dir" ELSE "file"
         node == IF BrokenLink(call.path)
                 THEN [inode[EntryNode(DirOf(call.path), Last(call.path))]
                         EXCEPT !.mode = mode, !.nlink = 1]
                 ELSE New(mode)
     IN IF i = NoInode THEN Exit(FALSE) /\ UNCHANGED pending
        ELSE /\ pending' = <<WriteInode(i, node)>>
             /\ mem' = [mem EXCEPT !.ino = i, !.file = node, !.inoHint = (i + 1) % NumInodes]
             /\ pc' = "insert"
  /\ harm' = IF BrokenLink(call.path) THEN harm \cup {"broken"} ELSE harm
  /\ UNCHANGED <<disk, call, before>>

\* The directory does not exist, or the name is that of a directory.
CreatFails ==
  /\ Ready("creat")
  /\ ~ (IsDir(DirOf(call.path)) /\ ~ IsDir(findIndexNode[call.path]))
  /\ Exit(FALSE)
  /\ UNCHANGED <<disk, pending, call, harm, before>>

\* The file exists: its blocks are freed.  mkdir goes on with it.
CreatTruncates ==
  /\ Ready("creat") /\ IsDir(DirOf(call.path))
  /\ LET i    == findIndexNode[call.path]
         node == [ClearedTo(inode[i], BlocksOf(inode[i])) EXCEPT !.size = 0]
     IN /\ i # NoInode /\ ~ IsDir(i)
        /\ pending' = FreeBlocks(inode[i]) \o <<WriteInode(i, node)>>
        /\ mem' = [mem EXCEPT !.ino = i, !.file = node, !.done = 0]
  /\ pc' = IF call.kind = "mkdir" THEN "dot" ELSE "write"
  /\ harm' = IF call.kind = "mkdir" THEN harm \cup {"file"} ELSE harm
  /\ UNCHANGED <<disk, call, before>>

-----------------------------------------------------------------------------
(* The insertion of a directory entry, in creat, link and symlink *)

NewEntry == Entry(mem.ino, Last(call.path))

AfterInsert == CASE call.kind = "create" -> "write"
                 [] call.kind = "mkdir"  -> "dot"
                 [] call.kind = "link"   -> "linked"
                 [] OTHER                -> "exit"

\* The scan ends at the first entry with a greater name, or at the end.
PlaceIn(node) == Min({k \in 0 .. node.size - 1 : EntryAt(node, k).name > NewEntry.name}
                     \cup {node.size})

\* link and symlink meet the name on their way: a broken link.  symlink finds
\* only now that the directory is none.
NoPlace ==
  /\ call.kind \in {"link", "symlink"}
  /\ IsDir(DirOf(call.path)) => \E k \in 0 .. PlaceIn(CopyOf(DirOf(call.path))) - 1 :
       EntryAt(CopyOf(DirOf(call.path)), k).name = NewEntry.name

\* The directory is opened and the new entry takes its place.
Opened == [mem EXCEPT !.dirNo = DirOf(call.path), !.dir = CopyOf(DirOf(call.path))]

InsertFails ==
  /\ Ready("insert") /\ NoPlace
  /\ Exit(FALSE)
  /\ harm' = IF call.kind = "symlink" THEN harm \cup {"leak"} ELSE harm
  /\ UNCHANGED <<disk, pending, call, before>>

OpenDir ==
  /\ Ready("insert") /\ ~ NoPlace
  /\ mem' = [Opened EXCEPT !.pos = PlaceIn(CopyOf(DirOf(call.path))), !.carry = NewEntry]
  /\ pc' = "place"
  /\ harm' = IF DirOf(call.path) = Root /\ mem.root # inode[Root] THEN harm \cup {"stale"} ELSE harm
  /\ UNCHANGED <<disk, pending, call, before>>

\* Variant: the next entry is read after its place is taken.
PlaceReadsLate ==
  /\ Ready("place") /\ mem.pos < mem.dir.size
  /\ writedir(mem.pos, mem.carry, [mem EXCEPT !.pos = @ + 1])
  /\ UNCHANGED <<disk, pc, call, before>>

\* The entry in memory goes to the place of the next one, which is read first.
\* At the end of the directory it is appended.
Place ==
  /\ Ready("place") /\ mem.pos < mem.dir.size
  /\ writedir(mem.pos, mem.carry,
              [mem EXCEPT !.pos = @ + 1, !.carry = EntryAt(mem.dir, mem.pos)])
  /\ UNCHANGED <<disk, pc, call, before>>

\* Variant: the last entry is not written.
PlaceLastForgets ==
  /\ Ready("place") /\ mem.pos >= mem.dir.size
  /\ pc' = AfterInsert
  /\ UNCHANGED <<disk, pending, call, mem, harm, before>>

PlaceLast ==
  /\ Ready("place") /\ mem.pos >= mem.dir.size
  /\ writedir(mem.pos, mem.carry, mem)
  /\ pc' = AfterInsert
  /\ UNCHANGED <<disk, call, before>>

-----------------------------------------------------------------------------
(* write, close *)

WriteMore == Ready("write") /\ mem.done < call.blocks

WriteFails ==
  /\ WriteMore
  /\ ~ CanPlace(mem.file, mem.done)
  /\ Exit(FALSE)
  /\ UNCHANGED <<disk, pending, call, harm, before>>

Write ==
  /\ WriteMore /\ CanPlace(mem.file, mem.done)
  /\ pending' = Put(mem.ino, mem.file, mem.done, Data, mem.done + 1)
  /\ mem' = [mem EXCEPT !.file = Grown(mem.file, mem.done, mem.done + 1),
                        !.bitHint = HintAfter(mem.file, mem.done), !.done = @ + 1]
  /\ UNCHANGED <<disk, pc, call, harm, before>>

Close ==
  /\ Ready("write") /\ mem.done = call.blocks
  /\ Exit(TRUE)
  /\ UNCHANGED <<disk, pending, call, harm, before>>

-----------------------------------------------------------------------------
(* mkdir, after creat *)

\* The "." entry, written as the contents of the new file.
DotBlock(node, k, e) ==
  IF node.addr[0] = NoBlock THEN [Data EXCEPT !.entry[k] = e]
  ELSE [block[node.addr[0]] EXCEPT !.entry[k] = e]

\* Size of what mkdir has written after n entries.
SizeOf(n) == IF mem.file.mode = "dir" THEN n ELSE 1

MkdirFails ==
  /\ Ready("dot") /\ ~ CanPlace(mem.file, 0)
  /\ Exit(FALSE)
  /\ harm' = harm \cup {"full"}
  /\ UNCHANGED <<disk, pending, call, before>>

MkdirDot ==
  /\ Ready("dot") /\ CanPlace(mem.file, 0)
  /\ pending' = Put(mem.ino, mem.file, 0, DotBlock(mem.file, 0, Entry(mem.ino, Dot)), SizeOf(1))
  /\ mem' = [mem EXCEPT !.file = Grown(mem.file, 0, SizeOf(1)), !.bitHint = HintAfter(mem.file, 0)]
  /\ pc' = "inc"
  /\ UNCHANGED <<disk, call, harm, before>>

\* incIndexNodeNlink of the new directory
MkdirInc ==
  /\ Ready("inc")
  /\ mem' = [mem EXCEPT !.file.nlink = @ + 1]
  /\ pending' = <<WriteInode(mem.ino, mem'.file)>>
  /\ pc' = "dotdot"
  /\ UNCHANGED <<disk, call, harm, before>>

MkdirDotDot ==
  /\ Ready("dotdot")
  /\ pending' = Put(mem.ino, mem.file, 0,
                    DotBlock(mem.file, 1, Entry(DirOf(call.path), DotDot)), SizeOf(2))
  /\ mem' = [mem EXCEPT !.file = Grown(mem.file, 0, SizeOf(2))]
  /\ pc' = "parent"
  /\ UNCHANGED <<disk, call, harm, before>>

\* incIndexNodeNlink of the parent, which is read from the disk; then the
\* next argument.
MkdirParent ==
  /\ Ready("parent")
  /\ LET i == DirOf(call.path) IN
     pending' = <<WriteInode(i, [inode[i] EXCEPT !.nlink = @ + 1])>>
  /\ IF call.more = <<>> THEN Exit(TRUE) /\ UNCHANGED call
     ELSE /\ call' = [call EXCEPT !.path = Head(call.more), !.more = Tail(call.more)]
          /\ pc' = "creat"
          /\ UNCHANGED mem
  /\ UNCHANGED <<disk, harm, before>>

-----------------------------------------------------------------------------
(* link *)

Linkable ==
  /\ findIndexNode[call.old] # NoInode
  /\ ~ IsDir(findIndexNode[call.old])
  /\ findIndexNode[call.path] = NoInode
  /\ IsDir(DirOf(call.path))

LinkFails ==
  /\ Ready("link") /\ ~ Linkable
  /\ Exit(FALSE)
  /\ UNCHANGED <<disk, pending, call, harm, before>>

Link ==
  /\ Ready("link") /\ Linkable
  /\ mem' = [mem EXCEPT !.ino = findIndexNode[call.old], !.file = inode[findIndexNode[call.old]]]
  /\ pc' = "insert"
  /\ UNCHANGED <<disk, pending, call, harm, before>>

Linked ==
  /\ Ready("linked")
  /\ pending' = <<WriteInode(mem.ino, [mem.file EXCEPT !.nlink = @ + 1])>>
  /\ Exit(TRUE)
  /\ UNCHANGED <<disk, call, harm, before>>

-----------------------------------------------------------------------------
(* symlink *)

SymlinkFails ==
  /\ Ready("symlink")
  /\ findIndexNode[call.path] # NoInode \/ allocateIndexNode = NoInode
  /\ Exit(FALSE)
  /\ UNCHANGED <<disk, pending, call, harm, before>>

Symlink ==
  /\ Ready("symlink")
  /\ findIndexNode[call.path] = NoInode /\ allocateIndexNode # NoInode
  /\ pending' = <<WriteInode(allocateIndexNode, New("link"))>>
  /\ mem' = [mem EXCEPT !.ino = allocateIndexNode, !.file = New("link"),
                        !.inoHint = (allocateIndexNode + 1) % NumInodes]
  /\ pc' = "target"
  /\ UNCHANGED <<disk, call, harm, before>>

\* The path is written; that it may fail goes unnoticed.  Then the directory
\* is opened.
SymlinkTarget ==
  /\ Ready("target")
  /\ IF CanPlace(mem.file, 0)
     THEN /\ pending' = Put(mem.ino, mem.file, 0, LinkTo(call.old), 1)
          /\ mem' = [mem EXCEPT !.file = Grown(mem.file, 0, 1), !.bitHint = HintAfter(mem.file, 0)]
          /\ UNCHANGED harm
     ELSE /\ harm' = harm \cup {"full"}
          /\ UNCHANGED <<pending, mem>>
  /\ pc' = IF DirOf(call.path) = NoInode THEN "undo" ELSE "insert"
  /\ UNCHANGED <<disk, call, before>>

\* There is no such directory: the index node is freed again.
SymlinkUndo ==
  /\ Ready("undo")
  /\ pending' = freeIndexNode(mem.ino)
  /\ Exit(FALSE)
  /\ UNCHANGED <<disk, call, harm, before>>

-----------------------------------------------------------------------------
(* unlink *)

\* The position of the name in the opened directory; the link itself is meant.
UnlinkAt == Positions(CopyOf(DirOf(call.path)), Last(call.path))

Removable ==
  /\ IsDir(DirOf(call.path)) /\ UnlinkAt # {}
  /\ ~ IsDir(EntryNode(DirOf(call.path), Last(call.path)))

UnlinkFails ==
  /\ Ready("unlink") /\ ~ Removable
  /\ Exit(FALSE)
  /\ UNCHANGED <<disk, pending, call, harm, before>>

\* The link is taken from the index node, and the node freed with the last one.
Unlink ==
  /\ Ready("unlink") /\ Removable
  /\ LET i == EntryNode(DirOf(call.path), Last(call.path)) IN
     pending' = IF inode[i].nlink <= 1 THEN freeIndexNode(i)
                   ELSE <<WriteInode(i, [inode[i] EXCEPT !.nlink = @ - 1])>>
  /\ mem' = [Opened EXCEPT !.pos = Min(UnlinkAt)]
  /\ pc' = "pull"
  /\ UNCHANGED <<disk, call, harm, before>>

\* The entries behind the removed one move up.
Pull ==
  /\ Ready("pull") /\ mem.pos + 1 < mem.dir.size
  /\ writedir(mem.pos, EntryAt(mem.dir, mem.pos + 1), [mem EXCEPT !.pos = @ + 1])
  /\ UNCHANGED <<disk, pc, call, before>>

(***************************************************************************)
(* changeSize by one entry.  If the directory then has a block less,       *)
(* freeInodeBlocks frees the one before the last one, in the bitmap and in *)
(* the index node on disk; the copy of the node is written over it.        *)
(***************************************************************************)
Shrunk == [mem.dir EXCEPT !.size = @ - 1]

LosesBlock == BlocksOf(Shrunk) < BlocksOf(mem.dir)

freeInodeBlocks(i) ==
  LET k == (inode[i].size - 1) \div PerBlock - 1
  IN <<ResetBit(inode[i].addr[k]), WriteInode(i, [inode[i] EXCEPT !.addr[k] = NoBlock])>>

Cut ==
  /\ Ready("pull") /\ mem.pos + 1 >= mem.dir.size
  /\ pending' = (IF LosesBlock THEN freeInodeBlocks(mem.dirNo) ELSE <<>>)
                  \o <<WriteInode(mem.dirNo, Shrunk)>>
  /\ harm' = harm \cup (IF LosesBlock THEN {"shrink"} ELSE {})
  /\ Exit(TRUE)
  /\ UNCHANGED <<disk, call, before>>

-----------------------------------------------------------------------------
(***************************************************************************)
(* fsck: the number of links of each index node, then the bitmap, each     *)
(* repaired if there is something to repair and the user says so (or with  *)
(* -silent).  The counts start in memory that the process has not used     *)
(* before, which is zero.                                                  *)
(***************************************************************************)
Fsck ==
  /\ pc = "idle" /\ "fsck" \in Commands
  /\ call' = [kind |-> "fsck", refused |-> FALSE]
  /\ pc' = "fsck"
  /\ UNCHANGED <<disk, pending, mem, harm, before>>

\* checkDirContents: the entries that refer to i, in directories as
\* often as they are reached from the root.
LinksIn(node, i) == Cardinality({k \in 0 .. node.size - 1 : EntryAt(node, k).ino = i})

SubdirPositions ==
  {k \in 0 .. inode[Root].size - 1 :
     LET name == EntryAt(inode[Root], k).name IN
     name \notin {Dot, DotDot} /\ inode[NodeIn(inode[Root], name)].mode = "dir"}

SubdirAt(k) == inode[NodeIn(inode[Root], EntryAt(inode[Root], k).name)]

\* Variant: the root directory itself is not counted.
linkCountsRootless == [i \in Inodes |->
  LinksIn(inode[Root], i)
    + MapThenSumSet(LAMBDA k : LinksIn(SubdirAt(k), i), SubdirPositions)]

linkCounts == [i \in Inodes |->
  (IF i = Root THEN 1 ELSE 0) + LinksIn(inode[Root], i)
    + MapThenSumSet(LAMBDA k : LinksIn(SubdirAt(k), i), SubdirPositions)]

\* The user agrees to the repairs or not.
Answered(repairs) ==
  \/ pending' = repairs /\ UNCHANGED call
  \/ repairs # <<>> /\ pending' = <<>> /\ call' = [call EXCEPT !.refused = TRUE]

\* Variant: whatever reports more links than there are is freed.
RepairLinksFrees(i) ==
  IF linkCounts[i] < inode[i].nlink THEN freeIndexNode(i)
  ELSE IF linkCounts[i] = inode[i].nlink THEN <<>>
  ELSE <<WriteInode(i, [inode[i] EXCEPT !.nlink = linkCounts[i]])>>

RepairLinks(i) ==
  IF linkCounts[i] = inode[i].nlink THEN <<>>
  ELSE IF linkCounts[i] = 0 THEN freeIndexNode(i)
  ELSE <<WriteInode(i, [inode[i] EXCEPT !.nlink = linkCounts[i]])>>

\* Reached are the root and the directories in it.  A name that is empty leads
\* back into the directory it is found in, again and again: the process runs
\* out of file descriptors and exits.
BlankReached ==
  \E node \in {inode[Root]} \cup {SubdirAt(k) : k \in SubdirPositions} :
    Positions(node, Blank.name) # {}

FsckFails ==
  /\ Ready("fsck") /\ BlankReached
  /\ Exit(FALSE)
  /\ UNCHANGED <<disk, pending, call, harm, before>>

FsckLinks ==
  /\ Ready("fsck") /\ ~ BlankReached
  /\ Answered(FlattenSeq([i \in 1 .. NumInodes |-> RepairLinks(i - 1)]))
  /\ pc' = "fsckBlocks"
  /\ UNCHANGED <<disk, mem, harm, before>>

InUse == UNION {AddressesOf(i) : i \in Live}

\* Variant: blocks in use are not marked again.
RepairBitFreesOnly(b) ==
  IF b \in bitmap \ InUse THEN <<ResetBit(b)>> ELSE <<>>

RepairBit(b) ==
  IF b \in bitmap \ InUse THEN <<ResetBit(b)>>
  ELSE IF b \in InUse \ bitmap THEN <<SetBit(b)>> ELSE <<>>

FsckBlocks ==
  /\ Ready("fsckBlocks")
  /\ Answered(FlattenSeq([b \in 1 .. NumBlocks |-> RepairBit(b - 1)]))
  /\ Exit(TRUE)
  /\ UNCHANGED <<disk, harm, before>>

-----------------------------------------------------------------------------
Creat    == CreatNew \/ CreatFails \/ CreatTruncates
Insert   == InsertFails \/ OpenDir \/ Place \/ PlaceLast
WriteAll == Write \/ WriteFails \/ Close
MkdirRest == MkdirDot \/ MkdirFails \/ MkdirInc \/ MkdirDotDot \/ MkdirParent
LinkAll  == Link \/ LinkFails \/ Linked
SymlinkAll == Symlink \/ SymlinkFails \/ SymlinkTarget \/ SymlinkUndo
UnlinkAll == Unlink \/ UnlinkFails \/ Pull \/ Cut
FsckAll  == Fsck \/ FsckFails \/ FsckLinks \/ FsckBlocks

Next ==
  \/ Create \/ Mkdir \/ Ln \/ LnS \/ Rm
  \/ Creat \/ Insert \/ WriteAll \/ MkdirRest \/ LinkAll \/ SymlinkAll \/ UnlinkAll
  \/ FsckAll \/ Return \/ Flush \/ Crash

Spec == Init /\ [][Next]_vars

-----------------------------------------------------------------------------
(***************************************************************************)
(* Properties                                                              *)
(***************************************************************************)
IndexNodes == [mode : {"dir", "file", "link"}, nlink : Nat, size : Nat,
               addr : [0 .. MaxDirectBlocks - 1 -> Blocks \cup {NoBlock}]]

TypeOK ==
  /\ bitmap \subseteq Blocks
  /\ inode \in [Inodes -> IndexNodes]
  /\ \A b \in Blocks, k \in 0 .. PerBlock - 1 : block[b].entry[k].ino \in Inodes
  /\ mem.ino \in Inodes \cup {NoInode} /\ mem.file \in IndexNodes /\ mem.dir \in IndexNodes
  /\ mem.dir.size <= PerBlock * MaxDirectBlocks

Ended == pc = "exit" /\ pending = <<>>

\* A program that starts on a consistent file system leaves one, unless it is
\* stopped or meets one of the named troubles: "full" (a directory or a link
\* needs a block and there is none, or a directory cannot grow, EFBIG), "shrink" (a directory loses a block), "stale" (a
\* second entry in the root by one process), "broken" (a broken
\* symbolic link has the new name), "leak" (symlink fails at the directory),
\* "file" (mkdir on a file).
SoundUnlessHarmed == Ended /\ call.kind # "fsck" /\ harm = {} => Consistent

\* Whatever happened before, also to an fsck, one that may repair everything
\* leaves links and free list right: it "first makes sure that the inodes
\* referenced by directory entries have the correct number of Nlinks" and then
\* the blocks (src/Project3/README).  Not so if a name is twice in a directory,
\* as a stopped rm leaves it: a directory of that name is counted twice.
NamesOnce ==
  \A d \in Directories : \A j, k \in 0 .. inode[d].size - 1 :
    EntryAt(inode[d], j).name = EntryAt(inode[d], k).name => j = k

FsckRepairs ==
  Ended /\ call.kind = "fsck" /\ ~ call.refused /\ mem.ok /\ NamesOnce => Clean

\* fsck writes nothing if there is nothing to repair.
FsckKeepsClean ==
  [][call.kind = "fsck" /\ pending = <<>> /\ Clean /\ NamesOnce => pending' = <<>> /\ UNCHANGED disk]_vars

\* Of the files and directories that the entries from the root on lead to, fsck
\* loses none and changes none but for its number of links: also if it is stopped,
\* if only some of its repairs are wanted, and if stopped programs have left a
\* directory that it counts twice.
ReachedNodes == Live \cap UNION {{EntryAt(node, k).ino : k \in 0 .. node.size - 1} :
  node \in {inode[Root]} \cup {SubdirAt(k) : k \in SubdirPositions}}

FsckLosesNothing ==
  [][call.kind = "fsck" =>
       /\ ReachedNodes \subseteq ReachedNodes'
       /\ \A i \in ReachedNodes : inode[i] = [inode'[i] EXCEPT !.nlink = inode[i].nlink]]_vars

\* Wherever a program is stopped, at most one of the directory entries it found
\* is missing on disk, whatever trouble it meets but "shrink", and but "stale":
\* if the first insertion has given the root a new block, the second one, which does
\* not know of it, puts another in its place, and for a moment two entries are missing;
\* and into a root that cannot grow each of the two pushes an entry out.
LosesAtMostOne ==
  call.kind \notin {"none", "fsck"} /\ harm \cap {"shrink", "stale"} = {} =>
    Cardinality(before \ Entries) <= 1

\* What a program does to the directories, without trouble: rm removes one
\* name, and reports success if it did; ln adds one to a file that had a name;
\* the others remove no name, add it to an index node that had none, and a
\* symbolic link says what was asked for.
KeepsPromise ==
  Ended /\ call.kind # "fsck" /\ harm = {} =>
    LET gone == before \ Entries
        come == Entries \ before
        mine == {e \in gone \cup come : e[2] = Last(call.path)}
    IN CASE call.kind = "unlink" ->
              /\ come = {} /\ gone = mine
              /\ mem.ok <=> Cardinality(gone) = 1
         [] call.kind = "link" ->
              /\ gone = {} /\ come = mine
              /\ mem.ok => \A e \in come : \E f \in before : f[3] = e[3]
              /\ mem.ok <=> Cardinality(come) = 1
         [] OTHER ->
              /\ gone = {}
              /\ \A e \in come : e[2] \notin {Dot, DotDot} => \A f \in before : f[3] # e[3]
              /\ mem.ok => \E e \in Entries : e[2] = Last(call.path)
              /\ mem.ok /\ call.kind = "symlink" => \E e \in mine : Target(e[3]) = call.old

\* No two index nodes have a block in common, at any point of a program, wherever
\* it is stopped and whatever it has no room for; unless it takes over what it has
\* read from a broken link.
OneOwner ==
  call.kind \notin {"none", "fsck"} /\ "broken" \notin harm =>
    \A i, j \in Live : i # j => AddressesOf(i) \cap AddressesOf(j) = {}

\* Whenever a program has made the writes of a step, the blocks in use are marked,
\* so that no program takes them, were this one stopped there.
UsedAreMarked ==
  call.kind \notin {"none", "fsck"} /\ pending = <<>> /\ harm \cap {"broken", "file", "shrink"} = {} =>
    InUse \subseteq bitmap

\* Both: which blocks are whose is kept apart, and kept in the bitmap.
BlocksKept == OneOwner /\ UsedAreMarked

\* "Deallocate the unneeded blocks" (Kernel.cc), and no others: a block that
\* an index node uses is marked as taken.
UsedIsTaken == Ended /\ harm \subseteq {"shrink"} => InUse \subseteq bitmap
=============================================================================
