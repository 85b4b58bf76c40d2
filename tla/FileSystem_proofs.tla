------------------------- MODULE FileSystem_proofs -------------------------
(***************************************************************************)
(* Theorems about FileSystem, for any number of index nodes, blocks and    *)
(* names, and the inductive invariant they rest on.                        *)
(***************************************************************************)
EXTENDS FileSystem, NumberFacts

Space == PerBlock * MaxDirectBlocks   \* entries a directory can have

Links == {NoLink} \cup {<<n>> : n \in Names}

DirEntries == [ino : Inodes, name : Names \cup {Dot, DotDot, -2}]

DataBlocks == [entry : [0 .. PerBlock - 1 -> DirEntries], to : Links]

-----------------------------------------------------------------------------
(***************************************************************************)
(* The inductive invariant.                                                *)
(***************************************************************************)
\* An index node with addresses for all its blocks.
NodeOK(node) ==
  /\ node \in IndexNodes
  /\ node.size <= IF node.mode = "dir" THEN Space ELSE MaxDirectBlocks

\* The root stays a directory, and is never free.
NodeAt(i, node) == NodeOK(node) /\ (i = Root => node.mode = "dir" /\ node.nlink > 0)

WriteOK(w) ==
  \/ w.to = "bitmap" /\ w.set \in BOOLEAN /\ (w.set => w.at \in Blocks)
  \/ w.to = "inode" /\ w.at \in Inodes /\ NodeAt(w.at, w.node)
  \/ w.to = "block" /\ w.at \in Blocks /\ w.data \in DataBlocks

Writes(s) == \E T : s \in Seq(T) /\ \A w \in T : WriteOK(w)

DiskOK ==
  /\ bitmap \subseteq Blocks
  /\ inode \in [Inodes -> IndexNodes] /\ \A i \in Inodes : NodeAt(i, inode[i])
  /\ block \in [Blocks -> DataBlocks]

CreateCalls  == [kind : {"create"}, path : Paths, blocks : 0 .. MaxContent]
MkdirCalls   == [kind : {"mkdir"}, path : {<<n>> : n \in Names},
                 more : {<<>>} \cup {<<<<b>>>> : b \in Inner}]
LinkCalls    == [kind : {"link"}, path : Paths, old : Paths]
SymlinkCalls == [kind : {"symlink"}, path : Paths, old : {<<n>> : n \in Names}]
UnlinkCalls  == [kind : {"unlink"}, path : Paths]
FsckCalls    == [kind : {"fsck"}, refused : BOOLEAN]

InsertPcs == {"insert", "place", "exit"}

\* Each program with the places it can be at.
CallOK ==
  \/ call = Idle /\ pc = "idle" /\ pending = <<>>
  \/ call \in CreateCalls  /\ pc \in InsertPcs \cup {"creat", "write"}
  \/ call \in MkdirCalls   /\ pc \in InsertPcs \cup {"creat", "dot", "inc", "dotdot", "parent"}
  \/ call \in LinkCalls    /\ pc \in InsertPcs \cup {"link", "linked"}
  \/ call \in SymlinkCalls /\ pc \in InsertPcs \cup {"symlink", "target", "undo"}
  \/ call \in UnlinkCalls  /\ pc \in {"unlink", "pull", "exit"}
  \/ call \in FsckCalls    /\ pc \in {"fsck", "fsckBlocks", "exit"}

Mems == [root : IndexNodes, bitHint : Blocks, inoHint : Inodes,
         ino : Inodes \cup {NoInode}, file : IndexNodes, dirNo : Inodes, dir : IndexNodes,
         pos : Nat, carry : DirEntries, done : Nat, ok : BOOLEAN]

\* The copy of the root.
RootOK == mem.root.nlink > 0 /\ mem.root.mode = "dir"

\* The index node in memory, where it will be written back.
FileOK ==
  /\ pc \in {"insert", "place", "write", "dot", "inc", "dotdot", "target", "undo", "linked"} =>
       mem.ino \in Inodes \ {Root}
  /\ pc \in {"insert", "place", "write", "dot", "target"} /\ call.kind # "link" =>
       mem.file.size <= MaxDirectBlocks
  /\ pc = "target" => mem.file = New("link")
  /\ pc \in {"inc", "dotdot"} => mem.file.addr[0] # NoBlock

\* The copy of the opened directory.
DirOK ==
  /\ pc \in {"place", "pull"} => mem.dir.nlink > 0 /\ mem.dir.mode = "dir"
  /\ pc = "place" => mem.pos <= mem.dir.size
  /\ pc = "pull" => mem.pos < mem.dir.size

MemOK ==
  /\ mem \in Mems
  /\ NodeOK(mem.root) /\ NodeOK(mem.file) /\ NodeOK(mem.dir)
  /\ call.kind \notin {"none", "fsck"} => RootOK
  /\ FileOK /\ DirOK

\* Until its directory is opened a program's way there leads over index nodes
\* that have links.
RootBlocks == {mem.root.addr[k] : k \in DOMAIN NoAddresses} \ {NoBlock}

Opening == {"creat", "insert", "link", "symlink", "target", "unlink"}

GentleWrite(w) ==
  /\ w.to = "bitmap" => w.set
  /\ w.to = "inode" => w.node.nlink > 0
  /\ w.to = "block" => w.at \notin RootBlocks

WayOK ==
  /\ \A k \in 0 .. mem.root.size - 1 : inode[EntryAt(mem.root, k).ino].nlink > 0
  /\ RootBlocks \subseteq bitmap
  /\ \A k \in DOMAIN pending : GentleWrite(pending[k])

PathOK == pc \in Opening /\ call.kind # "mkdir" => WayOK

\* creat has seen that the directory exists, and writes an index node that was
\* free.
DirExists ==
  pc = "insert" /\ call.kind = "create" =>
    /\ IsDir(DirOf(call.path))
    /\ \/ pending = <<>>
       \/ \E w : pending = <<w>> /\ w.to = "inode" /\ w.at \in Inodes /\ inode[w.at].nlink = 0

FsInv == Writes(pending) /\ DiskOK /\ CallOK /\ MemOK /\ PathOK /\ DirExists

-----------------------------------------------------------------------------
(***************************************************************************)
(* Sizes and positions.                                                    *)
(***************************************************************************)
LEMMA Sizes ==
  /\ PerBlock \in Nat /\ PerBlock >= 2 /\ MaxDirectBlocks \in Nat /\ MaxDirectBlocks >= 1
  /\ Space \in Nat /\ MaxDirectBlocks < Space /\ Space >= 2
  /\ Names \subseteq Nat \ {0} /\ NumInodes \in Nat \ {0} /\ NumBlocks \in Nat \ {0}
<1>1. /\ PerBlock \in Nat /\ PerBlock >= 2 /\ MaxDirectBlocks \in Nat /\ MaxDirectBlocks >= 1
      /\ NumInodes \in Nat \ {0} /\ NumBlocks \in Nat \ {0}
  BY FileSystemAssumption
<1>2. PerBlock * MaxDirectBlocks \in Nat /\ 2 * MaxDirectBlocks <= PerBlock * MaxDirectBlocks
  BY <1>1
<1> QED
  BY <1>1, <1>2, FileSystemAssumption DEF Space

LEMMA BlockIndex ==
  ASSUME NEW k \in 0 .. Space - 1
  PROVE  k \div PerBlock \in 0 .. MaxDirectBlocks - 1 /\ k % PerBlock \in 0 .. PerBlock - 1
<1> DEFINE q == k \div PerBlock
           r == k % PerBlock
<1>1. PerBlock \in Nat \ {0} /\ MaxDirectBlocks \in Nat /\ k \in Nat
  BY Sizes
<1>2. q \in Nat /\ r \in 0 .. PerBlock - 1 /\ k = PerBlock * q + r
  BY <1>1
<1> HIDE DEF q, r
<1>3. ASSUME q >= MaxDirectBlocks PROVE FALSE
  <2>1. PerBlock * q >= PerBlock * MaxDirectBlocks
    BY <1>1, <1>2, <1>3
  <2>2. PerBlock * MaxDirectBlocks \in Nat /\ PerBlock * q \in Nat
    BY <1>1, <1>2
  <2> QED
    BY <1>1, <1>2, <2>1, <2>2 DEF Space
<1>4. q \in 0 .. MaxDirectBlocks - 1
  BY <1>1, <1>2, <1>3
<1> QED
  BY <1>2, <1>4 DEF q, r

\* An entry that is written lies in a block that an index node has an address for:
\* at a directory of full size writedir fails.
LEMMA Fitting ==
  ASSUME NEW k \in 0 .. Space, NEW node, CanPlace(node, k \div PerBlock)
  PROVE  k \in 0 .. Space - 1
<1>1. k \div PerBlock < MaxDirectBlocks
  BY DEF CanPlace
<1>2. PerBlock \in Nat \ {0} /\ MaxDirectBlocks \in Nat
  BY Sizes
<1>3. (PerBlock * MaxDirectBlocks) \div PerBlock = MaxDirectBlocks
  BY <1>2
<1>4. k # Space
  BY <1>1, <1>2, <1>3 DEF Space
<1> QED
  BY <1>4, Sizes

LEMMA ElementOfSeq ==
  ASSUME NEW T, NEW s \in Seq(T), NEW j \in 1 .. Len(s)
  PROVE  s[j] \in T
OBVIOUS

-----------------------------------------------------------------------------
(***************************************************************************)
(* Data.                                                                   *)
(***************************************************************************)
LEMMA NodeParts ==
  ASSUME NEW node, NodeOK(node)
  PROVE  /\ node \in IndexNodes /\ node.mode \in {"dir", "file", "link"}
         /\ node.nlink \in Nat /\ node.size \in Nat /\ node.size <= Space
         /\ node.addr \in [0 .. MaxDirectBlocks - 1 -> Blocks \cup {NoBlock}]
         /\ node.mode # "dir" => node.size <= MaxDirectBlocks
BY Sizes DEF NodeOK, IndexNodes

LEMMA SmallNodeOK ==
  ASSUME NEW node \in IndexNodes, node.size <= MaxDirectBlocks
  PROVE  NodeOK(node)
<1>1. node.size \in Nat /\ node.nlink \in Nat
  BY DEF IndexNodes
<1> QED
  BY <1>1, Sizes DEF NodeOK

LEMMA BlankType == Blank \in DirEntries /\ Data \in DataBlocks
<1>1. 0 \in Inodes
  BY Sizes DEF Inodes
<1> QED
  BY <1>1 DEF Blank, Entry, DirEntries, Data, DataBlocks, Links, NoLink

LEMMA EntryType ==
  ASSUME NEW i \in Inodes, NEW n \in Names \cup {Dot, DotDot}
  PROVE  Entry(i, n) \in DirEntries
BY DEF Entry, DirEntries

LEMMA FreshTypes ==
  /\ Zeroed \in IndexNodes /\ NodeOK(Zeroed)
  /\ NoAddresses \in [0 .. MaxDirectBlocks - 1 -> Blocks \cup {NoBlock}]
  /\ \A mode \in {"dir", "file", "link"} :
       New(mode) \in IndexNodes /\ New(mode).size = 0 /\ New(mode).mode = mode
       /\ New(mode).nlink = 1
<1>1. 0 \in Blocks
  BY Sizes DEF Blocks
<1>2. NoAddresses \in [0 .. MaxDirectBlocks - 1 -> Blocks \cup {NoBlock}]
  BY DEF NoAddresses
<1>3. Zeroed \in IndexNodes /\ Zeroed.size = 0
  BY <1>1 DEF Zeroed, IndexNodes
<1>4. NodeOK(Zeroed)
  <2>1. Zeroed.size <= MaxDirectBlocks
    BY <1>3, Sizes
  <2> QED
    BY <1>3, <2>1, SmallNodeOK
<1> QED
  BY <1>2, <1>3, <1>4 DEF New, IndexNodes

\* What readdir returns, also behind the end of a directory.
LEMMA EntryAtType ==
  ASSUME DiskOK, NEW node \in IndexNodes, NEW k \in 0 .. Space - 1
  PROVE  EntryAt(node, k) \in DirEntries
<1>1. k \div PerBlock \in 0 .. MaxDirectBlocks - 1 /\ k % PerBlock \in 0 .. PerBlock - 1
  BY BlockIndex
<1> DEFINE b == node.addr[k \div PerBlock]
<1>2. b \in Blocks \cup {NoBlock}
  BY <1>1 DEF IndexNodes
<1>3. CASE b = NoBlock
  BY <1>3, BlankType DEF EntryAt
<1>4. CASE b \in Blocks
  <2>1. block[b] \in DataBlocks
    BY <1>4 DEF DiskOK
  <2>2. block[b].entry[k % PerBlock] \in DirEntries
    BY <1>1, <2>1 DEF DataBlocks
  <2>3. b # NoBlock
    BY <1>4, Sizes DEF Blocks, NoBlock
  <2> QED
    BY <2>2, <2>3 DEF EntryAt
<1> QED
  BY <1>2, <1>3, <1>4
-----------------------------------------------------------------------------
(***************************************************************************)
(* Directories and paths.                                                  *)
(***************************************************************************)
LEMMA NoInodeOut == NoInode \notin Inodes /\ Root \in Inodes /\ NoBlock \notin Blocks
BY Sizes DEF NoInode, Inodes, Root, NoBlock, Blocks

LEMMA PathParts ==
  ASSUME NEW p \in Paths
  PROVE  /\ Len(p) \in {1, 2} /\ Last(p) \in Names
         /\ p[1] \in Names /\ <<p[1]>> \in Paths
         /\ Len(p) = 1 => p = <<Last(p)>> /\ Last(p) = p[1]
         /\ Len(p) = 2 => p = <<p[1], p[2]>> /\ p[2] \in Names /\ Last(p) = p[2]
<1>1. CASE \E n \in Names : p = <<n>>
  BY <1>1 DEF Paths, Last
<1>2. CASE \E d \in Subdirs, n \in Inner : p = <<d, n>>
  <2>1. PICK d \in Subdirs, n \in Inner : p = <<d, n>>
    BY <1>2
  <2>2. d \in Names /\ n \in Names
    BY FileSystemAssumption
  <2> QED
    BY <2>1, <2>2 DEF Paths, Last
<1> QED
  BY <1>1, <1>2 DEF Paths

LEMMA NodeInFound ==
  ASSUME DiskOK, NEW node, NodeOK(node), NEW name
  PROVE  \/ NodeIn(node, name) = NoInode /\ Positions(node, name) = {}
         \/ /\ Positions(node, name) # {}
            /\ Min(Positions(node, name)) \in 0 .. node.size - 1
            /\ EntryAt(node, Min(Positions(node, name))).name = name
            /\ NodeIn(node, name) = EntryAt(node, Min(Positions(node, name))).ino
            /\ NodeIn(node, name) \in Inodes
<1>1. CASE Positions(node, name) = {}
  BY <1>1 DEF NodeIn
<1>2. CASE Positions(node, name) # {}
  <2> DEFINE k == Min(Positions(node, name))
  <2>1. node \in IndexNodes /\ node.size \in Nat /\ node.size <= Space
    BY NodeParts
  <2>2. Positions(node, name) \subseteq Nat
    BY <2>1 DEF Positions
  <2>3. k \in Positions(node, name)
    BY <1>2, <2>2, MinExists
  <2>4. k \in 0 .. node.size - 1 /\ EntryAt(node, k).name = name
    BY <2>3 DEF Positions
  <2>5. NodeIn(node, name) = EntryAt(node, k).ino
    BY <1>2 DEF NodeIn
  <2> HIDE DEF k
  <2>6. EntryAt(node, k) \in DirEntries
    <3>1. k \in 0 .. Space - 1
      BY <2>1, <2>4, Sizes
    <3> QED
      BY <2>1, <3>1, EntryAtType
  <2>7. NodeIn(node, name) \in Inodes
    BY <2>5, <2>6 DEF DirEntries
  <2> QED
    BY <1>2, <2>4, <2>5, <2>7 DEF k
<1> QED
  BY <1>1, <1>2

LEMMA CopyType ==
  ASSUME DiskOK, NodeOK(mem.root), NEW i \in Inodes
  PROVE  NodeOK(CopyOf(i))
BY DEF CopyOf, DiskOK, NodeAt

LEMMA EntryNodeType ==
  ASSUME DiskOK, NodeOK(mem.root), NEW i \in Inodes, NEW name
  PROVE  EntryNode(i, name) \in Inodes \cup {NoInode}
BY CopyType, NodeInFound DEF EntryNode

LEMMA TargetType ==
  ASSUME DiskOK, NEW i \in Inodes
  PROVE  Target(i) \in Links
<1>1. inode[i] \in IndexNodes /\ 0 \in 0 .. MaxDirectBlocks - 1
  BY Sizes DEF DiskOK
<1>2. inode[i].addr[0] \in Blocks \cup {NoBlock}
  BY <1>1 DEF IndexNodes
<1>3. inode[i].addr[0] # NoBlock => block[inode[i].addr[0]].to \in Links
  BY <1>2 DEF DiskOK, DataBlocks
<1> QED
  BY <1>3 DEF Target, Links

LEMMA LinksArePaths == \A t \in Links : t # NoLink => t \in Paths /\ Len(t) = 1
BY DEF Links, Paths

(***************************************************************************)
(* findIndexNode is defined by recursion: that there is such a function is *)
(* the first fact about it.                                                *)
(***************************************************************************)
Follow(find, h, i) ==
  IF i = NoInode \/ inode[i].mode # "link" THEN i
  ELSE IF Target(i) = NoLink THEN Root
  ELSE IF h = 0 THEN NoInode ELSE find[h - 1][Target(i)]

Reach(find, h, p) ==
  IF Len(p) = 1 THEN Follow(find, h, EntryNode(Root, p[1]))
  ELSE LET d == Follow(find, h, EntryNode(Root, p[1])) IN
       IF IsDir(d) THEN Follow(find, h, EntryNode(d, p[2])) ELSE NoInode

Finds(find, n) == find = [h \in 0 .. n |-> [p \in Paths |-> Reach(find, h, p)]]

found == CHOOSE find : Finds(find, HopThresh)

LEMMA FoundIs == findIndexNode = found[HopThresh]
BY Zenon DEF findIndexNode, found, Finds, Reach, Follow, IsDir

LEMMA FindExists == Finds(found, HopThresh)
<1> DEFINE S == {n \in Nat : \E find : Finds(find, n)}
<1>1. 0 \in S
  <2> DEFINE g == [h \in 0 .. 0 |-> [p \in Paths |-> Reach(<<>>, 0, p)]]
  <2>1. g = [h \in 0 .. 0 |-> g[h]] /\ g[0] = [p \in Paths |-> Reach(<<>>, 0, p)]
    OBVIOUS
  <2> HIDE DEF g
  <2>2. ASSUME NEW i PROVE Follow(g, 0, i) = Follow(<<>>, 0, i)
    BY DEF Follow
  <2>3. ASSUME NEW p PROVE Reach(g, 0, p) = Reach(<<>>, 0, p)
    BY <2>2 DEF Reach
  <2>4. g[0] = [p \in Paths |-> Reach(g, 0, p)]
    BY <2>1, <2>3
  <2>5. Finds(g, 0)
    BY <2>1, <2>4 DEF Finds
  <2> QED
    BY <2>5
<1>2. ASSUME NEW n \in S \cap Nat PROVE n + 1 \in S
  <2>1. PICK g : Finds(g, n)
    OBVIOUS
  <2> DEFINE step == [p \in Paths |-> Reach(g, n + 1, p)]
             f == [h \in 0 .. n + 1 |-> IF h = n + 1 THEN step ELSE g[h]]
  <2>2. \A h \in 0 .. n : f[h] = g[h]
    OBVIOUS
  <2>3. f[n + 1] = step
    OBVIOUS
  <2> HIDE DEF f
  <2>4. ASSUME NEW h \in 0 .. n + 1, NEW i PROVE Follow(f, h, i) = Follow(g, h, i)
    <3>1. h = 0 \/ (h - 1 \in 0 .. n /\ f[h - 1] = g[h - 1])
      BY <2>2
    <3> QED
      BY <3>1 DEF Follow
  <2>5. ASSUME NEW h \in 0 .. n + 1, NEW p PROVE Reach(f, h, p) = Reach(g, h, p)
    BY <2>4 DEF Reach
  <2>6. ASSUME NEW h \in 0 .. n + 1 PROVE f[h] = [p \in Paths |-> Reach(f, h, p)]
    <3>1. CASE h = n + 1
      BY <2>3, <2>5, <3>1
    <3>2. CASE h \in 0 .. n
      BY <2>1, <2>2, <2>5, <3>2 DEF Finds
    <3> QED
      BY <3>1, <3>2
  <2>7. f = [h \in 0 .. n + 1 |-> f[h]]
    BY DEF f
  <2>8. Finds(f, n + 1)
    BY <2>6, <2>7 DEF Finds
  <2> QED
    BY <2>8
<1>3. HopThresh \in S
  <2> HIDE DEF S
  <2> QED
    BY <1>1, <1>2, InductionOverSet, FileSystemAssumption
<1> QED
  BY <1>3 DEF found

LEMMA FoundSteps ==
  \A h \in 0 .. HopThresh, p \in Paths : found[h][p] = Reach(found, h, p)
<1> SUFFICES ASSUME NEW h \in 0 .. HopThresh, NEW p \in Paths
             PROVE  found[h][p] = Reach(found, h, p)
  OBVIOUS
<1>1. PICK f : f = found
  OBVIOUS
<1>2. f = [j \in 0 .. HopThresh |-> [q \in Paths |-> Reach(f, j, q)]]
  BY <1>1, FindExists DEF Finds
<1>3. f[h] = [q \in Paths |-> Reach(f, h, q)]
  BY <1>2, Zenon
<1>4. f[h][p] = Reach(f, h, p)
  BY <1>3, Zenon
<1> QED
  BY <1>1, <1>4
LEMMA FindTypes ==
  ASSUME DiskOK, NodeOK(mem.root)
  PROVE  \A p \in Paths : findIndexNode[p] \in Inodes \cup {NoInode}
<1> DEFINE Ends == Inodes \cup {NoInode}
           S == {h \in Nat : h <= HopThresh => \A p \in Paths : found[h][p] \in Ends}
<1>1. ASSUME NEW h \in 0 .. HopThresh, h # 0 => \A p \in Paths : found[h - 1][p] \in Ends
      PROVE  \A p \in Paths : found[h][p] \in Ends
  <2>1. ASSUME NEW i \in Ends PROVE Follow(found, h, i) \in Ends
    <3>1. i # NoInode => Target(i) \in Links
      BY TargetType
    <3>2. i # NoInode /\ Target(i) # NoLink => Target(i) \in Paths
      BY <3>1, LinksArePaths
    <3> QED
      BY <1>1, <3>2, NoInodeOut DEF Follow
  <2>2. ASSUME NEW i \in Inodes, NEW n PROVE EntryNode(i, n) \in Ends
    BY EntryNodeType
  <2>3. ASSUME NEW p \in Paths PROVE Reach(found, h, p) \in Ends
    <3>1. Follow(found, h, EntryNode(Root, p[1])) \in Ends
      BY <2>1, <2>2, NoInodeOut
    <3>2. ASSUME NEW d \in Ends, IsDir(d) PROVE Follow(found, h, EntryNode(d, p[2])) \in Ends
      BY <2>1, <2>2, <3>2 DEF IsDir
    <3> QED
      BY <3>1, <3>2 DEF Reach
  <2> QED
    BY <2>3, FoundSteps
<1>2. 0 \in S
  <2>1. 0 \in 0 .. HopThresh
    BY FileSystemAssumption
  <2> QED
    BY <1>1, <2>1
<1>3. ASSUME NEW n \in S \cap Nat PROVE n + 1 \in S
  <2>1. ASSUME n + 1 <= HopThresh PROVE \A p \in Paths : found[n + 1][p] \in Ends
    <3>1. n + 1 \in 0 .. HopThresh /\ (n + 1) - 1 = n /\ n <= HopThresh
      BY <2>1, FileSystemAssumption
    <3>2. \A p \in Paths : found[n][p] \in Ends
      BY <3>1
    <3> QED
      BY <1>1, <3>1, <3>2
  <2> QED
    BY <2>1
<1>4. HopThresh \in S
  <2> HIDE DEF S
  <2> QED
    BY <1>2, <1>3, InductionOverSet, FileSystemAssumption
<1> QED
  BY <1>4, FoundIs, FileSystemAssumption

\* Links lead to names in the root, so a name in the root does as well.
RootEntries == {NoInode, Root} \cup {EntryNode(Root, m) : m \in Names}

LEMMA FoundInRoot ==
  ASSUME DiskOK, NodeOK(mem.root)
  PROVE  \A h \in 0 .. HopThresh : \A n \in Names : found[h][<<n>>] \in RootEntries
<1> DEFINE S == {h \in Nat : h <= HopThresh => \A n \in Names : found[h][<<n>>] \in RootEntries}
<1>1. ASSUME NEW h \in 0 .. HopThresh, h # 0 => \A n \in Names : found[h - 1][<<n>>] \in RootEntries
      PROVE  \A n \in Names : found[h][<<n>>] \in RootEntries
  <2> SUFFICES ASSUME NEW n \in Names PROVE found[h][<<n>>] \in RootEntries
    OBVIOUS
  <2> DEFINE i == EntryNode(Root, n)
  <2>1. found[h][<<n>>] = Follow(found, h, i)
    <3>1. <<n>> \in Paths /\ Len(<<n>>) = 1 /\ <<n>>[1] = n
      BY DEF Paths
    <3> QED
      BY <3>1, FoundSteps DEF Reach
  <2>2. i \in RootEntries /\ i \in Inodes \cup {NoInode}
    BY EntryNodeType, NoInodeOut DEF RootEntries
  <2> HIDE DEF i
  <2>3. ASSUME i # NoInode, Target(i) # NoLink, h # 0
        PROVE  found[h - 1][Target(i)] \in RootEntries
    <3>1. Target(i) \in Links
      BY <2>2, <2>3, TargetType
    <3>2. PICK m \in Names : Target(i) = <<m>>
      BY <2>3, <3>1 DEF Links
    <3> QED
      BY <1>1, <2>3, <3>2
  <2>4. Follow(found, h, i) \in RootEntries
    BY <2>2, <2>3 DEF Follow, RootEntries
  <2> QED
    BY <2>1, <2>4
<1>2. 0 \in S
  <2>1. 0 \in 0 .. HopThresh
    BY FileSystemAssumption
  <2> QED
    BY <1>1, <2>1
<1>3. ASSUME NEW n \in S \cap Nat PROVE n + 1 \in S
  <2>1. ASSUME n + 1 <= HopThresh PROVE \A m \in Names : found[n + 1][<<m>>] \in RootEntries
    <3>1. n + 1 \in 0 .. HopThresh /\ (n + 1) - 1 = n /\ n <= HopThresh
      BY <2>1, FileSystemAssumption
    <3>2. \A m \in Names : found[n][<<m>>] \in RootEntries
      BY <3>1
    <3> QED
      BY <1>1, <3>1, <3>2
  <2> QED
    BY <2>1
<1>4. Nat \subseteq S
  <2> HIDE DEF S
  <2> QED
    BY <1>2, <1>3, InductionOverSet
<1>5. \A h \in 0 .. HopThresh : h \in Nat /\ h <= HopThresh
  BY FileSystemAssumption
<1> QED
  BY <1>4, <1>5

LEMMA FindInRoot ==
  ASSUME DiskOK, NodeOK(mem.root)
  PROVE  \A n \in Names : findIndexNode[<<n>>] \in RootEntries
<1>1. HopThresh \in 0 .. HopThresh
  BY FileSystemAssumption
<1> QED
  BY <1>1, FoundInRoot, FoundIs

LEMMA DirOfType ==
  ASSUME DiskOK, NodeOK(mem.root), NEW p \in Paths
  PROVE  /\ DirOf(p) \in Inodes \cup {NoInode} /\ DirOf(p) \in RootEntries
         /\ IsDir(DirOf(p)) => DirOf(p) \in Inodes
         /\ Len(p) = 1 => DirOf(p) = Root
<1>1. CASE Len(p) = 1
  BY <1>1, NoInodeOut DEF DirOf, RootEntries
<1>2. CASE Len(p) # 1
  <2>1. p[1] \in Names /\ <<p[1]>> \in Paths
    BY PathParts
  <2>2. DirOf(p) = findIndexNode[<<p[1]>>]
    BY <1>2 DEF DirOf
  <2> QED
    BY <1>2, <2>1, <2>2, FindTypes, FindInRoot DEF IsDir
<1> QED
  BY <1>1, <1>2

LEMMA BrokenIsLink ==
  ASSUME DiskOK, NodeOK(mem.root), NEW p \in Paths, IsDir(DirOf(p)), BrokenLink(p)
  PROVE  /\ EntryNode(DirOf(p), Last(p)) \in Inodes
         /\ inode[EntryNode(DirOf(p), Last(p))].mode = "link"
<1> DEFINE i == EntryNode(DirOf(p), Last(p))
<1>1. i \in Inodes
  BY DirOfType, EntryNodeType DEF BrokenLink
<1>2. HopThresh \in 0 .. HopThresh
  BY FileSystemAssumption
<1>3. findIndexNode[p] = Follow(found, HopThresh, i)
  <2>1. findIndexNode[p] = Reach(found, HopThresh, p)
    BY <1>2, FoundIs, FoundSteps
  <2>2. CASE Len(p) = 1
    BY <2>1, <2>2, PathParts DEF Reach, DirOf
  <2>3. CASE Len(p) = 2
    <3>1. /\ p[1] \in Names /\ <<p[1]>> \in Paths /\ Last(p) = p[2]
          /\ Len(<<p[1]>>) = 1 /\ <<p[1]>>[1] = p[1]
      BY <2>3, PathParts
    <3>2. DirOf(p) = Follow(found, HopThresh, EntryNode(Root, p[1]))
      <4>1. DirOf(p) = findIndexNode[<<p[1]>>]
        BY <2>3 DEF DirOf
      <4> QED
        BY <1>2, <3>1, <4>1, FoundIs, FoundSteps DEF Reach
    <3> QED
      BY <2>1, <2>3, <3>1, <3>2 DEF Reach
  <2> QED
    BY <2>2, <2>3, PathParts
<1>4. findIndexNode[p] = NoInode
  BY DEF BrokenLink
<1> HIDE DEF i
<1>5. inode[i].mode = "link"
  BY <1>1, <1>3, <1>4, NoInodeOut DEF Follow
<1> QED
  BY <1>1, <1>5 DEF i

LEMMA RootEntryLive ==
  ASSUME DiskOK, NodeOK(mem.root), WayOK, NEW n
  PROVE  EntryNode(Root, n) = NoInode
           \/ (EntryNode(Root, n) \in Inodes /\ inode[EntryNode(Root, n)].nlink > 0)
BY NodeInFound DEF EntryNode, CopyOf, WayOK

\* A step that writes an index node that is free changes no path in the root.
LEMMA FindStays ==
  ASSUME DiskOK, NodeOK(mem.root), WayOK, mem'.root = mem.root, block' = block,
         \A i \in Inodes : inode[i].nlink > 0 => inode'[i] = inode[i],
         NEW n \in Names
  PROVE  findIndexNode'[<<n>>] = findIndexNode[<<n>>]
<1> DEFINE S == {h \in Nat : h <= HopThresh =>
                   \A m \in Names : found'[h][<<m>>] = found[h][<<m>>]}
<1>1. \A h \in 0 .. HopThresh, p \in Paths : found'[h][p] = Reach(found, h, p)'
  <2>1. (\A h \in 0 .. HopThresh, p \in Paths : found[h][p] = Reach(found, h, p))'
    BY FoundSteps, PTL
  <2> QED
    BY <2>1
<1>2. ASSUME NEW h \in 0 .. HopThresh, NEW m \in Names,
             h # 0 => \A k \in Names : found'[h - 1][<<k>>] = found[h - 1][<<k>>]
      PROVE  found'[h][<<m>>] = found[h][<<m>>]
  <2>0. PICK i : i = EntryNode(Root, m)
    OBVIOUS
  <2>1. <<m>> \in Paths /\ Len(<<m>>) = 1 /\ <<m>>[1] = m
    BY DEF Paths
  <2>2. found[h][<<m>>] = Follow(found, h, i)
    BY <2>0, <2>1, FoundSteps DEF Reach
  <2>3. EntryNode(Root, m)' = i
    BY <2>0 DEF EntryNode, CopyOf, NodeIn, Positions, EntryAt
  <2>4. found'[h][<<m>>] =
          IF i = NoInode \/ inode'[i].mode # "link" THEN i
          ELSE IF Target(i)' = NoLink THEN Root
          ELSE IF h = 0 THEN NoInode ELSE found'[h - 1][Target(i)']
    <3>1. found'[h][<<m>>] = Follow(found, h, EntryNode(Root, m))'
      BY <1>1, <2>1 DEF Reach
    <3> QED
      BY <2>3, <3>1 DEF Follow
  <2>5. CASE i = NoInode
    BY <2>2, <2>4, <2>5 DEF Follow
  <2>6. CASE i \in Inodes /\ inode'[i] = inode[i]
    <3>1. Target(i)' = Target(i)
      BY <2>6 DEF Target
    <3>2. Target(i) \in Links
      BY <2>6, TargetType
    <3>3. Target(i) # NoLink => \E k \in Names : Target(i) = <<k>>
      BY <3>2 DEF Links
    <3> QED
      BY <1>2, <2>2, <2>4, <2>6, <3>1, <3>3 DEF Follow
  <2>7. i = NoInode \/ (i \in Inodes /\ inode'[i] = inode[i])
    BY <2>0, RootEntryLive
  <2> QED
    BY <2>5, <2>6, <2>7
<1>3. 0 \in S
  <2>1. 0 \in 0 .. HopThresh
    BY FileSystemAssumption
  <2> QED
    BY <1>2, <2>1
<1>4. ASSUME NEW h \in S \cap Nat PROVE h + 1 \in S
  <2>1. ASSUME h + 1 <= HopThresh, NEW m \in Names
        PROVE  found'[h + 1][<<m>>] = found[h + 1][<<m>>]
    <3>1. h + 1 \in 0 .. HopThresh /\ (h + 1) - 1 = h /\ h <= HopThresh
      BY <2>1, FileSystemAssumption
    <3>2. \A k \in Names : found'[h][<<k>>] = found[h][<<k>>]
      BY <3>1
    <3> QED
      BY <1>2, <2>1, <3>1, <3>2
  <2> QED
    BY <2>1
<1>5. HopThresh \in S
  <2> HIDE DEF S
  <2> QED
    BY <1>3, <1>4, InductionOverSet, FileSystemAssumption
<1>6. findIndexNode = found[HopThresh] /\ findIndexNode' = found'[HopThresh]
  <2>1. (findIndexNode = found[HopThresh])'
    BY FoundIs, PTL
  <2> QED
    BY <2>1, FoundIs
<1>7. HopThresh <= HopThresh
  BY FileSystemAssumption
<1>8. found'[HopThresh][<<n>>] = found[HopThresh][<<n>>]
  BY <1>5, <1>7
<1> QED
  BY <1>6, <1>8

LEMMA DirStays ==
  ASSUME DiskOK, NodeOK(mem.root), WayOK, mem'.root = mem.root, block' = block,
         \A i \in Inodes : inode[i].nlink > 0 => inode'[i] = inode[i],
         NEW p \in Paths
  PROVE  DirOf(p)' = DirOf(p) /\ (IsDir(DirOf(p)) => IsDir(DirOf(p))')
<1>1. DirOf(p)' = DirOf(p)
  <2>1. CASE Len(p) = 1
    BY <2>1 DEF DirOf
  <2>2. CASE Len(p) # 1
    BY <2>2, PathParts, FindStays DEF DirOf
  <2> QED
    BY <2>1, <2>2
<1>2. PICK d : d = DirOf(p)
  OBVIOUS
<1>3. d = NoInode \/ d = Root \/ inode'[d] = inode[d]
  <2>1. d \in RootEntries
    BY <1>2, DirOfType
  <2> QED
    BY <2>1, RootEntryLive DEF RootEntries
<1>4. IsDir(d) => IsDir(d)'
  BY <1>3 DEF IsDir, CopyOf
<1>5. IsDir(DirOf(p))' <=> IsDir(d)'
  BY <1>1, <1>2 DEF IsDir, CopyOf
<1> QED
  BY <1>1, <1>2, <1>4, <1>5

-----------------------------------------------------------------------------
(***************************************************************************)
(* What a program finds when it starts.                                    *)
(***************************************************************************)
\* A directory entry counts as a link.
Referring(i) ==
  {at \in Directories \X (0 .. PerBlock * MaxDirectBlocks - 1) :
     /\ at[2] < inode[at[1]].size
     /\ EntryAt(inode[at[1]], at[2]).ino = i}

LEMMA ReferencesAre ==
  ASSUME NEW i
  PROVE  /\ IsFiniteSet(Referring(i)) /\ References(i) = Cardinality(Referring(i))
         /\ References(i) \in Nat
<1>1. Directories \subseteq Inodes
  BY NoInodeOut DEF Directories
<1>2. IsFiniteSet(Inodes) /\ IsFiniteSet(0 .. PerBlock * MaxDirectBlocks - 1)
  BY Sizes, FS_Interval DEF Inodes, Space
<1>3. IsFiniteSet(Directories)
  BY <1>1, <1>2, FS_Subset
<1>4. IsFiniteSet(Directories \X (0 .. PerBlock * MaxDirectBlocks - 1))
  BY <1>2, <1>3, FS_Product
<1>5. Referring(i) \subseteq Directories \X (0 .. PerBlock * MaxDirectBlocks - 1)
  BY DEF Referring
<1>6. IsFiniteSet(Referring(i))
  BY <1>4, <1>5, FS_Subset
<1>7. References(i) = Cardinality(Referring(i))
  BY DEF References, Referring
<1> QED
  BY <1>6, <1>7, FS_CardinalityType

LEMMA ReferredIsLive ==
  ASSUME DiskOK, Clean, NEW k \in 0 .. inode[Root].size - 1
  PROVE  inode[EntryAt(inode[Root], k).ino].nlink > 0
<1> DEFINE i == EntryAt(inode[Root], k).ino
<1>1. NodeOK(inode[Root]) /\ inode[Root] \in IndexNodes
  BY NoInodeOut DEF DiskOK, NodeAt
<1>2. k \in 0 .. Space - 1 /\ k < inode[Root].size
  BY <1>1, NodeParts, Sizes
<1>3. i \in Inodes
  <2>1. EntryAt(inode[Root], k) \in DirEntries
    BY <1>1, <1>2, EntryAtType
  <2> QED
    BY <2>1 DEF DirEntries
<1>4. <<Root, k>> \in Referring(i)
  <2>1. Root \in Directories
    BY DEF Directories
  <2> QED
    BY <1>2, <2>1 DEF Space, Referring
<1> HIDE DEF i
<1>5. References(i) \in Nat /\ References(i) # 0
  BY <1>4, ReferencesAre, FS_EmptySet
<1>6. inode[i].nlink = References(i) + (IF i = Root THEN 1 ELSE 0)
  BY <1>3 DEF Clean
<1> QED
  BY <1>5, <1>6 DEF i

LEMMA RootIsLive ==
  ASSUME DiskOK, Clean
  PROVE  inode[Root].nlink > 0 /\ AddressesOf(Root) \subseteq bitmap
<1>1. References(Root) \in Nat /\ inode[Root].nlink = References(Root) + 1
  BY NoInodeOut, ReferencesAre DEF Clean
<1>2. Root \in Live
  BY <1>1, NoInodeOut DEF Live
<1> QED
  BY <1>1, <1>2 DEF Clean
-----------------------------------------------------------------------------
(***************************************************************************)
(* The writes of a step.                                                   *)
(***************************************************************************)
LEMMA WritesOf ==
  ASSUME NEW T, NEW s \in Seq(T), \A w \in T : WriteOK(w)
  PROVE  Writes(s)
BY DEF Writes

LEMMA NoWrites == Writes(<<>>)
<1> DEFINE T == {}
<1>1. <<>> \in Seq(T) /\ \A x \in T : WriteOK(x)
  OBVIOUS
<1> HIDE DEF T
<1> QED
  BY <1>1, WritesOf

LEMMA OneWrite ==
  ASSUME NEW w, WriteOK(w)
  PROVE  Writes(<<w>>)
<1> DEFINE T == {w}
<1>1. <<w>> \in Seq(T) /\ \A x \in T : WriteOK(x)
  OBVIOUS
<1> HIDE DEF T
<1> QED
  BY <1>1, WritesOf

LEMMA MoreWrites ==
  ASSUME NEW s, NEW t, Writes(s), Writes(t)
  PROVE  Writes(s \o t)
<1>1. PICK S : s \in Seq(S) /\ \A w \in S : WriteOK(w)
  BY DEF Writes
<1>2. PICK T : t \in Seq(T) /\ \A w \in T : WriteOK(w)
  BY DEF Writes
<1>3. s \in Seq(S \cup T) /\ t \in Seq(S \cup T)
  BY <1>1, <1>2
<1>4. s \o t \in Seq(S \cup T)
  BY <1>3
<1> QED
  BY <1>1, <1>2, <1>4 DEF Writes

LEMMA FirstWrite ==
  ASSUME NEW s, Writes(s), s # <<>>
  PROVE  /\ WriteOK(Head(s)) /\ Writes(Tail(s))
         /\ 1 \in DOMAIN s /\ Head(s) = s[1]
         /\ \A k \in DOMAIN Tail(s) : k + 1 \in DOMAIN s /\ Tail(s)[k] = s[k + 1]
<1>1. PICK S : s \in Seq(S) /\ \A w \in S : WriteOK(w)
  BY DEF Writes
<1>2. Head(s) \in S /\ Tail(s) \in Seq(S) /\ 1 \in DOMAIN s /\ Head(s) = s[1]
  BY <1>1
<1>3. \A k \in DOMAIN Tail(s) : k + 1 \in DOMAIN s /\ Tail(s)[k] = s[k + 1]
  BY <1>1
<1> QED
  BY <1>1, <1>2, <1>3 DEF Writes

(***************************************************************************)
(* What is in lists of writes that follow one another.                     *)
(***************************************************************************)
Among(s) == {s[j] : j \in DOMAIN s}

LEMMA AmongBoth ==
  ASSUME NEW S, NEW s \in Seq(S), NEW t \in Seq(S)
  PROVE  Among(s \o t) = Among(s) \cup Among(t)
<1>1. DOMAIN s = 1 .. Len(s) /\ DOMAIN t = 1 .. Len(t) /\ Len(s) \in Nat /\ Len(t) \in Nat
      /\ DOMAIN (s \o t) = 1 .. Len(s) + Len(t)
  OBVIOUS
<1>2. \A j \in DOMAIN (s \o t) : (s \o t)[j] = IF j <= Len(s) THEN s[j] ELSE t[j - Len(s)]
  OBVIOUS
<1>3. Among(s \o t) \subseteq Among(s) \cup Among(t)
  BY <1>1, <1>2 DEF Among
<1>4. ASSUME NEW j \in DOMAIN s PROVE s[j] \in Among(s \o t)
  <2>1. j \in DOMAIN (s \o t) /\ (s \o t)[j] = s[j]
    BY <1>1, <1>2
  <2> QED
    BY <2>1 DEF Among
<1>5. ASSUME NEW j \in DOMAIN t PROVE t[j] \in Among(s \o t)
  <2>1. Len(s) + j \in DOMAIN (s \o t) /\ (s \o t)[Len(s) + j] = t[j]
    <3>1. Len(s) + j \in 1 .. Len(s) + Len(t) /\ ~ (Len(s) + j <= Len(s)) /\ (Len(s) + j) - Len(s) = j
      BY <1>1
    <3> QED
      BY <1>1, <1>2, <3>1
  <2> QED
    BY <2>1 DEF Among
<1> QED
  BY <1>3, <1>4, <1>5 DEF Among

\* FlattenSeq, element by element.
FlatTo(f, g) == \A i \in DOMAIN f : g[i] = IF i = 1 THEN f[i] ELSE g[i - 1] \o f[i]

LEMMA FlattenSteps ==
  ASSUME NEW n \in Nat \ {0}, NEW f, f = [k \in 1 .. n |-> f[k]]
  PROVE  \E g : FlattenSeq(f) = g[n] /\ FlatTo(f, g)
<1> DEFINE Turns(g, m) == g = [i \in 1 .. m |-> IF i = 1 THEN f[i] ELSE g[i - 1] \o f[i]]
           S == {m \in Nat : \E g : Turns(g, m)}
           flat == CHOOSE g : Turns(g, n)
<1>1. Len(f) = n /\ n # 0
  OBVIOUS
<1>2. FlattenSeq(f) = flat[n]
  BY <1>1, Zenon DEF FlattenSeq
<1>3. 0 \in S
  <2>1. Turns(<<>>, 0)
    OBVIOUS
  <2> QED
    BY <2>1
<1>4. ASSUME NEW m \in S \cap Nat PROVE m + 1 \in S
  <2>1. PICK g : Turns(g, m)
    OBVIOUS
  <2> DEFINE h == [i \in 1 .. m + 1 |->
                     IF i = m + 1 THEN (IF i = 1 THEN f[i] ELSE g[m] \o f[i]) ELSE g[i]]
  <2>2. \A i \in 1 .. m : h[i] = g[i]
    OBVIOUS
  <2>3. h[m + 1] = IF m + 1 = 1 THEN f[m + 1] ELSE g[m] \o f[m + 1]
    OBVIOUS
  <2>4. h = [i \in 1 .. m + 1 |-> h[i]]
    OBVIOUS
  <2> HIDE DEF h
  <2>5. ASSUME NEW i \in 1 .. m + 1 PROVE h[i] = IF i = 1 THEN f[i] ELSE h[i - 1] \o f[i]
    <3>1. CASE i = m + 1
      <4>1. i = 1 \/ (i - 1 = m /\ m \in 1 .. m /\ h[i - 1] = g[m])
        BY <2>2, <3>1
      <4> QED
        BY <2>3, <3>1, <4>1
    <3>2. CASE i \in 1 .. m
      <4>1. i = 1 \/ (i - 1 \in 1 .. m /\ h[i - 1] = g[i - 1])
        BY <2>2, <3>2
      <4>2. g[i] = IF i = 1 THEN f[i] ELSE g[i - 1] \o f[i]
        BY <2>1, <3>2
      <4> QED
        BY <2>2, <3>2, <4>1, <4>2
    <3> QED
      BY <3>1, <3>2
  <2>6. Turns(h, m + 1)
    BY <2>4, <2>5
  <2> HIDE DEF Turns
  <2> QED
    BY <2>6
<1>5. Turns(flat, n)
  <2>1. n \in S
    <3> HIDE DEF S
    <3> QED
      BY <1>3, <1>4, InductionOverSet
  <2> HIDE DEF Turns
  <2> QED
    BY <2>1
<1>6. FlatTo(f, flat)
  <2> HIDE DEF flat
  <2>1. PICK g : g = flat
    OBVIOUS
  <2>2. \A i \in 1 .. n : g[i] = IF i = 1 THEN f[i] ELSE g[i - 1] \o f[i]
    BY <1>5, <2>1
  <2>3. DOMAIN f = 1 .. n
    OBVIOUS
  <2> QED
    BY <2>1, <2>2, <2>3 DEF FlatTo
<1> HIDE DEF flat
<1> QED
  BY <1>2, <1>6

\* The writes of n lists, of which g joins the first, the first two, ...
LEMMA AmongJoined ==
  ASSUME NEW n \in Nat \ {0}, NEW f, NEW g, NEW S, \A k \in 1 .. n : f[k] \in Seq(S),
         \A i \in 1 .. n : g[i] = IF i = 1 THEN f[i] ELSE g[i - 1] \o f[i]
  PROVE  \A w : w \in Among(g[n]) <=> \E k \in 1 .. n : w \in Among(f[k])
<1> DEFINE Right(m) == /\ g[m] \in Seq(S)
                       /\ \A w : w \in Among(g[m]) <=> \E k \in 1 .. m : w \in Among(f[k])
           W == {m \in Nat : m + 1 <= n => Right(m + 1)}
<1>4. 0 \in W
  <2>1. g[1] = f[1] /\ f[1] \in Seq(S) /\ 0 + 1 = 1 /\ 1 .. 1 = {1}
    OBVIOUS
  <2> QED
    BY <2>1
<1>5. ASSUME NEW m \in W \cap Nat PROVE m + 1 \in W
  <2>1. ASSUME m + 2 <= n PROVE Right(m + 2)
    <3>1. m + 2 \in 1 .. n /\ m + 2 # 1 /\ (m + 2) - 1 = m + 1 /\ m + 1 <= n
      BY <2>1
    <3>2. g[m + 2] = g[m + 1] \o f[m + 2]
      BY <3>1
    <3>3. Right(m + 1)
      BY <3>1
    <3>4. f[m + 2] \in Seq(S)
      BY <3>1
    <3>5. Among(g[m + 2]) = Among(g[m + 1]) \cup Among(f[m + 2])
      BY <3>2, <3>3, <3>4, AmongBoth
    <3>6. g[m + 2] \in Seq(S)
      BY <3>2, <3>3, <3>4
    <3>7. 1 .. m + 2 = (1 .. m + 1) \cup {m + 2}
      OBVIOUS
    <3> QED
      BY <3>3, <3>5, <3>6, <3>7
  <2>2. (m + 1) + 1 = m + 2
    OBVIOUS
  <2> HIDE DEF Right
  <2> QED
    BY <2>1, <2>2
<1>6. n - 1 \in W
  <2>1. n - 1 \in Nat
    OBVIOUS
  <2> HIDE DEF W
  <2> QED
    BY <1>4, <1>5, <2>1, InductionOverSet
<1>7. Right(n)
  <2>1. n - 1 + 1 = n /\ n <= n
    OBVIOUS
  <2> HIDE DEF Right
  <2> QED
    BY <1>6, <2>1
<1> QED
  BY <1>7

LEMMA AmongTurns ==
  ASSUME NEW n \in Nat \ {0}, NEW f, f = [k \in 1 .. n |-> f[k]],
         NEW S, \A k \in 1 .. n : f[k] \in Seq(S)
  PROVE  \A w : w \in Among(FlattenSeq(f)) <=> \E k \in 1 .. n : w \in Among(f[k])
<1>1. PICK g : FlattenSeq(f) = g[n] /\ FlatTo(f, g)
  BY FlattenSteps
<1>2. DOMAIN f = 1 .. n
  OBVIOUS
<1>3. \A i \in 1 .. n : g[i] = IF i = 1 THEN f[i] ELSE g[i - 1] \o f[i]
  BY <1>1, <1>2 DEF FlatTo
<1>4. \A w : w \in Among(g[n]) <=> \E k \in 1 .. n : w \in Among(f[k])
  BY <1>3, AmongJoined
<1> QED
  BY <1>1, <1>4

\* Lists of writes one after the other.
LEMMA WritesInTurn ==
  ASSUME NEW n \in Nat \ {0}, NEW f, f = [k \in 1 .. n |-> f[k]],
         \A k \in 1 .. n : Writes(f[k])
  PROVE  Writes(FlattenSeq(f))
<1>1. PICK flat : FlattenSeq(f) = flat[n] /\ FlatTo(f, flat)
  BY FlattenSteps
<1>2. \A i \in 1 .. n : flat[i] = IF i = 1 THEN f[i] ELSE flat[i - 1] \o f[i]
  BY <1>1 DEF FlatTo
<1> DEFINE W == {m \in Nat : m + 1 <= n => Writes(flat[m + 1])}
<1>3. 0 \in W
  <2>1. 1 \in 1 .. n
    OBVIOUS
  <2>2. Writes(flat[1])
    BY <1>2, <2>1
  <2> QED
    BY <2>2
<1>4. ASSUME NEW m \in W \cap Nat PROVE m + 1 \in W
  <2>1. ASSUME m + 2 <= n PROVE Writes(flat[m + 2])
    <3>1. m + 2 \in 1 .. n /\ m + 2 # 1 /\ (m + 2) - 1 = m + 1 /\ m + 1 <= n
      BY <2>1
    <3>2. flat[m + 2] = flat[m + 1] \o f[m + 2]
      BY <1>2, <3>1
    <3>3. Writes(flat[m + 1]) /\ Writes(f[m + 2])
      BY <3>1
    <3> QED
      BY <3>2, <3>3, MoreWrites
  <2>2. (m + 1) + 1 = m + 2
    OBVIOUS
  <2> QED
    BY <2>1, <2>2
<1>5. n - 1 \in W
  <2>1. n - 1 \in Nat
    OBVIOUS
  <2> HIDE DEF W
  <2> QED
    BY <1>3, <1>4, <2>1, InductionOverSet
<1>6. Writes(flat[n])
  <2>1. n - 1 + 1 = n /\ n <= n
    OBVIOUS
  <2> QED
    BY <1>5, <2>1
<1> QED
  BY <1>1, <1>6

(***************************************************************************)
(* Allocation.                                                             *)
(***************************************************************************)
LEMMA Around ==
  ASSUME NEW n \in Nat \ {0}, NEW hint \in Nat, NEW d \in Nat
  PROVE  (hint + d) % n \in 0 .. n - 1
OBVIOUS

LEMMA AllocateBlockType ==
  ASSUME mem.bitHint \in Blocks
  PROVE  \/ allocateBlock = NoBlock
         \/ allocateBlock \in Blocks /\ allocateBlock \notin bitmap /\ allocateBlock # NoBlock
<1>1. CASE FreeDistances = {}
  BY <1>1 DEF allocateBlock
<1>2. CASE FreeDistances # {}
  <2>1. NumBlocks \in Nat \ {0} /\ mem.bitHint \in Nat
    BY Sizes DEF Blocks
  <2>2. FreeDistances \subseteq Nat
    BY <2>1 DEF FreeDistances
  <2>3. Min(FreeDistances) \in FreeDistances /\ Min(FreeDistances) \in Nat
    BY <1>2, <2>2, MinExists
  <2>4. allocateBlock = (mem.bitHint + Min(FreeDistances)) % NumBlocks
    BY <1>2 DEF allocateBlock
  <2>5. allocateBlock \in Blocks
    BY <2>1, <2>3, <2>4, Around DEF Blocks
  <2>6. allocateBlock \notin bitmap
    BY <2>3, <2>4 DEF FreeDistances
  <2> QED
    BY <2>5, <2>6, NoInodeOut
<1> QED
  BY <1>1, <1>2

LEMMA AllocateIndexNodeType ==
  ASSUME DiskOK, mem.inoHint \in Inodes
  PROVE  \/ allocateIndexNode = NoInode
         \/ /\ allocateIndexNode \in Inodes \ {Root} /\ allocateIndexNode # NoInode
            /\ inode[allocateIndexNode].nlink = 0
<1>1. CASE UnusedDistances = {}
  BY <1>1 DEF allocateIndexNode
<1>2. CASE UnusedDistances # {}
  <2>1. NumInodes \in Nat \ {0} /\ mem.inoHint \in Nat
    BY Sizes DEF Inodes
  <2>2. UnusedDistances \subseteq Nat
    BY <2>1 DEF UnusedDistances, Inodes
  <2>3. Min(UnusedDistances) \in UnusedDistances /\ Min(UnusedDistances) \in Nat
    BY <1>2, <2>2, MinExists
  <2>4. allocateIndexNode = (mem.inoHint + Min(UnusedDistances)) % NumInodes
    BY <1>2 DEF allocateIndexNode
  <2>5. allocateIndexNode \in Inodes
    BY <2>1, <2>3, <2>4, Around DEF Inodes
  <2>6. inode[allocateIndexNode].nlink = 0
    BY <2>3, <2>4 DEF UnusedDistances
  <2>7. allocateIndexNode # Root
    BY <2>6, NoInodeOut DEF DiskOK, NodeAt
  <2> QED
    BY <2>5, <2>6, <2>7, NoInodeOut
<1> QED
  BY <1>1, <1>2

LEMMA NextHint ==
  /\ \A b \in Blocks : (b + 1) % NumBlocks \in Blocks
  /\ \A i \in Inodes : (i + 1) % NumInodes \in Inodes
BY Sizes DEF Blocks, Inodes
(***************************************************************************)
(* writeBlock and setSize.                                                 *)
(***************************************************************************)
Larger(a, b) == IF a >= b THEN a ELSE b

LEMMA MaxOfTwo ==
  ASSUME NEW a \in Nat, NEW b \in Nat
  PROVE  Max({a, b}) = Larger(a, b)
<1>1. {a, b} \subseteq 0 .. (a + b) /\ a + b \in Nat
  OBVIOUS
<1>2. Max({a, b}) \in {a, b} /\ \A x \in {a, b} : x <= Max({a, b})
  BY <1>1, MaxExists
<1> QED
  BY <1>2 DEF Larger

LEMMA PlacedType ==
  ASSUME mem.bitHint \in Blocks, NEW node \in IndexNodes,
         NEW k \in 0 .. MaxDirectBlocks - 1, CanPlace(node, k)
  PROVE  /\ Placed(node, k) \in IndexNodes /\ Placed(node, k).addr[k] \in Blocks
         /\ Placed(node, k).size = node.size /\ Placed(node, k).mode = node.mode
         /\ Placed(node, k).nlink = node.nlink
<1>1. node.addr \in [0 .. MaxDirectBlocks - 1 -> Blocks \cup {NoBlock}]
  BY DEF IndexNodes
<1>2. CASE node.addr[k] # NoBlock
  <2>1. node.addr[k] \in Blocks /\ Placed(node, k) = node
    BY <1>1, <1>2 DEF Placed
  <2> QED
    BY <2>1
<1>3. CASE node.addr[k] = NoBlock
  <2>1. allocateBlock \in Blocks
    BY <1>3, AllocateBlockType DEF CanPlace
  <2> DEFINE a == [node.addr EXCEPT ![k] = allocateBlock]
  <2>2. a \in [0 .. MaxDirectBlocks - 1 -> Blocks \cup {NoBlock}] /\ a[k] \in Blocks
    BY <1>1, <2>1
  <2>3. Placed(node, k) = [node EXCEPT !.addr = a]
    BY <1>3 DEF Placed
  <2> HIDE DEF a
  <2> QED
    BY <2>2, <2>3 DEF IndexNodes
<1> QED
  BY <1>2, <1>3

LEMMA GrownType ==
  ASSUME mem.bitHint \in Blocks, NEW node \in IndexNodes,
         NEW k \in 0 .. MaxDirectBlocks - 1, CanPlace(node, k), NEW size \in Nat
  PROVE  /\ Grown(node, k, size) \in IndexNodes
         /\ Grown(node, k, size).addr[k] \in Blocks
         /\ Grown(node, k, size).size = Larger(node.size, size)
         /\ Grown(node, k, size).mode = node.mode
         /\ Grown(node, k, size).nlink = node.nlink
<1> DEFINE m == Larger(node.size, size)
<1>1. node.size \in Nat
  BY DEF IndexNodes
<1>2. Max({node.size, size}) = m /\ m \in Nat
  BY <1>1, MaxOfTwo DEF Larger
<1>3. Grown(node, k, size) = [Placed(node, k) EXCEPT !.size = m]
  BY <1>2 DEF Grown
<1> HIDE DEF m
<1> QED
  BY <1>2, <1>3, PlacedType DEF IndexNodes, m

LEMMA HintAfterType ==
  ASSUME mem.bitHint \in Blocks, NEW node, NEW k, CanPlace(node, k)
  PROVE  HintAfter(node, k) \in Blocks
BY AllocateBlockType, NextHint DEF HintAfter, CanPlace

\* What Put may write: the node with a new block, the data, the node grown.
PutWrites(i, node, k, data, size) ==
  {WriteData(Placed(node, k).addr[k], data), WriteInode(i, Grown(node, k, size))}
    \cup IF node.addr[k] # NoBlock THEN {}
         ELSE {SetBit(Placed(node, k).addr[k]), WriteInode(i, Placed(node, k))}

LEMMA PutIn ==
  ASSUME NEW i, NEW node, NEW k, NEW data, NEW size
  PROVE  Put(i, node, k, data, size) \in Seq(PutWrites(i, node, k, data, size))
<1> DEFINE P == PutWrites(i, node, k, data, size)
           a == IF node.addr[k] # NoBlock THEN <<>>
                ELSE <<SetBit(Placed(node, k).addr[k]), WriteInode(i, Placed(node, k))>>
           b == <<WriteData(Placed(node, k).addr[k], data)>>
           c == IF size > node.size THEN <<WriteInode(i, Grown(node, k, size))>> ELSE <<>>
<1>1. /\ WriteData(Placed(node, k).addr[k], data) \in P /\ WriteInode(i, Grown(node, k, size)) \in P
      /\ node.addr[k] = NoBlock => /\ SetBit(Placed(node, k).addr[k]) \in P
                                   /\ WriteInode(i, Placed(node, k)) \in P
  BY DEF PutWrites
<1>2. Put(i, node, k, data, size) = a \o b \o c
  BY DEF Put
<1> HIDE DEF P
<1>3. a \in Seq(P)
  BY <1>1
<1>4. b \in Seq(P)
  BY <1>1
<1>5. c \in Seq(P)
  BY <1>1
<1> HIDE DEF a, b, c
<1> QED
  BY <1>2, <1>3, <1>4, <1>5 DEF P

LEMMA WriteInodeOK ==
  ASSUME NEW i \in Inodes, NEW node, NodeAt(i, node)
  PROVE  WriteOK(WriteInode(i, node))
BY DEF WriteOK, WriteInode

LEMMA ResetOK ==
  ASSUME NEW b
  PROVE  WriteOK(ResetBit(b))
BY DEF WriteOK, ResetBit

LEMMA PutOK ==
  ASSUME mem.bitHint \in Blocks, NEW i \in Inodes, NEW node, NodeAt(i, node),
         NEW k \in 0 .. MaxDirectBlocks - 1, CanPlace(node, k),
         NEW data \in DataBlocks, NEW size \in Nat,
         size <= IF node.mode = "dir" THEN Space ELSE MaxDirectBlocks
  PROVE  Writes(Put(i, node, k, data, size)) /\ NodeAt(i, Grown(node, k, size))
<1>1. node \in IndexNodes /\ node.size \in Nat /\ NodeOK(node)
  BY NodeParts DEF NodeAt
<1>2. NodeAt(i, Placed(node, k)) /\ Placed(node, k).addr[k] \in Blocks
  BY <1>1, PlacedType DEF NodeOK, NodeAt
<1>3. NodeAt(i, Grown(node, k, size))
  <2> DEFINE g == Grown(node, k, size)
  <2>1. g \in IndexNodes /\ g.size = Larger(node.size, size) /\ g.mode = node.mode
        /\ g.nlink = node.nlink
    BY <1>1, GrownType
  <2> HIDE DEF g
  <2>2. g.size = node.size \/ g.size = size
    BY <2>1 DEF Larger
  <2>3. NodeAt(i, g)
    BY <1>1, <2>1, <2>2 DEF NodeOK, NodeAt
  <2> QED
    BY <2>3 DEF g
<1>4. WriteOK(WriteData(Placed(node, k).addr[k], data))
  BY <1>2 DEF WriteOK, WriteData
<1>5. WriteOK(SetBit(Placed(node, k).addr[k]))
  BY <1>2 DEF WriteOK, SetBit
<1>6. \A w \in PutWrites(i, node, k, data, size) : WriteOK(w)
  BY <1>2, <1>3, <1>4, <1>5, WriteInodeOK DEF PutWrites
<1> QED
  BY <1>3, <1>6, PutIn, WritesOf

(***************************************************************************)
(* Blocks and index nodes freed, and directory blocks.                     *)
(***************************************************************************)
LEMMA BlocksOfType ==
  ASSUME NEW node \in IndexNodes
  PROVE  BlocksOf(node) \in Nat
<1>1. node.size \in Nat /\ PerBlock \in Nat /\ PerBlock >= 2
  BY Sizes DEF IndexNodes
<1>2. node.size + PerBlock - 1 \in Nat
  BY <1>1
<1>3. (node.size + PerBlock - 1) \div PerBlock \in Nat
  BY <1>1, <1>2
<1> QED
  BY <1>1, <1>3 DEF BlocksOf

LEMMA FreeBlocksOK ==
  ASSUME NEW node \in IndexNodes
  PROVE  Writes(FreeBlocks(node))
<1> DEFINE T == {ResetBit(node.addr[k - 1]) : k \in 1 .. BlocksOf(node)}
<1>1. BlocksOf(node) \in Nat
  BY BlocksOfType
<1>2. FreeBlocks(node) \in Seq(T)
  BY <1>1 DEF FreeBlocks
<1>3. \A w \in T : WriteOK(w)
  BY ResetOK
<1> QED
  BY <1>2, <1>3, WritesOf

LEMMA ClearedType ==
  ASSUME NEW node \in IndexNodes, NEW n
  PROVE  /\ ClearedTo(node, n) \in IndexNodes
         /\ ClearedTo(node, n).size = node.size /\ ClearedTo(node, n).mode = node.mode
         /\ ClearedTo(node, n).nlink = node.nlink
<1> DEFINE a == [k \in DOMAIN node.addr |-> IF k < n THEN NoBlock ELSE node.addr[k]]
<1>1. node.addr \in [0 .. MaxDirectBlocks - 1 -> Blocks \cup {NoBlock}]
  BY DEF IndexNodes
<1>2. a \in [0 .. MaxDirectBlocks - 1 -> Blocks \cup {NoBlock}]
  BY <1>1
<1>3. ClearedTo(node, n) = [node EXCEPT !.addr = a]
  BY DEF ClearedTo
<1> HIDE DEF a
<1> QED
  BY <1>2, <1>3 DEF IndexNodes

LEMMA FreeIndexNodeOK ==
  ASSUME DiskOK, NEW i \in Inodes \ {Root}
  PROVE  Writes(freeIndexNode(i))
<1> DEFINE c == ClearedTo(inode[i], BlocksOf(inode[i]))
           node == [c EXCEPT !.nlink = 0, !.size = 0]
<1>1. inode[i] \in IndexNodes
  BY DEF DiskOK
<1>2. c \in IndexNodes
  BY <1>1, ClearedType
<1> HIDE DEF c
<1>3. node \in IndexNodes /\ node.size = 0
  BY <1>2 DEF IndexNodes
<1> HIDE DEF node
<1>4. NodeAt(i, node)
  <2>1. node.size <= MaxDirectBlocks
    BY <1>3, Sizes
  <2> QED
    BY <1>3, <2>1, SmallNodeOK DEF NodeAt
<1>5. Writes(<<WriteInode(i, node)>>)
  BY <1>4, WriteInodeOK, OneWrite
<1>6. freeIndexNode(i) = FreeBlocks(inode[i]) \o <<WriteInode(i, node)>>
  BY DEF freeIndexNode, node, c
<1> QED
  BY <1>1, <1>5, <1>6, FreeBlocksOK, MoreWrites

LEMMA DataWith ==
  ASSUME NEW data \in DataBlocks, NEW k \in 0 .. PerBlock - 1, NEW e \in DirEntries
  PROVE  [data EXCEPT !.entry[k] = e] \in DataBlocks
BY DEF DataBlocks

LEMMA DirBlockType ==
  ASSUME DiskOK, NEW node \in IndexNodes, NEW k \in 0 .. Space - 1, NEW e \in DirEntries
  PROVE  DirBlock(node, k, e) \in DataBlocks
<1>1. k \div PerBlock \in 0 .. MaxDirectBlocks - 1 /\ k % PerBlock \in 0 .. PerBlock - 1
  BY BlockIndex
<1>2. node.addr[k \div PerBlock] \in Blocks \cup {NoBlock}
  BY <1>1 DEF IndexNodes
<1>3. node.addr[k \div PerBlock] # NoBlock => block[node.addr[k \div PerBlock]] \in DataBlocks
  BY <1>2 DEF DiskOK
<1> QED
  BY <1>1, <1>3, BlankType, DataWith DEF DirBlock

LEMMA DotBlockType ==
  ASSUME DiskOK, NEW node \in IndexNodes, NEW k \in {0, 1}, NEW e \in DirEntries
  PROVE  DotBlock(node, k, e) \in DataBlocks
<1>1. 0 \in 0 .. MaxDirectBlocks - 1 /\ k \in 0 .. PerBlock - 1
  BY Sizes
<1>2. node.addr[0] \in Blocks \cup {NoBlock}
  BY <1>1 DEF IndexNodes
<1>3. node.addr[0] # NoBlock => block[node.addr[0]] \in DataBlocks
  BY <1>2 DEF DiskOK
<1> QED
  BY <1>1, <1>3, BlankType, DataWith DEF DotBlock
-----------------------------------------------------------------------------
(***************************************************************************)
(* fsck.                                                                   *)
(***************************************************************************)
LEMMA LinksInType ==
  ASSUME NEW node \in IndexNodes, NEW i
  PROVE  LinksIn(node, i) \in Nat
<1> DEFINE K == {k \in 0 .. node.size - 1 : EntryAt(node, k).ino = i}
<1>1. node.size \in Nat
  BY DEF IndexNodes
<1>2. IsFiniteSet(0 .. node.size - 1)
  BY <1>1, FS_Interval
<1>3. IsFiniteSet(K)
  BY <1>2, FS_Subset
<1>4. Cardinality(K) \in Nat
  BY <1>3, FS_CardinalityType
<1> QED
  BY <1>4 DEF LinksIn

LEMMA SubdirsAre ==
  ASSUME DiskOK
  PROVE  /\ IsFiniteSet(SubdirPositions) /\ SubdirPositions \subseteq 0 .. inode[Root].size - 1
         /\ \A k \in SubdirPositions : SubdirAt(k) \in IndexNodes
<1>1. NodeOK(inode[Root]) /\ inode[Root].size \in Nat
  BY NodeParts, NoInodeOut DEF DiskOK, NodeAt
<1>2. SubdirPositions \subseteq 0 .. inode[Root].size - 1
  BY DEF SubdirPositions
<1>3. IsFiniteSet(0 .. inode[Root].size - 1)
  BY <1>1, FS_Interval
<1>4. ASSUME NEW k \in SubdirPositions PROVE SubdirAt(k) \in IndexNodes
  <2> DEFINE name == EntryAt(inode[Root], k).name
  <2>1. k \in Positions(inode[Root], name)
    BY <1>2 DEF Positions
  <2>2. NodeIn(inode[Root], name) \in Inodes
    BY <1>1, <2>1, NodeInFound
  <2> QED
    BY <2>2 DEF SubdirAt, DiskOK
<1> QED
  BY <1>2, <1>3, <1>4, FS_Subset

\* The sum over the subdirectories, counted as shares.
LinksBelow(i) == MapThenSumSet(LAMBDA k : LinksIn(SubdirAt(k), i), SubdirPositions)

InSubdirs(i) == [k \in SubdirPositions |-> LinksIn(SubdirAt(k), i)]

LEMMA SumOverSubdirs ==
  ASSUME DiskOK, NEW i
  PROVE  /\ LinksBelow(i) = Cardinality(Shares(InSubdirs(i), SubdirPositions))
         /\ Cardinality(Shares(InSubdirs(i), SubdirPositions)) \in Nat
<1> DEFINE P == SubdirPositions
           X(k) == LinksIn(SubdirAt(k), i)
           f == InSubdirs(i)
           Sums(g) == g = [s \in SUBSET P |->
                             IF s = {} THEN 0
                             ELSE LET x == CHOOSE x \in s : TRUE IN X(x) + g[s \ {x}]]
           counts == [s \in SUBSET P |-> Cardinality(Shares(f, s))]
           sum == CHOOSE g : Sums(g)
<1>1. IsFiniteSet(P) /\ \A k \in P : X(k) = f[k] /\ f[k] \in Nat
  BY SubdirsAre, LinksInType DEF InSubdirs
<1>2. LinksBelow(i) = sum[P]
  BY Zenon DEF LinksBelow, MapThenSumSet, MapThenFoldSet
<1> HIDE DEF f, P, X
<1>3. ASSUME NEW s \in SUBSET P, s # {}
      PROVE  LET x == CHOOSE x \in s : TRUE IN counts[s] = X(x) + counts[s \ {x}]
  <2> DEFINE x == CHOOSE x \in s : TRUE
  <2>1. x \in s
    BY <1>3
  <2> HIDE DEF x
  <2>2. IsFiniteSet(s) /\ \A y \in s : f[y] \in Nat
    BY <1>1, FS_Subset
  <2>3. Cardinality(Shares(f, s)) = f[x] + Cardinality(Shares(f, s \ {x}))
    BY <2>1, <2>2, SharesRemoved
  <2>4. counts[s] = X(x) + counts[s \ {x}]
    BY <1>1, <2>1, <2>3
  <2> QED
    BY <2>4 DEF x
<1>4. counts[{}] = 0
  <2> Shares(f, {}) = {}
    BY DEF Shares
  <2> QED
    BY FS_EmptySet
<1>5. Sums(counts)
  <2>1. counts = [s \in SUBSET P |-> counts[s]]
    OBVIOUS
  <2> HIDE DEF counts
  <2> QED
    BY <1>3, <1>4, <2>1
<1>6. Sums(sum)
  <2> HIDE DEF Sums
  <2> QED
    BY <1>5
<1> HIDE DEF sum, counts
<1>7. sum[{}] = 0
  BY <1>6
<1>8. ASSUME NEW s \in SUBSET P, s # {}
      PROVE  \E x \in s : sum[s] = f[x] + sum[s \ {x}]
  <2> DEFINE x == CHOOSE x \in s : TRUE
  <2>1. sum[s] = X(x) + sum[s \ {x}]
    BY <1>6, <1>8
  <2>2. x \in s
    BY <1>8
  <2> HIDE DEF x
  <2> QED
    BY <1>1, <2>1, <2>2
<1>9. sum[P] = Cardinality(Shares(f, P))
  <2> HIDE DEF Sums
  <2> QED
    BY <1>1, <1>7, <1>8, SumIsShares
<1>10. Cardinality(Shares(f, P)) \in Nat
  BY <1>1, SharesFinite
<1> QED
  BY <1>2, <1>9, <1>10 DEF f, P

LEMMA LinkCountsAre ==
  \A i \in Inodes :
    linkCounts[i] = (IF i = Root THEN 1 ELSE 0) + LinksIn(inode[Root], i) + LinksBelow(i)
BY Zenon DEF linkCounts, LinksBelow, MapThenSumSet, MapThenFoldSet

LEMMA LinkCountsType ==
  ASSUME DiskOK
  PROVE  \A i \in Inodes : linkCounts[i] \in Nat /\ (i = Root => linkCounts[i] # 0)
<1> SUFFICES ASSUME NEW i \in Inodes
             PROVE  linkCounts[i] \in Nat /\ (i = Root => linkCounts[i] # 0)
  OBVIOUS
<1>1. LinksBelow(i) \in Nat
  BY SumOverSubdirs
<1>2. LinksIn(inode[Root], i) \in Nat
  BY LinksInType, NoInodeOut DEF DiskOK
<1> QED
  BY <1>1, <1>2, LinkCountsAre

LEMMA RepairLinksOK ==
  ASSUME DiskOK
  PROVE  Writes(FlattenSeq([i \in 1 .. NumInodes |-> RepairLinks(i - 1)]))
<1> DEFINE f == [i \in 1 .. NumInodes |-> RepairLinks(i - 1)]
<1>1. ASSUME NEW i \in Inodes PROVE Writes(RepairLinks(i))
  <2>1. linkCounts[i] \in Nat /\ (i = Root => linkCounts[i] # 0) /\ NodeAt(i, inode[i])
    BY LinkCountsType DEF DiskOK
  <2>2. CASE linkCounts[i] = inode[i].nlink
    BY <2>2, NoWrites DEF RepairLinks
  <2>3. CASE linkCounts[i] # inode[i].nlink /\ linkCounts[i] = 0
    BY <2>1, <2>3, FreeIndexNodeOK DEF RepairLinks
  <2>4. CASE linkCounts[i] # inode[i].nlink /\ linkCounts[i] # 0
    <3> DEFINE node == [inode[i] EXCEPT !.nlink = linkCounts[i]]
    <3>1. NodeAt(i, node)
      BY <2>1, <2>4 DEF NodeAt, NodeOK, IndexNodes
    <3>2. RepairLinks(i) = <<WriteInode(i, node)>>
      BY <2>4 DEF RepairLinks
    <3> HIDE DEF node
    <3> QED
      BY <3>1, <3>2, WriteInodeOK, OneWrite
  <2> QED
    BY <2>2, <2>3, <2>4
<1>2. \A i \in 1 .. NumInodes : Writes(f[i])
  <2>1. \A i \in 1 .. NumInodes : i - 1 \in Inodes
    BY Sizes DEF Inodes
  <2> QED
    BY <1>1, <2>1
<1>3. f = [i \in 1 .. NumInodes |-> f[i]]
  OBVIOUS
<1> HIDE DEF f
<1>4. Writes(FlattenSeq(f))
  BY <1>2, <1>3, Sizes, WritesInTurn
<1> QED
  BY <1>4 DEF f

LEMMA RepairBitsOK ==
  Writes(FlattenSeq([b \in 1 .. NumBlocks |-> RepairBit(b - 1)]))
<1> DEFINE f == [b \in 1 .. NumBlocks |-> RepairBit(b - 1)]
<1>1. ASSUME NEW b \in Blocks PROVE Writes(RepairBit(b))
  <2>1. WriteOK(ResetBit(b)) /\ WriteOK(SetBit(b))
    BY ResetOK DEF WriteOK, SetBit
  <2> QED
    BY <2>1, NoWrites, OneWrite DEF RepairBit
<1>2. \A b \in 1 .. NumBlocks : Writes(f[b])
  <2>1. \A b \in 1 .. NumBlocks : b - 1 \in Blocks
    BY Sizes DEF Blocks
  <2> QED
    BY <1>1, <2>1
<1>3. f = [b \in 1 .. NumBlocks |-> f[b]]
  OBVIOUS
<1> HIDE DEF f
<1>4. Writes(FlattenSeq(f))
  BY <1>2, <1>3, Sizes, WritesInTurn
<1> QED
  BY <1>4 DEF f
-----------------------------------------------------------------------------
(***************************************************************************)
(* The invariant at the beginning, and the steps that end a program.       *)
(***************************************************************************)
LEMMA FreshMem == Fresh \in Mems /\ \A node \in {Fresh.root, Fresh.file, Fresh.dir} : NodeOK(node)
<1>1. 0 \in Blocks /\ 0 \in Inodes /\ Root \in Inodes
  BY Sizes DEF Blocks, Inodes, Root
<1>2. Fresh \in Mems
  BY <1>1, FreshTypes, BlankType DEF Fresh, Mems
<1>3. Fresh.root = Zeroed /\ Fresh.file = Zeroed /\ Fresh.dir = Zeroed
  BY DEF Fresh
<1> QED
  BY <1>2, <1>3, FreshTypes

LEMMA InitFs == Init => FsInv
<1> SUFFICES ASSUME Init PROVE FsInv
  OBVIOUS
<1>1. Writes(pending)
  BY NoWrites DEF Init
<1>2. DiskOK
  <2> DEFINE first == [NoAddresses EXCEPT ![0] = 0]
             node == [mode |-> "dir", nlink |-> 3, size |-> 2, addr |-> first]
  <2>1. 0 \in Blocks /\ Root \in Inodes /\ 0 \in 0 .. MaxDirectBlocks - 1
    BY Sizes, NoInodeOut DEF Blocks
  <2>2. first \in [0 .. MaxDirectBlocks - 1 -> Blocks \cup {NoBlock}]
    BY <2>1, FreshTypes
  <2> HIDE DEF first
  <2>3. NodeOK(node) /\ node.mode = "dir" /\ node.nlink > 0
    BY <2>2, Sizes DEF NodeOK, IndexNodes
  <2> HIDE DEF node
  <2>4. inode = [i \in Inodes |-> IF i = Root THEN node ELSE Zeroed]
    BY DEF Init, node, first
  <2>5. inode \in [Inodes -> IndexNodes] /\ \A i \in Inodes : NodeAt(i, inode[i])
    BY <2>3, <2>4, FreshTypes DEF NodeOK, NodeAt
  <2>6. block \in [Blocks -> DataBlocks]
    <3> DEFINE b0 == [Data EXCEPT !.entry[0] = Entry(Root, Dot)]
               b1 == [b0 EXCEPT !.entry[1] = Entry(Root, DotDot)]
    <3>1. Entry(Root, Dot) \in DirEntries /\ Entry(Root, DotDot) \in DirEntries
      BY <2>1, EntryType
    <3>2. 0 \in 0 .. PerBlock - 1 /\ 1 \in 0 .. PerBlock - 1
      BY Sizes
    <3>3. b0 \in DataBlocks
      BY <3>1, <3>2, BlankType, DataWith
    <3> HIDE DEF b0
    <3>4. b1 \in DataBlocks
      BY <3>1, <3>2, <3>3, DataWith
    <3>5. block = [b \in Blocks |-> IF b = 0 THEN b1 ELSE Data]
      BY DEF Init, b0
    <3> HIDE DEF b1
    <3> QED
      BY <3>4, <3>5, BlankType
  <2> QED
    BY <2>1, <2>5, <2>6 DEF DiskOK, Init
<1>3. CallOK
  BY DEF Init, CallOK
<1>4. MemOK
  BY FreshMem DEF Init, MemOK, FileOK, DirOK, Idle
<1>5. PathOK /\ DirExists
  BY DEF Init, PathOK, DirExists, Opening
<1> QED
  BY <1>1, <1>2, <1>3, <1>4, <1>5 DEF FsInv

LEMMA SameDisk ==
  ASSUME DiskOK, UNCHANGED disk
  PROVE  DiskOK'
BY DEF DiskOK, disk, NodeOK, NodeAt

\* Between two programs only the disk matters.
LEMMA AtRest ==
  ASSUME FsInv, UNCHANGED disk, pc' = "idle", call' = Idle, pending' = <<>>, mem' = Fresh
  PROVE  FsInv'
<1>1. DiskOK'
  BY SameDisk DEF FsInv
<1>2. MemOK'
  BY FreshMem DEF MemOK, FileOK, DirOK, Idle
<1>3. CallOK' /\ PathOK' /\ DirExists'
  BY DEF CallOK, PathOK, DirExists, Opening
<1> QED
  BY <1>1, <1>2, <1>3, NoWrites DEF FsInv

LEMMA Kinds ==
  /\ \A c \in CreateCalls : c.kind = "create" /\ c.path \in Paths /\ c.blocks \in 0 .. MaxContent
  /\ \A c \in MkdirCalls : c.kind = "mkdir" /\ c.path \in Paths /\ Len(c.path) = 1
  /\ \A c \in LinkCalls : c.kind = "link" /\ c.path \in Paths /\ c.old \in Paths
  /\ \A c \in SymlinkCalls : c.kind = "symlink" /\ c.path \in Paths /\ c.old \in Links
  /\ \A c \in UnlinkCalls : c.kind = "unlink" /\ c.path \in Paths
  /\ \A c \in FsckCalls : c.kind = "fsck"
BY DEF CreateCalls, MkdirCalls, LinkCalls, SymlinkCalls, UnlinkCalls, FsckCalls, Paths, Links

\* A program ends, perhaps with a last write.
LEMMA ExitKeeps ==
  ASSUME FsInv, UNCHANGED disk, pc # "idle", NEW ok \in BOOLEAN, Exit(ok), Writes(pending'),
         call' = call \/ (call \in FsckCalls /\ call' \in FsckCalls)
  PROVE  FsInv'
<1>1. pc' = "exit" /\ mem' = [mem EXCEPT !.ok = ok] /\ mem \in Mems
  BY DEF Exit, FsInv, MemOK
<1>2. DiskOK'
  BY SameDisk DEF FsInv
<1>3. CallOK'
  BY <1>1 DEF FsInv, CallOK, InsertPcs
<1>4. MemOK'
  <2>1. mem' \in Mems
    BY <1>1 DEF Mems
  <2>2. mem'.root = mem.root /\ mem'.file = mem.file /\ mem'.dir = mem.dir
    BY <1>1 DEF Mems
  <2>3. call'.kind \notin {"none", "fsck"} => call'.kind = call.kind
    BY Kinds
  <2>4. NodeOK(mem.root) /\ NodeOK(mem.file) /\ NodeOK(mem.dir)
        /\ (call.kind \notin {"none", "fsck"} => RootOK)
    BY DEF FsInv, MemOK
  <2> QED
    BY <1>1, <2>1, <2>2, <2>3, <2>4 DEF MemOK, RootOK, FileOK, DirOK
<1>5. PathOK' /\ DirExists'
  BY <1>1 DEF PathOK, DirExists, Opening
<1> QED
  BY <1>2, <1>3, <1>4, <1>5 DEF FsInv

LEMMA Failures ==
  ASSUME FsInv
  PROVE  /\ CreatFails => FsInv' 
         /\ InsertFails => FsInv'
         /\ WriteFails \/ Close => FsInv'
         /\ MkdirFails => FsInv'
         /\ LinkFails => FsInv'
         /\ SymlinkFails => FsInv'
         /\ UnlinkFails => FsInv'
         /\ FsckFails => FsInv'
<1>1. Writes(pending)
  BY DEF FsInv
<1>2. ASSUME UNCHANGED disk, UNCHANGED <<pending, call>>, pc # "idle", Exit(TRUE) \/ Exit(FALSE)
      PROVE  FsInv'
  BY <1>1, <1>2, ExitKeeps
<1> QED
  BY <1>2 DEF CreatFails, InsertFails, WriteFails, WriteMore, Close, MkdirFails, LinkFails,
              SymlinkFails, UnlinkFails, FsckFails, Ready

\* Root and its directory entries are where they were, and pending is gentle.
LEMMA WayKept ==
  ASSUME WayOK, UNCHANGED disk, mem'.root = mem.root,
         \A k \in DOMAIN pending' : GentleWrite(pending'[k])
  PROVE  WayOK'
<1>1. RootBlocks' = RootBlocks
  BY DEF RootBlocks
<1>2. \A k : EntryAt(mem.root, k)' = EntryAt(mem.root, k)
  BY DEF EntryAt, disk
<1>3. \A k \in DOMAIN pending' : GentleWrite(pending[k])'
  BY <1>1 DEF GentleWrite
<1> QED
  BY <1>1, <1>2, <1>3 DEF WayOK, disk
-----------------------------------------------------------------------------
(***************************************************************************)
(* A program starts; a write reaches the disk.                             *)
(***************************************************************************)
LEMMA StartKeeps ==
  ASSUME FsInv, NEW c, NEW at \in {"creat", "link", "symlink", "unlink"}, Start(c, at), CallOK'
  PROVE  FsInv'
<1>1. /\ pc = "idle" /\ pc' = at /\ mem' = [Fresh EXCEPT !.root = inode[Root]]
      /\ Consistent /\ UNCHANGED disk /\ UNCHANGED pending
  BY DEF Start
<1>2. pending = <<>> /\ DiskOK
  BY <1>1 DEF FsInv, CallOK, InsertPcs
<1>3. Writes(pending') /\ DiskOK'
  BY <1>1, <1>2, NoWrites, SameDisk
<1>4. /\ inode[Root] \in IndexNodes /\ NodeAt(Root, inode[Root]) /\ NodeOK(inode[Root])
      /\ inode[Root].nlink > 0 /\ AddressesOf(Root) \subseteq bitmap
  BY <1>1, <1>2, NoInodeOut, RootIsLive DEF DiskOK, Consistent, NodeAt
<1>5. mem' \in Mems /\ mem'.root = inode[Root] /\ NodeOK(mem'.file) /\ NodeOK(mem'.dir)
  BY <1>1, <1>4, FreshMem DEF Mems
<1>6. MemOK'
  BY <1>1, <1>4, <1>5, NoInodeOut DEF MemOK, RootOK, FileOK, DirOK, NodeAt
<1>7. WayOK'
  <2>1. inode' = inode /\ bitmap' = bitmap /\ block' = block
    BY <1>1 DEF disk
  <2>2. RootBlocks' = AddressesOf(Root)
    BY <1>5 DEF RootBlocks, AddressesOf
  <2>3. \A k \in 0 .. mem'.root.size - 1 : inode'[(EntryAt(mem.root, k)').ino].nlink > 0
    <3> SUFFICES ASSUME NEW k \in 0 .. inode[Root].size - 1
                 PROVE  inode'[(EntryAt(mem.root, k)').ino].nlink > 0
      BY <1>5
    <3>1. EntryAt(mem.root, k)' = EntryAt(inode[Root], k)
      BY <1>5, <2>1 DEF EntryAt
    <3>2. inode[EntryAt(inode[Root], k).ino].nlink > 0
      BY <1>1, <1>2, ReferredIsLive DEF Consistent
    <3> QED
      BY <2>1, <3>1, <3>2
  <2>4. DOMAIN pending' = {}
    BY <1>1, <1>2
  <2> QED
    BY <1>4, <2>1, <2>2, <2>3, <2>4 DEF WayOK
<1>8. PathOK' /\ DirExists'
  BY <1>1, <1>7 DEF PathOK, DirExists
<1> QED
  BY <1>3, <1>6, <1>8 DEF FsInv

LEMMA Starts ==
  ASSUME FsInv, Create \/ Mkdir \/ Ln \/ LnS \/ Rm
  PROVE  FsInv'
<1>1. CASE Create
  <2>1. PICK p \in Paths, n \in 0 .. MaxContent :
          Start([kind |-> "create", path |-> p, blocks |-> n], "creat")
    BY <1>1 DEF Create
  <2>2. CallOK'
    BY <2>1 DEF Start, CallOK, CreateCalls
  <2> QED
    BY <2>1, <2>2, StartKeeps
<1>2. CASE Mkdir
  <2>1. PICK a \in Subdirs, more \in {<<>>} \cup {<<<<b>>>> : b \in Inner} :
          Start([kind |-> "mkdir", path |-> <<a>>, more |-> more], "creat")
    BY <1>2 DEF Mkdir
  <2>2. CallOK'
    BY <2>1, FileSystemAssumption DEF Start, CallOK, MkdirCalls
  <2> QED
    BY <2>1, <2>2, StartKeeps
<1>3. CASE Ln
  <2>1. PICK p \in Paths, q \in Paths : Start([kind |-> "link", path |-> q, old |-> p], "link")
    BY <1>3 DEF Ln
  <2>2. CallOK'
    BY <2>1 DEF Start, CallOK, LinkCalls
  <2> QED
    BY <2>1, <2>2, StartKeeps
<1>4. CASE LnS
  <2>1. PICK n \in Names, q \in Paths :
          Start([kind |-> "symlink", path |-> q, old |-> <<n>>], "symlink")
    BY <1>4 DEF LnS
  <2>2. CallOK'
    BY <2>1 DEF Start, CallOK, SymlinkCalls
  <2> QED
    BY <2>1, <2>2, StartKeeps
<1>5. CASE Rm
  <2>1. PICK p \in Paths : Start([kind |-> "unlink", path |-> p], "unlink")
    BY <1>5 DEF Rm
  <2>2. CallOK'
    BY <2>1 DEF Start, CallOK, UnlinkCalls
  <2> QED
    BY <2>1, <2>2, StartKeeps
<1> QED
  BY <1>1, <1>2, <1>3, <1>4, <1>5

LEMMA FlushedDisk ==
  ASSUME DiskOK, Writes(pending), Flush
  PROVE  DiskOK' /\ Writes(pending')
<1> DEFINE w == Head(pending)
<1>1. WriteOK(w) /\ Writes(Tail(pending))
  BY FirstWrite DEF Flush
<1>2. /\ bitmap' = CASE w.to # "bitmap" -> bitmap
                     [] w.to = "bitmap" /\ w.set -> bitmap \cup {w.at}
                     [] OTHER -> bitmap \ {w.at}
      /\ inode' = IF w.to = "inode" THEN [inode EXCEPT ![w.at] = w.node] ELSE inode
      /\ block' = IF w.to = "block" THEN [block EXCEPT ![w.at] = w.data] ELSE block
      /\ pending' = Tail(pending)
  BY DEF Flush
<1> HIDE DEF w
<1>3. bitmap' \subseteq Blocks
  BY <1>1, <1>2 DEF DiskOK, WriteOK
<1>4. inode' \in [Inodes -> IndexNodes] /\ \A i \in Inodes : NodeAt(i, inode'[i])
  <2>1. CASE w.to = "inode"
    <3>1. w.at \in Inodes /\ NodeAt(w.at, w.node) /\ w.node \in IndexNodes
      BY <1>1, <2>1 DEF WriteOK, NodeOK, NodeAt
    <3> QED
      BY <1>2, <2>1, <3>1 DEF DiskOK
  <2>2. CASE w.to # "inode"
    BY <1>2, <2>2 DEF DiskOK
  <2> QED
    BY <2>1, <2>2
<1>5. block' \in [Blocks -> DataBlocks]
  BY <1>1, <1>2 DEF DiskOK, WriteOK
<1> QED
  BY <1>1, <1>2, <1>3, <1>4, <1>5 DEF DiskOK, NodeOK, NodeAt

\* The way into the directory stays open.
LEMMA FlushedWay ==
  ASSUME FsInv, Flush, WayOK, call.kind \notin {"none", "fsck"}
  PROVE  WayOK'
<1> DEFINE w == Head(pending)
<1>1. /\ WriteOK(w) /\ w = pending[1] /\ 1 \in DOMAIN pending
      /\ \A k \in DOMAIN Tail(pending) : k + 1 \in DOMAIN pending /\ Tail(pending)[k] = pending[k + 1]
  BY FirstWrite DEF Flush, FsInv
<1>2. /\ bitmap' = CASE w.to # "bitmap" -> bitmap
                     [] w.to = "bitmap" /\ w.set -> bitmap \cup {w.at}
                     [] OTHER -> bitmap \ {w.at}
      /\ inode' = IF w.to = "inode" THEN [inode EXCEPT ![w.at] = w.node] ELSE inode
      /\ block' = IF w.to = "block" THEN [block EXCEPT ![w.at] = w.data] ELSE block
      /\ pending' = Tail(pending) /\ mem' = mem
  BY DEF Flush
<1>3. GentleWrite(w)
  BY <1>1 DEF WayOK
<1> HIDE DEF w
<1>4. DiskOK /\ mem \in Mems /\ NodeOK(mem.root) /\ RootOK
  BY DEF FsInv, MemOK
<1>5. RootBlocks' = RootBlocks /\ RootBlocks \subseteq bitmap'
  BY <1>2, <1>3 DEF RootBlocks, GentleWrite, WayOK
<1>6. \A k \in 0 .. mem.root.size - 1 : inode'[(EntryAt(mem.root, k)').ino].nlink > 0
  <2> SUFFICES ASSUME NEW k \in 0 .. mem.root.size - 1
               PROVE  inode'[(EntryAt(mem.root, k)').ino].nlink > 0
    OBVIOUS
  <2>1. k \in 0 .. Space - 1 /\ mem.root \in IndexNodes
    BY <1>4, NodeParts, Sizes DEF RootOK
  <2>2. k \div PerBlock \in 0 .. MaxDirectBlocks - 1
    BY <2>1, BlockIndex
  <2>3. EntryAt(mem.root, k)' = EntryAt(mem.root, k)
    <3> DEFINE b == mem.root.addr[k \div PerBlock]
    <3>1. b \in Blocks \cup {NoBlock} /\ (b # NoBlock => b \in RootBlocks)
      BY <2>1, <2>2 DEF IndexNodes, RootBlocks, NoAddresses
    <3>2. b # NoBlock => block'[b] = block[b]
      BY <1>2, <1>3, <1>4, <3>1 DEF GentleWrite, DiskOK
    <3> QED
      BY <1>2, <3>2 DEF EntryAt
  <2>4. inode[EntryAt(mem.root, k).ino].nlink > 0 /\ EntryAt(mem.root, k).ino \in Inodes
    <3>1. EntryAt(mem.root, k) \in DirEntries
      BY <1>4, <2>1, EntryAtType
    <3> QED
      BY <3>1 DEF WayOK, DirEntries
  <2> QED
    BY <1>2, <1>3, <1>4, <2>3, <2>4 DEF GentleWrite, DiskOK
<1>7. \A k \in DOMAIN pending' : GentleWrite(pending[k])'
  <2>1. \A k \in DOMAIN pending' : GentleWrite(pending'[k])
    BY <1>1, <1>2 DEF WayOK
  <2> QED
    BY <1>5, <2>1 DEF GentleWrite
<1> QED
  BY <1>2, <1>5, <1>6, <1>7 DEF WayOK

LEMMA FlushKeeps ==
  ASSUME FsInv, Flush
  PROVE  FsInv'
<1>1. Writes(pending) /\ DiskOK /\ CallOK /\ MemOK /\ PathOK /\ DirExists
  BY DEF FsInv
<1>2. UNCHANGED <<pc, call, mem>> /\ pending # <<>> /\ pending' = Tail(pending)
  BY DEF Flush
<1>3. DiskOK' /\ Writes(pending')
  BY <1>1, FlushedDisk
<1>4. CallOK'
  BY <1>1, <1>2 DEF CallOK
<1>5. MemOK'
  BY <1>1, <1>2 DEF MemOK, NodeOK, RootOK, FileOK, DirOK
<1>6. PathOK'
  <2>1. ASSUME pc \in Opening, call.kind # "mkdir" PROVE WayOK'
    <3>1. call.kind \notin {"none", "fsck"}
      BY <1>1, <2>1, Kinds DEF CallOK, InsertPcs, Opening, Idle
    <3>2. WayOK
      BY <1>1, <2>1 DEF PathOK
    <3> QED
      BY <3>1, <3>2, FlushedWay
  <2> QED
    BY <1>2, <2>1 DEF PathOK
<1>7. DirExists'
  <2> SUFFICES ASSUME pc = "insert", call.kind = "create"
               PROVE  IsDir(DirOf(call.path))' /\ pending' = <<>>
    BY <1>2 DEF DirExists
  <2>1. IsDir(DirOf(call.path)) /\ NodeOK(mem.root) /\ WayOK
    BY <1>1 DEF DirExists, MemOK, PathOK, Opening
  <2>2. PICK w : pending = <<w>> /\ w.to = "inode" /\ w.at \in Inodes /\ inode[w.at].nlink = 0
    BY <1>1, <1>2 DEF DirExists
  <2>3. block' = block /\ \A i \in Inodes : inode[i].nlink > 0 => inode'[i] = inode[i]
    BY <1>1, <2>2 DEF Flush, DiskOK
  <2>4. PICK p \in Paths : p = call.path
    BY <1>1, Kinds DEF CallOK, Idle
  <2>5. IsDir(DirOf(p))'
    BY <1>1, <1>2, <2>1, <2>3, <2>4, DirStays
  <2>6. IsDir(DirOf(call.path))'
    BY <1>2, <2>4, <2>5 DEF IsDir, CopyOf, DirOf
  <2>7. pending' = <<>>
    BY <1>2, <2>2
  <2> QED
    BY <2>6, <2>7
<1> QED
  BY <1>3, <1>4, <1>5, <1>6, <1>7 DEF FsInv
-----------------------------------------------------------------------------
(***************************************************************************)
(* creat.                                                                  *)
(***************************************************************************)
\* Which programs can be at a place.
LEMMA WhoIsAt ==
  ASSUME CallOK
  PROVE  /\ pc = "creat" => call \in CreateCalls \cup MkdirCalls
         /\ pc \in {"insert", "place"} =>
              call \in CreateCalls \cup MkdirCalls \cup LinkCalls \cup SymlinkCalls
         /\ pc = "write" => call \in CreateCalls
         /\ pc \in {"dot", "inc", "dotdot", "parent"} => call \in MkdirCalls
         /\ pc \in {"link", "linked"} => call \in LinkCalls
         /\ pc \in {"symlink", "target", "undo"} => call \in SymlinkCalls
         /\ pc \in {"unlink", "pull"} => call \in UnlinkCalls
         /\ pc \in {"fsck", "fsckBlocks"} => call \in FsckCalls
BY DEF CallOK, InsertPcs

LEMMA StepKeeps ==
  ASSUME FsInv, UNCHANGED disk, Writes(pending'), CallOK', MemOK', PathOK', DirExists'
  PROVE  FsInv'
BY SameDisk DEF FsInv

LEMMA CreatNewKeeps ==
  ASSUME FsInv, CreatNew
  PROVE  FsInv'
<1> DEFINE i    == allocateIndexNode
           mode == IF call.kind = "mkdir" THEN "dir" ELSE "file"
           node == IF BrokenLink(call.path)
                   THEN [inode[EntryNode(DirOf(call.path), Last(call.path))]
                           EXCEPT !.mode = mode, !.nlink = 1]
                   ELSE New(mode)
<1>1. /\ pc = "creat" /\ pending = <<>> /\ IsDir(DirOf(call.path)) /\ UNCHANGED disk
      /\ call' = call
      /\ IF i = NoInode THEN Exit(FALSE) /\ UNCHANGED pending
         ELSE /\ pending' = <<WriteInode(i, node)>>
              /\ mem' = [mem EXCEPT !.ino = i, !.file = node, !.inoHint = (i + 1) % NumInodes]
              /\ pc' = "insert"
  BY DEF CreatNew, Ready
<1>2. DiskOK /\ CallOK /\ PathOK /\ mem \in Mems /\ NodeOK(mem.root) /\ NodeOK(mem.dir)
      /\ (call.kind \notin {"none", "fsck"} => RootOK)
  BY DEF FsInv, MemOK
<1>3. call \in CreateCalls \cup MkdirCalls /\ call.path \in Paths
      /\ call.kind \in {"create", "mkdir"}
  BY <1>1, <1>2, WhoIsAt, Kinds
<1>4. CASE i = NoInode
  <2>1. Writes(pending')
    BY <1>1, <1>4 DEF FsInv
  <2> QED
    BY <1>1, <1>4, <2>1, ExitKeeps
<1>5. CASE i # NoInode
  <2>1. i \in Inodes \ {Root} /\ inode[i].nlink = 0 /\ (i + 1) % NumInodes \in Inodes
    BY <1>2, <1>5, AllocateIndexNodeType, NextHint DEF Mems
  <2>2. node \in IndexNodes /\ node.size <= MaxDirectBlocks /\ node.nlink = 1
    <3>1. CASE BrokenLink(call.path)
      <4> DEFINE j == EntryNode(DirOf(call.path), Last(call.path))
      <4>1. j \in Inodes /\ inode[j].mode = "link"
        BY <1>1, <1>2, <1>3, <3>1, BrokenIsLink
      <4> HIDE DEF j
      <4>2. NodeOK(inode[j]) /\ inode[j] \in IndexNodes /\ inode[j].size <= MaxDirectBlocks
        BY <1>2, <4>1, NodeParts DEF DiskOK, NodeAt
      <4>3. node = [inode[j] EXCEPT !.mode = mode, !.nlink = 1]
        BY <3>1 DEF j
      <4> HIDE DEF node
      <4> QED
        BY <4>2, <4>3 DEF IndexNodes
    <3>2. CASE ~ BrokenLink(call.path)
      <4>1. node = New(mode) /\ mode \in {"dir", "file", "link"}
        BY <3>2
      <4> HIDE DEF node, mode
      <4> QED
        BY <4>1, FreshTypes, Sizes
    <3> QED
      BY <3>1, <3>2
  <2> HIDE DEF node, i
  <2>3. NodeOK(node)
    BY <2>2, SmallNodeOK
  <2>4. /\ pending' = <<WriteInode(i, node)>> /\ pc' = "insert"
        /\ mem' = [mem EXCEPT !.ino = i, !.file = node, !.inoHint = (i + 1) % NumInodes]
    BY <1>1, <1>5
  <2>5. Writes(pending')
    BY <2>1, <2>3, <2>4, WriteInodeOK, OneWrite DEF NodeAt
  <2>6. /\ mem' \in Mems /\ mem'.ino = i /\ mem'.file = node /\ mem'.root = mem.root
        /\ mem'.dir = mem.dir
    BY <1>2, <2>1, <2>2, <2>4 DEF Mems
  <2>7. MemOK'
    BY <1>1, <1>2, <2>1, <2>2, <2>3, <2>4, <2>6 DEF MemOK, RootOK, FileOK, DirOK
  <2>8. CallOK'
    BY <1>1, <1>3, <2>4 DEF CallOK, InsertPcs
  <2>9. \A k \in DOMAIN pending' : GentleWrite(pending'[k])
    <3>1. GentleWrite(WriteInode(i, node))
      BY <2>2, <2>3 DEF GentleWrite, WriteInode
    <3> QED
      BY <2>4, <3>1
  <2>10. WayOK => WayOK'
    BY <1>1, <2>6, <2>9, WayKept
  <2>11. call.kind # "mkdir" => WayOK
    BY <1>1, <1>2 DEF PathOK, Opening
  <2>12. PathOK'
    BY <1>1, <2>10, <2>11 DEF PathOK
  <2>13. DirExists'
    <3>1. ASSUME call.kind = "create" PROVE IsDir(DirOf(call.path))'
      <4>1. PICK p \in Paths : p = call.path
        BY <1>3
      <4>2. IsDir(DirOf(p))'
        BY <1>1, <1>2, <2>6, <2>11, <3>1, <4>1, DirStays DEF disk
      <4> QED
        BY <1>1, <4>1, <4>2 DEF IsDir, CopyOf, DirOf
    <3>2. /\ pending' = <<WriteInode(i, node)>> /\ WriteInode(i, node).to = "inode"
          /\ WriteInode(i, node).at = i /\ i \in Inodes /\ inode'[i].nlink = 0
      BY <1>1, <2>1, <2>4 DEF WriteInode, disk
    <3> QED
      BY <1>1, <3>1, <3>2 DEF DirExists
  <2> QED
    BY <1>1, <2>5, <2>7, <2>8, <2>12, <2>13, StepKeeps
<1> QED
  BY <1>4, <1>5

LEMMA CreatTruncatesKeeps ==
  ASSUME FsInv, CreatTruncates
  PROVE  FsInv'
<1> DEFINE i    == findIndexNode[call.path]
           c    == ClearedTo(inode[i], BlocksOf(inode[i]))
           node == [c EXCEPT !.size = 0]
<1>1. /\ pc = "creat" /\ UNCHANGED disk /\ call' = call /\ i # NoInode /\ ~ IsDir(i)
      /\ pending' = FreeBlocks(inode[i]) \o <<WriteInode(i, node)>>
      /\ mem' = [mem EXCEPT !.ino = i, !.file = node, !.done = 0]
      /\ pc' = IF call.kind = "mkdir" THEN "dot" ELSE "write"
  BY DEF CreatTruncates, Ready
<1>2. DiskOK /\ CallOK /\ PathOK /\ mem \in Mems /\ NodeOK(mem.root) /\ NodeOK(mem.dir)
      /\ (call.kind \notin {"none", "fsck"} => RootOK)
  BY DEF FsInv, MemOK
<1>3. call \in CreateCalls \cup MkdirCalls /\ call.path \in Paths
      /\ call.kind \in {"create", "mkdir"}
  BY <1>1, <1>2, WhoIsAt, Kinds
<1>4. i \in Inodes
  BY <1>1, <1>2, <1>3, FindTypes
<1> HIDE DEF i
<1>5. i # Root
  BY <1>1, <1>2, <1>3, <1>4 DEF IsDir, CopyOf, RootOK
<1>6. node \in IndexNodes /\ node.size = 0 /\ inode[i] \in IndexNodes
  <2>1. inode[i] \in IndexNodes
    BY <1>2, <1>4 DEF DiskOK
  <2>2. c \in IndexNodes
    BY <2>1, ClearedType
  <2> HIDE DEF c
  <2> QED
    BY <2>1, <2>2 DEF IndexNodes
<1> HIDE DEF node
<1>7. NodeOK(node) /\ node.size <= MaxDirectBlocks
  BY <1>6, SmallNodeOK, Sizes
<1>8. Writes(pending')
  <2>1. Writes(<<WriteInode(i, node)>>)
    BY <1>4, <1>5, <1>7, WriteInodeOK, OneWrite DEF NodeAt
  <2> QED
    BY <1>1, <1>6, <2>1, FreeBlocksOK, MoreWrites
<1>9. /\ mem' \in Mems /\ mem'.ino = i /\ mem'.file = node /\ mem'.root = mem.root
      /\ mem'.dir = mem.dir
  BY <1>1, <1>2, <1>4, <1>6 DEF Mems
<1>10. MemOK'
  BY <1>1, <1>2, <1>4, <1>5, <1>7, <1>9 DEF MemOK, RootOK, FileOK, DirOK
<1>11. CallOK'
  BY <1>1, <1>3, Kinds DEF CallOK, InsertPcs
<1>12. PathOK' /\ DirExists'
  BY <1>1 DEF PathOK, DirExists, Opening
<1> QED
  BY <1>1, <1>8, <1>10, <1>11, <1>12, StepKeeps
-----------------------------------------------------------------------------
(***************************************************************************)
(* Directory entries.                                                      *)
(***************************************************************************)
LEMMA PlaceInType ==
  ASSUME NEW node \in IndexNodes
  PROVE  PlaceIn(node) \in 0 .. node.size
<1> DEFINE S == {k \in 0 .. node.size - 1 : EntryAt(node, k).name > NewEntry.name} \cup {node.size}
<1>1. node.size \in Nat
  BY DEF IndexNodes
<1>2. S \subseteq Nat /\ S # {} /\ S \subseteq 0 .. node.size
  BY <1>1
<1>3. PlaceIn(node) = Min(S)
  BY DEF PlaceIn
<1> HIDE DEF S
<1>4. Min(S) \in S
  BY <1>2, MinExists
<1> QED
  BY <1>2, <1>3, <1>4

LEMMA OpenDirKeeps ==
  ASSUME FsInv, OpenDir
  PROVE  FsInv'
<1> DEFINE d    == DirOf(call.path)
           node == CopyOf(d)
<1>1. /\ pc = "insert" /\ ~ NoPlace /\ UNCHANGED disk /\ UNCHANGED <<pending, call>>
      /\ mem' = [mem EXCEPT !.dirNo = d, !.dir = node, !.pos = PlaceIn(node), !.carry = NewEntry]
      /\ pc' = "place"
  BY DEF OpenDir, Ready, Opened
<1>2. DiskOK /\ CallOK /\ PathOK /\ DirExists /\ mem \in Mems /\ NodeOK(mem.root)
      /\ NodeOK(mem.file) /\ FileOK /\ (call.kind \notin {"none", "fsck"} => RootOK)
  BY DEF FsInv, MemOK
<1>3. /\ call \in CreateCalls \cup MkdirCalls \cup LinkCalls \cup SymlinkCalls
      /\ call.path \in Paths /\ call.kind \in {"create", "mkdir", "link", "symlink"}
      /\ call.kind = "mkdir" => Len(call.path) = 1
  BY <1>1, <1>2, WhoIsAt, Kinds
<1>4. IsDir(d) /\ d \in Inodes /\ (call.kind = "mkdir" => d = Root)
  <2>1. CASE call.kind = "create"
    BY <1>1, <1>2, <1>3, <2>1, DirOfType DEF DirExists
  <2>2. CASE call.kind = "mkdir"
    BY <1>2, <1>3, <2>2, DirOfType, NoInodeOut DEF RootOK, IsDir, CopyOf
  <2>3. CASE call.kind \in {"link", "symlink"}
    <3>1. IsDir(d)
      BY <1>1, <2>3 DEF NoPlace
    <3> QED
      BY <1>2, <1>3, <2>3, <3>1, DirOfType
  <2> QED
    BY <1>3, <2>1, <2>2, <2>3
<1>5. node.mode = "dir" /\ node \in IndexNodes /\ NodeOK(node)
  BY <1>2, <1>4, CopyType, NodeParts DEF IsDir
<1>6. node.nlink > 0
  <2>1. CASE d = Root
    BY <1>2, <1>3, <2>1 DEF CopyOf, RootOK
  <2>2. CASE d # Root
    <3>1. WayOK
      BY <1>1, <1>2, <1>4, <2>2 DEF PathOK, Opening
    <3>2. d \in RootEntries /\ d # NoInode
      BY <1>2, <1>3, <1>4, DirOfType, NoInodeOut
    <3>3. inode[d].nlink > 0
      BY <1>2, <2>2, <3>1, <3>2, RootEntryLive DEF RootEntries
    <3> QED
      BY <1>4, <2>2, <3>1, <3>3 DEF CopyOf, WayOK
  <2> QED
    BY <2>1, <2>2
<1>7. PlaceIn(node) \in 0 .. node.size /\ PlaceIn(node) \in Nat
  BY <1>5, PlaceInType
<1>8. NewEntry \in DirEntries
  <2>1. mem.ino \in Inodes /\ Last(call.path) \in Names
    BY <1>1, <1>2, <1>3, PathParts DEF FileOK
  <2> QED
    BY <2>1, EntryType DEF NewEntry
<1> HIDE DEF node, d
<1>9. /\ mem' \in Mems /\ mem'.ino = mem.ino /\ mem'.file = mem.file /\ mem'.root = mem.root
      /\ mem'.dir = node /\ mem'.pos = PlaceIn(node)
  BY <1>1, <1>2, <1>4, <1>5, <1>7, <1>8 DEF Mems
<1>10. MemOK'
  BY <1>1, <1>2, <1>3, <1>5, <1>6, <1>7, <1>9 DEF MemOK, RootOK, FileOK, DirOK
<1>11. CallOK'
  BY <1>1, <1>2, <1>3 DEF CallOK, InsertPcs
<1>12. PathOK' /\ DirExists'
  BY <1>1 DEF PathOK, DirExists, Opening
<1>13. Writes(pending')
  BY <1>1 DEF FsInv
<1> QED
  BY <1>1, <1>10, <1>11, <1>12, <1>13, StepKeeps

LEMMA WritedirTypes ==
  ASSUME FsInv, pc \in {"place", "pull"}, NEW k \in 0 .. Space, NEW e \in DirEntries,
         NEW rest \in Mems, rest.dir = mem.dir, writedir(k, e, rest)
  PROVE  /\ Writes(pending') /\ mem' \in Mems /\ NodeOK(mem'.dir)
         /\ mem'.root = rest.root /\ mem'.file = rest.file /\ mem'.ino = rest.ino
         /\ mem'.pos = rest.pos
         /\ mem'.dir.nlink > 0 /\ mem'.dir.mode = "dir"
         /\ mem'.dir.size \in {mem.dir.size, Larger(mem.dir.size, k + 1)}
<1> DEFINE bk   == k \div PerBlock
           data == DirBlock(mem.dir, k, e)
           g    == Grown(mem.dir, bk, k + 1)
           hint == HintAfter(mem.dir, bk)
<1>1. DiskOK /\ mem \in Mems /\ NodeOK(mem.dir) /\ mem.dir.nlink > 0 /\ mem.dir.mode = "dir"
  BY DEF FsInv, MemOK, DirOK
<1>2. mem.dir \in IndexNodes /\ mem.dirNo \in Inodes /\ mem.bitHint \in Blocks
      /\ NodeAt(mem.dirNo, mem.dir) /\ k \in Nat /\ k + 1 \in Nat
  BY <1>1, Sizes DEF Mems, NodeAt
<1>3. CASE CanPlace(mem.dir, bk)
  <2>1. k \in 0 .. Space - 1 /\ k + 1 <= Space
    BY <1>3, Fitting, Sizes
  <2>2. bk \in 0 .. MaxDirectBlocks - 1
    BY <2>1, BlockIndex
  <2>3. pending' = Put(mem.dirNo, mem.dir, bk, data, k + 1)
        /\ mem' = [rest EXCEPT !.dir = g, !.bitHint = hint]
    BY <1>3 DEF writedir
  <2>4. data \in DataBlocks
    BY <1>1, <1>2, <2>1, DirBlockType
  <2> HIDE DEF data
  <2>5. Writes(Put(mem.dirNo, mem.dir, bk, data, k + 1)) /\ NodeAt(mem.dirNo, g)
    BY <1>1, <1>2, <1>3, <2>1, <2>4, <2>2, PutOK
  <2>6. g.size = Larger(mem.dir.size, k + 1) /\ g.mode = mem.dir.mode /\ g.nlink = mem.dir.nlink
        /\ g \in IndexNodes
    BY <1>2, <1>3, <2>2, GrownType
  <2>7. hint \in Blocks
    BY <1>2, <1>3, HintAfterType
  <2> HIDE DEF g, hint, bk
  <2>8. /\ mem' \in Mems /\ mem'.dir = g /\ mem'.root = rest.root /\ mem'.file = rest.file
        /\ mem'.ino = rest.ino /\ mem'.pos = rest.pos
    BY <2>3, <2>6, <2>7 DEF Mems
  <2> QED
    BY <1>1, <2>3, <2>5, <2>6, <2>8 DEF NodeAt
<1>4. CASE ~ CanPlace(mem.dir, bk)
  <2>1. pending' = <<>> /\ mem' = rest
    BY <1>4 DEF writedir
  <2> QED
    BY <1>1, <2>1, NoWrites
<1> QED
  BY <1>3, <1>4

LEMMA PlaceKeeps ==
  ASSUME FsInv, Place
  PROVE  FsInv'
<1> DEFINE e == EntryAt(mem.dir, mem.pos)
<1>1. /\ pc = "place" /\ mem.pos < mem.dir.size /\ UNCHANGED disk /\ UNCHANGED <<pc, call>>
      /\ writedir(mem.pos, mem.carry, [mem EXCEPT !.pos = @ + 1, !.carry = e])
  BY DEF Place, Ready
<1>2. DiskOK /\ CallOK /\ mem \in Mems /\ NodeOK(mem.root) /\ NodeOK(mem.file)
      /\ NodeOK(mem.dir) /\ FileOK /\ DirOK /\ (call.kind \notin {"none", "fsck"} => RootOK)
  BY DEF FsInv, MemOK
<1>3. mem.pos \in 0 .. Space - 1 /\ mem.pos + 1 \in Nat /\ mem.carry \in DirEntries
      /\ mem.dir \in IndexNodes /\ mem.dir.size \in Nat
  BY <1>1, <1>2, NodeParts, Sizes DEF Mems, DirOK
<1>4. e \in DirEntries
  BY <1>2, <1>3, EntryAtType
<1> HIDE DEF e
<1>5. PICK rest : rest = [mem EXCEPT !.pos = @ + 1, !.carry = e]
  OBVIOUS
<1>6. /\ rest \in Mems /\ rest.dir = mem.dir /\ rest.root = mem.root /\ rest.file = mem.file
      /\ rest.ino = mem.ino /\ rest.pos = mem.pos + 1
  BY <1>2, <1>3, <1>4, <1>5 DEF Mems
<1>7. /\ Writes(pending') /\ mem' \in Mems /\ NodeOK(mem'.dir)
      /\ mem'.root = mem.root /\ mem'.file = mem.file /\ mem'.ino = mem.ino
      /\ mem'.pos = mem.pos + 1 /\ mem'.dir.nlink > 0 /\ mem'.dir.mode = "dir"
      /\ mem'.dir.size \in {mem.dir.size, Larger(mem.dir.size, mem.pos + 1)}
  <2>1. mem.pos \in 0 .. Space
    BY <1>3, Sizes
  <2> QED
    BY <1>1, <1>3, <1>5, <1>6, <2>1, WritedirTypes
<1>8. mem'.dir.size = mem.dir.size
  BY <1>1, <1>3, <1>7 DEF Larger
<1>9. MemOK'
  BY <1>1, <1>2, <1>3, <1>7, <1>8 DEF MemOK, NodeOK, RootOK, FileOK, DirOK
<1>10. CallOK' /\ PathOK' /\ DirExists'
  BY <1>1, <1>2 DEF CallOK, InsertPcs, PathOK, DirExists, Opening
<1> QED
  BY <1>1, <1>7, <1>9, <1>10, StepKeeps

LEMMA PlaceLastKeeps ==
  ASSUME FsInv, PlaceLast
  PROVE  FsInv'
<1>1. /\ pc = "place" /\ mem.pos >= mem.dir.size /\ UNCHANGED disk /\ UNCHANGED call
      /\ writedir(mem.pos, mem.carry, mem) /\ pc' = AfterInsert
  BY DEF PlaceLast, Ready
<1>2. DiskOK /\ CallOK /\ mem \in Mems /\ NodeOK(mem.root) /\ NodeOK(mem.file)
      /\ NodeOK(mem.dir) /\ FileOK /\ DirOK /\ (call.kind \notin {"none", "fsck"} => RootOK)
  BY DEF FsInv, MemOK
<1>3. mem.pos \in 0 .. Space /\ mem.carry \in DirEntries
  BY <1>1, <1>2, NodeParts, Sizes DEF Mems, DirOK
<1>4. PICK rest : rest = mem
  OBVIOUS
<1>5. /\ Writes(pending') /\ mem' \in Mems /\ NodeOK(mem'.dir)
      /\ mem'.root = mem.root /\ mem'.file = mem.file /\ mem'.ino = mem.ino
  BY <1>1, <1>2, <1>3, <1>4, WritedirTypes
<1>6. /\ call \in CreateCalls \cup MkdirCalls \cup LinkCalls \cup SymlinkCalls
      /\ call.kind = "create" => call \in CreateCalls
      /\ call.kind = "mkdir" => call \in MkdirCalls
      /\ call.kind = "link" => call \in LinkCalls
      /\ call.kind \notin {"create", "mkdir", "link"} => call \in SymlinkCalls
  BY <1>1, <1>2, WhoIsAt, Kinds
<1>7. pc' = CASE call.kind = "create" -> "write"
              [] call.kind = "mkdir"  -> "dot"
              [] call.kind = "link"   -> "linked"
              [] OTHER                -> "exit"
  BY <1>1 DEF AfterInsert
<1>8. CallOK' /\ PathOK' /\ DirExists'
  BY <1>1, <1>6, <1>7 DEF CallOK, InsertPcs, PathOK, DirExists, Opening
<1>9. MemOK'
  BY <1>1, <1>2, <1>5, <1>7 DEF MemOK, NodeOK, RootOK, FileOK, DirOK
<1> QED
  BY <1>1, <1>5, <1>8, <1>9, StepKeeps

LEMMA PullKeeps ==
  ASSUME FsInv, Pull
  PROVE  FsInv'
<1> DEFINE e == EntryAt(mem.dir, mem.pos + 1)
<1>1. /\ pc = "pull" /\ mem.pos + 1 < mem.dir.size /\ UNCHANGED disk /\ UNCHANGED <<pc, call>>
      /\ writedir(mem.pos, e, [mem EXCEPT !.pos = @ + 1])
  BY DEF Pull, Ready
<1>2. DiskOK /\ CallOK /\ mem \in Mems /\ NodeOK(mem.root) /\ NodeOK(mem.file)
      /\ NodeOK(mem.dir) /\ FileOK /\ DirOK /\ (call.kind \notin {"none", "fsck"} => RootOK)
  BY DEF FsInv, MemOK
<1>3. /\ mem.pos \in 0 .. Space - 1 /\ mem.pos + 1 \in 0 .. Space - 1 /\ mem.pos + 1 \in Nat
      /\ mem.dir \in IndexNodes /\ mem.dir.size \in Nat /\ mem.dir.size <= Space
  BY <1>1, <1>2, NodeParts, Sizes DEF Mems
<1>4. e \in DirEntries
  BY <1>2, <1>3, EntryAtType
<1>5. PICK rest : rest = [mem EXCEPT !.pos = @ + 1]
  OBVIOUS
<1>6. /\ rest \in Mems /\ rest.dir = mem.dir /\ rest.root = mem.root /\ rest.file = mem.file
      /\ rest.ino = mem.ino /\ rest.pos = mem.pos + 1
  BY <1>2, <1>3, <1>5 DEF Mems
<1>7. PICK entry \in DirEntries : entry = e
  BY <1>4
<1> HIDE DEF e
<1>8. /\ Writes(pending') /\ mem' \in Mems /\ NodeOK(mem'.dir)
      /\ mem'.root = mem.root /\ mem'.file = mem.file /\ mem'.ino = mem.ino
      /\ mem'.pos = mem.pos + 1 /\ mem'.dir.nlink > 0 /\ mem'.dir.mode = "dir"
      /\ mem'.dir.size \in {mem.dir.size, Larger(mem.dir.size, mem.pos + 1)}
  <2>1. mem.pos \in 0 .. Space
    BY <1>3, Sizes
  <2> QED
    BY <1>1, <1>3, <1>5, <1>6, <1>7, <2>1, WritedirTypes
<1>9. mem'.dir.size = mem.dir.size
  BY <1>1, <1>3, <1>8 DEF Larger
<1>10. MemOK'
  BY <1>1, <1>2, <1>3, <1>8, <1>9 DEF MemOK, NodeOK, RootOK, FileOK, DirOK
<1>11. CallOK' /\ PathOK' /\ DirExists'
  BY <1>1, <1>2 DEF CallOK, InsertPcs, PathOK, DirExists, Opening
<1> QED
  BY <1>1, <1>8, <1>10, <1>11, StepKeeps
-----------------------------------------------------------------------------
(***************************************************************************)
(* write and mkdir.                                                        *)
(***************************************************************************)
LEMMA WriteKeeps ==
  ASSUME FsInv, Write
  PROVE  FsInv'
<1> DEFINE g    == Grown(mem.file, mem.done, mem.done + 1)
           hint == HintAfter(mem.file, mem.done)
<1>1. /\ pc = "write" /\ mem.done < call.blocks /\ CanPlace(mem.file, mem.done)
      /\ UNCHANGED disk /\ UNCHANGED <<pc, call>>
      /\ pending' = Put(mem.ino, mem.file, mem.done, Data, mem.done + 1)
      /\ mem' = [mem EXCEPT !.file = g, !.bitHint = hint, !.done = @ + 1]
  BY DEF Write, WriteMore, Ready
<1>2. DiskOK /\ CallOK /\ mem \in Mems /\ NodeOK(mem.root) /\ NodeOK(mem.file)
      /\ NodeOK(mem.dir) /\ FileOK /\ (call.kind \notin {"none", "fsck"} => RootOK)
  BY DEF FsInv, MemOK
<1>3. call \in CreateCalls /\ call.kind = "create" /\ call.blocks \in 0 .. MaxContent
  BY <1>1, <1>2, WhoIsAt, Kinds
<1>4. /\ mem.done \in 0 .. MaxDirectBlocks - 1 /\ mem.done + 1 \in Nat
      /\ mem.done + 1 <= MaxDirectBlocks
      /\ mem.file \in IndexNodes /\ mem.bitHint \in Blocks /\ mem.file.size \in Nat
      /\ mem.ino \in Inodes \ {Root} /\ mem.file.size <= MaxDirectBlocks
  <2>1. mem.done \in Nat /\ mem.bitHint \in Blocks /\ mem.file \in IndexNodes
    BY <1>2 DEF Mems
  <2>2. mem.done < MaxDirectBlocks
    BY <1>1 DEF CanPlace
  <2>3. mem.ino \in Inodes \ {Root} /\ mem.file.size <= MaxDirectBlocks
    BY <1>1, <1>2, <1>3 DEF FileOK
  <2>4. mem.file.size \in Nat
    BY <1>2, NodeParts
  <2> QED
    BY <2>1, <2>2, <2>3, <2>4, Sizes
<1>5. Writes(pending') /\ NodeOK(g)
  <2>1. NodeAt(mem.ino, mem.file)
    BY <1>2, <1>4 DEF NodeAt
  <2>2. mem.done + 1 <= IF mem.file.mode = "dir" THEN Space ELSE MaxDirectBlocks
    BY <1>4, Sizes
  <2>3. Writes(Put(mem.ino, mem.file, mem.done, Data, mem.done + 1)) /\ NodeAt(mem.ino, g)
    BY <1>1, <1>4, <2>1, <2>2, BlankType, PutOK
  <2> QED
    BY <1>1, <2>3 DEF NodeAt
<1>6. g \in IndexNodes /\ g.size = Larger(mem.file.size, mem.done + 1)
  BY <1>1, <1>4, GrownType
<1>7. hint \in Blocks
  BY <1>1, <1>4, HintAfterType
<1>8. g.size <= MaxDirectBlocks
  BY <1>4, <1>6 DEF Larger
<1> HIDE DEF g, hint
<1>9. /\ mem' \in Mems /\ mem'.file = g /\ mem'.root = mem.root /\ mem'.dir = mem.dir
      /\ mem'.ino = mem.ino
  BY <1>1, <1>2, <1>4, <1>6, <1>7 DEF Mems
<1>10. MemOK'
  BY <1>1, <1>2, <1>4, <1>5, <1>8, <1>9 DEF MemOK, NodeOK, RootOK, FileOK, DirOK
<1>11. CallOK' /\ PathOK' /\ DirExists'
  BY <1>1, <1>2 DEF CallOK, InsertPcs, PathOK, DirExists, Opening
<1> QED
  BY <1>1, <1>5, <1>10, <1>11, StepKeeps

\* A program that makes a directory, and is past creat.
LEMMA AtMkdir ==
  ASSUME FsInv, pc \in {"dot", "inc", "dotdot", "parent"}
  PROVE  /\ call \in MkdirCalls /\ call.kind = "mkdir" /\ DirOf(call.path) = Root
         /\ mem.file \in IndexNodes /\ mem.bitHint \in Blocks /\ mem.file.size \in Nat
         /\ pc # "parent" => mem.ino \in Inodes \ {Root} /\ NodeAt(mem.ino, mem.file)
         /\ DiskOK /\ mem \in Mems /\ NodeOK(mem.root) /\ NodeOK(mem.file) /\ NodeOK(mem.dir)
         /\ FileOK /\ RootOK
<1>1. DiskOK /\ CallOK /\ mem \in Mems /\ NodeOK(mem.root) /\ NodeOK(mem.file)
      /\ NodeOK(mem.dir) /\ FileOK /\ (call.kind \notin {"none", "fsck"} => RootOK)
  BY DEF FsInv, MemOK
<1>2. call \in MkdirCalls /\ call.kind = "mkdir" /\ call.path \in Paths /\ Len(call.path) = 1
  BY <1>1, WhoIsAt, Kinds
<1>3. DirOf(call.path) = Root
  BY <1>1, <1>2, DirOfType
<1> QED
  BY <1>1, <1>2, <1>3, NodeParts DEF Mems, FileOK, NodeAt

LEMMA MkdirDotKeeps ==
  ASSUME FsInv, MkdirDot
  PROVE  FsInv'
<1> DEFINE data == DotBlock(mem.file, 0, Entry(mem.ino, Dot))
           g    == Grown(mem.file, 0, SizeOf(1))
           hint == HintAfter(mem.file, 0)
<1>1. /\ pc = "dot" /\ pc' = "inc" /\ CanPlace(mem.file, 0)
      /\ UNCHANGED disk /\ UNCHANGED call
      /\ pending' = Put(mem.ino, mem.file, 0, data, SizeOf(1))
      /\ mem' = [mem EXCEPT !.file = g, !.bitHint = hint]
  BY DEF MkdirDot, Ready
<1>2. /\ call \in MkdirCalls /\ call.kind = "mkdir"
      /\ mem.file \in IndexNodes /\ mem.bitHint \in Blocks /\ mem.file.size \in Nat
      /\ mem.ino \in Inodes \ {Root} /\ NodeAt(mem.ino, mem.file)
      /\ DiskOK /\ mem \in Mems /\ NodeOK(mem.root) /\ NodeOK(mem.dir) /\ RootOK
      /\ mem.file.size <= MaxDirectBlocks
  BY <1>1, AtMkdir DEF FileOK
<1>3. SizeOf(1) = 1 /\ 0 \in 0 .. MaxDirectBlocks - 1 /\ 1 <= MaxDirectBlocks
      /\ MaxDirectBlocks \in Nat /\ MaxDirectBlocks < Space /\ Space \in Nat
  BY Sizes DEF SizeOf
<1>4. data \in DataBlocks
  <2>1. Entry(mem.ino, Dot) \in DirEntries
    BY <1>2, EntryType
  <2> QED
    BY <1>2, <2>1, DotBlockType
<1> HIDE DEF data
<1>5. Writes(pending') /\ NodeOK(g)
  <2>1. SizeOf(1) \in Nat
        /\ SizeOf(1) <= IF mem.file.mode = "dir" THEN Space ELSE MaxDirectBlocks
    BY <1>3
  <2>2. Writes(Put(mem.ino, mem.file, 0, data, SizeOf(1))) /\ NodeAt(mem.ino, g)
    BY <1>1, <1>2, <1>3, <1>4, <2>1, PutOK
  <2> QED
    BY <1>1, <2>2 DEF NodeAt
<1>6. g \in IndexNodes /\ g.size = Larger(mem.file.size, 1) /\ g.addr[0] \in Blocks
  BY <1>1, <1>2, <1>3, GrownType
<1>7. hint \in Blocks
  BY <1>1, <1>2, HintAfterType
<1>8. g.addr[0] # NoBlock
  BY <1>6, NoInodeOut
<1> HIDE DEF g, hint
<1>9. /\ mem' \in Mems /\ mem'.file = g /\ mem'.root = mem.root /\ mem'.dir = mem.dir
      /\ mem'.ino = mem.ino
  BY <1>1, <1>2, <1>6, <1>7 DEF Mems
<1>10. MemOK'
  BY <1>1, <1>2, <1>5, <1>8, <1>9 DEF MemOK, NodeOK, RootOK, FileOK, DirOK
<1>11. CallOK' /\ PathOK' /\ DirExists'
  BY <1>1, <1>2 DEF CallOK, InsertPcs, PathOK, DirExists, Opening
<1> QED
  BY <1>1, <1>5, <1>10, <1>11, StepKeeps

LEMMA MkdirIncKeeps ==
  ASSUME FsInv, MkdirInc
  PROVE  FsInv'
<1> DEFINE g == [mem.file EXCEPT !.nlink = @ + 1]
<1>1. /\ pc = "inc" /\ pc' = "dotdot" /\ UNCHANGED disk /\ UNCHANGED call
      /\ pending' = <<WriteInode(mem.ino, mem'.file)>>
      /\ mem' = [mem EXCEPT !.file.nlink = @ + 1]
  BY DEF MkdirInc, Ready
<1>2. /\ call \in MkdirCalls /\ call.kind = "mkdir"
      /\ mem.file \in IndexNodes /\ mem.file.size \in Nat
      /\ mem.ino \in Inodes \ {Root} /\ NodeOK(mem.file)
      /\ DiskOK /\ mem \in Mems /\ NodeOK(mem.root) /\ NodeOK(mem.dir) /\ RootOK
      /\ mem.file.addr[0] # NoBlock
  BY <1>1, AtMkdir DEF FileOK
<1>3. g \in IndexNodes /\ g.size = mem.file.size /\ g.addr = mem.file.addr
      /\ g.mode = mem.file.mode /\ g.nlink \in Nat
  BY <1>2 DEF IndexNodes
<1>4. mem' = [mem EXCEPT !.file = g]
  BY <1>1, <1>2 DEF Mems
<1> HIDE DEF g
<1>5. NodeOK(g)
  BY <1>2, <1>3 DEF NodeOK
<1>6. /\ mem' \in Mems /\ mem'.file = g /\ mem'.root = mem.root /\ mem'.dir = mem.dir
      /\ mem'.ino = mem.ino
  BY <1>2, <1>3, <1>4 DEF Mems
<1>7. Writes(pending')
  <2>1. pending' = <<WriteInode(mem.ino, g)>>
    BY <1>1, <1>6
  <2> QED
    BY <1>2, <1>5, <2>1, WriteInodeOK, OneWrite DEF NodeAt
<1>8. MemOK'
  BY <1>1, <1>2, <1>3, <1>5, <1>6 DEF MemOK, NodeOK, RootOK, FileOK, DirOK
<1>9. CallOK' /\ PathOK' /\ DirExists'
  BY <1>1, <1>2 DEF CallOK, InsertPcs, PathOK, DirExists, Opening
<1> QED
  BY <1>1, <1>7, <1>8, <1>9, StepKeeps

LEMMA MkdirDotDotKeeps ==
  ASSUME FsInv, MkdirDotDot
  PROVE  FsInv'
<1> DEFINE data == DotBlock(mem.file, 1, Entry(DirOf(call.path), DotDot))
           g    == Grown(mem.file, 0, SizeOf(2))
<1>1. /\ pc = "dotdot" /\ pc' = "parent" /\ UNCHANGED disk /\ UNCHANGED call
      /\ pending' = Put(mem.ino, mem.file, 0, data, SizeOf(2))
      /\ mem' = [mem EXCEPT !.file = g]
  BY DEF MkdirDotDot, Ready
<1>2. /\ call \in MkdirCalls /\ call.kind = "mkdir" /\ DirOf(call.path) = Root
      /\ mem.file \in IndexNodes /\ mem.bitHint \in Blocks /\ mem.file.size \in Nat
      /\ mem.ino \in Inodes \ {Root} /\ NodeAt(mem.ino, mem.file)
      /\ DiskOK /\ mem \in Mems /\ NodeOK(mem.root) /\ NodeOK(mem.dir) /\ RootOK
      /\ mem.file.addr[0] # NoBlock
  BY <1>1, AtMkdir DEF FileOK
<1>3. /\ SizeOf(2) \in Nat /\ 0 \in 0 .. MaxDirectBlocks - 1
      /\ SizeOf(2) <= IF mem.file.mode = "dir" THEN Space ELSE MaxDirectBlocks
  BY Sizes DEF SizeOf
<1>4. data \in DataBlocks
  <2>1. Entry(DirOf(call.path), DotDot) \in DirEntries
    BY <1>2, EntryType, NoInodeOut
  <2> QED
    BY <1>2, <2>1, DotBlockType
<1> HIDE DEF data
<1>5. CanPlace(mem.file, 0)
  BY <1>2, Sizes DEF CanPlace
<1>6. Writes(pending') /\ NodeOK(g)
  <2>1. Writes(Put(mem.ino, mem.file, 0, data, SizeOf(2))) /\ NodeAt(mem.ino, g)
    BY <1>2, <1>3, <1>4, <1>5, PutOK
  <2> QED
    BY <1>1, <2>1 DEF NodeAt
<1> HIDE DEF g
<1>7. /\ mem' \in Mems /\ mem'.file = g /\ mem'.root = mem.root /\ mem'.dir = mem.dir
      /\ mem'.ino = mem.ino
  BY <1>1, <1>2, <1>6 DEF Mems, NodeOK
<1>8. MemOK'
  BY <1>1, <1>2, <1>6, <1>7 DEF MemOK, NodeOK, RootOK, FileOK, DirOK
<1>9. CallOK' /\ PathOK' /\ DirExists'
  BY <1>1, <1>2 DEF CallOK, InsertPcs, PathOK, DirExists, Opening
<1> QED
  BY <1>1, <1>6, <1>8, <1>9, StepKeeps

LEMMA MkdirParentKeeps ==
  ASSUME FsInv, MkdirParent
  PROVE  FsInv'
<1> DEFINE node == [inode[Root] EXCEPT !.nlink = @ + 1]
<1>1. /\ pc = "parent" /\ UNCHANGED disk
      /\ pending' = <<WriteInode(DirOf(call.path),
                                 [inode[DirOf(call.path)] EXCEPT !.nlink = @ + 1])>>
      /\ IF call.more = <<>> THEN Exit(TRUE) /\ UNCHANGED call
         ELSE /\ call' = [call EXCEPT !.path = Head(call.more), !.more = Tail(call.more)]
              /\ pc' = "creat"
              /\ UNCHANGED mem
  BY DEF MkdirParent, Ready
<1>2. /\ call \in MkdirCalls /\ call.kind = "mkdir" /\ DirOf(call.path) = Root /\ DiskOK
      /\ mem \in Mems /\ NodeOK(mem.root) /\ NodeOK(mem.file) /\ NodeOK(mem.dir) /\ RootOK
  BY <1>1, AtMkdir
<1>3. Writes(pending')
  <2>1. Root \in Inodes /\ NodeAt(Root, inode[Root])
    BY <1>2, NoInodeOut DEF DiskOK
  <2>2. NodeAt(Root, node)
    BY <2>1 DEF NodeAt, NodeOK, IndexNodes
  <2>3. pending' = <<WriteInode(Root, node)>>
    BY <1>1, <1>2
  <2> HIDE DEF node
  <2> QED
    BY <2>1, <2>2, <2>3, WriteInodeOK, OneWrite
<1>4. CASE call.more = <<>>
  BY <1>1, <1>3, <1>4, ExitKeeps
<1>5. CASE call.more # <<>>
  <2>1. call' = [call EXCEPT !.path = Head(call.more), !.more = Tail(call.more)]
        /\ pc' = "creat" /\ mem' = mem
    BY <1>1, <1>5
  <2>2. PICK b \in Inner : call.more = <<<<b>>>>
    BY <1>2, <1>5 DEF MkdirCalls
  <2>3. Head(call.more) = <<b>> /\ Tail(call.more) = <<>>
    BY <2>2
  <2>4. call' \in MkdirCalls /\ call'.kind = "mkdir"
    BY <1>2, <2>1, <2>3, FileSystemAssumption DEF MkdirCalls
  <2>5. CallOK'
    BY <2>1, <2>4 DEF CallOK
  <2>6. MemOK'
    BY <1>2, <2>1 DEF MemOK, NodeOK, RootOK, FileOK, DirOK
  <2>7. PathOK' /\ DirExists'
    BY <2>1, <2>4 DEF PathOK, DirExists
  <2> QED
    BY <1>1, <1>3, <2>5, <2>6, <2>7, StepKeeps
<1> QED
  BY <1>4, <1>5
-----------------------------------------------------------------------------
(***************************************************************************)
(* link and symlink.                                                       *)
(***************************************************************************)
LEMMA LinkKeeps ==
  ASSUME FsInv, Link
  PROVE  FsInv'
<1> DEFINE i == findIndexNode[call.old]
<1>1. /\ pc = "link" /\ pc' = "insert" /\ pending = <<>> /\ UNCHANGED disk
      /\ UNCHANGED <<pending, call>> /\ i # NoInode /\ ~ IsDir(i)
      /\ mem' = [mem EXCEPT !.ino = i, !.file = inode[i]]
  BY DEF Link, Linkable, Ready
<1>2. DiskOK /\ CallOK /\ PathOK /\ mem \in Mems /\ NodeOK(mem.root) /\ NodeOK(mem.dir)
      /\ (call.kind \notin {"none", "fsck"} => RootOK)
  BY DEF FsInv, MemOK
<1>3. call \in LinkCalls /\ call.kind = "link" /\ call.old \in Paths
  BY <1>1, <1>2, WhoIsAt, Kinds
<1>4. i \in Inodes
  BY <1>1, <1>2, <1>3, FindTypes
<1> HIDE DEF i
<1>5. i # Root
  BY <1>1, <1>2, <1>3, <1>4 DEF IsDir, CopyOf, RootOK
<1>6. inode[i] \in IndexNodes /\ NodeOK(inode[i])
  BY <1>2, <1>4 DEF DiskOK, NodeAt
<1>7. /\ mem' \in Mems /\ mem'.ino = i /\ mem'.file = inode[i] /\ mem'.root = mem.root
      /\ mem'.dir = mem.dir
  BY <1>1, <1>2, <1>4, <1>6 DEF Mems
<1>8. MemOK'
  BY <1>1, <1>2, <1>3, <1>4, <1>5, <1>6, <1>7 DEF MemOK, NodeOK, RootOK, FileOK, DirOK
<1>9. WayOK'
  BY <1>1, <1>2, <1>3, <1>7, WayKept DEF PathOK, Opening
<1>10. CallOK' /\ PathOK' /\ DirExists'
  BY <1>1, <1>3, <1>9 DEF CallOK, InsertPcs, PathOK, DirExists
<1>11. Writes(pending')
  BY <1>1 DEF FsInv
<1> QED
  BY <1>1, <1>8, <1>10, <1>11, StepKeeps

LEMMA LinkedKeeps ==
  ASSUME FsInv, Linked
  PROVE  FsInv'
<1> DEFINE node == [mem.file EXCEPT !.nlink = @ + 1]
<1>1. /\ pc = "linked" /\ UNCHANGED disk /\ UNCHANGED call /\ Exit(TRUE)
      /\ pending' = <<WriteInode(mem.ino, node)>>
  BY DEF Linked, Ready
<1>2. NodeOK(mem.file) /\ mem.ino \in Inodes \ {Root}
  BY <1>1 DEF FsInv, MemOK, FileOK
<1>3. NodeOK(node)
  BY <1>2 DEF NodeOK, IndexNodes
<1> HIDE DEF node
<1>4. Writes(pending')
  BY <1>1, <1>2, <1>3, WriteInodeOK, OneWrite DEF NodeAt
<1> QED
  BY <1>1, <1>4, ExitKeeps

LEMMA SymlinkKeeps ==
  ASSUME FsInv, Symlink
  PROVE  FsInv'
<1> DEFINE i    == allocateIndexNode
           node == New("link")
<1>1. /\ pc = "symlink" /\ pc' = "target" /\ UNCHANGED disk /\ UNCHANGED call
      /\ i # NoInode /\ pending' = <<WriteInode(i, node)>>
      /\ mem' = [mem EXCEPT !.ino = i, !.file = node, !.inoHint = (i + 1) % NumInodes]
  BY DEF Symlink, Ready
<1>2. DiskOK /\ CallOK /\ PathOK /\ mem \in Mems /\ NodeOK(mem.root) /\ NodeOK(mem.dir)
      /\ (call.kind \notin {"none", "fsck"} => RootOK)
  BY DEF FsInv, MemOK
<1>3. call \in SymlinkCalls /\ call.kind = "symlink"
  BY <1>1, <1>2, WhoIsAt, Kinds
<1>4. i \in Inodes \ {Root} /\ (i + 1) % NumInodes \in Inodes
  BY <1>1, <1>2, AllocateIndexNodeType, NextHint DEF Mems
<1>5. node \in IndexNodes /\ node.size = 0 /\ node.nlink = 1 /\ node.size <= MaxDirectBlocks
  BY FreshTypes, Sizes
<1> HIDE DEF i
<1>6. NodeOK(node)
  BY <1>5, SmallNodeOK
<1>7. Writes(pending')
  BY <1>1, <1>4, <1>6, WriteInodeOK, OneWrite DEF NodeAt
<1>8. /\ mem' \in Mems /\ mem'.ino = i /\ mem'.file = node /\ mem'.root = mem.root
      /\ mem'.dir = mem.dir
  BY <1>1, <1>2, <1>4, <1>5 DEF Mems
<1>9. MemOK'
  BY <1>1, <1>2, <1>3, <1>4, <1>5, <1>6, <1>8 DEF MemOK, NodeOK, RootOK, FileOK, DirOK
<1>10. WayOK'
  <2>1. GentleWrite(WriteInode(i, node))
    BY <1>5, <1>6 DEF GentleWrite, WriteInode
  <2>2. \A k \in DOMAIN pending' : GentleWrite(pending'[k])
    BY <1>1, <2>1
  <2> QED
    BY <1>1, <1>2, <1>3, <1>8, <2>2, WayKept DEF PathOK, Opening
<1>11. CallOK' /\ PathOK' /\ DirExists'
  BY <1>1, <1>3, <1>10 DEF CallOK, PathOK, DirExists
<1> QED
  BY <1>1, <1>7, <1>9, <1>11, StepKeeps

LEMMA SymlinkTargetKeeps ==
  ASSUME FsInv, SymlinkTarget
  PROVE  FsInv'
<1> DEFINE node == mem.file
           data == LinkTo(call.old)
           g    == Grown(node, 0, 1)
           hint == HintAfter(node, 0)
<1>1. /\ pc = "target" /\ pending = <<>> /\ UNCHANGED disk /\ UNCHANGED call
      /\ IF CanPlace(node, 0)
         THEN /\ pending' = Put(mem.ino, node, 0, data, 1)
              /\ mem' = [mem EXCEPT !.file = g, !.bitHint = hint]
         ELSE UNCHANGED <<pending, mem>>
      /\ pc' \in {"undo", "insert"}
  BY DEF SymlinkTarget, Ready
<1>2. DiskOK /\ CallOK /\ PathOK /\ mem \in Mems /\ NodeOK(mem.root) /\ NodeOK(mem.file)
      /\ NodeOK(mem.dir) /\ FileOK /\ (call.kind \notin {"none", "fsck"} => RootOK)
  BY DEF FsInv, MemOK
<1>3. call \in SymlinkCalls /\ call.kind = "symlink" /\ call.old \in Links
  BY <1>1, <1>2, WhoIsAt, Kinds
<1>4. /\ mem.ino \in Inodes \ {Root} /\ node = New("link") /\ mem.bitHint \in Blocks
      /\ WayOK
  BY <1>1, <1>2, <1>3 DEF FileOK, Mems, PathOK, Opening
<1>5. /\ node \in IndexNodes /\ node.size = 0 /\ node.nlink = 1 /\ node.mode = "link"
      /\ 0 \in 0 .. MaxDirectBlocks - 1 /\ 1 <= MaxDirectBlocks
      /\ node.size <= MaxDirectBlocks
  BY <1>4, FreshTypes, Sizes
<1>6. node.addr[0] = NoBlock
  BY <1>4, <1>5 DEF New, NoAddresses
<1>7. CASE CanPlace(node, 0)
  <2>1. pending' = Put(mem.ino, node, 0, data, 1) /\ mem' = [mem EXCEPT !.file = g, !.bitHint = hint]
    BY <1>1, <1>7
  <2>2. data \in DataBlocks
    BY <1>3, BlankType DEF LinkTo, DataBlocks
  <2>3. NodeAt(mem.ino, node)
    BY <1>2, <1>4 DEF NodeAt
  <2>4. Writes(pending') /\ NodeOK(g)
    <3>1. Writes(Put(mem.ino, node, 0, data, 1)) /\ NodeAt(mem.ino, g)
      BY <1>4, <1>5, <1>7, <2>2, <2>3, PutOK
    <3> QED
      BY <2>1, <3>1 DEF NodeAt
  <2>5. g \in IndexNodes /\ g.size = 1 /\ g.nlink = 1
    BY <1>4, <1>5, <1>7, GrownType DEF Larger
  <2>6. hint \in Blocks
    BY <1>4, <1>7, HintAfterType
  <2>7. \A k \in DOMAIN pending' : GentleWrite(pending'[k])
    <3> DEFINE placed == Placed(node, 0)
    <3>1. /\ placed.addr[0] = allocateBlock /\ placed.size = 0 /\ placed.nlink = 1
          /\ allocateBlock \notin bitmap
      <4>1. allocateBlock \notin bitmap
        BY <1>4, <1>6, <1>7, AllocateBlockType DEF CanPlace
      <4>2. placed = [node EXCEPT !.addr = [@ EXCEPT ![0] = allocateBlock]]
        BY <1>6 DEF Placed
      <4>3. node.addr \in [0 .. MaxDirectBlocks - 1 -> Blocks \cup {NoBlock}]
        BY <1>5 DEF IndexNodes
      <4>4. [node.addr EXCEPT ![0] = allocateBlock][0] = allocateBlock
        BY <1>5, <4>3
      <4>5. placed.addr = [node.addr EXCEPT ![0] = allocateBlock]
        BY <1>5, <4>2 DEF IndexNodes
      <4>6. placed.size = 0 /\ placed.nlink = 1
        BY <1>4, <1>5, <1>7, PlacedType
      <4> QED
        BY <4>1, <4>4, <4>5, <4>6
    <3> HIDE DEF placed, g, data
    <3>2. GentleWrite(WriteData(placed.addr[0], data))
      BY <1>4, <3>1 DEF GentleWrite, WriteData, WayOK
    <3>3. GentleWrite(WriteInode(mem.ino, g)) /\ GentleWrite(WriteInode(mem.ino, placed))
      BY <1>5, <2>5, <3>1 DEF GentleWrite, WriteInode
    <3>4. GentleWrite(SetBit(placed.addr[0]))
      BY DEF GentleWrite, SetBit
    <3>5. \A w \in PutWrites(mem.ino, node, 0, data, 1) : GentleWrite(w)
      BY <3>2, <3>3, <3>4 DEF PutWrites, placed, g
    <3>6. Put(mem.ino, node, 0, data, 1) \in Seq(PutWrites(mem.ino, node, 0, data, 1))
      BY PutIn
    <3> QED
      BY <2>1, <3>5, <3>6
  <2> HIDE DEF g, hint
  <2>8. /\ mem' \in Mems /\ mem'.ino = mem.ino /\ mem'.file = g /\ mem'.root = mem.root
        /\ mem'.dir = mem.dir
    BY <1>2, <2>1, <2>5, <2>6 DEF Mems
  <2>9. MemOK'
    BY <1>1, <1>2, <1>3, <1>4, <1>5, <2>4, <2>5, <2>8 DEF MemOK, NodeOK, RootOK, FileOK, DirOK
  <2>10. WayOK'
    BY <1>1, <1>4, <2>7, <2>8, WayKept
  <2>11. CallOK' /\ PathOK' /\ DirExists'
    BY <1>1, <1>3, <2>10 DEF CallOK, InsertPcs, PathOK, DirExists
  <2> QED
    BY <1>1, <2>4, <2>9, <2>11, StepKeeps
<1>8. CASE ~ CanPlace(node, 0)
  <2>1. UNCHANGED <<pending, mem>>
    BY <1>1, <1>8
  <2>2. MemOK'
    BY <1>1, <1>2, <1>3, <1>4, <1>5, <2>1 DEF MemOK, NodeOK, RootOK, FileOK, DirOK
  <2>3. WayOK'
    BY <1>1, <1>4, <2>1, WayKept
  <2>4. CallOK' /\ PathOK' /\ DirExists'
    BY <1>1, <1>3, <2>3 DEF CallOK, InsertPcs, PathOK, DirExists
  <2>5. Writes(pending')
    BY <2>1 DEF FsInv
  <2> QED
    BY <1>1, <2>2, <2>4, <2>5, StepKeeps
<1> QED
  BY <1>7, <1>8

LEMMA SymlinkUndoKeeps ==
  ASSUME FsInv, SymlinkUndo
  PROVE  FsInv'
<1>1. /\ pc = "undo" /\ UNCHANGED disk /\ UNCHANGED call /\ Exit(FALSE)
      /\ pending' = freeIndexNode(mem.ino)
  BY DEF SymlinkUndo, Ready
<1>2. Writes(pending')
  BY <1>1, FreeIndexNodeOK DEF FsInv, MemOK, FileOK
<1> QED
  BY <1>1, <1>2, ExitKeeps
-----------------------------------------------------------------------------
(***************************************************************************)
(* unlink.                                                                 *)
(***************************************************************************)
LEMMA UnlinkKeeps ==
  ASSUME FsInv, Unlink
  PROVE  FsInv'
<1> DEFINE d    == DirOf(call.path)
           node == CopyOf(d)
           name == Last(call.path)
           i    == EntryNode(d, name)
           pos  == Min(Positions(node, name))
<1>1. /\ pc = "unlink" /\ pc' = "pull" /\ UNCHANGED disk /\ UNCHANGED call
      /\ IsDir(d) /\ Positions(node, name) # {} /\ ~ IsDir(i)
      /\ pending' = IF inode[i].nlink <= 1 THEN freeIndexNode(i)
                    ELSE <<WriteInode(i, [inode[i] EXCEPT !.nlink = @ - 1])>>
      /\ mem' = [mem EXCEPT !.dirNo = d, !.dir = node, !.pos = pos]
  BY DEF Unlink, Removable, UnlinkAt, Opened, Ready
<1>2. DiskOK /\ CallOK /\ PathOK /\ mem \in Mems /\ NodeOK(mem.root) /\ NodeOK(mem.file)
      /\ (call.kind \notin {"none", "fsck"} => RootOK)
  BY DEF FsInv, MemOK
<1>3. call \in UnlinkCalls /\ call.kind = "unlink" /\ call.path \in Paths
  BY <1>1, <1>2, WhoIsAt, Kinds
<1>4. WayOK /\ RootOK
  BY <1>1, <1>2, <1>3 DEF PathOK, Opening
<1>5. d \in Inodes
  BY <1>1, <1>2, <1>3, DirOfType
<1>6. NodeOK(node) /\ node \in IndexNodes /\ node.mode = "dir"
  BY <1>1, <1>2, <1>5, CopyType, NodeParts DEF IsDir
<1>7. node.nlink > 0
  <2>1. CASE d = Root
    BY <1>4, <2>1 DEF CopyOf, RootOK
  <2>2. CASE d # Root
    <3>1. d \in RootEntries /\ d # NoInode
      BY <1>2, <1>3, <1>5, DirOfType, NoInodeOut
    <3>2. inode[d].nlink > 0
      BY <1>2, <1>4, <2>2, <3>1, RootEntryLive DEF RootEntries
    <3> QED
      BY <2>2, <3>2 DEF CopyOf
  <2> QED
    BY <2>1, <2>2
<1>8. pos \in 0 .. node.size - 1 /\ i \in Inodes
  BY <1>1, <1>2, <1>6, NodeInFound DEF EntryNode
<1> HIDE DEF i, pos
<1>9. i # Root
  BY <1>1, <1>4, <1>8, NoInodeOut DEF IsDir, CopyOf, RootOK
<1>10. Writes(pending')
  <2>1. CASE inode[i].nlink <= 1
    BY <1>1, <1>2, <1>8, <1>9, <2>1, FreeIndexNodeOK
  <2>2. CASE ~ (inode[i].nlink <= 1)
    <3> DEFINE less == [inode[i] EXCEPT !.nlink = @ - 1]
    <3>1. NodeOK(inode[i])
      BY <1>2, <1>8 DEF DiskOK, NodeAt
    <3>2. NodeOK(less)
      BY <2>2, <3>1 DEF NodeOK, IndexNodes
    <3>3. pending' = <<WriteInode(i, less)>>
      BY <1>1, <2>2
    <3> HIDE DEF less
    <3> QED
      BY <1>8, <1>9, <3>2, <3>3, WriteInodeOK, OneWrite DEF NodeAt
  <2> QED
    BY <2>1, <2>2
<1> HIDE DEF d, node
<1>11. node.size \in Nat /\ pos \in Nat /\ pos < node.size
  BY <1>6, <1>8, NodeParts
<1>12. /\ mem' \in Mems /\ mem'.file = mem.file /\ mem'.root = mem.root
       /\ mem'.dir = node /\ mem'.pos = pos
  BY <1>1, <1>2, <1>5, <1>6, <1>11 DEF Mems
<1>13. MemOK'
  BY <1>1, <1>2, <1>4, <1>6, <1>7, <1>11, <1>12 DEF MemOK, NodeOK, RootOK, FileOK, DirOK
<1>14. CallOK' /\ PathOK' /\ DirExists'
  BY <1>1, <1>3 DEF CallOK, PathOK, DirExists, Opening
<1> QED
  BY <1>1, <1>10, <1>13, <1>14, StepKeeps

LEMMA CutKeeps ==
  ASSUME FsInv, Cut
  PROVE  FsInv'
<1> DEFINE i == mem.dirNo
           k == (inode[i].size - 1) \div PerBlock - 1
           node == [inode[i] EXCEPT !.addr[k] = NoBlock]
<1>1. /\ pc = "pull" /\ UNCHANGED disk /\ UNCHANGED call /\ Exit(TRUE)
      /\ pending' = (IF LosesBlock THEN freeInodeBlocks(i) ELSE <<>>) \o <<WriteInode(i, Shrunk)>>
  BY DEF Cut, Ready
<1>2. /\ DiskOK /\ mem \in Mems /\ NodeOK(mem.dir) /\ mem.dir.nlink > 0
      /\ mem.dir.mode = "dir" /\ mem.pos < mem.dir.size
  BY <1>1 DEF FsInv, MemOK, DirOK
<1>3. i \in Inodes /\ mem.pos \in Nat
  BY <1>2 DEF Mems
<1>4. NodeAt(i, Shrunk)
  <2>1. mem.dir \in IndexNodes /\ mem.dir.size \in Nat /\ mem.dir.size <= Space
    BY <1>2, NodeParts
  <2>2. mem.dir.size - 1 \in Nat /\ mem.dir.size - 1 <= Space
    BY <1>2, <1>3, <2>1, Sizes
  <2>3. Shrunk \in IndexNodes /\ Shrunk.size = mem.dir.size - 1 /\ Shrunk.mode = "dir"
        /\ Shrunk.nlink = mem.dir.nlink
    BY <1>2, <2>1, <2>2 DEF Shrunk, IndexNodes
  <2> QED
    BY <1>2, <2>2, <2>3 DEF NodeAt, NodeOK
<1>5. Writes(<<WriteInode(i, Shrunk)>>)
  BY <1>3, <1>4, WriteInodeOK, OneWrite
<1>6. Writes(freeInodeBlocks(i))
  <2> DEFINE a == [inode[i].addr EXCEPT ![k] = NoBlock]
  <2>1. NodeAt(i, inode[i]) /\ inode[i] \in IndexNodes
    BY <1>2, <1>3 DEF DiskOK
  <2> HIDE DEF k
  <2>2. a \in [0 .. MaxDirectBlocks - 1 -> Blocks \cup {NoBlock}]
    BY <2>1 DEF IndexNodes
  <2>3. node = [inode[i] EXCEPT !.addr = a]
    OBVIOUS
  <2> HIDE DEF a, node
  <2>4. NodeAt(i, node)
    BY <2>1, <2>2, <2>3 DEF NodeAt, NodeOK, IndexNodes
  <2>5. WriteOK(WriteInode(i, node)) /\ WriteOK(ResetBit(inode[i].addr[k]))
    BY <1>3, <2>4, WriteInodeOK, ResetOK
  <2>6. freeInodeBlocks(i) = <<ResetBit(inode[i].addr[k])>> \o <<WriteInode(i, node)>>
    BY DEF freeInodeBlocks, node, k
  <2>7. Writes(<<ResetBit(inode[i].addr[k])>>) /\ Writes(<<WriteInode(i, node)>>)
    BY <2>5, OneWrite
  <2> QED
    BY <2>6, <2>7, MoreWrites
<1>7. Writes(pending')
  <2>1. Writes(IF LosesBlock THEN freeInodeBlocks(i) ELSE <<>>)
    BY <1>6, NoWrites
  <2> QED
    BY <1>1, <1>5, <2>1, MoreWrites
<1> QED
  BY <1>1, <1>7, ExitKeeps

-----------------------------------------------------------------------------
(***************************************************************************)
(* fsck, and the end of a program.                                         *)
(***************************************************************************)
LEMMA FsckKeeps ==
  ASSUME FsInv, Fsck \/ FsckLinks \/ FsckBlocks
  PROVE  FsInv'
<1>1. DiskOK /\ CallOK /\ mem \in Mems /\ NodeOK(mem.root) /\ NodeOK(mem.file)
      /\ NodeOK(mem.dir) /\ Writes(pending)
  BY DEF FsInv, MemOK
<1>2. CASE Fsck
  <2>1. /\ call' = [kind |-> "fsck", refused |-> FALSE] /\ pc' = "fsck"
        /\ UNCHANGED disk /\ UNCHANGED <<pending, mem>>
    BY <1>2 DEF Fsck
  <2>2. call' \in FsckCalls /\ call'.kind = "fsck"
    BY <2>1 DEF FsckCalls
  <2>3. MemOK'
    BY <1>1, <2>1, <2>2 DEF MemOK, NodeOK, FileOK, DirOK
  <2>4. CallOK' /\ PathOK' /\ DirExists'
    BY <2>1, <2>2 DEF CallOK, PathOK, DirExists, Opening
  <2> QED
    BY <1>1, <2>1, <2>3, <2>4, StepKeeps
<1>3. ASSUME NEW repairs, Writes(repairs), call \in FsckCalls, Answered(repairs)
      PROVE  Writes(pending') /\ call' \in FsckCalls
  <2>1. CASE pending' = repairs /\ UNCHANGED call
    BY <1>3, <2>1
  <2>2. CASE pending' = <<>> /\ call' = [call EXCEPT !.refused = TRUE]
    BY <1>3, <2>2, NoWrites DEF FsckCalls
  <2> QED
    BY <1>3, <2>1, <2>2 DEF Answered
<1>4. CASE FsckLinks
  <2> DEFINE repairs == FlattenSeq([i \in 1 .. NumInodes |-> RepairLinks(i - 1)])
  <2>1. /\ pc = "fsck" /\ pc' = "fsckBlocks" /\ Answered(repairs)
        /\ UNCHANGED disk /\ UNCHANGED mem
    BY <1>4 DEF FsckLinks, Ready
  <2>2. Writes(repairs)
    BY <1>1, RepairLinksOK
  <2>3. PICK r : r = repairs
    OBVIOUS
  <2>4. Writes(r) /\ Answered(r)
    BY <2>1, <2>2, <2>3
  <2> HIDE DEF repairs
  <2>5. call \in FsckCalls
    BY <1>1, <2>1, WhoIsAt
  <2>6. Writes(pending') /\ call' \in FsckCalls /\ call'.kind = "fsck"
    BY <1>3, <2>4, <2>5, Kinds
  <2>7. MemOK'
    BY <1>1, <2>1, <2>6 DEF MemOK, NodeOK, FileOK, DirOK
  <2>8. CallOK' /\ PathOK' /\ DirExists'
    BY <2>1, <2>6 DEF CallOK, PathOK, DirExists, Opening
  <2> QED
    BY <2>1, <2>6, <2>7, <2>8, StepKeeps
<1>5. CASE FsckBlocks
  <2> DEFINE repairs == FlattenSeq([b \in 1 .. NumBlocks |-> RepairBit(b - 1)])
  <2>1. pc = "fsckBlocks" /\ Answered(repairs) /\ Exit(TRUE) /\ UNCHANGED disk
    BY <1>5 DEF FsckBlocks, Ready
  <2>2. PICK r : r = repairs
    OBVIOUS
  <2>3. Writes(r) /\ Answered(r)
    BY <2>1, <2>2, RepairBitsOK
  <2> HIDE DEF repairs
  <2>4. call \in FsckCalls
    BY <1>1, <2>1, WhoIsAt
  <2>5. Writes(pending') /\ call' \in FsckCalls
    BY <1>3, <2>3, <2>4
  <2> QED
    BY <2>1, <2>4, <2>5, ExitKeeps
<1> QED
  BY <1>2, <1>4, <1>5

LEMMA EndsKeep ==
  ASSUME FsInv, Return \/ Crash
  PROVE  FsInv'
<1>1. UNCHANGED disk /\ pc' = "idle" /\ call' = Idle /\ mem' = Fresh /\ pending' = <<>>
  BY DEF Return, Crash, Ready
<1> QED
  BY <1>1, AtRest

LEMMA StutterKeeps ==
  ASSUME FsInv, UNCHANGED vars
  PROVE  FsInv'
<1>1. UNCHANGED disk /\ UNCHANGED <<pending, pc, call, mem>>
  BY DEF vars, disk
<1>2. Writes(pending) /\ CallOK /\ MemOK /\ PathOK /\ DirExists
  BY DEF FsInv
<1>3. Writes(pending') /\ CallOK'
  BY <1>1, <1>2 DEF CallOK
<1>4. MemOK'
  BY <1>1, <1>2 DEF MemOK, NodeOK, RootOK, FileOK, DirOK
<1>5. PathOK'
  <2>1. WayOK => WayOK'
    <3>1. WayOK => \A k \in DOMAIN pending' : GentleWrite(pending'[k])
      BY <1>1 DEF WayOK
    <3> QED
      BY <1>1, <3>1, WayKept
  <2> QED
    BY <1>1, <1>2, <2>1 DEF PathOK
<1>6. DirExists'
  <2> SUFFICES ASSUME pc = "insert", call.kind = "create" PROVE DirExists'
    BY <1>1 DEF DirExists
  <2>1. DiskOK /\ NodeOK(mem.root) /\ WayOK /\ CallOK /\ IsDir(DirOf(call.path))
    BY <1>2 DEF FsInv, MemOK, PathOK, Opening, DirExists
  <2>2. PICK p \in Paths : p = call.path
    BY <2>1, WhoIsAt, Kinds
  <2>3. IsDir(DirOf(p))'
    BY <1>1, <2>1, <2>2, DirStays DEF disk
  <2>4. IsDir(DirOf(call.path))'
    BY <1>1, <2>2, <2>3 DEF IsDir, CopyOf, DirOf
  <2> QED
    BY <1>1, <1>2, <2>4 DEF DirExists, disk
<1> QED
  BY <1>1, <1>3, <1>4, <1>5, <1>6, StepKeeps

-----------------------------------------------------------------------------
LEMMA NextFs == FsInv /\ [Next]_vars => FsInv'
<1> SUFFICES ASSUME FsInv, [Next]_vars PROVE FsInv'
  OBVIOUS
<1>1. CASE Create \/ Mkdir \/ Ln \/ LnS \/ Rm
  BY <1>1, Starts
<1>2. CASE Creat
  BY <1>2, CreatNewKeeps, CreatTruncatesKeeps, Failures DEF Creat
<1>3. CASE Insert
  BY <1>3, OpenDirKeeps, PlaceKeeps, PlaceLastKeeps, Failures DEF Insert
<1>4. CASE WriteAll
  BY <1>4, WriteKeeps, Failures DEF WriteAll
<1>5. CASE MkdirRest
  BY <1>5, MkdirDotKeeps, MkdirIncKeeps, MkdirDotDotKeeps, MkdirParentKeeps, Failures
     DEF MkdirRest
<1>6. CASE LinkAll
  BY <1>6, LinkKeeps, LinkedKeeps, Failures DEF LinkAll
<1>7. CASE SymlinkAll
  BY <1>7, SymlinkKeeps, SymlinkTargetKeeps, SymlinkUndoKeeps, Failures DEF SymlinkAll
<1>8. CASE UnlinkAll
  BY <1>8, UnlinkKeeps, PullKeeps, CutKeeps, Failures DEF UnlinkAll
<1>9. CASE FsckAll
  BY <1>9, FsckKeeps, Failures DEF FsckAll
<1>10. CASE Return \/ Crash
  BY <1>10, EndsKeep
<1>11. CASE Flush
  BY <1>11, FlushKeeps
<1>12. CASE UNCHANGED vars
  BY <1>12, StutterKeeps
<1> QED
  BY <1>1, <1>2, <1>3, <1>4, <1>5, <1>6, <1>7, <1>8, <1>9, <1>10, <1>11, <1>12 DEF Next

\* The inductive invariant holds throughout, whatever programs are run and
\* wherever they are stopped: each call is at a place of its own, what it has
\* in memory fits in an index node or directory, and so does what it writes.
THEOREM FsInvariance == Spec => []FsInv
BY InitFs, NextFs, PTL DEF Spec

LEMMA FsTypes == FsInv => TypeOK
<1> SUFFICES ASSUME FsInv PROVE TypeOK
  OBVIOUS
<1>1. DiskOK /\ mem \in Mems /\ NodeOK(mem.dir)
  BY DEF FsInv, MemOK
<1>2. \A b \in Blocks, k \in 0 .. PerBlock - 1 : block[b].entry[k].ino \in Inodes
  BY <1>1 DEF DiskOK, DataBlocks, DirEntries
<1>3. mem.dir.size <= PerBlock * MaxDirectBlocks
  BY <1>1, NodeParts DEF Space
<1> QED
  BY <1>1, <1>2, <1>3 DEF TypeOK, DiskOK, Mems

\* Every directory entry that is ever on disk is of an index node there is,
\* block addresses are addresses, and no directory a program has opened grows
\* past the blocks an index node can hold: a write behind them fails with EFBIG
\* (FileDescriptor.cc).  For any finite number of names, however much is written
\* to a file, and however small the disk.
THEOREM SpecTypeOK == Spec => []TypeOK
BY FsInvariance, FsTypes, PTL

\* The root directory stays a directory that has links, on disk, and in the
\* memory of every program that uses it: no unlink, creat or fsck frees it.
RootStays ==
  /\ inode[Root].mode = "dir" /\ inode[Root].nlink > 0
  /\ call.kind \notin {"none", "fsck"} => mem.root.mode = "dir" /\ mem.root.nlink > 0

LEMMA RootStaysAlways == FsInv => RootStays
BY NoInodeOut DEF FsInv, DiskOK, NodeAt, MemOK, RootOK, RootStays

\* Whatever is stopped halfway, the root is there for the next program.
THEOREM SpecRootStays == Spec => []RootStays
BY FsInvariance, RootStaysAlways, PTL

LEMMA AmongWrites ==
  ASSUME NEW n \in Nat \ {0}, NEW f, f = [k \in 1 .. n |-> f[k]], \A k \in 1 .. n : Writes(f[k])
  PROVE  \A w : w \in Among(FlattenSeq(f)) <=> \E k \in 1 .. n : w \in Among(f[k])
<1> DEFINE S == UNION {Among(f[k]) : k \in 1 .. n}
<1>1. ASSUME NEW k \in 1 .. n PROVE f[k] \in Seq(S)
  <2>1. PICK T : f[k] \in Seq(T)
    BY DEF Writes
  <2>2. PICK s : s = f[k]
    OBVIOUS
  <2>3. \A j \in DOMAIN s : s[j] \in Among(f[k])
    BY <2>2 DEF Among
  <2>4. Among(f[k]) \subseteq S
    OBVIOUS
  <2> HIDE DEF S
  <2>5. s \in Seq(S)
    BY <2>1, <2>2, <2>3, <2>4
  <2> QED
    BY <2>2, <2>5
<1> HIDE DEF S
<1> QED
  BY <1>1, AmongTurns

-----------------------------------------------------------------------------
(***************************************************************************)
(* What fsck writes.                                                       *)
(***************************************************************************)
LinkRepairs == FlattenSeq([i \in 1 .. NumInodes |-> RepairLinks(i - 1)])

BitRepairs == FlattenSeq([b \in 1 .. NumBlocks |-> RepairBit(b - 1)])

\* An index node gets its number of links; one that keeps some keeps the rest
\* as well.
Mends(w) ==
  /\ w.to # "block"
  /\ w.to = "inode" => /\ w.node.nlink = linkCounts[w.at]
                       /\ linkCounts[w.at] # 0 =>
                            w.node = [inode[w.at] EXCEPT !.nlink = linkCounts[w.at]]

LEMMA RepairsOf ==
  ASSUME DiskOK, NEW i \in Inodes
  PROVE  /\ Writes(RepairLinks(i)) /\ \A w \in Among(RepairLinks(i)) : Mends(w)
         /\ inode[i].nlink # linkCounts[i] =>
              \E w \in Among(RepairLinks(i)) : w.to = "inode" /\ w.at = i
<1>1. linkCounts[i] \in Nat /\ (i = Root => linkCounts[i] # 0) /\ NodeAt(i, inode[i])
      /\ inode[i] \in IndexNodes
  BY LinkCountsType DEF DiskOK
<1>2. CASE linkCounts[i] = inode[i].nlink
  <2>1. RepairLinks(i) = <<>> /\ Among(<<>>) = {}
    BY <1>2 DEF RepairLinks, Among
  <2> QED
    BY <1>2, <2>1, NoWrites
<1>3. CASE linkCounts[i] # inode[i].nlink /\ linkCounts[i] = 0
  <2> DEFINE c == ClearedTo(inode[i], BlocksOf(inode[i]))
             node == [c EXCEPT !.nlink = 0, !.size = 0]
             T == {ResetBit(inode[i].addr[k - 1]) : k \in 1 .. BlocksOf(inode[i])}
  <2>1. c \in IndexNodes
    BY <1>1, ClearedType
  <2> HIDE DEF c
  <2>2. node.nlink = 0
    BY <2>1 DEF IndexNodes
  <2> HIDE DEF node
  <2>3. RepairLinks(i) = FreeBlocks(inode[i]) \o <<WriteInode(i, node)>>
    BY <1>3 DEF RepairLinks, freeIndexNode, node, c
  <2>4. BlocksOf(inode[i]) \in Nat
    BY <1>1, BlocksOfType
  <2>5. FreeBlocks(inode[i]) \in Seq(T)
    BY <2>4 DEF FreeBlocks
  <2>6. Among(FreeBlocks(inode[i])) \subseteq T
    <3> HIDE DEF T
    <3> QED
      BY <2>5 DEF Among
  <2>7. \A w \in T : Mends(w)
    BY DEF Mends, ResetBit
  <2>8. Mends(WriteInode(i, node)) /\ WriteInode(i, node).to = "inode" /\ WriteInode(i, node).at = i
    BY <1>3, <2>2 DEF Mends, WriteInode
  <2>9. Writes(RepairLinks(i))
    BY <1>1, <1>3, FreeIndexNodeOK DEF RepairLinks
  <2> DEFINE v == WriteInode(i, node)
             U == T \cup {v}
  <2> HIDE DEF T
  <2>10. FreeBlocks(inode[i]) \in Seq(U) /\ <<v>> \in Seq(U)
    BY <2>5
  <2>11. Among(FreeBlocks(inode[i]) \o <<v>>) = Among(FreeBlocks(inode[i])) \cup Among(<<v>>)
    <3> HIDE DEF U
    <3> QED
      BY <2>10, AmongBoth
  <2>12. Among(<<v>>) = {v}
    BY DEF Among
  <2>13. Among(RepairLinks(i)) = Among(FreeBlocks(inode[i])) \cup {v}
    BY <2>3, <2>11, <2>12
  <2>14. Mends(v) /\ v.to = "inode" /\ v.at = i
    BY <2>8
  <2> HIDE DEF v
  <2> QED
    BY <2>6, <2>7, <2>9, <2>13, <2>14
<1>4. CASE linkCounts[i] # inode[i].nlink /\ linkCounts[i] # 0
  <2> DEFINE node == [inode[i] EXCEPT !.nlink = linkCounts[i]]
             v == WriteInode(i, node)
  <2>1. NodeAt(i, node) /\ node.nlink = linkCounts[i]
    BY <1>1, <1>4 DEF NodeAt, NodeOK, IndexNodes
  <2>2. RepairLinks(i) = <<v>> /\ Among(<<v>>) = {v}
    BY <1>4 DEF RepairLinks, Among
  <2>3. Mends(v) /\ v.to = "inode" /\ v.at = i
    BY <2>1 DEF Mends, WriteInode
  <2>4. Writes(<<v>>)
    <3> HIDE DEF node
    <3> QED
      BY <2>1, WriteInodeOK, OneWrite
  <2> HIDE DEF v
  <2> QED
    BY <2>2, <2>3, <2>4
<1> QED
  BY <1>2, <1>3, <1>4

LEMMA LinkRepairsAre ==
  ASSUME DiskOK
  PROVE  /\ \A w \in Among(LinkRepairs) : Mends(w)
         /\ \A i \in Inodes : inode[i].nlink # linkCounts[i] =>
              \E w \in Among(LinkRepairs) : w.to = "inode" /\ w.at = i
<1> DEFINE f == [i \in 1 .. NumInodes |-> RepairLinks(i - 1)]
<1>1. \A i \in 1 .. NumInodes : i - 1 \in Inodes
  BY Sizes DEF Inodes
<1>2. \A i \in 1 .. NumInodes : f[i] = RepairLinks(i - 1) /\ Writes(f[i])
  BY <1>1, RepairsOf
<1>3. f = [i \in 1 .. NumInodes |-> f[i]] /\ LinkRepairs = FlattenSeq(f)
  BY DEF LinkRepairs
<1> HIDE DEF f
<1>4. \A w : w \in Among(LinkRepairs) <=> \E i \in 1 .. NumInodes : w \in Among(f[i])
  BY <1>2, <1>3, Sizes, AmongWrites
<1>5. \A w \in Among(LinkRepairs) : Mends(w)
  BY <1>1, <1>2, <1>4, RepairsOf
<1>6. ASSUME NEW i \in Inodes, inode[i].nlink # linkCounts[i]
      PROVE  \E w \in Among(LinkRepairs) : w.to = "inode" /\ w.at = i
  <2>1. PICK w \in Among(RepairLinks(i)) : w.to = "inode" /\ w.at = i
    BY <1>6, RepairsOf
  <2>2. i + 1 \in 1 .. NumInodes /\ (i + 1) - 1 = i
    BY Sizes DEF Inodes
  <2>3. f[i + 1] = RepairLinks(i)
    BY <1>2, <2>2
  <2> QED
    BY <1>4, <2>1, <2>2, <2>3
<1> QED
  BY <1>5, <1>6

LEMMA BitRepairsAre ==
  /\ \A w \in Among(BitRepairs) : w.to = "bitmap" /\ (w.set <=> w.at \in InUse)
  /\ \A b \in Blocks : (b \in bitmap <=> b \in InUse) \/ \E w \in Among(BitRepairs) : w.at = b
<1> DEFINE f == [b \in 1 .. NumBlocks |-> RepairBit(b - 1)]
<1>1. \A b \in 1 .. NumBlocks : b - 1 \in Blocks
  BY Sizes DEF Blocks
<1>2. ASSUME NEW b \in Blocks
      PROVE  /\ Writes(RepairBit(b))
             /\ \A w \in Among(RepairBit(b)) : w.to = "bitmap" /\ (w.set <=> w.at \in InUse)
             /\ (b \in bitmap <=> b \in InUse) \/ \E w \in Among(RepairBit(b)) : w.at = b
  <2>1. WriteOK(ResetBit(b)) /\ WriteOK(SetBit(b))
    BY ResetOK DEF WriteOK, SetBit
  <2>2. /\ ResetBit(b).to = "bitmap" /\ ResetBit(b).at = b /\ ResetBit(b).set = FALSE
        /\ SetBit(b).to = "bitmap" /\ SetBit(b).at = b /\ SetBit(b).set = TRUE
    BY DEF ResetBit, SetBit
  <2>3. Among(<<>>) = {} /\ \A w : Among(<<w>>) = {w}
    BY DEF Among
  <2> QED
    BY <2>1, <2>2, <2>3, NoWrites, OneWrite DEF RepairBit
<1>3. \A b \in 1 .. NumBlocks : f[b] = RepairBit(b - 1) /\ Writes(f[b])
  BY <1>1, <1>2
<1>4. f = [b \in 1 .. NumBlocks |-> f[b]] /\ BitRepairs = FlattenSeq(f)
  BY DEF BitRepairs
<1> HIDE DEF f
<1>5. \A w : w \in Among(BitRepairs) <=> \E b \in 1 .. NumBlocks : w \in Among(f[b])
  BY <1>3, <1>4, Sizes, AmongWrites
<1>6. \A w \in Among(BitRepairs) : w.to = "bitmap" /\ (w.set <=> w.at \in InUse)
  BY <1>1, <1>2, <1>3, <1>5
<1>7. ASSUME NEW b \in Blocks
      PROVE  (b \in bitmap <=> b \in InUse) \/ \E w \in Among(BitRepairs) : w.at = b
  <2>1. b + 1 \in 1 .. NumBlocks /\ (b + 1) - 1 = b
    BY Sizes DEF Blocks
  <2>2. f[b + 1] = RepairBit(b)
    BY <1>3, <2>1
  <2> QED
    BY <1>2, <1>5, <2>1, <2>2
<1> QED
  BY <1>6, <1>7
-----------------------------------------------------------------------------
(***************************************************************************)
(* The counts do not change while the index nodes get them: only what no   *)
(* directory refers to is freed.                                           *)
(***************************************************************************)
\* In place: what the counts depend on, apart from numbers of links.
SameShape(i) ==
  /\ inode'[i].mode = inode[i].mode /\ inode'[i].size = inode[i].size
  /\ inode'[i].addr = inode[i].addr

LEMMA SumsBelow ==
  DiskOK => \A i \in Inodes : LinksBelow(i) = Cardinality(Shares(InSubdirs(i), SubdirPositions))
BY SumOverSubdirs

\* An entry of the root, or of a directory in it, is counted.
LEMMA CountedInRoot ==
  ASSUME DiskOK, NEW k \in 0 .. inode[Root].size - 1
  PROVE  /\ EntryAt(inode[Root], k).ino \in Inodes
         /\ linkCounts[EntryAt(inode[Root], k).ino] # 0
<1> DEFINE i == EntryAt(inode[Root], k).ino
           K == {j \in 0 .. inode[Root].size - 1 : EntryAt(inode[Root], j).ino = i}
<1>1. inode[Root] \in IndexNodes /\ inode[Root].size \in Nat /\ inode[Root].size <= Space
  BY NoInodeOut, NodeParts DEF DiskOK, NodeAt
<1>2. k \in 0 .. Space - 1
  BY <1>1, Sizes
<1>3. i \in Inodes
  BY <1>1, <1>2, EntryAtType DEF DirEntries
<1>4. k \in K /\ K \subseteq 0 .. inode[Root].size - 1
  OBVIOUS
<1>5. LinksIn(inode[Root], i) = Cardinality(K)
  BY DEF LinksIn
<1> HIDE DEF K
<1>6. IsFiniteSet(0 .. inode[Root].size - 1)
  BY <1>1, FS_Interval
<1>7. IsFiniteSet(K)
  BY <1>4, <1>6, FS_Subset
<1>8. Cardinality(K) # 0
  BY <1>4, <1>7, FS_EmptySet
<1>9. LinksBelow(i) \in Nat /\ LinksIn(inode[Root], i) \in Nat
  BY <1>1, SumOverSubdirs, LinksInType
<1> HIDE DEF i
<1>10. linkCounts[i] # 0
  BY <1>3, <1>5, <1>8, <1>9, LinkCountsAre
<1> QED
  BY <1>3, <1>10 DEF i

LEMMA CountsStay ==
  ASSUME DiskOK, DiskOK', block' = block,
         \A i \in Inodes : linkCounts[i] # 0 => SameShape(i)
  PROVE  \A i \in Inodes : linkCounts'[i] = linkCounts[i]
<1>1. /\ inode[Root] \in IndexNodes /\ NodeOK(inode[Root]) /\ Root \in Inodes
      /\ linkCounts[Root] # 0 /\ SameShape(Root)
  BY NoInodeOut, LinkCountsType DEF DiskOK, NodeAt
<1>2. /\ \A k : EntryAt(inode[Root], k)' = EntryAt(inode[Root], k)
      /\ (inode[Root].size)' = inode[Root].size
  BY <1>1 DEF SameShape, EntryAt
<1>3. \A name : Positions(inode[Root], name)' = Positions(inode[Root], name)
  BY <1>2 DEF Positions
<1>4. \A name : NodeIn(inode[Root], name)' = NodeIn(inode[Root], name)
  BY <1>2, <1>3 DEF NodeIn
<1>5. ASSUME NEW k \in 0 .. inode[Root].size - 1
      PROVE  SameShape(NodeIn(inode[Root], EntryAt(inode[Root], k).name))
  <2> DEFINE name == EntryAt(inode[Root], k).name
  <2>1. k \in Positions(inode[Root], name)
    BY DEF Positions
  <2>2. PICK j \in 0 .. inode[Root].size - 1 : NodeIn(inode[Root], name) = EntryAt(inode[Root], j).ino
    BY <1>1, <2>1, NodeInFound
  <2>3. EntryAt(inode[Root], j).ino \in Inodes /\ linkCounts[EntryAt(inode[Root], j).ino] # 0
    BY CountedInRoot
  <2> QED
    BY <2>2, <2>3 DEF SameShape
<1>6. SubdirPositions' = SubdirPositions
  <2>1. ASSUME NEW k \in 0 .. inode[Root].size - 1
        PROVE  (inode[NodeIn(inode[Root], EntryAt(inode[Root], k).name)].mode)'
                 = inode[NodeIn(inode[Root], EntryAt(inode[Root], k).name)].mode
    BY <1>2, <1>4, <1>5 DEF SameShape
  <2> QED
    BY <1>2, <2>1 DEF SubdirPositions
<1>7. \A i \in Inodes : LinksIn(inode[Root], i)' = LinksIn(inode[Root], i)
  BY <1>2 DEF LinksIn
<1>8. ASSUME NEW k \in SubdirPositions, NEW i \in Inodes
      PROVE  LinksIn(SubdirAt(k), i)' = LinksIn(SubdirAt(k), i)
  <2>1. k \in 0 .. inode[Root].size - 1
    BY DEF SubdirPositions
  <2>2. /\ (SubdirAt(k).size)' = SubdirAt(k).size
        /\ (SubdirAt(k).addr)' = SubdirAt(k).addr
    BY <1>2, <1>4, <1>5, <2>1 DEF SameShape, SubdirAt
  <2>3. \A j : EntryAt(SubdirAt(k), j)' = EntryAt(SubdirAt(k), j)
    BY <2>2 DEF EntryAt
  <2> QED
    BY <2>2, <2>3 DEF LinksIn
<1>9. \A i \in Inodes : InSubdirs(i)' = InSubdirs(i)
  BY <1>6, <1>8 DEF InSubdirs
<1>10. \A i \in Inodes : LinksBelow(i) = Cardinality(Shares(InSubdirs(i), SubdirPositions))
  BY SumsBelow
<1>11. \A i \in Inodes : LinksBelow(i)' = Cardinality(Shares(InSubdirs(i)', SubdirPositions'))
  <2>1. (\A i \in Inodes : LinksBelow(i) = Cardinality(Shares(InSubdirs(i), SubdirPositions)))'
    BY SumsBelow, PTL
  <2> QED
    BY <2>1 DEF Shares
<1>12. \A i \in Inodes : LinksBelow(i)' = LinksBelow(i)
  BY <1>6, <1>9, <1>10, <1>11
<1>13. \A i \in Inodes :
         linkCounts'[i] = (IF i = Root THEN 1 ELSE 0) + LinksIn(inode[Root], i)' + LinksBelow(i)'
  <2>1. (\A i \in Inodes :
           linkCounts[i] = (IF i = Root THEN 1 ELSE 0) + LinksIn(inode[Root], i) + LinksBelow(i))'
    BY LinkCountsAre, PTL
  <2> QED
    BY <2>1
<1> QED
  BY <1>7, <1>12, <1>13, LinkCountsAre
-----------------------------------------------------------------------------
(***************************************************************************)
(* Halfway: each index node has its number of links or is about to be      *)
(* written, and so with the bits.                                          *)
(***************************************************************************)
Repairing == call.kind = "fsck" /\ ~ call.refused /\ (pc = "fsckBlocks" \/ (pc = "exit" /\ mem.ok))

LinksMend ==
  /\ \A w \in Among(pending) : Mends(w)
  /\ \A i \in Inodes : \/ inode[i].nlink = linkCounts[i]
                       \/ \E w \in Among(pending) : w.to = "inode" /\ w.at = i

BitsMend ==
  /\ \A w \in Among(pending) : w.to = "bitmap" /\ (w.set <=> w.at \in InUse)
  /\ \A b \in Blocks : (b \in bitmap <=> b \in InUse) \/ \E w \in Among(pending) : w.at = b

Mending == Repairing => LinksMend /\ (pc = "exit" => BitsMend)

LEMMA AmongHead ==
  ASSUME NEW s, Writes(s), s # <<>>
  PROVE  Among(s) = {Head(s)} \cup Among(Tail(s))
<1>1. PICK T : s \in Seq(T)
  BY DEF Writes
<1>2. Head(s) \in T /\ Tail(s) \in Seq(T) /\ s = <<Head(s)>> \o Tail(s)
  BY <1>1
<1>3. Among(<<Head(s)>> \o Tail(s)) = Among(<<Head(s)>>) \cup Among(Tail(s))
  <2>1. <<Head(s)>> \in Seq(T)
    BY <1>2
  <2> QED
    BY <1>2, <2>1, AmongBoth
<1>4. Among(<<Head(s)>>) = {Head(s)}
  BY DEF Among
<1> QED
  BY <1>2, <1>3, <1>4

LEMMA NothingPending ==
  ASSUME NEW s, s = <<>>
  PROVE  Among(s) = {}
BY DEF Among

LEMMA FlushMendsLinks ==
  ASSUME FsInv, Flush, LinksMend
  PROVE  LinksMend'
<1> DEFINE w == Head(pending)
<1>1. /\ bitmap' = CASE w.to # "bitmap" -> bitmap
                     [] w.to = "bitmap" /\ w.set -> bitmap \cup {w.at}
                     [] OTHER -> bitmap \ {w.at}
      /\ inode' = IF w.to = "inode" THEN [inode EXCEPT ![w.at] = w.node] ELSE inode
      /\ block' = IF w.to = "block" THEN [block EXCEPT ![w.at] = w.data] ELSE block
      /\ pending' = Tail(pending) /\ pending # <<>> /\ Writes(pending) /\ DiskOK
  BY DEF Flush, FsInv
<1>2. DiskOK' /\ WriteOK(w) /\ Among(pending) = {w} \cup Among(pending')
  BY <1>1, FlushedDisk, FirstWrite, AmongHead
<1>3. Mends(w)
  BY <1>2 DEF LinksMend
<1> HIDE DEF w
<1>4. block' = block
  BY <1>1, <1>3 DEF Mends
<1>5. w.to = "inode" => w.at \in Inodes /\ w.node \in IndexNodes
  BY <1>2 DEF WriteOK, NodeAt, NodeOK
<1>6. ASSUME NEW i \in Inodes, linkCounts[i] # 0
      PROVE  SameShape(i) /\ inode'[i] = [inode[i] EXCEPT !.nlink = inode'[i].nlink]
  <2>1. inode[i] \in IndexNodes /\ inode[i] = [inode[i] EXCEPT !.nlink = inode[i].nlink]
    BY <1>1 DEF DiskOK, IndexNodes
  <2>2. CASE w.to = "inode" /\ w.at = i
    <3>1. inode'[i] = w.node /\ w.node = [inode[i] EXCEPT !.nlink = linkCounts[i]]
      BY <1>1, <1>3, <1>6, <2>2 DEF Mends, DiskOK
    <3>2. inode'[i].mode = inode[i].mode /\ inode'[i].size = inode[i].size
          /\ inode'[i].addr = inode[i].addr /\ inode'[i].nlink = linkCounts[i]
      BY <2>1, <3>1 DEF IndexNodes
    <3> QED
      BY <3>1, <3>2 DEF SameShape
  <2>3. CASE ~ (w.to = "inode" /\ w.at = i)
    <3>1. inode'[i] = inode[i]
      BY <1>1, <1>5, <2>3 DEF DiskOK
    <3> QED
      BY <2>1, <3>1 DEF SameShape
  <2> QED
    BY <2>2, <2>3
<1>7. \A i \in Inodes : linkCounts'[i] = linkCounts[i]
  BY <1>1, <1>2, <1>4, <1>6, CountsStay
<1>8. ASSUME NEW v \in Among(pending') PROVE Mends(v)'
  <2>1. Mends(v)
    BY <1>2 DEF LinksMend
  <2>2. CASE v.to = "inode"
    <3>1. PICK S : pending' \in Seq(S) /\ \A x \in S : WriteOK(x)
      BY <1>1, FirstWrite DEF Writes
    <3>2. v \in S
      BY <3>1 DEF Among
    <3>3. v.at \in Inodes
      BY <2>2, <3>1, <3>2 DEF WriteOK
    <3>4. linkCounts'[v.at] = linkCounts[v.at] /\ v.node.nlink = linkCounts[v.at]
      BY <1>7, <2>1, <2>2, <3>3 DEF Mends
    <3>5. ASSUME linkCounts[v.at] # 0
          PROVE  v.node = [inode'[v.at] EXCEPT !.nlink = linkCounts[v.at]]
      <4>1. v.node = [inode[v.at] EXCEPT !.nlink = linkCounts[v.at]]
        BY <2>1, <2>2, <3>5 DEF Mends
      <4>2. inode[v.at] \in IndexNodes
        BY <1>1, <3>3 DEF DiskOK
      <4>3. PICK n : n = inode'[v.at].nlink
        OBVIOUS
      <4>4. inode'[v.at] = [inode[v.at] EXCEPT !.nlink = n]
        BY <1>6, <3>3, <3>5, <4>3
      <4> QED
        BY <4>1, <4>2, <4>4 DEF IndexNodes
    <3> QED
      BY <2>1, <2>2, <3>4, <3>5 DEF Mends
  <2>3. CASE v.to # "inode"
    BY <2>1, <2>3 DEF Mends
  <2> QED
    BY <2>2, <2>3
<1>9. ASSUME NEW i \in Inodes
      PROVE  \/ inode'[i].nlink = linkCounts'[i]
             \/ \E v \in Among(pending') : v.to = "inode" /\ v.at = i
  <2>1. CASE w.to = "inode" /\ w.at = i
    <3>1. inode'[i].nlink = linkCounts[i]
      BY <1>1, <1>3, <2>1 DEF Mends, DiskOK
    <3> QED
      BY <1>7, <3>1
  <2>2. CASE ~ (w.to = "inode" /\ w.at = i)
    <3>1. inode'[i] = inode[i]
      BY <1>1, <1>5, <2>2 DEF DiskOK
    <3> QED
      BY <1>2, <1>7, <2>2, <3>1 DEF LinksMend
  <2> QED
    BY <2>1, <2>2
<1> QED
  BY <1>8, <1>9 DEF LinksMend

LEMMA FlushMendsBits ==
  ASSUME FsInv, Flush, BitsMend
  PROVE  BitsMend'
<1> DEFINE w == Head(pending)
<1>1. /\ bitmap' = CASE w.to # "bitmap" -> bitmap
                     [] w.to = "bitmap" /\ w.set -> bitmap \cup {w.at}
                     [] OTHER -> bitmap \ {w.at}
      /\ inode' = IF w.to = "inode" THEN [inode EXCEPT ![w.at] = w.node] ELSE inode
      /\ pending' = Tail(pending) /\ pending # <<>> /\ Writes(pending)
  BY DEF Flush, FsInv
<1>2. Among(pending) = {w} \cup Among(pending')
  BY <1>1, AmongHead
<1>3. w.to = "bitmap" /\ (w.set <=> w.at \in InUse)
  BY <1>2 DEF BitsMend
<1> HIDE DEF w
<1>4. inode' = inode
  BY <1>1, <1>3
<1>5. InUse' = InUse
  BY <1>4 DEF InUse, Live, AddressesOf
<1>6. \A b \in Blocks : (b \in bitmap' <=> b \in InUse) \/ \E v \in Among(pending') : v.at = b
  <2> SUFFICES ASSUME NEW b \in Blocks
               PROVE  (b \in bitmap' <=> b \in InUse) \/ \E v \in Among(pending') : v.at = b
    OBVIOUS
  <2>1. (b \in bitmap <=> b \in InUse) \/ \E v \in Among(pending) : v.at = b
    BY DEF BitsMend
  <2>2. CASE w.at = b
    BY <1>1, <1>3, <2>2
  <2>3. CASE w.at # b
    <3>1. b \in bitmap' <=> b \in bitmap
      BY <1>1, <1>3, <2>3
    <3> QED
      BY <1>2, <2>1, <2>3, <3>1
  <2> QED
    BY <2>2, <2>3
<1>7. \A v \in Among(pending') : v.to = "bitmap" /\ (v.set <=> v.at \in InUse)
  BY <1>2 DEF BitsMend
<1> QED
  BY <1>5, <1>6, <1>7 DEF BitsMend
LEMMA StillMending ==
  ASSUME DiskOK, UNCHANGED disk
  PROVE  /\ \A i \in Inodes : linkCounts'[i] = linkCounts[i]
         /\ \A w : Mends(w) /\ (w.to = "inode" => w.at \in Inodes) => Mends(w)'
<1>1. inode' = inode /\ block' = block /\ DiskOK'
  BY SameDisk DEF disk
<1>2. \A i \in Inodes : linkCounts'[i] = linkCounts[i]
  <2>1. \A i \in Inodes : SameShape(i)
    BY <1>1 DEF SameShape
  <2> QED
    BY <1>1, <2>1, CountsStay
<1>3. ASSUME NEW w, Mends(w), w.to = "inode" => w.at \in Inodes PROVE Mends(w)'
  BY <1>1, <1>2, <1>3 DEF Mends
<1> QED
  BY <1>2, <1>3

LEMMA WritesAt ==
  ASSUME NEW s, Writes(s)
  PROVE  \A w \in Among(s) : w.to = "inode" => w.at \in Inodes
<1>1. PICK T : s \in Seq(T) /\ \A x \in T : WriteOK(x)
  BY DEF Writes
<1>2. Among(s) \subseteq T
  BY <1>1 DEF Among
<1> QED
  BY <1>1, <1>2 DEF WriteOK

LEMMA FsckLinksMends ==
  ASSUME FsInv, FsckLinks
  PROVE  Mending'
<1>1. pc' = "fsckBlocks" /\ UNCHANGED disk /\ DiskOK /\ call \in FsckCalls
      /\ (pending' = LinkRepairs \/ call' = [call EXCEPT !.refused = TRUE])
  BY WhoIsAt DEF FsckLinks, FsInv, Answered, LinkRepairs, Ready
<1>2. CASE pending' = LinkRepairs
  <2>1. PICK r : r = LinkRepairs
    OBVIOUS
  <2>2. \A w \in Among(r) : Mends(w) /\ (w.to = "inode" => w.at \in Inodes)
    <3>1. Writes(r)
      BY <1>1, <2>1, RepairLinksOK DEF LinkRepairs
    <3> QED
      BY <1>1, <2>1, <3>1, LinkRepairsAre, WritesAt
  <2>3. \A i \in Inodes : \/ inode[i].nlink = linkCounts[i]
                          \/ \E w \in Among(r) : w.to = "inode" /\ w.at = i
    BY <1>1, <2>1, LinkRepairsAre
  <2>4. \A w \in Among(r) : Mends(w)'
    BY <1>1, <2>2, StillMending
  <2>5. \A i \in Inodes : \/ inode'[i].nlink = linkCounts'[i]
                          \/ \E w \in Among(r) : w.to = "inode" /\ w.at = i
    BY <1>1, <2>3, StillMending DEF disk
  <2>6. LinksMend'
    BY <1>2, <2>1, <2>4, <2>5 DEF LinksMend
  <2> QED
    BY <1>1, <2>6 DEF Mending
<1>3. CASE call' = [call EXCEPT !.refused = TRUE]
  BY <1>1, <1>3 DEF FsckCalls, Mending, Repairing
<1> QED
  BY <1>1, <1>2, <1>3

LEMMA FsckBlocksMends ==
  ASSUME FsInv, Mending, FsckBlocks
  PROVE  Mending'
<1>1. /\ pc = "fsckBlocks" /\ pending = <<>> /\ pc' = "exit" /\ UNCHANGED disk /\ DiskOK
      /\ call \in FsckCalls
      /\ \/ pending' = BitRepairs /\ call' = call
         \/ call' = [call EXCEPT !.refused = TRUE]
  BY WhoIsAt DEF FsckBlocks, FsInv, Answered, BitRepairs, Ready, Exit
<1>2. CASE call' = [call EXCEPT !.refused = TRUE]
  BY <1>1, <1>2 DEF FsckCalls, Mending, Repairing
<1>3. CASE pending' = BitRepairs /\ call' = call
  <2> SUFFICES ASSUME ~ call.refused PROVE LinksMend' /\ BitsMend'
    BY <1>1, <1>3 DEF Mending, Repairing
  <2>1. \A i \in Inodes : inode[i].nlink = linkCounts[i]
    BY <1>1, NothingPending, Kinds DEF Mending, Repairing, LinksMend
  <2>2. PICK r : r = BitRepairs
    OBVIOUS
  <2>3. /\ \A w \in Among(r) : w.to = "bitmap" /\ (w.set <=> w.at \in InUse)
        /\ \A b \in Blocks : (b \in bitmap <=> b \in InUse) \/ \E w \in Among(r) : w.at = b
    BY <2>2, BitRepairsAre
  <2>4. inode' = inode /\ bitmap' = bitmap /\ InUse' = InUse
    BY <1>1 DEF disk, InUse, Live, AddressesOf
  <2>5. BitsMend'
    BY <1>3, <2>2, <2>3, <2>4 DEF BitsMend
  <2>6. \A i \in Inodes : inode'[i].nlink = linkCounts'[i]
    BY <1>1, <2>1, <2>4, StillMending
  <2>7. \A w \in Among(r) : Mends(w)'
    BY <2>3 DEF Mends
  <2>8. LinksMend'
    BY <1>3, <2>2, <2>6, <2>7 DEF LinksMend
  <2> QED
    BY <2>5, <2>8
<1> QED
  BY <1>1, <1>2, <1>3

LEMMA FlushMends ==
  ASSUME FsInv, Mending, Flush
  PROVE  Mending'
<1>1. UNCHANGED <<pc, call, mem>>
  BY DEF Flush
<1> QED
  BY <1>1, FlushMendsLinks, FlushMendsBits DEF Mending, Repairing

LEMMA StutterMends ==
  ASSUME FsInv, Mending, UNCHANGED vars
  PROVE  Mending'
<1>1. UNCHANGED disk /\ UNCHANGED <<pending, pc, call, mem>> /\ inode' = inode /\ bitmap' = bitmap
      /\ Writes(pending) /\ DiskOK
  BY DEF vars, disk, FsInv
<1>2. LinksMend => LinksMend'
  <2> SUFFICES ASSUME LinksMend PROVE LinksMend'
    OBVIOUS
  <2>1. \A w \in Among(pending) : Mends(w)'
    BY <1>1, StillMending, WritesAt DEF LinksMend
  <2>2. \A i \in Inodes : \/ inode'[i].nlink = linkCounts'[i]
                          \/ \E w \in Among(pending) : w.to = "inode" /\ w.at = i
    BY <1>1, StillMending DEF LinksMend
  <2> QED
    BY <1>1, <2>1, <2>2 DEF LinksMend
<1>3. BitsMend => BitsMend'
  <2>1. InUse' = InUse
    BY <1>1 DEF InUse, Live, AddressesOf
  <2> QED
    BY <1>1, <2>1 DEF BitsMend
<1> QED
  BY <1>1, <1>2, <1>3 DEF Mending, Repairing

\* The other programs, and fsck where it does not repair.
LEMMA NotRepairing ==
  ASSUME FsInv, call' = call, pc \notin {"idle", "fsck", "fsckBlocks", "exit"}
  PROVE  Mending'
<1>1. call.kind # "fsck"
  BY Kinds DEF FsInv, CallOK, InsertPcs
<1> QED
  BY <1>1 DEF Mending, Repairing

LEMMA NextMends == FsInv /\ Mending /\ [Next]_vars => Mending'
<1> SUFFICES ASSUME FsInv, Mending, [Next]_vars PROVE Mending'
  OBVIOUS
<1>1. CASE Create \/ Mkdir \/ Ln \/ LnS \/ Rm
  <2>1. pc' \in {"creat", "link", "symlink", "unlink"}
    BY <1>1 DEF Create, Mkdir, Ln, LnS, Rm, Start
  <2> QED
    BY <2>1 DEF Mending, Repairing
<1>2. CASE Creat \/ Insert \/ WriteAll \/ LinkAll \/ SymlinkAll \/ UnlinkAll
  <2>1. call' = call /\ pc \notin {"idle", "fsck", "fsckBlocks", "exit"}
    <3>1. CASE Creat \/ Insert \/ WriteAll
      BY <3>1 DEF Creat, CreatNew, CreatFails, CreatTruncates, Insert, InsertFails, OpenDir, Place,
                  PlaceLast, WriteAll, Write, WriteFails, WriteMore, Close, Ready
    <3>2. CASE LinkAll \/ SymlinkAll \/ UnlinkAll
      BY <3>2 DEF LinkAll, Link, LinkFails, Linked, SymlinkAll, Symlink, SymlinkFails,
                  SymlinkTarget, SymlinkUndo, UnlinkAll, Unlink, UnlinkFails, Pull, Cut, Ready
    <3> QED
      BY <1>2, <3>1, <3>2
  <2> QED
    BY <2>1, NotRepairing
<1>3. CASE MkdirRest
  <2>1. CASE MkdirDot \/ MkdirFails \/ MkdirInc \/ MkdirDotDot
    <3>1. call' = call /\ pc \in {"dot", "inc", "dotdot"}
      BY <2>1 DEF MkdirDot, MkdirFails, MkdirInc, MkdirDotDot, Ready
    <3> QED
      BY <3>1, NotRepairing
  <2>2. CASE MkdirParent
    <3>1. call \in MkdirCalls /\ (call' = call \/ pc' = "creat")
      BY <2>2, WhoIsAt DEF MkdirParent, Ready, FsInv
    <3> QED
      BY <3>1, Kinds DEF Mending, Repairing
  <2> QED
    BY <1>3, <2>1, <2>2 DEF MkdirRest
<1>4. CASE Fsck \/ FsckFails \/ Return \/ Crash
  <2>1. pc' \in {"fsck", "idle"} \/ (pc' = "exit" /\ mem'.ok = FALSE)
    <3>1. CASE FsckFails
      BY <3>1 DEF FsckFails, Exit, FsInv, MemOK, Mems
    <3>2. CASE Fsck \/ Return \/ Crash
      BY <3>2 DEF Fsck, Return, Crash
    <3> QED
      BY <1>4, <3>1, <3>2
  <2> QED
    BY <2>1 DEF Mending, Repairing
<1>5. CASE FsckLinks
  BY <1>5, FsckLinksMends
<1>6. CASE FsckBlocks
  BY <1>6, FsckBlocksMends
<1>7. CASE Flush
  BY <1>7, FlushMends
<1>8. CASE UNCHANGED vars
  BY <1>8, StutterMends
<1> QED
  BY <1>1, <1>2, <1>3, <1>4, <1>5, <1>6, <1>7, <1>8 DEF Next, FsckAll

\* What fsck makes of any file system, consistent or not.
AsCounted ==
  Ended /\ call.kind = "fsck" /\ ~ call.refused /\ mem.ok =>
    /\ bitmap = InUse
    /\ \A i \in Inodes : inode[i].nlink = linkCounts[i]

LEMMA MendedAtTheEnd == FsInv /\ Mending => AsCounted
<1> SUFFICES ASSUME FsInv, Mending, Ended, call.kind = "fsck", ~ call.refused, mem.ok
             PROVE  bitmap = InUse /\ \A i \in Inodes : inode[i].nlink = linkCounts[i]
  BY DEF AsCounted
<1>1. LinksMend /\ BitsMend /\ Among(pending) = {}
  BY NothingPending DEF Ended, Mending, Repairing
<1>2. InUse \subseteq Blocks
  <2>1. \A i \in Inodes : AddressesOf(i) \subseteq Blocks
    <3> SUFFICES ASSUME NEW i \in Inodes PROVE AddressesOf(i) \subseteq Blocks
      OBVIOUS
    <3>1. inode[i].addr \in [0 .. MaxDirectBlocks - 1 -> Blocks \cup {NoBlock}]
      BY DEF FsInv, DiskOK, IndexNodes
    <3> QED
      BY <3>1 DEF AddressesOf, NoAddresses
  <2> QED
    BY <2>1 DEF InUse, Live
<1>3. bitmap \subseteq Blocks
  BY DEF FsInv, DiskOK
<1> QED
  BY <1>1, <1>2, <1>3 DEF LinksMend, BitsMend

\* An fsck that may repair everything leaves the blocks marked that index nodes
\* in use have, and no others, and each index node with as many links as it
\* counted; and counted anew on the repaired disk they are still the same.
\* Whatever it found: names twice in a directory, blocks of two owners, and
\* wherever other programs or an earlier fsck have been stopped.
THEOREM SpecFsckCounts == Spec => []AsCounted
<1>1. Init => Mending
  BY DEF Init, Mending, Repairing, Idle
<1> QED
  BY <1>1, FsInvariance, NextMends, MendedAtTheEnd, PTL DEF Spec
-----------------------------------------------------------------------------
(***************************************************************************)
(* The number of links fsck counts, and the references there are: fsck     *)
(* goes through the root by names, the references by index nodes.          *)
(***************************************************************************)
\* "." and ".." and nothing else at the first two places of the root, and no
\* directory twice behind them.
RootInOrder ==
  /\ \A k \in 0 .. inode[Root].size - 1 :
       /\ EntryAt(inode[Root], k).name \in {Dot, DotDot} <=> k < 2
       /\ k >= 2 => EntryAt(inode[Root], k).ino # Root
  /\ \A j, k \in 2 .. inode[Root].size - 1 :
       EntryAt(inode[Root], j).ino = EntryAt(inode[Root], k).ino
         /\ inode[EntryAt(inode[Root], k).ino].mode = "dir" => j = k

RootIno == [k \in 0 .. inode[Root].size - 1 |-> EntryAt(inode[Root], k).ino]

LEMMA SubdirsMatch ==
  ASSUME DiskOK, NamesOnce, RootInOrder
  PROVE  /\ \A p \in SubdirPositions : /\ RootIno[p] \in Directories \ {Root}
                                       /\ SubdirAt(p) = inode[RootIno[p]]
         /\ \A d \in Directories \ {Root} : \E p \in SubdirPositions : RootIno[p] = d
         /\ \A p, q \in SubdirPositions : RootIno[p] = RootIno[q] => p = q
<1> DEFINE r == inode[Root]
           K == 0 .. r.size - 1
<1>1. /\ inode[Root] \in IndexNodes /\ NodeOK(inode[Root]) /\ Root \in Inodes
      /\ inode[Root].size \in Nat /\ inode[Root].size <= Space
  BY NoInodeOut, NodeParts DEF DiskOK, NodeAt
<1>2. \A k \in K : EntryAt(r, k) \in DirEntries /\ RootIno[k] = EntryAt(r, k).ino /\ RootIno[k] \in Inodes
  <2>1. \A k \in K : k \in 0 .. Space - 1
    BY <1>1, Sizes
  <2> QED
    BY <1>1, <2>1, EntryAtType DEF RootIno, DirEntries
<1>3. ASSUME NEW k \in K PROVE NodeIn(r, EntryAt(r, k).name) = RootIno[k]
  <2> DEFINE name == EntryAt(r, k).name
  <2>1. k \in Positions(r, name)
    BY DEF Positions
  <2>2. Min(Positions(r, name)) \in K /\ EntryAt(r, Min(Positions(r, name))).name = name
        /\ NodeIn(r, name) = EntryAt(r, Min(Positions(r, name))).ino
    BY <1>1, <2>1, NodeInFound
  <2>3. Root \in Directories
    BY DEF Directories
  <2>4. Min(Positions(r, name)) = k
    BY <2>2, <2>3 DEF NamesOnce
  <2> QED
    BY <1>2, <2>2, <2>4
<1>4. \A p \in K : p \in SubdirPositions <=> p >= 2 /\ inode[RootIno[p]].mode = "dir"
  BY <1>1, <1>3 DEF SubdirPositions, RootInOrder
<1>5. SubdirPositions \subseteq K
  BY DEF SubdirPositions
<1>6. ASSUME NEW p \in SubdirPositions
      PROVE  RootIno[p] \in Directories \ {Root} /\ SubdirAt(p) = inode[RootIno[p]]
  <2>1. p \in K /\ p >= 2 /\ p \in 2 .. r.size - 1 /\ inode[RootIno[p]].mode = "dir"
    BY <1>1, <1>4, <1>5
  <2>2. RootIno[p] # Root /\ RootIno[p] = EntryAt(r, p).ino /\ RootIno[p] \in Inodes
    BY <1>2, <2>1 DEF RootInOrder
  <2>3. RootIno[p] \in Directories
    BY <2>1, <2>2 DEF Directories
  <2> QED
    BY <1>3, <2>1, <2>2, <2>3 DEF SubdirAt
<1>7. ASSUME NEW d \in Directories \ {Root}
      PROVE  \E p \in SubdirPositions : RootIno[p] = d
  <2>1. d \in Inodes /\ inode[d].mode = "dir"
    BY DEF Directories
  <2>2. PICK p \in 2 .. r.size - 1 : EntryAt(r, p).ino = d
    BY DEF Directories
  <2>3. p \in K /\ p >= 2
    BY <1>1
  <2> QED
    BY <1>2, <1>4, <2>1, <2>2, <2>3
<1>8. ASSUME NEW p \in SubdirPositions, NEW q \in SubdirPositions, RootIno[p] = RootIno[q]
      PROVE  p = q
  <2>1. p \in 2 .. r.size - 1 /\ q \in 2 .. r.size - 1 /\ p \in K /\ q \in K
        /\ inode[RootIno[q]].mode = "dir"
    BY <1>1, <1>4, <1>5
  <2> QED
    BY <1>2, <1>8, <2>1 DEF RootInOrder
<1> QED
  BY <1>6, <1>7, <1>8

\* Where in directory d index node i is referred to.
LinkPlaces(d, i) == {k \in 0 .. inode[d].size - 1 : EntryAt(inode[d], k).ino = i}

LEMMA LinkPlacesAre ==
  ASSUME DiskOK, NEW d \in Inodes, NEW i
  PROVE  /\ IsFiniteSet(LinkPlaces(d, i)) /\ LinkPlaces(d, i) \subseteq 0 .. Space - 1
         /\ Cardinality(LinkPlaces(d, i)) = LinksIn(inode[d], i) /\ LinksIn(inode[d], i) \in Nat
         /\ \A k : k \in LinkPlaces(d, i) <=>
                     k \in 0 .. Space - 1 /\ k < inode[d].size /\ EntryAt(inode[d], k).ino = i
<1>1. inode[d] \in IndexNodes /\ inode[d].size \in Nat /\ inode[d].size <= Space
  BY NodeParts DEF DiskOK, NodeAt
<1>2. \A k : k \in 0 .. inode[d].size - 1 <=> k \in 0 .. Space - 1 /\ k < inode[d].size
  BY <1>1, Sizes
<1>3. IsFiniteSet(0 .. inode[d].size - 1)
  BY <1>1, FS_Interval
<1>4. LinkPlaces(d, i) \subseteq 0 .. inode[d].size - 1
  BY DEF LinkPlaces
<1>5. IsFiniteSet(LinkPlaces(d, i))
  BY <1>3, <1>4, FS_Subset
<1>6. Cardinality(LinkPlaces(d, i)) = LinksIn(inode[d], i)
  BY DEF LinkPlaces, LinksIn
<1> QED
  BY <1>1, <1>2, <1>5, <1>6, LinksInType DEF LinkPlaces

\* The references outside the root.
Below(i) == {at \in Referring(i) : at[1] # Root}

LEMMA BelowAre ==
  ASSUME DiskOK, NamesOnce, RootInOrder, NEW i \in Inodes
  PROVE  IsFiniteSet(Below(i)) /\ Cardinality(Below(i)) = LinksBelow(i)
<1> DEFINE P == SubdirPositions
           S == Shares(InSubdirs(i), P)
           places == [p \in P |-> LinkPlaces(RootIno[p], i)]
           turn == [p \in P |-> CHOOSE f : f \in Bijection(1 .. Cardinality(places[p]), places[p])]
           h == [c \in S |-> <<RootIno[c[1]], turn[c[1]][c[2]]>>]
<1>1. \A p \in P : RootIno[p] \in Directories \ {Root} /\ SubdirAt(p) = inode[RootIno[p]]
  BY SubdirsMatch
<1>2. Directories \subseteq Inodes
  BY NoInodeOut DEF Directories
<1>3. ASSUME NEW p \in P
      PROVE  /\ turn[p] \in Bijection(1 .. InSubdirs(i)[p], LinkPlaces(RootIno[p], i))
             /\ InSubdirs(i)[p] \in Nat
  <2>1. RootIno[p] \in Inodes
    BY <1>1, <1>2
  <2>2. IsFiniteSet(LinkPlaces(RootIno[p], i))
        /\ Cardinality(LinkPlaces(RootIno[p], i)) = InSubdirs(i)[p] /\ InSubdirs(i)[p] \in Nat
    BY <1>1, <2>1, LinkPlacesAre DEF InSubdirs
  <2>3. \E f : f \in Bijection(1 .. Cardinality(places[p]), places[p])
    BY <2>2, FS_CardinalityType DEF ExistsBijection
  <2>4. turn[p] \in Bijection(1 .. Cardinality(places[p]), places[p])
    BY <2>3
  <2> QED
    BY <2>2, <2>4
<1> HIDE DEF turn, P
<1>4. \A c \in S : c[1] \in P /\ c[2] \in 1 .. InSubdirs(i)[c[1]] /\ c = <<c[1], c[2]>>
  BY DEF Shares
<1>5. ASSUME NEW c \in S PROVE h[c] \in Below(i)
  <2>1. c[1] \in P /\ turn[c[1]][c[2]] \in LinkPlaces(RootIno[c[1]], i)
    BY <1>3, <1>4 DEF Bijection, Injection, Surjection
  <2>2. RootIno[c[1]] \in Directories /\ RootIno[c[1]] \in Inodes /\ RootIno[c[1]] # Root
    BY <1>1, <1>2, <2>1
  <2>3. <<RootIno[c[1]], turn[c[1]][c[2]]>> \in Referring(i)
    BY <2>1, <2>2, LinkPlacesAre DEF Referring, Space
  <2> QED
    BY <2>2, <2>3 DEF Below
<1>6. ASSUME NEW b \in S, NEW c \in S, h[b] = h[c] PROVE b = c
  <2>1. RootIno[b[1]] = RootIno[c[1]] /\ turn[b[1]][b[2]] = turn[c[1]][c[2]]
    BY <1>6
  <2>2. b[1] = c[1]
    BY <1>4, <2>1, SubdirsMatch DEF P
  <2>3. b[2] = c[2]
    BY <1>3, <1>4, <2>1, <2>2 DEF Bijection, Injection, IsInjective
  <2> QED
    BY <1>4, <2>2, <2>3
<1>7. ASSUME NEW at \in Below(i) PROVE \E c \in S : h[c] = at
  <2>1. /\ at = <<at[1], at[2]>> /\ at[1] \in Directories \ {Root} /\ at[1] \in Inodes
        /\ at[2] \in 0 .. Space - 1 /\ at[2] < inode[at[1]].size
        /\ EntryAt(inode[at[1]], at[2]).ino = i
    BY <1>2 DEF Below, Referring, Space
  <2>2. PICK p \in P : RootIno[p] = at[1]
    BY <2>1, SubdirsMatch DEF P
  <2>3. at[2] \in LinkPlaces(RootIno[p], i)
    BY <2>1, <2>2, LinkPlacesAre
  <2>4. PICK m \in 1 .. InSubdirs(i)[p] : turn[p][m] = at[2]
    BY <1>3, <2>3 DEF Bijection, Surjection
  <2>5. <<p, m>> \in S
    BY <1>3, <2>4 DEF Shares
  <2>6. h[<<p, m>>] = at
    BY <2>1, <2>2, <2>4, <2>5
  <2> QED
    BY <2>5, <2>6
<1>8. h \in [S -> Below(i)]
  BY <1>5
<1> HIDE DEF h, S
<1>9. h \in Bijection(S, Below(i))
  BY <1>6, <1>7, <1>8 DEF Bijection, Injection, Surjection, IsInjective
<1>10. IsFiniteSet(P) /\ \A p \in P : InSubdirs(i)[p] \in Nat
  BY <1>3, SubdirsAre DEF P
<1>11. IsFiniteSet(S)
  BY <1>10, SharesFinite DEF S
<1>12. IsFiniteSet(Below(i)) /\ Cardinality(Below(i)) = Cardinality(S)
  BY <1>9, <1>11, FS_Bijection DEF ExistsBijection
<1> QED
  BY <1>12, SumOverSubdirs DEF S, P

\* fsck counts the directory entries, and one more for the root.
LEMMA CountsAreReferences ==
  ASSUME DiskOK, NamesOnce, RootInOrder, NEW i \in Inodes
  PROVE  linkCounts[i] = References(i) + (IF i = Root THEN 1 ELSE 0)
<1> DEFINE A == {Root} \X LinkPlaces(Root, i)
<1>1. Root \in Inodes /\ Root \in Directories
  BY NoInodeOut DEF Directories
<1>2. /\ IsFiniteSet(LinkPlaces(Root, i)) /\ Cardinality(LinkPlaces(Root, i)) = LinksIn(inode[Root], i)
      /\ LinksIn(inode[Root], i) \in Nat
  BY <1>1, LinkPlacesAre
<1>3. IsFiniteSet({Root}) /\ Cardinality({Root}) = 1
  BY FS_Singleton
<1>4. IsFiniteSet(A) /\ Cardinality(A) = 1 * Cardinality(LinkPlaces(Root, i))
  BY <1>2, <1>3, FS_Product
<1>5. Referring(i) = A \cup Below(i) /\ A \cap Below(i) = {}
  <2>1. A \subseteq Referring(i)
    BY <1>1, LinkPlacesAre DEF Referring, Space
  <2>2. ASSUME NEW at \in Referring(i), at[1] = Root PROVE at \in A
    BY <1>1, <2>2, LinkPlacesAre DEF Referring, Space
  <2>3. \A at \in A : at[1] = Root
    OBVIOUS
  <2> QED
    BY <2>1, <2>2, <2>3 DEF Below
<1> HIDE DEF A
<1>6. IsFiniteSet(Below(i)) /\ Cardinality(Below(i)) = LinksBelow(i) /\ LinksBelow(i) \in Nat
  BY BelowAre, SumOverSubdirs
<1>7. Cardinality(Referring(i)) = Cardinality(A) + Cardinality(Below(i)) - Cardinality(A \cap Below(i))
  BY <1>4, <1>5, <1>6, FS_Union
<1>8. Cardinality(A \cap Below(i)) = 0
  BY <1>5, FS_EmptySet
<1>9. References(i) = LinksIn(inode[Root], i) + LinksBelow(i)
  BY <1>2, <1>4, <1>6, <1>7, <1>8, ReferencesAre
<1> QED
  BY <1>2, <1>6, <1>9, LinkCountsAre

\* On a file system as it should be, fsck finds nothing to write.
LEMMA NothingAmong ==
  ASSUME NEW s, Writes(s), Among(s) = {}
  PROVE  s = <<>>
<1>1. PICK T : s \in Seq(T)
  BY DEF Writes
<1>2. Len(s) \in Nat /\ DOMAIN s = 1 .. Len(s)
  BY <1>1
<1>3. 1 \notin DOMAIN s
  BY DEF Among
<1>4. Len(s) = 0
  BY <1>2, <1>3
<1> QED
  BY <1>1, <1>4

LEMMA NothingToMend ==
  ASSUME DiskOK, \A i \in Inodes : inode[i].nlink = linkCounts[i]
  PROVE  LinkRepairs = <<>>
<1> DEFINE f == [i \in 1 .. NumInodes |-> RepairLinks(i - 1)]
<1>1. \A i \in 1 .. NumInodes : i - 1 \in Inodes
  BY Sizes DEF Inodes
<1>2. \A i \in 1 .. NumInodes : f[i] = <<>>
  BY <1>1 DEF RepairLinks
<1>3. f = [i \in 1 .. NumInodes |-> f[i]] /\ LinkRepairs = FlattenSeq(f)
  BY DEF LinkRepairs
<1> HIDE DEF f
<1>4. \A w : w \in Among(FlattenSeq(f)) <=> \E k \in 1 .. NumInodes : w \in Among(f[k])
  BY <1>2, <1>3, Sizes, NoWrites, AmongWrites
<1>5. Among(LinkRepairs) = {}
  <2>1. \A k \in 1 .. NumInodes : Among(f[k]) = {}
    BY <1>2 DEF Among
  <2> QED
    BY <1>3, <1>4, <2>1
<1>6. Writes(LinkRepairs)
  BY RepairLinksOK DEF LinkRepairs
<1> QED
  BY <1>5, <1>6, NothingAmong

LEMMA NothingToMark ==
  ASSUME bitmap = InUse
  PROVE  BitRepairs = <<>>
<1> DEFINE f == [b \in 1 .. NumBlocks |-> RepairBit(b - 1)]
<1>1. \A b \in 1 .. NumBlocks : f[b] = <<>>
  BY DEF RepairBit
<1>2. f = [b \in 1 .. NumBlocks |-> f[b]] /\ BitRepairs = FlattenSeq(f)
  BY DEF BitRepairs
<1> HIDE DEF f
<1>3. \A w : w \in Among(FlattenSeq(f)) <=> \E k \in 1 .. NumBlocks : w \in Among(f[k])
  BY <1>1, <1>2, Sizes, NoWrites, AmongWrites
<1>4. Among(BitRepairs) = {}
  <2>1. \A k \in 1 .. NumBlocks : Among(f[k]) = {}
    BY <1>1 DEF Among
  <2> QED
    BY <1>2, <1>3, <2>1
<1>5. Writes(BitRepairs)
  BY RepairBitsOK DEF BitRepairs
<1> QED
  BY <1>4, <1>5, NothingAmong

-----------------------------------------------------------------------------
(***************************************************************************)
(* The root directory stays in order (InOrder), whatever programs run and  *)
(* wherever they are stopped: behind "." and ".." it shows names that lead *)
(* to other index nodes, and each directory under one name, perhaps at     *)
(* several places.  A stop between two writes leaves one of the copies of  *)
(* the root's index node with the old or the new contents of a block, so   *)
(* all the copies must show this with both: in S are the entries the root  *)
(* may show, blk are the blocks when the pending writes are made, and bm   *)
(* blocks that are taken then.  Nothing is said of the other directories:  *)
(* a program without room, or one that cuts a directory, spoils them.      *)
(***************************************************************************)
EntryIn(blk, node, k) ==
  LET b == node.addr[k \div PerBlock] IN IF b = NoBlock THEN Blank ELSE blk[b].entry[k % PerBlock]

NamedEntries == {e \in DirEntries : e.name \in Names /\ e.ino # Root}

\* A directory has one name.
Once(S) == \A e, f \in S : e.ino = f.ino /\ inode[e.ino].mode = "dir" => e.name = f.name

\* The entry at position k, if there is one.
Fits(S, e, k) ==
  \/ e.name = Blank.name
  \/ k = 0 /\ e = Entry(Root, Dot)
  \/ k = 1 /\ e = Entry(Root, DotDot)
  \/ k >= 2 /\ e \in S

Shows(S, blk, node) == \A k \in 0 .. node.size - 1 : Fits(S, EntryIn(blk, node, k), k)

\* Each block is written with the data it has in blk, and one at most.
Ahead(blk) ==
  /\ blk \in [Blocks -> DataBlocks]
  /\ \A w \in Among(pending) : w.to = "block" => blk[w.at] = w.data
  /\ \A b \in Blocks : blk[b] = block[b] \/ \E w \in Among(pending) : w.to = "block" /\ w.at = b
  /\ \A m, n \in DOMAIN pending : pending[m].to = "block" /\ pending[n].to = "block" => m = n

ModeKept(S, w) == w.node.mode = inode[w.at].mode \/ \A e \in S : e.ino # w.at

IsRoot(w) == w.to = "inode" /\ w.at = Root

\* The root's index node may reach the disk before the block.
RootWrites(S, blk) ==
  \A n \in DOMAIN pending : IsRoot(pending[n]) =>
    /\ Shows(S, blk, pending[n].node)
    /\ (\E m \in DOMAIN pending : m > n /\ pending[m].to = "block") => Shows(S, block, pending[n].node)

Rest(S, blk) ==
  /\ S \subseteq NamedEntries /\ Once(S) /\ Ahead(blk)
  /\ Shows(S, block, inode[Root]) /\ Shows(S, blk, inode[Root])
  /\ \A w \in Among(pending) : w.to = "inode" => ModeKept(S, w)
  /\ RootWrites(S, blk)

\* The program that is running, and the copies of the root's index node.
Working == pc \notin {"idle", "exit", "fsck", "fsckBlocks"}

InRoot == pc \in {"place", "pull"} /\ mem.dirNo = Root

Copies ==
  {inode[Root], mem.root} \cup (IF InRoot THEN {mem.dir} ELSE {})
    \cup {w.node : w \in {v \in Among(pending) : IsRoot(v)}}

Addrs(node) == {node.addr[k] : k \in DOMAIN NoAddresses} \ {NoBlock}

\* The directory has no holes, and its first two entries.
Full(node) == node.size >= 2 /\ \A k \in 0 .. node.size - 1 : node.addr[k \div PerBlock] # NoBlock

\* The first block of one copy is no other block of another.
CopiesOK(S, blk, bm) ==
  /\ \A c \in Copies : Shows(S, blk, c) /\ Addrs(c) \subseteq bm
  /\ \A c, d \in Copies : \A k \in 1 .. MaxDirectBlocks - 1 :
       d.addr[k] = c.addr[0] => d.addr[k] = NoBlock
  /\ Full(mem.root) /\ (InRoot => Full(mem.dir))

BitsAhead(bm) ==
  /\ bm \subseteq Blocks
  /\ \A b \in bm : b \in bitmap \/ \E w \in Among(pending) : w.to = "bitmap" /\ w.at = b
  /\ \A w \in Among(pending) : w.to = "bitmap" /\ w.at \in bm => w.set

Clear(A) == \A c \in Copies : A \cap Addrs(c) = {}

\* Until the directory is opened, and while mkdir has another argument, other
\* index nodes have other blocks.
MoreToCome == pc \in Opening \/ (call.kind = "mkdir" /\ call.more # <<>>)

Apart(bm, node) == Addrs(node) \subseteq bm /\ Clear(Addrs(node))

OthersApart(bm) ==
  MoreToCome =>
    /\ \A i \in Inodes \ {Root} : inode[i].nlink > 0 =>
         Apart(bm, inode[i]) \/ \E w \in Among(pending) : w.to = "inode" /\ w.at = i
    /\ \A w \in Among(pending) : w.to = "inode" /\ w.at # Root => Apart(bm, w.node)

\* What S names is in use.
AllLive(S) ==
  pc \in {"creat", "symlink"} \/ call.kind = "mkdir" =>
    /\ \A e \in S : inode[e.ino].nlink > 0
    /\ \A w \in Among(pending) : w.to = "inode" => w.node.nlink > 0

\* The file in memory.
FilePcs == {"insert", "place", "write", "dot", "inc", "dotdot"}

FileApart(bm) ==
  call.kind \in {"create", "mkdir"} /\ pc \in FilePcs =>
    /\ Clear(Addrs(mem.file))
    /\ pc \in {"insert", "place"} \/ MoreToCome => Addrs(mem.file) \subseteq bm

FileKept(S) ==
  /\ pc \in FilePcs \cup {"target", "linked"} =>
       /\ \/ /\ inode[mem.ino].mode = mem.file.mode
             /\ call.kind = "mkdir" => inode[mem.ino].nlink > 0
          \/ \E w \in Among(pending) : w.to = "inode" /\ w.at = mem.ino
       /\ \A w \in Among(pending) : w.to = "inode" /\ w.at = mem.ino => w.node.mode = mem.file.mode
       /\ mem.file.mode = "dir" => call.kind = "mkdir"
       /\ call.kind = "mkdir" => mem.file.nlink > 0
  /\ pc = "insert" /\ call.kind = "mkdir" => \A e \in S : e.ino # mem.ino
  /\ pc = "parent" => mem.ino # NoInode

\* The opened directory.
DirKept(S) ==
  pc \in {"place", "pull"} =>
    /\ inode[mem.dirNo].mode = "dir"
    /\ \A w \in Among(pending) : w.to = "inode" /\ w.at = mem.dirNo => w.node.mode = "dir"
    /\ call.kind = "mkdir" => mem.dirNo = Root
    /\ mem.dirNo = Root => mem.pos >= 2 /\ (pc = "place" => Fits(S, mem.carry, 2))
    /\ mem.dirNo # Root => Clear(Addrs(mem.dir))

\* mkdir has come to its last argument: the program has written before.
Again == pc = "creat" /\ call.kind = "mkdir" /\ mem.ino # NoInode /\ call.more = <<>>

Untouched ==
  pc \in {"creat", "link", "symlink", "unlink"} /\ ~ Again =>
    Consistent /\ pending = <<>> /\ mem.root = inode[Root]

Work(S, blk, bm) ==
  Working =>
    /\ CopiesOK(S, blk, bm) /\ BitsAhead(bm) /\ OthersApart(bm) /\ AllLive(S)
    /\ FileApart(bm) /\ FileKept(S) /\ DirKept(S) /\ Untouched

InOrder == \E S, blk, bm : Rest(S, blk) /\ Work(S, blk, bm)

-----------------------------------------------------------------------------
(***************************************************************************)
(* A write reaches the disk.                                               *)
(***************************************************************************)
LEMMA EntryNow == \A node, k : EntryIn(block, node, k) = EntryAt(node, k)
BY DEF EntryIn, EntryAt

LEMMA WritesAreOK ==
  ASSUME NEW s, Writes(s)
  PROVE  \A w \in Among(s) : WriteOK(w)
<1>1. PICK T : s \in Seq(T) /\ \A w \in T : WriteOK(w)
  BY DEF Writes
<1>2. \A j \in DOMAIN s : s[j] \in T
  BY <1>1
<1> QED
  BY <1>1, <1>2 DEF Among

LEMMA NothingAhead ==
  ASSUME DiskOK, pending = <<>>, NEW blk, Ahead(blk)
  PROVE  blk = block
<1>1. Among(pending) = {}
  BY NothingPending
<1>2. \A b \in Blocks : blk[b] = block[b]
  BY <1>1 DEF Ahead
<1> QED
  BY <1>2 DEF Ahead, DiskOK

\* The writes one after the other.
LEMMA OneWriteLess ==
  ASSUME NEW s, Writes(s), s # <<>>
  PROVE  /\ 1 \in DOMAIN s /\ Head(s) = s[1] /\ Head(s) \in Among(s) /\ WriteOK(Head(s))
         /\ Among(s) = {Head(s)} \cup Among(Tail(s))
         /\ \A k \in DOMAIN Tail(s) : k \in Nat \ {0} /\ k + 1 \in DOMAIN s /\ Tail(s)[k] = s[k + 1]
         /\ \A k \in DOMAIN s : k = 1 \/ (k > 1 /\ k - 1 \in DOMAIN Tail(s) /\ Tail(s)[k - 1] = s[k])
<1>1. PICK T : s \in Seq(T) /\ \A w \in T : WriteOK(w)
  BY DEF Writes
<1>2. \A k \in DOMAIN Tail(s) : k \in Nat \ {0}
  BY <1>1
<1>3. \A k \in DOMAIN s : k = 1 \/ (k > 1 /\ k - 1 \in DOMAIN Tail(s) /\ Tail(s)[k - 1] = s[k])
  BY <1>1
<1>4. 1 \in DOMAIN s /\ Head(s) = s[1] /\ WriteOK(Head(s))
      /\ \A k \in DOMAIN Tail(s) : k + 1 \in DOMAIN s /\ Tail(s)[k] = s[k + 1]
  BY FirstWrite
<1> QED
  BY <1>2, <1>3, <1>4, AmongHead

LEMMA FlushedAhead ==
  ASSUME FsInv, Flush, NEW blk, Ahead(blk)
  PROVE  /\ Ahead(blk)'
         /\ Head(pending).to = "block" => block' = blk
         /\ Head(pending).to # "block" => block' = block
<1> DEFINE w == Head(pending)
<1>1. Writes(pending) /\ DiskOK /\ pending # <<>> /\ pending' = Tail(pending) /\ DiskOK'
      /\ block' = IF w.to = "block" THEN [block EXCEPT ![w.at] = w.data] ELSE block
  BY FlushedDisk DEF FsInv, Flush
<1>2. /\ 1 \in DOMAIN pending /\ w = pending[1] /\ w \in Among(pending) /\ WriteOK(w)
      /\ Among(pending) = {w} \cup Among(pending')
      /\ \A k \in DOMAIN pending' : k \in Nat \ {0} /\ k + 1 \in DOMAIN pending /\ pending'[k] = pending[k + 1]
  BY <1>1, OneWriteLess
<1> HIDE DEF w
<1>3. block \in [Blocks -> DataBlocks] /\ block' \in [Blocks -> DataBlocks]
  BY <1>1 DEF DiskOK
<1>4. ASSUME w.to = "block" PROVE w.at \in Blocks /\ block' = blk
  <2>1. w.at \in Blocks /\ blk[w.at] = w.data
    BY <1>2, <1>4 DEF WriteOK, Ahead
  <2>2. ASSUME NEW v \in Among(pending), v.to = "block" PROVE v = w
    BY <1>2, <1>4, <2>2 DEF Among, Ahead
  <2>3. \A b \in Blocks : block'[b] = blk[b]
    BY <1>1, <1>3, <1>4, <2>1, <2>2 DEF Ahead
  <2> QED
    BY <1>3, <2>1, <2>3 DEF Ahead
<1>5. w.to # "block" => block' = block
  BY <1>1
<1>6. ASSUME NEW b \in Blocks PROVE blk[b] = block'[b] \/ \E v \in Among(pending') : v.to = "block" /\ v.at = b
  BY <1>2, <1>4, <1>5 DEF Ahead
<1>7. \A v \in Among(pending') : v.to = "block" => blk[v.at] = v.data
  BY <1>2 DEF Ahead
<1>8. ASSUME NEW m \in DOMAIN pending', NEW n \in DOMAIN pending',
             pending'[m].to = "block", pending'[n].to = "block"
      PROVE  m = n
  <2>1. m + 1 = n + 1
    BY <1>2, <1>8 DEF Ahead
  <2> QED
    BY <1>2, <2>1
<1>9. Ahead(blk)'
  BY <1>6, <1>7, <1>8 DEF Ahead
<1> QED
  BY <1>4, <1>5, <1>9 DEF w

LEMMA FlushKeepsRest ==
  ASSUME FsInv, Flush, NEW S, NEW blk, Rest(S, blk)
  PROVE  Rest(S, blk)'
<1> DEFINE w == Head(pending)
<1>1. Writes(pending) /\ DiskOK /\ pending # <<>> /\ pending' = Tail(pending)
      /\ inode' = (IF w.to = "inode" THEN [inode EXCEPT ![w.at] = w.node] ELSE inode)
      /\ inode \in [Inodes -> IndexNodes] /\ Root \in Inodes
  BY NoInodeOut DEF FsInv, Flush, DiskOK
<1>2. /\ 1 \in DOMAIN pending /\ w = pending[1] /\ w \in Among(pending) /\ WriteOK(w)
      /\ Among(pending) = {w} \cup Among(pending')
      /\ \A k \in DOMAIN pending' : k \in Nat \ {0} /\ k + 1 \in DOMAIN pending /\ pending'[k] = pending[k + 1]
      /\ \A k \in DOMAIN pending : k = 1 \/ (k > 1 /\ k - 1 \in DOMAIN pending' /\ pending'[k - 1] = pending[k])
  BY <1>1, OneWriteLess
<1>3. /\ Ahead(blk) /\ Ahead(blk)'
      /\ w.to = "block" => block' = blk
      /\ w.to # "block" => block' = block
  BY FlushedAhead DEF Rest
<1> HIDE DEF w
<1>4. w.to = "inode" => w.at \in Inodes
  BY <1>2 DEF WriteOK
<1>5. ASSUME NEW e \in S PROVE e.ino \in Inodes /\ inode'[e.ino].mode = inode[e.ino].mode
  <2>1. e.ino \in Inodes
    BY DEF Rest, NamedEntries, DirEntries
  <2> QED
    BY <1>1, <1>2, <1>4, <2>1 DEF Rest, ModeKept
<1>6. Once(S)'
  BY <1>5 DEF Rest, Once
<1>7. ASSUME NEW v \in Among(pending'), v.to = "inode" PROVE ModeKept(S, v)'
  <2>1. ModeKept(S, v)
    BY <1>2, <1>7 DEF Rest
  <2> QED
    BY <1>1, <1>2, <1>4, <1>5, <2>1 DEF Rest, ModeKept
<1>8. Shows(S, blk, inode'[Root])
  BY <1>1, <1>2, <1>4 DEF Rest, RootWrites, IsRoot
<1>9. Shows(S, block', inode'[Root])
  <2>1. CASE w.to = "block"
    BY <1>3, <1>8, <2>1
  <2>2. CASE w.to = "inode" /\ w.at = Root
    <3>1. inode'[Root] = w.node /\ block' = block
      BY <1>1, <1>3, <2>2
    <3>2. CASE \E m \in DOMAIN pending : m > 1 /\ pending[m].to = "block"
      BY <1>2, <2>2, <3>1, <3>2 DEF Rest, RootWrites, IsRoot
    <3>3. CASE ~ \E m \in DOMAIN pending : m > 1 /\ pending[m].to = "block"
      <4>1. \A v \in Among(pending) : v.to # "block"
        BY <1>2, <2>2, <3>3 DEF Among
      <4>2. \A b \in Blocks : blk[b] = block[b]
        BY <1>3, <4>1 DEF Ahead
      <4>3. blk = block
        BY <1>1, <1>3, <4>2 DEF Ahead, DiskOK
      <4> QED
        BY <1>8, <3>1, <4>3
    <3> QED
      BY <3>2, <3>3
  <2>3. CASE w.to # "block" /\ ~ (w.to = "inode" /\ w.at = Root)
    <3>1. inode'[Root] = inode[Root] /\ block' = block
      BY <1>1, <1>3, <1>4, <2>3
    <3> QED
      BY <3>1 DEF Rest
  <2> QED
    BY <2>1, <2>2, <2>3
<1>10. ASSUME NEW n \in DOMAIN pending', IsRoot(pending'[n])
       PROVE  /\ Shows(S, blk, pending'[n].node)
              /\ (\E m \in DOMAIN pending' : m > n /\ pending'[m].to = "block") =>
                   Shows(S, block', pending'[n].node)
  <2>1. n + 1 \in DOMAIN pending /\ pending'[n] = pending[n + 1] /\ n \in Nat
    BY <1>2
  <2>2. Shows(S, blk, pending'[n].node)
    BY <1>10, <2>1 DEF Rest, RootWrites
  <2>3. ASSUME NEW m \in DOMAIN pending', m > n, pending'[m].to = "block"
        PROVE  Shows(S, block', pending'[n].node)
    <3>1. m + 1 \in DOMAIN pending /\ m + 1 > n + 1 /\ pending[m + 1].to = "block"
      BY <1>2, <2>1, <2>3
    <3>2. Shows(S, block, pending'[n].node)
      BY <1>10, <2>1, <3>1 DEF Rest, RootWrites
    <3> QED
      BY <1>3, <2>2, <3>2
  <2> QED
    BY <2>2, <2>3
<1>11. RootWrites(S, blk)'
  BY <1>10 DEF RootWrites, IsRoot
<1> QED
  BY <1>3, <1>6, <1>7, <1>8, <1>9, <1>11 DEF Rest

LEMMA FlushedCopies ==
  ASSUME FsInv, Flush
  PROVE  Copies' \subseteq Copies /\ (InRoot' <=> InRoot) /\ mem' = mem /\ pc' = pc /\ call' = call
<1> DEFINE w == Head(pending)
<1>1. Writes(pending) /\ DiskOK /\ pending # <<>> /\ pending' = Tail(pending)
      /\ inode' = (IF w.to = "inode" THEN [inode EXCEPT ![w.at] = w.node] ELSE inode)
      /\ inode \in [Inodes -> IndexNodes] /\ Root \in Inodes
      /\ mem' = mem /\ pc' = pc /\ call' = call
  BY NoInodeOut DEF FsInv, Flush, DiskOK
<1>2. /\ w \in Among(pending) /\ WriteOK(w) /\ Among(pending) = {w} \cup Among(pending')
  BY <1>1, OneWriteLess
<1> HIDE DEF w
<1>3. InRoot' <=> InRoot
  BY <1>1 DEF InRoot
<1>4. inode'[Root] \in Copies
  <2>1. CASE w.to = "inode" /\ w.at = Root
    <3>1. inode'[Root] = w.node /\ IsRoot(w)
      BY <1>1, <2>1 DEF IsRoot
    <3> QED
      BY <1>2, <3>1 DEF Copies
  <2>2. CASE ~ (w.to = "inode" /\ w.at = Root)
    <3>1. inode'[Root] = inode[Root]
      BY <1>1, <1>2, <2>2 DEF WriteOK
    <3> QED
      BY <3>1 DEF Copies
  <2> QED
    BY <2>1, <2>2
<1>5. {v \in Among(pending') : IsRoot(v)} \subseteq {v \in Among(pending) : IsRoot(v)}
  BY <1>2
<1>6. Copies' = {inode'[Root], mem.root} \cup (IF InRoot THEN {mem.dir} ELSE {})
                  \cup {v.node : v \in {u \in Among(pending') : IsRoot(u)}}
  BY <1>1, <1>3 DEF Copies, IsRoot
<1> QED
  BY <1>1, <1>3, <1>4, <1>5, <1>6 DEF Copies

LEMMA FlushKeepsWork ==
  ASSUME FsInv, Flush, NEW S, NEW blk, NEW bm, Rest(S, blk), Work(S, blk, bm)
  PROVE  Work(S, blk, bm)'
<1> DEFINE w == Head(pending)
<1>1. Writes(pending) /\ DiskOK /\ pending # <<>> /\ pending' = Tail(pending)
      /\ inode' = (IF w.to = "inode" THEN [inode EXCEPT ![w.at] = w.node] ELSE inode)
      /\ bitmap' = (IF w.to = "bitmap" THEN IF w.set THEN bitmap \cup {w.at} ELSE bitmap \ {w.at}
                    ELSE bitmap)
      /\ inode \in [Inodes -> IndexNodes] /\ Root \in Inodes
  BY NoInodeOut, Zenon DEF FsInv, Flush, DiskOK
<1>2. /\ w \in Among(pending) /\ WriteOK(w) /\ Among(pending) = {w} \cup Among(pending')
  BY <1>1, OneWriteLess
<1>3. Copies' \subseteq Copies /\ (InRoot' <=> InRoot) /\ mem' = mem /\ pc' = pc /\ call' = call
  BY FlushedCopies
<1> HIDE DEF w
<1>4. SUFFICES ASSUME Working
               PROVE  /\ CopiesOK(S, blk, bm)' /\ BitsAhead(bm)' /\ OthersApart(bm)' /\ AllLive(S)'
                      /\ FileApart(bm)' /\ FileKept(S)' /\ DirKept(S)' /\ Untouched'
  BY <1>3 DEF Work, Working
<1>5. /\ CopiesOK(S, blk, bm) /\ BitsAhead(bm) /\ OthersApart(bm) /\ AllLive(S)
      /\ FileApart(bm) /\ FileKept(S) /\ DirKept(S) /\ Untouched
  BY <1>4 DEF Work
<1>6. CopiesOK(S, blk, bm)'
  <2>1. \A c \in Copies' : Shows(S, blk, c) /\ Addrs(c) \subseteq bm
    BY <1>3, <1>5 DEF CopiesOK
  <2>2. \A c, d \in Copies' : \A k \in 1 .. MaxDirectBlocks - 1 :
          d.addr[k] = c.addr[0] => d.addr[k] = NoBlock
    BY <1>3, <1>5 DEF CopiesOK
  <2>3. Full(mem.root)' /\ (InRoot' => Full(mem.dir)')
    BY <1>3, <1>5 DEF CopiesOK, Full
  <2> QED
    BY <2>1, <2>2, <2>3 DEF CopiesOK
<1>7. BitsAhead(bm)'
  <2>1. ASSUME NEW b \in bm PROVE b \in bitmap' \/ \E v \in Among(pending') : v.to = "bitmap" /\ v.at = b
    <3>1. CASE w.to = "bitmap" /\ w.at = b
      BY <1>1, <1>2, <1>5, <3>1 DEF BitsAhead
    <3>2. CASE ~ (w.to = "bitmap" /\ w.at = b)
      BY <1>1, <1>2, <1>5, <3>2 DEF BitsAhead
    <3> QED
      BY <3>1, <3>2
  <2> QED
    BY <1>2, <1>5, <2>1 DEF BitsAhead
<1>8. \A i \in Inodes : \/ inode'[i] = inode[i] /\ ~ (w.to = "inode" /\ w.at = i)
                        \/ w.to = "inode" /\ w.at = i /\ inode'[i] = w.node
  BY <1>1
<1>9. ASSUME NEW A, Clear(A) PROVE Clear(A)'
  BY <1>3, <1>9 DEF Clear
<1>10. ASSUME NEW node, Apart(bm, node) PROVE Apart(bm, node)'
  BY <1>9, <1>10 DEF Apart
<1>11. OthersApart(bm)'
  <2>1. ASSUME MoreToCome, NEW v \in Among(pending'), v.to = "inode", v.at # Root
        PROVE  Apart(bm, v.node)'
    BY <1>2, <1>5, <1>10, <2>1 DEF OthersApart
  <2>2. ASSUME MoreToCome, NEW i \in Inodes \ {Root}, inode'[i].nlink > 0,
               ~ \E v \in Among(pending') : v.to = "inode" /\ v.at = i
        PROVE  Apart(bm, inode[i])'
    <3>1. PICK node : node = inode'[i]
      OBVIOUS
    <3>2. Apart(bm, node)
      BY <1>2, <1>5, <1>8, <2>2, <3>1 DEF OthersApart
    <3>3. Apart(bm, node)'
      BY <1>10, <3>2
    <3> QED
      BY <3>1, <3>3 DEF Apart, Clear, Addrs
  <2>3. MoreToCome' => MoreToCome
    BY <1>3 DEF MoreToCome
  <2> QED
    BY <2>1, <2>2, <2>3 DEF OthersApart
<1>12. AllLive(S)'
  <2>1. \A e \in S : e.ino \in Inodes
    BY DEF Rest, NamedEntries, DirEntries
  <2> QED
    BY <1>2, <1>3, <1>5, <1>8, <2>1 DEF AllLive
<1>13. FileApart(bm)'
  BY <1>3, <1>5 DEF FileApart, Clear, MoreToCome
<1>14. FileKept(S)'
  <2>1. ASSUME pc \in FilePcs \cup {"target", "linked"}
        PROVE  /\ \/ /\ inode'[mem.ino].mode = mem.file.mode
                     /\ call.kind = "mkdir" => inode'[mem.ino].nlink > 0
                  \/ \E v \in Among(pending') : v.to = "inode" /\ v.at = mem.ino
               /\ \A v \in Among(pending') : v.to = "inode" /\ v.at = mem.ino => v.node.mode = mem.file.mode
    <3>1. mem.ino \in Inodes
      BY <2>1 DEF FsInv, MemOK, FileOK, FilePcs
    <3>2. call.kind = "mkdir" /\ w.to = "inode" => w.node.nlink > 0
      BY <1>2, <1>5 DEF AllLive
    <3>3. w.to = "inode" /\ w.at = mem.ino => w.node.mode = mem.file.mode
      BY <1>2, <1>5, <2>1 DEF FileKept
    <3> QED
      BY <1>2, <1>5, <1>8, <2>1, <3>1, <3>2, <3>3 DEF FileKept
  <2> QED
    BY <1>3, <1>5, <2>1 DEF FileKept
<1>15. DirKept(S)'
  <2>1. mem.dirNo \in Inodes
    BY DEF FsInv, MemOK, Mems
  <2>2. ASSUME pc \in {"place", "pull"}
        PROVE  /\ inode'[mem.dirNo].mode = "dir"
               /\ \A v \in Among(pending') : v.to = "inode" /\ v.at = mem.dirNo => v.node.mode = "dir"
               /\ mem.dirNo # Root => Clear(Addrs(mem.dir))'
    BY <1>2, <1>3, <1>5, <1>8, <2>1, <2>2 DEF DirKept, Clear
  <2> QED
    BY <1>3, <1>5, <2>2 DEF DirKept
<1>16. Untouched'
  BY <1>1, <1>3, <1>5 DEF Untouched, Again
<1> QED
  BY <1>6, <1>7, <1>11, <1>12, <1>13, <1>14, <1>15, <1>16

-----------------------------------------------------------------------------
(***************************************************************************)
(* Writes that keep away from the root directory: none to a block of a     *)
(* copy in C, and to the root's index node only what a copy says.          *)
(***************************************************************************)
Alike(c, d) == c.addr = d.addr /\ c.size = d.size

OneData(s) == \A m, n \in DOMAIN s : s[m].to = "block" /\ s[n].to = "block" => m = n

Elsewhere(S, C, w) ==
  /\ w.to = "inode" => ModeKept(S, w) /\ (w.at = Root => \E c \in C : Alike(w.node, c))
  /\ w.to = "block" => \A c \in C : w.at \notin Addrs(c)

LEMMA AddressAt ==
  ASSUME NEW c, NodeOK(c), NEW k \in 0 .. c.size - 1
  PROVE  /\ k \in 0 .. Space - 1 /\ k \div PerBlock \in DOMAIN NoAddresses
         /\ k \div PerBlock \in 0 .. MaxDirectBlocks - 1 /\ k % PerBlock \in 0 .. PerBlock - 1
         /\ c.addr[k \div PerBlock] = NoBlock \/ c.addr[k \div PerBlock] \in Addrs(c) \cap Blocks
<1>1. c.size \in Nat /\ c.size <= Space /\ c.addr \in [0 .. MaxDirectBlocks - 1 -> Blocks \cup {NoBlock}]
      /\ Space \in Nat
  BY NodeParts, Sizes
<1>2. k \in 0 .. Space - 1
  BY <1>1
<1>3. k \div PerBlock \in 0 .. MaxDirectBlocks - 1 /\ k % PerBlock \in 0 .. PerBlock - 1
  BY <1>2, BlockIndex
<1>4. DOMAIN NoAddresses = 0 .. MaxDirectBlocks - 1
  BY DEF NoAddresses
<1> QED
  BY <1>1, <1>2, <1>3, <1>4 DEF Addrs

LEMMA EntryUnaffected ==
  ASSUME NEW c, NodeOK(c), NEW k \in 0 .. c.size - 1, NEW blk1, NEW blk2,
         \A b \in Addrs(c) : blk1[b] = blk2[b]
  PROVE  EntryIn(blk1, c, k) = EntryIn(blk2, c, k)
BY AddressAt DEF EntryIn

LEMMA AlikeShows ==
  ASSUME NEW S, NEW blk, NEW c, NEW d, Alike(c, d)
  PROVE  /\ Shows(S, blk, d) => Shows(S, blk, c)
         /\ Addrs(c) = Addrs(d) /\ (Full(d) => Full(c))
BY DEF Alike, Shows, EntryIn, Addrs, Full

LEMMA StepElsewhere ==
  ASSUME DiskOK, pending = <<>>, UNCHANGED disk, NEW S, NEW C, Rest(S, block),
         \A c \in C : NodeOK(c) /\ Shows(S, block, c), inode[Root] \in C,
         Writes(pending'), OneData(pending'), \A w \in Among(pending') : Elsewhere(S, C, w)
  PROVE  \E blk : Rest(S, blk)' /\ \A c \in C : Shows(S, blk, c)
<1>1. /\ inode' = inode /\ block' = block /\ block \in [Blocks -> DataBlocks]
      /\ \A w \in Among(pending') : WriteOK(w)
  BY WritesAreOK DEF disk, DiskOK
<1>2. PICK blk : /\ blk \in [Blocks -> DataBlocks]
                 /\ \A w \in Among(pending') : w.to = "block" => blk[w.at] = w.data
                 /\ \A b \in Blocks : blk[b] = block[b] \/ \E w \in Among(pending') : w.to = "block" /\ w.at = b
  <2>1. CASE \E w \in Among(pending') : w.to = "block"
    <3>1. PICK w \in Among(pending') : w.to = "block"
      BY <2>1
    <3>2. w.at \in Blocks /\ w.data \in DataBlocks
      BY <1>1, <3>1 DEF WriteOK
    <3>3. \A v \in Among(pending') : v.to = "block" => v = w
      BY <3>1 DEF OneData, Among
    <3> DEFINE new == [block EXCEPT ![w.at] = w.data]
    <3>4. new \in [Blocks -> DataBlocks] /\ new[w.at] = w.data /\ \A b \in Blocks : b = w.at \/ new[b] = block[b]
      BY <1>1, <3>2
    <3> HIDE DEF new
    <3> QED
      BY <3>1, <3>3, <3>4
  <2>2. CASE ~ \E w \in Among(pending') : w.to = "block"
    BY <1>1, <2>2
  <2> QED
    BY <2>1, <2>2
<1>3. ASSUME NEW c \in C PROVE Shows(S, blk, c)
  <2>1. \A b \in Addrs(c) : b \in Blocks => blk[b] = block[b]
    BY <1>2 DEF Elsewhere
  <2>2. Addrs(c) \subseteq Blocks
    <3>1. c.addr \in [0 .. MaxDirectBlocks - 1 -> Blocks \cup {NoBlock}]
      BY NodeParts
    <3> QED
      BY <3>1 DEF Addrs, NoAddresses
  <2>3. \A k \in 0 .. c.size - 1 : EntryIn(blk, c, k) = EntryIn(block, c, k)
    BY <2>1, <2>2, EntryUnaffected
  <2> QED
    BY <2>3 DEF Shows
<1>4. ASSUME NEW w \in Among(pending'), IsRoot(w)
      PROVE  Shows(S, blk, w.node) /\ Shows(S, block, w.node)
  <2>1. PICK c \in C : Alike(w.node, c)
    BY <1>4 DEF Elsewhere, IsRoot
  <2> QED
    BY <1>3, <2>1, AlikeShows
<1>5. Ahead(blk)'
  BY <1>1, <1>2 DEF Ahead, OneData
<1>6. RootWrites(S, blk)'
  BY <1>1, <1>4 DEF RootWrites, Among, IsRoot
<1>7. Once(S)' /\ \A w \in Among(pending') : w.to = "inode" => ModeKept(S, w)'
  BY <1>1 DEF Rest, Once, Elsewhere, ModeKept
<1>8. Rest(S, blk)'
  BY <1>1, <1>3, <1>5, <1>6, <1>7 DEF Rest
<1> QED
  BY <1>3, <1>8

LEMMA CopiesAreNodes ==
  ASSUME FsInv
  PROVE  \A c \in Copies : NodeOK(c) /\ c \in IndexNodes
<1>1. NodeOK(inode[Root]) /\ NodeOK(mem.root) /\ NodeOK(mem.dir)
  BY NoInodeOut DEF FsInv, DiskOK, NodeAt, MemOK
<1>2. \A w \in Among(pending) : IsRoot(w) => NodeOK(w.node)
  BY WritesAreOK DEF FsInv, WriteOK, IsRoot, NodeAt
<1> QED
  BY <1>1, <1>2 DEF Copies, NodeOK

LEMMA QuietStep ==
  ASSUME FsInv, pending = <<>>, UNCHANGED disk, NEW S, NEW bm, NEW bm1, Rest(S, block),
         CopiesOK(S, block, bm), Writes(pending'), OneData(pending'),
         \A w \in Among(pending') : Elsewhere(S, Copies, w),
         \A c \in Copies : Addrs(c) \subseteq bm1,
         mem'.root = mem.root, InRoot' => mem'.dir \in Copies /\ Full(mem'.dir)
  PROVE  /\ \E blk : Rest(S, blk)' /\ CopiesOK(S, blk, bm1)'
         /\ \A A : Clear(A) => Clear(A)'
<1>1. inode' = inode /\ inode[Root] \in Copies /\ mem.root \in Copies
  BY DEF disk, Copies
<1>2. PICK blk : Rest(S, blk)' /\ \A c \in Copies : Shows(S, blk, c)
  <2>1. DiskOK /\ \A c \in Copies : NodeOK(c) /\ Shows(S, block, c)
    BY CopiesAreNodes DEF FsInv, CopiesOK
  <2>2. PICK C : C = Copies
    OBVIOUS
  <2> QED
    BY <1>1, <2>1, <2>2, StepElsewhere
<1>3. ASSUME NEW c \in Copies' PROVE \E d \in Copies : Alike(c, d)
  <2>1. \A d \in Copies : Alike(d, d)
    BY DEF Alike
  <2>2. CASE c \in {inode[Root], mem.root} \/ (InRoot' /\ c = mem'.dir)
    BY <1>1, <2>1, <2>2
  <2>3. CASE \E w \in Among(pending') : IsRoot(w) /\ c = w.node
    BY <2>3 DEF Elsewhere, IsRoot
  <2> QED
    BY <1>1, <2>2, <2>3 DEF Copies, IsRoot
<1>4. CopiesOK(S, blk, bm1)'
  <2>1. ASSUME NEW c \in Copies' PROVE Shows(S, blk, c) /\ Addrs(c) \subseteq bm1
    BY <1>2, <1>3, AlikeShows
  <2>2. ASSUME NEW c \in Copies', NEW d \in Copies', NEW k \in 1 .. MaxDirectBlocks - 1, d.addr[k] = c.addr[0]
        PROVE  d.addr[k] = NoBlock
    <3>1. PICK c1 \in Copies, d1 \in Copies : c.addr = c1.addr /\ d.addr = d1.addr
      BY <1>3 DEF Alike
    <3> QED
      BY <2>2, <3>1 DEF CopiesOK
  <2>3. Full(mem.root)' /\ (InRoot' => Full(mem.dir)')
    BY DEF CopiesOK, Full
  <2> QED
    BY <2>1, <2>2, <2>3 DEF CopiesOK
<1>5. ASSUME NEW A, Clear(A) PROVE Clear(A)'
  <2>1. ASSUME NEW c \in Copies' PROVE A \cap Addrs(c) = {}
    <3>1. PICK d \in Copies : Alike(c, d)
      BY <1>3
    <3> QED
      BY <1>5, <3>1, AlikeShows DEF Clear
  <2> QED
    BY <2>1 DEF Clear
<1> QED
  BY <1>2, <1>4, <1>5

-----------------------------------------------------------------------------
(***************************************************************************)
(* Between programs, at their ends, and in fsck.                           *)
(***************************************************************************)
LEMMA SettledRest ==
  ASSUME FsInv, UNCHANGED disk, pending' = <<>>, NEW S, NEW blk, Rest(S, blk)
  PROVE  Rest(S, block)'
<1>1. inode' = inode /\ block' = block /\ Among(pending') = {} /\ DOMAIN pending' = {}
      /\ block \in [Blocks -> DataBlocks]
  BY NothingPending DEF disk, FsInv, DiskOK
<1>2. Ahead(block)'
  BY <1>1 DEF Ahead
<1>3. RootWrites(S, block)'
  BY <1>1 DEF RootWrites
<1>4. Once(S)'
  BY <1>1 DEF Rest, Once
<1> QED
  BY <1>1, <1>2, <1>3, <1>4 DEF Rest

LEMMA AtRestInOrder ==
  ASSUME FsInv, InOrder, UNCHANGED disk, pending' = <<>>, ~ Working'
  PROVE  InOrder'
<1>1. PICK S, blk : Rest(S, blk)
  BY DEF InOrder
<1>2. Rest(S, block)'
  BY <1>1, SettledRest
<1>3. Work(S, block, {})'
  BY DEF Work
<1> QED
  BY <1>2, <1>3 DEF InOrder

\* A program that has nothing left to write does its next step.
Steady(S, bm) ==
  /\ Rest(S, block) /\ CopiesOK(S, block, bm) /\ bm \subseteq bitmap
  /\ OthersApart(bm) /\ AllLive(S) /\ FileApart(bm) /\ FileKept(S) /\ DirKept(S) /\ Untouched

LEMMA AtReady ==
  ASSUME FsInv, InOrder, pending = <<>>
  PROVE  /\ \E S : Rest(S, block)
         /\ Working => \E S, bm : Steady(S, bm)
<1>1. PICK S, blk, bm : Rest(S, blk) /\ Work(S, blk, bm)
  BY DEF InOrder
<1>2. blk = block /\ Among(pending) = {}
  BY <1>1, NothingAhead, NothingPending DEF Rest, FsInv
<1>3. Working => bm \subseteq bitmap
  BY <1>1, <1>2 DEF Work, BitsAhead
<1>4. Working => Steady(S, bm)
  BY <1>1, <1>2, <1>3 DEF Work, Steady
<1> QED
  BY <1>1, <1>2, <1>4

LEMMA EndInOrder ==
  ASSUME FsInv, pending = <<>>, UNCHANGED disk, ~ Working', NEW S, Rest(S, block), Writes(pending'),
         \A w \in Among(pending') : w.to # "block" /\ Elsewhere(S, {inode[Root]}, w)
  PROVE  InOrder'
<1>1. OneData(pending')
  BY DEF OneData, Among
<1>2. DiskOK /\ NodeOK(inode[Root]) /\ Shows(S, block, inode[Root])
  BY NoInodeOut DEF FsInv, DiskOK, NodeAt, Rest
<1>3. PICK C : C = {inode[Root]}
  OBVIOUS
<1>4. PICK blk : Rest(S, blk)'
  BY <1>1, <1>2, <1>3, StepElsewhere
<1>5. Work(S, blk, {})'
  BY DEF Work
<1> QED
  BY <1>4, <1>5 DEF InOrder

LEMMA FsckLinksInOrder ==
  ASSUME FsInv, InOrder, FsckLinks
  PROVE  InOrder'
<1>1. /\ pending = <<>> /\ UNCHANGED disk /\ pc' = "fsckBlocks" /\ DiskOK
      /\ pending' = LinkRepairs \/ pending' = <<>>
  BY DEF FsckLinks, Ready, Answered, LinkRepairs, FsInv
<1>2. ~ Working'
  BY <1>1 DEF Working
<1>3. CASE pending' = <<>>
  BY <1>1, <1>2, <1>3, AtRestInOrder
<1>4. CASE pending' = LinkRepairs
  <2>1. PICK S : Rest(S, block)
    BY <1>1, AtReady
  <2> DEFINE K == 0 .. inode[Root].size - 1
             S1 == {e \in S : \E k \in K : e = EntryAt(inode[Root], k)}
  <2>2. S1 \subseteq S /\ \A e \in S1 : e.ino \in Inodes /\ linkCounts[e.ino] # 0
    BY <1>1, CountedInRoot
  <2>3. Shows(S1, block, inode[Root])
    <3>1. ASSUME NEW k \in K PROVE Fits(S1, EntryIn(block, inode[Root], k), k)
      <4>1. Fits(S, EntryIn(block, inode[Root], k), k)
            /\ EntryIn(block, inode[Root], k) = EntryAt(inode[Root], k)
        BY <2>1, EntryNow DEF Rest, Shows
      <4> QED
        BY <4>1 DEF Fits
    <3> HIDE DEF S1
    <3> QED
      BY <3>1 DEF Shows
  <2> HIDE DEF S1
  <2>4. Rest(S1, block)
    <3>1. Among(pending) = {} /\ DOMAIN pending = {}
      BY <1>1, NothingPending
    <3>2. RootWrites(S1, block)
      BY <3>1 DEF RootWrites
    <3>3. S1 \subseteq NamedEntries /\ Once(S1)
      BY <2>1, <2>2 DEF Rest, Once
    <3> QED
      BY <2>1, <2>3, <3>1, <3>2, <3>3 DEF Rest
  <2>5. Writes(pending') /\ \A w \in Among(pending') : Mends(w) /\ WriteOK(w)
    <3>1. Writes(LinkRepairs)
      BY <1>1, RepairLinksOK DEF LinkRepairs
    <3> QED
      BY <1>1, <1>4, <3>1, WritesAreOK, LinkRepairsAre
  <2>6. ASSUME NEW w \in Among(pending') PROVE w.to # "block" /\ Elsewhere(S1, {inode[Root]}, w)
    <3>1. w.to # "block" /\ Mends(w) /\ (w.to = "inode" => w.at \in Inodes)
      BY <2>5 DEF Mends, WriteOK
    <3>2. CASE w.to = "inode" /\ linkCounts[w.at] = 0
      <4>1. w.at # Root
        BY <1>1, <3>1, <3>2, LinkCountsType
      <4> QED
        BY <2>2, <3>1, <3>2, <4>1 DEF Elsewhere, ModeKept
    <3>3. CASE w.to = "inode" /\ linkCounts[w.at] # 0
      <4>1. inode[w.at] \in IndexNodes
        BY <1>1, <3>1, <3>3 DEF DiskOK
      <4>2. w.node = [inode[w.at] EXCEPT !.nlink = linkCounts[w.at]]
        BY <3>1, <3>3 DEF Mends
      <4>3. w.node.mode = inode[w.at].mode /\ Alike(w.node, inode[w.at])
        BY <4>1, <4>2 DEF Alike, IndexNodes
      <4> QED
        BY <3>1, <4>3 DEF Elsewhere, ModeKept
    <3>4. CASE w.to # "inode"
      BY <3>1, <3>4 DEF Elsewhere
    <3> QED
      BY <3>2, <3>3, <3>4
  <2> QED
    BY <1>1, <1>2, <2>4, <2>5, <2>6, EndInOrder
<1> QED
  BY <1>1, <1>3, <1>4

LEMMA FsckBlocksInOrder ==
  ASSUME FsInv, InOrder, FsckBlocks
  PROVE  InOrder'
<1>1. /\ pending = <<>> /\ UNCHANGED disk /\ pc' = "exit"
      /\ pending' = BitRepairs \/ pending' = <<>>
  BY DEF FsckBlocks, Ready, Answered, BitRepairs, Exit
<1>2. ~ Working'
  BY <1>1 DEF Working
<1>3. CASE pending' = <<>>
  BY <1>1, <1>2, <1>3, AtRestInOrder
<1>4. CASE pending' = BitRepairs
  <2>1. PICK S : Rest(S, block)
    BY <1>1, AtReady
  <2>2. Writes(pending') /\ \A w \in Among(pending') : w.to = "bitmap"
    BY <1>4, RepairBitsOK, BitRepairsAre DEF BitRepairs
  <2>3. \A w \in Among(pending') : w.to # "block" /\ Elsewhere(S, {inode[Root]}, w)
    BY <2>2 DEF Elsewhere
  <2> QED
    BY <1>1, <1>2, <2>1, <2>2, <2>3, EndInOrder
<1> QED
  BY <1>1, <1>3, <1>4

LEMMA EndsInOrder ==
  ASSUME FsInv, InOrder
  PROVE  /\ CreatFails \/ InsertFails \/ WriteFails \/ Close \/ MkdirFails \/ LinkFails
              \/ SymlinkFails \/ UnlinkFails \/ FsckFails => InOrder'
         /\ Return \/ Crash \/ Fsck => InOrder'
<1>1. ASSUME CreatFails \/ InsertFails \/ WriteFails \/ Close \/ MkdirFails \/ LinkFails
               \/ SymlinkFails \/ UnlinkFails \/ FsckFails
      PROVE  InOrder'
  <2>1. UNCHANGED disk /\ pending' = <<>> /\ pc' = "exit"
    BY <1>1 DEF CreatFails, InsertFails, WriteFails, WriteMore, Close, MkdirFails, LinkFails, SymlinkFails,
                UnlinkFails, FsckFails, Ready, Exit
  <2>2. ~ Working'
    BY <2>1 DEF Working
  <2> QED
    BY <2>1, <2>2, AtRestInOrder
<1>2. ASSUME Return \/ Crash \/ Fsck PROVE InOrder'
  <2>1. UNCHANGED disk /\ pending' = <<>> /\ pc' \in {"idle", "fsck"}
    <3>1. pc = "idle" => pending = <<>>
      BY Kinds DEF FsInv, CallOK, InsertPcs
    <3> QED
      BY <1>2, <3>1 DEF Return, Crash, Fsck, Ready
  <2>2. ~ Working'
    BY <2>1 DEF Working
  <2> QED
    BY <2>1, <2>2, AtRestInOrder
<1> QED
  BY <1>1, <1>2

-----------------------------------------------------------------------------
(***************************************************************************)
(* A block is put into an index node.                                      *)
(***************************************************************************)
LEMMA ShortSequences ==
  ASSUME NEW s, NEW p, NEW d, NEW g
  PROVE  /\ <<d>> \o <<g>> = <<d, g>> /\ <<s, p>> \o <<d>> = <<s, p, d>>
         /\ <<s, p, d>> \o <<g>> = <<s, p, d, g>>
<1> DEFINE T == {s, p, d, g}
           f1 == <<d>> \o <<g>>
           f2 == <<s, p>> \o <<d>>
           f3 == <<s, p, d>> \o <<g>>
<1>1. <<d>> \in Seq(T) /\ <<g>> \in Seq(T) /\ <<s, p>> \in Seq(T) /\ <<s, p, d>> \in Seq(T)
  OBVIOUS
<1>2. f1 \in Seq(T) /\ Len(f1) = 2 /\ f1[1] = d /\ f1[2] = g
  BY <1>1
<1>3. f2 \in Seq(T) /\ Len(f2) = 3 /\ f2[1] = s /\ f2[2] = p /\ f2[3] = d
  BY <1>1
<1>4. f3 \in Seq(T) /\ Len(f3) = 4 /\ f3[1] = s /\ f3[2] = p /\ f3[3] = d /\ f3[4] = g
  BY <1>1
<1> HIDE DEF f1, f2, f3, T
<1>5. f1 = <<d, g>>
  BY <1>2
<1>6. f2 = <<s, p, d>>
  BY <1>3
<1>7. f3 = <<s, p, d, g>>
  BY <1>4
<1> QED
  BY <1>5, <1>6, <1>7 DEF f1, f2, f3

LEMMA PutForms ==
  ASSUME NEW i, NEW node, NEW k, NEW data, NEW size, NEW s, NEW p, NEW d, NEW g,
         s = SetBit(Placed(node, k).addr[k]), p = WriteInode(i, Placed(node, k)),
         d = WriteData(Placed(node, k).addr[k], data), g = WriteInode(i, Grown(node, k, size))
  PROVE  /\ node.addr[k] # NoBlock => Put(i, node, k, data, size) \in {<<d>>, <<d, g>>}
         /\ node.addr[k] = NoBlock => Put(i, node, k, data, size) \in {<<s, p, d>>, <<s, p, d, g>>}
<1> DEFINE a == IF node.addr[k] # NoBlock THEN <<>> ELSE <<s, p>>
           c == IF size > node.size THEN <<g>> ELSE <<>>
<1>1. Put(i, node, k, data, size) = a \o <<d>> \o c
  BY DEF Put
<1>2. /\ <<d>> \o <<g>> = <<d, g>> /\ <<s, p>> \o <<d>> = <<s, p, d>>
      /\ <<s, p, d>> \o <<g>> = <<s, p, d, g>>
  BY ShortSequences
<1>3. <<>> \o <<d>> = <<d>>
  OBVIOUS
<1>4. <<d>> \o <<>> = <<d>>
  OBVIOUS
<1>5. <<s, p, d>> \o <<>> = <<s, p, d>>
  OBVIOUS
<1> QED
  BY <1>1, <1>2, <1>3, <1>4, <1>5

\* What is written, and in which order.
LEMMA PutParts ==
  ASSUME NEW i, NEW node, NEW k, NEW data, NEW size, NEW P, P = Put(i, node, k, data, size)
  PROVE  /\ \A w \in Among(P) :
              \/ w = SetBit(Placed(node, k).addr[k]) /\ node.addr[k] = NoBlock
              \/ w = WriteInode(i, Placed(node, k))
              \/ w = WriteData(Placed(node, k).addr[k], data)
              \/ w = WriteInode(i, Grown(node, k, size))
         /\ node.addr[k] = NoBlock => SetBit(Placed(node, k).addr[k]) \in Among(P)
         /\ WriteData(Placed(node, k).addr[k], data) \in Among(P)
         /\ OneData(P)
         /\ \A m, n \in DOMAIN P : m > n /\ P[m].to = "block" /\ P[n].to = "inode" =>
              P[n] = WriteInode(i, Placed(node, k)) /\ node.addr[k] = NoBlock
<1>1. PICK s, p, d, g :
        /\ s = SetBit(Placed(node, k).addr[k]) /\ p = WriteInode(i, Placed(node, k))
        /\ d = WriteData(Placed(node, k).addr[k], data) /\ g = WriteInode(i, Grown(node, k, size))
  OBVIOUS
<1>2. /\ node.addr[k] # NoBlock => P = <<d>> \/ P = <<d, g>>
      /\ node.addr[k] = NoBlock => P = <<s, p, d>> \/ P = <<s, p, d, g>>
  BY <1>1, PutForms
<1>3. s.to = "bitmap" /\ p.to = "inode" /\ d.to = "block" /\ g.to = "inode"
  BY <1>1 DEF SetBit, WriteInode, WriteData
<1>4. /\ Among(<<d>>) = {d} /\ Among(<<d, g>>) = {d, g}
      /\ Among(<<s, p, d>>) = {s, p, d} /\ Among(<<s, p, d, g>>) = {s, p, d, g}
  BY DEF Among
<1>5. /\ \A w \in Among(P) : (w = s /\ node.addr[k] = NoBlock) \/ w = p \/ w = d \/ w = g
      /\ node.addr[k] = NoBlock => s \in Among(P)
      /\ d \in Among(P)
  BY <1>2, <1>4
<1>6. OneData(P)
  <2>1. P = <<d>> => OneData(P)
    BY DEF OneData
  <2>2. P = <<d, g>> => OneData(P)
    BY <1>3 DEF OneData
  <2>3. P = <<s, p, d>> => OneData(P)
    BY <1>3 DEF OneData
  <2>4. P = <<s, p, d, g>> => OneData(P)
    BY <1>3 DEF OneData
  <2> QED
    BY <1>2, <2>1, <2>2, <2>3, <2>4
<1>7. ASSUME NEW m \in DOMAIN P, NEW n \in DOMAIN P, m > n, P[m].to = "block", P[n].to = "inode"
      PROVE  P[n] = p /\ node.addr[k] = NoBlock
  <2>1. CASE P = <<d>>
    BY <1>7, <2>1
  <2>2. CASE P = <<d, g>>
    BY <1>3, <1>7, <2>2
  <2>3. CASE P = <<s, p, d>> /\ node.addr[k] = NoBlock
    BY <1>3, <1>7, <2>3
  <2>4. CASE P = <<s, p, d, g>> /\ node.addr[k] = NoBlock
    BY <1>3, <1>7, <2>4
  <2> QED
    BY <1>2, <2>1, <2>2, <2>3, <2>4
<1> QED
  BY <1>1, <1>5, <1>6, <1>7

\* The block is one the node has or a free one.
LEMMA PutAddresses ==
  ASSUME mem.bitHint \in Blocks, NEW node \in IndexNodes, NEW k \in 0 .. MaxDirectBlocks - 1,
         CanPlace(node, k), NEW size, NEW b, b = Placed(node, k).addr[k]
  PROVE  /\ b \in Blocks /\ b # NoBlock
         /\ node.addr[k] # NoBlock => b \in Addrs(node) /\ b = node.addr[k] /\ Placed(node, k) = node
         /\ node.addr[k] = NoBlock => b \notin bitmap
         /\ Addrs(Placed(node, k)) \subseteq Addrs(node) \cup {b}
         /\ Grown(node, k, size).addr = Placed(node, k).addr
         /\ \A j \in 0 .. MaxDirectBlocks - 1 : j # k => Placed(node, k).addr[j] = node.addr[j]
<1>1. /\ node.addr \in [0 .. MaxDirectBlocks - 1 -> Blocks \cup {NoBlock}] /\ NoBlock \notin Blocks
      /\ DOMAIN NoAddresses = 0 .. MaxDirectBlocks - 1
  BY NoInodeOut DEF IndexNodes, NoAddresses
<1>2. CASE node.addr[k] # NoBlock
  <2>1. Placed(node, k) = node
    BY <1>2 DEF Placed
  <2>2. Grown(node, k, size).addr = node.addr
    BY <2>1 DEF Grown, IndexNodes
  <2> QED
    BY <1>1, <1>2, <2>1, <2>2 DEF Addrs
<1>3. CASE node.addr[k] = NoBlock
  <2>1. allocateBlock \in Blocks /\ allocateBlock \notin bitmap
    BY <1>3, AllocateBlockType DEF CanPlace
  <2>2. Placed(node, k) = [node EXCEPT !.addr[k] = allocateBlock]
    BY <1>3 DEF Placed
  <2>3. Placed(node, k).addr = [node.addr EXCEPT ![k] = allocateBlock]
    BY <2>2 DEF IndexNodes
  <2>4. Placed(node, k) \in IndexNodes
    BY PlacedType
  <2>5. Grown(node, k, size).addr = Placed(node, k).addr
    BY <2>4 DEF Grown, IndexNodes
  <2> QED
    BY <1>1, <1>3, <2>1, <2>3, <2>5 DEF Addrs
<1> QED
  BY <1>2, <1>3

\* The writes s of node at i, which becomes g, keep away from the copies of the
\* root and leave the blocks in bm1 taken.
PutAway(S, bm, bm1, i, node, g, s) ==
  /\ bm \subseteq bm1 /\ bm1 \subseteq Blocks
  /\ \A b \in bm1 : b \in bitmap \/ \E w \in Among(s) : w.to = "bitmap" /\ w.at = b
  /\ OneData(s)
  /\ \A w \in Among(s) :
       /\ Elsewhere(S, Copies, w)
       /\ w.to = "bitmap" => w.set
       /\ w.to = "inode" =>
            /\ w.at = i /\ w.node.mode = node.mode /\ w.node.nlink = node.nlink
            /\ Clear(Addrs(w.node)) /\ (Addrs(node) \subseteq bm => Addrs(w.node) \subseteq bm1)
  /\ Clear(Addrs(g))
  /\ Addrs(node) \subseteq bm => Addrs(g) \subseteq bm1

LEMMA PutElsewhere ==
  ASSUME mem.bitHint \in Blocks, NEW S, NEW bm, bm \subseteq bitmap, bitmap \subseteq Blocks,
         \A c \in Copies : Addrs(c) \subseteq bm,
         NEW i \in Inodes \ {Root}, NEW node \in IndexNodes, Clear(Addrs(node)),
         node.mode = inode[i].mode \/ \A e \in S : e.ino # i,
         NEW k \in 0 .. MaxDirectBlocks - 1, CanPlace(node, k),
         NEW data, NEW size \in Nat, NEW P, P = Put(i, node, k, data, size)
  PROVE  \E bm1 : PutAway(S, bm, bm1, i, node, Grown(node, k, size), P)
<1> DEFINE b == Placed(node, k).addr[k]
           q == Placed(node, k)
           g == Grown(node, k, size)
           bm1 == IF node.addr[k] = NoBlock THEN bm \cup {b} ELSE bm
<1>1. /\ b \in Blocks /\ b # NoBlock
      /\ node.addr[k] # NoBlock => b \in Addrs(node) /\ b = node.addr[k] /\ q = node
      /\ node.addr[k] = NoBlock => b \notin bitmap
      /\ Addrs(q) \subseteq Addrs(node) \cup {b} /\ g.addr = q.addr
  BY PutAddresses
<1>2. /\ q.mode = node.mode /\ q.nlink = node.nlink /\ g.mode = node.mode /\ g.nlink = node.nlink
  BY PlacedType, GrownType
<1>3. /\ \A w \in Among(P) : \/ w = SetBit(b) /\ node.addr[k] = NoBlock
                             \/ w = WriteInode(i, q) \/ w = WriteData(b, data) \/ w = WriteInode(i, g)
      /\ node.addr[k] = NoBlock => SetBit(b) \in Among(P)
      /\ OneData(P)
  BY PutParts
<1> HIDE DEF b, q, g
<1>4. \A c \in Copies : b \notin Addrs(c)
  BY <1>1 DEF Clear
<1>5. Addrs(g) = Addrs(q)
  BY <1>1 DEF Addrs
<1>6. Clear(Addrs(q)) /\ Clear(Addrs(g))
  BY <1>1, <1>4, <1>5 DEF Clear
<1>7. Addrs(node) \subseteq bm => Addrs(q) \subseteq bm1 /\ Addrs(g) \subseteq bm1
  BY <1>1, <1>5
<1>8. bm \subseteq bm1 /\ bm1 \subseteq Blocks
      /\ \A a \in bm1 : a \in bitmap \/ \E w \in Among(P) : w.to = "bitmap" /\ w.at = a
  BY <1>1, <1>3 DEF SetBit
<1> HIDE DEF bm1
<1>9. ASSUME NEW w \in Among(P)
      PROVE  /\ Elsewhere(S, Copies, w)
             /\ w.to = "bitmap" => w.set
             /\ w.to = "inode" =>
                  /\ w.at = i /\ w.node.mode = node.mode /\ w.node.nlink = node.nlink
                  /\ Clear(Addrs(w.node)) /\ (Addrs(node) \subseteq bm => Addrs(w.node) \subseteq bm1)
  <2>1. CASE w = SetBit(b)
    BY <2>1 DEF SetBit, Elsewhere
  <2>2. CASE w = WriteData(b, data)
    BY <1>4, <2>2 DEF WriteData, Elsewhere
  <2>3. ASSUME NEW v \in {q, g}, w = WriteInode(i, v)
        PROVE  Elsewhere(S, Copies, w) /\ w.to = "inode" /\ w.at = i /\ w.node = v
    BY <1>2, <2>3 DEF WriteInode, Elsewhere, ModeKept
  <2>4. CASE w = WriteInode(i, q)
    BY <1>2, <1>6, <1>7, <2>3, <2>4
  <2>5. CASE w = WriteInode(i, g)
    BY <1>2, <1>6, <1>7, <2>3, <2>5
  <2> QED
    BY <1>3, <2>1, <2>2, <2>4, <2>5
<1> QED
  BY <1>3, <1>6, <1>7, <1>8, <1>9 DEF g, PutAway

-----------------------------------------------------------------------------
(***************************************************************************)
(* Writes to the file in memory.                                           *)
(***************************************************************************)
LEMMA OthersStay ==
  ASSUME pending = <<>>, inode' = inode, NEW bm, NEW bm1, bm \subseteq bm1, OthersApart(bm),
         \A A : A \subseteq bm /\ Clear(A) => Clear(A)', MoreToCome' => MoreToCome,
         MoreToCome' => \A w \in Among(pending') : w.to = "inode" /\ w.at # Root => Apart(bm1, w.node)'
  PROVE  OthersApart(bm1)'
<1>1. ASSUME MoreToCome', NEW i \in Inodes \ {Root}, inode'[i].nlink > 0
      PROVE  Apart(bm1, inode[i])'
  <2>1. PICK node : node = inode[i] /\ node = inode'[i]
    OBVIOUS
  <2>2. Among(pending) = {}
    BY NothingPending
  <2>3. Addrs(node) \subseteq bm /\ Clear(Addrs(node))
    BY <1>1, <2>1, <2>2 DEF OthersApart, Apart
  <2>4. Addrs(node) \subseteq bm1 /\ Clear(Addrs(node))'
    BY <2>3
  <2> QED
    BY <2>1, <2>4 DEF Apart, Clear, Addrs
<1> QED
  BY <1>1 DEF OthersApart

LEMMA FilePut ==
  ASSUME FsInv, FsInv', pending = <<>>, UNCHANGED disk, call' = call,
         NEW S, NEW bm, Steady(S, bm),
         mem.ino \in Inodes \ {Root}, Clear(Addrs(mem.file)), inode[mem.ino].mode = mem.file.mode,
         mem.file.mode = "dir" => call.kind = "mkdir", call.kind = "mkdir" => mem.file.nlink > 0,
         NEW k \in 0 .. MaxDirectBlocks - 1, NEW data, NEW size \in Nat, CanPlace(mem.file, k),
         pending' = Put(mem.ino, mem.file, k, data, size),
         mem'.root = mem.root, mem'.ino = mem.ino, mem'.file = Grown(mem.file, k, size),
         pc \in {"write", "dot", "dotdot", "target"}, pc' \in {"write", "inc", "parent", "insert", "undo"},
         pc' = "insert" => call.kind = "symlink",
         MoreToCome' => MoreToCome /\ Addrs(mem.file) \subseteq bm
  PROVE  InOrder'
<1>1. /\ mem.bitHint \in Blocks /\ mem.file \in IndexNodes /\ bitmap \subseteq Blocks /\ inode' = inode
      /\ Writes(pending') /\ Among(pending) = {}
  BY NothingPending DEF FsInv, MemOK, Mems, DiskOK, disk
<1>2. /\ Rest(S, block) /\ CopiesOK(S, block, bm) /\ bm \subseteq bitmap /\ OthersApart(bm) /\ AllLive(S)
      /\ \A c \in Copies : Addrs(c) \subseteq bm
  BY DEF Steady, CopiesOK
<1>3. PICK P, f, ino, node :
        /\ P = Put(mem.ino, mem.file, k, data, size) /\ f = Grown(mem.file, k, size)
        /\ ino = mem.ino /\ node = mem.file
  OBVIOUS
<1>4. PICK bm1 : PutAway(S, bm, bm1, ino, node, f, P)
  <2>1. /\ P = Put(ino, node, k, data, size) /\ f = Grown(node, k, size) /\ ino \in Inodes \ {Root}
        /\ node \in IndexNodes /\ CanPlace(node, k) /\ Clear(Addrs(node)) /\ node.mode = inode[ino].mode
    BY <1>1, <1>3
  <2>2. mem.bitHint \in Blocks /\ bm \subseteq bitmap /\ bitmap \subseteq Blocks
        /\ \A c \in Copies : Addrs(c) \subseteq bm
    BY <1>1, <1>2
  <2> QED
    BY <2>1, <2>2, PutElsewhere
<1>5. pending' = P /\ mem'.file = f /\ mem'.ino = ino
  BY <1>3
<1>6. ~ InRoot'
  BY DEF InRoot
<1>7. PICK blk : Rest(S, blk)' /\ CopiesOK(S, blk, bm1)'
  BY <1>1, <1>2, <1>4, <1>5, <1>6, QuietStep DEF PutAway
<1>8. \A A : Clear(A) => Clear(A)'
  BY <1>1, <1>2, <1>4, <1>5, <1>6, QuietStep DEF PutAway
<1>9. BitsAhead(bm1)'
  BY <1>4, <1>5 DEF BitsAhead, disk, PutAway
<1>10. ASSUME NEW w \in Among(pending'), w.to = "inode", MoreToCome' PROVE Apart(bm1, w.node)'
  <2>1. Clear(Addrs(w.node))' /\ Addrs(w.node) \subseteq bm1
    BY <1>3, <1>4, <1>5, <1>8, <1>10 DEF PutAway
  <2> QED
    BY <2>1 DEF Apart
<1>11. OthersApart(bm1)'
  BY <1>1, <1>2, <1>4, <1>8, <1>10, OthersStay DEF PutAway
<1>12. AllLive(S)'
  BY <1>1, <1>2, <1>3, <1>4, <1>5 DEF AllLive, PutAway
<1>13. FileApart(bm1)'
  <2>1. Clear(Addrs(f))'
    BY <1>4, <1>8 DEF PutAway
  <2>2. Clear(Addrs(mem.file))'
    BY <1>5, <2>1 DEF Clear, Addrs
  <2>3. MoreToCome' => Addrs(mem'.file) \subseteq bm1
    BY <1>3, <1>4, <1>5 DEF PutAway
  <2> QED
    BY <2>2, <2>3 DEF FileApart
<1>14. FileKept(S)'
  <2>1. f.mode = node.mode /\ f.nlink = node.nlink
    BY <1>1, <1>3, GrownType
  <2>2. inode'[mem'.ino].mode = mem'.file.mode
    BY <1>1, <1>3, <1>5, <2>1
  <2>3. ASSUME NEW w \in Among(pending'), w.to = "inode" PROVE w.at = mem'.ino /\ w.node.mode = mem'.file.mode
    BY <1>3, <1>4, <1>5, <2>1, <2>3 DEF PutAway
  <2>4. call.kind = "mkdir" => inode'[mem'.ino].nlink > 0
    <3>1. FileKept(S) /\ pc \in FilePcs \cup {"target", "linked"}
      BY DEF Steady, FilePcs
    <3>2. call.kind = "mkdir" => inode[mem.ino].nlink > 0
      BY <1>1, <3>1 DEF FileKept
    <3> QED
      BY <1>1, <1>3, <1>5, <3>2
  <2>5. mem'.ino # NoInode
    BY NoInodeOut
  <2> QED
    BY <1>3, <1>5, <2>1, <2>2, <2>3, <2>4, <2>5 DEF FileKept
<1>15. DirKept(S)' /\ Untouched'
  BY DEF DirKept, Untouched
<1> QED
  BY <1>7, <1>9, <1>11, <1>12, <1>13, <1>14, <1>15 DEF InOrder, Work

\* The file in memory as it is on disk.
LEMMA FileAtHand ==
  ASSUME FsInv, pending = <<>>, NEW S, NEW bm, Steady(S, bm), pc \in FilePcs \cup {"target", "linked"}
  PROVE  /\ mem.ino \in Inodes \ {Root} /\ mem.file \in IndexNodes /\ mem.bitHint \in Blocks
         /\ inode[mem.ino].mode = mem.file.mode
         /\ mem.file.mode = "dir" => call.kind = "mkdir"
         /\ call.kind = "mkdir" => mem.file.nlink > 0 /\ inode[mem.ino].nlink > 0
<1>1. Among(pending) = {}
  BY NothingPending
<1>2. FileKept(S)
  BY DEF Steady
<1>3. mem.ino \in Inodes \ {Root} /\ mem.file \in IndexNodes /\ mem.bitHint \in Blocks
  BY DEF FsInv, MemOK, Mems, FileOK, FilePcs
<1> QED
  BY <1>1, <1>2, <1>3 DEF FileKept

LEMMA WriteInOrder ==
  ASSUME FsInv, FsInv', InOrder, Write
  PROVE  InOrder'
<1>1. /\ pc = "write" /\ pc' = pc /\ pending = <<>> /\ mem.done < call.blocks
      /\ CanPlace(mem.file, mem.done) /\ UNCHANGED disk /\ call' = call
      /\ pending' = Put(mem.ino, mem.file, mem.done, Data, mem.done + 1)
  BY DEF Write, WriteMore, Ready
<1>2. mem \in Mems
  BY DEF FsInv, MemOK
<1>3. mem'.root = mem.root /\ mem'.ino = mem.ino /\ mem'.file = Grown(mem.file, mem.done, mem.done + 1)
  BY <1>2 DEF Write, Mems
<1>4. call.kind = "create" /\ mem.done \in 0 .. MaxDirectBlocks - 1 /\ mem.done + 1 \in Nat
  <2>1. call \in CreateCalls
    BY <1>1, WhoIsAt DEF FsInv
  <2>2. call.kind = "create" /\ mem.done \in Nat
    BY <1>2, <2>1 DEF CreateCalls, Mems
  <2> QED
    BY <1>1, <2>2, Sizes DEF CanPlace
<1>5. PICK S, bm : Steady(S, bm)
  BY <1>1, AtReady DEF Working
<1>6. /\ mem.ino \in Inodes \ {Root} /\ inode[mem.ino].mode = mem.file.mode
      /\ mem.file.mode = "dir" => call.kind = "mkdir"
      /\ call.kind = "mkdir" => mem.file.nlink > 0
  BY <1>1, <1>5, FileAtHand DEF FilePcs
<1>7. Clear(Addrs(mem.file))
  BY <1>1, <1>4, <1>5 DEF Steady, FileApart, FilePcs
<1>8. ~ MoreToCome'
  BY <1>1, <1>4 DEF MoreToCome, Opening
<1> QED
  BY <1>1, <1>3, <1>4, <1>5, <1>6, <1>7, <1>8, FilePut

LEMMA MkdirDotInOrder ==
  ASSUME FsInv, FsInv', InOrder, MkdirDot
  PROVE  InOrder'
<1>1. /\ pc = "dot" /\ pc' = "inc" /\ pending = <<>>
      /\ CanPlace(mem.file, 0) /\ UNCHANGED disk /\ call' = call
      /\ pending' = Put(mem.ino, mem.file, 0, DotBlock(mem.file, 0, Entry(mem.ino, Dot)), SizeOf(1))
  BY DEF MkdirDot, Ready
<1>2. mem \in Mems /\ call.kind = "mkdir"
  BY <1>1, AtMkdir
<1>3. mem'.root = mem.root /\ mem'.ino = mem.ino /\ mem'.file = Grown(mem.file, 0, SizeOf(1))
  BY <1>2 DEF MkdirDot, Mems
<1>4. 0 \in 0 .. MaxDirectBlocks - 1 /\ SizeOf(1) \in Nat
  BY Sizes DEF SizeOf
<1>5. PICK S, bm : Steady(S, bm)
  BY <1>1, AtReady DEF Working
<1>6. /\ mem.ino \in Inodes \ {Root} /\ inode[mem.ino].mode = mem.file.mode
      /\ mem.file.nlink > 0
  BY <1>1, <1>2, <1>5, FileAtHand DEF FilePcs
<1>7. Clear(Addrs(mem.file)) /\ (MoreToCome => Addrs(mem.file) \subseteq bm)
  BY <1>1, <1>2, <1>5 DEF Steady, FileApart, FilePcs
<1>8. MoreToCome' => MoreToCome
  BY <1>1, <1>2 DEF MoreToCome, Opening
<1>9. PICK data : data = DotBlock(mem.file, 0, Entry(mem.ino, Dot))
  OBVIOUS
<1>10. PICK size \in Nat : size = SizeOf(1)
  BY <1>4
<1> QED
  BY <1>1, <1>2, <1>3, <1>4, <1>5, <1>6, <1>7, <1>8, <1>9, <1>10, FilePut

LEMMA MkdirDotDotInOrder ==
  ASSUME FsInv, FsInv', InOrder, MkdirDotDot
  PROVE  InOrder'
<1>1. /\ pc = "dotdot" /\ pc' = "parent" /\ pending = <<>>
      /\ UNCHANGED disk /\ call' = call
      /\ pending' = Put(mem.ino, mem.file, 0,
                        DotBlock(mem.file, 1, Entry(DirOf(call.path), DotDot)), SizeOf(2))
  BY DEF MkdirDotDot, Ready
<1>2. mem \in Mems /\ call.kind = "mkdir" /\ CanPlace(mem.file, 0)
  BY <1>1, AtMkdir, Sizes DEF FileOK, CanPlace
<1>3. mem'.root = mem.root /\ mem'.ino = mem.ino /\ mem'.file = Grown(mem.file, 0, SizeOf(2))
  BY <1>2 DEF MkdirDotDot, Mems
<1>4. 0 \in 0 .. MaxDirectBlocks - 1 /\ SizeOf(2) \in Nat
  BY Sizes DEF SizeOf
<1>5. PICK S, bm : Steady(S, bm)
  BY <1>1, AtReady DEF Working
<1>6. /\ mem.ino \in Inodes \ {Root} /\ inode[mem.ino].mode = mem.file.mode
      /\ mem.file.nlink > 0
  BY <1>1, <1>2, <1>5, FileAtHand DEF FilePcs
<1>7. Clear(Addrs(mem.file)) /\ (MoreToCome => Addrs(mem.file) \subseteq bm)
  BY <1>1, <1>2, <1>5 DEF Steady, FileApart, FilePcs
<1>8. MoreToCome' => MoreToCome
  BY <1>1, <1>2 DEF MoreToCome, Opening
<1>9. PICK data : data = DotBlock(mem.file, 1, Entry(DirOf(call.path), DotDot))
  OBVIOUS
<1>10. PICK size \in Nat : size = SizeOf(2)
  BY <1>4
<1> QED
  BY <1>1, <1>2, <1>3, <1>4, <1>5, <1>6, <1>7, <1>8, <1>9, <1>10, FilePut

-----------------------------------------------------------------------------
(***************************************************************************)
(* Steps that write at most one index node other than the root, and        *)
(* perhaps take marks of blocks away.                                      *)
(***************************************************************************)
Framed(S, bm) ==
  /\ \E blk : Rest(S, blk) /\ CopiesOK(S, blk, bm)
  /\ BitsAhead(bm) /\ OthersApart(bm)

LEMMA FramedInOrder ==
  ASSUME NEW S, NEW bm, Framed(S, bm), AllLive(S), FileApart(bm), FileKept(S), DirKept(S), Untouched
  PROVE  InOrder
BY DEF Framed, InOrder, Work

LEMMA SilentStep ==
  ASSUME FsInv, pending = <<>>, pending' = <<>>, UNCHANGED disk, NEW S, NEW bm,
         Rest(S, block), CopiesOK(S, block, bm), bm \subseteq bitmap, OthersApart(bm),
         mem'.root = mem.root, InRoot' => mem'.dir \in Copies /\ Full(mem'.dir),
         MoreToCome' => MoreToCome
  PROVE  Framed(S, bm)' /\ \A A : Clear(A) => Clear(A)'
<1>1. Among(pending') = {} /\ Writes(pending') /\ OneData(pending') /\ DOMAIN pending' = {}
      /\ inode' = inode /\ bitmap' = bitmap /\ bitmap \subseteq Blocks
  BY NothingPending, NoWrites DEF OneData, disk, FsInv, DiskOK
<1>2. \A c \in Copies : Addrs(c) \subseteq bm
  BY DEF CopiesOK
<1>3. (\E blk : Rest(S, blk)' /\ CopiesOK(S, blk, bm)') /\ \A A : Clear(A) => Clear(A)'
  BY <1>1, <1>2, QuietStep
<1>4. BitsAhead(bm)'
  BY <1>1 DEF BitsAhead
<1>5. OthersApart(bm)'
  BY <1>1, <1>3, OthersStay
<1> QED
  BY <1>3, <1>4, <1>5 DEF Framed

LEMMA InodeStep ==
  ASSUME FsInv, Writes(pending'), pending = <<>>, UNCHANGED disk, NEW S, NEW bm, NEW bm1 \in SUBSET bm,
         Rest(S, block), CopiesOK(S, block, bm), bm \subseteq bitmap, OthersApart(bm),
         NEW i \in Inodes \ {Root}, NEW node,
         \A w \in Among(pending') : \/ w.to = "bitmap" /\ w.at \notin bm1
                                    \/ w.to = "inode" /\ w.at = i /\ w.node = node,
         \E w \in Among(pending') : w.to = "inode" /\ w.at = i,
         node.mode = inode[i].mode \/ \A e \in S : e.ino # i,
         \A c \in Copies : Addrs(c) \subseteq bm1,
         mem'.root = mem.root, InRoot' => mem'.dir \in Copies /\ Full(mem'.dir),
         MoreToCome' => /\ MoreToCome /\ Apart(bm1, node)
                        /\ \A j \in Inodes \ {Root, i} : inode[j].nlink > 0 => Addrs(inode[j]) \subseteq bm1
  PROVE  Framed(S, bm1)' /\ \A A : Clear(A) => Clear(A)'
<1>1. /\ inode' = inode /\ bitmap' = bitmap /\ bitmap \subseteq Blocks /\ Among(pending) = {}
  BY NothingPending DEF disk, FsInv, DiskOK
<1>2. OneData(pending')
  BY DEF OneData, Among
<1>3. \A w \in Among(pending') : Elsewhere(S, Copies, w)
  BY DEF Elsewhere, ModeKept
<1>4. (\E blk : Rest(S, blk)' /\ CopiesOK(S, blk, bm1)') /\ \A A : Clear(A) => Clear(A)'
  BY <1>2, <1>3, QuietStep
<1>5. BitsAhead(bm1)'
  BY <1>1 DEF BitsAhead
<1>6. OthersApart(bm1)'
  <2>1. ASSUME MoreToCome', NEW w \in Among(pending'), w.to = "inode" PROVE Apart(bm1, w.node)'
    <3>1. w.node = node /\ Addrs(node) \subseteq bm1 /\ Clear(Addrs(node))
      BY <2>1 DEF Apart
    <3>2. Clear(Addrs(node))'
      BY <1>4, <3>1
    <3> QED
      BY <3>1, <3>2 DEF Apart
  <2>2. ASSUME MoreToCome', NEW j \in Inodes \ {Root}, inode'[j].nlink > 0
        PROVE  Apart(bm1, inode[j])' \/ \E w \in Among(pending') : w.to = "inode" /\ w.at = j
    <3>1. CASE j = i
      BY <3>1
    <3>2. CASE j # i
      <4>1. PICK n : n = inode[j] /\ n = inode'[j]
        BY <1>1
      <4>2. Addrs(n) \subseteq bm1 /\ Clear(Addrs(n))
        BY <1>1, <2>2, <3>2, <4>1 DEF OthersApart, Apart
      <4>3. Clear(Addrs(n))'
        BY <1>4, <4>2
      <4> QED
        BY <4>1, <4>2, <4>3 DEF Apart, Clear, Addrs
    <3> QED
      BY <3>1, <3>2
  <2> QED
    BY <2>1, <2>2 DEF OthersApart
<1> QED
  BY <1>4, <1>5, <1>6 DEF Framed
-----------------------------------------------------------------------------
(***************************************************************************)
(* mkdir, link and symlink.                                                *)
(***************************************************************************)
LEMMA SymlinkTargetInOrder ==
  ASSUME FsInv, FsInv', InOrder, SymlinkTarget
  PROVE  InOrder'
<1>1. /\ pc = "target" /\ pc' \in {"insert", "undo"} /\ pending = <<>> /\ UNCHANGED disk /\ call' = call
      /\ CanPlace(mem.file, 0) => pending' = Put(mem.ino, mem.file, 0, LinkTo(call.old), 1)
      /\ ~ CanPlace(mem.file, 0) => pending' = <<>> /\ mem' = mem
  BY DEF SymlinkTarget, Ready
<1>2. mem \in Mems /\ mem.file = New("link") /\ call.kind = "symlink"
  <2>1. call \in SymlinkCalls
    BY <1>1, WhoIsAt DEF FsInv
  <2> QED
    BY <1>1, <2>1 DEF FsInv, MemOK, FileOK, SymlinkCalls
<1>3. Addrs(mem.file) = {}
  BY <1>2 DEF New, Addrs, NoAddresses
<1>4. PICK S, bm : Steady(S, bm)
  BY <1>1, AtReady DEF Working
<1>5. /\ mem.ino \in Inodes \ {Root} /\ inode[mem.ino].mode = mem.file.mode /\ mem.file.mode # "dir"
      /\ mem.ino # NoInode
  BY <1>1, <1>2, <1>4, FileAtHand, NoInodeOut
<1>6. MoreToCome /\ ~ InRoot'
  BY <1>1 DEF MoreToCome, Opening, InRoot
<1>7. CASE CanPlace(mem.file, 0)
  <2>1. mem'.root = mem.root /\ mem'.ino = mem.ino /\ mem'.file = Grown(mem.file, 0, 1)
    BY <1>2, <1>7 DEF SymlinkTarget, Mems
  <2>2. 0 \in 0 .. MaxDirectBlocks - 1 /\ 1 \in Nat
    BY Sizes
  <2>3. Clear(Addrs(mem.file)) /\ Addrs(mem.file) \subseteq bm
    BY <1>3 DEF Clear
  <2>4. PICK data : data = LinkTo(call.old)
    OBVIOUS
  <2> QED
    BY <1>1, <1>2, <1>4, <1>5, <1>6, <1>7, <2>1, <2>2, <2>3, <2>4, FilePut
<1>8. CASE ~ CanPlace(mem.file, 0)
  <2>1. pending' = <<>> /\ mem' = mem /\ inode' = inode /\ Among(pending') = {}
    BY <1>1, <1>8, NothingPending DEF disk
  <2>2. Framed(S, bm)'
    BY <1>1, <1>4, <1>6, <2>1, SilentStep DEF Steady
  <2>3. AllLive(S)' /\ FileApart(bm)' /\ DirKept(S)' /\ Untouched'
    BY <1>1, <1>2 DEF AllLive, FileApart, DirKept, Untouched
  <2>4. FileKept(S)'
    BY <1>1, <1>2, <1>5, <2>1 DEF FileKept
  <2> QED
    BY <2>2, <2>3, <2>4, FramedInOrder DEF Framed, InOrder, Work
<1> QED
  BY <1>7, <1>8

LEMMA MkdirIncInOrder ==
  ASSUME FsInv, FsInv', InOrder, MkdirInc
  PROVE  InOrder'
<1>1. /\ pc = "inc" /\ pc' = "dotdot" /\ pending = <<>> /\ UNCHANGED disk /\ call' = call /\ inode' = inode
      /\ pending' = <<WriteInode(mem.ino, mem'.file)>>
  BY DEF MkdirInc, Ready, disk
<1>2. mem \in Mems /\ call.kind = "mkdir" /\ mem.file \in IndexNodes
  BY <1>1, AtMkdir
<1>3. PICK g : g = [mem.file EXCEPT !.nlink = @ + 1]
  OBVIOUS
<1>4. mem'.root = mem.root /\ mem'.ino = mem.ino /\ mem'.file = g
  BY <1>2, <1>3 DEF MkdirInc, Mems
<1>5. g.mode = mem.file.mode /\ g.nlink > 0 /\ Addrs(g) = Addrs(mem.file)
  BY <1>2, <1>3 DEF IndexNodes, Addrs
<1>6. PICK S, bm : Steady(S, bm)
  BY <1>1, AtReady DEF Working
<1>7. /\ mem.ino \in Inodes \ {Root} /\ inode[mem.ino].mode = mem.file.mode /\ inode[mem.ino].nlink > 0
  BY <1>1, <1>2, <1>6, FileAtHand DEF FilePcs
<1>8. Clear(Addrs(g)) /\ (MoreToCome => Addrs(g) \subseteq bm)
  BY <1>1, <1>2, <1>5, <1>6 DEF Steady, FileApart, FilePcs
<1>9. Among(pending') = {WriteInode(mem.ino, g)}
  BY <1>1, <1>4 DEF Among
<1>10. PICK ino : ino = mem.ino
  OBVIOUS
<1>11. \A w \in Among(pending') : w.to = "inode" /\ w.at = ino /\ w.node = g
  BY <1>9, <1>10 DEF WriteInode
<1>12. Framed(S, bm)' /\ \A A : Clear(A) => Clear(A)'
  <2>1. \E w \in Among(pending') : w.to = "inode" /\ w.at = ino
    BY <1>9, <1>11
  <2>2. MoreToCome' => /\ MoreToCome /\ Apart(bm, g)
                       /\ \A j \in Inodes \ {Root, ino} : inode[j].nlink > 0 => Addrs(inode[j]) \subseteq bm
    <3>1. MoreToCome' => MoreToCome
      BY <1>1, <1>2 DEF MoreToCome, Opening
    <3>2. MoreToCome => \A j \in Inodes \ {Root, ino} : inode[j].nlink > 0 => Addrs(inode[j]) \subseteq bm
      BY <1>1, <1>6, NothingPending DEF Steady, OthersApart, Apart
    <3> QED
      BY <1>8, <3>1, <3>2 DEF Apart
  <2>3. ~ InRoot' /\ Writes(pending') /\ ino \in Inodes \ {Root} /\ g.mode = inode[ino].mode
    BY <1>1, <1>5, <1>7, <1>10 DEF InRoot, FsInv
  <2>4. Rest(S, block) /\ CopiesOK(S, block, bm) /\ bm \subseteq bitmap /\ OthersApart(bm)
        /\ \A c \in Copies : Addrs(c) \subseteq bm
    BY <1>6 DEF Steady, CopiesOK
  <2> QED
    BY <1>1, <1>4, <1>11, <2>1, <2>2, <2>3, <2>4, InodeStep
<1>13. AllLive(S)'
  BY <1>1, <1>2, <1>5, <1>6, <1>11 DEF Steady, AllLive
<1>14. FileApart(bm)'
  <2>1. Clear(Addrs(g))'
    BY <1>8, <1>12
  <2>2. MoreToCome' => MoreToCome
    BY <1>1, <1>2 DEF MoreToCome, Opening
  <2> QED
    BY <1>1, <1>4, <1>8, <2>1, <2>2 DEF FileApart, Clear, Addrs
<1>15. FileKept(S)'
  BY <1>1, <1>2, <1>4, <1>5, <1>7, <1>10, <1>11 DEF FileKept
<1>16. DirKept(S)' /\ Untouched'
  BY <1>1 DEF DirKept, Untouched
<1> QED
  BY <1>12, <1>13, <1>14, <1>15, <1>16, FramedInOrder DEF Framed, InOrder, Work

Freeing(node, w) == w.to = "bitmap" /\ \E k \in 1 .. BlocksOf(node) : w.at = node.addr[k - 1]

LEMMA FreedBlocks ==
  ASSUME NEW node \in IndexNodes
  PROVE  \E T : FreeBlocks(node) \in Seq(T) /\ \A w \in T : Freeing(node, w)
<1> DEFINE T == {ResetBit(node.addr[k - 1]) : k \in 1 .. BlocksOf(node)}
<1>1. BlocksOf(node) \in Nat
  BY BlocksOfType
<1>2. FreeBlocks(node) \in Seq(T)
  BY <1>1 DEF FreeBlocks
<1>3. \A w \in T : Freeing(node, w)
  BY DEF ResetBit, Freeing
<1> QED
  BY <1>2, <1>3

LEMMA FreedWrites ==
  ASSUME NEW node \in IndexNodes, NEW v, NEW P, P = FreeBlocks(node) \o <<v>>
  PROVE  v \in Among(P) /\ \A w \in Among(P) : w = v \/ Freeing(node, w)
<1>1. PICK T : FreeBlocks(node) \in Seq(T) /\ \A w \in T : Freeing(node, w)
  BY FreedBlocks
<1>2. PICK s : s = FreeBlocks(node)
  OBVIOUS
<1>3. \A j \in DOMAIN s : s[j] \in T
  BY <1>1, <1>2
<1>4. Among(s) \subseteq T
  BY <1>3 DEF Among
<1> DEFINE U == T \cup {v}
<1>5. s \in Seq(U) /\ <<v>> \in Seq(U)
  BY <1>1, <1>2
<1> HIDE DEF U
<1>6. Among(P) = Among(s) \cup Among(<<v>>)
  BY <1>2, <1>5, AmongBoth
<1>7. Among(<<v>>) = {v}
  BY DEF Among
<1> QED
  BY <1>1, <1>4, <1>6, <1>7

LEMMA MkdirParentInOrder ==
  ASSUME FsInv, FsInv', InOrder, MkdirParent
  PROVE  InOrder'
<1>1. pc = "parent" /\ pending = <<>> /\ UNCHANGED disk /\ inode' = inode
  BY DEF MkdirParent, Ready, disk
<1>2. /\ call \in MkdirCalls /\ call.kind = "mkdir" /\ DirOf(call.path) = Root /\ DiskOK /\ mem \in Mems
  BY <1>1, AtMkdir
<1>3. PICK r : r = [inode[Root] EXCEPT !.nlink = @ + 1]
  OBVIOUS
<1>4. /\ pending' = <<WriteInode(Root, r)>>
      /\ call.more = <<>> => pc' = "exit"
      /\ call.more # <<>> => /\ call' = [call EXCEPT !.path = Head(call.more), !.more = Tail(call.more)]
                             /\ pc' = "creat" /\ mem' = mem
  BY <1>2, <1>3 DEF MkdirParent, Exit
<1>5. r.mode = inode[Root].mode /\ Alike(r, inode[Root]) /\ r.nlink > 0
  <2>1. inode[Root] \in IndexNodes
    BY <1>2, NoInodeOut DEF DiskOK
  <2> QED
    BY <1>3, <2>1 DEF Alike, IndexNodes
<1>6. \A w \in Among(pending') : w.to = "inode" /\ w.at = Root /\ w.node = r
  BY <1>4 DEF Among, WriteInode
<1>7. Writes(pending')
  BY DEF FsInv
<1>8. PICK S, bm : Steady(S, bm)
  BY <1>1, AtReady DEF Working
<1>9. CASE call.more = <<>>
  <2>1. ~ Working'
    BY <1>4, <1>9 DEF Working
  <2>2. \A w \in Among(pending') : w.to # "block" /\ Elsewhere(S, {inode[Root]}, w)
    BY <1>5, <1>6 DEF Elsewhere, ModeKept
  <2> QED
    BY <1>1, <1>7, <1>8, <2>1, <2>2, EndInOrder DEF Steady
<1>10. CASE call.more # <<>>
  <2>1. call'.kind = "mkdir" /\ call'.more = <<>> /\ pc' = "creat" /\ mem' = mem
    <3>1. PICK b \in Inner : call.more = <<<<b>>>>
      BY <1>2, <1>10 DEF MkdirCalls
    <3>2. Tail(call.more) = <<>>
      BY <3>1
    <3> QED
      BY <1>2, <1>4, <1>10, <3>2 DEF MkdirCalls
  <2>2. /\ Rest(S, block) /\ CopiesOK(S, block, bm) /\ bm \subseteq bitmap /\ OthersApart(bm)
        /\ \A c \in Copies : Addrs(c) \subseteq bm
    BY <1>8 DEF Steady, CopiesOK
  <2>3. \A w \in Among(pending') : Elsewhere(S, Copies, w)
    BY <1>5, <1>6 DEF Elsewhere, ModeKept, Copies
  <2>4. OneData(pending') /\ ~ InRoot'
    BY <1>6, <2>1 DEF OneData, Among, InRoot
  <2>5. /\ \E blk : Rest(S, blk)' /\ CopiesOK(S, blk, bm)'
        /\ \A A : Clear(A) => Clear(A)'
    BY <1>1, <1>7, <2>1, <2>2, <2>3, <2>4, QuietStep
  <2>6. BitsAhead(bm)'
    BY <1>1, <1>2, <1>6, <2>2 DEF BitsAhead, disk, DiskOK
  <2>7. MoreToCome
    BY <1>2, <1>10 DEF MoreToCome
  <2>8. OthersApart(bm)'
    BY <1>1, <1>6, <2>2, <2>5, <2>7, OthersStay
  <2>9. AllLive(S)'
    BY <1>1, <1>2, <1>5, <1>6, <1>8, <2>1 DEF AllLive, Steady
  <2>10. FileApart(bm)' /\ FileKept(S)' /\ DirKept(S)'
    BY <2>1 DEF FileApart, FileKept, DirKept, FilePcs
  <2>11. Untouched'
    <3>1. mem.ino # NoInode
      BY <1>1, <1>8 DEF Steady, FileKept
    <3> QED
      BY <2>1, <3>1 DEF Untouched, Again
  <2>12. Framed(S, bm)'
    BY <2>5, <2>6, <2>8 DEF Framed
  <2> QED
    BY <2>9, <2>10, <2>11, <2>12, FramedInOrder DEF Framed, InOrder, Work
<1> QED
  BY <1>9, <1>10

LEMMA LinkInOrder ==
  ASSUME FsInv, FsInv', InOrder, Link
  PROVE  InOrder'
<1>1. /\ pc = "link" /\ pc' = "insert" /\ pending = <<>> /\ pending' = <<>> /\ UNCHANGED disk /\ call' = call
      /\ inode' = inode /\ findIndexNode[call.old] # NoInode /\ ~ IsDir(findIndexNode[call.old])
  BY DEF Link, Linkable, Ready, disk
<1>2. mem \in Mems /\ DiskOK /\ CallOK /\ NodeOK(mem.root) /\ (call.kind \notin {"none", "fsck"} => RootOK)
  BY DEF FsInv, MemOK
<1>3. call \in LinkCalls /\ call.kind = "link" /\ call.old \in Paths
  BY <1>1, <1>2, WhoIsAt, Kinds
<1>4. PICK i : i = findIndexNode[call.old]
  OBVIOUS
<1>5. i \in Inodes
  BY <1>1, <1>2, <1>3, <1>4, FindTypes
<1>6. i # Root /\ inode[i].mode # "dir"
  BY <1>1, <1>2, <1>3, <1>4 DEF IsDir, CopyOf, RootOK
<1>7. mem'.root = mem.root /\ mem'.ino = i /\ mem'.file = inode[i]
  BY <1>2, <1>4 DEF Link, Mems
<1>8. PICK S, bm : Steady(S, bm)
  BY <1>1, AtReady DEF Working
<1>9. Framed(S, bm)'
  <2>1. MoreToCome /\ ~ InRoot'
    BY <1>1 DEF MoreToCome, Opening, InRoot
  <2> QED
    BY <1>1, <1>7, <1>8, <2>1, SilentStep DEF Steady
<1>10. AllLive(S)' /\ FileApart(bm)' /\ DirKept(S)' /\ Untouched'
  BY <1>1, <1>3 DEF AllLive, FileApart, DirKept, Untouched
<1>11. FileKept(S)'
  <2>1. Among(pending') = {}
    BY <1>1, NothingPending
  <2> QED
    BY <1>1, <1>3, <1>6, <1>7, <2>1 DEF FileKept
<1> QED
  BY <1>9, <1>10, <1>11, FramedInOrder DEF Framed, InOrder, Work

LEMMA LinkedInOrder ==
  ASSUME FsInv, FsInv', InOrder, Linked
  PROVE  InOrder'
<1>1. /\ pc = "linked" /\ pc' = "exit" /\ pending = <<>> /\ UNCHANGED disk /\ Writes(pending')
      /\ pending' = <<WriteInode(mem.ino, [mem.file EXCEPT !.nlink = @ + 1])>>
  BY DEF Linked, Ready, Exit, FsInv
<1>2. PICK S, bm : Steady(S, bm)
  BY <1>1, AtReady DEF Working
<1>3. /\ mem.ino \in Inodes \ {Root} /\ mem.file \in IndexNodes
      /\ inode[mem.ino].mode = mem.file.mode
  BY <1>1, <1>2, FileAtHand
<1>4. PICK g : g = [mem.file EXCEPT !.nlink = @ + 1]
  OBVIOUS
<1>5. g.mode = mem.file.mode
  BY <1>3, <1>4 DEF IndexNodes
<1>6. \A w \in Among(pending') : w.to = "inode" /\ w.at = mem.ino /\ w.node = g
  BY <1>1, <1>4 DEF Among, WriteInode
<1>7. \A w \in Among(pending') : w.to # "block" /\ Elsewhere(S, {inode[Root]}, w)
  BY <1>3, <1>5, <1>6 DEF Elsewhere, ModeKept
<1>8. ~ Working'
  BY <1>1 DEF Working
<1> QED
  BY <1>1, <1>2, <1>7, <1>8, EndInOrder DEF Steady

LEMMA SymlinkUndoInOrder ==
  ASSUME FsInv, FsInv', InOrder, SymlinkUndo
  PROVE  InOrder'
<1>1. /\ pc = "undo" /\ pc' = "exit" /\ pending = <<>> /\ UNCHANGED disk /\ Writes(pending')
      /\ pending' = freeIndexNode(mem.ino)
  BY DEF SymlinkUndo, Ready, Exit, FsInv
<1>2. PICK S, bm : Steady(S, bm)
  BY <1>1, AtReady DEF Working
<1>3. PICK i : i = mem.ino
  OBVIOUS
<1>4. i \in Inodes \ {Root} /\ inode[i] \in IndexNodes
  BY <1>1, <1>3 DEF FsInv, MemOK, FileOK, DiskOK
<1>5. PICK c : c = ClearedTo(inode[i], BlocksOf(inode[i]))
  OBVIOUS
<1>6. c \in IndexNodes /\ c.mode = inode[i].mode
  BY <1>4, <1>5, ClearedType
<1>7. PICK node : node = [c EXCEPT !.nlink = 0, !.size = 0]
  OBVIOUS
<1>8. node.mode = inode[i].mode
  BY <1>6, <1>7 DEF IndexNodes
<1>9. pending' = FreeBlocks(inode[i]) \o <<WriteInode(i, node)>>
  BY <1>1, <1>3, <1>5, <1>7 DEF freeIndexNode
<1>10. \A w \in Among(pending') : w = WriteInode(i, node) \/ w.to = "bitmap"
  <2>1. PICK v, P : v = WriteInode(i, node) /\ P = FreeBlocks(inode[i]) \o <<v>>
    OBVIOUS
  <2>2. \A w \in Among(P) : w = v \/ Freeing(inode[i], w)
    BY <1>4, <2>1, FreedWrites
  <2>3. \A w \in Among(P) : w = v \/ w.to = "bitmap"
    BY <2>2 DEF Freeing
  <2> QED
    BY <1>9, <2>1, <2>3
<1>11. \A w \in Among(pending') : w.to # "block" /\ Elsewhere(S, {inode[Root]}, w)
  BY <1>4, <1>8, <1>10 DEF Elsewhere, ModeKept, WriteInode
<1>12. ~ Working'
  BY <1>1 DEF Working
<1> QED
  BY <1>1, <1>2, <1>11, <1>12, EndInOrder DEF Steady

LEMMA SymlinkInOrder ==
  ASSUME FsInv, FsInv', InOrder, Symlink
  PROVE  InOrder'
<1>1. /\ pc = "symlink" /\ pc' = "target" /\ pending = <<>> /\ UNCHANGED disk /\ call' = call
      /\ allocateIndexNode # NoInode /\ Writes(pending')
      /\ pending' = <<WriteInode(allocateIndexNode, New("link"))>>
  BY DEF Symlink, Ready, FsInv
<1>2. mem \in Mems /\ DiskOK /\ CallOK
  BY DEF FsInv, MemOK
<1>3. call.kind = "symlink"
  BY <1>1, <1>2, WhoIsAt, Kinds
<1>4. PICK i : i = allocateIndexNode
  OBVIOUS
<1>5. i \in Inodes \ {Root} /\ inode[i].nlink = 0
  BY <1>1, <1>2, <1>4, AllocateIndexNodeType DEF Mems
<1>6. PICK node : node = New("link")
  OBVIOUS
<1>7. node.mode = "link" /\ Addrs(node) = {}
  BY <1>6 DEF New, Addrs, NoAddresses
<1>8. mem'.root = mem.root /\ mem'.ino = i /\ mem'.file = node
  BY <1>2, <1>4, <1>6 DEF Symlink, Mems
<1>9. PICK S, bm : Steady(S, bm)
  BY <1>1, AtReady DEF Working
<1>10. Among(pending') = {WriteInode(i, node)}
  BY <1>1, <1>4, <1>6 DEF Among
<1>11. (\A w \in Among(pending') : w.to = "inode" /\ w.at = i /\ w.node = node)
       /\ \E w \in Among(pending') : w.to = "inode" /\ w.at = i
  BY <1>10 DEF WriteInode
<1>12. Framed(S, bm)'
  <2>1. \A e \in S : e.ino # i
    BY <1>1, <1>5, <1>9 DEF Steady, AllLive
  <2>2. ~ InRoot' /\ MoreToCome /\ Apart(bm, node)
    BY <1>1, <1>7 DEF InRoot, MoreToCome, Opening, Apart, Clear
  <2>3. \A j \in Inodes \ {Root, i} : inode[j].nlink > 0 => Addrs(inode[j]) \subseteq bm
    BY <1>1, <1>9, <2>2, NothingPending DEF Steady, OthersApart, Apart
  <2>4. Rest(S, block) /\ CopiesOK(S, block, bm) /\ bm \subseteq bitmap /\ OthersApart(bm)
        /\ \A c \in Copies : Addrs(c) \subseteq bm
    BY <1>9 DEF Steady, CopiesOK
  <2> QED
    BY <1>1, <1>5, <1>8, <1>11, <2>1, <2>2, <2>3, <2>4, InodeStep
<1>13. AllLive(S)' /\ FileApart(bm)' /\ DirKept(S)' /\ Untouched'
  BY <1>1, <1>3 DEF AllLive, FileApart, DirKept, Untouched
<1>14. FileKept(S)'
  BY <1>1, <1>3, <1>7, <1>8, <1>11 DEF FileKept
<1> QED
  BY <1>12, <1>13, <1>14, FramedInOrder DEF Framed, InOrder, Work

-----------------------------------------------------------------------------
(***************************************************************************)
(* What a name leads to is in use.                                         *)
(***************************************************************************)
LEMMA NamedEntry ==
  ASSUME FsInv, NEW S \in SUBSET NamedEntries, NEW c, NodeOK(c), Shows(S, block, c),
         NEW k \in 0 .. c.size - 1, EntryAt(c, k).name \in Names
  PROVE  k >= 2 /\ EntryAt(c, k) \in S
<1>1. Fits(S, EntryAt(c, k), k)
  BY EntryNow DEF Shows
<1>2. \A n \in Names : n # Blank.name /\ n # Dot /\ n # DotDot
  BY Sizes DEF Blank, Entry, Dot, DotDot
<1>3. Entry(Root, Dot).name = Dot /\ Entry(Root, DotDot).name = DotDot
  BY DEF Entry
<1> QED
  BY <1>1, <1>2, <1>3 DEF Fits

LEMMA NamedInRoot ==
  ASSUME FsInv, NEW S, NEW bm, Steady(S, bm), NEW n \in Names, EntryNode(Root, n) # NoInode
  PROVE  \E e \in S : e.name = n /\ e.ino = EntryNode(Root, n) /\ e.ino \in Inodes \ {Root}
<1>1. DiskOK /\ NodeOK(mem.root) /\ CopyOf(Root) = mem.root
  BY DEF FsInv, MemOK, CopyOf
<1>2. S \subseteq NamedEntries /\ Shows(S, block, mem.root)
  BY DEF Steady, Rest, CopiesOK, Copies
<1>3. PICK k \in 0 .. mem.root.size - 1 : EntryAt(mem.root, k).name = n /\ EntryAt(mem.root, k).ino = EntryNode(Root, n)
  BY <1>1, NodeInFound DEF EntryNode
<1>4. EntryAt(mem.root, k) \in S
  BY <1>1, <1>2, <1>3, NamedEntry
<1> QED
  BY <1>2, <1>3, <1>4 DEF NamedEntries, DirEntries

LEMMA ReferredLives ==
  ASSUME DiskOK, Clean, NEW d \in Directories, NEW k \in 0 .. inode[d].size - 1
  PROVE  /\ EntryAt(inode[d], k).ino \in Inodes
         /\ inode[EntryAt(inode[d], k).ino].nlink > 0
<1> DEFINE i == EntryAt(inode[d], k).ino
<1>1. NodeOK(inode[d]) /\ inode[d] \in IndexNodes
  BY NoInodeOut DEF DiskOK, NodeAt, Directories
<1>2. k \in 0 .. Space - 1 /\ k < inode[d].size
  BY <1>1, NodeParts, Sizes
<1>3. i \in Inodes
  <2>1. EntryAt(inode[d], k) \in DirEntries
    BY <1>1, <1>2, EntryAtType
  <2> QED
    BY <2>1 DEF DirEntries
<1>4. <<d, k>> \in Referring(i)
  BY <1>2 DEF Space, Referring
<1> HIDE DEF i
<1>5. References(i) \in Nat /\ References(i) # 0
  BY <1>4, ReferencesAre, FS_EmptySet
<1>6. inode[i].nlink = References(i) + (IF i = Root THEN 1 ELSE 0)
  BY <1>3 DEF Clean
<1> QED
  BY <1>3, <1>5, <1>6 DEF i

\* On a consistent file system, before the program has written.
LEMMA RootBegins ==
  ASSUME DiskOK, Consistent
  PROVE  /\ Root \in Live /\ inode[Root].size >= 2 /\ Sorted(Root)
         /\ EntryAt(inode[Root], 0) = Entry(Root, Dot) /\ EntryAt(inode[Root], 1) = Entry(Root, DotDot)
<1>1. Root \in Live /\ inode[Root].mode = "dir"
  BY RootIsLive, NoInodeOut DEF Consistent, Live, DiskOK, NodeAt
<1> QED
  BY <1>1 DEF Consistent, Sound

LEMMA SubdirIsDirectory ==
  ASSUME DiskOK, NodeOK(mem.root), Consistent, mem.root = inode[Root],
         NEW p \in Paths, IsDir(DirOf(p))
  PROVE  DirOf(p) \in Directories /\ inode[DirOf(p)].nlink > 0 /\ CopyOf(DirOf(p)) = inode[DirOf(p)]
<1>1. PICK d : d = DirOf(p)
  OBVIOUS
<1>2. d \in Inodes /\ d \in RootEntries /\ IsDir(d) /\ NodeOK(inode[Root])
  BY <1>1, DirOfType, NoInodeOut DEF DiskOK, NodeAt
<1>3. CopyOf(d) = inode[d]
  BY DEF CopyOf
<1>4. CASE d = Root
  BY <1>1, <1>3, <1>4, RootIsLive DEF Directories, Consistent
<1>5. CASE d # Root
  <2>1. PICK m \in Names : d = EntryNode(Root, m)
    BY <1>2, <1>5, NoInodeOut DEF RootEntries
  <2>2. PICK k \in 0 .. inode[Root].size - 1 : EntryAt(inode[Root], k).name = m /\ EntryAt(inode[Root], k).ino = d
    BY <1>2, <2>1, NodeInFound, NoInodeOut DEF EntryNode, CopyOf
  <2>3. k >= 2 /\ inode[Root].size \in Nat
    <3>1. Entry(Root, Dot).name = Dot /\ Entry(Root, DotDot).name = DotDot
      BY DEF Entry
    <3>2. m # Dot /\ m # DotDot
      BY Sizes DEF Dot, DotDot
    <3>3. k # 0 /\ k # 1 /\ inode[Root].size \in Nat
      BY <1>2, <2>2, <3>1, <3>2, RootBegins, NodeParts
    <3> QED
      BY <3>3
  <2>4. d \in Directories
    BY <1>2, <1>3, <2>2, <2>3 DEF Directories, IsDir
  <2>5. inode[d].nlink > 0
    BY <2>2, ReferredIsLive DEF Consistent
  <2> QED
    BY <1>1, <1>3, <2>4, <2>5
<1> QED
  BY <1>4, <1>5

LEMMA FoundLives ==
  ASSUME DiskOK, NodeOK(mem.root), Consistent, mem.root = inode[Root],
         NEW p \in Paths, IsDir(DirOf(p)), NEW n, EntryNode(DirOf(p), n) # NoInode
  PROVE  EntryNode(DirOf(p), n) \in Inodes /\ inode[EntryNode(DirOf(p), n)].nlink > 0
<1>1. PICK d : d = DirOf(p)
  OBVIOUS
<1>2. d \in Directories /\ CopyOf(d) = inode[d] /\ d \in Inodes
  BY <1>1, SubdirIsDirectory, DirOfType
<1>3. NodeOK(inode[d]) /\ EntryNode(d, n) = NodeIn(inode[d], n)
  BY <1>2 DEF DiskOK, NodeAt, EntryNode
<1>4. PICK k \in 0 .. inode[d].size - 1 : EntryAt(inode[d], k).ino = EntryNode(d, n)
  BY <1>1, <1>3, NodeInFound
<1> QED
  BY <1>1, <1>2, <1>4, ReferredLives DEF Consistent

LEMMA FindEnds ==
  ASSUME DiskOK, NodeOK(mem.root), NEW p \in Paths, IsDir(DirOf(p)), NEW i, i = findIndexNode[p],
         i # NoInode, i # Root
  PROVE  i = EntryNode(DirOf(p), Last(p)) \/ \E m \in Names : i = EntryNode(Root, m)
<1>1. PICK j : j = EntryNode(DirOf(p), Last(p))
  OBVIOUS
<1>2. HopThresh \in 0 .. HopThresh
  BY FileSystemAssumption
<1>3. i = Follow(found, HopThresh, j)
  <2>1. findIndexNode[p] = Reach(found, HopThresh, p)
    BY <1>2, FoundIs, FoundSteps
  <2>2. CASE Len(p) = 1
    BY <1>1, <2>1, <2>2, PathParts DEF Reach, DirOf
  <2>3. CASE Len(p) = 2
    <3>1. /\ p[1] \in Names /\ <<p[1]>> \in Paths /\ Last(p) = p[2]
          /\ Len(<<p[1]>>) = 1 /\ <<p[1]>>[1] = p[1]
      BY <2>3, PathParts
    <3>2. DirOf(p) = Follow(found, HopThresh, EntryNode(Root, p[1]))
      <4>1. DirOf(p) = findIndexNode[<<p[1]>>]
        BY <2>3 DEF DirOf
      <4> QED
        BY <1>2, <3>1, <4>1, FoundIs, FoundSteps DEF Reach
    <3> QED
      BY <1>1, <2>1, <2>3, <3>1, <3>2 DEF Reach
  <2> QED
    BY <2>2, <2>3, PathParts
<1>4. CASE i = j
  BY <1>1, <1>4
<1>5. CASE i # j
  <2>1. j # NoInode /\ Target(j) # NoLink /\ HopThresh # 0 /\ i = found[HopThresh - 1][Target(j)]
    BY <1>3, <1>5 DEF Follow
  <2>2. j \in Inodes
    BY <1>1, <2>1, DirOfType, EntryNodeType
  <2>3. PICK m \in Names : Target(j) = <<m>>
    BY <2>1, <2>2, TargetType DEF Links
  <2>4. HopThresh - 1 \in 0 .. HopThresh
    BY <2>1, FileSystemAssumption
  <2>5. i \in RootEntries
    BY <2>1, <2>3, <2>4, FoundInRoot
  <2> QED
    BY <2>5 DEF RootEntries
<1> QED
  BY <1>4, <1>5

\* Where creat, link, symlink and rm begin, everything the program finds is in use.
LEMMA AtCreat ==
  ASSUME FsInv, pending = <<>>, pc = "creat", NEW S, NEW bm, Steady(S, bm), IsDir(DirOf(call.path)),
         NEW i, i # NoInode,
         i = EntryNode(DirOf(call.path), Last(call.path)) \/ (i = findIndexNode[call.path] /\ i # Root)
  PROVE  i \in Inodes /\ inode[i].nlink > 0
<1>1. DiskOK /\ NodeOK(mem.root) /\ CallOK
  BY DEF FsInv, MemOK
<1>2. call \in CreateCalls \cup MkdirCalls /\ call.path \in Paths
      /\ (call.kind = "mkdir" => Len(call.path) = 1)
  BY <1>1, WhoIsAt, Kinds
<1>3. PICK p \in Paths : p = call.path
  BY <1>2
<1>4. Last(p) \in Names
  BY PathParts
<1>5. AllLive(S) /\ S \subseteq NamedEntries /\ \A e \in S : inode[e.ino].nlink > 0
  BY DEF Steady, AllLive, Rest
<1>6. ASSUME NEW m \in Names, i = EntryNode(Root, m) PROVE i \in Inodes /\ inode[i].nlink > 0
  BY <1>5, <1>6, NamedInRoot
<1>7. i = EntryNode(DirOf(p), Last(p)) \/ \E m \in Names : i = EntryNode(Root, m)
  BY <1>1, <1>3, FindEnds
<1>8. CASE Len(p) = 1
  BY <1>1, <1>4, <1>6, <1>7, <1>8, DirOfType
<1>9. CASE Len(p) # 1
  <2>1. call.kind # "mkdir" /\ Untouched
    BY <1>2, <1>3, <1>9 DEF Steady
  <2>2. Consistent /\ mem.root = inode[Root]
    BY <2>1 DEF Untouched, Again
  <2>3. i = EntryNode(DirOf(p), Last(p)) => i \in Inodes /\ inode[i].nlink > 0
    BY <1>1, <1>3, <2>2, FoundLives
  <2> QED
    BY <1>6, <1>7, <2>3
<1> QED
  BY <1>8, <1>9

LEMMA CreatNewInOrder ==
  ASSUME FsInv, FsInv', InOrder, CreatNew
  PROVE  InOrder'
<1> DEFINE mode == IF call.kind = "mkdir" THEN "dir" ELSE "file"
           j == EntryNode(DirOf(call.path), Last(call.path))
<1>1. PICK i, node :
        /\ i = allocateIndexNode
        /\ node = IF BrokenLink(call.path) THEN [inode[j] EXCEPT !.mode = mode, !.nlink = 1] ELSE New(mode)
  OBVIOUS
<1>2. /\ pc = "creat" /\ pending = <<>> /\ IsDir(DirOf(call.path)) /\ UNCHANGED disk /\ call' = call
      /\ i = NoInode => pending' = <<>> /\ pc' = "exit"
      /\ i # NoInode => /\ pending' = <<WriteInode(i, node)>> /\ pc' = "insert"
                        /\ mem' = [mem EXCEPT !.ino = i, !.file = node, !.inoHint = (i + 1) % NumInodes]
  BY <1>1 DEF CreatNew, Ready, Exit
<1>3. DiskOK /\ CallOK /\ mem \in Mems /\ NodeOK(mem.root) /\ Writes(pending')
  BY DEF FsInv, MemOK
<1>4. call \in CreateCalls \cup MkdirCalls /\ call.path \in Paths /\ call.kind \in {"create", "mkdir"}
  BY <1>2, <1>3, WhoIsAt, Kinds
<1>5. CASE i = NoInode
  <2>1. ~ Working'
    BY <1>2, <1>5 DEF Working
  <2> QED
    BY <1>2, <1>5, <2>1, AtRestInOrder
<1>6. CASE i # NoInode
  <2>1. i \in Inodes \ {Root} /\ inode[i].nlink = 0
    BY <1>1, <1>3, <1>6, AllocateIndexNodeType DEF Mems
  <2>2. PICK S, bm : Steady(S, bm)
    BY <1>2, AtReady DEF Working
  <2>3. MoreToCome /\ Among(pending) = {}
    BY <1>2, NothingPending DEF MoreToCome, Opening
  <2>4. \A k \in Inodes \ {Root} : inode[k].nlink > 0 => Apart(bm, inode[k])
    BY <2>2, <2>3 DEF Steady, OthersApart
  <2>5. node.nlink = 1 /\ node.mode = mode /\ Apart(bm, node)
    <3>1. CASE BrokenLink(call.path)
      <4>1. PICK k : k = j
        OBVIOUS
      <4>2. k \in Inodes /\ inode[k].mode = "link"
        BY <1>2, <1>3, <1>4, <3>1, <4>1, BrokenIsLink
      <4>3. inode[k].nlink > 0
        BY <1>2, <2>2, <4>1, <4>2, NoInodeOut, AtCreat
      <4>4. k # Root /\ inode[k] \in IndexNodes
        BY <1>3, <4>2 DEF DiskOK, NodeAt
      <4>5. Apart(bm, inode[k])
        BY <2>4, <4>2, <4>3, <4>4
      <4>6. node = [inode[k] EXCEPT !.mode = mode, !.nlink = 1]
        BY <1>1, <3>1, <4>1
      <4> HIDE DEF mode, j
      <4>7. node.nlink = 1 /\ node.mode = mode /\ node.addr = inode[k].addr
        BY <4>4, <4>6 DEF IndexNodes
      <4> QED
        BY <4>5, <4>7 DEF Apart, Addrs
    <3>2. CASE ~ BrokenLink(call.path)
      <4>1. node = New(mode)
        BY <1>1, <3>2
      <4> HIDE DEF mode
      <4>2. node.nlink = 1 /\ node.mode = mode /\ Addrs(node) = {}
        BY <4>1 DEF New, Addrs, NoAddresses
      <4> QED
        BY <4>2 DEF Apart, Clear
    <3> QED
      BY <3>1, <3>2
  <2>6. node.mode = "dir" => call.kind = "mkdir"
    BY <2>5
  <2> HIDE DEF mode, j
  <2>7. pending' = <<WriteInode(i, node)>> /\ pc' = "insert"
    BY <1>2, <1>6
  <2>8. mem'.root = mem.root /\ mem'.ino = i /\ mem'.file = node
    BY <1>2, <1>3, <1>6 DEF Mems
  <2>9. Among(pending') = {WriteInode(i, node)}
    BY <2>7 DEF Among
  <2>10. (\A w \in Among(pending') : w.to = "inode" /\ w.at = i /\ w.node = node)
         /\ \E w \in Among(pending') : w.to = "inode" /\ w.at = i
    BY <2>9 DEF WriteInode
  <2>11. \A e \in S : e.ino # i
    BY <1>2, <2>1, <2>2 DEF Steady, AllLive
  <2>12. Framed(S, bm)' /\ \A A : Clear(A) => Clear(A)'
    <3>1. ~ InRoot'
      BY <2>7 DEF InRoot
    <3>2. \A k \in Inodes \ {Root, i} : inode[k].nlink > 0 => Addrs(inode[k]) \subseteq bm
      BY <2>4 DEF Apart
    <3>3. Rest(S, block) /\ CopiesOK(S, block, bm) /\ bm \subseteq bitmap /\ OthersApart(bm)
          /\ \A c \in Copies : Addrs(c) \subseteq bm
      BY <2>2 DEF Steady, CopiesOK
    <3> QED
      BY <1>2, <1>3, <2>1, <2>3, <2>5, <2>8, <2>10, <2>11, <3>1, <3>2, <3>3, InodeStep
  <2>13. AllLive(S)'
    BY <1>2, <2>2, <2>5, <2>7, <2>10 DEF Steady, AllLive, disk
  <2>14. FileApart(bm)'
    <3>1. Clear(Addrs(node))' /\ Addrs(node) \subseteq bm
      BY <2>5, <2>12 DEF Apart
    <3> QED
      BY <2>8, <3>1 DEF FileApart, Clear, Addrs
  <2>15. FileKept(S)'
    BY <1>2, <2>5, <2>6, <2>7, <2>8, <2>10, <2>11 DEF FileKept
  <2>16. DirKept(S)' /\ Untouched'
    BY <2>7 DEF DirKept, Untouched
  <2> QED
    BY <2>12, <2>13, <2>14, <2>15, <2>16, FramedInOrder DEF Framed, InOrder, Work
<1> QED
  BY <1>5, <1>6

\* The marks of the blocks of index node i are taken away.
LEMMA FreedAddresses ==
  ASSUME NEW node, NodeOK(node), node.mode # "dir", NEW bm, bm \subseteq Blocks, NEW w, Freeing(node, w)
  PROVE  w.to = "bitmap" /\ w.at \notin bm \ Addrs(node)
<1>1. node.size \in Nat /\ node.size <= MaxDirectBlocks /\ BlocksOf(node) = node.size
      /\ DOMAIN NoAddresses = 0 .. MaxDirectBlocks - 1 /\ MaxDirectBlocks \in Nat /\ NoBlock \notin Blocks
  BY NodeParts, Sizes, NoInodeOut DEF BlocksOf, NoAddresses
<1>2. PICK k \in 1 .. BlocksOf(node) : w.at = node.addr[k - 1]
  BY DEF Freeing
<1>3. k - 1 \in DOMAIN NoAddresses
  BY <1>1, <1>2
<1>4. w.at = NoBlock \/ w.at \in Addrs(node)
  BY <1>2, <1>3 DEF Addrs
<1> QED
  BY <1>1, <1>4 DEF Freeing

LEMMA ClearedAddresses ==
  ASSUME NEW node \in IndexNodes, NEW n
  PROVE  Addrs(ClearedTo(node, n)) \subseteq Addrs(node)
BY DEF ClearedTo, Addrs, IndexNodes, NoAddresses

\* Until then no program has freed a block of another index node.
LEMMA LiveApart ==
  ASSUME FsInv, pending = <<>>, NEW S, NEW bm, Steady(S, bm), MoreToCome,
         NEW i \in Inodes \ {Root}, inode[i].nlink > 0
  PROVE  Apart(bm, inode[i]) /\ \A c \in Copies : Addrs(c) \subseteq bm \ Addrs(inode[i])
<1>1. Among(pending) = {}
  BY NothingPending
<1>2. Apart(bm, inode[i])
  BY <1>1 DEF Steady, OthersApart
<1>3. ASSUME NEW c \in Copies PROVE Addrs(c) \subseteq bm \ Addrs(inode[i])
  BY <1>2 DEF Steady, CopiesOK, Apart, Clear
<1> QED
  BY <1>2, <1>3

\* The file that creat truncates, and what it writes as its index node.
Truncated(i) == [ClearedTo(inode[i], BlocksOf(inode[i])) EXCEPT !.size = 0]

LEMMA TruncatedFile ==
  ASSUME FsInv, InOrder, CreatTruncates, NEW i, i = findIndexNode[call.path],
         NEW node, node = Truncated(i)
  PROVE  /\ i \in Inodes \ {Root} /\ inode[i].mode # "dir" /\ inode[i].nlink > 0
         /\ NodeOK(inode[i]) /\ inode[i] \in IndexNodes
         /\ node.mode = inode[i].mode /\ node.nlink = inode[i].nlink /\ Addrs(node) \subseteq Addrs(inode[i])
         /\ call.kind \in {"create", "mkdir"}
         /\ (call.kind = "mkdir" /\ call.more = <<>>) \/ (Consistent /\ Addrs(node) = {})
<1>1. PICK c : c = ClearedTo(inode[i], BlocksOf(inode[i]))
  OBVIOUS
<1>2. pc = "creat" /\ pending = <<>> /\ IsDir(DirOf(call.path)) /\ i # NoInode /\ ~ IsDir(i)
  BY DEF CreatTruncates, Ready
<1>3. DiskOK /\ CallOK /\ mem \in Mems /\ NodeOK(mem.root) /\ (call.kind \notin {"none", "fsck"} => RootOK)
  BY DEF FsInv, MemOK
<1>4. call \in CreateCalls \cup MkdirCalls /\ call.path \in Paths /\ call.kind \in {"create", "mkdir"}
  BY <1>2, <1>3, WhoIsAt, Kinds
<1>5. i \in Inodes /\ i # Root /\ inode[i].mode # "dir"
  BY <1>2, <1>3, <1>4, FindTypes DEF IsDir, CopyOf, RootOK
<1>6. PICK S, bm : Steady(S, bm)
  BY <1>2, AtReady DEF Working
<1>7. inode[i].nlink > 0
  BY <1>2, <1>5, <1>6, AtCreat
<1>8. NodeOK(inode[i]) /\ inode[i] \in IndexNodes
  BY <1>3, <1>5 DEF DiskOK, NodeAt
<1>9. /\ node.mode = inode[i].mode /\ node.nlink = inode[i].nlink /\ Addrs(node) = Addrs(c)
      /\ Addrs(node) \subseteq Addrs(inode[i])
  <2>1. c \in IndexNodes /\ c.mode = inode[i].mode /\ c.nlink = inode[i].nlink /\ Addrs(c) \subseteq Addrs(inode[i])
    BY <1>1, <1>8, ClearedType, ClearedAddresses
  <2>2. node.mode = c.mode /\ node.nlink = c.nlink /\ node.addr = c.addr
    BY <1>1, <2>1 DEF IndexNodes, Truncated
  <2> QED
    BY <2>1, <2>2 DEF Addrs
<1>10. CASE ~ (call.kind = "mkdir" /\ call.more = <<>>)
  <2>1. Consistent
    BY <1>2, <1>6, <1>10 DEF Steady, Untouched, Again
  <2>2. i \in Live
    BY <1>5, <1>7 DEF Live
  <2>3. \A k \in DOMAIN NoAddresses : inode[i].addr[k] # NoBlock <=> k < BlocksOf(inode[i])
    BY <2>1, <2>2 DEF Consistent, Sound
  <2>4. DOMAIN NoAddresses = DOMAIN inode[i].addr
    BY <1>8 DEF IndexNodes, NoAddresses
  <2>5. c.addr = [k \in DOMAIN inode[i].addr |-> IF k < BlocksOf(inode[i]) THEN NoBlock ELSE inode[i].addr[k]]
    BY <1>1, <1>8 DEF ClearedTo, IndexNodes
  <2>6. Addrs(c) = {}
    BY <2>3, <2>4, <2>5 DEF Addrs
  <2> QED
    BY <1>4, <1>5, <1>7, <1>8, <1>9, <2>1, <2>6
<1>11. CASE call.kind = "mkdir" /\ call.more = <<>>
  BY <1>4, <1>5, <1>7, <1>8, <1>9, <1>11
<1> QED
  BY <1>10, <1>11

LEMMA CreatTruncatesInOrder ==
  ASSUME FsInv, FsInv', InOrder, CreatTruncates
  PROVE  InOrder'
<1>1. PICK i, node : i = findIndexNode[call.path] /\ node = Truncated(i)
  OBVIOUS
<1>2. PICK v, P : v = WriteInode(i, node) /\ P = FreeBlocks(inode[i]) \o <<v>>
  OBVIOUS
<1>3. /\ pc = "creat" /\ pending = <<>> /\ UNCHANGED disk /\ call' = call /\ pending' = P
      /\ mem' = [mem EXCEPT !.ino = i, !.file = node, !.done = 0]
      /\ pc' = IF call.kind = "mkdir" THEN "dot" ELSE "write"
  BY <1>1, <1>2 DEF CreatTruncates, Ready, Truncated
<1>4. DiskOK /\ mem \in Mems /\ NodeOK(mem.root) /\ Writes(pending') /\ bitmap \subseteq Blocks /\ inode' = inode
  BY <1>3 DEF FsInv, MemOK, DiskOK, disk
<1>5. call.kind \in {"create", "mkdir"}
  BY <1>1, TruncatedFile
<1>6. i \in Inodes /\ i # Root /\ inode[i].mode # "dir"
  BY <1>1, TruncatedFile
<1>7. PICK S, bm : Steady(S, bm)
  BY <1>3, AtReady DEF Working
<1>8. MoreToCome /\ Among(pending) = {} /\ bm \subseteq bitmap
  BY <1>3, <1>7, NothingPending DEF MoreToCome, Opening, Steady
<1>9. inode[i].nlink > 0
  BY <1>1, TruncatedFile
<1>10. Apart(bm, inode[i]) /\ \A d \in Copies : Addrs(d) \subseteq bm \ Addrs(inode[i])
  BY <1>3, <1>6, <1>7, <1>8, <1>9, LiveApart
<1>11. NodeOK(inode[i]) /\ inode[i] \in IndexNodes
  BY <1>1, TruncatedFile
<1>12. node.mode = inode[i].mode /\ node.nlink = inode[i].nlink /\ Addrs(node) \subseteq Addrs(inode[i])
  BY <1>1, TruncatedFile
<1>13. mem'.root = mem.root /\ mem'.ino = i /\ mem'.file = node
  BY <1>3, <1>4 DEF Mems
<1>14. PICK bm1 : bm1 = bm \ Addrs(inode[i])
  OBVIOUS
<1>15. v \in Among(pending') /\ v.to = "inode" /\ v.at = i /\ v.node = node
       /\ \A w \in Among(pending') : w = v \/ (w.to = "bitmap" /\ w.at \notin bm1)
  <2>1. v \in Among(P) /\ \A w \in Among(P) : w = v \/ Freeing(inode[i], w)
    BY <1>2, <1>11, FreedWrites
  <2>2. \A w : Freeing(inode[i], w) => w.to = "bitmap" /\ w.at \notin bm1
    BY <1>4, <1>6, <1>8, <1>11, <1>14, FreedAddresses
  <2> QED
    BY <1>2, <1>3, <2>1, <2>2 DEF WriteInode
<1>16. ASSUME MoreToCome'
       PROVE  /\ Addrs(node) = {}
              /\ \A j \in Inodes \ {Root, i} : inode[j].nlink > 0 => Addrs(inode[j]) \subseteq bm1
  <2>1. call.kind = "mkdir" /\ call.more # <<>>
    BY <1>3, <1>5, <1>16 DEF MoreToCome, Opening
  <2>2. Consistent /\ Addrs(node) = {}
    BY <1>1, <2>1, TruncatedFile
  <2>3. i \in Live /\ \A j \in Inodes : inode[j].nlink > 0 => j \in Live
    BY <1>6, <1>9 DEF Live
  <2>4. \A j \in Live : Addrs(inode[j]) = AddressesOf(j)
    BY DEF Addrs, AddressesOf
  <2>5. ASSUME NEW j \in Inodes \ {Root, i}, inode[j].nlink > 0 PROVE Addrs(inode[j]) \subseteq bm1
    <3>1. Addrs(inode[j]) \subseteq bm
      BY <1>7, <1>8, <2>5 DEF Steady, OthersApart, Apart
    <3>2. Addrs(inode[j]) \cap Addrs(inode[i]) = {}
      BY <2>2, <2>3, <2>4, <2>5 DEF Consistent, Sound
    <3> QED
      BY <1>14, <3>1, <3>2
  <2> QED
    BY <2>2, <2>5
<1>17. Framed(S, bm1)' /\ \A A : Clear(A) => Clear(A)'
  <2>1. ~ InRoot' /\ bm1 \subseteq bm /\ \A d \in Copies : Addrs(d) \subseteq bm1
    BY <1>3, <1>10, <1>14 DEF InRoot
  <2>2. Rest(S, block) /\ CopiesOK(S, block, bm) /\ bm \subseteq bitmap /\ OthersApart(bm)
    BY <1>7 DEF Steady
  <2>3. Addrs(node) = {} => Apart(bm1, node)
    BY DEF Apart, Clear
  <2>4. i \in Inodes \ {Root} /\ node.mode = inode[i].mode
    BY <1>6, <1>12
  <2>5. \A w \in Among(pending') : \/ w.to = "bitmap" /\ w.at \notin bm1
                                   \/ w.to = "inode" /\ w.at = i /\ w.node = node
    BY <1>15
  <2>6. \E w \in Among(pending') : w.to = "inode" /\ w.at = i
    BY <1>15
  <2>7. MoreToCome' => /\ MoreToCome /\ Apart(bm1, node)
                       /\ \A j \in Inodes \ {Root, i} : inode[j].nlink > 0 => Addrs(inode[j]) \subseteq bm1
    BY <1>8, <1>16, <2>3
  <2> QED
    BY <1>3, <1>4, <1>13, <2>1, <2>2, <2>4, <2>5, <2>6, <2>7, InodeStep
<1>18. AllLive(S)'
  BY <1>3, <1>4, <1>7, <1>9, <1>12, <1>15 DEF Steady, AllLive
<1>19. FileApart(bm1)'
  <2>1. Clear(Addrs(node))
    BY <1>10, <1>12 DEF Apart, Clear
  <2>2. Clear(Addrs(node))'
    BY <1>17, <2>1
  <2>3. pc' \notin {"insert", "place"}
    BY <1>3
  <2> QED
    BY <1>13, <1>16, <2>2, <2>3 DEF FileApart, Clear, Addrs
<1>20. FileKept(S)'
  <2>1. pc' \in {"dot", "write"} /\ call'.kind = call.kind
    BY <1>3
  <2> QED
    BY <1>6, <1>9, <1>12, <1>13, <1>15, <2>1 DEF FileKept
<1>21. DirKept(S)' /\ Untouched'
  BY <1>3 DEF DirKept, Untouched
<1> QED
  BY <1>17, <1>18, <1>19, <1>20, <1>21, FramedInOrder DEF Framed, InOrder, Work

-----------------------------------------------------------------------------
(***************************************************************************)
(* rm: the link is taken.                                                  *)
(***************************************************************************)
TakenAway(i, node, bm, s) ==
  /\ node.mode = inode[i].mode
  /\ \A w \in Among(s) : \/ w.to = "bitmap" /\ w.at \notin bm
                         \/ w.to = "inode" /\ w.at = i /\ w.node = node
  /\ \E w \in Among(s) : w.to = "inode" /\ w.at = i
  /\ \A c \in Copies : Addrs(c) \subseteq bm

LEMMA LinkTaken ==
  ASSUME FsInv, pending = <<>>, NEW S, NEW bm, Steady(S, bm), MoreToCome,
         NEW i \in Inodes \ {Root}, inode[i].nlink > 0, inode[i].mode # "dir",
         NEW s, s = IF inode[i].nlink <= 1 THEN freeIndexNode(i)
                    ELSE <<WriteInode(i, [inode[i] EXCEPT !.nlink = @ - 1])>>
  PROVE  \E node, bm1 : bm1 \subseteq bm /\ TakenAway(i, node, bm1, s)
<1>1. NodeOK(inode[i]) /\ inode[i] \in IndexNodes /\ bm \subseteq Blocks
  BY DEF FsInv, DiskOK, NodeAt, Steady
<1>2. CASE inode[i].nlink <= 1
  <2>1. PICK c : c = ClearedTo(inode[i], BlocksOf(inode[i]))
    OBVIOUS
  <2>2. c \in IndexNodes /\ c.mode = inode[i].mode
    BY <1>1, <2>1, ClearedType
  <2>3. PICK node : node = [c EXCEPT !.nlink = 0, !.size = 0]
    OBVIOUS
  <2>4. node.mode = inode[i].mode
    BY <2>2, <2>3 DEF IndexNodes
  <2>5. PICK v, bm1 : v = WriteInode(i, node) /\ bm1 = bm \ Addrs(inode[i])
    OBVIOUS
  <2>6. s = FreeBlocks(inode[i]) \o <<v>>
    BY <1>2, <2>1, <2>3, <2>5 DEF freeIndexNode
  <2>7. v \in Among(s) /\ \A w \in Among(s) : w = v \/ Freeing(inode[i], w)
    BY <1>1, <2>6, FreedWrites
  <2>8. \A w : Freeing(inode[i], w) => w.to = "bitmap" /\ w.at \notin bm1
    BY <1>1, <2>5, FreedAddresses
  <2>9. \A c1 \in Copies : Addrs(c1) \subseteq bm1
    BY <2>5, LiveApart
  <2>10. v.to = "inode" /\ v.at = i /\ v.node = node
    BY <2>5 DEF WriteInode
  <2>11. TakenAway(i, node, bm1, s)
    BY <2>4, <2>7, <2>8, <2>9, <2>10 DEF TakenAway
  <2> QED
    BY <2>5, <2>11
<1>3. CASE ~ (inode[i].nlink <= 1)
  <2>1. PICK node : node = [inode[i] EXCEPT !.nlink = @ - 1]
    OBVIOUS
  <2>2. node.mode = inode[i].mode
    BY <1>1, <2>1 DEF IndexNodes
  <2>3. Among(s) = {WriteInode(i, node)}
    BY <1>3, <2>1 DEF Among
  <2>4. \A c \in Copies : Addrs(c) \subseteq bm
    BY DEF Steady, CopiesOK
  <2>5. \A w \in Among(s) : w.to = "inode" /\ w.at = i /\ w.node = node
    BY <2>3 DEF WriteInode
  <2>6. WriteInode(i, node) \in Among(s)
    BY <2>3
  <2>7. TakenAway(i, node, bm, s)
    BY <2>2, <2>4, <2>5, <2>6 DEF TakenAway
  <2> QED
    BY <2>7
<1> QED
  BY <1>2, <1>3

\* What rm finds: the directory and the index node that the name in it refers to.
LEMMA UnlinkFinds ==
  ASSUME FsInv, InOrder, Unlink,
         NEW d, NEW n, NEW i, d = DirOf(call.path), n = Last(call.path), i = EntryNode(d, n)
  PROVE  /\ Consistent /\ mem.root = inode[Root]
         /\ d \in Inodes /\ CopyOf(d) = inode[d] /\ d \in Directories
         /\ inode[d].nlink > 0 /\ inode[d].mode = "dir" /\ NodeOK(inode[d])
         /\ n \in Names /\ \E k \in 0 .. inode[d].size - 1 :
                              k = Min(Positions(CopyOf(d), n)) /\ EntryAt(inode[d], k).name = n
         /\ i \in Inodes \ {Root} /\ inode[i].nlink > 0 /\ inode[i].mode # "dir" /\ i # d
<1>1. /\ pc = "unlink" /\ pending = <<>> /\ IsDir(d) /\ Positions(CopyOf(d), n) # {} /\ ~ IsDir(i)
  BY DEF Unlink, Removable, UnlinkAt, Ready
<1>2. DiskOK /\ CallOK /\ mem \in Mems /\ NodeOK(mem.root) /\ (call.kind \notin {"none", "fsck"} => RootOK)
  BY DEF FsInv, MemOK
<1>3. call.kind = "unlink" /\ call.path \in Paths /\ n \in Names
  BY <1>1, <1>2, WhoIsAt, Kinds, PathParts
<1>4. PICK p \in Paths : p = call.path
  BY <1>3
<1>5. PICK S, bm : Steady(S, bm)
  BY <1>1, AtReady DEF Working
<1>6. Consistent /\ mem.root = inode[Root]
  BY <1>1, <1>5 DEF Steady, Untouched, Again
<1>7. d \in Inodes /\ CopyOf(d) = inode[d] /\ d \in Directories /\ inode[d].nlink > 0 /\ inode[d].mode = "dir"
      /\ NodeOK(inode[d])
  BY <1>1, <1>2, <1>4, <1>6, DirOfType, SubdirIsDirectory DEF IsDir, DiskOK, NodeAt
<1>8. PICK at : at = Min(Positions(CopyOf(d), n))
  OBVIOUS
<1>9. at \in 0 .. inode[d].size - 1 /\ EntryAt(inode[d], at).name = n /\ i \in Inodes /\ i # NoInode
  BY <1>1, <1>2, <1>7, <1>8, NodeInFound, NoInodeOut DEF EntryNode
<1>10. inode[i].nlink > 0
  BY <1>1, <1>2, <1>4, <1>6, <1>9, FoundLives
<1>11. i # Root /\ inode[i].mode # "dir" /\ i # d
  BY <1>1, <1>2, <1>3, <1>7, <1>9 DEF IsDir, CopyOf, RootOK
<1> QED
  BY <1>3, <1>6, <1>7, <1>8, <1>9, <1>10, <1>11

LEMMA UnlinkInOrder ==
  ASSUME FsInv, FsInv', InOrder, Unlink
  PROVE  InOrder'
<1>1. PICK d, n, i : d = DirOf(call.path) /\ n = Last(call.path) /\ i = EntryNode(d, n)
  OBVIOUS
<1>2. /\ pc = "unlink" /\ pc' = "pull" /\ pending = <<>> /\ UNCHANGED disk /\ call' = call /\ inode' = inode
      /\ pending' = IF inode[i].nlink <= 1 THEN freeIndexNode(i)
                    ELSE <<WriteInode(i, [inode[i] EXCEPT !.nlink = @ - 1])>>
      /\ mem' = [mem EXCEPT !.dirNo = d, !.dir = CopyOf(d), !.pos = Min(Positions(CopyOf(d), n))]
  BY <1>1 DEF Unlink, UnlinkAt, Opened, Ready, disk
<1>3. DiskOK /\ CallOK /\ mem \in Mems /\ NodeOK(mem.root) /\ Writes(pending')
      /\ (call.kind \notin {"none", "fsck"} => RootOK)
  BY DEF FsInv, MemOK
<1>4. call.kind = "unlink" /\ n \in Names
  BY <1>1, <1>2, <1>3, WhoIsAt, Kinds, UnlinkFinds
<1>5. PICK S, bm : Steady(S, bm)
  BY <1>2, AtReady DEF Working
<1>6. Consistent /\ mem.root = inode[Root]
  BY <1>1, UnlinkFinds
<1>7. d \in Inodes /\ CopyOf(d) = inode[d] /\ d \in Directories /\ inode[d].nlink > 0 /\ inode[d].mode = "dir"
      /\ NodeOK(inode[d])
  BY <1>1, UnlinkFinds
<1>8. PICK at : at = Min(Positions(CopyOf(d), n))
  OBVIOUS
<1>9. at \in 0 .. inode[d].size - 1 /\ EntryAt(inode[d], at).name = n
  BY <1>1, <1>8, UnlinkFinds
<1>10. inode[i].nlink > 0
  BY <1>1, UnlinkFinds
<1>11. i \in Inodes /\ i # Root /\ inode[i].mode # "dir" /\ i # d
  BY <1>1, UnlinkFinds
<1>12. MoreToCome
  BY <1>2 DEF MoreToCome, Opening
<1>13. PICK node, bm1 : bm1 \subseteq bm /\ TakenAway(i, node, bm1, pending')
  <2>1. PICK s : s = pending'
    OBVIOUS
  <2> QED
    BY <1>2, <1>5, <1>9, <1>10, <1>11, <1>12, <2>1, LinkTaken
<1>14. mem'.root = mem.root /\ mem'.dirNo = d /\ mem'.dir = inode[d] /\ mem'.pos = at
  <2>1. PICK c : c = CopyOf(d)
    OBVIOUS
  <2>2. mem' = [mem EXCEPT !.dirNo = d, !.dir = c, !.pos = at]
    BY <1>2, <1>8, <2>1
  <2>3. c = inode[d]
    BY <1>7, <2>1
  <2> QED
    BY <1>3, <2>2, <2>3 DEF Mems
<1>15. Framed(S, bm1)' /\ \A A : Clear(A) => Clear(A)'
  <2>1. InRoot' => mem'.dir \in Copies /\ Full(mem'.dir)
    BY <1>5, <1>6, <1>14 DEF InRoot, Copies, Steady, CopiesOK
  <2>2. ~ MoreToCome'
    BY <1>2, <1>4 DEF MoreToCome, Opening
  <2>3. Rest(S, block) /\ CopiesOK(S, block, bm) /\ bm \subseteq bitmap /\ OthersApart(bm)
    BY <1>5 DEF Steady
  <2>4. i \in Inodes \ {Root} /\ bm1 \in SUBSET bm
    BY <1>9, <1>11, <1>13
  <2>5. /\ node.mode = inode[i].mode
        /\ \A w \in Among(pending') : \/ w.to = "bitmap" /\ w.at \notin bm1
                                      \/ w.to = "inode" /\ w.at = i /\ w.node = node
        /\ \E w \in Among(pending') : w.to = "inode" /\ w.at = i
        /\ \A c \in Copies : Addrs(c) \subseteq bm1
    BY <1>13 DEF TakenAway
  <2> QED
    BY <1>2, <1>3, <1>14, <2>1, <2>2, <2>3, <2>4, <2>5, InodeStep
<1>16. DirKept(S)'
  <2>1. \A w \in Among(pending') : w.to = "inode" => w.at # d
    BY <1>11, <1>13 DEF TakenAway
  <2>2. d = Root => at >= 2
    <3>1. S \in SUBSET NamedEntries /\ Shows(S, block, inode[Root])
      BY <1>5 DEF Steady, Rest
    <3> QED
      BY <1>4, <1>7, <1>9, <3>1, NamedEntry
  <2>3. d # Root => Clear(Addrs(inode[d]))
    BY <1>2, <1>5, <1>7, <1>12, LiveApart DEF Apart
  <2>4. d # Root => Clear(Addrs(mem.dir))'
    <3>1. PICK A : A = Addrs(inode[d])
      OBVIOUS
    <3>2. d # Root => Clear(A)'
      BY <1>15, <2>3, <3>1
    <3>3. A = Addrs(mem'.dir)
      BY <1>14, <3>1
    <3> QED
      BY <3>2, <3>3 DEF Clear, Addrs
  <2> QED
    BY <1>2, <1>4, <1>7, <1>14, <2>1, <2>2, <2>4 DEF DirKept
<1>17. AllLive(S)' /\ FileApart(bm1)' /\ FileKept(S)' /\ Untouched'
  BY <1>2, <1>4 DEF AllLive, FileApart, FileKept, Untouched, FilePcs
<1> QED
  BY <1>15, <1>16, <1>17, FramedInOrder DEF Framed, InOrder, Work

-----------------------------------------------------------------------------
(***************************************************************************)
(* The directory is opened: in the root, S has the new entry from now on.  *)
(***************************************************************************)
LEMMA PlaceBehind ==
  ASSUME FsInv, NEW S, NEW c, NodeOK(c), Full(c), Shows(S, block, c), Last(call.path) \in Names
  PROVE  PlaceIn(c) >= 2
<1> DEFINE K == {k \in 0 .. c.size - 1 : EntryAt(c, k).name > NewEntry.name} \cup {c.size}
<1>1. c.size \in Nat /\ c.size >= 2
  BY NodeParts DEF Full
<1>2. NewEntry.name \in Nat \ {0}
  BY Sizes DEF NewEntry, Entry
<1>3. ASSUME NEW k \in {0, 1} PROVE ~ (EntryAt(c, k).name > NewEntry.name)
  <2>1. Fits(S, EntryAt(c, k), k)
    BY <1>1, EntryNow DEF Shows
  <2>2. /\ Entry(Root, Dot).name = Dot /\ Entry(Root, DotDot).name = DotDot
        /\ Blank.name = -2 /\ Dot = -1 /\ DotDot = 0
    BY DEF Entry, Blank, Dot, DotDot
  <2>3. EntryAt(c, k).name \in {-2, -1, 0}
    BY <2>1, <2>2 DEF Fits
  <2> QED
    BY <1>2, <2>3
<1>4. \A k \in K : k \in Nat /\ k >= 2
  BY <1>1, <1>3
<1>5. K # {} /\ K \subseteq Nat /\ PlaceIn(c) = Min(K)
  BY <1>1, <1>4 DEF PlaceIn
<1> HIDE DEF K
<1>6. Min(K) \in K
  BY <1>5, MinExists
<1> QED
  BY <1>4, <1>5, <1>6

LEMMA MoreShown ==
  ASSUME FsInv, pending = <<>>, NEW S, NEW bm, Rest(S, block), CopiesOK(S, block, bm),
         NEW S1, S \subseteq S1, S1 \subseteq NamedEntries, Once(S1)
  PROVE  Rest(S1, block) /\ CopiesOK(S1, block, bm)
<1>1. \A e, k : Fits(S, e, k) => Fits(S1, e, k)
  BY DEF Fits
<1>2. \A c : Shows(S, block, c) => Shows(S1, block, c)
  BY <1>1 DEF Shows
<1>3. DOMAIN pending = {} /\ Among(pending) = {}
  BY NothingPending
<1>4. RootWrites(S1, block)
  BY <1>3 DEF RootWrites
<1>5. Rest(S1, block)
  BY <1>2, <1>3, <1>4 DEF Rest
<1>6. CopiesOK(S1, block, bm)
  BY <1>2 DEF CopiesOK
<1> QED
  BY <1>5, <1>6

\* The directory that is opened is one, and in use.
LEMMA OpenedLives ==
  ASSUME FsInv, OpenDir, NEW d, d = DirOf(call.path)
  PROVE  /\ IsDir(d) /\ d \in Inodes /\ (call.kind = "mkdir" => d = Root)
         /\ CopyOf(d).nlink > 0 /\ CopyOf(d) = (IF d = Root THEN mem.root ELSE inode[d])
<1>1. pc = "insert" /\ pending = <<>> /\ ~ NoPlace
  BY DEF OpenDir, Ready
<1>2. DiskOK /\ CallOK /\ PathOK /\ DirExists /\ mem \in Mems /\ NodeOK(mem.root)
      /\ (call.kind \notin {"none", "fsck"} => RootOK)
  BY DEF FsInv, MemOK
<1>3. /\ call.path \in Paths /\ call.kind \in {"create", "mkdir", "link", "symlink"}
      /\ call.kind = "mkdir" => Len(call.path) = 1
  BY <1>1, <1>2, WhoIsAt, Kinds
<1>4. IsDir(d) /\ d \in Inodes /\ (call.kind = "mkdir" => d = Root)
  <2>1. CASE call.kind = "create"
    BY <1>1, <1>2, <1>3, <2>1, DirOfType DEF DirExists
  <2>2. CASE call.kind = "mkdir"
    BY <1>2, <1>3, <2>2, DirOfType, NoInodeOut DEF RootOK, IsDir, CopyOf
  <2>3. CASE call.kind \in {"link", "symlink"}
    <3>1. IsDir(d)
      BY <1>1, <2>3 DEF NoPlace
    <3> QED
      BY <1>2, <1>3, <2>3, <3>1, DirOfType
  <2> QED
    BY <1>3, <2>1, <2>2, <2>3
<1>5. ASSUME d # Root PROVE inode[d].nlink > 0
  <2>1. WayOK
    BY <1>1, <1>2, <1>3, <1>4, <1>5 DEF PathOK, Opening
  <2>2. d \in RootEntries /\ d # NoInode
    BY <1>2, <1>3, <1>4, DirOfType, NoInodeOut
  <2> QED
    BY <1>2, <1>5, <2>1, <2>2, RootEntryLive DEF RootEntries
<1>6. mem.root.nlink > 0
  BY <1>2, <1>3 DEF RootOK
<1> QED
  BY <1>4, <1>5, <1>6 DEF CopyOf

LEMMA OpenDirInOrder ==
  ASSUME FsInv, FsInv', InOrder, OpenDir
  PROVE  InOrder'
<1>1. PICK d, node, at, new : d = DirOf(call.path) /\ node = CopyOf(d) /\ at = PlaceIn(node) /\ new = NewEntry
  OBVIOUS
<1>2. /\ pc = "insert" /\ pc' = "place" /\ pending = <<>> /\ pending' = <<>> /\ UNCHANGED disk /\ call' = call
      /\ inode' = inode /\ ~ NoPlace
      /\ mem' = [mem EXCEPT !.dirNo = d, !.dir = node, !.pos = at, !.carry = new]
  BY <1>1 DEF OpenDir, Ready, Opened, disk
<1>3. DiskOK /\ CallOK /\ PathOK /\ DirExists /\ mem \in Mems /\ NodeOK(mem.root)
      /\ (call.kind \notin {"none", "fsck"} => RootOK)
  BY DEF FsInv, MemOK
<1>4. /\ call.path \in Paths /\ call.kind \in {"create", "mkdir", "link", "symlink"} /\ Last(call.path) \in Names
      /\ call.kind = "mkdir" => Len(call.path) = 1
  BY <1>2, <1>3, WhoIsAt, Kinds, PathParts
<1>5. IsDir(d) /\ d \in Inodes /\ (call.kind = "mkdir" => d = Root)
  BY <1>1, OpenedLives
<1>6. node.mode = "dir" /\ (d # Root => node = inode[d]) /\ (d = Root => node = mem.root)
  BY <1>1, <1>5 DEF IsDir, CopyOf
<1>7. d # Root => inode[d].nlink > 0
  BY <1>1, OpenedLives
<1>8. PICK S, bm : Steady(S, bm)
  BY <1>2, AtReady DEF Working
<1>9. /\ Rest(S, block) /\ CopiesOK(S, block, bm) /\ bm \subseteq bitmap /\ OthersApart(bm) /\ AllLive(S)
      /\ FileApart(bm) /\ FileKept(S)
      /\ Shows(S, block, mem.root) /\ Full(mem.root)
  BY <1>8 DEF Steady, CopiesOK, Copies
<1>10. /\ mem.ino \in Inodes \ {Root} /\ inode[mem.ino].mode = mem.file.mode
       /\ mem.file.mode = "dir" => call.kind = "mkdir"
       /\ call.kind = "mkdir" => mem.file.nlink > 0 /\ inode[mem.ino].nlink > 0
  BY <1>2, <1>8, FileAtHand DEF FilePcs
<1>11. new \in NamedEntries /\ new.ino = mem.ino /\ new.name \in Names
  <2>1. new.ino = mem.ino /\ new.name = Last(call.path)
    BY <1>1 DEF NewEntry, Entry
  <2>2. new \in DirEntries
    BY <1>1, <1>4, <1>10, EntryType DEF NewEntry
  <2> QED
    BY <1>4, <1>10, <2>1, <2>2 DEF NamedEntries
<1>12. PICK S1 : S1 = IF d = Root THEN S \cup {new} ELSE S
  OBVIOUS
<1>13. S \subseteq S1 /\ S1 \subseteq NamedEntries /\ Once(S1)
  <2>1. Once(S) /\ S \subseteq NamedEntries
    BY <1>9 DEF Rest
  <2>2. call.kind = "mkdir" => \A e \in S : e.ino # mem.ino
    BY <1>2, <1>9 DEF FileKept
  <2> QED
    BY <1>10, <1>11, <1>12, <2>1, <2>2 DEF Once
<1>14. Rest(S1, block) /\ CopiesOK(S1, block, bm)
  BY <1>2, <1>9, <1>13, MoreShown
<1>15. mem'.root = mem.root /\ mem'.ino = mem.ino /\ mem'.file = mem.file /\ mem'.dirNo = d /\ mem'.dir = node
       /\ mem'.pos = at /\ mem'.carry = new
  BY <1>2, <1>3 DEF Mems
<1>16. Framed(S1, bm)' /\ \A A : Clear(A) => Clear(A)'
  <2>1. InRoot' => mem'.dir \in Copies /\ Full(mem'.dir)
    BY <1>6, <1>9, <1>15 DEF InRoot, Copies
  <2>2. MoreToCome' => MoreToCome
    BY <1>2 DEF MoreToCome, Opening
  <2> QED
    BY <1>2, <1>9, <1>14, <1>15, <2>1, <2>2, SilentStep
<1>17. AllLive(S1)'
  <2>1. Among(pending') = {}
    BY <1>2, NothingPending
  <2> QED
    BY <1>2, <1>9, <1>10, <1>11, <1>12, <2>1 DEF AllLive
<1>18. FileApart(bm)'
  <2>1. call.kind \in {"create", "mkdir"} => Clear(Addrs(mem.file)) /\ Addrs(mem.file) \subseteq bm
    BY <1>2, <1>9 DEF FileApart, FilePcs
  <2>2. PICK A : A = Addrs(mem.file) /\ A = Addrs(mem'.file)
    BY <1>15
  <2>3. call.kind \in {"create", "mkdir"} => Clear(A)' /\ A \subseteq bm
    BY <1>16, <2>1, <2>2
  <2>4. Clear(A)' => Clear(Addrs(mem.file))'
    BY <2>2 DEF Clear, Addrs
  <2> QED
    BY <1>2, <2>2, <2>3, <2>4 DEF FileApart
<1>19. FileKept(S1)'
  <2>1. Among(pending') = {}
    BY <1>2, NothingPending
  <2> QED
    BY <1>2, <1>10, <1>15, <2>1 DEF FileKept
<1>20. DirKept(S1)'
  <2>1. inode[d].mode = "dir"
    BY <1>3, <1>5, <1>6, NoInodeOut DEF DiskOK, NodeAt
  <2>2. d = Root => at >= 2
    BY <1>1, <1>3, <1>4, <1>6, <1>9, PlaceBehind
  <2>3. d = Root => Fits(S1, new, 2)
    BY <1>12 DEF Fits
  <2>4. d # Root => Clear(Addrs(mem.dir))'
    <3>1. MoreToCome
      BY <1>2 DEF MoreToCome, Opening
    <3>2. PICK A : A = Addrs(inode[d]) /\ (d # Root => A = Addrs(mem'.dir))
      BY <1>6, <1>15
    <3>3. d # Root => Clear(A)'
      BY <1>2, <1>5, <1>7, <1>8, <1>16, <3>1, <3>2, LiveApart DEF Apart
    <3> QED
      BY <3>2, <3>3 DEF Clear, Addrs
  <2>5. Among(pending') = {}
    BY <1>2, NothingPending
  <2>6. (Fits(S1, mem.carry, 2))' <=> Fits(S1, new, 2)
    BY <1>15 DEF Fits
  <2> QED
    BY <1>2, <1>5, <1>15, <2>1, <2>2, <2>3, <2>4, <2>5, <2>6 DEF DirKept
<1>21. Untouched'
  BY <1>2 DEF Untouched
<1> QED
  BY <1>16, <1>17, <1>18, <1>19, <1>20, <1>21, FramedInOrder DEF Framed, InOrder, Work

-----------------------------------------------------------------------------
(***************************************************************************)
(* An entry is written into the root directory, through its copy c0.       *)
(***************************************************************************)
LEMMA FirstTwo ==
  /\ \A j \in {0, 1} : j \div PerBlock = 0 /\ j % PerBlock = j
  /\ \A k \in Nat : k \div PerBlock = 0 => k % PerBlock = k
<1>1. PerBlock \in Nat /\ PerBlock >= 2
  BY Sizes
<1>2. ASSUME NEW k \in Nat, NEW q, NEW r, q = k \div PerBlock, r = k % PerBlock
      PROVE  q \in Nat /\ r \in 0 .. PerBlock - 1 /\ k = PerBlock * q + r
  BY <1>1, <1>2
<1>3. ASSUME NEW j \in {0, 1} PROVE j \div PerBlock = 0 /\ j % PerBlock = j
  <2>1. PICK q, r : q = j \div PerBlock /\ r = j % PerBlock
    OBVIOUS
  <2>2. q \in Nat /\ r \in 0 .. PerBlock - 1 /\ j = PerBlock * q + r /\ j \in Nat
    BY <1>2, <2>1
  <2>3. q = 0
    <3>1. q >= 1 => PerBlock * q >= PerBlock
      BY <1>1, <2>2
    <3>2. PerBlock * q \in Nat
      BY <1>1, <2>2
    <3> QED
      BY <1>1, <2>2, <3>1, <3>2
  <2> QED
    BY <1>1, <2>1, <2>2, <2>3
<1>4. ASSUME NEW k \in Nat, k \div PerBlock = 0 PROVE k % PerBlock = k
  <2>1. PICK q, r : q = k \div PerBlock /\ r = k % PerBlock
    OBVIOUS
  <2>2. q = 0 /\ r \in 0 .. PerBlock - 1 /\ k = PerBlock * q + r
    BY <1>2, <1>4, <2>1
  <2> QED
    BY <1>1, <2>1, <2>2
<1> QED
  BY <1>3, <1>4

FirstApart(C) ==
  \A c, d \in C : \A k \in 1 .. MaxDirectBlocks - 1 : d.addr[k] = c.addr[0] => d.addr[k] = NoBlock

\* The block behind position k of c0 has the entry e, at its place, and b is it.
EntryPut(c0, k, e, b, blk) ==
  /\ b \in Blocks /\ blk[b].entry[k % PerBlock] = e
  /\ \A a \in Blocks \ {b} : blk[a] = block[a]
  /\ c0.addr[k \div PerBlock] # NoBlock =>
       b = c0.addr[k \div PerBlock]
         /\ \A r \in 0 .. PerBlock - 1 : r # k % PerBlock => blk[b].entry[r] = block[b].entry[r]

LEMMA EntryIsPut ==
  ASSUME DiskOK, mem.bitHint \in Blocks, NEW k \in 0 .. Space - 1, NEW e, mem.dir \in IndexNodes,
         CanPlace(mem.dir, k \div PerBlock), NEW b, b = Placed(mem.dir, k \div PerBlock).addr[k \div PerBlock],
         NEW data, data = DirBlock(mem.dir, k, e), NEW blk, blk = [block EXCEPT ![b] = data]
  PROVE  EntryPut(mem.dir, k, e, b, blk)
<1>1. k \div PerBlock \in 0 .. MaxDirectBlocks - 1 /\ k % PerBlock \in 0 .. PerBlock - 1
  BY BlockIndex
<1>2. PICK q, r : q = k \div PerBlock /\ r = k % PerBlock
  OBVIOUS
<1>3. b \in Blocks /\ (mem.dir.addr[q] # NoBlock => b = mem.dir.addr[q])
  BY <1>1, <1>2, PutAddresses
<1>4. blk[b] = data /\ \A a \in Blocks \ {b} : blk[a] = block[a]
  BY <1>3 DEF DiskOK
<1>5. data = IF mem.dir.addr[q] = NoBlock THEN [Data EXCEPT !.entry[r] = e] ELSE [block[b] EXCEPT !.entry[r] = e]
  BY <1>2, <1>3 DEF DirBlock
<1>6. Data \in DataBlocks /\ block[b] \in DataBlocks
  BY <1>3, BlankType DEF DiskOK
<1>7. ASSUME NEW old \in DataBlocks, NEW new, new = [old EXCEPT !.entry[r] = e]
      PROVE  new.entry[r] = e /\ \A s \in 0 .. PerBlock - 1 : s # r => new.entry[s] = old.entry[s]
  BY <1>1, <1>2, <1>7 DEF DataBlocks
<1>8. data.entry[r] = e
      /\ (mem.dir.addr[q] # NoBlock => \A s \in 0 .. PerBlock - 1 : s # r => data.entry[s] = block[b].entry[s])
  <2>1. PICK old \in DataBlocks : old = IF mem.dir.addr[q] = NoBlock THEN Data ELSE block[b]
    BY <1>6
  <2>2. data = [old EXCEPT !.entry[r] = e]
    BY <1>5, <2>1
  <2>3. data.entry[r] = e /\ \A s \in 0 .. PerBlock - 1 : s # r => data.entry[s] = old.entry[s]
    BY <1>7, <2>2
  <2> QED
    BY <2>1, <2>3
<1> QED
  BY <1>2, <1>3, <1>4, <1>8 DEF EntryPut

LEMMA CopyStillShows ==
  ASSUME NEW S, NEW C, NEW c \in C, NEW c0 \in C, NodeOK(c), NodeOK(c0), Shows(S, block, c), FirstApart(C),
         NEW k \in 0 .. Space - 1, k >= 2, NEW e, Fits(S, e, 2), NEW b, NEW blk,
         EntryPut(c0, k, e, b, blk), c0.addr[k \div PerBlock] = NoBlock => b \notin Addrs(c)
  PROVE  Shows(S, blk, c)
<1>1. PICK q, r : q = k \div PerBlock /\ r = k % PerBlock
  OBVIOUS
<1>2. q \in 0 .. MaxDirectBlocks - 1 /\ r \in 0 .. PerBlock - 1 /\ PerBlock \in Nat /\ PerBlock >= 2
  BY <1>1, BlockIndex, Sizes
<1>3. ASSUME NEW j \in 0 .. c.size - 1 PROVE Fits(S, EntryIn(blk, c, j), j)
  <2>1. Fits(S, EntryIn(block, c, j), j)
    BY DEF Shows
  <2>2. PICK a : a = c.addr[j \div PerBlock]
    OBVIOUS
  <2>3. j \in Nat /\ j % PerBlock \in 0 .. PerBlock - 1 /\ (a = NoBlock \/ (a \in Addrs(c) /\ a \in Blocks))
        /\ j \div PerBlock \in 0 .. MaxDirectBlocks - 1
    BY <2>2, AddressAt
  <2>4. CASE a = NoBlock \/ a # b
    <3>1. EntryIn(blk, c, j) = EntryIn(block, c, j)
      BY <2>2, <2>3, <2>4 DEF EntryIn, EntryPut
    <3> QED
      BY <2>1, <3>1
  <2>5. CASE a # NoBlock /\ a = b
    <3>1. /\ c0.addr[q] = b
          /\ \A s \in 0 .. PerBlock - 1 : s # r => blk[b].entry[s] = block[b].entry[s]
          /\ blk[b].entry[r] = e
      BY <1>1, <2>3, <2>5 DEF EntryPut
    <3>2. EntryIn(blk, c, j) = blk[b].entry[j % PerBlock] /\ EntryIn(block, c, j) = block[b].entry[j % PerBlock]
      BY <2>2, <2>5 DEF EntryIn
    <3>3. CASE j % PerBlock # r
      BY <2>1, <2>3, <3>1, <3>2, <3>3
    <3>4. CASE j % PerBlock = r
      <4>1. j >= 2
        <5> SUFFICES ASSUME j \in {0, 1} PROVE FALSE
          BY <2>3
        <5>1. j \div PerBlock = 0 /\ j % PerBlock = j
          BY FirstTwo
        <5>2. c.addr[0] = c0.addr[q] /\ c0.addr[q] # NoBlock
          BY <2>2, <2>5, <3>1, <5>1
        <5>3. q = 0
          BY <1>2, <5>2 DEF FirstApart
        <5>4. r = k
          BY <1>1, <5>3, FirstTwo
        <5> QED
          BY <3>4, <5>1, <5>4
      <4> QED
        BY <3>1, <3>2, <3>4, <4>1 DEF Fits
    <3> QED
      BY <3>3, <3>4
  <2> QED
    BY <2>4, <2>5
<1> QED
  BY <1>3 DEF Shows

LEMMA GrownShows ==
  ASSUME mem.bitHint \in Blocks, NEW S, NEW c0 \in IndexNodes, NodeOK(c0), Shows(S, block, c0), Full(c0),
         NEW k \in 0 .. Space - 1, k >= 2, k <= c0.size, NEW e, Fits(S, e, 2), NEW b, NEW blk,
         CanPlace(c0, k \div PerBlock), b = Placed(c0, k \div PerBlock).addr[k \div PerBlock],
         EntryPut(c0, k, e, b, blk), Shows(S, blk, c0),
         NEW p, p = Placed(c0, k \div PerBlock), NEW g, g = Grown(c0, k \div PerBlock, k + 1)
  PROVE  /\ Shows(S, block, p) /\ Shows(S, blk, p) /\ Shows(S, blk, g) /\ Full(g)
         /\ p.addr[0] = c0.addr[0] /\ g.addr = p.addr
<1>1. PICK q : q = k \div PerBlock
  OBVIOUS
<1>2. q \in 0 .. MaxDirectBlocks - 1 /\ c0.size \in Nat /\ k \in Nat
  BY <1>1, BlockIndex, NodeParts
<1>3. p.size = c0.size /\ g.size = Larger(c0.size, k + 1)
  BY <1>1, <1>2, PlacedType, GrownType
<1>4. /\ b \in Blocks /\ b # NoBlock /\ g.addr = p.addr /\ p.addr[q] = b
      /\ c0.addr[q] # NoBlock => p = c0
      /\ \A j \in 0 .. MaxDirectBlocks - 1 : j # q => p.addr[j] = c0.addr[j]
  BY <1>1, <1>2, PutAddresses
<1>5. ASSUME NEW j \in 0 .. c0.size - 1 PROVE p.addr[j \div PerBlock] = c0.addr[j \div PerBlock]
  <2>1. j \div PerBlock \in 0 .. MaxDirectBlocks - 1
    BY AddressAt
  <2>2. c0.addr[j \div PerBlock] # NoBlock
    BY DEF Full
  <2> QED
    BY <1>4, <2>1, <2>2
<1>6. \A any, j : j \in 0 .. c0.size - 1 =>
        EntryIn(any, p, j) = EntryIn(any, c0, j) /\ EntryIn(any, g, j) = EntryIn(any, c0, j)
  BY <1>4, <1>5 DEF EntryIn
<1>7. Shows(S, block, p) /\ Shows(S, blk, p)
  BY <1>3, <1>6 DEF Shows
<1>8. ASSUME NEW j \in 0 .. g.size - 1
      PROVE  Fits(S, EntryIn(blk, g, j), j) /\ g.addr[j \div PerBlock] # NoBlock
  <2>1. CASE j \in 0 .. c0.size - 1
    BY <1>4, <1>5, <1>6, <2>1 DEF Shows, Full
  <2>2. CASE j \notin 0 .. c0.size - 1
    <3>1. j = k
      BY <1>2, <1>3, <2>2 DEF Larger
    <3>2. EntryIn(blk, g, k) = e
      BY <1>1, <1>4 DEF EntryIn, EntryPut
    <3> QED
      BY <1>1, <1>4, <3>1, <3>2 DEF Fits
  <2> QED
    BY <2>1, <2>2
<1>9. Shows(S, blk, g) /\ Full(g)
  <2>1. g.size >= 2
    BY <1>2, <1>3 DEF Larger, Full
  <2> QED
    BY <1>8, <2>1 DEF Shows, Full
<1>10. p.addr[0] = c0.addr[0]
  <2>1. 0 \in 0 .. c0.size - 1 /\ 0 \div PerBlock = 0
    BY <1>2, FirstTwo DEF Full
  <2> QED
    BY <1>5, <2>1
<1> QED
  BY <1>4, <1>7, <1>9, <1>10

\* The copies of the root are those there were, the one with the new block and
\* the one that has grown.
LEMMA PlacedApart ==
  ASSUME NEW C, FirstApart(C), NEW c0 \in C, NEW q \in 1 .. MaxDirectBlocks - 1, NEW b, b # NoBlock,
         \A c \in C : c \in IndexNodes /\ b \notin Addrs(c),
         NEW p, p.addr[0] = c0.addr[0], p.addr[q] = b,
         \A j \in 0 .. MaxDirectBlocks - 1 : j # q => p.addr[j] = c0.addr[j]
  PROVE  FirstApart(C \cup {p})
<1>1. ASSUME NEW c \in C, NEW j \in 0 .. MaxDirectBlocks - 1 PROVE c.addr[j] # b
  BY DEF Addrs, NoAddresses, IndexNodes
<1>2. 0 \in 0 .. MaxDirectBlocks - 1
  BY Sizes
<1>3. ASSUME NEW c \in C \cup {p}, NEW d \in C \cup {p}, NEW k \in 1 .. MaxDirectBlocks - 1, d.addr[k] = c.addr[0]
      PROVE  d.addr[k] = NoBlock
  <2>1. PICK c1 \in C : c.addr[0] = c1.addr[0]
    OBVIOUS
  <2>2. CASE d \in C
    BY <1>3, <2>1, <2>2 DEF FirstApart
  <2>3. CASE d = p /\ k = q
    BY <1>1, <1>2, <1>3, <2>1, <2>3
  <2>4. CASE d = p /\ k # q
    <3>1. d.addr[k] = c0.addr[k]
      BY <2>4
    <3> QED
      BY <1>3, <2>1, <3>1 DEF FirstApart
  <2> QED
    BY <2>2, <2>3, <2>4
<1> QED
  BY <1>3 DEF FirstApart

DirWritten(S, bm, bm1) ==
  /\ bm \subseteq bm1 /\ Framed(S, bm1)'
  /\ \A A : A \subseteq bm /\ Clear(A) => Clear(A)'
  /\ \A w \in Among(pending') : w.to = "inode" =>
       w.at = mem.dirNo /\ w.node.mode = "dir" /\ w.node.nlink > 0
  /\ mem.dirNo # Root => Clear(Addrs(mem.dir))'

\* What the copies are afterwards.
InRootPut(S, bm, bm1, b, blk, p, g) ==
  /\ bm1 = bm \cup {b} /\ b \in Blocks
  /\ blk = [block EXCEPT ![b] = blk[b]] /\ blk \in [Blocks -> DataBlocks]
  /\ \A c \in Copies \cup {p, g} : Shows(S, blk, c) /\ Addrs(c) \subseteq bm1
  /\ Shows(S, block, p) /\ Full(g) /\ FirstApart(Copies \cup {p, g})
  /\ \A A : A \subseteq bm /\ Clear(A) => \A c \in Copies \cup {p, g} : A \cap Addrs(c) = {}
  /\ p.mode = mem.dir.mode /\ g.mode = mem.dir.mode /\ p.nlink = mem.dir.nlink /\ g.nlink = mem.dir.nlink

LEMMA RootIsPut ==
  ASSUME FsInv, NEW S, NEW bm, CopiesOK(S, block, bm), bm \subseteq bitmap, InRoot,
         NEW k \in 0 .. Space - 1, k >= 2, k <= mem.dir.size, NEW e \in DirEntries, Fits(S, e, 2),
         CanPlace(mem.dir, k \div PerBlock),
         NEW b, b = Placed(mem.dir, k \div PerBlock).addr[k \div PerBlock],
         NEW blk, blk = [block EXCEPT ![b] = DirBlock(mem.dir, k, e)],
         NEW p, p = Placed(mem.dir, k \div PerBlock), NEW g, g = Grown(mem.dir, k \div PerBlock, k + 1)
  PROVE  InRootPut(S, bm, bm \cup {b}, b, blk, p, g)
<1>1. PICK q, C, c0 : q = k \div PerBlock /\ C = Copies /\ c0 = mem.dir
  OBVIOUS
<1>2. /\ DiskOK /\ mem.bitHint \in Blocks /\ c0 \in IndexNodes /\ c0 \in C /\ NodeOK(c0) /\ Full(c0)
      /\ bitmap \subseteq Blocks
      /\ \A c \in C : NodeOK(c) /\ c \in IndexNodes /\ Shows(S, block, c) /\ Addrs(c) \subseteq bm
      /\ FirstApart(C)
  <2>1. DiskOK /\ mem \in Mems /\ NodeOK(mem.dir)
    BY DEF FsInv, MemOK
  <2>2. mem.bitHint \in Blocks /\ mem.dir \in IndexNodes /\ bitmap \subseteq Blocks
    BY <2>1 DEF Mems, DiskOK
  <2> QED
    BY <1>1, <2>1, <2>2, CopiesAreNodes DEF CopiesOK, Copies, FirstApart
<1>3. q \in 0 .. MaxDirectBlocks - 1 /\ k + 1 \in Nat
  BY <1>1, BlockIndex
<1>4. /\ b \in Blocks /\ b # NoBlock
      /\ c0.addr[q] # NoBlock => b \in Addrs(c0) /\ p = c0
      /\ c0.addr[q] = NoBlock => b \notin bitmap
      /\ Addrs(p) \subseteq Addrs(c0) \cup {b} /\ g.addr = p.addr /\ p.addr[q] = b
      /\ \A j \in 0 .. MaxDirectBlocks - 1 : j # q => p.addr[j] = c0.addr[j]
  BY <1>1, <1>2, <1>3, PutAddresses
<1>5. EntryPut(c0, k, e, b, blk)
  BY <1>1, <1>2, EntryIsPut
<1>6. ASSUME NEW c \in C PROVE Shows(S, blk, c)
  <2>1. c0.addr[q] = NoBlock => b \notin Addrs(c)
    BY <1>2, <1>4
  <2> QED
    BY <1>1, <1>2, <1>5, <2>1, CopyStillShows
<1>7. /\ Shows(S, block, p) /\ Shows(S, blk, p) /\ Shows(S, blk, g) /\ Full(g) /\ p.addr[0] = c0.addr[0]
  <2>1. /\ CanPlace(c0, k \div PerBlock) /\ b = Placed(c0, k \div PerBlock).addr[k \div PerBlock]
        /\ p = Placed(c0, k \div PerBlock) /\ g = Grown(c0, k \div PerBlock, k + 1) /\ k <= c0.size
    BY <1>1
  <2>2. Shows(S, block, c0) /\ Shows(S, blk, c0) /\ c0 \in IndexNodes /\ NodeOK(c0) /\ Full(c0)
        /\ mem.bitHint \in Blocks
    BY <1>2, <1>6
  <2> QED
    BY <1>5, <2>1, <2>2, GrownShows
<1>8. Addrs(g) = Addrs(p)
  BY <1>4 DEF Addrs
<1>9. \A c \in C \cup {p, g} : Shows(S, blk, c) /\ Addrs(c) \subseteq bm \cup {b}
  BY <1>2, <1>4, <1>6, <1>7, <1>8
<1>10. ASSUME NEW A, A \subseteq bm, Clear(A), NEW c \in C \cup {p, g} PROVE A \cap Addrs(c) = {}
  <2>1. \A d \in C : A \cap Addrs(d) = {}
    BY <1>1, <1>10 DEF Clear
  <2>2. A \cap Addrs(p) = {}
    BY <1>2, <1>4, <1>10, <2>1
  <2> QED
    BY <1>8, <2>1, <2>2
<1>11. FirstApart(C \cup {p, g})
  <2>1. FirstApart(C \cup {p})
    <3>1. CASE c0.addr[q] # NoBlock
      <4>1. C \cup {p} = C
        BY <1>2, <1>4, <3>1
      <4> QED
        BY <1>2, <4>1
    <3>2. CASE c0.addr[q] = NoBlock
      <4>1. c0.addr[0] # NoBlock
        BY <1>2, FirstTwo, NodeParts DEF Full
      <4>2. q \in 1 .. MaxDirectBlocks - 1
        BY <1>3, <3>2, <4>1
      <4>3. \A c \in C : c \in IndexNodes /\ b \notin Addrs(c)
        BY <1>2, <1>4, <3>2
      <4> QED
        BY <1>2, <1>4, <1>7, <4>2, <4>3, PlacedApart
    <3> QED
      BY <3>1, <3>2
  <2>2. g.addr = p.addr
    BY <1>4
  <2> QED
    BY <2>1, <2>2 DEF FirstApart
<1>12. /\ p.mode = c0.mode /\ g.mode = c0.mode /\ p.nlink = c0.nlink /\ g.nlink = c0.nlink
  BY <1>1, <1>2, <1>3, PlacedType, GrownType
<1>13. blk = [block EXCEPT ![b] = blk[b]] /\ blk \in [Blocks -> DataBlocks]
  <2>1. DirBlock(mem.dir, k, e) \in DataBlocks
    BY <1>1, <1>2, DirBlockType
  <2> QED
    BY <1>2, <1>4, <2>1 DEF DiskOK
<1> QED
  BY <1>1, <1>4, <1>7, <1>9, <1>10, <1>11, <1>12, <1>13 DEF InRootPut

LEMMA PutInRoot ==
  ASSUME FsInv, Writes(pending'), pending = <<>>, UNCHANGED disk, NEW S, NEW bm,
         Rest(S, block), CopiesOK(S, block, bm), bm \subseteq bitmap, OthersApart(bm), InRoot,
         NEW b, NEW blk, NEW p, NEW g, InRootPut(S, bm, bm \cup {b}, b, blk, p, g), NEW q,
         p = Placed(mem.dir, q), b = p.addr[q], NEW size, g = Grown(mem.dir, q, size),
         NEW data, data = blk[b], pending' = Put(Root, mem.dir, q, data, size),
         mem'.root = mem.root, InRoot' => mem'.dir = g, MoreToCome' => MoreToCome,
         mem.dir.addr[q] # NoBlock => b \in bm
  PROVE  \E bm1 : DirWritten(S, bm, bm1)
<1>1. PICK bm1, P : bm1 = bm \cup {b} /\ P = pending'
  OBVIOUS
<1>2. /\ \A w \in Among(P) :
            \/ w = SetBit(b) /\ mem.dir.addr[q] = NoBlock
            \/ w = WriteInode(Root, p)
            \/ w = WriteData(b, data)
            \/ w = WriteInode(Root, g)
      /\ mem.dir.addr[q] = NoBlock => SetBit(b) \in Among(P)
      /\ WriteData(b, data) \in Among(P)
      /\ OneData(P)
      /\ \A m, n \in DOMAIN P : m > n /\ P[m].to = "block" /\ P[n].to = "inode" =>
           P[n] = WriteInode(Root, p) /\ mem.dir.addr[q] = NoBlock
  <2>1. P = Put(Root, mem.dir, q, data, size)
    BY <1>1
  <2> QED
    BY <2>1, PutParts
<1>3. /\ bm1 = bm \cup {b} /\ b \in Blocks /\ blk \in [Blocks -> DataBlocks]
      /\ blk = [block EXCEPT ![b] = blk[b]]
      /\ \A c \in Copies \cup {p, g} : Shows(S, blk, c) /\ Addrs(c) \subseteq bm1
      /\ Shows(S, block, p) /\ Full(g) /\ FirstApart(Copies \cup {p, g})
      /\ \A A : A \subseteq bm /\ Clear(A) => \A c \in Copies \cup {p, g} : A \cap Addrs(c) = {}
      /\ p.mode = mem.dir.mode /\ g.mode = mem.dir.mode /\ p.nlink = mem.dir.nlink /\ g.nlink = mem.dir.nlink
  BY <1>1 DEF InRootPut
<1>4. /\ inode' = inode /\ block' = block /\ bitmap' = bitmap /\ bitmap \subseteq Blocks
      /\ block \in [Blocks -> DataBlocks]
      /\ mem.dir.mode = "dir" /\ mem.dir.nlink > 0 /\ inode[Root].mode = "dir" /\ mem.dirNo = Root
  BY NoInodeOut DEF disk, FsInv, DiskOK, MemOK, DirOK, InRoot, NodeAt
<1>5. ASSUME NEW w \in Among(pending')
      PROVE  /\ w.to = "bitmap" => w = SetBit(b)
             /\ w.to = "block" => w.at = b /\ w.data = data
             /\ w.to = "inode" => w.at = Root /\ w.node \in {p, g}
  <2>1. CASE w = SetBit(b)
    BY <2>1 DEF SetBit
  <2>2. CASE w = WriteData(b, data)
    BY <2>2 DEF WriteData
  <2>3. CASE w = WriteInode(Root, p)
    BY <2>3 DEF WriteInode
  <2>4. CASE w = WriteInode(Root, g)
    BY <2>4 DEF WriteInode
  <2>5. w \in Among(P)
    BY <1>1
  <2> QED
    BY <1>2, <2>1, <2>2, <2>3, <2>4, <2>5
<1>6. Copies' \subseteq Copies \cup {p, g}
  <2>1. {w.node : w \in {v \in Among(pending') : IsRoot(v)}} \subseteq {p, g}
    BY <1>5 DEF IsRoot
  <2>2. {inode'[Root], mem'.root} \subseteq Copies
    BY <1>4 DEF Copies
  <2>3. InRoot' => mem'.dir \in {g}
    OBVIOUS
  <2> QED
    BY <2>1, <2>2, <2>3 DEF Copies, IsRoot
<1>7. Ahead(blk)'
  <2>1. \A w \in Among(pending') : w.to = "block" => blk[w.at] = w.data
    BY <1>5
  <2>2. WriteData(b, data) \in Among(pending') /\ WriteData(b, data).to = "block" /\ WriteData(b, data).at = b
    BY <1>1, <1>2 DEF WriteData
  <2>3. \A a \in Blocks : a = b \/ blk[a] = block[a]
    BY <1>3, <1>4
  <2>4. \A a \in Blocks : blk[a] = block'[a] \/ \E w \in Among(pending') : w.to = "block" /\ w.at = a
    BY <1>4, <2>2, <2>3
  <2>5. \A m, n \in DOMAIN pending' : pending'[m].to = "block" /\ pending'[n].to = "block" => m = n
    BY <1>1, <1>2 DEF OneData
  <2> QED
    BY <1>3, <2>1, <2>4, <2>5 DEF Ahead
<1>8. RootWrites(S, blk)'
  <2>1. ASSUME NEW n \in DOMAIN P, IsRoot(P[n]) PROVE Shows(S, blk, P[n].node)
    <3>1. P[n] \in Among(pending') /\ P[n].to = "inode"
      BY <1>1, <2>1 DEF Among, IsRoot
    <3>2. P[n].node \in {p, g}
      BY <1>5, <3>1
    <3> QED
      BY <1>3, <3>2
  <2>2. ASSUME NEW n \in DOMAIN P, IsRoot(P[n]), NEW m \in DOMAIN P, m > n, P[m].to = "block"
        PROVE  Shows(S, block', P[n].node)
    <3>1. P[n] = WriteInode(Root, p)
      BY <1>2, <2>2 DEF IsRoot
    <3> QED
      BY <1>3, <1>4, <3>1 DEF WriteInode
  <2>3. \A n \in DOMAIN pending' : IsRoot(pending'[n]) =>
          /\ Shows(S, blk, pending'[n].node)
          /\ (\E m \in DOMAIN pending' : m > n /\ pending'[m].to = "block") =>
               Shows(S, block', pending'[n].node)
    <3> SUFFICES ASSUME NEW n \in DOMAIN pending', IsRoot(pending'[n])
                 PROVE  /\ Shows(S, blk, pending'[n].node)
                        /\ \A m \in DOMAIN pending' : m > n /\ pending'[m].to = "block" =>
                             Shows(S, block', pending'[n].node)
      OBVIOUS
    <3>1. n \in DOMAIN P /\ P[n] = pending'[n] /\ IsRoot(P[n])
      BY <1>1
    <3>2. Shows(S, blk, P[n].node)
      BY <2>1, <3>1
    <3>3. ASSUME NEW m \in DOMAIN pending', m > n, pending'[m].to = "block" PROVE Shows(S, block', P[n].node)
      <4>1. m \in DOMAIN P /\ P[m].to = "block"
        BY <1>1, <3>3
      <4> QED
        BY <2>2, <3>1, <3>3, <4>1
    <3> QED
      BY <3>1, <3>2, <3>3
  <2>4. RootWrites(S, blk)' <=> \A n \in DOMAIN pending' : IsRoot(pending'[n]) =>
          /\ Shows(S, blk, pending'[n].node)
          /\ (\E m \in DOMAIN pending' : m > n /\ pending'[m].to = "block") =>
               Shows(S, block', pending'[n].node)
    BY DEF RootWrites, IsRoot
  <2> QED
    BY <2>3, <2>4
<1>9. Rest(S, blk)'
  <2>1. S \subseteq NamedEntries /\ Once(S) /\ Shows(S, block, inode[Root])
    BY DEF Rest
  <2>2. Shows(S, blk, inode[Root])
    BY <1>3 DEF Copies
  <2>3. \A w \in Among(pending') : w.to = "inode" => ModeKept(S, w)'
    BY <1>3, <1>4, <1>5 DEF ModeKept
  <2>4. Once(S)'
    BY <1>4, <2>1 DEF Once
  <2> QED
    BY <1>4, <1>7, <1>8, <2>1, <2>2, <2>3, <2>4 DEF Rest
<1>10. CopiesOK(S, blk, bm1)'
  <2>1. Full(mem.root)
    BY DEF CopiesOK
  <2>2. FirstApart(Copies)'
    BY <1>3, <1>6 DEF FirstApart
  <2>3. \A c \in Copies' : Shows(S, blk, c) /\ Addrs(c) \subseteq bm1
    BY <1>3, <1>6
  <2>4. Full(mem.root)' /\ (InRoot' => Full(mem.dir)')
    BY <1>3, <2>1 DEF Full
  <2> QED
    BY <2>2, <2>3, <2>4 DEF CopiesOK, FirstApart
<1>11. BitsAhead(bm1)'
  <2>1. bm1 \subseteq Blocks
    BY <1>3, <1>4
  <2>2. \A w \in Among(pending') : w.to = "bitmap" => w.set
    BY <1>5 DEF SetBit
  <2>3. \A a \in bm1 : a \in bitmap \/ \E w \in Among(pending') : w.to = "bitmap" /\ w.at = a
    <3>1. mem.dir.addr[q] = NoBlock => SetBit(b) \in Among(pending') /\ SetBit(b).to = "bitmap" /\ SetBit(b).at = b
      BY <1>1, <1>2 DEF SetBit
    <3> QED
      BY <1>1, <3>1
  <2> QED
    BY <1>4, <2>1, <2>2, <2>3 DEF BitsAhead
<1>12. \A A : A \subseteq bm /\ Clear(A) => Clear(A)'
  BY <1>3, <1>6 DEF Clear
<1>13. OthersApart(bm1)'
  <2>1. \A w \in Among(pending') : ~ (w.to = "inode" /\ w.at # Root)
    BY <1>5
  <2>2. bm \subseteq bm1
    BY <1>1
  <2> QED
    BY <1>4, <1>12, <2>1, <2>2, OthersStay
<1>14. Framed(S, bm1)'
  BY <1>9, <1>10, <1>11, <1>13 DEF Framed
<1>15. \A w \in Among(pending') : w.to = "inode" =>
         w.at = mem.dirNo /\ w.node.mode = "dir" /\ w.node.nlink > 0
  BY <1>3, <1>4, <1>5
<1>16. DirWritten(S, bm, bm1)
  BY <1>1, <1>4, <1>12, <1>14, <1>15 DEF DirWritten
<1> QED
  BY <1>16

LEMMA PutInSubdir ==
  ASSUME FsInv, Writes(pending'), pending = <<>>, UNCHANGED disk, NEW S, NEW bm, Steady(S, bm),
         pc \in {"place", "pull"}, mem.dirNo # Root,
         NEW q \in 0 .. MaxDirectBlocks - 1, CanPlace(mem.dir, q), NEW data, NEW size \in Nat,
         pending' = Put(mem.dirNo, mem.dir, q, data, size),
         mem'.root = mem.root, mem'.dir = Grown(mem.dir, q, size), ~ InRoot', ~ MoreToCome'
  PROVE  \E bm1 : DirWritten(S, bm, bm1)
<1>1. PICK P, g, i, node :
        P = Put(mem.dirNo, mem.dir, q, data, size) /\ g = Grown(mem.dir, q, size) /\ i = mem.dirNo /\ node = mem.dir
  OBVIOUS
<1>2. /\ mem.bitHint \in Blocks /\ node \in IndexNodes /\ bitmap \subseteq Blocks /\ inode' = inode
      /\ bitmap' = bitmap /\ i \in Inodes \ {Root} /\ node.mode = "dir" /\ node.nlink > 0 /\ Among(pending) = {}
  BY <1>1, NothingPending DEF FsInv, MemOK, Mems, DirOK, DiskOK, disk
<1>3. /\ Rest(S, block) /\ CopiesOK(S, block, bm) /\ bm \subseteq bitmap
      /\ \A c \in Copies : Addrs(c) \subseteq bm
      /\ inode[i].mode = "dir" /\ Clear(Addrs(node))
  BY <1>1 DEF Steady, CopiesOK, DirKept
<1>4. PICK bm1 : PutAway(S, bm, bm1, i, node, g, P)
  <2>1. P = Put(i, node, q, data, size) /\ g = Grown(node, q, size) /\ CanPlace(node, q)
    BY <1>1
  <2> QED
    BY <1>2, <1>3, <2>1, PutElsewhere
<1>5. pending' = P /\ mem'.dir = g
  BY <1>1
<1>6. (\E blk : Rest(S, blk)' /\ CopiesOK(S, blk, bm1)') /\ \A A : Clear(A) => Clear(A)'
  BY <1>3, <1>4, <1>5, QuietStep DEF PutAway
<1>7. BitsAhead(bm1)'
  BY <1>2, <1>4, <1>5 DEF BitsAhead, PutAway
<1>8. OthersApart(bm1)'
  BY DEF OthersApart
<1>9. Framed(S, bm1)'
  BY <1>6, <1>7, <1>8 DEF Framed
<1>10. \A w \in Among(pending') : w.to = "inode" => w.at = mem.dirNo /\ w.node.mode = "dir" /\ w.node.nlink > 0
  BY <1>1, <1>2, <1>4, <1>5 DEF PutAway
<1>11. Clear(Addrs(mem.dir))'
  <2>1. Clear(Addrs(g))'
    BY <1>4, <1>6 DEF PutAway
  <2> QED
    BY <1>5, <2>1 DEF Clear, Addrs
<1>12. bm \subseteq bm1
  BY <1>4 DEF PutAway
<1>13. DirWritten(S, bm, bm1)
  BY <1>6, <1>9, <1>10, <1>11, <1>12 DEF DirWritten
<1> QED
  BY <1>13

LEMMA WritedirWrites ==
  ASSUME FsInv, Writes(pending'), pending = <<>>, UNCHANGED disk, NEW S, NEW bm, Steady(S, bm),
         pc \in {"place", "pull"}, NEW k \in 0 .. Space, NEW e \in DirEntries,
         mem.dirNo = Root => k >= 2 /\ k <= mem.dir.size /\ Fits(S, e, 2),
         NEW rest \in Mems, rest.dir = mem.dir, rest.root = mem.root, rest.dirNo = mem.dirNo,
         writedir(k, e, rest), MoreToCome' => MoreToCome /\ mem.dirNo = Root
  PROVE  \E bm1 : DirWritten(S, bm, bm1)
<1>1. PICK q, g, hint : q = k \div PerBlock /\ g = Grown(mem.dir, q, k + 1) /\ hint = HintAfter(mem.dir, q)
  OBVIOUS
<1>2. /\ Rest(S, block) /\ CopiesOK(S, block, bm) /\ bm \subseteq bitmap /\ OthersApart(bm) /\ DirKept(S)
      /\ \A c \in Copies : Addrs(c) \subseteq bm
  BY DEF Steady, CopiesOK
<1>3. CASE ~ CanPlace(mem.dir, q)
  <2>1. pending' = <<>> /\ mem' = rest
    BY <1>1, <1>3 DEF writedir
  <2>2. InRoot' => mem'.dir \in Copies /\ Full(mem'.dir)
    BY <1>2, <2>1 DEF InRoot, Copies, CopiesOK
  <2>3. Framed(S, bm)' /\ \A A : Clear(A) => Clear(A)'
    BY <1>2, <2>1, <2>2, SilentStep
  <2>4. Among(pending') = {}
    BY <2>1, NothingPending
  <2>5. mem.dirNo # Root => Clear(Addrs(mem.dir))'
    <3>1. PICK A : A = Addrs(mem.dir) /\ A = Addrs(mem'.dir)
      BY <2>1
    <3>2. mem.dirNo # Root => Clear(A)'
      BY <1>2, <2>3, <3>1 DEF DirKept
    <3> QED
      BY <3>1, <3>2 DEF Clear, Addrs
  <2>6. DirWritten(S, bm, bm)
    BY <2>3, <2>4, <2>5 DEF DirWritten
  <2> QED
    BY <2>6
<1>4. CASE CanPlace(mem.dir, q)
  <2>1. PICK data : data = DirBlock(mem.dir, k, e)
    OBVIOUS
  <2>2. pending' = Put(mem.dirNo, mem.dir, q, data, k + 1) /\ mem' = [rest EXCEPT !.dir = g, !.bitHint = hint]
    BY <1>1, <1>4, <2>1 DEF writedir
  <2>3. mem'.root = mem.root /\ mem'.dir = g /\ mem'.dirNo = mem.dirNo
    BY <2>2 DEF Mems
  <2>4. q \in 0 .. MaxDirectBlocks - 1 /\ k + 1 \in Nat /\ k \in 0 .. Space - 1
    BY <1>1, <1>4, BlockIndex, Fitting
  <2>5. CASE mem.dirNo # Root
    <3>1. ~ InRoot' /\ ~ MoreToCome'
      BY <2>3, <2>5 DEF InRoot
    <3>2. mem'.dir = Grown(mem.dir, q, k + 1)
      BY <1>1, <2>3
    <3> QED
      BY <1>4, <2>2, <2>3, <2>4, <2>5, <3>1, <3>2, PutInSubdir
  <2>6. CASE mem.dirNo = Root
    <3>1. InRoot
      BY <2>6 DEF InRoot
    <3>2. PICK p, b : p = Placed(mem.dir, q) /\ b = p.addr[q]
      OBVIOUS
    <3>3. PICK blk : blk = [block EXCEPT ![b] = data]
      OBVIOUS
    <3>4. InRootPut(S, bm, bm \cup {b}, b, blk, p, g)
      <4>1. /\ CanPlace(mem.dir, k \div PerBlock) /\ p = Placed(mem.dir, k \div PerBlock)
            /\ b = Placed(mem.dir, k \div PerBlock).addr[k \div PerBlock]
            /\ g = Grown(mem.dir, k \div PerBlock, k + 1)
        BY <1>1, <1>4, <3>2
      <4>2. blk = [block EXCEPT ![b] = DirBlock(mem.dir, k, e)]
        BY <2>1, <3>3
      <4> QED
        BY <1>2, <2>4, <2>6, <3>1, <4>1, <4>2, RootIsPut
    <3>5. b \in Blocks /\ blk[b] = data
      BY <3>3, <3>4 DEF InRootPut, FsInv, DiskOK
    <3>6. mem.dir.addr[q] # NoBlock => b \in bm
      <4>1. mem.dir \in Copies /\ mem.dir \in IndexNodes /\ mem.bitHint \in Blocks
        BY <3>1 DEF Copies, FsInv, MemOK, Mems
      <4>2. mem.dir.addr[q] # NoBlock => b \in Addrs(mem.dir)
        BY <1>4, <2>4, <3>2, <4>1, PutAddresses
      <4> QED
        BY <1>2, <4>1, <4>2
    <3>7. pending' = Put(Root, mem.dir, q, data, k + 1)
      BY <2>2, <2>6
    <3>8. PICK size : size = k + 1
      OBVIOUS
    <3> QED
      BY <1>1, <1>2, <2>3, <3>1, <3>2, <3>4, <3>5, <3>6, <3>7, <3>8, PutInRoot
  <2> QED
    BY <2>5, <2>6
<1> QED
  BY <1>3, <1>4

LEMMA DirWrittenInOrder ==
  ASSUME FsInv, FsInv', pending = <<>>, UNCHANGED disk, call' = call, NEW S, NEW bm, NEW bm1,
         Steady(S, bm), DirWritten(S, bm, bm1), pc \in {"place", "pull"},
         pc' \in {"place", "pull", "write", "dot", "linked", "exit"}, pc = "pull" => pc' = "pull",
         mem'.ino = mem.ino, mem'.file = mem.file, mem'.dirNo = mem.dirNo,
         mem.dirNo = Root => mem'.pos >= 2 /\ (pc' = "place" => Fits(S, mem'.carry, 2))
  PROVE  InOrder'
<1>1. /\ AllLive(S) /\ FileApart(bm) /\ FileKept(S) /\ DirKept(S) /\ inode' = inode
      /\ (pc = "pull" => call.kind = "unlink")
  BY WhoIsAt, Kinds DEF Steady, disk, FsInv
<1>2. /\ bm \subseteq bm1 /\ Framed(S, bm1)'
      /\ \A A : A \subseteq bm /\ Clear(A) => Clear(A)'
      /\ \A w \in Among(pending') : w.to = "inode" =>
           w.at = mem.dirNo /\ w.node.mode = "dir" /\ w.node.nlink > 0
      /\ mem.dirNo # Root => Clear(Addrs(mem.dir))'
  BY DEF DirWritten
<1>3. AllLive(S)'
  BY <1>1, <1>2 DEF AllLive
<1>4. FileApart(bm1)'
  <2> SUFFICES ASSUME call.kind \in {"create", "mkdir"}, pc' \in FilePcs
               PROVE  Clear(Addrs(mem.file))' /\ Addrs(mem'.file) \subseteq bm1
    BY DEF FileApart
  <2>1. pc = "place"
    BY <1>1
  <2>2. PICK A : A = Addrs(mem.file) /\ A = Addrs(mem'.file)
    OBVIOUS
  <2>3. Clear(A) /\ A \subseteq bm
    BY <1>1, <2>1, <2>2 DEF FileApart, FilePcs
  <2>4. Clear(A)'
    BY <1>2, <2>3
  <2> QED
    BY <1>2, <2>2, <2>3, <2>4 DEF Clear, Addrs
<1>5. FileKept(S)'
  <2>1. CASE pc = "place"
    <3>1. /\ inode[mem.ino].mode = mem.file.mode
          /\ mem.file.mode = "dir" => call.kind = "mkdir"
          /\ call.kind = "mkdir" => mem.file.nlink > 0 /\ inode[mem.ino].nlink > 0
      BY <2>1, FileAtHand DEF FilePcs
    <3>2. inode[mem.dirNo].mode = "dir"
      BY <1>1 DEF DirKept
    <3>3. \A w \in Among(pending') : w.to = "inode" /\ w.at = mem.ino => w.node.mode = mem.file.mode
      BY <1>2, <3>1, <3>2
    <3>4. /\ inode'[mem'.ino].mode = mem'.file.mode
          /\ mem'.file.mode = "dir" => call'.kind = "mkdir"
          /\ call'.kind = "mkdir" => mem'.file.nlink > 0 /\ inode'[mem'.ino].nlink > 0
          /\ \A w \in Among(pending') : w.to = "inode" /\ w.at = mem'.ino => w.node.mode = mem'.file.mode
      BY <1>1, <3>1, <3>3
    <3> QED
      BY <3>4 DEF FileKept
  <2>2. CASE pc = "pull"
    BY <2>2 DEF FileKept, FilePcs
  <2> QED
    BY <2>1, <2>2
<1>6. DirKept(S)'
  <2>1. inode'[mem'.dirNo].mode = "dir" /\ (call'.kind = "mkdir" => mem'.dirNo = Root)
    BY <1>1 DEF DirKept
  <2>2. \A w \in Among(pending') : w.to = "inode" /\ w.at = mem'.dirNo => w.node.mode = "dir"
    BY <1>2
  <2>3. (Fits(S, mem.carry, 2))' <=> Fits(S, mem'.carry, 2)
    BY DEF Fits
  <2> QED
    BY <1>2, <2>1, <2>2, <2>3 DEF DirKept
<1>7. Untouched'
  BY DEF Untouched
<1> QED
  BY <1>2, <1>3, <1>4, <1>5, <1>6, <1>7, FramedInOrder DEF Framed, InOrder, Work

\* Behind the first two, the entries of the opened root are in S or blank.
LEMMA OpenedShows ==
  ASSUME FsInv, NEW S, NEW bm, Steady(S, bm), InRoot, NEW k \in 0 .. mem.dir.size - 1, k >= 2
  PROVE  Fits(S, EntryAt(mem.dir, k), 2)
<1>1. Shows(S, block, mem.dir)
  BY DEF Steady, CopiesOK, Copies
<1>2. Fits(S, EntryAt(mem.dir, k), k)
  BY <1>1, EntryNow DEF Shows
<1> QED
  BY <1>2 DEF Fits

LEMMA PlaceInOrder ==
  ASSUME FsInv, FsInv', InOrder, Place
  PROVE  InOrder'
<1>1. PICK e, rest : e = EntryAt(mem.dir, mem.pos) /\ rest = [mem EXCEPT !.pos = @ + 1, !.carry = e]
  OBVIOUS
<1>2. /\ pc = "place" /\ pc' = pc /\ call' = call /\ mem.pos < mem.dir.size /\ pending = <<>> /\ UNCHANGED disk
      /\ writedir(mem.pos, mem.carry, rest)
  BY <1>1 DEF Place, Ready
<1>3. DiskOK /\ mem \in Mems /\ NodeOK(mem.dir) /\ DirOK /\ Writes(pending')
  BY DEF FsInv, MemOK
<1>4. mem.pos \in 0 .. Space - 1 /\ mem.pos + 1 \in Nat /\ mem.carry \in DirEntries
      /\ mem.dir \in IndexNodes /\ mem.pos \in 0 .. mem.dir.size - 1 /\ mem.pos <= mem.dir.size
  BY <1>2, <1>3, NodeParts, Sizes DEF Mems
<1>5. e \in DirEntries
  BY <1>1, <1>3, <1>4, EntryAtType
<1>6. /\ rest \in Mems /\ rest.dir = mem.dir /\ rest.root = mem.root /\ rest.file = mem.file
      /\ rest.ino = mem.ino /\ rest.pos = mem.pos + 1 /\ rest.carry = e /\ rest.dirNo = mem.dirNo
  BY <1>1, <1>3, <1>4, <1>5 DEF Mems
<1>7. PICK S, bm : Steady(S, bm)
  BY <1>2, AtReady DEF Working
<1>8. DirKept(S)
  BY <1>7 DEF Steady
<1>9. mem.dirNo = Root => mem.pos >= 2 /\ mem.pos <= mem.dir.size /\ Fits(S, mem.carry, 2) /\ Fits(S, e, 2)
  <2> SUFFICES ASSUME mem.dirNo = Root
               PROVE  mem.pos >= 2 /\ mem.pos <= mem.dir.size /\ Fits(S, mem.carry, 2) /\ Fits(S, e, 2)
    OBVIOUS
  <2>1. mem.pos >= 2 /\ Fits(S, mem.carry, 2) /\ InRoot
    BY <1>2, <1>8 DEF DirKept, InRoot
  <2>2. Fits(S, EntryAt(mem.dir, mem.pos), 2)
    BY <1>4, <1>7, <2>1, OpenedShows
  <2>3. mem.pos <= mem.dir.size
    BY <1>4
  <2> QED
    BY <1>1, <2>1, <2>2, <2>3
<1>10. PICK bm1 : DirWritten(S, bm, bm1)
  <2>1. MoreToCome' => MoreToCome /\ mem.dirNo = Root
    BY <1>2, <1>8 DEF MoreToCome, Opening, DirKept
  <2>2. PICK k \in 0 .. Space, c \in DirEntries : k = mem.pos /\ c = mem.carry
    BY <1>4, Sizes
  <2> QED
    BY <1>2, <1>3, <1>6, <1>7, <1>9, <2>1, <2>2, WritedirWrites
<1>11. mem'.ino = mem.ino /\ mem'.file = mem.file /\ mem'.dirNo = mem.dirNo /\ mem'.pos = mem.pos + 1 /\ mem'.carry = e
  <2>1. PICK g, hint : mem' = rest \/ mem' = [rest EXCEPT !.dir = g, !.bitHint = hint]
    BY <1>2 DEF writedir
  <2> QED
    BY <1>6, <2>1 DEF Mems
<1>12. mem.dirNo = Root => mem'.pos >= 2 /\ (pc' = "place" => Fits(S, mem'.carry, 2))
  BY <1>4, <1>9, <1>11
<1> QED
  BY <1>2, <1>7, <1>10, <1>11, <1>12, DirWrittenInOrder

LEMMA PlaceLastInOrder ==
  ASSUME FsInv, FsInv', InOrder, PlaceLast
  PROVE  InOrder'
<1>1. /\ pc = "place" /\ call' = call /\ mem.pos >= mem.dir.size /\ pending = <<>> /\ UNCHANGED disk
      /\ writedir(mem.pos, mem.carry, mem) /\ pc' = AfterInsert
  BY DEF PlaceLast, Ready
<1>2. DiskOK /\ mem \in Mems /\ NodeOK(mem.dir) /\ DirOK /\ Writes(pending')
  BY DEF FsInv, MemOK
<1>3. mem.pos \in 0 .. Space /\ mem.carry \in DirEntries /\ mem.pos = mem.dir.size
  BY <1>1, <1>2, NodeParts, Sizes DEF Mems, DirOK
<1>4. pc' \in {"write", "dot", "linked", "exit"}
  BY <1>1 DEF AfterInsert
<1>5. PICK S, bm : Steady(S, bm)
  BY <1>1, AtReady DEF Working
<1>6. DirKept(S)
  BY <1>5 DEF Steady
<1>7. mem.dirNo = Root => mem.pos >= 2 /\ mem.pos <= mem.dir.size /\ Fits(S, mem.carry, 2)
  BY <1>1, <1>3, <1>6 DEF DirKept
<1>8. PICK bm1 : DirWritten(S, bm, bm1)
  <2>1. MoreToCome' => MoreToCome /\ mem.dirNo = Root
    BY <1>1, <1>4, <1>6 DEF MoreToCome, Opening, DirKept
  <2>2. PICK k \in 0 .. Space, c \in DirEntries, rest \in Mems : k = mem.pos /\ c = mem.carry /\ rest = mem
    BY <1>2, <1>3
  <2> QED
    BY <1>1, <1>2, <1>5, <1>7, <2>1, <2>2, WritedirWrites
<1>9. mem'.ino = mem.ino /\ mem'.file = mem.file /\ mem'.dirNo = mem.dirNo /\ mem'.pos = mem.pos
  <2>1. PICK g, hint : mem' = mem \/ mem' = [mem EXCEPT !.dir = g, !.bitHint = hint]
    BY <1>1 DEF writedir
  <2> QED
    BY <1>2, <2>1 DEF Mems
<1> QED
  BY <1>1, <1>4, <1>5, <1>7, <1>8, <1>9, DirWrittenInOrder

LEMMA PullInOrder ==
  ASSUME FsInv, FsInv', InOrder, Pull
  PROVE  InOrder'
<1>1. PICK e, rest : e = EntryAt(mem.dir, mem.pos + 1) /\ rest = [mem EXCEPT !.pos = @ + 1]
  OBVIOUS
<1>2. /\ pc = "pull" /\ pc' = pc /\ call' = call /\ mem.pos + 1 < mem.dir.size /\ pending = <<>> /\ UNCHANGED disk
      /\ writedir(mem.pos, e, rest)
  BY <1>1 DEF Pull, Ready
<1>3. DiskOK /\ mem \in Mems /\ NodeOK(mem.dir) /\ DirOK /\ Writes(pending') /\ CallOK
  BY DEF FsInv, MemOK
<1>4. mem.pos \in 0 .. Space - 1 /\ mem.pos + 1 \in 0 .. Space - 1 /\ mem.pos \in Nat /\ mem.dir \in IndexNodes
      /\ mem.pos + 1 \in 0 .. mem.dir.size - 1 /\ mem.pos <= mem.dir.size
  BY <1>2, <1>3, NodeParts, Sizes DEF Mems
<1>5. e \in DirEntries
  BY <1>1, <1>3, <1>4, EntryAtType
<1>6. /\ rest \in Mems /\ rest.dir = mem.dir /\ rest.root = mem.root /\ rest.file = mem.file
      /\ rest.ino = mem.ino /\ rest.pos = mem.pos + 1 /\ rest.dirNo = mem.dirNo
  BY <1>1, <1>3, <1>4 DEF Mems
<1>7. PICK S, bm : Steady(S, bm)
  BY <1>2, AtReady DEF Working
<1>8. DirKept(S)
  BY <1>7 DEF Steady
<1>9. mem.dirNo = Root => mem.pos >= 2 /\ mem.pos <= mem.dir.size /\ Fits(S, e, 2)
  <2> SUFFICES ASSUME mem.dirNo = Root
               PROVE  mem.pos >= 2 /\ mem.pos <= mem.dir.size /\ Fits(S, e, 2)
    OBVIOUS
  <2>1. mem.pos >= 2 /\ InRoot
    BY <1>2, <1>8 DEF DirKept, InRoot
  <2>2. mem.pos + 1 >= 2
    BY <1>4, <2>1
  <2>3. Fits(S, EntryAt(mem.dir, mem.pos + 1), 2)
    BY <1>4, <1>7, <2>1, <2>2, OpenedShows
  <2> QED
    BY <1>1, <1>4, <2>1, <2>3
<1>10. PICK bm1 : DirWritten(S, bm, bm1)
  <2>1. ~ MoreToCome'
    BY <1>2, <1>3, WhoIsAt, Kinds DEF MoreToCome, Opening
  <2>2. PICK k \in 0 .. Space : k = mem.pos
    BY <1>4, Sizes
  <2> QED
    BY <1>2, <1>3, <1>5, <1>6, <1>7, <1>9, <2>1, <2>2, WritedirWrites
<1>11. mem'.ino = mem.ino /\ mem'.file = mem.file /\ mem'.dirNo = mem.dirNo /\ mem'.pos = mem.pos + 1
  <2>1. PICK g, hint : mem' = rest \/ mem' = [rest EXCEPT !.dir = g, !.bitHint = hint]
    BY <1>2 DEF writedir
  <2> QED
    BY <1>6, <2>1 DEF Mems
<1>12. mem.dirNo = Root => mem'.pos >= 2
  BY <1>4, <1>9, <1>11
<1> QED
  BY <1>2, <1>7, <1>10, <1>11, <1>12, DirWrittenInOrder

-----------------------------------------------------------------------------
(***************************************************************************)
(* The directory is cut: it shows less.                                    *)
(***************************************************************************)
LEMMA LessShown ==
  ASSUME NEW S, NEW blk, NEW c, NodeOK(c), Shows(S, blk, c)
  PROVE  /\ \A d : d = [c EXCEPT !.size = @ - 1] => d.mode = c.mode /\ Shows(S, blk, d)
         /\ \A k, d : d = [c EXCEPT !.addr[k] = NoBlock] => d.mode = c.mode /\ Shows(S, blk, d)
<1>1. c \in IndexNodes /\ c.size \in Nat /\ c.addr \in [0 .. MaxDirectBlocks - 1 -> Blocks \cup {NoBlock}]
  BY NodeParts
<1>2. ASSUME NEW d, d = [c EXCEPT !.size = @ - 1] PROVE d.mode = c.mode /\ Shows(S, blk, d)
  <2>1. d.mode = c.mode /\ d.size = c.size - 1 /\ d.addr = c.addr
    BY <1>1, <1>2 DEF IndexNodes
  <2> QED
    BY <1>1, <2>1 DEF Shows, EntryIn
<1>3. ASSUME NEW k, NEW d, d = [c EXCEPT !.addr[k] = NoBlock] PROVE d.mode = c.mode /\ Shows(S, blk, d)
  <2>1. d.mode = c.mode /\ d.size = c.size /\ d.addr = [c.addr EXCEPT ![k] = NoBlock]
    BY <1>1, <1>3 DEF IndexNodes
  <2>2. ASSUME NEW j \in 0 .. d.size - 1 PROVE Fits(S, EntryIn(blk, d, j), j)
    <3>1. j \in 0 .. c.size - 1 /\ Fits(S, EntryIn(blk, c, j), j)
      BY <2>1 DEF Shows
    <3>2. j \div PerBlock \in 0 .. MaxDirectBlocks - 1
      BY <3>1, AddressAt
    <3>3. d.addr[j \div PerBlock] \in {NoBlock, c.addr[j \div PerBlock]}
      BY <1>1, <2>1, <3>2
    <3>4. EntryIn(blk, d, j) \in {Blank, EntryIn(blk, c, j)}
      BY <3>3 DEF EntryIn
    <3> QED
      BY <3>1, <3>4 DEF Fits
  <2> QED
    BY <2>1, <2>2 DEF Shows
<1> QED
  BY <1>2, <1>3

LEMMA CutInOrder ==
  ASSUME FsInv, FsInv', InOrder, Cut
  PROVE  InOrder'
<1>1. PICK i, k, b, cut, shrunk :
        /\ i = mem.dirNo /\ k = (inode[i].size - 1) \div PerBlock - 1 /\ b = inode[i].addr[k]
        /\ cut = [inode[i] EXCEPT !.addr[k] = NoBlock] /\ shrunk = [mem.dir EXCEPT !.size = @ - 1]
  OBVIOUS
<1>2. /\ pc = "pull" /\ pc' = "exit" /\ pending = <<>> /\ UNCHANGED disk
      /\ pending' = (IF LosesBlock THEN <<ResetBit(b), WriteInode(i, cut)>> ELSE <<>>) \o <<WriteInode(i, shrunk)>>
  BY <1>1 DEF Cut, Ready, Exit, freeInodeBlocks, Shrunk
<1>3. PICK S, bm : Steady(S, bm)
  BY <1>2, AtReady DEF Working
<1>4. /\ i \in Inodes /\ NodeOK(inode[i]) /\ NodeOK(mem.dir) /\ mem.dir.mode = "dir" /\ inode' = inode
      /\ block' = block /\ block \in [Blocks -> DataBlocks]
  BY <1>1, <1>2 DEF FsInv, MemOK, Mems, DirOK, DiskOK, NodeAt, disk
<1>5. inode[i].mode = "dir"
  BY <1>1, <1>2, <1>3 DEF Steady, DirKept
<1>6. cut.mode = "dir" /\ shrunk.mode = "dir" /\ (i = Root => Shows(S, block, cut) /\ Shows(S, block, shrunk))
  <2>1. cut.mode = "dir" /\ shrunk.mode = "dir"
    BY <1>1, <1>4, <1>5, NodeParts DEF IndexNodes
  <2>2. i = Root => Shows(S, block, inode[i]) /\ Shows(S, block, mem.dir)
    BY <1>1, <1>2, <1>3 DEF Steady, Rest, CopiesOK, Copies, InRoot
  <2> QED
    BY <1>1, <1>4, <2>1, <2>2, LessShown
<1>7. \A w \in Among(pending') : w.to = "bitmap" \/ (w.to = "inode" /\ w.at = i /\ w.node \in {cut, shrunk})
  <2>1. <<>> \o <<WriteInode(i, shrunk)>> = <<WriteInode(i, shrunk)>>
    OBVIOUS
  <2>2. <<ResetBit(b), WriteInode(i, cut)>> \o <<WriteInode(i, shrunk)>>
          = <<ResetBit(b), WriteInode(i, cut), WriteInode(i, shrunk)>>
    BY ShortSequences
  <2>3. Among(pending') \subseteq {ResetBit(b), WriteInode(i, cut), WriteInode(i, shrunk)}
    BY <1>2, <2>1, <2>2 DEF Among
  <2> QED
    BY <2>3 DEF ResetBit, WriteInode
<1>8. Rest(S, block)'
  <2>1. S \subseteq NamedEntries /\ Once(S) /\ Shows(S, block, inode[Root])
    BY <1>3 DEF Steady, Rest
  <2>2. Ahead(block)'
    BY <1>4, <1>7 DEF Ahead, Among
  <2>3. RootWrites(S, block)'
    BY <1>4, <1>6, <1>7 DEF RootWrites, IsRoot, Among
  <2>4. \A w \in Among(pending') : w.to = "inode" => ModeKept(S, w)'
    BY <1>4, <1>5, <1>6, <1>7 DEF ModeKept
  <2>5. Once(S)'
    BY <1>4, <2>1 DEF Once
  <2> QED
    BY <1>4, <2>1, <2>2, <2>3, <2>4, <2>5 DEF Rest
<1>9. Work(S, block, {})'
  BY <1>2 DEF Work, Working
<1> QED
  BY <1>8, <1>9 DEF InOrder

-----------------------------------------------------------------------------
(***************************************************************************)
(* A program starts on a consistent file system.                           *)
(***************************************************************************)
LEMMA BlockCounted ==
  ASSUME NEW size \in Nat, NEW j \in 0 .. size - 1
  PROVE  j \div PerBlock < (size + PerBlock - 1) \div PerBlock
<1>1. PerBlock \in Nat /\ PerBlock >= 2
  BY Sizes
<1>2. ASSUME NEW a \in Nat, NEW q, NEW r, q = a \div PerBlock, r = a % PerBlock
      PROVE  q \in Nat /\ r \in 0 .. PerBlock - 1 /\ a = PerBlock * q + r
  BY <1>1, <1>2
<1>3. PICK q, r, m, s : /\ q = j \div PerBlock /\ r = j % PerBlock
                        /\ m = (size + PerBlock - 1) \div PerBlock /\ s = (size + PerBlock - 1) % PerBlock
  OBVIOUS
<1>4. q \in Nat /\ r \in 0 .. PerBlock - 1 /\ j = PerBlock * q + r /\ j \in Nat
  BY <1>2, <1>3
<1>5. m \in Nat /\ s \in 0 .. PerBlock - 1 /\ size + PerBlock - 1 = PerBlock * m + s
  <2>1. PICK a \in Nat : a = size + PerBlock - 1
    BY <1>1
  <2> QED
    BY <1>2, <1>3, <2>1
<1>6. PerBlock * q \in Nat /\ PerBlock * m \in Nat
  BY <1>1, <1>4, <1>5
<1>7. PerBlock * q < PerBlock * m
  BY <1>1, <1>4, <1>5, <1>6
<1>8. q >= m => PerBlock * q >= PerBlock * m
  BY <1>1, <1>4, <1>5
<1>9. q < m
  BY <1>4, <1>5, <1>6, <1>7, <1>8
<1> QED
  BY <1>3, <1>9

LEMMA SameConsistent ==
  ASSUME UNCHANGED disk, Consistent
  PROVE  Consistent'
<1>1. inode' = inode /\ block' = block /\ bitmap' = bitmap
  BY DEF disk
<1>2. \A node, k : EntryAt(node, k)' = EntryAt(node, k)
  BY <1>1 DEF EntryAt
<1>3. /\ \A i : AddressesOf(i)' = AddressesOf(i)
      /\ Live' = Live
  BY <1>1 DEF AddressesOf, Live
<1>4. Directories' = Directories /\ \A i : Sorted(i)' = Sorted(i)
  BY <1>1 DEF Directories, Sorted, EntryAt
<1>5. \A i : References(i)' = References(i)
  BY <1>1, <1>4 DEF References, EntryAt
<1>6. Clean'
  BY <1>1, <1>3, <1>5 DEF Clean, Consistent
<1>7. Sound'
  BY <1>1, <1>2, <1>3, <1>4 DEF Sound, Consistent
<1> QED
  BY <1>6, <1>7 DEF Consistent

\* No block is in a directory twice, and none is missing.
LEMMA BlocksDiffer ==
  ASSUME NEW node \in IndexNodes, NEW n \in Nat, NEW A, A = Addrs(node), Cardinality(A) = n,
         \A k \in DOMAIN NoAddresses : node.addr[k] # NoBlock <=> k < n
  PROVE  \A k \in 1 .. MaxDirectBlocks - 1 : node.addr[k] = node.addr[0] => node.addr[k] = NoBlock
<1> SUFFICES ASSUME NEW k \in 1 .. MaxDirectBlocks - 1, node.addr[k] = node.addr[0], node.addr[k] # NoBlock
             PROVE  FALSE
  OBVIOUS
<1>1. DOMAIN NoAddresses = 0 .. MaxDirectBlocks - 1 /\ MaxDirectBlocks \in Nat
  BY Sizes DEF NoAddresses
<1>2. k \in Nat /\ k < n /\ k >= 1
  BY <1>1
<1> DEFINE h == [j \in 1 .. n - 1 |-> node.addr[j]]
<1>3. ASSUME NEW j \in 1 .. n - 1 PROVE node.addr[j] \in A
  <2>1. n <= MaxDirectBlocks
    <3>1. CASE n > MaxDirectBlocks
      <4>1. \A i \in 0 .. MaxDirectBlocks - 1 : node.addr[i] # NoBlock
        BY <1>1, <3>1
      <4>2. A = {node.addr[i] : i \in 0 .. MaxDirectBlocks - 1}
        BY <1>1, <4>1 DEF Addrs
      <4> DEFINE g == [i \in 1 .. MaxDirectBlocks |-> node.addr[i - 1]]
      <4>3. g \in Surjection(1 .. MaxDirectBlocks, A)
        <5>1. \A i \in 1 .. MaxDirectBlocks : i - 1 \in 0 .. MaxDirectBlocks - 1
          BY <1>1
        <5>2. \A i \in 0 .. MaxDirectBlocks - 1 : i + 1 \in 1 .. MaxDirectBlocks /\ g[i + 1] = node.addr[i]
          BY <1>1
        <5>3. g \in [1 .. MaxDirectBlocks -> A]
          BY <4>2, <5>1
        <5>4. \A a \in A : \E i \in 1 .. MaxDirectBlocks : g[i] = a
          BY <4>2, <5>2
        <5> HIDE DEF g
        <5> QED
          BY <5>3, <5>4 DEF Surjection
      <4> HIDE DEF g
      <4>4. Cardinality(A) <= MaxDirectBlocks
        BY <1>1, <4>3, FS_SurjCardinalityBound DEF ExistsSurjection
      <4> QED
        BY <1>1, <3>1, <4>4
    <3> QED
      BY <1>1, <3>1
  <2>2. j \in DOMAIN NoAddresses /\ j < n
    BY <1>1, <2>1
  <2> QED
    BY <2>2 DEF Addrs
<1>4. ASSUME NEW a \in A PROVE \E j \in 1 .. n - 1 : h[j] = a
  <2>1. PICK j \in DOMAIN NoAddresses : node.addr[j] = a /\ a # NoBlock
    BY DEF Addrs
  <2>2. j \in Nat /\ j < n
    BY <1>1, <2>1
  <2>3. CASE j = 0
    <3>1. k \in 1 .. n - 1 /\ h[k] = a
      BY <1>2, <2>1, <2>3
    <3> QED
      BY <3>1
  <2>4. CASE j # 0
    <3>1. j \in 1 .. n - 1 /\ h[j] = a
      BY <2>1, <2>2, <2>4
    <3> QED
      BY <3>1
  <2> QED
    BY <2>3, <2>4
<1>5. h \in [1 .. n - 1 -> A]
  BY <1>3
<1> HIDE DEF h
<1>6. h \in Surjection(1 .. n - 1, A)
  BY <1>4, <1>5 DEF Surjection
<1>7. n - 1 \in Nat
  BY <1>2
<1>8. Cardinality(A) <= n - 1
  BY <1>6, <1>7, FS_SurjCardinalityBound DEF ExistsSurjection
<1> QED
  BY <1>8

LEMMA ConsistentRoot ==
  ASSUME DiskOK, Consistent
  PROVE  /\ Addrs(inode[Root]) \subseteq bitmap /\ Full(inode[Root])
         /\ \A k \in 1 .. MaxDirectBlocks - 1 :
              inode[Root].addr[k] = inode[Root].addr[0] => inode[Root].addr[k] = NoBlock
<1>1. /\ inode[Root].mode = "dir" /\ Root \in Live /\ inode[Root].size >= 2
      /\ NodeOK(inode[Root]) /\ inode[Root] \in IndexNodes /\ inode[Root].size \in Nat
  BY RootBegins, NoInodeOut, NodeParts DEF DiskOK, NodeAt
<1>2. PICK n : n = (inode[Root].size + PerBlock - 1) \div PerBlock
  OBVIOUS
<1>3. /\ BlocksOf(inode[Root]) = n /\ n \in Nat
  BY <1>1, <1>2, Sizes DEF BlocksOf
<1>4. AddressesOf(Root) = Addrs(inode[Root])
  BY DEF AddressesOf, Addrs
<1>5. /\ \A k \in DOMAIN NoAddresses : inode[Root].addr[k] # NoBlock <=> k < n
      /\ Cardinality(Addrs(inode[Root])) = n
  BY <1>1, <1>3, <1>4 DEF Consistent, Sound
<1>6. \A k \in 1 .. MaxDirectBlocks - 1 :
        inode[Root].addr[k] = inode[Root].addr[0] => inode[Root].addr[k] = NoBlock
  BY <1>1, <1>3, <1>5, BlocksDiffer
<1>7. Addrs(inode[Root]) \subseteq bitmap
  BY <1>4, RootIsLive DEF Consistent
<1>8. ASSUME NEW k \in 0 .. inode[Root].size - 1 PROVE inode[Root].addr[k \div PerBlock] # NoBlock
  BY <1>1, <1>2, <1>5, AddressAt, BlockCounted
<1> QED
  BY <1>1, <1>6, <1>7, <1>8 DEF Full

\* What the root of a consistent file system shows.
RootNow == {EntryAt(inode[Root], k) : k \in 2 .. inode[Root].size - 1}

LEMMA ConsistentShows ==
  ASSUME DiskOK, Consistent, NEW S, Shows(S, block, inode[Root])
  PROVE  RootNow \subseteq S /\ Shows(RootNow, block, inode[Root])
<1>1. /\ inode[Root].size >= 2 /\ Sorted(Root)
      /\ EntryAt(inode[Root], 0) = Entry(Root, Dot) /\ EntryAt(inode[Root], 1) = Entry(Root, DotDot)
      /\ inode[Root].size \in Nat
  BY RootBegins, NoInodeOut DEF DiskOK, IndexNodes
<1>2. ASSUME NEW k \in 2 .. inode[Root].size - 1 PROVE EntryAt(inode[Root], k) \in S
  <2>1. k \in 0 .. inode[Root].size - 1 /\ 1 \in 0 .. inode[Root].size - 1 /\ 1 < k /\ k # 0 /\ k # 1
    BY <1>1
  <2>2. EntryAt(inode[Root], 1).name < EntryAt(inode[Root], k).name
    BY <1>1, <2>1 DEF Sorted
  <2>3. EntryAt(inode[Root], 1).name = 0
    BY <1>1 DEF Entry, DotDot
  <2>4. EntryAt(inode[Root], k).name # Blank.name
    BY <2>2, <2>3 DEF Blank, Entry
  <2>5. Fits(S, EntryAt(inode[Root], k), k)
    BY <2>1, EntryNow DEF Shows
  <2> QED
    BY <2>1, <2>4, <2>5 DEF Fits
<1>3. ASSUME NEW k \in 0 .. inode[Root].size - 1 PROVE Fits(RootNow, EntryAt(inode[Root], k), k)
  <2>1. CASE k \in {0, 1}
    BY <1>1, <2>1 DEF Fits
  <2>2. CASE k \notin {0, 1}
    <3>1. k \in 2 .. inode[Root].size - 1
      BY <1>1, <2>2
    <3>2. EntryAt(inode[Root], k) \in RootNow
      BY <3>1 DEF RootNow
    <3> QED
      BY <3>1, <3>2 DEF Fits
  <2> QED
    BY <2>1, <2>2
<1>4. Shows(RootNow, block, inode[Root])
  BY <1>3, EntryNow DEF Shows
<1> QED
  BY <1>2, <1>4 DEF RootNow

LEMMA RestNow ==
  ASSUME FsInv, InOrder, pending = <<>>, Consistent
  PROVE  Rest(RootNow, block)
<1>1. PICK S : Rest(S, block)
  BY AtReady
<1>2. RootNow \subseteq S /\ Shows(RootNow, block, inode[Root]) /\ Among(pending) = {} /\ DOMAIN pending = {}
  BY <1>1, ConsistentShows, NothingPending DEF Rest, FsInv
<1>3. Once(RootNow) /\ RootNow \subseteq NamedEntries
  BY <1>1, <1>2 DEF Rest, Once
<1> QED
  BY <1>1, <1>2, <1>3 DEF Rest, RootWrites

\* What the program reads first.
LEMMA StartInOrder ==
  ASSUME FsInv, FsInv', InOrder, NEW c, NEW at \in {"creat", "link", "symlink", "unlink"}, Start(c, at)
  PROVE  InOrder'
<1>1. /\ pc = "idle" /\ Consistent /\ call' = c /\ pc' = at
      /\ mem' = [Fresh EXCEPT !.root = inode[Root]] /\ UNCHANGED disk /\ pending' = pending
  BY DEF Start
<1>2. pending = <<>> /\ pending' = <<>> /\ DiskOK
  BY <1>1, Kinds DEF FsInv, CallOK, InsertPcs
<1>3. inode' = inode /\ block' = block /\ bitmap' = bitmap
  BY <1>1 DEF disk
<1>4. mem'.root = inode[Root] /\ mem'.ino = NoInode
  BY <1>1 DEF Fresh
<1>5. PICK S, r, bm : S = RootNow /\ r = inode[Root] /\ bm = bitmap
  OBVIOUS
<1>6. Rest(S, block)'
  BY <1>1, <1>2, <1>5, RestNow, SettledRest
<1>7. /\ Shows(S, block, r) /\ Addrs(r) \subseteq bm /\ Full(r)
      /\ \A k \in 1 .. MaxDirectBlocks - 1 : r.addr[k] = r.addr[0] => r.addr[k] = NoBlock
      /\ bm \subseteq Blocks
  <2>1. PICK Z : Rest(Z, block)
    BY <1>2, AtReady
  <2> QED
    BY <1>1, <1>2, <1>5, <2>1, ConsistentRoot, ConsistentShows DEF Rest, DiskOK
<1>8. Among(pending') = {} /\ DOMAIN pending' = {}
  BY <1>2, NothingPending
<1>9. ~ InRoot' /\ Copies' = {r}
  BY <1>1, <1>3, <1>4, <1>5, <1>8 DEF InRoot, Copies
<1>10. PICK blk : blk = block
  OBVIOUS
<1>11. CopiesOK(S, blk, bm)'
  BY <1>4, <1>5, <1>7, <1>9, <1>10 DEF CopiesOK
<1>12. BitsAhead(bm)'
  BY <1>3, <1>5, <1>7, <1>8 DEF BitsAhead
<1>13. ASSUME NEW i \in Inodes \ {Root}, inode'[i].nlink > 0 PROVE Apart(bm, inode[i])'
  <2>1. i \in Live /\ Root \in Live
    BY <1>1, <1>2, <1>3, <1>13, RootBegins DEF Live
  <2>2. AddressesOf(i) = Addrs(inode[i]) /\ AddressesOf(Root) = Addrs(r)
    BY <1>5 DEF AddressesOf, Addrs
  <2>3. PICK A : A = Addrs(inode[i])
    OBVIOUS
  <2>4. A \cap Addrs(r) = {} /\ A \subseteq bm
    BY <1>1, <1>5, <2>1, <2>2, <2>3 DEF Consistent, Sound, Clean
  <2>5. Clear(A)'
    BY <1>9, <2>4 DEF Clear
  <2>6. Addrs(inode[i])' = A
    BY <1>3, <2>3 DEF Addrs
  <2> QED
    BY <2>4, <2>5, <2>6 DEF Apart
<1>14. OthersApart(bm)'
  BY <1>8, <1>13 DEF OthersApart
<1>15. AllLive(S)'
  <2>1. \A e \in S : inode[e.ino].nlink > 0
    <3>1. ASSUME NEW e \in S PROVE inode[e.ino].nlink > 0
      <4>1. PICK k \in 2 .. inode[Root].size - 1 : e = EntryAt(inode[Root], k)
        BY <1>5 DEF RootNow
      <4>2. k \in 0 .. inode[Root].size - 1
        BY <1>2, NoInodeOut DEF DiskOK, IndexNodes
      <4> QED
        BY <1>1, <1>2, <4>1, <4>2, ReferredIsLive DEF Consistent
    <3> QED
      BY <3>1
  <2> QED
    BY <1>3, <1>8, <2>1 DEF AllLive
<1>16. FileApart(bm)' /\ FileKept(S)' /\ DirKept(S)'
  BY <1>1 DEF FileApart, FileKept, DirKept, FilePcs
<1>17. Untouched'
  BY <1>1, <1>2, <1>3, <1>4, SameConsistent DEF Untouched
<1>18. Work(S, blk, bm)'
  BY <1>11, <1>12, <1>14, <1>15, <1>16, <1>17 DEF Work
<1>19. Rest(S, blk)'
  BY <1>3, <1>6, <1>10
<1> QED
  BY <1>18, <1>19 DEF InOrder

LEMMA StartsInOrder ==
  ASSUME FsInv, FsInv', InOrder, Create \/ Mkdir \/ Ln \/ LnS \/ Rm
  PROVE  InOrder'
<1>1. PICK c, at : at \in {"creat", "link", "symlink", "unlink"} /\ Start(c, at)
  BY DEF Create, Mkdir, Ln, LnS, Rm
<1> QED
  BY <1>1, StartInOrder

LEMMA InitInOrder == Init => InOrder
<1> SUFFICES ASSUME Init PROVE InOrder
  OBVIOUS
<1>1. DiskOK /\ pending = <<>> /\ Among(pending) = {} /\ DOMAIN pending = {} /\ ~ Working
  BY InitFs, NothingPending DEF Init, FsInv, Working
<1> DEFINE zero == [Data EXCEPT !.entry[0] = Entry(Root, Dot), !.entry[1] = Entry(Root, DotDot)]
<1>2. /\ 0 \in Blocks /\ Root \in Inodes /\ block[0] = zero
      /\ inode[Root].size = 2 /\ inode[Root].addr[0] = 0
  <2>1. 0 \in Blocks /\ Root \in Inodes /\ 0 \in 0 .. MaxDirectBlocks - 1
    BY Sizes, NoInodeOut DEF Blocks
  <2>2. inode[Root] = [mode |-> "dir", nlink |-> 3, size |-> 2, addr |-> [NoAddresses EXCEPT ![0] = 0]]
    BY <2>1 DEF Init
  <2> QED
    BY <2>1, <2>2 DEF Init, NoAddresses
<1>3. 0 \in 0 .. PerBlock - 1 /\ 1 \in 0 .. PerBlock - 1
      /\ 0 \div PerBlock = 0 /\ 1 \div PerBlock = 0 /\ 0 % PerBlock = 0 /\ 1 % PerBlock = 1
  BY Sizes
<1>4. zero.entry[0] = Entry(Root, Dot) /\ zero.entry[1] = Entry(Root, DotDot)
  BY <1>3 DEF Data
<1> HIDE DEF zero
<1>5. /\ EntryIn(block, inode[Root], 0) = Entry(Root, Dot)
      /\ EntryIn(block, inode[Root], 1) = Entry(Root, DotDot)
  BY <1>2, <1>3, <1>4, NoInodeOut DEF EntryIn
<1>6. Shows({}, block, inode[Root])
  BY <1>2, <1>5 DEF Shows, Fits
<1>7. Rest({}, block)
  BY <1>1, <1>6 DEF Rest, Once, Ahead, RootWrites, DiskOK
<1>8. Work({}, block, {})
  BY <1>1 DEF Work
<1> QED
  BY <1>7, <1>8 DEF InOrder

LEMMA StutterInOrder ==
  ASSUME FsInv, InOrder, UNCHANGED vars
  PROVE  InOrder'
<1>1. PICK S, blk, bm : Rest(S, blk) /\ Work(S, blk, bm)
  BY DEF InOrder
<1>2. /\ bitmap' = bitmap /\ inode' = inode /\ block' = block /\ UNCHANGED disk
      /\ pending' = pending /\ pc' = pc /\ call' = call /\ mem' = mem
  BY DEF vars, disk
<1>3. Rest(S, blk)'
  BY <1>1, <1>2 DEF Rest, Once, Ahead, RootWrites, ModeKept
<1>4. Copies' = Copies /\ InRoot' = InRoot /\ Working' = Working /\ MoreToCome' = MoreToCome
  BY <1>2 DEF Copies, InRoot, Working, MoreToCome
<1>5. CASE ~ Working
  BY <1>3, <1>4, <1>5 DEF Work, InOrder
<1>6. CASE Working
  <2>1. CopiesOK(S, blk, bm)' /\ BitsAhead(bm)' /\ AllLive(S)' /\ FileKept(S)'
    BY <1>1, <1>2, <1>4, <1>6 DEF Work, CopiesOK, BitsAhead, AllLive, FileKept
  <2>2. \A A : Clear(A) => Clear(A)'
    BY <1>4 DEF Clear
  <2>3. OthersApart(bm)' /\ FileApart(bm)' /\ DirKept(S)'
    BY <1>1, <1>2, <1>4, <1>6, <2>2 DEF Work, OthersApart, Apart, FileApart, DirKept, Clear
  <2>4. Untouched'
    BY <1>1, <1>2, <1>6, SameConsistent DEF Work, Untouched, Again
  <2> QED
    BY <1>3, <1>4, <1>6, <2>1, <2>3, <2>4 DEF Work, InOrder
<1> QED
  BY <1>5, <1>6

LEMMA FlushInOrder ==
  ASSUME FsInv, InOrder, Flush
  PROVE  InOrder'
<1>1. PICK S, blk, bm : Rest(S, blk) /\ Work(S, blk, bm)
  BY DEF InOrder
<1> QED
  BY <1>1, FlushKeepsRest, FlushKeepsWork DEF InOrder

LEMMA NextInOrder == FsInv /\ InOrder /\ [Next]_vars => InOrder'
<1> SUFFICES ASSUME FsInv, InOrder, [Next]_vars PROVE InOrder'
  OBVIOUS
<1>1. FsInv'
  BY NextFs
<1>2. CASE Create \/ Mkdir \/ Ln \/ LnS \/ Rm
  BY <1>1, <1>2, StartsInOrder
<1>3. CASE Creat
  BY <1>1, <1>3, CreatNewInOrder, CreatTruncatesInOrder, EndsInOrder DEF Creat
<1>4. CASE Insert
  BY <1>1, <1>4, OpenDirInOrder, PlaceInOrder, PlaceLastInOrder, EndsInOrder DEF Insert
<1>5. CASE WriteAll
  BY <1>1, <1>5, WriteInOrder, EndsInOrder DEF WriteAll
<1>6. CASE MkdirRest
  BY <1>1, <1>6, MkdirDotInOrder, MkdirIncInOrder, MkdirDotDotInOrder, MkdirParentInOrder,
     EndsInOrder DEF MkdirRest
<1>7. CASE LinkAll
  BY <1>1, <1>7, LinkInOrder, LinkedInOrder, EndsInOrder DEF LinkAll
<1>8. CASE SymlinkAll
  BY <1>1, <1>8, SymlinkInOrder, SymlinkTargetInOrder, SymlinkUndoInOrder, EndsInOrder DEF SymlinkAll
<1>9. CASE UnlinkAll
  BY <1>1, <1>9, UnlinkInOrder, PullInOrder, CutInOrder, EndsInOrder DEF UnlinkAll
<1>10. CASE FsckAll
  BY <1>10, FsckLinksInOrder, FsckBlocksInOrder, EndsInOrder DEF FsckAll
<1>11. CASE Return \/ Crash
  BY <1>11, EndsInOrder
<1>12. CASE Flush
  BY <1>12, FlushInOrder
<1>13. CASE UNCHANGED vars
  BY <1>13, StutterInOrder
<1> QED
  BY <1>2, <1>3, <1>4, <1>5, <1>6, <1>7, <1>8, <1>9, <1>10, <1>11, <1>12, <1>13 DEF Next

\* The root directory stays in order through every program, every stop and fsck:
\* no write of any program, in any order with the writes of an earlier one that
\* was stopped, gives it a second "." or "..", an entry of its own index node or
\* a directory under two names.
THEOREM SpecInOrder == Spec => []InOrder
BY InitInOrder, FsInvariance, NextInOrder, PTL DEF Spec
-----------------------------------------------------------------------------
(***************************************************************************)
(* What fsck finds in the root.                                            *)
(***************************************************************************)
LEMMA RootShown ==
  ASSUME FsInv, InOrder, pending = <<>>, NamesOnce, Positions(inode[Root], Blank.name) = {}
  PROVE  RootInOrder
<1> DEFINE r == inode[Root]
<1>1. PICK S : Rest(S, block)
  BY AtReady
<1>2. /\ S \subseteq NamedEntries /\ Once(S) /\ Shows(S, block, r)
      /\ DiskOK /\ r.size \in Nat /\ Root \in Directories
  BY <1>1, NoInodeOut DEF Rest, FsInv, DiskOK, IndexNodes, Directories
<1>3. \A n \in Names : n # Dot /\ n # DotDot
  BY Sizes DEF Dot, DotDot
<1>4. ASSUME NEW k \in 0 .. r.size - 1
      PROVE  /\ EntryAt(r, k).name \in {Dot, DotDot} <=> k < 2
             /\ k >= 2 => EntryAt(r, k) \in S /\ EntryAt(r, k).ino # Root
  <2>1. EntryAt(r, k).name # Blank.name
    BY DEF Positions
  <2>2. Fits(S, EntryAt(r, k), k)
    BY <1>2, EntryNow DEF Shows
  <2>3. CASE k = 0 /\ EntryAt(r, k) = Entry(Root, Dot)
    BY <2>3 DEF Entry
  <2>4. CASE k = 1 /\ EntryAt(r, k) = Entry(Root, DotDot)
    BY <2>4 DEF Entry
  <2>5. CASE k >= 2 /\ EntryAt(r, k) \in S
    BY <1>2, <1>3, <2>5 DEF NamedEntries
  <2> QED
    BY <2>1, <2>2, <2>3, <2>4, <2>5 DEF Fits
<1>5. ASSUME NEW j \in 2 .. r.size - 1, NEW k \in 2 .. r.size - 1,
             EntryAt(r, j).ino = EntryAt(r, k).ino, inode[EntryAt(r, k).ino].mode = "dir"
      PROVE  j = k
  <2>1. j \in 0 .. r.size - 1 /\ k \in 0 .. r.size - 1 /\ j >= 2 /\ k >= 2
    BY <1>2
  <2>2. EntryAt(r, j) \in S /\ EntryAt(r, k) \in S
    BY <1>4, <2>1
  <2>3. EntryAt(r, j).name = EntryAt(r, k).name
    BY <1>2, <1>5, <2>2 DEF Once
  <2> QED
    BY <1>2, <2>1, <2>3 DEF NamesOnce
<1> QED
  BY <1>2, <1>4, <1>5 DEF RootInOrder

\* An fsck that goes on has found no empty name in the root, and makes none.
NoBlank == Repairing => Positions(inode[Root], Blank.name) = {}

LEMMA SameRoot ==
  ASSUME block' = block, SameShape(Root)
  PROVE  Positions(inode[Root], Blank.name)' = Positions(inode[Root], Blank.name)
BY DEF SameShape, Positions, EntryAt

LEMMA FlushNoBlank ==
  ASSUME FsInv, Mending, NoBlank, Flush
  PROVE  NoBlank'
<1> DEFINE w == Head(pending)
<1>1. /\ UNCHANGED <<pc, call, mem>> /\ pending # <<>> /\ Writes(pending) /\ DiskOK
      /\ inode' = IF w.to = "inode" THEN [inode EXCEPT ![w.at] = w.node] ELSE inode
      /\ block' = IF w.to = "block" THEN [block EXCEPT ![w.at] = w.data] ELSE block
  BY DEF Flush, FsInv
<1>2. Repairing' = Repairing
  BY <1>1 DEF Repairing
<1> SUFFICES ASSUME Repairing PROVE Positions(inode[Root], Blank.name)' = {}
  BY <1>2 DEF NoBlank
<1>3. w \in Among(pending) /\ WriteOK(w)
  BY <1>1, FirstWrite, AmongHead
<1>4. Mends(w) /\ linkCounts[Root] # 0 /\ inode[Root] \in IndexNodes /\ Root \in Inodes
  BY <1>1, <1>3, NoInodeOut, LinkCountsType DEF Mending, LinksMend, DiskOK
<1> HIDE DEF w
<1>5. block' = block
  BY <1>1, <1>4 DEF Mends
<1>6. CASE w.to = "inode" /\ w.at = Root
  <2>1. inode'[Root] = w.node /\ w.node = [inode[Root] EXCEPT !.nlink = linkCounts[Root]]
    BY <1>1, <1>4, <1>6 DEF Mends, DiskOK
  <2>2. SameShape(Root)
    BY <1>4, <2>1 DEF SameShape, IndexNodes
  <2> QED
    BY <1>5, <2>2, SameRoot DEF NoBlank
<1>7. CASE ~ (w.to = "inode" /\ w.at = Root)
  <2>1. inode'[Root] = inode[Root]
    BY <1>1, <1>4, <1>7 DEF DiskOK
  <2>2. SameShape(Root)
    BY <2>1 DEF SameShape
  <2> QED
    BY <1>5, <2>2, SameRoot DEF NoBlank
<1> QED
  BY <1>6, <1>7

LEMMA NextNoBlank == FsInv /\ Mending /\ NoBlank /\ [Next]_vars => NoBlank'
<1> SUFFICES ASSUME FsInv, Mending, NoBlank, [Next]_vars PROVE NoBlank'
  OBVIOUS
<1>1. ASSUME UNCHANGED disk, Positions(inode[Root], Blank.name) = {} PROVE NoBlank'
  <2>1. block' = block /\ SameShape(Root)
    BY <1>1 DEF disk, SameShape
  <2> QED
    BY <1>1, <2>1, SameRoot DEF NoBlank
<1>2. CASE FsckLinks
  BY <1>1, <1>2 DEF FsckLinks, BlankReached
<1>3. CASE FsckBlocks
  <2>1. UNCHANGED disk /\ pc = "fsckBlocks" /\ call \in FsckCalls /\ (call' = call \/ call'.refused)
    BY <1>3, WhoIsAt DEF FsckBlocks, Ready, Answered, FsInv, FsckCalls
  <2>2. CASE ~ call.refused
    BY <1>1, <2>1, <2>2, Kinds DEF NoBlank, Repairing
  <2>3. CASE call.refused
    BY <2>1, <2>3, <1>3 DEF NoBlank, Repairing, FsckBlocks, Answered, FsckCalls
  <2> QED
    BY <2>2, <2>3
<1>4. CASE Flush
  BY <1>4, FlushNoBlank
<1>5. CASE UNCHANGED vars
  <2>1. UNCHANGED disk /\ Repairing' = Repairing
    BY <1>5 DEF vars, disk, Repairing
  <2> QED
    BY <1>1, <2>1 DEF NoBlank
<1>6. ASSUME ~ Repairing' PROVE NoBlank'
  BY <1>6 DEF NoBlank
<1>7. CASE Create \/ Mkdir \/ Ln \/ LnS \/ Rm
  <2>1. pc' \in {"creat", "link", "symlink", "unlink"}
    BY <1>7 DEF Create, Mkdir, Ln, LnS, Rm, Start
  <2> QED
    BY <1>6, <2>1 DEF Repairing
<1>8. ASSUME call' = call, pc \notin {"idle", "fsck", "fsckBlocks", "exit"} PROVE NoBlank'
  BY <1>6, <1>8, Kinds DEF FsInv, CallOK, InsertPcs, Repairing
<1>9. CASE Creat \/ Insert \/ WriteAll
  BY <1>8, <1>9 DEF Creat, CreatNew, CreatFails, CreatTruncates, Insert, InsertFails, OpenDir, Place,
                  PlaceLast, WriteAll, Write, WriteFails, WriteMore, Close, Ready
<1>10. CASE LinkAll \/ SymlinkAll \/ UnlinkAll
  BY <1>8, <1>10 DEF LinkAll, Link, LinkFails, Linked, SymlinkAll, Symlink, SymlinkFails,
                  SymlinkTarget, SymlinkUndo, UnlinkAll, Unlink, UnlinkFails, Pull, Cut, Ready
<1>11. CASE MkdirDot \/ MkdirFails \/ MkdirInc \/ MkdirDotDot
  BY <1>8, <1>11 DEF MkdirDot, MkdirFails, MkdirInc, MkdirDotDot, Ready
<1>12. CASE MkdirParent
  <2>1. call \in MkdirCalls /\ (call' = call \/ pc' = "creat")
    BY <1>12, WhoIsAt DEF MkdirParent, Ready, FsInv
  <2> QED
    BY <1>6, <2>1, Kinds DEF Repairing
<1>13. CASE Fsck \/ Return \/ Crash
  BY <1>6, <1>13 DEF Fsck, Return, Crash, Repairing
<1>14. CASE FsckFails
  BY <1>6, <1>14 DEF FsckFails, Exit, FsInv, MemOK, Mems, Repairing
<1> QED
  BY <1>2, <1>3, <1>4, <1>5, <1>7, <1>9, <1>10, <1>11, <1>12, <1>13, <1>14 DEF Next, FsckAll, MkdirRest

LEMMA CountedRepairs == FsInv /\ InOrder /\ NoBlank /\ AsCounted => FsckRepairs
<1> SUFFICES ASSUME FsInv, InOrder, NoBlank, AsCounted,
                    Ended, call.kind = "fsck", ~ call.refused, mem.ok, NamesOnce
             PROVE  Clean
  BY DEF FsckRepairs
<1>1. bitmap = InUse /\ (\A i \in Inodes : inode[i].nlink = linkCounts[i]) /\ DiskOK
  BY DEF AsCounted, FsInv
<1>2. RootInOrder
  BY RootShown DEF Ended, NoBlank, Repairing
<1> QED
  BY <1>1, <1>2, CountsAreReferences DEF Clean, InUse

\* FsckRepairs: an fsck that may repair everything leaves the links and the free
\* list right, whatever it found, if no name is twice in a directory: the root is
\* in order then, and what fsck counts are the directory entries there are.
THEOREM SpecFsckRepairs == Spec => []FsckRepairs
<1>1. Init => Mending /\ NoBlank
  BY DEF Init, Mending, NoBlank, Repairing, Idle
<1>2. Spec => []Mending
  BY <1>1, FsInvariance, NextMends, PTL DEF Spec
<1>3. Spec => []NoBlank
  BY <1>1, <1>2, FsInvariance, NextNoBlank, PTL DEF Spec
<1> QED
  BY <1>3, FsInvariance, SpecInOrder, SpecFsckCounts, CountedRepairs, PTL

LEMMA FsckStepIdle ==
  ASSUME FsInv, InOrder, [Next]_vars, call.kind = "fsck", pending = <<>>, Clean, NamesOnce
  PROVE  pending' = <<>> /\ UNCHANGED disk
<1>1. DiskOK /\ pc \in {"fsck", "fsckBlocks", "exit"}
  BY Kinds DEF FsInv, CallOK, Idle
<1>2. CASE FsckLinks
  <2>1. Positions(inode[Root], Blank.name) = {}
    BY <1>2 DEF FsckLinks, BlankReached
  <2>2. RootInOrder
    BY <2>1, RootShown
  <2>3. LinkRepairs = <<>>
    BY <1>1, <2>2, CountsAreReferences, NothingToMend DEF Clean
  <2> QED
    BY <1>2, <2>3 DEF FsckLinks, Answered, LinkRepairs
<1>3. CASE FsckBlocks
  <2>1. BitRepairs = <<>>
    BY NothingToMark DEF Clean, InUse
  <2> QED
    BY <1>3, <2>1 DEF FsckBlocks, Answered, BitRepairs
<1>4. CASE FsckFails \/ Return \/ Crash \/ UNCHANGED vars
  BY <1>4 DEF FsckFails, Return, Crash, vars, disk
<1>5. ASSUME Fsck \/ Flush PROVE FALSE
  BY <1>1, <1>5 DEF Fsck, Flush
<1>6. ASSUME Create \/ Mkdir \/ Ln \/ LnS \/ Rm PROVE FALSE
  BY <1>1, <1>6 DEF Create, Mkdir, Ln, LnS, Rm, Start
<1>7. ASSUME Creat \/ Insert \/ WriteAll PROVE FALSE
  BY <1>1, <1>7 DEF Creat, CreatNew, CreatFails, CreatTruncates, Insert, InsertFails, OpenDir, Place,
                    PlaceLast, WriteAll, Write, WriteFails, WriteMore, Close, Ready
<1>8. ASSUME MkdirRest \/ LinkAll PROVE FALSE
  BY <1>1, <1>8 DEF MkdirRest, MkdirDot, MkdirFails, MkdirInc, MkdirDotDot, MkdirParent,
                    LinkAll, Link, LinkFails, Linked, Ready
<1>9. ASSUME SymlinkAll \/ UnlinkAll PROVE FALSE
  BY <1>1, <1>9 DEF SymlinkAll, Symlink, SymlinkFails, SymlinkTarget, SymlinkUndo,
                    UnlinkAll, Unlink, UnlinkFails, Pull, Cut, Ready
<1> QED
  BY <1>2, <1>3, <1>4, <1>5, <1>6, <1>7, <1>8, <1>9 DEF Next, FsckAll

\* FsckKeepsClean: fsck writes nothing, at no step, on a file system that it need
\* not repair.
THEOREM SpecFsckKeepsClean == Spec => FsckKeepsClean
<1>1. FsInv /\ InOrder /\ [Next]_vars =>
        [call.kind = "fsck" /\ pending = <<>> /\ Clean /\ NamesOnce => pending' = <<>> /\ UNCHANGED disk]_vars
  BY FsckStepIdle
<1> QED
  BY <1>1, FsInvariance, SpecInOrder, PTL DEF Spec, FsckKeepsClean
=============================================================================
