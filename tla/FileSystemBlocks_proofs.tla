---------------------- MODULE FileSystemBlocks_proofs ----------------------
(***************************************************************************)
(* Theorems about the blocks of FileSystem, for any number of index nodes, *)
(* blocks and names: which block is whose while a program runs and         *)
(* wherever it is stopped, that the blocks in use are marked, and that the *)
(* entries of the directories, which are moved from place to place in      *)
(* their blocks, are missing one at a time.  They rest on FsInv and        *)
(* InOrder of FileSystem_proofs.                                           *)
(***************************************************************************)
EXTENDS FileSystem_proofs

-----------------------------------------------------------------------------
(***************************************************************************)
(* Which block is whose, while a program runs.  Index node i has the       *)
(* blocks of all its versions: the one on disk and those that may be       *)
(* written over it.                                                        *)
(***************************************************************************)
Written(i) == {w.node : w \in {v \in Among(pending) : v.to = "inode" /\ v.at = i}}

FileHeld(i) == pc \in FilePcs \cup {"target", "linked"} /\ mem.ino = i

DirHeld(i) == pc \in {"place", "pull"} /\ mem.dirNo = i

Later(i) ==
  Written(i) \cup (IF FileHeld(i) THEN {mem.file} ELSE {}) \cup (IF DirHeld(i) THEN {mem.dir} ELSE {})
    \cup (IF i = Root THEN {mem.root} ELSE {})

Owned(i) == UNION {Addrs(c) : c \in {d \in {inode[i]} \cup Later(i) : d.nlink # 0}}

OwnersApart == \A i, j \in Inodes : i # j => Owned(i) \cap Owned(j) = {}

\* mkdir uses a file it has truncated; it has no other argument.
Spared(i) ==
  /\ call.kind = "mkdir" /\ "file" \in harm /\ call.more = <<>>
  /\ pc \notin {"creat", "insert", "place"} /\ i = mem.ino

HeldIn(bm, i) ==
  /\ \A c \in Later(i) : c.nlink # 0 => Addrs(c) \subseteq bm
  /\ inode[i].nlink # 0 => Addrs(inode[i]) \subseteq bm \/ Written(i) # {}

\* The blocks bm stay marked.
Marked(bm) == BitsAhead(bm) /\ \A i \in Inodes : Spared(i) \/ HeldIn(bm, i)

\* The index node of the file is in use.
FileLives ==
  /\ pc \in FilePcs \cup {"target", "linked"} => mem.file.nlink > 0
  /\ pc \in {"target", "undo"} =>
       /\ inode[mem.ino].nlink > 0 \/ Written(mem.ino) # {}
       /\ \A c \in Written(mem.ino) : c.nlink > 0

Own ==
  call.kind \notin {"none", "fsck"} =>
    /\ FileLives
    /\ "broken" \notin harm => /\ OwnersApart
                               /\ (pc = "exit" /\ "shrink" \in harm) \/ \E bm : Marked(bm)
HasFile == FilePcs \cup {"target", "linked"}

LEMMA OwnedParts ==
  ASSUME FsInv, FileLives
  PROVE  /\ \A i \in Inodes : inode[i].nlink # 0 => Addrs(inode[i]) \subseteq Owned(i)
         /\ pc \in HasFile => Addrs(mem.file) \subseteq Owned(mem.ino)
         /\ pc \in {"place", "pull"} => Addrs(mem.dir) \subseteq Owned(mem.dirNo)
         /\ mem.root.nlink # 0 => Addrs(mem.root) \subseteq Owned(Root)
<1> USE DEF Owned
<1>1. \A i \in Inodes : inode[i].nlink # 0 => Addrs(inode[i]) \subseteq Owned(i)
  OBVIOUS
<1>2. pc \in HasFile => Addrs(mem.file) \subseteq Owned(mem.ino)
  <2> SUFFICES ASSUME pc \in HasFile PROVE Addrs(mem.file) \subseteq Owned(mem.ino)
    OBVIOUS
  <2>1. mem.file \in Later(mem.ino) BY DEF Later, FileHeld, HasFile
  <2>2. mem.file.nlink # 0
    <3>1. mem.file.nlink > 0 BY DEF FileLives, HasFile
    <3> QED BY <3>1
  <2> QED BY <2>1, <2>2
<1>3. pc \in {"place", "pull"} => Addrs(mem.dir) \subseteq Owned(mem.dirNo)
  <2> SUFFICES ASSUME pc \in {"place", "pull"} PROVE Addrs(mem.dir) \subseteq Owned(mem.dirNo)
    OBVIOUS
  <2>1. mem.dir \in Later(mem.dirNo) BY DEF Later, DirHeld
  <2>2. mem.dir.nlink # 0
    <3>1. mem.dir.nlink > 0 BY DEF FsInv, MemOK, DirOK
    <3> QED BY <3>1
  <2> QED BY <2>1, <2>2
<1>4. mem.root.nlink # 0 => Addrs(mem.root) \subseteq Owned(Root)
  <2>1. mem.root \in Later(Root) BY DEF Later
  <2> QED BY <2>1
<1> QED BY <1>1, <1>2, <1>3, <1>4

\* Nothing is written any more: what an index node has is marked.
LEMMA OwnedMarked ==
  ASSUME pending = <<>>, NEW bm, Marked(bm)
  PROVE  /\ bm \subseteq bitmap /\ bm \subseteq Blocks
         /\ \A i \in Inodes : ~ Spared(i) => Owned(i) \subseteq bm
<1>1. Among(pending) = {} BY NothingPending
<1>2. \A i : Written(i) = {} BY <1>1 DEF Written
<1>3. bm \subseteq bitmap /\ bm \subseteq Blocks BY <1>1 DEF Marked, BitsAhead
<1>4. ASSUME NEW i \in Inodes, ~ Spared(i) PROVE Owned(i) \subseteq bm
  <2>1. HeldIn(bm, i) BY <1>4 DEF Marked
  <2>2. \A d \in {inode[i]} \cup Later(i) : d.nlink # 0 => Addrs(d) \subseteq bm
    BY <2>1, <1>2 DEF HeldIn
  <2> QED BY <2>2 DEF Owned
<1> QED BY <1>3, <1>4

\* Index node i may have the blocks it had, and if it is o, those in F.
Mine(o, F, i) == Owned(i) \cup (IF i = o THEN F ELSE {})

\* What the program writes and has in memory after its step.
Claims(o, F) ==
  /\ mem'.root = mem.root
  /\ \A w \in Among(pending') :
       w.to = "inode" /\ w.node.nlink # 0 => Addrs(w.node) \subseteq Mine(o, F, w.at)
  /\ pc' \in HasFile => Addrs(mem'.file) \subseteq Mine(o, F, mem'.ino)
  /\ pc' \in {"place", "pull"} => Addrs(mem'.dir) \subseteq Mine(o, F, mem'.dirNo)

LEMMA LaterClaimed ==
  ASSUME FsInv, FileLives, call.kind \notin {"none", "fsck"}, UNCHANGED disk, NEW o, NEW F, Claims(o, F)
  PROVE  /\ \A i : \A c \in Later(i)' : c.nlink # 0 => Addrs(c) \subseteq Mine(o, F, i)
         /\ \A i \in Inodes : Owned(i)' \subseteq Mine(o, F, i)
<1>1. ASSUME NEW i, NEW c \in Later(i)', c.nlink # 0 PROVE Addrs(c) \subseteq Mine(o, F, i)
  <2>1. \/ \E w \in Among(pending') : w.to = "inode" /\ w.at = i /\ c = w.node
        \/ pc' \in HasFile /\ mem'.ino = i /\ c = mem'.file
        \/ pc' \in {"place", "pull"} /\ mem'.dirNo = i /\ c = mem'.dir
        \/ i = Root /\ c = mem'.root
    BY <1>1 DEF Later, Written, FileHeld, DirHeld, HasFile, Among
  <2>2. CASE i = Root /\ c = mem'.root
    <3>1. c = mem.root BY <2>2 DEF Claims
    <3>2. Addrs(mem.root) \subseteq Owned(Root) BY <3>1, <1>1, OwnedParts
    <3> QED BY <3>1, <3>2, <2>2 DEF Mine
  <2> QED BY <2>1, <2>2, <1>1 DEF Claims
<1>2. ASSUME NEW i \in Inodes PROVE Owned(i)' \subseteq Mine(o, F, i)
  <2>1. ASSUME NEW b \in Owned(i)' PROVE b \in Mine(o, F, i)
    <3>1. PICK c \in {inode'[i]} \cup Later(i)' : c.nlink # 0 /\ b \in Addrs(c)
      BY <2>1 DEF Owned, Addrs
    <3>2. CASE c \in Later(i)' BY <3>1, <3>2, <1>1
    <3>3. CASE c = inode'[i]
      <4>1. c = inode[i] BY <3>3 DEF disk
      <4>2. Addrs(c) \subseteq Owned(i) BY <4>1, <3>1, OwnedParts
      <4> QED BY <3>1, <4>2 DEF Mine
    <3> QED BY <3>1, <3>2, <3>3
  <2> QED BY <2>1
<1> QED BY <1>1, <1>2

LEMMA ApartStays ==
  ASSUME FsInv, FileLives, call.kind \notin {"none", "fsck"}, UNCHANGED disk, OwnersApart,
         NEW o, NEW F, Claims(o, F), \A i \in Inodes : i # o => Owned(i) \cap F = {}
  PROVE  OwnersApart'
<1>1. \A i \in Inodes : Owned(i)' \subseteq Mine(o, F, i) BY LaterClaimed
<1>2. ASSUME NEW i \in Inodes, NEW j \in Inodes, i # j PROVE Mine(o, F, i) \cap Mine(o, F, j) = {}
  <2>1. Owned(i) \cap Owned(j) = {} BY <1>2 DEF OwnersApart
  <2> QED BY <2>1, <1>2 DEF Mine
<1>3. ASSUME NEW i \in Inodes, NEW j \in Inodes, i # j PROVE (Owned(i) \cap Owned(j) = {})'
  BY <1>1, <1>2, <1>3
<1> QED BY <1>3 DEF OwnersApart, Inodes
\* Without the blocks of i, and with those in F, what is marked stays marked.
Steps(bm1, o, F) ==
  /\ Claims(o, F)
  /\ bm1 \subseteq Blocks
  /\ \A b \in bm1 : b \in bitmap \/ \E w \in Among(pending') : w.to = "bitmap" /\ w.at = b
  /\ \A w \in Among(pending') : w.to = "bitmap" /\ w.at \in bm1 => w.set
  /\ \A i \in Inodes : Spared(i) => Spared(i)'

LEMMA StepsMark ==
  ASSUME FsInv, FileLives, call.kind \notin {"none", "fsck"}, UNCHANGED disk, pending = <<>>,
         NEW bm, Marked(bm), OwnersApart, NEW o, NEW F, F \cap bitmap = {},
         F = {} \/ \A i \in Inodes : i # o => ~ Spared(i),
         NEW bm1, Steps(bm1, o, F),
         \A i \in Inodes : Spared(i)' \/ Mine(o, F, i) \subseteq bm1 \/ (i = o /\ HeldIn(bm1, i)')
  PROVE  OwnersApart' /\ Marked(bm1)'
<1>1. bm \subseteq bitmap BY OwnedMarked
<1>2. ASSUME NEW i \in Inodes, i # o PROVE Owned(i) \cap F = {}
  <2>1. CASE F = {} BY <2>1
  <2>2. CASE ~ Spared(i)
    <3>1. Owned(i) \subseteq bm BY <2>2, OwnedMarked
    <3> QED BY <3>1, <1>1
  <2> QED BY <2>1, <2>2, <1>2
<1>3. Claims(o, F) BY DEF Steps
<1>4. OwnersApart' BY <1>2, <1>3, ApartStays
<1>5. BitsAhead(bm1)'
  <2>1. bitmap' = bitmap BY DEF disk
  <2> QED BY <2>1 DEF Steps, BitsAhead, Among
<1>6. ASSUME NEW i \in Inodes, Mine(o, F, i) \subseteq bm1 PROVE HeldIn(bm1, i)'
  <2>1. \A c \in Later(i)' : c.nlink # 0 => Addrs(c) \subseteq bm1 BY <1>3, <1>6, LaterClaimed
  <2>2. inode'[i] = inode[i] BY DEF disk
  <2>3. inode[i].nlink # 0 => Addrs(inode[i]) \subseteq bm1 BY <1>6, OwnedParts DEF Mine
  <2> QED BY <2>1, <2>2, <2>3 DEF HeldIn, Addrs
<1>7. ASSUME NEW i \in Inodes PROVE (Spared(i) \/ HeldIn(bm1, i))'
  BY <1>6
<1>8. \A i \in Inodes : (Spared(i) \/ HeldIn(bm1, i))' BY <1>7
<1> QED BY <1>4, <1>5, <1>8 DEF Marked, Inodes

\* A step that takes free blocks for o.
Grows(o, F) ==
  /\ Claims(o, F)
  /\ F \subseteq Blocks \ bitmap
  /\ \A b \in F : \E w \in Among(pending') : w.to = "bitmap" /\ w.at = b
  /\ \A w \in Among(pending') : w.to = "bitmap" => w.set
  /\ \A i \in Inodes : Spared(i) => Spared(i)' /\ (F = {} \/ i = o)

LEMMA OwnGrow ==
  ASSUME FsInv, FileLives, call.kind \notin {"none", "fsck"}, UNCHANGED disk, pending = <<>>,
         NEW bm, Marked(bm), OwnersApart, NEW o, NEW F, Grows(o, F)
  PROVE  OwnersApart' /\ Marked(bm \cup F)'
<1>1. bm \subseteq bitmap /\ bm \subseteq Blocks /\ \A i \in Inodes : ~ Spared(i) => Owned(i) \subseteq bm
  BY OwnedMarked
<1>2. F \cap bitmap = {} /\ (F = {} \/ \A i \in Inodes : i # o => ~ Spared(i)) BY DEF Grows
<1>3. Steps(bm \cup F, o, F) BY <1>1 DEF Grows, Steps
<1>4. \A i \in Inodes : Spared(i)' \/ Mine(o, F, i) \subseteq bm \cup F BY <1>1 DEF Grows, Mine
<1> QED BY <1>2, <1>3, <1>4, StepsMark

\* A step that frees blocks of index node i.
Frees(A, i) ==
  /\ Claims(i, {})
  /\ i \in Inodes /\ inode[i].nlink # 0 /\ A \subseteq Addrs(inode[i])
  /\ \A w \in Among(pending') : w.to = "bitmap" => w.at \notin Blocks \ A
  /\ \A j \in Inodes : Spared(j) => Spared(j)'

LEMMA OwnFree ==
  ASSUME FsInv, FileLives, call.kind \notin {"none", "fsck"}, UNCHANGED disk, pending = <<>>,
         NEW bm, Marked(bm), OwnersApart, NEW A, NEW i, Frees(A, i),
         Spared(i)' \/ HeldIn(bm \ A, i)'
  PROVE  OwnersApart' /\ Marked(bm \ A)'
<1>1. bm \subseteq bitmap /\ bm \subseteq Blocks /\ \A j \in Inodes : ~ Spared(j) => Owned(j) \subseteq bm
  BY OwnedMarked
<1>2. A \subseteq Owned(i)
  <2>1. Addrs(inode[i]) \subseteq Owned(i) BY OwnedParts DEF Frees
  <2> QED BY <2>1 DEF Frees
<1>3. Steps(bm \ A, i, {})
  <2>1. \A w \in Among(pending') : w.to = "bitmap" => w.at \notin bm \ A BY <1>1 DEF Frees
  <2> QED BY <1>1, <2>1 DEF Frees, Steps
<1>4. ASSUME NEW j \in Inodes PROVE Spared(j)' \/ Mine(i, {}, j) \subseteq bm \ A \/ (j = i /\ HeldIn(bm \ A, j)')
  <2>1. CASE j = i BY <2>1
  <2>2. CASE Spared(j) BY <2>2 DEF Frees
  <2>3. CASE j # i /\ ~ Spared(j)
    <3>1. Owned(j) \cap Owned(i) = {} BY <2>3 DEF OwnersApart, Frees
    <3> QED BY <1>1, <1>2, <3>1, <2>3 DEF Mine
  <2> QED BY <2>1, <2>2, <2>3
<1> DEFINE F == {}
<1>5. F \cap bitmap = {} /\ F = {} OBVIOUS
<1> QED BY <1>3, <1>4, StepsMark
-----------------------------------------------------------------------------
(***************************************************************************)
(* A write reaches the disk; a program starts.                             *)
(***************************************************************************)
LEMMA FlushOwn ==
  ASSUME FsInv, Own, Flush
  PROVE  Own'
<1> DEFINE w == Head(pending)
<1>1. Writes(pending) /\ DiskOK /\ pending # <<>> /\ pending' = Tail(pending)
      /\ inode' = (IF w.to = "inode" THEN [inode EXCEPT ![w.at] = w.node] ELSE inode)
      /\ bitmap' = (IF w.to = "bitmap" THEN IF w.set THEN bitmap \cup {w.at} ELSE bitmap \ {w.at}
                    ELSE bitmap)
      /\ inode \in [Inodes -> IndexNodes] /\ Root \in Inodes
  BY NoInodeOut, Zenon DEF FsInv, Flush, DiskOK
<1>2. /\ w \in Among(pending) /\ WriteOK(w) /\ Among(pending) = {w} \cup Among(pending')
  BY <1>1, OneWriteLess
<1>3. mem' = mem /\ pc' = pc /\ call' = call /\ harm' = harm
  BY DEF Flush
<1> HIDE DEF w
<1>4. SUFFICES ASSUME call.kind \notin {"none", "fsck"} PROVE Own'
  BY <1>3 DEF Own
<1>5. \A i \in Inodes : \/ inode'[i] = inode[i] /\ Written(i)' = Written(i)
                        \/ inode'[i] \in Written(i) /\ Written(i)' \subseteq Written(i)
  <2>1. ASSUME NEW i \in Inodes, w.to = "inode", w.at = i
        PROVE  inode'[i] \in Written(i) /\ Written(i)' \subseteq Written(i)
    <3>1. inode'[i] = w.node BY <1>1, <2>1
    <3> QED BY <1>2, <2>1, <3>1 DEF Written
  <2>2. ASSUME NEW i \in Inodes, ~ (w.to = "inode" /\ w.at = i)
        PROVE  inode'[i] = inode[i] /\ Written(i)' = Written(i)
    <3>1. inode'[i] = inode[i] BY <1>1, <2>2
    <3>2. {v \in Among(pending) : v.to = "inode" /\ v.at = i} = {v \in Among(pending') : v.to = "inode" /\ v.at = i}
      BY <1>2, <2>2
    <3>3. Written(i)' = Written(i) BY <3>2 DEF Written, Among
    <3> QED BY <3>1, <3>3
  <2> QED BY <2>1, <2>2
<1>6. \A i \in Inodes : Later(i)' \subseteq Later(i)
  BY <1>3, <1>5 DEF Later, FileHeld, DirHeld
<1>7. \A i \in Inodes : inode'[i] = inode[i] \/ inode'[i] \in Later(i)
  BY <1>5 DEF Later
<1>8. FileLives'
  <2>1. FileLives BY <1>4 DEF Own
  <2>2. ASSUME NEW i \in Inodes, i = mem.ino, pc \in {"target", "undo"}
        PROVE  /\ inode'[i].nlink > 0 \/ Written(i)' # {}
               /\ \A c \in Written(i)' : c.nlink > 0
    <3>1. inode[i].nlink > 0 \/ Written(i) # {} BY <2>1, <2>2 DEF FileLives
    <3>2. \A c \in Written(i) : c.nlink > 0 BY <2>1, <2>2 DEF FileLives
    <3>3. CASE inode'[i] = inode[i] /\ Written(i)' = Written(i) BY <3>1, <3>2, <3>3
    <3>4. CASE inode'[i] \in Written(i) /\ Written(i)' \subseteq Written(i) BY <3>2, <3>4
    <3> QED BY <3>3, <3>4, <1>5
  <2>3. pc \in FilePcs \cup {"target", "linked"} => mem.file.nlink > 0 BY <2>1 DEF FileLives
  <2>4. pc \in {"target", "undo"} => mem.ino \in Inodes BY DEF FsInv, MemOK, FileOK
  <2> QED BY <1>3, <2>2, <2>3, <2>4 DEF FileLives, Written
<1>9. ASSUME OwnersApart PROVE OwnersApart'
  <2>1. \A i \in Inodes : Owned(i)' \subseteq Owned(i)
    BY <1>6, <1>7 DEF Owned, Addrs
  <2> QED BY <1>9, <2>1 DEF OwnersApart, Inodes
<1>10. ASSUME NEW bm, Marked(bm) PROVE Marked(bm)'
  <2>1. BitsAhead(bm)'
    <3>1. BitsAhead(bm) BY <1>10 DEF Marked
    <3>2. ASSUME NEW b \in bm PROVE b \in bitmap' \/ \E v \in Among(pending') : v.to = "bitmap" /\ v.at = b
      <4>1. CASE w.to = "bitmap" /\ w.at = b
        BY <1>1, <1>2, <3>1, <4>1 DEF BitsAhead
      <4>2. CASE ~ (w.to = "bitmap" /\ w.at = b)
        BY <1>1, <1>2, <3>1, <4>2 DEF BitsAhead
      <4> QED BY <4>1, <4>2
    <3> QED BY <1>2, <3>1, <3>2 DEF BitsAhead
  <2>2. ASSUME NEW i \in Inodes, HeldIn(bm, i) PROVE HeldIn(bm, i)'
    <3>1. \A c \in Later(i)' : c.nlink # 0 => Addrs(c) \subseteq bm
      BY <1>6, <2>2 DEF HeldIn
    <3>2. inode'[i].nlink # 0 => Addrs(inode'[i]) \subseteq bm \/ Written(i)' # {}
      BY <1>5, <2>2 DEF HeldIn, Later
    <3> QED BY <3>1, <3>2 DEF HeldIn, Addrs
  <2>3. ASSUME NEW i \in Inodes PROVE (Spared(i) \/ HeldIn(bm, i))'
    <3>1. Spared(i) => Spared(i)' BY <1>3 DEF Spared
    <3> QED BY <1>10, <2>2, <3>1 DEF Marked
  <2>4. \A i \in Inodes : (Spared(i) \/ HeldIn(bm, i))' BY <2>3
  <2> QED BY <2>1, <2>4 DEF Marked, Inodes
<1>11. ASSUME "broken" \notin harm
       PROVE  OwnersApart' /\ ((pc = "exit" /\ "shrink" \in harm) \/ (\E bm : Marked(bm))')
  <2>1. OwnersApart /\ ((pc = "exit" /\ "shrink" \in harm) \/ \E bm : Marked(bm))
    BY <1>4, <1>11 DEF Own
  <2>2. (\E bm : Marked(bm)) => (\E bm : Marked(bm))'
    BY <1>10
  <2> QED BY <2>1, <2>2, <1>9
<1> QED BY <1>3, <1>8, <1>11 DEF Own

LEMMA StartOwn ==
  ASSUME FsInv, NEW c, NEW at \in {"creat", "link", "symlink", "unlink"}, Start(c, at)
  PROVE  Own'
<1>1. /\ pc' = at /\ Consistent /\ UNCHANGED <<disk, pending>> /\ mem'.root = inode[Root]
      /\ pending = <<>>
  <2>1. mem' = [Fresh EXCEPT !.root = inode[Root]] BY DEF Start
  <2>2. mem'.root = inode[Root] BY <2>1 DEF Fresh
  <2>3. pending = <<>> BY DEF Start, FsInv, CallOK, InsertPcs
  <2> QED BY <2>2, <2>3 DEF Start
<1>2. bitmap' = bitmap /\ inode' = inode /\ Root \in Inodes BY <1>1, NoInodeOut DEF disk
<1>3. Among(pending') = {}
  <2>1. pending' = <<>> BY <1>1
  <2> QED BY <2>1, NothingPending
<1>4. \A i : Written(i)' = {} BY <1>3 DEF Written, Among
<1>5. \A i : Later(i)' = IF i = Root THEN {inode[Root]} ELSE {}
  BY <1>1, <1>4 DEF Later, FileHeld, DirHeld, FilePcs
<1>6. \A i \in Inodes : AddressesOf(i) = Addrs(inode[i]) BY DEF AddressesOf, Addrs
<1>7. \A i \in Inodes : Owned(i)' = IF inode[i].nlink # 0 THEN Addrs(inode[i]) ELSE {}
  <2>1. ASSUME NEW i \in Inodes PROVE {inode[i]} \cup Later(i)' = {inode[i]} BY <1>5
  <2> QED BY <2>1, <1>2 DEF Owned, Addrs
<1>8. OwnersApart'
  <2>1. ASSUME NEW i \in Inodes, NEW j \in Inodes, i # j PROVE (Owned(i) \cap Owned(j) = {})'
    <3>1. CASE inode[i].nlink # 0 /\ inode[j].nlink # 0
      <4>1. i \in Live /\ j \in Live BY <3>1 DEF Live
      <4>2. AddressesOf(i) \cap AddressesOf(j) = {} BY <4>1, <1>1, <2>1 DEF Consistent, Sound
      <4> QED BY <4>2, <1>6, <1>7
    <3>2. CASE ~ (inode[i].nlink # 0 /\ inode[j].nlink # 0) BY <3>2, <1>7
    <3> QED BY <3>1, <3>2
  <2> QED BY <2>1 DEF OwnersApart, Inodes
<1>9. Marked(bitmap)'
  <2>1. bitmap \subseteq Blocks BY DEF FsInv, DiskOK
  <2>2. BitsAhead(bitmap)' BY <2>1, <1>2, <1>3 DEF BitsAhead, Among, Blocks
  <2>3. ASSUME NEW i \in Inodes, inode[i].nlink # 0 PROVE Addrs(inode[i]) \subseteq bitmap
    <3>1. i \in Live BY <2>3 DEF Live
    <3>2. AddressesOf(i) \subseteq bitmap BY <3>1, <1>1 DEF Consistent, Clean
    <3> QED BY <3>2, <1>6
  <2>4. ASSUME NEW i \in Inodes PROVE HeldIn(bitmap, i)'
    BY <2>3, <1>2, <1>5 DEF HeldIn, Addrs
  <2> QED BY <2>2, <2>4 DEF Marked, Inodes
<1>10. FileLives' BY <1>1 DEF FileLives, FilePcs
<1>11. (\E bm : Marked(bm))' BY <1>9
<1> QED BY <1>8, <1>10, <1>11 DEF Own
-----------------------------------------------------------------------------
(***************************************************************************)
(* The steps of a program.                                                 *)
(***************************************************************************)
LEMMA GrowsOwn ==
  ASSUME FsInv, Own, UNCHANGED disk, pending = <<>>, call.kind \notin {"none", "fsck"}, pc # "exit",
         harm \subseteq harm', FileLives', "broken" \notin harm' => \E o, F : Grows(o, F)
  PROVE  Own'
<1>1. FileLives BY DEF Own
<1>2. ASSUME "broken" \notin harm' PROVE OwnersApart' /\ (\E bm : Marked(bm))'
  <2>1. PICK o, F : Grows(o, F) BY <1>2
  <2>2. OwnersApart /\ \E bm : Marked(bm) BY <1>2 DEF Own
  <2>3. PICK bm : Marked(bm) BY <2>2
  <2>4. OwnersApart' /\ Marked(bm \cup F)' BY <1>1, <2>1, <2>2, <2>3, OwnGrow
  <2> QED BY <2>4
<1> QED BY <1>2 DEF Own

LEMMA FreesOwn ==
  ASSUME FsInv, Own, UNCHANGED disk, pending = <<>>, call.kind \notin {"none", "fsck"}, pc # "exit",
         harm \subseteq harm', FileLives',
         NEW A, NEW i, "broken" \notin harm' => Frees(A, i),
         \A bm : Marked(bm) => Spared(i)' \/ HeldIn(bm \ A, i)'
  PROVE  Own'
<1>1. FileLives BY DEF Own
<1>2. ASSUME "broken" \notin harm' PROVE OwnersApart' /\ (\E bm : Marked(bm))'
  <2>2. OwnersApart /\ \E bm : Marked(bm) BY <1>2 DEF Own
  <2>3. PICK bm : Marked(bm) BY <2>2
  <2>4. Spared(i)' \/ HeldIn(bm \ A, i)' BY <2>3
  <2>5. Frees(A, i) BY <1>2
  <2>6. OwnersApart' /\ Marked(bm \ A)' BY <1>1, <2>2, <2>3, <2>4, <2>5, OwnFree
  <2> QED BY <2>6
<1> QED BY <1>2 DEF Own

\* A program ends and writes nothing more.
LEMMA GivesUpOwn ==
  ASSUME FsInv, Own, UNCHANGED <<disk, pending, call>>, pending = <<>>, pc \notin {"idle", "exit"},
         NEW ok, Exit(ok), harm \subseteq harm'
  PROVE  Own'
<1>1. CASE call.kind \in {"none", "fsck"} BY <1>1 DEF Own
<1>2. CASE call.kind \notin {"none", "fsck"}
  <2>1. pc' = "exit" /\ mem'.root = mem.root /\ mem'.ino = mem.ino
    <3>1. mem' = [mem EXCEPT !.ok = ok] /\ pc' = "exit" BY DEF Exit
    <3>2. mem \in Mems BY DEF FsInv, MemOK
    <3> QED BY <3>1, <3>2 DEF Mems
  <2>2. Among(pending') = {}
    <3>1. pending' = <<>> OBVIOUS
    <3> QED BY <3>1, NothingPending
  <2>3. FileLives' BY <2>1 DEF FileLives, FilePcs
  <2>4. Claims(Root, {}) BY <2>1, <2>2 DEF Claims, HasFile, FilePcs
  <2>5. \A i \in Inodes : Spared(i) => Spared(i)' BY <2>1 DEF Spared
  <2>6. Grows(Root, {}) BY <2>2, <2>4, <2>5 DEF Grows
  <2>7. \E o, F : Grows(o, F) BY <2>6
  <2> QED BY <1>2, <2>3, <2>7, GrowsOwn
<1> QED BY <1>1, <1>2

LEMMA FailuresOwn ==
  ASSUME FsInv, Own
  PROVE  CreatFails \/ InsertFails \/ WriteFails \/ Close \/ MkdirFails \/ LinkFails
           \/ SymlinkFails \/ UnlinkFails \/ FsckFails => Own'
<1>1. ASSUME CreatFails PROVE Own' BY <1>1, GivesUpOwn DEF CreatFails, Ready
<1>2. ASSUME InsertFails PROVE Own'
  <2>1. harm \subseteq harm' BY <1>2 DEF InsertFails
  <2> QED BY <1>2, <2>1, GivesUpOwn DEF InsertFails, Ready
<1>3. ASSUME WriteFails PROVE Own' BY <1>3, GivesUpOwn DEF WriteFails, WriteMore, Ready
<1>4. ASSUME Close PROVE Own' BY <1>4, GivesUpOwn DEF Close, Ready
<1>5. ASSUME MkdirFails PROVE Own'
  <2>1. harm \subseteq harm' BY <1>5 DEF MkdirFails
  <2> QED BY <1>5, <2>1, GivesUpOwn DEF MkdirFails, Ready
<1>6. ASSUME LinkFails PROVE Own' BY <1>6, GivesUpOwn DEF LinkFails, Ready
<1>7. ASSUME SymlinkFails PROVE Own' BY <1>7, GivesUpOwn DEF SymlinkFails, Ready
<1>8. ASSUME UnlinkFails PROVE Own' BY <1>8, GivesUpOwn DEF UnlinkFails, Ready
<1>9. ASSUME FsckFails PROVE Own' BY <1>9, GivesUpOwn DEF FsckFails, Ready
<1> QED BY <1>1, <1>2, <1>3, <1>4, <1>5, <1>6, <1>7, <1>8, <1>9

\* Between programs, and in fsck, nothing is said.
LEMMA OthersOwn ==
  ASSUME FsInv, Return \/ Crash \/ Fsck \/ FsckLinks \/ FsckBlocks
  PROVE  Own'
<1>1. CASE Return \/ Crash BY <1>1 DEF Return, Crash, Own, Idle
<1>2. CASE Fsck BY <1>2 DEF Fsck, Own
<1>3. CASE FsckLinks \/ FsckBlocks
  <2>1. call \in FsckCalls BY <1>3, WhoIsAt DEF FsckLinks, FsckBlocks, Ready, FsInv
  <2>2. call' = call \/ call' = [call EXCEPT !.refused = TRUE]
    BY <1>3 DEF FsckLinks, FsckBlocks, Answered
  <2>3. call'.kind = "fsck" BY <2>1, <2>2 DEF FsckCalls
  <2> QED BY <2>3 DEF Own
<1> QED BY <1>1, <1>2, <1>3
\* The free block, if one is put into the node.
FreshFor(node, k) == IF node.addr[k] # NoBlock THEN {} ELSE {Placed(node, k).addr[k]}

LEMMA PutMine ==
  ASSUME mem.bitHint \in Blocks, NEW i, NEW node \in IndexNodes, Addrs(node) \subseteq Owned(i),
         NEW k \in 0 .. MaxDirectBlocks - 1, CanPlace(node, k), NEW size, NEW F, F = FreshFor(node, k)
  PROVE  /\ F \subseteq Blocks \ bitmap
         /\ Addrs(Placed(node, k)) \subseteq Mine(i, F, i)
         /\ Addrs(Grown(node, k, size)) \subseteq Mine(i, F, i)
<1>1. PICK b : b = Placed(node, k).addr[k] OBVIOUS
<1>2. /\ b \in Blocks
      /\ node.addr[k] # NoBlock => b \in Addrs(node)
      /\ node.addr[k] = NoBlock => b \notin bitmap
      /\ Addrs(Placed(node, k)) \subseteq Addrs(node) \cup {b}
      /\ Grown(node, k, size).addr = Placed(node, k).addr
  BY <1>1, PutAddresses
<1>3. Addrs(Grown(node, k, size)) = Addrs(Placed(node, k)) BY <1>2 DEF Addrs
<1>4. F \subseteq Blocks \ bitmap BY <1>1, <1>2 DEF FreshFor
<1>5. Addrs(Placed(node, k)) \subseteq Owned(i) \cup F BY <1>1, <1>2 DEF FreshFor
<1> QED BY <1>3, <1>4, <1>5 DEF Mine

LEMMA PutGrows ==
  ASSUME mem.bitHint \in Blocks, NEW i, NEW node \in IndexNodes, Addrs(node) \subseteq Owned(i),
         NEW k \in 0 .. MaxDirectBlocks - 1, CanPlace(node, k), NEW data, NEW size,
         NEW F, F = FreshFor(node, k), pending' = Put(i, node, k, data, size), mem'.root = mem.root,
         pc' \in HasFile => Addrs(mem'.file) \subseteq Mine(i, F, mem'.ino),
         pc' \in {"place", "pull"} => Addrs(mem'.dir) \subseteq Mine(i, F, mem'.dirNo),
         \A j \in Inodes : Spared(j) => Spared(j)' /\ j = i
  PROVE  Grows(i, F)
<1>1. PICK P : P = pending' OBVIOUS
<1>2. /\ \A w \in Among(P) :
           \/ w = SetBit(Placed(node, k).addr[k]) /\ node.addr[k] = NoBlock
           \/ w = WriteInode(i, Placed(node, k))
           \/ w = WriteData(Placed(node, k).addr[k], data)
           \/ w = WriteInode(i, Grown(node, k, size))
      /\ node.addr[k] = NoBlock => SetBit(Placed(node, k).addr[k]) \in Among(P)
  BY <1>1, PutParts
<1>3. /\ F \subseteq Blocks \ bitmap
      /\ Addrs(Placed(node, k)) \subseteq Mine(i, F, i)
      /\ Addrs(Grown(node, k, size)) \subseteq Mine(i, F, i)
  BY PutMine
<1>4. ASSUME NEW w \in Among(P), w.to = "inode" PROVE Addrs(w.node) \subseteq Mine(i, F, w.at)
  <2>1. w = WriteInode(i, Placed(node, k)) \/ w = WriteInode(i, Grown(node, k, size))
    BY <1>2, <1>4 DEF SetBit, WriteData
  <2>2. w.at = i /\ (w.node = Placed(node, k) \/ w.node = Grown(node, k, size)) BY <2>1 DEF WriteInode
  <2> QED BY <1>3, <2>2
<1>5. \A w \in Among(P) : w.to = "bitmap" => w.set BY <1>2 DEF SetBit, WriteData, WriteInode
<1>6. \A b \in F : \E w \in Among(P) : w.to = "bitmap" /\ w.at = b BY <1>2 DEF SetBit, FreshFor
<1>7. Claims(i, F) BY <1>1, <1>4 DEF Claims
<1> QED BY <1>1, <1>3, <1>5, <1>6, <1>7 DEF Grows

\* The file in memory gets a block.
LEMMA FilePutOwn ==
  ASSUME FsInv, Own, pending = <<>>, UNCHANGED <<disk, call>>, call.kind \notin {"none", "fsck"},
         pc \in {"write", "dot", "dotdot", "target"}, NEW k \in 0 .. MaxDirectBlocks - 1, CanPlace(mem.file, k),
         NEW data, NEW size \in Nat, pending' = Put(mem.ino, mem.file, k, data, size),
         mem'.root = mem.root, mem'.ino = mem.ino, mem'.file = Grown(mem.file, k, size),
         pc' \in {"write", "inc", "parent", "insert", "undo"},
         pc' \in {"insert", "undo"} => pc = "target", call.kind = "mkdir" => pc' # "insert", harm' = harm
  PROVE  Own'
<1>1. FileLives BY DEF Own
<1>2. /\ mem.ino \in Inodes /\ mem.file \in IndexNodes /\ mem.bitHint \in Blocks
  BY DEF FsInv, MemOK, FileOK, Mems
<1>3. pc \in HasFile /\ mem.file.nlink > 0 BY <1>1 DEF HasFile, FilePcs, FileLives
<1>4. Addrs(mem.file) \subseteq Owned(mem.ino) BY <1>1, <1>3, OwnedParts
<1>5. PICK F : F = FreshFor(mem.file, k) OBVIOUS
<1>6. Addrs(Grown(mem.file, k, size)) \subseteq Mine(mem.ino, F, mem.ino) BY <1>2, <1>4, <1>5, PutMine
<1>7. \A j \in Inodes : Spared(j) => Spared(j)' /\ j = mem.ino BY DEF Spared
<1>8. Grows(mem.ino, F)
  <2>1. PICK i, node : i = mem.ino /\ node = mem.file OBVIOUS
  <2>2. /\ node \in IndexNodes /\ Addrs(node) \subseteq Owned(i) /\ F = FreshFor(node, k)
        /\ CanPlace(node, k) /\ pending' = Put(i, node, k, data, size)
    BY <1>2, <1>4, <1>5, <2>1
  <2>3. pc' \in HasFile => Addrs(mem'.file) \subseteq Mine(i, F, mem'.ino) BY <1>6, <2>1
  <2>4. pc' \in {"place", "pull"} => Addrs(mem'.dir) \subseteq Mine(i, F, mem'.dirNo) OBVIOUS
  <2>5. \A j \in Inodes : Spared(j) => Spared(j)' /\ j = i BY <1>7, <2>1
  <2>6. Grows(i, F) BY <1>2, <2>2, <2>3, <2>4, <2>5, PutGrows
  <2> QED BY <2>1, <2>6
<1>9. FileLives'
  <2>1. /\ Grown(mem.file, k, size).nlink > 0 /\ Placed(mem.file, k).nlink > 0
    <3>1. Grown(mem.file, k, size).nlink = mem.file.nlink BY <1>2, GrownType
    <3>2. Placed(mem.file, k).nlink = mem.file.nlink BY <1>2, PlacedType
    <3> QED BY <1>3, <3>1, <3>2
  <2>2. PICK i, P : i = mem.ino /\ P = pending' OBVIOUS
  <2>3. ASSUME pc \in {"target", "undo"} PROVE inode[i].nlink > 0
    <3>1. Among(pending) = {} BY NothingPending
    <3> QED BY <1>1, <2>2, <2>3, <3>1 DEF FileLives, Written
  <2>4. \A c \in Written(i)' : c.nlink > 0
    <3>1. ASSUME NEW w \in Among(P), w.to = "inode" PROVE w.node.nlink > 0
      <4>1. PICK node : node = mem.file OBVIOUS
      <4>2. P = Put(i, node, k, data, size) BY <2>2, <4>1
      <4>3. w = WriteInode(i, Placed(node, k)) \/ w = WriteInode(i, Grown(node, k, size))
        <5>1. \/ w = SetBit(Placed(node, k).addr[k]) /\ node.addr[k] = NoBlock
              \/ w = WriteInode(i, Placed(node, k))
              \/ w = WriteData(Placed(node, k).addr[k], data)
              \/ w = WriteInode(i, Grown(node, k, size))
          BY <4>2, PutParts
        <5> QED BY <3>1, <5>1 DEF SetBit, WriteData
      <4> QED BY <2>1, <4>1, <4>3 DEF WriteInode
    <3> QED BY <2>2, <3>1 DEF Written, Among
  <2>5. inode' = inode BY DEF disk
  <2>6. pc' \in {"target", "undo"} => inode'[i].nlink > 0 BY <2>3, <2>5
  <2>7. mem'.file.nlink > 0 BY <2>1
  <2> QED BY <2>2, <2>4, <2>6, <2>7 DEF FileLives, Written
<1>10. harm \subseteq harm' /\ pc # "exit" OBVIOUS
<1>11. \E o, G : Grows(o, G) BY <1>8
<1> QED BY <1>9, <1>10, <1>11, GrowsOwn
\* At most an index node is written, and it has no more blocks than before.
LEMMA NodeGrows ==
  ASSUME NEW i, NEW node, pending' \in {<<>>, <<WriteInode(i, node)>>},
         Addrs(node) \subseteq Owned(i), mem'.root = mem.root,
         pc' \in HasFile => Addrs(mem'.file) \subseteq Owned(mem'.ino),
         pc' \in {"place", "pull"} => Addrs(mem'.dir) \subseteq Owned(mem'.dirNo),
         \A j \in Inodes : Spared(j) => Spared(j)'
  PROVE  \E o, F : Grows(o, F)
<1>1. \A w \in Among(pending') : w.to = "inode" /\ w.at = i /\ w.node = node
  <2>1. CASE pending' = <<>>
    <3>1. Among(pending') = {} BY <2>1, NothingPending
    <3> QED BY <3>1
  <2>2. CASE pending' = <<WriteInode(i, node)>> BY <2>2 DEF Among, WriteInode
  <2> QED BY <2>1, <2>2
<1>2. Claims(Root, {}) BY <1>1 DEF Claims, Mine
<1>3. Grows(Root, {}) BY <1>1, <1>2 DEF Grows
<1> QED BY <1>3

LEMMA SilentGrows ==
  ASSUME pending' = <<>>, mem'.root = mem.root,
         pc' \in HasFile => Addrs(mem'.file) \subseteq Owned(mem'.ino),
         pc' \in {"place", "pull"} => Addrs(mem'.dir) \subseteq Owned(mem'.dirNo),
         \A j \in Inodes : Spared(j) => Spared(j)'
  PROVE  \E o, F : Grows(o, F)
<1>1. Among(pending') = {} BY NothingPending
<1>2. Claims(Root, {}) BY <1>1 DEF Claims, Mine
<1>3. Grows(Root, {}) BY <1>1, <1>2 DEF Grows
<1> QED BY <1>3

LEMMA WriteOwn ==
  ASSUME FsInv, Own, Write
  PROVE  Own'
<1>1. /\ pc = "write" /\ pc' = pc /\ pending = <<>> /\ mem.done < call.blocks
      /\ CanPlace(mem.file, mem.done) /\ UNCHANGED disk /\ call' = call /\ harm' = harm
      /\ pending' = Put(mem.ino, mem.file, mem.done, Data, mem.done + 1)
  BY DEF Write, WriteMore, Ready
<1>2. mem \in Mems BY DEF FsInv, MemOK
<1>3. mem'.root = mem.root /\ mem'.ino = mem.ino /\ mem'.file = Grown(mem.file, mem.done, mem.done + 1)
  BY <1>2 DEF Write, Mems
<1>4. call.kind = "create" /\ mem.done \in 0 .. MaxDirectBlocks - 1 /\ mem.done + 1 \in Nat
  <2>1. call \in CreateCalls BY <1>1, WhoIsAt DEF FsInv
  <2>2. call.kind = "create" /\ mem.done \in Nat
    BY <1>2, <2>1 DEF CreateCalls, Mems
  <2> QED BY <1>1, <2>2, Sizes DEF CanPlace
<1> QED BY <1>1, <1>3, <1>4, FilePutOwn

LEMMA MkdirDotOwn ==
  ASSUME FsInv, Own, MkdirDot
  PROVE  Own'
<1>1. /\ pc = "dot" /\ pc' = "inc" /\ pending = <<>>
      /\ CanPlace(mem.file, 0) /\ UNCHANGED disk /\ call' = call /\ harm' = harm
      /\ pending' = Put(mem.ino, mem.file, 0, DotBlock(mem.file, 0, Entry(mem.ino, Dot)), SizeOf(1))
  BY DEF MkdirDot, Ready
<1>2. mem \in Mems /\ call.kind = "mkdir" BY <1>1, AtMkdir
<1>3. mem'.root = mem.root /\ mem'.ino = mem.ino /\ mem'.file = Grown(mem.file, 0, SizeOf(1))
  BY <1>2 DEF MkdirDot, Mems
<1>4. 0 \in 0 .. MaxDirectBlocks - 1 /\ SizeOf(1) \in Nat BY Sizes DEF SizeOf
<1>5. PICK data : data = DotBlock(mem.file, 0, Entry(mem.ino, Dot)) OBVIOUS
<1>6. PICK size \in Nat : size = SizeOf(1) BY <1>4
<1> QED BY <1>1, <1>2, <1>3, <1>4, <1>5, <1>6, FilePutOwn

LEMMA MkdirDotDotOwn ==
  ASSUME FsInv, Own, MkdirDotDot
  PROVE  Own'
<1>1. /\ pc = "dotdot" /\ pc' = "parent" /\ pending = <<>>
      /\ UNCHANGED disk /\ call' = call /\ harm' = harm
      /\ pending' = Put(mem.ino, mem.file, 0,
                        DotBlock(mem.file, 1, Entry(DirOf(call.path), DotDot)), SizeOf(2))
  BY DEF MkdirDotDot, Ready
<1>2. mem \in Mems /\ call.kind = "mkdir" /\ CanPlace(mem.file, 0)
  BY <1>1, AtMkdir, Sizes DEF FileOK, CanPlace
<1>3. mem'.root = mem.root /\ mem'.ino = mem.ino /\ mem'.file = Grown(mem.file, 0, SizeOf(2))
  BY <1>2 DEF MkdirDotDot, Mems
<1>4. 0 \in 0 .. MaxDirectBlocks - 1 /\ SizeOf(2) \in Nat BY Sizes DEF SizeOf
<1>5. PICK data : data = DotBlock(mem.file, 1, Entry(DirOf(call.path), DotDot)) OBVIOUS
<1>6. PICK size \in Nat : size = SizeOf(2) BY <1>4
<1> QED BY <1>1, <1>2, <1>3, <1>4, <1>5, <1>6, FilePutOwn

LEMMA MkdirIncOwn ==
  ASSUME FsInv, Own, MkdirInc
  PROVE  Own'
<1>1. /\ pc = "inc" /\ pc' = "dotdot" /\ pending = <<>> /\ UNCHANGED disk /\ call' = call /\ harm' = harm
      /\ pending' = <<WriteInode(mem.ino, mem'.file)>>
  BY DEF MkdirInc, Ready
<1>2. mem \in Mems /\ call.kind = "mkdir" /\ mem.file \in IndexNodes /\ mem.ino \in Inodes BY <1>1, AtMkdir
<1>3. PICK g : g = [mem.file EXCEPT !.nlink = @ + 1] OBVIOUS
<1>4. mem'.root = mem.root /\ mem'.ino = mem.ino /\ mem'.file = g BY <1>2, <1>3 DEF MkdirInc, Mems
<1>5. g.nlink > 0 /\ Addrs(g) = Addrs(mem.file) BY <1>2, <1>3 DEF IndexNodes, Addrs
<1>6. FileLives BY <1>2 DEF Own
<1>7. Addrs(g) \subseteq Owned(mem.ino) BY <1>1, <1>5, <1>6, OwnedParts DEF HasFile, FilePcs
<1>8. FileLives' BY <1>1, <1>4, <1>5 DEF FileLives
<1>9. \A j \in Inodes : Spared(j) => Spared(j)' BY <1>1, <1>4 DEF Spared
<1>10. PICK i : i = mem.ino OBVIOUS
<1>11. \E o, F : Grows(o, F)
  <2>1. pending' = <<WriteInode(i, g)>> BY <1>1, <1>4, <1>10
  <2>2. Addrs(mem'.file) \subseteq Owned(mem'.ino) /\ Addrs(g) \subseteq Owned(i) BY <1>4, <1>7, <1>10
  <2> QED BY <1>1, <1>4, <1>9, <2>1, <2>2, NodeGrows
<1> QED BY <1>1, <1>2, <1>8, <1>11, GrowsOwn

LEMMA MkdirParentOwn ==
  ASSUME FsInv, Own, MkdirParent
  PROVE  Own'
<1>1. pc = "parent" /\ pending = <<>> /\ UNCHANGED disk /\ harm' = harm
  BY DEF MkdirParent, Ready
<1>2. /\ call \in MkdirCalls /\ call.kind = "mkdir" /\ DirOf(call.path) = Root /\ DiskOK /\ mem \in Mems
  BY <1>1, AtMkdir
<1>3. PICK r : r = [inode[Root] EXCEPT !.nlink = @ + 1] OBVIOUS
<1>4. /\ pending' = <<WriteInode(Root, r)>>
      /\ call.more = <<>> => pc' = "exit" /\ mem' = [mem EXCEPT !.ok = TRUE] /\ call' = call
      /\ call.more # <<>> => pc' = "creat" /\ mem' = mem
  BY <1>2, <1>3 DEF MkdirParent, Exit
<1>5. mem'.root = mem.root /\ mem'.ino = mem.ino /\ pc' \in {"exit", "creat"}
  BY <1>2, <1>4 DEF Mems
<1>6. FileLives BY <1>2 DEF Own
<1>7. Addrs(r) \subseteq Owned(Root)
  <2>1. inode[Root] \in IndexNodes /\ inode[Root].nlink > 0 /\ Root \in Inodes
    BY <1>2, NoInodeOut DEF DiskOK, NodeAt
  <2>2. Addrs(r) = Addrs(inode[Root]) BY <1>3, <2>1 DEF IndexNodes, Addrs
  <2> QED BY <1>6, <2>1, <2>2, OwnedParts
<1>8. FileLives' BY <1>5 DEF FileLives, FilePcs
<1>9. \A j \in Inodes : Spared(j) => Spared(j)' BY <1>1, <1>4, <1>5 DEF Spared
<1>10. \E o, F : Grows(o, F) BY <1>4, <1>5, <1>7, <1>9, NodeGrows DEF HasFile, FilePcs
<1> QED BY <1>1, <1>2, <1>8, <1>10, GrowsOwn

LEMMA SymlinkTargetOwn ==
  ASSUME FsInv, Own, SymlinkTarget
  PROVE  Own'
<1>1. /\ pc = "target" /\ pc' \in {"insert", "undo"} /\ pending = <<>> /\ UNCHANGED disk /\ call' = call
      /\ CanPlace(mem.file, 0) => pending' = Put(mem.ino, mem.file, 0, LinkTo(call.old), 1) /\ harm' = harm
      /\ ~ CanPlace(mem.file, 0) => pending' = <<>> /\ mem' = mem /\ harm' = harm \cup {"full"}
  BY DEF SymlinkTarget, Ready
<1>2. mem \in Mems /\ call.kind = "symlink"
  <2>1. call \in SymlinkCalls BY <1>1, WhoIsAt DEF FsInv
  <2> QED BY <1>1, <2>1 DEF FsInv, MemOK, SymlinkCalls
<1>3. CASE CanPlace(mem.file, 0)
  <2>1. mem'.root = mem.root /\ mem'.ino = mem.ino /\ mem'.file = Grown(mem.file, 0, 1)
    BY <1>2, <1>3 DEF SymlinkTarget, Mems
  <2>2. 0 \in 0 .. MaxDirectBlocks - 1 /\ 1 \in Nat BY Sizes
  <2>3. PICK data : data = LinkTo(call.old) OBVIOUS
  <2> QED BY <1>1, <1>2, <1>3, <2>1, <2>2, <2>3, FilePutOwn
<1>4. CASE ~ CanPlace(mem.file, 0)
  <2>1. pending' = <<>> /\ mem' = mem /\ inode' = inode /\ harm \subseteq harm' BY <1>1, <1>4 DEF disk
  <2>2. FileLives BY <1>2 DEF Own
  <2>3. Addrs(mem.file) \subseteq Owned(mem.ino) BY <1>1, <2>2, OwnedParts DEF HasFile
  <2>4. \A j \in Inodes : ~ Spared(j) BY <1>2 DEF Spared
  <2>5. FileLives'
    <3>1. Among(pending) = {} /\ Among(pending') = {} BY <1>1, <2>1, NothingPending
    <3> QED BY <1>1, <2>1, <2>2, <3>1 DEF FileLives, Written, Among, FilePcs
  <2>6. \E o, F : Grows(o, F) BY <1>1, <2>1, <2>3, <2>4, SilentGrows
  <2> QED BY <1>1, <1>2, <2>1, <2>5, <2>6, GrowsOwn
<1> QED BY <1>3, <1>4
-----------------------------------------------------------------------------
(***************************************************************************)
(* Directory entries.                                                      *)
(***************************************************************************)
\* The copy of a directory that has links.
LEMMA CopyOwned ==
  ASSUME FsInv, FileLives, NEW d \in Inodes, CopyOf(d).nlink > 0
  PROVE  Addrs(CopyOf(d)) \subseteq Owned(d)
<1>1. CopyOf(d).nlink # 0 OBVIOUS
<1> QED BY <1>1, OwnedParts DEF CopyOf

LEMMA OpenDirOwn ==
  ASSUME FsInv, Own, OpenDir
  PROVE  Own'
<1>1. PICK d, node, at, new : d = DirOf(call.path) /\ node = CopyOf(d) /\ at = PlaceIn(node) /\ new = NewEntry
  OBVIOUS
<1>2. /\ pc = "insert" /\ pc' = "place" /\ pending = <<>> /\ pending' = <<>> /\ UNCHANGED disk /\ call' = call
      /\ mem' = [mem EXCEPT !.dirNo = d, !.dir = node, !.pos = at, !.carry = new]
      /\ harm \subseteq harm'
  BY <1>1 DEF OpenDir, Ready, Opened
<1>3. call.kind \notin {"none", "fsck"} BY <1>2, WhoIsAt, Kinds DEF FsInv
<1>4. mem'.root = mem.root /\ mem'.ino = mem.ino /\ mem'.file = mem.file /\ mem'.dirNo = d /\ mem'.dir = node
  <2>1. mem \in Mems BY DEF FsInv, MemOK
  <2> QED BY <1>2, <2>1 DEF Mems
<1>5. FileLives BY <1>3 DEF Own
<1>6. Addrs(node) \subseteq Owned(d) BY <1>1, <1>5, OpenedLives, CopyOwned
<1>7. Addrs(mem.file) \subseteq Owned(mem.ino) /\ mem.file.nlink > 0
  BY <1>2, <1>5, OwnedParts DEF HasFile, FilePcs, FileLives
<1>8. FileLives' BY <1>2, <1>4, <1>7 DEF FileLives
<1>9. \A j \in Inodes : ~ Spared(j) BY <1>2 DEF Spared
<1>10. \E o, F : Grows(o, F)
  <2>2. pc' \in HasFile => Addrs(mem'.file) \subseteq Owned(mem'.ino) BY <1>4, <1>7
  <2>3. pc' \in {"place", "pull"} => Addrs(mem'.dir) \subseteq Owned(mem'.dirNo) BY <1>4, <1>6
  <2>4. \A j \in Inodes : Spared(j) => Spared(j)' BY <1>9
  <2>5. mem'.root = mem.root BY <1>4
  <2> QED BY <1>2, <2>2, <2>3, <2>4, <2>5, SilentGrows
<1> QED BY <1>2, <1>3, <1>8, <1>10, GrowsOwn

LEMMA WritedirOwn ==
  ASSUME FsInv, Own, pending = <<>>, UNCHANGED <<disk, call>>, pc \in {"place", "pull"},
         NEW k \in 0 .. Space, NEW e, NEW rest \in Mems, writedir(k, e, rest),
         rest.dir = mem.dir, rest.root = mem.root, rest.dirNo = mem.dirNo, rest.file = mem.file,
         rest.ino = mem.ino, pc' \in {"place", "pull", "write", "dot", "linked", "exit"},
         pc = "pull" => pc' = "pull"
  PROVE  Own'
<1>1. call.kind \notin {"none", "fsck"} /\ (pc = "pull" => call.kind = "unlink")
  BY WhoIsAt, Kinds DEF FsInv
<1>2. FileLives BY <1>1 DEF Own
<1>3. PICK i, node, q : i = mem.dirNo /\ node = mem.dir /\ q = k \div PerBlock OBVIOUS
<1>4. /\ i \in Inodes /\ node \in IndexNodes /\ mem.bitHint \in Blocks /\ node.nlink > 0
  BY <1>3 DEF FsInv, MemOK, Mems, DirOK
<1>5. Addrs(node) \subseteq Owned(i) BY <1>2, <1>3, OwnedParts
<1>6. pc' \in HasFile => Addrs(mem.file) \subseteq Owned(mem.ino) /\ mem.file.nlink > 0
  BY <1>2, OwnedParts DEF HasFile, FilePcs, FileLives
<1>7. \A j \in Inodes : ~ Spared(j) BY <1>1 DEF Spared
<1>8. harm \subseteq harm' /\ pc # "exit" BY DEF writedir
<1>9. CASE CanPlace(node, q)
  <2>1. PICK data, g, hint : data = DirBlock(node, k, e) /\ g = Grown(node, q, k + 1) /\ hint = HintAfter(node, q)
    OBVIOUS
  <2>2. pending' = Put(i, node, q, data, k + 1) /\ mem' = [rest EXCEPT !.dir = g, !.bitHint = hint]
    BY <1>3, <1>9, <2>1 DEF writedir
  <2>3. mem'.root = mem.root /\ mem'.dir = g /\ mem'.dirNo = i /\ mem'.file = mem.file /\ mem'.ino = mem.ino
    BY <1>3, <2>2 DEF Mems
  <2>4. q \in 0 .. MaxDirectBlocks - 1 BY <1>3, <1>9, BlockIndex, Fitting
  <2>5. PICK F : F = FreshFor(node, q) OBVIOUS
  <2>6. Addrs(g) \subseteq Mine(i, F, i)
    <3>1. PICK size : size = k + 1 OBVIOUS
    <3> QED BY <1>4, <1>5, <1>9, <2>1, <2>4, <2>5, <3>1, PutMine
  <2>7. Grows(i, F)
    <3>1. PICK size : size = k + 1 OBVIOUS
    <3>2. pending' = Put(i, node, q, data, size) BY <2>2, <3>1
    <3>3. pc' \in HasFile => Addrs(mem'.file) \subseteq Mine(i, F, mem'.ino) BY <1>6, <2>3 DEF Mine
    <3>4. pc' \in {"place", "pull"} => Addrs(mem'.dir) \subseteq Mine(i, F, mem'.dirNo) BY <2>3, <2>6
    <3> QED BY <1>4, <1>5, <1>7, <1>9, <2>3, <2>4, <2>5, <3>2, <3>3, <3>4, PutGrows
  <2>8. FileLives' BY <1>6, <2>3 DEF FileLives, HasFile
  <2>9. \E o, G : Grows(o, G) BY <2>7
  <2> QED BY <1>1, <1>8, <2>8, <2>9, GrowsOwn
<1>10. CASE ~ CanPlace(node, q)
  <2>1. pending' = <<>> /\ mem' = rest BY <1>3, <1>10 DEF writedir
  <2>2. FileLives' BY <1>6, <2>1 DEF FileLives, HasFile
  <2>3. \E o, F : Grows(o, F)
    <3>2. pc' \in HasFile => Addrs(mem'.file) \subseteq Owned(mem'.ino) BY <1>6, <2>1
    <3>3. pc' \in {"place", "pull"} => Addrs(mem'.dir) \subseteq Owned(mem'.dirNo) BY <1>3, <1>5, <2>1
    <3>4. \A j \in Inodes : Spared(j) => Spared(j)' BY <1>7
    <3>5. mem'.root = mem.root BY <2>1
    <3> QED BY <2>1, <3>2, <3>3, <3>4, <3>5, SilentGrows
  <2> QED BY <1>1, <1>8, <2>2, <2>3, GrowsOwn
<1> QED BY <1>9, <1>10

LEMMA PlaceOwn ==
  ASSUME FsInv, Own, Place
  PROVE  Own'
<1>1. PICK e, rest : e = EntryAt(mem.dir, mem.pos) /\ rest = [mem EXCEPT !.pos = @ + 1, !.carry = e]
  OBVIOUS
<1>2. /\ pc = "place" /\ pc' = pc /\ call' = call /\ mem.pos < mem.dir.size /\ pending = <<>> /\ UNCHANGED disk
      /\ writedir(mem.pos, mem.carry, rest)
  BY <1>1 DEF Place, Ready
<1>3. DiskOK /\ mem \in Mems /\ NodeOK(mem.dir) /\ DirOK BY DEF FsInv, MemOK
<1>4. mem.pos \in 0 .. Space - 1 /\ mem.pos + 1 \in Nat /\ mem.dir \in IndexNodes
  BY <1>2, <1>3, NodeParts, Sizes DEF Mems
<1>5. e \in DirEntries BY <1>1, <1>3, <1>4, EntryAtType
<1>6. /\ rest \in Mems /\ rest.dir = mem.dir /\ rest.root = mem.root /\ rest.file = mem.file
      /\ rest.ino = mem.ino /\ rest.dirNo = mem.dirNo
  BY <1>1, <1>3, <1>4, <1>5 DEF Mems
<1>7. PICK k, c : k \in 0 .. Space /\ k = mem.pos /\ c = mem.carry BY <1>4, Sizes
<1> QED BY <1>2, <1>6, <1>7, WritedirOwn

LEMMA PlaceLastOwn ==
  ASSUME FsInv, Own, PlaceLast
  PROVE  Own'
<1>1. /\ pc = "place" /\ call' = call /\ mem.pos >= mem.dir.size /\ pending = <<>> /\ UNCHANGED disk
      /\ writedir(mem.pos, mem.carry, mem) /\ pc' = AfterInsert
  BY DEF PlaceLast, Ready
<1>2. mem \in Mems /\ NodeOK(mem.dir) /\ DirOK BY DEF FsInv, MemOK
<1>3. mem.pos \in 0 .. Space BY <1>1, <1>2, NodeParts, Sizes DEF Mems, DirOK
<1>4. pc' \in {"write", "dot", "linked", "exit"} BY <1>1 DEF AfterInsert
<1>5. PICK k, c : k \in 0 .. Space /\ k = mem.pos /\ c = mem.carry BY <1>3
<1>6. PICK rest \in Mems : rest = mem BY <1>2
<1> QED BY <1>1, <1>4, <1>5, <1>6, WritedirOwn

LEMMA PullOwn ==
  ASSUME FsInv, Own, Pull
  PROVE  Own'
<1>1. PICK e, rest : e = EntryAt(mem.dir, mem.pos + 1) /\ rest = [mem EXCEPT !.pos = @ + 1]
  OBVIOUS
<1>2. /\ pc = "pull" /\ pc' = pc /\ call' = call /\ mem.pos + 1 < mem.dir.size /\ pending = <<>> /\ UNCHANGED disk
      /\ writedir(mem.pos, e, rest)
  BY <1>1 DEF Pull, Ready
<1>3. mem \in Mems /\ NodeOK(mem.dir) BY DEF FsInv, MemOK
<1>4. mem.pos \in 0 .. Space - 1 /\ mem.pos + 1 \in Nat BY <1>2, <1>3, NodeParts, Sizes DEF Mems
<1>5. /\ rest \in Mems /\ rest.dir = mem.dir /\ rest.root = mem.root /\ rest.file = mem.file
      /\ rest.ino = mem.ino /\ rest.dirNo = mem.dirNo
  BY <1>1, <1>3, <1>4 DEF Mems
<1>6. PICK k \in 0 .. Space : k = mem.pos BY <1>4, Sizes
<1> QED BY <1>2, <1>5, <1>6, WritedirOwn
-----------------------------------------------------------------------------
(***************************************************************************)
(* The blocks of an index node are freed.                                  *)
(***************************************************************************)
LEMMA BlocksInReach ==
  ASSUME NEW node, NodeOK(node)
  PROVE  BlocksOf(node) \in Nat /\ BlocksOf(node) <= MaxDirectBlocks
<1>1. /\ node \in IndexNodes /\ node.size \in Nat /\ node.size <= Space
      /\ node.mode # "dir" => node.size <= MaxDirectBlocks
      /\ PerBlock \in Nat /\ PerBlock >= 2 /\ MaxDirectBlocks \in Nat
  BY NodeParts, Sizes
<1>2. BlocksOf(node) \in Nat BY <1>1, BlocksOfType
<1>3. CASE node.mode # "dir" BY <1>1, <1>2, <1>3 DEF BlocksOf
<1>4. CASE node.mode = "dir"
  <2>1. ASSUME NEW a \in Nat, NEW q, NEW r, q = a \div PerBlock, r = a % PerBlock
        PROVE  q \in Nat /\ r \in 0 .. PerBlock - 1 /\ a = PerBlock * q + r
    BY <1>1, <2>1
  <2>2. PICK a \in Nat : a = node.size + PerBlock - 1 BY <1>1
  <2>3. PICK q, r : q = a \div PerBlock /\ r = a % PerBlock OBVIOUS
  <2>4. q \in Nat /\ r \in 0 .. PerBlock - 1 /\ a = PerBlock * q + r BY <2>1, <2>3
  <2>5. BlocksOf(node) = q BY <1>4, <2>2, <2>3 DEF BlocksOf
  <2>6. ASSUME q > MaxDirectBlocks PROVE FALSE
    <3>1. PerBlock * q >= PerBlock * (MaxDirectBlocks + 1) BY <1>1, <2>4, <2>6
    <3>2. PerBlock * (MaxDirectBlocks + 1) = PerBlock * MaxDirectBlocks + PerBlock BY <1>1
    <3>3. PerBlock * q \in Nat /\ PerBlock * MaxDirectBlocks \in Nat BY <1>1, <2>4
    <3>4. node.size <= PerBlock * MaxDirectBlocks BY <1>1 DEF Space
    <3> QED BY <1>1, <2>2, <2>4, <3>1, <3>2, <3>3, <3>4
  <2> QED BY <1>1, <2>4, <2>5, <2>6
<1> QED BY <1>2, <1>3, <1>4

LEMMA FreedBits ==
  ASSUME NEW node, NodeOK(node), NEW w, Freeing(node, w)
  PROVE  w.to = "bitmap" /\ w.at \notin Blocks \ Addrs(node)
<1>1. PICK k \in 1 .. BlocksOf(node) : w.at = node.addr[k - 1] BY DEF Freeing
<1>2. k - 1 \in DOMAIN NoAddresses BY <1>1, BlocksInReach, Sizes DEF NoAddresses
<1>3. w.at = NoBlock \/ w.at \in Addrs(node) BY <1>1, <1>2 DEF Addrs
<1> QED BY <1>3, NoInodeOut DEF Freeing

\* Bits of i are reset, then its index node is written.
GivesBack(i, node) ==
  /\ \A w \in Among(pending') : \/ w.to = "bitmap" /\ w.at \notin Blocks \ Addrs(inode[i])
                                \/ w.to = "inode" /\ w.at = i /\ w.node = node
  /\ \E w \in Among(pending') : w.to = "inode" /\ w.at = i /\ w.node = node

LEMMA FreedBack ==
  ASSUME NEW i, NodeOK(inode[i]), NEW node, pending' = FreeBlocks(inode[i]) \o <<WriteInode(i, node)>>
  PROVE  GivesBack(i, node)
<1>1. PICK v, P, c : v = WriteInode(i, node) /\ P = FreeBlocks(inode[i]) \o <<v>> /\ c = inode[i]
  OBVIOUS
<1>2. NodeOK(c) /\ c \in IndexNodes BY <1>1 DEF NodeOK
<1>3. v \in Among(P) /\ \A w \in Among(P) : w = v \/ Freeing(c, w) BY <1>1, <1>2, FreedWrites
<1>4. \A w : Freeing(c, w) => w.to = "bitmap" /\ w.at \notin Blocks \ Addrs(c) BY <1>2, FreedBits
<1>5. v.to = "inode" /\ v.at = i /\ v.node = node BY <1>1 DEF WriteInode
<1> QED BY <1>1, <1>3, <1>4, <1>5 DEF GivesBack

\* The node of a file that has been freed.
LEMMA FreedNode ==
  ASSUME NEW c \in IndexNodes, NEW node, node = [ClearedTo(c, BlocksOf(c)) EXCEPT !.nlink = 0, !.size = 0]
  PROVE  node.nlink = 0 /\ Addrs(node) \subseteq Addrs(c)
<1>1. PICK d : d = ClearedTo(c, BlocksOf(c)) OBVIOUS
<1>2. d \in IndexNodes /\ Addrs(d) \subseteq Addrs(c) BY <1>1, ClearedType, ClearedAddresses
<1>3. node.nlink = 0 /\ node.addr = d.addr BY <1>1, <1>2 DEF IndexNodes
<1> QED BY <1>2, <1>3 DEF Addrs

LEMMA GivenBackOwn ==
  ASSUME FsInv, Own, UNCHANGED disk, pending = <<>>, call.kind \notin {"none", "fsck"}, pc # "exit",
         harm \subseteq harm', FileLives', mem'.root = mem.root,
         NEW i \in Inodes \ {Root}, inode[i].nlink # 0, NEW node, GivesBack(i, node),
         Addrs(node) \subseteq Addrs(inode[i]),
         pc' \in HasFile => mem'.file = node /\ mem'.ino = i,
         pc' \in {"place", "pull"} => mem'.dirNo # i /\ Addrs(mem'.dir) \subseteq Owned(mem'.dirNo),
         Spared(i)' \/ node.nlink = 0 \/ Addrs(node) = {},
         \A j \in Inodes : Spared(j) => Spared(j)'
  PROVE  Own'
<1>1. FileLives BY DEF Own
<1>2. PICK A : A = Addrs(inode[i]) OBVIOUS
<1>3. Addrs(inode[i]) \subseteq Owned(i) BY <1>1, OwnedParts
<1>4. Addrs(node) \subseteq Owned(i) BY <1>3
<1>5. Claims(i, {})
  <2>1. \A w \in Among(pending') : w.to = "inode" => w.at = i /\ w.node = node BY DEF GivesBack
  <2> QED BY <1>4, <2>1 DEF Claims, Mine
<1>6. Frees(A, i)
  <2>1. \A w \in Among(pending') : w.to = "bitmap" => w.at \notin Blocks \ A BY <1>2 DEF GivesBack
  <2> QED BY <1>2, <1>5, <2>1 DEF Frees
<1>7. \A bm : Marked(bm) => Spared(i)' \/ HeldIn(bm \ A, i)'
  <2>1. ASSUME NEW bm, node.nlink = 0 \/ Addrs(node) = {} PROVE HeldIn(bm, i)'
    <3>1. Written(i)' = {node}
      BY DEF GivesBack, Written, Among
    <3>2. Later(i)' \subseteq {node}
      BY <3>1 DEF Later, FileHeld, DirHeld, HasFile
    <3>3. \A c \in Later(i)' : c.nlink # 0 => Addrs(c) \subseteq bm BY <2>1, <3>2
    <3>4. Written(i)' # {} BY <3>1
    <3> QED BY <3>3, <3>4 DEF HeldIn, Addrs
  <2> QED BY <2>1
<1>8. "broken" \notin harm' => Frees(A, i) BY <1>6
<1> QED BY <1>7, <1>8, FreesOwn

LEMMA SymlinkUndoOwn ==
  ASSUME FsInv, Own, SymlinkUndo
  PROVE  Own'
<1>1. /\ pc = "undo" /\ pc' = "exit" /\ pending = <<>> /\ UNCHANGED disk /\ harm' = harm /\ call' = call
      /\ pending' = freeIndexNode(mem.ino) /\ mem' = [mem EXCEPT !.ok = FALSE]
  BY DEF SymlinkUndo, Ready, Exit
<1>2. mem \in Mems /\ call.kind = "symlink"
  <2>1. call \in SymlinkCalls BY <1>1, WhoIsAt DEF FsInv
  <2> QED BY <2>1 DEF FsInv, MemOK, SymlinkCalls
<1>3. PICK i : i = mem.ino OBVIOUS
<1>4. i \in Inodes \ {Root} /\ NodeOK(inode[i]) /\ inode[i] \in IndexNodes
  BY <1>1, <1>3 DEF FsInv, MemOK, FileOK, DiskOK, NodeAt
<1>5. PICK node : node = [ClearedTo(inode[i], BlocksOf(inode[i])) EXCEPT !.nlink = 0, !.size = 0]
  OBVIOUS
<1>6. pending' = FreeBlocks(inode[i]) \o <<WriteInode(i, node)>> BY <1>1, <1>3, <1>5 DEF freeIndexNode
<1>7. node.nlink = 0 /\ Addrs(node) \subseteq Addrs(inode[i])
  <2>1. PICK c : c = inode[i] OBVIOUS
  <2> QED BY <1>4, <1>5, <2>1, FreedNode
<1>8. GivesBack(i, node) BY <1>4, <1>6, FreedBack
<1>9. inode[i].nlink # 0
  <2>1. FileLives BY <1>2 DEF Own
  <2>2. Written(i) = {} BY <1>1, NothingPending DEF Written
  <2>3. inode[i].nlink > 0 BY <1>1, <1>3, <2>1, <2>2 DEF FileLives
  <2> QED BY <2>3
<1>10. FileLives' BY <1>1 DEF FileLives, FilePcs
<1>11. mem'.root = mem.root BY <1>1, <1>2 DEF Mems
<1>12. \A j \in Inodes : Spared(j) => Spared(j)' BY <1>2 DEF Spared
<1> QED
  BY <1>1, <1>2, <1>4, <1>7, <1>8, <1>9, <1>10, <1>11, <1>12, GivenBackOwn DEF HasFile, FilePcs
-----------------------------------------------------------------------------
(***************************************************************************)
(* The file is truncated, or its name removed.                             *)
(***************************************************************************)
LEMMA CreatTruncatesOwn ==
  ASSUME FsInv, InOrder, Own, CreatTruncates
  PROVE  Own'
<1>1. PICK i, node : i = findIndexNode[call.path] /\ node = Truncated(i) OBVIOUS
<1>2. /\ pc = "creat" /\ pending = <<>> /\ UNCHANGED disk /\ call' = call
      /\ pending' = FreeBlocks(inode[i]) \o <<WriteInode(i, node)>>
      /\ mem' = [mem EXCEPT !.ino = i, !.file = node, !.done = 0]
      /\ pc' = IF call.kind = "mkdir" THEN "dot" ELSE "write"
      /\ harm' = IF call.kind = "mkdir" THEN harm \cup {"file"} ELSE harm
  BY <1>1 DEF CreatTruncates, Ready, Truncated
<1>3. mem \in Mems BY DEF FsInv, MemOK
<1>4. call.kind \in {"create", "mkdir"} BY <1>1, TruncatedFile
<1>5. i \in Inodes \ {Root} BY <1>1, TruncatedFile
<1>6. inode[i].nlink > 0 BY <1>1, TruncatedFile
<1>7. NodeOK(inode[i]) BY <1>1, TruncatedFile
<1>8. node.nlink = inode[i].nlink /\ Addrs(node) \subseteq Addrs(inode[i]) BY <1>1, TruncatedFile
<1>9. mem'.root = mem.root /\ mem'.ino = i /\ mem'.file = node BY <1>2, <1>3 DEF Mems
<1>10. GivesBack(i, node) BY <1>2, <1>7, FreedBack
<1>11. FileLives' BY <1>2, <1>6, <1>8, <1>9 DEF FileLives
<1>12. Spared(i)' \/ Addrs(node) = {}
  <2>1. CASE call.kind = "mkdir" /\ call.more = <<>> BY <1>2, <1>9, <2>1 DEF Spared
  <2>2. CASE Addrs(node) = {} BY <2>2
  <2> QED BY <1>1, <2>1, <2>2, TruncatedFile
<1>13. \A j \in Inodes : ~ Spared(j) BY <1>2 DEF Spared
<1>14. harm \subseteq harm' /\ pc' \notin {"place", "pull"} /\ call.kind \notin {"none", "fsck"} /\ pc # "exit"
  BY <1>2, <1>4
<1>15. inode[i].nlink # 0 BY <1>6
<1>16. \A j \in Inodes : Spared(j) => Spared(j)' BY <1>13
<1>17. pc' \in HasFile => mem'.file = node /\ mem'.ino = i BY <1>9
<1>18. Spared(i)' \/ node.nlink = 0 \/ Addrs(node) = {} BY <1>12
<1>19. Addrs(node) \subseteq Addrs(inode[i]) BY <1>8
<1> QED
  BY <1>2, <1>5, <1>9, <1>10, <1>11, <1>14, <1>15, <1>16, <1>17, <1>18, <1>19, GivenBackOwn

LEMMA UnlinkOwn ==
  ASSUME FsInv, InOrder, Own, Unlink
  PROVE  Own'
<1>1. PICK d, n, i : d = DirOf(call.path) /\ n = Last(call.path) /\ i = EntryNode(d, n)
  OBVIOUS
<1>2. /\ pc = "unlink" /\ pc' = "pull" /\ pending = <<>> /\ UNCHANGED disk /\ call' = call /\ harm' = harm
      /\ pending' = IF inode[i].nlink <= 1 THEN freeIndexNode(i)
                    ELSE <<WriteInode(i, [inode[i] EXCEPT !.nlink = @ - 1])>>
      /\ mem' = [mem EXCEPT !.dirNo = d, !.dir = CopyOf(d), !.pos = Min(Positions(CopyOf(d), n))]
  BY <1>1 DEF Unlink, UnlinkAt, Opened, Ready, disk
<1>3. DiskOK /\ CallOK /\ mem \in Mems BY DEF FsInv, MemOK
<1>4. call.kind = "unlink" BY <1>2, <1>3, WhoIsAt, Kinds
<1>5. d \in Inodes /\ CopyOf(d) = inode[d] /\ inode[d].nlink > 0 BY <1>1, UnlinkFinds
<1>6. i \in Inodes BY <1>1, UnlinkFinds
<1>7. inode[i].nlink > 0 BY <1>1, UnlinkFinds
<1>8. i \in Inodes \ {Root} /\ i # d BY <1>1, UnlinkFinds
<1>9. NodeOK(inode[i]) /\ inode[i] \in IndexNodes BY <1>3, <1>6 DEF DiskOK, NodeAt
<1>10. mem'.root = mem.root /\ mem'.dirNo = d /\ mem'.dir = inode[d]
  <2>1. PICK c, at : c = CopyOf(d) /\ at = Min(Positions(CopyOf(d), n)) OBVIOUS
  <2>2. mem' = [mem EXCEPT !.dirNo = d, !.dir = c, !.pos = at] BY <1>2, <2>1
  <2>3. c = inode[d] BY <1>5, <2>1
  <2> QED BY <1>3, <2>2, <2>3 DEF Mems
<1>11. FileLives' BY <1>2 DEF FileLives, FilePcs
<1>12. \A j \in Inodes : Spared(j) => Spared(j)' BY <1>4 DEF Spared
<1>13. FileLives BY <1>4 DEF Own
<1>14. Addrs(mem'.dir) \subseteq Owned(mem'.dirNo)
  <2>1. Addrs(inode[d]) \subseteq Owned(d) BY <1>5, <1>13, OwnedParts
  <2> QED BY <1>10, <2>1
<1>15. pc' \notin HasFile /\ pc # "exit" /\ call.kind \notin {"none", "fsck"} /\ harm \subseteq harm'
  BY <1>2, <1>4 DEF HasFile, FilePcs
<1>16. CASE inode[i].nlink <= 1
  <2>1. PICK node : node = [ClearedTo(inode[i], BlocksOf(inode[i])) EXCEPT !.nlink = 0, !.size = 0]
    OBVIOUS
  <2>2. pending' = FreeBlocks(inode[i]) \o <<WriteInode(i, node)>> BY <1>2, <1>16, <2>1 DEF freeIndexNode
  <2>3. node.nlink = 0 /\ Addrs(node) \subseteq Addrs(inode[i])
    <3>1. PICK c : c = inode[i] OBVIOUS
    <3> QED BY <1>9, <2>1, <3>1, FreedNode
  <2>4. GivesBack(i, node) BY <1>9, <2>2, FreedBack
  <2>5. mem'.dirNo # i /\ inode[i].nlink # 0 BY <1>7, <1>8, <1>10
  <2> QED
    BY <1>2, <1>8, <1>10, <1>11, <1>12, <1>14, <1>15, <2>3, <2>4, <2>5, GivenBackOwn
<1>17. CASE ~ (inode[i].nlink <= 1)
  <2>1. PICK node : node = [inode[i] EXCEPT !.nlink = @ - 1] OBVIOUS
  <2>2. pending' = <<WriteInode(i, node)>> BY <1>2, <1>17, <2>1
  <2>3. Addrs(node) = Addrs(inode[i]) BY <1>9, <2>1 DEF IndexNodes, Addrs
  <2>4. Addrs(inode[i]) \subseteq Owned(i) BY <1>6, <1>7, <1>13, OwnedParts
  <2>5. Addrs(node) \subseteq Owned(i) BY <2>3, <2>4
  <2>6. \E o, F : Grows(o, F) BY <1>10, <1>12, <1>14, <1>15, <2>2, <2>5, NodeGrows
  <2> QED BY <1>2, <1>11, <1>15, <2>6, GrowsOwn
<1> QED BY <1>16, <1>17

LEMMA CutOwn ==
  ASSUME FsInv, Own, Cut
  PROVE  Own'
<1>1. PICK i, k, b, cut, shrunk :
        /\ i = mem.dirNo /\ k = (inode[i].size - 1) \div PerBlock - 1 /\ b = inode[i].addr[k]
        /\ cut = [inode[i] EXCEPT !.addr[k] = NoBlock] /\ shrunk = [mem.dir EXCEPT !.size = @ - 1]
  OBVIOUS
<1>2. /\ pc = "pull" /\ pc' = "exit" /\ pending = <<>> /\ UNCHANGED disk /\ call' = call
      /\ pending' = (IF LosesBlock THEN <<ResetBit(b), WriteInode(i, cut)>> ELSE <<>>) \o <<WriteInode(i, shrunk)>>
      /\ harm' = harm \cup (IF LosesBlock THEN {"shrink"} ELSE {}) /\ mem' = [mem EXCEPT !.ok = TRUE]
  BY <1>1 DEF Cut, Ready, Exit, freeInodeBlocks, Shrunk
<1>3. /\ i \in Inodes /\ inode[i] \in IndexNodes /\ mem.dir \in IndexNodes /\ mem \in Mems
      /\ mem.dir.nlink > 0
  BY <1>1, <1>2 DEF FsInv, MemOK, Mems, DirOK, DiskOK
<1>4. call.kind = "unlink" BY <1>2, WhoIsAt, Kinds DEF FsInv
<1>5. FileLives /\ call.kind \notin {"none", "fsck"} BY <1>4 DEF Own
<1>6. mem'.root = mem.root /\ pc' \notin HasFile /\ pc' \notin {"place", "pull"} /\ FileLives'
  BY <1>2, <1>3 DEF Mems, HasFile, FilePcs, FileLives
<1>7. Addrs(shrunk) \subseteq Owned(i)
  <2>1. Addrs(shrunk) = Addrs(mem.dir) BY <1>1, <1>3 DEF IndexNodes, Addrs
  <2> QED BY <1>1, <1>2, <1>5, <2>1, OwnedParts
<1>8. cut.nlink = inode[i].nlink /\ Addrs(cut) \subseteq Addrs(inode[i])
  BY <1>1, <1>3 DEF IndexNodes, Addrs, NoAddresses
<1>9. inode[i].nlink # 0 => Addrs(inode[i]) \subseteq Owned(i) BY <1>3, <1>5, OwnedParts
<1>10. CASE LosesBlock
  <2>1. pending' = <<ResetBit(b), WriteInode(i, cut), WriteInode(i, shrunk)>>
    <3>1. pending' = <<ResetBit(b), WriteInode(i, cut)>> \o <<WriteInode(i, shrunk)>> BY <1>2, <1>10
    <3> QED BY <3>1, ShortSequences
  <2>2. \A w \in Among(pending') : w.to = "inode" => w.at = i /\ w.node \in {cut, shrunk}
    BY <2>1 DEF Among, ResetBit, WriteInode
  <2>3. \A node \in {cut, shrunk} : node.nlink # 0 => Addrs(node) \subseteq Owned(i)
    BY <1>7, <1>8, <1>9
  <2>4. Claims(i, {})
    BY <1>6, <2>2, <2>3 DEF Claims, Mine
  <2>5. "broken" \notin harm' => OwnersApart'
    <3>1. "broken" \notin harm' => OwnersApart BY <1>2, <1>5 DEF Own
    <3>2. PICK F : F = {} OBVIOUS
    <3>3. Claims(i, F) /\ \A j \in Inodes : j # i => Owned(j) \cap F = {} BY <2>4, <3>2
    <3> QED BY <1>2, <1>5, <3>1, <3>3, ApartStays
  <2>6. "shrink" \in harm' BY <1>2, <1>10
  <2> QED BY <1>2, <1>6, <2>5, <2>6 DEF Own
<1>11. CASE ~ LosesBlock
  <2>1. pending' = <<WriteInode(i, shrunk)>> BY <1>2, <1>11
  <2>2. \A j \in Inodes : Spared(j) => Spared(j)' BY <1>4 DEF Spared
  <2>3. \E o, F : Grows(o, F) BY <1>6, <1>7, <2>1, <2>2, NodeGrows
  <2>4. harm \subseteq harm' BY <1>2
  <2> QED BY <1>2, <1>5, <1>6, <2>3, <2>4, GrowsOwn
<1> QED BY <1>10, <1>11
-----------------------------------------------------------------------------
(***************************************************************************)
(* Index nodes taken into use, and links.                                  *)
(***************************************************************************)
LEMMA FoundHasDir ==
  ASSUME DiskOK, NodeOK(mem.root), mem.root.mode = "dir", NEW p \in Paths, findIndexNode[p] # NoInode
  PROVE  IsDir(DirOf(p))
<1>1. HopThresh \in 0 .. HopThresh BY FileSystemAssumption
<1>2. findIndexNode[p] = Reach(found, HopThresh, p) BY <1>1, FoundIs, FoundSteps
<1>3. CASE Len(p) = 1 BY <1>3, DirOfType, NoInodeOut DEF IsDir, CopyOf
<1>4. CASE Len(p) # 1
  <2>1. p[1] \in Names /\ <<p[1]>> \in Paths /\ Len(<<p[1]>>) = 1 /\ <<p[1]>>[1] = p[1]
    BY PathParts
  <2>2. DirOf(p) = findIndexNode[<<p[1]>>] BY <1>4 DEF DirOf
  <2>3. DirOf(p) = Follow(found, HopThresh, EntryNode(Root, p[1]))
    BY <1>1, <2>1, <2>2, FoundIs, FoundSteps DEF Reach
  <2> QED BY <1>2, <1>4, <2>3 DEF Reach
<1> QED BY <1>3, <1>4

LEMMA FindLives ==
  ASSUME DiskOK, NodeOK(mem.root), mem.root.mode = "dir", Consistent, mem.root = inode[Root],
         NEW p \in Paths, NEW i, i = findIndexNode[p], i # NoInode, i # Root
  PROVE  i \in Inodes /\ inode[i].nlink > 0
<1>1. IsDir(DirOf(p)) BY FoundHasDir
<1>2. i = EntryNode(DirOf(p), Last(p)) \/ \E m \in Names : i = EntryNode(Root, m) BY <1>1, FindEnds
<1>3. CASE i = EntryNode(DirOf(p), Last(p)) BY <1>1, <1>3, FoundLives
<1>4. ASSUME NEW m \in Names, i = EntryNode(Root, m) PROVE i \in Inodes /\ inode[i].nlink > 0
  <2>1. PICK q \in Paths : q = <<m>>
    <3>1. <<m>> \in Paths BY DEF Paths
    <3> QED BY <3>1
  <2>2. DirOf(q) = Root
    <3>1. Len(q) = 1 BY <2>1
    <3> QED BY <3>1, DirOfType
  <2>3. IsDir(DirOf(q)) BY <2>2, NoInodeOut DEF IsDir, CopyOf
  <2> QED BY <1>4, <2>2, <2>3, FoundLives
<1> QED BY <1>2, <1>3, <1>4

LEMMA LinkOwn ==
  ASSUME FsInv, InOrder, Own, Link
  PROVE  Own'
<1>1. /\ pc = "link" /\ pc' = "insert" /\ pending = <<>> /\ pending' = <<>> /\ UNCHANGED disk /\ call' = call
      /\ findIndexNode[call.old] # NoInode /\ ~ IsDir(findIndexNode[call.old]) /\ harm' = harm
  BY DEF Link, Linkable, Ready
<1>2. mem \in Mems /\ DiskOK /\ CallOK /\ NodeOK(mem.root) /\ (call.kind \notin {"none", "fsck"} => RootOK)
  BY DEF FsInv, MemOK
<1>3. call \in LinkCalls /\ call.kind = "link" /\ call.old \in Paths BY <1>1, <1>2, WhoIsAt, Kinds
<1>4. PICK i : i = findIndexNode[call.old] OBVIOUS
<1>5. i # NoInode /\ i # Root /\ mem.root.mode = "dir"
  BY <1>1, <1>2, <1>3, <1>4 DEF IsDir, CopyOf, RootOK
<1>6. PICK S, bm : Steady(S, bm) BY <1>1, AtReady DEF Working
<1>7. Consistent /\ mem.root = inode[Root] BY <1>1, <1>6 DEF Steady, Untouched, Again
<1>8. i \in Inodes /\ inode[i].nlink > 0 BY <1>2, <1>3, <1>4, <1>5, <1>7, FindLives
<1>9. mem'.root = mem.root /\ mem'.ino = i /\ mem'.file = inode[i] BY <1>2, <1>4 DEF Link, Mems
<1>10. FileLives BY <1>3 DEF Own
<1>11. FileLives' BY <1>1, <1>8, <1>9 DEF FileLives
<1>12. Addrs(mem'.file) \subseteq Owned(mem'.ino)
  <2>1. Addrs(inode[i]) \subseteq Owned(i) BY <1>8, <1>10, OwnedParts
  <2> QED BY <1>9, <2>1
<1>13. \A j \in Inodes : Spared(j) => Spared(j)' BY <1>3 DEF Spared
<1>14. \E o, F : Grows(o, F) BY <1>1, <1>9, <1>12, <1>13, SilentGrows
<1>15. harm \subseteq harm' BY <1>1
<1> QED BY <1>1, <1>3, <1>11, <1>14, <1>15, GrowsOwn

LEMMA LinkedOwn ==
  ASSUME FsInv, Own, Linked
  PROVE  Own'
<1>1. /\ pc = "linked" /\ pc' = "exit" /\ pending = <<>> /\ UNCHANGED disk /\ call' = call /\ harm' = harm
      /\ pending' = <<WriteInode(mem.ino, [mem.file EXCEPT !.nlink = @ + 1])>>
      /\ mem' = [mem EXCEPT !.ok = TRUE]
  BY DEF Linked, Ready, Exit
<1>2. mem \in Mems /\ call.kind = "link"
  <2>1. call \in LinkCalls BY <1>1, WhoIsAt DEF FsInv
  <2> QED BY <2>1 DEF FsInv, MemOK, LinkCalls
<1>3. PICK i, g : i = mem.ino /\ g = [mem.file EXCEPT !.nlink = @ + 1] OBVIOUS
<1>4. Addrs(g) = Addrs(mem.file) BY <1>2, <1>3 DEF Mems, IndexNodes, Addrs
<1>5. FileLives BY <1>2 DEF Own
<1>6. Addrs(g) \subseteq Owned(i) BY <1>1, <1>3, <1>4, <1>5, OwnedParts DEF HasFile
<1>7. mem'.root = mem.root /\ FileLives' BY <1>1, <1>2 DEF Mems, FileLives, FilePcs
<1>8. \A j \in Inodes : Spared(j) => Spared(j)' BY <1>2 DEF Spared
<1>9. pending' = <<WriteInode(i, g)>> BY <1>1, <1>3
<1>10. \E o, F : Grows(o, F) BY <1>1, <1>6, <1>7, <1>8, <1>9, NodeGrows DEF HasFile, FilePcs
<1>11. harm \subseteq harm' BY <1>1
<1> QED BY <1>1, <1>2, <1>7, <1>10, <1>11, GrowsOwn

\* A new node has no blocks yet.
LEMMA NewOwn ==
  ASSUME FsInv, Own, UNCHANGED <<disk, call>>, pending = <<>>, call.kind \notin {"none", "fsck"},
         pc \in {"creat", "symlink"}, harm \subseteq harm', NEW i, NEW node, pending' = <<WriteInode(i, node)>>,
         node.nlink = 1, "broken" \in harm' \/ Addrs(node) = {},
         mem'.root = mem.root, mem'.ino = i, mem'.file = node, pc' \in {"insert", "target"},
         call.kind # "mkdir" \/ pc = "creat"
  PROVE  Own'
<1>1. FileLives'
  <2>1. Among(pending') = {WriteInode(i, node)} BY DEF Among
  <2>2. Written(i)' = {node} BY <2>1 DEF Written, Among, WriteInode
  <2>3. (mem.ino = i)' OBVIOUS
  <2>4. Written(mem.ino)' = {node} BY <2>2, <2>3 DEF Written
  <2> QED BY <2>4 DEF FileLives
<1>2. \A j \in Inodes : Spared(j) => Spared(j)' BY DEF Spared
<1>3. "broken" \notin harm' => \E o, F : Grows(o, F)
  <2>1. ASSUME Addrs(node) = {} PROVE \E o, F : Grows(o, F)
    <3>1. Addrs(node) \subseteq Owned(i) /\ Addrs(mem'.file) \subseteq Owned(mem'.ino) BY <2>1
    <3> QED BY <1>2, <3>1, NodeGrows
  <2> QED BY <2>1
<1> QED BY <1>1, <1>3, GrowsOwn

LEMMA CreatNewOwn ==
  ASSUME FsInv, Own, CreatNew
  PROVE  Own'
<1> DEFINE mode == IF call.kind = "mkdir" THEN "dir" ELSE "file"
           j == EntryNode(DirOf(call.path), Last(call.path))
<1>1. PICK i, node :
        /\ i = allocateIndexNode
        /\ node = IF BrokenLink(call.path) THEN [inode[j] EXCEPT !.mode = mode, !.nlink = 1] ELSE New(mode)
  OBVIOUS
<1>2. /\ pc = "creat" /\ pending = <<>> /\ IsDir(DirOf(call.path)) /\ UNCHANGED disk /\ call' = call
      /\ harm' = IF BrokenLink(call.path) THEN harm \cup {"broken"} ELSE harm
      /\ i = NoInode => pending' = <<>> /\ Exit(FALSE)
      /\ i # NoInode => /\ pending' = <<WriteInode(i, node)>> /\ pc' = "insert"
                        /\ mem' = [mem EXCEPT !.ino = i, !.file = node, !.inoHint = (i + 1) % NumInodes]
  BY <1>1 DEF CreatNew, Ready
<1>3. DiskOK /\ CallOK /\ mem \in Mems /\ NodeOK(mem.root) BY DEF FsInv, MemOK
<1>4. call \in CreateCalls \cup MkdirCalls /\ call.path \in Paths /\ call.kind \in {"create", "mkdir"}
  BY <1>2, <1>3, WhoIsAt, Kinds
<1>5. harm \subseteq harm' BY <1>2
<1>6. CASE i = NoInode BY <1>2, <1>5, <1>6, GivesUpOwn
<1>7. CASE i # NoInode
  <2>1. node.nlink = 1 /\ ("broken" \in harm' \/ Addrs(node) = {})
    <3>1. CASE BrokenLink(call.path)
      <4>1. PICK k : k = j OBVIOUS
      <4>2. k \in Inodes BY <1>2, <1>3, <1>4, <3>1, <4>1, BrokenIsLink
      <4>3. node = [inode[k] EXCEPT !.mode = mode, !.nlink = 1] BY <1>1, <3>1, <4>1
      <4> HIDE DEF mode, j
      <4>4. node.nlink = 1 BY <1>3, <4>2, <4>3 DEF DiskOK, IndexNodes
      <4> QED BY <1>2, <3>1, <4>4
    <3>2. CASE ~ BrokenLink(call.path)
      <4>1. node = New(mode) BY <1>1, <3>2
      <4> HIDE DEF mode
      <4> QED BY <4>1 DEF New, Addrs, NoAddresses
    <3> QED BY <3>1, <3>2
  <2> HIDE DEF mode, j
  <2>2. mem'.root = mem.root /\ mem'.ino = i /\ mem'.file = node BY <1>2, <1>3, <1>7 DEF Mems
  <2>3. pending' = <<WriteInode(i, node)>> /\ pc' = "insert" BY <1>2, <1>7
  <2> QED BY <1>2, <1>4, <1>5, <2>1, <2>2, <2>3, NewOwn
<1> QED BY <1>6, <1>7

LEMMA SymlinkOwn ==
  ASSUME FsInv, Own, Symlink
  PROVE  Own'
<1>1. /\ pc = "symlink" /\ pc' = "target" /\ pending = <<>> /\ UNCHANGED disk /\ call' = call /\ harm' = harm
      /\ pending' = <<WriteInode(allocateIndexNode, New("link"))>>
  BY DEF Symlink, Ready
<1>2. mem \in Mems /\ call.kind = "symlink"
  <2>1. call \in SymlinkCalls BY <1>1, WhoIsAt DEF FsInv
  <2> QED BY <2>1 DEF FsInv, MemOK, SymlinkCalls
<1>3. PICK i, node : i = allocateIndexNode /\ node = New("link") OBVIOUS
<1>4. node.nlink = 1 /\ Addrs(node) = {} BY <1>3 DEF New, Addrs, NoAddresses
<1>5. mem'.root = mem.root /\ mem'.ino = i /\ mem'.file = node BY <1>2, <1>3 DEF Symlink, Mems
<1>6. pending' = <<WriteInode(i, node)>> /\ harm \subseteq harm' BY <1>1, <1>3
<1> QED BY <1>1, <1>2, <1>4, <1>5, <1>6, NewOwn
-----------------------------------------------------------------------------
(***************************************************************************)
(* No step of any program gives a block to two index nodes.                *)
(***************************************************************************)
LEMMA InitOwn == Init => Own
BY DEF Init, Own, Idle

LEMMA StartsOwn ==
  ASSUME FsInv, Create \/ Mkdir \/ Ln \/ LnS \/ Rm
  PROVE  Own'
<1>1. PICK c, at : at \in {"creat", "link", "symlink", "unlink"} /\ Start(c, at)
  BY DEF Create, Mkdir, Ln, LnS, Rm
<1> QED BY <1>1, StartOwn

LEMMA StutterOwn ==
  ASSUME Own, UNCHANGED vars
  PROVE  Own'
<1>1. /\ bitmap' = bitmap /\ inode' = inode /\ block' = block /\ pending' = pending
      /\ pc' = pc /\ call' = call /\ mem' = mem /\ harm' = harm
  BY DEF vars
<1>2. FileLives' = FileLives BY <1>1 DEF FileLives, Written, Among
<1>3. \A i : Later(i)' = Later(i) /\ Written(i)' = Written(i)
  BY <1>1 DEF Later, Written, Among, FileHeld, DirHeld
<1>4. \A i : Owned(i)' = Owned(i) BY <1>1, <1>3 DEF Owned, Addrs
<1>5. OwnersApart' = OwnersApart BY <1>4 DEF OwnersApart
<1>6. \A bm : \A i \in Inodes : Spared(i) \/ HeldIn(bm, i) => (Spared(i) \/ HeldIn(bm, i))'
  BY <1>1, <1>3 DEF Spared, HeldIn, Addrs
<1>7. \A bm : Marked(bm) => Marked(bm)'
  <2>1. \A bm : BitsAhead(bm)' = BitsAhead(bm) BY <1>1 DEF BitsAhead, Among
  <2> QED BY <1>6, <2>1 DEF Marked
<1> QED BY <1>1, <1>2, <1>5, <1>7 DEF Own

LEMMA NextOwn == FsInv /\ InOrder /\ Own /\ [Next]_vars => Own'
<1> SUFFICES ASSUME FsInv, InOrder, Own, [Next]_vars PROVE Own'
  OBVIOUS
<1>1. CASE Create \/ Mkdir \/ Ln \/ LnS \/ Rm BY <1>1, StartsOwn
<1>2. CASE Creat BY <1>2, CreatNewOwn, CreatTruncatesOwn, FailuresOwn DEF Creat
<1>3. CASE Insert BY <1>3, OpenDirOwn, PlaceOwn, PlaceLastOwn, FailuresOwn DEF Insert
<1>4. CASE WriteAll BY <1>4, WriteOwn, FailuresOwn DEF WriteAll
<1>5. CASE MkdirRest
  BY <1>5, MkdirDotOwn, MkdirIncOwn, MkdirDotDotOwn, MkdirParentOwn, FailuresOwn DEF MkdirRest
<1>6. CASE LinkAll BY <1>6, LinkOwn, LinkedOwn, FailuresOwn DEF LinkAll
<1>7. CASE SymlinkAll
  BY <1>7, SymlinkOwn, SymlinkTargetOwn, SymlinkUndoOwn, FailuresOwn DEF SymlinkAll
<1>8. CASE UnlinkAll BY <1>8, UnlinkOwn, PullOwn, CutOwn, FailuresOwn DEF UnlinkAll
<1>9. CASE FsckAll BY <1>9, FailuresOwn, OthersOwn DEF FsckAll
<1>10. CASE Return \/ Crash BY <1>10, OthersOwn
<1>11. CASE Flush BY <1>11, FlushOwn
<1>12. CASE UNCHANGED vars BY <1>12, StutterOwn
<1> QED
  BY <1>1, <1>2, <1>3, <1>4, <1>5, <1>6, <1>7, <1>8, <1>9, <1>10, <1>11, <1>12 DEF Next

LEMMA OwnInvariance == Spec => []Own
BY InitOwn, FsInvariance, SpecInOrder, NextOwn, PTL DEF Spec

LEMMA OwnersAreOne == FsInv /\ Own => OneOwner
<1> SUFFICES ASSUME FsInv, Own, call.kind \notin {"none", "fsck"}, "broken" \notin harm,
                    NEW i \in Live, NEW j \in Live, i # j
             PROVE  AddressesOf(i) \cap AddressesOf(j) = {}
  BY DEF OneOwner
<1>1. FileLives /\ OwnersApart BY DEF Own
<1>2. i \in Inodes /\ j \in Inodes /\ inode[i].nlink # 0 /\ inode[j].nlink # 0 BY DEF Live
<1>3. AddressesOf(i) = Addrs(inode[i]) /\ AddressesOf(j) = Addrs(inode[j]) BY DEF AddressesOf, Addrs
<1>4. Addrs(inode[i]) \subseteq Owned(i) /\ Addrs(inode[j]) \subseteq Owned(j) BY <1>1, <1>2, OwnedParts
<1> QED BY <1>1, <1>2, <1>3, <1>4 DEF OwnersApart

LEMMA InUseIsMarked == FsInv /\ Own => UsedAreMarked
<1> SUFFICES ASSUME FsInv, Own, call.kind \notin {"none", "fsck"}, pending = <<>>,
                    harm \cap {"broken", "file", "shrink"} = {}
             PROVE  InUse \subseteq bitmap
  BY DEF UsedAreMarked
<1>1. FileLives BY DEF Own
<1>2. PICK bm : Marked(bm) BY DEF Own
<1>3. ASSUME NEW i \in Live PROVE AddressesOf(i) \subseteq bitmap
  <2>1. i \in Inodes /\ inode[i].nlink # 0 BY <1>3 DEF Live
  <2>2. Addrs(inode[i]) \subseteq Owned(i) BY <1>1, <2>1, OwnedParts
  <2>3. ~ Spared(i) BY DEF Spared
  <2>4. Owned(i) \subseteq bm /\ bm \subseteq bitmap BY <1>2, <2>1, <2>3, OwnedMarked
  <2>5. AddressesOf(i) = Addrs(inode[i]) BY DEF AddressesOf, Addrs
  <2> QED BY <2>2, <2>4, <2>5
<1> QED BY <1>3 DEF InUse

\* However a program is interleaved with its own unfinished writes, and wherever
\* it is stopped, no block is in two index nodes.
THEOREM SpecOneOwner == Spec => []OneOwner
BY FsInvariance, OwnInvariance, OwnersAreOne, PTL

\* allocateBlock looks only at the bitmap: between the steps of a program it never
\* offers a block that an index node uses.
THEOREM SpecUsedAreMarked == Spec => []UsedAreMarked
BY FsInvariance, OwnInvariance, InUseIsMarked, PTL

\* The two together, as the run checks them.
THEOREM SpecBlocksKept == Spec => []BlocksKept
<1>1. OneOwner /\ UsedAreMarked => BlocksKept
  BY DEF BlocksKept
<1> QED
  BY <1>1, SpecOneOwner, SpecUsedAreMarked, PTL

-----------------------------------------------------------------------------
(***************************************************************************)
(* What a program does to the directories it has found.  D are the         *)
(* directories there were when it started, base their index nodes at that  *)
(* time: the places where the entries it found are to be looked for.       *)
(***************************************************************************)
Listing(d, e) == <<d, e.name, e.ino>>

\* What is at these places if the blocks are blk, and the blocks they are in.
Shown(D, base, blk) ==
  UNION {{Listing(d, EntryIn(blk, base[d], k)) : k \in 0 .. base[d].size - 1} : d \in D}

DirBlocks(D, base) == UNION {{base[d].addr[k \div PerBlock] : k \in 0 .. base[d].size - 1} : d \in D}

\* Each of these blocks is at one place of one directory.
OldDirs(D, base) ==
  /\ D \subseteq Inodes /\ \A d \in D : NodeOK(base[d]) /\ base[d].mode = "dir"
  /\ \A c, d \in D : \A j \in 0 .. base[c].size - 1, k \in 0 .. base[d].size - 1 :
       /\ base[c].addr[j \div PerBlock] # NoBlock
       /\ base[c].addr[j \div PerBlock] = base[d].addr[k \div PerBlock] =>
            c = d /\ j \div PerBlock = k \div PerBlock

\* Nothing behind the last entry but the rest of its block.
Tight(node) ==
  \A q \in DOMAIN NoAddresses : node.addr[q] # NoBlock => \E j \in 0 .. node.size - 1 : j \div PerBlock = q

\* The directory node still has these places.
Covers(node, c) ==
  /\ node.mode = "dir" /\ node.nlink > 0 /\ node.size >= c.size
  /\ \A k \in 0 .. c.size - 1 : node.addr[k \div PerBlock] = c.addr[k \div PerBlock]

LEMMA PlaceOf ==
  ASSUME NEW D, NEW base, OldDirs(D, base), NEW d \in D, NEW k \in 0 .. base[d].size - 1
  PROVE  /\ k \in 0 .. Space - 1 /\ k \div PerBlock \in DOMAIN NoAddresses
         /\ k \div PerBlock \in 0 .. MaxDirectBlocks - 1 /\ k % PerBlock \in 0 .. PerBlock - 1
         /\ base[d].addr[k \div PerBlock] \in Addrs(base[d]) \cap Blocks
         /\ base[d].addr[k \div PerBlock] \in DirBlocks(D, base)
<1>1. NodeOK(base[d]) /\ base[d].addr[k \div PerBlock] # NoBlock
  BY DEF OldDirs
<1>2. base[d].addr[k \div PerBlock] \in DirBlocks(D, base)
  BY DEF DirBlocks
<1> QED
  BY <1>1, <1>2, AddressAt

LEMMA PlacesDiffer ==
  ASSUME NEW D, NEW base, OldDirs(D, base), NEW c \in D, NEW d \in D,
         NEW j \in 0 .. base[c].size - 1, NEW k \in 0 .. base[d].size - 1,
         base[c].addr[j \div PerBlock] = base[d].addr[k \div PerBlock]
  PROVE  c = d /\ j \div PerBlock = k \div PerBlock
BY DEF OldDirs

LEMMA ShownAre ==
  ASSUME NEW D, NEW base, NEW blk, NEW x
  PROVE  x \in Shown(D, base, blk) <=>
           \E d \in D : \E k \in 0 .. base[d].size - 1 : x = Listing(d, EntryIn(blk, base[d], k))
BY DEF Shown

LEMMA DirBlocksAre ==
  ASSUME NEW D, NEW base, NEW b
  PROVE  b \in DirBlocks(D, base) <=>
           \E d \in D : \E k \in 0 .. base[d].size - 1 : b = base[d].addr[k \div PerBlock]
BY DEF DirBlocks

LEMMA DirBlocksInBlocks ==
  ASSUME NEW D, NEW base, OldDirs(D, base)
  PROVE  DirBlocks(D, base) \subseteq Blocks
BY PlaceOf, DirBlocksAre

\* Other blocks do not matter.
LEMMA SameShown ==
  ASSUME NEW D, NEW base, OldDirs(D, base), NEW blk, NEW new,
         \A b \in DirBlocks(D, base) : new[b] = blk[b]
  PROVE  Shown(D, base, new) = Shown(D, base, blk)
<1>1. ASSUME NEW d \in D, NEW k \in 0 .. base[d].size - 1
      PROVE  EntryIn(new, base[d], k) = EntryIn(blk, base[d], k)
  <2>1. base[d].addr[k \div PerBlock] \in DirBlocks(D, base)
    BY PlaceOf
  <2> QED
    BY <2>1 DEF EntryIn
<1>2. \A x : x \in Shown(D, base, new) => x \in Shown(D, base, blk)
  BY <1>1, ShownAre
<1>3. \A x : x \in Shown(D, base, blk) => x \in Shown(D, base, new)
  BY <1>1, ShownAre
<1>4. PICK S, T : S = Shown(D, base, new) /\ T = Shown(D, base, blk)
  OBVIOUS
<1>5. S = T
  BY <1>2, <1>3, <1>4
<1> QED
  BY <1>4, <1>5

\* Only the entry at place k of directory d is another one.
OneEntryPut(D, base, blk, new, d, k, e) ==
  /\ EntryIn(new, base[d], k) = e
  /\ \A c \in D : \A j \in 0 .. base[c].size - 1 :
       (c = d /\ j = k) \/ EntryIn(new, base[c], j) = EntryIn(blk, base[c], j)

LEMMA EntryPutOnce ==
  ASSUME NEW D, NEW base, OldDirs(D, base), NEW d \in D, Tight(base[d]), DiskOK,
         NEW k \in 0 .. Space - 1, NEW e, NEW b, NEW new, b = base[d].addr[k \div PerBlock], b # NoBlock,
         EntryPut(base[d], k, e, b, new)
  PROVE  OneEntryPut(D, base, block, new, d, k, e)
<1>1. /\ b \in Blocks /\ new[b].entry[k % PerBlock] = e
      /\ \A a \in Blocks \ {b} : new[a] = block[a]
      /\ \A r \in 0 .. PerBlock - 1 : r # k % PerBlock => new[b].entry[r] = block[b].entry[r]
  BY DEF EntryPut
<1>2. EntryIn(new, base[d], k) = e
  BY <1>1 DEF EntryIn
<1>3. k \div PerBlock \in DOMAIN NoAddresses /\ k \div PerBlock \in 0 .. MaxDirectBlocks - 1
  BY BlockIndex DEF NoAddresses
<1>4. PICK i \in 0 .. base[d].size - 1 : i \div PerBlock = k \div PerBlock
  BY <1>3 DEF Tight
<1>5. ASSUME NEW c \in D, NEW j \in 0 .. base[c].size - 1, ~ (c = d /\ j = k)
      PROVE  EntryIn(new, base[c], j) = EntryIn(block, base[c], j)
  <2>1. PICK a : a = base[c].addr[j \div PerBlock]
    OBVIOUS
  <2>2. a \in Blocks /\ a # NoBlock /\ j % PerBlock \in 0 .. PerBlock - 1 /\ j \in 0 .. Space - 1
    BY <2>1, PlaceOf DEF OldDirs
  <2>3. CASE a # b
    BY <1>1, <2>1, <2>2, <2>3 DEF EntryIn
  <2>4. CASE a = b
    <3>1. c = d /\ j \div PerBlock = k \div PerBlock
      <4>1. base[c].addr[j \div PerBlock] = base[d].addr[i \div PerBlock]
        BY <1>4, <2>1, <2>4
      <4>2. c = d /\ j \div PerBlock = i \div PerBlock
        BY <4>1, PlacesDiffer
      <4> QED
        BY <1>4, <4>2
    <3>2. j % PerBlock # k % PerBlock
      <4>1. PerBlock \in Nat \ {0} /\ j \in Int /\ k \in Int BY Sizes, <2>2
      <4>2. PICK q, r, s : q = k \div PerBlock /\ r = j % PerBlock /\ s = k % PerBlock OBVIOUS
      <4>3. j = PerBlock * q + r /\ k = PerBlock * q + s BY <3>1, <4>1, <4>2
      <4>4. j # k BY <1>5, <3>1
      <4> QED BY <4>2, <4>3, <4>4
    <3> QED
      BY <1>1, <2>1, <2>2, <2>4, <3>2 DEF EntryIn
  <2> QED
    BY <2>3, <2>4
<1> QED
  BY <1>2, <1>5 DEF OneEntryPut

\* A directory that has the places shows what is at them.
LEMMA ListedAtPlaces ==
  ASSUME DiskOK, NEW D, NEW base, OldDirs(D, base), \A d \in D : Covers(inode[d], base[d])
  PROVE  Shown(D, base, block) \subseteq Entries
<1> SUFFICES ASSUME NEW d \in D, NEW k \in 0 .. base[d].size - 1
             PROVE  Listing(d, EntryIn(block, base[d], k)) \in Entries
  BY ShownAre
<1>1. d \in Inodes /\ inode[d].nlink # 0 /\ inode[d].mode = "dir" /\ inode[d].size >= base[d].size
      /\ inode[d].addr[k \div PerBlock] = base[d].addr[k \div PerBlock] /\ NodeOK(base[d])
      /\ inode[d] \in IndexNodes
  BY DEF OldDirs, Covers, DiskOK
<1>2. k \in 0 .. inode[d].size - 1
  <2>1. inode[d].size \in Nat /\ base[d].size \in Nat BY <1>1, NodeParts DEF IndexNodes
  <2> QED BY <1>1, <2>1
<1>3. EntryAt(inode[d], k) = EntryIn(block, base[d], k)
  BY <1>1 DEF EntryAt, EntryIn
<1> QED
  BY <1>1, <1>2, <1>3 DEF Entries, Listing

LEMMA BlocksAllDiffer ==
  ASSUME NEW node \in IndexNodes, NEW n \in Nat, NEW A, A = Addrs(node), Cardinality(A) = n,
         \A k \in DOMAIN NoAddresses : node.addr[k] # NoBlock <=> k < n,
         NEW j \in DOMAIN NoAddresses, NEW k \in DOMAIN NoAddresses,
         node.addr[j] # NoBlock, node.addr[j] = node.addr[k]
  PROVE  j = k
<1>1. DOMAIN NoAddresses = 0 .. MaxDirectBlocks - 1 /\ MaxDirectBlocks \in Nat
  BY Sizes DEF NoAddresses
<1> DEFINE S == {i \in 0 .. MaxDirectBlocks - 1 : i < n}
           h == [i \in S |-> node.addr[i]]
<1>2. h \in Surjection(S, A)
  <2>1. \A i \in S : h[i] \in A
    BY <1>1 DEF Addrs
  <2>2. \A a \in A : \E i \in S : h[i] = a
    BY <1>1 DEF Addrs
  <2>3. h \in [S -> A]
    BY <2>1
  <2> HIDE DEF h
  <2> QED
    BY <2>2, <2>3 DEF Surjection
<1>3. IsFiniteSet(S) /\ Cardinality(S) <= n
  <2>1. S \subseteq 0 .. n - 1
    BY <1>1
  <2>2. IsFiniteSet(0 .. n - 1) /\ Cardinality(0 .. n - 1) = n
    <3>1. 0 \in Int /\ n - 1 \in Int
      OBVIOUS
    <3>2. IsFiniteSet(0 .. n - 1) /\ Cardinality(0 .. n - 1) = IF 0 > n - 1 THEN 0 ELSE n - 1 - 0 + 1
      BY <3>1, FS_Interval
    <3> QED
      BY <3>2
  <2> QED
    BY <2>1, <2>2, FS_Subset
<1>4. Cardinality(A) <= Cardinality(S)
  BY <1>2, <1>3, FS_Surjection
<1>5. Cardinality(S) = Cardinality(A)
  BY <1>3, <1>4, FS_CardinalityType
<1>6. h \in Injection(S, A)
  BY <1>2, <1>3, <1>5, FS_Surjection
<1>7. j \in S /\ k \in S
  BY <1>1
<1>8. h[j] = node.addr[j] /\ h[k] = node.addr[k]
  BY <1>7
<1> HIDE DEF h
<1> QED
  BY <1>6, <1>7, <1>8 DEF Injection, IsInjective

\* A version of index node i that may be on disk: an old directory keeps its
\* places, another index node has none of their blocks.
NodeSpares(D, base, i, node) ==
  IF i \in D THEN Covers(node, base[i])
  ELSE node.nlink # 0 => Addrs(node) \cap DirBlocks(D, base) = {}

\* No write, and no file in memory, has to do with the blocks of the old directories.
WriteSpares(D, base, w) ==
  /\ w.to = "bitmap" => w.set \/ w.at \notin DirBlocks(D, base)
  /\ w.to = "inode" => NodeSpares(D, base, w.at, w.node)

Spares(D, base) ==
  /\ OldDirs(D, base) /\ DirBlocks(D, base) \subseteq bitmap
  /\ \A i \in Inodes : NodeSpares(D, base, i, inode[i])
  /\ \A w \in Among(pending) : WriteSpares(D, base, w)
  /\ pc \in HasFile \cup {"undo"} => mem.ino \notin D
  /\ pc \in HasFile => Addrs(mem.file) \cap DirBlocks(D, base) = {}

\* The entries that are not at their places.
Lost(D, base, blk) == before \ Shown(D, base, blk)

AtMostOne(T) == \E f : T \subseteq {f}

\* Until it has opened its directory a program finds the old directories as they
\* were, and no others.
AsFound(D, base) ==
  /\ \A d \in D : inode[d] = base[d]
  /\ \A i \in Inodes \ D : inode[i].nlink # 0 => inode[i].mode # "dir"
  /\ \A w \in Among(pending) : w.to = "inode" => w.at \notin D /\ w.node.mode # "dir"

\* mkdir with a second argument: the root has one link more by then, so that its
\* copy is known to be stale.
RootCounts ==
  /\ inode[Root].nlink >= mem.root.nlink
  /\ \A w \in Among(pending) : IsRoot(w) => w.node.nlink >= mem.root.nlink
  /\ pc = "place" => mem.dir.nlink = mem.root.nlink

RootCounted ==
  /\ inode[Root].nlink # mem.root.nlink \/ \E w \in Among(pending) : IsRoot(w)
  /\ \A w \in Among(pending) : IsRoot(w) => w.node.nlink # mem.root.nlink

\* The directory is open.  The entry in the hand is not there now; or one that is
\* pulled up has just been there.
DirOpen(D, base, blk) ==
  /\ mem.dirNo \in D /\ Alike(mem.dir, base[mem.dirNo])
  /\ pc = "place" => Lost(D, base, blk) \subseteq {Listing(mem.dirNo, mem.carry)}
  /\ pc = "pull" => \E e :
       /\ Lost(D, base, blk) \subseteq {Listing(mem.dirNo, e)}
       /\ \/ EntryIn(blk, mem.dir, mem.pos) = e
          \/ mem.pos > 0 /\ EntryIn(blk, mem.dir, mem.pos) = EntryIn(blk, mem.dir, mem.pos - 1)

Stage(D, base, blk) ==
  Working =>
    /\ Root \in D /\ mem.root = base[Root] /\ \A d \in D : Tight(base[d])
    /\ pc \in Opening /\ call.kind # "mkdir" => AsFound(D, base) /\ Lost(D, base, blk) = {}
    /\ call.kind = "mkdir" => RootCounts
    /\ call.kind = "mkdir" /\ pc \in {"creat", "insert"} => Lost(D, base, blk) = {} \/ RootCounted
    /\ pc \in {"place", "pull"} => DirOpen(D, base, blk)

\* With blk when the pending writes are made.
Held(D, base, blk) ==
  /\ Spares(D, base) /\ Ahead(blk) /\ Stage(D, base, blk)
  /\ AtMostOne(Lost(D, base, block)) /\ AtMostOne(Lost(D, base, blk))

Plain == call.kind \notin {"none", "fsck"} /\ harm \cap {"shrink", "stale"} = {}

Kept == Plain => \E D, base, blk : Held(D, base, blk)

-----------------------------------------------------------------------------
LEMMA KeptLoses == FsInv /\ Kept => LosesAtMostOne
<1> SUFFICES ASSUME FsInv, Kept, Plain PROVE Cardinality(before \ Entries) <= 1
  BY DEF LosesAtMostOne, Plain
<1>1. PICK D, base, blk : Held(D, base, blk)
  BY DEF Kept
<1>2. DiskOK /\ OldDirs(D, base) /\ \A d \in D : Covers(inode[d], base[d])
  BY <1>1 DEF Held, Spares, NodeSpares, OldDirs, FsInv
<1>3. Shown(D, base, block) \subseteq Entries
  BY <1>2, ListedAtPlaces
<1>4. PICK f : Lost(D, base, block) \subseteq {f}
  BY <1>1 DEF Held, AtMostOne
<1>5. PICK T : T = before \ Entries
  OBVIOUS
<1>6. T \subseteq {f}
  BY <1>3, <1>4, <1>5 DEF Lost
<1>7. IsFiniteSet({f}) /\ Cardinality({f}) = 1
  BY FS_Singleton
<1>8. T \in SUBSET {f}
  BY <1>6
<1>9. Cardinality(T) <= 1
  BY <1>7, <1>8, FS_Subset
<1> QED
  BY <1>5, <1>9

\* One block at most differs from what there is.
LEMMA SameLost ==
  ASSUME NEW D, NEW base, OldDirs(D, base), NEW blk, NEW new,
         \A b \in DirBlocks(D, base) : new[b] = blk[b]
  PROVE  Lost(D, base, new) = Lost(D, base, blk)
BY SameShown DEF Lost

\* The entry at one place is replaced: it may be lost, and e is found.
LEMMA EntryLost ==
  ASSUME NEW D, NEW base, NEW blk, NEW new, NEW d, NEW k, NEW e, OneEntryPut(D, base, blk, new, d, k, e)
  PROVE  /\ Lost(D, base, new) \subseteq Lost(D, base, blk) \cup {Listing(d, EntryIn(blk, base[d], k))}
         /\ d \in D /\ k \in 0 .. base[d].size - 1 => Listing(d, e) \notin Lost(D, base, new)
         /\ ~ (d \in D /\ k \in 0 .. base[d].size - 1) => Lost(D, base, new) \subseteq Lost(D, base, blk)
         /\ \A j \in 0 .. base[d].size - 1 :
              d \in D /\ j # k /\ EntryIn(blk, base[d], j) = EntryIn(blk, base[d], k) =>
                Lost(D, base, new) \subseteq Lost(D, base, blk)
<1>1. \A c \in D : \A j \in 0 .. base[c].size - 1 :
        (c = d /\ j = k) \/ EntryIn(new, base[c], j) = EntryIn(blk, base[c], j)
  BY DEF OneEntryPut
<1>2. ASSUME NEW x \in Shown(D, base, blk), x \notin Shown(D, base, new)
      PROVE  d \in D /\ k \in 0 .. base[d].size - 1 /\ x = Listing(d, EntryIn(blk, base[d], k))
  <2>0. \E c \in D : \E j \in 0 .. base[c].size - 1 : x = Listing(c, EntryIn(blk, base[c], j))
    BY <1>2, ShownAre
  <2>00. PICK c \in D : \E j \in 0 .. base[c].size - 1 : x = Listing(c, EntryIn(blk, base[c], j))
    BY <2>0
  <2>1. PICK j \in 0 .. base[c].size - 1 : x = Listing(c, EntryIn(blk, base[c], j))
    BY <2>00
  <2>2. EntryIn(new, base[c], j) # EntryIn(blk, base[c], j)
    BY <1>2, <2>1, ShownAre
  <2>3. c = d /\ j = k
    BY <1>1, <2>2
  <2> QED
    BY <2>1, <2>3
<1>3. d \in D /\ k \in 0 .. base[d].size - 1 => Listing(d, e) \in Shown(D, base, new)
  <2>1. EntryIn(new, base[d], k) = e
    BY DEF OneEntryPut
  <2> QED
    BY <2>1, ShownAre
<1>4. ASSUME NEW j \in 0 .. base[d].size - 1, d \in D, j # k, EntryIn(blk, base[d], j) = EntryIn(blk, base[d], k)
      PROVE  Listing(d, EntryIn(blk, base[d], k)) \in Shown(D, base, new)
  <2>1. EntryIn(new, base[d], j) = EntryIn(blk, base[d], j)
    BY <1>1, <1>4
  <2> QED
    BY <1>4, <2>1, ShownAre
<1> QED
  BY <1>2, <1>3, <1>4 DEF Lost

-----------------------------------------------------------------------------
(***************************************************************************)
(* From step to step.                                                      *)
(***************************************************************************)
\* What is said of the directories found does not change.
LEMMA Always ==
  ASSUME NEW D, NEW base
  PROVE  /\ OldDirs(D, base)' = OldDirs(D, base) /\ DirBlocks(D, base)' = DirBlocks(D, base)
         /\ \A node : Addrs(node)' = Addrs(node) /\ Tight(node)' = Tight(node)
         /\ \A i, node : NodeSpares(D, base, i, node)' = NodeSpares(D, base, i, node)
         /\ \A w : WriteSpares(D, base, w)' = WriteSpares(D, base, w)
<1>1. OldDirs(D, base)' = OldDirs(D, base)
  BY DEF OldDirs, Inodes, NodeOK, IndexNodes, Space, NoBlock, Blocks
<1>2. DirBlocks(D, base)' = DirBlocks(D, base)
  BY DEF DirBlocks
<1>3. \A node : Addrs(node)' = Addrs(node) /\ Tight(node)' = Tight(node)
  BY DEF Addrs, Tight, NoBlock, NoAddresses
<1>4. \A i, node : NodeSpares(D, base, i, node)' = NodeSpares(D, base, i, node)
  BY <1>2, <1>3 DEF NodeSpares, Covers
<1>5. \A w : WriteSpares(D, base, w)' = WriteSpares(D, base, w)
  BY <1>2, <1>4 DEF WriteSpares
<1> QED
  BY <1>1, <1>2, <1>3, <1>4, <1>5

\* Entries are lost when the blocks change.
LEMMA LostStays ==
  ASSUME before' = before, NEW D, NEW base
  PROVE  /\ \A blk : Lost(D, base, blk)' = Lost(D, base, blk)
         /\ \A blk : block' = blk => Lost(D, base, block)' = Lost(D, base, blk)
         /\ \A blk, node, k : EntryIn(blk, node, k)' = EntryIn(blk, node, k)
<1>1. \A blk, node, k : EntryIn(blk, node, k)' = EntryIn(blk, node, k)
  BY DEF EntryIn, NoBlock, Blank, Entry
<1>2. \A blk : Shown(D, base, blk)' = Shown(D, base, blk)
  BY DEF Shown, Listing, EntryIn, NoBlock, Blank, Entry
<1>3. \A blk : block' = blk => Shown(D, base, block)' = Shown(D, base, blk)
  BY DEF Shown, Listing, EntryIn, NoBlock, Blank, Entry
<1> QED
  BY <1>1, <1>2, <1>3 DEF Lost

\* All writes are made: the program does its next step.
Settled(D, base, blk) ==
  blk = block /\ Spares(D, base) /\ Stage(D, base, blk) /\ AtMostOne(Lost(D, base, blk))

LEMMA AtHand ==
  ASSUME FsInv, Kept, Plain, pending = <<>>
  PROVE  \E D, base, blk : Settled(D, base, blk)
<1>1. PICK D, base, blk : Held(D, base, blk)
  BY DEF Kept
<1>2. DiskOK /\ blk = block
  BY <1>1, NothingAhead DEF Held, FsInv
<1>3. Settled(D, base, blk)
  BY <1>1, <1>2 DEF Held, Settled
<1> QED
  BY <1>3

\* What a step writes, and the file it has in memory then.
StepSpares(D, base) ==
  /\ \A w \in Among(pending') : WriteSpares(D, base, w)
  /\ pc' \in HasFile \cup {"undo"} => mem'.ino \notin D
  /\ pc' \in HasFile => Addrs(mem'.file) \cap DirBlocks(D, base) = {}

LEMMA StepHeld ==
  ASSUME UNCHANGED disk, before' = before, NEW D, NEW base, NEW blk, Spares(D, base), StepSpares(D, base),
         Ahead(blk)', Stage(D, base, blk)', AtMostOne(Lost(D, base, block)), AtMostOne(Lost(D, base, blk))
  PROVE  Held(D, base, blk)'
<1>1. bitmap' = bitmap /\ inode' = inode /\ block' = block
  BY DEF disk
<1>2. Spares(D, base)'
  BY <1>1, Always DEF Spares, StepSpares, Inodes, Among, HasFile, FilePcs
<1>3. Lost(D, base, block)' = Lost(D, base, block) /\ Lost(D, base, blk)' = Lost(D, base, blk)
  BY <1>1, LostStays
<1>4. AtMostOne(Lost(D, base, block))' /\ AtMostOne(Lost(D, base, blk))'
  BY <1>3 DEF AtMostOne
<1> QED
  BY <1>2, <1>4 DEF Held

LEMMA QuietAhead ==
  ASSUME DiskOK, UNCHANGED disk, \A w \in Among(pending') : w.to # "block", NEW blk, blk = block
  PROVE  Ahead(blk)'
<1>1. block' = block /\ block \in [Blocks -> DataBlocks]
  BY DEF disk, DiskOK
<1>2. \A m \in DOMAIN pending' : pending'[m].to # "block"
  BY DEF Among
<1> QED
  BY <1>1, <1>2 DEF Ahead, Among

LEMMA PutAhead ==
  ASSUME DiskOK, UNCHANGED disk, Writes(pending'), OneData(pending'), NEW b, NEW data,
         WriteData(b, data) \in Among(pending'),
         \A w \in Among(pending') : w.to = "block" => w = WriteData(b, data),
         NEW blk, blk = [block EXCEPT ![b] = data]
  PROVE  Ahead(blk)' /\ b \in Blocks
<1>1. block' = block /\ block \in [Blocks -> DataBlocks]
  BY DEF disk, DiskOK
<1>2. b \in Blocks /\ data \in DataBlocks
  <2>1. WriteOK(WriteData(b, data))
    BY WritesAreOK
  <2> QED
    BY <2>1 DEF WriteOK, WriteData
<1>3. blk \in [Blocks -> DataBlocks] /\ blk[b] = data /\ \A a \in Blocks : a # b => blk[a] = block[a]
  BY <1>1, <1>2
<1>4. \A w \in Among(pending') : w.to = "block" => blk[w.at] = w.data
  BY <1>3 DEF WriteData
<1>5. \A a \in Blocks : blk[a] = block[a] \/ \E w \in Among(pending') : w.to = "block" /\ w.at = a
  BY <1>3 DEF WriteData
<1> QED
  BY <1>1, <1>2, <1>3, <1>4, <1>5 DEF Ahead, Among, OneData

\* A step that writes no block.
LEMMA QuietKept ==
  ASSUME FsInv, Kept, pending = <<>>, UNCHANGED disk, before' = before, Plain' => Plain,
         \A w \in Among(pending') : w.to # "block",
         Plain' => \A D, base, blk : Settled(D, base, blk) => StepSpares(D, base) /\ Stage(D, base, blk)'
  PROVE  Kept'
<1> SUFFICES ASSUME Plain' PROVE (\E D, base, blk : Held(D, base, blk))'
  BY DEF Kept
<1>1. PICK D, base, blk : Settled(D, base, blk)
  BY AtHand
<1>2. StepSpares(D, base) /\ Stage(D, base, blk)'
  BY <1>1
<1>3. Ahead(blk)'
  BY <1>1, QuietAhead DEF Settled, FsInv
<1>4. Spares(D, base) /\ AtMostOne(Lost(D, base, block)) /\ AtMostOne(Lost(D, base, blk))
  BY <1>1 DEF Settled
<1>5. Held(D, base, blk)'
  BY <1>2, <1>3, <1>4, StepHeld
<1> QED
  BY <1>5

\* A program ends and writes nothing more.
LEMMA GivesUpKept ==
  ASSUME FsInv, Kept, UNCHANGED <<disk, pending, call, before>>, pending = <<>>,
         NEW ok, Exit(ok), harm \subseteq harm'
  PROVE  Kept'
<1>1. pc' = "exit"
  BY DEF Exit
<1>2. Among(pending') = {}
  <2>1. pending' = <<>>
    OBVIOUS
  <2> QED
    BY <2>1, NothingPending
<1>3. Plain' => Plain
  BY DEF Plain
<1>4. \A D, base, blk : StepSpares(D, base) /\ Stage(D, base, blk)'
  BY <1>1, <1>2 DEF StepSpares, Stage, Working, HasFile, FilePcs
<1> QED
  BY <1>2, <1>3, <1>4, QuietKept

LEMMA FailuresKept ==
  ASSUME FsInv, Kept
  PROVE  CreatFails \/ InsertFails \/ WriteFails \/ Close \/ MkdirFails \/ LinkFails
           \/ SymlinkFails \/ UnlinkFails \/ FsckFails => Kept'
<1>1. ASSUME CreatFails PROVE Kept' BY <1>1, GivesUpKept DEF CreatFails, Ready
<1>2. ASSUME InsertFails PROVE Kept'
  <2>1. harm \subseteq harm' BY <1>2 DEF InsertFails
  <2> QED BY <1>2, <2>1, GivesUpKept DEF InsertFails, Ready
<1>3. ASSUME WriteFails PROVE Kept' BY <1>3, GivesUpKept DEF WriteFails, WriteMore, Ready
<1>4. ASSUME Close PROVE Kept' BY <1>4, GivesUpKept DEF Close, Ready
<1>5. ASSUME MkdirFails PROVE Kept'
  <2>1. harm \subseteq harm' BY <1>5 DEF MkdirFails
  <2> QED BY <1>5, <2>1, GivesUpKept DEF MkdirFails, Ready
<1>6. ASSUME LinkFails PROVE Kept' BY <1>6, GivesUpKept DEF LinkFails, Ready
<1>7. ASSUME SymlinkFails PROVE Kept' BY <1>7, GivesUpKept DEF SymlinkFails, Ready
<1>8. ASSUME UnlinkFails PROVE Kept' BY <1>8, GivesUpKept DEF UnlinkFails, Ready
<1>9. ASSUME FsckFails PROVE Kept' BY <1>9, GivesUpKept DEF FsckFails, Ready
<1> QED BY <1>1, <1>2, <1>3, <1>4, <1>5, <1>6, <1>7, <1>8, <1>9

\* Between programs, and in fsck, nothing is said.
LEMMA OthersKept ==
  ASSUME FsInv, Return \/ Crash \/ Fsck \/ FsckLinks \/ FsckBlocks
  PROVE  Kept'
<1>1. CASE Return \/ Crash BY <1>1 DEF Return, Crash, Kept, Plain, Idle
<1>2. CASE Fsck BY <1>2 DEF Fsck, Kept, Plain
<1>3. CASE FsckLinks \/ FsckBlocks
  <2>1. call \in FsckCalls BY <1>3, WhoIsAt DEF FsckLinks, FsckBlocks, Ready, FsInv
  <2>2. call' = call \/ call' = [call EXCEPT !.refused = TRUE]
    BY <1>3 DEF FsckLinks, FsckBlocks, Answered
  <2>3. call'.kind = "fsck" BY <2>1, <2>2 DEF FsckCalls
  <2> QED BY <2>3 DEF Kept, Plain
<1> QED BY <1>1, <1>2, <1>3

-----------------------------------------------------------------------------
(***************************************************************************)
(* A write reaches the disk.                                               *)
(***************************************************************************)
LEMMA FlushSpares ==
  ASSUME FsInv, Flush, NEW D, NEW base, Spares(D, base)
  PROVE  Spares(D, base)'
<1> DEFINE w == Head(pending)
<1>1. Writes(pending) /\ pending # <<>> /\ pending' = Tail(pending)
      /\ inode' = (IF w.to = "inode" THEN [inode EXCEPT ![w.at] = w.node] ELSE inode)
      /\ bitmap' = (IF w.to = "bitmap" THEN IF w.set THEN bitmap \cup {w.at} ELSE bitmap \ {w.at}
                    ELSE bitmap)
      /\ inode \in [Inodes -> IndexNodes]
  BY Zenon DEF FsInv, Flush, DiskOK
<1>2. w \in Among(pending) /\ Among(pending) = {w} \cup Among(pending')
  BY <1>1, OneWriteLess
<1>3. mem' = mem /\ pc' = pc
  BY DEF Flush
<1> HIDE DEF w
<1>4. WriteSpares(D, base, w)
  BY <1>2 DEF Spares
<1>5. DirBlocks(D, base) \subseteq bitmap'
  BY <1>1, <1>4 DEF Spares, WriteSpares
<1>6. ASSUME NEW i \in Inodes PROVE NodeSpares(D, base, i, inode'[i])
  <2>1. CASE w.to = "inode" /\ w.at = i
    BY <1>1, <1>4, <2>1 DEF WriteSpares
  <2>2. CASE ~ (w.to = "inode" /\ w.at = i)
    <3>1. inode'[i] = inode[i]
      BY <1>1, <2>2
    <3> QED
      BY <3>1 DEF Spares
  <2> QED
    BY <2>1, <2>2
<1> QED
  BY <1>2, <1>3, <1>5, <1>6, Always DEF Spares, Inodes, Among, HasFile, FilePcs

LEMMA FlushStage ==
  ASSUME FsInv, Flush, NEW D, NEW base, NEW blk, Spares(D, base), Stage(D, base, blk)
  PROVE  Stage(D, base, blk)'
<1> DEFINE w == Head(pending)
<1>1. Writes(pending) /\ pending # <<>> /\ pending' = Tail(pending)
      /\ inode' = (IF w.to = "inode" THEN [inode EXCEPT ![w.at] = w.node] ELSE inode)
      /\ inode \in [Inodes -> IndexNodes] /\ Root \in Inodes
  BY NoInodeOut, Zenon DEF FsInv, Flush, DiskOK
<1>2. w \in Among(pending) /\ Among(pending) = {w} \cup Among(pending')
  BY <1>1, OneWriteLess
<1>3. mem' = mem /\ pc' = pc /\ call' = call /\ before' = before
  BY DEF Flush
<1> HIDE DEF w
<1>4. ASSUME AsFound(D, base) PROVE AsFound(D, base)'
  <2>1. \A d \in D : inode'[d] = base[d]
    BY <1>1, <1>2, <1>4 DEF AsFound, Spares, OldDirs
  <2>2. ASSUME NEW i \in Inodes \ D, inode'[i].nlink # 0 PROVE inode'[i].mode # "dir"
    <3>1. CASE w.to = "inode" /\ w.at = i
      BY <1>1, <1>2, <1>4, <3>1 DEF AsFound
    <3>2. CASE ~ (w.to = "inode" /\ w.at = i)
      <4>1. inode'[i] = inode[i]
        BY <1>1, <3>2
      <4> QED
        BY <1>4, <2>2, <4>1 DEF AsFound
    <3> QED
      BY <3>1, <3>2
  <2>3. \A v \in Among(pending') : v.to = "inode" => v.at \notin D /\ v.node.mode # "dir"
    BY <1>2, <1>4 DEF AsFound
  <2> QED
    BY <2>1, <2>2, <2>3 DEF AsFound, Among, Inodes
<1>5. (inode'[Root] = inode[Root] /\ ~ IsRoot(w)) \/ (inode'[Root] = w.node /\ IsRoot(w))
  BY <1>1 DEF IsRoot
<1>6. RootCounts => RootCounts'
  <2>1. ASSUME RootCounts PROVE inode'[Root].nlink >= mem.root.nlink
    BY <1>2, <1>5, <2>1 DEF RootCounts
  <2> QED
    BY <1>2, <1>3, <2>1 DEF RootCounts, IsRoot, Among
<1>7. RootCounted => RootCounted'
  <2>1. ASSUME RootCounted
        PROVE  inode'[Root].nlink # mem.root.nlink \/ \E v \in Among(pending') : IsRoot(v)
    <3>1. CASE inode'[Root] = w.node /\ IsRoot(w)
      BY <1>2, <2>1, <3>1 DEF RootCounted
    <3>2. CASE inode'[Root] = inode[Root] /\ ~ IsRoot(w)
      BY <1>2, <2>1, <3>2 DEF RootCounted
    <3> QED
      BY <1>5, <3>1, <3>2
  <2> QED
    BY <1>2, <1>3, <2>1 DEF RootCounted, IsRoot, Among
<1>8. Lost(D, base, blk)' = Lost(D, base, blk)
  BY <1>3, LostStays
<1>9. DirOpen(D, base, blk) => DirOpen(D, base, blk)'
  BY <1>3, <1>8, LostStays DEF DirOpen, Alike, Listing
<1> QED
  BY <1>3, <1>4, <1>6, <1>7, <1>8, <1>9, Always DEF Stage, Working, Opening, Root

LEMMA FlushKept ==
  ASSUME FsInv, Kept, Flush
  PROVE  Kept'
<1>1. call' = call /\ harm' = harm /\ before' = before
  BY DEF Flush
<1> SUFFICES ASSUME Plain PROVE (\E D, base, blk : Held(D, base, blk))'
  BY <1>1 DEF Kept, Plain
<1>2. PICK D, base, blk : Held(D, base, blk)
  BY DEF Kept
<1>3. Spares(D, base)' /\ Stage(D, base, blk)'
  BY <1>2, FlushSpares, FlushStage DEF Held
<1>4. Ahead(blk)' /\ (block' = blk \/ block' = block)
  BY <1>2, FlushedAhead DEF Held
<1>5. AtMostOne(Lost(D, base, block))' /\ AtMostOne(Lost(D, base, blk))'
  <2>1. Lost(D, base, blk)' = Lost(D, base, blk)
    BY <1>1, LostStays
  <2>2. Lost(D, base, block)' \in {Lost(D, base, blk), Lost(D, base, block)}
    BY <1>1, <1>4, LostStays
  <2> QED
    BY <1>2, <2>1, <2>2 DEF Held, AtMostOne
<1>6. Held(D, base, blk)'
  BY <1>3, <1>4, <1>5 DEF Held
<1> QED
  BY <1>6

-----------------------------------------------------------------------------
(***************************************************************************)
(* A program starts on a consistent file system.                           *)
(***************************************************************************)
LEMMA LastBlock ==
  ASSUME NEW size \in Nat, NEW q \in Nat, q < (size + PerBlock - 1) \div PerBlock
  PROVE  \E j \in 0 .. size - 1 : j \div PerBlock = q
<1>1. PerBlock \in Nat \ {0} /\ size + PerBlock - 1 \in Nat
  BY Sizes
<1>2. ASSUME NEW p \in Nat \ {0}, NEW a \in Nat, NEW n, n = a \div p, q < n
      PROVE  n \in Nat /\ p * q + p <= a /\ p * q \in Nat /\ (p * q) \div p = q
  <2>1. n \in Nat /\ p * n <= a
    BY <1>2
  <2>2. q + 1 <= n
    BY <1>2, <2>1
  <2>3. p * (q + 1) <= p * n
    BY <2>1, <2>2
  <2>4. p * (q + 1) = p * q + p /\ p * q \in Nat /\ p * n \in Nat
    BY <2>1
  <2>5. (p * q) \div p = q
    OBVIOUS
  <2> QED
    BY <2>1, <2>3, <2>4, <2>5
<1>3. PICK j : j = PerBlock * q
  OBVIOUS
<1>4. PICK a, n : a = size + PerBlock - 1 /\ n = a \div PerBlock
  OBVIOUS
<1>5. j + PerBlock <= a /\ j \in Nat /\ j \div PerBlock = q
  <2>1. a \in Nat /\ PerBlock \in Nat \ {0} /\ q < n
    BY <1>1, <1>4
  <2> QED
    BY <1>2, <1>3, <1>4, <2>1
<1>6. j \in 0 .. size - 1
  BY <1>1, <1>4, <1>5
<1> QED
  BY <1>5, <1>6

DirsNow == {i \in Inodes : inode[i].nlink # 0 /\ inode[i].mode = "dir"}

LEMMA SoundDirs ==
  ASSUME DiskOK, Consistent, NEW d \in DirsNow
  PROVE  /\ d \in Live /\ NodeOK(inode[d]) /\ inode[d] \in IndexNodes /\ inode[d].nlink > 0
         /\ AddressesOf(d) = Addrs(inode[d]) /\ Cardinality(Addrs(inode[d])) = BlocksOf(inode[d])
         /\ BlocksOf(inode[d]) = (inode[d].size + PerBlock - 1) \div PerBlock /\ BlocksOf(inode[d]) \in Nat
         /\ \A k \in DOMAIN NoAddresses : inode[d].addr[k] # NoBlock <=> k < BlocksOf(inode[d])
<1>1. d \in Live /\ d \in Inodes /\ inode[d].mode = "dir"
  BY DEF DirsNow, Live
<1>2. NodeOK(inode[d]) /\ inode[d] \in IndexNodes
  BY <1>1 DEF DiskOK, NodeAt, NodeOK
<1>3. AddressesOf(d) = Addrs(inode[d])
  BY DEF AddressesOf, Addrs
<1>4. BlocksOf(inode[d]) = (inode[d].size + PerBlock - 1) \div PerBlock
  BY <1>1 DEF BlocksOf
<1>5. /\ \A k \in DOMAIN NoAddresses : inode[d].addr[k] # NoBlock <=> k < BlocksOf(inode[d])
      /\ Cardinality(AddressesOf(d)) = BlocksOf(inode[d])
  BY <1>1 DEF Consistent, Sound
<1>6. BlocksOf(inode[d]) \in Nat
  BY <1>2, BlocksOfType
<1>7. inode[d].nlink > 0
  BY <1>1, <1>2 DEF Live, IndexNodes
<1> QED
  BY <1>1, <1>2, <1>3, <1>4, <1>5, <1>6, <1>7

LEMMA DirsAreOld ==
  ASSUME DiskOK, Consistent, NEW D, NEW base, D = DirsNow, base = inode
  PROVE  OldDirs(D, base) /\ \A d \in D : Tight(base[d])
<1>1. ASSUME NEW d \in D, NEW k \in 0 .. base[d].size - 1
      PROVE  k \div PerBlock \in DOMAIN NoAddresses /\ base[d].addr[k \div PerBlock] # NoBlock
  <2>1. PICK c : c = base[d]
    OBVIOUS
  <2>2. NodeOK(c) /\ c.size \in Nat
    BY <2>1, SoundDirs, NodeParts
  <2>3. k \in 0 .. c.size - 1
    BY <2>1
  <2>4. k \div PerBlock \in DOMAIN NoAddresses
    BY <2>2, <2>3, AddressAt
  <2>5. k \div PerBlock < (c.size + PerBlock - 1) \div PerBlock
    BY <2>2, <2>3, BlockCounted
  <2> QED
    BY <2>1, <2>4, <2>5, SoundDirs
<1>2. ASSUME NEW c \in D, NEW d \in D, NEW j \in 0 .. base[c].size - 1, NEW k \in 0 .. base[d].size - 1,
             base[c].addr[j \div PerBlock] = base[d].addr[k \div PerBlock]
      PROVE  c = d /\ j \div PerBlock = k \div PerBlock
  <2>1. base[c].addr[j \div PerBlock] \in Addrs(base[c]) \cap Addrs(base[d])
    BY <1>1, <1>2 DEF Addrs
  <2>2. c = d
    <3>1. c \in Live /\ d \in Live /\ AddressesOf(c) = Addrs(base[c]) /\ AddressesOf(d) = Addrs(base[d])
      BY SoundDirs
    <3> QED
      BY <2>1, <3>1 DEF Consistent, Sound
  <2>3. PICK node, n, A, p, q : /\ node = base[c] /\ n = BlocksOf(node) /\ A = Addrs(node)
                                /\ p = j \div PerBlock /\ q = k \div PerBlock
    OBVIOUS
  <2>4. /\ node \in IndexNodes /\ n \in Nat /\ Cardinality(A) = n
        /\ \A m \in DOMAIN NoAddresses : node.addr[m] # NoBlock <=> m < n
    BY <2>3, SoundDirs
  <2>5. p \in DOMAIN NoAddresses /\ q \in DOMAIN NoAddresses /\ node.addr[p] # NoBlock /\ node.addr[p] = node.addr[q]
    BY <1>1, <1>2, <2>2, <2>3
  <2>6. p = q
    BY <2>3, <2>4, <2>5, BlocksAllDiffer
  <2> QED
    BY <2>2, <2>3, <2>6
<1>3. \A d \in D : NodeOK(base[d]) /\ base[d].mode = "dir" /\ d \in Inodes
  BY SoundDirs DEF DirsNow
<1>4. ASSUME NEW d \in D, NEW q \in DOMAIN NoAddresses, base[d].addr[q] # NoBlock
      PROVE  \E j \in 0 .. base[d].size - 1 : j \div PerBlock = q
  <2>1. PICK size : size = base[d].size
    OBVIOUS
  <2>2. size \in Nat /\ q \in Nat
    BY <1>3, <2>1, NodeParts, Sizes DEF NoAddresses
  <2>3. q < (size + PerBlock - 1) \div PerBlock
    BY <1>4, <2>1, SoundDirs
  <2> QED
    BY <2>1, <2>2, <2>3, LastBlock
<1>5. D \subseteq Inodes
  BY <1>3
<1>6. OldDirs(D, base)
  BY <1>1, <1>2, <1>3, <1>5 DEF OldDirs
<1> QED
  BY <1>4, <1>6 DEF Tight

LEMMA DirsSpared ==
  ASSUME DiskOK, Consistent, NEW D, NEW base, D = DirsNow, base = inode
  PROVE  DirBlocks(D, base) \subseteq bitmap /\ \A i \in Inodes : NodeSpares(D, base, i, inode[i])
<1>1. OldDirs(D, base)
  BY DirsAreOld
<1>2. ASSUME NEW b \in DirBlocks(D, base) PROVE \E d \in D : b \in Addrs(inode[d])
  <2>1. \E d \in D : \E k \in 0 .. base[d].size - 1 : b = base[d].addr[k \div PerBlock]
    BY DirBlocksAre
  <2>2. PICK d \in D : \E k \in 0 .. base[d].size - 1 : b = base[d].addr[k \div PerBlock]
    BY <2>1
  <2>3. PICK k \in 0 .. base[d].size - 1 : b = base[d].addr[k \div PerBlock]
    BY <2>2
  <2>4. b \in Addrs(base[d])
    BY <1>1, <2>3, PlaceOf
  <2> QED
    BY <2>4
<1>3. \A d \in D : d \in Live /\ AddressesOf(d) = Addrs(inode[d])
  BY SoundDirs
<1>4. DirBlocks(D, base) \subseteq bitmap
  BY <1>2, <1>3 DEF Consistent, Clean
<1>5. ASSUME NEW i \in Inodes, i \in D PROVE NodeSpares(D, base, i, inode[i])
  <2>1. Covers(inode[i], base[i])
    <3>1. inode[i].nlink > 0 /\ inode[i].mode = "dir" /\ inode[i].size \in Nat
      BY <1>5, SoundDirs, NodeParts DEF DirsNow
    <3> QED
      BY <3>1 DEF Covers
  <2> QED
    BY <1>5, <2>1 DEF NodeSpares
<1>6. ASSUME NEW i \in Inodes, i \notin D PROVE NodeSpares(D, base, i, inode[i])
  <2>1. ASSUME inode[i].nlink # 0, NEW d \in D PROVE Addrs(inode[i]) \cap Addrs(inode[d]) = {}
    <3>1. i \in Live /\ AddressesOf(i) = Addrs(inode[i])
      BY <2>1 DEF Live, AddressesOf, Addrs
    <3> QED
      BY <1>3, <1>6, <3>1 DEF Consistent, Sound
  <2> QED
    BY <1>2, <1>6, <2>1 DEF NodeSpares
<1> QED
  BY <1>4, <1>5, <1>6

LEMMA EntriesShown ==
  ASSUME NEW D, NEW base, NEW blk, D = DirsNow, base = inode, blk = block
  PROVE  Shown(D, base, blk) = Entries
BY EntryNow DEF Shown, Entries, Listing, DirsNow

LEMMA StartKept ==
  ASSUME FsInv, NEW c, NEW at \in {"creat", "link", "symlink", "unlink"}, Start(c, at)
  PROVE  Kept'
<1>1. /\ pc' = at /\ Consistent /\ UNCHANGED disk /\ mem'.root = inode[Root]
      /\ pending' = <<>> /\ before' = Entries
  <2>1. mem' = [Fresh EXCEPT !.root = inode[Root]] BY DEF Start
  <2>2. mem'.root = inode[Root] BY <2>1 DEF Fresh
  <2>3. pending = <<>> BY DEF Start, FsInv, CallOK, InsertPcs
  <2> QED BY <2>2, <2>3 DEF Start
<1>2. DiskOK /\ Root \in Inodes
  BY NoInodeOut DEF FsInv
<1>3. PICK D, base, blk : D = DirsNow /\ base = inode /\ blk = block
  OBVIOUS
<1>4. OldDirs(D, base) /\ \A d \in D : Tight(base[d])
  BY <1>1, <1>2, <1>3, DirsAreOld
<1>5. DirBlocks(D, base) \subseteq bitmap /\ \A i \in Inodes : NodeSpares(D, base, i, inode[i])
  BY <1>1, <1>2, <1>3, DirsSpared
<1>6. bitmap' = bitmap /\ inode' = inode /\ block' = block
  BY <1>1 DEF disk
<1>7. Among(pending') = {}
  BY <1>1, NothingPending
<1>8. pc' \notin HasFile \cup {"undo", "place", "pull", "insert"}
  BY <1>1 DEF HasFile, FilePcs
<1>9. Spares(D, base)'
  BY <1>4, <1>5, <1>6, <1>7, <1>8, Always DEF Spares, Inodes, Among, HasFile, FilePcs
<1>10. Ahead(blk)'
  BY <1>1, <1>2, <1>3, <1>7, QuietAhead
<1>11. Lost(D, base, blk)' = {} /\ Lost(D, base, block)' = {}
  <2>1. before' \ Shown(D, base, blk) = {}
    BY <1>1, <1>3, EntriesShown
  <2>2. Shown(D, base, blk)' = Shown(D, base, blk) /\ Shown(D, base, block)' = Shown(D, base, blk)
    BY <1>3, <1>6 DEF Shown, Listing, EntryIn, NoBlock, Blank, Entry
  <2> QED
    BY <2>1, <2>2 DEF Lost
<1>12. Stage(D, base, blk)'
  <2>1. inode[Root].nlink > 0 /\ inode[Root].mode = "dir" /\ Root \in D
    BY <1>1, <1>2, <1>3, RootIsLive DEF DiskOK, NodeAt, Consistent, DirsNow
  <2>2. AsFound(D, base)'
    BY <1>3, <1>6, <1>7 DEF AsFound, DirsNow, Among, Inodes
  <2>3. RootCounts'
    BY <1>1, <1>2, <1>6, <1>7, <1>8 DEF RootCounts, Among, DiskOK, IndexNodes
  <2> QED
    BY <1>1, <1>3, <1>4, <1>8, <1>11, <2>1, <2>2, <2>3, Always DEF Stage, Root
<1>13. AtMostOne(Lost(D, base, block))' /\ AtMostOne(Lost(D, base, blk))'
  BY <1>11 DEF AtMostOne
<1>14. Held(D, base, blk)'
  BY <1>9, <1>10, <1>12, <1>13 DEF Held
<1> QED
  BY <1>14 DEF Kept

-----------------------------------------------------------------------------
(***************************************************************************)
(* The file in memory is written.                                          *)
(***************************************************************************)
\* Its blocks, and free ones, are not those of the directories.
LEMMA OutsideDirs ==
  ASSUME NEW D, NEW base, NEW blk, Settled(D, base, blk)
  PROVE  /\ OldDirs(D, base) /\ DirBlocks(D, base) \subseteq bitmap /\ DirBlocks(D, base) \subseteq Blocks
         /\ D \subseteq Inodes
         /\ \A i \in D : inode[i].mode = "dir" /\ inode[i].nlink > 0
         /\ \A i \in Inodes \ D : inode[i].nlink # 0 => Addrs(inode[i]) \cap DirBlocks(D, base) = {}
         /\ Working => Root \in D /\ mem.root = base[Root] /\ \A d \in D : Tight(base[d])
<1>1. Spares(D, base) /\ Stage(D, base, blk)
  BY DEF Settled
<1>2. OldDirs(D, base) /\ DirBlocks(D, base) \subseteq bitmap /\ D \subseteq Inodes
  BY <1>1 DEF Spares, OldDirs
<1>3. \A i \in D : NodeSpares(D, base, i, inode[i])
  BY <1>1, <1>2 DEF Spares
<1>4. \A i \in D : inode[i].mode = "dir" /\ inode[i].nlink > 0
  BY <1>3 DEF NodeSpares, Covers
<1>5. \A i \in Inodes \ D : inode[i].nlink # 0 => Addrs(inode[i]) \cap DirBlocks(D, base) = {}
  BY <1>1 DEF Spares, NodeSpares
<1>6. DirBlocks(D, base) \subseteq Blocks
  BY <1>2, DirBlocksInBlocks
<1> QED
  BY <1>1, <1>2, <1>4, <1>5, <1>6 DEF Stage

\* Only index node i is written, and it is no directory; the program has the
\* root as it was.
LEMMA StageOn ==
  ASSUME NEW D, NEW base, NEW blk, NEW new, Settled(D, base, blk), Working, UNCHANGED <<disk, call, before>>,
         pending = <<>>, mem'.root = mem.root, Lost(D, base, new) = Lost(D, base, blk),
         NEW i, i \notin D, \A w \in Among(pending') : w.to = "inode" => w.at = i,
         pc' \notin {"place", "pull"}, pc' \in {"creat", "insert"} /\ call.kind = "mkdir" => pc = "creat",
         pc' \in Opening /\ call.kind # "mkdir" =>
           pc \in Opening /\ \A w \in Among(pending') : w.to = "inode" => w.node.mode # "dir"
  PROVE  Stage(D, base, new)'
<1>1. /\ Root \in D /\ mem.root = base[Root] /\ \A d \in D : Tight(base[d])
  BY OutsideDirs
<1>2. Stage(D, base, blk) /\ inode' = inode /\ call' = call
  BY DEF Settled, disk
<1>3. Lost(D, base, new)' = Lost(D, base, blk)
  BY LostStays
<1>4. \A w \in Among(pending') : ~ IsRoot(w)
  BY <1>1 DEF IsRoot
<1>5. Among(pending) = {}
  BY NothingPending
<1>6. pc' \in Opening /\ call.kind # "mkdir" => AsFound(D, base)' /\ Lost(D, base, new)' = {}
  BY <1>2, <1>3 DEF Stage, AsFound, Among, Inodes
<1>7. RootCounts => RootCounts'
  BY <1>2, <1>4 DEF RootCounts, Among, IsRoot
<1>8. RootCounted => RootCounted'
  BY <1>2, <1>4, <1>5 DEF RootCounted, Among, IsRoot
<1> QED
  BY <1>1, <1>2, <1>3, <1>6, <1>7, <1>8, Always DEF Stage, Opening, Root

LEMMA FilePutKept ==
  ASSUME FsInv, FsInv', Kept, pending = <<>>, UNCHANGED <<disk, call, before, harm>>,
         pc \in {"write", "dot", "dotdot", "target"}, NEW k \in 0 .. MaxDirectBlocks - 1, CanPlace(mem.file, k),
         NEW data, NEW size \in Nat, pending' = Put(mem.ino, mem.file, k, data, size),
         mem'.root = mem.root, mem'.ino = mem.ino, mem'.file = Grown(mem.file, k, size),
         pc' \in {"write", "inc", "parent", "insert", "undo"},
         pc' = "insert" => pc = "target" /\ call.kind = "symlink" /\ mem.file.mode = "link"
  PROVE  Kept'
<1> SUFFICES ASSUME Plain PROVE (\E D, base, blk : Held(D, base, blk))'
  BY DEF Kept, Plain
<1>1. PICK D, base, b0 : Settled(D, base, b0)
  BY AtHand
<1>2. PICK i, node, P : i = mem.ino /\ node = mem.file /\ P = pending'
  OBVIOUS
<1>3. node \in IndexNodes /\ mem.bitHint \in Blocks /\ DiskOK /\ Writes(P)
  BY <1>2 DEF FsInv, MemOK, Mems
<1>4. i \notin D /\ Addrs(node) \cap DirBlocks(D, base) = {} /\ Spares(D, base)
  BY <1>1, <1>2 DEF Settled, Spares, HasFile, FilePcs
<1>5. PICK p, g, b : p = Placed(node, k) /\ g = Grown(node, k, size) /\ b = p.addr[k]
  OBVIOUS
<1>6. PICK new : new = [block EXCEPT ![b] = data]
  OBVIOUS
<1>7. /\ \A w \in Among(P) : w = SetBit(b) \/ w = WriteInode(i, p) \/ w = WriteData(b, data) \/ w = WriteInode(i, g)
      /\ WriteData(b, data) \in Among(P) /\ OneData(P)
  BY <1>2, <1>5, PutParts
<1>8. Ahead(new)' /\ b \in Blocks
  <2>1. \A w \in Among(pending') : w.to = "block" => w = WriteData(b, data)
    BY <1>2, <1>7 DEF SetBit, WriteInode
  <2> QED
    BY <1>2, <1>3, <1>6, <1>7, <2>1, PutAhead
<1>9. /\ node.addr[k] # NoBlock => b \in Addrs(node)
      /\ node.addr[k] = NoBlock => b \notin bitmap
      /\ Addrs(p) \subseteq Addrs(node) \cup {b} /\ g.addr = p.addr
  BY <1>2, <1>3, <1>5, PutAddresses
<1>10. b \notin DirBlocks(D, base)
  BY <1>1, <1>4, <1>9, OutsideDirs
<1>11. Addrs(p) \cap DirBlocks(D, base) = {} /\ Addrs(g) \cap DirBlocks(D, base) = {}
  <2>1. Addrs(g) = Addrs(p)
    BY <1>9 DEF Addrs
  <2> QED
    BY <1>4, <1>9, <1>10, <2>1
<1>12. Lost(D, base, new) = Lost(D, base, b0)
  <2>1. \A a \in DirBlocks(D, base) : new[a] = b0[a]
    BY <1>1, <1>3, <1>6, <1>10, OutsideDirs DEF Settled, DiskOK
  <2> QED
    BY <1>1, <2>1, SameLost, OutsideDirs
<1>13. StepSpares(D, base)
  <2>1. \A w \in Among(P) : WriteSpares(D, base, w)
    BY <1>4, <1>7, <1>11 DEF WriteSpares, SetBit, WriteInode, WriteData, NodeSpares
  <2> QED
    BY <1>2, <1>4, <1>5, <1>11, <2>1 DEF StepSpares
<1>14. Stage(D, base, new)'
  <2>1. \A w \in Among(pending') : w.to = "inode" => w.at = i /\ w.node \in {p, g}
    BY <1>2, <1>7 DEF SetBit, WriteInode, WriteData
  <2>2. p.mode = node.mode /\ g.mode = node.mode
    BY <1>2, <1>3, <1>5, PlacedType, GrownType
  <2>3. pc' \in Opening /\ call.kind # "mkdir" =>
          pc \in Opening /\ \A w \in Among(pending') : w.to = "inode" => w.node.mode # "dir"
    BY <1>2, <2>1, <2>2 DEF Opening
  <2>4. Working /\ pc' \notin {"place", "pull"} /\ (pc' \in {"creat", "insert"} => call.kind # "mkdir")
    BY DEF Working
  <2> QED
    BY <1>1, <1>4, <1>12, <2>1, <2>3, <2>4, StageOn
<1>15. AtMostOne(Lost(D, base, block)) /\ AtMostOne(Lost(D, base, new))
  BY <1>1, <1>12 DEF Settled
<1>16. Held(D, base, new)'
  BY <1>4, <1>8, <1>13, <1>14, <1>15, StepHeld
<1> QED
  BY <1>16

LEMMA WriteKept ==
  ASSUME FsInv, FsInv', Kept, Write
  PROVE  Kept'
<1>1. /\ pc = "write" /\ pc' = pc /\ pending = <<>> /\ mem.done < call.blocks
      /\ CanPlace(mem.file, mem.done) /\ UNCHANGED <<disk, call, before, harm>>
      /\ pending' = Put(mem.ino, mem.file, mem.done, Data, mem.done + 1)
  BY DEF Write, WriteMore, Ready
<1>2. mem \in Mems BY DEF FsInv, MemOK
<1>3. mem'.root = mem.root /\ mem'.ino = mem.ino /\ mem'.file = Grown(mem.file, mem.done, mem.done + 1)
  BY <1>2 DEF Write, Mems
<1>4. mem.done \in 0 .. MaxDirectBlocks - 1 /\ mem.done + 1 \in Nat
  BY <1>1, <1>2, Sizes DEF Mems, CanPlace
<1>5. PICK k, data : k = mem.done /\ data = Data
  OBVIOUS
<1> QED BY <1>1, <1>3, <1>4, <1>5, FilePutKept

LEMMA MkdirDotKept ==
  ASSUME FsInv, FsInv', Kept, MkdirDot
  PROVE  Kept'
<1>1. /\ pc = "dot" /\ pc' = "inc" /\ pending = <<>>
      /\ CanPlace(mem.file, 0) /\ UNCHANGED <<disk, call, before, harm>>
      /\ pending' = Put(mem.ino, mem.file, 0, DotBlock(mem.file, 0, Entry(mem.ino, Dot)), SizeOf(1))
  BY DEF MkdirDot, Ready
<1>2. mem \in Mems BY <1>1, AtMkdir
<1>3. mem'.root = mem.root /\ mem'.ino = mem.ino /\ mem'.file = Grown(mem.file, 0, SizeOf(1))
  BY <1>2 DEF MkdirDot, Mems
<1>4. 0 \in 0 .. MaxDirectBlocks - 1 /\ SizeOf(1) \in Nat BY Sizes DEF SizeOf
<1>5. PICK data : data = DotBlock(mem.file, 0, Entry(mem.ino, Dot)) OBVIOUS
<1>6. PICK size \in Nat : size = SizeOf(1) BY <1>4
<1> QED BY <1>1, <1>3, <1>4, <1>5, <1>6, FilePutKept

LEMMA MkdirDotDotKept ==
  ASSUME FsInv, FsInv', Kept, MkdirDotDot
  PROVE  Kept'
<1>1. /\ pc = "dotdot" /\ pc' = "parent" /\ pending = <<>>
      /\ UNCHANGED <<disk, call, before, harm>>
      /\ pending' = Put(mem.ino, mem.file, 0,
                        DotBlock(mem.file, 1, Entry(DirOf(call.path), DotDot)), SizeOf(2))
  BY DEF MkdirDotDot, Ready
<1>2. mem \in Mems /\ CanPlace(mem.file, 0)
  BY <1>1, AtMkdir, Sizes DEF FileOK, CanPlace
<1>3. mem'.root = mem.root /\ mem'.ino = mem.ino /\ mem'.file = Grown(mem.file, 0, SizeOf(2))
  BY <1>2 DEF MkdirDotDot, Mems
<1>4. 0 \in 0 .. MaxDirectBlocks - 1 /\ SizeOf(2) \in Nat BY Sizes DEF SizeOf
<1>5. PICK data : data = DotBlock(mem.file, 1, Entry(DirOf(call.path), DotDot)) OBVIOUS
<1>6. PICK size \in Nat : size = SizeOf(2) BY <1>4
<1> QED BY <1>1, <1>2, <1>3, <1>4, <1>5, <1>6, FilePutKept

\* At most an index node is written, and it is no directory there was.
LEMMA NodeKept ==
  ASSUME FsInv, Kept, pending = <<>>, UNCHANGED <<disk, call, before>>, harm \subseteq harm',
         NEW i, NEW node, pending' \in {<<>>, <<WriteInode(i, node)>>}, mem'.root = mem.root, Working,
         pc' \notin {"place", "pull"}, pc' \in {"creat", "insert"} /\ call.kind = "mkdir" => pc = "creat",
         pc' \in Opening /\ call.kind # "mkdir" => pc \in Opening /\ (pending' # <<>> => node.mode # "dir"),
         pc' \in HasFile \cup {"undo"} => mem'.ino = i,
         \A D, base, blk : Settled(D, base, blk) =>
           /\ i \notin D
           /\ pending' # <<>> /\ node.nlink # 0 => Addrs(node) \cap DirBlocks(D, base) = {}
           /\ pc' \in HasFile => Addrs(mem'.file) \cap DirBlocks(D, base) = {}
  PROVE  Kept'
<1>1. \A w \in Among(pending') : pending' # <<>> /\ w.to = "inode" /\ w.at = i /\ w.node = node
  <2>1. CASE pending' = <<>>
    <3>1. Among(pending') = {} BY <2>1, NothingPending
    <3> QED BY <3>1
  <2>2. CASE pending' = <<WriteInode(i, node)>>
    <3>1. \A w \in Among(pending') : w.to = "inode" /\ w.at = i /\ w.node = node
      BY <2>2 DEF Among, WriteInode
    <3>2. PICK v : v = WriteInode(i, node)
      OBVIOUS
    <3>3. <<v>> # <<>>
      OBVIOUS
    <3> QED
      BY <2>2, <3>1, <3>2, <3>3
  <2> QED BY <2>1, <2>2
<1>2. ASSUME NEW D, NEW base, NEW blk, Settled(D, base, blk)
      PROVE  StepSpares(D, base) /\ Stage(D, base, blk)'
  <2>1. i \notin D
    BY <1>2
  <2>2. StepSpares(D, base)
    BY <1>1, <1>2 DEF StepSpares, WriteSpares, NodeSpares
  <2>3. \A w \in Among(pending') : w.to = "inode" => w.at = i
    BY <1>1
  <2>4. pc' \in Opening /\ call.kind # "mkdir" =>
          pc \in Opening /\ \A w \in Among(pending') : w.to = "inode" => w.node.mode # "dir"
    BY <1>1
  <2>5. Lost(D, base, blk) = Lost(D, base, blk)
    OBVIOUS
  <2>6. Stage(D, base, blk)'
    BY <1>2, <2>1, <2>3, <2>4, <2>5, StageOn
  <2> QED
    BY <2>2, <2>6
<1>3. Plain' => Plain
  BY DEF Plain
<1>4. \A D, base, blk : Settled(D, base, blk) => StepSpares(D, base) /\ Stage(D, base, blk)'
  BY <1>2
<1>5. \A w \in Among(pending') : w.to # "block"
  BY <1>1
<1> QED
  BY <1>3, <1>4, <1>5, QuietKept

\* The file in memory has no block of theirs.
LEMMA FileOutside ==
  ASSUME pc \in HasFile
  PROVE  \A D, base, blk : Settled(D, base, blk) =>
           mem.ino \notin D /\ Addrs(mem.file) \cap DirBlocks(D, base) = {}
BY DEF Settled, Spares

LEMMA MkdirIncKept ==
  ASSUME FsInv, Kept, MkdirInc
  PROVE  Kept'
<1>1. /\ pc = "inc" /\ pc' = "dotdot" /\ pending = <<>> /\ UNCHANGED <<disk, call, before, harm>>
      /\ pending' = <<WriteInode(mem.ino, mem'.file)>>
  BY DEF MkdirInc, Ready
<1>2. mem \in Mems /\ mem.file \in IndexNodes BY <1>1, AtMkdir
<1>3. PICK i, g : i = mem.ino /\ g = [mem.file EXCEPT !.nlink = @ + 1] OBVIOUS
<1>4. mem'.root = mem.root /\ mem'.ino = i /\ mem'.file = g BY <1>2, <1>3 DEF MkdirInc, Mems
<1>5. Addrs(g) = Addrs(mem.file) BY <1>2, <1>3 DEF IndexNodes, Addrs
<1>6. pc \in HasFile /\ Working /\ pc' \notin Opening /\ harm \subseteq harm'
  BY <1>1 DEF HasFile, FilePcs, Working, Opening
<1>7. pending' = <<WriteInode(i, g)>>
  BY <1>1, <1>3, <1>4
<1>8. \A D, base, blk : Settled(D, base, blk) =>
           /\ i \notin D
           /\ pending' # <<>> /\ g.nlink # 0 => Addrs(g) \cap DirBlocks(D, base) = {}
           /\ pc' \in HasFile => Addrs(mem'.file) \cap DirBlocks(D, base) = {}
  BY <1>3, <1>4, <1>5, <1>6, FileOutside
<1> QED BY <1>1, <1>4, <1>6, <1>7, <1>8, NodeKept

LEMMA LinkedKept ==
  ASSUME FsInv, Kept, Linked
  PROVE  Kept'
<1>1. /\ pc = "linked" /\ pc' = "exit" /\ pending = <<>> /\ UNCHANGED <<disk, call, before, harm>>
      /\ pending' = <<WriteInode(mem.ino, [mem.file EXCEPT !.nlink = @ + 1])>>
      /\ mem' = [mem EXCEPT !.ok = TRUE]
  BY DEF Linked, Ready, Exit
<1>2. mem \in Mems
  BY DEF FsInv, MemOK
<1>3. PICK i, g : i = mem.ino /\ g = [mem.file EXCEPT !.nlink = @ + 1] OBVIOUS
<1>4. Addrs(g) = Addrs(mem.file) BY <1>2, <1>3 DEF Mems, IndexNodes, Addrs
<1>5. pc \in HasFile /\ Working /\ pc' \notin Opening /\ harm \subseteq harm' /\ pc' \notin HasFile \cup {"undo"}
  BY <1>1 DEF HasFile, FilePcs, Working, Opening
<1>6. mem'.root = mem.root BY <1>1, <1>2 DEF Mems
<1>7. pending' = <<WriteInode(i, g)>> BY <1>1, <1>3
<1>8. \A D, base, blk : Settled(D, base, blk) =>
           /\ i \notin D
           /\ pending' # <<>> /\ g.nlink # 0 => Addrs(g) \cap DirBlocks(D, base) = {}
           /\ pc' \in HasFile => Addrs(mem'.file) \cap DirBlocks(D, base) = {}
  BY <1>3, <1>4, <1>5, FileOutside
<1> QED BY <1>1, <1>5, <1>6, <1>7, <1>8, NodeKept

LEMMA SymlinkTargetKept ==
  ASSUME FsInv, FsInv', Kept, SymlinkTarget
  PROVE  Kept'
<1>1. /\ pc = "target" /\ pc' \in {"insert", "undo"} /\ pending = <<>> /\ UNCHANGED <<disk, call, before>>
      /\ CanPlace(mem.file, 0) => pending' = Put(mem.ino, mem.file, 0, LinkTo(call.old), 1) /\ harm' = harm
      /\ ~ CanPlace(mem.file, 0) => pending' = <<>> /\ mem' = mem /\ harm' = harm \cup {"full"}
  BY DEF SymlinkTarget, Ready
<1>2. mem \in Mems /\ call.kind = "symlink" /\ mem.file.mode = "link"
  <2>1. call \in SymlinkCalls BY <1>1, WhoIsAt DEF FsInv
  <2> QED BY <1>1, <2>1 DEF FsInv, MemOK, SymlinkCalls, FileOK, New
<1>3. CASE CanPlace(mem.file, 0)
  <2>1. mem'.root = mem.root /\ mem'.ino = mem.ino /\ mem'.file = Grown(mem.file, 0, 1)
    BY <1>2, <1>3 DEF SymlinkTarget, Mems
  <2>2. 0 \in 0 .. MaxDirectBlocks - 1 /\ 1 \in Nat BY Sizes
  <2>3. PICK data : data = LinkTo(call.old) OBVIOUS
  <2>4. UNCHANGED <<disk, call, before, harm>> BY <1>1, <1>3
  <2> QED BY <1>1, <1>2, <1>3, <2>1, <2>2, <2>3, <2>4, FilePutKept
<1>4. CASE ~ CanPlace(mem.file, 0)
  <2>1. pending' = <<>> /\ mem' = mem /\ harm \subseteq harm' BY <1>1, <1>4
  <2>2. pc \in HasFile /\ Working /\ pc \in Opening BY <1>1 DEF HasFile, Working, Opening
  <2>3. PICK i, node : i = mem.ino /\ node = mem.file OBVIOUS
  <2>4. \A D, base, blk : Settled(D, base, blk) =>
           /\ i \notin D
           /\ pending' # <<>> /\ node.nlink # 0 => Addrs(node) \cap DirBlocks(D, base) = {}
           /\ pc' \in HasFile => Addrs(mem'.file) \cap DirBlocks(D, base) = {}
    BY <2>1, <2>2, <2>3, FileOutside
  <2> QED BY <1>1, <1>2, <2>1, <2>2, <2>3, <2>4, NodeKept
<1> QED BY <1>3, <1>4

LEMMA SymlinkKept ==
  ASSUME FsInv, Kept, Symlink
  PROVE  Kept'
<1>1. /\ pc = "symlink" /\ pc' = "target" /\ pending = <<>> /\ UNCHANGED <<disk, call, before, harm>>
      /\ pending' = <<WriteInode(allocateIndexNode, New("link"))>> /\ allocateIndexNode # NoInode
  BY DEF Symlink, Ready
<1>2. mem \in Mems /\ call.kind = "symlink" /\ DiskOK
  <2>1. call \in SymlinkCalls BY <1>1, WhoIsAt DEF FsInv
  <2> QED BY <2>1 DEF FsInv, MemOK, SymlinkCalls
<1>3. PICK i, node : i = allocateIndexNode /\ node = New("link") OBVIOUS
<1>4. Addrs(node) = {} /\ node.mode = "link" BY <1>3 DEF New, Addrs, NoAddresses
<1>5. mem'.root = mem.root /\ mem'.ino = i /\ mem'.file = node BY <1>2, <1>3 DEF Symlink, Mems
<1>6. pending' = <<WriteInode(i, node)>> /\ harm \subseteq harm' BY <1>1, <1>3
<1>7. inode[i].nlink = 0
  BY <1>1, <1>2, <1>3, AllocateIndexNodeType DEF Mems
<1>8. \A D, base, blk : Settled(D, base, blk) =>
           /\ i \notin D
           /\ pending' # <<>> /\ node.nlink # 0 => Addrs(node) \cap DirBlocks(D, base) = {}
           /\ pc' \in HasFile => Addrs(mem'.file) \cap DirBlocks(D, base) = {}
  <2>1. \A D, base, blk : Settled(D, base, blk) => i \notin D
    BY <1>7, OutsideDirs
  <2> QED BY <1>4, <1>5, <2>1
<1>9. Working /\ pc \in Opening /\ pc' \notin {"place", "pull"}
  BY <1>1 DEF Working, Opening
<1> QED BY <1>1, <1>2, <1>4, <1>5, <1>6, <1>8, <1>9, NodeKept

LEMMA CreatNewKept ==
  ASSUME FsInv, InOrder, Kept, CreatNew
  PROVE  Kept'
<1> DEFINE mode == IF call.kind = "mkdir" THEN "dir" ELSE "file"
           j == EntryNode(DirOf(call.path), Last(call.path))
<1>1. PICK i, node :
        /\ i = allocateIndexNode
        /\ node = IF BrokenLink(call.path) THEN [inode[j] EXCEPT !.mode = mode, !.nlink = 1] ELSE New(mode)
  OBVIOUS
<1>2. /\ pc = "creat" /\ pending = <<>> /\ IsDir(DirOf(call.path)) /\ UNCHANGED <<disk, call, before>>
      /\ harm' = IF BrokenLink(call.path) THEN harm \cup {"broken"} ELSE harm
      /\ i = NoInode => pending' = <<>> /\ Exit(FALSE)
      /\ i # NoInode => /\ pending' = <<WriteInode(i, node)>> /\ pc' = "insert"
                        /\ mem' = [mem EXCEPT !.ino = i, !.file = node, !.inoHint = (i + 1) % NumInodes]
  BY <1>1 DEF CreatNew, Ready
<1>3. DiskOK /\ CallOK /\ mem \in Mems /\ NodeOK(mem.root) BY DEF FsInv, MemOK
<1>4. call.path \in Paths /\ call.kind \in {"create", "mkdir"}
  BY <1>2, <1>3, WhoIsAt, Kinds
<1>5. harm \subseteq harm' BY <1>2
<1>6. CASE i = NoInode BY <1>2, <1>5, <1>6, GivesUpKept
<1>7. CASE i # NoInode
  <2>1. /\ call.kind # "mkdir" => node.mode # "dir"
        /\ \A D, base, blk : Settled(D, base, blk) => Addrs(node) \cap DirBlocks(D, base) = {}
    <3>1. CASE BrokenLink(call.path)
      <4>1. PICK k, m : k = j /\ m = mode OBVIOUS
      <4>2. k \in Inodes /\ inode[k].mode = "link" BY <1>2, <1>3, <1>4, <3>1, <4>1, BrokenIsLink
      <4>3. node = [inode[k] EXCEPT !.mode = m, !.nlink = 1] /\ (call.kind # "mkdir" => m = "file")
        BY <1>1, <3>1, <4>1
      <4>4. k # NoInode
        BY <4>2, NoInodeOut
      <4>5. inode[k].nlink > 0
        <5>1. Working
          BY <1>2 DEF Working
        <5>2. PICK S, bm : Steady(S, bm)
          BY <1>2, <5>1, AtReady
        <5> QED
          BY <1>2, <4>1, <4>4, <5>2, AtCreat
      <4> HIDE DEF mode, j
      <4>6. node.mode = m /\ Addrs(node) = Addrs(inode[k])
        BY <1>3, <4>2, <4>3 DEF DiskOK, IndexNodes, Addrs
      <4>7. inode[k].nlink # 0
        BY <4>5
      <4>8. \A D, base, blk : Settled(D, base, blk) => k \notin D /\ Addrs(inode[k]) \cap DirBlocks(D, base) = {}
        BY <4>2, <4>7, OutsideDirs
      <4> QED BY <4>3, <4>6, <4>8
    <3>2. CASE ~ BrokenLink(call.path)
      <4>1. PICK m : m = mode OBVIOUS
      <4>2. node = New(m) /\ (call.kind # "mkdir" => m = "file") BY <1>1, <3>2, <4>1
      <4> HIDE DEF mode, j
      <4>3. node.mode = m /\ Addrs(node) = {}
        BY <4>2 DEF New, Addrs, NoAddresses
      <4> QED BY <4>2, <4>3
    <3> QED BY <3>1, <3>2
  <2> HIDE DEF mode, j
  <2>2. mem'.root = mem.root /\ mem'.ino = i /\ mem'.file = node BY <1>2, <1>3, <1>7 DEF Mems
  <2>3. pending' = <<WriteInode(i, node)>> /\ pc' = "insert" BY <1>2, <1>7
  <2>4. inode[i].nlink = 0
    BY <1>1, <1>3, <1>7, AllocateIndexNodeType DEF Mems
  <2>5. \A D, base, blk : Settled(D, base, blk) => i \notin D
    BY <2>4, OutsideDirs
  <2>6. \A D, base, blk : Settled(D, base, blk) =>
           /\ i \notin D
           /\ pending' # <<>> /\ node.nlink # 0 => Addrs(node) \cap DirBlocks(D, base) = {}
           /\ pc' \in HasFile => Addrs(mem'.file) \cap DirBlocks(D, base) = {}
    BY <2>1, <2>2, <2>5
  <2>7. Working /\ pc \in Opening
    BY <1>2 DEF Working, Opening
  <2> QED BY <1>2, <1>5, <2>1, <2>2, <2>3, <2>6, <2>7, NodeKept
<1> QED BY <1>6, <1>7

LEMMA LinkKept ==
  ASSUME FsInv, InOrder, Kept, Link
  PROVE  Kept'
<1>1. /\ pc = "link" /\ pc' = "insert" /\ pending = <<>> /\ pending' = <<>> /\ UNCHANGED <<disk, call, before, harm>>
      /\ findIndexNode[call.old] # NoInode /\ ~ IsDir(findIndexNode[call.old])
  BY DEF Link, Linkable, Ready
<1>2. mem \in Mems /\ DiskOK /\ CallOK /\ NodeOK(mem.root) /\ (call.kind \notin {"none", "fsck"} => RootOK)
  BY DEF FsInv, MemOK
<1>3. call.kind = "link" /\ call.old \in Paths BY <1>1, <1>2, WhoIsAt, Kinds
<1>4. PICK i : i = findIndexNode[call.old] OBVIOUS
<1>5. i # NoInode /\ i # Root /\ mem.root.mode = "dir" /\ inode[i].mode # "dir"
  BY <1>1, <1>2, <1>3, <1>4 DEF IsDir, CopyOf, RootOK
<1>6. PICK S, bm : Steady(S, bm) BY <1>1, AtReady DEF Working
<1>7. Consistent /\ mem.root = inode[Root] BY <1>1, <1>6 DEF Steady, Untouched, Again
<1>8. i \in Inodes /\ inode[i].nlink > 0 BY <1>2, <1>3, <1>4, <1>5, <1>7, FindLives
<1>9. mem'.root = mem.root /\ mem'.ino = i /\ mem'.file = inode[i] BY <1>2, <1>4 DEF Link, Mems
<1>10. PICK node : node = inode[i] OBVIOUS
<1>11. \A D, base, blk : Settled(D, base, blk) =>
           /\ i \notin D
           /\ pending' # <<>> /\ node.nlink # 0 => Addrs(node) \cap DirBlocks(D, base) = {}
           /\ pc' \in HasFile => Addrs(mem'.file) \cap DirBlocks(D, base) = {}
  <2>1. inode[i].nlink # 0 BY <1>8
  <2> QED BY <1>1, <1>5, <1>8, <1>9, <2>1, OutsideDirs
<1>12. Working /\ pc \in Opening /\ harm \subseteq harm' BY <1>1 DEF Working, Opening
<1> QED BY <1>1, <1>3, <1>9, <1>11, <1>12, NodeKept

LEMMA MkdirParentKept ==
  ASSUME FsInv, Kept, MkdirParent
  PROVE  Kept'
<1>1. pc = "parent" /\ pending = <<>> /\ UNCHANGED <<disk, before, harm>>
  BY DEF MkdirParent, Ready
<1>2. /\ call \in MkdirCalls /\ call.kind = "mkdir" /\ DirOf(call.path) = Root /\ DiskOK /\ mem \in Mems
  BY <1>1, AtMkdir
<1>3. PICK r : r = [inode[Root] EXCEPT !.nlink = @ + 1] OBVIOUS
<1>4. /\ pending' = <<WriteInode(Root, r)>>
      /\ call.more = <<>> => pc' = "exit" /\ mem' = [mem EXCEPT !.ok = TRUE] /\ call' = call
      /\ call.more # <<>> => /\ pc' = "creat" /\ mem' = mem
                             /\ call' = [call EXCEPT !.path = Head(call.more), !.more = Tail(call.more)]
  BY <1>2, <1>3 DEF MkdirParent, Exit
<1>5. mem'.root = mem.root /\ pc' \in {"exit", "creat"} /\ call'.kind = "mkdir"
  BY <1>2, <1>4 DEF Mems, MkdirCalls
<1>6. \A w \in Among(pending') : w.to = "inode" /\ w.at = Root /\ w.node = r
  BY <1>4 DEF Among, WriteInode
<1>7. \E w \in Among(pending') : IsRoot(w)
  <2>1. WriteInode(Root, r) \in Among(pending') BY <1>4 DEF Among
  <2> QED BY <2>1 DEF IsRoot, WriteInode
<1>8. /\ inode[Root] \in IndexNodes /\ inode[Root].nlink \in Nat /\ mem.root.nlink \in Nat
      /\ r.mode = inode[Root].mode /\ r.size = inode[Root].size /\ r.addr = inode[Root].addr
      /\ r.nlink = inode[Root].nlink + 1
  BY <1>2, <1>3, NoInodeOut DEF DiskOK, Mems, IndexNodes
<1>9. ASSUME NEW D, NEW base, NEW blk, Settled(D, base, blk)
      PROVE  StepSpares(D, base) /\ Stage(D, base, blk)'
  <2>1. Root \in D /\ mem.root = base[Root] /\ \A d \in D : Tight(base[d])
    BY <1>1, <1>9, OutsideDirs DEF Working
  <2>2. Covers(inode[Root], base[Root])
    BY <1>9, <2>1 DEF Settled, Spares, NodeSpares, OldDirs
  <2>3. Covers(r, base[Root])
    BY <1>8, <2>2 DEF Covers
  <2>4. StepSpares(D, base)
    BY <1>5, <1>6, <2>1, <2>3 DEF StepSpares, WriteSpares, NodeSpares, HasFile, FilePcs
  <2>5. RootCounts
    BY <1>1, <1>2, <1>9 DEF Settled, Stage, Working
  <2>6. inode' = inode
    BY <1>1 DEF disk
  <2>7. RootCounts'
    BY <1>5, <1>6, <1>8, <2>5, <2>6 DEF RootCounts, Among, IsRoot
  <2>8. RootCounted'
    BY <1>5, <1>6, <1>7, <1>8, <2>5, <2>6 DEF RootCounts, RootCounted, Among, IsRoot
  <2>9. Stage(D, base, blk)'
    BY <1>5, <2>1, <2>7, <2>8, Always DEF Stage, Root
  <2> QED
    BY <2>4, <2>9
<1>10. Plain' => Plain
  BY <1>1, <1>2, <1>5 DEF Plain
<1>11. \A D, base, blk : Settled(D, base, blk) => StepSpares(D, base) /\ Stage(D, base, blk)'
  BY <1>9
<1>12. \A w \in Among(pending') : w.to # "block"
  BY <1>6
<1> QED
  BY <1>1, <1>10, <1>11, <1>12, QuietKept

\* The blocks of an index node that is no directory are freed.
LEMMA BackSpares ==
  ASSUME NEW D, NEW base, NEW blk, Settled(D, base, blk), NEW i \in Inodes, i \notin D, inode[i].nlink # 0,
         NEW node, GivesBack(i, node), Addrs(node) \subseteq Addrs(inode[i]), pc' # "undo",
         pc' \in HasFile => mem'.file = node /\ mem'.ino = i
  PROVE  StepSpares(D, base)
<1>1. Addrs(inode[i]) \cap DirBlocks(D, base) = {} /\ DirBlocks(D, base) \subseteq Blocks
  BY OutsideDirs
<1>2. \A w \in Among(pending') : \/ w.to = "bitmap" /\ w.at \notin DirBlocks(D, base)
                                 \/ w.to = "inode" /\ w.at = i /\ w.node = node
  BY <1>1 DEF GivesBack
<1>3. Addrs(node) \cap DirBlocks(D, base) = {}
  BY <1>1
<1> QED
  BY <1>2, <1>3 DEF StepSpares, WriteSpares, NodeSpares

LEMMA GivenBackKept ==
  ASSUME FsInv, Kept, UNCHANGED <<disk, call, before>>, pending = <<>>, Working, harm \subseteq harm',
         mem'.root = mem.root, NEW i \in Inodes, inode[i].nlink # 0, NEW node, GivesBack(i, node),
         Addrs(node) \subseteq Addrs(inode[i]), pc' \in HasFile => mem'.file = node /\ mem'.ino = i,
         pc' \notin Opening \cup {"undo", "place", "pull"},
         \A D, base, blk : Settled(D, base, blk) => i \notin D
  PROVE  Kept'
<1>1. \A w \in Among(pending') : w.to # "block" /\ (w.to = "inode" => w.at = i)
  BY DEF GivesBack
<1>2. ASSUME NEW D, NEW base, NEW blk, Settled(D, base, blk)
      PROVE  StepSpares(D, base) /\ Stage(D, base, blk)'
  <2>1. i \notin D
    BY <1>2
  <2>2. StepSpares(D, base)
    BY <1>2, <2>1, BackSpares
  <2>3. Lost(D, base, blk) = Lost(D, base, blk)
    OBVIOUS
  <2>4. Stage(D, base, blk)'
    BY <1>1, <1>2, <2>1, <2>3, StageOn DEF Opening
  <2> QED
    BY <2>2, <2>4
<1>3. Plain' => Plain
  BY DEF Plain
<1>4. \A D, base, blk : Settled(D, base, blk) => StepSpares(D, base) /\ Stage(D, base, blk)'
  BY <1>2
<1> QED
  BY <1>1, <1>3, <1>4, QuietKept

LEMMA SymlinkUndoKept ==
  ASSUME FsInv, Own, Kept, SymlinkUndo
  PROVE  Kept'
<1>1. /\ pc = "undo" /\ pc' = "exit" /\ pending = <<>> /\ UNCHANGED <<disk, call, before, harm>>
      /\ pending' = freeIndexNode(mem.ino) /\ mem' = [mem EXCEPT !.ok = FALSE]
  BY DEF SymlinkUndo, Ready, Exit
<1>2. mem \in Mems /\ call.kind = "symlink"
  <2>1. call \in SymlinkCalls BY <1>1, WhoIsAt DEF FsInv
  <2> QED BY <2>1 DEF FsInv, MemOK, SymlinkCalls
<1>3. PICK i : i = mem.ino OBVIOUS
<1>4. i \in Inodes /\ NodeOK(inode[i]) /\ inode[i] \in IndexNodes
  BY <1>1, <1>3 DEF FsInv, MemOK, FileOK, DiskOK, NodeAt
<1>5. PICK node : node = [ClearedTo(inode[i], BlocksOf(inode[i])) EXCEPT !.nlink = 0, !.size = 0]
  OBVIOUS
<1>6. pending' = FreeBlocks(inode[i]) \o <<WriteInode(i, node)>> BY <1>1, <1>3, <1>5 DEF freeIndexNode
<1>7. Addrs(node) \subseteq Addrs(inode[i])
  <2>1. PICK c : c = inode[i] OBVIOUS
  <2> QED BY <1>4, <1>5, <2>1, FreedNode
<1>8. GivesBack(i, node) BY <1>4, <1>6, FreedBack
<1>9. inode[i].nlink # 0
  <2>1. FileLives BY <1>2 DEF Own
  <2>2. Written(i) = {} BY <1>1, NothingPending DEF Written
  <2>3. inode[i].nlink > 0 BY <1>1, <1>3, <2>1, <2>2 DEF FileLives
  <2> QED BY <2>3
<1>10. mem'.root = mem.root BY <1>1, <1>2 DEF Mems
<1>11. \A D, base, blk : Settled(D, base, blk) => i \notin D
  BY <1>1, <1>3 DEF Settled, Spares
<1>12. Working /\ harm \subseteq harm' /\ pc' \notin HasFile /\ pc' \notin Opening \cup {"undo", "place", "pull"}
  BY <1>1 DEF Working, HasFile, FilePcs, Opening
<1> QED
  BY <1>1, <1>4, <1>7, <1>8, <1>9, <1>10, <1>11, <1>12, GivenBackKept

LEMMA CreatTruncatesKept ==
  ASSUME FsInv, InOrder, Kept, CreatTruncates
  PROVE  Kept'
<1>1. PICK i, node : i = findIndexNode[call.path] /\ node = Truncated(i) OBVIOUS
<1>2. /\ pc = "creat" /\ pending = <<>> /\ UNCHANGED <<disk, call, before>>
      /\ pending' = FreeBlocks(inode[i]) \o <<WriteInode(i, node)>>
      /\ mem' = [mem EXCEPT !.ino = i, !.file = node, !.done = 0]
      /\ pc' = IF call.kind = "mkdir" THEN "dot" ELSE "write"
      /\ harm' = IF call.kind = "mkdir" THEN harm \cup {"file"} ELSE harm
  BY <1>1 DEF CreatTruncates, Ready, Truncated
<1>3. mem \in Mems BY DEF FsInv, MemOK
<1>5. i \in Inodes \ {Root} BY <1>1, TruncatedFile
<1>6. inode[i].nlink > 0 /\ inode[i].mode # "dir" BY <1>1, TruncatedFile
<1>7. NodeOK(inode[i]) BY <1>1, TruncatedFile
<1>8. Addrs(node) \subseteq Addrs(inode[i]) BY <1>1, TruncatedFile
<1>9. mem'.root = mem.root /\ mem'.ino = i /\ mem'.file = node BY <1>2, <1>3 DEF Mems
<1>10. GivesBack(i, node) BY <1>2, <1>7, FreedBack
<1>11. \A D, base, blk : Settled(D, base, blk) => i \notin D
  BY <1>6, OutsideDirs
<1>12. Working /\ harm \subseteq harm' /\ pc' \notin Opening \cup {"undo", "place", "pull"}
  BY <1>2 DEF Working, Opening
<1>13. inode[i].nlink # 0 BY <1>6
<1>14. i \in Inodes /\ (pc' \in HasFile => mem'.file = node /\ mem'.ino = i) BY <1>5, <1>9
<1> QED
  BY <1>2, <1>8, <1>9, <1>10, <1>11, <1>12, <1>13, <1>14, GivenBackKept

-----------------------------------------------------------------------------
(***************************************************************************)
(* A directory is opened.                                                  *)
(***************************************************************************)
LEMMA UnlinkKept ==
  ASSUME FsInv, InOrder, Kept, Unlink
  PROVE  Kept'
<1>1. PICK d, n, i : d = DirOf(call.path) /\ n = Last(call.path) /\ i = EntryNode(d, n)
  OBVIOUS
<1>2. /\ pc = "unlink" /\ pc' = "pull" /\ pending = <<>> /\ UNCHANGED <<disk, call, before, harm>>
      /\ pending' = IF inode[i].nlink <= 1 THEN freeIndexNode(i)
                    ELSE <<WriteInode(i, [inode[i] EXCEPT !.nlink = @ - 1])>>
      /\ mem' = [mem EXCEPT !.dirNo = d, !.dir = CopyOf(d), !.pos = Min(Positions(CopyOf(d), n))]
  BY <1>1 DEF Unlink, UnlinkAt, Opened, Ready, disk
<1>3. DiskOK /\ CallOK /\ mem \in Mems BY DEF FsInv, MemOK
<1>4. call.kind = "unlink" BY <1>2, <1>3, WhoIsAt, Kinds
<1>5. d \in Inodes /\ CopyOf(d) = inode[d] /\ inode[d].nlink > 0 /\ inode[d].mode = "dir"
  BY <1>1, UnlinkFinds
<1>6. i \in Inodes /\ inode[i].nlink > 0 /\ inode[i].mode # "dir" BY <1>1, UnlinkFinds
<1>7. NodeOK(inode[i]) /\ inode[i] \in IndexNodes BY <1>3, <1>6 DEF DiskOK, NodeAt
<1>8. mem'.root = mem.root /\ mem'.dirNo = d /\ mem'.dir = inode[d]
  <2>1. PICK c, at : c = CopyOf(d) /\ at = Min(Positions(CopyOf(d), n)) OBVIOUS
  <2>2. mem' = [mem EXCEPT !.dirNo = d, !.dir = c, !.pos = at] BY <1>2, <2>1
  <2>3. c = inode[d] BY <1>5, <2>1
  <2> QED BY <1>3, <2>2, <2>3 DEF Mems
<1>9. PICK node : GivesBack(i, node) /\ Addrs(node) \subseteq Addrs(inode[i])
  <2>1. CASE inode[i].nlink <= 1
    <3>1. PICK node : node = [ClearedTo(inode[i], BlocksOf(inode[i])) EXCEPT !.nlink = 0, !.size = 0]
      OBVIOUS
    <3>2. pending' = FreeBlocks(inode[i]) \o <<WriteInode(i, node)>> BY <1>2, <2>1, <3>1 DEF freeIndexNode
    <3>3. Addrs(node) \subseteq Addrs(inode[i])
      <4>1. PICK c : c = inode[i] OBVIOUS
      <4> QED BY <1>7, <3>1, <4>1, FreedNode
    <3>4. GivesBack(i, node) BY <1>7, <3>2, FreedBack
    <3> QED BY <3>3, <3>4
  <2>2. CASE ~ (inode[i].nlink <= 1)
    <3>1. PICK node : node = [inode[i] EXCEPT !.nlink = @ - 1] OBVIOUS
    <3>2. pending' = <<WriteInode(i, node)>> BY <1>2, <2>2, <3>1
    <3>3. Addrs(node) = Addrs(inode[i]) BY <1>7, <3>1 DEF IndexNodes, Addrs
    <3>4. GivesBack(i, node) BY <3>2 DEF GivesBack, Among, WriteInode
    <3> QED BY <3>3, <3>4
  <2> QED BY <2>1, <2>2
<1>10. \A w \in Among(pending') : w.to # "block"
  BY <1>9 DEF GivesBack
<1>11. ASSUME NEW D, NEW base, NEW blk, Settled(D, base, blk)
       PROVE  StepSpares(D, base) /\ Stage(D, base, blk)'
  <2>1. i \notin D /\ inode[i].nlink # 0
    BY <1>6, <1>11, OutsideDirs
  <2>2. pc' # "undo" /\ (pc' \in HasFile => mem'.file = node /\ mem'.ino = i)
    BY <1>2 DEF HasFile, FilePcs
  <2>3. StepSpares(D, base)
    BY <1>6, <1>9, <1>11, <2>1, <2>2, BackSpares
  <2>4. AsFound(D, base) /\ Lost(D, base, blk) = {}
    BY <1>2, <1>4, <1>11 DEF Settled, Stage, Working, Opening
  <2>5. d \in D /\ inode[d] = base[d]
    BY <1>5, <2>4 DEF AsFound
  <2>6. Root \in D /\ mem.root = base[Root] /\ \A c \in D : Tight(base[c])
    BY <1>2, <1>11, OutsideDirs DEF Working
  <2>7. Lost(D, base, blk)' = {}
    BY <1>2, <2>4, LostStays
  <2>8. PICK e : e = EntryIn(blk, mem'.dir, mem'.pos)
    OBVIOUS
  <2>9. DirOpen(D, base, blk)'
    <3>1. EntryIn(blk, mem.dir, mem.pos)' = e
      BY <2>8 DEF EntryIn, NoBlock, Blank, Entry
    <3> QED
      BY <1>2, <1>8, <2>5, <2>7, <3>1 DEF DirOpen, Alike, Listing
  <2>10. Stage(D, base, blk)'
    BY <1>2, <1>4, <1>8, <2>6, <2>9, Always DEF Stage, Opening, Root
  <2> QED
    BY <2>3, <2>10
<1>12. Plain' => Plain
  BY <1>2 DEF Plain
<1>13. \A D, base, blk : Settled(D, base, blk) => StepSpares(D, base) /\ Stage(D, base, blk)'
  BY <1>11
<1> QED
  BY <1>2, <1>10, <1>12, <1>13, QuietKept

LEMMA OpenDirKept ==
  ASSUME FsInv, Kept, OpenDir
  PROVE  Kept'
<1>1. PICK d, node, at, new : d = DirOf(call.path) /\ node = CopyOf(d) /\ at = PlaceIn(node) /\ new = NewEntry
  OBVIOUS
<1>2. /\ pc = "insert" /\ pc' = "place" /\ pending = <<>> /\ pending' = <<>> /\ UNCHANGED <<disk, call, before>>
      /\ mem' = [mem EXCEPT !.dirNo = d, !.dir = node, !.pos = at, !.carry = new]
      /\ harm' = IF d = Root /\ mem.root # inode[Root] THEN harm \cup {"stale"} ELSE harm
  BY <1>1 DEF OpenDir, Ready, Opened
<1>3. /\ mem'.root = mem.root /\ mem'.ino = mem.ino /\ mem'.file = mem.file /\ mem'.dirNo = d /\ mem'.dir = node
  <2>1. mem \in Mems BY DEF FsInv, MemOK
  <2> QED BY <1>2, <2>1 DEF Mems
<1>4. /\ d \in Inodes /\ node.mode = "dir" /\ (call.kind = "mkdir" => d = Root)
      /\ node.nlink > 0 /\ node = (IF d = Root THEN mem.root ELSE inode[d])
  BY <1>1, OpenedLives DEF IsDir
<1>5. Among(pending) = {} /\ Among(pending') = {} BY <1>2, NothingPending
<1>6. Working /\ pc \in Opening /\ pc \in HasFile BY <1>2 DEF Working, Opening, HasFile, FilePcs
<1>7. Plain' => Plain
  BY <1>2 DEF Plain
<1>8. ASSUME Plain', NEW D, NEW base, NEW blk, Settled(D, base, blk)
      PROVE  StepSpares(D, base) /\ Stage(D, base, blk)'
  <2>1. mem.ino \notin D /\ Addrs(mem.file) \cap DirBlocks(D, base) = {}
    BY <1>6, <1>8, FileOutside
  <2>2. StepSpares(D, base)
    BY <1>3, <1>5, <2>1 DEF StepSpares
  <2>3. Root \in D /\ mem.root = base[Root] /\ \A c \in D : Tight(base[c])
    BY <1>6, <1>8, OutsideDirs
  <2>4. /\ call.kind # "mkdir" => AsFound(D, base) /\ Lost(D, base, blk) = {}
        /\ call.kind = "mkdir" => RootCounts /\ (Lost(D, base, blk) = {} \/ RootCounted)
    BY <1>2, <1>6, <1>8 DEF Settled, Stage
  <2>5. d \in D /\ node = base[d]
    <3>1. CASE d = Root BY <1>4, <2>3, <3>1
    <3>2. CASE d # Root
      <4>1. AsFound(D, base) BY <1>4, <2>4, <3>2
      <4>2. node = inode[d] /\ inode[d].nlink # 0 BY <1>4, <3>2
      <4> QED BY <1>4, <4>1, <4>2 DEF AsFound
    <3> QED BY <3>1, <3>2
  <2>6. Lost(D, base, blk) = {}
    <3>1. ASSUME call.kind = "mkdir", RootCounted PROVE FALSE
      <4>1. d = Root /\ mem.root # inode[Root] BY <1>4, <1>5, <3>1 DEF RootCounted
      <4>2. "stale" \in harm' BY <1>2, <4>1
      <4> QED BY <1>8, <4>2 DEF Plain
    <3> QED BY <2>4, <3>1
  <2>7. Lost(D, base, blk)' = {}
    BY <1>2, <2>6, LostStays
  <2>8. DirOpen(D, base, blk)'
    BY <1>2, <1>3, <2>5, <2>7 DEF DirOpen, Alike
  <2>9. call.kind = "mkdir" => RootCounts'
    <3>1. inode' = inode BY <1>2 DEF disk
    <3>2. call.kind = "mkdir" => node = mem.root BY <1>4
    <3> QED BY <1>3, <1>5, <2>4, <3>1, <3>2 DEF RootCounts, Among
  <2>10. Stage(D, base, blk)'
    BY <1>2, <1>3, <2>3, <2>8, <2>9, Always DEF Stage, Opening, Root
  <2> QED
    BY <2>2, <2>10
<1>9. Plain' => \A D, base, blk : Settled(D, base, blk) => StepSpares(D, base) /\ Stage(D, base, blk)'
  BY <1>8
<1>10. before' = before /\ UNCHANGED disk /\ \A w \in Among(pending') : w.to # "block"
  BY <1>2, <1>5
<1> QED
  BY <1>2, <1>7, <1>9, <1>10, QuietKept

-----------------------------------------------------------------------------
(***************************************************************************)
(* Entries are written to the open directory.                              *)
(***************************************************************************)
LEMMA DirIsOld ==
  ASSUME FsInv, pc \in {"place", "pull"}, NEW D, NEW base, NEW blk, Settled(D, base, blk),
         NEW i, NEW node, i = mem.dirNo, node = mem.dir
  PROVE  /\ i \in D /\ i \in Inodes /\ node \in IndexNodes /\ node.mode = "dir" /\ node.nlink > 0
         /\ node.addr = base[i].addr /\ node.size = base[i].size /\ node.size \in Nat
         /\ OldDirs(D, base) /\ Tight(base[i]) /\ NodeOK(base[i])
         /\ \A k \in 0 .. node.size - 1 : node.addr[k \div PerBlock] # NoBlock
         /\ DirOpen(D, base, blk)
<1>1. Working
  BY DEF Working
<1>2. DirOpen(D, base, blk) /\ OldDirs(D, base) /\ \A d \in D : Tight(base[d])
  BY <1>1 DEF Settled, Stage, Spares
<1>3. i \in D /\ node.addr = base[i].addr /\ node.size = base[i].size
  BY <1>2 DEF DirOpen, Alike
<1>4. node \in IndexNodes /\ node.mode = "dir" /\ node.nlink > 0
  BY DEF FsInv, MemOK, Mems, DirOK
<1>5. \A k \in 0 .. node.size - 1 : node.addr[k \div PerBlock] # NoBlock
  BY <1>2, <1>3 DEF OldDirs
<1>6. i \in Inodes /\ NodeOK(base[i]) /\ node.size \in Nat
  BY <1>2, <1>3, <1>4 DEF OldDirs, IndexNodes
<1> QED
  BY <1>2, <1>3, <1>4, <1>5, <1>6

\* The new versions of the directory's node.
LEMMA GrownCovers ==
  ASSUME mem.bitHint \in Blocks, NEW node \in IndexNodes, node.mode = "dir", node.nlink > 0,
         NEW c, node.addr = c.addr, node.size = c.size,
         \A j \in 0 .. c.size - 1 : c.addr[j \div PerBlock] # NoBlock, NodeOK(c),
         NEW q \in 0 .. MaxDirectBlocks - 1, CanPlace(node, q), NEW size \in Nat,
         NEW p, NEW g, p = Placed(node, q), g = Grown(node, q, size)
  PROVE  /\ Covers(p, c) /\ Covers(g, c) /\ p.nlink = node.nlink /\ g.nlink = node.nlink
         /\ node.addr[q] # NoBlock /\ size <= node.size => Alike(g, c)
<1>1. /\ p.size = node.size /\ p.mode = node.mode /\ p.nlink = node.nlink
      /\ g.size = Larger(node.size, size) /\ g.mode = node.mode /\ g.nlink = node.nlink
  BY PlacedType, GrownType
<1>2. /\ node.addr[q] # NoBlock => p = node
      /\ g.addr = p.addr
      /\ \A j \in 0 .. MaxDirectBlocks - 1 : j # q => p.addr[j] = node.addr[j]
  BY PutAddresses
<1>3. ASSUME NEW j \in 0 .. c.size - 1 PROVE p.addr[j \div PerBlock] = c.addr[j \div PerBlock]
  <2>1. j \div PerBlock \in 0 .. MaxDirectBlocks - 1
    BY AddressAt
  <2>2. node.addr[j \div PerBlock] # NoBlock
    OBVIOUS
  <2>3. CASE j \div PerBlock = q
    BY <1>2, <2>2, <2>3
  <2>4. CASE j \div PerBlock # q
    BY <1>2, <2>1, <2>4
  <2> QED
    BY <2>3, <2>4
<1>4. node.size \in Nat
  BY DEF IndexNodes
<1>5. g.size >= c.size /\ (size <= node.size => g.size = node.size)
  BY <1>1, <1>4 DEF Larger
<1>6. Covers(p, c) /\ Covers(g, c)
  BY <1>1, <1>2, <1>3, <1>4, <1>5 DEF Covers
<1>7. node.addr[q] # NoBlock /\ size <= node.size => Alike(g, c)
  BY <1>2, <1>5 DEF Alike
<1> QED
  BY <1>1, <1>6, <1>7

\* What an entry written at place k does to the old entries.
LEMMA EntryPutShows ==
  ASSUME DiskOK, mem.bitHint \in Blocks, NEW D, NEW base, NEW b0, Settled(D, base, b0),
         NEW i \in D, NEW node \in IndexNodes, node = mem.dir, node.addr = base[i].addr, node.size = base[i].size,
         Tight(base[i]), OldDirs(D, base), NEW k \in 0 .. Space - 1, NEW e, CanPlace(node, k \div PerBlock),
         NEW b, b = Placed(node, k \div PerBlock).addr[k \div PerBlock],
         NEW data, data = DirBlock(node, k, e), NEW new, new = [block EXCEPT ![b] = data]
  PROVE  /\ k < node.size => OneEntryPut(D, base, b0, new, i, k, e)
         /\ k >= node.size => Lost(D, base, new) \subseteq Lost(D, base, b0)
<1>1. b0 = block
  BY DEF Settled
<1>2. EntryPut(node, k, e, b, new)
  BY EntryIsPut
<1>3. k \div PerBlock \in 0 .. MaxDirectBlocks - 1
  BY BlockIndex
<1>4. /\ node.addr[k \div PerBlock] # NoBlock => b = node.addr[k \div PerBlock]
      /\ node.addr[k \div PerBlock] = NoBlock => b \notin bitmap
  <2>1. PICK q, size : q = k \div PerBlock /\ size = 0
    OBVIOUS
  <2>2. q \in 0 .. MaxDirectBlocks - 1 /\ CanPlace(node, q) /\ b = Placed(node, q).addr[q]
    BY <1>3, <2>1
  <2> QED
    BY <2>1, <2>2, PutAddresses
<1>5. node.size \in Nat /\ Space \in Nat
  BY Sizes DEF IndexNodes
<1>6. CASE node.addr[k \div PerBlock] # NoBlock
  <2>1. b = base[i].addr[k \div PerBlock] /\ b # NoBlock
    BY <1>4, <1>6
  <2>2. EntryPut(base[i], k, e, b, new)
    BY <1>2 DEF EntryPut
  <2>3. OneEntryPut(D, base, block, new, i, k, e)
    BY <2>1, <2>2, EntryPutOnce
  <2>4. k >= node.size => ~ (i \in D /\ k \in 0 .. base[i].size - 1)
    BY <1>5
  <2>5. ASSUME k >= node.size PROVE Lost(D, base, new) \subseteq Lost(D, base, block)
    BY <2>3, <2>4, <2>5, EntryLost
  <2> QED
    BY <1>1, <2>3, <2>5
<1>7. CASE node.addr[k \div PerBlock] = NoBlock
  <2>1. ~ (k < node.size)
    BY <1>5, <1>7 DEF OldDirs
  <2>2. b \notin DirBlocks(D, base)
    BY <1>4, <1>7, OutsideDirs
  <2>3. \A a \in DirBlocks(D, base) : new[a] = b0[a]
    <3>1. block \in [Blocks -> DataBlocks] /\ DirBlocks(D, base) \subseteq Blocks
      BY OutsideDirs DEF DiskOK
    <3> QED
      BY <1>1, <2>2, <3>1
  <2>4. Lost(D, base, new) = Lost(D, base, b0)
    <3>1. OldDirs(D, base)
      OBVIOUS
    <3>2. PICK n : n = new
      OBVIOUS
    <3>3. \A a \in DirBlocks(D, base) : n[a] = b0[a]
      BY <2>3, <3>2
    <3>4. Lost(D, base, n) = Lost(D, base, b0)
      BY <3>1, <3>3, SameLost
    <3> QED
      BY <3>2, <3>4
  <2> QED
    BY <2>1, <2>4
<1> QED
  BY <1>6, <1>7

\* A step that puts entry e at place k.
DirPutDone(D, base, b0, rest, k, e, new) ==
  /\ Ahead(new)' /\ StepSpares(D, base)
  /\ \A w \in Among(pending') : w.to = "inode" => w.node.nlink = mem.dir.nlink
  /\ mem'.root = mem.root /\ mem'.dirNo = mem.dirNo /\ mem'.dir.nlink = mem.dir.nlink
  /\ mem'.pos = rest.pos /\ mem'.carry = rest.carry
  /\ k < mem.dir.size => /\ Alike(mem'.dir, base[mem.dirNo])
                         /\ OneEntryPut(D, base, b0, new, mem.dirNo, k, e)
  /\ k >= mem.dir.size => Lost(D, base, new) \subseteq Lost(D, base, b0)

LEMMA DirPut ==
  ASSUME FsInv, FsInv', pending = <<>>, UNCHANGED <<disk, call, before>>, pc \in {"place", "pull"},
         pc' \in {"place", "pull", "write", "dot", "linked", "exit"}, pc = "pull" => pc' = "pull",
         NEW k \in 0 .. Space - 1, NEW e, NEW rest \in Mems, writedir(k, e, rest),
         CanPlace(mem.dir, k \div PerBlock),
         rest.dir = mem.dir, rest.root = mem.root, rest.dirNo = mem.dirNo, rest.file = mem.file,
         rest.ino = mem.ino, NEW D, NEW base, NEW b0, Settled(D, base, b0)
  PROVE  \E new : DirPutDone(D, base, b0, rest, k, e, new)
<1>1. PICK i, node, q, P : i = mem.dirNo /\ node = mem.dir /\ q = k \div PerBlock /\ P = pending'
  OBVIOUS
<1>2. /\ i \in D /\ i \in Inodes /\ node \in IndexNodes /\ node.mode = "dir" /\ node.nlink > 0
      /\ node.addr = base[i].addr /\ node.size = base[i].size /\ node.size \in Nat
      /\ OldDirs(D, base) /\ Tight(base[i]) /\ NodeOK(base[i])
      /\ \A j \in 0 .. node.size - 1 : node.addr[j \div PerBlock] # NoBlock
  BY <1>1, DirIsOld
<1>3. mem.bitHint \in Blocks /\ DiskOK /\ Writes(P)
  BY <1>1 DEF FsInv, MemOK, Mems
<1>4. PICK data, g, hint, p, b :
        /\ data = DirBlock(node, k, e) /\ g = Grown(node, q, k + 1) /\ hint = HintAfter(node, q)
        /\ p = Placed(node, q) /\ b = p.addr[q]
  OBVIOUS
<1>5. P = Put(i, node, q, data, k + 1) /\ mem' = [rest EXCEPT !.dir = g, !.bitHint = hint]
  BY <1>1, <1>4 DEF writedir
<1>6. /\ mem'.root = mem.root /\ mem'.dir = g /\ mem'.dirNo = i /\ mem'.file = mem.file /\ mem'.ino = mem.ino
      /\ mem'.pos = rest.pos /\ mem'.carry = rest.carry
  BY <1>1, <1>5 DEF Mems
<1>7. q \in 0 .. MaxDirectBlocks - 1 /\ k + 1 \in Nat /\ k \in Nat /\ CanPlace(node, q)
  BY <1>1, BlockIndex
<1>8. /\ \A w \in Among(P) : w = SetBit(b) \/ w = WriteInode(i, p) \/ w = WriteData(b, data) \/ w = WriteInode(i, g)
      /\ WriteData(b, data) \in Among(P) /\ OneData(P)
  BY <1>4, <1>5, PutParts
<1>9. PICK new : new = [block EXCEPT ![b] = data]
  OBVIOUS
<1>10. Ahead(new)'
  <2>1. \A w \in Among(pending') : w.to = "block" => w = WriteData(b, data)
    BY <1>1, <1>8 DEF SetBit, WriteInode
  <2> QED
    BY <1>1, <1>3, <1>8, <1>9, <2>1, PutAhead
<1>11. /\ Covers(p, base[i]) /\ Covers(g, base[i]) /\ p.nlink = node.nlink /\ g.nlink = node.nlink
       /\ node.addr[q] # NoBlock /\ k + 1 <= node.size => Alike(g, base[i])
  <2>1. PICK c, size : c = base[i] /\ size = k + 1
    OBVIOUS
  <2>2. size \in Nat /\ g = Grown(node, q, size) /\ node.addr = c.addr /\ node.size = c.size /\ NodeOK(c)
        /\ \A j \in 0 .. c.size - 1 : c.addr[j \div PerBlock] # NoBlock
    BY <1>2, <1>4, <1>7, <2>1
  <2> QED
    BY <1>2, <1>3, <1>4, <1>7, <2>1, <2>2, GrownCovers
<1>12. /\ k < node.size => OneEntryPut(D, base, b0, new, i, k, e)
       /\ k >= node.size => Lost(D, base, new) \subseteq Lost(D, base, b0)
  <2>1. b = Placed(node, k \div PerBlock).addr[k \div PerBlock] /\ CanPlace(node, k \div PerBlock)
    BY <1>1, <1>4, <1>7
  <2> QED
    BY <1>1, <1>2, <1>3, <1>4, <1>9, <2>1, EntryPutShows
<1>13. StepSpares(D, base)
  <2>1. \A w \in Among(P) : WriteSpares(D, base, w)
    BY <1>2, <1>8, <1>11 DEF WriteSpares, SetBit, WriteInode, WriteData, NodeSpares
  <2>2. pc' \in HasFile => pc \in HasFile
    BY DEF HasFile, FilePcs
  <2> QED
    BY <1>1, <1>6, <2>1, <2>2, FileOutside DEF StepSpares
<1>14. \A w \in Among(P) : w.to = "inode" => w.node.nlink = node.nlink
  BY <1>8, <1>11 DEF SetBit, WriteInode, WriteData
<1>15. k < node.size => Alike(g, base[i])
  <2>1. k < node.size => k \in 0 .. node.size - 1 /\ k + 1 <= node.size
    BY <1>2, <1>7
  <2> QED
    BY <1>1, <1>2, <1>11, <2>1
<1>16. DirPutDone(D, base, b0, rest, k, e, new)
  BY <1>1, <1>6, <1>10, <1>11, <1>12, <1>13, <1>14, <1>15 DEF DirPutDone
<1> QED
  BY <1>16

LEMMA PlaceKept ==
  ASSUME FsInv, FsInv', Kept, Place
  PROVE  Kept'
<1>1. PICK e, rest : e = EntryAt(mem.dir, mem.pos) /\ rest = [mem EXCEPT !.pos = @ + 1, !.carry = e]
  OBVIOUS
<1>2. /\ pc = "place" /\ pc' = pc /\ mem.pos < mem.dir.size /\ pending = <<>>
      /\ UNCHANGED <<disk, call, before>> /\ writedir(mem.pos, mem.carry, rest)
  BY <1>1 DEF Place, Ready
<1>3. DiskOK /\ mem \in Mems /\ NodeOK(mem.dir) /\ DirOK BY DEF FsInv, MemOK
<1>4. mem.pos \in 0 .. Space - 1 /\ mem.pos + 1 \in Nat /\ mem.dir \in IndexNodes
  BY <1>2, <1>3, NodeParts, Sizes DEF Mems
<1>5. e \in DirEntries BY <1>1, <1>3, <1>4, EntryAtType
<1>6. /\ rest \in Mems /\ rest.dir = mem.dir /\ rest.root = mem.root /\ rest.file = mem.file
      /\ rest.ino = mem.ino /\ rest.dirNo = mem.dirNo /\ rest.carry = e
  BY <1>1, <1>3, <1>4, <1>5 DEF Mems
<1>7. PICK k, c, i, node : k \in 0 .. Space - 1 /\ k = mem.pos /\ c = mem.carry /\ i = mem.dirNo /\ node = mem.dir
  BY <1>4
<1>8. harm \subseteq harm' /\ call' = call
  BY <1>2 DEF writedir
<1> SUFFICES ASSUME Plain' PROVE (\E D, base, blk : Held(D, base, blk))'
  BY DEF Kept
<1>9. Plain
  BY <1>8 DEF Plain
<1>10. PICK D, base, b0 : Settled(D, base, b0)
  BY <1>2, <1>9, AtHand
<1>11. /\ i \in D /\ node.addr = base[i].addr /\ node.size = base[i].size /\ node.size \in Nat
       /\ \A j \in 0 .. node.size - 1 : node.addr[j \div PerBlock] # NoBlock
       /\ DirOpen(D, base, b0)
  BY <1>2, <1>7, <1>10, DirIsOld
<1>12. k \in 0 .. node.size - 1 /\ k < node.size
  BY <1>2, <1>7, <1>11
<1>13. CanPlace(mem.dir, k \div PerBlock)
  BY <1>7, <1>11, <1>12, BlockIndex, Sizes DEF CanPlace
<1>14. PICK new : DirPutDone(D, base, b0, rest, k, c, new)
  <2>1. writedir(k, c, rest) /\ pc \in {"place", "pull"} /\ pc' \in {"place", "pull", "write", "dot", "linked", "exit"}
    BY <1>2, <1>7
  <2> QED
    BY <1>2, <1>6, <1>7, <1>10, <1>13, <2>1, DirPut
<1>15. /\ Ahead(new)' /\ StepSpares(D, base)
       /\ \A w \in Among(pending') : w.to = "inode" => w.node.nlink = node.nlink
       /\ mem'.root = mem.root /\ mem'.dirNo = i /\ mem'.dir.nlink = node.nlink /\ mem'.carry = e
       /\ Alike(mem'.dir, base[i]) /\ OneEntryPut(D, base, b0, new, i, k, c)
  BY <1>6, <1>7, <1>12, <1>14 DEF DirPutDone
<1>16. Lost(D, base, new) \subseteq {Listing(i, e)}
  <2>1. EntryIn(b0, base[i], k) = e
    <3>1. e = EntryIn(block, node, k)
      BY <1>1, <1>7, EntryNow
    <3> QED
      BY <1>10, <1>11, <3>1 DEF Settled, EntryIn
  <2>2. k \in 0 .. base[i].size - 1
    BY <1>11, <1>12
  <2>3. /\ Lost(D, base, new) \subseteq Lost(D, base, b0) \cup {Listing(i, e)}
        /\ Listing(i, c) \notin Lost(D, base, new)
    BY <1>11, <1>15, <2>1, <2>2, EntryLost
  <2>4. Lost(D, base, b0) \subseteq {Listing(i, c)}
    BY <1>2, <1>7, <1>11 DEF DirOpen
  <2> QED
    BY <2>3, <2>4
<1>17. Stage(D, base, new)'
  <2>1. Working
    BY <1>2 DEF Working
  <2>2. Root \in D /\ mem.root = base[Root] /\ \A d \in D : Tight(base[d])
    BY <1>10, <2>1, OutsideDirs
  <2>3. Lost(D, base, new)' \subseteq {Listing(i, e)}
    BY <1>2, <1>16, LostStays
  <2>4. DirOpen(D, base, new)'
    BY <1>2, <1>11, <1>15, <2>3 DEF DirOpen, Alike, Listing
  <2>5. call.kind = "mkdir" => RootCounts'
    <3>1. call.kind = "mkdir" => RootCounts
      BY <1>10, <2>1 DEF Settled, Stage
    <3>2. inode' = inode
      BY <1>2 DEF disk
    <3>3. mem.root.nlink \in Nat
      BY <1>3 DEF Mems, IndexNodes
    <3> QED
      BY <1>2, <1>7, <1>15, <3>1, <3>2, <3>3 DEF RootCounts, Among, IsRoot
  <2> QED
    BY <1>2, <1>15, <2>2, <2>4, <2>5, Always DEF Stage, Opening, Root
<1>18. AtMostOne(Lost(D, base, block)) /\ AtMostOne(Lost(D, base, new))
  BY <1>10, <1>16 DEF Settled, AtMostOne
<1>19. UNCHANGED disk /\ before' = before /\ Spares(D, base)
  BY <1>2, <1>10 DEF Settled
<1>20. Held(D, base, new)'
  BY <1>15, <1>17, <1>18, <1>19, StepHeld
<1> QED
  BY <1>20

LEMMA PlaceLastKept ==
  ASSUME FsInv, FsInv', Kept, PlaceLast
  PROVE  Kept'
<1>1. /\ pc = "place" /\ mem.pos >= mem.dir.size /\ pending = <<>> /\ UNCHANGED <<disk, call, before>>
      /\ writedir(mem.pos, mem.carry, mem) /\ pc' = AfterInsert
  BY DEF PlaceLast, Ready
<1>2. mem \in Mems /\ NodeOK(mem.dir) /\ DirOK /\ CallOK BY DEF FsInv, MemOK
<1>3. mem.pos \in 0 .. Space BY <1>1, <1>2, NodeParts, Sizes DEF Mems, DirOK
<1>4. pc' \in {"write", "dot", "linked", "exit"} BY <1>1 DEF AfterInsert
<1>5. PICK k, c, rest : k \in 0 .. Space /\ k = mem.pos /\ c = mem.carry /\ rest = mem BY <1>3
<1>6. harm \subseteq harm' /\ call' = call
  BY <1>1 DEF writedir
<1>7. Plain' => Plain
  BY <1>6 DEF Plain
<1>8. Working /\ pc \in HasFile
  BY <1>1 DEF Working, HasFile, FilePcs
<1>9. CASE CanPlace(mem.dir, k \div PerBlock)
  <2> SUFFICES ASSUME Plain' PROVE (\E D, base, blk : Held(D, base, blk))'
    BY DEF Kept
  <2>1. PICK D, base, b0 : Settled(D, base, b0)
    BY <1>1, <1>7, AtHand
  <2>2. PICK new : DirPutDone(D, base, b0, rest, k, c, new)
    <3>1. writedir(k, c, rest) /\ rest \in Mems /\ rest.dir = mem.dir /\ rest.root = mem.root
          /\ rest.dirNo = mem.dirNo /\ rest.file = mem.file /\ rest.ino = mem.ino
      BY <1>1, <1>2, <1>5
    <3>2. pc \in {"place", "pull"} /\ pc' \in {"place", "pull", "write", "dot", "linked", "exit"}
          /\ (pc = "pull" => pc' = "pull")
      BY <1>1, <1>4
    <3>3. k \in 0 .. Space - 1
      BY <1>5, <1>9, Fitting
    <3> QED
      BY <1>1, <1>9, <2>1, <3>1, <3>2, <3>3, DirPut
  <2>3. /\ Ahead(new)' /\ StepSpares(D, base) /\ mem'.root = mem.root
        /\ \A w \in Among(pending') : w.to = "inode" => w.node.nlink = mem.dir.nlink
        /\ Lost(D, base, new) \subseteq Lost(D, base, b0)
    BY <1>1, <1>5, <2>2 DEF DirPutDone
  <2>4. AtMostOne(Lost(D, base, block)) /\ AtMostOne(Lost(D, base, new))
    BY <2>1, <2>3 DEF Settled, AtMostOne
  <2>5. Root \in D /\ mem.root = base[Root] /\ \A d \in D : Tight(base[d])
    BY <1>8, <2>1, OutsideDirs
  <2>6. call.kind = "mkdir" => RootCounts'
    <3>1. call.kind = "mkdir" => RootCounts
      BY <1>8, <2>1 DEF Settled, Stage
    <3>2. inode' = inode
      BY <1>1 DEF disk
    <3>3. mem.root.nlink \in Nat
      BY <1>2 DEF Mems, IndexNodes
    <3> QED
      BY <1>1, <1>4, <2>3, <3>1, <3>2, <3>3 DEF RootCounts, Among, IsRoot
  <2>7. Stage(D, base, new)'
    BY <1>4, <1>6, <2>3, <2>5, <2>6, Always DEF Stage, Opening, Root
  <2>8. UNCHANGED disk /\ before' = before /\ Spares(D, base)
    BY <1>1, <2>1 DEF Settled
  <2>9. Held(D, base, new)'
    BY <2>3, <2>4, <2>7, <2>8, StepHeld
  <2> QED
    BY <2>9
<1>10. CASE ~ CanPlace(mem.dir, k \div PerBlock)
  <2>1. pending' = <<>> /\ mem' = mem
    BY <1>1, <1>5, <1>10 DEF writedir
  <2>2. Among(pending') = {}
    BY <2>1, NothingPending
  <2>3. ASSUME NEW D, NEW base, NEW blk, Settled(D, base, blk)
        PROVE  StepSpares(D, base) /\ Stage(D, base, blk)'
    <3>1. StepSpares(D, base)
      BY <1>4, <1>8, <2>1, <2>2, <2>3, FileOutside DEF StepSpares
    <3>2. Root \in D /\ mem.root = base[Root] /\ \A d \in D : Tight(base[d])
      BY <1>8, <2>3, OutsideDirs
    <3>3. call.kind = "mkdir" => RootCounts'
      <4>1. call.kind = "mkdir" => RootCounts
        BY <1>8, <2>3 DEF Settled, Stage
      <4>2. inode' = inode
        BY <1>1 DEF disk
      <4> QED
        BY <1>4, <2>1, <2>2, <4>1, <4>2 DEF RootCounts, Among
    <3>4. Stage(D, base, blk)'
      BY <1>4, <1>6, <2>1, <3>2, <3>3, Always DEF Stage, Opening, Root
    <3> QED
      BY <3>1, <3>4
  <2>4. Plain' => \A D, base, blk : Settled(D, base, blk) => StepSpares(D, base) /\ Stage(D, base, blk)'
    BY <2>3
  <2>5. UNCHANGED disk /\ before' = before /\ \A w \in Among(pending') : w.to # "block"
    BY <1>1, <2>2
  <2> QED
    BY <1>1, <1>7, <2>4, <2>5, QuietKept
<1> QED
  BY <1>9, <1>10

LEMMA PullKept ==
  ASSUME FsInv, FsInv', Kept, Pull
  PROVE  Kept'
<1>1. PICK e, rest : e = EntryAt(mem.dir, mem.pos + 1) /\ rest = [mem EXCEPT !.pos = @ + 1]
  OBVIOUS
<1>2. /\ pc = "pull" /\ pc' = pc /\ mem.pos + 1 < mem.dir.size /\ pending = <<>>
      /\ UNCHANGED <<disk, call, before>> /\ writedir(mem.pos, e, rest)
  BY <1>1 DEF Pull, Ready
<1>3. mem \in Mems /\ NodeOK(mem.dir) /\ CallOK BY DEF FsInv, MemOK
<1>4. mem.pos \in 0 .. Space - 1 /\ mem.pos + 1 \in Nat BY <1>2, <1>3, NodeParts, Sizes DEF Mems
<1>5. /\ rest \in Mems /\ rest.dir = mem.dir /\ rest.root = mem.root /\ rest.file = mem.file
      /\ rest.ino = mem.ino /\ rest.dirNo = mem.dirNo /\ rest.pos = mem.pos + 1
  BY <1>1, <1>3, <1>4 DEF Mems
<1>6. call.kind = "unlink"
  BY <1>2, <1>3, WhoIsAt, Kinds
<1>7. PICK k, i, node : k \in 0 .. Space - 1 /\ k = mem.pos /\ i = mem.dirNo /\ node = mem.dir
  BY <1>4
<1>8. harm \subseteq harm' /\ call' = call
  BY <1>2 DEF writedir
<1> SUFFICES ASSUME Plain' PROVE (\E D, base, blk : Held(D, base, blk))'
  BY DEF Kept
<1>9. Plain
  BY <1>8 DEF Plain
<1>10. PICK D, base, b0 : Settled(D, base, b0)
  BY <1>2, <1>9, AtHand
<1>11. /\ i \in D /\ node.addr = base[i].addr /\ node.size = base[i].size /\ node.size \in Nat
       /\ \A j \in 0 .. node.size - 1 : node.addr[j \div PerBlock] # NoBlock
       /\ DirOpen(D, base, b0)
  BY <1>2, <1>7, <1>10, DirIsOld
<1>12. k \in 0 .. node.size - 1 /\ k < node.size /\ k + 1 \in 0 .. node.size - 1 /\ k \in Nat
  BY <1>2, <1>7, <1>11
<1>13. CanPlace(mem.dir, k \div PerBlock)
  <2>1. k \div PerBlock < MaxDirectBlocks
    <3>1. \A n \in 0 .. Space - 1 : n \div PerBlock \in 0 .. MaxDirectBlocks - 1
      BY BlockIndex
    <3>2. k \div PerBlock \in 0 .. MaxDirectBlocks - 1
      BY <1>7, <3>1
    <3> QED
      BY <3>2, Sizes
  <2>2. mem.dir.addr[k \div PerBlock] # NoBlock
    BY <1>7, <1>11, <1>12
  <2> QED
    BY <2>1, <2>2 DEF CanPlace
<1>14. PICK new : DirPutDone(D, base, b0, rest, k, e, new)
  <2>1. /\ writedir(k, e, rest) /\ pc \in {"place", "pull"} /\ (pc = "pull" => pc' = "pull")
        /\ pc' \in {"place", "pull", "write", "dot", "linked", "exit"}
    BY <1>2, <1>7
  <2> QED
    BY <1>2, <1>5, <1>7, <1>10, <1>13, <2>1, DirPut
<1>15. /\ Ahead(new)' /\ StepSpares(D, base)
       /\ mem'.root = mem.root /\ mem'.dirNo = i /\ mem'.pos = k + 1
       /\ Alike(mem'.dir, base[i]) /\ OneEntryPut(D, base, b0, new, i, k, e)
  BY <1>5, <1>7, <1>12, <1>14 DEF DirPutDone
<1>16. \A j : EntryIn(b0, node, j) = EntryIn(b0, base[i], j)
  BY <1>11 DEF EntryIn
<1>17. PICK e0 : /\ Lost(D, base, b0) \subseteq {Listing(i, e0)}
                 /\ \/ EntryIn(b0, base[i], k) = e0
                    \/ k > 0 /\ EntryIn(b0, base[i], k) = EntryIn(b0, base[i], k - 1)
  BY <1>2, <1>7, <1>11, <1>16 DEF DirOpen
<1>18. Lost(D, base, new) \subseteq {Listing(i, e0)}
  <2>1. CASE EntryIn(b0, base[i], k) = e0
    <3>1. Lost(D, base, new) \subseteq Lost(D, base, b0) \cup {Listing(i, EntryIn(b0, base[i], k))}
      BY <1>15, EntryLost
    <3> QED
      BY <1>17, <2>1, <3>1
  <2>2. CASE k > 0 /\ EntryIn(b0, base[i], k) = EntryIn(b0, base[i], k - 1)
    <3>1. PICK j : j = k - 1
      OBVIOUS
    <3>2. j \in 0 .. base[i].size - 1 /\ j # k /\ EntryIn(b0, base[i], j) = EntryIn(b0, base[i], k)
      BY <1>11, <1>12, <2>2, <3>1
    <3>3. Lost(D, base, new) \subseteq Lost(D, base, b0)
      BY <1>11, <1>15, <3>2, EntryLost
    <3> QED
      BY <1>17, <3>3
  <2> QED
    BY <1>17, <2>1, <2>2
<1>19. EntryIn(new, base[i], k + 1) = EntryIn(new, base[i], k)
  <2>1. k + 1 # k /\ k + 1 \in 0 .. base[i].size - 1
    BY <1>11, <1>12
  <2>2. EntryIn(new, base[i], k) = e /\ EntryIn(new, base[i], k + 1) = EntryIn(b0, base[i], k + 1)
    BY <1>11, <1>15, <2>1 DEF OneEntryPut
  <2>3. e = EntryIn(block, node, k + 1)
    BY <1>1, <1>7, EntryNow
  <2>4. b0 = block
    BY <1>10 DEF Settled
  <2> QED
    BY <1>16, <2>2, <2>3, <2>4
<1>20. Stage(D, base, new)'
  <2>1. Working
    BY <1>2 DEF Working
  <2>2. Root \in D /\ mem.root = base[Root] /\ \A d \in D : Tight(base[d])
    BY <1>10, <2>1, OutsideDirs
  <2>3. Lost(D, base, new)' \subseteq {Listing(i, e0)}
    BY <1>2, <1>18, LostStays
  <2>4. /\ EntryIn(new, mem.dir, mem.pos)' = EntryIn(new, base[i], k + 1)
        /\ EntryIn(new, mem.dir, mem.pos - 1)' = EntryIn(new, base[i], k)
    <3>1. mem'.dir.addr = base[i].addr /\ mem'.pos - 1 = k
      BY <1>12, <1>15 DEF Alike
    <3> QED
      BY <1>15, <3>1 DEF EntryIn, NoBlock, Blank, Entry
  <2>5. DirOpen(D, base, new)'
    <3>1. mem'.pos > 0
      BY <1>12, <1>15
    <3> QED
      BY <1>2, <1>11, <1>15, <1>19, <2>3, <2>4, <3>1 DEF DirOpen, Alike, Listing
  <2> QED
    BY <1>2, <1>6, <1>15, <2>2, <2>5, Always DEF Stage, Opening, Root
<1>21. AtMostOne(Lost(D, base, block)) /\ AtMostOne(Lost(D, base, new))
  BY <1>10, <1>18 DEF Settled, AtMostOne
<1>22. UNCHANGED disk /\ before' = before /\ Spares(D, base)
  BY <1>2, <1>10 DEF Settled
<1>23. Held(D, base, new)'
  BY <1>15, <1>20, <1>21, <1>22, StepHeld
<1> QED
  BY <1>23

\* The last place of directory i is given up.
WithoutLast(D, base, i) ==
  [d \in D |-> IF d = i THEN [base[i] EXCEPT !.size = @ - 1] ELSE base[d]]

LEMMA FewerPlaces ==
  ASSUME NEW D, NEW base, OldDirs(D, base), NEW i \in D, base[i].size > 0,
         NEW base1, base1 = WithoutLast(D, base, i)
  PROVE  /\ OldDirs(D, base1) /\ DirBlocks(D, base1) \subseteq DirBlocks(D, base)
         /\ \A d \in D : /\ base1[d].addr = base[d].addr /\ base1[d].size \in Nat /\ base1[d].size <= base[d].size
                         /\ d # i => base1[d] = base[d]
         /\ base1[i].size = base[i].size - 1
<1>1. \A d \in D : NodeOK(base[d]) /\ base[d] \in IndexNodes /\ base[d].size \in Nat /\ base[d].mode = "dir"
  BY NodeParts DEF OldDirs
<1>2. \A d \in D \ {i} : base1[d] = base[d]
  BY DEF WithoutLast
<1>3. base1[i] = [base[i] EXCEPT !.size = @ - 1]
  BY DEF WithoutLast
<1>4. base1[i] \in IndexNodes /\ base1[i].addr = base[i].addr /\ base1[i].mode = "dir"
      /\ base1[i].nlink = base[i].nlink /\ base1[i].size = base[i].size - 1 /\ base1[i].size \in Nat
  BY <1>1, <1>3 DEF IndexNodes
<1>5. NodeOK(base1[i])
  BY <1>1, <1>4, Sizes DEF NodeOK
<1>6. \A d \in D : /\ base1[d].addr = base[d].addr /\ base1[d].size \in Nat /\ base1[d].size <= base[d].size
                   /\ NodeOK(base1[d]) /\ base1[d].mode = "dir"
  <2>1. ASSUME NEW d \in D
        PROVE  /\ base1[d].addr = base[d].addr /\ base1[d].size \in Nat /\ base1[d].size <= base[d].size
               /\ NodeOK(base1[d]) /\ base1[d].mode = "dir"
    <3>1. CASE d = i
      BY <1>1, <1>4, <1>5, <3>1
    <3>2. CASE d # i
      BY <1>1, <1>2, <3>2
    <3> QED
      BY <3>1, <3>2
  <2> QED
    BY <2>1
<1>7. \A d \in D : 0 .. base1[d].size - 1 \subseteq 0 .. base[d].size - 1
  BY <1>1, <1>6
<1>8. OldDirs(D, base1)
  <2>1. D \subseteq Inodes
    BY DEF OldDirs
  <2>2. ASSUME NEW c \in D, NEW d \in D, NEW j \in 0 .. base1[c].size - 1, NEW k \in 0 .. base1[d].size - 1
        PROVE  /\ base1[c].addr[j \div PerBlock] # NoBlock
               /\ base1[c].addr[j \div PerBlock] = base1[d].addr[k \div PerBlock] =>
                    c = d /\ j \div PerBlock = k \div PerBlock
    <3>1. j \in 0 .. base[c].size - 1 /\ k \in 0 .. base[d].size - 1
      BY <1>7
    <3>2. base1[c].addr = base[c].addr /\ base1[d].addr = base[d].addr
      BY <1>6
    <3> QED
      BY <3>1, <3>2 DEF OldDirs
  <2> QED
    BY <1>6, <2>1, <2>2 DEF OldDirs
<1>9. ASSUME NEW b \in DirBlocks(D, base1) PROVE b \in DirBlocks(D, base)
  <2>1. \E d \in D : \E k \in 0 .. base1[d].size - 1 : b = base1[d].addr[k \div PerBlock]
    BY DirBlocksAre
  <2>2. PICK d \in D : \E k \in 0 .. base1[d].size - 1 : b = base1[d].addr[k \div PerBlock]
    BY <2>1
  <2>3. PICK k \in 0 .. base1[d].size - 1 : b = base1[d].addr[k \div PerBlock]
    BY <2>2
  <2>4. k \in 0 .. base[d].size - 1 /\ b = base[d].addr[k \div PerBlock]
    BY <1>6, <1>7, <2>3
  <2> QED
    BY <2>4, DirBlocksAre
<1> QED
  BY <1>2, <1>4, <1>6, <1>8, <1>9

\* The last entry is there no longer: it was lost, or is at the place before, too.
LEMMA LastGiven ==
  ASSUME NEW D, NEW base, OldDirs(D, base), NEW i \in D, base[i].size > 0,
         NEW base1, base1 = WithoutLast(D, base, i), NEW blk, NEW k, k = base[i].size - 1, NEW e,
         Lost(D, base, blk) \subseteq {Listing(i, e)},
         \/ EntryIn(blk, base[i], k) = e
         \/ k > 0 /\ EntryIn(blk, base[i], k) = EntryIn(blk, base[i], k - 1)
  PROVE  Lost(D, base1, blk) \subseteq {Listing(i, e)}
<1>1. /\ \A d \in D : /\ base1[d].addr = base[d].addr /\ base1[d].size \in Nat /\ base1[d].size <= base[d].size
                      /\ d # i => base1[d] = base[d]
      /\ base1[i].size = base[i].size - 1
  BY FewerPlaces
<1>2. base[i].size \in Nat
  BY NodeParts DEF OldDirs
<1>3. \A d \in D : \A j : EntryIn(blk, base1[d], j) = EntryIn(blk, base[d], j)
  BY <1>1 DEF EntryIn
<1>4. ASSUME NEW x \in Shown(D, base, blk), x \notin Shown(D, base1, blk)
      PROVE  x = Listing(i, EntryIn(blk, base[i], k)) /\ ~ (k > 0 /\ EntryIn(blk, base[i], k) = EntryIn(blk, base[i], k - 1))
  <2>1. \E d \in D : \E j \in 0 .. base[d].size - 1 : x = Listing(d, EntryIn(blk, base[d], j))
    BY <1>4, ShownAre
  <2>2. PICK d \in D : \E j \in 0 .. base[d].size - 1 : x = Listing(d, EntryIn(blk, base[d], j))
    BY <2>1
  <2>3. PICK j \in 0 .. base[d].size - 1 : x = Listing(d, EntryIn(blk, base[d], j))
    BY <2>2
  <2>4. j \notin 0 .. base1[d].size - 1
    <3>1. j \in 0 .. base1[d].size - 1 => x \in Shown(D, base1, blk)
      BY <1>3, <2>3, ShownAre
    <3> QED
      BY <1>4, <3>1
  <2>5. d = i /\ j = k
    <3>1. d = i
      BY <1>1, <2>4
    <3> QED
      BY <1>1, <1>2, <2>4, <3>1
  <2>6. k > 0 => Listing(i, EntryIn(blk, base[i], k - 1)) \in Shown(D, base1, blk)
    <3>1. PICK m : m = k - 1
      OBVIOUS
    <3>2. k > 0 => m \in 0 .. base1[i].size - 1
      BY <1>1, <1>2, <3>1
    <3> QED
      BY <1>3, <3>1, <3>2, ShownAre
  <2> QED
    BY <1>4, <2>3, <2>5, <2>6
<1> QED
  BY <1>4 DEF Lost

LEMMA CutKept ==
  ASSUME FsInv, Kept, Cut
  PROVE  Kept'
<1>1. PICK i, node, shrunk : i = mem.dirNo /\ node = mem.dir /\ shrunk = [node EXCEPT !.size = @ - 1]
  OBVIOUS
<1>2. /\ pc = "pull" /\ pc' = "exit" /\ pending = <<>> /\ UNCHANGED <<disk, call, before>>
      /\ mem.pos + 1 >= node.size
      /\ ~ LosesBlock => pending' = <<>> \o <<WriteInode(i, shrunk)>>
      /\ harm' = harm \cup (IF LosesBlock THEN {"shrink"} ELSE {})
  BY <1>1 DEF Cut, Ready, Exit, Shrunk
<1> SUFFICES ASSUME Plain' PROVE (\E D, base, blk : Held(D, base, blk))'
  BY DEF Kept
<1>3. Plain /\ ~ LosesBlock
  BY <1>2 DEF Plain
<1>4. pending' = <<WriteInode(i, shrunk)>>
  BY <1>2, <1>3
<1>5. PICK D, base, b0 : Settled(D, base, b0)
  BY <1>2, <1>3, AtHand
<1>6. /\ i \in D /\ node \in IndexNodes /\ node.mode = "dir" /\ node.nlink > 0
      /\ node.addr = base[i].addr /\ node.size = base[i].size /\ node.size \in Nat
      /\ OldDirs(D, base) /\ DirOpen(D, base, b0)
  BY <1>1, <1>2, <1>5, DirIsOld
<1>7. PICK k : k = mem.pos
  OBVIOUS
<1>8. k = base[i].size - 1 /\ base[i].size > 0
  <2>1. k \in Nat /\ k < node.size
    BY <1>1, <1>2, <1>7 DEF FsInv, MemOK, Mems, DirOK
  <2> QED
    BY <1>2, <1>6, <1>7, <2>1
<1>9. PICK base1 : base1 = WithoutLast(D, base, i)
  OBVIOUS
<1>10. /\ OldDirs(D, base1) /\ DirBlocks(D, base1) \subseteq DirBlocks(D, base)
       /\ \A d \in D : base1[d].addr = base[d].addr /\ base1[d].size \in Nat /\ base1[d].size <= base[d].size
       /\ base1[i].size = base[i].size - 1
  BY <1>6, <1>8, <1>9, FewerPlaces
<1>11. \A j : EntryIn(b0, node, j) = EntryIn(b0, base[i], j)
  BY <1>6 DEF EntryIn
<1>12. PICK e : /\ Lost(D, base, b0) \subseteq {Listing(i, e)}
                /\ \/ EntryIn(b0, base[i], k) = e
                   \/ k > 0 /\ EntryIn(b0, base[i], k) = EntryIn(b0, base[i], k - 1)
  BY <1>1, <1>2, <1>6, <1>7, <1>11 DEF DirOpen
<1>13. Lost(D, base1, b0) \subseteq {Listing(i, e)}
  BY <1>6, <1>8, <1>9, <1>12, LastGiven
<1>14. \A d \in D : \A j \in 0 .. base1[d].size - 1 : j \in 0 .. base[d].size - 1
  <2>1. \A d \in D : base[d].size \in Nat
    BY <1>6, NodeParts DEF OldDirs
  <2> QED
    BY <1>10, <2>1
<1>15. ASSUME NEW j \in Inodes PROVE NodeSpares(D, base1, j, inode[j])
  <2>1. NodeSpares(D, base, j, inode[j])
    BY <1>5 DEF Settled, Spares
  <2>2. CASE j \in D
    <3>1. Covers(inode[j], base[j])
      BY <2>1, <2>2 DEF NodeSpares
    <3>2. inode[j].size \in Nat /\ base[j].size \in Nat
      <4>1. inode[j] \in IndexNodes
        BY DEF FsInv, DiskOK
      <4> QED
        BY <1>6, <2>2, <4>1, NodeParts DEF OldDirs, IndexNodes
    <3>3. Covers(inode[j], base1[j])
      BY <1>10, <1>14, <2>2, <3>1, <3>2 DEF Covers
    <3> QED
      BY <2>2, <3>3 DEF NodeSpares
  <2>3. CASE j \notin D
    BY <1>10, <2>1, <2>3 DEF NodeSpares
  <2> QED
    BY <2>2, <2>3
<1>16. Covers(shrunk, base1[i])
  <2>1. shrunk.mode = "dir" /\ shrunk.nlink > 0 /\ shrunk.addr = base[i].addr /\ shrunk.size = base[i].size - 1
    BY <1>1, <1>6 DEF IndexNodes
  <2> QED
    BY <1>6, <1>10, <2>1 DEF Covers
<1>17. \A w \in Among(pending') : w.to = "inode" /\ w.at = i /\ w.node = shrunk
  BY <1>4 DEF Among, WriteInode
<1>18. StepSpares(D, base1)
  BY <1>2, <1>6, <1>16, <1>17 DEF StepSpares, WriteSpares, NodeSpares, HasFile, FilePcs
<1>19. Spares(D, base1)
  <2>1. DirBlocks(D, base1) \subseteq bitmap
    BY <1>5, <1>10 DEF Settled, Spares
  <2>2. Among(pending) = {} /\ pc \notin HasFile \cup {"undo"}
    BY <1>2, NothingPending DEF HasFile, FilePcs
  <2> QED
    BY <1>10, <1>15, <2>1, <2>2 DEF Spares
<1>20. Stage(D, base1, b0)'
  BY <1>2 DEF Stage, Working
<1>21. Ahead(b0)'
  <2>1. DiskOK /\ UNCHANGED disk /\ b0 = block /\ \A w \in Among(pending') : w.to # "block"
    BY <1>2, <1>5, <1>17 DEF FsInv, Settled
  <2> QED
    BY <2>1, QuietAhead
<1>22. AtMostOne(Lost(D, base1, block)) /\ AtMostOne(Lost(D, base1, b0))
  BY <1>5, <1>13 DEF Settled, AtMostOne
<1>23. UNCHANGED disk /\ before' = before
  BY <1>2
<1>24. Held(D, base1, b0)'
  BY <1>18, <1>19, <1>20, <1>21, <1>22, <1>23, StepHeld
<1> QED
  BY <1>24

-----------------------------------------------------------------------------
(***************************************************************************)
(* All steps.                                                              *)
(***************************************************************************)
LEMMA InitKept == Init => Kept
BY DEF Init, Kept, Plain, Idle

LEMMA StartsKept ==
  ASSUME FsInv, Create \/ Mkdir \/ Ln \/ LnS \/ Rm
  PROVE  Kept'
<1>1. PICK c, at : at \in {"creat", "link", "symlink", "unlink"} /\ Start(c, at)
  BY DEF Create, Mkdir, Ln, LnS, Rm
<1> QED BY <1>1, StartKept

LEMMA StutterKept ==
  ASSUME Kept, UNCHANGED vars
  PROVE  Kept'
<1>1. /\ bitmap' = bitmap /\ inode' = inode /\ block' = block /\ pending' = pending
      /\ pc' = pc /\ call' = call /\ mem' = mem /\ harm' = harm /\ before' = before
  BY DEF vars
<1>2. Plain' = Plain BY <1>1 DEF Plain
<1>3. ASSUME NEW D, NEW base, NEW blk, Held(D, base, blk) PROVE Held(D, base, blk)'
  <2>1. Spares(D, base)'
    BY <1>1, <1>3, Always DEF Held, Spares, Inodes, Among, HasFile, FilePcs
  <2>2. Ahead(blk)'
    BY <1>1, <1>3 DEF Held, Ahead, Among
  <2>3. Lost(D, base, blk)' = Lost(D, base, blk) /\ Lost(D, base, block)' = Lost(D, base, block)
    BY <1>1, LostStays
  <2>4. AsFound(D, base)' = AsFound(D, base)
    BY <1>1 DEF AsFound, Inodes, Among
  <2>5. RootCounts' = RootCounts /\ RootCounted' = RootCounted
    BY <1>1 DEF RootCounts, RootCounted, IsRoot, Root, Among
  <2>6. DirOpen(D, base, blk) => DirOpen(D, base, blk)'
    BY <1>1, <2>3, LostStays DEF DirOpen, Alike, Listing
  <2>7. Stage(D, base, blk)'
    BY <1>1, <1>3, <2>3, <2>4, <2>5, <2>6, Always DEF Held, Stage, Working, Opening, Root
  <2> QED
    BY <1>3, <2>1, <2>2, <2>3, <2>7 DEF Held, AtMostOne
<1> QED
  BY <1>2, <1>3 DEF Kept

LEMMA NextKept == FsInv /\ FsInv' /\ InOrder /\ Own /\ Kept /\ [Next]_vars => Kept'
<1> SUFFICES ASSUME FsInv, FsInv', InOrder, Own, Kept, [Next]_vars PROVE Kept'
  OBVIOUS
<1>1. CASE Create \/ Mkdir \/ Ln \/ LnS \/ Rm BY <1>1, StartsKept
<1>2. CASE Creat BY <1>2, CreatNewKept, CreatTruncatesKept, FailuresKept DEF Creat
<1>3. CASE Insert BY <1>3, OpenDirKept, PlaceKept, PlaceLastKept, FailuresKept DEF Insert
<1>4. CASE WriteAll BY <1>4, WriteKept, FailuresKept DEF WriteAll
<1>5. CASE MkdirRest
  BY <1>5, MkdirDotKept, MkdirIncKept, MkdirDotDotKept, MkdirParentKept, FailuresKept DEF MkdirRest
<1>6. CASE LinkAll BY <1>6, LinkKept, LinkedKept, FailuresKept DEF LinkAll
<1>7. CASE SymlinkAll
  BY <1>7, SymlinkKept, SymlinkTargetKept, SymlinkUndoKept, FailuresKept DEF SymlinkAll
<1>8. CASE UnlinkAll BY <1>8, UnlinkKept, PullKept, CutKept, FailuresKept DEF UnlinkAll
<1>9. CASE FsckAll BY <1>9, FailuresKept, OthersKept DEF FsckAll
<1>10. CASE Return \/ Crash BY <1>10, OthersKept
<1>11. CASE Flush BY <1>11, FlushKept
<1>12. CASE UNCHANGED vars BY <1>12, StutterKept
<1> QED
  BY <1>1, <1>2, <1>3, <1>4, <1>5, <1>6, <1>7, <1>8, <1>9, <1>10, <1>11, <1>12 DEF Next

LEMMA KeptInvariance == Spec => []Kept
BY InitKept, FsInvariance, SpecInOrder, OwnInvariance, NextKept, PTL DEF Spec

\* While a program moves the entries of a directory up or down, one at a time and
\* each with a write of its own, at most one that was there when it started is
\* missing, whenever the machine stops: unless a directory has lost a block
\* ("shrink"), or mkdir has inserted through a copy of the root that is old ("stale").
THEOREM SpecLosesAtMostOne == Spec => []LosesAtMostOne
BY FsInvariance, KeptInvariance, KeptLoses, PTL
=============================================================================
