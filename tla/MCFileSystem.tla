--------------------------- MODULE MCFileSystem ---------------------------
(***************************************************************************)
(* An instance of FileSystem for TLC, with a view that leaves out what no  *)
(* step reads: the contents of blocks that no index node and no copy of    *)
(* one refers to, and, between programs, of free index nodes that no       *)
(* directory entry refers to.                                              *)
(***************************************************************************)
EXTENDS FileSystem

AddressesIn(node) == {node.addr[k] : k \in DOMAIN NoAddresses}

\* The index nodes that the directories among ds lead to.
Named(ds) ==
  UNION {{EntryAt(inode[d], k).ino : k \in 0 .. inode[d].size - 1} :
           d \in {i \in ds : inode[i].mode = "dir"}}

ReadLater ==
  LET named    == Named(Live)
      read     == IF pc = "idle" THEN Live \cup named \cup Named(named) ELSE Inodes
      referred == UNION {AddressesIn(node) :
                           node \in {inode[i] : i \in read} \cup {mem.file, mem.dir, mem.root}}
  IN  <<bitmap, [i \in Inodes |-> IF i \in read THEN inode[i] ELSE Zeroed],
        [b \in Blocks |-> IF b \in referred THEN block[b] ELSE Data],
        pending, pc, call, mem, harm, before>>
=============================================================================
