---- MODULE Volume ----
(***************************************************************************)
(* Who owns which block of a mounted BasicBTFS volume: the inode and block *)
(* maps (bitmap.h), the inodes (inode.c), the cluster tables of regular    *)
(* files (file.c) and the blocks of directories (dir.c, btree.h,           *)
(* nametree.h).  One action is one call of the VFS.                        *)
(*                                                                         *)
(* Abstracted here: keys and hashes (a directory is a set of entries;      *)
(* whether an insertion needs a new block, and whether a lookup hits a     *)
(* collision or the remains of a removed entry, is a nondeterministic      *)
(* choice), the bytes of files, and the order of a file's clusters.  A     *)
(* removal that restructures a B-tree is not offered: entries are removed  *)
(* only from directories whose tree is the root alone.                     *)
(***************************************************************************)
EXTENDS Bitmap, Functions

CONSTANTS
  NBlocks,      \* s_nblocks
  NInodes,      \* s_ninodes
  Meta,         \* number of blocks of superblock, maps, inode table and filemap
  Excess,       \* number of data blocks mkfs marks beyond the root's tree block
  ClusterLen,   \* BASICBTFS_MAX_BLOCKS_PER_CLUSTER
  MaxClusters,  \* BASICBTFS_ATABLE_MAX_CLUSTERS
  MaxDirs,      \* BASICBTFS_MAX_CACHE_DIR_ENTRIES
  MaxEntries,   \* BASICBTFS_ENTRIES_PER_DIR
  Names         \* the names a directory may hold

ASSUME VolumeAssumption ==
  /\ NBlocks \in Nat /\ NInodes \in Nat /\ Meta \in Nat /\ Excess \in Nat
  /\ ClusterLen \in Nat /\ MaxClusters \in Nat
  /\ MaxDirs \in Nat /\ MaxEntries \in Nat
  /\ NInodes > 0 /\ Meta > 0 /\ ClusterLen > 0
  /\ Meta + Excess + 2 <= NBlocks
  /\ NBlocks < Word /\ NInodes < Word

VARIABLES
  imap,      \* s_ifree_bitmap and s_nfree_inodes
  bmap,      \* s_bfree_bitmap, s_nfree_blocks and s_unused_area
  inode,     \* the inodes and the blocks they lead to
  entries,   \* the directory entries a lookup finds
  cached,    \* how often dir_cache_list holds a directory with that root (bno)
  released,  \* history: regular files whose data blocks unlink has put
  orphans,   \* history: name lists of directories whose mkdir failed late
  twice      \* history: unlink has put the blocks of a file a second time

vars == <<imap, bmap, inode, entries, cached, released, orphans, twice>>

Inodes == 0..(NInodes - 1)
Blocks == 0..(NBlocks - 1)
DataBlocks == Meta..(NBlocks - 1)
RootIno == 0

(* ENTRIES_PER_DIR is below 2 * MIN_DEGREE^3, so a tree has three levels at *)
(* most.                                                                   *)
MaxHeight == 2

(* "bno" is i_bno; "data" the other blocks: the clusters of a file, or the *)
(* other tree nodes and the name list of a directory; "clusters" counts    *)
(* the used slots of a cluster table.  Of a directory: "height" of the     *)
(* tree, 0 when the root is a leaf; "files" is nr_of_files of the root;     *)
(* "stored" tells that an entry has been written into some slot of the     *)
(* tree; "torn" that the name list may end in the block number -1.  "put"   *)
(* is history: what unlink has put of "data" and the file did not get again. *)
InodeRec ==
  [mode : {"none", "reg", "dir"}, bno : Blocks, data : SUBSET Blocks,
   clusters : 0..MaxClusters, height : 0..MaxHeight, files : Int,
   stored : BOOLEAN, torn : BOOLEAN, put : SUBSET Blocks]

NewInode(mode, bno, data) ==
  [mode |-> mode, bno |-> bno, data |-> data, clusters |-> 0, height |-> 0,
   files |-> 0, stored |-> FALSE, torn |-> FALSE, put |-> {}]
NoInode == NewInode("none", 0, {})

(* "disk": the entry is in the tree on disk, not only in the cached copy.  *)
(* "named": the name list holds its name, and its name_bno is a real one.  *)
Entry == [dir : Inodes, name : Names, ino : Inodes, disk : BOOLEAN, named : BOOLEAN]

InodeMap == [bits : SUBSET Inodes, nfree : 0..(Word - 1)]
BlockMap == [bits : SUBSET Blocks, nfree : 0..(Word - 1), unused : 0..(Word - 1),
             short : BOOLEAN]

TypeOK ==
  /\ imap \in InodeMap
  /\ bmap \in BlockMap
  /\ inode \in [Inodes -> InodeRec]
  /\ entries \in SUBSET Entry
  /\ cached \in [Blocks -> Nat]
  /\ released \in SUBSET Inodes
  /\ orphans \in SUBSET Blocks
  /\ twice \in BOOLEAN

(* A freshly formatted volume after its first mount.  mkfs has marked the   *)
(* metadata and the root's tree block; it takes the number of bits for one *)
(* of bytes, and on a volume of about 1.6 GB and more marks data blocks in    *)
(* excess.  (On a smaller one it marks too little; that is not looked at   *)
(* here.)  The number of free blocks it writes knows nothing of the excess *)
(* and is too high by one more.  fill_super has added the root's name list. *)
FirstFree == Meta + Excess + 1

Init ==
  /\ imap = [bits |-> {RootIno}, nfree |-> NInodes - 1]
  /\ bmap = [bits |-> 0..FirstFree, nfree |-> NBlocks - Meta - 1,
             unused |-> FirstFree + 1, short |-> FALSE]
  /\ inode = [i \in Inodes |->
                IF i = RootIno THEN NewInode("dir", Meta, {FirstFree}) ELSE NoInode]
  /\ entries = {}
  /\ cached = [b \in Blocks |-> IF b = Meta /\ MaxDirs > 0 THEN 1 ELSE 0]
  /\ released = {}
  /\ orphans = {}
  /\ twice = FALSE

----
(***************************************************************************)
(* basicbtfs_add_entry, on a directory whose inode is d: a lookup, then    *)
(* the name goes to the name list, and then the entry to the tree.         *)
(***************************************************************************)

AllocBlock(bm) == GetFreeBlocks(bm, NBlocks, 1)

Grown(d, b) == IF b = NONE THEN d ELSE [d EXCEPT !.data = @ \cup {b}]

(* nametree_insert_name: the name fits into a block of the list, or a block *)
(* is appended.  When there is none, -1 stays behind as the number of the  *)
(* next block, and a later call may follow it and give up.  add_entry drops *)
(* the result, so no failure is seen.                                      *)
NameInsert(bm, d) ==
  LET a == AllocBlock(bm)
      appended == IF a.bno = NONE THEN [d EXCEPT !.torn = TRUE] ELSE Grown(d, a.bno)
  IN  {[bm |-> bm, dir |-> d, named |-> TRUE],
       [bm |-> a.bm, dir |-> appended, named |-> a.bno # NONE]}
      \cup (IF d.torn THEN {[bm |-> bm, dir |-> d, named |-> FALSE]} ELSE {})

(* What an insertion into the tree ends with.  "kept" is FALSE when the new *)
(* entry is not in the tree; "halved" is TRUE when the upper half of the   *)
(* tree was cut off.                                                       *)
TreeOutcome(bm, d, ret, kept, halved) ==
  [bm |-> bm, dir |-> d, ret |-> ret, kept |-> kept, halved |-> halved]

\* The root's counter follows what the insertion returned.
Inserted(bm, d, kept) ==
  TreeOutcome(bm, [d EXCEPT !.files = @ + 1, !.stored = @ \/ kept], "ok", kept, FALSE)

Refused(bm, d, ret) == TreeOutcome(bm, d, ret, FALSE, FALSE)

(* btree_insert_non_full, at a node with h levels below it: any of the      *)
(* nodes on the way to the leaf may be full and is then split.  A missing  *)
(* block is reported for the first level alone; deeper down the result of  *)
(* the recursive call is dropped.                                          *)
InsertNonFull(bm, d, h) ==
  LET a == AllocBlock(bm)
      b == AllocBlock(a.bm)
      d1 == Grown(d, a.bno)
      d2 == Grown(d1, b.bno)
      one == IF a.bno = NONE THEN Refused(a.bm, d, "ENOSPC") ELSE Inserted(a.bm, d1, TRUE)
      two == IF a.bno = NONE THEN Inserted(a.bm, d, FALSE)
             ELSE Inserted(b.bm, d2, b.bno # NONE)
  IN  {Inserted(bm, d, TRUE)} \cup (IF h >= 1 THEN {one} ELSE {})
                              \cup (IF h >= 2 THEN {two} ELSE {})

(* btree_node_insert at a full root: a block for the new root, one for the  *)
(* upper half of the old one, then the insertion below.  Whatever is       *)
(* missing, nothing is undone: without the second block the first is lost, *)
(* and when the insertion fails update_root is not reached, so that the    *)
(* directory goes on with the lower half of its old root.                  *)
InsertAtFullRoot(bm, d) ==
  LET a == AllocBlock(bm)
      b == AllocBlock(a.bm)
      raised == [d EXCEPT !.bno = a.bno, !.data = @ \cup {d.bno, b.bno}, !.height = @ + 1]
      below == InsertNonFull(b.bm, raised, d.height)
      lower(bm2) == {TreeOutcome(bm2, [d EXCEPT !.data = @ \ X], "ENOSPC", FALSE, TRUE) :
                       X \in SUBSET d.data}
  IN  IF a.bno = NONE THEN {Refused(a.bm, d, "ENOSPC")}
      ELSE IF b.bno = NONE THEN {Refused(b.bm, d, "ENOSPC")}
      ELSE {t \in below : t.ret = "ok"}
           \cup UNION {lower(t.bm) : t \in {u \in below : u.ret # "ok"}}

TreeInsert(bm, d) ==
  InsertNonFull(bm, d, d.height)
  \cup (IF d.height < MaxHeight THEN InsertAtFullRoot(bm, d) ELSE {})

(* In a directory whose cached copy still takes entries, the result of the  *)
(* insertion there, which cannot fail, replaces the one of the tree.       *)
AddOutcome(named, t, incache) ==
  [bm |-> t.bm, dir |-> t.dir, named |-> named, disk |-> t.kept, halved |-> t.halved,
   ret |-> IF incache THEN "ok" ELSE t.ret, seen |-> t.kept \/ incache, incache |-> incache]

(* The lookup at the start finds the hash in the tree on disk: in another  *)
(* entry, or in a slot behind the last key of a node.                      *)
AddRefused(bm, d) ==
  IF d.stored THEN {AddOutcome(TRUE, Refused(bm, d, "EIO"), FALSE)} ELSE {}

\* nr_of_blocks of the cached copy may have reached its limit.
MayCache(d) == IF cached[d.bno] > 0 THEN BOOLEAN ELSE {FALSE}

AddEntry(bm, d) ==
  AddRefused(bm, d)
  \cup UNION {UNION {{AddOutcome(n.named, t, c) : t \in TreeInsert(n.bm, n.dir)} :
                       c \in MayCache(d)} : n \in NameInsert(bm, d)}

EntriesOf(d) == {e \in entries : e.dir = d}

(* The possible entries after add_entry ended with outcome a: with the      *)
(* upper half of a tree go some of its entries, and only a cached copy     *)
(* still shows them.                                                       *)
Added(a, d, name, ino) ==
  {LET left == (entries \ X)
               \cup (IF a.incache THEN {[e EXCEPT !.disk = FALSE] : e \in X} ELSE {})
   IN  IF a.seen
         THEN left \cup {[dir |-> d, name |-> name, ino |-> ino, disk |-> a.disk,
                          named |-> a.named]}
         ELSE left :
     X \in IF a.halved THEN SUBSET {e \in EntriesOf(d) : e.disk} ELSE {{}}}

(* btree_update_root moves the cached directory to the new root's number.   *)
Recached(dirs, old, new) ==
  IF dirs[old] > 0 /\ new # old
    THEN [dirs EXCEPT ![old] = @ - 1, ![new] = @ + 1]
    ELSE dirs

----
(***************************************************************************)
(* The calls of the VFS.                                                   *)
(***************************************************************************)

Taken(d, name) == \E e \in EntriesOf(d) : e.name = name

\* The VFS asks for a new name only in a directory, where lookup found none.
MayAdd(d, name) == inode[d].mode = "dir" /\ ~Taken(d, name)

\* What unlink and rename can take out without restructuring the tree.
MayRemove(e) == e.disk /\ inode[e.dir].height = 0

\* Mutant: the counter in the root is left alone.
WithoutUncounted(e) == inode

\* The directories after delete_entry has taken e out.
Without(e) == [inode EXCEPT ![e.dir].files = @ - 1]

(* basicbtfs_new_inode, past its two checks on the counters.  A missing    *)
(* inode makes iget fail on inode -1, whose bit put_inode refuses.         *)
NewInodeCall ==
  LET gi == GetFreeInode(imap, NInodes)
      gb == AllocBlock(bmap)
      bm == IF gi.ino = NONE THEN bmap ELSE gb.bm
  IN  IF gi.ino = NONE \/ gb.bno = NONE
        THEN [im |-> PutInode(gi.im, NInodes, gi.ino), bm |-> bm, ino |-> NONE, bno |-> NONE]
        ELSE [im |-> gi.im, bm |-> bm, ino |-> gi.ino, bno |-> gb.bno]

(* The checks basicbtfs_create and new_inode make before they take anything. *)
MayCreate(d, name) ==
  /\ MayAdd(d, name)
  /\ inode[d].files < MaxEntries
  /\ imap.nfree # 0
  /\ bmap.nfree # 0

NoSpaceForInode(d, name) ==
  /\ MayCreate(d, name)
  /\ NewInodeCall.ino = NONE
  /\ imap' = NewInodeCall.im
  /\ bmap' = NewInodeCall.bm
  /\ UNCHANGED <<inode, entries, cached, released, orphans, twice>>

(* The end of basicbtfs_create: enter the new inode r, of content rec, with *)
(* block map bm.  If that fails the block i_bno and the inode go back, but  *)
(* neither a directory's name list nor its place in the cache.             *)
Enter(d, name, r, rec, bm, dirs) ==
  \E a \in AddEntry(bm, inode[d]) :
    /\ entries' \in Added(a, d, name, r.ino)
    /\ IF a.ret = "ok"
         THEN /\ imap' = r.im
              /\ bmap' = a.bm
              /\ inode' = [inode EXCEPT ![r.ino] = rec, ![d] = a.dir]
              /\ orphans' = orphans
         ELSE /\ imap' = PutInode(r.im, NInodes, r.ino)
              /\ bmap' = PutBlocks(a.bm, NBlocks, {rec.bno})
              /\ inode' = [inode EXCEPT ![d] = a.dir]
              /\ orphans' = orphans \cup rec.data
    /\ cached' = Recached(dirs, inode[d].bno, a.dir.bno)
    /\ UNCHANGED <<released, twice>>

(* basicbtfs_create of a regular file: its block becomes the cluster table. *)
CreateFile(d, name) ==
  LET r == NewInodeCall
  IN  /\ MayCreate(d, name)
      /\ r.ino # NONE
      /\ Enter(d, name, r, NewInode("reg", r.bno, {}), r.bm, cached)

(* basicbtfs_create of a directory without a block for its name list: the  *)
(* call returns and keeps the inode and its block.                         *)
MakeDirNoNameList(d, name) ==
  LET r == NewInodeCall
      g == AllocBlock(r.bm)
  IN  /\ MayCreate(d, name)
      /\ r.ino # NONE
      /\ g.bno = NONE
      /\ imap' = r.im
      /\ bmap' = g.bm
      /\ UNCHANGED <<inode, entries, cached, released, orphans, twice>>

\* s_cache_dir_entries
CacheSize == FoldFunction(+, 0, cached)

(* basicbtfs_create of a directory: tree root, name list, and a place in   *)
(* the cache while there is one.                                           *)
MakeDir(d, name) ==
  LET r == NewInodeCall
      g == AllocBlock(r.bm)
      rec == NewInode("dir", r.bno, {g.bno})
  IN  /\ MayCreate(d, name)
      /\ r.ino # NONE
      /\ g.bno # NONE
      /\ Enter(d, name, r, rec, g.bm,
               IF CacheSize < MaxDirs THEN [cached EXCEPT ![r.bno] = @ + 1] ELSE cached)

(* basicbtfs_link: a second name for a regular file. *)
Link(e, d, name) ==
  /\ inode[e.ino].mode = "reg"
  /\ MayAdd(d, name)
  /\ \E a \in AddEntry(bmap, inode[d]) :
       /\ bmap' = a.bm
       /\ inode' = [inode EXCEPT ![d] = a.dir]
       /\ entries' \in Added(a, d, name, e.ino)
       /\ cached' = Recached(cached, inode[d].bno, a.dir.bno)
  /\ UNCHANGED <<imap, released, orphans, twice>>

(* basicbtfs_rename of a regular file to a free name: add, then delete.     *)
(* The result of a failed add_entry is not passed on, but stops the call.   *)
Rename(e, d, name) ==
  /\ inode[e.ino].mode = "reg"
  /\ MayAdd(d, name)
  /\ MayRemove(e)
  /\ inode[d].files < MaxEntries
  /\ \E a \in AddEntry(bmap, inode[d]) :
       /\ d = e.dir => a.dir.height = 0
       /\ bmap' = a.bm
       /\ \E left \in Added(a, d, name, e.ino) :
            IF a.ret = "ok"
              THEN /\ inode' = [[inode EXCEPT ![d] = a.dir] EXCEPT ![e.dir].files = @ - 1]
                   /\ entries' = left \ {e}
              ELSE /\ inode' = [inode EXCEPT ![d] = a.dir]
                   /\ entries' = left
       /\ cached' = Recached(cached, inode[d].bno, a.dir.bno)
  /\ UNCHANGED <<imap, released, orphans, twice>>

(* basicbtfs_file_get_block on the first block behind the last cluster.    *)
GetBlock(i) ==
  LET g == GetFreeBlocks(bmap, NBlocks, ClusterLen)
  IN  /\ inode[i].mode = "reg"
      /\ inode[i].clusters < MaxClusters
      /\ bmap' = g.bm
      /\ inode' = IF g.bno = NONE THEN inode
                  ELSE [inode EXCEPT ![i].data = @ \cup Run(g.bno, ClusterLen),
                                     ![i].clusters = @ + 1,
                                     ![i].put = @ \ Run(g.bno, ClusterLen)]
      /\ UNCHANGED <<imap, entries, cached, released, orphans, twice>>

(* basicbtfs_delete_entry took e out, but the bno of its name was garbage   *)
(* and could not be read: unlink and rmdir stop there.                     *)
RemoveEntryOnly(e) ==
  /\ MayRemove(e)
  /\ ~e.named
  /\ entries' = entries \ {e}
  /\ inode' = Without(e)
  /\ UNCHANGED <<imap, bmap, cached, released, orphans, twice>>

(* basicbtfs_file_free_blocks: the blocks of the clusters, and then block   *)
(* number "bno", a variable the function never sets to anything but 0.     *)
FileFreeBlocks(bm, f) == PutBlocks(PutBlocks(bm, NBlocks, f.data), NBlocks, {0})

(* basicbtfs_unlink of a regular file: whatever its link count, its data    *)
(* blocks go; the inode, its bit and its cluster table stay as they are.   *)
Unlink(e) ==
  /\ inode[e.ino].mode = "reg"
  /\ MayRemove(e)
  /\ entries' = entries \ {e}
  /\ bmap' = FileFreeBlocks(bmap, inode[e.ino])
  /\ inode' = [Without(e) EXCEPT ![e.ino].put = inode[e.ino].data]
  /\ released' = released \cup {e.ino}
  /\ twice' = (twice \/ e.ino \in released)
  /\ UNCHANGED <<imap, cached, orphans>>

\* Mutant: the blocks below the root are forgotten.
FreeDirRootOnly(bm, d) == PutBlocks(bm, NBlocks, {d.bno})

(* nametree_free_namelist_blocks and btree_free_dir. *)
FreeDir(bm, d) == PutBlocks(bm, NBlocks, d.data \cup {d.bno})

(* basicbtfs_rmdir: unlink runs before anything asks whether the directory  *)
(* is empty.                                                               *)
Rmdir(e) ==
  LET d == inode[e.ino]
  IN  /\ d.mode = "dir"
      /\ MayRemove(e)
      /\ entries' = {x \in entries : x # e /\ x.dir # e.ino}
      /\ imap' = PutInode(imap, NInodes, e.ino)
      /\ bmap' = FreeDir(bmap, d)
      /\ inode' = [Without(e) EXCEPT ![e.ino] = NoInode]
      /\ cached' = IF cached[d.bno] > 0 THEN [cached EXCEPT ![d.bno] = @ - 1] ELSE cached
      /\ UNCHANGED <<released, orphans, twice>>

Next ==
  \/ \E d \in Inodes, name \in Names :
       \/ NoSpaceForInode(d, name)
       \/ CreateFile(d, name)
       \/ MakeDirNoNameList(d, name)
       \/ MakeDir(d, name)
       \/ \E e \in entries : Link(e, d, name) \/ Rename(e, d, name)
  \/ \E i \in Inodes : GetBlock(i)
  \/ \E e \in entries : Unlink(e) \/ Rmdir(e) \/ RemoveEntryOnly(e)

Spec == Init /\ [][Next]_vars

----
(***************************************************************************)
(* Properties                                                              *)
(***************************************************************************)

\* The blocks an inode holds as long as unlink has not put its data.
Owned(i) ==
  IF inode[i].mode = "none" \/ i \in released
    THEN {}
    ELSE {inode[i].bno} \cup inode[i].data

(* Blocks an inode leads to are in use in the block map and lie behind the  *)
(* metadata, through every failed call, until some file is put twice.      *)
OwnedMarked ==
  ~twice => \A i \in Inodes : Owned(i) \subseteq bmap.bits \cap DataBlocks

(* No block is led to by two inodes: no file shares a block with another   *)
(* file's data or table or with a directory's tree or name list.           *)
NoSharing ==
  ~twice => \A i, j \in Inodes : i # j => Owned(i) \cap Owned(j) = {}

(* s_nfree_inodes, which the code trusts before it searches the map, is     *)
(* exactly the number of clear bits, after failed calls too: a search for  *)
(* an inode that passed the check never fails.                             *)
InodeCounterExact == imap.nfree = Cardinality(Inodes \ imap.bits)

(* s_nfree_blocks, what statfs reports, is too high from mkfs on by the     *)
(* excess and one, and by one more for every file unlinked (block 0 is     *)
(* put), and wrong by nothing else until a search fails.                   *)
BlockCounterDrift ==
  ~bmap.short /\ ~twice =>
    bmap.nfree = U32(Cardinality((1..(NBlocks - 1)) \ bmap.bits)
                     + Excess + 1 + Cardinality(released))

(* As long as no search failed, the only blocks in use that no inode leads  *)
(* to are the excess of mkfs, those of unlinked files (the cluster table   *)
(* of each, and clusters added through a descriptor that stayed open) and  *)
(* the name lists of directories that add_entry refused.                   *)
OnlyUnlinkedLeak ==
  ~bmap.short /\ ~twice =>
    (bmap.bits \cap DataBlocks) \ UNION {Owned(i) : i \in Inodes}
      = (Meta + 1)..(Meta + Excess) \cup orphans
        \cup UNION {{inode[i].bno} \cup (inode[i].data \ inode[i].put) : i \in released}

(* nr_of_files in the root, which create and rename compare with the limit  *)
(* of a directory and rmdir with 0, is the number of entries in the tree    *)
(* through splits and new roots, until a search fails.                     *)
FilesCounted ==
  ~bmap.short =>
    \A i \in Inodes : inode[i].mode = "dir" =>
      inode[i].files = Cardinality({e \in EntriesOf(i) : e.disk})

(* s_unused_area, where the defragmenter starts to look for scratch space,   *)
(* is meant to be above every block in use.  A run that starts below the    *)
(* mark and ends above it does not raise it, so a block in use may lie at   *)
(* or above the mark, but by less than a cluster, until a search fails.     *)
HighWaterLag == ~bmap.short => \A b \in bmap.bits : b < bmap.unused + ClusterLen - 1

(* What the comment in basicbtfs_unlink promises, "it just resets the       *)
(* inode": a file that still has a name keeps its data blocks in use.      *)
NamedFileKeepsData ==
  \A e \in entries : inode[e.ino].data \subseteq bmap.bits
====
