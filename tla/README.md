# TLA+ models and proofs of BasicBTFS

BasicBTFS (`src/BasicBTFS`) is a Linux kernel file system written for a thesis.
A directory is a B-tree of hashes with a list of name blocks beside it, a
regular file is a table of clusters, two bit maps say which inodes and blocks
are in use, and the trees and names of up to a hundred directories are kept in
memory as well. The repository holds two relatives: `BasicBTFSNC`, the same
code without the copies in memory, and `BasicFATFS`, with allocation tables in
place of trees and clusters.

This directory models the three as far as it says below, checks the models with TLC
and proves with TLAPS who owns which block and what the counters say, on volumes of both
kinds, what a sync leaves on the disk, and that insertion into the B-tree of a directory and
removal from it keep the tree, its names and its blocks. All paths below are relative to
`src/BasicBTFS` unless they say otherwise.

## 1. Inventory

| component | source | state | operations | what makes it correct |
|---|---|---|---|---|
| free maps | `bitmap.h` | `s_ifree_bitmap`, `s_bfree_bitmap`, `s_nfree_inodes`, `s_nfree_blocks`, `s_unused_area` | get and put of inodes and runs of blocks | no bit is given twice; the counters agree with the maps; the mark is above what is in use |
| inode operations | `inode.c`, `init.h`, `destroy.h` | the VFS inode, `i_bno`, the link count | create, mkdir, link, unlink, rmdir, rename, lookup | every block an inode leads to is marked and nobody else's; what fails is undone; a file lives as long as it has a name |
| directory entries | `dir.c` | an entry (hash, ino, name_bno, block_index) | search, add, delete, update, free, iterate | a name is there after create and gone after unlink |
| directory B-tree | `btree.h` | nodes of up to 159 entries; in the root the number of files and the first name block | lookup, insertion with splits, removal with borrowing and merging | it is a search tree; it implements a set of names; its nodes are marked blocks |
| name lists | `nametree.h` | chain of name blocks | insert, delete, iterate | an entry leads to its own name; the chain's pointers agree |
| file clusters | `file.c` | table of (start, length) | map a block, write, free | one file block is one disk block |
| directory cache | `cache.h`, `btreecache.h` | `dir_cache_list`: a B-tree and name blocks per root number | the tree operations once more | it holds the names the tree on disk holds |
| mkfs | `mkfs.c` | the image | write superblock, maps, inodes, filemap | the maps mark exactly the metadata and the root |
| mount and sync | `super.c`, `io.h`, `fs.c` | `basicbtfs_sb_info` | fill_super, sync_fs, write_inode, statfs | what is mounted is what was synced |
| defragmentation | `defrag.h`, `ioctl.c`, `cmdbtfs.c` | order of blocks on disk | move tree nodes, name blocks, tables and file blocks | nothing but places changes |
| fsck | `fsck.c` | none | a stub | - |
| BasicBTFSNC | `src/BasicBTFSNC` | as above without the cache | as above | as above |
| BasicFATFS | `src/BasicFATFS` | directory and block allocation tables | as above | as above |

How they interact: the VFS calls the inode operations with the lock of the
directories involved. They call the directory entries, which call the tree on
disk, the name list and the cached tree, in this order; all of these, and the
cluster code, take blocks from the maps. The maps have no lock of their own, so
the calls of different directories and files meet there. The cache is found by
the block number of a directory's root, which changes when the tree grows or
shrinks.

The hard behaviours: a block that is missing at any of the places where one call
takes several; results of calls that are overwritten or dropped; link counts
against data that goes at the first unlink; what lies behind the last key of a
node; merging; two copies of a directory that follow different rules; several
directories at work on the same maps; a sync or a crash between any of these.
`PROJECT.json` lists them as hazards with their lines.

## 2. Modules

| module | models |
|---|---|
| `Bitmap` | `bitmap.h` as operators on a map: search, set, clear, with 32-bit counters and the -1 of a failed search |
| `Volume` | the VFS calls on a whole volume, one action per call, and which block each inode holds |
| `VolumeProofs` | the theorems about `Volume` that concern who holds which block |
| `VolumeCountProofs` | the theorems about `Volume` that concern counts: of free blocks, of files in a directory, and of blocks that nobody holds |
| `BTree` | the B-tree of one directory on disk, one action per level of the recursion |
| `BTreeProofs` | what the walks of `BTree` find in a tree of the right shape, and the theorems about insertion |
| `BTreeShapeProofs` | lemmas about the steps of removal in `BTree`: what they do to a tree |
| `BTreeRemovalProofs` | the theorems about removal in `BTree` |
| `Directory` | a directory as an abstract set of names, which insertion into a `BTree` implements |
| `Mount` | what is in memory and what on the disk: mkfs, mounts, sync, unmount and power failure, with calls at work at once |
| `MountProofs` | the theorems about `Mount` |
| `BitmapProofs` | lemmas about the operators of `Bitmap`, and about 32-bit counters, that the proofs about volumes use |
| `Defrag` | the defragmenter, one action per block it places |
| `FatVolume` | a BasicFATFS volume, one action per call |
| `FatVolumeProofs` | the theorems about `FatVolume` |
| `MCVolume`, `MCBTree`, `MCMount`, `MCDefrag`, `MCFatVolume` | instances for TLC |

`Volume`, `Mount`, `Defrag` and `FatVolume` all work on the maps of `Bitmap`.
`Volume` is about whole calls and what they leave behind when blocks are missing,
`Mount` about the steps between calls, memory and disk when there is room,
`BTree` about the inside of a directory, and `Defrag` starts from disks such as
the calls leave them, with the stale references that `BTree`'s splits and the
name lists produce.

### Volume and Bitmap

`Volume` looks at a volume as an owner of blocks. An inode is a record of its
`i_bno` and the set of other blocks it leads to. Directories are sets of
entries. The actions are `CreateFile`, `MakeDir`, `Link`, `Rename`, `GetBlock`
(a write that extends a file), `Unlink` and `Rmdir`, and, for calls that end
early, `NoSpaceForInode`, `MakeDirNoNameList` and `RemoveEntryOnly`.

A call takes blocks one by one in the order of the code, and each may be
missing. `NameInsert`, `InsertNonFull` and `InsertAtFullRoot` list the ways
`add_entry` may end: a name that was not stored, whose result is dropped; a
split that fails at the first level, which is reported, or deeper, which is not;
a root that was halved and whose upper half is then cut off. Which of the nodes
on the way are full depends on the keys and is left open (the `BTree` module has
the keys). `AddOutcome` shows how the cached tree hides these failures.

The initial state is a volume after mkfs and its first mount. `write_bfree_blocks`
divides a number of bits by 4096, so that a volume under about 1.6 GB marks too
little and a larger one too much; the latter is modelled, with `Excess` marked
data blocks. It is on purpose that a volume with too few marks is not looked at:
there the first allocation hands out the metadata, and nothing about ownership
holds.

One call runs at a time in `Volume`. That is what the kernel does for calls on
one directory, and less than it does for calls on several; what may happen
between two of those is in `Mount`.

Left out of `Volume`: I/O errors and failing `kmalloc`; link counts and time
stamps; removal from trees of more than one node (`BTree` has it, and the run
`btree_merge` shows that it ruins the tree); `rename` of directories; `rename`
onto a taken name, which `update_entry` refuses before it changes anything;
symbolic links; mapping of file blocks in the middle of a file; what
`nametree_delete_name` overwrites when the entry's `name_bno` is garbage and happens to be
a readable block (bytes of blocks are not modelled).

### BTree

The state is the nodes with all their slots, those behind the last key included,
because the lookup on disk compares with one of them. Insertion is `RaiseRoot`,
`HalveRoot`, `WalkDown`, `SplitAndWalkDown`, `PutInLeaf`, and `NoRoom` and
`NoRoomBelow` for a missing block; removal is `WalkDownToDelete`,
`TakeFromLeaf`, `PutPredecessor`, `PutSuccessor`, `StealFromNext`, `Merge`,
`MergeInner`, `MergeLast` and `NotInLeaf`. `OtherTakes` and `OtherPuts` are the
rest of the volume, which may act between any two levels.
What the code computes by recursion, the nodes below a node, the first and last
leaf and the path of a lookup, is what a `Walk` of a step function meets.
`steal_from_previous` has no action: `fill` calls it only when the child that has
too few keys has enough of them.

The code damages trees in known ways: a root that has been halved is cut off
(`btree.h:394`), an entry is dropped (`btree.h:301`), `merge` puts the wrong
block (`btree.h:618`), a walk reaches block 0 (`btree.h:885`). The history
variable `harm` records which, no call begins after harm has been done, and the
properties say what holds while it is empty. So they say that there is no *other*
way to damage a tree. In two places the code does not come back at all
(`MergeInner`: a loop whose condition never changes; `MergeLast` and `NotInLeaf`:
a recursion on block 0); there the call becomes "lost" and the behaviour ends.

`Directory` is the set of names, with a step that adds the name asked for.
`ImplementsDirectory` maps the set to what lookup finds at this moment
(`FoundNow`), so it says that while nodes are split no name but the new one
appears, that none disappears, and that the new one appears in the last step.

### Mount

The state is `mem` (the superblock's counter, both maps, and `i_bno` of the inodes
in memory), `buf` (the buffers of the root's node and of the cluster tables),
`disk`, which buffers are `dirty`, and the call in progress under each lock:
creations and removals hold that of the root directory, writes that of their file. The block map has no lock, and `bitmap_set` and `bitmap_clear` work on it word by
word: read, change, write back. So `get_free_blocks` is `BeginCreate` or `BeginGrow`
(search), for each word of the area `ReadToSet` and `SetWord`, and `CountArea`
(`s_nfree_blocks -= len`, of which one of two changes at once may get lost);
`FinishCreate` and `FinishGrow` do the rest of the call. A removal is `BeginUnlink`, and for each
block that it puts `ReadToClear`, `ClearBit` and `CountPut`. Between any two of these steps
another call may do one of its own. A call carries in its `job` the word it has read (`saw`) and
what it has marked, or not yet cleared (`has`). A sync
is `BeginSync` (the inodes), `FlushSuperblock`, `FlushInodeMap`, `FlushBlockMap`
and `EndSync` (the buffers), with calls between any two of them, and the kernel
may write any dirty buffer or inode at any time (`WriteBuffer`, `WriteInode`).
`Unmount` is a whole sync with nobody at work, `Crash` a power failure.

The initial state is what mkfs writes to an empty image (`Formatted`;
`MkfsMarked` is the arithmetic of `write_bfree_blocks`). `FirstMount` takes a
name block for the root. A later mount empties the root's node again, so that the
files of the mount before are out of reach while their blocks stay marked; it is
`MountAgain` in BasicBTFSNC, and in BasicBTFS `MountOops`, because line 402 of `super.c`
uses a buffer that is only read on the other path. Both file systems have the
same name and magic number, so the one may mount what the other made, and the
model has both actions.

`harm` records what makes the rest meaningless: two searches that find
overlapping areas before either has set its bits (`bitmap.h:8`), a word that is written back
although another call has changed it since it was read (`bitmap.h:14` and `98`: two sets, or a set and
a clear, of different blocks, of which the first is undone), the
uninitialised number that BasicBTFSNC's `file_free_blocks` puts (`Garbage` says
which numbers it may be), and power that fails after the root's node and before
the first block map was written, so that the node's name block is not in the
map. TLC reaches all four, and each of them breaks `OneOwner` when it is not
excluded; the property says that nothing else does. `get_block` keeps a
reference to the buffer of the table, so the table stays in memory until unmount, but
it does not mark the buffer dirty. `late` records clusters put into a table
that had been written before; after a sync they are the only thing the disk
lacks (`SyncedIsOnDisk`), and they are lost at unmount. A table that is put and given
to a new file is written again, so `FinishCreate` forgets what was late in it.

### Defrag

The `DEFRAG` ioctl goes through the directories from the root and places every
block at the next `offset`: the nodes of a tree, the blocks of names, then what the
entries lead to. `todo` is what is left of the recursion. A block lies there
already (`NodeStays`, `NamesStay`, `TableStays`, `BlockStays`), or the place is free
(`...ToFree`), or what lies there has to go to the unused area first
(`...ToTaken`, with `Displaced` for the five kinds of block). To find the
references to a block that moves, the code follows references back: `parent`,
`prev`, a table's inode, and the file map. The blocks, with these references,
are the state. `NameUnknown` is the ioctl giving up because `update_namelist_info` does not
find a name in the tree.

`disk.blk` is what the buffers hold. The code does not mark every buffer it changes: not a block
of names that is closed up or filled from the next one where it lies, nor that next one
(`defrag.h:502-585`); not the two copies made when a block of names takes a place that is in use
(`634-663`; the other branch marks its copy at `607`); not the table in which a moved cluster gets
its new start (`458`). `disk.marked` therefore has every block as it was when it was last marked
dirty, which is the least that gets to the disk. Most of the unmarked buffers stay in memory, as the
code never gives its references to them back: the next block of names, the two copies, and
the table (`disk.kept`). The first block of names of a directory is given back. `DropBuffer` is
memory running short: such a block goes back to what was marked, and if names had been pulled into
it they are gone, which `harm` records. It does so only while the ioctl runs; what a later mount
finds is the subject of `WrittenAtEnd`: all but blocks of names is as in the buffers. Blocks of names are
not: the last of a directory that took a place in use is on the disk as whatever lay there before.

`harm` again records the damage the code does, at the lines the hazards name: children
exchanged in their parent, stale `parent` and `prev` references followed, copies
in memory that miss what was moved out of the way (two kinds), pulled names that are dropped with
their buffer, a loop that does not end, a
cluster of which half was moved when space ran out, and an offset at the end
of the disk (a file with several names is placed once for each, and leaves
holes). A stale reference counts as harm only on disks that started with one. All
nine happen. `NothingLost` and its companions say what the buffers hold at every step
but for these, `CompactAtEnd` and `WrittenAtEnd` what was the purpose of it all. Behind four of them
(`Astray`: the two kinds of stale reference and the two kinds of stale copy) references may lead to blocks of another
type, which the code reads as what they are not; the model stops there.

The ioctl answers `-ENOTTY` in every case (`ioctl.c:33`), so how it ended is not
visible to its caller; the model keeps it in `status`.

### FatVolume

A BasicFATFS directory is an allocation table of blocks, and entries in these up to
the first empty slot. `disk` is the tables and entries, including what was left
behind in free blocks; `files` is what the dentry cache of the VFS knows. The
actions are `Create`, `CreateWithoutInode`, `CreateWithoutBlock`, `Link`,
`Unlink`, `Rmdir`, `Rename`, `RenameOnto`, `GetBlock` and `FullDir`, with the
failures of `add_entry` inside them; `DeleteEntry` closes gaps across blocks as
`io.h` does. `Listed` is `iterate`, read in parts.

The recorded harms are rename onto an existing name (its file's blocks and count
stay), the removal of another name of the same inode, rmdir of a directory that
is not empty, `add_entry` putting an inode that has other names, an index behind
the end of the table, and calls whose answer is not what they did. The run ends
behind each of them, and the properties say what holds while `harm` is empty.
`CountersDrift` says by how much each counter is off: exactly for the blocks, and up
to the number of inodes put twice for the inodes, as long as the sum fits in a word.

## 3. Runs

| run | module, cfg | what it shows |
|---|---|---|
| `volume` | `MCVolume`, `MCVolume.cfg` | All sequences of calls on nine blocks and three inodes, through the point where space runs out. Blocks held by inodes are marked and not shared until a file is put twice; the inode counter is exact; the block counter is off by a known amount; nothing leaks but what is listed; the number of files in the root is right while no search failed; blocks in use lie less than a cluster above the mark. |
| `volume_deep` | `MCVolume`, `MCVolumeDeep.cfg` | The same calls with room for trees of three levels, so that each of the failures inside an insertion happens, and three names, so that `link` passes the limit that `create` keeps. |
| `volume_links` | `MCVolume`, `MCVolumeLinks.cfg` | Violation of `NamedFileKeepsData`: `unlink` puts the data of a file that has another name. |
| `btree_insert` | `MCBTree`, `MCBTree.cfg` | Every order of inserting up to nine names: a search tree of the right shape that hides no name at any moment and implements `Directory`. |
| `btree_full` | `MCBTree`, `MCBTreeFull.cfg` | Insertion while the volume fills up and another directory takes and puts blocks. Every failure of a split happens. The names found are the ones created, and every call ends. |
| `btree_delete` | `MCBTree`, `MCBTreeDelete.cfg` | Up to five removals from trees of up to ten names and three levels. Removals that do no recorded harm keep shape, names and count. |
| `btree_stale` | `MCBTree`, `MCBTreeStale.cfg` | Violation of `RemovedIsGone`: a removed name that was the last of its leaf is still found. |
| `btree_merge` | `MCBTree`, `MCBTreeMerge.cfg` | Violation of `CreatedIsThere`: removing one name makes others disappear. |
| `mount` | `MCMount`, `MCMount.cfg` | Two mounts, up to three calls at work at once and four in all, the map read and written a word at a time, a sync in its steps and a power failure at any step. Every block in use has one owner but for the four recorded harms, and what a sync left on the disk is what is in memory but for the clusters recorded in `late`. |
| `defrag` | `MCDefrag`, `MCDefrag.cfg` | 3,037 small disks defragmented. At every step entries, names and data in the buffers are what they were, also when an unmarked change without a name in it is dropped, the maps mark what is in use, and the file map tells the owner of every block; at the end the disk is compact and in order and all but blocks of names has been marked for writing; and it ends. |
| `defrag_loss` | `MCDefrag`, `MCDefragLoss.cfg` | Violation of `TreesKept`: a node placed where a later sibling lies ends up exchanged with it in their parent, and the names in both are not found any more. |
| `fat` | `MCFatVolume`, `MCFatVolume.cfg` | All sequences of calls on a BasicFATFS volume of seven blocks. Lookup and listing find what was created, blocks have one owner, free blocks are clear, link counts and counters are off by known amounts. |

`CHECK_DEADLOCK FALSE` is in every configuration because the system may stop: a
bounded volume is full and no call is left, every name has been created, or a
call is lost, the defragmentation is over, or a mounted volume has used up its
calls and mounts.

### Bounds

- `Word` is 32 or 64 in place of 2^32. It is larger than all other numbers of a run, as
  in the code, and counters wrap when failed searches lower them below zero.
- `NBlocks`: nine blocks are two of metadata, the root, its name list, one in
  excess, and four to fight for: enough for a directory, a file with a cluster
  of two, and for every combination of missing blocks. Eleven leave room for a
  tree of three levels and a block less than it needs.
- `ClusterLen` 2 makes runs that fit only in some places and that straddle the mark.
- `MaxDirs` 1 makes one directory cached and others not; `MaxEntries` 2 lets the
  limit of a directory be met, with a third name passed by `link`.
- `MaxDeficit` 2: failed searches lower `s_nfree_blocks` without end; two is enough
  for a wrap and for a search that fails after another one.
- `T` is 2, the least degree a B-tree has. Nine keys are needed before an inner root is full
  and split. On seven blocks the eleventh key finds no block two levels below the
  root. `MaxGaps` limits the orders of insertion: 9 (no limit) for `btree_insert`,
  1 for `btree_full`, 0 (ascending) for `btree_delete`, where the removals make
  the variety.
- `MaxRemovals` 5 is enough for three-level trees that borrow, merge and meet each
  of the ways to be lost (all actions fire).
- `MaxOther` 1: one block that comes and goes makes each single search fail or not.

- `mount`: `Meta` 3, `BlockSize` 2 and `MapBits` 6 keep the proportions in which
  `write_bfree_blocks` marks too much (six bits for four blocks). Fifteen blocks
  give room to four calls and a cluster of two each, so nothing is refused for want of space.
  `LongBits` 4 makes four words of the map, so that a cluster lies in one word or in two, and
  that one word has blocks of several calls.
  Two files, one cluster each, are what it takes for two searches at once, for a
  write between a removal and a sync, and for a table that has been written before it changes.
  (mkfs makes as many inodes as blocks; three are enough for the two files.)
  The second mount is for what the first has left: it makes one call less and is not
  synced. Nor does a sync go on beside the last of the four calls of a mount: four calls are for
  what they do to each other on the map. What follows a harm is not looked at (`Bounded`). `Garbage` is one block of metadata.
- `defrag`: every placement of a file of two clusters (five pieces on seven
  blocks), of two files, of a directory in the root, of a tree of two levels with
  three files and of a chain of three name blocks with dead slots; a tree of three levels
  with a stale parent, with any two of its blocks exchanged. Two free blocks more than the seven
  or nine used leave room to move things, and not always enough. `C`, the names a block
  holds, is 7; the chains are full of dead slots so that pulling happens. What lies behind a damage is not
  explored where its references may lead anywhere (`Readable`, which is `~Astray`).
- `fat`: two entries a block and two blocks a directory, so that a directory with five
  names asks for more than there is; two inodes beside the root; three failed searches and
  three removed subdirectories, after which rmdir answers wrongly.

Names of a volume are symmetric: nothing orders them. Keys of a tree are not.

### Fairness

`FairInsertSpec` assumes weak fairness of the steps of the call in progress: the
kernel runs the thread that made the call, which needs no lock it does not have.
Nothing is assumed of the rest of the volume, which may take and put the last
block for ever, or stop. `CallEnds` needs no more because a call that finds no
block does not wait for one.

`Defrag` assumes weak fairness of `Step`, the next step of the ioctl: the process that made it
does all of the work and waits for nothing. Nothing is assumed of memory, which may run short or
not. `Terminates` then is a claim about
the recursion and its loops: that no walk meets what it has already placed again
and again. It excepts two things, and the formula names both: the state in which the loop that pulls names does
not end, and an ioctl whose references have gone astray (`Astray`, four of the nine harms), of
which nothing is claimed and behind which the run does not look. The other harms are no
excuse: siblings that have been exchanged, names that have been dropped, a cluster half moved and the end of the
disk are followed by an end of the ioctl.

## 4. What is proved

`VolumeProofs` proves, for every number of blocks, inodes, names and all the
other constants that satisfy `WordAssumption` and `VolumeAssumption`:

| theorem | states |
|---|---|
| `TypeCorrect` | `TypeOK`: no -1 gets anywhere but into counters |
| `OwnedBlocksAreMarked` | `OwnedMarked` |
| `BlocksAreNotShared` | `NoSharing` |
| `MarkLagsLessThanACluster` | `HighWaterLag` |
| `InodeCounterIsExact` | `InodeCounterExact` |

The assumptions are that there is an inode, that clusters are not empty, that
metadata, root and name list fit on the volume, and that its numbers fit
in a word.

None of the three block properties is inductive. `IInv` adds to them:
`MetaMarked` (the metadata stays marked, but for block 0 that unlink puts; it
keeps new blocks behind the metadata, since searches start at bit 1),
`InodesSane` (an inode in use has its bit set, so that a new inode replaces
none, and all it ever held lies behind the metadata, so that putting it leaves
the metadata marked), and
`ReleasedRegular` (only regular files are in `released`, so that rmdir puts only
blocks that were owned). The steps fall into three kinds. `TakingStep` says that
a call that takes clear bits and gives them to one inode keeps the invariant;
`PuttingStep` says so of a call that puts blocks together with their owner's
claim; `NewInodeSound` describes what `new_inode` returns. Lemmas about the
operators of `Bitmap` carry the arithmetic (a run found is clear, its bits are
set, the mark lies above it or less than a cluster below its end), and lemmas
about `NameInsert`, `InsertNonFull`, `InsertAtFullRoot` and `AddEntry` say that
each of their outcomes takes only blocks that were free. `InodeCounterExact`
follows from type correctness and the cardinality of sets that differ in one
element; it does not need `IInv`.

`MountProofs` proves, for every size of volume and any number of mounts and calls,
from `WordAssumption` and `MountAssumption`:

| theorem | states |
|---|---|
| `MountTypeCorrect` | `TypeOK`: no area found, bit or block number lies outside the volume, in memory or on the disk |
| `EveryBlockHasOneOwner` | `OneOwner`, through calls at work at once on words of any width, syncs and power failures, unless one of the four harms is recorded |
| `MkfsIsNeverExact` | with blocks of 4096 bytes and maps of 32768 bits a block, there is no number of metadata blocks for which mkfs marks exactly these |

The assumptions say that metadata and root fit on the volume, that a map block has
at least two bits for each byte of a block (it has eight), and that there is enough metadata
for `write_bfree_blocks` to mark all of it (`Meta + 1 >= 2 * BlockSize`:
8191 blocks and more, volumes over about 1.6 GB).

`TypeOK` needs `JobsSane` (a call in progress has found an area of the length
it asked for, on the volume and not at block 0, and has marked a part of it, all of it when it counts; a
removal puts a block that is left to put, or block 0). `OneOwner` needs more, `MInv`:
`FoundClear` (what a call has found and not yet marked, word by word, is still clear, and no other
call that is looking or marking has found it), `NoBlockZero` (nobody owns block 0, which unlink puts) and
`DiskSane` (the map on the disk has the root's node, and the name block the node on disk
leads to, once a map has been written or the volume is down: it is what a mount
after a crash starts from). `FoundClear` is where the missing lock is seen: it is
inductive only because overlapping searches are recorded in `harm`, and words that undo what others did
(`WrittenBack`: as long as that is not recorded, writing back a word changes no bit but the call's own). `DiskSane`
is what needs `MkfsMarksMetadata`, the lemma about mkfs, in the initial state. The proof has
one lemma per kind of step (`OwnedFound`, `OwnedTaking`, `OwnedPutting`, `OwnedGiven`,
`OwnedFiles`, `OwnedMounts`, `DiskStep`).

`SyncIsComplete` proves `SyncedIsOnDisk`: after a sync, and until the next call or write,
what a mount would read is what is in memory but for the clusters in `late`. Its
invariant `SInv` adds to `MInv` that a file is never given the root's inode, what every
buffer that is not dirty has on the disk (`BuffersWritten`), and what a sync in
progress has written by each of its steps and which calls since then have changed it again
(`SyncWrites`). The property is stated while `harm` is empty, because a block that two files hold
is two buffers' contents.

`VolumeCountProofs` proves three more properties of `Volume` from the assumptions of `VolumeProofs`:

| theorem | states |
|---|---|
| `FilesAreCounted` | `FilesCounted`: until a search for a block fails, the number of files in the root's node of a directory is that of its entries on disk |
| `BlockDriftIsKnown` | `BlockCounterDrift`: the block counter is too high by the blocks mkfs counts wrongly and by one for every inode put by `unlink` |
| `LeaksAreKnown` | `OnlyUnlinkedLeak`: a marked block that no inode leads to is one of mkfs's, one cut off by a failed call, or one left behind by `unlink` |

`FileInv` adds to the first that the directory of an entry is one (`EntriesInDirs`).
`BlockInv` has the other two together, since a counter that is not exact is seen only
through the set of blocks behind it: the free blocks are counted with an error of
`Excess + 1 + Cardinality(released)`, a table is no cluster of its own file (so that putting it
twice is visible), and the marked blocks nobody leads to are exactly those listed. Both hold until a search
fails (`short`) or a block is put twice (`twice`), which is when the code stops counting.

`FatVolumeProofs` proves every property that the run `fat` checks, for every
number of blocks, inodes and names, tables of any length and blocks of any number of entries:

| theorem | states |
|---|---|
| `VolumeTyped` | `TypeOK` while `harm` is empty: no number in a table, an entry or an inode lies outside the volume. What lies behind a damage is not bounded, and the run ends there |
| `NoBlockSharedOrLost` | `BlocksAccounted`: inodes share no block, and the marked blocks are theirs, mkfs's and those rmdir forgot |
| `PutBlocksAreClear` | `FreeBlocksAreClear`: no free block has a table or entries left in it |
| `LookupIsExact` | `NamesFound`: a lookup finds the inode of a name that was created, and no other |
| `ListingsAreWhole` | `ListedOnce`: a listing read in two parts names every entry once |
| `LinksAreCounted` | `LinksCounted`: the link count of a file is the number of its names, that of a directory is off by the subdirectories removed |
| `DriftIsKnown` | `CountersDrift`: the block counter is off by a known amount, the inode counter by at most the inodes put twice |

The invariant is `Whole`, while `harm` is empty. It adds that the metadata is marked, that an inode
in use is marked and has a block (`NodesSane`), that a name is in one place and a
directory other than the root has one name (`FilesSane`: what makes rmdir and unlink put
what nobody else has), that lost blocks belong to nobody (`LostApart`), and
`DirsSound`: the entries of a directory fill a beginning of its blocks without a gap, block
by block, and are those of its names, each once. `DirsSound` is the heart of it. Lookup and
listing stop at the first empty slot, `add_entry` uses that slot, and `DeleteEntry` moves
the last entry into the gap, across blocks: the lemmas about `Filled` and `DirSound` say
that each of the two leaves a gapless directory with one name more or less.
`FreeBlocksAreClear` is part of the induction as well as its result, because a
new block of a directory is not cleared by the code that takes it.

`BTreeProofs` proves, for every degree `T`, every set of blocks and of keys and any use
of blocks by the rest of the volume, from `BTreeAssumption` alone:

| theorem | states, for every behaviour of `InsertSpec` |
|---|---|
| `InsertionTyped` | `TypeOK`: nothing is written behind the slots of a node, and the blocks other directories hold stay marked |
| `InsertionBalances` | `Balanced`: keys ascend, nodes are half full, leaves are equally deep |
| `InsertionOwns` | `TreeOwnsItsBlocks`: every node is a marked block, not another's, and no node has two parents |
| `InsertionHidesNothing` | `NamesStay`: between any two levels of a split, every name but the one in hand is in the tree and a lookup finds it |
| `LookupIsExact` | `FoundExactly`: the lookup on disk, with its comparison behind the last key, finds the names and no others |
| `CountIsExact` | `CountMoves`: the number of files in the root is the number of names, whichever node is the root |
| `InsertionLeaksNothing` | while a block is free, no call does harm and no block is lost (`NothingLeaks`, which no run checks: it is proved) |
| `InsertionImplementsDirectory` | a behaviour that does no harm implements `Directory` |

The properties speak of what walks find, and no walk can be reasoned about by
induction over trees here. So the invariant `GInv` says that there are a set `N` of blocks, for
each a `span` (the set of keys that may be below it) and a `level`, such that `Shape` holds:
the keys of a node of `N` ascend and lie in its span, its children
are in `N`, one level down, with the spans between its keys, spans on one level are apart, and every
node but the top has keys enough and a parent. All of that is said of one node and its children, and a split changes three nodes. What walks find follows
from it: a set of nodes for which a walk goes wrong has one of least level, and there is none
(`WalkIs`, `TreeIs`); a walk of as many steps as there are blocks reaches the leaves, because there is a node on every level
(`TreesAreLow`). All this is proved of `Frame`, which says of the keys of a node only that they ascend and
separate the spans below, and which therefore also holds while a removal has a key in two
places. Three more parts are needed (`Growing` has the last two of them):

- `Stale`: what slots behind the last key still hold is no key of the node's span that is not
  in the tree. Without it the lookup might find a name that is not there
  (`btree.h:70`); splits and insertion keep it, and removal does not, which is the finding below.
- `Content`: the keys of the nodes of `N` are the names. Each of the three nodes of a split is treated
  alone (`UpperSound`, `LowerSound`, `ParentSound`), then the others (`OthersSound`), and the four are put
  together (`SplitShape`, `SplitStale`, `SplitContent`).
- `CallSane`: a call in progress is at a node with room, in whose span its key lies, and a
  root that was raised has one child. So a split always finds room in the parent, and
  the key arrives where a lookup will look for it.

The last two theorems have temporal hypotheses. While no block is free a split fails half-way and blocks
are lost, as `harm` records, and this is not to be proved away. The refinement is proved step by step:
`DirectoryStep` says that a step that keeps the invariant is either a stutter of `Directory` or the
step that adds the name, and `FoundNow = names` ties what lookup finds to the abstract set.

`BTreeRemovalProofs` proves, under the same assumption, what the run `btree_delete` checks of every
behaviour of `Spec`, in which removals and insertions follow each other:

| theorem | states |
|---|---|
| `RemovalTyped` | `TypeOK`, after harm and in a lost call too |
| `RemovalBalances` | `Balanced` between any two levels of a call, as long as no harm is recorded |
| `RemovalOwns` | `TreeOwnsItsBlocks`: a merge without recorded harm puts the one block that has just lost its pointer |
| `RemovalHidesNothing` | `NamesStay`: no name but the one in hand is ever out of the reach of lookup |
| `RemovalCounts` | `CountMoves` |

`Balanced` and the others are no invariants of a single step: when the code finds the key in an inner
node it writes the neighbouring key over it and goes down to remove that one, so for a while a key is
in two nodes and one node does not hold its keys below the right parent. The invariant `RInv` says that one of
three things is the case:

- `Growing`: no removal is under way, and what holds during insertions holds, without `Stale`, which
  removal breaks.
- `Removing`: there are nodes `o` that have the right `Shape` and hold exactly the names, the nodes as
  they would be had the key not given way. Either `node` is `o` and the key looked for is the name, or
  they differ in one key of one node above the one at hand (`Moved`): there `o` has the name and `node` its
  neighbour in the order, the key now looked for, which only leaves of `o` hold (`Yields`). The key lies in the span of the
  node at hand, and that node has one key more than it must or is the root.
- `Spoilt`: harm is recorded or the call is lost. Types are kept, and the root has a marked block of its own, also
  if a call that merged and put the wrong block ends by letting the root hand over.

A step is therefore proved for `o`, which is a tree, and carried over to `node` (`FollowerExists`,
`RemovingNext`). When the neighbour's key is taken from its leaf the two agree again, because the tree then
holds the names without the removed one (`TakenShape`). `RInvImplies` reads the five properties off `RInv`: a lookup
of another name succeeds in `node`, because its spans can be cut anew around the neighbour's key without
another name changing sides (`Respan`): no key of a tree lies between two neighbours. Blocks and balance need no
more than `Frame`.

What the steps do to a tree is in `BTreeShapeProofs`, as lemmas about nodes without any state. The key found last
on the way down the left child is the predecessor, the one found first on the right the successor, whatever
the depth (`EndIs`, `Neighbour`). `RespanShape`: once the neighbour is gone from its leaf, it may stand where the
name stood. `TakeShape`, `StealShape` and `MergeShape` give the spans after a key is taken from a leaf, after
one is borrowed through the parent, and after two leaves became one; each treats the changed nodes
one by one and shows that no key is lost or doubled. They show where `merge` is right: only the
last two children, where the block it puts is that of the emptied leaf (`PutIsAChild`).

Only model-checked: `Defrag`, because what a disk holds is defined there by recursion over trees, chains
and clusters at once, and the invariant would have to say of every reference back when it may be stale.
Liveness under fairness (`CallEnds`, `Terminates`) is out of the prover's reach. `FoundExactly` and the refinement of
`Directory` are theorems about insertion and do not hold with removals: that is the second finding.

## 5. Findings

1. `inode.c:353`: `unlink` puts a regular file's blocks whatever its link count
   (`volume_links`).
2. `btree.h:70`: `btree_node_lookup` compares with the slot behind the last key;
   a removed name may still be found, and cannot be created again (`btree_stale`).
3. `btree.h:618`: `merge` puts the block of the sibling after the merged one, and
   with it that leaf's names (`btree_merge`).

4. `defrag.h:251`: when a node is placed where its sibling lies, the parent refers
   to that place twice for a moment, and the search for the reference of the one
   that makes way replaces that of the other. The two are exchanged
   in the parent and their names are not found any more (`defrag_loss`); the ioctl ends when it
   comes to the directory's names.

The hazards in `PROJECT.json` list more that the models show on the way and record in
`harm`: calls at work at once undo each other's bits in a word of the block map; the second mount of a BasicBTFS volume ends in an oops (`super.c:402`),
that of a BasicBTFSNC volume starts with an empty root; the defragmenter follows
references that splits and new name blocks leave stale, and changes blocks of names without marking
them, so that what a mount finds afterwards need not be what was there; in BasicFATFS, rename onto a
name loses a file's blocks, and of two names of a file in one directory
the wrong one may go.

## 6. Not modelled

- The cached trees (`btreecache.h`, most of `cache.h`). Their removal walks in a
  circle from an inner node (`btreecache.h:260`) and uses what it has
  freed (`btreecache.h:434`), so there is no state behind it to say anything about. What
  their insertion does to the result of `add_entry` is in `Volume`.
- Where in a block of names an entry believes its name to be
  (`block_index`, `btree_node_update`, `update_namelist_info`), and bytes within blocks in
  general. The defragmenter rewrites these places wrongly (`defrag.h:680`), and takes a data block
  whose first word is the number of another type for such a block (`defrag.h:847`).
- Files with holes, reading and writing of data through the page cache, I/O errors, failing
  `kmalloc`, symbolic links, time stamps, owners and modes, `statfs`, and what calls
  answer where nothing on the volume depends on it.
- Calls at work while the defragmenter runs (`ioctl.c:28` takes no lock), a power failure in the middle
  of it, and changes that were pending when it began. Of a buffer that was changed after it was marked, the model has
  what was marked as the least that is written; the kernel may have written later changes as well.
- What a node holds behind its last key in `Defrag` (a name may be found there, as in the second finding).
- Volumes under about 1.6 GB: mkfs marks too little of the metadata there, the first
  allocation hands it out, and nothing about ownership holds.
- The pass of sync that does not wait, `s_unused_area` on the disk, words of the inode map (its calls
  hold the lock of the one directory), and a lack of space in `Mount`; sync and later mounts of BasicFATFS.
- `add_entry` of BasicBTFSNC, which lacks the calls of the cache that change its results in
  BasicBTFS. Its maps, tree and defragmenter are the same text.
- `fsck.c` (a stub), the scripts and `Hello`.

## 7. What could come next

- The step from a found area to a lock: `Mount` with a lock on the maps, and the proof that
  "same area" and "word undone" are then never recorded.
- `TypeOK` and the counting part of `MarkedExactly` of `Defrag` as theorems.
