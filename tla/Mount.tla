---- MODULE Mount ----
(***************************************************************************)
(* What is in memory and what is on the disk: mkfs, mount, the sync of     *)
(* super.c, unmount and power failure, while files are created, written    *)
(* and removed.  Creations hold the lock of the root directory and writes  *)
(* the lock of their file; nothing locks the block map.  bitmap_set and    *)
(* bitmap_clear read a word of it, change bits and write the word back, so  *)
(* taking blocks is several steps here: find a clear area, read and write  *)
(* each word it lies in, lower the counter.  Putting a block is a read, a  *)
(* write and a change of the counter.                                      *)
(*                                                                         *)
(* The root directory is one B-tree node and one name block; what happens  *)
(* when there is no room is the subject of Volume.  Contents of name and   *)
(* data blocks, the mark s_unused_area and the count of free inodes are    *)
(* left out, and so are the pass of sync that does not wait, which the     *)
(* kernel makes ahead of the one that does, writes to a file that was      *)
(* removed while open, and the bits of the inode map, which the one        *)
(* directory's lock covers.                                                *)
(***************************************************************************)
EXTENDS Bitmap

CONSTANTS
  NBlocks,     \* s_nblocks
  NInodes,     \* s_ninodes
  Meta,        \* blocks of superblock, maps, inode table and filemap
  ClusterLen,  \* BASICBTFS_MAX_BLOCKS_PER_CLUSTER
  BlockSize,   \* BASICBTFS_BLOCKSIZE
  LongBits,    \* bits of an unsigned long, the words a map is made of
  MapBits,     \* bits of a map in one block: 8 * BASICBTFS_BLOCKSIZE
  Garbage,     \* what an uninitialised block number may happen to be
  MaxClusters, \* bound on the clusters of a file
  MaxMounts,   \* bound on the number of mounts
  MaxCalls     \* bound on the number of calls

ASSUME MountAssumption ==
  /\ NBlocks \in Nat /\ NInodes \in Nat \ {0} /\ Meta \in Nat \ {0}
  /\ LongBits \in Nat \ {0}
  /\ ClusterLen \in Nat \ {0} /\ BlockSize \in Nat \ {0} /\ MapBits \in Nat
  /\ MaxClusters \in Nat /\ MaxMounts \in Nat /\ MaxCalls \in Nat
  /\ MapBits >= 2 * BlockSize
  /\ Meta + 1 >= 2 * BlockSize  \* smaller volumes mark too little
  /\ Meta < NBlocks /\ NBlocks <= Word
  /\ Garbage \subseteq 0..(NBlocks - 1)

VARIABLES
  up,      \* the volume is "down", "up", or its mount has crashed: "oops"
  mem,     \* basicbtfs_sb_info and the i_bno of the inodes in memory
  buf,     \* the buffers of the root's node and of cluster tables
  disk,    \* the image
  dirty,   \* buffers marked dirty: Root for the node, else a table's block
  job,     \* the call in progress under each lock: 0 is the root directory's
  syncing, \* what sync does next
  mounts,  \* how often the volume was mounted
  calls,   \* how many calls began
  mapped,  \* history: the root's name block is in a block map that was written
  late,    \* history: clusters put into a table that was not dirty, since it was made
  calm,    \* history: nothing has changed since a sync began, or ended
  harm     \* history: what the code has done to itself

history == <<mapped, late, calm, harm>>
vars == <<up, mem, buf, disk, dirty, job, syncing, mounts, calls, history>>

Blocks == 0..(NBlocks - 1)
Inodes == 0..(NInodes - 1)
Root == Meta
Lock == Inodes

(* write_bfree_blocks: the number of bits is divided by the size of a block *)
(* in bytes.  The blocks of the map before the last of the quotient are     *)
(* filled, that one gets the remainder, and when there is none, nothing is  *)
(* marked.                                                                 *)
MkfsMarked(used) ==
  IF used < BlockSize THEN {}
  ELSE 0..((used \div BlockSize - 1) * MapBits + (used % BlockSize) - 1)

Node == [list : Blocks, files : SUBSET Inodes]
\* A cluster may begin where all of it lies on the volume.
Starts == {s \in Blocks : s + ClusterLen <= NBlocks}
Tables == [Blocks -> SUBSET Starts]

(* A call takes the area of len blocks at bno for inode ino, or puts the    *)
(* blocks of ino, bno just now, with len puts to go.  "has" is what it has *)
(* marked so far, or not yet cleared; "saw" is the word it has read.        *)
Taking == {"found", "marking", "marked", "counted"}
Putting == {"freeing", "clearing", "cleared"}
Job == [at : {"idle"} \cup Taking \cup Putting, ino : Inodes, bno : Blocks, len : Nat,
        has : SUBSET Blocks, saw : SUBSET Blocks]
JobAt(at, ino, bno, len, has) ==
  [at |-> at, ino |-> ino, bno |-> bno, len |-> len, has |-> has, saw |-> {}]
Idle == JobAt("idle", 0, 0, 0, {})

NoMem == [nfree |-> 0, imap |-> {}, bits |-> {}, bno |-> [i \in Inodes |-> 0]]
NoBuf == [node |-> [list |-> 0, files |-> {}], table |-> [b \in Blocks |-> {}]]
Formatted ==
  [nfree |-> NBlocks - Meta, imap |-> {0}, bits |-> MkfsMarked(Meta + 1) \cap Blocks,
   bno |-> [i \in Inodes |-> IF i = 0 THEN Root ELSE 0],
   node |-> NoBuf.node, table |-> NoBuf.table]

Memory == [nfree : 0..(Word - 1), imap : SUBSET Inodes, bits : SUBSET Blocks, bno : [Inodes -> Blocks]]
Image == [nfree : 0..(Word - 1), imap : SUBSET Inodes, bits : SUBSET Blocks, bno : [Inodes -> Blocks],
          node : Node, table : Tables]
Harm == {"same area", "word undone", "garbage put", "list unmarked"}

TypeOK ==
  /\ up \in {"down", "up", "oops"}
  /\ mem \in Memory /\ disk \in Image
  /\ buf \in [node : Node, table : Tables]
  /\ dirty \subseteq Blocks
  /\ job \in [Lock -> Job]
  /\ syncing \in {"no", "super", "imap", "bmap", "rest"}
  /\ mounts \in 0..MaxMounts /\ calls \in 0..MaxCalls
  /\ mapped \in BOOLEAN /\ late \subseteq Blocks \X Blocks
  /\ calm \in {"no", "begun", "synced"} /\ harm \subseteq Harm

Init ==
  /\ up = "down"
  /\ mem = NoMem /\ buf = NoBuf /\ disk = Formatted
  /\ dirty = {}
  /\ job = [l \in Lock |-> Idle] /\ syncing = "no"
  /\ mounts = 0 /\ calls = 0
  /\ mapped = FALSE /\ late = {} /\ calm = "no" /\ harm = {}

----
(***************************************************************************)
(* Mounting.  fill_super reads the superblock and the maps, and makes the   *)
(* node of the root directory an empty leaf, whatever it holds.             *)
(***************************************************************************)

\* What fill_super has in memory, after it has taken some blocks.
Read(list, taken) ==
  [nfree |-> U32(disk.nfree - Cardinality(taken)), imap |-> disk.imap,
   bits |-> disk.bits \cup taken, bno |-> [NoMem.bno EXCEPT ![0] = disk.bno[0]]]

MountWith(list, taken) ==
  /\ up' = "up"
  /\ mem' = Read(list, taken)
  /\ buf' = [node |-> [list |-> list, files |-> {}], table |-> disk.table]
  /\ dirty' = {Root}
  /\ calm' = "no"
  /\ UNCHANGED <<disk, job, syncing, calls, late, harm>>

\* The node has no name block yet.
FirstMount ==
  /\ up = "down" /\ mounts < MaxMounts /\ mounts' = mounts + 1
  /\ disk.node.list = 0
  /\ LET list == GetFirstFreeBits(disk.bits, NBlocks, 1)
     IN  list # NONE /\ MountWith(list, {list})
  /\ mapped' = FALSE

(* The node keeps its name block.  BasicBTFSNC goes on; BasicBTFS uses the  *)
(* buffer of a name block it would only have read in the other case.        *)
MountAgain ==
  /\ up = "down" /\ mounts < MaxMounts /\ mounts' = mounts + 1
  /\ disk.node.list # 0
  /\ MountWith(disk.node.list, {})
  /\ UNCHANGED mapped

MountOops ==
  /\ up = "down" /\ mounts < MaxMounts /\ mounts' = mounts + 1
  /\ disk.node.list # 0
  /\ up' = "oops"
  /\ UNCHANGED <<mem, buf, disk, dirty, job, syncing, calls, history>>

----
(***************************************************************************)
(* Taking blocks (get_free_blocks) and putting one (put_blocks).            *)
(***************************************************************************)

Area(l) == Run(job[l].bno, job[l].len)

\* The lock's holder has found an area; another one may have found the same.
Found(l, ino, len) ==
  LET s == GetFirstFreeBits(mem.bits, NBlocks, len)
  IN  /\ s # NONE
      /\ job' = [job EXCEPT ![l] = JobAt("found", ino, s, len, {})]
      /\ harm' = IF \E k \in Lock : job[k].at \in {"found", "marking"} /\ Area(k) \cap Run(s, len) # {}
                 THEN harm \cup {"same area"} ELSE harm

WordOf(b) == {c \in Blocks : c \div LongBits = b \div LongBits}

\* The word with the first block of the area that is not marked yet.
WordInHand(l) == WordOf(Least(Area(l) \ job[l].has))

(* The word w is written back as it was read but for the change that has    *)
(* been made to it.  Whatever others did to it meanwhile is undone.        *)
WriteBack(l, w, changed) ==
  /\ mem' = [mem EXCEPT !.bits = (@ \ w) \cup changed]
  /\ harm' = IF mem.bits \cap w = job[l].saw THEN harm ELSE harm \cup {"word undone"}

ReadToSet(l) ==
  /\ up = "up" /\ job[l].at = "found"
  /\ job' = [job EXCEPT ![l].at = "marking", ![l].saw = mem.bits \cap WordInHand(l)]
  /\ UNCHANGED <<up, mem, buf, disk, dirty, syncing, mounts, calls, history>>

\* Mutant: an area that goes on in the next word is not marked there.
SetWordOnly(l) ==
  /\ up = "up" /\ job[l].at = "marking"
  /\ LET w == WordInHand(l)
     IN  /\ WriteBack(l, w, job[l].saw \cup (Area(l) \cap w))
         /\ job' = [job EXCEPT ![l].at = "marked", ![l].has = Area(l), ![l].saw = {}]
  /\ calm' = "no"
  /\ UNCHANGED <<up, buf, disk, dirty, syncing, mounts, calls, mapped, late>>

\* bitmap_set goes through the words of the area.
SetWord(l) ==
  /\ up = "up" /\ job[l].at = "marking"
  /\ LET w == WordInHand(l)
         has == job[l].has \cup (Area(l) \cap w)
     IN  /\ WriteBack(l, w, job[l].saw \cup (Area(l) \cap w))
         /\ job' = [job EXCEPT ![l].at = IF Area(l) \subseteq has THEN "marked" ELSE "found",
                               ![l].has = has, ![l].saw = {}]
  /\ calm' = "no"
  /\ UNCHANGED <<up, buf, disk, dirty, syncing, mounts, calls, mapped, late>>

(* s_nfree_blocks is changed by n, unlocked: of two changes at once, one    *)
(* may be lost.                                                            *)
Counted(l, n) ==
  \E lost \in BOOLEAN :
    /\ lost => \E k \in Lock \ {l} : job[k].at \in {"marked", "cleared"}
    /\ mem' = IF lost THEN mem ELSE [mem EXCEPT !.nfree = U32(@ + n)]

CountArea(l) ==
  /\ up = "up" /\ job[l].at = "marked"
  /\ Counted(l, -job[l].len)
  /\ job' = [job EXCEPT ![l].at = "counted"]
  /\ calm' = "no"
  /\ UNCHANGED <<up, buf, disk, dirty, syncing, mounts, calls, mapped, late, harm>>

----
(***************************************************************************)
(* Files.                                                                  *)
(***************************************************************************)

\* basicbtfs_new_inode, up to the search for the block of the cluster table.
BeginCreate ==
  /\ up = "up" /\ job[0].at = "idle"
  /\ calls < MaxCalls /\ calls' = calls + 1
  /\ mem.nfree # 0
  /\ Inodes \ (mem.imap \cup {0}) # {}
  /\ LET ino == Least(Inodes \ (mem.imap \cup {0}))
     IN  /\ mem' = [mem EXCEPT !.imap = @ \cup {ino}]
         /\ Found(0, ino, 1)
  /\ calm' = "no"
  /\ UNCHANGED <<up, buf, disk, dirty, syncing, mounts, mapped, late>>

\* Mutant: the node that got the entry is not marked dirty.
FinishCreateClean ==
  /\ up = "up" /\ job[0].at = "counted"
  /\ LET ino == job[0].ino
         b   == job[0].bno
     IN  /\ mem' = [mem EXCEPT !.bno[ino] = b]
         /\ buf' = [buf EXCEPT !.table[b] = {}, !.node.files = @ \cup {ino}]
         /\ dirty' = dirty \cup {b}
         /\ late' = late \ ({b} \X Blocks)
  /\ job' = [job EXCEPT ![0] = Idle]
  /\ calm' = "no"
  /\ UNCHANGED <<up, disk, syncing, mounts, calls, mapped, harm>>

\* The rest of create: the table's block is cleaned, the entry added.
FinishCreate ==
  /\ up = "up" /\ job[0].at = "counted"
  /\ LET ino == job[0].ino
         b   == job[0].bno
     IN  /\ mem' = [mem EXCEPT !.bno[ino] = b]
         /\ buf' = [buf EXCEPT !.table[b] = {}, !.node.files = @ \cup {ino}]
         /\ dirty' = dirty \cup {b, Root}
         /\ late' = late \ ({b} \X Blocks)
  /\ job' = [job EXCEPT ![0] = Idle]
  /\ calm' = "no"
  /\ UNCHANGED <<up, disk, syncing, mounts, calls, mapped, harm>>

\* A write behind the last cluster of a file.
BeginGrow(f) ==
  /\ up = "up" /\ job[f].at = "idle"
  /\ calls < MaxCalls /\ calls' = calls + 1
  /\ f \in buf.node.files
  /\ Cardinality(buf.table[mem.bno[f]]) < MaxClusters
  /\ Found(f, f, ClusterLen)
  /\ UNCHANGED <<up, mem, buf, disk, dirty, syncing, mounts, mapped, late, calm>>

(* basicbtfs_file_get_block stores the cluster in the table's buffer and    *)
(* does not mark it dirty.  (It keeps a reference to the buffer, which      *)
(* therefore stays in memory until the volume is unmounted.)                *)
FinishGrow(f) ==
  /\ up = "up" /\ f # 0 /\ job[f].at = "counted"
  /\ LET b == mem.bno[f]
         start == job[f].bno
     IN  /\ buf' = [buf EXCEPT !.table[b] = @ \cup {start}]
         /\ late' = IF b \in dirty THEN late ELSE late \cup {<<b, start>>}
  /\ job' = [job EXCEPT ![f] = Idle]
  /\ calm' = "no"
  /\ UNCHANGED <<up, mem, disk, dirty, syncing, mounts, calls, mapped, harm>>

Clusters(tab) == UNION {Run(s, ClusterLen) : s \in tab}

(* basicbtfs_unlink: the entry goes, and the clusters are put block by      *)
(* block.  The inode, the table and what it says stay.                     *)
BeginUnlink(f) ==
  /\ up = "up" /\ job[0].at = "idle" /\ job[f].at = "idle"
  /\ calls < MaxCalls /\ calls' = calls + 1
  /\ f \in buf.node.files
  /\ LET put == Clusters(buf.table[mem.bno[f]])
     IN  job' = [job EXCEPT ![0] = JobAt("freeing", f, 0, Cardinality(put) + 1, put)]
  /\ buf' = [buf EXCEPT !.node.files = @ \ {f}]
  /\ dirty' = dirty \cup {Root}
  /\ calm' = "no"
  /\ UNCHANGED <<up, mem, disk, syncing, mounts, mapped, late, harm>>

(* The next block to put; the last one is a block whose number is 0 in      *)
(* BasicBTFS and was never set in BasicBTFSNC.                             *)
ReadToClear ==
  /\ up = "up" /\ job[0].at = "freeing"
  /\ \E b \in IF job[0].len > 1 THEN job[0].has ELSE {0} \cup Garbage :
       /\ job' = [job EXCEPT ![0].at = "clearing", ![0].bno = b, ![0].saw = mem.bits \cap WordOf(b)]
       /\ harm' = IF job[0].len = 1 /\ b # 0 THEN harm \cup {"garbage put"} ELSE harm
  /\ UNCHANGED <<up, mem, buf, disk, dirty, syncing, mounts, calls, mapped, late, calm>>

\* bitmap_clear of one bit.
ClearBit ==
  /\ up = "up" /\ job[0].at = "clearing"
  /\ LET b == job[0].bno
     IN  /\ WriteBack(0, WordOf(b), job[0].saw \ {b})
         /\ job' = [job EXCEPT ![0].at = "cleared", ![0].has = @ \ {b}, ![0].saw = {}]
  /\ calm' = "no"
  /\ UNCHANGED <<up, buf, disk, dirty, syncing, mounts, calls, mapped, late>>

CountPut ==
  /\ up = "up" /\ job[0].at = "cleared"
  /\ Counted(0, 1)
  /\ job' = IF job[0].len = 1 THEN [job EXCEPT ![0] = Idle]
            ELSE [job EXCEPT ![0].at = "freeing", ![0].len = @ - 1]
  /\ calm' = "no"
  /\ UNCHANGED <<up, buf, disk, dirty, syncing, mounts, calls, mapped, late, harm>>

----
(***************************************************************************)
(* Writing back.  The kernel may write any dirty buffer and any dirty inode *)
(* at any time.                                                            *)
(***************************************************************************)

\* The image with the buffers B written to it.
Written(image, B) ==
  [image EXCEPT !.node = IF Root \in B THEN buf.node ELSE @,
                !.table = [b \in Blocks |-> IF b \in B \ {Root} THEN buf.table[b] ELSE @[b]]]

\* The inodes in memory.
Loaded == {i \in Inodes : mem.bno[i] # 0}

\* The image with the inodes I written to it: write_from_vfs_inode_to_disk.
WithInodes(image, I) ==
  [image EXCEPT !.bno = [i \in Inodes |-> IF i \in I THEN mem.bno[i] ELSE @[i]]]

WriteBuffer(b) ==
  /\ up = "up" /\ b \in dirty
  /\ disk' = Written(disk, {b})
  /\ dirty' = dirty \ {b}
  /\ UNCHANGED <<up, mem, buf, job, syncing, mounts, calls, history>>

WriteInode(i) ==
  /\ up = "up" /\ i \in Loaded /\ mem.bno[i] # disk.bno[i]
  /\ disk' = WithInodes(disk, {i})
  /\ UNCHANGED <<up, mem, buf, dirty, job, syncing, mounts, calls, history>>

\* sync first writes the inodes that are dirty, and then calls sync_fs.
BeginSync ==
  /\ up = "up" /\ syncing = "no"
  /\ disk' = WithInodes(disk, Loaded)
  /\ syncing' = "super"
  /\ calm' = "begun"
  /\ UNCHANGED <<up, mem, buf, dirty, job, mounts, calls, mapped, late, harm>>

FlushSuperblock ==
  /\ up = "up" /\ syncing = "super"
  /\ disk' = [disk EXCEPT !.nfree = mem.nfree]
  /\ syncing' = "imap"
  /\ UNCHANGED <<up, mem, buf, dirty, job, mounts, calls, history>>

\* Mutant: the block map goes where the inode map belongs.
FlushInodeMapOfBlocks ==
  /\ up = "up" /\ syncing = "imap"
  /\ disk' = [disk EXCEPT !.imap = mem.bits]
  /\ syncing' = "bmap"
  /\ UNCHANGED <<up, mem, buf, dirty, job, mounts, calls, history>>

FlushInodeMap ==
  /\ up = "up" /\ syncing = "imap"
  /\ disk' = [disk EXCEPT !.imap = mem.imap]
  /\ syncing' = "bmap"
  /\ UNCHANGED <<up, mem, buf, dirty, job, mounts, calls, history>>

FlushBlockMap ==
  /\ up = "up" /\ syncing = "bmap"
  /\ disk' = [disk EXCEPT !.bits = mem.bits]
  /\ syncing' = "rest"
  /\ mapped' = TRUE
  /\ UNCHANGED <<up, mem, buf, dirty, job, mounts, calls, late, calm, harm>>

\* What is left of the dirty buffers.
EndSync ==
  /\ up = "up" /\ syncing = "rest"
  /\ disk' = Written(disk, dirty)
  /\ dirty' = {}
  /\ syncing' = "no"
  /\ calm' = IF calm = "begun" THEN "synced" ELSE calm
  /\ UNCHANGED <<up, mem, buf, job, mounts, calls, mapped, late, harm>>

----
(***************************************************************************)
(* The end of a mount.                                                     *)
(***************************************************************************)

Off ==
  /\ up' = "down" /\ mem' = NoMem /\ buf' = NoBuf
  /\ dirty' = {}
  /\ job' = [l \in Lock |-> Idle] /\ syncing' = "no"
  /\ late' = {} /\ calm' = "no"
  /\ UNCHANGED <<mounts, calls>>

\* Nobody uses the volume: a whole sync, then put_super.
Unmount ==
  /\ up = "up" /\ syncing = "no" /\ \A l \in Lock : job[l].at = "idle"
  /\ disk' = [Written(WithInodes(disk, Loaded), dirty)
                EXCEPT !.nfree = mem.nfree, !.imap = mem.imap, !.bits = mem.bits]
  /\ Off
  /\ mapped' = TRUE
  /\ UNCHANGED harm

(* Power fails, or the machine is started again after an oops.  When the    *)
(* root's node has been written and no block map since its name block was   *)
(* taken, the map on disk does not have that block.                         *)
Crash ==
  /\ up # "down"
  /\ Off
  /\ harm' = IF disk.node.list # 0 /\ ~mapped THEN harm \cup {"list unmarked"} ELSE harm
  /\ UNCHANGED <<disk, mapped>>

Next ==
  \/ FirstMount \/ MountAgain \/ MountOops
  \/ BeginCreate \/ FinishCreate
  \/ \E l \in Lock : ReadToSet(l) \/ SetWord(l) \/ CountArea(l)
  \/ \E f \in Inodes \ {0} : BeginGrow(f) \/ FinishGrow(f) \/ BeginUnlink(f)
  \/ ReadToClear \/ ClearBit \/ CountPut
  \/ \E b \in Blocks : WriteBuffer(b)
  \/ \E i \in Inodes : WriteInode(i)
  \/ BeginSync \/ FlushSuperblock \/ FlushInodeMap \/ FlushBlockMap \/ EndSync
  \/ Unmount \/ Crash

Spec == Init /\ [][Next]_vars

----
(***************************************************************************)
(* Properties.                                                             *)
(***************************************************************************)

\* The blocks an owner leads to: the root directory is owner 0.
Holds(i) ==
  IF i = 0 THEN {Root, buf.node.list}
  ELSE {mem.bno[i]} \cup Clusters(buf.table[mem.bno[i]])

Owners == buf.node.files \cup {0}

\* What a call has marked and not yet given to a file, or has yet to clear.
Pending(l) == job[l].has

(* Through any number of power failures and of calls at work at once, every *)
(* block in use by a mounted volume is marked and has one owner, unless two *)
(* searches have found the same area before either had set its bits, a call *)
(* wrote back a word of the map that another had changed since it was read, *)
(* power failed before the first block map of the volume was written, or   *)
(* unlink put a number it never set.  (bitmap_set and bitmap_clear without  *)
(* a lock; sync_fs and fill_super; file_free_blocks.)                       *)
OneOwner ==
  up = "up" /\ harm = {} =>
    /\ \A i \in Owners : Holds(i) \subseteq mem.bits
    /\ \A l \in Lock : Pending(l) \subseteq mem.bits
    /\ \A i, j \in Owners : i # j => Holds(i) \cap Holds(j) = {}
    /\ \A l \in Lock, i \in Owners : Pending(l) \cap Holds(i) = {}
    /\ \A k, l \in Lock : k # l => Pending(k) \cap Pending(l) = {}

(* When nothing has changed since a sync began, what the sync has left on   *)
(* the disk is what is in memory: counter, maps, the root's node, and of    *)
(* every file its inode and its table, without the clusters that            *)
(* get_block put into a table that had been written before.  (After one of  *)
(* the harms, a table may hold a cluster twice or be the root's own block.) *)
SyncedIsOnDisk ==
  calm = "synced" /\ harm = {} =>
    /\ disk.nfree = mem.nfree /\ disk.imap = mem.imap /\ disk.bits = mem.bits
    /\ disk.node = buf.node
    /\ \A f \in buf.node.files :
         /\ disk.bno[f] = mem.bno[f]
         /\ disk.table[mem.bno[f]] = {s \in buf.table[mem.bno[f]] : <<mem.bno[f], s>> \notin late}
====
