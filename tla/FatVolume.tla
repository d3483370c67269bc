---- MODULE FatVolume ----
(***************************************************************************)
(* A mounted BasicFATFS volume: its maps (bitmap.h), inodes (inode.c), and *)
(* the directories, which are arrays of entries in blocks that an          *)
(* allocation table lists (dir.c); a regular file's table lists its data   *)
(* blocks (file.c).  One action is one call of the VFS, which names things *)
(* as its dentry cache does.                                               *)
(*                                                                         *)
(* No block device fails here.  Left out: times, owners, symbolic links    *)
(* (no operation creates one) and the reference counts of inodes.          *)
(***************************************************************************)
EXTENDS Bitmap

CONSTANTS
  NBlocks,  \* s_nblocks
  NInodes,  \* s_ninodes
  Meta,     \* number of blocks of superblock, maps and inode table
  Excess,   \* number of data blocks mkfs marks beyond the root's table
  E,        \* BASICFTFS_ENTRIES_PER_BLOCK
  M,        \* BASICFTFS_ATABLE_MAX_BLOCKS
  Names     \* the names a directory may hold

ASSUME FatAssumption ==
  /\ NBlocks \in Nat /\ NInodes \in Nat \ {0} /\ Meta \in Nat \ {0} /\ Excess \in Nat
  /\ E \in Nat \ {0} /\ M \in Nat \ {0}
  /\ Meta + Excess + 1 < NBlocks
  /\ NBlocks < Word /\ NInodes < Word

VARIABLES
  imap,     \* s_ifree_bitmap and s_nfree_inodes
  bmap,     \* s_bfree_bitmap and s_nfree_blocks
  inode,    \* the inodes
  disk,     \* what the data blocks hold, read as tables and as entries
  files,    \* the names the VFS knows
  gone,     \* history: how many subdirectories rmdir has taken from an inode
  dropped,  \* history: the entry blocks of removed directories
  failed,   \* history: the number of searches for a block that failed
  doubled,  \* history: the number of times create has put an inode twice
  harm      \* history: the ways in which calls have done damage

vars == <<imap, bmap, inode, disk, files, gone, dropped, failed, doubled, harm>>

Inodes == 0..(NInodes - 1)
DataBlocks == Meta..(NBlocks - 1)
RootIno == 0
NoName == "no name"

InodeRec == [mode : {"none", "reg", "dir"}, bno : DataBlocks \cup {0}, nlink : Nat]

(* init_mode_attributes *)
NewInode(mode, bno) == [mode |-> mode, bno |-> bno, nlink |-> IF mode = "dir" THEN 2 ELSE 1]
NoInode == [mode |-> "none", bno |-> 0, nlink |-> 0]

(* Inode number 0 is the root's and in an entry means that there is none.   *)
Entry == [ino : Inodes, name : Names \cup {NoName}]
NoEntry == [ino |-> 0, name |-> NoName]

(* In a table 0 is no block, and NONE a search for a block that failed.     *)
Table == [nr_of_entries : 0..(M * E), blocks : [0..(M - 1) -> DataBlocks \cup {0, NONE}]]
NoTable == [nr_of_entries |-> 0, blocks |-> [k \in 0..(M - 1) |-> 0]]
NoEntries == [e \in 0..(E - 1) |-> NoEntry]

\* What the data blocks hold, each read in both ways.
DiskImage ==
  [table : [DataBlocks -> Table], entries : [DataBlocks -> [0..(E - 1) -> Entry]]]

File == [dir : Inodes, name : Names, ino : Inodes]

Harms == {"renamed onto a name", "another name went", "directory was not empty",
          "live inode put", "end of table passed", "rename not done", "removed but refused"}

TypeOK ==
  /\ imap \in [bits : SUBSET Inodes, nfree : 0..(Word - 1)]
  /\ bmap \in [bits : SUBSET (0..(NBlocks - 1)), nfree : 0..(Word - 1)]
  /\ inode \in [Inodes -> InodeRec]
  /\ disk \in DiskImage
  /\ files \in SUBSET File
  /\ gone \in [Inodes -> Nat]
  /\ dropped \in SUBSET DataBlocks
  /\ failed \in Nat /\ doubled \in Nat
  /\ harm \in SUBSET Harms

(* mkfs takes the number of bits for one of bytes and, on volumes of more   *)
(* than about 1.8 GB, marks some data blocks behind the root's table, which *)
(* the number of free blocks it writes knows nothing of.  (On smaller ones *)
(* it marks too little; that is not looked at here.)                       *)
FormattedBlocks == [bits |-> 0..(Meta + Excess), nfree |-> NBlocks - Meta]

\* Inode 0 is taken by the root.
FormattedInodes == [bits |-> {RootIno}, nfree |-> NInodes - 1]

(* The volume after its first mount, on an image of zeroes.                 *)
Init ==
  /\ imap = FormattedInodes
  /\ bmap = FormattedBlocks
  /\ inode = [i \in Inodes |-> IF i = RootIno THEN NewInode("dir", Meta) ELSE NoInode]
  /\ disk = [table |-> [b \in DataBlocks |-> NoTable],
             entries |-> [b \in DataBlocks |-> NoEntries]]
  /\ files = {}
  /\ gone = [i \in Inodes |-> 0]
  /\ dropped = {}
  /\ failed = 0 /\ doubled = 0
  /\ harm = {}

----
(***************************************************************************)
(* bitmap.h.  A failed search lowers the counter too.                      *)
(***************************************************************************)

TakeInode(im) == GetFreeInode(im, NInodes)

PutBackInode(im, i) == PutInode(im, NInodes, i)

\* Mutant: the last free block is given out again and again.
TakeBlockUnmarked(bm) ==
  LET b == GetFirstFreeBits(bm.bits, NBlocks, 1)
  IN  [bno |-> b, bm |-> [bits |-> IF b = NBlocks - 1 THEN bm.bits ELSE SetBits(bm.bits, b, 1),
                          nfree |-> U32(bm.nfree - 1)]]

TakeBlock(bm) ==
  LET b == GetFirstFreeBits(bm.bits, NBlocks, 1)
  IN  [bno |-> b, bm |-> [bits |-> SetBits(bm.bits, b, 1), nfree |-> U32(bm.nfree - 1)]]

\* Mutant: the counter does not follow the bit.
PutBackBlockUncounted(bm, b) ==
  IF PutRefused(NBlocks, b, 1) THEN bm ELSE [bm EXCEPT !.bits = @ \ {b}]

PutBackBlock(bm, b) ==
  IF PutRefused(NBlocks, b, 1) THEN bm
  ELSE [bits |-> bm.bits \ {b}, nfree |-> U32(bm.nfree + 1)]

----
(***************************************************************************)
(* Directories.  dk is a value of "disk", b the block of the directory's   *)
(* table.  The cells of a directory are its slots for entries, counted     *)
(* through all its blocks.                                                 *)
(***************************************************************************)

Cells == 0..(M * E - 1)

Cell(dk, b) ==
  [p \in Cells |-> LET c == dk.table[b].blocks[p \div E]
                   IN  IF c = 0 THEN NoEntry ELSE dk.entries[c][p % E]]

\* dk with the cells of the directory holding f.
WithCells(dk, b, f) ==
  LET at == dk.table[b].blocks
  IN  [dk EXCEPT !.entries =
         [c \in DataBlocks |->
            IF \E k \in DOMAIN at : at[k] = c
              THEN LET k == CHOOSE k \in DOMAIN at : at[k] = c
                   IN  [e \in 0..(E - 1) |-> f[k * E + e]]
              ELSE dk.entries[c]]]

(* The blocks a scan goes through: it ends where a block begins with an     *)
(* empty slot.                                                             *)
Depth(f) == Cardinality({k \in 0..(M - 1) : \A j \in 0..k : f[j * E].ino # 0})

(* basicftfs_search_entry: the inode of the first entry of that name, before *)
(* the first empty slot; 0 when there is none.                             *)
Search(dk, b, name) ==
  LET f == Cell(dk, b)
      hits == {p \in Cells : f[p].name = name /\ \A q \in 0..p : f[q].ino # 0}
  IN  IF hits = {} THEN 0 ELSE f[Least(hits)].ino

(* basicftfs_add_entry_name: the entry goes to the cell number             *)
(* nr_of_entries, in a new block when there is none.  It fails when there  *)
(* is no block; the -1 in the table is taken back.                         *)
AddEntry(dk, bm, b, name, i) ==
  LET n == dk.table[b].nr_of_entries
      k == n \div E
      c == dk.table[b].blocks[k]
      a == TakeBlock(bm)
      at == IF c = 0 THEN a.bno ELSE c
  IN  [ok |-> at # NONE,
       bm |-> IF c = 0 THEN a.bm ELSE bm,
       dk |-> IF at = NONE THEN dk
              ELSE [dk EXCEPT !.table[b].blocks[k] = at, !.table[b].nr_of_entries = n + 1,
                              !.entries[at][n % E] = [ino |-> i, name |-> name]]]

\* Mutant: the first entry of a block does not move into the one before it.
ClosedInBlock(f, p, d) ==
  [q \in Cells |-> IF q < p \/ q >= d * E THEN f[q]
                   ELSE IF q % E = E - 1 THEN NoEntry ELSE f[q + 1]]

(* remove_file_from_dir and move_files: the gap at cell p is closed, through *)
(* d blocks.                                                               *)
Closed(f, p, d) ==
  [q \in Cells |-> IF q < p \/ q >= d * E THEN f[q]
                   ELSE IF q = d * E - 1 THEN NoEntry ELSE f[q + 1]]

(* basicftfs_delete_entry takes out the first entry with inode number i,    *)
(* whatever its name, and reports success when there is none.              *)
DeleteEntry(dk, b, i) ==
  LET f == Cell(dk, b)
      hits == {p \in 0..(Depth(f) * E - 1) : f[p].ino = i}
  IN  IF hits = {} THEN dk
      ELSE [WithCells(dk, b, Closed(f, Least(hits), Depth(f)))
              EXCEPT !.table[b].nr_of_entries = @ - 1]

\* Mutant: only the entries that are emitted are counted.
ListedUncounted(dk, b, pos, room) ==
  LET f == Cell(dk, b)
      k == pos \div E
      e == pos % E
      n == IF k < Depth(f) THEN (Depth(f) - k) * E - e ELSE 0
      seen == [i \in 0..(n - 1) |-> f[k * E + i + IF i < E - e THEN 0 ELSE e]]
      live == {i \in 0..(n - 1) : seen[i].ino # 0}
      out == {i \in live : Cardinality({j \in live : j < i}) < room}
  IN  [names |-> {seen[i].name : i \in out}, pos |-> pos + Cardinality(out)]

\* What is emitted of n slots behind slot e of block k, and the position then.
Emitted(f, k, e, n, pos, room) ==
  LET seen == [i \in 0..(n - 1) |-> f[k * E + i + IF i < E - e THEN 0 ELSE e]]
      live == {i \in 0..(n - 1) : seen[i].ino # 0}
      out == {i \in live : Cardinality({j \in live : j < i}) < room}
  IN  [names |-> {seen[i].name : i \in out},
       pos |-> pos + IF out = live THEN n ELSE Least(live \ out)]

(* basicftfs_iterate from position pos (less the two dots), with room for   *)
(* so many entries: what it emits, and the position it leaves.  In the     *)
(* first block the index starts at pos % E, but the pointer at the block's *)
(* first entry.                                                            *)
Listed(dk, b, pos, room) ==
  LET f == Cell(dk, b)
      k == pos \div E
      e == pos % E
  IN  Emitted(f, k, e, IF k < Depth(f) THEN (Depth(f) - k) * E - e ELSE 0, pos, room)

----
(***************************************************************************)
(* The calls of the VFS.                                                   *)
(***************************************************************************)

Reachable(d) == inode[d].mode = "dir" /\ (d = RootIno \/ \E f \in files : f.ino = d)
NrOfEntries(d) == disk.table[inode[d].bno].nr_of_entries
FullDir(d) == NrOfEntries(d) >= M * E

\* The VFS asks for a new name only where its lookup found none.
MayAdd(d, name) == Reachable(d) /\ ~\E f \in files : f.dir = d /\ f.name = name

(* The checks of basicftfs_create and new_inode on counters.                *)
MayCreate(d, name) ==
  MayAdd(d, name) /\ ~FullDir(d) /\ imap.nfree # 0 /\ bmap.nfree # 0

(* The counter promised an inode the map does not have.  iget refuses the   *)
(* inode -1, and so does put_inode.                                        *)
CreateWithoutInode(d, name) ==
  LET gi == TakeInode(imap)
  IN  /\ MayCreate(d, name)
      /\ gi.ino = NONE
      /\ imap' = gi.im
      /\ UNCHANGED <<bmap, inode, disk, files, gone, dropped, failed, doubled, harm>>

(* The counter promised a block the map does not have: clean_block cannot   *)
(* read block -1.                                                          *)
CreateWithoutBlock(d, name) ==
  LET gi == TakeInode(imap)
      gb == TakeBlock(bmap)
  IN  /\ MayCreate(d, name)
      /\ gi.ino # NONE /\ gb.bno = NONE
      /\ imap' = PutBackInode(gi.im, gi.ino)
      /\ bmap' = gb.bm
      /\ failed' = failed + 1
      /\ UNCHANGED <<inode, disk, files, gone, dropped, doubled, harm>>

\* Mutant: what the block held stays.
CleanBlockNot(dk, b) == dk

(* clean_block, and reset_block. *)
CleanBlock(dk, b) == [dk EXCEPT !.table[b] = NoTable, !.entries[b] = NoEntries]

(* basicftfs_create of a regular file or a directory. When add_entry fails  *)
(* it puts the block and the inode back, and create does so again.         *)
Create(d, name, mode) ==
  LET gi == TakeInode(imap)
      gb == TakeBlock(bmap)
      dk == CleanBlock(disk, gb.bno)
      a == AddEntry(dk, gb.bm, inode[d].bno, name, gi.ino)
  IN  /\ MayCreate(d, name)
      /\ gi.ino # NONE /\ gb.bno # NONE
      /\ disk' = a.dk
      /\ IF a.ok
           THEN /\ imap' = gi.im
                /\ bmap' = a.bm
                /\ inode' = [inode EXCEPT ![gi.ino] = NewInode(mode, gb.bno),
                                          ![d].nlink = IF mode = "dir" THEN @ + 1 ELSE @]
                /\ files' = files \cup {[dir |-> d, name |-> name, ino |-> gi.ino]}
                /\ gone' = [gone EXCEPT ![gi.ino] = 0]
                /\ UNCHANGED <<failed, doubled>>
           ELSE /\ imap' = PutBackInode(PutBackInode(gi.im, gi.ino), gi.ino)
                /\ bmap' = PutBackBlock(PutBackBlock(a.bm, gb.bno), gb.bno)
                /\ failed' = failed + 1
                /\ doubled' = doubled + 1
                /\ UNCHANGED <<inode, files, gone>>
      /\ UNCHANGED <<dropped, harm>>

(* The end of add_entry that failed for an inode that has a name: its block *)
(* and its number are given to whoever asks next.                          *)
PutLiveInode(bm, i) ==
  /\ bmap' = PutBackBlock(bm, inode[i].bno)
  /\ imap' = PutBackInode(imap, i)
  /\ failed' = failed + 1
  /\ harm' = harm \cup {"live inode put"}

(* basicftfs_link of a regular file asks nobody whether the directory is    *)
(* full.  The name is instantiated whatever add_entry returned.            *)
Link(f, d, name) ==
  LET a == AddEntry(disk, bmap, inode[d].bno, name, f.ino)
  IN  /\ MayAdd(d, name)
      /\ inode[f.ino].mode = "reg"
      /\ inode' = [inode EXCEPT ![f.ino].nlink = @ + 1]
      /\ files' = files \cup {[f EXCEPT !.dir = d, !.name = name]}
      /\ \/ /\ FullDir(d)
            /\ harm' = harm \cup {"end of table passed"}
            /\ UNCHANGED <<imap, bmap, disk, failed>>
         \/ /\ ~FullDir(d) /\ a.ok
            /\ disk' = a.dk
            /\ bmap' = a.bm
            /\ UNCHANGED <<imap, failed, harm>>
         \/ /\ ~FullDir(d) /\ ~a.ok
            /\ PutLiveInode(a.bm, f.ino)
            /\ UNCHANGED disk
      /\ UNCHANGED <<gone, dropped, doubled>>

\* delete_entry, asked to take out f, takes out another name of its inode.
TakesAnother(f) ==
  LET c == Cell(disk, inode[f.dir].bno)
      hits == {p \in Cells : c[p].ino = f.ino}
  IN  hits # {} /\ c[Least(hits)].name # f.name

HarmOf(f) == IF TakesAnother(f) THEN {"another name went"} ELSE {}

(* basicftfs_unlink of a regular file: nothing but the name goes.           *)
Unlink(f) ==
  /\ inode[f.ino].mode = "reg"
  /\ disk' = DeleteEntry(disk, inode[f.dir].bno, f.ino)
  /\ inode' = [inode EXCEPT ![f.ino].nlink = @ - 1]
  /\ files' = files \ {f}
  /\ harm' = harm \cup HarmOf(f)
  /\ UNCHANGED <<imap, bmap, gone, dropped, failed, doubled>>

(* basicftfs_rmdir: unlink removes the directory, and then rmdir looks at   *)
(* the link count, which unlink and clean_inode have each lowered by one,   *)
(* and at the number of entries, which is 0 by now.  The blocks of entries *)
(* and the link to the parent are forgotten.                               *)
Rmdir(f) ==
  LET t == inode[f.ino].bno
  IN  /\ inode[f.ino].mode = "dir"
      /\ disk' = CleanBlock(DeleteEntry(disk, inode[f.dir].bno, f.ino), t)
      /\ imap' = PutBackInode(imap, f.ino)
      /\ bmap' = PutBackBlock(bmap, t)
      /\ inode' = [inode EXCEPT ![f.ino] = NoInode]
      /\ files' = files \ {f}
      /\ gone' = [gone EXCEPT ![f.dir] = @ + 1]
      /\ dropped' = dropped \cup ({disk.table[t].blocks[k] : k \in 0..(M - 1)} \ {0})
      /\ harm' = harm \cup (IF NrOfEntries(f.ino) > 0 THEN {"directory was not empty"} ELSE {})
                      \cup (IF inode[f.ino].nlink - 2 > 2 THEN {"removed but refused"} ELSE {})
      /\ UNCHANGED <<failed, doubled>>

\* Mutant: the directory left behind keeps its link.
RelinkedUpOnly(nodes, f, d) ==
  IF nodes[f.ino].mode # "dir" THEN nodes ELSE [nodes EXCEPT ![d].nlink = @ + 1]

(* basicftfs_rename moves a link of the parents whatever update_entry       *)
(* returned.                                                               *)
Relinked(nodes, f, d) ==
  IF nodes[f.ino].mode # "dir" THEN nodes
  ELSE [[nodes EXCEPT ![d].nlink = @ + 1] EXCEPT ![f.dir].nlink = @ - 1]

\* The directories on the way from d up to the root.
Above(d) ==
  LET up[n \in 0..NInodes] ==
        IF n = 0 THEN {d} ELSE up[n - 1] \cup {f.dir : f \in {g \in files : g.ino \in up[n - 1]}}
  IN  up[NInodes]

(* basicftfs_rename to a free name, which the VFS does not allow below the  *)
(* directory that moves.                                                   *)
Rename(f, d, name) ==
  LET a == AddEntry(disk, bmap, inode[d].bno, name, f.ino)
  IN  /\ MayAdd(d, name)
      /\ f.ino \notin Above(d)
      /\ inode' = Relinked(inode, f, d)
      /\ files' = (files \ {f}) \cup {[f EXCEPT !.dir = d, !.name = name]}
      /\ \/ /\ FullDir(d)
            /\ harm' = harm \cup {"rename not done"}
            /\ UNCHANGED <<imap, bmap, disk, failed>>
         \/ /\ ~FullDir(d) /\ a.ok
            /\ disk' = DeleteEntry(a.dk, inode[f.dir].bno, f.ino)
            /\ bmap' = a.bm
            /\ harm' = harm \cup HarmOf(f)
            /\ UNCHANGED <<imap, failed>>
         \/ /\ ~FullDir(d) /\ ~a.ok
            /\ PutLiveInode(a.bm, f.ino)
            /\ UNCHANGED disk
      /\ UNCHANGED <<gone, dropped, doubled>>

(* update_entry where the new name is that of x.  The entry of x goes and   *)
(* those behind it move up; then the slot x had is overwritten, whoever    *)
(* has moved into it; then the first entry with the inode of f goes.       *)
Overwritten(f, x) ==
  LET b == inode[x.dir].bno
      c == Cell(disk, b)
      p == Least({q \in Cells : c[q].name = x.name})
      dk == DeleteEntry(disk, b, x.ino)
      put == WithCells(dk, b, [Cell(dk, b) EXCEPT ![p] = [ino |-> f.ino, name |-> x.name]])
  IN  DeleteEntry(put, inode[f.dir].bno, f.ino)

RenameOnto(f, x) ==
  /\ f.ino # x.ino
  /\ inode[f.ino].mode = inode[x.ino].mode
  /\ f.ino \notin Above(x.dir) /\ x.ino \notin Above(f.dir)
  /\ disk' = Overwritten(f, x)
  /\ inode' = Relinked(inode, f, x.dir)
  /\ files' = (files \ {f, x}) \cup {[x EXCEPT !.ino = f.ino]}
  /\ harm' = harm \cup {"renamed onto a name"}
  /\ UNCHANGED <<imap, bmap, gone, dropped, failed, doubled>>

(* basicftfs_file_get_block for a block the file does not have, of a file   *)
(* that has a name or is still open: a failed search is entered as -1.     *)
GetBlock(i, k) ==
  LET g == TakeBlock(bmap)
      b == inode[i].bno
  IN  /\ inode[i].mode = "reg"
      /\ disk.table[b].blocks[k] = 0
      /\ disk' = [disk EXCEPT !.table[b].blocks[k] = g.bno]
      /\ bmap' = g.bm
      /\ failed' = IF g.bno = NONE THEN failed + 1 ELSE failed
      /\ UNCHANGED <<imap, inode, files, gone, dropped, doubled, harm>>

Next ==
  \/ \E d \in Inodes, name \in Names :
       \/ CreateWithoutInode(d, name)
       \/ CreateWithoutBlock(d, name)
       \/ \E mode \in {"reg", "dir"} : Create(d, name, mode)
       \/ \E f \in files : Link(f, d, name) \/ Rename(f, d, name)
  \/ \E f \in files : Unlink(f) \/ Rmdir(f) \/ \E x \in files : RenameOnto(f, x)
  \/ \E i \in Inodes, k \in 0..(M - 1) : GetBlock(i, k)

Spec == Init /\ [][Next]_vars

----
(***************************************************************************)
(* Properties                                                              *)
(***************************************************************************)

\* The blocks inode i leads to.
BlocksOf(i) ==
  IF inode[i].mode = "none" THEN {}
  ELSE {inode[i].bno} \cup
       ({disk.table[inode[i].bno].blocks[k] : k \in 0..(M - 1)} \ {0, NONE})

(* Lookup finds every name the VFS made and did not remove, with its inode, *)
(* and no other; and what a directory counts is what lies in its first      *)
(* cells.  Entries move between blocks with every removal, and the end of  *)
(* a search is the first empty slot: as long as no call has done one of     *)
(* the recorded damages, no name is hidden behind a gap or doubled.        *)
NamesFound ==
  harm = {} =>
    \A d \in Inodes : Reachable(d) =>
      LET b == inode[d].bno
          c == Cell(disk, b)
      IN  /\ \A name \in Names :
               Search(disk, b, name)
                 = LET at == {f \in files : f.dir = d /\ f.name = name}
                   IN  IF at = {} THEN 0 ELSE (CHOOSE f \in at : TRUE).ino
          /\ \A p \in Cells : c[p].ino # 0 <=> p < NrOfEntries(d)

(* The blocks that inodes lead to are in use and no two lead to the same    *)
(* one; what is in use beyond them are mkfs's excess and the entry blocks  *)
(* of removed directories.  It holds through every failed call that does    *)
(* not put a live inode.                                                   *)
BlocksAccounted ==
  harm = {} =>
    /\ \A i, j \in Inodes : i # j => BlocksOf(i) \cap BlocksOf(j) = {}
    /\ bmap.bits \cap DataBlocks
         = (UNION {BlocksOf(i) : i \in Inodes}) \cup dropped \cup (Meta + 1)..(Meta + Excess)

(* Nobody clears a block that is taken for entries, and a scan of a         *)
(* directory ends at the first slot of zeroes.  It works because every     *)
(* block that is put has been cleared.                                     *)
FreeBlocksAreClear ==
  harm = {} =>
    \A b \in DataBlocks \ bmap.bits :
      disk.table[b] = NoTable /\ disk.entries[b] = NoEntries

(* A listing that is read in parts shows every name once and ends, when     *)
(* the parts end where blocks end.  (Elsewhere the next part begins with    *)
(* the first entry of the block again.)                                    *)
ListedOnce ==
  harm = {} =>
    \A d \in Inodes, room \in 0..(M * E) : Reachable(d) =>
      LET b == inode[d].bno
          one == Listed(disk, b, 0, room)
          two == Listed(disk, b, one.pos, M * E)
      IN  one.pos % E = 0 =>
            /\ one.names \cap two.names = {}
            /\ one.names \cup two.names = {f.name : f \in {g \in files : g.dir = d}}
            /\ Listed(disk, b, two.pos, M * E).names = {}

(* A regular file has as many links as names.  A directory has two, one for *)
(* each subdirectory, and one for each that was ever removed, since rmdir  *)
(* does not lower the parent's count: after three of those, rmdir of the    *)
(* directory itself removes it and reports that it is not empty.           *)
LinksCounted ==
  harm = {} =>
    \A i \in Inodes : inode[i].nlink =
      CASE inode[i].mode = "none" -> 0
        [] inode[i].mode = "reg" -> Cardinality({f \in files : f.ino = i})
        [] inode[i].mode = "dir" ->
             2 + gone[i] + Cardinality({f \in files : f.dir = i /\ inode[f.ino].mode = "dir"})

(* s_nfree_blocks, which create trusts and statfs reports, is too high by  *)
(* what mkfs did not count and by one for each inode that create put twice, *)
(* and too low by one for each search for a block that failed.             *)
(* s_nfree_inodes is too high by at most the inodes put twice: a failed    *)
(* search for an inode takes one of those back.  (Until so many inodes were *)
(* put twice that the counter may wrap around.)                            *)
CountersDrift ==
  harm = {} =>
    /\ bmap.nfree
         = U32(Cardinality((0..(NBlocks - 1)) \ bmap.bits) + Excess + 1 + doubled - failed)
    /\ LET clear == Cardinality(Inodes \ imap.bits)
       IN  NInodes + doubled < Word => imap.nfree \in clear..(clear + doubled)
====
