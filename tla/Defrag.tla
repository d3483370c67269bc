---- MODULE Defrag ----
(***************************************************************************)
(* The defragmenter of BasicBTFS (defrag.h), run by the DEFRAG ioctl on a  *)
(* mounted disk: it goes through the directories from the root, and puts   *)
(* every block it comes to at the next place of the disk, the "offset".    *)
(* What lies there is moved to the unused area and all that refers to it   *)
(* is changed; to find that, the blocks hold references back: a node to    *)
(* its parent, a block of names to the one before it, a table to its inode *)
(* and, for the blocks of files, the file map of the disk.                 *)
(*                                                                         *)
(* One action is the placing of one block, or one step of the traversal.   *)
(* The blocks are what the buffers hold.  What is sure to be on the disk   *)
(* is kept beside them: a buffer as it was when it was last marked dirty,  *)
(* for the code changes several that it does not mark.  The kernel may     *)
(* drop such a change when memory runs short, unless the code has kept a   *)
(* reference to the buffer, as it does to most of them.                    *)
(*                                                                         *)
(* No other call runs meanwhile, though the code takes no lock.  Left out: *)
(* I/O errors, the cache of directories, where in a block of names an      *)
(* entry believes its name to be, and the slots behind the last key of a   *)
(* node.  It is assumed that no block of a file begins with the number of  *)
(* another type of block.                                                  *)
(***************************************************************************)
EXTENDS Bitmap, SequencesExt

CONSTANTS
  NBlocks,   \* s_nblocks
  Meta,      \* number of blocks before the first data block
  NInodes,   \* s_ninodes
  L,         \* BASICBTFS_MAX_BLOCKS_PER_CLUSTER
  C,         \* number of names a block of names has room for
  Levels,    \* the most levels a tree has
  Dead,      \* the name of no file: the inode of the slot is 0
  Layouts    \* the disks that are defragmented

VARIABLES
  disk,      \* inodes, blocks, block map and file map; the marked and the kept buffers
  offset,    \* the place of the next block
  todo,      \* what is left of the traversal, the next task first
  status,    \* whether the ioctl runs, and how it ended
  given,     \* history: the number of blocks that were put back
  had,       \* history: what directories and files held at the start
  harm       \* history: the damage that was done

vars == <<disk, offset, todo, status, given, had, harm>>

DataBlocks == Meta..(NBlocks - 1)
Inodes == 0..(NInodes - 1)

Harms == {"siblings exchanged", "stale parent", "stale predecessor", "own data displaced",
          "own successor displaced", "names dropped", "pull never ends", "half moved", "past the end"}

NoFile == [ino |-> 0, cluster |-> 0]

(* The kinds of block.  The entries of a node are pairs of a name (a number, *)
(* as the code keeps its hash) and an inode; children, parent, next and prev are block  *)
(* numbers, but the parent of a root and the prev of a first block of names *)
(* are the number of the directory's inode.                                *)
IsNode(x) ==
  /\ x.type = "node"
  /\ x.root \in BOOLEAN
  /\ x.parent \in IF x.root THEN Inodes ELSE DataBlocks
  /\ \A k \in DOMAIN x.kids : x.kids[k] \in DataBlocks
  /\ x.kids # <<>> => Len(x.kids) = Len(x.entries) + 1
  /\ x.names \in DataBlocks \cup {0}

IsNames(x) ==
  /\ x.type = "names"
  /\ x.first \in BOOLEAN
  /\ x.prev \in IF x.first THEN Inodes ELSE DataBlocks
  /\ x.next \in DataBlocks \cup {0}
  /\ Len(x.slots) <= C

IsTable(x) ==
  x.type = "table" /\ x.ino \in Inodes /\ \A c \in DOMAIN x.starts : x.starts[c] \in DataBlocks

IsData(x) == x.type = "data"

TypeOK ==
  /\ disk.ibno \in [Inodes -> DataBlocks \cup {0}]
  /\ \A b \in DataBlocks : \A x \in {disk.blk[b], disk.marked[b]} :
       IsNode(x) \/ IsNames(x) \/ IsTable(x) \/ IsData(x)
  /\ disk.kept \in SUBSET DataBlocks
  /\ disk.bits \in SUBSET (0..(NBlocks - 1))
  /\ disk.nfree \in 0..(Word - 1)
  /\ disk.unused \in 0..(NBlocks + L)
  /\ \A b \in DataBlocks : disk.fmap[b].ino \in Inodes
  /\ offset \in Meta..(NBlocks + 1)
  /\ status \in {"running", "done", "aborted"}
  /\ harm \in SUBSET Harms

----
(***************************************************************************)
(* What a disk holds.                                                      *)
(***************************************************************************)

\* The nodes of the tree of directory i.
TreeOf(d, i) ==
  LET down[n \in 0..Levels] ==
        IF n = 0 THEN {d.ibno[i]}
        ELSE LET S == down[n - 1] IN S \cup UNION {Range(d.blk[b].kids) : b \in S}
  IN  down[Levels]

\* Its entries, in the order of the tree.
EntriesOf(d, i) ==
  LET from[n \in 0..Levels, b \in DataBlocks] ==
        LET x == d.blk[b]
        IN  IF n = 0 \/ x.kids = <<>> THEN x.entries
            ELSE FlattenSeq([k \in 1..(2 * Len(x.kids) - 1) |->
                               IF k % 2 = 1 THEN from[n - 1, x.kids[(k + 1) \div 2]]
                               ELSE <<x.entries[k \div 2]>>])
  IN  from[Levels, d.ibno[i]]

\* The blocks of names of directory i, in order, as readdir follows them.
ChainOf(d, i) ==
  LET to[n \in 0..Cardinality(DataBlocks)] ==
        IF n = 0 THEN <<d.blk[d.ibno[i]].names>>
        ELSE LET s == to[n - 1]
                 next == d.blk[s[Len(s)]].next
             IN  IF next = 0 THEN s ELSE Append(s, next)
  IN  to[Cardinality(DataBlocks)]

Live(s) == SelectSeq(s, LAMBDA x : x # Dead)

Listing(d, i) == LET s == ChainOf(d, i) IN [k \in DOMAIN s |-> Live(d.blk[s[k]].slots)]

\* What readdir lists: each name with the number of times it does.
NamesIn(d, i) ==
  LET s == Listing(d, i)
      all == UNION {Range(s[k]) : k \in DOMAIN s}
  IN  [n \in all |-> Cardinality({<<k, j>> \in (DOMAIN s) \X (1..C) : j <= Len(s[k]) /\ s[k][j] = n})]

IsDir(d, i) == d.ibno[i] # 0 /\ d.blk[d.ibno[i]].type = "node"
IsReg(d, i) == d.ibno[i] # 0 /\ d.blk[d.ibno[i]].type = "table"
Dirs(d) == {i \in Inodes : IsDir(d, i)}
Files(d) == {i \in Inodes : IsReg(d, i)}

NrClusters(d, i) == Len(d.blk[d.ibno[i]].starts)

\* Where block j of cluster c of file i lies.
At(d, i, c, j) == d.blk[d.ibno[i]].starts[c] + j

BlocksOfFile(d, i) == [cj \in (1..NrClusters(d, i)) \X (0..(L - 1)) |-> At(d, i, cj[1], cj[2])]

Held(d) ==
  [entries |-> [i \in Dirs(d) |-> EntriesOf(d, i)],
   names   |-> [i \in Dirs(d) |-> NamesIn(d, i)],
   data    |-> [i \in Files(d) |->
                  LET at == BlocksOfFile(d, i) IN [cj \in DOMAIN at |-> d.blk[at[cj]]]]]

(* A disk as the calls of the file system leave it.  Splits of inner nodes  *)
(* leave the parent of the children that move stale, and the blocks of      *)
(* names from the third on have a stale predecessor.                       *)
Used(d) ==
  UNION {TreeOf(d, i) \cup Range(ChainOf(d, i)) : i \in Dirs(d)}
    \cup UNION {{d.ibno[i]} \cup Range(BlocksOfFile(d, i)) : i \in Files(d)}

WellFormed(d) ==
  /\ d.bits = 0..(Meta - 1) \cup Used(d)
  /\ \A i \in Dirs(d) : /\ d.blk[d.ibno[i]].root /\ d.blk[d.ibno[i]].parent = i
                        /\ DOMAIN NamesIn(d, i) = {e[1] : e \in Range(EntriesOf(d, i))}
  /\ \A i \in Files(d) : \A c \in 1..NrClusters(d, i), j \in 0..(L - 1) :
       d.fmap[At(d, i, c, j)] = [ino |-> i, cluster |-> c]
  /\ \E i \in Dirs(d) : i = 0
  /\ d.marked = d.blk /\ d.kept = {}

(* The reference back of block b, when it is not the first of its kind and   *)
(* the one that it names does not refer to it.                            *)
StaleReference(d, b) ==
  LET x == d.blk[b]
      y == IF x.type = "node" THEN d.blk[x.parent] ELSE d.blk[x.prev]
  IN  CASE x.type = "node" /\ ~x.root
             -> IF y.type = "node" /\ b \in Range(y.kids) /\ x.parent \in d.bits THEN {} ELSE {"stale parent"}
        [] x.type = "names" /\ ~x.first
             -> IF y.type = "names" /\ y.next = b /\ x.prev \in d.bits THEN {} ELSE {"stale predecessor"}
        [] OTHER -> {}

ASSUME DefragAssumption ==
  /\ L \in Nat \ {0} /\ C \in Nat \ {0} /\ Meta \in Nat \ {0}
  /\ \A d \in Layouts : WellFormed(d)

Init ==
  /\ disk \in Layouts
  /\ offset = Meta
  /\ todo = <<[do |-> "dir", ino |-> 0]>>
  /\ status = "running"
  /\ given = 0
  /\ had = [true |-> \A b \in Used(disk) : StaleReference(disk, b) = {}] @@ Held(disk)
  /\ harm = {}

----
(***************************************************************************)
(* Changing references.  "new" is where a block has been copied to, and     *)
(* "cur" where it was.                                                     *)
(***************************************************************************)

\* Mutant: the area is not marked.
GetOffsetUnmarked(d, start, len) ==
  LET areas == ZeroAreas(d.bits, NBlocks, start, len)
      b == IF areas = {} THEN NONE ELSE Least(areas)
  IN  [bno |-> b, d |-> IF b = NONE THEN d ELSE [d EXCEPT !.unused = IF b >= @ THEN b + len ELSE @]]

(* get_offset: the first area from start on. It raises the mark, and leaves *)
(* the counter of free blocks alone.                                       *)
GetOffset(d, start, len) ==
  LET areas == ZeroAreas(d.bits, NBlocks, start, len)
      b == IF areas = {} THEN NONE ELSE Least(areas)
  IN  [bno |-> b,
       d |-> IF b = NONE THEN d
             ELSE [d EXCEPT !.bits = SetBits(@, b, len), !.unused = IF b >= @ THEN b + len ELSE @]]

Put(d, start, len) == PutBlocks(d, NBlocks, Run(start, len))

Copied(d, from, to) == [d EXCEPT !.blk[to] = d.blk[from]]

(* mark_buffer_dirty: the blocks S are written as they are now, or later.   *)
Mark(d, S) == [d EXCEPT !.marked = [b \in DataBlocks |-> IF b \in S THEN d.blk[b] ELSE @[b]]]

(* The references to the buffers of the blocks S are never given back.      *)
Keep(d, S) == [d EXCEPT !.kept = @ \cup S]

(* The first of the children that is cur.                                   *)
Repointed(s, cur, new) ==
  LET at == {k \in DOMAIN s : s[k] = cur} IN IF at = {} THEN s ELSE [s EXCEPT ![Least(at)] = new]

\* Mutant: the children are not told.
MoveBtreeNodeUpOnly(d, cur, new) ==
  LET n == d.blk[new]
  IN  IF n.root THEN [d EXCEPT !.ibno[n.parent] = new]
      ELSE Mark([d EXCEPT !.blk[n.parent].kids = Repointed(@, cur, new)], {n.parent})

(* move_btree_node: the inode or the parent, and the children.              *)
MoveBtreeNode(d, cur, new) ==
  LET n == d.blk[new]
      up == IF n.root THEN [d EXCEPT !.ibno[n.parent] = new]
            ELSE [d EXCEPT !.blk[n.parent].kids = Repointed(@, cur, new)]
  IN  Mark([up EXCEPT !.blk = [b \in DataBlocks |-> IF b \in Range(n.kids) THEN [@[b] EXCEPT !.parent = new]
                                                   ELSE @[b]]],
           Range(n.kids) \cup (IF n.root THEN {} ELSE {n.parent}))

(* move_namelist: the root of the tree or the block before, and the block   *)
(* behind.                                                                 *)
MoveNamelist(d, new) ==
  LET n == d.blk[new]
      before == IF n.first THEN d.ibno[n.prev] ELSE n.prev
      up == IF n.first THEN [d EXCEPT !.blk[before].names = new] ELSE [d EXCEPT !.blk[before].next = new]
  IN  IF n.next = 0 THEN Mark(up, {before})
      ELSE Mark([up EXCEPT !.blk[n.next].prev = new], {before, n.next})

MoveClusterTable(d, new) == [d EXCEPT !.ibno[d.blk[new].ino] = new]

(* The copies of the cluster that starts at "start", with its first block at *)
(* "new", in the run at "to".                                              *)
ClusterCopied(d, start, new, to) ==
  Mark([d EXCEPT !.blk = [b \in DataBlocks |-> IF b = to THEN d.blk[new]
                                               ELSE IF b \in Run(to, L) THEN d.blk[start + b - to]
                                               ELSE d.blk[b]]],
       Run(to, L))

\* Mutant: the file map does not learn of the move.
MoveFileBlockUnmapped(d, old, new) ==
  LET f == d.fmap[old]
      run == GetOffset(d, d.unused, L)
      t == d.ibno[f.ino]
      start == d.blk[t].starts[f.cluster]
      put == Put(Put(ClusterCopied(run.d, start, new, run.bno), start + 1, L - 1), new, 1)
  IN  IF f = NoFile THEN [ok |-> TRUE, d |-> d, n |-> 0]
      ELSE IF run.bno = NONE THEN [ok |-> FALSE, d |-> d, n |-> 0]
      ELSE [ok |-> TRUE, n |-> L, d |-> Keep([put EXCEPT !.blk[t].starts[f.cluster] = run.bno], {t})]

(* move_file_block: the block at "new", which was at "old", is the first of *)
(* a cluster. The whole cluster goes to the unused area. The buffer of the *)
(* table is changed, but neither marked nor given back.                    *)
MoveFileBlock(d, old, new) ==
  LET f == d.fmap[old]
      run == GetOffset(d, d.unused, L)
      t == d.ibno[f.ino]
      start == d.blk[t].starts[f.cluster]
      put == Put(Put(ClusterCopied(run.d, start, new, run.bno), start + 1, L - 1), new, 1)
  IN  IF f = NoFile THEN [ok |-> TRUE, d |-> d, n |-> 0]
      ELSE IF run.bno = NONE THEN [ok |-> FALSE, d |-> d, n |-> 0]
      ELSE [ok |-> TRUE, n |-> L,
            d |-> Keep([put EXCEPT !.blk[t].starts[f.cluster] = run.bno,
                                   !.fmap = [b \in DataBlocks |-> IF b \in Run(run.bno, L) THEN f
                                                                  ELSE IF b \in Run(old, L) THEN NoFile
                                                                  ELSE @[b]]], {t})]

(* The switch on the type of the block that has been moved out of the way.  *)
Displaced(d, old, new) ==
  LET x == d.blk[new]
      Moved(e) == [ok |-> TRUE, d |-> e, n |-> 0]
  IN  CASE x.type = "node"  -> Moved(MoveBtreeNode(d, old, new))
        [] x.type = "names" -> Moved(MoveNamelist(d, new))
        [] x.type = "table" -> Moved(MoveClusterTable(d, new))
        [] x.type = "data"  -> MoveFileBlock(d, old, new)

(* A node that moves may push its own child out of the way.                *)
ChildMoved(d, tmp) ==
  IF d.blk[tmp].type = "node" /\ offset \in Range(d.blk[offset].kids)
    THEN [d EXCEPT !.blk[offset].kids = Repointed(@, offset, tmp), !.blk[tmp].parent = offset]
    ELSE d

----
(***************************************************************************)
(* The damage a step is about to do: a reference back that it will follow   *)
(* was never true, or the wrong block is told that its neighbour has moved.*)
(***************************************************************************)

\* Only what was untrue from the start.
Stale(b) == IF had.true THEN {} ELSE StaleReference(disk, b)

(* The node in the way is a later sibling of the node b: the parent is told  *)
(* of b first and then takes it for the sibling.                           *)
Exchanged(b) ==
  LET x == disk.blk[b]
      y == disk.blk[offset]
      kids == disk.blk[x.parent].kids
  IN  IF /\ y.type = "node" /\ ~x.root /\ ~y.root /\ x.parent = y.parent
         /\ \E j, k \in DOMAIN kids : j < k /\ kids[j] = b /\ kids[k] = offset
      THEN {"siblings exchanged"} ELSE {}

----
(***************************************************************************)
(* The traversal.                                                          *)
(***************************************************************************)

Top == Head(todo)
Doing(what) == status = "running" /\ todo # <<>> /\ Top.do = what
Then(tasks) == todo' = tasks \o Tail(todo)

(* The loop of defrag_btree over the children of a node that is in place.   *)
NextChild(t) ==
  LET kids == disk.blk[t.bno].kids
  IN  IF t.k > Len(kids) THEN <<>>
      ELSE <<[do |-> "tree", bno |-> kids[t.k]], [t EXCEPT !.k = @ + 1]>>

\* Mutant: the walk over the entries of a leaf does not advance.
NextEntryAgain(t) ==
  LET n == disk.blk[t.bno]
      on == <<[t EXCEPT !.k = @ + 1]>>
      i == n.entries[(t.k + 1) \div 2][2]
  IN  IF t.k > 2 * Len(n.entries) THEN <<>>
      ELSE IF t.k % 2 = 1 THEN <<[do |-> IF IsDir(disk, i) THEN "dir" ELSE "table", ino |-> i]>> \o on
      ELSE IF n.kids = <<>> THEN <<t>>
      ELSE <<[do |-> "walk", bno |-> n.kids[(t.k \div 2) + 1], k |-> 0]>> \o on

(* traverse_directory: entries in their order, children between them.       *)
NextEntry(t) ==
  LET n == disk.blk[t.bno]
      on == <<[t EXCEPT !.k = @ + 1]>>
      i == n.entries[(t.k + 1) \div 2][2]
  IN  IF t.k > 2 * Len(n.entries) THEN <<>>
      ELSE IF t.k % 2 = 1 THEN <<[do |-> IF IsDir(disk, i) THEN "dir" ELSE "table", ino |-> i]>> \o on
      ELSE IF n.kids = <<>> THEN on
      ELSE <<[do |-> "walk", bno |-> n.kids[(t.k \div 2) + 1], k |-> 0]>> \o on

(* defrag_directory: the tree, then the names, then what the entries lead   *)
(* to.  The root is looked up anew for each, as it moves.                   *)
Expansion(t) ==
  CASE t.do = "dir" -> <<[do |-> "tree", bno |-> disk.ibno[t.ino]], [do |-> "chain", ino |-> t.ino],
                         [do |-> "contents", ino |-> t.ino]>>
    [] t.do = "chain" -> <<[do |-> "names", ino |-> t.ino, bno |-> disk.blk[disk.ibno[t.ino]].names]>>
    [] t.do = "contents" -> <<[do |-> "walk", bno |-> disk.ibno[t.ino], k |-> 0]>>
    [] t.do = "kids" -> NextChild(t)
    [] t.do = "walk" -> NextEntry(t)

Traverse ==
  /\ \E what \in {"dir", "kids", "chain", "contents", "walk"} : Doing(what)
  /\ Then(Expansion(Top))
  /\ UNCHANGED <<disk, offset, status, given, had, harm>>

----
(***************************************************************************)
(* The placing of a block: it lies at the offset already, or that place is  *)
(* free, or what lies there has to go to the unused area first.             *)
(***************************************************************************)

ToFree(b) == b # offset /\ offset < NBlocks /\ offset \notin disk.bits
ToTaken(b) == b # offset /\ offset < NBlocks /\ offset \in disk.bits

\* The disk d when block b has been copied to the free place.
Taken(d, b) == Copied(GetOffset(d, offset, 1).d, b, offset)

\* The place for what is in the way.
Scratch(d) == GetOffset(d, d.unused, 1)
Swapped(d, b) == Copied(Copied(Scratch(d).d, offset, Scratch(d).bno), b, offset)

Stays(tasks) ==
  /\ offset' = offset + 1
  /\ Then(tasks)
  /\ UNCHANGED <<status, given, had>>

Ends(s) == status' = s /\ todo' = <<>> /\ UNCHANGED had

(* The end of a step that has left the disk d and put back n blocks; ok     *)
(* tells whether what was in the way found a place.                         *)
Placed(d, n, ok, tasks, damage) ==
  /\ disk' = d
  /\ given' = IF ok THEN given + n ELSE given
  /\ harm' = harm \cup damage \cup (IF ok THEN {} ELSE {"half moved"})
  /\ IF ok THEN offset' = offset + 1 /\ Then(tasks) /\ UNCHANGED <<status, had>>
            ELSE UNCHANGED offset /\ Ends("aborted")

(* The end of a step that has also moved what was in the way, with the       *)
(* outcome r; the place that block b has left is put back, and then S are  *)
(* marked.                                                                 *)
Replaced(r, b, S, tasks, damage) ==
  Placed(IF r.ok THEN Mark(Put(r.d, b, 1), S) ELSE r.d, 1 + r.n, r.ok, tasks, damage)

(* defrag_btree_node and the loop behind it. *)
Kids(b) == IF disk.blk[b].kids = <<>> THEN <<>> ELSE <<[do |-> "kids", bno |-> offset, k |-> 1]>>

NodeStays ==
  /\ Doing("tree") /\ Top.bno = offset
  /\ Stays(Kids(Top.bno))
  /\ UNCHANGED <<disk, harm>>

NodeToFree ==
  /\ Doing("tree") /\ ToFree(Top.bno)
  /\ LET b == Top.bno
     IN  \E d \in {Taken(disk, b)} :
           Placed(Put(Mark(MoveBtreeNode(d, b, offset), {offset}), b, 1), 1, TRUE, Kids(b), Stale(b))

NodeToTaken ==
  /\ Doing("tree") /\ ToTaken(Top.bno)
  /\ LET b == Top.bno
         child == offset \in Range(disk.blk[b].kids)
     IN  \E tmp \in {Scratch(disk).bno} \ {NONE} :
         \E d \in {ChildMoved(Swapped(disk, b), tmp)} :
         \E e \in {MoveBtreeNode(d, b, offset)} :
           Replaced(Displaced(e, offset, tmp), b, {offset, tmp}, Kids(b),
                    Stale(b) \cup Exchanged(b) \cup (IF child THEN {} ELSE Stale(offset)))

----
(***************************************************************************)
(* Blocks of names.                                                        *)
(***************************************************************************)

(* Where the search in the tree of directory i finds name n, or NONE.        *)
NodeWith(d, i, n) ==
  LET from[k \in 0..Levels, b \in DataBlocks] ==
        LET x == d.blk[b]
            at == 1 + Cardinality({j \in DOMAIN x.entries : x.entries[j][1] < n})
        IN  IF at <= Len(x.entries) /\ x.entries[at][1] = n THEN b
            ELSE IF k = 0 \/ x.kids = <<>> THEN NONE
            ELSE from[k - 1, x.kids[at]]
  IN  from[Levels, d.ibno[i]]

(* update_namelist_info for these slots: it marks the nodes with the names.  *)
Told(d, i, s) == Mark(d, {NodeWith(d, i, s[k]) : k \in {k \in DOMAIN s : s[k] # Dead}})

\* The slots whose names are not found.
Unknown(b) ==
  LET s == disk.blk[b].slots
  IN  {k \in DOMAIN s : s[k] # Dead /\ NodeWith(disk, Top.ino, s[k]) = NONE}

DeadTail(s) == {k \in DOMAIN s : \A j \in k..Len(s) : s[j] = Dead}

WithTail(live, s) == live \o [k \in 1..Cardinality(DeadTail(s)) |-> Dead]

(* The slots of dead names among the first n are closed up.                 *)
ClosedUp(s, n) == Live(SubSeq(s, 1, n)) \o SubSeq(s, n + 1, Len(s))

\* Those before the last live name are.
Compacted(d, b) == [d EXCEPT !.blk[b].slots = ClosedUp(@, Len(@) - Cardinality(DeadTail(@)))]

\* Mutant: off by one.
HasRoomForMore(d, b) == Len(d.blk[b].slots) <= C

HasRoom(d, b) == Len(d.blk[b].slots) < C

Pullable(d, b) ==
  /\ d.blk[b].next # 0
  /\ Live(d.blk[d.blk[b].next].slots) # <<>>
  /\ HasRoom(d, b)

(* A block with room takes the first name of the next one.  The loop that   *)
(* should take more does not advance to the second name.                   *)
Pulled(d, b) ==
  LET x == d.blk[b].next
      first == d.blk[x].slots[1]
      s == d.blk[b].slots
  IN  IF Pullable(d, b) /\ first # Dead
        THEN [d EXCEPT !.blk[b].slots = WithTail(Append(Live(s), first), s), !.blk[x].slots[1] = Dead]
        ELSE d

(* Neither b nor the next block is marked, and the next one is kept.        *)
Filled(b) ==
  LET d == Pulled(Compacted(disk, b), b)
  IN  Keep(Told(d, Top.ino, d.blk[b].slots), {d.blk[b].next} \ {0})

(* It goes on as long as there is room and a live name in the next block;   *)
(* what it looks at is a dead slot.                                        *)
PullsForever(b) ==
  LET d == Compacted(disk, b)
  IN  /\ Pullable(d, b)
      /\ d.blk[d.blk[b].next].slots[1] # Dead => Pullable(Pulled(d, b), b)

\* Mutant: the loop ends with the first block.
RestNone(d, b) == <<>>

Rest(d, b) == IF d.blk[b].next = 0 THEN <<>> ELSE <<[Top EXCEPT !.bno = d.blk[b].next]>>

(* A name that the tree does not find ends the ioctl.                       *)
NameUnknown ==
  /\ Doing("names") /\ Unknown(Top.bno) # {}
  /\ LET s == disk.blk[Top.bno].slots
         n == Least(Unknown(Top.bno)) - 1
     IN  disk' = [Told(disk, Top.ino, SubSeq(s, 1, n)) EXCEPT !.blk[Top.bno].slots = ClosedUp(s, n)]
  /\ Ends("aborted")
  /\ UNCHANGED <<offset, given, harm>>

NamesKnown == Doing("names") /\ Unknown(Top.bno) = {}

NamesPullForever ==
  /\ NamesKnown /\ PullsForever(Top.bno)
  /\ harm' = harm \cup {"pull never ends"}
  /\ UNCHANGED <<disk, offset, todo, status, given, had>>

NamesStay ==
  /\ NamesKnown /\ ~PullsForever(Top.bno) /\ Top.bno = offset
  /\ disk' = Filled(Top.bno)
  /\ Stays(Rest(disk, Top.bno))
  /\ UNCHANGED harm

NamesToFree ==
  /\ NamesKnown /\ ~PullsForever(Top.bno) /\ ToFree(Top.bno)
  /\ LET b == Top.bno
     IN  \E f \in {Filled(b)} : \E d \in {Taken(f, b)} : \E e \in {MoveNamelist(d, offset)} :
           Placed(Put(Mark(e, {offset}), b, 1), 1, TRUE, Rest(e, b), Stale(b))

(* The buffer of the place the block has left is what the loop goes on      *)
(* with, and the successor's step back to it has been changed in there.  The *)
(* buffers of both new places are neither marked nor given back.            *)
NamesToTaken ==
  /\ NamesKnown /\ ~PullsForever(Top.bno) /\ ToTaken(Top.bno)
  /\ LET b == Top.bno
         own == disk.blk[b].next = offset
     IN  \E tmp \in {Scratch(disk).bno} \ {NONE} :
         \E f \in {Filled(b)} :
         \E d \in {Keep(Swapped(f, b), {offset, tmp})} :
         \E e \in {MoveNamelist(d, offset)} :
         \E r \in {Displaced(e, offset, tmp)} :
           Replaced(r, b, {}, Rest(r.d, b),
                    Stale(b) \cup Stale(offset) \cup (IF own THEN {"own successor displaced"} ELSE {}))

----
(***************************************************************************)
(* Files.                                                                  *)
(***************************************************************************)

Clusters(i) == <<[do |-> "cluster", ino |-> i, c |-> 1, j |-> 0, to |-> offset + 1]>>

TableStays ==
  /\ Doing("table") /\ disk.ibno[Top.ino] = offset
  /\ Stays(Clusters(Top.ino))
  /\ UNCHANGED <<disk, harm>>

TableToFree ==
  /\ Doing("table") /\ ToFree(disk.ibno[Top.ino])
  /\ LET b == disk.ibno[Top.ino]
     IN  \E d \in {Taken(disk, b)} :
           Placed(Mark(MoveClusterTable(Put(d, b, 1), offset), {offset}), 1, TRUE, Clusters(Top.ino), {})

(* The table is copied before what lies in the way is moved: when that is   *)
(* a cluster of the same file, the old copy learns of it.                   *)
TableToTaken ==
  /\ Doing("table") /\ ToTaken(disk.ibno[Top.ino])
  /\ LET b == disk.ibno[Top.ino]
         own == disk.blk[offset].type = "data" /\ disk.fmap[offset].ino = Top.ino
     IN  \E tmp \in {Scratch(disk).bno} \ {NONE} :
         \E d \in {Swapped(disk, b)} :
         \E r \in {Displaced(d, offset, tmp)} :
           Replaced([r EXCEPT !.d = IF r.ok THEN MoveClusterTable(@, offset) ELSE @], b,
                    {offset, tmp}, Clusters(Top.ino),
                    Stale(offset) \cup (IF own THEN {"own data displaced"} ELSE {}))

\* The block in hand.
Current == At(disk, Top.ino, Top.c, Top.j)
InCluster == Doing("cluster") /\ Top.c <= NrClusters(disk, Top.ino) /\ Top.j < L
NextBlock == <<[Top EXCEPT !.j = @ + 1]>>

Mapped(d, b) ==
  [d EXCEPT !.fmap = [@ EXCEPT ![offset] = [ino |-> Top.ino, cluster |-> Top.c], ![b] = NoFile]]

BlockStays ==
  /\ InCluster /\ Current = offset
  /\ Stays(NextBlock)
  /\ UNCHANGED <<disk, harm>>

BlockToFree ==
  /\ InCluster /\ ToFree(Current)
  /\ LET b == Current
     IN  \E d \in {Taken(disk, b)} : Placed(Mark(Mapped(Put(d, b, 1), b), {offset}), 1, TRUE, NextBlock, {})

BlockToTaken ==
  /\ InCluster /\ ToTaken(Current)
  /\ LET b == Current
     IN  \E tmp \in {Scratch(disk).bno} \ {NONE} :
         \E d \in {Swapped(disk, b)} :
         \E r \in {Displaced(d, offset, tmp)} :
           Replaced([r EXCEPT !.d = IF r.ok THEN Mapped(@, b) ELSE @], At(r.d, Top.ino, Top.c, Top.j),
                    {offset, tmp}, NextBlock, Stale(offset))

ClusterDone ==
  /\ Doing("cluster") /\ Top.c <= NrClusters(disk, Top.ino) /\ Top.j = L
  /\ disk' = [disk EXCEPT !.blk[disk.ibno[Top.ino]].starts[Top.c] = Top.to]
  /\ Then(<<[Top EXCEPT !.c = @ + 1, !.j = 0, !.to = offset]>>)
  /\ UNCHANGED <<offset, status, given, had, harm>>

AfterClusters == Doing("cluster") /\ Top.c > NrClusters(disk, Top.ino)

\* Mutant: the table is not marked.
FileDoneUnmarked ==
  /\ AfterClusters
  /\ Then(<<>>)
  /\ UNCHANGED <<disk, offset, status, given, had, harm>>

FileDone ==
  /\ AfterClusters
  /\ disk' = Mark(disk, {disk.ibno[Top.ino]})
  /\ Then(<<>>)
  /\ UNCHANGED <<offset, status, given, had, harm>>

----
(***************************************************************************)
(* How it ends, and what may happen to a buffer until then.                *)
(***************************************************************************)

\* The block that is to be placed.
InHand ==
  CASE Doing("tree") \/ Doing("names") -> {Top.bno}
    [] Doing("table") -> {disk.ibno[Top.ino]}
    [] InCluster -> {Current}
    [] OTHER -> {}

(* What is done by the time a step gives up: in a block of names, the names *)
(* have been closed up; of a cluster, blocks have been moved and the table *)
(* does not learn where they are.                                          *)
Begun(b) == IF Doing("names") THEN Filled(b) ELSE disk
HalfMoved == IF Doing("cluster") /\ Top.j > 0 THEN {"half moved"} ELSE {}

(* Nothing is free above the mark. *)
NoScratch ==
  \E b \in InHand :
    /\ ToTaken(b) /\ (Doing("names") => NamesKnown /\ ~PullsForever(b))
    /\ Scratch(disk).bno = NONE
    /\ disk' = Begun(b)
    /\ harm' = harm \cup HalfMoved
    /\ Ends("aborted")
    /\ UNCHANGED <<offset, given>>

(* Files with several names are placed once for each, which leaves holes    *)
(* behind; the offset can come to the end of the disk. The place for what  *)
(* would be in the way has been taken by then, but for blocks of data: the *)
(* bits behind the map are clear and are asked for first.                  *)
PastTheEnd ==
  \E b \in InHand :
    /\ b # offset /\ offset >= NBlocks /\ (Doing("names") => NamesKnown /\ ~PullsForever(b))
    /\ disk' = IF Doing("cluster") THEN disk ELSE Scratch(Begun(b)).d
    /\ harm' = harm \cup {"past the end"} \cup HalfMoved
    /\ Ends("aborted")
    /\ UNCHANGED <<offset, given>>

(* defrag_disk: the mark comes down to the offset. *)
Finish ==
  /\ status = "running" /\ todo = <<>>
  /\ disk' = [disk EXCEPT !.unused = offset]
  /\ Ends("done")
  /\ UNCHANGED <<offset, given, harm>>

(* Memory is short: a buffer that nobody holds and that is not dirty is     *)
(* dropped, and when it is read again it is as it was marked last.  A table *)
(* is held while its file is being placed.                                 *)
InUse == IF Doing("cluster") THEN {disk.ibno[Top.ino]} ELSE {}

DropBuffer ==
  /\ status = "running"
  /\ \E b \in (DataBlocks \cap disk.bits) \ (disk.kept \cup InUse) :
       LET x == disk.blk[b]
           y == disk.marked[b]
       IN  /\ x # y
           /\ disk' = [disk EXCEPT !.blk[b] = y]
           /\ harm' = harm \cup (IF y.type = "names" /\ Range(Live(y.slots)) # Range(Live(x.slots))
                                 THEN {"names dropped"} ELSE {})
  /\ UNCHANGED <<offset, todo, status, given, had>>

Step ==
  \/ Traverse
  \/ NodeStays \/ NodeToFree \/ NodeToTaken
  \/ NameUnknown \/ NamesPullForever \/ NamesStay \/ NamesToFree \/ NamesToTaken
  \/ TableStays \/ TableToFree \/ TableToTaken
  \/ BlockStays \/ BlockToFree \/ BlockToTaken \/ ClusterDone \/ FileDone
  \/ NoScratch \/ PastTheEnd \/ Finish

Next == Step \/ DropBuffer

Spec == Init /\ [][Next]_vars /\ WF_vars(Step)

----
(***************************************************************************)
(* Properties                                                              *)
(***************************************************************************)

\* No damage has been done to what the disk holds.
Sound == harm \subseteq {"pull never ends"}

InWork(i, c) == Doing("cluster") /\ Top.ino = i /\ Top.c = c

\* Where the blocks of file i lie while one of its clusters is being moved.
BlocksNow(i) ==
  [cj \in DOMAIN BlocksOfFile(disk, i) |->
     IF InWork(i, cj[1]) /\ cj[2] < Top.j THEN Top.to + cj[2] ELSE BlocksOfFile(disk, i)[cj]]

UsedNow ==
  UNION {TreeOf(disk, i) \cup Range(ChainOf(disk, i)) : i \in Dirs(disk)}
    \cup UNION {{disk.ibno[i]} \cup Range(BlocksNow(i)) : i \in Files(disk)}

(* After every step, also one that gives up for want of space, and after a  *)
(* change that was not marked has been dropped, the buffers hold for all    *)
(* directories their entries in the order of the tree and list their names *)
(* once, and for all files their data in order, but for the recorded kinds *)
(* of damage.  For that every reference to a block that is moved must be   *)
(* found and changed, among blocks that are themselves half way.  It does  *)
(* not speak of what a later mount finds.                                  *)
NothingLost ==
  Sound =>
    /\ Held(disk).entries = had.entries
    /\ Held(disk).names = had.names
    /\ Files(disk) = DOMAIN had.data
    /\ \A i \in Files(disk) :
         [cj \in DOMAIN BlocksNow(i) |-> disk.blk[BlocksNow(i)[cj]]] = had.data[i]

(* The blocks marked in use are those of the directories and files, at       *)
(* every step: nothing leaks and nothing in use is free for others.  The    *)
(* counter of free blocks grows by every block that is put back, since     *)
(* put_blocks raises it and get_offset does not lower it.                  *)
MarkedExactly ==
  Sound =>
    /\ disk.bits = 0..(Meta - 1) \cup UsedNow
    /\ disk.nfree = U32(Cardinality((0..(NBlocks - 1)) \ disk.bits) + given)

(* The file map, by which the owner of a block in the way is found, tells   *)
(* the file and cluster of every block, at every step.                     *)
FileMapTrue ==
  Sound =>
    \A b \in DataBlocks :
      LET here == {<<i, cj>> \in UNION {{i} \X DOMAIN BlocksNow(i) : i \in Files(disk)} :
                     BlocksNow(i)[cj] = b}
      IN  IF here = {} THEN disk.fmap[b] = NoFile
          ELSE \E x \in here : disk.fmap[b] = [ino |-> x[1], cluster |-> x[2][1]]

\* The number of names of file i.
NamesOf(i) ==
  Cardinality({e \in UNION {{x} \X Range(EntriesOf(disk, x)) : x \in Dirs(disk)} : e[2][2] = i})

(* When it is done and every file has one name, the used blocks are the      *)
(* first of the disk and the mark lies behind them; every tree lies in one  *)
(* piece with its names in order behind it, and every file with its data.  *)
CompactAtEnd ==
  status = "done" /\ Sound /\ (\A i \in Files(disk) : NamesOf(i) = 1) =>
    /\ disk.bits = 0..(offset - 1)
    /\ disk.unused = offset
    /\ \A i \in Dirs(disk) :
         LET n == disk.ibno[i] + Cardinality(TreeOf(disk, i))
         IN  /\ TreeOf(disk, i) = disk.ibno[i]..(n - 1)
             /\ \A k \in DOMAIN ChainOf(disk, i) : ChainOf(disk, i)[k] = n + k - 1
    /\ \A i \in Files(disk), c \in 1..3, j \in 0..(L - 1) :
         c <= NrClusters(disk, i) => At(disk, i, c, j) = disk.ibno[i] + 1 + (c - 1) * L + j

(* When it is done and every file has one name, the trees, the tables and    *)
(* the data that a later mount finds are those in the buffers: all that     *)
(* has been moved, or told of a move, has been marked since.  What need not *)
(* have been are blocks of names.                                          *)
WrittenAtEnd ==
  status = "done" /\ Sound /\ (\A i \in Files(disk) : NamesOf(i) = 1) =>
    \A b \in UsedNow : disk.marked[b] # disk.blk[b] => disk.blk[b].type = "names"

(* A wrong block has been told of a move, or a block that the call itself    *)
(* works on has been moved away under it.  References then lead anywhere,  *)
(* into blocks that the code reads as what they are not.                   *)
Astray ==
  harm \cap {"stale parent", "stale predecessor", "own data displaced", "own successor displaced"} # {}

(* The ioctl ends, unless the loop that pulls names has been entered in the  *)
(* state in which it never ends; nothing is said of one whose references    *)
(* have gone astray.  Siblings that have been exchanged, names that have    *)
(* been dropped and an end in the middle of a file are no excuse.  Each     *)
(* step is taken by the one process that called it.                        *)
Terminates == <>(status # "running" \/ "pull never ends" \in harm \/ Astray)

(* A node that moves updates the reference of its parent, so that the        *)
(* entries of every directory stay in the order in which they are searched *)
(* for.                                                                    *)
TreesKept == \A i \in DOMAIN had.entries : IsDir(disk, i) /\ EntriesOf(disk, i) = had.entries[i]
====
