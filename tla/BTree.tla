---- MODULE BTree ----
(***************************************************************************)
(* The B-tree of one directory on disk (btree.h): lookup, insertion with   *)
(* splits, and removal with its borrowing and merging.                     *)
(*                                                                         *)
(* A call that changes the tree walks down from the root; one action is    *)
(* one level of its recursion.  The lock of the directory keeps other      *)
(* calls on the same tree out, but not other directories and files, which  *)
(* take blocks and put blocks between any two levels.                      *)
(*                                                                         *)
(* An entry is abstracted to its hash: the directory's names have          *)
(* different hashes, and 0 is the hash of a slot that was never written.   *)
(* Left out of a node: the fields parent, root, tree_name_bno and          *)
(* nr_times_done, which none of these calls reads to decide anything.      *)
(***************************************************************************)
EXTENDS Integers, FiniteSets

CONSTANTS
  T,         \* BASICBTFS_MIN_DEGREE
  Blocks,    \* the numbers of the blocks a directory may get
  Keys,      \* the hashes of names
  MaxOther,  \* bound: blocks other directories and files hold at a time
  MaxGaps,   \* bound: keys missing below the greatest one when a call begins
  MaxRemovals \* bound: removals that are looked at

ASSUME BTreeAssumption ==
  /\ T \in Nat /\ T >= 2
  /\ Blocks \subseteq Nat \ {0} /\ Blocks # {} /\ IsFiniteSet(Blocks)
  /\ Keys \subseteq Nat \ {0} /\ IsFiniteSet(Keys)
  /\ MaxOther \in Nat /\ MaxGaps \in Nat /\ MaxRemovals \in Nat

VARIABLES
  node,   \* what the blocks hold, read as tree nodes
  used,   \* the blocks marked in the block map
  other,  \* those of them that other directories and files hold
  root,   \* i_bno of the directory
  names,  \* the names that calls which returned 0 have created and not removed
  call,   \* the call in progress
  removals, \* history: the number of removals that have begun
  harm    \* history: the ways in which calls have damaged the tree

vars == <<node, used, other, root, names, call, removals, harm>>

Slots == 0..(2 * T - 2)
Kids == 0..(2 * T - 1)
Hashes == Keys \cup {0}

Node == [entries : [Slots -> Hashes], children : [Kids -> Blocks \cup {0}],
         nr_of_keys : 0..(2 * T - 1), nr_of_files : Int, leaf : BOOLEAN]

(* btree_node_init on a block filled with zeroes. *)
NodeInit(leaf) ==
  [entries |-> [i \in Slots |-> 0], children |-> [i \in Kids |-> 0],
   nr_of_keys |-> 0, nr_of_files |-> 0, leaf |-> leaf]

(* "name" is the hash the call was made for; "key" the one it looks for    *)
(* now; "at" the node it is at; "below" says that another level of the     *)
(* recursion lies above that node; "tall" is the new root, or 0.  After    *)
(* "lost" the code follows a pointer to block 0 or does not leave a loop.  *)
Ops == {"idle", "raise", "halve", "insert", "delete", "lost"}
Call == [op : Ops, name : Hashes, key : Hashes, at : Blocks \cup {0},
         below : BOOLEAN, tall : Blocks \cup {0}]
Idle == [op |-> "idle", name |-> 0, key |-> 0, at |-> 0, below |-> FALSE, tall |-> 0]

Harms == {"upper half dropped", "entry dropped", "wrong block put", "block 0 reached"}

TypeOK ==
  /\ node \in [Blocks -> Node]
  /\ used \in SUBSET Blocks
  /\ other \in SUBSET used
  /\ root \in used
  /\ names \in SUBSET Keys
  /\ call \in Call
  /\ removals \in 0..MaxRemovals
  /\ harm \in SUBSET Harms

LeastOf(S) == CHOOSE x \in S : \A y \in S : x <= y

\* An empty directory: its root is a leaf.
Init ==
  /\ root = LeastOf(Blocks)
  /\ node = [b \in Blocks |-> NodeInit(TRUE)]
  /\ used = {root}
  /\ other = {}
  /\ names = {}
  /\ call = Idle
  /\ removals = 0
  /\ harm = {}

----
(***************************************************************************)
(* Arrays.                                                                 *)
(***************************************************************************)

\* Mutant: what is at f[i] is overwritten.
InsertedOver(f, i, n, x) == [f EXCEPT ![i] = x]

\* Mutant: x goes to the end.
InsertedAtEnd(f, i, n, x) == [f EXCEPT ![n] = x]

(* f[i..n-1] moves up by one and x goes to f[i]. *)
Inserted(f, i, n, x) ==
  [j \in DOMAIN f |-> IF j = i THEN x ELSE IF i < j /\ j <= n THEN f[j - 1] ELSE f[j]]

\* Mutant: f[n-1] does not move.
RemovedShort(f, i, n) ==
  [j \in DOMAIN f |-> IF i <= j /\ j < n - 2 THEN f[j + 1] ELSE f[j]]

(* f[i+1..n-1] moves down by one; f[n-1] stays where it was. *)
Removed(f, i, n) ==
  [j \in DOMAIN f |-> IF i <= j /\ j < n - 1 THEN f[j + 1] ELSE f[j]]

\* The number of keys of node x that are smaller than k.
Before(x, k) == Cardinality({i \in Slots : i < x.nr_of_keys /\ x.entries[i] < k})

Holds(x, k) == \E i \in Slots : i < x.nr_of_keys /\ x.entries[i] = k

\* Mutant: a node is split when it has more keys than slots.
FullLate(x) == x.nr_of_keys = 2 * T

Full(x) == x.nr_of_keys = 2 * T - 1

Free == Blocks \ used

----
(***************************************************************************)
(* Lookup.                                                                 *)
(***************************************************************************)

(* The comparison in btree_node_lookup: the slot behind the keys that are  *)
(* smaller, whether or not it belongs to the node's keys.  (Behind the     *)
(* last slot lie block numbers, which are taken to be no hash of a name.)  *)
Hit(x, k) == LET i == Before(x, k) IN i \in Slots /\ x.entries[i] = k

(* No walk from a root to a leaf meets more nodes than there are blocks.   *)
MaxLevel == Cardinality(Blocks)

(* Where a walk from x is on each level, if step[x] is where it goes from x. *)
Walk(step, x) ==
  LET at[h \in 0..MaxLevel] == IF h = 0 THEN x ELSE step[at[h - 1]]
  IN  at

(* btree_node_lookup from node b: the block it is at on level h, or 0 when *)
(* it has ended or reached block 0.                                        *)
Descent(b, k) ==
  Walk([c \in Blocks \cup {0} |->
          IF c = 0 \/ Hit(node[c], k) \/ node[c].leaf THEN 0
          ELSE node[c].children[Before(node[c], k)]], b)

Lookup(b, k) ==
  LET at == Descent(b, k)
  IN  \E h \in 0..MaxLevel : at[h] # 0 /\ Hit(node[at[h]], k)

----
(***************************************************************************)
(* Insertion.                                                              *)
(***************************************************************************)

\* Mutant: the parent's pointers are not moved apart.
SplitChildOver(nodes, par, lhs, i, rhs) ==
  LET l == nodes[lhs]
      upper == [NodeInit(l.leaf) EXCEPT
                  !.nr_of_keys = T - 1,
                  !.entries = [j \in Slots |-> IF j < T - 1 THEN l.entries[j + T] ELSE 0],
                  !.children = [j \in Kids |->
                                  IF j < T /\ ~l.leaf THEN l.children[j + T] ELSE 0]]
  IN  [nodes EXCEPT ![rhs] = upper, ![lhs].nr_of_keys = T - 1,
                    ![par].entries = Inserted(@, i, nodes[par].nr_of_keys, l.entries[T - 1]),
                    ![par].children[i + 1] = rhs,
                    ![par].nr_of_keys = @ + 1]

(* btree_split_child: rhs takes the upper half of lhs, which is child      *)
(* number i of par; the key between them moves up.  What moves stays in    *)
(* the slots of lhs behind its last key.                                   *)
SplitChild(nodes, par, lhs, i, rhs) ==
  LET l == nodes[lhs]
      p == nodes[par]
      upper == [NodeInit(l.leaf) EXCEPT
                  !.nr_of_keys = T - 1,
                  !.entries = [j \in Slots |-> IF j < T - 1 THEN l.entries[j + T] ELSE 0],
                  !.children = [j \in Kids |->
                                  IF j < T /\ ~l.leaf THEN l.children[j + T] ELSE 0]]
      above == [p EXCEPT !.entries = Inserted(@, i, p.nr_of_keys, l.entries[T - 1]),
                         !.children = Inserted(@, i + 1, p.nr_of_keys + 1, rhs),
                         !.nr_of_keys = @ + 1]
  IN  [nodes EXCEPT ![rhs] = upper, ![par] = above, ![lhs].nr_of_keys = T - 1]

Gaps(S) == {k \in Keys \ S : \E l \in S : k < l}

(* add_entry: a name is inserted unless the lookup finds it; then the call *)
(* is refused and nothing changes.  Once a call has damaged the tree, no   *)
(* further call is looked at.                                              *)
StartInsert(k) ==
  /\ call = Idle
  /\ harm = {}
  /\ ~Lookup(root, k)
  /\ Cardinality(Gaps(names \cup {k})) <= MaxGaps
  /\ call' = [Idle EXCEPT !.op = IF Full(node[root]) THEN "raise" ELSE "insert",
                          !.name = k, !.key = k, !.at = root]
  /\ UNCHANGED <<node, used, other, root, names, harm, removals>>

(* btree_node_insert under a full root: a node above it, with no keys ... *)
RaiseRoot ==
  LET new == LeastOf(Free)
  IN  /\ call.op = "raise"
      /\ Free # {}
      /\ used' = used \cup {new}
      /\ node' = [node EXCEPT ![new] = [NodeInit(FALSE) EXCEPT !.children[0] = root]]
      /\ call' = [call EXCEPT !.op = "halve", !.tall = new]
      /\ UNCHANGED <<other, root, names, harm, removals>>

(* ... then the split, and the walk begins in one of the halves.           *)
HalveRoot ==
  LET rhs == LeastOf(Free)
      nodes == SplitChild(node, call.tall, root, 0, rhs)
  IN  /\ call.op = "halve"
      /\ Free # {}
      /\ used' = used \cup {rhs}
      /\ node' = nodes
      /\ call' = [call EXCEPT !.op = "insert",
                              !.at = IF nodes[call.tall].entries[0] < call.key
                                     THEN rhs ELSE root]
      /\ UNCHANGED <<other, root, names, harm, removals>>

\* Mutant: i_bno is not set to the new root.
FinishInsertOldRoot(nodes) ==
  /\ node' = [nodes EXCEPT ![root].nr_of_files = @ + 1]
  /\ names' = names \cup {call.name}
  /\ call' = Idle
  /\ UNCHANGED root

\* The end of a call that inserted, or believes so; nodes is what it leaves.
FinishInsert(nodes) ==
  LET top == IF call.tall = 0 THEN root ELSE call.tall
  IN  /\ node' = [nodes EXCEPT ![top].nr_of_files = nodes[root].nr_of_files + 1]
      /\ root' = top
      /\ names' = names \cup {call.name}
      /\ call' = Idle

Here == node[call.at]
Place == Before(Here, call.key)
Child == Here.children[Place]

PutInLeaf ==
  /\ call.op = "insert"
  /\ Here.leaf
  /\ FinishInsert([node EXCEPT
       ![call.at] = [Here EXCEPT
                       !.entries = Inserted(@, Place, Here.nr_of_keys, call.key),
                       !.nr_of_keys = @ + 1]])
  /\ UNCHANGED <<used, other, harm, removals>>

WalkDown ==
  /\ call.op = "insert"
  /\ ~Here.leaf
  /\ ~Full(node[Child])
  /\ call' = [call EXCEPT !.at = Child, !.below = TRUE]
  /\ UNCHANGED <<node, used, other, root, names, harm, removals>>

SplitAndWalkDown ==
  LET rhs == LeastOf(Free)
      nodes == SplitChild(node, call.at, Child, Place, rhs)
  IN  /\ call.op = "insert"
      /\ ~Here.leaf
      /\ Full(node[Child])
      /\ Free # {}
      /\ used' = used \cup {rhs}
      /\ node' = nodes
      /\ call' = [call EXCEPT !.below = TRUE,
                              !.at = IF nodes[call.at].entries[Place] < call.key
                                     THEN rhs ELSE Child]
      /\ UNCHANGED <<other, root, names, harm, removals>>

\* Mutant: the call tries again until a block is free.
NoRoomRetry == Free = {} /\ call.op \in {"raise", "halve"} /\ UNCHANGED vars

(* No block is free.  The call fails when it is in btree_node_insert or in *)
(* the first level of btree_insert_non_full; a root it has already halved  *)
(* stays halved, and i_bno the lower half.                                 *)
NoRoom ==
  /\ Free = {}
  /\ \/ call.op \in {"raise", "halve"} /\ UNCHANGED harm
     \/ /\ call.op = "insert" /\ ~call.below /\ ~Here.leaf /\ Full(node[Child])
        /\ harm' = IF call.tall = 0 THEN harm ELSE harm \cup {"upper half dropped"}
  /\ call' = Idle
  /\ UNCHANGED <<node, used, other, root, names, removals>>

(* Further down the result of btree_insert_non_full is not looked at.      *)
NoRoomBelow ==
  /\ Free = {}
  /\ call.op = "insert" /\ call.below /\ ~Here.leaf /\ Full(node[Child])
  /\ FinishInsert(node)
  /\ harm' = harm \cup {"entry dropped"}
  /\ UNCHANGED <<used, other, removals>>

----
(***************************************************************************)
(* Removal.                                                                *)
(***************************************************************************)

(* The name was there when the call was made, by the dentry or by lookup.  *)
StartDelete(k) ==
  /\ call = Idle
  /\ harm = {}
  /\ removals < MaxRemovals
  /\ k \in names \/ Lookup(root, k)
  /\ call' = [Idle EXCEPT !.op = "delete", !.name = k, !.key = k, !.at = root]
  /\ removals' = removals + 1
  /\ UNCHANGED <<node, used, other, root, names, harm>>

Found == Holds(Here, call.key)

\* Mutant: the new root keeps the count of files it had.
FinishDeleteUncounted(nodes) ==
  /\ node' = [nodes EXCEPT ![root].nr_of_files = @ - 1]
  /\ root' = IF nodes[root].nr_of_keys = 0 /\ ~nodes[root].leaf
             THEN nodes[root].children[0] ELSE root
  /\ names' = names \ {call.name}
  /\ call' = Idle

(* btree_delete_entry after btree_node_delete: a root without keys hands   *)
(* over to its first child; its own block is not put.                      *)
FinishDelete(nodes) ==
  LET top == IF nodes[root].nr_of_keys = 0 /\ ~nodes[root].leaf
             THEN nodes[root].children[0] ELSE root
  IN  /\ node' = [nodes EXCEPT ![top].nr_of_files = nodes[root].nr_of_files - 1]
      /\ root' = top
      /\ names' = names \ {call.name}
      /\ call' = Idle

(* btree_node_remove_from_leaf *)
TakeFromLeaf ==
  /\ call.op = "delete" /\ Here.leaf /\ Found
  /\ FinishDelete([node EXCEPT
       ![call.at] = [Here EXCEPT !.entries = Removed(@, Place, Here.nr_of_keys),
                                 !.nr_of_keys = @ - 1]])
  /\ UNCHANGED <<used, other, harm, removals>>

\* Mutant: the walk takes the child before the last.
LastLeafBefore(b) ==
  LET down == [c \in Blocks |-> IF node[c].leaf THEN c
                                ELSE node[c].children[node[c].nr_of_keys - 1]]
  IN  node[Walk(down, b)[MaxLevel]]

(* The last leaf below block b, and the first. *)
LastLeaf(b) ==
  LET down == [c \in Blocks |-> IF node[c].leaf THEN c
                                ELSE node[c].children[node[c].nr_of_keys]]
  IN  node[Walk(down, b)[MaxLevel]]

FirstLeaf(b) ==
  LET down == [c \in Blocks |-> IF node[c].leaf THEN c ELSE node[c].children[0]]
  IN  node[Walk(down, b)[MaxLevel]]

\* The key found gives way to key k, which is then removed below block b.
Replaced(k, b) ==
  /\ node' = [node EXCEPT ![call.at].entries[Place] = k]
  /\ call' = [call EXCEPT !.key = k, !.at = b]
  /\ UNCHANGED <<used, other, root, names, harm, removals>>

(* btree_node_remove_from_nonleaf: the left child is rich, or the right.   *)
PutPredecessor ==
  LET leaf == LastLeaf(Child)
  IN  /\ call.op = "delete" /\ ~Here.leaf /\ Found
      /\ node[Child].nr_of_keys >= T
      /\ Replaced(leaf.entries[leaf.nr_of_keys - 1], Child)

NextChild == Here.children[Place + 1]

PutSuccessor ==
  /\ call.op = "delete" /\ ~Here.leaf /\ Found
  /\ node[Child].nr_of_keys < T /\ node[NextChild].nr_of_keys >= T
  /\ Replaced(FirstLeaf(NextChild).entries[0], NextChild)

WalkDownToDelete ==
  /\ call.op = "delete" /\ ~Here.leaf /\ ~Found
  /\ node[Child].nr_of_keys >= T
  /\ call' = [call EXCEPT !.at = Child]
  /\ UNCHANGED <<node, used, other, root, names, harm, removals>>

(* btree_node_fill, steal_from_next: a key passes from the next child      *)
(* through the parent.  (fill calls steal_from_previous only when the      *)
(* child that has too few keys has enough, which is never.)                *)
StealFromNext ==
  LET l == node[Child]
      r == node[NextChild]
      l2 == [l EXCEPT !.entries[l.nr_of_keys] = Here.entries[Place],
                      !.children = IF l.leaf THEN @
                                   ELSE [@ EXCEPT ![l.nr_of_keys + 1] = r.children[0]],
                      !.nr_of_keys = @ + 1]
      r2 == [r EXCEPT !.entries = Removed(@, 0, r.nr_of_keys),
                      !.children = IF r.leaf THEN @ ELSE Removed(@, 0, r.nr_of_keys + 1),
                      !.nr_of_keys = @ - 1]
  IN  /\ call.op = "delete" /\ ~Here.leaf /\ ~Found
      /\ node[Child].nr_of_keys < T
      /\ Place # Here.nr_of_keys /\ node[NextChild].nr_of_keys >= T
      /\ node' = [node EXCEPT ![Child] = l2, ![NextChild] = r2,
                              ![call.at].entries[Place] = r.entries[0]]
      /\ call' = [call EXCEPT !.at = Child]
      /\ UNCHANGED <<used, other, root, names, harm, removals>>

\* Neither of the two children beside key number Place is rich.
MustMerge ==
  /\ call.op = "delete" /\ ~Here.leaf /\ Place # Here.nr_of_keys
  /\ node[Child].nr_of_keys < T /\ node[NextChild].nr_of_keys < T

(* btree_node_merge of two leaves, from remove_from_nonleaf or from fill.  *)
(* The pointers of the parent close up before the one behind lhs is put,   *)
(* and zeroed: that is rhs only when rhs was the last child.               *)
Merge ==
  LET n == Here.nr_of_keys
      lhs == Child
      rhs == NextChild
      kids == Removed(Here.children, Place + 1, n + 1)
      joined == [node[lhs] EXCEPT
                   !.entries = [j \in Slots |->
                      IF j = T - 1 THEN Here.entries[Place]
                      ELSE IF T <= j /\ j < T + node[rhs].nr_of_keys
                           THEN node[rhs].entries[j - T] ELSE @[j]],
                   !.nr_of_keys = @ + node[rhs].nr_of_keys + 1]
      above == [Here EXCEPT !.entries = Removed(@, Place, n),
                            !.children = [kids EXCEPT ![Place + 1] = 0],
                            !.nr_of_keys = n - 1]
  IN  /\ MustMerge
      /\ node[lhs].leaf
      /\ node' = [node EXCEPT ![lhs] = joined, ![call.at] = above]
      /\ used' = used \ {kids[Place + 1]}
      /\ harm' = IF kids[Place + 1] = rhs THEN harm ELSE harm \cup {"wrong block put"}
      /\ call' = [call EXCEPT !.at = lhs]
      /\ UNCHANGED <<other, root, names, removals>>

Lost ==
  /\ call' = [call EXCEPT !.op = "lost"]
  /\ UNCHANGED <<node, used, other, root, names, removals>>

(* btree_node_merge of two inner nodes: the loop that copies the pointers  *)
(* tests the number of keys of rhs and runs over the memory behind lhs.    *)
MergeInner ==
  /\ MustMerge
  /\ ~node[Child].leaf
  /\ Lost /\ UNCHANGED harm

(* fill merges the last child into the one before it, which zeroes the     *)
(* pointer the walk follows next.  Block 0 reads as a node whose first     *)
(* child is block 0: the recursion ends only with the stack.               *)
MergeLast ==
  /\ call.op = "delete" /\ ~Here.leaf /\ ~Found
  /\ node[Child].nr_of_keys < T /\ Place = Here.nr_of_keys
  /\ Lost /\ harm' = harm \cup {"block 0 reached"}

(* The key is not in the leaf the walk ends in: the walk goes on to the    *)
(* leaf's pointer, which is 0.                                             *)
NotInLeaf ==
  /\ call.op = "delete" /\ Here.leaf /\ ~Found
  /\ Lost /\ harm' = harm \cup {"block 0 reached"}

----
(***************************************************************************)
(* The rest of the volume: it holds no lock this directory needs.          *)
(***************************************************************************)

OtherTakes ==
  /\ Cardinality(other) < MaxOther
  /\ Free # {}
  /\ used' = used \cup {LeastOf(Free)}
  /\ other' = other \cup {LeastOf(Free)}
  /\ UNCHANGED <<node, root, names, call, harm, removals>>

OtherPuts(b) ==
  /\ other' = other \ {b}
  /\ used' = used \ {b}
  /\ UNCHANGED <<node, root, names, call, harm, removals>>

----
Insertion ==
  \/ RaiseRoot
  \/ HalveRoot
  \/ PutInLeaf
  \/ WalkDown
  \/ SplitAndWalkDown
  \/ NoRoom
  \/ NoRoomBelow

Removal ==
  \/ TakeFromLeaf
  \/ PutPredecessor
  \/ PutSuccessor
  \/ WalkDownToDelete
  \/ StealFromNext
  \/ Merge
  \/ MergeInner
  \/ MergeLast
  \/ NotInLeaf

Elsewhere == OtherTakes \/ \E b \in other : OtherPuts(b)

\* A directory in which names are only created.
InsertNext == (\E k \in Keys : StartInsert(k)) \/ Insertion \/ Elsewhere

Next == InsertNext \/ (\E k \in Keys : StartDelete(k)) \/ Removal

InsertSpec == Init /\ [][InsertNext]_vars

Spec == Init /\ [][Next]_vars

(* The thread that makes the call is scheduled.                            *)
FairInsertSpec == InsertSpec /\ WF_vars(Insertion)

----
(***************************************************************************)
(* Properties.                                                             *)
(***************************************************************************)

\* The root the tree has when the call in progress has ended.
Top == IF call.op = "insert" /\ call.tall # 0 THEN call.tall ELSE root

\* The blocks that a node points to.
ChildrenOf(x) == IF x.leaf THEN {} ELSE {x.children[i] : i \in 0..x.nr_of_keys}

\* The blocks that nodes of the level above point to.
Level ==
  Walk([S \in SUBSET (Blocks \cup {0}) |-> UNION {ChildrenOf(node[b]) : b \in S \ {0}}],
       {Top})

Tree == UNION {Level[h] : h \in 0..MaxLevel}

(* Insertions, and the removals that do no harm, keep the shape that       *)
(* lookup relies on: all leaves on one level, every node but the root at   *)
(* least half full, the keys of a node in order.                           *)
Balanced ==
  harm = {} /\ call.op # "lost" =>
    LET tree == Tree
    IN
    /\ 0 \notin tree
    /\ \E h \in 0..MaxLevel : {b \in tree : node[b].leaf} = Level[h]
    /\ \A b \in tree :
         /\ b # Top => node[b].nr_of_keys >= T - 1
         /\ \A i, j \in Slots : i < j /\ j < node[b].nr_of_keys =>
              node[b].entries[i] < node[b].entries[j]

(* One pointer leads to every node of the tree, and its block is marked    *)
(* and nobody else's: what another directory writes never shows up here.   *)
TreeOwnsItsBlocks ==
  harm = {} /\ call.op # "lost" =>
    LET tree == Tree
        pointers == {p \in tree \X Kids : ~node[p[1]].leaf /\ p[2] <= node[p[1]].nr_of_keys}
    IN  /\ tree \subseteq used \ other
        /\ Cardinality(pointers) = Cardinality(tree) - 1

(* While a call is in progress and between calls, every name that has been *)
(* created, but the one the call is about, can be looked up, and is a key  *)
(* of some node: splits, borrowing and merging hide no name for a moment.  *)
NamesStay ==
  harm = {} /\ call.op # "lost" =>
    LET tree == Tree
        top == Top
    IN  \A k \in names \ {call.name} :
          Lookup(top, k) /\ \E b \in tree : Holds(node[b], k)

(* Between calls the names that have been created and not removed are      *)
(* those that lookup finds.                                                *)
FoundExactly ==
  call = Idle /\ harm = {} => \A k \in Keys : k \in names <=> Lookup(root, k)

(* nr_of_files of the root, which moves from root to root, is the number   *)
(* of names; create and link compare it with the limit of a directory.     *)
CountMoves ==
  call = Idle /\ harm = {} => node[root].nr_of_files = Cardinality(names)

(* As long as the volume is not full, every block a call takes becomes part *)
(* of the tree; when a split fails, the block taken above it leaks.        *)
NothingLeaks == call = Idle => used = other \cup Tree

(* A call that creates a name ends, with the name or without.              *)
CallEnds == (call # Idle) ~> (call = Idle)

(* Insertion implements a directory whose content is what lookup finds, at *)
(* every step of a call; a name appears in the step in which its call ends.*)
FoundNow == LET top == Top IN {k \in Keys : Lookup(top, k)}
Abstract == INSTANCE Directory WITH dir <- FoundNow, asked <- call.name
ImplementsDirectory == Abstract!DirSpec

(* What a call that has returned 0 promises, as the tests of the file      *)
(* system have it: what was created is there, and what was removed is not. *)
RemovedIsGone == call = Idle /\ harm = {} => \A k \in Keys \ names : ~Lookup(root, k)
CreatedIsThere == call = Idle => \A k \in names : Lookup(root, k)
====
