---- MODULE BTreeRemovalProofs ----
(***************************************************************************)
(* Theorems about removal in the B-tree of BTree, for every minimum        *)
(* degree, set of blocks and set of hashes.  What each step does to a tree *)
(* is in BTreeShapeProofs; here is what a call in progress, with the key   *)
(* it has moved up from a leaf, keeps true of it.                          *)
(***************************************************************************)
EXTENDS BTreeShapeProofs

----
(* The end of a call that removes.                                         *)

\* A root without keys hands over to its first child.
HeirOf(nodes, top) ==
  IF nodes[top].nr_of_keys = 0 /\ ~nodes[top].leaf THEN nodes[top].children[0] ELSE top

LEMMA HandOver ==
  ASSUME NEW nodes, NEW top, NEW N, NEW span, NEW level, Shape(nodes, top, N, span, level),
         NEW heir, heir = HeirOf(nodes, top)
  PROVE  \E M, sp, lv : /\ Shape(nodes, heir, M, sp, lv) /\ M \subseteq N
                        /\ Content(nodes, M) = Content(nodes, N)
<1>1. /\ nodes \in [Blocks -> Node] /\ N \in SUBSET Blocks /\ top \in N
      /\ span \in [N -> SUBSET Keys] /\ level \in [N -> Nat] /\ span[top] = Keys
      /\ \A b \in N : level[b] <= level[top]
      /\ \A b \in N : NodeSound(nodes[b], b, N, span, level)
      /\ \A b \in N \ {top} : nodes[b].nr_of_keys >= T - 1
      /\ \A b, c \in N : level[b] = level[c] /\ b # c => span[b] \cap span[c] = {}
  BY DEF Shape
<1>2. CASE ~(nodes[top].nr_of_keys = 0 /\ ~nodes[top].leaf)
  BY <1>2 DEF HeirOf
<1>3. CASE nodes[top].nr_of_keys = 0 /\ ~nodes[top].leaf
  <2>1. heir = nodes[top].children[0] /\ 0 \in 0..nodes[top].nr_of_keys
    BY <1>3 DEF HeirOf
  <2>2. heir \in N /\ span[heir] = Between(nodes[top], 0, span[top]) /\ level[heir] = level[top] - 1
    BY <2>1, <1>1, <1>3 DEF NodeSound
  <2>3. span[heir] = Keys
    BY <2>2, <1>1, <1>3 DEF Between
  <2>4. heir # top
    BY <2>2, <1>1
  <2>5. PICK M, sp, lv : /\ M = N \ {top} /\ sp = [b \in M |-> span[b]]
                         /\ lv = [b \in M |-> level[b]]
    OBVIOUS
  <2>6. ASSUME NEW b \in M
        PROVE  level[b] <= level[heir] /\ (b # heir => \E p \in M : PointsTo(nodes[p], b))
    <3>1. b \in N /\ b # top
      BY <2>5
    <3>2. PICK p, i : p \in N /\ ChildOf(nodes, span, level, b, p, i)
      BY <3>1, ParentIs
    <3>3. /\ i \in 0..nodes[p].nr_of_keys /\ ~nodes[p].leaf /\ nodes[p].children[i] = b
          /\ level[b] = level[p] - 1 /\ level[p] <= level[top]
          /\ level[p] \in Nat /\ level[top] \in Nat
      BY <3>2, <1>1 DEF ChildOf
    <3>4. p = top => b = heir
      BY <3>3, <2>1, <1>3
    <3>5. level[b] <= level[heir]
      BY <3>3, <2>2
    <3>6. PointsTo(nodes[p], b)
      BY <3>3 DEF PointsTo
    <3> QED BY <3>2, <3>4, <3>5, <3>6, <2>5
  <2>7. /\ heir \in M /\ M \in SUBSET Blocks /\ M \subseteq N
        /\ sp \in [M -> SUBSET Keys] /\ lv \in [M -> Nat]
        /\ \A b \in M : b \in N /\ b # top /\ sp[b] = span[b] /\ lv[b] = level[b]
    BY <2>2, <2>4, <2>5, <1>1
  <2>8. ASSUME NEW b \in M PROVE NodeSound(nodes[b], b, M, sp, lv)
    <3>1. b \in N /\ NodeSound(nodes[b], b, N, span, level) /\ level[b] \in Nat
          /\ level[b] <= level[top] /\ level[top] \in Nat
      BY <2>7, <1>1
    <3>2. ASSUME NEW i \in 0..nodes[b].nr_of_keys, ~nodes[b].leaf
          PROVE  /\ nodes[b].children[i] \in M
                 /\ sp[nodes[b].children[i]] = Between(nodes[b], i, sp[b])
                 /\ lv[nodes[b].children[i]] = lv[b] - 1
      <4>1. PICK c : c = nodes[b].children[i]
        OBVIOUS
      <4>2. c \in N /\ span[c] = Between(nodes[b], i, span[b]) /\ level[c] = level[b] - 1
        BY <3>1, <3>2, <4>1 DEF NodeSound
      <4>3. c # top
        BY <4>2, <3>1
      <4>4. c \in M
        BY <4>2, <4>3, <2>5
      <4> QED BY <4>1, <4>2, <4>4, <2>7
    <3>3. Sorted(nodes[b]) /\ (nodes[b].leaf <=> lv[b] = 0)
      BY <3>1, <2>7 DEF NodeSound
    <3>4. \A i \in 0..(nodes[b].nr_of_keys - 1) : nodes[b].entries[i] \in sp[b]
      BY <3>1, <2>7 DEF NodeSound
    <3> QED BY <3>2, <3>3, <3>4 DEF NodeSound
  <2>9. \A b \in M \ {heir} : nodes[b].nr_of_keys >= T - 1 /\ \E p \in M : PointsTo(nodes[p], b)
    BY <2>6, <2>7, <1>1
  <2>10. \A b, c \in M : lv[b] = lv[c] /\ b # c => sp[b] \cap sp[c] = {}
    BY <2>7, <1>1
  <2>11. sp[heir] = Keys /\ \A b \in M : lv[b] <= lv[heir]
    BY <2>3, <2>6, <2>7
  <2>12. Shape(nodes, heir, M, sp, lv)
    BY <2>7, <2>8, <2>9, <2>10, <2>11, <1>1 DEF Shape
  <2>13. \A k : ~Holds(nodes[top], k)
    <3>1. \A i \in Slots : ~ i < 0
      BY ConstantFacts DEF Slots
    <3> QED BY <3>1, <1>3 DEF Holds
  <2>14. \A k : (\E b \in M : Holds(nodes[b], k)) <=> \E b \in N : Holds(nodes[b], k)
    BY <2>5, <2>13
  <2>15. Content(nodes, M) = Content(nodes, N)
    BY <2>14 DEF Content
  <2> QED BY <2>7, <2>12, <2>15
<1> QED BY <1>2, <1>3

(* What FinishDelete does to a tree.                                       *)
LEMMA FinishDeleteIs ==
  ASSUME NEW nodes \in [Blocks -> Node], NEW heir \in Blocks, heir = HeirOf(nodes, root),
         root \in Blocks, FinishDelete(nodes), NEW N \in SUBSET Blocks
  PROVE  /\ SameTree(nodes, node', N) /\ root' = heir /\ call' = Idle
         /\ names' = names \ {call.name}
         /\ node'[root'].nr_of_files = nodes[root].nr_of_files - 1
         /\ node' \in [Blocks -> Node]
<1>1. /\ node' = [nodes EXCEPT ![heir].nr_of_files = nodes[root].nr_of_files - 1]
      /\ root' = heir /\ names' = names \ {call.name} /\ call' = Idle
  BY DEF FinishDelete, HeirOf
<1>2. PICK n \in Int : n = nodes[root].nr_of_files - 1
  <2>1. nodes[root] \in Node
    OBVIOUS
  <2>2. nodes[root].nr_of_files \in Int
    BY <2>1 DEF Node
  <2> QED BY <2>2
<1>3. PICK x : x = [nodes[heir] EXCEPT !.nr_of_files = n]
  OBVIOUS
<1>4. nodes[heir] \in Node
  OBVIOUS
<1>5. /\ x \in Node /\ x.nr_of_files = n /\ x.entries = nodes[heir].entries
      /\ x.children = nodes[heir].children /\ x.nr_of_keys = nodes[heir].nr_of_keys
      /\ x.leaf = nodes[heir].leaf
  BY <1>3, <1>4 DEF Node
<1>6. node' = [nodes EXCEPT ![heir] = x]
  BY <1>1, <1>2, <1>3
<1>7. node' \in [Blocks -> Node] /\ node'[heir] = x /\ \A b \in Blocks : b # heir => node'[b] = nodes[b]
  BY <1>5, <1>6
<1>8. SameTree(nodes, node', N)
  BY <1>5, <1>7 DEF SameTree
<1> QED BY <1>1, <1>2, <1>5, <1>7, <1>8

----
(* The inductive invariant of insertion and removal.                       *)

\* Key number j of node w, which is to go, has given way to the key the walk
\* looks for now; in the nodes o it has not.
Moved(o, N, span, level, w, j) ==
  /\ Yields(o, N, span, w, j, call.name, call.key)
  /\ Replaces(o, node, w, j, call.key)
  /\ level[w] > level[call.at]

\* A call that removes is where its key belongs, in a node that can spare one.
\* The nodes o are a tree of the blocks N that holds the names.
Removing(o, N, span, level) ==
  /\ TypeOK /\ harm = {} /\ call.op = "delete"
  /\ Shape(o, root, N, span, level)
  /\ Content(o, N) = names
  /\ N \subseteq used \ other
  /\ o[root].nr_of_files = Cardinality(names)
  /\ call.at \in N /\ call.key \in span[call.at] /\ call.name \in Keys
  /\ call.at = root \/ node[call.at].nr_of_keys >= T
  /\ \/ o = node /\ call.key = call.name
     \/ \E w, j : Moved(o, N, span, level, w, j)

\* A call has damaged the tree, or is lost in it.  One that merged two leaves and
\* put the wrong block goes on to remove its key from the first of them.
Spoilt ==
  /\ TypeOK /\ root \in used \ other
  /\ harm # {} \/ call.op = "lost"
  /\ \/ call = Idle
     \/ call.op = "lost"
     \/ /\ call.op = "delete" /\ harm # {}
        /\ call.at \in Blocks /\ call.at # root /\ node[call.at].leaf
        /\ HeirOf(node, root) \in used \ other

RInv ==
  \/ \E N, span, level : Growing(N, span, level, FALSE)
  \/ \E o, N, span, level : Removing(o, N, span, level)
  \/ Spoilt

LEMMA RemovingFacts ==
  ASSUME NEW o, NEW N, NEW span, NEW level, Removing(o, N, span, level)
  PROVE  /\ node \in [Blocks -> Node] /\ used \in SUBSET Blocks /\ other \in SUBSET used
         /\ names \in SUBSET Keys /\ harm = {} /\ removals \in 0..MaxRemovals
         /\ call \in Call /\ IsFiniteSet(names) /\ Cardinality(names) \in Nat
         /\ o \in [Blocks -> Node] /\ N \in SUBSET Blocks
         /\ span \in [N -> SUBSET Keys] /\ level \in [N -> Nat]
         /\ root \in N /\ root \in Blocks /\ root \in used \ other /\ N \subseteq used \ other
         /\ Shape(o, root, N, span, level)
         /\ call.at \in N /\ call.key \in span[call.at] /\ call.key \in Keys /\ call.name \in Keys
<1>1. TypeOK /\ Shape(o, root, N, span, level) /\ N \subseteq used \ other
      /\ call.at \in N /\ call.key \in span[call.at] /\ call.name \in Keys /\ harm = {}
  BY DEF Removing
<1>2. /\ o \in [Blocks -> Node] /\ N \in SUBSET Blocks /\ root \in N
      /\ span \in [N -> SUBSET Keys] /\ level \in [N -> Nat]
  BY <1>1 DEF Shape
<1>3. call.key \in Keys
  BY <1>1, <1>2
<1>4. IsFiniteSet(names) /\ Cardinality(names) \in Nat
  BY <1>1, ConstantFacts, FS_Subset, FS_CardinalityType DEF TypeOK
<1>5. root \in used \ other /\ root \in Blocks
  BY <1>1, <1>2
<1> QED BY <1>1, <1>2, <1>3, <1>4, <1>5 DEF TypeOK

\* The node the call is at, and what lies below it, are as they were.
LEMMA LowIsSame ==
  ASSUME NEW o, NEW N, NEW span, NEW level, Removing(o, N, span, level),
         NEW b \in N, level[b] <= level[call.at]
  PROVE  o[b] = node[b]
<1>1. /\ N \in SUBSET Blocks /\ level \in [N -> Nat] /\ call.at \in N
  BY RemovingFacts
<1>2. CASE o = node
  BY <1>2
<1>3. CASE \E w, j : Moved(o, N, span, level, w, j)
  <2>1. PICK w, j : Moved(o, N, span, level, w, j)
    BY <1>3
  <2>2. level[w] > level[call.at] /\ w \in N
    BY <2>1 DEF Moved, Yields
  <2>3. w # b
    BY <2>2, <1>1
  <2> QED BY <2>1, <2>3, <1>1 DEF Moved, Replaces
<1> QED BY <1>2, <1>3 DEF Removing

LEMMA HereIs ==
  ASSUME NEW o, NEW N, NEW span, NEW level, Removing(o, N, span, level)
  PROVE  /\ Here = node[call.at] /\ o[call.at] = node[call.at]
         /\ node[call.at] \in Node /\ NodeSound(node[call.at], call.at, N, span, level)
         /\ Place = Before(node[call.at], call.key) /\ call.key \in Nat
         /\ Found <=> Holds(node[call.at], call.key)
<1>1. /\ node \in [Blocks -> Node] /\ call.at \in N /\ N \in SUBSET Blocks /\ call.key \in Keys
      /\ level \in [N -> Nat] /\ Shape(o, root, N, span, level)
  BY RemovingFacts
<1>2. level[call.at] <= level[call.at]
  BY <1>1
<1>3. o[call.at] = node[call.at]
  BY <1>1, <1>2, LowIsSame
<1>4. NodeSound(node[call.at], call.at, N, span, level)
  BY <1>1, <1>3 DEF Shape
<1> QED BY <1>1, <1>3, <1>4, ConstantFacts DEF Here, Place, Found

(* A key that is found is at its place, ...                                *)
LEMMA FoundAt ==
  ASSUME NEW o, NEW N, NEW span, NEW level, Removing(o, N, span, level), Found
  PROVE  /\ Place \in 0..(node[call.at].nr_of_keys - 1) /\ Place \in Slots /\ Place \in Nat
         /\ node[call.at].entries[Place] = call.key
<1>1. PICK x, k : x = node[call.at] /\ k = call.key
  OBVIOUS
<1>2. /\ x \in Node /\ Sorted(x) /\ Place = Before(x, k) /\ k \in Nat /\ Holds(x, k) /\ k \in Keys
  BY <1>1, HereIs, RemovingFacts DEF NodeSound
<1>3. Before(x, k) \in Slots /\ x.entries[Before(x, k)] = k
  BY <1>2, PlaceIsThere DEF Hit
<1>4. PICK i : i = Before(x, k)
  OBVIOUS
<1>5. i \in 0..x.nr_of_keys /\ \A j \in 0..(x.nr_of_keys - 1) : x.entries[j] < k <=> j < i
  BY <1>2, <1>4, BeforeIs
<1>6. PICK a \in Slots : a < x.nr_of_keys /\ x.entries[a] = k
  BY <1>2 DEF Holds
<1>7. a \in 0..(x.nr_of_keys - 1) /\ x.nr_of_keys \in Nat
  BY <1>2, <1>6, EntriesAreNumbers, NodeFacts
<1>8. ~ a < i
  BY <1>2, <1>5, <1>6, <1>7
<1>9. i \in 0..(x.nr_of_keys - 1)
  <2>1. i # x.nr_of_keys
    BY <1>7, <1>8
  <2> QED BY <2>1, <1>5, <1>7
<1>10. i \in Nat
  BY <1>5, <1>7
<1> QED BY <1>1, <1>2, <1>3, <1>4, <1>9, <1>10

(* ... and one that is not is below the child at its place.                *)
LEMMA NotFoundAt ==
  ASSUME NEW o, NEW N, NEW span, NEW level, Removing(o, N, span, level), ~Found, ~Here.leaf
  PROVE  /\ Place \in 0..node[call.at].nr_of_keys /\ Child = node[call.at].children[Place]
         /\ Child \in N /\ call.key \in span[Child] /\ level[Child] = level[call.at] - 1
         /\ node[Child] = o[Child]
<1>1. PICK x, k, i : x = node[call.at] /\ k = call.key /\ i = Before(x, k)
  OBVIOUS
<1>2. /\ x \in Node /\ NodeSound(x, call.at, N, span, level) /\ Place = i
      /\ ~Holds(x, k) /\ ~x.leaf /\ Here = x
  BY <1>1, HereIs
<1>3. level \in [N -> Nat] /\ span \in [N -> SUBSET Keys] /\ call.at \in N /\ k \in span[call.at]
  BY <1>1, RemovingFacts
<1>4. i \in 0..x.nr_of_keys /\ k \in Between(x, i, span[call.at])
  <2>1. PICK K \in SUBSET Keys : K = span[call.at] /\ k \in K
    BY <1>3
  <2>2. Sorted(x)
    BY <1>2 DEF NodeSound
  <2> QED BY <2>1, <2>2, <1>1, <1>2, PlaceIsBetween
<1>5. PICK c : c = x.children[i]
  OBVIOUS
<1>6. c \in N /\ span[c] = Between(x, i, span[call.at]) /\ level[c] = level[call.at] - 1
  BY <1>2, <1>4, <1>5 DEF NodeSound
<1>7. Child = c
  BY <1>2, <1>5 DEF Child
<1>8. level[c] <= level[call.at]
  BY <1>3, <1>6
<1>9. o[c] = node[c]
  BY <1>6, <1>8, LowIsSame
<1> QED BY <1>1, <1>2, <1>4, <1>5, <1>6, <1>7, <1>9

\* The two children beside key number Place.
LEMMA KidsAre ==
  ASSUME NEW o, NEW N, NEW span, NEW level, Removing(o, N, span, level), ~Here.leaf,
         Place \in 0..(node[call.at].nr_of_keys - 1)
  PROVE  /\ Siblings(o, root, N, span, level, call.at, Place, Child, NextChild)
         /\ Child = o[call.at].children[Place] /\ NextChild = o[call.at].children[Place + 1]
         /\ Child \in N /\ NextChild \in N /\ Child \in Blocks /\ NextChild \in Blocks
         /\ o[Child] = node[Child] /\ o[NextChild] = node[NextChild]
         /\ ~o[call.at].leaf /\ Place \in 0..(o[call.at].nr_of_keys - 1)
         /\ level[Child] = level[call.at] - 1 /\ level[NextChild] = level[call.at] - 1
         /\ level[call.at] \in Nat
<1>1. /\ Here = node[call.at] /\ o[call.at] = node[call.at]
      /\ call.at \in N /\ Shape(o, root, N, span, level) /\ N \in SUBSET Blocks
  BY HereIs, RemovingFacts
<1>2. PICK at, i, l, r : at = call.at /\ i = Place /\ l = Child /\ r = NextChild
  OBVIOUS
<1>3. /\ l = o[at].children[i] /\ r = o[at].children[i + 1] /\ at \in N
      /\ ~o[at].leaf /\ i \in 0..(o[at].nr_of_keys - 1)
  BY <1>1, <1>2 DEF Child, NextChild
<1>4. Siblings(o, root, N, span, level, at, i, l, r)
  BY <1>1, <1>3, SiblingsAre
<1>5. /\ l \in N /\ r \in N /\ level[l] = level[at] - 1 /\ level[r] = level[at] - 1
      /\ level[at] \in Nat
  BY <1>4 DEF Siblings
<1>6. level[l] <= level[call.at] /\ level[r] <= level[call.at]
  BY <1>2, <1>5
<1>7. o[l] = node[l] /\ o[r] = node[r]
  BY <1>5, <1>6, LowIsSame
<1>8. l \in Blocks /\ r \in Blocks
  BY <1>1, <1>5
<1> QED BY <1>1, <1>2, <1>3, <1>4, <1>5, <1>7, <1>8

\* The nodes o2 are to the nodes new what o is to those of the current state.
Follows(o, o2, new, N, span, level) ==
  \/ o = node /\ o2 = new /\ call.key = call.name
  \/ \E w, j : /\ Moved(o, N, span, level, w, j)
               /\ Replaces(o2, new, w, j, call.key) /\ o2[w] = o[w]

\* What a step leaves alone or does below the node the call is at, it does to both.
Mirrors(o, o2, new, N, level) ==
  /\ o2 \in [Blocks -> Node]
  /\ \A b \in Blocks : new[b] = node[b] => o2[b] = o[b]
  /\ \A b \in N : level[b] <= level[call.at] => o2[b] = new[b] /\ o[b] = node[b]

LEMMA FollowerExists ==
  ASSUME NEW o, NEW N, NEW span, NEW level, Removing(o, N, span, level),
         NEW new \in [Blocks -> Node], \A b \in N : level[b] > level[call.at] => new[b] = node[b]
  PROVE  \E o2 : Follows(o, o2, new, N, span, level) /\ Mirrors(o, o2, new, N, level)
<1>1. /\ N \in SUBSET Blocks /\ level \in [N -> Nat] /\ call.at \in N /\ o \in [Blocks -> Node]
  BY RemovingFacts
<1>2. \A b \in N : level[b] <= level[call.at] => o[b] = node[b]
  BY LowIsSame
<1>3. CASE o = node /\ call.key = call.name
  <2>1. Follows(o, new, new, N, span, level)
    BY <1>3 DEF Follows
  <2>2. Mirrors(o, new, new, N, level)
    BY <1>3 DEF Mirrors
  <2> QED BY <2>1, <2>2
<1>4. CASE \E w, j : Moved(o, N, span, level, w, j)
  <2>1. PICK w, j : Moved(o, N, span, level, w, j)
    BY <1>4
  <2>2. level[w] > level[call.at] /\ w \in N /\ Replaces(o, node, w, j, call.key)
    BY <2>1 DEF Moved, Yields
  <2>3. PICK o2 : o2 = [b \in Blocks |-> IF b = w THEN o[w] ELSE new[b]]
    OBVIOUS
  <2>4. w \in Blocks /\ o2 \in [Blocks -> Node] /\ o2[w] = o[w] /\ new[w] = node[w]
        /\ \A b \in Blocks : b # w => o2[b] = new[b]
    BY <2>2, <2>3, <1>1
  <2>5. \A b \in Blocks : b # w => node[b] = o[b]
    BY <2>2 DEF Replaces
  <2>6. Replaces(o2, new, w, j, call.key)
    BY <2>2, <2>4 DEF Replaces
  <2>7. Follows(o, o2, new, N, span, level)
    BY <2>1, <2>4, <2>6 DEF Follows
  <2>8. \A b \in Blocks : new[b] = node[b] => o2[b] = o[b]
    BY <2>4, <2>5
  <2>9. \A b \in N : level[b] <= level[call.at] => o2[b] = new[b] /\ o[b] = node[b]
    <3> SUFFICES ASSUME NEW b \in N, level[b] <= level[call.at]
                 PROVE  o2[b] = new[b] /\ o[b] = node[b]
      OBVIOUS
    <3>1. b # w /\ b \in Blocks
      BY <2>2, <1>1
    <3> QED BY <3>1, <2>4, <2>5
  <2>10. Mirrors(o, o2, new, N, level)
    BY <2>4, <2>8, <2>9 DEF Mirrors
  <2> QED BY <2>7, <2>10
<1> QED BY <1>3, <1>4 DEF Removing

\* What a step does to the tree when the call goes on to its child c.
GoesOn(o, o2, N, span, level, M, sp, lv, c) ==
  /\ Shape(o2, root, M, sp, lv) /\ Content(o2, M) = names /\ M \subseteq N
  /\ c \in M /\ call.key \in sp[c] /\ level[c] = level[call.at] - 1
  /\ \A b \in M : lv[b] = level[b]
  /\ \A b \in N : level[b] > level[call.at] => b \in M /\ sp[b] = span[b]
  /\ (\A b \in N : Holds(o[b], call.key) => o[b].leaf)
       => \A b \in M : Holds(o2[b], call.key) => o2[b].leaf
  /\ o2[root].nr_of_files = o[root].nr_of_files

LEMMA RemovingNext ==
  ASSUME NEW o, NEW N, NEW span, NEW level, Removing(o, N, span, level),
         NEW o2, NEW M, NEW sp, NEW lv, NEW c, GoesOn(o, o2, N, span, level, M, sp, lv, c),
         Follows(o, o2, node', N, span, level),
         node' \in [Blocks -> Node], node'[c].nr_of_keys >= T,
         call' = [call EXCEPT !.at = c],
         UNCHANGED <<other, root, names, harm, removals>>,
         used' \in SUBSET Blocks, other \in SUBSET used', M \subseteq used' \ other
  PROVE  Removing(o2, M, sp, lv)'
<1>1. /\ TypeOK /\ harm = {} /\ call.op = "delete" /\ Content(o, N) = names
      /\ o[root].nr_of_files = Cardinality(names)
  BY DEF Removing
<1>2. /\ N \in SUBSET Blocks /\ level \in [N -> Nat] /\ call.at \in N /\ call \in Call
      /\ call.name \in Keys /\ root \in N
  BY RemovingFacts
<1>3. /\ Shape(o2, root, M, sp, lv) /\ Content(o2, M) = names /\ M \subseteq N
      /\ c \in M /\ call.key \in sp[c] /\ level[c] = level[call.at] - 1
      /\ \A b \in M : lv[b] = level[b]
      /\ \A b \in N : level[b] > level[call.at] => b \in M /\ sp[b] = span[b]
      /\ o2[root].nr_of_files = o[root].nr_of_files
      /\ (\A b \in N : Holds(o[b], call.key) => o[b].leaf)
           => \A b \in M : Holds(o2[b], call.key) => o2[b].leaf
  BY DEF GoesOn
<1>4. c \in Blocks /\ lv[c] = level[c] /\ level[call.at] \in Nat /\ root \in M
  BY <1>2, <1>3 DEF Shape
<1>5. /\ call'.op = "delete" /\ call'.name = call.name /\ call'.key = call.key /\ call'.at = c
      /\ call' \in Call
  BY <1>1, <1>2, <1>4 DEF Call
<1>6. TypeOK'
  BY <1>1, <1>3, <1>4, <1>5 DEF TypeOK
<1>7. CASE o = node /\ o2 = node' /\ call.key = call.name
  <2>1. (o2 = node /\ call.key = call.name)'
    BY <1>5, <1>7
  <2> QED BY <2>1, <1>1, <1>3, <1>5, <1>6 DEF Removing
<1>8. CASE \E w, j : /\ Moved(o, N, span, level, w, j)
                     /\ Replaces(o2, node', w, j, call.key) /\ o2[w] = o[w]
  <2>1. PICK w, j : /\ Moved(o, N, span, level, w, j)
                    /\ Replaces(o2, node', w, j, call.key) /\ o2[w] = o[w]
    BY <1>8
  <2>2. /\ Yields(o, N, span, w, j, call.name, call.key) /\ level[w] > level[call.at] /\ w \in N
    BY <2>1 DEF Moved, Yields
  <2>3. w \in M /\ sp[w] = span[w] /\ lv[w] = level[w]
    BY <2>2, <1>3
  <2>4. Yields(o2, M, sp, w, j, call.name, call.key)
    BY <2>1, <2>2, <2>3, <1>1, <1>3 DEF Yields
  <2>5. lv[w] > lv[c]
    BY <2>2, <2>3, <1>2, <1>3, <1>4
  <2>6. Moved(o2, M, sp, lv, w, j)'
    BY <2>1, <2>4, <2>5, <1>5 DEF Moved
  <2>7. (\E w2, j2 : Moved(o2, M, sp, lv, w2, j2))'
    BY <2>6
  <2> QED BY <2>7, <1>1, <1>3, <1>5, <1>6 DEF Removing
<1> QED BY <1>7, <1>8 DEF Follows

(* A call begins.                                                          *)
LEMMA StartDeleteRemoves ==
  ASSUME NEW N, NEW span, NEW level, Growing(N, span, level, FALSE),
         NEW k \in Keys, StartDelete(k)
  PROVE  Removing(node, N, span, level)'
<1>1. /\ node \in [Blocks -> Node] /\ root \in N /\ root \in Blocks /\ N \subseteq used \ other
      /\ Shape(node, Top, N, span, level) /\ removals \in 0..MaxRemovals
  BY GrowingFacts
<1>2. /\ TypeOK /\ harm = {} /\ Content(node, N) = names
      /\ node[root].nr_of_files = Cardinality(names)
  BY DEF Growing
<1>3. /\ call = Idle /\ node' = node /\ used' = used /\ other' = other
      /\ root' = root /\ names' = names /\ harm' = harm
      /\ removals < MaxRemovals /\ removals' = removals + 1
      /\ call' = [Idle EXCEPT !.op = "delete", !.name = k, !.key = k, !.at = root]
  BY DEF StartDelete
<1>4. /\ call'.op = "delete" /\ call'.name = k /\ call'.key = k /\ call'.at = root
      /\ call' \in Call
  BY <1>1, <1>3 DEF Idle, Call, Ops, Hashes
<1>5. Top = root
  BY <1>3 DEF Top, Idle
<1>6. span[root] = Keys
  BY <1>1, <1>5 DEF Shape
<1>7. removals' \in 0..MaxRemovals
  BY <1>1, <1>3, BTreeAssumption
<1>8. TypeOK'
  BY <1>2, <1>3, <1>4, <1>7 DEF TypeOK
<1> QED BY <1>1, <1>2, <1>3, <1>4, <1>5, <1>6, <1>8 DEF Removing

(* The walk goes one level down.                                           *)
LEMMA WalkDownRemoves ==
  ASSUME NEW o, NEW N, NEW span, NEW level, Removing(o, N, span, level), WalkDownToDelete
  PROVE  Removing(o, N, span, level)'
<1>1. /\ node \in [Blocks -> Node] /\ used \in SUBSET Blocks /\ other \in SUBSET used
      /\ N \subseteq used \ other /\ Shape(o, root, N, span, level)
  BY RemovingFacts
<1>2. /\ ~Here.leaf /\ ~Found /\ node[Child].nr_of_keys >= T
      /\ call' = [call EXCEPT !.at = Child]
      /\ node' = node /\ used' = used /\ other' = other /\ root' = root /\ names' = names
      /\ harm' = harm /\ removals' = removals
  BY DEF WalkDownToDelete
<1>3. PICK c : c = Child
  OBVIOUS
<1>4. c \in N /\ call.key \in span[c] /\ level[c] = level[call.at] - 1
  BY <1>2, <1>3, NotFoundAt
<1>5. Content(o, N) = names
  BY DEF Removing
<1>6. GoesOn(o, o, N, span, level, N, span, level, c)
  BY <1>1, <1>4, <1>5 DEF GoesOn
<1>7. Follows(o, o, node', N, span, level)
  <2>1. CASE o = node /\ call.key = call.name
    BY <2>1, <1>2 DEF Follows
  <2>2. CASE \E w, j : Moved(o, N, span, level, w, j)
    BY <2>2, <1>2 DEF Follows, Moved
  <2> QED BY <2>1, <2>2 DEF Removing
<1> QED BY <1>1, <1>2, <1>3, <1>6, <1>7, RemovingNext

(* A key is borrowed for the child the walk goes on to.                    *)
LEMMA StealRemoves ==
  ASSUME NEW o, NEW N, NEW span, NEW level, Removing(o, N, span, level), StealFromNext
  PROVE  \E o2, M, sp, lv : Removing(o2, M, sp, lv)'
<1>1. /\ node \in [Blocks -> Node] /\ used \in SUBSET Blocks /\ other \in SUBSET used
      /\ N \subseteq used \ other /\ Shape(o, root, N, span, level) /\ N \in SUBSET Blocks
      /\ call.at \in N /\ call.at \in Blocks /\ o \in [Blocks -> Node]
      /\ span \in [N -> SUBSET Keys]
  BY RemovingFacts
<1>2. PICK at, i, l, r : at = call.at /\ i = Place /\ l = Child /\ r = NextChild
  OBVIOUS
<1>3. Here = node[at] /\ o[at] = node[at] /\ node[at] \in Node
  BY <1>2, HereIs
<1>4. PICK l2, r2 :
        /\ l2 = [node[l] EXCEPT
             !.entries[node[l].nr_of_keys] = node[at].entries[i],
             !.children = IF node[l].leaf THEN @
                          ELSE [@ EXCEPT ![node[l].nr_of_keys + 1] = node[r].children[0]],
             !.nr_of_keys = @ + 1]
        /\ r2 = [node[r] EXCEPT
             !.entries = Removed(@, 0, node[r].nr_of_keys),
             !.children = IF node[r].leaf THEN @ ELSE Removed(@, 0, node[r].nr_of_keys + 1),
             !.nr_of_keys = @ - 1]
  OBVIOUS
<1>5. /\ call.op = "delete" /\ ~Here.leaf /\ ~Found
      /\ node[l].nr_of_keys < T /\ i # node[at].nr_of_keys /\ node[r].nr_of_keys >= T
      /\ node' = [node EXCEPT ![l] = l2, ![r] = r2, ![at].entries[i] = node[r].entries[0]]
      /\ call' = [call EXCEPT !.at = l]
      /\ used' = used /\ other' = other /\ root' = root /\ names' = names
      /\ harm' = harm /\ removals' = removals
  BY <1>2, <1>3, <1>4 DEF StealFromNext
<1>6. i \in 0..node[at].nr_of_keys /\ call.key \in span[l]
  BY <1>2, <1>5, NotFoundAt
<1>7. i \in 0..(node[at].nr_of_keys - 1) /\ i \in Slots
  <2>1. i \in 0..(node[at].nr_of_keys - 1)
    BY <1>3, <1>5, <1>6, NodeFacts
  <2> QED BY <2>1, <1>3, EntriesAreNumbers
<1>8. /\ Siblings(o, root, N, span, level, at, i, l, r)
      /\ l = o[at].children[i] /\ r = o[at].children[i + 1] /\ l \in N /\ r \in N
      /\ l \in Blocks /\ r \in Blocks /\ o[l] = node[l] /\ o[r] = node[r]
      /\ ~o[at].leaf /\ i \in 0..(o[at].nr_of_keys - 1)
      /\ level[l] = level[at] - 1 /\ level[r] = level[at] - 1 /\ level[at] \in Nat
  BY <1>2, <1>5, <1>7, KidsAre
<1>9. l # r /\ l # at /\ r # at /\ l # root
  BY <1>8 DEF Siblings
<1>10. node[l].nr_of_keys \in T - 1..T - 1
  <2>1. o[l].nr_of_keys >= T - 1
    BY <1>1, <1>8, <1>9 DEF Shape
  <2>2. PICK k \in Int : k = node[l].nr_of_keys
    BY <1>1, <1>8, NodeFacts
  <2>3. k >= T - 1 /\ k < T
    <3>1. o[l] = node[l] /\ node[l].nr_of_keys < T
      BY <1>5, <1>8
    <3> QED BY <3>1, <2>1, <2>2
  <2>4. k \in T - 1..T - 1
    BY <2>3, ConstantFacts
  <2> QED BY <2>2, <2>4
<1>11. node[l].nr_of_keys \in 0..(2 * T - 2) /\ node[r].nr_of_keys > 0
  <2>1. node[r].nr_of_keys \in Int
    BY <1>1, <1>8, NodeFacts
  <2> QED BY <2>1, <1>5, <1>10, ConstantFacts
<1>12. PICK new : new = node'
  OBVIOUS
<1>13. IsStolen(node, new, at, i, l, r)
  <2>1. StealDone(node, at, i, l, r, l2, r2, new)
    BY <1>4, <1>5, <1>12 DEF StealDone
  <2>2. at \in Blocks
    BY <1>1, <1>2
  <2> QED BY <2>1, <2>2, <1>1, <1>7, <1>8, <1>9, <1>11, StolenFrom
<1>14. new \in [Blocks -> Node] /\ \A b \in Blocks : b # at /\ b # l /\ b # r => new[b] = node[b]
  BY <1>13 DEF IsStolen
<1>15. \A b \in N : level[b] > level[call.at] => new[b] = node[b]
  <2> SUFFICES ASSUME NEW b \in N, level[b] > level[at] PROVE new[b] = node[b]
    BY <1>2
  <2>1. b # at /\ b # l /\ b # r
    BY <1>8
  <2> QED BY <2>1, <1>1, <1>14
<1>16. PICK o2 : Follows(o, o2, new, N, span, level) /\ Mirrors(o, o2, new, N, level)
  BY <1>14, <1>15, FollowerExists
<1>17. /\ o2 \in [Blocks -> Node] /\ o2[at] = new[at] /\ o2[l] = new[l] /\ o2[r] = new[r]
       /\ \A b \in Blocks : b # at /\ b # l /\ b # r => o2[b] = o[b]
  <2>1. level[at] <= level[call.at] /\ level[l] <= level[call.at] /\ level[r] <= level[call.at]
    <3>1. /\ level[l] = level[at] - 1 /\ level[r] = level[at] - 1 /\ level[at] \in Nat
          /\ at = call.at
      BY <1>2, <1>8
    <3> QED BY <3>1
  <2> QED BY <2>1, <1>1, <1>2, <1>8, <1>14, <1>16 DEF Mirrors
<1>18. IsStolen(o, o2, at, i, l, r)
  BY <1>1, <1>2, <1>3, <1>8, <1>13, <1>17, StolenAlike
<1>19. StealCase(o, root, N, span, level, o2, at, i, l, r)
  BY <1>1, <1>2, <1>5, <1>8, <1>11, <1>18 DEF StealCase
<1>20. /\ \E sp : /\ Shape(o2, root, N, sp, level)
                  /\ \A k \in span[l] : k \in sp[l]
                  /\ \A b \in N : b # l /\ b # r => sp[b] = span[b]
       /\ Content(o2, N) = Content(o, N)
       /\ \A b \in N : \A k \in span[l] :
            Holds(o2[b], k) => Holds(o[b], k) \/ (b = l /\ Holds(o[at], k))
  BY <1>19, StealShape
<1>21. PICK sp : /\ Shape(o2, root, N, sp, level)
                 /\ \A k \in span[l] : k \in sp[l]
                 /\ \A b \in N : b # l /\ b # r => sp[b] = span[b]
  BY <1>20
<1>22. \A b \in N : level[b] > level[call.at] => b \in N /\ sp[b] = span[b]
  <2> SUFFICES ASSUME NEW b \in N, level[b] > level[at] PROVE sp[b] = span[b]
    BY <1>2
  <2>1. b # r /\ b # l
    BY <1>8
  <2> QED BY <2>1, <1>21
<1>23. \A b \in N : o2[b].leaf <=> o[b].leaf
  <2>1. /\ o2[at].leaf <=> o[at].leaf
        /\ o2[l].leaf <=> o[l].leaf
        /\ o2[r].leaf <=> o[r].leaf
    BY <1>18 DEF IsStolen
  <2> QED BY <2>1, <1>1, <1>17
<1>24. ASSUME \A b \in N : Holds(o[b], call.key) => o[b].leaf, NEW b \in N, Holds(o2[b], call.key)
       PROVE  o2[b].leaf
  <2>1. Holds(o[b], call.key) \/ Holds(o[at], call.key)
    BY <1>6, <1>20, <1>24
  <2>2. ~Holds(o[at], call.key)
    BY <1>1, <1>2, <1>8, <1>24
  <2> QED BY <2>1, <2>2, <1>23, <1>24
<1>25. o2[root].nr_of_files = o[root].nr_of_files
  <2>1. CASE root = at \/ root = r
    BY <2>1, <1>18 DEF IsStolen
  <2>2. CASE root # at /\ root # r
    BY <2>2, <1>9, <1>17, RemovingFacts
  <2> QED BY <2>1, <2>2
<1>26. GoesOn(o, o2, N, span, level, N, sp, level, l)
  <2>1. Content(o2, N) = names
    BY <1>20 DEF Removing
  <2>2. call.key \in sp[l] /\ level[l] = level[call.at] - 1
    BY <1>2, <1>6, <1>8, <1>21
  <2>3. (\A b \in N : Holds(o[b], call.key) => o[b].leaf)
           => \A b \in N : Holds(o2[b], call.key) => o2[b].leaf
    BY <1>24
  <2> QED BY <2>1, <2>2, <2>3, <1>8, <1>21, <1>22, <1>25 DEF GoesOn
<1>27. node'[l].nr_of_keys >= T
  BY <1>10, <1>12, <1>13, ConstantFacts DEF IsStolen
<1>28. Removing(o2, N, sp, level)'
  BY <1>1, <1>5, <1>12, <1>14, <1>16, <1>26, <1>27, RemovingNext
<1> QED BY <1>28

\* What Merge does in a tree; p is the block it puts.
Merging(o, N, span, level, at, i, l, r, p) ==
  /\ at = call.at /\ at \in N /\ at \in Blocks
  /\ Siblings(o, root, N, span, level, at, i, l, r)
  /\ l \in Blocks /\ r \in Blocks
  /\ o[at] = node[at] /\ o[l] = node[l] /\ o[r] = node[r]
  /\ ~o[at].leaf /\ i \in 0..(o[at].nr_of_keys - 1) /\ i \in Nat /\ o[at].nr_of_keys \in Nat
  /\ l = o[at].children[i] /\ r = o[at].children[i + 1]
  /\ node[l].leaf /\ node[l].nr_of_keys = T - 1 /\ node[r].nr_of_keys = T - 1
  /\ call.key \in span[l] \/ call.key = o[at].entries[i]
  /\ IsClosed(node, node', at, i, l, r)
  /\ p = IF i + 1 < o[at].nr_of_keys THEN o[at].children[i + 2] ELSE o[at].children[i + 1]
  /\ used' = used \ {p}
  /\ harm' = IF p = r THEN harm ELSE harm \cup {"wrong block put"}
  /\ call.op = "delete" /\ call' = [call EXCEPT !.at = l]
  /\ other' = other /\ root' = root /\ names' = names /\ removals' = removals

LEMMA MergingIs ==
  ASSUME NEW o, NEW N, NEW span, NEW level, Removing(o, N, span, level), Merge
  PROVE  \E at, i, l, r, p : Merging(o, N, span, level, at, i, l, r, p)
<1>1. /\ node \in [Blocks -> Node] /\ Shape(o, root, N, span, level) /\ N \in SUBSET Blocks
      /\ call.at \in N /\ call.at \in Blocks /\ o \in [Blocks -> Node]
  BY RemovingFacts
<1>2. PICK at, i, l, r : at = call.at /\ i = Place /\ l = Child /\ r = NextChild
  OBVIOUS
<1>3. Here = node[at] /\ o[at] = node[at] /\ node[at] \in Node
  BY <1>2, HereIs
<1>4. PICK kids : kids = Removed(node[at].children, i + 1, node[at].nr_of_keys + 1)
  OBVIOUS
<1>5. PICK joined, above :
        /\ joined = [node[l] EXCEPT
             !.entries = [j \in Slots |->
                IF j = T - 1 THEN node[at].entries[i]
                ELSE IF T <= j /\ j < T + node[r].nr_of_keys THEN node[r].entries[j - T] ELSE @[j]],
             !.nr_of_keys = @ + node[r].nr_of_keys + 1]
        /\ above = [node[at] EXCEPT
             !.entries = Removed(@, i, node[at].nr_of_keys),
             !.children = [kids EXCEPT ![i + 1] = 0],
             !.nr_of_keys = node[at].nr_of_keys - 1]
  OBVIOUS
<1>6. /\ MustMerge /\ node[l].leaf
      /\ node' = [node EXCEPT ![l] = joined, ![at] = above]
      /\ used' = used \ {kids[i + 1]}
      /\ harm' = IF kids[i + 1] = r THEN harm ELSE harm \cup {"wrong block put"}
      /\ call' = [call EXCEPT !.at = l]
      /\ other' = other /\ root' = root /\ names' = names /\ removals' = removals
  BY <1>2, <1>3, <1>4, <1>5 DEF Merge
<1>7. /\ call.op = "delete" /\ ~Here.leaf /\ i # node[at].nr_of_keys
      /\ node[l].nr_of_keys < T /\ node[r].nr_of_keys < T
  BY <1>2, <1>3, <1>6 DEF MustMerge
<1>8. i \in 0..(node[at].nr_of_keys - 1) /\ (call.key \in span[l] \/ call.key = node[at].entries[i])
  <2>1. CASE Found
    BY <2>1, <1>2, FoundAt
  <2>2. CASE ~Found
    <3>1. i \in 0..node[at].nr_of_keys /\ call.key \in span[l]
      BY <2>2, <1>2, <1>7, NotFoundAt
    <3> QED BY <3>1, <1>3, <1>7, NodeFacts
  <2> QED BY <2>1, <2>2
<1>9. /\ Siblings(o, root, N, span, level, at, i, l, r)
      /\ l = o[at].children[i] /\ r = o[at].children[i + 1] /\ l \in N /\ r \in N
      /\ l \in Blocks /\ r \in Blocks /\ o[l] = node[l] /\ o[r] = node[r]
      /\ ~o[at].leaf /\ i \in 0..(o[at].nr_of_keys - 1)
  BY <1>2, <1>7, <1>8, KidsAre
<1>10. l # at /\ l # root /\ r # root
  BY <1>9 DEF Siblings
<1>11. node[l].nr_of_keys = T - 1 /\ node[r].nr_of_keys = T - 1
  <2>1. o[l].nr_of_keys >= T - 1 /\ o[r].nr_of_keys >= T - 1
    BY <1>1, <1>9, <1>10 DEF Shape
  <2>2. node[l].nr_of_keys \in Int /\ node[r].nr_of_keys \in Int
    BY <1>1, <1>9, NodeFacts
  <2> QED BY <2>1, <2>2, <1>7, <1>9, ConstantFacts
<1>12. i \in Nat /\ i < node[at].nr_of_keys /\ node[at].nr_of_keys \in Nat
  BY <1>3, <1>8, NodeFacts
<1>13. /\ IsClosed(node, node', at, i, l, r)
       /\ kids[i + 1] = IF i + 1 < node[at].nr_of_keys THEN node[at].children[i + 2]
                        ELSE node[at].children[i + 1]
  <2>1. PICK new : new = node'
    OBVIOUS
  <2>2. /\ IsClosed(node, new, at, i, l, r)
        /\ kids[i + 1] = IF i + 1 < node[at].nr_of_keys THEN node[at].children[i + 2]
                         ELSE node[at].children[i + 1]
    <3>1. MergeDone(node, at, i, l, r, kids, joined, above, new)
      BY <2>1, <1>4, <1>5, <1>6 DEF MergeDone
    <3>2. at \in Blocks
      BY <1>1, <1>2
    <3> QED BY <3>1, <3>2, <1>1, <1>7, <1>9, <1>10, <1>12, ClosedFrom
  <2> QED BY <2>1, <2>2
<1>14. Merging(o, N, span, level, at, i, l, r, kids[i + 1])
  BY <1>1, <1>2, <1>3, <1>6, <1>7, <1>8, <1>9, <1>11, <1>12, <1>13 DEF Merging
<1> QED BY <1>14

\* The block that is put is that of a child, and of the right one only if it is the last.
LEMMA PutIsAChild ==
  ASSUME NEW o, NEW N, NEW span, NEW level, Removing(o, N, span, level),
         NEW at, NEW i, NEW l, NEW r, NEW p, Merging(o, N, span, level, at, i, l, r, p)
  PROVE  /\ p = r => o[at].nr_of_keys = i + 1
         /\ p # r => i + 1 < o[at].nr_of_keys
         /\ p \in N /\ p # root /\ PointsTo(o[at], p)
<1>1. /\ at \in N /\ ~o[at].leaf /\ i \in Nat /\ o[at].nr_of_keys \in Nat /\ i < o[at].nr_of_keys
      /\ r = o[at].children[i + 1]
      /\ p = IF i + 1 < o[at].nr_of_keys THEN o[at].children[i + 2] ELSE o[at].children[i + 1]
  <2>1. /\ at \in N /\ ~o[at].leaf /\ i \in Nat /\ o[at].nr_of_keys \in Nat
        /\ i \in 0..(o[at].nr_of_keys - 1) /\ r = o[at].children[i + 1]
    BY ZenonT(60) DEF Merging
  <2>2. p = IF i + 1 < o[at].nr_of_keys THEN o[at].children[i + 2] ELSE o[at].children[i + 1]
    BY DEF Merging
  <2> QED BY <2>1, <2>2
<1>2. Shape(o, root, N, span, level) /\ NodeSound(o[at], at, N, span, level)
  BY <1>1, RemovingFacts DEF Shape
<1>3. PICK q \in 0..o[at].nr_of_keys :
         /\ p = o[at].children[q]
         /\ i + 1 < o[at].nr_of_keys => q = i + 2
         /\ ~(i + 1 < o[at].nr_of_keys) => q = i + 1
  <2>1. CASE i + 1 < o[at].nr_of_keys
    <3>1. i + 2 \in 0..o[at].nr_of_keys
      BY <2>1, <1>1
    <3> QED BY <2>1, <3>1, <1>1
  <2>2. CASE ~(i + 1 < o[at].nr_of_keys)
    <3>1. i + 1 \in 0..o[at].nr_of_keys
      BY <1>1
    <3> QED BY <2>2, <3>1, <1>1
  <2> QED BY <2>1, <2>2
<1>4. p \in N /\ p # root /\ PointsTo(o[at], p)
  <2>1. p \in N
    BY <1>1, <1>2, <1>3 DEF NodeSound
  <2>2. p # root
    BY <1>1, <1>2, <1>3, OnePointer
  <2>3. PointsTo(o[at], p)
    BY <1>1, <1>3 DEF PointsTo
  <2> QED BY <2>1, <2>2, <2>3
<1>5. p = r => q = i + 1
  <2> SUFFICES ASSUME p = r PROVE q = i + 1
    OBVIOUS
  <2>1. i + 1 \in 0..o[at].nr_of_keys /\ o[at].children[q] = o[at].children[i + 1]
    BY <1>1, <1>3
  <2> QED BY <2>1, <1>1, <1>2, <1>3, OnePointer
<1>6. q = i + 1 => o[at].nr_of_keys = i + 1
  BY <1>1, <1>3
<1>7. p # r => i + 1 < o[at].nr_of_keys
  BY <1>1
<1> QED BY <1>4, <1>5, <1>6, <1>7

(* Two leaves are merged, and the second was the last child: the walk goes *)
(* on to the leaf they have become.                                        *)
LEMMA MergeRemoves ==
  ASSUME NEW o, NEW N, NEW span, NEW level, Removing(o, N, span, level),
         NEW at, NEW i, NEW l, NEW r, Merging(o, N, span, level, at, i, l, r, r)
  PROVE  \E o2, M, sp, lv : Removing(o2, M, sp, lv)'
<1>1. /\ node \in [Blocks -> Node] /\ used \in SUBSET Blocks /\ other \in SUBSET used
      /\ N \subseteq used \ other /\ Shape(o, root, N, span, level) /\ N \in SUBSET Blocks
      /\ o \in [Blocks -> Node] /\ root \in N
  BY RemovingFacts
<1>2. /\ at = call.at /\ at \in N /\ at \in Blocks
      /\ Siblings(o, root, N, span, level, at, i, l, r)
      /\ l \in Blocks /\ r \in Blocks
      /\ o[at] = node[at] /\ o[l] = node[l] /\ o[r] = node[r]
      /\ ~o[at].leaf /\ i \in 0..(o[at].nr_of_keys - 1) /\ i \in Nat
      /\ l = o[at].children[i] /\ r = o[at].children[i + 1]
      /\ node[l].leaf /\ node[l].nr_of_keys = T - 1 /\ node[r].nr_of_keys = T - 1
      /\ call.key \in span[l] \/ call.key = o[at].entries[i]
      /\ IsClosed(node, node', at, i, l, r)
      /\ used' = used \ {r} /\ harm' = harm
      /\ call' = [call EXCEPT !.at = l]
      /\ other' = other /\ root' = root /\ names' = names /\ removals' = removals
  BY DEF Merging
<1>3. o[at].nr_of_keys = i + 1
  BY PutIsAChild
<1>4. /\ l \in N /\ r \in N /\ l # r /\ l # at /\ r # at /\ l # root /\ r # root
      /\ level[l] = level[at] - 1 /\ level[r] = level[at] - 1 /\ level[at] \in Nat
  BY <1>2 DEF Siblings
<1>5. PICK new : new = node'
  OBVIOUS
<1>6. /\ new \in [Blocks -> Node] /\ \A b \in Blocks : b # at /\ b # l => new[b] = node[b]
  BY <1>2, <1>5, ZenonT(60) DEF IsClosed
<1>7. \A b \in N : level[b] > level[call.at] => new[b] = node[b]
  <2> SUFFICES ASSUME NEW b \in N, level[b] > level[at] PROVE new[b] = node[b]
    BY <1>2
  <2>1. b # at /\ b # l
    BY <1>4
  <2> QED BY <2>1, <1>1, <1>6
<1>8. PICK o2 : Follows(o, o2, new, N, span, level) /\ Mirrors(o, o2, new, N, level)
  BY <1>6, <1>7, FollowerExists
<1>9. /\ o2 \in [Blocks -> Node] /\ o2[at] = new[at] /\ o2[l] = new[l]
      /\ \A b \in Blocks : b # at /\ b # l => o2[b] = o[b]
  <2>1. level[at] <= level[call.at] /\ level[l] <= level[call.at]
    <3>1. at = call.at
      BY <1>2
    <3> QED BY <3>1, <1>4
  <2> QED BY <2>1, <1>1, <1>2, <1>4, <1>6, <1>8 DEF Mirrors
<1>10. IsClosed(o, o2, at, i, l, r)
  <2>1. IsClosed(node, new, at, i, l, r)
    BY <1>2, <1>5
  <2>2. /\ at \in Blocks /\ l \in Blocks /\ r \in Blocks
        /\ o[at] = node[at] /\ o[l] = node[l]
    BY <1>2
  <2>3. o[r] = node[r]
    BY <1>2
  <2> QED BY <2>1, <2>2, <2>3, <1>9, ClosedAlike
<1>11. IsMerged(o, o2, at, i, l, r)
  BY <1>2, <1>3, <1>10, ClosedIsMerged, ZenonT(60)
<1>12. MergeCase(o, root, N, span, level, o2, at, i, l, r)
  <2>1. at = root \/ o[at].nr_of_keys >= T
    BY <1>2 DEF Removing
  <2> QED BY <2>1, <1>1, <1>2, <1>3, <1>11, ZenonT(60) DEF MergeCase
<1>13. PICK M : M = N \ {r}
  OBVIOUS
<1>14. /\ \E sp, lv : /\ Shape(o2, root, M, sp, lv)
                      /\ \A k \in span[l] : k \in sp[l]
                      /\ o[at].entries[i] \in sp[l]
                      /\ \A b \in M : lv[b] = level[b]
                      /\ \A b \in M : b # l => sp[b] = span[b]
       /\ Content(o2, M) = Content(o, N)
       /\ \A b \in M : \A k : Holds(o2[b], k) => b = l \/ Holds(o[b], k)
  <2>1. MergedTree(o, root, N, span, level, o2, at, i, l, N \ {r})
    BY <1>12, MergeShape, Zenon
  <2> QED BY <2>1, <1>13 DEF MergedTree
<1>15. PICK sp, lv : /\ Shape(o2, root, M, sp, lv)
                     /\ \A k \in span[l] : k \in sp[l]
                     /\ o[at].entries[i] \in sp[l]
                     /\ \A b \in M : lv[b] = level[b]
                     /\ \A b \in M : b # l => sp[b] = span[b]
  BY <1>14
<1>16. \A b \in N : level[b] > level[call.at] => b \in M /\ sp[b] = span[b]
  <2> SUFFICES ASSUME NEW b \in N, level[b] > level[at] PROVE b \in M /\ sp[b] = span[b]
    BY <1>2
  <2>1. b # r /\ b # l
    BY <1>4
  <2> QED BY <2>1, <1>13, <1>15
<1>17. /\ o2[l].leaf
       /\ \A b \in M : o2[b].leaf <=> o[b].leaf
  <2>1. (o2[at].leaf <=> o[at].leaf) /\ (o2[l].leaf <=> o[l].leaf)
    BY <1>10 DEF IsClosed
  <2>2. o2[l].leaf
    BY <2>1, <1>2
  <2>3. ASSUME NEW b \in M PROVE o2[b].leaf <=> o[b].leaf
    <3>1. b \in Blocks
      BY <1>1, <1>13
    <3>2. CASE b = at \/ b = l
      BY <3>2, <2>1
    <3>3. CASE b # at /\ b # l
      <4>1. o2[b] = o[b]
        BY <3>1, <3>3, <1>9
      <4> QED BY <4>1
    <3> QED BY <3>2, <3>3
  <2> QED BY <2>2, <2>3
<1>18. (\A b \in N : Holds(o[b], call.key) => o[b].leaf)
           => \A b \in M : Holds(o2[b], call.key) => o2[b].leaf
  BY <1>13, <1>14, <1>17
<1>19. o2[root].nr_of_files = o[root].nr_of_files
  <2>1. CASE root = at
    BY <2>1, <1>10 DEF IsClosed
  <2>2. CASE root # at
    BY <2>2, <1>1, <1>4, <1>9
  <2> QED BY <2>1, <2>2
<1>20. GoesOn(o, o2, N, span, level, M, sp, lv, l)
  <2>1. Content(o2, M) = names
    BY <1>14 DEF Removing
  <2>2. call.key \in sp[l] /\ level[l] = level[call.at] - 1
    BY <1>2, <1>4, <1>15
  <2>3. l \in M /\ M \subseteq N
    BY <1>4, <1>13
  <2> QED BY <2>1, <2>2, <2>3, <1>15, <1>16, <1>18, <1>19 DEF GoesOn
<1>21. node'[l].nr_of_keys >= T
  <2>1. node'[l].nr_of_keys = (T - 1) + (T - 1) + 1
    BY <1>2 DEF IsClosed
  <2> QED BY <2>1, ConstantFacts
<1>22. used' \in SUBSET Blocks /\ other \in SUBSET used' /\ M \subseteq used' \ other
  BY <1>1, <1>2, <1>4, <1>13
<1>23. Removing(o2, M, sp, lv)'
  BY <1>2, <1>5, <1>6, <1>8, <1>20, <1>21, <1>22, RemovingNext
<1> QED BY <1>23

\* No two pointers of a tree lead to the same node.
PointersApart(nodes, N) ==
  \A p, q \in N : ~nodes[p].leaf /\ ~nodes[q].leaf =>
    \A i \in 0..nodes[p].nr_of_keys, j \in 0..nodes[q].nr_of_keys :
      nodes[p].children[i] = nodes[q].children[j] => p = q

LEMMA PointersAreApart ==
  ASSUME NEW nodes, NEW top, NEW N, NEW span, NEW level, Shape(nodes, top, N, span, level)
  PROVE  PointersApart(nodes, N)
BY OnePointer DEF PointersApart

(* The second was not the last: a block of the tree is put that is still a *)
(* node of it, and no more is claimed than that the root keeps its own.    *)
LEMMA MergeSpoils ==
  ASSUME NEW o, NEW N, NEW span, NEW level, Removing(o, N, span, level),
         NEW at, NEW i, NEW l, NEW r, NEW p, Merging(o, N, span, level, at, i, l, r, p), p # r
  PROVE  Spoilt'
<1>1. /\ node \in [Blocks -> Node] /\ used \in SUBSET Blocks /\ other \in SUBSET used
      /\ N \subseteq used \ other /\ Shape(o, root, N, span, level) /\ N \in SUBSET Blocks
      /\ o \in [Blocks -> Node] /\ root \in N /\ root \in Blocks /\ call \in Call
      /\ TypeOK /\ level \in [N -> Nat]
  BY RemovingFacts DEF Removing
<1>2. /\ at = call.at /\ at \in N /\ at \in Blocks
      /\ Siblings(o, root, N, span, level, at, i, l, r)
      /\ l \in Blocks /\ o[at] = node[at] /\ o[l] = node[l]
      /\ ~o[at].leaf /\ i \in Nat /\ o[at].nr_of_keys \in Nat
      /\ node[l].leaf /\ IsClosed(node, node', at, i, l, r)
      /\ used' = used \ {p} /\ harm' = harm \cup {"wrong block put"}
      /\ call.op = "delete" /\ call' = [call EXCEPT !.at = l]
      /\ other' = other /\ root' = root /\ names' = names /\ removals' = removals
  BY DEF Merging
<1>3. i + 1 < o[at].nr_of_keys /\ p \in N /\ p # root /\ PointsTo(o[at], p)
  BY PutIsAChild
<1>4. l # root /\ l # at
  BY <1>2 DEF Siblings
<1>5. call'.op = "delete" /\ call'.at = l /\ call' \in Call
  BY <1>1, <1>2 DEF Call
<1>6. /\ node' \in [Blocks -> Node] /\ (node'[l].leaf <=> node[l].leaf)
      /\ \A b \in Blocks : b # at /\ b # l => node'[b] = node[b]
      /\ node'[at].nr_of_keys = node[at].nr_of_keys - 1
  BY <1>2 DEF IsClosed
<1>7. used' \in SUBSET Blocks /\ other' \in SUBSET used' /\ root \in used' \ other'
      /\ \A b \in N : b # p => b \in used' \ other'
  BY <1>1, <1>2, <1>3
<1>8. TypeOK'
  BY <1>1, <1>2, <1>5, <1>6, <1>7 DEF TypeOK, Harms
<1>9. PICK heir : heir = HeirOf(node', root)
  OBVIOUS
<1>10. heir \in used' \ other'
  <2>1. CASE node'[root].nr_of_keys = 0 /\ ~node'[root].leaf
    <3>1. at # root
      <4>1. PICK m \in Nat : m = o[at].nr_of_keys
        BY <1>2
      <4>2. node'[at].nr_of_keys = m - 1 /\ i + 1 < m
        BY <4>1, <1>2, <1>3, <1>6
      <4>3. i \in Nat /\ i + 1 < m
        BY <4>2, <1>2
      <4>4. m - 1 # 0
        BY <4>3
      <4> QED BY <4>2, <4>4, <2>1
    <3>2. node'[root] = node[root]
      BY <3>1, <1>1, <1>4, <1>6
    <3>3. heir = node[root].children[0]
      BY <2>1, <3>2, <1>9 DEF HeirOf
    <3>4. /\ o[root].children = node[root].children /\ o[root].nr_of_keys = node[root].nr_of_keys
          /\ (o[root].leaf <=> node[root].leaf)
      <4>1. CASE o = node
        BY <4>1
      <4>2. CASE \E w, j : Moved(o, N, span, level, w, j)
        <5>1. PICK w, j : Replaces(o, node, w, j, call.key)
          BY <4>2 DEF Moved
        <5> QED BY <5>1, <1>1 DEF Replaces
      <4> QED BY <4>1, <4>2 DEF Removing
    <3>5. heir = o[root].children[0] /\ 0 \in 0..o[root].nr_of_keys /\ ~o[root].leaf
      BY <2>1, <3>2, <3>3, <3>4
    <3>6. heir \in N
      BY <3>5, <1>1 DEF Shape, NodeSound
    <3>7. PICK q \in 0..o[at].nr_of_keys : o[at].children[q] = p
      BY <1>3 DEF PointsTo
    <3>8. heir # p
      <4> SUFFICES ASSUME heir = p PROVE FALSE
        OBVIOUS
      <4>1. o[root].children[0] = o[at].children[q]
        BY <3>5, <3>7
      <4>2. root = at
        <5>1. PointersApart(o, N)
          BY <1>1, PointersAreApart
        <5> QED BY <5>1, <4>1, <3>5, <3>7, <1>1, <1>2 DEF PointersApart
      <4> QED BY <4>2, <3>1
    <3> QED BY <3>6, <3>8, <1>7
  <2>2. CASE ~(node'[root].nr_of_keys = 0 /\ ~node'[root].leaf)
    BY <2>2, <1>7, <1>9 DEF HeirOf
  <2> QED BY <2>1, <2>2
<1>11. (HeirOf(node, root) \in used \ other)'
  BY <1>2, <1>9, <1>10
<1> QED BY <1>2, <1>4, <1>5, <1>6, <1>7, <1>8, <1>11 DEF Spoilt

(* The key found gives way to the one next to it, which a leaf below child *)
(* number i holds; it is the first time: the key that is moved up is looked *)
(* for below the node it is moved to, and the leaves alone hold it there.  *)
LEMMA ReplacedRemoves ==
  ASSUME NEW o, NEW N, NEW span, NEW level, Removing(o, N, span, level),
         call.op = "delete", ~Here.leaf, Found,
         NEW side \in Sides, NEW i, i = (IF side = "last" THEN Place ELSE Place + 1),
         NEW c, c = Here.children[i], node[c].nr_of_keys >= T,
         NEW s, s = EndKey(node[EndOf(node, c, side)], side), Replaced(s, c)
  PROVE  Removing(o, N, span, level)'
<1>1. /\ node \in [Blocks -> Node] /\ N \in SUBSET Blocks /\ call \in Call /\ TypeOK /\ harm = {}
      /\ N \subseteq used \ other /\ root \in N
      /\ span \in [N -> SUBSET Keys] /\ level \in [N -> Nat]
      /\ call.at \in N /\ call.key \in span[call.at] /\ call.key \in Keys /\ call.name \in Keys
      /\ Shape(o, root, N, span, level)
      /\ Content(o, N) = names /\ o[root].nr_of_files = Cardinality(names)
  BY RemovingFacts DEF Removing
<1>2. PICK at, j : at = call.at /\ j = Place
  OBVIOUS
<1>3. /\ Here = node[at] /\ o[at] = node[at] /\ node[at] \in Node /\ ~node[at].leaf
      /\ NodeSound(node[at], at, N, span, level) /\ Holds(node[at], call.key)
  BY <1>2, HereIs
<1>4. j \in 0..(node[at].nr_of_keys - 1) /\ j \in Slots /\ j \in Nat /\ node[at].entries[j] = call.key
  BY <1>2, FoundAt
<1>5. o = node /\ call.key = call.name
  <2> SUFFICES ASSUME NEW w, NEW k, Moved(o, N, span, level, w, k) PROVE FALSE
    BY DEF Removing
  <2>1. \A b \in N : Holds(o[b], call.key) => o[b].leaf
    BY DEF Moved, Yields
  <2> QED BY <2>1, <1>1, <1>2, <1>3
<1>6. PICK name : name = call.name
  OBVIOUS
<1>7. /\ c \in N /\ s \in span[c] /\ span[c] \subseteq span[at]
      /\ NextTo(node, N, span, at, name, side, s)
  <2>1. Shape(node, root, N, span, level) /\ at \in N
    BY <1>1, <1>2, <1>5
  <2>2. node[at].entries[j] = name
    BY <1>4, <1>5, <1>6
  <2>3. i = (IF side = "last" THEN j ELSE j + 1) /\ c = node[at].children[i]
    BY <1>2, <1>3
  <2> QED BY <2>1, <2>2, <2>3, <1>3, <1>4, Neighbour
<1>8. /\ s \in Keys /\ s \in span[at] /\ s \in Content(node, N) /\ Short(side, s, name)
      /\ \E b \in N : node[b].leaf /\ Holds(node[b], s)
      /\ \A k \in Content(node, N) : Short(side, k, name) => k = s \/ Short(side, k, s)
  BY <1>7 DEF NextTo
<1>9. s \in Nat /\ name \in Nat /\ s # name
  <2>1. s \in Nat /\ name \in Nat
    BY <1>1, <1>6, <1>8, ConstantFacts
  <2> QED BY <2>1, <1>8 DEF Short
<1>10. \A k \in Content(node, N) : k # s /\ k # name => (k < s <=> k < name)
  <2> SUFFICES ASSUME NEW k \in Content(node, N), k # s, k # name PROVE k < s <=> k < name
    OBVIOUS
  <2>1. k \in Nat
    BY ConstantFacts DEF Content
  <2>2. Short(side, k, name) => Short(side, k, s)
    BY <1>8
  <2> QED BY <2>1, <2>2, <1>8, <1>9 DEF Short
<1>11. \A b \in N : Holds(node[b], s) => node[b].leaf
  <2>1. PICK q \in N : node[q].leaf /\ Holds(node[q], s)
    BY <1>8
  <2> SUFFICES ASSUME NEW b \in N, Holds(node[b], s) PROVE node[b].leaf
    OBVIOUS
  <2>2. Shape(node, root, N, span, level)
    BY <1>1, <1>5
  <2>3. b = q
    BY <2>1, <2>2, HeldOnce
  <2> QED BY <2>1, <2>3
<1>12. Yields(node, N, span, at, j, name, s)
  BY <1>1, <1>2, <1>3, <1>4, <1>5, <1>6, <1>8, <1>9, <1>10, <1>11 DEF Yields
<1>13. /\ node' = [node EXCEPT ![at].entries[j] = s]
       /\ call' = [call EXCEPT !.key = s, !.at = c]
       /\ used' = used /\ other' = other /\ root' = root /\ names' = names
       /\ harm' = harm /\ removals' = removals
  BY <1>2 DEF Replaced
<1>14. /\ call'.op = "delete" /\ call'.name = name /\ call'.key = s /\ call'.at = c
       /\ call' \in Call
  BY <1>1, <1>6, <1>7, <1>8, <1>13 DEF Call, Hashes
<1>15. Replaces(node, node', at, j, s)
  <2>1. PICK x : x = [node[at] EXCEPT !.entries[j] = s]
    OBVIOUS
  <2>2. s \in Hashes
    BY <1>8 DEF Hashes
  <2>3. PICK e \in [Slots -> Hashes] : e = node[at].entries
    BY <1>3 DEF Node
  <2>4. PICK f \in [Slots -> Hashes] : f = [e EXCEPT ![j] = s]
    BY <2>2
  <2>5. x = [node[at] EXCEPT !.entries = f]
    BY <2>1, <2>3, <2>4
  <2>6. /\ x \in Node /\ x.entries = f /\ x.children = node[at].children
        /\ x.nr_of_keys = node[at].nr_of_keys /\ x.leaf = node[at].leaf
        /\ x.nr_of_files = node[at].nr_of_files
    BY <2>5, <1>3 DEF Node
  <2>7. node' = [node EXCEPT ![at] = x]
    BY <2>1, <1>13
  <2>8. at \in Blocks
    BY <1>1, <1>2
  <2>9. /\ node' \in [Blocks -> Node] /\ node'[at] = x
        /\ \A b \in Blocks : b # at => node'[b] = node[b]
    BY <2>6, <2>7, <2>8, <1>1
  <2>10. \A a \in Slots : x.entries[a] = IF a = j THEN s ELSE node[at].entries[a]
    BY <2>3, <2>4, <2>6, <1>4
  <2> QED BY <2>6, <2>9, <2>10 DEF Replaces
<1>16. level[at] > level[c] /\ node'[c].nr_of_keys >= T
  <2>1. i \in 0..node[at].nr_of_keys
    BY <1>2, <1>3, <1>4, NodeFacts
  <2>2. level[c] = level[at] - 1
    BY <2>1, <1>3 DEF NodeSound
  <2>3. level[at] > level[c] /\ c # at
    BY <2>2, <1>1, <1>2
  <2>4. node'[c] = node[c]
    BY <2>3, <1>1, <1>7, <1>15 DEF Replaces
  <2> QED BY <2>3, <2>4
<1>17. Moved(o, N, span, level, at, j)'
  <2>1. Yields(o, N, span, at, j, name, s) /\ Replaces(o, node', at, j, s)
    BY <1>5, <1>12, <1>15
  <2> QED BY <2>1, <1>6, <1>14, <1>16 DEF Moved
<1>18. (\E w, k : Moved(o, N, span, level, w, k))'
  BY <1>17
<1>19. TypeOK'
  BY <1>1, <1>13, <1>14, <1>15 DEF TypeOK, Replaces
<1> QED BY <1>1, <1>5, <1>6, <1>7, <1>13, <1>14, <1>16, <1>18, <1>19 DEF Removing

LEMMA PutPredecessorRemoves ==
  ASSUME NEW o, NEW N, NEW span, NEW level, Removing(o, N, span, level), PutPredecessor
  PROVE  Removing(o, N, span, level)'
<1>1. PICK side : side = "last"
  OBVIOUS
<1>2. PICK down : down = [c \in Blocks |-> IF node[c].leaf THEN c
                                           ELSE node[c].children[node[c].nr_of_keys]]
  OBVIOUS
<1>3. Down(node, side) = down
  BY <1>1, <1>2 DEF Down
<1>4. PICK c, leaf : c = Child /\ leaf = LastLeaf(c)
  OBVIOUS
<1>5. leaf = node[EndOf(node, c, side)]
  <2>1. leaf = node[Walk(down, c)[MaxLevel]]
    BY <1>2, <1>4 DEF LastLeaf
  <2> QED BY <2>1, <1>3 DEF EndOf
<1>6. /\ call.op = "delete" /\ ~Here.leaf /\ Found /\ node[c].nr_of_keys >= T
      /\ Replaced(leaf.entries[leaf.nr_of_keys - 1], c)
  BY <1>4 DEF PutPredecessor
<1>7. PICK s : s = EndKey(node[EndOf(node, c, side)], side)
  OBVIOUS
<1>8. s = leaf.entries[leaf.nr_of_keys - 1]
  BY <1>1, <1>5, <1>7 DEF EndKey
<1>9. Replaced(s, c)
  BY <1>6, <1>8
<1>10. PICK i : i = Place
  OBVIOUS
<1>11. i = (IF side = "last" THEN Place ELSE Place + 1) /\ c = Here.children[i] /\ side \in Sides
  BY <1>1, <1>4, <1>10 DEF Child, Sides
<1> QED BY <1>6, <1>7, <1>9, <1>11, ReplacedRemoves

LEMMA PutSuccessorRemoves ==
  ASSUME NEW o, NEW N, NEW span, NEW level, Removing(o, N, span, level), PutSuccessor
  PROVE  Removing(o, N, span, level)'
<1>1. PICK side : side = "first"
  OBVIOUS
<1>2. PICK down : down = [c \in Blocks |-> IF node[c].leaf THEN c ELSE node[c].children[0]]
  OBVIOUS
<1>3. Down(node, side) = down
  BY <1>1, <1>2 DEF Down
<1>4. PICK c, leaf : c = NextChild /\ leaf = FirstLeaf(c)
  OBVIOUS
<1>5. leaf = node[EndOf(node, c, side)]
  <2>1. leaf = node[Walk(down, c)[MaxLevel]]
    BY <1>2, <1>4 DEF FirstLeaf
  <2> QED BY <2>1, <1>3 DEF EndOf
<1>6. /\ call.op = "delete" /\ ~Here.leaf /\ Found /\ node[c].nr_of_keys >= T
      /\ Replaced(leaf.entries[0], c)
  BY <1>4 DEF PutSuccessor
<1>7. PICK s : s = EndKey(node[EndOf(node, c, side)], side)
  OBVIOUS
<1>8. s = leaf.entries[0]
  BY <1>1, <1>5, <1>7 DEF EndKey
<1>9. Replaced(s, c)
  BY <1>6, <1>8
<1>10. PICK i : i = Place + 1
  OBVIOUS
<1>11. i = (IF side = "last" THEN Place ELSE Place + 1) /\ c = Here.children[i] /\ side \in Sides
  BY <1>1, <1>4, <1>10 DEF NextChild, Sides
<1> QED BY <1>6, <1>7, <1>9, <1>11, ReplacedRemoves

\* The tree the key has been taken from, before a root without keys hands over.
LEMMA TakenShape ==
  ASSUME NEW o, NEW N, NEW span, NEW level, Removing(o, N, span, level),
         NEW at, at = call.at, NEW i, i = Place, node[at].leaf, Found,
         NEW new, IsTaken(node, new, at, i)
  PROVE  /\ \E sp : Shape(new, root, N, sp, level)
         /\ Content(new, N) = names \ {call.name} /\ call.name \in names
         /\ new[root].nr_of_files = Cardinality(names)
<1>1. /\ node \in [Blocks -> Node] /\ N \in SUBSET Blocks /\ o \in [Blocks -> Node]
      /\ Shape(o, root, N, span, level) /\ Content(o, N) = names /\ level \in [N -> Nat]
      /\ at \in N /\ at \in Blocks /\ root \in N /\ root \in Blocks
      /\ call.key \in Keys /\ call.name \in Keys
      /\ o[root].nr_of_files = Cardinality(names)
  BY RemovingFacts DEF Removing
<1>2. PICK key : key = call.key
  OBVIOUS
<1>3. /\ o[at] = node[at] /\ i \in 0..(node[at].nr_of_keys - 1) /\ node[at].entries[i] = key
      /\ Holds(node[at], key)
  BY <1>2, HereIs, FoundAt
<1>4. at = root \/ o[at].nr_of_keys >= T
  BY <1>3 DEF Removing
<1>5. /\ new \in [Blocks -> Node] /\ \A b \in Blocks : b # at => new[b] = node[b]
  BY DEF IsTaken
<1>6. \A b \in N : level[b] > level[call.at] => new[b] = node[b]
  <2> SUFFICES ASSUME NEW b \in N, level[b] > level[at] PROVE new[b] = node[b]
    OBVIOUS
  <2>1. b # at
    BY <1>1
  <2> QED BY <2>1, <1>1, <1>5
<1>7. PICK o2 : Follows(o, o2, new, N, span, level) /\ Mirrors(o, o2, new, N, level)
  BY <1>5, <1>6, FollowerExists
<1>8. /\ o2 \in [Blocks -> Node] /\ o2[at] = new[at]
      /\ \A b \in Blocks : b # at => o2[b] = o[b]
  <2>1. level[at] <= level[call.at]
    BY <1>1
  <2> QED BY <2>1, <1>1, <1>5, <1>7 DEF Mirrors
<1>9. IsTaken(o, o2, at, i)
  BY <1>3, <1>8 DEF IsTaken
<1>10. Shape(o2, root, N, span, level) /\ Content(o2, N) = names \ {key}
  BY <1>1, <1>3, <1>4, <1>9, TakeShape
<1>11. o2[root].nr_of_files = Cardinality(names)
  <2>1. CASE root = at
    BY <2>1, <1>1, <1>9 DEF IsTaken
  <2>2. CASE root # at
    BY <2>2, <1>1, <1>8
  <2> QED BY <2>1, <2>2
<1>12. key \in names
  BY <1>1, <1>2, <1>3 DEF Content
<1>13. CASE o = node /\ o2 = new /\ call.key = call.name
  BY <1>2, <1>10, <1>11, <1>12, <1>13
<1>14. CASE \E w, j : /\ Moved(o, N, span, level, w, j)
                      /\ Replaces(o2, new, w, j, call.key) /\ o2[w] = o[w]
  <2>1. PICK w, j : /\ Moved(o, N, span, level, w, j)
                    /\ Replaces(o2, new, w, j, key) /\ o2[w] = o[w]
    BY <1>2, <1>14
  <2>2. PICK name : name = call.name
    OBVIOUS
  <2>3. Yields(o, N, span, w, j, name, key)
    BY <2>1, <2>2, <1>2 DEF Moved
  <2>4. /\ w \in N /\ ~o[w].leaf /\ j \in 0..(o[w].nr_of_keys - 1)
        /\ o[w].entries[j] = name /\ key \in Keys /\ key # name /\ key \in span[w]
        /\ \A k \in Content(o, N) : k # key /\ k # name => (k < key <=> k < name)
    BY <2>3 DEF Yields
  <2>5. key \notin Content(o2, N)
    BY <1>10
  <2>6. \A b \in N : Holds(o2[b], key) => o2[b].leaf
    BY <2>4, <2>5 DEF Content
  <2>7. \A k \in Content(o2, N) : k # key /\ k # name => (k < key <=> k < name)
    BY <2>4, <1>1, <1>10
  <2>8. Yields(o2, N, span, w, j, name, key)
    BY <2>1, <2>4, <2>6, <2>7 DEF Yields
  <2>9. /\ \E sp : Shape(new, root, N, sp, level)
        /\ Content(new, N) = (Content(o2, N) \ {name}) \cup {key}
    BY <2>1, <2>5, <2>8, <1>10, RespanShape
  <2>10. name \in names
    <3>1. o[w] \in Node
      BY <2>4, <1>1
    <3>2. j \in Slots /\ j < o[w].nr_of_keys
      BY <3>1, <2>4, EntriesAreNumbers, NodeFacts
    <3>3. Holds(o[w], name)
      BY <3>2, <2>4 DEF Holds
    <3> QED BY <3>3, <2>2, <2>4, <1>1 DEF Content
  <2>11. Content(new, N) = names \ {name}
    BY <2>4, <2>9, <1>10, <1>12
  <2>12. new[root].nr_of_files = Cardinality(names)
    <3>1. new[root].nr_of_files = o2[root].nr_of_files
      BY <2>1, <1>1 DEF Replaces
    <3> QED BY <3>1, <1>11
  <2> QED BY <2>2, <2>9, <2>10, <2>11, <2>12
<1> QED BY <1>7, <1>13, <1>14 DEF Follows

(* The key is taken from its leaf, and the call ends.                      *)
LEMMA TakeFromLeafRemoves ==
  ASSUME NEW o, NEW N, NEW span, NEW level, Removing(o, N, span, level), TakeFromLeaf
  PROVE  \E M, sp, lv : Growing(M, sp, lv, FALSE)'
<1>1. /\ node \in [Blocks -> Node] /\ used \in SUBSET Blocks /\ other \in SUBSET used
      /\ N \subseteq used \ other /\ N \in SUBSET Blocks /\ root \in Blocks
      /\ names \in SUBSET Keys /\ IsFiniteSet(names) /\ Cardinality(names) \in Nat
      /\ call.at \in N /\ TypeOK /\ harm = {}
  BY RemovingFacts DEF Removing
<1>2. PICK at, i : at = call.at /\ i = Place
  OBVIOUS
<1>3. Here = node[at] /\ node[at] \in Node
  BY <1>2, HereIs
<1>4. PICK new : new = [node EXCEPT ![at] =
           [node[at] EXCEPT !.entries = Removed(@, i, node[at].nr_of_keys),
                            !.nr_of_keys = @ - 1]]
  OBVIOUS
<1>5. /\ node[at].leaf /\ Found /\ FinishDelete(new)
      /\ used' = used /\ other' = other /\ harm' = harm /\ removals' = removals
  BY <1>2, <1>3, <1>4 DEF TakeFromLeaf
<1>6. i \in Nat /\ node[at].nr_of_keys > 0
  <2>1. i \in 0..(node[at].nr_of_keys - 1) /\ i \in Nat
    BY <1>2, <1>5, FoundAt
  <2> QED BY <2>1, <1>3, NodeFacts
<1>7. IsTaken(node, new, at, i)
  BY <1>1, <1>2, <1>4, <1>5, <1>6, TakenIs
<1>8. /\ \E sp : Shape(new, root, N, sp, level)
      /\ Content(new, N) = names \ {call.name} /\ call.name \in names
      /\ new[root].nr_of_files = Cardinality(names)
  BY <1>2, <1>5, <1>7, TakenShape
<1>9. PICK heir : heir = HeirOf(new, root)
  OBVIOUS
<1>10. \E M, sp, lv : Shape(new, heir, M, sp, lv) /\ M \subseteq N /\ Content(new, M) = Content(new, N)
  BY <1>8, <1>9, HandOver
<1>11. PICK M, sp, lv : Shape(new, heir, M, sp, lv) /\ M \subseteq N /\ Content(new, M) = Content(new, N)
  BY <1>10
<1>12. heir \in M /\ M \in SUBSET Blocks /\ heir \in Blocks /\ new \in [Blocks -> Node]
  BY <1>11 DEF Shape
<1>13. /\ SameTree(new, node', M) /\ root' = heir /\ call' = Idle
       /\ names' = names \ {call.name}
       /\ node'[root'].nr_of_files = new[root].nr_of_files - 1
       /\ node' \in [Blocks -> Node]
  BY <1>1, <1>5, <1>9, <1>12, FinishDeleteIs
<1>14. Shape(node', heir, M, sp, lv) /\ Content(node', M) = Content(new, M)
  BY <1>11, <1>13, SameShape
<1>15. Idle \in Call /\ Idle.op = "idle"
  BY DEF Call, Idle, Ops, Hashes
<1>16. Top' = heir /\ Raised' = {}
  BY <1>13, <1>15 DEF Top, Raised
<1>17. Cardinality(names') = Cardinality(names) - 1
  <2>1. PICK k : k = call.name
    OBVIOUS
  <2>2. k \in names /\ names' = names \ {k}
    BY <2>1, <1>8, <1>13
  <2>3. Cardinality(names \ {k}) = Cardinality(names) - 1
    BY <2>2, <1>1, FS_RemoveElement
  <2> QED BY <2>2, <2>3
<1>18. M \subseteq used' \ other'
  BY <1>1, <1>5, <1>11
<1>19. TypeOK'
  <2>1. heir \in used' /\ names' \in SUBSET Keys
    BY <1>1, <1>12, <1>13, <1>18
  <2> QED BY <2>1, <1>1, <1>5, <1>13, <1>15 DEF TypeOK
<1>20. CallSane(M, sp)'
  BY <1>13, <1>15 DEF CallSane
<1>21. Shape(node, Top, M, sp, lv)' /\ (Content(node, M) = names)' /\ root' \in M /\ harm' = {}
  BY <1>1, <1>5, <1>8, <1>11, <1>12, <1>13, <1>14, <1>16
<1>22. (node[root].nr_of_files = Cardinality(names))'
  BY <1>8, <1>13, <1>17
<1>23. Growing(M, sp, lv, FALSE)'
  BY <1>16, <1>18, <1>19, <1>20, <1>21, <1>22 DEF Growing
<1> QED BY <1>23

(* The call loses its way.                                                 *)
LEMMA LostIsSpoilt ==
  ASSUME NEW o, NEW N, NEW span, NEW level, Removing(o, N, span, level), Lost,
         harm' = harm \/ harm' = harm \cup {"block 0 reached"}
  PROVE  Spoilt'
<1>1. TypeOK /\ root \in used \ other /\ call \in Call
  BY RemovingFacts DEF Removing
<1>2. /\ call' = [call EXCEPT !.op = "lost"] /\ node' = node /\ used' = used /\ other' = other
      /\ root' = root /\ names' = names /\ removals' = removals
  BY DEF Lost
<1>3. call' \in Call /\ call'.op = "lost"
  BY <1>1, <1>2 DEF Call, Ops
<1>4. TypeOK'
  BY <1>1, <1>2, <1>3 DEF TypeOK, Harms
<1> QED BY <1>1, <1>2, <1>3, <1>4 DEF Spoilt

(* What other directories and files do leaves this one's blocks alone.     *)
LEMMA ElsewhereIs ==
  ASSUME Elsewhere, used \in SUBSET Blocks, other \in SUBSET used
  PROVE  /\ node' = node /\ root' = root /\ names' = names /\ call' = call
         /\ harm' = harm /\ removals' = removals
         /\ used' \in SUBSET Blocks /\ other' \in SUBSET used' /\ used' \ other' = used \ other
<1>1. CASE OtherTakes
  <2>1. LeastOf(Free) \in Blocks /\ LeastOf(Free) \notin used
    BY <1>1, FreeBlock DEF OtherTakes
  <2> QED BY <1>1, <2>1 DEF OtherTakes
<1>2. CASE \E b \in other : OtherPuts(b)
  <2>1. PICK b \in other : OtherPuts(b)
    BY <1>2
  <2> QED BY <2>1 DEF OtherPuts
<1> QED BY <1>1, <1>2 DEF Elsewhere

LEMMA ElsewhereRemoves ==
  ASSUME NEW o, NEW N, NEW span, NEW level, Removing(o, N, span, level),
         Elsewhere \/ UNCHANGED vars
  PROVE  Removing(o, N, span, level)'
<1>1. TypeOK /\ used \in SUBSET Blocks /\ other \in SUBSET used
  BY RemovingFacts DEF Removing
<1>2. /\ node' = node /\ root' = root /\ names' = names /\ call' = call
      /\ harm' = harm /\ removals' = removals
      /\ used' \in SUBSET Blocks /\ other' \in SUBSET used' /\ used' \ other' = used \ other
  <2>1. CASE Elsewhere
    BY <2>1, <1>1, ElsewhereIs
  <2>2. CASE UNCHANGED vars
    BY <2>2, <1>1 DEF vars
  <2> QED BY <2>1, <2>2
<1>3. root \in used'
  BY <1>2, RemovingFacts
<1>4. TypeOK'
  BY <1>1, <1>2, <1>3 DEF TypeOK
<1>5. (o = node /\ call.key = call.name)' \/ (\E w, j : Moved(o, N, span, level, w, j))'
  BY <1>2 DEF Removing, Moved
<1>6. /\ harm' = {} /\ call'.op = "delete" /\ Shape(o, root', N, span, level)
      /\ Content(o, N) = names' /\ N \subseteq used' \ other'
      /\ o[root'].nr_of_files = Cardinality(names')
      /\ call'.at \in N /\ call'.key \in span[call'.at] /\ call'.name \in Keys
      /\ call'.at = root' \/ node'[call'.at].nr_of_keys >= T
  BY <1>2 DEF Removing
<1> QED BY <1>4, <1>5, <1>6 DEF Removing

(* Damage stays: the call in progress ends or is lost, and none begins.    *)
LEMMA SpoiltStays ==
  ASSUME Spoilt, [Next]_vars
  PROVE  Spoilt'
<1>1. /\ TypeOK /\ root \in used \ other /\ (harm # {} \/ call.op = "lost")
      /\ node \in [Blocks -> Node] /\ used \in SUBSET Blocks /\ other \in SUBSET used
      /\ call \in Call
  BY DEF Spoilt, TypeOK
<1>2. /\ call.op \in {"idle", "lost", "delete"}
      /\ call.op = "idle" => call = Idle
      /\ call = Idle => call.op = "idle"
      /\ call.op = "delete" => /\ harm # {} /\ call.at \in Blocks /\ call.at # root
                               /\ node[call.at].leaf /\ HeirOf(node, root) \in used \ other
  BY DEF Spoilt, Idle
<1>3. CASE Elsewhere \/ UNCHANGED vars
  <2>1. /\ node' = node /\ root' = root /\ names' = names /\ call' = call
        /\ harm' = harm /\ removals' = removals
        /\ used' \in SUBSET Blocks /\ other' \in SUBSET used' /\ used' \ other' = used \ other
    <3>1. CASE Elsewhere
      BY <3>1, <1>1, ElsewhereIs
    <3>2. CASE UNCHANGED vars
      BY <3>2, <1>1 DEF vars
    <3> QED BY <1>3, <3>1, <3>2
  <2>2. root \in used'
    BY <2>1, <1>1
  <2>3. TypeOK'
    BY <2>1, <2>2, <1>1 DEF TypeOK
  <2> QED BY <2>1, <2>3, <1>1, <1>2 DEF Spoilt
<1>4. ~(\E k \in Keys : StartInsert(k)) /\ ~(\E k \in Keys : StartDelete(k))
  BY <1>1, <1>2 DEF StartInsert, StartDelete
<1>5. ~Insertion
  BY <1>2 DEF Insertion, RaiseRoot, HalveRoot, PutInLeaf, WalkDown, SplitAndWalkDown, NoRoom,
              NoRoomBelow
<1>6. CASE call.op = "delete" /\ Removal
  <2>1. /\ harm # {} /\ call.at \in Blocks /\ call.at # root
        /\ node[call.at].leaf /\ HeirOf(node, root) \in used \ other /\ Here = node[call.at]
    BY <1>2, <1>6 DEF Here
  <2>2. TakeFromLeaf \/ NotInLeaf
    BY <1>6, <2>1 DEF Removal, PutPredecessor, PutSuccessor, WalkDownToDelete, StealFromNext, Merge,
                      MergeInner, MergeLast, MustMerge
  <2>3. CASE NotInLeaf
    <3>1. /\ call' = [call EXCEPT !.op = "lost"] /\ node' = node /\ used' = used /\ other' = other
          /\ root' = root /\ names' = names /\ removals' = removals
          /\ harm' = harm \cup {"block 0 reached"}
      BY <2>3 DEF NotInLeaf, Lost
    <3>2. call' \in Call /\ call'.op = "lost"
      BY <3>1, <1>1 DEF Call, Ops
    <3>3. TypeOK'
      BY <3>1, <3>2, <1>1 DEF TypeOK, Harms
    <3> QED BY <3>1, <3>2, <3>3, <1>1 DEF Spoilt
  <2>4. CASE TakeFromLeaf
    <3>1. PICK at, i : at = call.at /\ i = Place
      OBVIOUS
    <3>2. PICK new : new = [node EXCEPT ![at] =
               [node[at] EXCEPT !.entries = Removed(@, i, node[at].nr_of_keys),
                                !.nr_of_keys = @ - 1]]
      OBVIOUS
    <3>3. /\ Found /\ FinishDelete(new)
          /\ used' = used /\ other' = other /\ harm' = harm /\ removals' = removals
      BY <2>1, <2>4, <3>1, <3>2 DEF TakeFromLeaf
    <3>4. i \in Nat /\ node[at].nr_of_keys > 0
      <4>1. i \in Kids
        BY <3>1, BeforeIsAKid DEF Place
      <4>2. PICK a \in Slots : a < node[at].nr_of_keys
        BY <2>1, <3>1, <3>3 DEF Found, Holds
      <4>3. node[at].nr_of_keys \in Int
        BY <2>1, <3>1, <1>1, NodeFacts
      <4> QED BY <4>1, <4>2, <4>3, ConstantFacts DEF Kids, Slots
    <3>5. IsTaken(node, new, at, i)
      BY <1>1, <2>1, <3>1, <3>2, <3>4, TakenIs
    <3>6. new \in [Blocks -> Node] /\ new[root] = node[root]
      BY <1>1, <2>1, <3>1, <3>5 DEF IsTaken
    <3>7. PICK heir : heir = HeirOf(new, root)
      OBVIOUS
    <3>8. heir \in used \ other /\ heir \in Blocks /\ root \in Blocks
      BY <1>1, <2>1, <3>6, <3>7 DEF HeirOf
    <3>9. PICK N \in SUBSET Blocks : N = {}
      OBVIOUS
    <3>10. /\ root' = heir /\ call' = Idle /\ names' = names \ {call.name}
           /\ node' \in [Blocks -> Node]
      BY <3>3, <3>6, <3>7, <3>8, <3>9, FinishDeleteIs
    <3>11. Idle \in Call
      BY DEF Call, Idle, Ops, Hashes
    <3>12. TypeOK'
      BY <1>1, <3>3, <3>8, <3>10, <3>11 DEF TypeOK
    <3> QED BY <2>1, <3>3, <3>8, <3>10, <3>12 DEF Spoilt
  <2> QED BY <2>2, <2>3, <2>4
<1>7. Removal => call.op = "delete"
  BY DEF Removal, TakeFromLeaf, PutPredecessor, PutSuccessor, WalkDownToDelete, StealFromNext, Merge,
         MergeInner, MergeLast, MustMerge, NotInLeaf
<1> QED BY <1>3, <1>4, <1>5, <1>6, <1>7 DEF Next, InsertNext

(* Every step keeps the invariant.                                         *)
LEMMA RemovalStep ==
  ASSUME RInv, [Next]_vars
  PROVE  RInv'
<1>1. CASE Spoilt
  BY <1>1, SpoiltStays DEF RInv
<1>2. CASE \E N, span, level : Growing(N, span, level, FALSE)
  <2>1. PICK N, span, level : Growing(N, span, level, FALSE)
    BY <1>2
  <2>2. Damaged' => Spoilt'
    BY DEF Damaged, Spoilt
  <2>3. ~Removal
    <3>1. call.op # "delete"
      BY <2>1 DEF Growing, CallSane
    <3> QED BY <3>1 DEF Removal, TakeFromLeaf, PutPredecessor, PutSuccessor, WalkDownToDelete,
               StealFromNext, Merge, MergeInner, MergeLast, MustMerge, NotInLeaf
  <2>4. CASE \E k \in Keys : StartInsert(k)
    BY <2>1, <2>4, StartInsertGrows DEF RInv
  <2>5. CASE RaiseRoot
    BY <2>1, <2>5, RaiseRootGrows DEF RInv
  <2>6. CASE HalveRoot
    BY <2>1, <2>6, HalveRootGrows DEF RInv
  <2>7. CASE PutInLeaf
    BY <2>1, <2>7, PutInLeafGrows DEF RInv
  <2>8. CASE WalkDown
    BY <2>1, <2>8, WalkDownGrows DEF RInv
  <2>9. CASE SplitAndWalkDown
    BY <2>1, <2>9, SplitAndWalkDownGrows DEF RInv
  <2>10. CASE NoRoom
    BY <2>1, <2>2, <2>10, NoRoomGrows DEF RInv
  <2>11. CASE NoRoomBelow
    BY <2>1, <2>2, <2>11, NoRoomBelowGrows DEF RInv
  <2>12. CASE Elsewhere
    BY <2>1, <2>12, ElsewhereGrows DEF RInv
  <2>13. CASE UNCHANGED vars
    <3>1. Growing(N, span, level, FALSE)'
      BY <2>1, <2>13 DEF vars, Growing, TypeOK, CallSane, Top, Raised
    <3> QED BY <3>1 DEF RInv
  <2>14. CASE \E k \in Keys : StartDelete(k)
    BY <2>1, <2>14, StartDeleteRemoves DEF RInv
  <2> QED BY <2>3, <2>4, <2>5, <2>6, <2>7, <2>8, <2>9, <2>10, <2>11, <2>12, <2>13, <2>14
          DEF Next, InsertNext, Insertion
<1>3. CASE \E o, N, span, level : Removing(o, N, span, level)
  <2>1. PICK o, N, span, level : Removing(o, N, span, level)
    BY <1>3
  <2>2. call.op = "delete"
    BY <2>1 DEF Removing
  <2>3. /\ ~(\E k \in Keys : StartInsert(k)) /\ ~(\E k \in Keys : StartDelete(k)) /\ ~Insertion
    <3>1. call # Idle
      BY <2>2 DEF Idle
    <3>2. ~(\E k \in Keys : StartInsert(k)) /\ ~(\E k \in Keys : StartDelete(k))
      BY <3>1 DEF StartInsert, StartDelete
    <3>3. ~RaiseRoot /\ ~HalveRoot
      BY <2>2 DEF RaiseRoot, HalveRoot
    <3>4. ~PutInLeaf /\ ~WalkDown
      BY <2>2 DEF PutInLeaf, WalkDown
    <3>5. ~SplitAndWalkDown
      BY <2>2 DEF SplitAndWalkDown
    <3>6. ~NoRoom /\ ~NoRoomBelow
      BY <2>2 DEF NoRoom, NoRoomBelow
    <3> QED BY <3>2, <3>3, <3>4, <3>5, <3>6 DEF Insertion
  <2>4. CASE TakeFromLeaf
    BY <2>1, <2>4, TakeFromLeafRemoves DEF RInv
  <2>5. CASE PutPredecessor
    BY <2>1, <2>5, PutPredecessorRemoves DEF RInv
  <2>6. CASE PutSuccessor
    BY <2>1, <2>6, PutSuccessorRemoves DEF RInv
  <2>7. CASE WalkDownToDelete
    BY <2>1, <2>7, WalkDownRemoves DEF RInv
  <2>8. CASE StealFromNext
    BY <2>1, <2>8, StealRemoves DEF RInv
  <2>9. CASE Merge
    <3>1. PICK at, i, l, r, p : Merging(o, N, span, level, at, i, l, r, p)
      BY <2>1, <2>9, MergingIs
    <3>2. CASE p = r
      BY <2>1, <3>1, <3>2, MergeRemoves DEF RInv
    <3>3. CASE p # r
      BY <2>1, <3>1, <3>3, MergeSpoils DEF RInv
    <3> QED BY <3>2, <3>3
  <2>10. CASE MergeInner \/ MergeLast \/ NotInLeaf
    <3>1. Lost /\ (harm' = harm \/ harm' = harm \cup {"block 0 reached"})
      BY <2>10 DEF MergeInner, MergeLast, NotInLeaf
    <3> QED BY <2>1, <3>1, LostIsSpoilt DEF RInv
  <2>11. CASE Elsewhere \/ UNCHANGED vars
    BY <2>1, <2>11, ElsewhereRemoves DEF RInv
  <2> QED BY <2>3, <2>4, <2>5, <2>6, <2>7, <2>8, <2>9, <2>10, <2>11 DEF Next, InsertNext, Removal
<1> QED BY <1>1, <1>2, <1>3 DEF RInv

----
(* The properties.                                                         *)

\* While a call removes, the nodes are the frame of a tree in which every other
\* name lies where it is looked for.
LEMMA RemovingFrame ==
  ASSUME NEW o, NEW N, NEW span, NEW level, Removing(o, N, span, level)
  PROVE  \E sp : /\ Frame(node, root, N, sp, level)
                 /\ \A k \in names \ {call.name} : \E b \in N : Holds(node[b], k) /\ k \in sp[b]
<1>1. /\ Shape(o, root, N, span, level) /\ Content(o, N) = names /\ N \in SUBSET Blocks
      /\ o \in [Blocks -> Node]
  BY RemovingFacts DEF Removing
<1>2. CASE o = node /\ call.key = call.name
  <2>1. Frame(node, root, N, span, level)
    BY <1>1, <1>2, ShapeIsFrame
  <2>2. \A k \in names : \E b \in N : Holds(node[b], k) /\ k \in span[b]
    <3> SUFFICES ASSUME NEW k \in names PROVE \E b \in N : Holds(node[b], k) /\ k \in span[b]
      OBVIOUS
    <3>1. PICK b \in N : Holds(node[b], k)
      BY <1>1, <1>2 DEF Content
    <3>2. k \in span[b]
      BY <1>1, <1>2, <3>1, HeldInSpan
    <3> QED BY <3>1, <3>2
  <2> QED BY <2>1, <2>2
<1>3. CASE \E w, j : Moved(o, N, span, level, w, j)
  <2>1. PICK w, j : Moved(o, N, span, level, w, j)
    BY <1>3
  <2>2. PICK key, name : key = call.key /\ name = call.name
    OBVIOUS
  <2>3. Yields(o, N, span, w, j, name, key) /\ Replaces(o, node, w, j, key)
    BY <2>1, <2>2 DEF Moved
  <2>4. \E sp : /\ Frame(node, root, N, sp, level) /\ key \in sp[w]
                /\ \A b \in N : \A k \in Content(o, N) :
                     k # key /\ k # name /\ k \in span[b] => k \in sp[b]
    BY <1>1, <2>3, Respan
  <2>5. PICK sp : /\ Frame(node, root, N, sp, level) /\ key \in sp[w]
                  /\ \A b \in N : \A k \in Content(o, N) :
                       k # key /\ k # name /\ k \in span[b] => k \in sp[b]
    BY <2>4
  <2>6. /\ w \in N /\ j \in 0..(o[w].nr_of_keys - 1) /\ o[w].entries[j] = name /\ w \in Blocks
        /\ node[w].nr_of_keys = o[w].nr_of_keys /\ o[w] \in Node
        /\ \A a \in Slots : node[w].entries[a] = IF a = j THEN key ELSE o[w].entries[a]
        /\ \A b \in Blocks : b # w => node[b] = o[b]
    BY <1>1, <2>3 DEF Yields, Replaces
  <2>7. j \in Slots /\ j < o[w].nr_of_keys
    BY <2>6, EntriesAreNumbers, NodeFacts
  <2>8. Holds(node[w], key)
    BY <2>6, <2>7 DEF Holds
  <2>9. ASSUME NEW k \in names, k # name, k # key
        PROVE  \E b \in N : Holds(node[b], k) /\ k \in sp[b]
    <3>1. PICK b \in N : Holds(o[b], k)
      BY <1>1 DEF Content
    <3>2. k \in span[b] /\ k \in Content(o, N)
      BY <1>1, <3>1, HeldInSpan
    <3>3. k \in sp[b]
      BY <2>5, <2>9, <3>2
    <3>4. Holds(node[b], k)
      <4>1. CASE b # w
        BY <4>1, <1>1, <2>6, <3>1
      <4>2. CASE b = w
        <5>1. PICK a \in Slots : a < o[w].nr_of_keys /\ o[w].entries[a] = k
          BY <4>2, <3>1 DEF Holds
        <5>2. a # j
          BY <5>1, <2>6, <2>9
        <5> QED BY <4>2, <5>1, <5>2, <2>6 DEF Holds
      <4> QED BY <4>1, <4>2
    <3> QED BY <3>3, <3>4
  <2>10. \A k \in names \ {name} : \E b \in N : Holds(node[b], k) /\ k \in sp[b]
    BY <2>5, <2>6, <2>8, <2>9
  <2> QED BY <2>2, <2>5, <2>10
<1> QED BY <1>2, <1>3 DEF Removing

\* The nodes have as many keys and as many children as those of the tree.
LEMMA RemovingCounts ==
  ASSUME NEW o, NEW N, NEW span, NEW level, Removing(o, N, span, level), NEW b \in N
  PROVE  node[b].nr_of_keys = o[b].nr_of_keys /\ (node[b].leaf <=> o[b].leaf)
<1>1. N \in SUBSET Blocks
  BY RemovingFacts
<1>2. CASE o = node
  BY <1>2
<1>3. CASE \E w, j : Moved(o, N, span, level, w, j)
  <2>1. PICK w, j : Replaces(o, node, w, j, call.key)
    BY <1>3 DEF Moved
  <2>2. CASE b = w
    BY <2>1, <2>2 DEF Replaces
  <2>3. CASE b # w
    BY <2>1, <2>3, <1>1 DEF Replaces
  <2> QED BY <2>2, <2>3
<1> QED BY <1>2, <1>3 DEF Removing

\* Balanced and NamesStay ask of a tree no more than its frame, that its nodes are
\* half full, and that the names lie where they are looked for.
LEMMA FrameImplies ==
  ASSUME NEW N, NEW sp, NEW level, Frame(node, Top, N, sp, level),
         \A b \in N \ {Top} : node[b].nr_of_keys >= T - 1,
         \A k \in names \ {call.name} : \E b \in N : Holds(node[b], k) /\ k \in sp[b]
  PROVE  Balanced /\ NamesStay /\ Tree = N
<1>1. /\ N \in SUBSET Blocks /\ Top \in N /\ level \in [N -> Nat]
      /\ \A b \in N : NodeLinks(node[b], b, N, sp, level)
  BY DEF Frame
<1>2. /\ Tree = N /\ \A h \in 0..MaxLevel : Level[h] = {b \in N : level[b] = level[Top] - h}
      /\ level[Top] \in 0..MaxLevel
  BY TreeIs
<1>3. 0 \notin N
  BY <1>1, ConstantFacts
<1>4. {b \in N : node[b].leaf} = Level[level[Top]]
  <2>1. \A b \in N : node[b].leaf <=> level[b] = 0
    BY <1>1 DEF NodeLinks
  <2>2. level[Top] - level[Top] = 0
    BY <1>1
  <2> QED BY <2>1, <2>2, <1>2
<1>5. \A b \in N : \A i, j \in Slots : i < j /\ j < node[b].nr_of_keys =>
          node[b].entries[i] < node[b].entries[j]
  BY <1>1 DEF NodeLinks, Sorted
<1>6. Balanced
  BY <1>2, <1>3, <1>4, <1>5 DEF Balanced
<1>7. NamesStay
  <2> SUFFICES ASSUME NEW k \in names \ {call.name}
               PROVE  Lookup(Top, k) /\ \E b \in N : Holds(node[b], k)
    BY <1>2 DEF NamesStay
  <2>1. PICK b \in N : Holds(node[b], k) /\ k \in sp[b]
    OBVIOUS
  <2>2. Lookup(Top, k)
    BY <2>1, FrameFinds
  <2> QED BY <2>1, <2>2
<1> QED BY <1>2, <1>6, <1>7

(* The invariant implies the properties.                                   *)
LEMMA RInvImplies ==
  ASSUME RInv
  PROVE  TypeOK /\ Balanced /\ TreeOwnsItsBlocks /\ NamesStay /\ CountMoves
<1>1. CASE Spoilt
  <2>1. TypeOK /\ (harm # {} \/ call.op = "lost")
    BY <1>1 DEF Spoilt
  <2>2. call = Idle => call.op # "lost"
    BY DEF Idle
  <2> QED BY <2>1, <2>2 DEF Balanced, TreeOwnsItsBlocks, NamesStay, CountMoves
<1>2. CASE \E N, span, level : Growing(N, span, level, FALSE)
  <2>1. PICK N, span, level : Growing(N, span, level, FALSE)
    BY <1>2
  <2>2. /\ N \subseteq used \ other /\ Shape(node, Top, N, span, level) /\ names \in SUBSET Keys
    BY <2>1, GrowingFacts
  <2>3. /\ TypeOK /\ Content(node, N) = names /\ node[root].nr_of_files = Cardinality(names)
    BY <2>1 DEF Growing
  <2>4. Frame(node, Top, N, span, level)
    BY <2>2, ShapeIsFrame
  <2>5. \A b \in N \ {Top} : node[b].nr_of_keys >= T - 1
    BY <2>2 DEF Shape
  <2>6. \A k \in names \ {call.name} : \E b \in N : Holds(node[b], k) /\ k \in span[b]
    <3> SUFFICES ASSUME NEW k \in names PROVE \E b \in N : Holds(node[b], k) /\ k \in span[b]
      OBVIOUS
    <3>1. PICK b \in N : Holds(node[b], k)
      BY <2>3 DEF Content
    <3> QED BY <3>1, <2>2, HeldInSpan
  <2>7. Balanced /\ NamesStay /\ Tree = N
    BY <2>4, <2>5, <2>6, FrameImplies
  <2>8. TreeOwnsItsBlocks
    BY <2>2, <2>7, PointersCounted DEF TreeOwnsItsBlocks
  <2>9. CountMoves
    BY <2>3 DEF CountMoves
  <2> QED BY <2>3, <2>7, <2>8, <2>9
<1>3. CASE \E o, N, span, level : Removing(o, N, span, level)
  <2>1. PICK o, N, span, level : Removing(o, N, span, level)
    BY <1>3
  <2>2. /\ N \subseteq used \ other /\ Shape(o, root, N, span, level)
    BY <2>1, RemovingFacts
  <2>3. TypeOK /\ call.op = "delete"
    BY <2>1 DEF Removing
  <2>4. Top = root
    BY <2>3 DEF Top
  <2>5. PICK sp :
          /\ Frame(node, root, N, sp, level)
          /\ \A k \in names \ {call.name} : \E b \in N : Holds(node[b], k) /\ k \in sp[b]
    BY <2>1, RemovingFrame
  <2>6. \A b \in N : node[b].nr_of_keys = o[b].nr_of_keys /\ (node[b].leaf <=> o[b].leaf)
    BY <2>1, RemovingCounts
  <2>7. \A b \in N \ {Top} : node[b].nr_of_keys >= T - 1
    BY <2>2, <2>4, <2>6 DEF Shape
  <2>8. Balanced /\ NamesStay /\ Tree = N
    BY <2>4, <2>5, <2>7, FrameImplies
  <2>9. TreeOwnsItsBlocks
    <3>1. PICK P : P = {p \in N \X Kids : ~node[p[1]].leaf /\ p[2] <= node[p[1]].nr_of_keys}
      OBVIOUS
    <3>2. P = {p \in N \X Kids : ~o[p[1]].leaf /\ p[2] <= o[p[1]].nr_of_keys}
      BY <2>6, <3>1
    <3>3. Cardinality(P) = Cardinality(N) - 1
      BY <2>2, <3>2, PointersCounted
    <3> QED BY <2>2, <2>8, <3>1, <3>3 DEF TreeOwnsItsBlocks
  <2>10. CountMoves
    BY <2>3 DEF CountMoves, Idle
  <2> QED BY <2>3, <2>8, <2>9, <2>10
<1> QED BY <1>1, <1>2, <1>3 DEF RInv

LEMMA RInvForever == Spec => []RInv
<1>1. Init => RInv
  <2>1. Init => GInv(FALSE)
    BY InitGrows
  <2>2. GInv(FALSE) => RInv
    BY DEF GInv, RInv, Damaged, Spoilt
  <2> QED BY <2>1, <2>2
<1>2. RInv /\ [Next]_vars => RInv'
  BY RemovalStep
<1> HIDE DEF RInv
<1> QED BY <1>1, <1>2, PTL DEF Spec

(* Insertion and removal keep the types of the variables, also where a     *)
(* removal has put a wrong block or is lost: no index leaves its array, no *)
(* pointer its volume.                                                     *)
THEOREM RemovalTyped == Spec => []TypeOK
<1>1. RInv => TypeOK
  BY RInvImplies
<1> HIDE DEF RInv
<1> QED BY <1>1, RInvForever, PTL

(* Between any two levels of any call, unless the tree has been damaged,   *)
(* all leaves are on one level, every node but the root is half full and   *)
(* keeps its keys in order: after borrowing, merging and the exchange of a *)
(* key for its neighbour, and when a root without keys hands over.         *)
THEOREM RemovalBalances == Spec => []Balanced
<1>1. RInv => Balanced
  BY RInvImplies
<1> HIDE DEF RInv
<1> QED BY <1>1, RInvForever, PTL

(* One pointer leads to every node, and its block is marked and no other's: *)
(* a merge that puts the block of its second leaf puts one that no pointer *)
(* leads to any more.                                                      *)
THEOREM RemovalOwns == Spec => []TreeOwnsItsBlocks
<1>1. RInv => TreeOwnsItsBlocks
  BY RInvImplies
<1> HIDE DEF RInv
<1> QED BY <1>1, RInvForever, PTL

(* No step of a removal hides another name from lookup: not the exchange,  *)
(* which leaves the neighbour's key in two nodes until it is taken from    *)
(* its leaf, nor the borrowing and merging on the way there.               *)
THEOREM RemovalHidesNothing == Spec => []NamesStay
<1>1. RInv => NamesStay
  BY RInvImplies
<1> HIDE DEF RInv
<1> QED BY <1>1, RInvForever, PTL

(* The count of files follows the root up and down and is, between calls,  *)
(* the number of names.                                                    *)
THEOREM RemovalCounts == Spec => []CountMoves
<1>1. RInv => CountMoves
  BY RInvImplies
<1> HIDE DEF RInv
<1> QED BY <1>1, RInvForever, PTL
====
