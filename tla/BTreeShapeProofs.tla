---- MODULE BTreeShapeProofs ----
(***************************************************************************)
(* Lemmas about the steps of removal in the B-tree of BTree as functions   *)
(* of the nodes, for every minimum degree, set of blocks and set of        *)
(* hashes: where the keys of a tree lie, the last key of the subtree on    *)
(* the left and the first of the one on the right, a key that takes the    *)
(* place of another, a key taken from a leaf, a key borrowed from the next *)
(* child and two leaves merged.                                            *)
(***************************************************************************)
EXTENDS BTreeProofs

----
(* Where the keys of a tree lie.                                           *)

\* What a node holds is below it.
LEMMA HeldInSpan ==
  ASSUME NEW nodes, NEW top, NEW N, NEW span, NEW level, Shape(nodes, top, N, span, level),
         NEW x \in N, NEW k, Holds(nodes[x], k)
  PROVE  k \in span[x] /\ k \in Keys
<1>1. nodes[x] \in Node /\ NodeSound(nodes[x], x, N, span, level) /\ span[x] \in SUBSET Keys
  BY DEF Shape
<1>2. PICK i \in Slots : i < nodes[x].nr_of_keys /\ nodes[x].entries[i] = k
  BY DEF Holds
<1>3. i \in 0..(nodes[x].nr_of_keys - 1)
  BY <1>1, <1>2, EntriesAreNumbers
<1> QED BY <1>1, <1>2, <1>3 DEF NodeSound

(* The keys of a node lie between its children, not below them.            *)
LEMMA HeldNotBetween ==
  ASSUME NEW x \in Node, Sorted(x), NEW k, Holds(x, k), NEW i \in 0..x.nr_of_keys, NEW K
  PROVE  k \notin Between(x, i, K)
<1>1. PICK e \in [Slots -> Nat], n \in 0..(2 * T - 1) : e = x.entries /\ n = x.nr_of_keys
  BY EntriesAreNats, NodeFacts
<1>2. PICK j \in Slots : j < n /\ e[j] = k
  BY <1>1 DEF Holds
<1>3. \A a \in 0..(n - 1) : a \in Slots
  BY <1>1, EntriesAreNumbers
<1>4. \A a, b \in Slots : a < b /\ b < n => e[a] < e[b]
  BY <1>1 DEF Sorted
<1>5. j \in Nat /\ i \in Nat /\ n \in Nat /\ i <= n /\ k \in Nat
  BY <1>1, <1>2, ConstantFacts DEF Slots
<1>6. CASE j < i
  <2>1. i - 1 \in 0..(n - 1) /\ i > 0 /\ (j = i - 1 \/ j < i - 1) /\ i - 1 < n
    BY <1>5, <1>6
  <2>2. i - 1 \in Slots
    BY <2>1, <1>3
  <2>3. ~ e[i - 1] < k
    <3>1. CASE j = i - 1
      BY <3>1, <1>2, <1>5
    <3>2. CASE j < i - 1
      <4>1. e[j] < e[i - 1] /\ e[i - 1] \in Nat
        BY <3>2, <2>1, <2>2, <1>2, <1>4
      <4> QED BY <4>1, <1>2, <1>5
    <3> QED BY <2>1, <3>1, <3>2
  <2> QED BY <2>1, <2>3, <1>1 DEF Between
<1>7. CASE ~ j < i
  <2>1. i \in 0..(n - 1) /\ i < n /\ (j = i \/ i < j)
    BY <1>2, <1>5, <1>7
  <2>2. i \in Slots
    BY <2>1, <1>3
  <2>3. ~ k < e[i]
    <3>1. CASE j = i
      BY <3>1, <1>2, <1>5
    <3>2. CASE i < j
      <4>1. e[i] < e[j] /\ e[i] \in Nat
        BY <3>2, <2>2, <1>2, <1>4
      <4> QED BY <4>1, <1>2, <1>5
    <3> QED BY <2>1, <3>1, <3>2
  <2> QED BY <2>1, <2>3, <1>1 DEF Between
<1> QED BY <1>6, <1>7

\* Node b is child number i of node p.
ChildOf(nodes, span, level, b, p, i) ==
  /\ i \in 0..nodes[p].nr_of_keys /\ ~nodes[p].leaf /\ nodes[p].children[i] = b
  /\ span[b] = Between(nodes[p], i, span[p]) /\ span[b] \subseteq span[p]
  /\ level[b] = level[p] - 1 /\ level[p] \in Nat /\ level[b] \in Nat

(* A node other than the root is a child, one level below its parent, and   *)
(* its keys are between two of the parent's.                               *)
LEMMA ParentIs ==
  ASSUME NEW nodes, NEW top, NEW N, NEW span, NEW level, Shape(nodes, top, N, span, level),
         NEW b \in N, b # top
  PROVE  \E p, i : p \in N /\ ChildOf(nodes, span, level, b, p, i)
<1>1. PICK p \in N : PointsTo(nodes[p], b)
  BY DEF Shape
<1>2. PICK i \in 0..nodes[p].nr_of_keys : ~nodes[p].leaf /\ nodes[p].children[i] = b
  BY <1>1 DEF PointsTo
<1>3. NodeSound(nodes[p], p, N, span, level) /\ level[p] \in Nat /\ level[b] \in Nat
  BY DEF Shape
<1>4. span[b] = Between(nodes[p], i, span[p]) /\ level[b] = level[p] - 1
  BY <1>2, <1>3 DEF NodeSound
<1>5. span[b] \subseteq span[p]
  BY <1>4 DEF Between
<1> QED BY <1>1, <1>2, <1>3, <1>4, <1>5 DEF ChildOf

(* Spans are nested.                                                       *)
LEMMA SpansNest ==
  ASSUME NEW nodes, NEW top, NEW N, NEW span, NEW level, Shape(nodes, top, N, span, level),
         NEW b \in N, NEW c \in N, level[b] <= level[c], NEW k, k \in span[b], k \in span[c]
  PROVE  span[b] \subseteq span[c]
<1>1. /\ level \in [N -> Nat] /\ \A x \in N : level[x] <= level[top]
      /\ \A x, y \in N : level[x] = level[y] /\ x # y => span[x] \cap span[y] = {}
  BY DEF Shape
<1> DEFINE Apart(d) == \E x, y \in N : /\ level[y] - level[x] = d /\ span[x] \cap span[y] # {}
                                       /\ ~ span[x] \subseteq span[y]
           Bad == {d \in Nat : Apart(d)}
<1>2. Bad = {}
  <2> SUFFICES ASSUME Bad # {} PROVE FALSE
    OBVIOUS
  <2>1. PICK d \in Bad : \A h \in Bad : d <= h
    <3>1. Bad \in SUBSET Nat
      OBVIOUS
    <3> HIDE DEF Bad
    <3> QED BY <3>1, LeastOfIsMember
  <2>2. PICK x, y : /\ x \in N /\ y \in N /\ level[y] - level[x] = d
                    /\ span[x] \cap span[y] # {} /\ ~ span[x] \subseteq span[y]
    BY <2>1
  <2>3. PICK q : q \in span[x] /\ q \in span[y]
    BY <2>2
  <2>4. level[x] \in Nat /\ level[y] \in Nat /\ d \in Nat
    BY <2>2, <1>1
  <2>5. level[x] # level[y]
    BY <2>2, <2>3, <1>1
  <2>6. x # top
    BY <2>2, <2>4, <2>5, <1>1
  <2>7. PICK p, i : p \in N /\ ChildOf(nodes, span, level, x, p, i)
    BY <2>2, <2>6, ParentIs, Zenon
  <2>8. d - 1 \in Nat /\ level[y] - level[p] = d - 1 /\ ~ d <= d - 1
    BY <2>2, <2>4, <2>5, <2>7 DEF ChildOf
  <2>9. q \in span[p] /\ q \in span[y]
    BY <2>3, <2>7 DEF ChildOf
  <2>10. ~ span[p] \subseteq span[y]
    BY <2>2, <2>7 DEF ChildOf
  <2>11. Apart(d - 1)
    BY <2>2, <2>7, <2>8, <2>9, <2>10
  <2>12. d - 1 \in Bad
    BY <2>8, <2>11
  <2> HIDE DEF Bad
  <2> QED BY <2>1, <2>8, <2>12
<1>3. level[c] - level[b] \in Nat
  BY <1>1
<1>4. level[c] - level[b] \notin Bad
  BY <1>2
<1> QED BY <1>3, <1>4

(* A span has no gaps.                                                     *)
LEMMA SpansConvex ==
  ASSUME NEW nodes, NEW top, NEW N, NEW span, NEW level, Shape(nodes, top, N, span, level),
         NEW b \in N, NEW l \in span[b], NEW h \in span[b], NEW k \in Keys, l < k, k < h
  PROVE  k \in span[b]
<1>1. /\ level \in [N -> Nat] /\ \A x \in N : level[x] <= level[top] /\ nodes[x] \in Node
      /\ span[top] = Keys /\ span \in [N -> SUBSET Keys]
  BY DEF Shape
<1> DEFINE Gap(d) == \E x \in N : /\ level[top] - level[x] = d
                                  /\ \E q, r \in span[x] : q < k /\ k < r
                                  /\ k \notin span[x]
           Bad == {d \in Nat : Gap(d)}
<1>2. Bad = {}
  <2> SUFFICES ASSUME Bad # {} PROVE FALSE
    OBVIOUS
  <2>1. PICK d \in Bad : \A g \in Bad : d <= g
    <3>1. Bad \in SUBSET Nat
      OBVIOUS
    <3> HIDE DEF Bad
    <3> QED BY <3>1, LeastOfIsMember
  <2>2. PICK x, q, r : /\ x \in N /\ q \in span[x] /\ r \in span[x]
                       /\ level[top] - level[x] = d /\ q < k /\ k < r /\ k \notin span[x]
    BY <2>1
  <2>3. x # top /\ x \in N
    BY <2>2, <1>1
  <2>4. PICK p, i : p \in N /\ ChildOf(nodes, span, level, x, p, i)
    BY <2>3, ParentIs
  <2> USE DEF ChildOf
  <2>5. k \notin span[p]
    <3> SUFFICES ASSUME k \in span[p] PROVE FALSE
      OBVIOUS
    <3>1. PICK e \in [Slots -> Nat], n \in Nat : e = nodes[p].entries /\ n = nodes[p].nr_of_keys
      <4>1. nodes[p] \in Node
        BY <2>4, <1>1
      <4>2. nodes[p].nr_of_keys \in Nat
        BY <4>1, NodeFacts, ConstantFacts
      <4> QED BY <4>1, <4>2, EntriesAreNats
    <3>2. \A a \in 0..(n - 1) : a \in Slots
      BY <3>1, <2>4, <1>1, EntriesAreNumbers
    <3>3. i \in 0..n /\ (i > 0 => i - 1 \in Slots) /\ (i < n => i \in Slots)
      BY <3>1, <3>2, <2>4
    <3>4. (i > 0 => e[i - 1] \in Nat) /\ (i < n => e[i] \in Nat)
      BY <3>1, <3>3
    <3>5. q \in Nat /\ r \in Nat /\ k \in Nat
      BY <2>2, <1>1, ConstantFacts
    <3>6. (i > 0 => e[i - 1] < q) /\ (i < n => r < e[i])
      BY <2>2, <2>4, <3>1 DEF Between
    <3>7. (i > 0 => e[i - 1] < k) /\ (i < n => k < e[i])
      BY <2>2, <3>4, <3>5, <3>6
    <3>8. k \in Between(nodes[p], i, span[p])
      BY <3>1, <3>7 DEF Between
    <3> QED BY <3>8, <2>2, <2>4
  <2>6. level[top] \in Nat /\ level[p] <= level[top]
    BY <2>4, <1>1 DEF Shape
  <2>7. d - 1 \in Nat /\ level[top] - level[p] = d - 1 /\ ~ d <= d - 1
    BY <2>2, <2>4, <2>6
  <2>8. q \in span[p] /\ r \in span[p]
    BY <2>2, <2>4
  <2>9. Gap(d - 1)
    BY <2>2, <2>4, <2>5, <2>7, <2>8
  <2>10. d - 1 \in Bad
    BY <2>7, <2>9
  <2> HIDE DEF Bad
  <2> QED BY <2>1, <2>7, <2>10
<1>3. level[top] - level[b] \in Nat
  BY <1>1 DEF Shape
<1>4. level[top] - level[b] \notin Bad
  BY <1>2
<1> QED BY <1>3, <1>4

(* A key that a node holds is below no node further down.                  *)
LEMMA HeldAbove ==
  ASSUME NEW nodes, NEW top, NEW N, NEW span, NEW level, Shape(nodes, top, N, span, level),
         NEW x \in N, NEW k, Holds(nodes[x], k), NEW b \in N, k \in span[b]
  PROVE  level[x] <= level[b]
<1>1. /\ level \in [N -> Nat] /\ nodes[x] \in Node
      /\ NodeSound(nodes[x], x, N, span, level) /\ \A y \in N : level[y] <= level[top]
      /\ \A y, z \in N : level[y] = level[z] /\ y # z => span[y] \cap span[z] = {}
  BY DEF Shape
<1>2. k \in span[x]
  BY HeldInSpan
<1> DEFINE Deep(d) == \E y \in N : level[x] - level[y] = d /\ k \in span[y]
           Bad == {d \in Nat \ {0} : Deep(d)}
<1>3. Bad = {}
  <2> SUFFICES ASSUME Bad # {} PROVE FALSE
    OBVIOUS
  <2>1. PICK d \in Bad : \A g \in Bad : d <= g
    <3>1. Bad \in SUBSET Nat
      OBVIOUS
    <3> HIDE DEF Bad
    <3> QED BY <3>1, LeastOfIsMember
  <2>2. PICK y \in N : level[x] - level[y] = d /\ k \in span[y]
    BY <2>1
  <2>3. level[x] \in Nat /\ level[y] \in Nat /\ d \in Nat /\ d # 0 /\ level[x] <= level[top]
        /\ level[top] \in Nat
    BY <2>1, <2>2, <1>1 DEF Shape
  <2>4. y # top
    BY <2>2, <2>3
  <2>5. PICK p, i : p \in N /\ ChildOf(nodes, span, level, y, p, i)
    BY <2>2, <2>4, ParentIs
  <2> USE DEF ChildOf
  <2>6. k \in span[p]
    BY <2>2, <2>5
  <2>7. CASE d = 1
    <3>1. level[p] = level[x]
      BY <2>2, <2>3, <2>5, <2>7
    <3>2. p = x
      BY <3>1, <2>5, <2>6, <1>1, <1>2
    <3>3. Sorted(nodes[x])
      BY <1>1 DEF NodeSound
    <3>4. k \notin Between(nodes[x], i, span[p])
      BY <3>2, <3>3, <2>5, <1>1, HeldNotBetween
    <3> QED BY <3>2, <3>4, <2>2, <2>5
  <2>8. CASE d # 1
    <3>1. d - 1 \in Nat \ {0} /\ level[x] - level[p] = d - 1 /\ ~ d <= d - 1
      BY <2>2, <2>3, <2>5, <2>8
    <3>2. d - 1 \in Bad
      BY <3>1, <2>5, <2>6
    <3> HIDE DEF Bad
    <3> QED BY <2>1, <3>1, <3>2
  <2> QED BY <2>7, <2>8
<1>4. level[x] - level[b] \notin Bad
  BY <1>3
<1>5. level[x] \in Nat /\ level[b] \in Nat
  BY <1>1
<1> QED BY <1>4, <1>5

(* A key is at one node.                                                   *)
LEMMA HeldOnce ==
  ASSUME NEW nodes, NEW top, NEW N, NEW span, NEW level, Shape(nodes, top, N, span, level),
         NEW x \in N, NEW y \in N, NEW k, Holds(nodes[x], k), Holds(nodes[y], k)
  PROVE  x = y
<1>1. k \in span[x] /\ k \in span[y]
  BY HeldInSpan
<1>2. level[x] <= level[y] /\ level[y] <= level[x]
  BY <1>1, HeldAbove
<1>3. level[x] \in Nat /\ level[y] \in Nat
  BY DEF Shape
<1>4. level[x] = level[y]
  BY <1>2, <1>3
<1> QED BY <1>1, <1>4 DEF Shape

(* A key is held where it lies lowest: in a leaf, if it lies below one.    *)
LEMMA HeldInLeaf ==
  ASSUME NEW nodes, NEW top, NEW N, NEW span, NEW level, Shape(nodes, top, N, span, level),
         NEW b \in N, nodes[b].leaf, NEW k \in Content(nodes, N), k \in span[b]
  PROVE  Holds(nodes[b], k)
<1>1. PICK x \in N : Holds(nodes[x], k)
  BY DEF Content
<1>2. k \in span[x] /\ level[x] <= level[b]
  BY <1>1, HeldInSpan, HeldAbove
<1>3. NodeSound(nodes[b], b, N, span, level) /\ level[x] \in Nat /\ level[b] \in Nat
  BY DEF Shape
<1>4. level[b] = 0
  BY <1>3 DEF NodeSound
<1>5. level[x] = level[b]
  BY <1>2, <1>3, <1>4
<1>6. x = b
  BY <1>2, <1>5 DEF Shape
<1> QED BY <1>1, <1>6

----
(* The keys next to a key of an inner node.                                *)

Sides == {"last", "first"}

\* The walk to the last leaf, or to the first.
Down(nodes, side) ==
  [c \in Blocks |-> IF nodes[c].leaf THEN c
                    ELSE nodes[c].children[IF side = "last" THEN nodes[c].nr_of_keys ELSE 0]]

\* Key k comes before key q on the way to the last leaf, behind it on the other.
Short(side, k, q) == IF side = "last" THEN k < q ELSE q < k

\* Where the walk is after h steps from b.
DownTo(nodes, N, span, level, b, side, c, h) ==
  /\ c \in N /\ level[c] <= level[b] /\ span[c] \subseteq span[b]
  /\ level[c] = level[b] - h \/ level[c] = 0
  /\ \A k \in span[b] : k \in span[c] \/ \A q \in span[c] : Short(side, k, q)

LEMMA DownStep ==
  ASSUME NEW nodes, NEW top, NEW N, NEW span, NEW level, Shape(nodes, top, N, span, level),
         NEW b \in N, NEW side \in Sides, NEW c, NEW h \in Nat,
         DownTo(nodes, N, span, level, b, side, c, h)
  PROVE  /\ c \in N /\ Down(nodes, side)[c] \in N
         /\ DownTo(nodes, N, span, level, b, side, Down(nodes, side)[c], h + 1)
<1>1. /\ c \in N /\ level[c] <= level[b] /\ span[c] \subseteq span[b]
      /\ level[c] = level[b] - h \/ level[c] = 0
      /\ \A k \in span[b] : k \in span[c] \/ \A q \in span[c] : Short(side, k, q)
  BY DEF DownTo
<1>2. /\ nodes[c] \in Node /\ c \in Blocks /\ NodeSound(nodes[c], c, N, span, level)
      /\ level[c] \in Nat /\ level[b] \in Nat /\ span[b] \in SUBSET Keys
  BY <1>1 DEF Shape
<1>3. CASE nodes[c].leaf
  <2>1. Down(nodes, side)[c] = c /\ level[c] = 0
    BY <1>2, <1>3 DEF Down, NodeSound
  <2> QED BY <2>1, <1>1 DEF DownTo
<1>4. CASE ~nodes[c].leaf
  <2>1. PICK n \in Nat, e \in [Slots -> Nat] : n = nodes[c].nr_of_keys /\ e = nodes[c].entries
    BY <1>2, EntriesAreNats, NodeFacts, ConstantFacts
  <2>2. PICK i \in 0..n : i = IF side = "last" THEN n ELSE 0
    BY <2>1
  <2>3. PICK d : d = nodes[c].children[i]
    OBVIOUS
  <2>4. Down(nodes, side)[c] = d
    BY <2>1, <2>2, <2>3, <1>2, <1>4 DEF Down
  <2>5. d \in N /\ span[d] = Between(nodes[c], i, span[c]) /\ level[d] = level[c] - 1
    BY <2>1, <2>3, <1>2, <1>4 DEF NodeSound
  <2>6. level[d] \in Nat
    BY <2>5 DEF Shape
  <2>7. span[d] \subseteq span[c]
    BY <2>5 DEF Between
  <2>8. \A a \in 0..(n - 1) : a \in Slots /\ e[a] \in Nat
    BY <2>1, <1>2, EntriesAreNumbers
  <2>9. ASSUME NEW k \in span[c], k \notin span[d], NEW q \in span[d] PROVE Short(side, k, q)
    <3>1. k \in Nat /\ q \in Nat
      BY <2>7, <1>1, <1>2, ConstantFacts
    <3>2. CASE side = "last"
      <4>1. i = n /\ ~ i < n
        BY <2>1, <2>2, <3>2
      <4>2. n > 0 /\ ~ e[n - 1] < k
        BY <4>1, <2>1, <2>5, <2>9 DEF Between
      <4>3. e[n - 1] < q /\ n - 1 \in 0..(n - 1)
        BY <4>1, <4>2, <2>1, <2>5 DEF Between
      <4>4. k < q
        BY <4>2, <4>3, <3>1, <2>8
      <4> QED BY <4>4, <3>2 DEF Short
    <3>3. CASE side # "last"
      <4>1. i = 0 /\ ~ i > 0
        BY <2>1, <2>2, <3>3
      <4>2. 0 < n /\ ~ k < e[0]
        BY <4>1, <2>1, <2>5, <2>9 DEF Between
      <4>3. q < e[0] /\ 0 \in 0..(n - 1)
        BY <4>1, <4>2, <2>1, <2>5 DEF Between
      <4>4. q < k
        BY <4>2, <4>3, <3>1, <2>8
      <4> QED BY <4>4, <3>3 DEF Short
    <3> QED BY <3>2, <3>3
  <2>10. \A k \in span[b] : k \in span[d] \/ \A q \in span[d] : Short(side, k, q)
    BY <2>7, <2>9, <1>1
  <2>11. level[d] <= level[b] /\ (level[d] = level[b] - (h + 1) \/ level[d] = 0)
    BY <2>5, <2>6, <1>1, <1>2
  <2> QED BY <2>4, <2>5, <2>7, <2>10, <2>11, <1>1 DEF DownTo
<1> QED BY <1>3, <1>4

\* Where the walk ends, and the key it takes there.
EndOf(nodes, b, side) == Walk(Down(nodes, side), b)[MaxLevel]

EndKey(x, side) == x.entries[IF side = "last" THEN x.nr_of_keys - 1 ELSE 0]

\* e, held in the leaf w, is the last key below b on that side.
IsEnd(nodes, N, span, b, side, w, e) ==
  /\ w \in N /\ nodes[w].leaf /\ Holds(nodes[w], e)
  /\ e \in span[b] /\ e \in Content(nodes, N)
  /\ \A k \in Content(nodes, N) : k \in span[b] => k = e \/ Short(side, k, e)

(* The walk ends in a leaf, and the key it finds there is the last of those *)
(* below b, or the first.                                                  *)
LEMMA EndIs ==
  ASSUME NEW nodes, NEW top, NEW N, NEW span, NEW level, Shape(nodes, top, N, span, level),
         NEW b \in N, b # top, NEW side \in Sides,
         NEW w, w = EndOf(nodes, b, side), NEW e, e = EndKey(nodes[w], side)
  PROVE  IsEnd(nodes, N, span, b, side, w, e)
<1>1. /\ nodes \in [Blocks -> Node] /\ N \in SUBSET Blocks /\ span \in [N -> SUBSET Keys]
      /\ level \in [N -> Nat] /\ top \in N /\ \A c \in N : level[c] <= level[top]
  BY DEF Shape
<1> DEFINE Good(c, h) == DownTo(nodes, N, span, level, b, side, c, h)
           S == {c \in N : \E h \in Nat : Good(c, h)}
<1>2. PICK step, at : step = Down(nodes, side) /\ at = Walk(step, b)
  OBVIOUS
<1>3. Good(b, 0)
  BY <1>1 DEF DownTo
<1>4. \A c \in N : \A h \in Nat : Good(c, h) => step[c] \in N /\ Good(step[c], h + 1)
  <2> SUFFICES ASSUME NEW c \in N, NEW h \in Nat, Good(c, h)
               PROVE  step[c] \in N /\ Good(step[c], h + 1)
    OBVIOUS
  <2>1. /\ Down(nodes, side)[c] \in N
        /\ DownTo(nodes, N, span, level, b, side, Down(nodes, side)[c], h + 1)
    BY DownStep, Zenon
  <2> QED BY <2>1, <1>2
<1>5. Stays(step, S)
  <2> HIDE DEF Good
  <2> QED BY <1>4 DEF Stays
<1>6. b \in S
  <2> HIDE DEF Good
  <2> QED BY <1>3
<1>7. /\ at \in [0..MaxLevel -> S] /\ at[0] = b
      /\ \A h \in 1..MaxLevel : at[h] = step[at[h - 1]]
  <2> HIDE DEF S
  <2>1. /\ Walk(step, b) \in [0..MaxLevel -> S] /\ Walk(step, b)[0] = b
        /\ \A h \in 1..MaxLevel : Walk(step, b)[h] = step[Walk(step, b)[h - 1]]
    BY <1>5, <1>6, WalkIs
  <2> QED BY <2>1, <1>2
<1> DEFINE Bad == {h \in 0..MaxLevel : ~ Good(at[h], h)}
<1>8. Bad = {}
  <2> SUFFICES ASSUME Bad # {} PROVE FALSE
    OBVIOUS
  <2>1. PICK m \in Bad : \A h \in Bad : m <= h
    <3> HIDE DEF Good
    <3>1. Bad \in SUBSET Nat
      BY LevelsAreANumber
    <3> HIDE DEF Bad
    <3> QED BY <3>1, LeastOfIsMember
  <2> HIDE DEF Good
  <2>2. m \in 1..MaxLevel /\ m - 1 \in 0..MaxLevel /\ m - 1 \in Nat /\ (m - 1) + 1 = m /\ ~ m <= m - 1
    <3>1. m # 0
      BY <2>1, <1>3, <1>7
    <3> QED BY <2>1, <3>1, LevelsAreANumber
  <2>3. Good(at[m - 1], m - 1)
    BY <2>1, <2>2
  <2>4. at[m - 1] \in N
    BY <2>2, <1>7
  <2>5. Good(at[m], m)
    BY <2>2, <2>3, <2>4, <1>4, <1>7
  <2> QED BY <2>1, <2>5
<1>9. DownTo(nodes, N, span, level, b, side, w, MaxLevel)
  <2>1. MaxLevel \in 0..MaxLevel
    BY LevelsAreANumber
  <2>2. w = at[MaxLevel]
    BY <1>2 DEF EndOf
  <2> QED BY <2>1, <2>2, <1>8
<1>10. /\ w \in N /\ level[w] <= level[b] /\ span[w] \subseteq span[b]
       /\ level[w] = level[b] - MaxLevel \/ level[w] = 0
       /\ \A k \in span[b] : k \in span[w] \/ \A q \in span[w] : Short(side, k, q)
  BY <1>9 DEF DownTo
<1>11. level[w] = 0 /\ w # top
  <2>1. level[top] \in 0..(MaxLevel - 1) /\ level[b] <= level[top] /\ level[w] \in Nat
        /\ level[b] \in Nat
    BY <1>1, <1>10, ShapeIsFrame, TreesAreLow
  <2>2. PICK p, i : p \in N /\ ChildOf(nodes, span, level, b, p, i)
    BY ParentIs, Zenon
  <2>3. level[b] < level[top]
    BY <2>1, <2>2, <1>1 DEF ChildOf
  <2> QED BY <2>1, <2>3, <1>10, LevelsAreANumber
<1>12. /\ nodes[w] \in Node /\ NodeSound(nodes[w], w, N, span, level) /\ nodes[w].nr_of_keys >= T - 1
  BY <1>1, <1>10, <1>11 DEF Shape
<1>13. nodes[w].leaf
  BY <1>11, <1>12 DEF NodeSound
<1>14. PICK n \in Nat, f \in [Slots -> Nat] : n = nodes[w].nr_of_keys /\ f = nodes[w].entries
  BY <1>12, EntriesAreNats, NodeFacts, ConstantFacts
<1>15. n > 0 /\ \A a \in 0..(n - 1) : a \in Slots /\ f[a] \in span[w]
  BY <1>12, <1>14, EntriesAreNumbers, ConstantFacts DEF NodeSound
<1>16. PICK i \in 0..(n - 1) : i = (IF side = "last" THEN n - 1 ELSE 0) /\ e = f[i] /\ i \in Slots
  BY <1>14, <1>15 DEF EndKey
<1>17. Holds(nodes[w], e) /\ e \in span[w]
  BY <1>14, <1>15, <1>16 DEF Holds
<1>18. e \in span[b] /\ e \in Content(nodes, N)
  BY <1>1, <1>10, <1>17 DEF Content
<1>19. ASSUME NEW k \in Content(nodes, N), k \in span[b] PROVE k = e \/ Short(side, k, e)
  <2>1. CASE k \in span[w]
    <3>1. Holds(nodes[w], k)
      BY <2>1, <1>10, <1>13, HeldInLeaf
    <3>2. PICK j \in Slots : j < n /\ f[j] = k
      BY <3>1, <1>14 DEF Holds
    <3>3. j \in Nat /\ \A a, c \in Slots : a < c /\ c < n => f[a] < f[c]
      BY <1>12, <1>14, ConstantFacts DEF NodeSound, Sorted, Slots
    <3>4. CASE side = "last"
      <4>1. j = i \/ (j < i /\ i < n)
        BY <3>2, <3>3, <3>4, <1>16
      <4> QED BY <4>1, <3>2, <3>3, <3>4, <1>16 DEF Short
    <3>5. CASE side # "last"
      <4>1. j = i \/ (i < j /\ j < n)
        BY <3>2, <3>3, <3>5, <1>16
      <4> QED BY <4>1, <3>2, <3>3, <3>5, <1>16 DEF Short
    <3> QED BY <3>4, <3>5
  <2>2. CASE k \notin span[w]
    BY <2>2, <1>10, <1>17, <1>19
  <2> QED BY <2>1, <2>2
<1> QED BY <1>10, <1>13, <1>17, <1>18, <1>19 DEF IsEnd

\* s is held in a leaf, below node x, and is the key next to its key.
NextTo(nodes, N, span, x, key, side, s) ==
  /\ s \in Keys /\ s \in span[x] /\ s \in Content(nodes, N) /\ Short(side, s, key)
  /\ \E w \in N : nodes[w].leaf /\ Holds(nodes[w], s)
  /\ \A k \in Content(nodes, N) : Short(side, k, key) => k = s \/ Short(side, k, s)

LEMMA Neighbour ==
  ASSUME NEW nodes, NEW top, NEW N, NEW span, NEW level, Shape(nodes, top, N, span, level),
         NEW x \in N, ~nodes[x].leaf, NEW j \in 0..(nodes[x].nr_of_keys - 1),
         NEW side \in Sides, NEW i, i = (IF side = "last" THEN j ELSE j + 1),
         NEW c, c = nodes[x].children[i],
         NEW s, s = EndKey(nodes[EndOf(nodes, c, side)], side)
  PROVE  /\ c \in N /\ s \in span[c] /\ span[c] \subseteq span[x]
         /\ NextTo(nodes, N, span, x, nodes[x].entries[j], side, s)
<1>1. /\ nodes[x] \in Node /\ NodeSound(nodes[x], x, N, span, level) /\ span \in [N -> SUBSET Keys]
      /\ level \in [N -> Nat] /\ \A b \in N : level[b] <= level[top]
  BY DEF Shape
<1>2. PICK n \in Nat, e \in [Slots -> Nat], key \in Nat :
         n = nodes[x].nr_of_keys /\ e = nodes[x].entries /\ key = e[j] /\ j \in Slots
  <2>1. j \in Slots /\ nodes[x].nr_of_keys \in Nat
    BY <1>1, EntriesAreNumbers, NodeFacts, ConstantFacts
  <2> QED BY <2>1, <1>1, EntriesAreNats
<1>3. i \in 0..n /\ j \in 0..(n - 1) /\ n > 0
  BY <1>2
<1>4. c \in N /\ span[c] = Between(nodes[x], i, span[x]) /\ level[c] = level[x] - 1
  BY <1>1, <1>2, <1>3 DEF NodeSound
<1>5. c # top
  BY <1>1, <1>4
<1>6. PICK w : w = EndOf(nodes, c, side) /\ s = EndKey(nodes[w], side)
  OBVIOUS
<1>7. /\ w \in N /\ nodes[w].leaf /\ Holds(nodes[w], s)
      /\ s \in span[c] /\ s \in Content(nodes, N)
      /\ \A k \in Content(nodes, N) : k \in span[c] => k = s \/ Short(side, k, s)
  <2>1. IsEnd(nodes, N, span, c, side, w, s)
    BY <1>4, <1>5, <1>6, EndIs
  <2> QED BY <2>1 DEF IsEnd
<1>8. span[c] \subseteq span[x] /\ s \in Keys /\ s \in Nat /\ s \in span[x]
  BY <1>1, <1>4, <1>7, ConstantFacts DEF Between
<1>9. Short(side, s, key)
  <2>1. CASE side = "last"
    <3>1. i = j /\ i < n
      BY <2>1, <1>3
    <3> QED BY <3>1, <2>1, <1>2, <1>4, <1>7 DEF Between, Short
  <2>2. CASE side # "last"
    <3>1. i - 1 = j /\ i > 0
      BY <2>2, <1>3
    <3> QED BY <3>1, <2>2, <1>2, <1>4, <1>7 DEF Between, Short
  <2> QED BY <2>1, <2>2
<1>10. key \in span[x]
  BY <1>1, <1>2 DEF NodeSound
<1>11. ASSUME NEW k \in Content(nodes, N), Short(side, k, key) PROVE k = s \/ Short(side, k, s)
  <2> SUFFICES ASSUME k # s, ~Short(side, k, s) PROVE FALSE
    OBVIOUS
  <2>1. k \in Keys /\ k \in Nat
    BY ConstantFacts DEF Content
  <2>2. IF side = "last" THEN s < k /\ k < key ELSE key < k /\ k < s
    BY <2>1, <1>8, <1>11 DEF Short
  <2>3. k \in span[x]
    <3>1. CASE side = "last"
      BY <3>1, <2>1, <2>2, <1>8, <1>10, SpansConvex
    <3>2. CASE side # "last"
      BY <3>2, <2>1, <2>2, <1>8, <1>10, SpansConvex
    <3> QED BY <3>1, <3>2
  <2>4. \A a \in 0..(n - 1) : a \in Slots /\ e[a] \in Nat
    BY <1>1, <1>2, EntriesAreNumbers
  <2>5. /\ i > 0 => e[i - 1] < s /\ e[i - 1] \in Nat
        /\ i < n => s < e[i] /\ e[i] \in Nat
    <3>1. (i > 0 => i - 1 \in 0..(n - 1)) /\ (i < n => i \in 0..(n - 1))
      BY <1>3
    <3> QED BY <3>1, <2>4, <1>2, <1>4, <1>7 DEF Between
  <2>6. k \in Between(nodes[x], i, span[x])
    <3>1. CASE side = "last"
      <4>1. i = j /\ e[i] = key
        BY <3>1, <1>2
      <4>2. (i > 0 => e[i - 1] < k) /\ (i < n => k < e[i])
        <5>1. s < k /\ k < e[i] /\ k \in Nat /\ s \in Nat
          BY <3>1, <4>1, <2>1, <2>2, <1>8
        <5> QED BY <5>1, <2>5
      <4> QED BY <4>2, <2>3, <1>2 DEF Between
    <3>2. CASE side # "last"
      <4>1. i - 1 = j /\ e[i - 1] = key
        BY <3>2, <1>2, <1>3
      <4>2. (i > 0 => e[i - 1] < k) /\ (i < n => k < e[i])
        <5>1. e[i - 1] < k /\ k < s /\ k \in Nat /\ s \in Nat
          BY <3>2, <4>1, <2>1, <2>2, <1>8
        <5> QED BY <5>1, <2>5
      <4> QED BY <4>2, <2>3, <1>2 DEF Between
    <3> QED BY <3>1, <3>2
  <2> QED BY <2>6, <1>4, <1>7
<1>12. NextTo(nodes, N, span, x, key, side, s)
  BY <1>7, <1>8, <1>9, <1>11 DEF NextTo
<1> QED BY <1>2, <1>4, <1>7, <1>8, <1>12

----
(* A key gives way to the one next to it.                                  *)

\* Key number j of node w becomes s.
Replaces(nodes, new, w, j, s) ==
  /\ new \in [Blocks -> Node]
  /\ \A b \in Blocks : b # w => new[b] = nodes[b]
  /\ new[w].children = nodes[w].children /\ new[w].nr_of_keys = nodes[w].nr_of_keys
  /\ (new[w].leaf <=> nodes[w].leaf) /\ new[w].nr_of_files = nodes[w].nr_of_files
  /\ \A a \in Slots : new[w].entries[a] = IF a = j THEN s ELSE nodes[w].entries[a]

\* Which key's way a walk for k takes when s stands where key stood; t is the
\* key on the other side.
Way(s, key, t, k) ==
  IF k = s THEN key
  ELSE IF k = key \/ (s < k /\ k < key) \/ (key < k /\ k < s) THEN t ELSE k

\* No other key lies between s, key and t, nor is one of them e.
Apart(s, key, t, e) ==
  /\ e # s /\ e # key /\ e # t
  /\ e < s <=> e < key
  /\ e < t <=> e < key

LEMMA WayIs ==
  ASSUME NEW s \in Nat, NEW key \in Nat, NEW t \in Nat, NEW k \in Nat,
         (s < key /\ key < t) \/ (key < s /\ t < key)
  PROVE  /\ k < s <=> Way(s, key, t, k) < key
         /\ s < k <=> key < Way(s, key, t, k)
         /\ \A e \in Nat : Apart(s, key, t, e) =>
              /\ k < e <=> Way(s, key, t, k) < e
              /\ e < k <=> e < Way(s, key, t, k)
BY DEF Way, Apart

\* What Respan supposes.
Yields(nodes, N, span, w, j, key, s) ==
  /\ w \in N /\ ~nodes[w].leaf /\ j \in 0..(nodes[w].nr_of_keys - 1)
  /\ nodes[w].entries[j] = key /\ s \in Keys /\ s # key /\ s \in span[w]
  /\ \A k \in Content(nodes, N) : k # s /\ k # key => (k < s <=> k < key)
  /\ \A b \in N : Holds(nodes[b], s) => nodes[b].leaf

\* The key on the other side.
OtherSide(nodes, N, key, s, t) ==
  /\ t \in Keys
  /\ (s < key /\ key < t) \/ (key < s /\ t < key)
  /\ \E b \in N : nodes[b].leaf /\ Holds(nodes[b], t)
  /\ \A k \in Content(nodes, N) : k # key /\ k # t => (k < t <=> k < key)

LEMMA OtherSideIs ==
  ASSUME NEW nodes, NEW top, NEW N, NEW span, NEW level, Shape(nodes, top, N, span, level),
         NEW w, NEW j, NEW key, NEW s, Yields(nodes, N, span, w, j, key, s)
  PROVE  \E t : OtherSide(nodes, N, key, s, t)
<1>1. /\ w \in N /\ ~nodes[w].leaf /\ j \in 0..(nodes[w].nr_of_keys - 1)
      /\ nodes[w].entries[j] = key /\ s \in Keys /\ s # key
  BY DEF Yields
<1>2. nodes[w] \in Node
  BY <1>1 DEF Shape
<1>3. s \in Nat /\ key \in Nat
  BY <1>1, <1>2, EntriesAreNumbers, ConstantFacts
<1>4. PICK side \in Sides : side = (IF s < key THEN "first" ELSE "last")
  BY DEF Sides
<1>5. PICK i : i = (IF side = "last" THEN j ELSE j + 1)
  OBVIOUS
<1>6. PICK c : c = nodes[w].children[i]
  OBVIOUS
<1>7. PICK t : t = EndKey(nodes[EndOf(nodes, c, side)], side)
  OBVIOUS
<1>8. NextTo(nodes, N, span, w, nodes[w].entries[j], side, t)
  BY <1>1, <1>5, <1>6, <1>7, Neighbour
<1>9. /\ t \in Keys /\ Short(side, t, key)
      /\ \E b \in N : nodes[b].leaf /\ Holds(nodes[b], t)
      /\ \A k \in Content(nodes, N) : Short(side, k, key) => k = t \/ Short(side, k, t)
  BY <1>1, <1>8 DEF NextTo
<1>10. t \in Nat /\ \A k \in Content(nodes, N) : k \in Nat
  BY <1>9, ConstantFacts DEF Content
<1>11. CASE s < key
  <2>1. side # "last"
    BY <1>4, <1>11
  <2>2. key < t
    BY <2>1, <1>9 DEF Short
  <2>3. ASSUME NEW k \in Content(nodes, N), k # key, k # t PROVE k < t <=> k < key
    <3>1. key < k => t < k
      BY <2>1, <2>3, <1>9 DEF Short
    <3> QED BY <3>1, <2>2, <2>3, <1>3, <1>10
  <2> QED BY <2>2, <2>3, <1>9, <1>11 DEF OtherSide
<1>12. CASE ~ s < key
  <2>1. side = "last" /\ key < s
    BY <1>1, <1>3, <1>4, <1>12
  <2>2. t < key
    BY <2>1, <1>9 DEF Short
  <2>3. ASSUME NEW k \in Content(nodes, N), k # key, k # t PROVE k < t <=> k < key
    <3>1. k < key => k < t
      BY <2>1, <2>3, <1>9 DEF Short
    <3> QED BY <3>1, <2>2, <2>3, <1>3, <1>10
  <2> QED BY <2>1, <2>2, <2>3, <1>9 DEF OtherSide
<1> QED BY <1>11, <1>12

\* The keys below the nodes, when s stands where key stood.
SpanBy(span, N, s, key, t) == [b \in N |-> {k \in Keys : Way(s, key, t, k) \in span[b]}]

(* Keys other than the two are still where they are looked for.            *)
LEMMA RespanKeeps ==
  ASSUME NEW nodes, NEW top, NEW N, NEW span, NEW level, Shape(nodes, top, N, span, level),
         NEW w, NEW j, NEW key, NEW s, Yields(nodes, N, span, w, j, key, s), NEW t,
         NEW sp, sp = SpanBy(span, N, s, key, t)
  PROVE  /\ s \in sp[w]
         /\ \A b \in N : \A k \in Content(nodes, N) :
              k # s /\ k # key /\ k \in span[b] => k \in sp[b]
<1>1. /\ w \in N /\ j \in 0..(nodes[w].nr_of_keys - 1)
      /\ nodes[w].entries[j] = key /\ s \in Keys /\ s # key
      /\ \A k \in Content(nodes, N) : k # s /\ k # key => (k < s <=> k < key)
  BY DEF Yields
<1>2. nodes[w] \in Node /\ NodeSound(nodes[w], w, N, span, level)
  BY <1>1 DEF Shape
<1>3. s \in Nat /\ key \in Nat /\ key \in span[w]
  BY <1>1, <1>2, EntriesAreNumbers, ConstantFacts DEF NodeSound
<1>4. s \in sp[w]
  BY <1>1, <1>3 DEF SpanBy, Way
<1>5. ASSUME NEW b \in N, NEW k \in Content(nodes, N), k # s, k # key, k \in span[b]
      PROVE  k \in sp[b]
  <2>1. k \in Keys /\ k \in Nat
    BY ConstantFacts DEF Content
  <2>2. Way(s, key, t, k) = k
    BY <2>1, <1>1, <1>3, <1>5 DEF Way
  <2> QED BY <2>1, <2>2, <1>5 DEF SpanBy
<1> QED BY <1>4, <1>5

(* An inner node sends a walk where it sent the other one.                 *)
LEMMA RespanOrder ==
  ASSUME NEW nodes, NEW top, NEW N, NEW span, NEW level, Shape(nodes, top, N, span, level),
         NEW w, NEW j, NEW key, NEW s, Yields(nodes, N, span, w, j, key, s),
         NEW t, OtherSide(nodes, N, key, s, t),
         NEW new, Replaces(nodes, new, w, j, s),
         NEW x \in N, ~nodes[x].leaf, NEW a \in 0..(nodes[x].nr_of_keys - 1), NEW k \in Keys
  PROVE  /\ k < new[x].entries[a] <=> Way(s, key, t, k) < nodes[x].entries[a]
         /\ new[x].entries[a] < k <=> nodes[x].entries[a] < Way(s, key, t, k)
<1>1. /\ w \in N /\ ~nodes[w].leaf /\ j \in 0..(nodes[w].nr_of_keys - 1)
      /\ nodes[w].entries[j] = key /\ s \in Keys /\ s # key
      /\ \A q \in Content(nodes, N) : q # s /\ q # key => (q < s <=> q < key)
      /\ \A b \in N : Holds(nodes[b], s) => nodes[b].leaf
  BY DEF Yields
<1>2. /\ t \in Keys
      /\ (s < key /\ key < t) \/ (key < s /\ t < key)
      /\ \A q \in Content(nodes, N) : q # key /\ q # t => (q < t <=> q < key)
  BY DEF OtherSide
<1>3. PICK d \in N : nodes[d].leaf /\ Holds(nodes[d], t)
  BY DEF OtherSide
<1>4. /\ nodes[x] \in Node /\ nodes[w] \in Node /\ x \in Blocks
      /\ NodeSound(nodes[w], w, N, span, level)
  BY <1>1 DEF Shape
<1>5. PICK e \in [Slots -> Nat] : e = nodes[x].entries
  BY <1>4, EntriesAreNats
<1>6. a \in Slots /\ j \in Slots /\ a < nodes[x].nr_of_keys
  BY <1>1, <1>4, EntriesAreNumbers, NodeFacts
<1>7. Holds(nodes[x], e[a])
  BY <1>5, <1>6 DEF Holds
<1>8. s \in Nat /\ t \in Nat /\ k \in Nat /\ key \in Nat /\ e[a] \in Nat
  <2>1. s \in Nat /\ t \in Nat /\ k \in Nat
    BY <1>1, <1>2, ConstantFacts
  <2>2. key \in Nat
    BY <1>1, <1>4, <1>6, EntriesAreNumbers
  <2> QED BY <2>1, <2>2, <1>5, <1>6
<1>9. CASE x = w /\ a = j
  <2>1. new[x].entries[a] = s /\ nodes[x].entries[a] = key
    BY <1>1, <1>6, <1>9 DEF Replaces
  <2> QED BY <2>1, <1>2, <1>8, WayIs
<1>10. CASE ~(x = w /\ a = j)
  <2>1. new[x].entries[a] = e[a]
    BY <1>4, <1>5, <1>6, <1>10 DEF Replaces
  <2>2. e[a] # key
    <3> SUFFICES ASSUME e[a] = key PROVE FALSE
      OBVIOUS
    <3>1. Holds(nodes[w], key)
      BY <1>1, <1>4, <1>6, NodeFacts DEF Holds
    <3>2. x = w
      BY <3>1, <1>1, <1>7, HeldOnce
    <3>3. e[a] = e[j] /\ a # j /\ a \in Nat /\ j \in Nat
      BY <3>2, <1>1, <1>5, <1>10
    <3>4. a < nodes[w].nr_of_keys /\ j < nodes[w].nr_of_keys
      BY <3>2, <1>1, <1>6, <1>4, NodeFacts
    <3>5. \A b, c \in Slots : b < c /\ c < nodes[w].nr_of_keys => e[b] < e[c]
      BY <3>2, <1>4, <1>5 DEF NodeSound, Sorted
    <3>6. a < j \/ j < a
      BY <3>3
    <3>7. e[a] < e[j] \/ e[j] < e[a]
      BY <3>4, <3>5, <3>6, <1>6
    <3> QED BY <3>3, <3>7, <1>8
  <2>3. e[a] # s
    BY <1>1, <1>7
  <2>4. e[a] # t
    <3> SUFFICES ASSUME e[a] = t PROVE FALSE
      OBVIOUS
    <3>1. x = d
      BY <1>3, <1>7, HeldOnce
    <3> QED BY <3>1, <1>3
  <2>5. e[a] \in Content(nodes, N)
    <3>1. e[a] \in Keys
      BY <1>7, HeldInSpan
    <3> QED BY <3>1, <1>7 DEF Content
  <2>6. Apart(s, key, t, e[a])
    BY <2>2, <2>3, <2>4, <2>5, <1>1, <1>2 DEF Apart
  <2> QED BY <2>1, <2>6, <1>2, <1>5, <1>8, WayIs
<1> QED BY <1>9, <1>10

(* The keys of a node stay in order.                                       *)
LEMMA RespanSorted ==
  ASSUME NEW nodes, NEW top, NEW N, NEW span, NEW level, Shape(nodes, top, N, span, level),
         NEW w, NEW j, NEW key, NEW s, Yields(nodes, N, span, w, j, key, s),
         NEW t, OtherSide(nodes, N, key, s, t),
         NEW new, Replaces(nodes, new, w, j, s), NEW x \in N
  PROVE  Sorted(new[x])
<1>1. /\ nodes[x] \in Node /\ Sorted(nodes[x]) /\ x \in Blocks
  BY DEF Shape, NodeSound
<1>2. CASE x # w
  <2>1. new[x] = nodes[x]
    BY <1>1, <1>2 DEF Replaces
  <2> QED BY <2>1, <1>1
<1>3. CASE x = w
  <2>1. /\ ~nodes[x].leaf /\ j \in 0..(nodes[x].nr_of_keys - 1) /\ nodes[x].entries[j] = key
        /\ s \in Keys
    BY <1>3 DEF Yields
  <2>2. PICK n \in Nat, e \in [Slots -> Nat] : n = nodes[x].nr_of_keys /\ e = nodes[x].entries
    BY <1>1, EntriesAreNats, NodeFacts, ConstantFacts
  <2>3. /\ new[x].nr_of_keys = n
        /\ \A a \in Slots : new[x].entries[a] = IF a = j THEN s ELSE e[a]
    BY <1>3, <2>2 DEF Replaces
  <2>4. s \in Nat /\ key \in Nat /\ j \in Nat
    BY <2>1, <1>1, EntriesAreNumbers, ConstantFacts
  <2>5. \A a, b \in Slots : a < b /\ b < n => e[a] < e[b]
    BY <2>2, <1>1 DEF Sorted
  <2>6. \A a \in Slots : a \in Nat /\ (a < n => a \in 0..(n - 1))
    BY <2>2, <1>1, EntriesAreNumbers
  <2>7. Way(s, key, t, s) = key
    BY DEF Way
  <2>8. ASSUME NEW a \in Slots, a < n, a # j
        PROVE  (s < e[a] <=> key < e[a]) /\ (e[a] < s <=> e[a] < key)
    <3>1. a \in 0..(nodes[x].nr_of_keys - 1)
      BY <2>2, <2>6, <2>8
    <3>2. /\ s < new[x].entries[a] <=> Way(s, key, t, s) < nodes[x].entries[a]
          /\ new[x].entries[a] < s <=> nodes[x].entries[a] < Way(s, key, t, s)
      BY <2>1, <3>1, RespanOrder
    <3>3. new[x].entries[a] = e[a] /\ nodes[x].entries[a] = e[a]
      BY <2>2, <2>3, <2>8
    <3> QED BY <3>2, <3>3, <2>7
  <2>9. j \in Slots /\ j < n /\ e[j] = key
    BY <2>1, <2>2, <1>1, EntriesAreNumbers
  <2>10. ASSUME NEW a \in Slots, NEW b \in Slots, a < b, b < n
         PROVE  new[x].entries[a] < new[x].entries[b]
    <3>1. a < n /\ a \in Nat /\ b \in Nat /\ e[a] < e[b]
      BY <2>5, <2>6, <2>10
    <3>2. new[x].entries[a] = (IF a = j THEN s ELSE e[a])
          /\ new[x].entries[b] = (IF b = j THEN s ELSE e[b])
      BY <2>3
    <3>3. CASE a = j
      <4>1. b # j
        BY <3>1, <3>3, <2>10
      <4>2. key < e[b]
        BY <3>1, <3>3, <2>9
      <4> QED BY <4>1, <4>2, <3>2, <3>3, <2>8, <2>10
    <3>4. CASE b = j
      <4>1. a # j
        BY <3>1, <3>4, <2>10
      <4>2. e[a] < key
        BY <3>1, <3>4, <2>9
      <4> QED BY <4>1, <4>2, <3>1, <3>2, <3>4, <2>8
    <3>5. CASE a # j /\ b # j
      BY <3>1, <3>2, <3>5
    <3> QED BY <3>3, <3>4, <3>5
  <2> QED BY <2>3, <2>10 DEF Sorted
<1> QED BY <1>2, <1>3

LEMMA RespanLinks ==
  ASSUME NEW nodes, NEW top, NEW N, NEW span, NEW level, Shape(nodes, top, N, span, level),
         NEW w, NEW j, NEW key, NEW s, Yields(nodes, N, span, w, j, key, s),
         NEW t, OtherSide(nodes, N, key, s, t),
         NEW new, Replaces(nodes, new, w, j, s),
         NEW sp, sp = SpanBy(span, N, s, key, t), NEW x \in N
  PROVE  NodeLinks(new[x], x, N, sp, level)
<1>1. /\ nodes[x] \in Node /\ NodeSound(nodes[x], x, N, span, level) /\ x \in Blocks
      /\ span \in [N -> SUBSET Keys]
  BY DEF Shape
<1>2. /\ (new[x].leaf <=> nodes[x].leaf) /\ new[x].children = nodes[x].children
      /\ new[x].nr_of_keys = nodes[x].nr_of_keys
  BY <1>1 DEF Replaces
<1>3. Sorted(new[x])
  BY RespanSorted
<1>4. ASSUME ~nodes[x].leaf, NEW i \in 0..nodes[x].nr_of_keys
      PROVE  /\ nodes[x].children[i] \in N
             /\ sp[nodes[x].children[i]] = Between(new[x], i, sp[x])
             /\ level[nodes[x].children[i]] = level[x] - 1
  <2>1. PICK c : c = nodes[x].children[i]
    OBVIOUS
  <2>2. c \in N /\ span[c] = Between(nodes[x], i, span[x]) /\ level[c] = level[x] - 1
    BY <2>1, <1>1, <1>4 DEF NodeSound
  <2>3. PICK n \in Nat : n = nodes[x].nr_of_keys
    BY <1>1, NodeFacts, ConstantFacts
  <2>4. /\ sp[c] = {k \in Keys : Way(s, key, t, k) \in span[c]}
        /\ sp[x] = {k \in Keys : Way(s, key, t, k) \in span[x]}
    BY <2>2 DEF SpanBy
  <2>5. ASSUME NEW k \in Keys
        PROVE  /\ i > 0 => (new[x].entries[i - 1] < k <=> nodes[x].entries[i - 1] < Way(s, key, t, k))
               /\ i < n => (k < new[x].entries[i] <=> Way(s, key, t, k) < nodes[x].entries[i])
    <3>1. i > 0 => i - 1 \in 0..(nodes[x].nr_of_keys - 1)
      BY <2>3, <1>4
    <3>2. i < n => i \in 0..(nodes[x].nr_of_keys - 1)
      BY <2>3, <1>4
    <3>3. i > 0 => (new[x].entries[i - 1] < k <=> nodes[x].entries[i - 1] < Way(s, key, t, k))
      BY <3>1, <1>4, RespanOrder
    <3>4. i < n => (k < new[x].entries[i] <=> Way(s, key, t, k) < nodes[x].entries[i])
      BY <3>2, <1>4, RespanOrder
    <3> QED BY <3>3, <3>4
  <2>6. ASSUME NEW k \in Keys PROVE k \in sp[c] <=> k \in Between(new[x], i, sp[x])
    <3>1. k \in sp[c] <=> Way(s, key, t, k) \in Between(nodes[x], i, span[x])
      BY <2>2, <2>4
    <3>2. PICK q : q = Way(s, key, t, k)
      OBVIOUS
    <3>3. q \in Between(nodes[x], i, span[x])
            <=> /\ q \in span[x] /\ (i > 0 => nodes[x].entries[i - 1] < q)
                /\ (i < n => q < nodes[x].entries[i])
      BY <2>3 DEF Between
    <3>4. k \in Between(new[x], i, sp[x])
            <=> /\ k \in sp[x] /\ (i > 0 => new[x].entries[i - 1] < k)
                /\ (i < n => k < new[x].entries[i])
      BY <2>3, <1>2 DEF Between
    <3>5. k \in sp[x] <=> q \in span[x]
      BY <2>4, <3>2
    <3> QED BY <3>1, <3>2, <3>3, <3>4, <3>5, <2>5
  <2>7. sp[c] \subseteq Keys /\ Between(new[x], i, sp[x]) \subseteq Keys
    BY <2>4 DEF Between
  <2> QED BY <2>1, <2>2, <2>6, <2>7
<1>5. nodes[x].leaf <=> level[x] = 0
  BY <1>1 DEF NodeSound
<1> QED BY <1>2, <1>3, <1>4, <1>5 DEF NodeLinks

(* The tree is one in which every key but s, if a leaf holds it, lies where *)
(* it is looked for.                                                       *)
LEMMA Respan ==
  ASSUME NEW nodes, NEW top, NEW N, NEW span, NEW level, Shape(nodes, top, N, span, level),
         NEW w, NEW j, NEW key, NEW s, Yields(nodes, N, span, w, j, key, s),
         NEW new, Replaces(nodes, new, w, j, s)
  PROVE  \E sp : /\ Frame(new, top, N, sp, level) /\ s \in sp[w]
                 /\ \A b \in N : \A k \in Content(nodes, N) :
                      k # s /\ k # key /\ k \in span[b] => k \in sp[b]
<1>1. PICK t : OtherSide(nodes, N, key, s, t)
  BY OtherSideIs
<1>2. PICK sp : sp = SpanBy(span, N, s, key, t)
  OBVIOUS
<1>3. /\ s \in sp[w]
      /\ \A b \in N : \A k \in Content(nodes, N) : k # s /\ k # key /\ k \in span[b] => k \in sp[b]
  BY <1>2, RespanKeeps
<1>4. \A b \in N : NodeLinks(new[b], b, N, sp, level)
  BY <1>1, <1>2, RespanLinks
<1>5. /\ N \in SUBSET Blocks /\ top \in N /\ level \in [N -> Nat] /\ span \in [N -> SUBSET Keys]
      /\ span[top] = Keys /\ \A b \in N : level[b] <= level[top]
      /\ \A b \in N \ {top} : \E p \in N : PointsTo(nodes[p], b)
      /\ \A b, c \in N : level[b] = level[c] /\ b # c => span[b] \cap span[c] = {}
  BY DEF Shape
<1>6. new \in [Blocks -> Node]
  BY DEF Replaces
<1>7. sp \in [N -> SUBSET Keys]
  BY <1>2 DEF SpanBy
<1>8. /\ w \in N /\ s \in Keys /\ j \in 0..(nodes[w].nr_of_keys - 1) /\ nodes[w].entries[j] = key
  BY DEF Yields
<1>9. key \in Keys /\ t \in Keys
  <2>1. key \in span[w]
    BY <1>8 DEF Shape, NodeSound
  <2> QED BY <2>1, <1>1, <1>5, <1>8 DEF OtherSide
<1>10. \A k \in Keys : Way(s, key, t, k) \in Keys
  BY <1>9 DEF Way
<1>11. sp[top] = Keys
  BY <1>2, <1>5, <1>10 DEF SpanBy
<1>12. \A p \in N : \A b : PointsTo(nodes[p], b) => PointsTo(new[p], b)
  <2>1. ASSUME NEW p \in N
        PROVE  /\ new[p].children = nodes[p].children /\ new[p].nr_of_keys = nodes[p].nr_of_keys
               /\ (new[p].leaf <=> nodes[p].leaf)
    BY <1>5 DEF Replaces
  <2> QED BY <2>1 DEF PointsTo
<1>13. \A b, c \in N : level[b] = level[c] /\ b # c => sp[b] \cap sp[c] = {}
  <2> SUFFICES ASSUME NEW b \in N, NEW c \in N, level[b] = level[c], b # c, NEW k \in sp[b] \cap sp[c]
               PROVE  FALSE
    OBVIOUS
  <2>1. PICK q : q = Way(s, key, t, k)
    OBVIOUS
  <2>2. q \in span[b] /\ q \in span[c]
    BY <2>1, <1>2 DEF SpanBy
  <2> QED BY <2>2, <1>5
<1>14. Frame(new, top, N, sp, level)
  BY <1>4, <1>5, <1>6, <1>7, <1>11, <1>12, <1>13 DEF Frame
<1> QED BY <1>3, <1>14

(* When s was held nowhere, the new tree holds it where key was.           *)
LEMMA RespanShape ==
  ASSUME NEW nodes, NEW top, NEW N, NEW span, NEW level, Shape(nodes, top, N, span, level),
         NEW w, NEW j, NEW key, NEW s, Yields(nodes, N, span, w, j, key, s),
         NEW new, Replaces(nodes, new, w, j, s), s \notin Content(nodes, N)
  PROVE  /\ \E sp : Shape(new, top, N, sp, level)
         /\ Content(new, N) = (Content(nodes, N) \ {key}) \cup {s}
<1>1. PICK sp : /\ Frame(new, top, N, sp, level) /\ s \in sp[w]
                /\ \A b \in N : \A k \in Content(nodes, N) :
                     k # s /\ k # key /\ k \in span[b] => k \in sp[b]
  BY Respan
<1>2. /\ w \in N /\ j \in 0..(nodes[w].nr_of_keys - 1)
      /\ nodes[w].entries[j] = key /\ s \in Keys /\ s # key
  BY DEF Yields
<1>3. /\ nodes \in [Blocks -> Node] /\ N \in SUBSET Blocks
      /\ \A b \in N : Sorted(nodes[b])
      /\ \A b \in N \ {top} : nodes[b].nr_of_keys >= T - 1
  BY DEF Shape, NodeSound
<1>4. /\ \A b \in N : new[b].nr_of_keys = nodes[b].nr_of_keys
      /\ \A b \in N : b # w => new[b] = nodes[b]
      /\ \A a \in Slots : new[w].entries[a] = IF a = j THEN s ELSE nodes[w].entries[a]
  BY <1>3 DEF Replaces
<1>5. j \in Slots /\ j < nodes[w].nr_of_keys /\ nodes[w] \in Node
  BY <1>2, <1>3, EntriesAreNumbers, NodeFacts
<1>6. Holds(nodes[w], key)
  BY <1>2, <1>5 DEF Holds
\* A slot of a node holds what it held, and only one held key.
<1>7. ASSUME NEW x \in N, NEW a \in Slots, a < nodes[x].nr_of_keys, ~(x = w /\ a = j)
      PROVE  /\ new[x].entries[a] = nodes[x].entries[a]
             /\ nodes[x].entries[a] \in Content(nodes, N) /\ nodes[x].entries[a] \in span[x]
             /\ nodes[x].entries[a] # key /\ nodes[x].entries[a] # s
  <2>1. new[x].entries[a] = nodes[x].entries[a]
    BY <1>4, <1>7
  <2>2. Holds(nodes[x], nodes[x].entries[a])
    BY <1>7 DEF Holds
  <2>3. nodes[x].entries[a] \in span[x] /\ nodes[x].entries[a] \in Keys
    BY <2>2, HeldInSpan
  <2>4. nodes[x].entries[a] \in Content(nodes, N)
    BY <2>2, <2>3 DEF Content
  <2>5. nodes[x].entries[a] # key
    <3> SUFFICES ASSUME nodes[x].entries[a] = key PROVE FALSE
      OBVIOUS
    <3>1. x = w
      BY <1>2, <1>6, <2>2, HeldOnce
    <3>2. a # j /\ a \in Nat /\ j \in Nat
      BY <3>1, <1>5, <1>7, EntriesAreNumbers
    <3>3. PICK e \in [Slots -> Nat] : e = nodes[w].entries
      BY <1>5, EntriesAreNats
    <3>4. \A b, c \in Slots : b < c /\ c < nodes[w].nr_of_keys => e[b] < e[c]
      BY <3>3, <1>2, <1>3 DEF Sorted
    <3>5. a < j \/ j < a
      BY <3>2
    <3>6. e[a] < e[j] \/ e[j] < e[a]
      BY <3>1, <3>4, <3>5, <1>5, <1>7
    <3>7. e[a] = e[j] /\ e[a] \in Nat
      BY <3>1, <3>3, <1>2, <1>7
    <3> QED BY <3>6, <3>7
  <2>6. nodes[x].entries[a] # s
    BY <2>4
  <2> QED BY <2>1, <2>3, <2>4, <2>5, <2>6
<1>8. ASSUME NEW x \in N PROVE NodeSound(new[x], x, N, sp, level)
  <2>1. ASSUME NEW a \in 0..(new[x].nr_of_keys - 1) PROVE new[x].entries[a] \in sp[x]
    <3>1. a \in Slots /\ a < nodes[x].nr_of_keys
      <4>1. nodes[x] \in Node /\ a \in 0..(nodes[x].nr_of_keys - 1)
        BY <1>3, <1>4
      <4> QED BY <4>1, EntriesAreNumbers, NodeFacts
    <3>2. CASE x = w /\ a = j
      BY <3>1, <3>2, <1>1, <1>4
    <3>3. CASE ~(x = w /\ a = j)
      BY <3>1, <3>3, <1>1, <1>7
    <3> QED BY <3>2, <3>3
  <2>2. NodeLinks(new[x], x, N, sp, level)
    BY <1>1 DEF Frame
  <2> QED BY <2>1, <2>2 DEF NodeSound, NodeLinks
<1>9. Shape(new, top, N, sp, level)
  BY <1>1, <1>3, <1>4, <1>8 DEF Shape, Frame
<1>10. ASSUME NEW k \in Content(new, N) PROVE k \in (Content(nodes, N) \ {key}) \cup {s}
  <2>1. PICK x \in N, a \in Slots : a < nodes[x].nr_of_keys /\ new[x].entries[a] = k
    BY <1>4 DEF Content, Holds
  <2>2. CASE x = w /\ a = j
    BY <2>1, <2>2, <1>4
  <2>3. CASE ~(x = w /\ a = j)
    BY <2>1, <2>3, <1>7
  <2> QED BY <2>2, <2>3
<1>11. s \in Content(new, N)
  BY <1>2, <1>4, <1>5 DEF Content, Holds
<1>12. ASSUME NEW k \in Content(nodes, N), k # key PROVE k \in Content(new, N)
  <2>1. k \in Keys
    BY DEF Content
  <2>2. PICK x \in N, a \in Slots : a < nodes[x].nr_of_keys /\ nodes[x].entries[a] = k
    BY DEF Content, Holds
  <2>3. ~(x = w /\ a = j)
    BY <2>2, <1>2, <1>12
  <2>4. new[x].entries[a] = k
    BY <2>2, <2>3, <1>7
  <2> QED BY <2>1, <2>2, <2>4, <1>4 DEF Content, Holds
<1> QED BY <1>9, <1>10, <1>11, <1>12

----
(* A key is taken from a leaf.                                             *)

IsRemoved(f, e, n, i) ==
  \A j \in Slots : f[j] = IF i <= j /\ j < n - 1 THEN e[j + 1] ELSE e[j]

LEMMA RemovedSorted ==
  ASSUME NEW e \in [Slots -> Nat], NEW f \in [Slots -> Nat], NEW n \in 1..(2 * T - 1),
         NEW i \in 0..(n - 1), SortedTo(e, n), IsRemoved(f, e, n, i)
  PROVE  /\ SortedTo(f, n - 1)
         /\ \A a \in Slots : a < n - 1 => \E b \in Slots : b < n /\ b # i /\ f[a] = e[b]
         /\ \A b \in Slots : b < n /\ b # i => \E a \in Slots : a < n - 1 /\ f[a] = e[b]
<1>1. /\ \A j \in Slots : j \in Nat /\ e[j] \in Nat
      /\ \A j \in Slots : j < n - 1 => j + 1 \in Slots
      /\ \A j \in Slots : j > 0 => j - 1 \in Slots
      /\ n \in Nat /\ i \in Nat /\ i < n
  BY ConstantFacts DEF Slots
<1>2. \A j \in Slots : f[j] = IF i <= j /\ j < n - 1 THEN e[j + 1] ELSE e[j]
  BY DEF IsRemoved
<1>3. \A a, b \in Slots : a < b /\ b < n => e[a] < e[b]
  BY DEF SortedTo
<1>4. ASSUME NEW a \in Slots, NEW b \in Slots, a < b, b < n - 1 PROVE f[a] < f[b]
  <2>1. CASE b < i
    BY <2>1, <1>1, <1>2, <1>3, <1>4
  <2>2. CASE i <= b /\ a < i
    <3>1. f[a] = e[a] /\ f[b] = e[b + 1] /\ a < b + 1 /\ b + 1 < n /\ b + 1 \in Slots
      BY <2>2, <1>1, <1>2, <1>4
    <3> QED BY <3>1, <1>3
  <2>3. CASE i <= a
    <3>1. a < n - 1 /\ i <= b
      BY <2>3, <1>1, <1>4
    <3>2. f[a] = e[a + 1] /\ f[b] = e[b + 1] /\ a + 1 < b + 1 /\ b + 1 < n
          /\ a + 1 \in Slots /\ b + 1 \in Slots
      BY <2>3, <3>1, <1>1, <1>2, <1>4
    <3> QED BY <3>2, <1>3
  <2> QED BY <2>1, <2>2, <2>3, <1>1
<1>5. ASSUME NEW a \in Slots, a < n - 1 PROVE \E b \in Slots : b < n /\ b # i /\ f[a] = e[b]
  <2>1. CASE i <= a
    <3>1. f[a] = e[a + 1] /\ a + 1 \in Slots /\ a + 1 < n /\ a + 1 # i
      BY <2>1, <1>1, <1>2, <1>5
    <3> QED BY <3>1
  <2>2. CASE ~ i <= a
    <3>1. f[a] = e[a] /\ a < n /\ a # i
      BY <2>2, <1>1, <1>2, <1>5
    <3> QED BY <3>1
  <2> QED BY <2>1, <2>2
<1>6. ASSUME NEW b \in Slots, b < n, b # i PROVE \E a \in Slots : a < n - 1 /\ f[a] = e[b]
  <2>1. CASE i < b
    <3>1. b - 1 \in Slots /\ i <= b - 1 /\ b - 1 < n - 1 /\ (b - 1) + 1 = b
      BY <2>1, <1>1, <1>6
    <3>2. f[b - 1] = e[b]
      BY <3>1, <1>2
    <3> QED BY <3>1, <3>2
  <2>2. CASE ~ i < b
    <3>1. b < n - 1 /\ ~ i <= b
      BY <2>2, <1>1, <1>6
    <3> QED BY <3>1, <1>2
  <2> QED BY <2>1, <2>2
<1> QED BY <1>4, <1>5, <1>6 DEF SortedTo

\* Key number i is taken from leaf at.
IsTaken(nodes, new, at, i) ==
  /\ new \in [Blocks -> Node]
  /\ \A b \in Blocks : b # at => new[b] = nodes[b]
  /\ new[at].nr_of_keys = nodes[at].nr_of_keys - 1
  /\ new[at].leaf /\ nodes[at].leaf /\ nodes[at].nr_of_keys \in 1..(2 * T - 1)
  /\ IsRemoved(new[at].entries, nodes[at].entries, nodes[at].nr_of_keys, i)
  /\ new[at].nr_of_files = nodes[at].nr_of_files

LEMMA TakeShape ==
  ASSUME NEW nodes, NEW top, NEW N, NEW span, NEW level, Shape(nodes, top, N, span, level),
         NEW at \in N, NEW i \in 0..(nodes[at].nr_of_keys - 1), NEW key, nodes[at].entries[i] = key,
         at = top \/ nodes[at].nr_of_keys >= T,
         NEW new, IsTaken(nodes, new, at, i)
  PROVE  /\ Shape(new, top, N, span, level)
         /\ Content(new, N) = Content(nodes, N) \ {key}
<1>1. /\ nodes \in [Blocks -> Node] /\ N \in SUBSET Blocks /\ nodes[at] \in Node
      /\ NodeSound(nodes[at], at, N, span, level)
      /\ \A b \in N \ {top} : nodes[b].nr_of_keys >= T - 1
  BY DEF Shape
<1>2. /\ new \in [Blocks -> Node] /\ new[at] \in Node
      /\ \A b \in N : b # at => new[b] = nodes[b]
      /\ new[at].nr_of_keys = nodes[at].nr_of_keys - 1 /\ new[at].leaf /\ nodes[at].leaf
  BY <1>1 DEF IsTaken
<1>3. PICK n \in 1..(2 * T - 1), e \in [Slots -> Nat], f \in [Slots -> Nat] :
         n = nodes[at].nr_of_keys /\ e = nodes[at].entries /\ f = new[at].entries
  BY <1>1, <1>2, EntriesAreNats DEF IsTaken
<1>4. IsRemoved(f, e, n, i) /\ SortedTo(e, n) /\ i \in 0..(n - 1)
  BY <1>1, <1>3 DEF IsTaken, NodeSound, Sorted, SortedTo
<1>5. /\ SortedTo(f, n - 1)
      /\ \A a \in Slots : a < n - 1 => \E b \in Slots : b < n /\ b # i /\ f[a] = e[b]
      /\ \A b \in Slots : b < n /\ b # i => \E a \in Slots : a < n - 1 /\ f[a] = e[b]
  BY <1>4, RemovedSorted
<1>6. n \in Nat /\ i \in Nat /\ i < n /\ i \in Slots /\ e[i] = key
      /\ \A a \in Slots : a \in Nat /\ e[a] \in Nat
  <2>1. \A a \in Slots : a \in Nat /\ e[a] \in Nat
    BY ConstantFacts DEF Slots
  <2>2. n \in Nat /\ i \in Nat /\ i < n /\ i \in Slots
    BY <1>4, ConstantFacts DEF Slots
  <2> QED BY <2>1, <2>2, <1>3
<1>7. \A b \in Slots : b < n => (b # i <=> e[b] # key)
  <2>1. \A a, b \in Slots : a < b /\ b < n => e[a] < e[b]
    BY <1>4 DEF SortedTo
  <2>2. ASSUME NEW b \in Slots, b < n, b # i PROVE e[b] # e[i]
    <3>1. b < i \/ i < b
      BY <2>2, <1>6
    <3>2. e[b] < e[i] \/ e[i] < e[b]
      BY <2>1, <2>2, <3>1, <1>6
    <3> QED BY <3>2, <1>6
  <2> QED BY <2>2, <1>6
<1>8. \A k : Holds(new[at], k) <=> Holds(nodes[at], k) /\ k # key
  <2>1. \A k : Holds(new[at], k) <=> \E a \in Slots : a < n - 1 /\ f[a] = k
    BY <1>2, <1>3 DEF Holds
  <2>2. \A k : Holds(nodes[at], k) <=> \E a \in Slots : a < n /\ e[a] = k
    BY <1>3 DEF Holds
  <2> QED BY <2>1, <2>2, <1>5, <1>7
<1>9. NodeSound(new[at], at, N, span, level)
  <2>1. Sorted(new[at])
    BY <1>2, <1>3, <1>5 DEF Sorted, SortedTo
  <2>2. ASSUME NEW a \in 0..(new[at].nr_of_keys - 1) PROVE new[at].entries[a] \in span[at]
    <3>1. a \in Slots /\ a < n - 1
      BY <1>2, <1>3, <1>6, EntriesAreNumbers
    <3>2. PICK b \in Slots : b < n /\ f[a] = e[b]
      BY <3>1, <1>5
    <3>3. b \in 0..(nodes[at].nr_of_keys - 1)
      BY <3>2, <1>3, <1>6
    <3> QED BY <3>2, <3>3, <1>1, <1>3 DEF NodeSound
  <2> QED BY <2>1, <2>2, <1>1, <1>2 DEF NodeSound
<1>10. \A p \in N : \A b : PointsTo(nodes[p], b) => PointsTo(new[p], b)
  BY <1>2 DEF PointsTo
<1>11. ASSUME NEW b \in N \ {top}
       PROVE  new[b].nr_of_keys >= T - 1 /\ \E p \in N : PointsTo(new[p], b)
  <2>1. nodes[b].nr_of_keys >= T - 1 /\ \E p \in N : PointsTo(nodes[p], b)
    BY DEF Shape
  <2>2. new[b].nr_of_keys >= T - 1
    <3>1. CASE b = at
      <4>1. n >= T /\ new[b].nr_of_keys = n - 1
        BY <3>1, <1>2, <1>3
      <4> QED BY <4>1, <1>6, ConstantFacts
    <3>2. CASE b # at
      BY <3>2, <2>1, <1>2
    <3> QED BY <3>1, <3>2
  <2> QED BY <2>1, <2>2, <1>10
<1>12. \A b \in N : NodeSound(new[b], b, N, span, level)
  BY <1>2, <1>9 DEF Shape
<1>13. Shape(new, top, N, span, level)
  BY <1>2, <1>11, <1>12 DEF Shape
<1>14. Content(new, N) = Content(nodes, N) \ {key}
  <2>1. ASSUME NEW k \in Content(new, N) PROVE k \in Content(nodes, N) /\ k # key
    <3>1. k \in Keys
      BY DEF Content
    <3>2. PICK b \in N : Holds(new[b], k)
      BY DEF Content
    <3>3. CASE b = at
      BY <3>1, <3>2, <3>3, <1>8 DEF Content
    <3>4. CASE b # at
      <4>1. Holds(nodes[b], k)
        BY <3>2, <3>4, <1>2
      <4>2. k # key
        <5>1. Holds(nodes[at], key)
          BY <1>3, <1>6 DEF Holds
        <5> QED BY <4>1, <5>1, <3>4, HeldOnce
      <4> QED BY <3>1, <4>1, <4>2 DEF Content
    <3> QED BY <3>3, <3>4
  <2>2. ASSUME NEW k \in Content(nodes, N), k # key PROVE k \in Content(new, N)
    <3>1. k \in Keys
      BY DEF Content
    <3>2. PICK b \in N : Holds(nodes[b], k)
      BY DEF Content
    <3>3. Holds(new[b], k)
      BY <3>2, <2>2, <1>2, <1>8
    <3> QED BY <3>1, <3>3 DEF Content
  <2> QED BY <2>1, <2>2
<1> QED BY <1>13, <1>14

(* What TakeFromLeaf does to the leaf.                                     *)
LEMMA TakenIs ==
  ASSUME NEW nodes \in [Blocks -> Node], NEW at \in Blocks, NEW i \in Nat,
         nodes[at].leaf, nodes[at].nr_of_keys > 0,
         NEW new, new = [nodes EXCEPT ![at] =
           [nodes[at] EXCEPT !.entries = Removed(@, i, nodes[at].nr_of_keys),
                             !.nr_of_keys = @ - 1]]
  PROVE  IsTaken(nodes, new, at, i)
<1>1. PICK l, n : l = nodes[at] /\ n = nodes[at].nr_of_keys
  OBVIOUS
<1>2. /\ l \in Node /\ l.entries \in [Slots -> Hashes] /\ l.children \in [Kids -> Blocks \cup {0}]
      /\ l.nr_of_files \in Int /\ l.leaf \in BOOLEAN
  BY <1>1 DEF Node
<1>3. n \in 1..(2 * T - 1) /\ n - 1 \in 0..(2 * T - 1)
  BY <1>1, <1>2, NodeFacts, ConstantFacts
<1>4. PICK f : f = Removed(l.entries, i, n)
  OBVIOUS
<1>5. f = [j \in Slots |-> IF i <= j /\ j < n - 1 THEN l.entries[j + 1] ELSE l.entries[j]]
  BY <1>2, <1>4 DEF Removed
<1>6. f \in [Slots -> Hashes]
  <2>1. ASSUME NEW j \in Slots, j < n - 1 PROVE j + 1 \in Slots
    BY <2>1, <1>3, ConstantFacts DEF Slots
  <2> QED BY <1>2, <1>5, <2>1
<1>7. PICK x : x = [l EXCEPT !.entries = f, !.nr_of_keys = n - 1]
  OBVIOUS
<1>8. new = [nodes EXCEPT ![at] = x]
  BY <1>1, <1>4, <1>7
<1>9. /\ x.entries = f /\ x.nr_of_keys = n - 1 /\ x.children = l.children
      /\ x.nr_of_files = l.nr_of_files /\ x.leaf = l.leaf /\ x \in Node
  BY <1>2, <1>3, <1>6, <1>7 DEF Node
<1>10. new \in [Blocks -> Node] /\ new[at] = x /\ \A b \in Blocks : b # at => new[b] = nodes[b]
  BY <1>8, <1>9
<1>11. IsRemoved(f, l.entries, n, i)
  BY <1>5 DEF IsRemoved
<1>12. l.leaf
  BY <1>1
<1> QED BY <1>1, <1>3, <1>9, <1>10, <1>11, <1>12 DEF IsTaken

----
(* A key is borrowed from the next child.                                  *)

\* What steal_from_next does to node at, its child l, number i, and the next, r.
IsStolen(nodes, new, at, i, l, r) ==
  /\ new \in [Blocks -> Node]
  /\ \A b \in Blocks : b # at /\ b # l /\ b # r => new[b] = nodes[b]
  /\ new[l].nr_of_keys = nodes[l].nr_of_keys + 1 /\ (new[l].leaf <=> nodes[l].leaf)
  /\ new[l].nr_of_files = nodes[l].nr_of_files
  /\ \A j \in Slots : new[l].entries[j] = IF j = nodes[l].nr_of_keys THEN nodes[at].entries[i]
                                          ELSE nodes[l].entries[j]
  /\ ~nodes[l].leaf =>
       \A j \in Kids : new[l].children[j] = IF j = nodes[l].nr_of_keys + 1 THEN nodes[r].children[0]
                                            ELSE nodes[l].children[j]
  /\ new[r].nr_of_keys = nodes[r].nr_of_keys - 1 /\ (new[r].leaf <=> nodes[r].leaf)
  /\ new[r].nr_of_files = nodes[r].nr_of_files
  /\ IsRemoved(new[r].entries, nodes[r].entries, nodes[r].nr_of_keys, 0)
  /\ ~nodes[r].leaf =>
       \A j \in 0..(nodes[r].nr_of_keys - 1) : new[r].children[j] = nodes[r].children[j + 1]
  /\ new[at].nr_of_keys = nodes[at].nr_of_keys /\ (new[at].leaf <=> nodes[at].leaf)
  /\ new[at].nr_of_files = nodes[at].nr_of_files /\ new[at].children = nodes[at].children
  /\ \A j \in Slots : new[at].entries[j] = IF j = i THEN nodes[r].entries[0]
                                           ELSE nodes[at].entries[j]

\* The next child is rich, and the child has room.
StealCase(nodes, top, N, span, level, new, at, i, l, r) ==
  /\ Shape(nodes, top, N, span, level)
  /\ at \in N /\ ~nodes[at].leaf /\ i \in 0..(nodes[at].nr_of_keys - 1)
  /\ l = nodes[at].children[i] /\ r = nodes[at].children[i + 1]
  /\ nodes[l].nr_of_keys \in 0..(2 * T - 2) /\ nodes[r].nr_of_keys >= T
  /\ IsStolen(nodes, new, at, i, l, r)

SpanStolen(span, N, new, at, i, l, r) ==
  [b \in N |-> IF b = l THEN Between(new[at], i, span[at])
               ELSE IF b = r THEN Between(new[at], i + 1, span[at]) ELSE span[b]]

\* Two children side by side.
Siblings(nodes, top, N, span, level, at, i, l, r) ==
  /\ l \in N /\ r \in N /\ l # r /\ l # at /\ r # at /\ l # top /\ r # top
  /\ level[l] = level[at] - 1 /\ level[r] = level[at] - 1 /\ level[at] \in Nat
  /\ span[l] = Between(nodes[at], i, span[at]) /\ span[r] = Between(nodes[at], i + 1, span[at])
  /\ nodes[at] \in Node /\ nodes[l] \in Node /\ nodes[r] \in Node
  /\ (nodes[l].leaf <=> nodes[r].leaf)

LEMMA SiblingsAre ==
  ASSUME NEW nodes, NEW top, NEW N, NEW span, NEW level, Shape(nodes, top, N, span, level),
         NEW at \in N, ~nodes[at].leaf, NEW i \in 0..(nodes[at].nr_of_keys - 1),
         NEW l, l = nodes[at].children[i], NEW r, r = nodes[at].children[i + 1]
  PROVE  Siblings(nodes, top, N, span, level, at, i, l, r)
<1>1. /\ nodes[at] \in Node /\ NodeSound(nodes[at], at, N, span, level)
      /\ nodes \in [Blocks -> Node] /\ N \in SUBSET Blocks /\ level \in [N -> Nat]
      /\ \A b \in N : NodeSound(nodes[b], b, N, span, level)
  BY DEF Shape
<1>2. i \in 0..nodes[at].nr_of_keys /\ i + 1 \in 0..nodes[at].nr_of_keys /\ i # i + 1
  BY <1>1, NodeFacts
<1>3. /\ l \in N /\ span[l] = Between(nodes[at], i, span[at]) /\ level[l] = level[at] - 1
      /\ r \in N /\ span[r] = Between(nodes[at], i + 1, span[at]) /\ level[r] = level[at] - 1
  BY <1>1, <1>2 DEF NodeSound
<1>4. l # r
  BY <1>2, OnePointer
<1>5. l # top /\ r # top
  BY <1>2, OnePointer
<1>6. level[at] \in Nat /\ level[l] \in Nat /\ level[r] \in Nat
  BY <1>1, <1>3
<1>7. l # at /\ r # at
  BY <1>3, <1>6
<1>8. nodes[l].leaf <=> nodes[r].leaf
  BY <1>1, <1>3 DEF NodeSound
<1> QED BY <1>1, <1>3, <1>4, <1>5, <1>6, <1>7, <1>8 DEF Siblings

\* Where the two keys that move lie, and what lies below the two children then.
Stolen(nodes, N, span, new, at, i, l, r, old, m, sp) ==
  /\ old \in Keys /\ old \in Nat /\ m \in Nat /\ m \in span[r] /\ old \in span[at] /\ m \in span[at]
  /\ old < m /\ sp[at] = span[at]
  /\ sp[l] \in SUBSET span[at] /\ sp[r] \in SUBSET span[at]
  /\ \A k \in span[at] : /\ k \in sp[l] <=> k \in span[l] \/ k = old \/ (k \in span[r] /\ k < m)
                         /\ k \in sp[r] <=> k \in span[r] /\ m < k
                         /\ k \in span[l] => k < old
                         /\ k \in span[r] => old < k
  /\ span[l] \subseteq span[at] /\ span[r] \subseteq span[at]

LEMMA StolenIs ==
  ASSUME NEW nodes, NEW top, NEW N, NEW span, NEW level, NEW new, NEW at, NEW i, NEW l, NEW r,
         StealCase(nodes, top, N, span, level, new, at, i, l, r),
         NEW old, old = nodes[at].entries[i], NEW m, m = nodes[r].entries[0],
         NEW sp, sp = SpanStolen(span, N, new, at, i, l, r)
  PROVE  Stolen(nodes, N, span, new, at, i, l, r, old, m, sp)
<1>1. /\ Shape(nodes, top, N, span, level) /\ at \in N /\ ~nodes[at].leaf
      /\ i \in 0..(nodes[at].nr_of_keys - 1)
      /\ l = nodes[at].children[i] /\ r = nodes[at].children[i + 1]
      /\ nodes[r].nr_of_keys >= T /\ IsStolen(nodes, new, at, i, l, r)
  BY DEF StealCase
<1>2. Siblings(nodes, top, N, span, level, at, i, l, r)
  BY <1>1, SiblingsAre
<1>3. /\ l \in N /\ r \in N /\ l # r /\ l # at /\ r # at
      /\ span[l] = Between(nodes[at], i, span[at]) /\ span[r] = Between(nodes[at], i + 1, span[at])
      /\ nodes[at] \in Node /\ nodes[r] \in Node
  BY <1>2 DEF Siblings
<1>4. /\ NodeSound(nodes[at], at, N, span, level) /\ NodeSound(nodes[r], r, N, span, level)
      /\ span[at] \in SUBSET Keys /\ span[r] \in SUBSET Keys
  BY <1>1, <1>3 DEF Shape
<1>5. PICK n \in Nat, e \in [Slots -> Nat] : n = nodes[at].nr_of_keys /\ e = nodes[at].entries
  <2>1. nodes[at].nr_of_keys \in Nat
    BY <1>3, NodeFacts, ConstantFacts
  <2> QED BY <2>1, <1>3, EntriesAreNats
<1>6. /\ i \in Nat /\ i < n /\ i \in Slots /\ (i > 0 => i - 1 \in Slots /\ i - 1 < i)
      /\ (i + 1 < n => i + 1 \in Slots) /\ i + 1 > 0
  <2>1. \A a \in 0..(n - 1) : a \in Slots
    BY <1>3, <1>5, EntriesAreNumbers
  <2>2. i \in 0..(n - 1)
    BY <1>1, <1>5
  <2>3. (i > 0 => i - 1 \in 0..(n - 1)) /\ (i + 1 < n => i + 1 \in 0..(n - 1))
    BY <2>2
  <2> QED BY <2>1, <2>2, <2>3
<1>7. e[i] = old /\ old \in span[at] /\ old \in Keys /\ old \in Nat
  <2>1. old \in span[at]
    BY <1>1, <1>4 DEF NodeSound
  <2> QED BY <2>1, <1>4, <1>5, ConstantFacts
<1>8. m \in span[r] /\ m \in Nat
  <2>1. 0 \in 0..(nodes[r].nr_of_keys - 1)
    BY <1>1, <1>3, NodeFacts, ConstantFacts
  <2> QED BY <2>1, <1>4, ConstantFacts DEF NodeSound
<1>9. \A a, b \in Slots : a < b /\ b < n => e[a] < e[b]
  BY <1>4, <1>5 DEF NodeSound, Sorted
<1>10. /\ new[at].nr_of_keys = n /\ new[at].entries[i] = m
       /\ (i > 0 => new[at].entries[i - 1] = e[i - 1])
       /\ (i + 1 < n => new[at].entries[i + 1] = e[i + 1])
  <2>1. \A j \in Slots : new[at].entries[j] = IF j = i THEN m ELSE e[j]
    BY <1>1, <1>5 DEF IsStolen
  <2>2. new[at].nr_of_keys = n
    BY <1>1, <1>5 DEF IsStolen
  <2>3. i - 1 # i /\ i + 1 # i
    BY <1>6
  <2> QED BY <2>1, <2>2, <2>3, <1>6
<1>11. /\ \A k : k \in span[l] <=> k \in span[at] /\ (i > 0 => e[i - 1] < k) /\ k < old
       /\ \A k : k \in span[r] <=> k \in span[at] /\ old < k /\ (i + 1 < n => k < e[i + 1])
  <2>1. (i + 1) - 1 = i
    BY <1>6
  <2> QED BY <2>1, <1>3, <1>5, <1>6, <1>7 DEF Between
<1>12. /\ \A k : k \in sp[l] <=> k \in span[at] /\ (i > 0 => e[i - 1] < k) /\ k < m
       /\ \A k : k \in sp[r] <=> k \in span[at] /\ m < k /\ (i + 1 < n => k < e[i + 1])
  <2>1. (i + 1) - 1 = i
    BY <1>6
  <2>2. sp[l] = Between(new[at], i, span[at]) /\ sp[r] = Between(new[at], i + 1, span[at])
    BY <1>3 DEF SpanStolen
  <2> QED BY <2>1, <2>2, <1>6, <1>10 DEF Between
<1>13. old < m /\ m \in span[at] /\ (i + 1 < n => m < e[i + 1])
  BY <1>8, <1>11
<1>14. i > 0 => e[i - 1] < old /\ e[i - 1] \in Nat
  BY <1>6, <1>7, <1>9
<1>15. i + 1 < n => e[i + 1] \in Nat
  BY <1>6
<1>16. \A k \in span[at] : k \in Nat
  BY <1>4, ConstantFacts
<1>17. ASSUME NEW k \in span[at]
       PROVE  /\ k \in sp[l] <=> k \in span[l] \/ k = old \/ (k \in span[r] /\ k < m)
              /\ k \in sp[r] <=> k \in span[r] /\ m < k
  <2>1. k \in Nat
    BY <1>16
  <2>2. k \in sp[r] <=> k \in span[r] /\ m < k
    BY <2>1, <1>7, <1>8, <1>11, <1>12, <1>13
  <2>3. CASE k < old
    BY <2>1, <2>3, <1>7, <1>8, <1>11, <1>12, <1>13
  <2>4. CASE k = old
    BY <2>2, <2>4, <1>7, <1>12, <1>13, <1>14
  <2>5. CASE old < k
    <3>1. i > 0 => e[i - 1] < k
      BY <2>1, <2>5, <1>7, <1>14
    <3>2. k \in span[r] /\ k < m <=> k < m
      BY <2>1, <2>5, <1>8, <1>11, <1>13, <1>15
    <3>3. k # old /\ k \notin span[l]
      BY <2>1, <2>5, <1>7, <1>11
    <3> QED BY <3>1, <3>2, <3>3, <2>2, <1>12
  <2> QED BY <2>1, <2>2, <2>3, <2>4, <2>5, <1>7
<1>18. sp[at] = span[at]
  BY <1>1, <1>3 DEF SpanStolen
<1> QED BY <1>7, <1>8, <1>11, <1>12, <1>13, <1>17, <1>18 DEF Stolen

LEMMA StealFacts ==
  ASSUME NEW nodes, NEW top, NEW N, NEW span, NEW level, NEW new, NEW at, NEW i, NEW l, NEW r,
         StealCase(nodes, top, N, span, level, new, at, i, l, r)
  PROVE  /\ Shape(nodes, top, N, span, level) /\ Siblings(nodes, top, N, span, level, at, i, l, r)
         /\ IsStolen(nodes, new, at, i, l, r)
         /\ nodes \in [Blocks -> Node] /\ new \in [Blocks -> Node] /\ N \in SUBSET Blocks
         /\ span \in [N -> SUBSET Keys] /\ level \in [N -> Nat]
         /\ \A b \in N : NodeSound(nodes[b], b, N, span, level)
         /\ at \in N /\ l \in N /\ r \in N /\ l # r /\ l # at /\ r # at
         /\ ~nodes[at].leaf /\ i \in 0..(nodes[at].nr_of_keys - 1)
<1>1. /\ Shape(nodes, top, N, span, level) /\ at \in N /\ ~nodes[at].leaf
      /\ i \in 0..(nodes[at].nr_of_keys - 1)
      /\ l = nodes[at].children[i] /\ r = nodes[at].children[i + 1]
      /\ IsStolen(nodes, new, at, i, l, r)
  BY DEF StealCase
<1>2. Siblings(nodes, top, N, span, level, at, i, l, r)
  BY <1>1, SiblingsAre
<1> QED BY <1>1, <1>2 DEF Siblings, Shape, IsStolen

(* The child that gets a key ...                                           *)
LEMMA StolenLeft ==
  ASSUME NEW nodes, NEW top, NEW N, NEW span, NEW level, NEW new, NEW at, NEW i, NEW l, NEW r,
         StealCase(nodes, top, N, span, level, new, at, i, l, r),
         NEW old, old = nodes[at].entries[i], NEW m, m = nodes[r].entries[0],
         NEW sp, sp = SpanStolen(span, N, new, at, i, l, r)
  PROVE  /\ NodeSound(new[l], l, N, sp, level)
         /\ \A k : Holds(new[l], k) <=> Holds(nodes[l], k) \/ k = old
<1>1. /\ IsStolen(nodes, new, at, i, l, r) /\ Siblings(nodes, top, N, span, level, at, i, l, r)
      /\ span \in [N -> SUBSET Keys] /\ level \in [N -> Nat] /\ at \in N /\ l \in N /\ r \in N
      /\ NodeSound(nodes[l], l, N, span, level) /\ NodeSound(nodes[r], r, N, span, level)
      /\ nodes[l] \in Node /\ nodes[r] \in Node /\ level[l] = level[r]
  BY StealFacts DEF Siblings
<1>2. Stolen(nodes, N, span, new, at, i, l, r, old, m, sp)
  BY StolenIs
<1>3. /\ old \in Keys /\ old \in Nat /\ m \in Nat /\ m \in span[r] /\ old \in span[at] /\ m \in span[at]
      /\ old < m
      /\ sp[l] \in SUBSET span[at] /\ span[l] \subseteq span[at] /\ span[r] \subseteq span[at]
      /\ \A k \in span[at] : /\ k \in sp[l] <=> k \in span[l] \/ k = old \/ (k \in span[r] /\ k < m)
                             /\ k \in span[l] => k < old
                             /\ k \in span[r] => old < k
  BY <1>2 DEF Stolen
<1>4. \A k \in span[at] : k \in Nat
  BY <1>1, ConstantFacts
<1>5. nodes[l].nr_of_keys \in 0..(2 * T - 2)
  BY DEF StealCase
<1>6. PICK n \in Nat, e \in [Slots -> Nat] :
         n = nodes[l].nr_of_keys /\ e = nodes[l].entries /\ n \in Slots
  <2>1. nodes[l].nr_of_keys \in Nat /\ nodes[l].nr_of_keys \in Slots
    BY <1>5, ConstantFacts DEF Slots
  <2> QED BY <2>1, <1>1, EntriesAreNats
<1>7. /\ new[l].nr_of_keys = n + 1 /\ (new[l].leaf <=> nodes[l].leaf)
      /\ \A j \in Slots : new[l].entries[j] = IF j = n THEN old ELSE e[j]
  BY <1>1, <1>6 DEF IsStolen
<1>8. \A j \in Slots : j \in Nat /\ (j < n => j \in 0..(n - 1) /\ e[j] \in span[l])
  <2>1. \A j \in Slots : j \in Nat /\ (j < n => j \in 0..(n - 1))
    BY <1>1, <1>6, EntriesAreNumbers
  <2> QED BY <2>1, <1>1, <1>6 DEF NodeSound
<1>9. \A j \in 0..n : j \in Slots /\ (j # n => j < n)
  BY <1>5, <1>6, ConstantFacts DEF Slots
<1>10. \A j \in Slots : j < n => e[j] < old /\ e[j] \in sp[l]
  BY <1>3, <1>8
<1>11. old \in sp[l]
  BY <1>3
<1>12. Sorted(new[l])
  <2>1. \A a, b \in Slots : a < b /\ b < n => e[a] < e[b]
    BY <1>1, <1>6 DEF NodeSound, Sorted
  <2>2. ASSUME NEW a \in Slots, NEW b \in Slots, a < b, b < n + 1
        PROVE  new[l].entries[a] < new[l].entries[b]
    <3>1. a \in Nat /\ b \in Nat /\ a < n /\ a # n /\ (b < n \/ b = n)
      BY <2>2, <1>6, <1>8
    <3>2. CASE b < n
      BY <3>1, <3>2, <2>1, <2>2, <1>7
    <3>3. CASE b = n
      BY <3>1, <3>3, <1>7, <1>10
    <3> QED BY <3>1, <3>2, <3>3
  <2> QED BY <2>2, <1>7 DEF Sorted
<1>13. \A j \in 0..(new[l].nr_of_keys - 1) : new[l].entries[j] \in sp[l]
  <2>1. \A j \in 0..((n + 1) - 1) : j \in 0..n
    BY <1>6
  <2> QED BY <2>1, <1>7, <1>9, <1>10, <1>11
<1>14. ASSUME ~nodes[l].leaf, NEW j \in 0..(n + 1)
       PROVE  /\ new[l].children[j] \in N
              /\ sp[new[l].children[j]] = Between(new[l], j, sp[l])
              /\ level[new[l].children[j]] = level[l] - 1
  <2>1. ~nodes[r].leaf
    BY <1>1, <1>14 DEF Siblings
  <2>2. j \in Kids /\ j \in Nat /\ \A a \in Kids :
          new[l].children[a] = IF a = n + 1 THEN nodes[r].children[0] ELSE nodes[l].children[a]
    <3>1. j \in Kids /\ j \in Nat
      BY <1>5, <1>6, ConstantFacts DEF Kids
    <3>2. \A a \in Kids :
            new[l].children[a] = IF a = n + 1 THEN nodes[r].children[0] ELSE nodes[l].children[a]
      BY <1>1, <1>6, <1>14 DEF IsStolen
    <3> QED BY <3>1, <3>2
  <2>3. PICK c : c = new[l].children[j]
    OBVIOUS
  <2>4. \A d \in N : level[d] = level[l] - 1 => sp[d] = span[d]
    <3>1. level[l] \in Nat /\ level[r] = level[l]
      BY <1>1
    <3> QED BY <3>1 DEF SpanStolen
  <2>5. \A k : k \in Between(new[l], j, sp[l])
                 <=> /\ k \in sp[l] /\ (j > 0 => new[l].entries[j - 1] < k)
                     /\ (j < n + 1 => k < new[l].entries[j])
    BY <1>7 DEF Between
  <2>6. CASE j = n + 1
    <3>1. c = nodes[r].children[0]
      BY <2>2, <2>3, <2>6
    <3>2. 0 \in 0..nodes[r].nr_of_keys /\ 0 < nodes[r].nr_of_keys
      <4>1. nodes[r].nr_of_keys >= T
        BY DEF StealCase
      <4> QED BY <4>1, <1>1, NodeFacts, ConstantFacts
    <3>3. c \in N /\ span[c] = Between(nodes[r], 0, span[r]) /\ level[c] = level[l] - 1
      BY <3>1, <3>2, <2>1, <1>1 DEF NodeSound
    <3>4. \A k : k \in span[c] <=> k \in span[r] /\ k < m
      BY <3>2, <3>3 DEF Between
    <3>5. new[l].entries[j - 1] = old /\ j > 0 /\ ~ j < n + 1
      BY <2>6, <1>6, <1>7
    <3>6. \A k : k \in Between(new[l], j, sp[l]) <=> k \in sp[l] /\ old < k
      BY <3>5, <2>5
    <3>7. \A k \in span[at] : k \in span[c] <=> k \in Between(new[l], j, sp[l])
      BY <3>4, <3>6, <1>3, <1>4
    <3>8. span[c] \subseteq span[at] /\ Between(new[l], j, sp[l]) \subseteq span[at]
      BY <3>4, <3>6, <1>3
    <3> QED BY <3>3, <3>7, <3>8, <2>3, <2>4
  <2>7. CASE j # n + 1
    <3>1. c = nodes[l].children[j] /\ j \in 0..n
      BY <2>2, <2>3, <2>7, <1>6
    <3>2. c \in N /\ span[c] = Between(nodes[l], j, span[l]) /\ level[c] = level[l] - 1
      BY <3>1, <1>1, <1>6, <1>14 DEF NodeSound
    <3>3. \A k : k \in span[c] <=> /\ k \in span[l] /\ (j > 0 => e[j - 1] < k)
                                   /\ (j < n => k < e[j])
      BY <3>2, <1>6 DEF Between
    <3>4. /\ j > 0 => j - 1 \in Slots /\ j - 1 < n /\ j - 1 # n
          /\ j \in Slots /\ (j < n => j # n)
      <4>1. j > 0 => j - 1 \in 0..n /\ j - 1 < n
        BY <3>1, <1>6
      <4> QED BY <4>1, <3>1, <1>6, <1>9
    <3>5. /\ j > 0 => new[l].entries[j - 1] = e[j - 1] /\ e[j - 1] < old
          /\ new[l].entries[j] = (IF j = n THEN old ELSE e[j]) /\ j < n + 1
      BY <3>1, <3>4, <1>6, <1>7, <1>10
    <3>6. ASSUME NEW k \in span[at] PROVE k \in span[c] <=> k \in Between(new[l], j, sp[l])
      <4>1. k \in Nat
        BY <1>4
      <4>2. k \in Between(new[l], j, sp[l])
              <=> k \in sp[l] /\ (j > 0 => e[j - 1] < k) /\ k < (IF j = n THEN old ELSE e[j])
        BY <3>5, <2>5
      <4>3. k < old => (k \in sp[l] <=> k \in span[l])
        BY <4>1, <1>3
      <4>4. CASE j = n
        <5>1. ~ j < n
          BY <4>4, <1>6
        <5> QED BY <5>1, <4>1, <4>2, <4>3, <4>4, <3>3, <1>3
      <4>5. CASE j < n
        <5>1. j # n /\ e[j] < old /\ e[j] \in Nat
          BY <4>5, <3>4, <1>10
        <5>2. k < e[j] => k < old
          BY <5>1, <4>1, <1>3
        <5> QED BY <5>1, <5>2, <4>2, <4>3, <4>5, <3>3
      <4> QED BY <4>4, <4>5, <3>1, <1>6
    <3>7. span[c] \subseteq span[at] /\ Between(new[l], j, sp[l]) \subseteq span[at]
      BY <3>3, <2>5, <1>3
    <3> QED BY <3>2, <3>6, <3>7, <2>3, <2>4
  <2> QED BY <2>6, <2>7
<1>15. new[l].leaf <=> level[l] = 0
  BY <1>1, <1>7 DEF NodeSound
<1>16. NodeSound(new[l], l, N, sp, level)
  BY <1>7, <1>12, <1>13, <1>14, <1>15 DEF NodeSound
<1>17. ASSUME NEW k PROVE Holds(new[l], k) <=> Holds(nodes[l], k) \/ k = old
  <2>1. Holds(new[l], k) <=> \E j \in Slots : j < n + 1 /\ (IF j = n THEN old ELSE e[j]) = k
    BY <1>7 DEF Holds
  <2>2. Holds(nodes[l], k) <=> \E j \in Slots : j < n /\ e[j] = k
    BY <1>6 DEF Holds
  <2>3. \A j \in Slots : j < n + 1 <=> j < n \/ j = n
    BY <1>6, <1>8
  <2>4. \A j \in Slots : j < n => j # n
    BY <1>6, <1>8
  <2> QED BY <2>1, <2>2, <2>3, <2>4, <1>6
<1> QED BY <1>16, <1>17

(* ... and the one that gives one.                                         *)
LEMMA StolenRight ==
  ASSUME NEW nodes, NEW top, NEW N, NEW span, NEW level, NEW new, NEW at, NEW i, NEW l, NEW r,
         StealCase(nodes, top, N, span, level, new, at, i, l, r),
         NEW old, old = nodes[at].entries[i], NEW m, m = nodes[r].entries[0],
         NEW sp, sp = SpanStolen(span, N, new, at, i, l, r)
  PROVE  /\ NodeSound(new[r], r, N, sp, level)
         /\ \A k : Holds(new[r], k) <=> Holds(nodes[r], k) /\ k # m
<1>1. /\ IsStolen(nodes, new, at, i, l, r) /\ Siblings(nodes, top, N, span, level, at, i, l, r)
      /\ span \in [N -> SUBSET Keys] /\ level \in [N -> Nat] /\ at \in N /\ l \in N /\ r \in N
      /\ NodeSound(nodes[r], r, N, span, level)
      /\ nodes[r] \in Node /\ new[r] \in Node /\ level[l] = level[r] /\ r # at /\ l # r
  <2>1. r \in Blocks /\ new \in [Blocks -> Node]
    BY StealFacts
  <2>2. new[r] \in Node
    BY <2>1
  <2> QED BY <2>2, StealFacts DEF Siblings
<1>2. Stolen(nodes, N, span, new, at, i, l, r, old, m, sp)
  BY StolenIs
<1>3. /\ m \in Nat /\ m \in span[r]
      /\ sp[r] \in SUBSET span[at] /\ span[r] \subseteq span[at]
      /\ \A k \in span[at] : k \in sp[r] <=> k \in span[r] /\ m < k
  BY <1>2 DEF Stolen
<1>4. \A k \in span[at] : k \in Nat
  BY <1>1, ConstantFacts
<1>5. PICK n \in 1..(2 * T - 1), e \in [Slots -> Nat], f \in [Slots -> Nat] :
         n = nodes[r].nr_of_keys /\ e = nodes[r].entries /\ f = new[r].entries
  <2>1. nodes[r].nr_of_keys >= T
    BY DEF StealCase
  <2>2. nodes[r].nr_of_keys \in 1..(2 * T - 1)
    BY <2>1, <1>1, NodeFacts, ConstantFacts
  <2> QED BY <2>2, <1>1, EntriesAreNats
<1>6. IsRemoved(f, e, n, 0) /\ SortedTo(e, n) /\ 0 \in 0..(n - 1)
  BY <1>1, <1>5 DEF IsStolen, NodeSound, Sorted, SortedTo
<1>7. /\ SortedTo(f, n - 1)
      /\ \A a \in Slots : a < n - 1 => \E b \in Slots : b < n /\ b # 0 /\ f[a] = e[b]
      /\ \A b \in Slots : b < n /\ b # 0 => \E a \in Slots : a < n - 1 /\ f[a] = e[b]
  BY <1>6, RemovedSorted
<1>8. /\ n \in Nat /\ n > 0 /\ 0 \in Slots /\ e[0] = m
      /\ \A a \in Slots : a \in Nat /\ e[a] \in Nat
      /\ \A a \in Nat : a < n => a \in Slots /\ a \in 0..(n - 1)
  <2>1. \A a \in Slots : a \in Nat /\ e[a] \in Nat
    BY ConstantFacts DEF Slots
  <2>2. n \in Nat /\ n > 0 /\ 0 \in Slots /\ \A a \in Nat : a < n => a \in Slots /\ a \in 0..(n - 1)
    BY ConstantFacts DEF Slots
  <2> QED BY <2>1, <2>2, <1>5
<1>9. \A b \in Slots : b < n /\ b # 0 => m < e[b]
  <2>1. \A a, b \in Slots : a < b /\ b < n => e[a] < e[b]
    BY <1>6 DEF SortedTo
  <2>2. \A b \in Slots : b # 0 => 0 < b
    BY <1>8
  <2> QED BY <2>1, <2>2, <1>8
<1>10. /\ new[r].nr_of_keys = n - 1 /\ (new[r].leaf <=> nodes[r].leaf)
       /\ \A j \in Slots : f[j] = IF 0 <= j /\ j < n - 1 THEN e[j + 1] ELSE e[j]
  BY <1>1, <1>5, <1>6 DEF IsStolen, IsRemoved
<1>11. Sorted(new[r])
  BY <1>5, <1>7, <1>10 DEF Sorted, SortedTo
<1>12. \A b \in Slots : b < n => e[b] \in span[r]
  BY <1>1, <1>5, <1>8 DEF NodeSound
<1>13. ASSUME NEW a \in 0..(new[r].nr_of_keys - 1) PROVE new[r].entries[a] \in sp[r]
  <2>1. a \in Slots /\ a < n - 1
    BY <1>1, <1>8, <1>10, EntriesAreNumbers
  <2>2. PICK b \in Slots : b < n /\ b # 0 /\ f[a] = e[b]
    BY <2>1, <1>7
  <2>3. e[b] \in span[r] /\ m < e[b]
    BY <2>2, <1>9, <1>12
  <2> QED BY <2>2, <2>3, <1>3, <1>5
<1>14. ASSUME ~nodes[r].leaf, NEW j \in 0..(n - 1)
       PROVE  /\ new[r].children[j] \in N
              /\ sp[new[r].children[j]] = Between(new[r], j, sp[r])
              /\ level[new[r].children[j]] = level[r] - 1
  <2>1. PICK c : c = new[r].children[j]
    OBVIOUS
  <2>2. c = nodes[r].children[j + 1] /\ j \in Nat /\ j + 1 \in 0..n /\ (j + 1) - 1 = j /\ j + 1 > 0
    <3>1. j \in Nat /\ j + 1 \in 0..n /\ (j + 1) - 1 = j /\ j + 1 > 0
      BY <1>8
    <3>2. \A a \in 0..(n - 1) : new[r].children[a] = nodes[r].children[a + 1]
      BY <1>1, <1>5, <1>14 DEF IsStolen
    <3> QED BY <3>1, <3>2, <2>1
  <2>3. c \in N /\ span[c] = Between(nodes[r], j + 1, span[r]) /\ level[c] = level[r] - 1
    BY <2>2, <1>1, <1>5, <1>14 DEF NodeSound
  <2>4. sp[c] = span[c]
    <3>1. level[r] \in Nat
      BY <1>1
    <3>2. c # r /\ c # l
      BY <3>1, <2>3, <1>1
    <3> QED BY <3>2, <2>3 DEF SpanStolen
  <2>5. \A k : k \in span[c] <=> /\ k \in span[r] /\ e[j] < k
                                 /\ (j + 1 < n => k < e[j + 1])
    BY <2>2, <2>3, <1>5 DEF Between
  <2>6. j \in Slots /\ j < n /\ e[j] \in Nat /\ (j # 0 => m < e[j])
    BY <2>2, <1>8, <1>9
  <2>7. /\ j > 0 => j - 1 \in Slots /\ j - 1 < n - 1 /\ (j - 1) + 1 = j /\ 0 <= j - 1
        /\ j < n - 1 <=> j + 1 < n
    BY <2>2, <2>6, <1>8
  <2>8. /\ j > 0 => f[j - 1] = e[j]
        /\ j < n - 1 => f[j] = e[j + 1]
    <3>1. 0 <= j
      BY <2>2
    <3> QED BY <3>1, <2>6, <2>7, <1>10
  <2>9. \A k : k \in Between(new[r], j, sp[r])
                 <=> /\ k \in sp[r] /\ (j > 0 => e[j] < k)
                     /\ (j + 1 < n => k < e[j + 1])
    BY <2>7, <2>8, <1>5, <1>10 DEF Between
  <2>10. ASSUME NEW k \in span[at] PROVE k \in span[c] <=> k \in Between(new[r], j, sp[r])
    <3>1. k \in Nat
      BY <1>4
    <3>2. e[j] < k <=> m < k /\ (j > 0 => e[j] < k)
      BY <3>1, <2>2, <2>6, <1>3, <1>8
    <3> QED BY <3>1, <3>2, <2>5, <2>9, <1>3
  <2>11. span[c] \subseteq span[at] /\ Between(new[r], j, sp[r]) \subseteq span[at]
    BY <2>5, <2>9, <1>3
  <2> QED BY <2>1, <2>3, <2>4, <2>10, <2>11
<1>15. new[r].leaf <=> level[r] = 0
  BY <1>1, <1>10 DEF NodeSound
<1>16. NodeSound(new[r], r, N, sp, level)
  BY <1>10, <1>11, <1>13, <1>14, <1>15 DEF NodeSound
<1>17. ASSUME NEW k PROVE Holds(new[r], k) <=> Holds(nodes[r], k) /\ k # m
  <2>1. Holds(new[r], k) <=> \E a \in Slots : a < n - 1 /\ f[a] = k
    BY <1>5, <1>10 DEF Holds
  <2>2. Holds(nodes[r], k) <=> \E a \in Slots : a < n /\ e[a] = k
    BY <1>5 DEF Holds
  <2>3. \A b \in Slots : b < n => (b # 0 <=> e[b] # m)
    <3>1. ASSUME NEW b \in Slots, b < n, b # 0 PROVE e[b] # m
      BY <3>1, <1>3, <1>9
    <3> QED BY <3>1, <1>8
  <2> QED BY <2>1, <2>2, <2>3, <1>7
<1> QED BY <1>16, <1>17

(* The parent, between whose children a key passed.                        *)
LEMMA StolenParent ==
  ASSUME NEW nodes, NEW top, NEW N, NEW span, NEW level, NEW new, NEW at, NEW i, NEW l, NEW r,
         StealCase(nodes, top, N, span, level, new, at, i, l, r),
         NEW old, old = nodes[at].entries[i], NEW m, m = nodes[r].entries[0],
         NEW sp, sp = SpanStolen(span, N, new, at, i, l, r)
  PROVE  /\ NodeSound(new[at], at, N, sp, level)
         /\ \A k : Holds(new[at], k) <=> (Holds(nodes[at], k) /\ k # old) \/ k = m
<1>1. /\ IsStolen(nodes, new, at, i, l, r) /\ Shape(nodes, top, N, span, level)
      /\ span \in [N -> SUBSET Keys] /\ level \in [N -> Nat] /\ at \in N /\ l \in N /\ r \in N
      /\ NodeSound(nodes[at], at, N, span, level) /\ ~nodes[at].leaf
      /\ nodes[at] \in Node /\ l # r /\ r # at /\ l # at
      /\ span[r] = Between(nodes[at], i + 1, span[at])
      /\ i \in 0..(nodes[at].nr_of_keys - 1)
      /\ l = nodes[at].children[i] /\ r = nodes[at].children[i + 1]
  <2>1. /\ IsStolen(nodes, new, at, i, l, r) /\ Shape(nodes, top, N, span, level)
        /\ Siblings(nodes, top, N, span, level, at, i, l, r)
        /\ span \in [N -> SUBSET Keys] /\ level \in [N -> Nat] /\ N \in SUBSET Blocks
        /\ at \in N /\ l \in N /\ r \in N /\ l # r /\ l # at /\ r # at /\ ~nodes[at].leaf
        /\ i \in 0..(nodes[at].nr_of_keys - 1) /\ new \in [Blocks -> Node]
        /\ \A c \in N : NodeSound(nodes[c], c, N, span, level)
    BY StealFacts
  <2>2. /\ l = nodes[at].children[i] /\ r = nodes[at].children[i + 1]
        /\ nodes[l].nr_of_keys \in 0..(2 * T - 2) /\ nodes[r].nr_of_keys >= T
    BY DEF StealCase
  <2>3. /\ nodes[at] \in Node /\ nodes[l] \in Node /\ nodes[r] \in Node
        /\ (nodes[l].leaf <=> nodes[r].leaf) /\ l # top /\ r # top
        /\ span[r] = Between(nodes[at], i + 1, span[at])
    BY <2>1 DEF Siblings
  <2> QED BY <2>1, <2>2, <2>3
<1>2. Stolen(nodes, N, span, new, at, i, l, r, old, m, sp)
  BY StolenIs
<1>3. /\ old \in Nat /\ m \in Nat /\ m \in span[r] /\ m \in span[at] /\ old < m /\ sp[at] = span[at]
  BY <1>2 DEF Stolen
<1>4. PICK n \in Nat, e \in [Slots -> Nat] : n = nodes[at].nr_of_keys /\ e = nodes[at].entries
  <2>1. nodes[at].nr_of_keys \in Nat
    BY <1>1, NodeFacts, ConstantFacts
  <2> QED BY <2>1, <1>1, EntriesAreNats
<1>5. /\ i \in Nat /\ i < n /\ i \in Slots /\ i + 1 > 0 /\ i + 1 \in 0..n /\ i \in 0..n
      /\ \A a \in Slots : a \in Nat /\ e[a] \in Nat
      /\ \A a \in 0..(n - 1) : a \in Slots
  <2>1. \A a \in 0..(n - 1) : a \in Slots
    BY <1>1, <1>4, EntriesAreNumbers
  <2>2. i \in 0..(n - 1) /\ \A a \in Slots : a \in Nat /\ e[a] \in Nat
    BY <1>1, <1>4, EntriesAreNumbers
  <2> QED BY <2>1, <2>2
<1>6. /\ new[at].nr_of_keys = n /\ (new[at].leaf <=> nodes[at].leaf)
      /\ new[at].children = nodes[at].children
      /\ \A a \in Slots : new[at].entries[a] = IF a = i THEN m ELSE e[a]
  BY <1>1, <1>4 DEF IsStolen
<1>7. \A a, b \in Slots : a < b /\ b < n => e[a] < e[b]
  BY <1>1, <1>4 DEF NodeSound, Sorted
<1>8. e[i] = old
  BY <1>4
<1>9. \A a \in Slots : i < a /\ a < n => m < e[a]
  <2>1. ASSUME NEW a \in Slots, i < a, a < n PROVE m < e[a]
    <3>1. i + 1 \in 0..(n - 1) /\ i + 1 < n /\ (i + 1 = a \/ i + 1 < a)
      BY <2>1, <1>5
    <3>2. m < e[i + 1] /\ i + 1 \in Slots
      BY <3>1, <1>1, <1>3, <1>4, <1>5 DEF Between
    <3>3. CASE i + 1 = a
      BY <3>2, <3>3
    <3>4. CASE i + 1 < a
      <4>1. e[i + 1] < e[a]
        BY <2>1, <3>2, <3>4, <1>7
      <4> QED BY <4>1, <3>2, <1>3, <1>5
    <3> QED BY <3>1, <3>3, <3>4
  <2> QED BY <2>1
<1>10. \A a \in Slots : a < i => e[a] < m
  <2>1. ASSUME NEW a \in Slots, a < i PROVE e[a] < m
    <3>1. e[a] < e[i]
      BY <2>1, <1>5, <1>7
    <3> QED BY <3>1, <1>3, <1>5, <1>8
  <2> QED BY <2>1
<1>11. Sorted(new[at])
  <2>1. ASSUME NEW a \in Slots, NEW b \in Slots, a < b, b < n
        PROVE  new[at].entries[a] < new[at].entries[b]
    <3>1. a \in Nat /\ b \in Nat /\ e[a] < e[b]
      BY <2>1, <1>5, <1>7
    <3>2. CASE a = i
      BY <3>1, <3>2, <2>1, <1>6, <1>9
    <3>3. CASE b = i
      BY <3>1, <3>3, <2>1, <1>6, <1>10
    <3>4. CASE a # i /\ b # i
      BY <3>1, <3>4, <1>6
    <3> QED BY <3>2, <3>3, <3>4
  <2> QED BY <2>1, <1>6 DEF Sorted
<1>12. ASSUME NEW a \in 0..(new[at].nr_of_keys - 1) PROVE new[at].entries[a] \in sp[at]
  <2>1. a \in 0..(n - 1) /\ a \in Slots
    BY <1>5, <1>6
  <2>2. e[a] \in span[at]
    BY <2>1, <1>1, <1>4 DEF NodeSound
  <2> QED BY <2>1, <2>2, <1>3, <1>6
<1>13. ASSUME NEW j \in 0..n
       PROVE  /\ new[at].children[j] \in N
              /\ sp[new[at].children[j]] = Between(new[at], j, sp[at])
              /\ level[new[at].children[j]] = level[at] - 1
  <2>1. PICK c : c = nodes[at].children[j]
    OBVIOUS
  <2>2. c \in N /\ span[c] = Between(nodes[at], j, span[at]) /\ level[c] = level[at] - 1
    BY <2>1, <1>1, <1>4 DEF NodeSound
  <2>3. CASE j = i
    <3>1. c = l
      BY <2>1, <2>3, <1>1
    <3>2. sp[l] = Between(new[at], i, span[at])
      BY <1>1 DEF SpanStolen
    <3> QED BY <3>1, <3>2, <2>1, <2>2, <2>3, <1>3, <1>6
  <2>4. CASE j = i + 1
    <3>1. c = r
      BY <2>1, <2>4, <1>1
    <3>2. sp[r] = Between(new[at], i + 1, span[at])
      BY <1>1 DEF SpanStolen
    <3> QED BY <3>1, <3>2, <2>1, <2>2, <2>4, <1>3, <1>6
  <2>5. CASE j # i /\ j # i + 1
    <3>1. c # l
      <4>1. j \in 0..nodes[at].nr_of_keys /\ i \in 0..nodes[at].nr_of_keys
        BY <1>4, <1>5
      <4> QED BY <4>1, <2>1, <2>5, <1>1, OnePointer
    <3>2. c # r
      <4>1. j \in 0..nodes[at].nr_of_keys /\ i + 1 \in 0..nodes[at].nr_of_keys
        BY <1>4, <1>5
      <4> QED BY <4>1, <2>1, <2>5, <1>1, OnePointer
    <3>3. sp[c] = span[c]
      BY <3>1, <3>2, <2>2 DEF SpanStolen
    <3>4. /\ j > 0 => j - 1 \in Slots /\ j - 1 # i
          /\ j < n => j \in Slots
      <4>1. /\ j > 0 => j - 1 \in 0..(n - 1) /\ j - 1 # i
            /\ j < n => j \in 0..(n - 1)
        BY <2>5, <1>5
      <4> QED BY <4>1, <1>5
    <3>5. /\ j > 0 => new[at].entries[j - 1] = e[j - 1]
          /\ j < n => new[at].entries[j] = e[j]
      BY <3>4, <2>5, <1>6
    <3>6. Between(new[at], j, span[at]) = Between(nodes[at], j, span[at])
      BY <3>5, <1>4, <1>6 DEF Between
    <3> QED BY <3>3, <3>6, <2>1, <2>2, <1>3, <1>6
  <2> QED BY <2>3, <2>4, <2>5
<1>14. new[at].leaf <=> level[at] = 0
  BY <1>1, <1>6 DEF NodeSound
<1>15. NodeSound(new[at], at, N, sp, level)
  BY <1>6, <1>11, <1>12, <1>13, <1>14 DEF NodeSound
<1>16. ASSUME NEW k PROVE Holds(new[at], k) <=> (Holds(nodes[at], k) /\ k # old) \/ k = m
  <2>1. Holds(new[at], k) <=> \E a \in Slots : a < n /\ (IF a = i THEN m ELSE e[a]) = k
    BY <1>6 DEF Holds
  <2>2. Holds(nodes[at], k) <=> \E a \in Slots : a < n /\ e[a] = k
    BY <1>4 DEF Holds
  <2>3. \A a \in Slots : a < n => (a # i <=> e[a] # old)
    <3>1. ASSUME NEW a \in Slots, a < n, a # i PROVE e[a] # old
      <4>1. a < i \/ i < a
        BY <3>1, <1>5
      <4>2. e[a] < e[i] \/ e[i] < e[a]
        BY <4>1, <3>1, <1>5, <1>7
      <4> QED BY <4>2, <1>5, <1>8
    <3> QED BY <3>1, <1>8
  <2> QED BY <2>1, <2>2, <2>3, <1>5
<1> QED BY <1>15, <1>16

(* The other nodes.                                                        *)
LEMMA StolenOthers ==
  ASSUME NEW nodes, NEW top, NEW N, NEW span, NEW level, NEW new, NEW at, NEW i, NEW l, NEW r,
         StealCase(nodes, top, N, span, level, new, at, i, l, r),
         NEW sp, sp = SpanStolen(span, N, new, at, i, l, r),
         NEW b \in N, b # at, b # l, b # r
  PROVE  new[b] = nodes[b] /\ sp[b] = span[b] /\ NodeSound(new[b], b, N, sp, level)
<1>1. /\ IsStolen(nodes, new, at, i, l, r) /\ Shape(nodes, top, N, span, level)
      /\ at \in N /\ l \in N /\ r \in N /\ N \in SUBSET Blocks
      /\ NodeSound(nodes[b], b, N, span, level) /\ nodes[at] \in Node
      /\ ~nodes[at].leaf /\ i \in 0..(nodes[at].nr_of_keys - 1)
      /\ l = nodes[at].children[i] /\ r = nodes[at].children[i + 1]
  <2>1. /\ IsStolen(nodes, new, at, i, l, r) /\ Shape(nodes, top, N, span, level)
        /\ Siblings(nodes, top, N, span, level, at, i, l, r)
        /\ span \in [N -> SUBSET Keys] /\ level \in [N -> Nat] /\ N \in SUBSET Blocks
        /\ at \in N /\ l \in N /\ r \in N /\ l # r /\ l # at /\ r # at /\ ~nodes[at].leaf
        /\ i \in 0..(nodes[at].nr_of_keys - 1) /\ new \in [Blocks -> Node]
        /\ \A c \in N : NodeSound(nodes[c], c, N, span, level)
    BY StealFacts
  <2>2. /\ l = nodes[at].children[i] /\ r = nodes[at].children[i + 1]
        /\ nodes[l].nr_of_keys \in 0..(2 * T - 2) /\ nodes[r].nr_of_keys >= T
    BY DEF StealCase
  <2>3. /\ nodes[at] \in Node /\ nodes[l] \in Node /\ nodes[r] \in Node
        /\ (nodes[l].leaf <=> nodes[r].leaf) /\ l # top /\ r # top
        /\ span[r] = Between(nodes[at], i + 1, span[at])
    BY <2>1 DEF Siblings
  <2> QED BY <2>1, <2>2, <2>3
<1>2. new[b] = nodes[b]
  BY <1>1 DEF IsStolen
<1>3. i \in 0..nodes[at].nr_of_keys /\ i + 1 \in 0..nodes[at].nr_of_keys
  BY <1>1, NodeFacts
<1>4. \A c \in N : c # l /\ c # r => sp[c] = span[c]
  BY DEF SpanStolen
<1>5. ASSUME ~nodes[b].leaf, NEW j \in 0..nodes[b].nr_of_keys
      PROVE  nodes[b].children[j] # l /\ nodes[b].children[j] # r
  BY <1>1, <1>3, <1>5, OnePointer
<1> QED BY <1>1, <1>2, <1>4, <1>5 DEF NodeSound

(* A pointer leads to every node, and no node lacks keys.                  *)
LEMMA StolenPointers ==
  ASSUME NEW nodes, NEW top, NEW N, NEW span, NEW level, NEW new, NEW at, NEW i, NEW l, NEW r,
         StealCase(nodes, top, N, span, level, new, at, i, l, r),
         NEW b \in N, b # top
  PROVE  new[b].nr_of_keys >= T - 1 /\ \E p \in N : PointsTo(new[p], b)
<1>1. /\ IsStolen(nodes, new, at, i, l, r) /\ Shape(nodes, top, N, span, level)
      /\ at \in N /\ l \in N /\ r \in N /\ N \in SUBSET Blocks /\ l # r /\ l # at /\ r # at
      /\ ~nodes[at].leaf /\ nodes[l] \in Node /\ nodes[r] \in Node
      /\ (nodes[l].leaf <=> nodes[r].leaf)
      /\ nodes[l].nr_of_keys \in 0..(2 * T - 2) /\ nodes[r].nr_of_keys >= T
  <2>1. /\ IsStolen(nodes, new, at, i, l, r) /\ Shape(nodes, top, N, span, level)
        /\ Siblings(nodes, top, N, span, level, at, i, l, r)
        /\ span \in [N -> SUBSET Keys] /\ level \in [N -> Nat] /\ N \in SUBSET Blocks
        /\ at \in N /\ l \in N /\ r \in N /\ l # r /\ l # at /\ r # at /\ ~nodes[at].leaf
        /\ i \in 0..(nodes[at].nr_of_keys - 1) /\ new \in [Blocks -> Node]
        /\ \A c \in N : NodeSound(nodes[c], c, N, span, level)
    BY StealFacts
  <2>2. /\ l = nodes[at].children[i] /\ r = nodes[at].children[i + 1]
        /\ nodes[l].nr_of_keys \in 0..(2 * T - 2) /\ nodes[r].nr_of_keys >= T
    BY DEF StealCase
  <2>3. /\ nodes[at] \in Node /\ nodes[l] \in Node /\ nodes[r] \in Node
        /\ (nodes[l].leaf <=> nodes[r].leaf) /\ l # top /\ r # top
        /\ span[r] = Between(nodes[at], i + 1, span[at])
    BY <2>1 DEF Siblings
  <2> QED BY <2>1, <2>2, <2>3
<1>2. nodes[b].nr_of_keys >= T - 1 /\ \E p \in N : PointsTo(nodes[p], b)
  BY <1>1 DEF Shape
<1>3. PICK n \in Nat, q \in Nat : n = nodes[l].nr_of_keys /\ q = nodes[r].nr_of_keys
  BY <1>1, NodeFacts, ConstantFacts
<1>4. new[l].nr_of_keys = n + 1 /\ new[r].nr_of_keys = q - 1 /\ q >= T /\ n <= 2 * T - 2
  BY <1>1, <1>3 DEF IsStolen
<1>5. new[b].nr_of_keys >= T - 1
  <2>1. CASE b = l
    BY <2>1, <1>2, <1>3, <1>4, ConstantFacts
  <2>2. CASE b = r
    BY <2>2, <1>3, <1>4, ConstantFacts
  <2>3. CASE b = at
    BY <2>3, <1>1, <1>2 DEF IsStolen
  <2>4. CASE b # l /\ b # r /\ b # at
    <3>1. new[b] = nodes[b]
      BY <2>4, <1>1 DEF IsStolen
    <3> QED BY <3>1, <1>2
  <2> QED BY <2>1, <2>2, <2>3, <2>4
<1>6. PICK p \in N : PointsTo(nodes[p], b)
  BY <1>2
<1>7. PICK j \in 0..nodes[p].nr_of_keys : ~nodes[p].leaf /\ nodes[p].children[j] = b
  BY <1>6 DEF PointsTo
<1>8. \A j2 \in 0..(n + 1) : j2 \in Kids
  BY <1>3, <1>4, ConstantFacts DEF Kids
<1>9. CASE p = at
  <2>1. /\ new[at].nr_of_keys = nodes[at].nr_of_keys /\ (new[at].leaf <=> nodes[at].leaf)
        /\ new[at].children = nodes[at].children
    BY <1>1 DEF IsStolen
  <2>2. PointsTo(new[at], b)
    BY <2>1, <1>7, <1>9 DEF PointsTo
  <2> QED BY <2>2, <1>1, <1>5
<1>10. CASE p = l
  <2>1. j \in 0..n /\ j \in 0..(n + 1) /\ j # n + 1 /\ j \in Kids
    BY <1>3, <1>7, <1>8, <1>10
  <2>2. new[l].children[j] = b /\ ~new[l].leaf
    BY <2>1, <1>1, <1>3, <1>7, <1>10 DEF IsStolen
  <2>3. PointsTo(new[l], b)
    BY <2>1, <2>2, <1>4 DEF PointsTo
  <2> QED BY <2>3, <1>1, <1>5
<1>11. CASE p = r
  <2>1. ~nodes[r].leaf /\ ~nodes[l].leaf /\ j \in 0..q /\ nodes[r].children[j] = b
    BY <1>1, <1>3, <1>7, <1>11
  <2>2. CASE j = 0
    <3>1. n + 1 \in 0..(n + 1) /\ n + 1 \in Kids
      BY <1>3, <1>8
    <3>2. new[l].children[n + 1] = b /\ ~new[l].leaf
      BY <2>1, <2>2, <3>1, <1>1, <1>3 DEF IsStolen
    <3>3. PointsTo(new[l], b)
      BY <3>1, <3>2, <1>4 DEF PointsTo
    <3> QED BY <3>3, <1>1, <1>5
  <2>3. CASE j # 0
    <3>1. j - 1 \in 0..(q - 1) /\ (j - 1) + 1 = j
      BY <2>1, <2>3, <1>3
    <3>2. new[r].children[j - 1] = b /\ ~new[r].leaf
      BY <2>1, <3>1, <1>1, <1>3 DEF IsStolen
    <3>3. PointsTo(new[r], b)
      BY <3>1, <3>2, <1>4 DEF PointsTo
    <3> QED BY <3>3, <1>1, <1>5
  <2> QED BY <2>2, <2>3
<1>12. CASE p # at /\ p # l /\ p # r
  <2>1. new[p] = nodes[p]
    BY <1>12, <1>1 DEF IsStolen
  <2> QED BY <2>1, <1>5, <1>6
<1> QED BY <1>9, <1>10, <1>11, <1>12

LEMMA StolenApart ==
  ASSUME NEW nodes, NEW top, NEW N, NEW span, NEW level, NEW new, NEW at, NEW i, NEW l, NEW r,
         StealCase(nodes, top, N, span, level, new, at, i, l, r),
         NEW old, old = nodes[at].entries[i], NEW m, m = nodes[r].entries[0],
         NEW sp, sp = SpanStolen(span, N, new, at, i, l, r),
         NEW b \in N, NEW c \in N, level[b] = level[c], b # c, NEW k, k \in sp[b], k \in sp[c]
  PROVE  FALSE
<1>1. /\ Shape(nodes, top, N, span, level) /\ span \in [N -> SUBSET Keys]
      /\ at \in N /\ l \in N /\ r \in N /\ l # r /\ nodes[at] \in Node
      /\ i \in 0..(nodes[at].nr_of_keys - 1)
      /\ level[l] = level[at] - 1 /\ level[r] = level[at] - 1 /\ level[at] \in Nat
  BY StealFacts DEF Siblings
<1>2. \A x, y \in N : level[x] = level[y] /\ x # y => span[x] \cap span[y] = {}
  BY <1>1 DEF Shape
<1>3. Stolen(nodes, N, span, new, at, i, l, r, old, m, sp)
  BY StolenIs
<1>4. /\ sp[l] \in SUBSET span[at] /\ sp[r] \in SUBSET span[at] /\ m \in Nat
      /\ \A q \in span[at] : /\ q \in sp[l] <=> q \in span[l] \/ q = old \/ (q \in span[r] /\ q < m)
                             /\ q \in sp[r] <=> q \in span[r] /\ m < q
                             /\ q \in span[l] => q < old
                             /\ q \in span[r] => old < q
      /\ old \in Nat
  BY <1>3 DEF Stolen
<1>5. \A x \in N : x # l /\ x # r => sp[x] = span[x]
  BY DEF SpanStolen
<1>6. Holds(nodes[at], old)
  <2>1. i \in Slots /\ i < nodes[at].nr_of_keys
    BY <1>1, EntriesAreNumbers, NodeFacts
  <2> QED BY <2>1 DEF Holds
<1>7. \A x \in N : old \in span[x] => level[at] <= level[x]
  BY <1>1, <1>6, HeldAbove
\* What lies below l now lies below no third node of its level ...
<1>8. ASSUME NEW x \in N, x # l, x # r, level[x] = level[l], NEW q, q \in sp[l], q \in sp[x]
      PROVE  FALSE
  <2>1. q \in span[x] /\ q \in span[at]
    BY <1>4, <1>5, <1>8
  <2>2. q # old
    BY <2>1, <1>1, <1>7, <1>8
  <2>3. q \in span[l] \/ q \in span[r]
    BY <2>1, <2>2, <1>4, <1>8
  <2> QED BY <2>1, <2>3, <1>1, <1>2, <1>8
\* ... nor does what lies below r, ...
<1>9. ASSUME NEW x \in N, x # l, x # r, level[x] = level[r], NEW q, q \in sp[r], q \in sp[x]
      PROVE  FALSE
  <2>1. q \in span[x] /\ q \in span[r]
    BY <1>4, <1>5, <1>9
  <2> QED BY <2>1, <1>1, <1>2, <1>9
\* ... and nothing lies below both.
<1>10. ASSUME NEW q, q \in sp[l], q \in sp[r] PROVE FALSE
  <2>1. q \in span[at] /\ q \in Nat /\ q \in span[r] /\ m < q
    BY <1>1, <1>4, <1>10, ConstantFacts
  <2>2. q \notin span[l] /\ q # old /\ ~ q < m
    BY <2>1, <1>4
  <2> QED BY <2>1, <2>2, <1>4, <1>10
<1>11. CASE b = l
  BY <1>11, <1>8, <1>10
<1>12. CASE b = r
  BY <1>12, <1>9, <1>10
<1>13. CASE b # l /\ b # r /\ c = l
  BY <1>13, <1>8
<1>14. CASE b # l /\ b # r /\ c = r
  BY <1>14, <1>9
<1>15. CASE b # l /\ b # r /\ c # l /\ c # r
  BY <1>15, <1>2, <1>5
<1> QED BY <1>11, <1>12, <1>13, <1>14, <1>15

(* Borrowing leaves a tree of the same nodes with the same keys.           *)
LEMMA StealShape ==
  ASSUME NEW nodes, NEW top, NEW N, NEW span, NEW level, NEW new, NEW at, NEW i, NEW l, NEW r,
         StealCase(nodes, top, N, span, level, new, at, i, l, r)
  PROVE  /\ \E sp : /\ Shape(new, top, N, sp, level)
                    /\ \A k \in span[l] : k \in sp[l]
                    /\ \A b \in N : b # l /\ b # r => sp[b] = span[b]
         /\ Content(new, N) = Content(nodes, N)
         /\ \A b \in N : \A k \in span[l] :
              Holds(new[b], k) => Holds(nodes[b], k) \/ (b = l /\ Holds(nodes[at], k))
<1>1. /\ Shape(nodes, top, N, span, level) /\ new \in [Blocks -> Node] /\ N \in SUBSET Blocks
      /\ span \in [N -> SUBSET Keys] /\ level \in [N -> Nat]
      /\ at \in N /\ l \in N /\ r \in N /\ l # r /\ l # at /\ r # at
      /\ nodes[at] \in Node /\ nodes[r] \in Node /\ l # top /\ r # top
      /\ i \in 0..(nodes[at].nr_of_keys - 1) /\ nodes[r].nr_of_keys >= T
  <2>1. /\ IsStolen(nodes, new, at, i, l, r) /\ Shape(nodes, top, N, span, level)
        /\ Siblings(nodes, top, N, span, level, at, i, l, r)
        /\ span \in [N -> SUBSET Keys] /\ level \in [N -> Nat] /\ N \in SUBSET Blocks
        /\ at \in N /\ l \in N /\ r \in N /\ l # r /\ l # at /\ r # at /\ ~nodes[at].leaf
        /\ i \in 0..(nodes[at].nr_of_keys - 1) /\ new \in [Blocks -> Node]
        /\ \A c \in N : NodeSound(nodes[c], c, N, span, level)
    BY StealFacts
  <2>2. /\ l = nodes[at].children[i] /\ r = nodes[at].children[i + 1]
        /\ nodes[l].nr_of_keys \in 0..(2 * T - 2) /\ nodes[r].nr_of_keys >= T
    BY DEF StealCase
  <2>3. /\ nodes[at] \in Node /\ nodes[l] \in Node /\ nodes[r] \in Node
        /\ (nodes[l].leaf <=> nodes[r].leaf) /\ l # top /\ r # top
        /\ span[r] = Between(nodes[at], i + 1, span[at])
    BY <2>1 DEF Siblings
  <2> QED BY <2>1, <2>2, <2>3
<1>2. PICK old, m, sp : /\ old = nodes[at].entries[i] /\ m = nodes[r].entries[0]
                        /\ sp = SpanStolen(span, N, new, at, i, l, r)
  OBVIOUS
<1>3. Stolen(nodes, N, span, new, at, i, l, r, old, m, sp)
  BY <1>2, StolenIs
<1>4. /\ NodeSound(new[l], l, N, sp, level)
      /\ \A k : Holds(new[l], k) <=> Holds(nodes[l], k) \/ k = old
  BY <1>2, StolenLeft
<1>5. /\ NodeSound(new[r], r, N, sp, level)
      /\ \A k : Holds(new[r], k) <=> Holds(nodes[r], k) /\ k # m
  BY <1>2, StolenRight
<1>6. /\ NodeSound(new[at], at, N, sp, level)
      /\ \A k : Holds(new[at], k) <=> (Holds(nodes[at], k) /\ k # old) \/ k = m
  BY <1>2, StolenParent
<1>7. \A b \in N : b # at /\ b # l /\ b # r =>
        new[b] = nodes[b] /\ sp[b] = span[b] /\ NodeSound(new[b], b, N, sp, level)
  BY <1>2, StolenOthers
<1>8. /\ sp \in [N -> SUBSET Keys] /\ sp[top] = Keys
  <2>1. \A x \in SUBSET Keys : \A y : \A a : Between(y, a, x) \in SUBSET Keys
    BY DEF Between
  <2>2. sp \in [N -> SUBSET Keys]
    BY <2>1, <1>1, <1>2 DEF SpanStolen
  <2>3. sp[top] = span[top] /\ span[top] = Keys
    BY <1>1, <1>2 DEF SpanStolen, Shape
  <2> QED BY <2>2, <2>3
<1>9. \A b \in N : NodeSound(new[b], b, N, sp, level)
  BY <1>4, <1>5, <1>6, <1>7
<1>10. \A b \in N \ {top} : new[b].nr_of_keys >= T - 1 /\ \E p \in N : PointsTo(new[p], b)
  BY StolenPointers
<1>11. \A b, c \in N : level[b] = level[c] /\ b # c => sp[b] \cap sp[c] = {}
  <2> SUFFICES ASSUME NEW b \in N, NEW c \in N, level[b] = level[c], b # c, NEW k \in sp[b] \cap sp[c]
               PROVE  FALSE
    OBVIOUS
  <2>1. k \in sp[b] /\ k \in sp[c]
    OBVIOUS
  <2> QED BY <2>1, <1>2, StolenApart
<1>12. Shape(new, top, N, sp, level)
  BY <1>1, <1>8, <1>9, <1>10, <1>11 DEF Shape
<1>13. \A k \in span[l] : k \in sp[l]
  BY <1>3 DEF Stolen
<1>14. Holds(nodes[at], old) /\ Holds(nodes[r], m)
  <2>1. i \in Slots /\ i < nodes[at].nr_of_keys
    BY <1>1, EntriesAreNumbers, NodeFacts
  <2>2. 0 \in Slots /\ 0 < nodes[r].nr_of_keys
    BY <1>1, NodeFacts, ConstantFacts DEF Slots
  <2> QED BY <2>1, <2>2, <1>2 DEF Holds
<1>15. ASSUME NEW k \in Keys
       PROVE  (\E b \in N : Holds(new[b], k)) <=> \E b \in N : Holds(nodes[b], k)
  <2>1. ASSUME NEW b \in N, Holds(new[b], k) PROVE \E x \in N : Holds(nodes[x], k)
    BY <2>1, <1>1, <1>4, <1>5, <1>6, <1>7, <1>14
  <2>2. ASSUME NEW b \in N, Holds(nodes[b], k) PROVE \E x \in N : Holds(new[x], k)
    BY <2>2, <1>1, <1>4, <1>5, <1>6, <1>7, <1>14
  <2> QED BY <2>1, <2>2
<1>16. \A b \in N : b # l /\ b # r => sp[b] = span[b]
  BY <1>2 DEF SpanStolen
<1>17. m \notin span[l]
  <2>1. m \in span[r] /\ level[l] = level[r]
    BY <1>3, StealFacts DEF Stolen, Siblings
  <2> QED BY <2>1, <1>1 DEF Shape
<1>18. \A b \in N : \A k \in span[l] :
         Holds(new[b], k) => Holds(nodes[b], k) \/ (b = l /\ Holds(nodes[at], k))
  BY <1>4, <1>5, <1>6, <1>7, <1>14, <1>17
<1>19. Content(new, N) = Content(nodes, N)
  BY <1>15 DEF Content
<1> QED BY <1>12, <1>13, <1>16, <1>18, <1>19

LEMMA ThreePut ==
  ASSUME NEW nodes \in [Blocks -> Node], NEW at \in Blocks, NEW l \in Blocks, NEW r \in Blocks,
         l # r, l # at, r # at, NEW x \in Node, NEW y \in Node, NEW z \in Node,
         NEW new, new = [nodes EXCEPT ![l] = x, ![r] = y, ![at] = z]
  PROVE  /\ new \in [Blocks -> Node] /\ new[l] = x /\ new[r] = y /\ new[at] = z
         /\ \A b \in Blocks : b # at /\ b # l /\ b # r => new[b] = nodes[b]
<1>1. PICK n1 : n1 = [nodes EXCEPT ![l] = x]
  OBVIOUS
<1>2. PICK n2 : n2 = [n1 EXCEPT ![r] = y]
  OBVIOUS
<1>3. n1 \in [Blocks -> Node] /\ n1[l] = x /\ \A b \in Blocks : b # l => n1[b] = nodes[b]
  BY <1>1
<1>4. n2 \in [Blocks -> Node] /\ n2[r] = y /\ \A b \in Blocks : b # r => n2[b] = n1[b]
  BY <1>2, <1>3
<1>5. new = [n2 EXCEPT ![at] = z]
  BY <1>1, <1>2
<1>6. new \in [Blocks -> Node] /\ new[at] = z /\ \A b \in Blocks : b # at => new[b] = n2[b]
  BY <1>4, <1>5
<1> QED BY <1>3, <1>4, <1>6

(* The same step taken by two families of nodes that agree where it is     *)
(* taken.                                                                  *)
LEMMA StolenAlike ==
  ASSUME NEW nodes, NEW new, NEW at \in Blocks, NEW i, NEW l \in Blocks, NEW r \in Blocks,
         IsStolen(nodes, new, at, i, l, r),
         NEW o, NEW o2 \in [Blocks -> Node],
         o[at] = nodes[at], o[l] = nodes[l], o[r] = nodes[r],
         o2[at] = new[at], o2[l] = new[l], o2[r] = new[r],
         \A b \in Blocks : b # at /\ b # l /\ b # r => o2[b] = o[b]
  PROVE  IsStolen(o, o2, at, i, l, r)
<1>1. PICK x, y, z, x2, y2, z2 : /\ x = nodes[l] /\ y = nodes[r] /\ z = nodes[at]
                                 /\ x2 = new[l] /\ y2 = new[r] /\ z2 = new[at]
  OBVIOUS
<1>2. x = o[l] /\ y = o[r] /\ z = o[at] /\ x2 = o2[l] /\ y2 = o2[r] /\ z2 = o2[at]
  BY <1>1
<1>3. /\ x2.nr_of_keys = x.nr_of_keys + 1 /\ (x2.leaf <=> x.leaf) /\ x2.nr_of_files = x.nr_of_files
      /\ y2.nr_of_keys = y.nr_of_keys - 1 /\ (y2.leaf <=> y.leaf) /\ y2.nr_of_files = y.nr_of_files
      /\ z2.nr_of_keys = z.nr_of_keys /\ (z2.leaf <=> z.leaf) /\ z2.nr_of_files = z.nr_of_files
      /\ z2.children = z.children
      /\ IsRemoved(y2.entries, y.entries, y.nr_of_keys, 0)
  BY <1>1 DEF IsStolen
<1>4. /\ \A j \in Slots : x2.entries[j] = IF j = x.nr_of_keys THEN z.entries[i] ELSE x.entries[j]
      /\ ~x.leaf => \A j \in Kids : x2.children[j] = IF j = x.nr_of_keys + 1 THEN y.children[0]
                                                     ELSE x.children[j]
      /\ ~y.leaf => \A j \in 0..(y.nr_of_keys - 1) : y2.children[j] = y.children[j + 1]
      /\ \A j \in Slots : z2.entries[j] = IF j = i THEN y.entries[0] ELSE z.entries[j]
  BY <1>1 DEF IsStolen
<1> QED BY <1>2, <1>3, <1>4 DEF IsStolen

(* What StealFromNext does to the three nodes, as it assigns them.         *)
StealDone(nodes, at, i, l, r, l2, r2, new) ==
  /\ l2 = [nodes[l] EXCEPT
             !.entries[nodes[l].nr_of_keys] = nodes[at].entries[i],
             !.children = IF nodes[l].leaf THEN @
                          ELSE [@ EXCEPT ![nodes[l].nr_of_keys + 1] = nodes[r].children[0]],
             !.nr_of_keys = @ + 1]
  /\ r2 = [nodes[r] EXCEPT
             !.entries = Removed(@, 0, nodes[r].nr_of_keys),
             !.children = IF nodes[r].leaf THEN @ ELSE Removed(@, 0, nodes[r].nr_of_keys + 1),
             !.nr_of_keys = @ - 1]
  /\ new = [nodes EXCEPT ![l] = l2, ![r] = r2, ![at].entries[i] = nodes[r].entries[0]]

LEMMA StolenFrom ==
  ASSUME NEW nodes \in [Blocks -> Node], NEW at \in Blocks, NEW l \in Blocks, NEW r \in Blocks,
         l # r, l # at, r # at, NEW i \in Slots,
         nodes[l].nr_of_keys \in 0..(2 * T - 2), nodes[r].nr_of_keys > 0,
         NEW l2, NEW r2, NEW new, StealDone(nodes, at, i, l, r, l2, r2, new)
  PROVE  IsStolen(nodes, new, at, i, l, r)
<1>1. PICK x, y, z : x = nodes[l] /\ y = nodes[r] /\ z = nodes[at]
  OBVIOUS
<1>2. /\ x \in Node /\ x.entries \in [Slots -> Hashes] /\ x.children \in [Kids -> Blocks \cup {0}]
      /\ x.nr_of_files \in Int /\ x.leaf \in BOOLEAN
      /\ y \in Node /\ y.entries \in [Slots -> Hashes] /\ y.children \in [Kids -> Blocks \cup {0}]
      /\ y.nr_of_files \in Int /\ y.leaf \in BOOLEAN
      /\ z \in Node /\ z.entries \in [Slots -> Hashes]
  BY <1>1 DEF Node
<1>3. PICK n \in Nat, q \in Nat : n = x.nr_of_keys /\ q = y.nr_of_keys
  <2>1. x.nr_of_keys \in 0..(2 * T - 1) /\ y.nr_of_keys \in 0..(2 * T - 1)
    BY <1>2, NodeFacts
  <2>2. x.nr_of_keys \in Nat /\ y.nr_of_keys \in Nat
    BY <2>1, ConstantFacts
  <2> QED BY <2>2
<1>4. /\ n \in Slots /\ n + 1 \in Kids /\ n + 1 \in 0..(2 * T - 1) /\ q - 1 \in 0..(2 * T - 1)
      /\ q > 0 /\ q <= 2 * T - 1 /\ 0 \in Slots /\ 0 \in Kids
  <2>1. n \in 0..(2 * T - 2) /\ q > 0 /\ q \in 0..(2 * T - 1)
    BY <1>1, <1>2, <1>3, NodeFacts
  <2> QED BY <2>1, ConstantFacts DEF Slots, Kids
<1>5. PICK f, c, g, d : /\ f = [x.entries EXCEPT ![n] = z.entries[i]]
                        /\ c = IF x.leaf THEN x.children
                               ELSE [x.children EXCEPT ![n + 1] = y.children[0]]
                        /\ g = Removed(y.entries, 0, q)
                        /\ d = IF y.leaf THEN y.children ELSE Removed(y.children, 0, q + 1)
  OBVIOUS
<1>6. /\ f \in [Slots -> Hashes] /\ \A j \in Slots : f[j] = IF j = n THEN z.entries[i] ELSE x.entries[j]
  BY <1>2, <1>4, <1>5
<1>7. /\ c \in [Kids -> Blocks \cup {0}]
      /\ ~x.leaf => \A j \in Kids : c[j] = IF j = n + 1 THEN y.children[0] ELSE x.children[j]
  <2>1. y.children[0] \in Blocks \cup {0}
    BY <1>2, <1>4
  <2>2. CASE x.leaf
    <3>1. c = x.children
      BY <2>2, <1>5
    <3> QED BY <3>1, <2>2, <1>2
  <2>3. CASE ~x.leaf
    <3>1. c = [x.children EXCEPT ![n + 1] = y.children[0]]
      BY <2>3, <1>5
    <3> QED BY <3>1, <2>1, <1>2, <1>4
  <2> QED BY <2>2, <2>3
<1>8. /\ g \in [Slots -> Hashes] /\ IsRemoved(g, y.entries, q, 0)
  <2>1. g = [j \in Slots |-> IF 0 <= j /\ j < q - 1 THEN y.entries[j + 1] ELSE y.entries[j]]
    BY <1>2, <1>5 DEF Removed
  <2>2. ASSUME NEW j \in Slots, j < q - 1 PROVE j + 1 \in Slots
    BY <2>2, <1>4, ConstantFacts DEF Slots
  <2> QED BY <2>1, <2>2, <1>2 DEF IsRemoved
<1>9. /\ d \in [Kids -> Blocks \cup {0}]
      /\ ~y.leaf => \A j \in 0..(q - 1) : d[j] = y.children[j + 1]
  <2>1. CASE y.leaf
    <3>1. d = y.children
      BY <2>1, <1>5
    <3> QED BY <3>1, <2>1, <1>2
  <2>2. CASE ~y.leaf
    <3>1. d = [j \in Kids |-> IF 0 <= j /\ j < (q + 1) - 1 THEN y.children[j + 1] ELSE y.children[j]]
      BY <2>2, <1>2, <1>5 DEF Removed
    <3>2. ASSUME NEW j \in Kids, j < (q + 1) - 1 PROVE j + 1 \in Kids
      BY <3>2, <1>4, ConstantFacts DEF Kids
    <3>3. d \in [Kids -> Blocks \cup {0}]
      BY <3>1, <3>2, <1>2
    <3>4. \A j \in 0..(q - 1) : j \in Kids /\ 0 <= j /\ j < (q + 1) - 1
      BY <1>4, ConstantFacts DEF Kids
    <3> QED BY <3>1, <3>3, <3>4
  <2> QED BY <2>1, <2>2
<1>10. l2 = [x EXCEPT !.entries = f, !.children = c, !.nr_of_keys = n + 1]
  BY <1>1, <1>3, <1>5 DEF StealDone
<1>11. r2 = [y EXCEPT !.entries = g, !.children = d, !.nr_of_keys = q - 1]
  BY <1>1, <1>3, <1>5 DEF StealDone
<1>12. PICK h : h = [z.entries EXCEPT ![i] = y.entries[0]]
  OBVIOUS
<1>13. h \in [Slots -> Hashes] /\ \A j \in Slots : h[j] = IF j = i THEN y.entries[0] ELSE z.entries[j]
  BY <1>2, <1>4, <1>12
<1>14. PICK z2 : z2 = [z EXCEPT !.entries = h]
  OBVIOUS
<1>15. /\ l2 \in Node /\ l2.entries = f /\ l2.children = c /\ l2.nr_of_keys = n + 1
       /\ l2.nr_of_files = x.nr_of_files /\ l2.leaf = x.leaf
  BY <1>2, <1>4, <1>6, <1>7, <1>10 DEF Node
<1>16. /\ r2 \in Node /\ r2.entries = g /\ r2.children = d /\ r2.nr_of_keys = q - 1
       /\ r2.nr_of_files = y.nr_of_files /\ r2.leaf = y.leaf
  BY <1>2, <1>4, <1>8, <1>9, <1>11 DEF Node
<1>17. /\ z2 \in Node /\ z2.entries = h /\ z2.children = z.children /\ z2.nr_of_keys = z.nr_of_keys
       /\ z2.nr_of_files = z.nr_of_files /\ z2.leaf = z.leaf
  BY <1>2, <1>13, <1>14 DEF Node
<1>18. new = [nodes EXCEPT ![l] = l2, ![r] = r2, ![at] = z2]
  <2>1. [nodes EXCEPT ![l] = l2, ![r] = r2][at] = z
    BY <1>1
  <2>2. new = [nodes EXCEPT ![l] = l2, ![r] = r2, ![at].entries[i] = nodes[r].entries[0]]
    BY DEF StealDone
  <2> QED BY <2>1, <2>2, <1>1, <1>12, <1>14
<1>19. /\ new \in [Blocks -> Node] /\ new[l] = l2 /\ new[r] = r2 /\ new[at] = z2
       /\ \A b \in Blocks : b # at /\ b # l /\ b # r => new[b] = nodes[b]
  BY <1>15, <1>16, <1>17, <1>18, ThreePut
<1>20. /\ new[l].nr_of_keys = nodes[l].nr_of_keys + 1 /\ (new[l].leaf <=> nodes[l].leaf)
       /\ new[l].nr_of_files = nodes[l].nr_of_files
       /\ new[r].nr_of_keys = nodes[r].nr_of_keys - 1 /\ (new[r].leaf <=> nodes[r].leaf)
       /\ new[r].nr_of_files = nodes[r].nr_of_files
       /\ new[at].nr_of_keys = nodes[at].nr_of_keys /\ (new[at].leaf <=> nodes[at].leaf)
       /\ new[at].nr_of_files = nodes[at].nr_of_files /\ new[at].children = nodes[at].children
  BY <1>1, <1>3, <1>15, <1>16, <1>17, <1>19
<1>21. \A j \in Slots : new[l].entries[j] = IF j = nodes[l].nr_of_keys THEN nodes[at].entries[i]
                                           ELSE nodes[l].entries[j]
  BY <1>1, <1>3, <1>6, <1>15, <1>19
<1>22. ~nodes[l].leaf =>
         \A j \in Kids : new[l].children[j] = IF j = nodes[l].nr_of_keys + 1 THEN nodes[r].children[0]
                                              ELSE nodes[l].children[j]
  BY <1>1, <1>3, <1>7, <1>15, <1>19
<1>23. /\ IsRemoved(new[r].entries, nodes[r].entries, nodes[r].nr_of_keys, 0)
       /\ ~nodes[r].leaf =>
            \A j \in 0..(nodes[r].nr_of_keys - 1) : new[r].children[j] = nodes[r].children[j + 1]
  BY <1>1, <1>3, <1>8, <1>9, <1>16, <1>19
<1>24. \A j \in Slots : new[at].entries[j] = IF j = i THEN nodes[r].entries[0]
                                             ELSE nodes[at].entries[j]
  BY <1>1, <1>13, <1>17, <1>19
<1> QED BY <1>19, <1>20, <1>21, <1>22, <1>23, <1>24 DEF IsStolen

----
(* Two leaves become one.                                                  *)

\* The keys of f are those of e, then mid, then those of g.
IsJoined(f, e, mid, g) ==
  \A j \in Slots : f[j] = IF j = T - 1 THEN mid
                          ELSE IF T <= j /\ j < T + (T - 1) THEN g[j - T] ELSE e[j]

LEMMA JoinedSorted ==
  ASSUME NEW e \in [Slots -> Nat], NEW f \in [Slots -> Nat], NEW g \in [Slots -> Nat],
         NEW mid \in Nat, SortedTo(e, T - 1), SortedTo(g, T - 1), IsJoined(f, e, mid, g),
         \A a \in Slots : a < T - 1 => e[a] < mid /\ mid < g[a]
  PROVE  /\ SortedTo(f, 2 * T - 1)
         /\ \A k : (\E a \in Slots : a < 2 * T - 1 /\ f[a] = k)
                     <=> \/ \E a \in Slots : a < T - 1 /\ e[a] = k
                         \/ k = mid
                         \/ \E a \in Slots : a < T - 1 /\ g[a] = k
<1>1. /\ T \in Nat /\ T >= 2
      /\ \A j \in Slots : j \in Nat /\ j < 2 * T - 1 /\ e[j] \in Nat /\ g[j] \in Nat /\ f[j] \in Nat
      /\ \A j \in Nat : j < 2 * T - 1 => j \in Slots
  <2>1. \A j \in Slots : j \in Nat /\ j < 2 * T - 1
    BY ConstantFacts DEF Slots
  <2>2. \A j \in Nat : j < 2 * T - 1 => j \in Slots
    BY ConstantFacts DEF Slots
  <2> QED BY <2>1, <2>2, ConstantFacts
<1>2. \A j \in Slots : /\ j < T - 1 => f[j] = e[j]
                       /\ j = T - 1 => f[j] = mid
                       /\ T <= j => f[j] = g[j - T] /\ j - T \in Slots /\ j - T < T - 1
  <2>1. ASSUME NEW j \in Slots, j < T - 1 PROVE f[j] = e[j]
    <3>1. j # T - 1 /\ ~ T <= j
      BY <2>1, <1>1
    <3> QED BY <3>1 DEF IsJoined
  <2>2. ASSUME NEW j \in Slots, j = T - 1 PROVE f[j] = mid
    BY <2>2 DEF IsJoined
  <2>3. ASSUME NEW j \in Slots, T <= j PROVE f[j] = g[j - T] /\ j - T \in Slots /\ j - T < T - 1
    <3>1. j # T - 1 /\ j < T + (T - 1) /\ j - T \in Nat /\ j - T < T - 1 /\ j - T < 2 * T - 1
      BY <2>3, <1>1
    <3> QED BY <3>1, <2>3, <1>1 DEF IsJoined
  <2> QED BY <2>1, <2>2, <2>3
<1>3. /\ \A a, b \in Slots : a < b /\ b < T - 1 => e[a] < e[b]
      /\ \A a, b \in Slots : a < b /\ b < T - 1 => g[a] < g[b]
  BY DEF SortedTo
<1>4. ASSUME NEW a \in Slots, NEW b \in Slots, a < b, b < 2 * T - 1 PROVE f[a] < f[b]
  <2>1. a \in Nat /\ b \in Nat
    BY <1>1
  <2>2. CASE b < T - 1
    <3>1. a < T - 1
      BY <2>1, <2>2, <1>1, <1>4
    <3> QED BY <3>1, <2>2, <1>2, <1>3, <1>4
  <2>3. CASE b = T - 1
    <3>1. a < T - 1
      BY <2>1, <2>3, <1>1, <1>4
    <3> QED BY <3>1, <2>3, <1>2
  <2>4. CASE T <= b
    <3>1. f[b] = g[b - T] /\ b - T \in Slots /\ b - T < T - 1 /\ mid < g[b - T] /\ g[b - T] \in Nat
      BY <2>4, <1>1, <1>2
    <3>2. CASE a < T - 1
      <4>1. f[a] = e[a] /\ e[a] < mid /\ e[a] \in Nat
        BY <3>2, <1>1, <1>2
      <4> QED BY <4>1, <3>1
    <3>3. CASE a = T - 1
      BY <3>1, <3>3, <1>2
    <3>4. CASE T <= a
      <4>1. f[a] = g[a - T] /\ a - T \in Slots /\ a - T < b - T
        BY <3>4, <2>1, <1>1, <1>2, <1>4
      <4> QED BY <4>1, <3>1, <1>3
    <3> QED BY <3>2, <3>3, <3>4, <2>1, <1>1
  <2> QED BY <2>2, <2>3, <2>4, <2>1, <1>1
<1>5. ASSUME NEW k, NEW a \in Slots, a < 2 * T - 1, f[a] = k
      PROVE  \/ \E b \in Slots : b < T - 1 /\ e[b] = k
             \/ k = mid
             \/ \E b \in Slots : b < T - 1 /\ g[b] = k
  <2>1. a \in Nat /\ (a < T - 1 \/ a = T - 1 \/ T <= a)
    BY <1>1
  <2> QED BY <2>1, <1>2, <1>5
<1>6. ASSUME NEW k, NEW b \in Slots, b < T - 1, e[b] = k
      PROVE  \E a \in Slots : a < 2 * T - 1 /\ f[a] = k
  BY <1>1, <1>2, <1>6
<1>7. \E a \in Slots : a < 2 * T - 1 /\ f[a] = mid
  <2>1. T - 1 \in Nat /\ T - 1 < 2 * T - 1
    BY <1>1
  <2> QED BY <2>1, <1>1, <1>2
<1>8. ASSUME NEW k, NEW b \in Slots, b < T - 1, g[b] = k
      PROVE  \E a \in Slots : a < 2 * T - 1 /\ f[a] = k
  <2>1. b + T \in Nat /\ b + T < 2 * T - 1 /\ T <= b + T /\ (b + T) - T = b
    BY <1>1, <1>8
  <2> QED BY <2>1, <1>1, <1>2, <1>8
<1> QED BY <1>4, <1>5, <1>6, <1>7, <1>8 DEF SortedTo

\* What node_merge does to node at and its last child but one, l; r was the last.
IsMerged(nodes, new, at, i, l, r) ==
  /\ new \in [Blocks -> Node]
  /\ \A b \in Blocks : b # at /\ b # l => new[b] = nodes[b]
  /\ new[l].leaf /\ nodes[l].leaf /\ nodes[l].nr_of_keys = T - 1 /\ nodes[r].nr_of_keys = T - 1
  /\ new[l].nr_of_keys = 2 * T - 1 /\ new[l].nr_of_files = nodes[l].nr_of_files
  /\ IsJoined(new[l].entries, nodes[l].entries, nodes[at].entries[i], nodes[r].entries)
  /\ ~new[at].leaf /\ new[at].nr_of_keys = i /\ new[at].nr_of_files = nodes[at].nr_of_files
  /\ \A j \in Slots : j < i => new[at].entries[j] = nodes[at].entries[j]
  /\ \A j \in 0..i : new[at].children[j] = nodes[at].children[j]

MergeCase(nodes, top, N, span, level, new, at, i, l, r) ==
  /\ Shape(nodes, top, N, span, level)
  /\ at \in N /\ ~nodes[at].leaf /\ i \in 0..(nodes[at].nr_of_keys - 1)
  /\ nodes[at].nr_of_keys = i + 1 /\ (at = top \/ nodes[at].nr_of_keys >= T)
  /\ l = nodes[at].children[i] /\ r = nodes[at].children[i + 1]
  /\ IsMerged(nodes, new, at, i, l, r)

SpanMerged(span, N, new, at, i, l, r) ==
  [b \in N \ {r} |-> IF b = l THEN Between(new[at], i, span[at]) ELSE span[b]]

LevelMerged(level, N, r) == [b \in N \ {r} |-> level[b]]

LEMMA MergeFacts ==
  ASSUME NEW nodes, NEW top, NEW N, NEW span, NEW level, NEW new, NEW at, NEW i, NEW l, NEW r,
         MergeCase(nodes, top, N, span, level, new, at, i, l, r)
  PROVE  /\ Shape(nodes, top, N, span, level) /\ Siblings(nodes, top, N, span, level, at, i, l, r)
         /\ IsMerged(nodes, new, at, i, l, r)
         /\ nodes \in [Blocks -> Node] /\ new \in [Blocks -> Node] /\ N \in SUBSET Blocks
         /\ span \in [N -> SUBSET Keys] /\ level \in [N -> Nat]
         /\ \A b \in N : NodeSound(nodes[b], b, N, span, level)
         /\ at \in N /\ l \in N /\ r \in N /\ l # r /\ l # at /\ r # at /\ l # top /\ r # top
         /\ ~nodes[at].leaf /\ nodes[at].nr_of_keys = i + 1 /\ i \in Nat /\ nodes[at] \in Node
         /\ nodes[l] \in Node /\ nodes[r] \in Node /\ nodes[l].leaf /\ nodes[r].leaf
<1>1. /\ Shape(nodes, top, N, span, level) /\ at \in N /\ ~nodes[at].leaf
      /\ i \in 0..(nodes[at].nr_of_keys - 1) /\ nodes[at].nr_of_keys = i + 1
      /\ l = nodes[at].children[i] /\ r = nodes[at].children[i + 1]
      /\ IsMerged(nodes, new, at, i, l, r)
  BY DEF MergeCase
<1>2. Siblings(nodes, top, N, span, level, at, i, l, r)
  BY <1>1, SiblingsAre
<1>3. i \in Nat
  BY <1>1
<1> QED BY <1>1, <1>2, <1>3 DEF Siblings, Shape, IsMerged

\* What lies below the leaf they become.
Merged(nodes, N, span, at, l, r, old, sp) ==
  /\ old \in Keys /\ old \in Nat /\ old \in span[at]
  /\ sp[l] \in SUBSET span[at] /\ span[l] \subseteq span[at] /\ span[r] \subseteq span[at]
  /\ \A k \in span[at] : /\ k \in sp[l] <=> k \in span[l] \/ k = old \/ k \in span[r]
                         /\ k \in span[l] => k < old
                         /\ k \in span[r] => old < k

LEMMA MergedIs ==
  ASSUME NEW nodes, NEW top, NEW N, NEW span, NEW level, NEW new, NEW at, NEW i, NEW l, NEW r,
         MergeCase(nodes, top, N, span, level, new, at, i, l, r),
         NEW old, old = nodes[at].entries[i],
         NEW sp, sp = SpanMerged(span, N, new, at, i, l, r)
  PROVE  Merged(nodes, N, span, at, l, r, old, sp)
<1>1. /\ IsMerged(nodes, new, at, i, l, r) /\ Siblings(nodes, top, N, span, level, at, i, l, r)
      /\ span \in [N -> SUBSET Keys] /\ NodeSound(nodes[at], at, N, span, level)
      /\ at \in N /\ l \in N /\ r \in N /\ l # r /\ i \in Nat /\ nodes[at] \in Node
      /\ nodes[at].nr_of_keys = i + 1
      /\ span[l] = Between(nodes[at], i, span[at]) /\ span[r] = Between(nodes[at], i + 1, span[at])
  BY MergeFacts DEF Siblings
<1>2. PICK e \in [Slots -> Nat] : e = nodes[at].entries
  BY <1>1, EntriesAreNats
<1>3. \A a \in 0..((i + 1) - 1) : a \in Slots
  BY <1>1, EntriesAreNumbers
<1>4. i \in Slots /\ (i > 0 => i - 1 \in Slots /\ i - 1 < i) /\ (i + 1) - 1 = i
      /\ i < i + 1 /\ ~ i + 1 < i + 1 /\ i + 1 > 0 /\ ~ i < i
  <2>1. i \in 0..((i + 1) - 1) /\ (i > 0 => i - 1 \in 0..((i + 1) - 1) /\ i - 1 < i)
    BY <1>1
  <2>2. (i + 1) - 1 = i /\ i < i + 1 /\ ~ i + 1 < i + 1 /\ i + 1 > 0 /\ ~ i < i
    BY <1>1
  <2> QED BY <2>1, <2>2, <1>3
<1>5. e[i] = old /\ old \in span[at] /\ old \in Keys /\ old \in Nat
  <2>1. i \in 0..((i + 1) - 1)
    BY <1>1
  <2>2. old \in span[at]
    BY <2>1, <1>1 DEF NodeSound
  <2> QED BY <2>2, <1>1, <1>2, ConstantFacts
<1>6. i > 0 => e[i - 1] < old /\ e[i - 1] \in Nat
  <2>1. \A a, b \in Slots : a < b /\ b < i + 1 => e[a] < e[b]
    BY <1>1, <1>2 DEF NodeSound, Sorted
  <2> QED BY <2>1, <1>4, <1>5
<1>7. /\ \A k : k \in span[l] <=> k \in span[at] /\ (i > 0 => e[i - 1] < k) /\ k < old
      /\ \A k : k \in span[r] <=> k \in span[at] /\ old < k
  BY <1>1, <1>2, <1>4, <1>5 DEF Between
<1>8. \A k : k \in sp[l] <=> k \in span[at] /\ (i > 0 => e[i - 1] < k)
  <2>1. sp[l] = Between(new[at], i, span[at])
    BY <1>1 DEF SpanMerged
  <2>2. new[at].nr_of_keys = i /\ (i > 0 => new[at].entries[i - 1] = e[i - 1])
    BY <1>1, <1>2, <1>4 DEF IsMerged
  <2> QED BY <2>1, <2>2, <1>4 DEF Between
<1>9. \A k \in span[at] : k \in Nat
  BY <1>1, ConstantFacts
<1>10. ASSUME NEW k \in span[at] PROVE k \in sp[l] <=> k \in span[l] \/ k = old \/ k \in span[r]
  <2>1. k \in Nat
    BY <1>9
  <2>2. CASE k < old
    BY <2>1, <2>2, <1>5, <1>7, <1>8
  <2>3. CASE k = old
    BY <2>3, <1>6, <1>8
  <2>4. CASE old < k
    <3>1. i > 0 => e[i - 1] < k
      BY <2>1, <2>4, <1>5, <1>6
    <3> QED BY <3>1, <2>4, <1>7, <1>8
  <2> QED BY <2>1, <2>2, <2>3, <2>4, <1>5
<1> QED BY <1>5, <1>7, <1>8, <1>10 DEF Merged

(* The leaf they become.                                                   *)
LeafMerged(nodes, N, new, l, r, old, sp, lv) ==
  /\ NodeSound(new[l], l, N \ {r}, sp, lv)
  /\ \A k : Holds(new[l], k) <=> Holds(nodes[l], k) \/ k = old \/ Holds(nodes[r], k)

LEMMA MergedLeaf ==
  ASSUME NEW nodes, NEW top, NEW N, NEW span, NEW level, NEW new, NEW at, NEW i, NEW l, NEW r,
         MergeCase(nodes, top, N, span, level, new, at, i, l, r),
         NEW old, old = nodes[at].entries[i],
         NEW sp, sp = SpanMerged(span, N, new, at, i, l, r),
         NEW lv, lv = LevelMerged(level, N, r)
  PROVE  LeafMerged(nodes, N, new, l, r, old, sp, lv)
<1>1. /\ IsMerged(nodes, new, at, i, l, r) /\ l \in N /\ r \in N /\ l # r
      /\ NodeSound(nodes[l], l, N, span, level) /\ NodeSound(nodes[r], r, N, span, level)
      /\ nodes[l] \in Node /\ nodes[r] \in Node /\ new[l] \in Node /\ nodes[l].leaf
  <2>1. l \in Blocks /\ new \in [Blocks -> Node]
    BY MergeFacts
  <2>2. new[l] \in Node
    BY <2>1
  <2> QED BY <2>2, MergeFacts
<1>2. Merged(nodes, N, span, at, l, r, old, sp)
  BY MergedIs
<1>3. /\ old \in Nat /\ old \in span[at]
      /\ span[l] \subseteq span[at] /\ span[r] \subseteq span[at]
      /\ \A k \in span[at] : /\ k \in sp[l] <=> k \in span[l] \/ k = old \/ k \in span[r]
                             /\ k \in span[l] => k < old
                             /\ k \in span[r] => old < k
  BY <1>2 DEF Merged
<1>4. PICK e \in [Slots -> Nat], f \in [Slots -> Nat], g \in [Slots -> Nat] :
         e = nodes[l].entries /\ f = new[l].entries /\ g = nodes[r].entries
  BY <1>1, EntriesAreNats
<1>5. /\ nodes[l].nr_of_keys = T - 1 /\ nodes[r].nr_of_keys = T - 1
      /\ new[l].nr_of_keys = 2 * T - 1 /\ new[l].leaf /\ IsJoined(f, e, old, g)
  BY <1>1, <1>4 DEF IsMerged
<1>6. SortedTo(e, T - 1) /\ SortedTo(g, T - 1)
  BY <1>1, <1>4, <1>5 DEF NodeSound, Sorted, SortedTo
<1>7. \A a \in Slots : a < T - 1 => a \in 0..(T - 1 - 1)
  BY ConstantFacts DEF Slots
<1>8. \A a \in Slots : a < T - 1 => e[a] \in span[l] /\ g[a] \in span[r]
  BY <1>1, <1>4, <1>5, <1>7 DEF NodeSound
<1>9. \A a \in Slots : a < T - 1 => e[a] < old /\ old < g[a]
  BY <1>3, <1>8
<1>10. /\ SortedTo(f, 2 * T - 1)
       /\ \A k : (\E a \in Slots : a < 2 * T - 1 /\ f[a] = k)
                   <=> \/ \E a \in Slots : a < T - 1 /\ e[a] = k
                       \/ k = old
                       \/ \E a \in Slots : a < T - 1 /\ g[a] = k
  <2>1. IsJoined(f, e, old, g)
    BY <1>5
  <2> QED BY <2>1, <1>3, <1>6, <1>9, JoinedSorted, ZenonT(60)
<1>11. Sorted(new[l])
  BY <1>4, <1>5, <1>10 DEF Sorted, SortedTo
<1>12. ASSUME NEW a \in 0..(new[l].nr_of_keys - 1) PROVE new[l].entries[a] \in sp[l]
  <2>1. a \in Slots /\ a < 2 * T - 1
    BY <1>1, <1>5, EntriesAreNumbers, ConstantFacts
  <2>2. PICK k : k = f[a]
    OBVIOUS
  <2>3. \/ \E b \in Slots : b < T - 1 /\ e[b] = k
        \/ k = old
        \/ \E b \in Slots : b < T - 1 /\ g[b] = k
    BY <2>1, <2>2, <1>10
  <2>4. k \in span[l] \/ k = old \/ k \in span[r]
    BY <2>3, <1>8
  <2> QED BY <2>2, <2>4, <1>3, <1>4
<1>13. lv[l] = 0
  <2>1. level[l] = 0 /\ lv[l] = level[l]
    BY <1>1 DEF NodeSound, LevelMerged
  <2> QED BY <2>1
<1>14. NodeSound(new[l], l, N \ {r}, sp, lv)
  BY <1>5, <1>11, <1>12, <1>13 DEF NodeSound
<1>15. ASSUME NEW k PROVE Holds(new[l], k) <=> Holds(nodes[l], k) \/ k = old \/ Holds(nodes[r], k)
  <2>1. Holds(new[l], k) <=> \E a \in Slots : a < 2 * T - 1 /\ f[a] = k
    BY <1>4, <1>5 DEF Holds
  <2>2. Holds(nodes[l], k) <=> \E a \in Slots : a < T - 1 /\ e[a] = k
    BY <1>4, <1>5 DEF Holds
  <2>3. Holds(nodes[r], k) <=> \E a \in Slots : a < T - 1 /\ g[a] = k
    BY <1>4, <1>5 DEF Holds
  <2> QED BY <2>1, <2>2, <2>3, <1>10
<1> QED BY <1>14, <1>15 DEF LeafMerged

(* Their parent, which loses its last key and its last child.              *)
ParentMerged(nodes, N, new, at, r, old, sp, lv) ==
  /\ NodeSound(new[at], at, N \ {r}, sp, lv)
  /\ \A k : Holds(new[at], k) <=> Holds(nodes[at], k) /\ k # old

LEMMA MergedParent ==
  ASSUME NEW nodes, NEW top, NEW N, NEW span, NEW level, NEW new, NEW at, NEW i, NEW l, NEW r,
         MergeCase(nodes, top, N, span, level, new, at, i, l, r),
         NEW old, old = nodes[at].entries[i],
         NEW sp, sp = SpanMerged(span, N, new, at, i, l, r),
         NEW lv, lv = LevelMerged(level, N, r)
  PROVE  ParentMerged(nodes, N, new, at, r, old, sp, lv)
<1>1. /\ IsMerged(nodes, new, at, i, l, r) /\ Shape(nodes, top, N, span, level)
      /\ NodeSound(nodes[at], at, N, span, level) /\ level \in [N -> Nat]
      /\ at \in N /\ l \in N /\ r \in N /\ l # r /\ l # at /\ r # at
      /\ i \in Nat /\ nodes[at] \in Node
      /\ nodes[at].nr_of_keys = i + 1 /\ ~nodes[at].leaf
      /\ l = nodes[at].children[i] /\ r = nodes[at].children[i + 1]
  <2>1. /\ IsMerged(nodes, new, at, i, l, r) /\ Shape(nodes, top, N, span, level)
        /\ Siblings(nodes, top, N, span, level, at, i, l, r)
        /\ span \in [N -> SUBSET Keys] /\ level \in [N -> Nat] /\ N \in SUBSET Blocks
        /\ at \in N /\ l \in N /\ r \in N /\ l # r /\ l # at /\ r # at
        /\ \A c \in N : NodeSound(nodes[c], c, N, span, level)
    BY MergeFacts
  <2>2. /\ ~nodes[at].leaf /\ nodes[at].nr_of_keys = i + 1 /\ i \in Nat /\ nodes[at] \in Node
        /\ nodes[l].leaf /\ nodes[r].leaf
    BY MergeFacts
  <2>3. /\ l = nodes[at].children[i] /\ r = nodes[at].children[i + 1]
        /\ at = top \/ nodes[at].nr_of_keys >= T
    BY DEF MergeCase
  <2>4. level[l] = level[at] - 1 /\ level[r] = level[at] - 1 /\ level[at] \in Nat
    BY <2>1 DEF Siblings
  <2> QED BY <2>1, <2>2, <2>3, <2>4
<1>2. PICK e \in [Slots -> Nat] : e = nodes[at].entries
  BY <1>1, EntriesAreNats
<1>3. /\ \A a \in 0..((i + 1) - 1) : a \in Slots
      /\ \A a \in Slots : a \in Nat /\ e[a] \in Nat /\ (a < i => a \in 0..((i + 1) - 1) /\ a < i + 1)
      /\ i \in Slots /\ i < i + 1 /\ \A a \in Slots : a < i + 1 <=> a < i \/ a = i
  <2>1. \A a \in 0..((i + 1) - 1) : a \in Slots
    BY <1>1, EntriesAreNumbers
  <2>2. \A a \in Slots : a \in Nat /\ e[a] \in Nat
    BY <1>1, <1>2, EntriesAreNumbers
  <2>3. i \in 0..((i + 1) - 1) /\ i < i + 1
    BY <1>1
  <2>4. \A a \in Nat : (a < i => a \in 0..((i + 1) - 1) /\ a < i + 1) /\ (a < i + 1 <=> a < i \/ a = i)
    BY <1>1
  <2> QED BY <2>1, <2>2, <2>3, <2>4
<1>4. /\ new[at].nr_of_keys = i /\ ~new[at].leaf
      /\ \A a \in Slots : a < i => new[at].entries[a] = e[a]
      /\ \A j \in 0..i : new[at].children[j] = nodes[at].children[j]
  BY <1>1, <1>2 DEF IsMerged
<1>5. \A a, b \in Slots : a < b /\ b < i + 1 => e[a] < e[b]
  BY <1>1, <1>2 DEF NodeSound, Sorted
<1>6. sp[at] = span[at] /\ lv[at] = level[at]
  BY <1>1 DEF SpanMerged, LevelMerged
<1>7. Sorted(new[at])
  <2>1. ASSUME NEW a \in Slots, NEW b \in Slots, a < b, b < i
        PROVE  new[at].entries[a] < new[at].entries[b]
    <3>1. a \in Nat /\ b \in Nat
      BY <1>3
    <3>2. a < i
      BY <3>1, <2>1, <1>1
    <3>3. e[a] < e[b]
      BY <2>1, <1>3, <1>5
    <3> QED BY <3>2, <3>3, <2>1, <1>4
  <2> QED BY <2>1, <1>4 DEF Sorted
<1>8. ASSUME NEW a \in 0..(new[at].nr_of_keys - 1) PROVE new[at].entries[a] \in sp[at]
  <2>1. a \in 0..((i + 1) - 1) /\ a < i /\ a \in Slots
    <3>1. a \in 0..((i + 1) - 1) /\ a < i
      BY <1>1, <1>4
    <3> QED BY <3>1, <1>3
  <2>2. e[a] \in span[at]
    BY <2>1, <1>1, <1>2 DEF NodeSound
  <2> QED BY <2>1, <2>2, <1>4, <1>6
<1>9. ASSUME NEW j \in 0..i
      PROVE  /\ new[at].children[j] \in N \ {r}
             /\ sp[new[at].children[j]] = Between(new[at], j, sp[at])
             /\ lv[new[at].children[j]] = lv[at] - 1
  <2>1. PICK c : c = nodes[at].children[j]
    OBVIOUS
  <2>2. j \in 0..(i + 1) /\ i \in 0..(i + 1) /\ i + 1 \in 0..(i + 1) /\ j # i + 1
    BY <1>1
  <2>3. c \in N /\ span[c] = Between(nodes[at], j, span[at]) /\ level[c] = level[at] - 1
    BY <2>1, <2>2, <1>1 DEF NodeSound
  <2>4. c # r
    BY <2>1, <2>2, <1>1, OnePointer
  <2>5. lv[c] = level[c]
    BY <2>3, <2>4 DEF LevelMerged
  <2>6. CASE j = i
    <3>1. c = l /\ sp[l] = Between(new[at], i, span[at])
      BY <2>1, <2>6, <1>1 DEF SpanMerged
    <3> QED BY <3>1, <2>1, <2>3, <2>4, <2>5, <2>6, <1>4, <1>6
  <2>7. CASE j # i
    <3>1. c # l
      BY <2>1, <2>2, <2>7, <1>1, OnePointer
    <3>2. sp[c] = span[c]
      BY <3>1, <2>3, <2>4 DEF SpanMerged
    <3>3. j < i /\ j < i + 1 /\ j \in Slots /\ (j > 0 => j - 1 \in Slots /\ j - 1 < i)
      <4>1. j < i /\ j < i + 1 /\ j \in 0..((i + 1) - 1)
            /\ (j > 0 => j - 1 \in 0..((i + 1) - 1) /\ j - 1 < i)
        BY <2>7, <1>1
      <4> QED BY <4>1, <1>3
    <3>4. (j > 0 => new[at].entries[j - 1] = e[j - 1]) /\ new[at].entries[j] = e[j]
      BY <3>3, <1>4
    <3>5. Between(new[at], j, span[at]) = Between(nodes[at], j, span[at])
      BY <3>3, <3>4, <1>1, <1>2, <1>4 DEF Between
    <3> QED BY <3>2, <3>5, <2>1, <2>3, <2>4, <2>5, <1>4, <1>6
  <2> QED BY <2>6, <2>7
<1>10. ~ lv[at] = 0
  BY <1>1, <1>6 DEF NodeSound
<1>11. NodeSound(new[at], at, N \ {r}, sp, lv)
  BY <1>4, <1>7, <1>8, <1>9, <1>10 DEF NodeSound
<1>12. ASSUME NEW k PROVE Holds(new[at], k) <=> Holds(nodes[at], k) /\ k # old
  <2>1. Holds(new[at], k) <=> \E a \in Slots : a < i /\ e[a] = k
    BY <1>4 DEF Holds
  <2>2. Holds(nodes[at], k) <=> \E a \in Slots : a < i + 1 /\ e[a] = k
    BY <1>1, <1>2 DEF Holds
  <2>3. \A a \in Slots : a < i => e[a] # old
    <3>1. ASSUME NEW a \in Slots, a < i PROVE e[a] # old
      <4>1. e[a] < e[i] /\ e[a] \in Nat /\ e[i] = old
        BY <3>1, <1>2, <1>3, <1>5
      <4> QED BY <4>1
    <3> QED BY <3>1
  <2>4. e[i] = old
    BY <1>2
  <2> QED BY <2>1, <2>2, <2>3, <2>4, <1>3
<1> QED BY <1>11, <1>12 DEF ParentMerged

(* The other nodes.                                                        *)
OthersMerged(nodes, N, new, at, l, r, sp, lv) ==
  \A b \in N \ {r} : b # at /\ b # l => new[b] = nodes[b] /\ NodeSound(new[b], b, N \ {r}, sp, lv)

LEMMA MergedOthers ==
  ASSUME NEW nodes, NEW top, NEW N, NEW span, NEW level, NEW new, NEW at, NEW i, NEW l, NEW r,
         MergeCase(nodes, top, N, span, level, new, at, i, l, r),
         NEW sp, sp = SpanMerged(span, N, new, at, i, l, r),
         NEW lv, lv = LevelMerged(level, N, r)
  PROVE  OthersMerged(nodes, N, new, at, l, r, sp, lv)
<1> SUFFICES ASSUME NEW b \in N \ {r}, b # at, b # l
             PROVE  new[b] = nodes[b] /\ NodeSound(new[b], b, N \ {r}, sp, lv)
  BY DEF OthersMerged
<1>1. /\ IsMerged(nodes, new, at, i, l, r) /\ Shape(nodes, top, N, span, level)
      /\ at \in N /\ l \in N /\ r \in N /\ N \in SUBSET Blocks
      /\ NodeSound(nodes[b], b, N, span, level) /\ i \in Nat
      /\ ~nodes[at].leaf /\ nodes[at].nr_of_keys = i + 1
      /\ l = nodes[at].children[i] /\ r = nodes[at].children[i + 1]
  <2>1. /\ IsMerged(nodes, new, at, i, l, r) /\ Shape(nodes, top, N, span, level)
        /\ Siblings(nodes, top, N, span, level, at, i, l, r)
        /\ span \in [N -> SUBSET Keys] /\ level \in [N -> Nat] /\ N \in SUBSET Blocks
        /\ at \in N /\ l \in N /\ r \in N /\ l # r /\ l # at /\ r # at
        /\ \A c \in N : NodeSound(nodes[c], c, N, span, level)
    BY MergeFacts
  <2>2. /\ ~nodes[at].leaf /\ nodes[at].nr_of_keys = i + 1 /\ i \in Nat /\ nodes[at] \in Node
        /\ nodes[l].leaf /\ nodes[r].leaf
    BY MergeFacts
  <2>3. /\ l = nodes[at].children[i] /\ r = nodes[at].children[i + 1]
        /\ at = top \/ nodes[at].nr_of_keys >= T
    BY DEF MergeCase
  <2>4. level[l] = level[at] - 1 /\ level[r] = level[at] - 1 /\ level[at] \in Nat
    BY <2>1 DEF Siblings
  <2> QED BY <2>1, <2>2, <2>3, <2>4
<1>2. new[b] = nodes[b]
  BY <1>1 DEF IsMerged
<1>3. i \in 0..nodes[at].nr_of_keys /\ i + 1 \in 0..nodes[at].nr_of_keys
  BY <1>1
<1>4. (\A c \in N \ {r} : (c # l => sp[c] = span[c]) /\ lv[c] = level[c])
  BY DEF SpanMerged, LevelMerged
<1>5. ASSUME ~nodes[b].leaf, NEW j \in 0..nodes[b].nr_of_keys
      PROVE  nodes[b].children[j] # l /\ nodes[b].children[j] # r
  BY <1>1, <1>3, <1>5, OnePointer
<1> QED BY <1>1, <1>2, <1>4, <1>5 DEF NodeSound

LEMMA MergedPointers ==
  ASSUME NEW nodes, NEW top, NEW N, NEW span, NEW level, NEW new, NEW at, NEW i, NEW l, NEW r,
         MergeCase(nodes, top, N, span, level, new, at, i, l, r),
         NEW b \in N \ {r}, b # top
  PROVE  new[b].nr_of_keys >= T - 1 /\ \E p \in N \ {r} : PointsTo(new[p], b)
<1>1. /\ IsMerged(nodes, new, at, i, l, r) /\ Shape(nodes, top, N, span, level)
      /\ at \in N /\ l \in N /\ r \in N /\ N \in SUBSET Blocks /\ l # at /\ r # at
      /\ i \in Nat /\ nodes[at].nr_of_keys = i + 1 /\ nodes[l].leaf /\ nodes[r].leaf
      /\ at = top \/ nodes[at].nr_of_keys >= T
      /\ r = nodes[at].children[i + 1]
  <2>1. /\ IsMerged(nodes, new, at, i, l, r) /\ Shape(nodes, top, N, span, level)
        /\ Siblings(nodes, top, N, span, level, at, i, l, r)
        /\ span \in [N -> SUBSET Keys] /\ level \in [N -> Nat] /\ N \in SUBSET Blocks
        /\ at \in N /\ l \in N /\ r \in N /\ l # r /\ l # at /\ r # at
        /\ \A c \in N : NodeSound(nodes[c], c, N, span, level)
    BY MergeFacts
  <2>2. /\ ~nodes[at].leaf /\ nodes[at].nr_of_keys = i + 1 /\ i \in Nat /\ nodes[at] \in Node
        /\ nodes[l].leaf /\ nodes[r].leaf
    BY MergeFacts
  <2>3. /\ l = nodes[at].children[i] /\ r = nodes[at].children[i + 1]
        /\ at = top \/ nodes[at].nr_of_keys >= T
    BY DEF MergeCase
  <2>4. level[l] = level[at] - 1 /\ level[r] = level[at] - 1 /\ level[at] \in Nat
    BY <2>1 DEF Siblings
  <2> QED BY <2>1, <2>2, <2>3, <2>4
<1>2. nodes[b].nr_of_keys >= T - 1 /\ \E p \in N : PointsTo(nodes[p], b)
  BY <1>1 DEF Shape
<1>3. new[b].nr_of_keys >= T - 1
  <2>1. CASE b = at
    <3>1. new[at].nr_of_keys = i
      BY <1>1 DEF IsMerged
    <3> QED BY <3>1, <2>1, <1>1, ConstantFacts
  <2>2. CASE b = l
    <3>1. new[l].nr_of_keys = 2 * T - 1
      BY <1>1 DEF IsMerged
    <3> QED BY <3>1, <2>2, ConstantFacts
  <2>3. CASE b # at /\ b # l
    <3>1. new[b] = nodes[b]
      BY <2>3, <1>1 DEF IsMerged
    <3> QED BY <3>1, <1>2
  <2> QED BY <2>1, <2>2, <2>3
<1>4. PICK p \in N : PointsTo(nodes[p], b)
  BY <1>2
<1>5. PICK j \in 0..nodes[p].nr_of_keys : ~nodes[p].leaf /\ nodes[p].children[j] = b
  BY <1>4 DEF PointsTo
<1>6. p # l /\ p # r
  BY <1>1, <1>5
<1>7. CASE p = at
  <2>1. j \in 0..i
    BY <1>1, <1>5, <1>7
  <2>2. PointsTo(new[at], b)
    BY <2>1, <1>1, <1>5, <1>7 DEF PointsTo, IsMerged
  <2> QED BY <2>2, <1>1, <1>3
<1>8. CASE p # at
  <2>1. new[p] = nodes[p]
    BY <1>1, <1>6, <1>8 DEF IsMerged
  <2> QED BY <2>1, <1>3, <1>4, <1>6
<1> QED BY <1>7, <1>8

LEMMA MergedApart ==
  ASSUME NEW nodes, NEW top, NEW N, NEW span, NEW level, NEW new, NEW at, NEW i, NEW l, NEW r,
         MergeCase(nodes, top, N, span, level, new, at, i, l, r),
         NEW old, old = nodes[at].entries[i],
         NEW sp, sp = SpanMerged(span, N, new, at, i, l, r),
         NEW b \in N \ {r}, NEW c \in N \ {r}, level[b] = level[c], b # c,
         NEW k, k \in sp[b], k \in sp[c]
  PROVE  FALSE
<1>1. /\ Shape(nodes, top, N, span, level)
      /\ at \in N /\ l \in N /\ r \in N /\ l # r /\ nodes[at] \in Node
      /\ i \in Nat /\ nodes[at].nr_of_keys = i + 1
      /\ level[l] = level[at] - 1 /\ level[r] = level[at] - 1 /\ level[at] \in Nat
  <2>1. /\ IsMerged(nodes, new, at, i, l, r) /\ Shape(nodes, top, N, span, level)
        /\ Siblings(nodes, top, N, span, level, at, i, l, r)
        /\ span \in [N -> SUBSET Keys] /\ level \in [N -> Nat] /\ N \in SUBSET Blocks
        /\ at \in N /\ l \in N /\ r \in N /\ l # r /\ l # at /\ r # at
        /\ \A d \in N : NodeSound(nodes[d], d, N, span, level)
    BY MergeFacts
  <2>2. /\ ~nodes[at].leaf /\ nodes[at].nr_of_keys = i + 1 /\ i \in Nat /\ nodes[at] \in Node
        /\ nodes[l].leaf /\ nodes[r].leaf
    BY MergeFacts
  <2>3. /\ l = nodes[at].children[i] /\ r = nodes[at].children[i + 1]
        /\ at = top \/ nodes[at].nr_of_keys >= T
    BY DEF MergeCase
  <2>4. level[l] = level[at] - 1 /\ level[r] = level[at] - 1 /\ level[at] \in Nat
    BY <2>1 DEF Siblings
  <2> QED BY <2>1, <2>2, <2>3, <2>4
<1>2. \A x, y \in N : level[x] = level[y] /\ x # y => span[x] \cap span[y] = {}
  BY <1>1 DEF Shape
<1>3. /\ sp[l] \in SUBSET span[at]
      /\ \A q \in span[at] : q \in sp[l] <=> q \in span[l] \/ q = old \/ q \in span[r]
  <2>1. Merged(nodes, N, span, at, l, r, old, sp)
    BY MergedIs
  <2> QED BY <2>1 DEF Merged
<1>4. \A x \in N \ {r} : x # l => sp[x] = span[x]
  BY DEF SpanMerged
<1>5. Holds(nodes[at], old)
  <2>1. i \in 0..(nodes[at].nr_of_keys - 1) /\ i < nodes[at].nr_of_keys
    BY <1>1
  <2>2. i \in Slots
    BY <2>1, <1>1, EntriesAreNumbers
  <2> QED BY <2>1, <2>2 DEF Holds
<1>6. \A x \in N : old \in span[x] => level[at] <= level[x]
  BY <1>1, <1>5, HeldAbove
<1>7. ASSUME NEW x \in N \ {r}, x # l, level[x] = level[l], NEW q, q \in sp[l], q \in sp[x]
      PROVE  FALSE
  <2>1. q \in span[x] /\ q \in span[at]
    BY <1>3, <1>4, <1>7
  <2>2. q # old
    BY <2>1, <1>1, <1>6, <1>7
  <2>3. q \in span[l] \/ q \in span[r]
    BY <2>1, <2>2, <1>3, <1>7
  <2> QED BY <2>1, <2>3, <1>1, <1>2, <1>7
<1>8. CASE b = l
  BY <1>8, <1>7
<1>9. CASE b # l /\ c = l
  BY <1>9, <1>7
<1>10. CASE b # l /\ c # l
  BY <1>10, <1>2, <1>4
<1> QED BY <1>8, <1>9, <1>10

(* Merging leaves a tree without the second leaf and with the same keys.   *)
MergedTree(nodes, top, N, span, level, new, at, i, l, M) ==
  /\ \E sp, lv : /\ Shape(new, top, M, sp, lv)
                 /\ \A k \in span[l] : k \in sp[l]
                 /\ nodes[at].entries[i] \in sp[l]
                 /\ \A b \in M : lv[b] = level[b]
                 /\ \A b \in M : b # l => sp[b] = span[b]
  /\ Content(new, M) = Content(nodes, N)
  /\ \A b \in M : \A k : Holds(new[b], k) => b = l \/ Holds(nodes[b], k)

LEMMA MergeShape ==
  ASSUME NEW nodes, NEW top, NEW N, NEW span, NEW level, NEW new, NEW at, NEW i, NEW l, NEW r,
         MergeCase(nodes, top, N, span, level, new, at, i, l, r)
  PROVE  MergedTree(nodes, top, N, span, level, new, at, i, l, N \ {r})
<1>1. /\ Shape(nodes, top, N, span, level) /\ new \in [Blocks -> Node] /\ N \in SUBSET Blocks
      /\ span \in [N -> SUBSET Keys] /\ level \in [N -> Nat]
      /\ at \in N /\ l \in N /\ r \in N /\ l # r /\ l # at /\ r # at /\ r # top /\ l # top
      /\ nodes[at] \in Node /\ i \in Nat /\ nodes[at].nr_of_keys = i + 1
  BY MergeFacts
<1>2. PICK old, sp, lv : /\ old = nodes[at].entries[i]
                         /\ sp = SpanMerged(span, N, new, at, i, l, r)
                         /\ lv = LevelMerged(level, N, r)
  OBVIOUS
<1>3. PICK M : M = N \ {r}
  OBVIOUS
<1>4. /\ old \in span[at] /\ span[l] \subseteq span[at]
      /\ \A q \in span[at] : q \in sp[l] <=> q \in span[l] \/ q = old \/ q \in span[r]
  <2>1. Merged(nodes, N, span, at, l, r, old, sp)
    BY <1>2, MergedIs, Zenon
  <2> QED BY <2>1 DEF Merged
<1>5. /\ NodeSound(new[l], l, M, sp, lv)
      /\ \A k : Holds(new[l], k) <=> Holds(nodes[l], k) \/ k = old \/ Holds(nodes[r], k)
  <2>1. LeafMerged(nodes, N, new, l, r, old, sp, lv)
    BY <1>2, MergedLeaf, Zenon
  <2> QED BY <2>1, <1>3 DEF LeafMerged
<1>6. /\ NodeSound(new[at], at, M, sp, lv)
      /\ \A k : Holds(new[at], k) <=> Holds(nodes[at], k) /\ k # old
  <2>1. ParentMerged(nodes, N, new, at, r, old, sp, lv)
    BY <1>2, MergedParent, Zenon
  <2> QED BY <2>1, <1>3 DEF ParentMerged
<1>7. \A b \in M : b # at /\ b # l => new[b] = nodes[b] /\ NodeSound(new[b], b, M, sp, lv)
  <2>1. OthersMerged(nodes, N, new, at, l, r, sp, lv)
    BY <1>2, MergedOthers, Zenon
  <2> QED BY <2>1, <1>3 DEF OthersMerged
<1>8. /\ sp \in [M -> SUBSET Keys] /\ sp[top] = Keys /\ top \in M /\ M \in SUBSET Blocks
      /\ lv \in [M -> Nat] /\ \A b \in M : lv[b] <= lv[top] /\ lv[b] = level[b]
  <2>1. \A x \in SUBSET Keys : \A y : \A a : Between(y, a, x) \in SUBSET Keys
    BY DEF Between
  <2>2. sp \in [M -> SUBSET Keys]
    BY <2>1, <1>1, <1>2, <1>3 DEF SpanMerged
  <2>3. top \in N /\ span[top] = Keys /\ \A b \in N : level[b] <= level[top]
    BY <1>1 DEF Shape
  <2>4. top \in M /\ sp[top] = Keys
    BY <2>3, <1>1, <1>2, <1>3 DEF SpanMerged
  <2>5. lv \in [M -> Nat] /\ \A b \in M : lv[b] = level[b]
    BY <1>1, <1>2, <1>3 DEF LevelMerged
  <2> QED BY <2>2, <2>3, <2>4, <2>5, <1>1, <1>3
<1>9. \A b \in M : NodeSound(new[b], b, M, sp, lv)
  BY <1>5, <1>6, <1>7
<1>10. \A b \in M \ {top} : new[b].nr_of_keys >= T - 1 /\ \E p \in M : PointsTo(new[p], b)
  BY <1>3, MergedPointers
<1>11. \A b, c \in M : lv[b] = lv[c] /\ b # c => sp[b] \cap sp[c] = {}
  <2> SUFFICES ASSUME NEW b \in M, NEW c \in M, lv[b] = lv[c], b # c, NEW k \in sp[b] \cap sp[c]
               PROVE  FALSE
    OBVIOUS
  <2>1. k \in sp[b] /\ k \in sp[c] /\ level[b] = level[c]
    BY <1>8
  <2> QED BY <2>1, <1>2, <1>3, MergedApart
<1>12. Shape(new, top, M, sp, lv)
  BY <1>1, <1>8, <1>9, <1>10, <1>11 DEF Shape
<1>13. Holds(nodes[at], old)
  <2>1. i \in 0..(nodes[at].nr_of_keys - 1) /\ i < nodes[at].nr_of_keys
    BY <1>1
  <2>2. i \in Slots
    BY <2>1, <1>1, EntriesAreNumbers
  <2> QED BY <2>1, <2>2, <1>2 DEF Holds
<1>14. l \in M /\ at \in M /\ \A b \in N : b \in M \/ b = r
  BY <1>1, <1>3
<1>15. ASSUME NEW k \in Keys
       PROVE  (\E b \in M : Holds(new[b], k)) <=> \E b \in N : Holds(nodes[b], k)
  <2>1. ASSUME NEW b \in M, Holds(new[b], k) PROVE \E x \in N : Holds(nodes[x], k)
    <3>1. b \in N
      BY <1>3
    <3> QED BY <3>1, <2>1, <1>1, <1>5, <1>6, <1>7, <1>13
  <2>2. ASSUME NEW b \in N, Holds(nodes[b], k) PROVE \E x \in M : Holds(new[x], k)
    BY <2>2, <1>5, <1>6, <1>7, <1>14
  <2> QED BY <2>1, <2>2
<1>16. Content(new, M) = Content(nodes, N)
  BY <1>15 DEF Content
<1>17. (\A k \in span[l] : k \in sp[l]) /\ old \in sp[l]
  BY <1>4
<1>18. \A b \in M : b # l => sp[b] = span[b]
  BY <1>2, <1>3 DEF SpanMerged
<1>19. \A b \in M : \A k : Holds(new[b], k) => b = l \/ Holds(nodes[b], k)
  BY <1>6, <1>7
<1>20. /\ Shape(new, top, M, sp, lv) /\ (\A k \in span[l] : k \in sp[l])
       /\ nodes[at].entries[i] \in sp[l] /\ (\A b \in M : lv[b] = level[b])
       /\ (\A b \in M : b # l => sp[b] = span[b])
  BY <1>2, <1>8, <1>12, <1>17, <1>18
<1>21. MergedTree(nodes, top, N, span, level, new, at, i, l, M)
  BY <1>16, <1>19, <1>20 DEF MergedTree
<1> QED BY <1>3, <1>21

\* What Merge does to the two nodes, whichever block it puts.
IsClosed(nodes, new, at, i, l, r) ==
  /\ new \in [Blocks -> Node]
  /\ \A b \in Blocks : b # at /\ b # l => new[b] = nodes[b]
  /\ (new[l].leaf <=> nodes[l].leaf) /\ new[l].nr_of_files = nodes[l].nr_of_files
  /\ new[l].nr_of_keys = nodes[l].nr_of_keys + nodes[r].nr_of_keys + 1
  /\ \A j \in Slots : new[l].entries[j] =
       IF j = T - 1 THEN nodes[at].entries[i]
       ELSE IF T <= j /\ j < T + nodes[r].nr_of_keys THEN nodes[r].entries[j - T]
       ELSE nodes[l].entries[j]
  /\ (new[at].leaf <=> nodes[at].leaf) /\ new[at].nr_of_files = nodes[at].nr_of_files
  /\ new[at].nr_of_keys = nodes[at].nr_of_keys - 1
  /\ \A j \in Slots : j < i => new[at].entries[j] = nodes[at].entries[j]
  /\ \A j \in 0..i : new[at].children[j] = nodes[at].children[j]

\* The same step taken by two families of nodes that agree where it is taken.
LEMMA ClosedAlike ==
  ASSUME NEW nodes, NEW new, NEW at \in Blocks, NEW i, NEW l \in Blocks, NEW r \in Blocks,
         IsClosed(nodes, new, at, i, l, r),
         NEW o, NEW o2 \in [Blocks -> Node],
         o[at] = nodes[at], o[l] = nodes[l], o[r] = nodes[r], o2[at] = new[at], o2[l] = new[l],
         \A b \in Blocks : b # at /\ b # l => o2[b] = o[b]
  PROVE  IsClosed(o, o2, at, i, l, r)
<1>1. PICK x, y, z, x2, z2 : x = nodes[l] /\ y = nodes[r] /\ z = nodes[at] /\ x2 = new[l] /\ z2 = new[at]
  OBVIOUS
<1>2. /\ x = o[l] /\ y = o[r] /\ z = o[at] /\ x2 = o2[l] /\ z2 = o2[at]
  BY <1>1
<1>3. /\ (x2.leaf <=> x.leaf) /\ x2.nr_of_files = x.nr_of_files
      /\ x2.nr_of_keys = x.nr_of_keys + y.nr_of_keys + 1
      /\ \A j \in Slots : x2.entries[j] =
           IF j = T - 1 THEN z.entries[i]
           ELSE IF T <= j /\ j < T + y.nr_of_keys THEN y.entries[j - T]
           ELSE x.entries[j]
      /\ (z2.leaf <=> z.leaf) /\ z2.nr_of_files = z.nr_of_files
      /\ z2.nr_of_keys = z.nr_of_keys - 1
      /\ \A j \in Slots : j < i => z2.entries[j] = z.entries[j]
      /\ \A j \in 0..i : z2.children[j] = z.children[j]
  BY <1>1 DEF IsClosed
<1> QED BY <1>2, <1>3 DEF IsClosed

\* What Merge does to the two nodes, as it assigns them.
MergeDone(nodes, at, i, l, r, kids, joined, above, new) ==
  /\ kids = Removed(nodes[at].children, i + 1, nodes[at].nr_of_keys + 1)
  /\ joined = [nodes[l] EXCEPT
       !.entries = [j \in Slots |->
          IF j = T - 1 THEN nodes[at].entries[i]
          ELSE IF T <= j /\ j < T + nodes[r].nr_of_keys THEN nodes[r].entries[j - T] ELSE @[j]],
       !.nr_of_keys = @ + nodes[r].nr_of_keys + 1]
  /\ above = [nodes[at] EXCEPT
       !.entries = Removed(@, i, nodes[at].nr_of_keys),
       !.children = [kids EXCEPT ![i + 1] = 0],
       !.nr_of_keys = nodes[at].nr_of_keys - 1]
  /\ new = [nodes EXCEPT ![l] = joined, ![at] = above]

LEMMA ClosedFrom ==
  ASSUME NEW nodes \in [Blocks -> Node], NEW at \in Blocks, NEW l \in Blocks, NEW r \in Blocks,
         l # at, NEW i \in Nat, i < nodes[at].nr_of_keys,
         nodes[l].nr_of_keys < T, nodes[r].nr_of_keys < T,
         NEW kids, NEW joined, NEW above, NEW new,
         MergeDone(nodes, at, i, l, r, kids, joined, above, new)
  PROVE  /\ IsClosed(nodes, new, at, i, l, r)
         /\ kids[i + 1] = IF i + 1 < nodes[at].nr_of_keys THEN nodes[at].children[i + 2]
                          ELSE nodes[at].children[i + 1]
<1>1. PICK x, y, z : x = nodes[l] /\ y = nodes[r] /\ z = nodes[at]
  OBVIOUS
<1>2. /\ x \in Node /\ x.entries \in [Slots -> Hashes] /\ x.children \in [Kids -> Blocks \cup {0}]
      /\ x.nr_of_files \in Int /\ x.leaf \in BOOLEAN
      /\ y \in Node /\ y.entries \in [Slots -> Hashes]
      /\ z \in Node /\ z.entries \in [Slots -> Hashes] /\ z.children \in [Kids -> Blocks \cup {0}]
      /\ z.nr_of_files \in Int /\ z.leaf \in BOOLEAN
  BY <1>1 DEF Node
<1>3. PICK n \in Nat, m \in Nat, q \in Nat :
         n = z.nr_of_keys /\ m = x.nr_of_keys /\ q = y.nr_of_keys
  BY <1>1, <1>2, NodeFacts, ConstantFacts
<1>4. /\ i < n /\ n <= 2 * T - 1 /\ n - 1 \in 0..(2 * T - 1) /\ m + q + 1 \in 0..(2 * T - 1)
      /\ i \in Slots /\ i + 1 \in Kids /\ \A j \in 0..i : j \in Kids /\ j < i + 1 /\ j # i + 1
  <2>1. n \in 0..(2 * T - 1) /\ i < n /\ m < T /\ q < T
    BY <1>1, <1>2, <1>3, NodeFacts
  <2> QED BY <2>1, <1>3, ConstantFacts DEF Slots, Kids
<1>5. PICK f, g, c : /\ f = [j \in Slots |->
                            IF j = T - 1 THEN z.entries[i]
                            ELSE IF T <= j /\ j < T + q THEN y.entries[j - T] ELSE x.entries[j]]
                     /\ g = Removed(z.entries, i, n)
                     /\ c = [kids EXCEPT ![i + 1] = 0]
  OBVIOUS
<1>6. f \in [Slots -> Hashes]
  <2>1. ASSUME NEW j \in Slots, T <= j PROVE j - T \in Slots
    BY <2>1, ConstantFacts DEF Slots
  <2>2. z.entries[i] \in Hashes
    BY <1>2, <1>4
  <2>3. ASSUME NEW j \in Slots
        PROVE  (IF j = T - 1 THEN z.entries[i]
                ELSE IF T <= j /\ j < T + q THEN y.entries[j - T] ELSE x.entries[j]) \in Hashes
    BY <2>1, <2>2, <1>2
  <2> QED BY <2>3, <1>5
<1>7. /\ g \in [Slots -> Hashes]
      /\ \A j \in Slots : j < i => g[j] = z.entries[j]
  <2>1. g = [j \in Slots |-> IF i <= j /\ j < n - 1 THEN z.entries[j + 1] ELSE z.entries[j]]
    BY <1>2, <1>5 DEF Removed
  <2>2. ASSUME NEW j \in Slots, j < n - 1 PROVE j + 1 \in Slots
    BY <2>2, <1>4, ConstantFacts DEF Slots
  <2>3. \A j \in Slots : j < i => ~ i <= j
    BY ConstantFacts DEF Slots
  <2>4. ASSUME NEW j \in Slots
        PROVE  (IF i <= j /\ j < n - 1 THEN z.entries[j + 1] ELSE z.entries[j]) \in Hashes
    BY <2>2, <1>2
  <2> QED BY <2>1, <2>3, <2>4
<1>8. kids = [j \in Kids |-> IF i + 1 <= j /\ j < (n + 1) - 1 THEN z.children[j + 1] ELSE z.children[j]]
  BY <1>1, <1>2, <1>3 DEF Removed, MergeDone
<1>9. /\ c \in [Kids -> Blocks \cup {0}]
      /\ \A j \in 0..i : c[j] = z.children[j]
  <2>1. ASSUME NEW j \in Kids, j < (n + 1) - 1 PROVE j + 1 \in Kids
    BY <2>1, <1>4, ConstantFacts DEF Kids
  <2>2. ASSUME NEW j \in Kids
        PROVE  (IF i + 1 <= j /\ j < (n + 1) - 1 THEN z.children[j + 1] ELSE z.children[j]) \in Blocks \cup {0}
    BY <2>1, <1>2
  <2>3. kids \in [Kids -> Blocks \cup {0}]
    BY <2>2, <1>8
  <2>4. c \in [Kids -> Blocks \cup {0}] /\ \A j \in 0..i : c[j] = kids[j]
    BY <2>3, <1>4, <1>5
  <2>5. \A j \in 0..i : ~ i + 1 <= j
    OBVIOUS
  <2> QED BY <2>4, <2>5, <1>4, <1>8
<1>10. joined = [x EXCEPT !.entries = f, !.nr_of_keys = m + q + 1]
  BY <1>1, <1>3, <1>5 DEF MergeDone
<1>11. above = [z EXCEPT !.entries = g, !.children = c, !.nr_of_keys = n - 1]
  BY <1>1, <1>3, <1>5 DEF MergeDone
<1>12. /\ joined \in Node /\ joined.entries = f /\ joined.nr_of_keys = m + q + 1
       /\ joined.nr_of_files = x.nr_of_files /\ joined.leaf = x.leaf
  BY <1>2, <1>4, <1>6, <1>10 DEF Node
<1>13. /\ above \in Node /\ above.entries = g /\ above.children = c /\ above.nr_of_keys = n - 1
       /\ above.nr_of_files = z.nr_of_files /\ above.leaf = z.leaf
  BY <1>2, <1>4, <1>7, <1>9, <1>11 DEF Node
<1>14. /\ new \in [Blocks -> Node] /\ new[l] = joined /\ new[at] = above
       /\ \A b \in Blocks : b # at /\ b # l => new[b] = nodes[b]
  <2>1. new = [nodes EXCEPT ![l] = joined, ![at] = above]
    BY DEF MergeDone
  <2> QED BY <2>1, <1>12, <1>13
<1>15. IsClosed(nodes, new, at, i, l, r)
  <2>1. \A j \in Slots : f[j] = IF j = T - 1 THEN z.entries[i]
                                ELSE IF T <= j /\ j < T + q THEN y.entries[j - T] ELSE x.entries[j]
    BY <1>5
  <2>2. \A j \in Slots : new[l].entries[j] =
          IF j = T - 1 THEN nodes[at].entries[i]
          ELSE IF T <= j /\ j < T + nodes[r].nr_of_keys THEN nodes[r].entries[j - T]
          ELSE nodes[l].entries[j]
    BY <2>1, <1>1, <1>3, <1>12, <1>14
  <2>3. /\ (new[l].leaf <=> nodes[l].leaf) /\ new[l].nr_of_files = nodes[l].nr_of_files
        /\ new[l].nr_of_keys = nodes[l].nr_of_keys + nodes[r].nr_of_keys + 1
        /\ (new[at].leaf <=> nodes[at].leaf) /\ new[at].nr_of_files = nodes[at].nr_of_files
        /\ new[at].nr_of_keys = nodes[at].nr_of_keys - 1
    BY <1>1, <1>3, <1>12, <1>13, <1>14
  <2>4. /\ \A j \in Slots : j < i => new[at].entries[j] = nodes[at].entries[j]
        /\ \A j \in 0..i : new[at].children[j] = nodes[at].children[j]
    BY <1>1, <1>7, <1>9, <1>13, <1>14
  <2> QED BY <2>2, <2>3, <2>4, <1>14 DEF IsClosed
<1>16. kids[i + 1] = IF i + 1 < n THEN z.children[i + 2] ELSE z.children[i + 1]
  <2>1. i + 1 <= i + 1 /\ (i + 1) + 1 = i + 2 /\ (n + 1) - 1 = n
    BY <1>3
  <2> QED BY <2>1, <1>4, <1>8
<1> QED BY <1>1, <1>3, <1>15, <1>16

LEMMA ClosedIsMerged ==
  ASSUME NEW nodes, NEW new, NEW at, NEW i \in Nat, NEW l, NEW r,
         IsClosed(nodes, new, at, i, l, r), nodes[at].nr_of_keys = i + 1, ~nodes[at].leaf,
         nodes[l].leaf, nodes[l].nr_of_keys = T - 1, nodes[r].nr_of_keys = T - 1
  PROVE  IsMerged(nodes, new, at, i, l, r)
<1>1. (T - 1) + (T - 1) + 1 = 2 * T - 1 /\ (i + 1) - 1 = i
  BY ConstantFacts
<1>2. IsJoined(new[l].entries, nodes[l].entries, nodes[at].entries[i], nodes[r].entries)
  BY DEF IsClosed, IsJoined
<1> QED BY <1>1, <1>2 DEF IsClosed, IsMerged

====
