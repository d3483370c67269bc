---- MODULE BTreeProofs ----
(***************************************************************************)
(* Theorems about the B-tree of BTree, for every minimum degree, set of    *)
(* blocks and set of hashes: what insertion and lookup do to each other.   *)
(***************************************************************************)
EXTENDS BTree, TLAPS, FiniteSetTheorems, FunctionTheorems

----
(* Numbers and walks.                                                      *)

(* A set of numbers that is not empty has a least one.                     *)
LEMMA LeastOfIsMember ==
  ASSUME NEW S \in SUBSET Nat, S # {}
  PROVE  LeastOf(S) \in S /\ \A t \in S : LeastOf(S) <= t
<1> DEFINE Below(s) == {t \in S : t <= s}
           F == {Below(s) : s \in S}
<1>1. F \subseteq FiniteSubsetsOf(Nat)
  <2> SUFFICES ASSUME NEW s \in S PROVE Below(s) \in FiniteSubsetsOf(Nat)
    OBVIOUS
  <2>1. IsFiniteSet(Below(s))
    <3>1. Below(s) \in SUBSET Nat /\ s \in Nat /\ \A t \in Below(s) : t <= s
      OBVIOUS
    <3> HIDE DEF Below
    <3> QED BY <3>1, FS_BoundedSetOfNaturals
  <2> QED BY <2>1 DEF FiniteSubsetsOf
<1>2. F # {}
  OBVIOUS
<1>3. PICK W \in F : \A U \in F : ~ (<<U, W>> \in StrictSubsetOrdering(Nat))
  <2> HIDE DEF F
  <2> QED BY <1>1, <1>2, FS_StrictSubsetOrderingWellFounded, WFMin
<1>4. PICK m \in S : W = Below(m)
  OBVIOUS
<1>5. \A y \in S : m <= y
  <2> SUFFICES ASSUME NEW y \in S, y < m PROVE FALSE
    OBVIOUS
  <2>1. y \in Nat /\ m \in Nat
    OBVIOUS
  <2>2. \A t \in S : t <= y => t <= m
    BY <2>1
  <2>3. Below(y) \subseteq Below(m)
    BY <2>2
  <2>4. m \in Below(m) /\ m \notin Below(y)
    BY <2>1
  <2>5. <<Below(y), W>> \in StrictSubsetOrdering(Nat)
    BY <1>4, <2>3, <2>4 DEF StrictSubsetOrdering
  <2> QED BY <1>3, <2>5
<1> QED BY <1>5 DEF LeastOf


\* f is a walk of n steps from x.
IsWalk(f, step, x, n) == f[0] = x /\ \A h \in 1..n : f[h] = step[f[h - 1]]

\* No step leaves S.
Stays(step, S) == \A s \in S : step[s] \in S

(* A walk can take any number of steps.                                    *)
LEMMA WalkExists ==
  ASSUME NEW S, NEW step, Stays(step, S), NEW x \in S, NEW n \in Nat
  PROVE  \E f \in [0..n -> S] : IsWalk(f, step, x, n)
<1> USE DEF IsWalk, Stays
<1> DEFINE Walks(m) == {f \in [0..m -> S] : f[0] = x /\ \A h \in 1..m : f[h] = step[f[h - 1]]}
           Stuck == {m \in Nat : Walks(m) = {}}
<1> SUFFICES ASSUME Stuck # {} PROVE FALSE
  OBVIOUS
<1>1. PICK m \in Stuck : \A k \in Stuck : m <= k
  <2> HIDE DEF Walks
  <2>1. Stuck \in SUBSET Nat
    OBVIOUS
  <2> HIDE DEF Stuck
  <2> QED BY <2>1, LeastOfIsMember
<1>2. m # 0
  <2>1. [h \in 0..0 |-> x] \in Walks(0)
    OBVIOUS
  <2> QED BY <2>1, <1>1
<1>3. PICK f : f \in Walks(m - 1)
  <2> HIDE DEF Walks
  <2> QED BY <1>1, <1>2
<1> DEFINE g == [h \in 0..m |-> IF h = m THEN step[f[m - 1]] ELSE f[h]]
<1>4. f[m - 1] \in S /\ m \in Nat /\ m - 1 \in Nat
  BY <1>1, <1>2, <1>3
<1>5. step[f[m - 1]] \in S
  BY <1>4
<1>6. \A h \in 0..(m - 1) : g[h] = f[h] /\ f[h] \in S
  BY <1>3, <1>4
<1>7. g \in [0..m -> S]
  <2>1. ASSUME NEW h \in 0..m PROVE g[h] \in S
    <3>1. h = m \/ h \in 0..(m - 1)
      BY <1>4
    <3> QED BY <3>1, <1>4, <1>5, <1>6
  <2> QED BY <2>1
<1>8. g[0] = x /\ \A h \in 1..m : g[h] = step[g[h - 1]]
  <2>1. g[0] = x
    BY <1>3, <1>4, <1>6
  <2>2. ASSUME NEW h \in 1..m PROVE g[h] = step[g[h - 1]]
    <3>1. CASE h = m
      BY <3>1, <1>4, <1>6
    <3>2. CASE h # m
      BY <3>2, <1>3, <1>4, <1>6
    <3> QED BY <3>1, <3>2
  <2> QED BY <2>1, <2>2
<1>9. g \in Walks(m)
  BY <1>7, <1>8
<1> HIDE DEF Walks, g
<1> QED BY <1>1, <1>9

LEMMA LevelsAreANumber == MaxLevel \in Nat
BY BTreeAssumption, FS_CardinalityType DEF MaxLevel

(* A walk begins at x, takes its steps, and stays where they stay.         *)
LEMMA WalkIs ==
  ASSUME NEW S, NEW step, Stays(step, S), NEW x \in S
  PROVE  /\ Walk(step, x) \in [0..MaxLevel -> S]
         /\ Walk(step, x)[0] = x
         /\ \A h \in 1..MaxLevel : Walk(step, x)[h] = step[Walk(step, x)[h - 1]]
<1>1. PICK f \in [0..MaxLevel -> S] : f[0] = x /\ \A h \in 1..MaxLevel : f[h] = step[f[h - 1]]
  <2>1. PICK n \in Nat : n = MaxLevel
    BY LevelsAreANumber
  <2>2. \E f \in [0..n -> S] : IsWalk(f, step, x, n)
    BY WalkExists, Zenon
  <2> QED BY <2>1, <2>2 DEF IsWalk
<1>2. f = [h \in 0..MaxLevel |-> IF h = 0 THEN x ELSE step[f[h - 1]]]
  <2>1. \A h \in 0..MaxLevel : f[h] = IF h = 0 THEN x ELSE step[f[h - 1]]
    BY <1>1, LevelsAreANumber
  <2> QED BY <2>1
<1>3. Walk(step, x) = CHOOSE g : g = [h \in 0..MaxLevel |-> IF h = 0 THEN x ELSE step[g[h - 1]]]
  BY DEF Walk
<1>4. PICK w : w = Walk(step, x)
  OBVIOUS
<1>5. w = [h \in 0..MaxLevel |-> IF h = 0 THEN x ELSE step[w[h - 1]]]
  BY <1>2, <1>3, <1>4, Zenon
<1>6. w[0] = x /\ \A h \in 1..MaxLevel : w[h] = step[w[h - 1]]
  BY <1>5, LevelsAreANumber
<1> DEFINE Out == {h \in 0..MaxLevel : w[h] \notin S}
<1>7. Out = {}
  <2> SUFFICES ASSUME Out # {} PROVE FALSE
    OBVIOUS
  <2>1. PICK m \in Out : \A k \in Out : m <= k
    <3>1. Out \in SUBSET Nat
      BY LevelsAreANumber
    <3> HIDE DEF Out
    <3> QED BY <3>1, LeastOfIsMember
  <2>2. m \in 1..MaxLevel /\ m - 1 \in 0..MaxLevel
    BY <1>6, LevelsAreANumber
  <2>3. w[m - 1] \in S
    BY <2>1, <2>2
  <2>4. step[w[m - 1]] \in S
    BY <2>3 DEF Stays
  <2> QED BY <2>1, <2>2, <2>4, <1>6
<1>8. w \in [0..MaxLevel -> S]
  BY <1>5, <1>7
<1> QED BY <1>4, <1>6, <1>8

----
(* Nodes.                                                                  *)

LEMMA ConstantFacts ==
  /\ T \in Nat /\ T >= 2
  /\ Blocks \in SUBSET Nat /\ 0 \notin Blocks /\ IsFiniteSet(Blocks)
  /\ Keys \in SUBSET Nat /\ 0 \notin Keys /\ IsFiniteSet(Keys)
  /\ Hashes \in SUBSET Nat
BY BTreeAssumption DEF Hashes

LEMMA NodeFacts ==
  ASSUME NEW x \in Node
  PROVE  /\ x.entries \in [0..(2 * T - 2) -> Hashes]
         /\ x.children \in [0..(2 * T - 1) -> Blocks \cup {0}]
         /\ x.nr_of_keys \in 0..(2 * T - 1) /\ x.nr_of_keys \in Int
         /\ x.nr_of_files \in Int /\ x.leaf \in BOOLEAN
BY ConstantFacts DEF Node, Slots, Kids

(* The slots before the last key hold numbers.                             *)
LEMMA EntriesAreNumbers ==
  ASSUME NEW x \in Node
  PROVE  /\ \A j \in 0..(x.nr_of_keys - 1) : j \in Slots
         /\ \A j \in Slots : x.entries[j] \in Hashes /\ x.entries[j] \in Nat
         /\ \A j \in Slots : j \in Nat /\ (j < x.nr_of_keys => j \in 0..(x.nr_of_keys - 1))
<1>1. PICK n \in 0..(2 * T - 1), e \in [Slots -> Hashes] : n = x.nr_of_keys /\ e = x.entries
  BY NodeFacts DEF Slots
<1>2. \A j \in 0..(n - 1) : j \in Slots
  BY ConstantFacts DEF Slots
<1>3. \A j \in Slots : e[j] \in Hashes /\ e[j] \in Nat
  BY ConstantFacts
<1>4. \A j \in Slots : j \in Nat /\ (j < n => j \in 0..(n - 1))
  BY ConstantFacts DEF Slots
<1> QED BY <1>1, <1>2, <1>3, <1>4

Sorted(x) == \A i, j \in Slots : i < j /\ j < x.nr_of_keys => x.entries[i] < x.entries[j]

\* Of the keys K, those that lie below child number i of node x.
Between(x, i, K) ==
  {k \in K : /\ i > 0 => x.entries[i - 1] < k
             /\ i < x.nr_of_keys => k < x.entries[i]}

(* The place of a key in a sorted node is behind the keys that are smaller. *)
LEMMA BeforeIs ==
  ASSUME NEW x \in Node, Sorted(x), NEW k \in Nat
  PROVE  /\ Before(x, k) \in 0..x.nr_of_keys
         /\ \A j \in 0..(x.nr_of_keys - 1) : x.entries[j] < k <=> j < Before(x, k)
<1>1. PICK n \in 0..(2 * T - 1), e \in [0..(2 * T - 2) -> Hashes] :
         n = x.nr_of_keys /\ e = x.entries
  BY NodeFacts
<1>2. \A i, j \in 0..(n - 1) : i < j => e[i] < e[j]
  BY <1>1, ConstantFacts DEF Sorted, Slots
<1>3. \A j \in 0..(n - 1) : e[j] \in Nat
  BY <1>1, EntriesAreNumbers
<1> DEFINE Stops == {j \in 0..n : j = n \/ ~ e[j] < k}
<1>4. PICK m \in Stops : \A j \in Stops : m <= j
  <2>1. Stops \in SUBSET Nat /\ n \in Stops
    BY <1>1, ConstantFacts
  <2> HIDE DEF Stops
  <2> QED BY <2>1, LeastOfIsMember
<1>5. m \in 0..n /\ n \in Nat /\ m \in Nat
  BY <1>1, <1>4, ConstantFacts
<1>6. ASSUME NEW j \in 0..(n - 1) PROVE e[j] < k <=> j < m
  <2>1. CASE j < m
    <3>1. j \notin Stops /\ j \in 0..n
      BY <2>1, <1>4, <1>5
    <3> QED BY <2>1, <3>1
  <2>2. CASE j = m
    BY <2>2, <1>4, <1>5
  <2>3. CASE m < j
    <3>1. m \in 0..(n - 1)
      BY <2>3, <1>5
    <3>2. e[m] < e[j] /\ e[m] \in Nat /\ e[j] \in Nat /\ ~ e[m] < k
      BY <3>1, <2>3, <1>2, <1>3, <1>4, <1>5
    <3> QED BY <3>2, <2>3, <1>5
  <2> QED BY <2>1, <2>2, <2>3, <1>5
<1>7. {i \in Slots : i < n /\ e[i] < k} = 0..(m - 1)
  <2>1. ASSUME NEW i \in Slots, i < n, e[i] < k PROVE i \in 0..(m - 1)
    <3>1. i \in 0..(n - 1)
      BY <2>1, <1>5, ConstantFacts DEF Slots
    <3> QED BY <3>1, <2>1, <1>6, <1>5
  <2>2. ASSUME NEW i \in 0..(m - 1) PROVE i \in Slots /\ i < n /\ e[i] < k
    <3>1. i \in 0..(n - 1) /\ i < m
      BY <1>5
    <3> QED BY <3>1, <1>1, <1>6, ConstantFacts DEF Slots
  <2> QED BY <2>1, <2>2
<1>8. Cardinality(0..(m - 1)) = m
  BY <1>5, FS_Interval
<1>9. Before(x, k) = m
  BY <1>1, <1>7, <1>8 DEF Before
<1> QED BY <1>1, <1>5, <1>6, <1>9

(* Below the place of a key lie the keys of the child it is looked for in.  *)
LEMMA PlaceIsBetween ==
  ASSUME NEW x \in Node, Sorted(x), NEW K \in SUBSET Keys, NEW k \in K, ~Holds(x, k)
  PROVE  Before(x, k) \in 0..x.nr_of_keys /\ k \in Between(x, Before(x, k), K)
<1>1. k \in Nat
  BY ConstantFacts
<1>2. PICK i \in 0..x.nr_of_keys :
         /\ i = Before(x, k)
         /\ \A j \in 0..(x.nr_of_keys - 1) : x.entries[j] < k <=> j < i
  BY <1>1, BeforeIs
<1>3. \A j \in 0..(x.nr_of_keys - 1) : x.entries[j] \in Nat /\ x.entries[j] # k
  <2>1. \A j \in 0..(x.nr_of_keys - 1) : j \in Slots /\ j < x.nr_of_keys
    BY EntriesAreNumbers, NodeFacts
  <2> QED BY <2>1, EntriesAreNumbers DEF Holds
<1>4. i > 0 => x.entries[i - 1] < k
  <2>1. i > 0 => i - 1 \in 0..(x.nr_of_keys - 1) /\ i - 1 < i
    BY NodeFacts
  <2> QED BY <2>1, <1>2
<1>5. i < x.nr_of_keys => k < x.entries[i]
  <2>1. i < x.nr_of_keys => i \in 0..(x.nr_of_keys - 1) /\ ~ i < i
    BY NodeFacts
  <2> QED BY <2>1, <1>1, <1>2, <1>3
<1> QED BY <1>2, <1>4, <1>5 DEF Between

(* A key the node holds is at its place.                                   *)
LEMMA PlaceIsThere ==
  ASSUME NEW x \in Node, Sorted(x), NEW k \in Keys, Holds(x, k)
  PROVE  Hit(x, k)
<1>1. k \in Nat
  BY ConstantFacts
<1>2. PICK j \in Slots : j < x.nr_of_keys /\ x.entries[j] = k
  BY DEF Holds
<1>3. PICK i \in 0..x.nr_of_keys :
         /\ i = Before(x, k)
         /\ \A l \in 0..(x.nr_of_keys - 1) : x.entries[l] < k <=> l < i
  BY <1>1, BeforeIs
<1>4. j \in 0..(x.nr_of_keys - 1) /\ \A l \in 0..(x.nr_of_keys - 1) : x.entries[l] \in Nat /\ l \in Slots
  BY <1>2, EntriesAreNumbers
<1>5. ~ j < i
  BY <1>1, <1>2, <1>3, <1>4
<1>6. ~ i < j
  <2> SUFFICES ASSUME i < j PROVE FALSE
    OBVIOUS
  <2>1. i \in 0..(x.nr_of_keys - 1)
    BY <1>4, NodeFacts
  <2>2. x.entries[i] < x.entries[j]
    BY <2>1, <1>2, <1>4 DEF Sorted
  <2>3. i < i
    BY <2>1, <2>2, <1>2, <1>3
  <2> QED BY <2>3, <2>1
<1>7. i = j
  BY <1>4, <1>5, <1>6, NodeFacts
<1> QED BY <1>2, <1>3, <1>7 DEF Hit

LEMMA BeforeIsAKid ==
  ASSUME NEW x, NEW k
  PROVE  Before(x, k) \in Kids
<1> DEFINE S == {i \in Slots : i < x.nr_of_keys /\ x.entries[i] < k}
<1>1. PICK n \in Nat : n = 2 * T - 2
  BY ConstantFacts
<1>2. IsFiniteSet(0..n) /\ Cardinality(0..n) = n + 1
  BY <1>1, FS_Interval
<1>3. S \in SUBSET (0..n)
  BY <1>1 DEF Slots
<1> HIDE DEF S
<1>4. IsFiniteSet(S) /\ Cardinality(S) <= n + 1
  BY <1>2, <1>3, FS_Subset
<1>5. Cardinality(S) \in Nat
  BY <1>4, FS_CardinalityType
<1>6. Cardinality(S) \in 0..(2 * T - 1)
  BY <1>1, <1>4, <1>5, ConstantFacts
<1> QED BY <1>6 DEF Before, Kids, S

----
(* Trees.                                                                  *)

PointsTo(x, b) == ~x.leaf /\ \E i \in 0..x.nr_of_keys : x.children[i] = b

\* Node x, which lies in block b, in a tree of blocks N.
NodeSound(x, b, N, span, level) ==
  /\ Sorted(x)
  /\ \A i \in 0..(x.nr_of_keys - 1) : x.entries[i] \in span[b]
  /\ x.leaf <=> level[b] = 0
  /\ ~x.leaf => \A i \in 0..x.nr_of_keys :
       /\ x.children[i] \in N
       /\ span[x.children[i]] = Between(x, i, span[b])
       /\ level[x.children[i]] = level[b] - 1

(* The blocks N are the nodes of a B-tree with root top.  span[b] is the set *)
(* of keys for which a walk from the root comes to b, level[b] the number of *)
(* levels below it.                                                        *)
Shape(nodes, top, N, span, level) ==
  /\ nodes \in [Blocks -> Node]
  /\ N \in SUBSET Blocks /\ top \in N
  /\ span \in [N -> SUBSET Keys] /\ level \in [N -> Nat]
  /\ span[top] = Keys
  /\ \A b \in N : level[b] <= level[top]
  /\ \A b \in N : NodeSound(nodes[b], b, N, span, level)
  /\ \A b \in N \ {top} : /\ nodes[b].nr_of_keys >= T - 1
                          /\ \E p \in N : PointsTo(nodes[p], b)
  /\ \A b, c \in N : level[b] = level[c] /\ b # c => span[b] \cap span[c] = {}

\* What a walk from the root needs to know of a node: its pointers.
NodeLinks(x, b, N, span, level) ==
  /\ Sorted(x)
  /\ x.leaf <=> level[b] = 0
  /\ ~x.leaf => \A i \in 0..x.nr_of_keys :
       /\ x.children[i] \in N
       /\ span[x.children[i]] = Between(x, i, span[b])
       /\ level[x.children[i]] = level[b] - 1

(* The same tree without the keys in it: they may lie where no walk looks   *)
(* for them, and be any number.                                            *)
Frame(nodes, top, N, span, level) ==
  /\ nodes \in [Blocks -> Node]
  /\ N \in SUBSET Blocks /\ top \in N
  /\ span \in [N -> SUBSET Keys] /\ level \in [N -> Nat]
  /\ span[top] = Keys
  /\ \A b \in N : level[b] <= level[top]
  /\ \A b \in N : NodeLinks(nodes[b], b, N, span, level)
  /\ \A b \in N \ {top} : \E p \in N : PointsTo(nodes[p], b)
  /\ \A b, c \in N : level[b] = level[c] /\ b # c => span[b] \cap span[c] = {}

LEMMA ShapeIsFrame ==
  ASSUME NEW nodes, NEW top, NEW N, NEW span, NEW level, Shape(nodes, top, N, span, level)
  PROVE  Frame(nodes, top, N, span, level)
<1>1. \A b \in N : NodeLinks(nodes[b], b, N, span, level)
  BY DEF Shape, NodeSound, NodeLinks
<1> QED BY <1>1 DEF Shape, Frame

\* What lies behind the last key of a node is not looked for there.
Stale(nodes, N, span) ==
  \A b \in N, j \in Slots : j >= nodes[b].nr_of_keys => nodes[b].entries[j] \notin span[b]

\* The keys in the nodes N.
Content(nodes, N) == {k \in Keys : \E b \in N : Holds(nodes[b], k)}

(* A walk that looks for k takes the steps of this function.               *)
Step(k) == [c \in Blocks \cup {0} |->
              IF c = 0 \/ Hit(node[c], k) \/ node[c].leaf THEN 0
              ELSE node[c].children[Before(node[c], k)]]

LEMMA DescentIs ==
  ASSUME node \in [Blocks -> Node], NEW b \in Blocks, NEW k
  PROVE  /\ Descent(b, k) \in [0..MaxLevel -> Blocks \cup {0}]
         /\ Descent(b, k)[0] = b
         /\ \A h \in 1..MaxLevel : Descent(b, k)[h] = Step(k)[Descent(b, k)[h - 1]]
<1>1. PICK step : step = Step(k)
  OBVIOUS
<1>2. PICK S : S = Blocks \cup {0}
  OBVIOUS
<1>3. step \in [S -> S]
  <2>1. ASSUME NEW c \in Blocks PROVE node[c].children[Before(node[c], k)] \in S
    <3>1. node[c] \in Node
      OBVIOUS
    <3>2. node[c].children \in [Kids -> S]
      BY <3>1, <1>2 DEF Node
    <3> QED BY <3>2, BeforeIsAKid
  <2> QED BY <2>1, <1>1, <1>2 DEF Step
<1>4. b \in S
  BY <1>2
<1>5. Descent(b, k) = Walk(step, b)
  BY <1>1 DEF Descent, Step
<1>6. PICK w : w = Walk(step, b)
  OBVIOUS
<1>7. w \in [0..MaxLevel -> S] /\ w[0] = b /\ \A h \in 1..MaxLevel : w[h] = step[w[h - 1]]
  <2>1. Stays(step, S)
    BY <1>3 DEF Stays
  <2> QED BY <2>1, <1>4, <1>6, WalkIs
<1> QED BY <1>1, <1>2, <1>5, <1>6, <1>7

(* There is a node on every level.                                         *)
LEMMA LevelsFilled ==
  ASSUME NEW nodes, NEW top, NEW N, NEW span, NEW level, Frame(nodes, top, N, span, level),
         NEW l \in 0..level[top]
  PROVE  \E b \in N : level[b] = l
<1>1. /\ nodes \in [Blocks -> Node] /\ N \in SUBSET Blocks /\ top \in N
      /\ level \in [N -> Nat] /\ level[top] \in Nat
      /\ \A b \in N : NodeLinks(nodes[b], b, N, span, level)
  BY DEF Frame
<1> DEFINE Bare == {h \in 0..level[top] : \A b \in N : level[b] # level[top] - h}
<1>2. Bare = {}
  <2> SUFFICES ASSUME Bare # {} PROVE FALSE
    OBVIOUS
  <2>1. PICK m \in Bare : \A h \in Bare : m <= h
    <3>1. Bare \in SUBSET Nat
      BY <1>1
    <3> HIDE DEF Bare
    <3> QED BY <3>1, LeastOfIsMember
  <2>2. m \in 1..level[top]
    BY <2>1, <1>1
  <2>3. PICK b \in N : level[b] = level[top] - (m - 1)
    BY <2>1, <2>2, <1>1
  <2>4. level[b] # 0 /\ NodeLinks(nodes[b], b, N, span, level) /\ nodes[b] \in Node
    BY <2>2, <2>3, <1>1
  <2>5. 0 \in 0..nodes[b].nr_of_keys
    BY <2>4, NodeFacts, ConstantFacts
  <2>6. nodes[b].children[0] \in N /\ level[nodes[b].children[0]] = level[b] - 1
    BY <2>4, <2>5 DEF NodeLinks
  <2>7. level[b] - 1 = level[top] - m
    BY <2>2, <2>3, <1>1
  <2> QED BY <2>1, <2>6, <2>7
<1>3. level[top] - l \in 0..level[top] /\ level[top] - (level[top] - l) = l
  BY <1>1
<1>4. level[top] - l \notin Bare
  BY <1>2
<1> QED BY <1>3, <1>4

\* No tree has more levels than a walk may have steps.
LEMMA TreesAreLow ==
  ASSUME NEW nodes, NEW top, NEW N, NEW span, NEW level, Frame(nodes, top, N, span, level)
  PROVE  level[top] \in 0..(MaxLevel - 1)
<1>1. /\ N \in SUBSET Blocks /\ level \in [N -> Nat] /\ level[top] \in Nat
      /\ \A b \in N : level[b] <= level[top]
  BY DEF Frame
<1>2. PICK L \in Nat : L = level[top]
  BY <1>1
<1>3. PICK H : H = 0..L
  OBVIOUS
<1>4. level \in Surjection(N, H)
  <2>1. level \in [N -> H]
    BY <1>1, <1>2, <1>3
  <2>2. \A l \in H : \E b \in N : level[b] = l
    BY <1>2, <1>3, LevelsFilled
  <2> QED BY <2>1, <2>2, Fun_IsSurj
<1>5. IsFiniteSet(N) /\ Cardinality(N) <= MaxLevel /\ Cardinality(N) \in Nat
  BY <1>1, ConstantFacts, FS_Subset, FS_CardinalityType DEF MaxLevel
<1>6. Cardinality(H) <= Cardinality(N)
  BY <1>4, <1>5, FS_Surjection
<1>7. Cardinality(H) = L + 1
  BY <1>2, <1>3, FS_Interval
<1> QED BY <1>2, <1>5, <1>6, <1>7, LevelsAreANumber

(* A walk stays in the tree until it ends, and goes one level down with    *)
(* each step.                                                              *)
LEMMA DescentInTree ==
  ASSUME NEW top, NEW N, NEW span, NEW level, Frame(node, top, N, span, level), NEW k \in Keys
  PROVE  \A h \in 0..MaxLevel :
           LET c == Descent(top, k)[h]
           IN  c = 0 \/ (c \in N /\ k \in span[c] /\ level[c] = level[top] - h)
<1>1. /\ node \in [Blocks -> Node] /\ N \in SUBSET Blocks /\ top \in N /\ span[top] = Keys
      /\ level \in [N -> Nat] /\ span \in [N -> SUBSET Keys]
      /\ \A b \in N : NodeLinks(node[b], b, N, span, level)
  BY DEF Frame
<1>2. PICK at : at = Descent(top, k)
  OBVIOUS
<1>3. /\ at \in [0..MaxLevel -> Blocks \cup {0}]
      /\ at[0] = top
      /\ \A h \in 1..MaxLevel : at[h] = Step(k)[at[h - 1]]
  BY <1>1, <1>2, DescentIs
<1> DEFINE Good(h) == at[h] = 0 \/ (at[h] \in N /\ k \in span[at[h]] /\ level[at[h]] = level[top] - h)
           Bad == {h \in 0..MaxLevel : ~ Good(h)}
<1>4. Bad = {}
  <2> SUFFICES ASSUME Bad # {} PROVE FALSE
    OBVIOUS
  <2>1. PICK m \in Bad : \A h \in Bad : m <= h
    <3> HIDE DEF Good
    <3>1. Bad \in SUBSET Nat
      BY LevelsAreANumber
    <3> HIDE DEF Bad
    <3> QED BY <3>1, LeastOfIsMember
  <2>2. Good(0)
    BY <1>1, <1>3
  <2>3. m \in 1..MaxLevel /\ m - 1 \in 0..MaxLevel /\ m - 1 < m /\ m \in Nat
    BY <2>1, <2>2, LevelsAreANumber
  <2>4. Good(m - 1)
    <3> HIDE DEF Good
    <3> QED BY <2>1, <2>3
  <2>5. PICK c : c = at[m - 1]
    OBVIOUS
  <2>6. c \in Blocks \cup {0} /\ at[m] = Step(k)[c]
    BY <1>3, <2>3, <2>5
  <2>7. c # 0 /\ ~Hit(node[c], k) /\ ~node[c].leaf /\ at[m] = node[c].children[Before(node[c], k)]
    <3>1. at[m] # 0
      BY <2>1
    <3> QED BY <3>1, <2>6 DEF Step
  <2>8. c \in N /\ k \in span[c] /\ level[c] = level[top] - (m - 1)
    BY <2>4, <2>5, <2>7
  <2>9. node[c] \in Node /\ NodeLinks(node[c], c, N, span, level) /\ span[c] \in SUBSET Keys
    BY <1>1, <2>8
  <2>10. ~Holds(node[c], k)
    BY <2>7, <2>9, PlaceIsThere DEF NodeLinks
  <2>11. PICK i : i = Before(node[c], k)
    OBVIOUS
  <2>12. i \in 0..node[c].nr_of_keys /\ k \in Between(node[c], i, span[c])
    BY <2>8, <2>9, <2>10, <2>11, PlaceIsBetween DEF NodeLinks
  <2>13. /\ at[m] \in N /\ span[at[m]] = Between(node[c], i, span[c])
         /\ level[at[m]] = level[c] - 1
    BY <2>7, <2>9, <2>11, <2>12 DEF NodeLinks
  <2>14. level[at[m]] = level[top] - m
    BY <2>3, <2>8, <2>13, <1>1
  <2>15. Good(m)
    BY <2>12, <2>13, <2>14
  <2> HIDE DEF Good
  <2> QED BY <2>1, <2>15
<1> QED BY <1>2, <1>4

(* Lookup finds every key that lies where it is looked for, ...            *)
LEMMA FrameFinds ==
  ASSUME NEW top, NEW N, NEW span, NEW level, Frame(node, top, N, span, level),
         NEW k, NEW x \in N, Holds(node[x], k), k \in span[x]
  PROVE  Lookup(top, k)
<1> SUFFICES ASSUME ~Lookup(top, k) PROVE FALSE
  OBVIOUS
<1>1. /\ node \in [Blocks -> Node] /\ N \in SUBSET Blocks /\ top \in N /\ span[top] = Keys
      /\ level \in [N -> Nat] /\ span \in [N -> SUBSET Keys]
      /\ \A b \in N : NodeLinks(node[b], b, N, span, level)
      /\ \A b, c \in N : level[b] = level[c] /\ b # c => span[b] \cap span[c] = {}
      /\ \A b \in N : level[b] <= level[top]
  BY DEF Frame
<1>2. k \in Keys /\ k \in span[x]
  BY <1>1
<1>3. Holds(node[x], k)
  OBVIOUS
<1>4. node[x] \in Node /\ NodeLinks(node[x], x, N, span, level) /\ level[x] \in Nat
  BY <1>1
<1>5. k \in span[x]
  OBVIOUS
<1>6. PICK at : at = Descent(top, k)
  OBVIOUS
<1>7. /\ at \in [0..MaxLevel -> Blocks \cup {0}]
      /\ at[0] = top
      /\ \A h \in 1..MaxLevel : at[h] = Step(k)[at[h - 1]]
  BY <1>1, <1>6, DescentIs
<1>8. \A h \in 0..MaxLevel :
        at[h] = 0 \/ (at[h] \in N /\ k \in span[at[h]] /\ level[at[h]] = level[top] - h)
  BY <1>2, <1>6, DescentInTree
<1>9. \A h \in 0..MaxLevel : at[h] # 0 => ~Hit(node[at[h]], k)
  BY <1>6 DEF Lookup
<1>10. PICK d \in 0..MaxLevel : d = level[top] - level[x]
  <2>1. level[top] \in 0..(MaxLevel - 1) /\ level[x] <= level[top]
    BY <1>1, TreesAreLow
  <2> QED BY <2>1, <1>4, LevelsAreANumber
<1>11. at[d] # 0
  <2> DEFINE Bad == {h \in 0..d : at[h] = 0}
  <2> SUFFICES ASSUME Bad # {} PROVE FALSE
    <3>1. d \in 0..d
      BY <1>10, LevelsAreANumber
    <3> QED BY <3>1
  <2>1. PICK m \in Bad : \A h \in Bad : m <= h
    <3>1. Bad \in SUBSET Nat
      BY <1>10, LevelsAreANumber
    <3> HIDE DEF Bad
    <3> QED BY <3>1, LeastOfIsMember
  <2>2. at[0] # 0
    BY <1>1, <1>7, ConstantFacts
  <2>3. /\ m \in 1..MaxLevel /\ m - 1 \in 0..MaxLevel /\ m - 1 \in 0..d
        /\ m - 1 < m /\ m \in Nat /\ m <= d
    BY <2>1, <2>2, <1>10, LevelsAreANumber
  <2>4. PICK c : c = at[m - 1]
    OBVIOUS
  <2>5. c # 0
    BY <2>1, <2>3, <2>4
  <2>6. c \in N /\ k \in span[c] /\ level[c] = level[top] - (m - 1) /\ ~Hit(node[c], k)
    BY <1>8, <1>9, <2>3, <2>4, <2>5
  <2>7. level[c] # 0
    BY <2>3, <2>6, <1>1, <1>4, <1>10
  <2>8. node[c] \in Node /\ NodeLinks(node[c], c, N, span, level)
    BY <1>1, <2>6
  <2>9. ~node[c].leaf
    BY <2>7, <2>8 DEF NodeLinks
  <2>10. at[m] = node[c].children[Before(node[c], k)]
    <3>1. at[m] = Step(k)[c] /\ c \in Blocks \cup {0}
      BY <1>1, <1>7, <2>3, <2>4, <2>6
    <3> QED BY <3>1, <2>5, <2>6, <2>9 DEF Step
  <2>11. PICK i \in 0..node[c].nr_of_keys : i = Before(node[c], k)
    <3>1. k \in Nat
      BY <1>2, ConstantFacts
    <3> QED BY <3>1, <2>8, BeforeIs DEF NodeLinks
  <2>12. node[c].children[i] \in N
    BY <2>8, <2>9, <2>11 DEF NodeLinks
  <2>13. at[m] # 0
    BY <2>10, <2>11, <2>12, <1>1, ConstantFacts
  <2> QED BY <2>1, <2>13
<1>12. at[d] \in N /\ k \in span[at[d]] /\ level[at[d]] = level[x]
  <2>1. at[d] \in N /\ k \in span[at[d]] /\ level[at[d]] = level[top] - d
    BY <1>8, <1>10, <1>11
  <2> QED BY <2>1, <1>1, <1>4, <1>10
<1>13. at[d] = x
  BY <1>1, <1>3, <1>5, <1>12
<1>14. Hit(node[x], k)
  BY <1>2, <1>3, <1>4, PlaceIsThere DEF NodeLinks
<1> QED BY <1>9, <1>10, <1>11, <1>13, <1>14

\* ... which all keys of a tree do, ...
LEMMA LookupFinds ==
  ASSUME NEW top, NEW N, NEW span, NEW level, Shape(node, top, N, span, level),
         NEW k \in Content(node, N)
  PROVE  Lookup(top, k)
<1>1. PICK x \in N : Holds(node[x], k)
  BY DEF Content
<1>2. node[x] \in Node /\ NodeSound(node[x], x, N, span, level)
  BY DEF Shape
<1>3. PICK i \in Slots : i < node[x].nr_of_keys /\ node[x].entries[i] = k
  BY <1>1 DEF Holds
<1>4. i \in 0..(node[x].nr_of_keys - 1)
  BY <1>2, <1>3, EntriesAreNumbers
<1>5. k \in span[x]
  BY <1>2, <1>3, <1>4 DEF NodeSound
<1> QED BY <1>1, <1>5, ShapeIsFrame, FrameFinds

(* ... and nothing else.                                                   *)
LEMMA LookupFindsNoOther ==
  ASSUME NEW top, NEW N, NEW span, NEW level, Shape(node, top, N, span, level),
         Stale(node, N, span), NEW k \in Keys, Lookup(top, k)
  PROVE  k \in Content(node, N)
<1>1. PICK h \in 0..MaxLevel : Descent(top, k)[h] # 0 /\ Hit(node[Descent(top, k)[h]], k)
  BY DEF Lookup
<1>2. PICK c : c = Descent(top, k)[h]
  OBVIOUS
<1>3. c \in N /\ k \in span[c] /\ Hit(node[c], k)
  BY <1>1, <1>2, ShapeIsFrame, DescentInTree
<1>4. node[c] \in Node
  BY <1>3 DEF Shape
<1>5. PICK i \in Slots : node[c].entries[i] = k
  BY <1>3 DEF Hit
<1>6. i < node[c].nr_of_keys
  <2>1. i \in Nat /\ node[c].nr_of_keys \in Int
    BY <1>4, EntriesAreNumbers, NodeFacts
  <2> QED BY <2>1, <1>3, <1>5 DEF Stale
<1> QED BY <1>3, <1>5, <1>6 DEF Content, Holds

----
(* Splits.                                                                 *)

\* What btree_split_child does to the three nodes, and to no other.
IsSplit(nodes, new, par, lhs, i, rhs) ==
  /\ new \in [Blocks -> Node]
  /\ \A b \in Blocks : b # par /\ b # lhs /\ b # rhs => new[b] = nodes[b]
  /\ new[lhs].nr_of_keys = T - 1 /\ new[lhs].entries = nodes[lhs].entries
  /\ new[lhs].children = nodes[lhs].children /\ (new[lhs].leaf <=> nodes[lhs].leaf)
  /\ new[lhs].nr_of_files = nodes[lhs].nr_of_files
  /\ new[rhs].nr_of_keys = T - 1 /\ (new[rhs].leaf <=> nodes[lhs].leaf)
  /\ \A j \in Slots :
       new[rhs].entries[j] = IF j < T - 1 THEN nodes[lhs].entries[j + T] ELSE 0
  /\ ~nodes[lhs].leaf => \A j \in 0..(T - 1) : new[rhs].children[j] = nodes[lhs].children[j + T]
  /\ new[par].nr_of_keys = nodes[par].nr_of_keys + 1 /\ (new[par].leaf <=> nodes[par].leaf)
  /\ new[par].nr_of_files = nodes[par].nr_of_files
  /\ \A j \in Slots :
       new[par].entries[j] = IF j = i THEN nodes[lhs].entries[T - 1]
                             ELSE IF i < j /\ j <= nodes[par].nr_of_keys
                                  THEN nodes[par].entries[j - 1]
                                  ELSE nodes[par].entries[j]
  /\ \A j \in Kids :
       new[par].children[j] = IF j = i + 1 THEN rhs
                              ELSE IF i + 1 < j /\ j <= nodes[par].nr_of_keys + 1
                                   THEN nodes[par].children[j - 1]
                                   ELSE nodes[par].children[j]

LEMMA SplitIs ==
  ASSUME NEW nodes \in [Blocks -> Node], NEW par \in Blocks, NEW lhs \in Blocks, NEW rhs \in Blocks,
         par # lhs, par # rhs, lhs # rhs,
         NEW i \in 0..nodes[par].nr_of_keys, ~Full(nodes[par])
  PROVE  IsSplit(nodes, SplitChild(nodes, par, lhs, i, rhs), par, lhs, i, rhs)
<1> DEFINE l == nodes[lhs]
           p == nodes[par]
           upper == [NodeInit(l.leaf) EXCEPT
                  !.nr_of_keys = T - 1,
                  !.entries = [j \in Slots |-> IF j < T - 1 THEN l.entries[j + T] ELSE 0],
                  !.children = [j \in Kids |->
                                  IF j < T /\ ~l.leaf THEN l.children[j + T] ELSE 0]]
           above == [p EXCEPT !.entries = Inserted(@, i, p.nr_of_keys, l.entries[T - 1]),
                         !.children = Inserted(@, i + 1, p.nr_of_keys + 1, rhs),
                         !.nr_of_keys = @ + 1]
           lower == [l EXCEPT !.nr_of_keys = T - 1]
<1>1. l \in Node /\ p \in Node
  OBVIOUS
<1>2. /\ l.entries \in [Slots -> Hashes] /\ l.children \in [Kids -> Blocks \cup {0}]
      /\ l.nr_of_files \in Int /\ l.leaf \in BOOLEAN
      /\ p.entries \in [Slots -> Hashes] /\ p.children \in [Kids -> Blocks \cup {0}]
      /\ p.nr_of_files \in Int /\ p.leaf \in BOOLEAN
      /\ p.nr_of_keys \in 0..(2 * T - 2)
  <2>1. p.nr_of_keys \in 0..(2 * T - 1) /\ p.nr_of_keys # 2 * T - 1
    BY <1>1 DEF Node, Full
  <2>2. p.nr_of_keys \in 0..(2 * T - 2)
    BY <2>1, ConstantFacts
  <2> QED BY <1>1, <2>2 DEF Node
<1>3. lower \in Node /\ lower.nr_of_keys = T - 1 /\ lower.entries = l.entries
      /\ lower.children = l.children /\ (lower.leaf <=> l.leaf) /\ lower.nr_of_files = l.nr_of_files
  <2>1. T - 1 \in 0..(2 * T - 1)
    BY ConstantFacts
  <2> QED BY <1>1, <2>1 DEF Node
<1>4. \A j \in Slots : j < T - 1 => j + T \in Slots
  BY ConstantFacts DEF Slots
<1>5. \A j \in Kids : j < T => j + T \in Kids
  BY ConstantFacts DEF Kids
<1>6. upper \in Node
  <2>1. [j \in Slots |-> IF j < T - 1 THEN l.entries[j + T] ELSE 0] \in [Slots -> Hashes]
    BY <1>2, <1>4 DEF Hashes
  <2>2. [j \in Kids |-> IF j < T /\ ~l.leaf THEN l.children[j + T] ELSE 0] \in [Kids -> Blocks \cup {0}]
    BY <1>2, <1>5
  <2>3. T - 1 \in 0..(2 * T - 1) /\ 0 \in Int
    BY ConstantFacts
  <2> QED BY <1>2, <2>1, <2>2, <2>3 DEF Node, NodeInit
<1>7. /\ upper.nr_of_keys = T - 1 /\ (upper.leaf <=> l.leaf)
      /\ \A j \in Slots : upper.entries[j] = IF j < T - 1 THEN l.entries[j + T] ELSE 0
      /\ ~l.leaf => \A j \in 0..(T - 1) : upper.children[j] = l.children[j + T]
  <2>1. \A j \in 0..(T - 1) : j \in Kids /\ j < T
    BY ConstantFacts DEF Kids
  <2> QED BY <2>1, <1>2 DEF NodeInit
<1>8. T - 1 \in Slots /\ \A j \in Slots : i < j => j - 1 \in Slots
  BY ConstantFacts DEF Slots
<1>9. \A j \in Kids : i + 1 < j => j - 1 \in Kids
  BY ConstantFacts DEF Kids
<1>10. /\ Inserted(p.entries, i, p.nr_of_keys, l.entries[T - 1]) \in [Slots -> Hashes]
       /\ \A j \in Slots :
            Inserted(p.entries, i, p.nr_of_keys, l.entries[T - 1])[j]
              = IF j = i THEN l.entries[T - 1]
                ELSE IF i < j /\ j <= p.nr_of_keys THEN p.entries[j - 1] ELSE p.entries[j]
  BY <1>2, <1>8 DEF Inserted
<1>11. /\ Inserted(p.children, i + 1, p.nr_of_keys + 1, rhs) \in [Kids -> Blocks \cup {0}]
       /\ \A j \in Kids :
            Inserted(p.children, i + 1, p.nr_of_keys + 1, rhs)[j]
              = IF j = i + 1 THEN rhs
                ELSE IF i + 1 < j /\ j <= p.nr_of_keys + 1 THEN p.children[j - 1] ELSE p.children[j]
  BY <1>2, <1>9 DEF Inserted
<1>12. above \in Node
  <2>1. p.nr_of_keys + 1 \in 0..(2 * T - 1)
    BY <1>2, ConstantFacts
  <2> QED BY <1>1, <1>10, <1>11, <2>1 DEF Node
<1>13. /\ above.nr_of_keys = p.nr_of_keys + 1 /\ (above.leaf <=> p.leaf)
       /\ above.nr_of_files = p.nr_of_files
       /\ above.entries = Inserted(p.entries, i, p.nr_of_keys, l.entries[T - 1])
       /\ above.children = Inserted(p.children, i + 1, p.nr_of_keys + 1, rhs)
  BY <1>1 DEF Node
<1>14. PICK new : new = SplitChild(nodes, par, lhs, i, rhs)
  OBVIOUS
<1>15. new = [nodes EXCEPT ![rhs] = upper, ![par] = above, ![lhs].nr_of_keys = T - 1]
  BY <1>14 DEF SplitChild
<1>16. PICK u \in Node, a \in Node, w \in Node : u = upper /\ a = above /\ w = lower
  BY <1>3, <1>6, <1>12
<1>17. /\ new \in [Blocks -> Node] /\ new[rhs] = u /\ new[par] = a /\ new[lhs] = w
       /\ \A b \in Blocks : b # par /\ b # lhs /\ b # rhs => new[b] = nodes[b]
  <2>1. [nodes EXCEPT ![rhs] = u, ![par] = a, ![lhs].nr_of_keys = T - 1] =
        [nodes EXCEPT ![rhs] = u, ![par] = a, ![lhs] = w]
    BY <1>16
  <2>2. new = [nodes EXCEPT ![rhs] = u, ![par] = a, ![lhs] = w]
    BY <2>1, <1>15, <1>16
  <2> HIDE DEF upper, above, lower
  <2> QED BY <2>2
<1> HIDE DEF upper, above, lower
<1>18. IsSplit(nodes, new, par, lhs, i, rhs)
  BY <1>3, <1>7, <1>10, <1>11, <1>13, <1>16, <1>17 DEF IsSplit
<1> QED BY <1>14, <1>18

SortedTo(e, n) == \A a, b \in Slots : a < b /\ b < n => e[a] < e[b]

IsInserted(f, e, n, i, m) ==
  \A j \in Slots : f[j] = IF j = i THEN m ELSE IF i < j /\ j <= n THEN e[j - 1] ELSE e[j]

FitsAt(e, n, i, m) ==
  \A j \in Slots : (j < i => e[j] < m) /\ (i <= j /\ j < n => m < e[j])

(* A key put at its place among sorted keys.                               *)
LEMMA InsertedSorted ==
  ASSUME NEW e \in [Slots -> Nat], NEW f \in [Slots -> Nat], NEW n \in 0..(2 * T - 2),
         NEW i \in 0..n, NEW m \in Nat,
         SortedTo(e, n), FitsAt(e, n, i, m), IsInserted(f, e, n, i, m)
  PROVE  SortedTo(f, n + 1)
<1> USE DEF SortedTo, FitsAt, IsInserted
<1> SUFFICES ASSUME NEW a \in Slots, NEW b \in Slots, a < b, b < n + 1 PROVE f[a] < f[b]
  OBVIOUS
<1>1. \A j \in Slots : j \in Nat /\ (j > 0 => j - 1 \in Slots) /\ e[j] \in Nat
  BY ConstantFacts DEF Slots
<1>2. n \in Nat /\ i \in Nat /\ i <= n
  BY ConstantFacts
<1>3. a \in Nat /\ b \in Nat /\ b - 1 \in Slots /\ (a > 0 => a - 1 \in Slots)
  BY <1>1
<1>4. CASE b < i
  <2>1. f[a] = e[a] /\ f[b] = e[b] /\ b < n
    BY <1>2, <1>3, <1>4
  <2> QED BY <2>1
<1>5. CASE b = i
  <2>1. f[a] = e[a] /\ f[b] = m /\ a < i
    BY <1>2, <1>3, <1>5
  <2> QED BY <2>1
<1>6. CASE i < b /\ a < i
  <2>1. f[a] = e[a] /\ f[b] = e[b - 1] /\ a < b - 1 /\ b - 1 < n
    BY <1>2, <1>3, <1>6
  <2> QED BY <2>1, <1>3
<1>7. CASE i < b /\ a = i
  <2>1. f[a] = m /\ f[b] = e[b - 1] /\ i <= b - 1 /\ b - 1 < n
    BY <1>2, <1>3, <1>7
  <2> QED BY <2>1, <1>3
<1>8. CASE i < a
  <2>1. f[a] = e[a - 1] /\ f[b] = e[b - 1] /\ a - 1 < b - 1 /\ b - 1 < n /\ a - 1 \in Slots
    BY <1>2, <1>3, <1>8
  <2> QED BY <2>1, <1>3
<1> QED BY <1>2, <1>3, <1>4, <1>5, <1>6, <1>7, <1>8

LEMMA EntriesAreNats ==
  ASSUME NEW x \in Node
  PROVE  x.entries \in [Slots -> Nat]
<1>1. x.entries \in [Slots -> Hashes]
  BY DEF Node
<1> QED BY <1>1, ConstantFacts

(* One pointer leads to a node.                                            *)
LEMMA OnePointer ==
  ASSUME NEW nodes, NEW top, NEW N, NEW span, NEW level, Shape(nodes, top, N, span, level),
         NEW p \in N, NEW q \in N, ~nodes[p].leaf, ~nodes[q].leaf,
         NEW i \in 0..nodes[p].nr_of_keys, NEW j \in 0..nodes[q].nr_of_keys,
         nodes[p].children[i] = nodes[q].children[j]
  PROVE  p = q /\ i = j /\ nodes[p].children[i] # top
<1>1. /\ nodes \in [Blocks -> Node] /\ N \in SUBSET Blocks
      /\ span \in [N -> SUBSET Keys] /\ level \in [N -> Nat]
      /\ NodeSound(nodes[p], p, N, span, level) /\ NodeSound(nodes[q], q, N, span, level)
      /\ \A b \in N : level[b] <= level[top]
  BY DEF Shape
<1>2. PICK c : c = nodes[p].children[i]
  OBVIOUS
<1>3. /\ c \in N /\ level[c] = level[p] - 1 /\ level[c] = level[q] - 1
      /\ span[c] = Between(nodes[p], i, span[p]) /\ span[c] = Between(nodes[q], j, span[q])
  BY <1>1, <1>2 DEF NodeSound
<1>4. c # top
  <2>1. level[c] \in Nat /\ level[p] \in Nat /\ level[p] <= level[top]
    BY <1>1, <1>3
  <2> QED BY <2>1, <1>3
<1>5. nodes[c].nr_of_keys >= T - 1 /\ nodes[c] \in Node /\ NodeSound(nodes[c], c, N, span, level)
  BY <1>1, <1>3, <1>4 DEF Shape
<1>6. 0 \in 0..(nodes[c].nr_of_keys - 1)
  BY <1>5, NodeFacts, ConstantFacts
<1>7. PICK k : k \in span[c]
  BY <1>5, <1>6 DEF NodeSound
<1>8. k \in span[p] /\ k \in span[q]
  BY <1>3, <1>7 DEF Between
<1>9. level[p] = level[q]
  BY <1>1, <1>3
<1>10. p = q
  BY <1>8, <1>9 DEF Shape
<1>11. PICK e \in [Slots -> Nat], n \in Nat : e = nodes[p].entries /\ n = nodes[p].nr_of_keys
  <2>1. nodes[p] \in Node
    BY <1>1
  <2> QED BY <2>1, EntriesAreNats, NodeFacts
<1>12. k \in Nat
  BY <1>1, <1>8, ConstantFacts
<1>13. /\ i > 0 => e[i - 1] < k
       /\ i < n => k < e[i]
       /\ j > 0 => e[j - 1] < k
       /\ j < n => k < e[j]
  BY <1>3, <1>7, <1>10, <1>11 DEF Between
<1>14. \A a \in 0..(n - 1) : a \in Slots
  BY <1>1, <1>11, EntriesAreNumbers
<1>15. \A a, b \in 0..(n - 1) : a < b => e[a] < e[b]
  BY <1>1, <1>11, <1>14 DEF NodeSound, Sorted
<1>16. ASSUME NEW a \in 0..n, NEW b \in 0..n, a < b, k < e[a], e[b - 1] < k PROVE FALSE
  <2>1. a \in 0..(n - 1) /\ b - 1 \in 0..(n - 1) /\ (a = b - 1 \/ a < b - 1)
    BY <1>16, <1>11
  <2>2. e[a] \in Nat /\ e[b - 1] \in Nat /\ (a = b - 1 \/ e[a] < e[b - 1])
    BY <2>1, <1>14, <1>15
  <2>3. e[a] <= e[b - 1]
    BY <2>2
  <2> QED BY <2>2, <2>3, <1>12, <1>16
<1>17. i \in 0..n /\ j \in 0..n
  BY <1>10, <1>11
<1>18. i = j
  <2>1. CASE i < j
    <3>1. i < n /\ j > 0
      BY <2>1, <1>11, <1>17
    <3> QED BY <2>1, <3>1, <1>13, <1>16, <1>17
  <2>2. CASE j < i
    <3>1. j < n /\ i > 0
      BY <2>2, <1>11, <1>17
    <3> QED BY <2>2, <3>1, <1>13, <1>16, <1>17
  <2> QED BY <2>1, <2>2, <1>17
<1> QED BY <1>2, <1>4, <1>10, <1>18

\* A full child, number i of node par, is split into a block outside the tree.
SplitCase(nodes, top, N, span, level, new, par, lhs, i, rhs) ==
  /\ Shape(nodes, top, N, span, level)
  /\ par \in N /\ ~nodes[par].leaf /\ nodes[par].nr_of_keys \in 0..(2 * T - 2)
  /\ i \in 0..nodes[par].nr_of_keys
  /\ lhs = nodes[par].children[i] /\ nodes[lhs].nr_of_keys = 2 * T - 1
  /\ rhs \in Blocks /\ rhs \notin N
  /\ IsSplit(nodes, new, par, lhs, i, rhs)

\* What a split does to the keys below the nodes and to their levels.
SpanAfter(span, N, lhs, rhs, m) ==
  [b \in N \cup {rhs} |-> IF b = lhs THEN {k \in span[lhs] : k < m}
                          ELSE IF b = rhs THEN {k \in span[lhs] : m < k} ELSE span[b]]

LevelAfter(level, N, lhs, rhs) ==
  [b \in N \cup {rhs} |-> IF b = rhs THEN level[lhs] ELSE level[b]]

LEMMA SplitCaseFacts ==
  ASSUME NEW nodes, NEW top, NEW N, NEW span, NEW level, NEW new,
         NEW par, NEW lhs, NEW i, NEW rhs,
         SplitCase(nodes, top, N, span, level, new, par, lhs, i, rhs)
  PROVE  /\ nodes \in [Blocks -> Node] /\ new \in [Blocks -> Node]
         /\ N \in SUBSET Blocks /\ span \in [N -> SUBSET Keys] /\ level \in [N -> Nat]
         /\ \A b \in N : NodeSound(nodes[b], b, N, span, level)
         /\ par \in N /\ lhs \in N /\ rhs \notin N /\ rhs \in Blocks
         /\ par # lhs /\ lhs # top /\ level[lhs] = level[par] - 1
         /\ span[lhs] = Between(nodes[par], i, span[par])
         /\ nodes[lhs].entries[T - 1] \in span[lhs] /\ nodes[lhs].entries[T - 1] \in Nat
<1>1. /\ nodes \in [Blocks -> Node] /\ new \in [Blocks -> Node]
      /\ N \in SUBSET Blocks /\ span \in [N -> SUBSET Keys] /\ level \in [N -> Nat]
      /\ \A b \in N : NodeSound(nodes[b], b, N, span, level)
      /\ \A b \in N : level[b] <= level[top]
      /\ par \in N /\ rhs \notin N /\ rhs \in Blocks
  BY DEF SplitCase, Shape, IsSplit
<1>2. /\ lhs \in N /\ level[lhs] = level[par] - 1
      /\ span[lhs] = Between(nodes[par], i, span[par])
  BY <1>1 DEF SplitCase, NodeSound
<1>3. par # lhs /\ lhs # top
  <2>1. level[par] \in Nat /\ level[lhs] \in Nat /\ level[par] <= level[top]
    BY <1>1, <1>2
  <2> QED BY <2>1, <1>2
<1>4. T - 1 \in 0..(nodes[lhs].nr_of_keys - 1)
  BY ConstantFacts DEF SplitCase
<1>5. nodes[lhs].entries[T - 1] \in span[lhs]
  BY <1>1, <1>2, <1>4 DEF NodeSound
<1>6. nodes[lhs].entries[T - 1] \in Nat
  BY <1>1, <1>2, <1>5, ConstantFacts
<1> QED BY <1>1, <1>2, <1>3, <1>5, <1>6

(* The upper half of the child ...                                         *)
LEMMA UpperSound ==
  ASSUME NEW nodes, NEW top, NEW N, NEW span, NEW level, NEW new,
         NEW par, NEW lhs, NEW i, NEW rhs,
         SplitCase(nodes, top, N, span, level, new, par, lhs, i, rhs),
         NEW m, m = nodes[lhs].entries[T - 1]
  PROVE  /\ NodeSound(new[rhs], rhs, N \cup {rhs}, SpanAfter(span, N, lhs, rhs, m),
                      LevelAfter(level, N, lhs, rhs))
         /\ \A j \in Slots : j >= T - 1 => new[rhs].entries[j] = 0
<1>1. /\ nodes \in [Blocks -> Node] /\ new \in [Blocks -> Node]
      /\ N \in SUBSET Blocks /\ span \in [N -> SUBSET Keys] /\ level \in [N -> Nat]
      /\ NodeSound(nodes[lhs], lhs, N, span, level)
      /\ lhs \in N /\ rhs \notin N /\ lhs # rhs /\ m \in span[lhs] /\ m \in Nat
  BY SplitCaseFacts
<1>2. /\ new[rhs].nr_of_keys = T - 1 /\ (new[rhs].leaf <=> nodes[lhs].leaf)
      /\ \A j \in Slots :
           new[rhs].entries[j] = IF j < T - 1 THEN nodes[lhs].entries[j + T] ELSE 0
      /\ ~nodes[lhs].leaf => \A j \in 0..(T - 1) : new[rhs].children[j] = nodes[lhs].children[j + T]
      /\ nodes[lhs].nr_of_keys = 2 * T - 1
  BY DEF SplitCase, IsSplit
<1>3. PICK e \in [Slots -> Nat], f \in [Slots -> Nat] : e = nodes[lhs].entries /\ f = new[rhs].entries
  <2>1. nodes[lhs] \in Node /\ new[rhs] \in Node
    BY <1>1 DEF SplitCase
  <2> QED BY <2>1, EntriesAreNats
<1>4. PICK sp, lv : sp = SpanAfter(span, N, lhs, rhs, m) /\ lv = LevelAfter(level, N, lhs, rhs)
  OBVIOUS
<1>5. /\ sp[rhs] = {k \in span[lhs] : m < k} /\ lv[rhs] = level[lhs]
      /\ \A b \in N \ {lhs} : sp[b] = span[b] /\ lv[b] = level[b]
  BY <1>1, <1>4 DEF SpanAfter, LevelAfter
<1>6. \A j \in 0..(T - 2) : j \in Slots /\ j + T \in Slots /\ j + T \in 0..(2 * T - 2) /\ f[j] = e[j + T]
  <2>1. \A j \in 0..(T - 2) : j \in Slots /\ j + T \in Slots /\ j + T \in 0..(2 * T - 2) /\ j < T - 1
    BY ConstantFacts DEF Slots
  <2> QED BY <2>1, <1>2, <1>3
<1>7. \A a, b \in Slots : a < b => e[a] < e[b]
  <2>1. \A a \in Slots : a < 2 * T - 1
    BY ConstantFacts DEF Slots
  <2> QED BY <2>1, <1>1, <1>2, <1>3 DEF NodeSound, Sorted
<1>8. \A j \in 0..(2 * T - 2) : e[j] \in span[lhs] /\ j \in Slots
  <2>1. \A j \in 0..(2 * T - 2) : j \in Slots /\ j \in 0..((2 * T - 1) - 1)
    BY ConstantFacts DEF Slots
  <2> QED BY <2>1, <1>1, <1>2, <1>3 DEF NodeSound
<1>9. \A j \in 0..(T - 2) : m < e[j + T]
  <2>1. T - 1 \in Slots /\ \A j \in 0..(T - 2) : T - 1 < j + T
    BY ConstantFacts DEF Slots
  <2> QED BY <2>1, <1>3, <1>6, <1>7
<1>10. Sorted(new[rhs])
  <2> SUFFICES ASSUME NEW a \in Slots, NEW b \in Slots, a < b, b < T - 1 PROVE f[a] < f[b]
    BY <1>2, <1>3 DEF Sorted
  <2>1. a \in 0..(T - 2) /\ b \in 0..(T - 2) /\ a + T < b + T
    BY ConstantFacts DEF Slots
  <2> QED BY <2>1, <1>6, <1>7
<1>11. \A j \in 0..(new[rhs].nr_of_keys - 1) : new[rhs].entries[j] \in sp[rhs]
  <2>1. \A j \in 0..((T - 1) - 1) : j \in 0..(T - 2)
    BY ConstantFacts
  <2> QED BY <2>1, <1>2, <1>3, <1>5, <1>6, <1>8, <1>9
<1>12. new[rhs].leaf <=> lv[rhs] = 0
  BY <1>1, <1>2, <1>5 DEF NodeSound
<1>13. ASSUME ~nodes[lhs].leaf, NEW j \in 0..(T - 1)
       PROVE  /\ new[rhs].children[j] \in N
              /\ sp[new[rhs].children[j]] = Between(new[rhs], j, sp[rhs])
              /\ lv[new[rhs].children[j]] = lv[rhs] - 1
  <2>1. PICK c : c = new[rhs].children[j]
    OBVIOUS
  <2>2. j + T \in 0..(2 * T - 1) /\ j \in Nat
    BY ConstantFacts
  <2>3. c = nodes[lhs].children[j + T]
    BY <1>2, <1>13, <2>1
  <2>4. c \in N /\ span[c] = Between(nodes[lhs], j + T, span[lhs]) /\ level[c] = level[lhs] - 1
    BY <1>1, <1>2, <1>13, <2>2, <2>3 DEF NodeSound
  <2>5. c # lhs
    BY <1>1, <2>4
  <2>6. j > 0 => j - 1 \in 0..(T - 2) /\ (j - 1) + T = (j + T) - 1
    BY <2>2, ConstantFacts
  <2>7. j < T - 1 => j \in 0..(T - 2) /\ j + T < 2 * T - 1
    BY <2>2, ConstantFacts
  <2>8. ~ j < T - 1 => ~ j + T < 2 * T - 1
    BY <2>2, ConstantFacts
  <2>9. j + T > 0 /\ (j = 0 => (j + T) - 1 = T - 1)
    BY <2>2, ConstantFacts
  <2>10. ASSUME NEW k \in span[lhs]
         PROVE  k \in Between(nodes[lhs], j + T, span[lhs]) <=> k \in Between(new[rhs], j, sp[rhs])
    <3>1. k \in Nat
      BY <1>1, ConstantFacts
    <3>2. k \in Between(nodes[lhs], j + T, span[lhs])
            <=> e[(j + T) - 1] < k /\ (j < T - 1 => k < e[j + T])
      BY <1>2, <1>3, <2>7, <2>8, <2>9 DEF Between
    <3>3. k \in Between(new[rhs], j, sp[rhs])
            <=> m < k /\ (j > 0 => f[j - 1] < k) /\ (j < T - 1 => k < f[j])
      BY <1>2, <1>3, <1>5 DEF Between
    <3>4. j < T - 1 => f[j] = e[j + T]
      BY <1>6, <2>7
    <3>5. j = 0 => e[(j + T) - 1] = m
      BY <2>9, <1>3
    <3>6. j > 0 => f[j - 1] = e[(j + T) - 1] /\ m < e[(j + T) - 1] /\ e[(j + T) - 1] \in Nat
      BY <2>6, <1>6, <1>9, <1>3
    <3>7. e[(j + T) - 1] < k <=> m < k /\ (j > 0 => f[j - 1] < k)
      <4>1. CASE j = 0
        BY <4>1, <3>5
      <4>2. CASE j > 0
        BY <4>2, <3>1, <3>6, <1>1
      <4> QED BY <4>1, <4>2, <2>2
    <3> QED BY <3>2, <3>3, <3>4, <3>7
  <2>11. Between(nodes[lhs], j + T, span[lhs]) = Between(new[rhs], j, sp[rhs])
    <3>1. Between(nodes[lhs], j + T, span[lhs]) \subseteq span[lhs]
      BY DEF Between
    <3>2. Between(new[rhs], j, sp[rhs]) \subseteq span[lhs]
      BY <1>5 DEF Between
    <3> QED BY <3>1, <3>2, <2>10
  <2>12. sp[c] = span[c] /\ lv[c] = level[c]
    BY <1>5, <2>4, <2>5
  <2> QED BY <2>1, <2>4, <2>11, <2>12, <1>5
<1>14. NodeSound(new[rhs], rhs, N \cup {rhs}, sp, lv)
  BY <1>2, <1>10, <1>11, <1>12, <1>13 DEF NodeSound
<1>15. ASSUME NEW j \in Slots, j >= T - 1 PROVE new[rhs].entries[j] = 0
  <2>1. ~ j < T - 1
    BY <1>15, ConstantFacts DEF Slots
  <2> QED BY <2>1, <1>2
<1> QED BY <1>4, <1>14, <1>15

(* ... the lower half ...                                                  *)
LEMMA LowerSound ==
  ASSUME NEW nodes, NEW top, NEW N, NEW span, NEW level, NEW new,
         NEW par, NEW lhs, NEW i, NEW rhs,
         SplitCase(nodes, top, N, span, level, new, par, lhs, i, rhs),
         NEW m, m = nodes[lhs].entries[T - 1]
  PROVE  /\ NodeSound(new[lhs], lhs, N \cup {rhs}, SpanAfter(span, N, lhs, rhs, m),
                      LevelAfter(level, N, lhs, rhs))
         /\ \A j \in Slots : j >= T - 1 => ~ new[lhs].entries[j] < m
<1>1. /\ nodes \in [Blocks -> Node] /\ new \in [Blocks -> Node]
      /\ N \in SUBSET Blocks /\ span \in [N -> SUBSET Keys] /\ level \in [N -> Nat]
      /\ NodeSound(nodes[lhs], lhs, N, span, level)
      /\ lhs \in N /\ rhs \notin N /\ lhs # rhs /\ m \in span[lhs] /\ m \in Nat
  BY SplitCaseFacts
<1>2. /\ new[lhs].nr_of_keys = T - 1 /\ (new[lhs].leaf <=> nodes[lhs].leaf)
      /\ new[lhs].entries = nodes[lhs].entries /\ new[lhs].children = nodes[lhs].children
      /\ nodes[lhs].nr_of_keys = 2 * T - 1
  BY DEF SplitCase, IsSplit
<1>3. PICK e \in [Slots -> Nat] : e = nodes[lhs].entries
  <2>1. nodes[lhs] \in Node
    BY <1>1
  <2> QED BY <2>1, EntriesAreNats
<1>4. PICK sp, lv : sp = SpanAfter(span, N, lhs, rhs, m) /\ lv = LevelAfter(level, N, lhs, rhs)
  OBVIOUS
<1>5. /\ sp[lhs] = {k \in span[lhs] : k < m} /\ lv[lhs] = level[lhs]
      /\ \A b \in N \ {lhs} : sp[b] = span[b] /\ lv[b] = level[b]
  BY <1>1, <1>4 DEF SpanAfter, LevelAfter
<1>6. \A a, b \in Slots : a < b => e[a] < e[b]
  <2>1. \A a \in Slots : a < 2 * T - 1
    BY ConstantFacts DEF Slots
  <2> QED BY <2>1, <1>1, <1>2, <1>3 DEF NodeSound, Sorted
<1>7. Sorted(new[lhs])
  BY <1>2, <1>3, <1>6 DEF Sorted
<1>8. \A j \in 0..(T - 2) : e[j] \in span[lhs] /\ e[j] < m /\ j \in Slots
  <2>1. T - 1 \in Slots
    BY ConstantFacts DEF Slots
  <2>2. \A j \in 0..(T - 2) : j \in Slots /\ j < T - 1 /\ j \in 0..((2 * T - 1) - 1)
    BY ConstantFacts DEF Slots
  <2> QED BY <2>1, <2>2, <1>1, <1>2, <1>3, <1>6 DEF NodeSound
<1>9. \A j \in 0..(new[lhs].nr_of_keys - 1) : new[lhs].entries[j] \in sp[lhs]
  <2>1. \A j \in 0..((T - 1) - 1) : j \in 0..(T - 2)
    BY ConstantFacts
  <2> QED BY <2>1, <1>2, <1>3, <1>5, <1>8
<1>10. new[lhs].leaf <=> lv[lhs] = 0
  BY <1>1, <1>2, <1>5 DEF NodeSound
<1>11. ASSUME ~nodes[lhs].leaf, NEW j \in 0..(T - 1)
       PROVE  /\ new[lhs].children[j] \in N
              /\ sp[new[lhs].children[j]] = Between(new[lhs], j, sp[lhs])
              /\ lv[new[lhs].children[j]] = lv[lhs] - 1
  <2>1. PICK c : c = nodes[lhs].children[j] /\ c = new[lhs].children[j]
    BY <1>2
  <2>2. j \in 0..(2 * T - 1) /\ j \in Nat /\ j < 2 * T - 1
    BY ConstantFacts
  <2>3. c \in N /\ span[c] = Between(nodes[lhs], j, span[lhs]) /\ level[c] = level[lhs] - 1
    BY <1>1, <1>2, <1>11, <2>1, <2>2 DEF NodeSound
  <2>4. c # lhs
    BY <1>1, <2>3
  <2>5. j < T - 1 => e[j] < m /\ e[j] \in Nat
    <3>1. j < T - 1 => j \in 0..(T - 2)
      BY <2>2, ConstantFacts
    <3> QED BY <3>1, <1>3, <1>8
  <2>6. ~ j < T - 1 => e[j] = m
    <3>1. ~ j < T - 1 => j = T - 1
      BY <2>2, ConstantFacts
    <3> QED BY <3>1, <1>3
  <2>7. ASSUME NEW k \in span[lhs]
        PROVE  k \in Between(nodes[lhs], j, span[lhs]) <=> k \in Between(new[lhs], j, sp[lhs])
    <3>1. k \in Nat
      BY <1>1, ConstantFacts
    <3>2. k \in Between(nodes[lhs], j, span[lhs]) <=> (j > 0 => e[j - 1] < k) /\ k < e[j]
      BY <1>2, <1>3, <2>2 DEF Between
    <3>3. k \in Between(new[lhs], j, sp[lhs])
            <=> k < m /\ (j > 0 => e[j - 1] < k) /\ (j < T - 1 => k < e[j])
      BY <1>2, <1>3, <1>5 DEF Between
    <3>4. k < e[j] <=> k < m /\ (j < T - 1 => k < e[j])
      BY <3>1, <2>5, <2>6, <1>1
    <3> QED BY <3>2, <3>3, <3>4
  <2>8. Between(nodes[lhs], j, span[lhs]) = Between(new[lhs], j, sp[lhs])
    <3>1. Between(nodes[lhs], j, span[lhs]) \subseteq span[lhs]
      BY DEF Between
    <3>2. Between(new[lhs], j, sp[lhs]) \subseteq span[lhs]
      BY <1>5 DEF Between
    <3> QED BY <3>1, <3>2, <2>7
  <2>9. sp[c] = span[c] /\ lv[c] = level[c]
    BY <1>5, <2>3, <2>4
  <2> QED BY <2>1, <2>3, <2>8, <2>9, <1>5
<1>12. NodeSound(new[lhs], lhs, N \cup {rhs}, sp, lv)
  BY <1>2, <1>7, <1>9, <1>10, <1>11 DEF NodeSound
<1>13. ASSUME NEW j \in Slots, j >= T - 1 PROVE ~ new[lhs].entries[j] < m
  <2>1. T - 1 \in Slots /\ (j = T - 1 \/ T - 1 < j)
    BY <1>13, ConstantFacts DEF Slots
  <2>2. e[j] \in Nat /\ (e[j] = m \/ m < e[j])
    BY <2>1, <1>3, <1>6
  <2> QED BY <2>2, <1>1, <1>2, <1>3
<1> QED BY <1>4, <1>12, <1>13

(* ... their parent ...                                                    *)
LEMMA ParentSound ==
  ASSUME NEW nodes, NEW top, NEW N, NEW span, NEW level, NEW new,
         NEW par, NEW lhs, NEW i, NEW rhs,
         SplitCase(nodes, top, N, span, level, new, par, lhs, i, rhs),
         NEW m, m = nodes[lhs].entries[T - 1]
  PROVE  NodeSound(new[par], par, N \cup {rhs}, SpanAfter(span, N, lhs, rhs, m),
                   LevelAfter(level, N, lhs, rhs))
<1>1. /\ nodes \in [Blocks -> Node] /\ new \in [Blocks -> Node]
      /\ N \in SUBSET Blocks /\ span \in [N -> SUBSET Keys] /\ level \in [N -> Nat]
      /\ NodeSound(nodes[par], par, N, span, level)
      /\ par \in N /\ lhs \in N /\ rhs \notin N /\ lhs # rhs /\ par # lhs /\ m \in span[lhs] /\ m \in Nat
      /\ level[lhs] = level[par] - 1
      /\ span[lhs] = Between(nodes[par], i, span[par])
  BY SplitCaseFacts
<1>2. PICK n \in 0..(2 * T - 2), e \in [Slots -> Nat], f \in [Slots -> Nat] :
         n = nodes[par].nr_of_keys /\ e = nodes[par].entries /\ f = new[par].entries
  <2>1. nodes[par] \in Node /\ new[par] \in Node
    BY <1>1
  <2>2. nodes[par].nr_of_keys \in 0..(2 * T - 2)
    BY DEF SplitCase
  <2> QED BY <2>1, <2>2, EntriesAreNats
<1>3. PICK ch, ch2 : ch = nodes[par].children /\ ch2 = new[par].children
  OBVIOUS
<1>4. /\ i \in 0..n /\ ~nodes[par].leaf /\ ~new[par].leaf /\ new[par].nr_of_keys = n + 1
      /\ lhs = ch[i]
      /\ \A j \in Slots : f[j] = IF j = i THEN m
                                 ELSE IF i < j /\ j <= n THEN e[j - 1] ELSE e[j]
      /\ \A j \in Kids : ch2[j] = IF j = i + 1 THEN rhs
                                  ELSE IF i + 1 < j /\ j <= n + 1 THEN ch[j - 1] ELSE ch[j]
  BY <1>2, <1>3 DEF SplitCase, IsSplit
<1>5. PICK sp, lv : sp = SpanAfter(span, N, lhs, rhs, m) /\ lv = LevelAfter(level, N, lhs, rhs)
  OBVIOUS
<1>6. /\ sp[lhs] = {k \in span[lhs] : k < m} /\ lv[lhs] = level[lhs]
      /\ sp[rhs] = {k \in span[lhs] : m < k} /\ lv[rhs] = level[lhs]
      /\ sp[par] = span[par] /\ lv[par] = level[par]
      /\ \A b \in N \ {lhs} : sp[b] = span[b] /\ lv[b] = level[b]
  BY <1>1, <1>5 DEF SpanAfter, LevelAfter
<1>7. n \in Nat /\ i \in Nat /\ i <= n
  BY <1>4, ConstantFacts
<1>8. \A j \in 0..(n - 1) : j \in Slots /\ e[j] \in span[par]
  <2>1. \A j \in 0..(n - 1) : j \in Slots
    BY ConstantFacts DEF Slots
  <2> QED BY <2>1, <1>1, <1>2 DEF NodeSound
<1>9. \A a, b \in Slots : a < b /\ b < n => e[a] < e[b]
  BY <1>1, <1>2 DEF NodeSound, Sorted
<1>10. (i > 0 => e[i - 1] < m) /\ (i < n => m < e[i]) /\ m \in span[par]
  BY <1>1, <1>2 DEF Between
<1>11. \A j \in Slots : j < i => e[j] < m
  <2> SUFFICES ASSUME NEW j \in Slots, j < i PROVE e[j] < m
    OBVIOUS
  <2>0. j \in Nat
    BY ConstantFacts DEF Slots
  <2>1. j \in Nat /\ i > 0 /\ i - 1 \in 0..(n - 1) /\ (j = i - 1 \/ j < i - 1) /\ i - 1 < n
    BY <2>0, <1>7
  <2>2. e[j] = e[i - 1] \/ e[j] < e[i - 1]
    BY <2>1, <1>8, <1>9
  <2>3. e[j] \in Nat /\ e[i - 1] \in Nat
    BY <2>1, <1>8
  <2> QED BY <2>1, <2>2, <2>3, <1>1, <1>10
<1>12. \A j \in Slots : i <= j /\ j < n => m < e[j]
  <2> SUFFICES ASSUME NEW j \in Slots, i <= j, j < n PROVE m < e[j]
    OBVIOUS
  <2>0. j \in Nat
    BY ConstantFacts DEF Slots
  <2>1. j \in Nat /\ i < n /\ i \in 0..(n - 1) /\ (j = i \/ i < j)
    BY <2>0, <1>7
  <2>2. e[j] = e[i] \/ e[i] < e[j]
    BY <2>1, <1>8, <1>9
  <2>3. e[j] \in Nat /\ e[i] \in Nat
    BY <2>1, <1>8
  <2> QED BY <2>1, <2>2, <2>3, <1>1, <1>10
<1>13. Sorted(new[par])
  <2>1. SortedTo(e, n) /\ FitsAt(e, n, i, m) /\ IsInserted(f, e, n, i, m)
    BY <1>4, <1>9, <1>11, <1>12 DEF SortedTo, FitsAt, IsInserted
  <2>2. SortedTo(f, n + 1)
    BY <2>1, <1>1, <1>4, InsertedSorted, Zenon
  <2> QED BY <2>2, <1>2, <1>4 DEF Sorted, SortedTo
<1>14. \A j \in 0..((n + 1) - 1) : f[j] \in span[par]
  <2> SUFFICES ASSUME NEW j \in 0..n PROVE f[j] \in span[par]
    BY <1>7
  <2>1. j \in Slots /\ j \in Nat
    BY <1>7, ConstantFacts DEF Slots
  <2>2. CASE j < i
    <3>1. f[j] = e[j] /\ j \in 0..(n - 1)
      BY <2>1, <2>2, <1>4, <1>7
    <3> QED BY <3>1, <1>8
  <2>3. CASE j = i
    BY <2>1, <2>3, <1>4, <1>10
  <2>4. CASE i < j
    <3>1. f[j] = e[j - 1] /\ j - 1 \in 0..(n - 1)
      BY <2>1, <2>4, <1>4, <1>7
    <3> QED BY <3>1, <1>8
  <2> QED BY <2>1, <2>2, <2>3, <2>4, <1>7
<1>15. \A j \in 0..n : /\ ch[j] \in N /\ span[ch[j]] = Between(nodes[par], j, span[par])
                       /\ level[ch[j]] = level[par] - 1
                       /\ (j # i => ch[j] # lhs)
  <2>1. \A j \in 0..n : /\ ch[j] \in N /\ span[ch[j]] = Between(nodes[par], j, span[par])
                        /\ level[ch[j]] = level[par] - 1
    BY <1>1, <1>2, <1>3, <1>4 DEF NodeSound
  <2>2. ASSUME NEW j \in 0..n, ch[j] = lhs PROVE j = i
    <3>1. Shape(nodes, top, N, span, level)
      BY DEF SplitCase
    <3>2. nodes[par].children[j] = nodes[par].children[i]
      BY <2>2, <1>3, <1>4
    <3> QED BY <3>1, <3>2, <1>1, <1>2, <1>4, OnePointer
  <2> QED BY <2>1, <2>2
<1>16. \A k \in span[par] : k \in Nat
  BY <1>1, ConstantFacts
<1>17. ASSUME NEW j \in 0..(n + 1)
       PROVE  /\ ch2[j] \in N \cup {rhs}
              /\ sp[ch2[j]] = Between(new[par], j, span[par])
              /\ lv[ch2[j]] = level[par] - 1
  <2>1. j \in Kids /\ j \in Nat
    BY <1>7, ConstantFacts DEF Kids
  <2>2. \A k \in span[par], l \in 0..n :
          k \in Between(nodes[par], l, span[par])
            <=> (l > 0 => e[l - 1] < k) /\ (l < n => k < e[l])
    BY <1>2 DEF Between
  <2>3. \A k \in span[par] :
          k \in Between(new[par], j, span[par])
            <=> (j > 0 => f[j - 1] < k) /\ (j < n + 1 => k < f[j])
    BY <1>2, <1>4 DEF Between
  <2>4. /\ \A l \in 0..n : Between(nodes[par], l, span[par]) \subseteq span[par]
        /\ Between(new[par], j, span[par]) \subseteq span[par]
    BY DEF Between
  <2>5. /\ j > 0 => j - 1 \in Slots
        /\ j < n + 1 => j \in Slots
    <3>1. PICK t \in Nat : t = T
      BY ConstantFacts
    <3>2. n \in 0..(2 * t - 2) /\ Slots = 0..(2 * t - 2)
      BY <3>1 DEF Slots
    <3>3. /\ j > 0 => j - 1 \in 0..(2 * t - 2)
          /\ j < n + 1 => j \in 0..(2 * t - 2)
      BY <2>1, <3>1, <3>2
    <3> QED BY <3>2, <3>3
  <2>6. CASE j < i
    <3>1. ch2[j] = ch[j] /\ j \in 0..n /\ j # i /\ j < n /\ j < n + 1
      BY <2>1, <2>6, <1>4, <1>7
    <3>2. ch[j] \in N \ {lhs}
      BY <3>1, <1>15
    <3>3. sp[ch[j]] = Between(nodes[par], j, span[par]) /\ lv[ch[j]] = level[par] - 1
      BY <3>1, <3>2, <1>6, <1>15
    <3>4. (j > 0 => f[j - 1] = e[j - 1]) /\ f[j] = e[j]
      BY <2>1, <2>5, <2>6, <3>1, <1>4, <1>7
    <3>5. Between(nodes[par], j, span[par]) = Between(new[par], j, span[par])
      BY <2>2, <2>3, <2>4, <3>1, <3>4
    <3> QED BY <3>1, <3>2, <3>3, <3>5
  <2>7. CASE j = i
    <3>1. ch2[j] = lhs
      BY <2>1, <2>7, <1>4, <1>7
    <3>2. (j > 0 => f[j - 1] = e[j - 1]) /\ f[j] = m /\ j < n + 1
      BY <2>1, <2>5, <2>7, <1>4, <1>7
    <3>3. \A k \in span[par] :
            k \in Between(nodes[par], i, span[par]) /\ k < m
              <=> k \in Between(new[par], j, span[par])
      <4> SUFFICES ASSUME NEW k \in span[par]
                   PROVE  k \in Between(nodes[par], i, span[par]) /\ k < m
                            <=> k \in Between(new[par], j, span[par])
        OBVIOUS
      <4>1. k < m => (i < n => k < e[i])
        <5>1. i < n => e[i] \in Nat
          BY <1>7, <1>8
        <5> QED BY <5>1, <1>1, <1>10, <1>16
      <4> QED BY <4>1, <2>2, <2>3, <2>7, <3>2, <1>4
    <3>4. sp[lhs] = Between(new[par], j, span[par])
      <4>1. PICK A, B : A = Between(nodes[par], i, span[par]) /\ B = Between(new[par], j, span[par])
        OBVIOUS
      <4>2. A \subseteq span[par] /\ B \subseteq span[par]
        BY <4>1, <2>4, <1>2, <1>4
      <4>3. sp[lhs] = {k \in A : k < m}
        BY <4>1, <1>1, <1>6
      <4>4. \A k \in span[par] : k \in A /\ k < m <=> k \in B
        BY <4>1, <3>3
      <4> QED BY <4>1, <4>2, <4>3, <4>4
    <3> QED BY <3>1, <3>4, <1>1, <1>6
  <2>8. CASE j = i + 1
    <3>1. ch2[j] = rhs
      BY <2>1, <2>8, <1>4, <1>7
    <3>2. f[j - 1] = m /\ (j < n + 1 => f[j] = e[i] /\ i < n) /\ j > 0 /\ (i < n => j < n + 1)
      BY <2>1, <2>5, <2>8, <1>4, <1>7
    <3>3. \A k \in span[par] :
            k \in Between(nodes[par], i, span[par]) /\ m < k
              <=> k \in Between(new[par], j, span[par])
      <4> SUFFICES ASSUME NEW k \in span[par]
                   PROVE  k \in Between(nodes[par], i, span[par]) /\ m < k
                            <=> k \in Between(new[par], j, span[par])
        OBVIOUS
      <4>1. m < k => (i > 0 => e[i - 1] < k)
        <5>1. i > 0 => i - 1 \in 0..(n - 1)
          BY <1>7
        <5>2. i > 0 => e[i - 1] \in Nat
          BY <5>1, <1>8
        <5> QED BY <5>2, <1>1, <1>10, <1>16
      <4> QED BY <4>1, <2>2, <2>3, <3>2, <1>4
    <3>4. sp[rhs] = Between(new[par], j, span[par])
      <4>1. PICK A, B : A = Between(nodes[par], i, span[par]) /\ B = Between(new[par], j, span[par])
        OBVIOUS
      <4>2. A \subseteq span[par] /\ B \subseteq span[par]
        BY <4>1, <2>4, <1>2, <1>4
      <4>3. sp[rhs] = {k \in A : m < k}
        BY <4>1, <1>1, <1>6
      <4>4. \A k \in span[par] : k \in A /\ m < k <=> k \in B
        BY <4>1, <3>3
      <4> QED BY <4>1, <4>2, <4>3, <4>4
    <3> QED BY <3>1, <3>4, <1>1, <1>6
  <2>9. CASE i + 1 < j
    <3>1. /\ ch2[j] = ch[j - 1] /\ j - 1 \in 0..n /\ j - 1 # i /\ j > 0 /\ j - 1 > 0
          /\ (j < n + 1 <=> j - 1 < n)
      BY <2>1, <2>9, <1>4, <1>7
    <3>2. ch[j - 1] \in N \ {lhs}
      BY <3>1, <1>15
    <3>3. sp[ch[j - 1]] = Between(nodes[par], j - 1, span[par]) /\ lv[ch[j - 1]] = level[par] - 1
      BY <3>1, <3>2, <1>6, <1>15
    <3>4. f[j - 1] = e[(j - 1) - 1] /\ (j < n + 1 => f[j] = e[j - 1])
      BY <2>1, <2>5, <2>9, <1>4, <1>7
    <3>5. Between(nodes[par], j - 1, span[par]) = Between(new[par], j, span[par])
      BY <2>2, <2>3, <2>4, <3>1, <3>4
    <3> QED BY <3>1, <3>2, <3>3, <3>5
  <2> QED BY <2>1, <2>6, <2>7, <2>8, <2>9, <1>7
<1>18. new[par].leaf <=> lv[par] = 0
  BY <1>1, <1>4, <1>6 DEF NodeSound
<1>19. NodeSound(new[par], par, N \cup {rhs}, sp, lv)
  BY <1>2, <1>3, <1>4, <1>6, <1>13, <1>14, <1>17, <1>18 DEF NodeSound
<1> QED BY <1>5, <1>19

(* ... and the other nodes.                                                *)
LEMMA OthersSound ==
  ASSUME NEW nodes, NEW top, NEW N, NEW span, NEW level, NEW new,
         NEW par, NEW lhs, NEW i, NEW rhs,
         SplitCase(nodes, top, N, span, level, new, par, lhs, i, rhs),
         NEW m, NEW b \in N, b # par, b # lhs
  PROVE  NodeSound(new[b], b, N \cup {rhs}, SpanAfter(span, N, lhs, rhs, m),
                   LevelAfter(level, N, lhs, rhs))
<1>0. /\ Shape(nodes, top, N, span, level)
      /\ ~nodes[par].leaf /\ i \in 0..nodes[par].nr_of_keys /\ lhs = nodes[par].children[i]
  BY DEF SplitCase
<1>1. /\ N \in SUBSET Blocks /\ NodeSound(nodes[b], b, N, span, level)
      /\ par \in N /\ lhs \in N /\ rhs \notin N
  BY SplitCaseFacts
<1>2. new[b] = nodes[b]
  BY <1>1 DEF SplitCase, IsSplit
<1>3. PICK sp, lv : sp = SpanAfter(span, N, lhs, rhs, m) /\ lv = LevelAfter(level, N, lhs, rhs)
  OBVIOUS
<1>4. \A c \in N \ {lhs} : sp[c] = span[c] /\ lv[c] = level[c]
  BY <1>1, <1>3 DEF SpanAfter, LevelAfter
<1>5. ASSUME ~nodes[b].leaf, NEW j \in 0..nodes[b].nr_of_keys
      PROVE  nodes[b].children[j] # lhs
  BY <1>0, <1>1, <1>5, OnePointer
<1> QED BY <1>1, <1>2, <1>3, <1>4, <1>5 DEF NodeSound

(* A split leaves every node with a pointer to it.                         *)
LEMMA SplitPointers ==
  ASSUME NEW nodes, NEW top, NEW N, NEW span, NEW level, NEW new,
         NEW par, NEW lhs, NEW i, NEW rhs,
         SplitCase(nodes, top, N, span, level, new, par, lhs, i, rhs),
         NEW b \in N \cup {rhs}, b # top
  PROVE  new[b].nr_of_keys >= T - 1 /\ \E p \in N \cup {rhs} : PointsTo(new[p], b)
<1>1. /\ nodes \in [Blocks -> Node] /\ N \in SUBSET Blocks
      /\ par \in N /\ lhs \in N /\ rhs \notin N /\ par # lhs
      /\ Shape(nodes, top, N, span, level)
      /\ ~nodes[par].leaf /\ i \in 0..nodes[par].nr_of_keys /\ lhs = nodes[par].children[i]
      /\ nodes[lhs].nr_of_keys = 2 * T - 1
      /\ IsSplit(nodes, new, par, lhs, i, rhs)
  <2>1. /\ nodes \in [Blocks -> Node] /\ N \in SUBSET Blocks
        /\ par \in N /\ lhs \in N /\ rhs \notin N /\ par # lhs
    BY SplitCaseFacts
  <2> QED BY <2>1 DEF SplitCase
<1>2. PICK n \in 0..(2 * T - 2) : n = nodes[par].nr_of_keys
  BY DEF SplitCase
<1>3. PICK ch, ch2 : ch = nodes[par].children /\ ch2 = new[par].children
  OBVIOUS
<1>4. /\ new[par].nr_of_keys = n + 1 /\ ~new[par].leaf
      /\ \A j \in Kids : ch2[j] = IF j = i + 1 THEN rhs
                                  ELSE IF i + 1 < j /\ j <= n + 1 THEN ch[j - 1] ELSE ch[j]
  BY <1>1, <1>2, <1>3 DEF IsSplit
<1>5. \A j \in 0..(n + 1) : j \in Kids /\ j \in Nat
  BY ConstantFacts DEF Kids
<1>6. n \in Nat /\ i \in 0..n
  BY <1>1, <1>2, ConstantFacts
<1>7. CASE b = rhs
  <2>1. new[b].nr_of_keys = T - 1
    BY <1>1, <1>7 DEF IsSplit
  <2>2. i + 1 \in 0..(n + 1) /\ ch2[i + 1] = rhs
    BY <1>4, <1>5, <1>6
  <2>3. PointsTo(new[par], b)
    BY <1>3, <1>4, <1>7, <2>2 DEF PointsTo
  <2> QED BY <2>1, <2>3, <1>1, ConstantFacts
<1>8. CASE b # rhs
  <2>1. b \in N /\ nodes[b].nr_of_keys >= T - 1
    BY <1>1, <1>8 DEF Shape
  <2>2. PICK p \in N : PointsTo(nodes[p], b)
    BY <1>1, <1>8 DEF Shape
  <2>3. PICK j \in 0..nodes[p].nr_of_keys : ~nodes[p].leaf /\ nodes[p].children[j] = b
    BY <2>2 DEF PointsTo
  <2>4. new[b].nr_of_keys >= T - 1
    <3>1. CASE b = par
      BY <3>1, <2>1, <1>2, <1>4, <1>6, ConstantFacts
    <3>2. CASE b = lhs
      <4>1. new[b].nr_of_keys = T - 1
        BY <3>2, <1>1 DEF IsSplit
      <4> QED BY <4>1, ConstantFacts
    <3>3. CASE b # par /\ b # lhs
      <4>1. new[b] = nodes[b]
        BY <3>3, <1>1, <1>8, <2>1 DEF IsSplit
      <4> QED BY <4>1, <2>1
    <3> QED BY <3>1, <3>2, <3>3
  <2>5. CASE p = par
    <3>1. j \in 0..n /\ ch[j] = b
      BY <2>3, <2>5, <1>2, <1>3
    <3>2. CASE j <= i
      <4>1. j \in 0..(n + 1) /\ ch2[j] = b
        BY <3>1, <3>2, <1>4, <1>5, <1>6
      <4>2. PointsTo(new[par], b)
        BY <4>1, <1>3, <1>4 DEF PointsTo
      <4> QED BY <4>2, <2>4, <1>1
    <3>3. CASE i < j
      <4>1. j + 1 \in 0..(n + 1) /\ i + 1 < j + 1 /\ j + 1 # i + 1 /\ j + 1 <= n + 1 /\ (j + 1) - 1 = j
        BY <3>1, <3>3, <1>6
      <4>2. ch2[j + 1] = b
        BY <4>1, <3>1, <1>4, <1>5
      <4>3. PointsTo(new[par], b)
        BY <4>1, <4>2, <1>3, <1>4 DEF PointsTo
      <4> QED BY <4>3, <2>4, <1>1
    <3> QED BY <3>1, <3>2, <3>3, <1>6
  <2>6. CASE p = lhs
    <3>1. ~nodes[lhs].leaf /\ j \in 0..(2 * T - 1) /\ nodes[lhs].children[j] = b
      BY <2>3, <2>6, <1>1
    <3>2. CASE j <= T - 1
      <4>1. j \in 0..(T - 1)
        BY <3>1, <3>2, ConstantFacts
      <4>2. PointsTo(new[lhs], b)
        BY <4>1, <3>1, <1>1 DEF PointsTo, IsSplit
      <4> QED BY <4>2, <2>4, <1>1
    <3>3. CASE ~ j <= T - 1
      <4>1. j - T \in 0..(T - 1) /\ (j - T) + T = j
        BY <3>1, <3>3, ConstantFacts
      <4>2. new[rhs].children[j - T] = b
        BY <4>1, <3>1, <1>1 DEF IsSplit
      <4>3. PointsTo(new[rhs], b)
        BY <4>1, <4>2, <3>1, <1>1 DEF PointsTo, IsSplit
      <4> QED BY <4>3, <2>4
    <3> QED BY <3>2, <3>3
  <2>7. CASE p # par /\ p # lhs
    <3>1. new[p] = nodes[p]
      BY <2>7, <1>1 DEF IsSplit
    <3> QED BY <3>1, <2>2, <2>4
  <2> QED BY <2>5, <2>6, <2>7
<1> QED BY <1>7, <1>8

(* btree_split_child leaves a tree, with one node more.                    *)
LEMMA SplitShape ==
  ASSUME NEW nodes, NEW top, NEW N, NEW span, NEW level, NEW new,
         NEW par, NEW lhs, NEW i, NEW rhs,
         SplitCase(nodes, top, N, span, level, new, par, lhs, i, rhs),
         NEW m, m = nodes[lhs].entries[T - 1]
  PROVE  Shape(new, top, N \cup {rhs}, SpanAfter(span, N, lhs, rhs, m), LevelAfter(level, N, lhs, rhs))
<1>1. /\ new \in [Blocks -> Node]
      /\ N \in SUBSET Blocks /\ span \in [N -> SUBSET Keys] /\ level \in [N -> Nat]
      /\ par \in N /\ lhs \in N /\ rhs \notin N /\ rhs \in Blocks /\ lhs # top
  BY SplitCaseFacts
<1>2. /\ top \in N /\ span[top] = Keys
      /\ \A b \in N : level[b] <= level[top]
      /\ \A b, c \in N : level[b] = level[c] /\ b # c => span[b] \cap span[c] = {}
  BY DEF SplitCase, Shape
<1>3. PICK M, sp, lv : M = N \cup {rhs} /\ sp = SpanAfter(span, N, lhs, rhs, m)
                       /\ lv = LevelAfter(level, N, lhs, rhs)
  OBVIOUS
<1>4. /\ sp = [b \in M |-> IF b = lhs THEN {k \in span[lhs] : k < m}
                           ELSE IF b = rhs THEN {k \in span[lhs] : m < k} ELSE span[b]]
      /\ lv = [b \in M |-> IF b = rhs THEN level[lhs] ELSE level[b]]
  BY <1>3 DEF SpanAfter, LevelAfter
<1>5. \A b \in M : b \in N \/ b = rhs
  BY <1>3
<1>6. sp \in [M -> SUBSET Keys]
  BY <1>1, <1>4, <1>5
<1>7. lv \in [M -> Nat]
  BY <1>1, <1>4, <1>5
<1>8. M \in SUBSET Blocks /\ top \in M /\ sp[top] = Keys /\ lv[top] = level[top]
  BY <1>1, <1>2, <1>3, <1>4
<1>9. \A b \in M : lv[b] <= lv[top]
  BY <1>1, <1>2, <1>4, <1>5, <1>8
<1>11. \A b \in M : NodeSound(new[b], b, M, sp, lv)
  <2> SUFFICES ASSUME NEW b \in M PROVE NodeSound(new[b], b, M, sp, lv)
    OBVIOUS
  <2>1. CASE b = rhs
    BY <2>1, <1>3, UpperSound
  <2>2. CASE b = lhs
    BY <2>2, <1>3, LowerSound
  <2>3. CASE b = par
    BY <2>3, <1>3, ParentSound
  <2>4. CASE b \in N /\ b # lhs /\ b # par
    BY <2>4, <1>3, OthersSound, ZenonT(60)
  <2> QED BY <2>1, <2>2, <2>3, <2>4, <1>5
<1>12. \A b \in M \ {top} : new[b].nr_of_keys >= T - 1 /\ \E p \in M : PointsTo(new[p], b)
  BY <1>3, SplitPointers
<1>13. \A b \in M : \A k \in sp[b] : k \in Nat
  BY <1>6, ConstantFacts
<1>14. ASSUME NEW b \in M, NEW c \in M, lv[b] = lv[c], b # c, NEW k \in sp[b] \cap sp[c]
       PROVE  FALSE
  <2>1. k \in Nat
    BY <1>13, <1>14
  <2>2. CASE b = rhs /\ c = lhs
    BY <2>2, <1>1, <1>4, <1>14, SplitCaseFacts, <2>1
  <2>3. CASE b = lhs /\ c = rhs
    BY <2>3, <1>1, <1>4, <1>14, SplitCaseFacts, <2>1
  <2>4. CASE b = rhs /\ c # lhs
    BY <2>4, <1>1, <1>2, <1>4, <1>5, <1>14
  <2>5. CASE c = rhs /\ b # lhs
    BY <2>5, <1>1, <1>2, <1>4, <1>5, <1>14
  <2>6. CASE b # rhs /\ c # rhs
    BY <2>6, <1>1, <1>2, <1>4, <1>5, <1>14
  <2> QED BY <2>2, <2>3, <2>4, <2>5, <2>6
<1>15. Shape(new, top, M, sp, lv)
  BY <1>1, <1>6, <1>7, <1>8, <1>9, <1>11, <1>12, <1>14 DEF Shape
<1> QED BY <1>3, <1>15

(* What a split leaves behind in the slots is not below the node any more.  *)
LEMMA SplitStale ==
  ASSUME NEW nodes, NEW top, NEW N, NEW span, NEW level, NEW new,
         NEW par, NEW lhs, NEW i, NEW rhs,
         SplitCase(nodes, top, N, span, level, new, par, lhs, i, rhs),
         NEW m, m = nodes[lhs].entries[T - 1],
         Stale(nodes, N, span)
  PROVE  Stale(new, N \cup {rhs}, SpanAfter(span, N, lhs, rhs, m))
<1>1. /\ nodes \in [Blocks -> Node] /\ N \in SUBSET Blocks /\ span \in [N -> SUBSET Keys]
      /\ par \in N /\ lhs \in N /\ rhs \notin N /\ par # lhs /\ m \in Nat
  BY SplitCaseFacts
<1>2. IsSplit(nodes, new, par, lhs, i, rhs) /\ nodes[par].nr_of_keys \in 0..(2 * T - 2)
      /\ i \in 0..nodes[par].nr_of_keys
  BY DEF SplitCase
<1>3. PICK sp : sp = SpanAfter(span, N, lhs, rhs, m)
  OBVIOUS
<1>4. /\ sp[lhs] = {k \in span[lhs] : k < m} /\ sp[rhs] = {k \in span[lhs] : m < k}
      /\ \A b \in N : b # lhs => sp[b] = span[b]
  BY <1>1, <1>3 DEF SpanAfter
<1>5. ASSUME NEW b \in N \cup {rhs}, NEW j \in Slots, j >= new[b].nr_of_keys
      PROVE  new[b].entries[j] \notin sp[b]
  <2>1. CASE b = rhs
    <3>1. j >= T - 1
      BY <2>1, <1>2, <1>5 DEF IsSplit
    <3>2. ~ j < T - 1
      BY <3>1, ConstantFacts DEF Slots
    <3>3. new[b].entries[j] = 0
      BY <2>1, <3>2, <1>2 DEF IsSplit
    <3> QED BY <3>3, <2>1, <3>2, <1>1, <1>4, ConstantFacts
  <2>2. CASE b = lhs
    <3>1. j >= T - 1
      BY <2>2, <1>1, <1>2, <1>5 DEF IsSplit
    <3>2. ~ new[b].entries[j] < m
      BY <2>2, <3>1, LowerSound
    <3> QED BY <2>2, <3>2, <1>4
  <2>3. CASE b = par
    <3>1. PICK n \in 0..(2 * T - 2) : n = nodes[par].nr_of_keys /\ new[par].nr_of_keys = n + 1
      BY <1>2 DEF IsSplit
    <3>2. j >= n /\ j # i /\ ~ j <= n
      BY <3>1, <2>3, <1>2, <1>5, ConstantFacts DEF Slots
    <3>3. new[par].entries[j] = nodes[par].entries[j]
      BY <3>1, <3>2, <1>2 DEF IsSplit
    <3> QED BY <3>1, <3>2, <3>3, <2>3, <1>1, <1>4 DEF Stale
  <2>4. CASE b \in N /\ b # lhs /\ b # par
    <3>1. new[b] = nodes[b]
      BY <2>4, <1>1, <1>2 DEF IsSplit
    <3> QED BY <3>1, <2>4, <1>4, <1>5 DEF Stale
  <2> QED BY <2>1, <2>2, <2>3, <2>4
<1> QED BY <1>3, <1>5 DEF Stale

(* A split loses no key and makes none.                                    *)
LEMMA SplitContent ==
  ASSUME NEW nodes, NEW top, NEW N, NEW span, NEW level, NEW new,
         NEW par, NEW lhs, NEW i, NEW rhs,
         SplitCase(nodes, top, N, span, level, new, par, lhs, i, rhs)
  PROVE  Content(new, N \cup {rhs}) = Content(nodes, N)
<1>1. /\ nodes \in [Blocks -> Node] /\ new \in [Blocks -> Node] /\ N \in SUBSET Blocks
      /\ par \in N /\ lhs \in N /\ rhs \notin N /\ par # lhs
  BY SplitCaseFacts
<1>2. PICK n \in 0..(2 * T - 2) : n = nodes[par].nr_of_keys
  BY DEF SplitCase
<1>3. PICK e, f, l, r : /\ e = nodes[par].entries /\ f = new[par].entries
                        /\ l = nodes[lhs].entries /\ r = new[rhs].entries
  OBVIOUS
<1>4. /\ i \in 0..n /\ new[par].nr_of_keys = n + 1
      /\ nodes[lhs].nr_of_keys = 2 * T - 1 /\ new[lhs].nr_of_keys = T - 1 /\ new[rhs].nr_of_keys = T - 1
      /\ new[lhs].entries = l
      /\ \A j \in Slots : f[j] = IF j = i THEN l[T - 1]
                                 ELSE IF i < j /\ j <= n THEN e[j - 1] ELSE e[j]
      /\ \A j \in Slots : r[j] = IF j < T - 1 THEN l[j + T] ELSE 0
      /\ \A b \in Blocks : b # par /\ b # lhs /\ b # rhs => new[b] = nodes[b]
  BY <1>2, <1>3 DEF SplitCase, IsSplit
<1>5. n \in Nat /\ i \in Nat /\ i <= n /\ T - 1 \in Slots /\ T - 1 < 2 * T - 1
      /\ \A j \in Slots : j \in Nat /\ j < 2 * T - 1
  BY <1>4, ConstantFacts DEF Slots
<1>6. ASSUME NEW k \in Content(new, N \cup {rhs}) PROVE k \in Content(nodes, N)
  <2>1. PICK b \in N \cup {rhs}, j \in Slots : k \in Keys /\ j < new[b].nr_of_keys /\ new[b].entries[j] = k
    BY <1>6 DEF Content, Holds
  <2>2. \E c \in N, a \in Slots : a < nodes[c].nr_of_keys /\ nodes[c].entries[a] = k
    <3>1. CASE b = rhs
      <4>1. j < T - 1 /\ j + T \in Slots /\ l[j + T] = k
        <5>1. j < T - 1
          BY <3>1, <2>1, <1>4
        <5>2. j + T \in Slots
          BY <5>1, ConstantFacts DEF Slots
        <5> QED BY <5>1, <5>2, <3>1, <2>1, <1>3, <1>4
      <4> QED BY <4>1, <1>1, <1>3, <1>4, <1>5
    <3>2. CASE b = lhs
      BY <3>2, <2>1, <1>1, <1>3, <1>4, <1>5
    <3>3. CASE b = par
      <4>1. j < n + 1 /\ f[j] = k /\ j \in Nat
        BY <3>3, <2>1, <1>3, <1>4, <1>5
      <4>2. CASE j = i
        BY <4>1, <4>2, <1>1, <1>3, <1>4, <1>5, ZenonT(60)
      <4>3. CASE j < i
        BY <4>1, <4>3, <1>1, <1>2, <1>3, <1>4, <1>5
      <4>4. CASE i < j
        <5>1. j <= n /\ j - 1 < n /\ j - 1 \in Slots /\ e[j - 1] = k
          <6>1. j <= n /\ j - 1 < n
            BY <4>1, <4>4, <1>5
          <6>2. j - 1 \in Slots
            BY <4>1, <4>4, <1>5, ConstantFacts DEF Slots
          <6> QED BY <6>1, <6>2, <4>1, <4>4, <1>4, <1>5
        <5> QED BY <5>1, <1>1, <1>2, <1>3
      <4> QED BY <4>1, <4>2, <4>3, <4>4, <1>5
    <3>4. CASE b \in N /\ b # lhs /\ b # par
      BY <3>4, <2>1, <1>1, <1>4
    <3> QED BY <3>1, <3>2, <3>3, <3>4
  <2> QED BY <2>1, <2>2 DEF Content, Holds
<1>7. ASSUME NEW k \in Content(nodes, N) PROVE k \in Content(new, N \cup {rhs})
  <2>1. PICK b \in N, j \in Slots : k \in Keys /\ j < nodes[b].nr_of_keys /\ nodes[b].entries[j] = k
    BY <1>7 DEF Content, Holds
  <2>2. \E c \in N \cup {rhs}, a \in Slots : a < new[c].nr_of_keys /\ new[c].entries[a] = k
    <3>1. CASE b = lhs
      <4>1. l[j] = k /\ j \in Nat
        BY <3>1, <2>1, <1>3, <1>5
      <4>2. CASE j < T - 1
        BY <3>1, <4>1, <4>2, <2>1, <1>3, <1>4
      <4>3. CASE j = T - 1
        <5>1. i \in Slots /\ i < n + 1 /\ f[i] = k
          <6>1. i \in Slots
            BY <1>5, <1>4, ConstantFacts DEF Slots
          <6> QED BY <6>1, <4>1, <4>3, <1>4, <1>5
        <5> QED BY <5>1, <1>1, <1>3, <1>4
      <4>4. CASE T - 1 < j
        <5>1. j - T \in Slots /\ j - T < T - 1 /\ (j - T) + T = j
          BY <4>1, <4>4, <1>5, ConstantFacts DEF Slots
        <5>2. r[j - T] = k
          BY <5>1, <4>1, <1>4
        <5> QED BY <5>1, <5>2, <1>1, <1>3, <1>4
      <4> QED BY <4>1, <4>2, <4>3, <4>4, <1>5, ConstantFacts
    <3>2. CASE b = par
      <4>1. j < n /\ e[j] = k /\ j \in Nat
        BY <3>2, <2>1, <1>2, <1>3, <1>5
      <4>2. CASE j < i
        <5>1. f[j] = k /\ j < n + 1
          BY <4>1, <4>2, <1>4, <1>5
        <5> QED BY <5>1, <1>1, <1>3, <1>4
      <4>3. CASE i <= j
        <5>1. j + 1 \in Slots /\ j + 1 <= n /\ j + 1 < n + 1 /\ i < j + 1 /\ j + 1 # i /\ (j + 1) - 1 = j
          <6>1. j + 1 <= n /\ j + 1 < n + 1 /\ i < j + 1 /\ j + 1 # i /\ (j + 1) - 1 = j
            BY <4>1, <4>3, <1>5
          <6>2. j + 1 \in Slots
            BY <6>1, <4>1, <1>2, ConstantFacts DEF Slots
          <6> QED BY <6>1, <6>2
        <5>2. f[j + 1] = k
          BY <5>1, <4>1, <1>4
        <5> QED BY <5>1, <5>2, <1>1, <1>3, <1>4
      <4> QED BY <4>1, <4>2, <4>3, <1>5
    <3>3. CASE b # lhs /\ b # par
      BY <3>3, <2>1, <1>1, <1>4
    <3> QED BY <3>1, <3>2, <3>3
  <2> QED BY <2>1, <2>2 DEF Content, Holds
<1> QED BY <1>6, <1>7

----
(* New roots and new keys.                                                 *)

(* A tree below a new root that has no key yet.                            *)
LEMMA RaiseShape ==
  ASSUME NEW nodes, NEW top, NEW N, NEW span, NEW level, Shape(nodes, top, N, span, level),
         nodes[top].nr_of_keys >= T - 1,
         NEW up \in Blocks, up \notin N,
         ~nodes[up].leaf, nodes[up].nr_of_keys = 0, nodes[up].children[0] = top,
         NEW M, M = N \cup {up},
         NEW sp, sp = [b \in M |-> IF b = up THEN Keys ELSE span[b]],
         NEW lv, lv = [b \in M |-> IF b = up THEN level[top] + 1 ELSE level[b]]
  PROVE  Shape(nodes, up, M, sp, lv)
<1>1. /\ nodes \in [Blocks -> Node] /\ N \in SUBSET Blocks /\ top \in N
      /\ span \in [N -> SUBSET Keys] /\ level \in [N -> Nat]
      /\ span[top] = Keys
      /\ \A b \in N : level[b] <= level[top]
      /\ \A b \in N : NodeSound(nodes[b], b, N, span, level)
      /\ \A b \in N \ {top} : nodes[b].nr_of_keys >= T - 1 /\ \E p \in N : PointsTo(nodes[p], b)
      /\ \A b, c \in N : level[b] = level[c] /\ b # c => span[b] \cap span[c] = {}
  BY DEF Shape
<1>2. /\ \A b \in M : b \in N \/ b = up
      /\ \A b \in N : b \in M /\ sp[b] = span[b] /\ lv[b] = level[b] /\ b # up
      /\ up \in M /\ sp[up] = Keys /\ lv[up] = level[top] + 1 /\ level[top] \in Nat
  BY <1>1
<1>3. sp \in [M -> SUBSET Keys] /\ lv \in [M -> Nat] /\ M \in SUBSET Blocks
  BY <1>1, <1>2
<1>4. \A b \in M : lv[b] <= lv[up] /\ (b # up => lv[b] < lv[up])
  BY <1>1, <1>2
<1>6. NodeSound(nodes[up], up, M, sp, lv)
  <2>1. Sorted(nodes[up])
    <3>1. \A j \in Slots : ~ j < 0
      BY ConstantFacts DEF Slots
    <3> QED BY <3>1 DEF Sorted
  <2>2. \A j \in 0..nodes[up].nr_of_keys : j = 0
    OBVIOUS
  <2>3. Between(nodes[up], 0, Keys) = Keys
    BY DEF Between
  <2>4. lv[up] # 0 /\ lv[up] - 1 = level[top]
    BY <1>2
  <2>5. \A j \in 0..(nodes[up].nr_of_keys - 1) : FALSE
    OBVIOUS
  <2> QED BY <2>1, <2>2, <2>3, <2>4, <2>5, <1>1, <1>2 DEF NodeSound
<1>7. ASSUME NEW b \in N PROVE NodeSound(nodes[b], b, M, sp, lv)
  <2>1. NodeSound(nodes[b], b, N, span, level)
    BY <1>1
  <2> QED BY <2>1, <1>2 DEF NodeSound
<1>8. ASSUME NEW b \in M \ {up}
      PROVE  nodes[b].nr_of_keys >= T - 1 /\ \E p \in M : PointsTo(nodes[p], b)
  <2>1. CASE b = top
    <3>1. PointsTo(nodes[up], top)
      <4>1. 0 \in 0..nodes[up].nr_of_keys
        OBVIOUS
      <4> QED BY <4>1 DEF PointsTo
    <3> QED BY <2>1, <3>1, <1>2
  <2>2. CASE b # top
    <3>1. b \in N \ {top}
      BY <2>2, <1>2
    <3> QED BY <3>1, <1>1, <1>2
  <2> QED BY <2>1, <2>2
<1>9. ASSUME NEW b \in M, NEW c \in M, lv[b] = lv[c], b # c
      PROVE  sp[b] \cap sp[c] = {}
  <2>1. lv[b] \in Nat /\ lv[c] \in Nat /\ lv[up] \in Nat
    BY <1>2, <1>3
  <2>2. b # up
    <3> SUFFICES ASSUME b = up PROVE FALSE
      OBVIOUS
    <3>1. lv[c] < lv[up] /\ lv[c] = lv[up]
      BY <1>4, <1>9
    <3> QED BY <3>1, <2>1
  <2>3. c # up
    <3> SUFFICES ASSUME c = up PROVE FALSE
      OBVIOUS
    <3>1. lv[b] < lv[up] /\ lv[b] = lv[up]
      BY <1>4, <1>9
    <3> QED BY <3>1, <2>1
  <2>4. b \in N /\ c \in N
    BY <2>2, <2>3, <1>2
  <2> QED BY <2>4, <1>1, <1>2, <1>9
<1>10. \A b \in M : NodeSound(nodes[b], b, M, sp, lv)
  BY <1>2, <1>6, <1>7
<1>11. \A b, c \in M : lv[b] = lv[c] /\ b # c => sp[b] \cap sp[c] = {}
  BY <1>9, ZenonT(60)
<1>12. \A b \in M : lv[b] <= lv[up]
  BY <1>4
<1>13. \A b \in M \ {up} : /\ nodes[b].nr_of_keys >= T - 1
                          /\ \E p \in M : PointsTo(nodes[p], b)
  BY <1>8
<1>14. nodes \in [Blocks -> Node] /\ up \in M /\ sp[up] = Keys
  BY <1>1, <1>2
<1> QED BY <1>3, <1>10, <1>11, <1>12, <1>13, <1>14, Zenon DEF Shape

(* A new root holds no key.                                                *)
LEMMA RaiseContent ==
  ASSUME NEW nodes \in [Blocks -> Node], NEW N, NEW up \in Blocks, nodes[up].nr_of_keys = 0
  PROVE  Content(nodes, N \cup {up}) = Content(nodes, N)
<1>1. \A k : ~Holds(nodes[up], k)
  <2>1. \A j \in Slots : ~ j < 0
    BY ConstantFacts DEF Slots
  <2> QED BY <2>1 DEF Holds
<1> QED BY <1>1 DEF Content

\* The nodes N differ in the count of files only.
SameTree(nodes, new, N) ==
  /\ new \in [Blocks -> Node]
  /\ \A b \in N : /\ new[b].entries = nodes[b].entries
                  /\ new[b].children = nodes[b].children
                  /\ new[b].nr_of_keys = nodes[b].nr_of_keys
                  /\ (new[b].leaf <=> nodes[b].leaf)

LEMMA SameShape ==
  ASSUME NEW nodes, NEW new, NEW top, NEW N, SameTree(nodes, new, N),
         NEW span, NEW level, Shape(nodes, top, N, span, level)
  PROVE  /\ Shape(new, top, N, span, level)
         /\ Content(new, N) = Content(nodes, N)
         /\ Stale(nodes, N, span) => Stale(new, N, span)
<1>1. N \in SUBSET Blocks /\ new \in [Blocks -> Node]
  BY DEF Shape, SameTree
<1>2. ASSUME NEW b \in N
      PROVE  /\ NodeSound(nodes[b], b, N, span, level) => NodeSound(new[b], b, N, span, level)
             /\ new[b].nr_of_keys = nodes[b].nr_of_keys
             /\ new[b].entries = nodes[b].entries
             /\ \A c : PointsTo(nodes[b], c) => PointsTo(new[b], c)
             /\ \A k : Holds(new[b], k) <=> Holds(nodes[b], k)
  <2>1. /\ new[b].entries = nodes[b].entries /\ new[b].children = nodes[b].children
        /\ new[b].nr_of_keys = nodes[b].nr_of_keys /\ (new[b].leaf <=> nodes[b].leaf)
    BY <1>1 DEF SameTree
  <2>2. \A i, K : Between(new[b], i, K) = Between(nodes[b], i, K)
    BY <2>1 DEF Between
  <2>3. Sorted(nodes[b]) => Sorted(new[b])
    BY <2>1 DEF Sorted
  <2>4. NodeSound(nodes[b], b, N, span, level) => NodeSound(new[b], b, N, span, level)
    BY <2>1, <2>2, <2>3 DEF NodeSound
  <2>5. \A c : PointsTo(nodes[b], c) => PointsTo(new[b], c)
    BY <2>1 DEF PointsTo
  <2>6. \A k : Holds(new[b], k) <=> Holds(nodes[b], k)
    BY <2>1 DEF Holds
  <2> QED BY <2>1, <2>4, <2>5, <2>6
<1>3. Shape(new, top, N, span, level)
  BY <1>1, <1>2 DEF Shape
<1>4. Content(new, N) = Content(nodes, N)
  BY <1>2 DEF Content
<1>5. Stale(nodes, N, span) => Stale(new, N, span)
  BY <1>2 DEF Stale
<1> QED BY <1>3, <1>4, <1>5

\* A key is put at its place in a leaf that is not full.
IsPut(nodes, new, at, key) ==
  /\ new \in [Blocks -> Node]
  /\ \A b \in Blocks : b # at => new[b] = nodes[b]
  /\ new[at].nr_of_keys = nodes[at].nr_of_keys + 1
  /\ new[at].leaf /\ nodes[at].leaf
  /\ nodes[at].nr_of_keys \in 0..(2 * T - 2)
  /\ IsInserted(new[at].entries, nodes[at].entries, nodes[at].nr_of_keys,
                Before(nodes[at], key), key)
  /\ new[at].nr_of_files = nodes[at].nr_of_files

LEMMA PutShape ==
  ASSUME NEW nodes, NEW top, NEW N, NEW span, NEW level, Shape(nodes, top, N, span, level),
         NEW at \in N, NEW key \in span[at], ~Holds(nodes[at], key),
         NEW new, IsPut(nodes, new, at, key)
  PROVE  /\ Shape(new, top, N, span, level)
         /\ Content(new, N) = Content(nodes, N) \cup {key}
         /\ Stale(nodes, N, span) => Stale(new, N, span)
<1>1. /\ nodes \in [Blocks -> Node] /\ new \in [Blocks -> Node]
      /\ N \in SUBSET Blocks /\ span \in [N -> SUBSET Keys] /\ level \in [N -> Nat]
      /\ NodeSound(nodes[at], at, N, span, level)
  BY DEF Shape, IsPut
<1>2. PICK n \in 0..(2 * T - 2), e \in [Slots -> Nat], f \in [Slots -> Nat] :
         n = nodes[at].nr_of_keys /\ e = nodes[at].entries /\ f = new[at].entries
  <2>1. nodes[at] \in Node /\ new[at] \in Node
    BY <1>1
  <2> QED BY <2>1, EntriesAreNats DEF IsPut
<1>3. key \in Keys /\ key \in Nat
  BY <1>1, ConstantFacts
<1>4. PICK i \in 0..n : /\ i = Before(nodes[at], key)
                        /\ \A j \in 0..(n - 1) : e[j] < key <=> j < i
  <2>1. nodes[at] \in Node /\ Sorted(nodes[at])
    BY <1>1 DEF NodeSound
  <2> QED BY <2>1, <1>2, <1>3, BeforeIs
<1>5. /\ new[at].nr_of_keys = n + 1 /\ IsInserted(f, e, n, i, key)
      /\ new[at].leaf /\ nodes[at].leaf /\ \A b \in N : b # at => new[b] = nodes[b]
  BY <1>1, <1>2, <1>4 DEF IsPut
<1>6. n \in Nat /\ i \in Nat /\ i <= n /\ \A j \in Slots : j \in Nat /\ e[j] \in Nat
  BY <1>4, ConstantFacts DEF Slots
<1>7. \A j \in Slots : j < n => e[j] # key
  BY <1>2 DEF Holds
<1>8. FitsAt(e, n, i, key)
  <2> SUFFICES ASSUME NEW j \in Slots
               PROVE  (j < i => e[j] < key) /\ (i <= j /\ j < n => key < e[j])
    BY DEF FitsAt
  <2>1. j < n => j \in 0..(n - 1)
    BY <1>6
  <2>2. j < n => (e[j] < key <=> j < i) /\ e[j] # key
    BY <2>1, <1>4, <1>7
  <2> QED BY <2>2, <1>3, <1>6
<1>9. SortedTo(e, n)
  BY <1>1, <1>2 DEF NodeSound, Sorted, SortedTo
<1>10. SortedTo(f, n + 1)
  BY <1>3, <1>5, <1>8, <1>9, InsertedSorted, Zenon
<1>11. Sorted(new[at])
  BY <1>2, <1>5, <1>10 DEF Sorted, SortedTo
<1>12. \A j \in Slots : f[j] = IF j = i THEN key ELSE IF i < j /\ j <= n THEN e[j - 1] ELSE e[j]
  BY <1>5 DEF IsInserted
<1>13. \A j \in 0..n : j \in Slots /\ (j > 0 => j - 1 \in Slots /\ j - 1 < n)
  BY <1>6, ConstantFacts DEF Slots
<1>14. ASSUME NEW j \in 0..n PROVE f[j] = key \/ \E a \in Slots : a < n /\ e[a] = f[j]
  <2>1. j \in Slots /\ j \in Nat
    BY <1>13
  <2>2. CASE j < i
    BY <2>1, <2>2, <1>6, <1>12
  <2>3. CASE j = i
    BY <2>1, <2>3, <1>12
  <2>4. CASE i < j
    BY <2>1, <2>4, <1>6, <1>12, <1>13
  <2> QED BY <2>1, <2>2, <2>3, <2>4, <1>6
<1>15. ASSUME NEW a \in Slots, a < n PROVE e[a] \in span[at]
  <2>1. a \in 0..(n - 1)
    BY <1>15, <1>6
  <2> QED BY <2>1, <1>1, <1>2 DEF NodeSound
<1>16. \A j \in 0..((n + 1) - 1) : f[j] \in span[at]
  <2>1. \A j \in 0..((n + 1) - 1) : j \in 0..n
    BY <1>6
  <2> QED BY <2>1, <1>14, <1>15
<1>17. NodeSound(new[at], at, N, span, level)
  BY <1>1, <1>2, <1>5, <1>11, <1>16 DEF NodeSound
<1>18. Shape(new, top, N, span, level)
  <2>1. \A b \in N : NodeSound(new[b], b, N, span, level)
    BY <1>5, <1>17 DEF Shape
  <2>2. \A p \in N : \A b : PointsTo(nodes[p], b) => PointsTo(new[p], b)
    BY <1>5 DEF PointsTo
  <2>3. ASSUME NEW b \in N \ {top}
        PROVE  new[b].nr_of_keys >= T - 1 /\ \E p \in N : PointsTo(new[p], b)
    <3>1. nodes[b].nr_of_keys >= T - 1 /\ \E p \in N : PointsTo(nodes[p], b)
      BY DEF Shape
    <3>2. new[b].nr_of_keys >= T - 1
      BY <3>1, <1>2, <1>5, <1>6, ConstantFacts
    <3> QED BY <3>1, <3>2, <2>2
  <2> QED BY <1>1, <2>1, <2>3 DEF Shape
<1>19. \A k \in Keys : Holds(new[at], k) <=> Holds(nodes[at], k) \/ k = key
  <2> SUFFICES ASSUME NEW k \in Keys
               PROVE  Holds(new[at], k) <=> Holds(nodes[at], k) \/ k = key
    OBVIOUS
  <2>1. Holds(new[at], k) => Holds(nodes[at], k) \/ k = key
    <3> SUFFICES ASSUME NEW j \in Slots, j < n + 1, f[j] = k
                 PROVE  k = key \/ \E a \in Slots : a < n /\ e[a] = k
      BY <1>2, <1>5 DEF Holds
    <3>1. j \in 0..n
      BY <1>6
    <3> QED BY <3>1, <1>14
  <2>2. k = key => Holds(new[at], k)
    <3>1. i \in Slots /\ i < n + 1
      BY <1>6, <1>13
    <3> QED BY <3>1, <1>2, <1>5, <1>12 DEF Holds
  <2>3. Holds(nodes[at], k) => Holds(new[at], k)
    <3> SUFFICES ASSUME NEW a \in Slots, a < n, e[a] = k
                 PROVE  \E j \in Slots : j < n + 1 /\ f[j] = k
      BY <1>2, <1>5 DEF Holds
    <3>1. CASE a < i
      BY <3>1, <1>6, <1>12
    <3>2. CASE i <= a
      <4>1. a + 1 \in 0..n /\ i < a + 1 /\ a + 1 <= n /\ (a + 1) - 1 = a /\ a + 1 # i /\ a + 1 < n + 1
        BY <3>2, <1>6
      <4>2. a + 1 \in Slots
        BY <4>1, <1>13
      <4>3. f[a + 1] = k
        BY <4>1, <4>2, <1>12
      <4> QED BY <4>1, <4>2, <4>3
    <3> QED BY <3>1, <3>2, <1>6
  <2> QED BY <2>1, <2>2, <2>3
<1>20. Content(new, N) = Content(nodes, N) \cup {key}
  BY <1>3, <1>5, <1>19 DEF Content
<1>21. Stale(nodes, N, span) => Stale(new, N, span)
  <2> SUFFICES ASSUME Stale(nodes, N, span), NEW b \in N, NEW j \in Slots, j >= new[b].nr_of_keys
               PROVE  new[b].entries[j] \notin span[b]
    BY DEF Stale
  <2>1. CASE b = at
    <3>1. j >= n + 1 /\ j # i /\ ~ j <= n /\ j >= n
      BY <2>1, <1>5, <1>6
    <3>2. f[j] = e[j]
      BY <3>1, <1>12
    <3> QED BY <2>1, <3>1, <3>2, <1>2 DEF Stale
  <2>2. CASE b # at
    BY <2>2, <1>5 DEF Stale
  <2> QED BY <2>1, <2>2
<1> QED BY <1>18, <1>20, <1>21

(* What PutInLeaf does to the leaf.                                        *)
LEMMA PutIs ==
  ASSUME NEW nodes \in [Blocks -> Node], NEW at \in Blocks, NEW key \in Keys,
         nodes[at].leaf, ~Full(nodes[at]),
         NEW new, new = [nodes EXCEPT ![at] =
           [nodes[at] EXCEPT !.entries = Inserted(@, Before(nodes[at], key), nodes[at].nr_of_keys, key),
                             !.nr_of_keys = @ + 1]]
  PROVE  IsPut(nodes, new, at, key)
<1>1. PICK l, i, n : l = nodes[at] /\ i = Before(nodes[at], key) /\ n = nodes[at].nr_of_keys
  OBVIOUS
<1>2. /\ l \in Node /\ l.entries \in [Slots -> Hashes] /\ l.children \in [Kids -> Blocks \cup {0}]
      /\ l.nr_of_files \in Int /\ l.leaf \in BOOLEAN /\ key \in Hashes
  BY <1>1 DEF Node, Hashes
<1>3. n \in 0..(2 * T - 2) /\ n + 1 \in 0..(2 * T - 1)
  <2>1. n \in 0..(2 * T - 1) /\ n # 2 * T - 1
    BY <1>1, <1>2 DEF Node, Full
  <2> QED BY <2>1, ConstantFacts
<1>4. i \in Int /\ 0 <= i
  <2>1. 0 \in Int /\ 2 * T - 2 \in Int
    BY ConstantFacts
  <2>2. IsFiniteSet(Slots)
    BY <2>1, FS_Interval DEF Slots
  <2>3. IsFiniteSet({a \in Slots : a < l.nr_of_keys /\ l.entries[a] < key})
    BY <2>2, FS_Subset
  <2>4. i = Cardinality({a \in Slots : a < l.nr_of_keys /\ l.entries[a] < key})
    BY <1>1 DEF Before
  <2> QED BY <2>3, <2>4, FS_CardinalityType
<1>5. PICK f : f = Inserted(l.entries, i, n, key)
  OBVIOUS
<1>6. f = [j \in Slots |-> IF j = i THEN key
                           ELSE IF i < j /\ j <= n THEN l.entries[j - 1] ELSE l.entries[j]]
  BY <1>2, <1>5 DEF Inserted
<1>7. f \in [Slots -> Hashes]
  <2>1. ASSUME NEW j \in Slots, i < j, j <= n, j # 0 PROVE j - 1 \in Slots
    BY <2>1, ConstantFacts DEF Slots
  <2>2. \A j \in Slots : i < j => j # 0
    BY <1>4, ConstantFacts DEF Slots
  <2> QED BY <1>2, <1>6, <2>1, <2>2
<1>8. PICK x : x = [l EXCEPT !.entries = f, !.nr_of_keys = n + 1]
  OBVIOUS
<1>9. new = [nodes EXCEPT ![at] = x]
  BY <1>1, <1>5, <1>8
<1>10. /\ x.entries = f /\ x.nr_of_keys = n + 1 /\ x.children = l.children
       /\ x.nr_of_files = l.nr_of_files /\ x.leaf = l.leaf /\ x \in Node
  BY <1>2, <1>3, <1>7, <1>8 DEF Node
<1>11. new \in [Blocks -> Node] /\ new[at] = x /\ \A b \in Blocks : b # at => new[b] = nodes[b]
  BY <1>9, <1>10
<1>12. IsInserted(f, l.entries, n, i, key)
  BY <1>6 DEF IsInserted
<1>13. l.leaf
  BY <1>1
<1> QED BY <1>1, <1>3, <1>10, <1>11, <1>12, <1>13 DEF IsPut

\* A root above node top, without keys.
IsRaised(x, top) ==
  /\ ~x.leaf /\ x.nr_of_keys = 0 /\ x.children[0] = top
  /\ \A j \in Slots : x.entries[j] = 0

LEMMA RaisedIs ==
  ASSUME NEW top \in Blocks
  PROVE  LET x == [NodeInit(FALSE) EXCEPT !.children[0] = top]
         IN  x \in Node /\ IsRaised(x, top)
<1>1. 0 \in Kids /\ 0 \in 0..(2 * T - 1)
  BY ConstantFacts DEF Kids
<1>2. [j \in Slots |-> 0] \in [Slots -> Hashes]
  BY DEF Hashes
<1>3. [[j \in Kids |-> 0] EXCEPT ![0] = top] \in [Kids -> Blocks \cup {0}]
  OBVIOUS
<1>4. PICK e \in [Slots -> Hashes], c \in [Kids -> Blocks \cup {0}], b \in BOOLEAN :
         e = [j \in Slots |-> 0] /\ c = [[j \in Kids |-> 0] EXCEPT ![0] = top] /\ b = FALSE
  BY <1>2, <1>3
<1>5. PICK x : x = [entries |-> e, children |-> c, nr_of_keys |-> 0, nr_of_files |-> 0, leaf |-> b]
  OBVIOUS
<1>6. [NodeInit(FALSE) EXCEPT !.children[0] = top] = x
  <2>1. PICK k : k = [j \in Kids |-> 0]
    OBVIOUS
  <2>2. PICK y : y = NodeInit(FALSE)
    OBVIOUS
  <2>3. y = [entries |-> e, children |-> k, nr_of_keys |-> 0, nr_of_files |-> 0, leaf |-> FALSE]
    BY <1>4, <2>1, <2>2, Zenon DEF NodeInit
  <2>4. y = [entries |-> e, children |-> k, nr_of_keys |-> 0, nr_of_files |-> 0, leaf |-> b]
    BY <1>4, <2>3, Zenon
  <2>5. c = [k EXCEPT ![0] = top]
    BY <1>4, <2>1
  <2>6. [y EXCEPT !.children[0] = top] = [y EXCEPT !.children = [k EXCEPT ![0] = top]]
    BY <2>4
  <2>7. [y EXCEPT !.children = c] = x
    BY <2>4, <1>5
  <2> QED BY <2>2, <2>5, <2>6, <2>7, Zenon
<1>7. x \in Node
  BY <1>1, <1>5 DEF Node
<1>8. c[0] = top /\ \A j \in Slots : e[j] = 0
  BY <1>1, <1>4
<1>9. x.entries = e /\ x.children = c /\ x.nr_of_keys = 0 /\ x.leaf = b
  BY <1>5
<1>10. ~x.leaf
  BY <1>4, <1>9
<1>11. IsRaised(x, top)
  BY <1>8, <1>9, <1>10 DEF IsRaised
<1> QED BY <1>6, <1>7, <1>11

(* Where the walk goes on after a split.                                   *)
LEMMA SplitWalk ==
  ASSUME NEW nodes, NEW top, NEW N, NEW span, NEW level, NEW new,
         NEW par, NEW lhs, NEW i, NEW rhs,
         SplitCase(nodes, top, N, span, level, new, par, lhs, i, rhs),
         NEW m, m = nodes[lhs].entries[T - 1],
         NEW key \in span[lhs], key \notin Content(nodes, N),
         NEW at, at = IF new[par].entries[i] < key THEN rhs ELSE lhs
  PROVE  /\ at \in N \cup {rhs} /\ key \in SpanAfter(span, N, lhs, rhs, m)[at]
         /\ ~Full(new[at])
<1>1. /\ nodes \in [Blocks -> Node] /\ N \in SUBSET Blocks /\ span \in [N -> SUBSET Keys]
      /\ lhs \in N /\ rhs \notin N /\ m \in span[lhs] /\ m \in Nat
  BY SplitCaseFacts
<1>2. new[lhs].nr_of_keys = T - 1 /\ new[rhs].nr_of_keys = T - 1
      /\ nodes[lhs].nr_of_keys = 2 * T - 1
  BY DEF SplitCase, IsSplit
<1>3. new[par].entries[i] = m
  <2>1. i \in Slots
    <3>1. PICK n \in 0..(2 * T - 2) : n = nodes[par].nr_of_keys /\ i \in 0..n
      BY DEF SplitCase
    <3> QED BY <3>1, ConstantFacts DEF Slots
  <2> QED BY <2>1 DEF SplitCase, IsSplit
<1>4. key # m
  <2>1. T - 1 \in Slots /\ T - 1 < 2 * T - 1
    BY ConstantFacts DEF Slots
  <2>2. m \in Content(nodes, N)
    BY <2>1, <1>1, <1>2 DEF Content, Holds
  <2> QED BY <2>2
<1>5. key \in Nat
  BY <1>1, ConstantFacts
<1>6. T - 1 # 2 * T - 1
  BY ConstantFacts
<1>7. CASE m < key
  BY <1>1, <1>2, <1>3, <1>6, <1>7 DEF SpanAfter, Full
<1>8. CASE ~ m < key
  <2>1. key < m
    BY <1>1, <1>4, <1>5, <1>8
  <2> QED BY <2>1, <1>1, <1>2, <1>3, <1>6, <1>8 DEF SpanAfter, Full
<1> QED BY <1>7, <1>8

----
(* The inductive invariant of insertion.                                   *)

\* The block of a new root that no walk comes to yet.
Raised == IF call.op = "halve" THEN {call.tall} ELSE {}

\* A call that inserts is where its key belongs, in a node that has room.
CallSane(N, span) ==
  /\ call.op \in {"idle", "raise", "halve", "insert"}
  /\ call.op = "idle" => call = Idle
  /\ call.op # "idle" => call.name = call.key /\ call.key \in Keys \ names
  /\ call.op \in {"raise", "halve"} => Full(node[root])
  /\ call.op = "halve" => call.tall \in Blocks \ N /\ IsRaised(node[call.tall], root)
  /\ call.op = "insert" => /\ call.at \in N /\ call.key \in span[call.at]
                           /\ ~Full(node[call.at])

\* The tree consists of the blocks N; the directory holds no other block when
\* tight is TRUE.
Growing(N, span, level, tight) ==
  /\ TypeOK /\ harm = {}
  /\ Shape(node, Top, N, span, level)
  /\ Content(node, N) = names
  /\ root \in N /\ N \cup Raised \subseteq used \ other
  /\ tight => used \ other \subseteq N \cup Raised
  /\ node[root].nr_of_files = Cardinality(names)
  /\ CallSane(N, span)

\* After a call has damaged the tree, nothing is claimed of it.
Damaged == TypeOK /\ harm # {} /\ call = Idle /\ root \in used \ other

\* Insertion also keeps what lookup relies on behind the last keys.
GInv(tight) ==
  \/ \E N, span, level : Growing(N, span, level, tight) /\ Stale(node, N, span)
  \/ ~tight /\ Damaged

LEMMA GrowingFacts ==
  ASSUME NEW N, NEW span, NEW level, NEW tight, Growing(N, span, level, tight)
  PROVE  /\ node \in [Blocks -> Node] /\ used \in SUBSET Blocks /\ other \in SUBSET used
         /\ names \in SUBSET Keys /\ harm = {} /\ removals \in 0..MaxRemovals
         /\ call \in Call /\ IsFiniteSet(names) /\ Cardinality(names) \in Nat
         /\ N \in SUBSET Blocks /\ span \in [N -> SUBSET Keys] /\ level \in [N -> Nat]
         /\ Top \in N /\ root \in N /\ root \in Blocks /\ N \subseteq used \ other
         /\ Shape(node, Top, N, span, level)
<1>1. names \in SUBSET Keys
  BY DEF Growing, TypeOK
<1>2. IsFiniteSet(names) /\ Cardinality(names) \in Nat
  BY <1>1, ConstantFacts, FS_Subset, FS_CardinalityType
<1> QED BY <1>1, <1>2 DEF Growing, TypeOK, Shape

LEMMA FreeBlock ==
  ASSUME Free # {}
  PROVE  LeastOf(Free) \in Blocks /\ LeastOf(Free) \notin used
<1>1. Free \in SUBSET Nat
  BY ConstantFacts DEF Free
<1> QED BY <1>1, LeastOfIsMember DEF Free

(* The end of a call.                                                      *)
LEMMA FinishIs ==
  ASSUME NEW nodes \in [Blocks -> Node], root \in Blocks, Top \in Blocks, call.op = "insert",
         FinishInsert(nodes), NEW N \in SUBSET Blocks
  PROVE  /\ SameTree(nodes, node', N) /\ root' = Top /\ Top' = Top /\ call' = Idle
         /\ names' = names \cup {call.name}
         /\ node'[root'].nr_of_files = nodes[root].nr_of_files + 1
         /\ node' \in [Blocks -> Node]
<1>1. PICK top : top = IF call.tall = 0 THEN root ELSE call.tall
  OBVIOUS
<1>2. top = Top /\ top \in Blocks
  BY <1>1 DEF Top
<1>3. /\ node' = [nodes EXCEPT ![top].nr_of_files = nodes[root].nr_of_files + 1]
      /\ root' = top /\ names' = names \cup {call.name} /\ call' = Idle
  BY <1>1 DEF FinishInsert
<1>4. PICK n \in Int : n = nodes[root].nr_of_files + 1
  <2>1. nodes[root] \in Node
    OBVIOUS
  <2>2. nodes[root].nr_of_files \in Int
    BY <2>1 DEF Node
  <2> QED BY <2>2
<1>5. PICK x : x = [nodes[top] EXCEPT !.nr_of_files = n]
  OBVIOUS
<1>6. nodes[top] \in Node
  BY <1>2
<1>7. /\ x \in Node /\ x.nr_of_files = n /\ x.entries = nodes[top].entries
      /\ x.children = nodes[top].children /\ x.nr_of_keys = nodes[top].nr_of_keys
      /\ x.leaf = nodes[top].leaf
  BY <1>5, <1>6 DEF Node
<1>8. node' = [nodes EXCEPT ![top] = x]
  BY <1>3, <1>4, <1>5
<1>9. node' \in [Blocks -> Node] /\ node'[top] = x /\ \A b \in Blocks : b # top => node'[b] = nodes[b]
  BY <1>2, <1>7, <1>8
<1>10. SameTree(nodes, node', N)
  BY <1>2, <1>7, <1>9 DEF SameTree
<1>11. Top' = top
  BY <1>3 DEF Top, Idle
<1> QED BY <1>2, <1>3, <1>4, <1>7, <1>9, <1>10, <1>11

LEMMA EmptyLeaf ==
  LET x == NodeInit(TRUE)
  IN  /\ x \in Node /\ x.leaf /\ x.nr_of_keys = 0 /\ x.nr_of_files = 0
      /\ \A j \in Slots : x.entries[j] = 0
<1>1. [j \in Slots |-> 0] \in [Slots -> Hashes] /\ [j \in Kids |-> 0] \in [Kids -> Blocks \cup {0}]
  BY DEF Hashes
<1>2. PICK e \in [Slots -> Hashes], c \in [Kids -> Blocks \cup {0}], b \in BOOLEAN :
         e = [j \in Slots |-> 0] /\ c = [j \in Kids |-> 0] /\ b = TRUE
  BY <1>1
<1>3. PICK x : x = NodeInit(TRUE)
  OBVIOUS
<1>4. x = [entries |-> e, children |-> c, nr_of_keys |-> 0, nr_of_files |-> 0, leaf |-> b]
  <2>1. x = [entries |-> e, children |-> c, nr_of_keys |-> 0, nr_of_files |-> 0, leaf |-> TRUE]
    BY <1>2, <1>3, Zenon DEF NodeInit
  <2> QED BY <1>2, <2>1, Zenon
<1>5. 0 \in 0..(2 * T - 1)
  BY ConstantFacts
<1>6. x \in Node
  BY <1>4, <1>5 DEF Node
<1>7. x.leaf = b /\ x.nr_of_keys = 0 /\ x.nr_of_files = 0 /\ x.entries = e
  BY <1>4
<1>8. x.leaf
  BY <1>2, <1>7
<1>9. \A j \in Slots : x.entries[j] = 0
  BY <1>2, <1>7
<1> QED BY <1>3, <1>6, <1>7, <1>8, <1>9

(* An empty directory is a tree of one leaf.                               *)
LEMMA InitGrows ==
  ASSUME Init, NEW tight \in BOOLEAN
  PROVE  GInv(tight)
<1>1. PICK N, span, level : N = {root} /\ span = [b \in N |-> Keys] /\ level = [b \in N |-> 0]
  OBVIOUS
<1>2. /\ root \in Blocks /\ used = {root} /\ other = {} /\ names = {} /\ call = Idle
      /\ removals = 0 /\ harm = {} /\ node = [b \in Blocks |-> NodeInit(TRUE)]
  <2>1. root = LeastOf(Blocks) /\ Blocks \in SUBSET Nat /\ Blocks # {}
    BY BTreeAssumption DEF Init
  <2>2. root \in Blocks
    BY <2>1, LeastOfIsMember
  <2> QED BY <2>2 DEF Init
<1>3. PICK x : x = NodeInit(TRUE)
  OBVIOUS
<1>4. x \in Node /\ x.leaf /\ x.nr_of_keys = 0 /\ x.nr_of_files = 0 /\ \A j \in Slots : x.entries[j] = 0
  BY <1>3, EmptyLeaf
<1>5. node \in [Blocks -> Node] /\ node[root] = x
  BY <1>2, <1>3, <1>4
<1>6. Idle \in Call /\ Idle.op = "idle"
  BY DEF Call, Idle, Ops, Hashes
<1>7. TypeOK
  <2>1. removals \in 0..MaxRemovals
    BY <1>2, BTreeAssumption
  <2>2. used \in SUBSET Blocks /\ other \in SUBSET used /\ root \in used
        /\ names \in SUBSET Keys /\ harm \in SUBSET Harms
    BY <1>2
  <2> QED BY <2>1, <2>2, <1>2, <1>5, <1>6 DEF TypeOK
<1>8. Top = root
  BY <1>2, <1>6 DEF Top
<1>9. span[root] = Keys /\ level[root] = 0 /\ N \in SUBSET Blocks /\ root \in N
      /\ span \in [N -> SUBSET Keys] /\ level \in [N -> Nat] /\ \A b \in N : b = root
  BY <1>1, <1>2
<1>11. \A j \in Slots : ~ j < 0
  BY ConstantFacts DEF Slots
<1>12. NodeSound(x, root, N, span, level)
  <2>1. Sorted(x)
    BY <1>4, <1>11 DEF Sorted
  <2>2. \A j \in 0..(x.nr_of_keys - 1) : FALSE
    BY <1>4
  <2> QED BY <2>1, <2>2, <1>4, <1>9 DEF NodeSound
<1>13. Shape(node, Top, N, span, level)
  <2>1. \A b \in N : level[b] <= level[root]
    BY <1>9
  <2>3. \A b, c \in N : ~(b # c)
    BY <1>9
  <2>4. N \ {root} = {}
    BY <1>1
  <2> QED BY <2>1, <2>3, <2>4, <1>5, <1>8, <1>9, <1>12 DEF Shape
<1>14. Stale(node, N, span)
  BY <1>4, <1>5, <1>9, ConstantFacts DEF Stale
<1>15. Content(node, N) = names
  <2>1. \A k : ~Holds(x, k)
    BY <1>4, <1>11 DEF Holds
  <2> QED BY <2>1, <1>2, <1>5, <1>9 DEF Content
<1>16. node[root].nr_of_files = Cardinality(names)
  BY <1>2, <1>4, <1>5, FS_EmptySet
<1>17. CallSane(N, span)
  BY <1>2, <1>6 DEF CallSane
<1>18. Raised = {}
  BY <1>2, <1>6 DEF Raised
<1>19. Growing(N, span, level, tight)
  BY <1>1, <1>2, <1>7, <1>9, <1>13, <1>15, <1>16, <1>17, <1>18 DEF Growing
<1> QED BY <1>14, <1>19 DEF GInv

(* The tree is what it was when its nodes, its root and the names are.     *)
LEMMA SameTreeGrows ==
  ASSUME NEW N, NEW span, NEW level, NEW tight, Growing(N, span, level, tight),
         UNCHANGED <<node, root, names, harm, removals>>, Top' = Top
  PROVE  /\ Shape(node, Top, N, span, level)' /\ (Stale(node, N, span) => Stale(node, N, span)')
         /\ (Content(node, N) = names)' /\ root' \in N
         /\ (node[root].nr_of_files = Cardinality(names))' /\ harm' = {}
         /\ node' \in [Blocks -> Node] /\ names' \in SUBSET Keys /\ removals' \in 0..MaxRemovals
<1>1. /\ Shape(node, Top, N, span, level) /\ Content(node, N) = names
      /\ root \in N /\ node[root].nr_of_files = Cardinality(names)
  BY DEF Growing
<1>2. node' = node /\ root' = root /\ names' = names /\ harm' = harm /\ removals' = removals
  OBVIOUS
<1> QED BY <1>1, <1>2, GrowingFacts

(* A call begins.                                                          *)
LEMMA StartInsertGrows ==
  ASSUME NEW N, NEW span, NEW level, NEW tight \in BOOLEAN, Growing(N, span, level, tight),
         NEW k \in Keys, StartInsert(k)
  PROVE  Growing(N, span, level, tight)' /\ (Stale(node, N, span) => Stale(node, N, span)')
<1>1. /\ node \in [Blocks -> Node] /\ used \in SUBSET Blocks /\ other \in SUBSET used
      /\ root \in N /\ root \in Blocks /\ N \subseteq used \ other
      /\ Shape(node, Top, N, span, level)
  BY GrowingFacts
<1>2. /\ call = Idle /\ ~Lookup(root, k) /\ node' = node /\ used' = used /\ other' = other
      /\ root' = root /\ names' = names /\ harm' = harm /\ removals' = removals
      /\ call' = [Idle EXCEPT !.op = IF Full(node[root]) THEN "raise" ELSE "insert",
                              !.name = k, !.key = k, !.at = root]
  BY DEF StartInsert
<1>3. /\ call'.op = IF Full(node[root]) THEN "raise" ELSE "insert"
      /\ call'.name = k /\ call'.key = k /\ call'.at = root /\ call'.tall = 0
      /\ call' \in Call
  BY <1>1, <1>2 DEF Idle, Call, Ops, Hashes
<1>4. Top = root /\ Top' = root /\ call.op = "idle"
  BY <1>2, <1>3 DEF Top, Idle
<1>5. k \notin names
  <2>1. k \notin Content(node, N)
    BY <1>1, <1>2, <1>4, LookupFinds
  <2> QED BY <2>1 DEF Growing
<1>6. Shape(node, Top, N, span, level)' /\ (Stale(node, N, span) => Stale(node, N, span)')
      /\ (Content(node, N) = names)' /\ root' \in N
      /\ (node[root].nr_of_files = Cardinality(names))' /\ harm' = {}
      /\ node' \in [Blocks -> Node] /\ names' \in SUBSET Keys /\ removals' \in 0..MaxRemovals
  BY <1>2, <1>4, SameTreeGrows
<1>7. TypeOK'
  BY <1>1, <1>2, <1>3, <1>6 DEF TypeOK, Growing
<1>8. Raised' = {} /\ Raised = {}
  BY <1>3, <1>4 DEF Raised
<1>9. N \subseteq used' \ other' /\ (tight => used' \ other' \subseteq N)
  BY <1>1, <1>2, <1>8 DEF Growing
<1>10. span[root] = Keys
  BY <1>1, <1>4 DEF Shape
<1>11. CallSane(N, span)'
  BY <1>1, <1>2, <1>3, <1>5, <1>10 DEF CallSane
<1> QED BY <1>6, <1>7, <1>8, <1>9, <1>11 DEF Growing

(* A block is taken for a new root, which no pointer leads to yet.         *)
LEMMA RaiseRootGrows ==
  ASSUME NEW N, NEW span, NEW level, NEW tight \in BOOLEAN, Growing(N, span, level, tight),
         RaiseRoot
  PROVE  Growing(N, span, level, tight)' /\ (Stale(node, N, span) => Stale(node, N, span)')
<1>1. /\ node \in [Blocks -> Node] /\ used \in SUBSET Blocks /\ other \in SUBSET used
      /\ root \in N /\ root \in Blocks /\ N \in SUBSET Blocks /\ N \subseteq used \ other
      /\ Shape(node, Top, N, span, level) /\ call \in Call
  BY GrowingFacts
<1>2. PICK new : new = LeastOf(Free)
  OBVIOUS
<1>3. /\ call.op = "raise" /\ Free # {} /\ used' = used \cup {new}
      /\ node' = [node EXCEPT ![new] = [NodeInit(FALSE) EXCEPT !.children[0] = root]]
      /\ call' = [call EXCEPT !.op = "halve", !.tall = new]
      /\ other' = other /\ root' = root /\ names' = names /\ harm' = harm /\ removals' = removals
  BY <1>2 DEF RaiseRoot
<1>4. new \in Blocks /\ new \notin used /\ new \notin N
  BY <1>1, <1>2, <1>3, FreeBlock
<1>5. PICK x \in Node : x = [NodeInit(FALSE) EXCEPT !.children[0] = root] /\ IsRaised(x, root)
  BY <1>1, RaisedIs
<1>6. node' = [node EXCEPT ![new] = x]
  BY <1>3, <1>5
<1>7. node' \in [Blocks -> Node] /\ node'[new] = x /\ \A b \in N : node'[b] = node[b]
  BY <1>1, <1>4, <1>6
<1>8. /\ call'.op = "halve" /\ call'.tall = new /\ call'.name = call.name
      /\ call'.key = call.key /\ call'.at = call.at /\ call' \in Call
  BY <1>1, <1>3, <1>4 DEF Call, Ops
<1>9. Top = root /\ Top' = root
  BY <1>3, <1>8 DEF Top
<1>10. SameTree(node, node', N)
  BY <1>7 DEF SameTree
<1>11. /\ Shape(node', root, N, span, level)
       /\ Content(node', N) = Content(node, N)
       /\ (Stale(node, N, span) => Stale(node', N, span))
  BY <1>1, <1>9, <1>10, SameShape DEF Growing
<1>12. CallSane(N, span) /\ Content(node, N) = names /\ node[root].nr_of_files = Cardinality(names)
       /\ TypeOK /\ harm = {} /\ (tight => used \ other \subseteq N \cup Raised)
  BY DEF Growing
<1>13. TypeOK'
  BY <1>3, <1>4, <1>7, <1>8, <1>12 DEF TypeOK
<1>14. CallSane(N, span)'
  BY <1>1, <1>3, <1>4, <1>5, <1>7, <1>8, <1>12 DEF CallSane
<1>15. Raised' = {new} /\ Raised = {}
  BY <1>3, <1>8 DEF Raised
<1>16. N \cup {new} \subseteq used' \ other' /\ (tight => used' \ other' \subseteq N \cup {new})
  BY <1>1, <1>3, <1>4, <1>12, <1>15
<1>17. node'[root'].nr_of_files = Cardinality(names') /\ root' \in N
  BY <1>1, <1>3, <1>7, <1>12
<1>18. Shape(node, Top, N, span, level)' /\ (Stale(node, N, span) => Stale(node, N, span)') /\ (Content(node, N) = names)'
  BY <1>3, <1>9, <1>11, <1>12
<1> QED BY <1>3, <1>12, <1>13, <1>14, <1>15, <1>16, <1>17, <1>18 DEF Growing

(* The root is split below the new root, and the walk begins.              *)
LEMMA HalveRootGrows ==
  ASSUME NEW N, NEW span, NEW level, NEW tight \in BOOLEAN, Growing(N, span, level, tight),
         HalveRoot
  PROVE  \E M, sp, lv : Growing(M, sp, lv, tight)' /\ (Stale(node, N, span) => Stale(node, M, sp)')
<1>1. /\ node \in [Blocks -> Node] /\ used \in SUBSET Blocks /\ other \in SUBSET used
      /\ root \in N /\ root \in Blocks /\ N \in SUBSET Blocks /\ N \subseteq used \ other
      /\ Shape(node, Top, N, span, level) /\ call \in Call
  BY GrowingFacts
<1>2. /\ CallSane(N, span) /\ Content(node, N) = names /\ node[root].nr_of_files = Cardinality(names)
      /\ TypeOK /\ harm = {} /\ N \cup Raised \subseteq used \ other
      /\ (tight => used \ other \subseteq N \cup Raised)
  BY DEF Growing
<1>3. PICK rhs, tall : rhs = LeastOf(Free) /\ tall = call.tall
  OBVIOUS
<1>4. PICK new : new = SplitChild(node, tall, root, 0, rhs)
  OBVIOUS
<1>5. /\ call.op = "halve" /\ Free # {} /\ used' = used \cup {rhs} /\ node' = new
      /\ call' = [call EXCEPT !.op = "insert",
                              !.at = IF new[tall].entries[0] < call.key THEN rhs ELSE root]
      /\ other' = other /\ root' = root /\ names' = names /\ harm' = harm /\ removals' = removals
  BY <1>3, <1>4 DEF HalveRoot
<1>6. /\ Full(node[root]) /\ tall \in Blocks /\ tall \notin N /\ IsRaised(node[tall], root)
      /\ call.name = call.key /\ call.key \in Keys \ names
  BY <1>2, <1>3, <1>5 DEF CallSane
<1>7. Raised = {tall} /\ Top = root
  BY <1>3, <1>5 DEF Raised, Top
<1>8. rhs \in Blocks /\ rhs \notin used /\ rhs \notin N /\ rhs # tall /\ tall \in used
  BY <1>1, <1>2, <1>3, <1>5, <1>7, FreeBlock
<1>9. PICK M0, sp0, lv0 : /\ M0 = N \cup {tall}
                          /\ sp0 = [b \in M0 |-> IF b = tall THEN Keys ELSE span[b]]
                          /\ lv0 = [b \in M0 |-> IF b = tall THEN level[root] + 1 ELSE level[b]]
  OBVIOUS
<1>10. node[root].nr_of_keys = 2 * T - 1
  BY <1>6 DEF Full
<1>11. /\ ~node[tall].leaf /\ node[tall].nr_of_keys = 0 /\ node[tall].children[0] = root
       /\ \A j \in Slots : node[tall].entries[j] = 0
  BY <1>6 DEF IsRaised
<1>12. Shape(node, tall, M0, sp0, lv0)
  <2>1. node[root].nr_of_keys >= T - 1
    BY <1>10, ConstantFacts
  <2>2. Shape(node, root, N, span, level)
    BY <1>1, <1>7
  <2> QED BY <2>1, <2>2, <1>6, <1>9, <1>11, RaiseShape
<1>13. Content(node, M0) = names
  BY <1>1, <1>2, <1>6, <1>9, <1>11, RaiseContent
<1>14. ASSUME Stale(node, N, span) PROVE Stale(node, M0, sp0)
  <2> SUFFICES ASSUME NEW b \in M0, NEW j \in Slots, j >= node[b].nr_of_keys
               PROVE  node[b].entries[j] \notin sp0[b]
    BY DEF Stale
  <2>1. CASE b = tall
    BY <2>1, <1>9, <1>11, ConstantFacts
  <2>2. CASE b # tall
    BY <2>2, <1>9, <1>14 DEF Stale
  <2> QED BY <2>1, <2>2
<1>15. SplitCase(node, tall, M0, sp0, lv0, new, tall, root, 0, rhs)
  <2>1. 0 \in 0..node[tall].nr_of_keys /\ node[tall].nr_of_keys \in 0..(2 * T - 2)
    BY <1>11, ConstantFacts
  <2>2. ~Full(node[tall])
    BY <1>11, ConstantFacts DEF Full
  <2>3. tall # root /\ rhs # root
    BY <1>1, <1>6, <1>8
  <2>4. IsSplit(node, new, tall, root, 0, rhs)
    BY <2>1, <2>2, <2>3, <1>1, <1>4, <1>6, <1>8, SplitIs
  <2>5. tall \in M0 /\ rhs \notin M0
    BY <1>8, <1>9
  <2> QED BY <2>1, <2>4, <2>5, <1>8, <1>10, <1>11, <1>12 DEF SplitCase
<1>16. PICK m : m = node[root].entries[T - 1]
  OBVIOUS
<1>17. PICK M, sp, lv : /\ M = M0 \cup {rhs} /\ sp = SpanAfter(sp0, M0, root, rhs, m)
                        /\ lv = LevelAfter(lv0, M0, root, rhs)
  OBVIOUS
<1>18. Shape(new, tall, M, sp, lv)
  BY <1>15, <1>16, <1>17, SplitShape
<1>19. Stale(node, N, span) => Stale(new, M, sp)
  BY <1>14, <1>15, <1>16, <1>17, SplitStale
<1>20. Content(new, M) = names
  BY <1>13, <1>15, <1>17, SplitContent
<1>21. PICK at : at = IF new[tall].entries[0] < call.key THEN rhs ELSE root
  OBVIOUS
<1>22. at \in M /\ call.key \in sp[at] /\ ~Full(new[at])
  <2>1. sp0[root] = Keys
    <3>1. span[root] = Keys /\ root # tall /\ root \in M0
      BY <1>1, <1>6, <1>7, <1>9 DEF Shape
    <3> QED BY <3>1, <1>9
  <2>2. call.key \in sp0[root] /\ call.key \notin Content(node, M0)
    BY <2>1, <1>6, <1>13
  <2> QED BY <2>2, <1>15, <1>16, <1>17, <1>21, SplitWalk
<1>23. /\ call'.op = "insert" /\ call'.tall = tall /\ call'.name = call.name
       /\ call'.key = call.key /\ call'.at = at /\ call' \in Call
  BY <1>1, <1>3, <1>5, <1>8, <1>21 DEF Call, Ops
<1>24. Top' = tall
  <2>1. tall # 0
    BY <1>6, ConstantFacts
  <2> QED BY <2>1, <1>23 DEF Top
<1>25. new \in [Blocks -> Node] /\ new[root].nr_of_files = node[root].nr_of_files
  BY <1>15 DEF SplitCase, IsSplit
<1>26. TypeOK'
  BY <1>2, <1>5, <1>8, <1>23, <1>25 DEF TypeOK
<1>27. CallSane(M, sp)'
  BY <1>5, <1>6, <1>22, <1>23 DEF CallSane
<1>28. Raised' = {}
  BY <1>23 DEF Raised
<1>29. /\ M \subseteq used' \ other' /\ root' \in M
       /\ (tight => used' \ other' \subseteq M)
  BY <1>1, <1>2, <1>5, <1>7, <1>8, <1>9, <1>17
<1>30. Shape(node, Top, M, sp, lv)' /\ (Stale(node, N, span) => Stale(node, M, sp)') /\ (Content(node, M) = names)'
       /\ (node[root].nr_of_files = Cardinality(names))' /\ harm' = {}
  BY <1>2, <1>5, <1>18, <1>19, <1>20, <1>24, <1>25
<1>31. Growing(M, sp, lv, tight)'
  BY <1>26, <1>27, <1>28, <1>29, <1>30 DEF Growing
<1> QED BY <1>30, <1>31

(* The key goes to its place in a leaf, and the call ends.                 *)
LEMMA PutInLeafGrows ==
  ASSUME NEW N, NEW span, NEW level, NEW tight \in BOOLEAN, Growing(N, span, level, tight),
         PutInLeaf
  PROVE  /\ Growing(N, span, level, tight)' /\ (Stale(node, N, span) => Stale(node, N, span)')
         /\ names' = names \cup {call.name}
<1>1. /\ node \in [Blocks -> Node] /\ used \in SUBSET Blocks /\ other \in SUBSET used
      /\ root \in N /\ root \in Blocks /\ N \in SUBSET Blocks /\ N \subseteq used \ other
      /\ Shape(node, Top, N, span, level) /\ call \in Call /\ names \in SUBSET Keys
      /\ Top \in N /\ IsFiniteSet(names) /\ Cardinality(names) \in Nat
  BY GrowingFacts
<1>2. /\ CallSane(N, span) /\ Content(node, N) = names /\ node[root].nr_of_files = Cardinality(names)
      /\ TypeOK /\ harm = {} /\ N \cup Raised \subseteq used \ other
      /\ (tight => used \ other \subseteq N \cup Raised)
  BY DEF Growing
<1>3. PICK at, key : at = call.at /\ key = call.key
  OBVIOUS
<1>4. PICK new : new = [node EXCEPT ![at] =
           [node[at] EXCEPT !.entries = Inserted(@, Before(node[at], key), node[at].nr_of_keys, key),
                            !.nr_of_keys = @ + 1]]
  OBVIOUS
<1>5. /\ call.op = "insert" /\ node[at].leaf /\ FinishInsert(new)
      /\ used' = used /\ other' = other /\ harm' = harm /\ removals' = removals
  BY <1>3, <1>4 DEF PutInLeaf, Here, Place
<1>6. /\ at \in N /\ key \in span[at] /\ ~Full(node[at])
      /\ call.name = key /\ key \in Keys /\ key \notin names
  BY <1>2, <1>3, <1>5 DEF CallSane
<1>7. ~Holds(node[at], key)
  BY <1>2, <1>6 DEF Content
<1>8. IsPut(node, new, at, key)
  BY <1>1, <1>4, <1>5, <1>6, PutIs
<1>9. /\ Shape(new, Top, N, span, level) /\ Content(new, N) = names \cup {key}
      /\ (Stale(node, N, span) => Stale(new, N, span))
  BY <1>1, <1>2, <1>6, <1>7, <1>8, PutShape
<1>10. new \in [Blocks -> Node] /\ new[root].nr_of_files = node[root].nr_of_files
  BY <1>1, <1>8 DEF IsPut
<1>11. /\ SameTree(new, node', N) /\ root' = Top /\ Top' = Top /\ call' = Idle
       /\ names' = names \cup {key} /\ node'[root'].nr_of_files = new[root].nr_of_files + 1
       /\ node' \in [Blocks -> Node]
  BY <1>1, <1>5, <1>6, <1>10, FinishIs
<1>12. /\ Shape(node', Top, N, span, level) /\ Content(node', N) = Content(new, N)
       /\ (Stale(new, N, span) => Stale(node', N, span))
  BY <1>9, <1>11, SameShape
<1>13. Cardinality(names') = Cardinality(names) + 1
  BY <1>1, <1>6, <1>11, FS_AddElement
<1>14. Idle \in Call /\ Idle.op = "idle"
  BY DEF Call, Idle, Ops, Hashes
<1>15. Raised' = {} /\ Raised = {}
  BY <1>5, <1>11, <1>14 DEF Raised
<1>16. TypeOK'
  BY <1>1, <1>2, <1>5, <1>6, <1>11, <1>14 DEF TypeOK
<1>17. CallSane(N, span)'
  BY <1>11, <1>14 DEF CallSane
<1>18. Shape(node, Top, N, span, level)' /\ (Stale(node, N, span) => Stale(node, N, span)') /\ (Content(node, N) = names)'
  BY <1>9, <1>11, <1>12
<1>19. (node[root].nr_of_files = Cardinality(names))'
  BY <1>2, <1>10, <1>11, <1>13
<1>20. Growing(N, span, level, tight)'
  BY <1>1, <1>2, <1>5, <1>11, <1>15, <1>16, <1>17, <1>18, <1>19 DEF Growing
<1> QED BY <1>6, <1>11, <1>18, <1>20

\* The child below which the key of the call belongs.
LEMMA ChildIs ==
  ASSUME NEW N, NEW span, NEW level, NEW tight, Growing(N, span, level, tight),
         call.op = "insert", ~Here.leaf
  PROVE  /\ Here = node[call.at] /\ call.at \in N /\ ~Full(node[call.at])
         /\ Place \in 0..node[call.at].nr_of_keys
         /\ Child = node[call.at].children[Place]
         /\ Child \in N /\ call.key \in span[Child]
<1>1. /\ node \in [Blocks -> Node] /\ N \in SUBSET Blocks
      /\ Shape(node, Top, N, span, level) /\ span \in [N -> SUBSET Keys]
      /\ Content(node, N) = names
  BY GrowingFacts DEF Growing
<1>2. CallSane(N, span)
  BY DEF Growing
<1>3. /\ call.at \in N /\ call.key \in span[call.at] /\ ~Full(node[call.at])
      /\ call.key \in Keys /\ call.key \notin names
  BY <1>2 DEF CallSane
<1>4. PICK x, k : x = node[call.at] /\ k = call.key
  OBVIOUS
<1>5. Here = x /\ Place = Before(x, k) /\ Child = x.children[Place]
  BY <1>4 DEF Here, Place, Child
<1>6. x \in Node /\ NodeSound(x, call.at, N, span, level) /\ k \in Nat
  BY <1>1, <1>3, <1>4, ConstantFacts DEF Shape
<1>7. ~Holds(x, k)
  BY <1>1, <1>3, <1>4 DEF Content
<1>8. PICK i : i = Before(x, k)
  OBVIOUS
<1>9. i \in 0..x.nr_of_keys /\ k \in Between(x, i, span[call.at])
  <2>1. PICK K \in SUBSET Keys : K = span[call.at] /\ k \in K
    BY <1>1, <1>3, <1>4
  <2>2. Sorted(x)
    BY <1>6 DEF NodeSound
  <2> QED BY <2>1, <2>2, <1>6, <1>7, <1>8, PlaceIsBetween
<1>10. x.children[i] \in N /\ span[x.children[i]] = Between(x, i, span[call.at])
  BY <1>5, <1>6, <1>9 DEF NodeSound
<1> QED BY <1>3, <1>4, <1>5, <1>8, <1>9, <1>10

(* The walk goes one level down.                                           *)
LEMMA WalkDownGrows ==
  ASSUME NEW N, NEW span, NEW level, NEW tight \in BOOLEAN, Growing(N, span, level, tight),
         WalkDown
  PROVE  Growing(N, span, level, tight)' /\ (Stale(node, N, span) => Stale(node, N, span)')
<1>1. /\ node \in [Blocks -> Node] /\ N \in SUBSET Blocks /\ call \in Call
      /\ N \subseteq used \ other
  BY GrowingFacts
<1>2. /\ CallSane(N, span) /\ TypeOK /\ N \cup Raised \subseteq used \ other
      /\ (tight => used \ other \subseteq N \cup Raised)
  BY DEF Growing
<1>3. PICK c : c = Child
  OBVIOUS
<1>4. /\ call.op = "insert" /\ ~Here.leaf /\ ~Full(node[c])
      /\ call' = [call EXCEPT !.at = c, !.below = TRUE]
      /\ used' = used /\ other' = other /\ node' = node
      /\ root' = root /\ names' = names /\ harm' = harm /\ removals' = removals
  BY <1>3 DEF WalkDown
<1>5. c \in N /\ call.key \in span[c]
  BY <1>3, <1>4, ChildIs
<1>6. PICK b \in BOOLEAN : b = TRUE
  OBVIOUS
<1>7. call' = [call EXCEPT !.at = c, !.below = b]
  BY <1>4, <1>6, Zenon
<1>8. /\ call'.op = call.op /\ call'.tall = call.tall /\ call'.name = call.name
      /\ call'.key = call.key /\ call'.at = c /\ call' \in Call
  BY <1>1, <1>5, <1>7 DEF Call
<1>9. Top' = Top /\ Raised' = Raised
  BY <1>4, <1>8 DEF Top, Raised
<1>10. /\ Shape(node, Top, N, span, level)' /\ (Stale(node, N, span) => Stale(node, N, span)')
       /\ (Content(node, N) = names)' /\ root' \in N
       /\ (node[root].nr_of_files = Cardinality(names))' /\ harm' = {}
  BY <1>4, <1>9, SameTreeGrows
<1>11. TypeOK'
  BY <1>2, <1>4, <1>8 DEF TypeOK
<1>12. CallSane(N, span)'
  BY <1>2, <1>4, <1>5, <1>8 DEF CallSane
<1> QED BY <1>2, <1>4, <1>9, <1>10, <1>11, <1>12 DEF Growing

(* The child is split first.                                               *)
LEMMA SplitAndWalkDownGrows ==
  ASSUME NEW N, NEW span, NEW level, NEW tight \in BOOLEAN, Growing(N, span, level, tight),
         SplitAndWalkDown
  PROVE  \E M, sp, lv : Growing(M, sp, lv, tight)' /\ (Stale(node, N, span) => Stale(node, M, sp)')
<1>1. /\ node \in [Blocks -> Node] /\ used \in SUBSET Blocks /\ other \in SUBSET used
      /\ root \in N /\ root \in Blocks /\ N \in SUBSET Blocks /\ N \subseteq used \ other
      /\ Shape(node, Top, N, span, level) /\ call \in Call
  BY GrowingFacts
<1>2. /\ CallSane(N, span) /\ Content(node, N) = names /\ node[root].nr_of_files = Cardinality(names)
      /\ TypeOK /\ harm = {} /\ (tight => used \ other \subseteq N \cup Raised)
  BY DEF Growing
<1>3. PICK par, lhs, i, rhs : par = call.at /\ lhs = Child /\ i = Place /\ rhs = LeastOf(Free)
  OBVIOUS
<1>4. PICK new : new = SplitChild(node, par, lhs, i, rhs)
  OBVIOUS
<1>5. PICK at : at = IF new[par].entries[i] < call.key THEN rhs ELSE lhs
  OBVIOUS
<1>6. /\ call.op = "insert" /\ ~Here.leaf /\ Full(node[lhs]) /\ Free # {}
      /\ used' = used \cup {rhs} /\ node' = new
      /\ call' = [call EXCEPT !.below = TRUE, !.at = at]
      /\ other' = other /\ root' = root /\ names' = names /\ harm' = harm /\ removals' = removals
  BY <1>3, <1>4, <1>5 DEF SplitAndWalkDown
<1>7. /\ par \in N /\ ~Full(node[par]) /\ ~node[par].leaf
      /\ i \in 0..node[par].nr_of_keys /\ lhs = node[par].children[i]
      /\ lhs \in N /\ call.key \in span[lhs]
  BY <1>3, <1>6, ChildIs
<1>8. rhs \in Blocks /\ rhs \notin used /\ rhs \notin N
  BY <1>1, <1>3, <1>6, FreeBlock
<1>9. SplitCase(node, Top, N, span, level, new, par, lhs, i, rhs)
  <2>1. node[lhs].nr_of_keys = 2 * T - 1
    BY <1>6 DEF Full
  <2>2. node[par].nr_of_keys \in 0..(2 * T - 2)
    <3>1. node[par].nr_of_keys \in 0..(2 * T - 1) /\ node[par].nr_of_keys # 2 * T - 1
      BY <1>1, <1>7, NodeFacts DEF Full
    <3> QED BY <3>1, ConstantFacts
  <2>3. par # lhs
    BY <1>6, <1>7
  <2>4. par # rhs /\ lhs # rhs
    BY <1>7, <1>8
  <2>5. IsSplit(node, new, par, lhs, i, rhs)
    BY <2>3, <2>4, <1>1, <1>4, <1>7, <1>8, SplitIs
  <2> QED BY <2>1, <2>2, <2>5, <1>1, <1>7, <1>8 DEF SplitCase
<1>10. PICK m : m = node[lhs].entries[T - 1]
  OBVIOUS
<1>11. PICK M, sp, lv : /\ M = N \cup {rhs} /\ sp = SpanAfter(span, N, lhs, rhs, m)
                        /\ lv = LevelAfter(level, N, lhs, rhs)
  OBVIOUS
<1>12. Shape(new, Top, M, sp, lv)
  BY <1>9, <1>10, <1>11, SplitShape
<1>13. Stale(node, N, span) => Stale(new, M, sp)
  BY <1>9, <1>10, <1>11, SplitStale
<1>14. Content(new, M) = names
  BY <1>2, <1>9, <1>11, SplitContent
<1>15. call.name = call.key /\ call.key \in Keys \ names
  BY <1>2, <1>6 DEF CallSane
<1>16. at \in M /\ call.key \in sp[at] /\ ~Full(new[at])
  <2>1. call.key \notin Content(node, N)
    BY <1>2, <1>15
  <2>2. PICK key : key = call.key
    OBVIOUS
  <2>3. key \in span[lhs] /\ key \notin Content(node, N)
        /\ at = IF new[par].entries[i] < key THEN rhs ELSE lhs
    BY <2>1, <2>2, <1>5, <1>7
  <2>4. /\ at \in N \cup {rhs} /\ key \in SpanAfter(span, N, lhs, rhs, m)[at]
        /\ ~Full(new[at])
    BY <2>3, <1>9, <1>10, SplitWalk
  <2> QED BY <2>2, <2>4, <1>11
<1>17. PICK b \in BOOLEAN : b = TRUE
  OBVIOUS
<1>18. call' = [call EXCEPT !.below = b, !.at = at]
  BY <1>6, <1>17, Zenon
<1>19. M \in SUBSET Blocks
  BY <1>1, <1>8, <1>11
<1>20. /\ call'.op = call.op /\ call'.tall = call.tall /\ call'.name = call.name
       /\ call'.key = call.key /\ call'.at = at /\ call' \in Call
  BY <1>1, <1>16, <1>18, <1>19 DEF Call
<1>21. Top' = Top /\ Raised' = {} /\ Raised = {}
  BY <1>6, <1>20 DEF Top, Raised
<1>22. new \in [Blocks -> Node] /\ new[root].nr_of_files = node[root].nr_of_files
  <2>1. root # rhs
    BY <1>1, <1>8
  <2> QED BY <2>1, <1>1, <1>9 DEF SplitCase, IsSplit
<1>23. TypeOK'
  BY <1>2, <1>6, <1>8, <1>20, <1>22 DEF TypeOK
<1>24. CallSane(M, sp)'
  BY <1>6, <1>15, <1>16, <1>20 DEF CallSane
<1>25. M \subseteq used' \ other' /\ root' \in M /\ (tight => used' \ other' \subseteq M)
  BY <1>1, <1>2, <1>6, <1>8, <1>11, <1>21
<1>26. Shape(node, Top, M, sp, lv)' /\ (Stale(node, N, span) => Stale(node, M, sp)') /\ (Content(node, M) = names)'
       /\ (node[root].nr_of_files = Cardinality(names))' /\ harm' = {}
  BY <1>2, <1>6, <1>12, <1>13, <1>14, <1>21, <1>22
<1>27. Growing(M, sp, lv, tight)'
  BY <1>21, <1>23, <1>24, <1>25, <1>26 DEF Growing
<1> QED BY <1>26, <1>27

(* The volume is full, and the call fails.                                 *)
LEMMA NoRoomGrows ==
  ASSUME NEW N, NEW span, NEW level, NEW tight \in BOOLEAN, Growing(N, span, level, tight),
         NoRoom, ~tight
  PROVE  \/ Growing(N, span, level, tight)' /\ (Stale(node, N, span) => Stale(node, N, span)')
         \/ Damaged'
<1>1. /\ node \in [Blocks -> Node] /\ N \in SUBSET Blocks /\ N \subseteq used \ other
      /\ root \in N
  BY GrowingFacts
<1>2. TypeOK /\ harm = {}
  BY DEF Growing
<1>3. /\ call' = Idle /\ node' = node /\ used' = used /\ other' = other
      /\ root' = root /\ names' = names /\ removals' = removals
  BY DEF NoRoom
<1>4. \/ harm' = harm /\ (call.op \in {"raise", "halve"} \/ call.tall = 0)
      \/ harm' = harm \cup {"upper half dropped"}
  BY DEF NoRoom
<1>5. Idle \in Call /\ Idle.op = "idle"
  BY DEF Call, Idle, Ops, Hashes
<1>6. CASE harm' = harm /\ (call.op \in {"raise", "halve"} \/ call.tall = 0)
  <2>1. Top = root /\ Top' = root /\ Raised' = {}
    BY <1>3, <1>5, <1>6 DEF Top, Raised
  <2>2. /\ Shape(node, Top, N, span, level)' /\ (Stale(node, N, span) => Stale(node, N, span)')
        /\ (Content(node, N) = names)' /\ root' \in N
        /\ (node[root].nr_of_files = Cardinality(names))' /\ harm' = {}
    BY <2>1, <1>3, <1>6, SameTreeGrows
  <2>3. TypeOK'
    BY <1>2, <1>3, <1>5, <1>6 DEF TypeOK
  <2>4. CallSane(N, span)'
    BY <1>3, <1>5 DEF CallSane
  <2>5. Growing(N, span, level, tight)'
    BY <2>1, <2>2, <2>3, <2>4, <1>1, <1>3 DEF Growing
  <2> QED BY <2>2, <2>5
<1>7. CASE harm' = harm \cup {"upper half dropped"}
  <2>1. TypeOK'
    BY <1>2, <1>3, <1>5, <1>7 DEF TypeOK, Harms
  <2> QED BY <2>1, <1>1, <1>3, <1>7 DEF Damaged
<1> QED BY <1>4, <1>6, <1>7

LEMMA NoRoomBelowGrows ==
  ASSUME NEW N, NEW span, NEW level, NEW tight \in BOOLEAN, Growing(N, span, level, tight),
         NoRoomBelow
  PROVE  Damaged'
<1>1. /\ node \in [Blocks -> Node] /\ N \in SUBSET Blocks /\ N \subseteq used \ other
      /\ root \in N /\ root \in Blocks /\ Top \in N /\ names \in SUBSET Keys
  BY GrowingFacts
<1>2. TypeOK /\ CallSane(N, span)
  BY DEF Growing
<1>3. /\ call.op = "insert" /\ FinishInsert(node) /\ harm' = harm \cup {"entry dropped"}
      /\ used' = used /\ other' = other /\ removals' = removals
  BY DEF NoRoomBelow
<1>4. call.name \in Keys
  BY <1>2, <1>3 DEF CallSane
<1>5. /\ root' = Top /\ call' = Idle /\ names' = names \cup {call.name}
      /\ node' \in [Blocks -> Node]
  BY <1>1, <1>3, FinishIs
<1>6. Idle \in Call
  BY DEF Call, Idle, Ops, Hashes
<1>7. TypeOK'
  BY <1>1, <1>2, <1>3, <1>4, <1>5, <1>6 DEF TypeOK, Harms
<1> QED BY <1>1, <1>3, <1>5, <1>7 DEF Damaged

(* Other directories and files take and put blocks that are not this one's. *)
LEMMA ElsewhereGrows ==
  ASSUME NEW N, NEW span, NEW level, NEW tight \in BOOLEAN, Growing(N, span, level, tight),
         Elsewhere
  PROVE  Growing(N, span, level, tight)' /\ (Stale(node, N, span) => Stale(node, N, span)')
<1>1. /\ node \in [Blocks -> Node] /\ N \in SUBSET Blocks /\ N \subseteq used \ other
      /\ used \in SUBSET Blocks /\ other \in SUBSET used /\ root \in N
  BY GrowingFacts
<1>2. /\ TypeOK /\ CallSane(N, span) /\ N \cup Raised \subseteq used \ other
      /\ (tight => used \ other \subseteq N \cup Raised)
  BY DEF Growing
<1>3. /\ node' = node /\ root' = root /\ names' = names /\ call' = call
      /\ harm' = harm /\ removals' = removals
  BY DEF Elsewhere, OtherTakes, OtherPuts
<1>4. /\ used' \in SUBSET Blocks /\ other' \in SUBSET used' /\ used' \ other' = used \ other
  <2>1. CASE OtherTakes
    <3>1. LeastOf(Free) \in Blocks /\ LeastOf(Free) \notin used
      BY <2>1, FreeBlock DEF OtherTakes
    <3> QED BY <2>1, <3>1, <1>1 DEF OtherTakes
  <2>2. CASE \E b \in other : OtherPuts(b)
    <3>1. PICK b \in other : OtherPuts(b)
      BY <2>2
    <3> QED BY <3>1, <1>1 DEF OtherPuts
  <2> QED BY <2>1, <2>2 DEF Elsewhere
<1>5. Top' = Top /\ Raised' = Raised
  BY <1>3 DEF Top, Raised
<1>6. /\ Shape(node, Top, N, span, level)' /\ (Stale(node, N, span) => Stale(node, N, span)')
      /\ (Content(node, N) = names)' /\ root' \in N
      /\ (node[root].nr_of_files = Cardinality(names))' /\ harm' = {}
  BY <1>3, <1>5, SameTreeGrows
<1>7. TypeOK'
  BY <1>1, <1>2, <1>3, <1>4 DEF TypeOK
<1>8. CallSane(N, span)'
  BY <1>2, <1>3 DEF CallSane
<1> QED BY <1>2, <1>4, <1>5, <1>6, <1>7, <1>8 DEF Growing

(* Damage stays, and no call begins after it.                              *)
LEMMA DamageStays ==
  ASSUME Damaged, [InsertNext]_vars
  PROVE  Damaged'
<1>1. TypeOK /\ harm # {} /\ call = Idle /\ root \in used \ other /\ call.op = "idle"
  BY DEF Damaged, Idle
<1>2. CASE UNCHANGED vars
  BY <1>1, <1>2 DEF vars, Damaged, TypeOK
<1>3. CASE Elsewhere
  <2>1. /\ node' = node /\ root' = root /\ names' = names /\ call' = call
        /\ harm' = harm /\ removals' = removals
    BY <1>3 DEF Elsewhere, OtherTakes, OtherPuts
  <2>2. used \in SUBSET Blocks /\ other \in SUBSET used
    BY <1>1 DEF TypeOK
  <2>3. /\ used' \in SUBSET Blocks /\ other' \in SUBSET used' /\ used' \ other' = used \ other
    <3>1. CASE OtherTakes
      <4>1. LeastOf(Free) \in Blocks /\ LeastOf(Free) \notin used
        BY <3>1, FreeBlock DEF OtherTakes
      <4> QED BY <3>1, <4>1, <2>2 DEF OtherTakes
    <3>2. CASE \E b \in other : OtherPuts(b)
      <4>1. PICK b \in other : OtherPuts(b)
        BY <3>2
      <4> QED BY <4>1, <2>2 DEF OtherPuts
    <3> QED BY <1>3, <3>1, <3>2 DEF Elsewhere
  <2>4. TypeOK'
    BY <1>1, <2>1, <2>3 DEF TypeOK
  <2> QED BY <1>1, <2>1, <2>3, <2>4 DEF Damaged
<1>4. \A k \in Keys : ~StartInsert(k)
  BY <1>1 DEF StartInsert
<1>5. ~Insertion
  BY <1>1 DEF Insertion, RaiseRoot, HalveRoot, PutInLeaf, WalkDown, SplitAndWalkDown, NoRoom,
              NoRoomBelow
<1> QED BY <1>2, <1>3, <1>4, <1>5 DEF InsertNext

(* Every step of a directory in which names are created keeps the          *)
(* invariant; and keeps every block in the tree while a block is free.     *)
LEMMA GrowthStep ==
  ASSUME NEW tight \in BOOLEAN, GInv(tight), [InsertNext]_vars, tight => Free # {}
  PROVE  GInv(tight)'
<1>1. CASE ~tight /\ Damaged
  BY <1>1, DamageStays DEF GInv
<1>2. CASE \E N, span, level : Growing(N, span, level, tight) /\ Stale(node, N, span)
  <2>1. PICK N, span, level : Growing(N, span, level, tight) /\ Stale(node, N, span)
    BY <1>2
  <2>2. CASE \E k \in Keys : StartInsert(k)
    BY <2>1, <2>2, StartInsertGrows DEF GInv
  <2>3. CASE RaiseRoot
    BY <2>1, <2>3, RaiseRootGrows DEF GInv
  <2>4. CASE HalveRoot
    BY <2>1, <2>4, HalveRootGrows DEF GInv
  <2>5. CASE PutInLeaf
    BY <2>1, <2>5, PutInLeafGrows DEF GInv
  <2>6. CASE WalkDown
    BY <2>1, <2>6, WalkDownGrows DEF GInv
  <2>7. CASE SplitAndWalkDown
    BY <2>1, <2>7, SplitAndWalkDownGrows DEF GInv
  <2>8. CASE NoRoom
    <3>1. ~tight
      BY <2>8 DEF NoRoom
    <3> QED BY <2>1, <2>8, <3>1, NoRoomGrows DEF GInv
  <2>9. CASE NoRoomBelow
    <3>1. ~tight
      BY <2>9 DEF NoRoomBelow
    <3> QED BY <2>1, <2>9, <3>1, NoRoomBelowGrows DEF GInv
  <2>10. CASE Elsewhere
    BY <2>1, <2>10, ElsewhereGrows DEF GInv
  <2>11. CASE UNCHANGED vars
    <3>1. Growing(N, span, level, tight)' /\ Stale(node, N, span)'
      BY <2>1, <2>11 DEF vars, Growing, TypeOK, CallSane, Top, Raised
    <3> QED BY <3>1 DEF GInv
  <2> QED BY <2>2, <2>3, <2>4, <2>5, <2>6, <2>7, <2>8, <2>9, <2>10, <2>11
          DEF InsertNext, Insertion
<1> QED BY <1>1, <1>2 DEF GInv

----
(* The properties.                                                         *)

\* The tree as it is walked from the root consists of the blocks N.
LEMMA TreeIs ==
  ASSUME NEW N, NEW span, NEW level, Frame(node, Top, N, span, level)
  PROVE  /\ Tree = N
         /\ \A h \in 0..MaxLevel : Level[h] = {b \in N : level[b] = level[Top] - h}
         /\ level[Top] \in 0..MaxLevel
<1>1. /\ node \in [Blocks -> Node] /\ N \in SUBSET Blocks /\ Top \in N
      /\ level \in [N -> Nat] /\ 0 \notin N
      /\ \A b \in N : level[b] <= level[Top]
      /\ \A b \in N : NodeLinks(node[b], b, N, span, level)
      /\ \A b \in N \ {Top} : \E p \in N : PointsTo(node[p], b)
  BY ConstantFacts DEF Frame
<1>2. PICK top, L : top = Top /\ L = level[Top]
  OBVIOUS
<1>3. L \in Nat /\ L \in 0..(MaxLevel - 1) /\ L \in 0..MaxLevel
  BY <1>1, <1>2, TreesAreLow, LevelsAreANumber
<1>4. PICK S, step : /\ S = SUBSET (Blocks \cup {0})
                     /\ step = [U \in S |-> UNION {ChildrenOf(node[b]) : b \in U \ {0}}]
  OBVIOUS
<1>5. ASSUME NEW b \in N, NEW c
      PROVE  /\ PointsTo(node[b], c) <=> c \in ChildrenOf(node[b])
             /\ PointsTo(node[b], c) => c \in N /\ level[c] = level[b] - 1
  <2>1. PointsTo(node[b], c) <=> c \in ChildrenOf(node[b])
    BY DEF PointsTo, ChildrenOf
  <2>2. PointsTo(node[b], c) => c \in N /\ level[c] = level[b] - 1
    BY <1>1 DEF PointsTo, NodeLinks
  <2> QED BY <2>1, <2>2
<1>6. ASSUME NEW m \in Nat, NEW U, U = {b \in N : level[b] = L - m}
      PROVE  UNION {ChildrenOf(node[b]) : b \in U \ {0}} = {b \in N : level[b] = L - (m + 1)}
  <2>1. ASSUME NEW b \in U, NEW c \in ChildrenOf(node[b])
        PROVE  c \in N /\ level[c] = L - (m + 1)
    <3>1. b \in N /\ level[b] = L - m
      BY <1>6
    <3>2. c \in N /\ level[c] = level[b] - 1
      BY <3>1, <1>5
    <3> QED BY <3>1, <3>2, <1>3
  <2>2. ASSUME NEW c \in N, level[c] = L - (m + 1)
        PROVE  \E b \in U \ {0} : c \in ChildrenOf(node[b])
    <3>1. c # top
      BY <2>2, <1>2, <1>3
    <3>2. PICK p \in N : PointsTo(node[p], c)
      BY <3>1, <1>1, <1>2
    <3>3. level[c] = level[p] - 1 /\ c \in ChildrenOf(node[p]) /\ level[p] \in Nat
      BY <3>2, <1>1, <1>5
    <3>4. level[p] = L - m
      BY <3>3, <2>2, <1>3
    <3>5. p \in U \ {0}
      BY <3>4, <1>1, <1>6
    <3> QED BY <3>3, <3>5
  <2> QED BY <2>1, <2>2
<1>7. step \in [S -> S] /\ {top} \in S
  <2>1. ASSUME NEW x \in Node PROVE ChildrenOf(x) \subseteq Blocks \cup {0}
    <3>1. x.nr_of_keys \in 0..(2 * T - 1) /\ x.children \in [0..(2 * T - 1) -> Blocks \cup {0}]
      BY NodeFacts
    <3>2. \A i \in 0..x.nr_of_keys : i \in 0..(2 * T - 1)
      BY <3>1, ConstantFacts
    <3> QED BY <3>1, <3>2 DEF ChildrenOf
  <2>2. ASSUME NEW U \in S PROVE UNION {ChildrenOf(node[b]) : b \in U \ {0}} \in S
    <3>1. \A b \in U \ {0} : node[b] \in Node
      BY <1>1, <1>4
    <3>2. \A b \in U \ {0} : ChildrenOf(node[b]) \subseteq Blocks \cup {0}
      BY <3>1, <2>1
    <3> QED BY <3>2, <1>4
  <2> QED BY <2>2, <1>1, <1>2, <1>4
<1>8. Level = Walk(step, {top})
  BY <1>2, <1>4 DEF Level
<1>9. PICK w : w = Walk(step, {top})
  OBVIOUS
<1>10. PICK x \in S : x = {top}
  BY <1>7
<1>11. w \in [0..MaxLevel -> S] /\ w[0] = x /\ \A h \in 1..MaxLevel : w[h] = step[w[h - 1]]
  <2>1. w = Walk(step, x)
    BY <1>9, <1>10
  <2>2. Stays(step, S)
    BY <1>7 DEF Stays
  <2> QED BY <2>1, <2>2, <1>7, WalkIs
<1> DEFINE On(h) == {b \in N : level[b] = L - h}
           Bad == {h \in 0..MaxLevel : w[h] # On(h)}
<1>12. On(0) = {top}
  <2>1. ASSUME NEW b \in N, b # top PROVE level[b] # L
    <3>1. PICK p \in N : PointsTo(node[p], b)
      BY <2>1, <1>1, <1>2
    <3>2. level[b] = level[p] - 1 /\ level[p] \in Nat /\ level[p] <= L
      BY <3>1, <1>1, <1>2, <1>5
    <3> QED BY <3>2, <1>3
  <2>2. top \in N /\ level[top] = L /\ L - 0 = L
    BY <1>1, <1>2, <1>3
  <2> QED BY <2>1, <2>2
<1>13. Bad = {}
  <2> SUFFICES ASSUME Bad # {} PROVE FALSE
    OBVIOUS
  <2>1. PICK m \in Bad : \A h \in Bad : m <= h
    <3>1. Bad \in SUBSET Nat
      BY LevelsAreANumber
    <3> HIDE DEF Bad
    <3> QED BY <3>1, LeastOfIsMember
  <2>2. m # 0
    BY <2>1, <1>10, <1>11, <1>12
  <2>3. m \in 1..MaxLevel /\ m - 1 \in 0..MaxLevel /\ m - 1 < m /\ m - 1 \in Nat /\ (m - 1) + 1 = m
    BY <2>1, <2>2, LevelsAreANumber
  <2>4. w[m - 1] = On(m - 1)
    BY <2>1, <2>3
  <2>5. w[m] = UNION {ChildrenOf(node[b]) : b \in w[m - 1] \ {0}}
    BY <2>3, <1>4, <1>10, <1>11
  <2>6. PICK a, U : /\ a = m - 1 /\ a \in Nat /\ a + 1 = m
                    /\ U = w[a] /\ U = {b \in N : level[b] = L - a}
    BY <2>3, <2>4
  <2>7. UNION {ChildrenOf(node[b]) : b \in U \ {0}} = {b \in N : level[b] = L - (a + 1)}
    BY <2>6, <1>6
  <2>8. w[m] = On(m)
    BY <2>5, <2>6, <2>7
  <2> QED BY <2>1, <2>8
<1>14. \A h \in 0..MaxLevel : Level[h] = {b \in N : level[b] = level[Top] - h}
  BY <1>2, <1>8, <1>9, <1>13
<1>15. Tree = N
  <2>1. Tree = UNION {Level[h] : h \in 0..MaxLevel}
    BY DEF Tree
  <2>2. ASSUME NEW b \in N PROVE \E h \in 0..MaxLevel : b \in Level[h]
    <3>1. level[b] \in Nat /\ level[b] <= L
      BY <1>1, <1>2
    <3>2. PICK h \in 0..MaxLevel : h = L - level[b]
      BY <3>1, <1>3, LevelsAreANumber
    <3>3. level[b] = L - h
      BY <3>1, <3>2, <1>3
    <3> QED BY <3>2, <3>3, <1>2, <1>14
  <2>3. \A h \in 0..MaxLevel : Level[h] \subseteq N
    BY <1>14
  <2> HIDE DEF On, Bad
  <2> QED BY <2>1, <2>2, <2>3
<1> QED BY <1>2, <1>3, <1>14, <1>15

(* Lookup finds the names that have been created, at every moment of a call. *)
LEMMA LookupIsNames ==
  ASSUME NEW N, NEW span, NEW level, NEW tight, Growing(N, span, level, tight), Stale(node, N, span),
         NEW k \in Keys
  PROVE  Lookup(Top, k) <=> k \in names
<1>1. Shape(node, Top, N, span, level) /\ Content(node, N) = names
  BY DEF Growing
<1>2. k \in names => Lookup(Top, k)
  BY <1>1, LookupFinds
<1>3. Lookup(Top, k) => k \in names
  BY <1>1, LookupFindsNoOther
<1> QED BY <1>2, <1>3

(* One pointer per node other than the root.                               *)
LEMMA PointersCounted ==
  ASSUME NEW nodes, NEW top, NEW N, NEW span, NEW level,
         Shape(nodes, top, N, span, level)
  PROVE  Cardinality({p \in N \X Kids : ~nodes[p[1]].leaf /\ p[2] <= nodes[p[1]].nr_of_keys})
           = Cardinality(N) - 1
<1>1. /\ nodes \in [Blocks -> Node] /\ N \in SUBSET Blocks /\ top \in N
      /\ \A b \in N : NodeSound(nodes[b], b, N, span, level)
      /\ \A b \in N \ {top} : \E p \in N : PointsTo(nodes[p], b)
  BY DEF Shape
<1>2. PICK P : P = {p \in N \X Kids : ~nodes[p[1]].leaf /\ p[2] <= nodes[p[1]].nr_of_keys}
  OBVIOUS
<1>3. PICK R : R = N \ {top}
  OBVIOUS
<1>4. \A p \in P : p[1] \in N /\ ~nodes[p[1]].leaf /\ p[2] \in 0..nodes[p[1]].nr_of_keys
  <2> SUFFICES ASSUME NEW p \in P
               PROVE  p[1] \in N /\ ~nodes[p[1]].leaf /\ p[2] \in 0..nodes[p[1]].nr_of_keys
    OBVIOUS
  <2>1. p \in N \X Kids /\ ~nodes[p[1]].leaf /\ p[2] <= nodes[p[1]].nr_of_keys
    BY <1>2
  <2>2. p[1] \in N /\ p[2] \in Kids
    BY <2>1
  <2>3. p[2] \in Int /\ 0 <= p[2]
    BY <2>2, ConstantFacts DEF Kids
  <2>4. nodes[p[1]].nr_of_keys \in Int
    BY <2>2, <1>1, NodeFacts
  <2> QED BY <2>1, <2>2, <2>3, <2>4
<1>5. PICK f : f = [p \in P |-> nodes[p[1]].children[p[2]]]
  OBVIOUS
<1>6. \A p \in P : f[p] \in R
  <2> SUFFICES ASSUME NEW p \in P PROVE f[p] \in R
    OBVIOUS
  <2>1. PICK b, i : b \in N /\ b = p[1] /\ i = p[2] /\ ~nodes[b].leaf /\ i \in 0..nodes[b].nr_of_keys
    BY <1>4
  <2>2. f[p] = nodes[b].children[i]
    BY <1>5, <2>1
  <2>3. nodes[b].children[i] \in N
    BY <1>1, <2>1 DEF NodeSound
  <2>4. nodes[b].children[i] # top
    BY <1>3, <2>1, OnePointer
  <2> QED BY <1>3, <2>2, <2>3, <2>4
<1>7. \A p, q \in P : f[p] = f[q] => p = q
  <2> SUFFICES ASSUME NEW p \in P, NEW q \in P, f[p] = f[q] PROVE p = q
    OBVIOUS
  <2>1. PICK b, i : b \in N /\ b = p[1] /\ i = p[2] /\ ~nodes[b].leaf /\ i \in 0..nodes[b].nr_of_keys
    BY <1>4
  <2>2. PICK c, j : c \in N /\ c = q[1] /\ j = q[2] /\ ~nodes[c].leaf /\ j \in 0..nodes[c].nr_of_keys
    BY <1>4
  <2>3. nodes[b].children[i] = nodes[c].children[j]
    BY <1>5, <2>1, <2>2
  <2>4. b = c /\ i = j
    BY <2>1, <2>2, <2>3, OnePointer
  <2>5. p = <<b, i>> /\ q = <<c, j>>
    BY <1>2, <2>1, <2>2
  <2> QED BY <2>4, <2>5
<1>8. \A b \in R : \E p \in P : f[p] = b
  <2> SUFFICES ASSUME NEW b \in R PROVE \E p \in P : f[p] = b
    OBVIOUS
  <2>1. PICK c \in N : PointsTo(nodes[c], b)
    BY <1>1, <1>3
  <2>2. PICK i \in 0..nodes[c].nr_of_keys : ~nodes[c].leaf /\ nodes[c].children[i] = b
    BY <2>1 DEF PointsTo
  <2>3. i \in Kids /\ i <= nodes[c].nr_of_keys
    <3>1. PICK n \in 0..(2 * T - 1) : n = nodes[c].nr_of_keys
      BY <1>1, NodeFacts
    <3> QED BY <3>1, <2>2, ConstantFacts DEF Kids
  <2>4. <<c, i>> \in P
    BY <1>2, <2>2, <2>3
  <2>5. f[<<c, i>>] = b
    BY <1>5, <2>2, <2>4
  <2> QED BY <2>4, <2>5
<1>9. IsFiniteSet(N) /\ IsFiniteSet(R)
  BY <1>1, <1>3, ConstantFacts, FS_Subset
<1>10. f \in Bijection(P, R)
  <2>1. f \in [P -> R]
    BY <1>5, <1>6
  <2>2. f \in Injection(P, R)
    BY <2>1, <1>7, Fun_IsInj
  <2>3. f \in Surjection(P, R)
    BY <2>1, <1>8, Fun_IsSurj
  <2> QED BY <2>2, <2>3, Fun_IsBij
<1>11. ExistsBijection(R, P)
  BY <1>10, Fun_ExistsBijSymmetric DEF ExistsBijection
<1>12. Cardinality(P) = Cardinality(R)
  BY <1>9, <1>11, FS_Bijection
<1>13. Cardinality(R) = Cardinality(N) - 1
  BY <1>1, <1>3, <1>9, FS_RemoveElement
<1> QED BY <1>2, <1>12, <1>13

(* The invariant implies the properties.                                   *)
LEMMA GrowingImplies ==
  ASSUME NEW tight \in BOOLEAN, GInv(tight)
  PROVE  /\ TypeOK /\ Balanced /\ TreeOwnsItsBlocks /\ NamesStay /\ FoundExactly /\ CountMoves
         /\ tight => NothingLeaks /\ harm = {}
<1>1. CASE ~tight /\ Damaged
  BY <1>1 DEF Damaged, Balanced, TreeOwnsItsBlocks, NamesStay, FoundExactly, CountMoves
<1>2. CASE \E N, span, level : Growing(N, span, level, tight) /\ Stale(node, N, span)
  <2>1. PICK N, span, level : Growing(N, span, level, tight) /\ Stale(node, N, span)
    BY <1>2
  <2>2. /\ node \in [Blocks -> Node] /\ N \in SUBSET Blocks /\ level \in [N -> Nat]
        /\ Top \in N /\ N \subseteq used \ other /\ names \in SUBSET Keys
        /\ Shape(node, Top, N, span, level) /\ other \in SUBSET used
    BY <2>1, GrowingFacts
  <2>3. /\ Tree = N /\ \A h \in 0..MaxLevel : Level[h] = {b \in N : level[b] = level[Top] - h}
        /\ level[Top] \in 0..MaxLevel
    BY <2>2, ShapeIsFrame, TreeIs
  <2>4. \A k \in Keys : Lookup(Top, k) <=> k \in names
    BY <2>1, LookupIsNames
  <2>5. /\ TypeOK /\ harm = {} /\ Content(node, N) = names
        /\ tight => used \ other \subseteq N \cup Raised
        /\ node[root].nr_of_files = Cardinality(names)
    BY <2>1 DEF Growing
  <2>6. \A b \in N : NodeSound(node[b], b, N, span, level)
    BY <2>2 DEF Shape
  <2>7. Balanced
    <3>1. 0 \notin N
      BY <2>2, ConstantFacts
    <3>2. {b \in N : node[b].leaf} = Level[level[Top]]
      <4>1. \A b \in N : node[b].leaf <=> level[b] = 0
        BY <2>6 DEF NodeSound
      <4>2. level[Top] - level[Top] = 0
        BY <2>2
      <4> QED BY <4>1, <4>2, <2>3
    <3>3. \A b \in N : b # Top => node[b].nr_of_keys >= T - 1
      BY <2>2 DEF Shape
    <3>4. \A b \in N : \A i, j \in Slots : i < j /\ j < node[b].nr_of_keys =>
              node[b].entries[i] < node[b].entries[j]
      BY <2>6 DEF NodeSound, Sorted
    <3> QED BY <3>1, <3>2, <3>3, <3>4, <2>3 DEF Balanced
  <2>8. TreeOwnsItsBlocks
    BY <2>2, <2>3, PointersCounted DEF TreeOwnsItsBlocks
  <2>9. NamesStay
    <3> SUFFICES ASSUME NEW k \in names PROVE Lookup(Top, k) /\ \E b \in N : Holds(node[b], k)
      BY <2>3 DEF NamesStay
    <3>1. k \in Keys /\ k \in Content(node, N)
      BY <2>2, <2>5
    <3> QED BY <3>1, <2>4 DEF Content
  <2>10. call = Idle => Top = root /\ Raised = {}
    BY DEF Top, Raised, Idle
  <2>11. FoundExactly
    BY <2>4, <2>10 DEF FoundExactly
  <2>12. CountMoves
    BY <2>5 DEF CountMoves
  <2>13. tight => NothingLeaks
    BY <2>2, <2>3, <2>5, <2>10 DEF NothingLeaks
  <2> QED BY <2>5, <2>7, <2>8, <2>9, <2>11, <2>12, <2>13
<1> QED BY <1>1, <1>2 DEF GInv

\* The invariant of any volume, and of one that always has a free block.
Kept == GInv(FALSE)
KeptTight == GInv(TRUE)

LEMMA KeptForever == InsertSpec => []Kept
<1>1. Init => Kept
  BY InitGrows DEF Kept
<1>2. Kept /\ [InsertNext]_vars => Kept'
  BY GrowthStep DEF Kept
<1> QED BY <1>1, <1>2, PTL DEF InsertSpec

LEMMA KeptTightForever == InsertSpec /\ [](Free # {}) => []KeptTight
<1>1. Init => KeptTight
  BY InitGrows DEF KeptTight
<1>2. KeptTight /\ Free # {} /\ [InsertNext]_vars => KeptTight'
  BY GrowthStep DEF KeptTight
<1> QED BY <1>1, <1>2, PTL DEF InsertSpec

(* Insertion keeps the types of the variables: no index leaves its array,  *)
(* no pointer its volume.                                                  *)
THEOREM InsertionTyped == InsertSpec => []TypeOK
<1>1. Kept => TypeOK
  BY GrowingImplies DEF Kept
<1> QED BY <1>1, KeptForever, PTL

(* Between any two levels of a call that inserts, the tree is balanced, its *)
(* nodes are at least half full and their keys in order.                   *)
THEOREM InsertionBalances == InsertSpec => []Balanced
<1>1. Kept => Balanced
  BY GrowingImplies DEF Kept
<1> QED BY <1>1, KeptForever, PTL

(* One pointer leads to every node, and its block is marked and no other's. *)
THEOREM InsertionOwns == InsertSpec => []TreeOwnsItsBlocks
<1>1. Kept => TreeOwnsItsBlocks
  BY GrowingImplies DEF Kept
<1> QED BY <1>1, KeptForever, PTL

(* No split hides a name from lookup, not for a moment.                    *)
THEOREM InsertionHidesNothing == InsertSpec => []NamesStay
<1>1. Kept => NamesStay
  BY GrowingImplies DEF Kept
<1> QED BY <1>1, KeptForever, PTL

(* Lookup finds the names that have been created and no other, although it *)
(* compares with slots that hold no key any more.                          *)
THEOREM LookupIsExact == InsertSpec => []FoundExactly
<1>1. Kept => FoundExactly
  BY GrowingImplies DEF Kept
<1> QED BY <1>1, KeptForever, PTL

(* The count of files moves with the root and is the number of names.      *)
THEOREM CountIsExact == InsertSpec => []CountMoves
<1>1. Kept => CountMoves
  BY GrowingImplies DEF Kept
<1> QED BY <1>1, KeptForever, PTL

(* While a block is free no call damages the tree, and every block a call  *)
(* has taken becomes a node.                                               *)
THEOREM InsertionLeaksNothing == InsertSpec /\ [](Free # {}) => [](harm = {} /\ NothingLeaks)
<1>1. KeptTight => harm = {} /\ NothingLeaks
  BY GrowingImplies DEF KeptTight
<1> QED BY <1>1, KeptTightForever, PTL

LEMMA FoundIs == Kept /\ harm = {} => FoundNow = names
<1> SUFFICES ASSUME Kept, harm = {} PROVE FoundNow = names
  OBVIOUS
<1>1. PICK N, span, level : Growing(N, span, level, FALSE) /\ Stale(node, N, span)
  BY DEF Kept, GInv, Damaged
<1>2. names \in SUBSET Keys
  BY <1>1, GrowingFacts
<1>3. \A k \in Keys : Lookup(Top, k) <=> k \in names
  BY <1>1, LookupIsNames
<1> QED BY <1>2, <1>3 DEF FoundNow

(* A step of insertion is a step of the abstract directory, or none.       *)
LEMMA DirectoryStep ==
  ASSUME Kept, [InsertNext]_vars, harm = {}, harm' = {}, FoundNow = names, FoundNow' = names'
  PROVE  [Abstract!DirNext]_(Abstract!dirVars)
<1> USE DEF Abstract!dirVars, Abstract!NoName
<1>1. PICK N, span, level : Growing(N, span, level, FALSE) /\ Stale(node, N, span)
  BY DEF Kept, GInv, Damaged
<1>2. call \in Call /\ CallSane(N, span)
  BY <1>1, GrowingFacts DEF Growing
<1>3. call.op # "idle" => call.name \in Keys /\ call.name # 0
  BY <1>2, ConstantFacts DEF CallSane
<1>4. Idle.name = 0 /\ Idle.op = "idle"
  BY DEF Idle
<1>5. ASSUME NEW k \in Keys, StartInsert(k) PROVE Abstract!DirNext
  <2>1. call = Idle /\ ~Lookup(root, k) /\ names' = names
    BY <1>5 DEF StartInsert
  <2>2. call'.name = k
    BY <1>5 DEF StartInsert, Idle
  <2>3. Top = root
    BY <2>1 DEF Top, Idle
  <2>4. k \notin FoundNow
    BY <2>1, <2>3 DEF FoundNow
  <2>5. Abstract!Ask(k)
    BY <2>1, <2>2, <2>4, <1>4 DEF Abstract!Ask
  <2> QED BY <2>5 DEF Abstract!DirNext
<1>6. ASSUME RaiseRoot \/ HalveRoot \/ WalkDown \/ SplitAndWalkDown
      PROVE  UNCHANGED <<FoundNow, call.name>>
  <2>1. names' = names
    BY <1>6 DEF RaiseRoot, HalveRoot, WalkDown, SplitAndWalkDown
  <2>2. call'.name = call.name
    <3>1. CASE RaiseRoot
      BY <3>1, <1>2 DEF RaiseRoot, Call
    <3>2. CASE HalveRoot
      BY <3>2, <1>2 DEF HalveRoot, Call
    <3>3. CASE WalkDown
      BY <3>3, <1>2 DEF WalkDown, Call
    <3>4. CASE SplitAndWalkDown
      BY <3>4, <1>2 DEF SplitAndWalkDown, Call
    <3> QED BY <1>6, <3>1, <3>2, <3>3, <3>4
  <2> QED BY <2>1, <2>2
<1>7. ASSUME PutInLeaf PROVE Abstract!DirNext
  <2>1. call.op = "insert" /\ call' = Idle /\ names' = names \cup {call.name}
    BY <1>7 DEF PutInLeaf, FinishInsert
  <2>2. call.name # 0 /\ call'.name = 0
    BY <2>1, <1>3, <1>4
  <2>3. Abstract!Create
    BY <2>1, <2>2 DEF Abstract!Create
  <2> QED BY <2>3 DEF Abstract!DirNext
<1>8. ASSUME NoRoom PROVE Abstract!DirNext
  <2>1. call.op # "idle" /\ call' = Idle /\ names' = names
    BY <1>8 DEF NoRoom
  <2>2. call.name # 0 /\ call'.name = 0
    BY <2>1, <1>3, <1>4
  <2>3. Abstract!Fail
    BY <2>1, <2>2 DEF Abstract!Fail
  <2> QED BY <2>3 DEF Abstract!DirNext
<1>9. ~NoRoomBelow
  BY DEF NoRoomBelow
<1>10. ASSUME Elsewhere \/ UNCHANGED vars PROVE UNCHANGED <<FoundNow, call.name>>
  <2>1. names' = names /\ call' = call
    BY <1>10 DEF Elsewhere, OtherTakes, OtherPuts, vars
  <2> QED BY <2>1
<1> QED BY <1>5, <1>6, <1>7, <1>8, <1>9, <1>10 DEF InsertNext, Insertion

(* Insertion implements a directory in which a name appears at once, when  *)
(* its call ends, as long as no call has damaged the tree.                 *)
THEOREM InsertionImplementsDirectory == InsertSpec /\ [](harm = {}) => ImplementsDirectory
<1> DEFINE Sound == Kept /\ harm = {} /\ FoundNow = names
<1> HIDE DEF Sound
<1>1. Init /\ FoundNow = names => Abstract!DirInit
  BY DEF Init, Idle, Abstract!DirInit, Abstract!NoName
<1>2. Sound /\ Sound' /\ [InsertNext]_vars => [Abstract!DirNext]_(Abstract!dirVars)
  BY DirectoryStep DEF Sound
<1>3. Kept /\ harm = {} => Sound
  BY FoundIs DEF Sound
<1>4. Sound => FoundNow = names
  BY DEF Sound
<1> QED BY <1>1, <1>2, <1>3, <1>4, KeptForever, PTL
        DEF InsertSpec, ImplementsDirectory, Abstract!DirSpec
====
