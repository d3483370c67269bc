---- MODULE MCDefrag ----
(***************************************************************************)
(* Small disks to defragment.  A shape says what the disk holds; its        *)
(* layouts are the ways to place that on the data blocks.                  *)
(***************************************************************************)
EXTENDS Defrag, TLC

Free == [type |-> "data", ino |-> 0, nr |-> 0]
Leaf(root, parent, entries, names) ==
  [type |-> "node", root |-> root, parent |-> parent, entries |-> entries, kids |-> <<>>, names |-> names]
Inner(root, parent, entries, kids, names) ==
  [type |-> "node", root |-> root, parent |-> parent, entries |-> entries, kids |-> kids, names |-> names]
Names(first, prev, next, slots) ==
  [type |-> "names", first |-> first, prev |-> prev, next |-> next, slots |-> slots]
Table(i, starts) == [type |-> "table", ino |-> i, starts |-> starts]
Data(i, c, start) == [b \in Run(start, L) |-> [type |-> "data", ino |-> i, nr |-> (c - 1) * L + b - start]]

(* The disk with these inodes and used blocks.                              *)
Disk(ibno, used) ==
  LET blk == [b \in DataBlocks |-> IF b \in DOMAIN used THEN used[b] ELSE Free]
      bits == 0..(Meta - 1) \cup DOMAIN used
      cluster(b) == CHOOSE c \in 1..2 : \E i \in Inodes :
                      /\ i = blk[b].ino /\ c <= Len(blk[ibno[i]].starts)
                      /\ b \in Run(blk[ibno[i]].starts[c], L)
  IN  [ibno |-> [i \in Inodes |-> IF i \in DOMAIN ibno THEN ibno[i] ELSE 0],
       blk |-> blk,
       marked |-> blk,
       kept |-> {},
       bits |-> bits,
       nfree |-> NBlocks - Cardinality(bits),
       unused |-> 1 + CHOOSE b \in bits : \A a \in bits : a <= b,
       fmap |-> [b \in DataBlocks |-> IF blk[b].type = "data" /\ blk[b] # Free
                                        THEN [ino |-> blk[b].ino, cluster |-> cluster(b)] ELSE NoFile]]

(* All placements of pieces of these lengths on the first n data blocks.    *)
Placements(lens, n) ==
  LET P[k \in 0..Len(lens)] ==
        IF k = 0 THEN {<<>>}
        ELSE UNION {{Append(p, b) : b \in {b \in Meta..(Meta + n - lens[k]) :
                       \A j \in 1..(k - 1) : Run(b, lens[k]) \cap Run(p[j], lens[j]) = {}}} : p \in P[k - 1]}
  IN  P[Len(lens)]

(* The first n data blocks in order, but for two that have changed places.  *)
Transposed(n) ==
  {[k \in 1..n |-> Meta - 1 + (IF k = a THEN b ELSE IF k = b THEN a ELSE k)] : a \in 1..n, b \in 1..n}

\* A directory with one file of two clusters.
OneFile(p) ==
  Disk(0 :> p[1] @@ 1 :> p[3],
       p[1] :> Leaf(TRUE, 0, <<<<1, 1>>>>, p[2])
         @@ p[2] :> Names(TRUE, 0, 0, <<1>>)
         @@ p[3] :> Table(1, <<p[4], p[5]>>) @@ Data(1, 1, p[4]) @@ Data(1, 2, p[5]))

\* Two files.
TwoFiles(p) ==
  Disk(0 :> p[1] @@ 1 :> p[2] @@ 2 :> p[3],
       p[1] :> Leaf(TRUE, 0, <<<<1, 1>>, <<2, 2>>>>, p[4])
         @@ p[4] :> Names(TRUE, 0, 0, <<2, 1>>)
         @@ p[2] :> Table(1, <<p[5]>>) @@ Data(1, 1, p[5])
         @@ p[3] :> Table(2, <<>>))

\* A tree of two levels, with three files.
Tree(p) ==
  Disk(0 :> p[1] @@ 1 :> p[5] @@ 2 :> p[6] @@ 3 :> p[7],
       p[1] :> Inner(TRUE, 0, <<<<2, 2>>>>, <<p[2], p[3]>>, p[4])
         @@ p[2] :> Leaf(FALSE, p[1], <<<<1, 1>>>>, 0)
         @@ p[3] :> Leaf(FALSE, p[1], <<<<3, 3>>>>, 0)
         @@ p[4] :> Names(TRUE, 0, 0, <<2, Dead, 1, 3>>)
         @@ p[5] :> Table(1, <<>>) @@ p[6] :> Table(2, <<>>) @@ p[7] :> Table(3, <<>>))

(* Three blocks of names with these slots; the third takes the block with   *)
(* number s[4] of them for its predecessor, and insert_name leaves it the   *)
(* first. Names have been deleted and others inserted since.               *)
Chain(p, s) ==
  Disk(0 :> p[1] @@ 1 :> p[5] @@ 2 :> Meta + 5 @@ 3 :> Meta + 6,
       p[1] :> Leaf(TRUE, 0, <<<<1, 1>>, <<2, 2>>, <<3, 3>>>>, p[2])
         @@ p[2] :> Names(TRUE, 0, p[3], s[1])
         @@ p[3] :> Names(FALSE, p[2], p[4], s[2])
         @@ p[4] :> Names(FALSE, p[1 + s[4]], 0, s[3])
         @@ p[5] :> Table(1, <<>>) @@ Meta + 5 :> Table(2, <<>>) @@ Meta + 6 :> Table(3, <<>>))

\* A block of names that has been full.
Full(s) == s \o [k \in 1..(C - Len(s)) |-> Dead]

Slots == {<<Full(<<1>>), Full(<<Dead, 2>>), <<3>>, 2>>,
          <<Full(<<1>>), Full(<<2>>), <<3, Dead>>, 2>>,
          <<Full(<<Dead, 1>>), Full(<<2>>), <<3>>, 1>>,
          <<Full(<<Dead, 1>>), Full(<<Dead, 2>>), <<3>>, 1>>,
          <<Full(<<Dead, Dead, 1>>), Full(<<2, 3>>), <<Dead>>, 2>>}

\* A directory in the root, with a file.
SubDir(p) ==
  Disk(0 :> p[1] @@ 1 :> p[3] @@ 2 :> p[5],
       p[1] :> Leaf(TRUE, 0, <<<<4, 1>>>>, p[2])
         @@ p[2] :> Names(TRUE, 0, 0, <<4>>)
         @@ p[3] :> Leaf(TRUE, 1, <<<<6, 2>>>>, p[4])
         @@ p[4] :> Names(TRUE, 1, 0, <<6>>)
         @@ p[5] :> Table(2, <<p[6]>>) @@ Data(2, 1, p[6]))

(* A tree of three levels. The second leaf pair has moved to a new parent   *)
(* in a split, which did not tell them.                                    *)
Tall(p) ==
  Disk(0 :> p[1] @@ 1 :> p[9],
       p[1] :> Inner(TRUE, 0, <<<<4, 1>>>>, <<p[2], p[5]>>, p[8])
         @@ p[2] :> Inner(FALSE, p[1], <<<<2, 1>>>>, <<p[3], p[4]>>, 0)
         @@ p[3] :> Leaf(FALSE, p[2], <<<<1, 1>>>>, 0)
         @@ p[4] :> Leaf(FALSE, p[2], <<<<3, 1>>>>, 0)
         @@ p[5] :> Inner(FALSE, p[1], <<<<6, 1>>>>, <<p[6], p[7]>>, 0)
         @@ p[6] :> Leaf(FALSE, p[2], <<<<5, 1>>>>, 0)
         @@ p[7] :> Leaf(FALSE, p[2], <<<<7, 1>>>>, 0)
         @@ p[8] :> Names(TRUE, 0, 0, <<1, 2, 3, 4, 5, 6, 7>>)
         @@ p[9] :> Table(1, <<>>))

TreeLayouts ==
  {Tree(p) : p \in {p \in Placements(<<1, 1, 1, 1, 1, 1, 1>>, 7) : p[5] < p[6] /\ p[6] < p[7]}}

TheLayouts ==
  {OneFile(p) : p \in Placements(<<1, 1, 1, L, L>>, 7)}
    \cup {TwoFiles(p) : p \in Placements(<<1, 1, 1, 1, L>>, 7)}
    \cup TreeLayouts
    \cup {Chain(p, s) : p \in Placements(<<1, 1, 1, 1, 1>>, 5), s \in Slots}
    \cup {SubDir(p) : p \in Placements(<<1, 1, 1, 1, 1, L>>, 7)}
    \cup {Tall(p) : p \in Transposed(9)}

(* References that have gone astray may lead anywhere.                       *)
Readable == ~Astray

OnlyExchanged == harm \subseteq {"siblings exchanged"}
====
