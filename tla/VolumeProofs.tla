---- MODULE VolumeProofs ----
(***************************************************************************)
(* Theorems about Volume, for every disk size, cluster length and set of   *)
(* names.                                                                  *)
(***************************************************************************)
EXTENDS Volume, BitmapProofs

----
(* Lemmas about the free maps (Bitmap).                                    *)

LEMMA RunInDataBlocks ==
  ASSUME NEW bits, 1..(Meta - 1) \subseteq bits, NEW len \in Nat \ {0},
         NEW b \in 1..(NBlocks - len), Run(b, len) \cap bits = {}
  PROVE  Run(b, len) \subseteq DataBlocks /\ b \in Run(b, len)
<1>1. \A c \in Run(b, len) : c \in 1..(NBlocks - 1) /\ c \notin 1..(Meta - 1)
  BY VolumeAssumption DEF Run
<1>2. \A c \in Run(b, len) : c \in DataBlocks
  BY <1>1, VolumeAssumption DEF DataBlocks
<1>3. b \in Run(b, len)
  BY VolumeAssumption DEF Run
<1> QED BY <1>2, <1>3

(* get_free_blocks on a map whose metadata is marked: a failure leaves the  *)
(* bits as they are, a success sets exactly the bits of a run of data      *)
(* blocks that were clear.                                                 *)
LEMMA GetFreeBlocksSound ==
  ASSUME NEW bm \in BlockMap, 1..(Meta - 1) \subseteq bm.bits,
         NEW len \in Nat \ {0},
         NEW g, g = GetFreeBlocks(bm, NBlocks, len)
  PROVE  /\ g.bm \in BlockMap
         /\ g.bno = NONE => g.bm.bits = bm.bits
         /\ g.bno # NONE => /\ g.bno \in Run(g.bno, len)
                            /\ Run(g.bno, len) \subseteq DataBlocks \ bm.bits
                            /\ g.bm.bits = bm.bits \cup Run(g.bno, len)
<1> DEFINE b == GetFirstFreeBits(bm.bits, NBlocks, len)
<1>1. b # NONE => /\ b \in 1..(NBlocks - len)
                  /\ Run(b, len) \cap bm.bits = {}
  BY FirstFreeIsFree, VolumeAssumption
<1>2. b # NONE => Run(b, len) \subseteq DataBlocks /\ b \in Run(b, len)
  BY <1>1, RunInDataBlocks
<1>3. b \in Int
  BY <1>1, VolumeAssumption DEF NONE
<1>4. DataBlocks \subseteq Blocks
  BY VolumeAssumption DEF DataBlocks, Blocks
<1> DEFINE nf == U32(bm.nfree - len)
           un == IF U32(b) >= bm.unused THEN U32(b + len) ELSE bm.unused
<1>5. g.bno = b /\ g.bm = [bits |-> SetBits(bm.bits, b, len), nfree |-> nf, unused |-> un,
                          short |-> bm.short \/ b = NONE]
  BY DEF GetFreeBlocks
<1>6. nf \in 0..(Word - 1)
  BY U32Type, WordAssumption DEF BlockMap
<1>7. un \in 0..(Word - 1)
  <2>1. U32(b + len) \in 0..(Word - 1)
    BY <1>3, U32Type
  <2> QED BY <2>1 DEF BlockMap
<1>8. SetBits(bm.bits, b, len) \in SUBSET Blocks
  BY <1>2, <1>4 DEF SetBits, BlockMap
<1>9. (bm.short \/ b = NONE) \in BOOLEAN
  OBVIOUS
<1> HIDE DEF b, nf, un
<1>10. g.bm \in BlockMap
  BY <1>5, <1>6, <1>7, <1>8, <1>9 DEF BlockMap
<1>11. g.bm.bits = SetBits(bm.bits, b, len)
  BY <1>5
<1> QED BY <1>1, <1>2, <1>5, <1>10, <1>11 DEF SetBits

(* HighWaterLag as a predicate of the block map. *)
BelowMark(bm) == ~bm.short => \A b \in bm.bits : b < bm.unused + ClusterLen - 1

LEMMA GetFreeBlocksBelowMark ==
  ASSUME NEW bm \in BlockMap, 1..(Meta - 1) \subseteq bm.bits, BelowMark(bm),
         NEW len \in 1..ClusterLen,
         NEW g, g = GetFreeBlocks(bm, NBlocks, len)
  PROVE  BelowMark(g.bm)
<1> DEFINE b == GetFirstFreeBits(bm.bits, NBlocks, len)
<1>1. CASE b = NONE
  BY <1>1 DEF GetFreeBlocks, BelowMark
<1>2. CASE b # NONE
  <2>1. len \in Nat \ {0} /\ ClusterLen \in Nat /\ NBlocks \in Nat
    BY VolumeAssumption
  <2>2. b \in 1..(NBlocks - len)
    BY <1>2, <2>1, FirstFreeIsFree
  <2>3. U32(b) = b /\ U32(b + len) = b + len
    BY <2>1, <2>2, U32Id, VolumeAssumption, WordAssumption
  <2> DEFINE un == IF b >= bm.unused THEN b + len ELSE bm.unused
  <2>4. /\ g.bm.unused = un
        /\ g.bm.bits = bm.bits \cup Run(b, len)
        /\ g.bm.short = (bm.short \/ b = NONE)
    BY <1>2, <2>3 DEF GetFreeBlocks, SetBits
  <2>5. bm.unused \in Nat /\ bm.unused <= un /\ b + len - 1 < un + ClusterLen - 1
    BY <2>1, <2>2, WordAssumption DEF BlockMap
  <2>6. \A c \in Run(b, len) : c < un + ClusterLen - 1
    BY <2>1, <2>2, <2>5 DEF Run
  <2>7. \A c \in bm.bits : c < bm.unused + ClusterLen - 1 => c < un + ClusterLen - 1
    BY <2>1, <2>2, <2>5, VolumeAssumption DEF BlockMap, Blocks
  <2> QED BY <2>4, <2>6, <2>7, <1>2 DEF BelowMark
<1> QED BY <1>1, <1>2

LEMMA SubsetOfBlocksFinite ==
  ASSUME NEW S \in SUBSET Blocks
  PROVE  IsFiniteSet(S) /\ Cardinality(S) \in Nat
<1>1. IsFiniteSet(Blocks)
  BY FS_Interval, VolumeAssumption DEF Blocks
<1> QED BY <1>1, FS_Subset, FS_CardinalityType

(* put_blocks clears the bits of the set and no other; the counter stays a  *)
(* 32-bit number.                                                          *)
LEMMA PutBlocksSound ==
  ASSUME NEW bm \in BlockMap, NEW S \in SUBSET Blocks
  PROVE  /\ PutBlocks(bm, NBlocks, S) \in BlockMap
         /\ PutBlocks(bm, NBlocks, S).bits \subseteq bm.bits
         /\ bm.bits \ S \subseteq PutBlocks(bm, NBlocks, S).bits
         /\ BelowMark(bm) => BelowMark(PutBlocks(bm, NBlocks, S))
<1> DEFINE T == {b \in S : ~PutRefused(NBlocks, b, 1)}
           p == PutBlocks(bm, NBlocks, S)
<1>1. Cardinality(T) \in Nat
  <2>1. T \in SUBSET Blocks
    OBVIOUS
  <2> HIDE DEF T
  <2> QED BY <2>1, SubsetOfBlocksFinite
<1>2. U32(bm.nfree + Cardinality(T)) \in 0..(Word - 1)
  <2>1. bm.nfree \in Int
    BY DEF BlockMap
  <2> HIDE DEF T
  <2> QED BY <1>1, <2>1, U32Type
<1>3. p = [bm EXCEPT !.bits = bm.bits \ T, !.nfree = U32(bm.nfree + Cardinality(T))]
  BY DEF PutBlocks
<1>4. T \subseteq S
  OBVIOUS
<1> HIDE DEF T, p
<1>5. p \in BlockMap /\ p.bits = bm.bits \ T /\ p.unused = bm.unused /\ p.short = bm.short
  BY <1>2, <1>3 DEF BlockMap
<1>6. BelowMark(bm) => BelowMark(p)
  BY <1>5 DEF BelowMark
<1> QED BY <1>4, <1>5, <1>6 DEF p

LEMMA PutInodeSound ==
  ASSUME NEW im \in InodeMap, NEW ino
  PROVE  /\ PutInode(im, NInodes, ino) \in InodeMap
         /\ PutInode(im, NInodes, ino).bits \subseteq im.bits
         /\ im.bits \ {ino} \subseteq PutInode(im, NInodes, ino).bits
<1>1. U32(im.nfree + 1) \in 0..(Word - 1)
  BY U32Type, WordAssumption DEF InodeMap
<1> QED BY <1>1 DEF PutInode, InodeMap

(* get_free_inode fails or sets a bit that was clear. *)
LEMMA GetFreeInodeSound ==
  ASSUME NEW im \in InodeMap, NEW g, g = GetFreeInode(im, NInodes)
  PROVE  /\ g.im \in InodeMap
         /\ im.bits \subseteq g.im.bits
         /\ g.ino # NONE => g.ino \in Inodes \ im.bits /\ g.ino \in g.im.bits
<1> DEFINE n == GetFirstFreeBits(im.bits, NInodes, 1)
<1>1. n # NONE => n \in Inodes \ im.bits
  <2>1. n # NONE => n \in 1..(NInodes - 1) /\ Run(n, 1) \cap im.bits = {}
    BY FirstFreeIsFree, VolumeAssumption
  <2> QED BY <2>1, VolumeAssumption DEF Run, Inodes
<1>2. U32(im.nfree - 1) \in 0..(Word - 1)
  BY U32Type, WordAssumption DEF InodeMap
<1>3. SetBits(im.bits, n, 1) = IF n = NONE THEN im.bits ELSE im.bits \cup {n}
  <2>1. n # NONE => Run(n, 1) = {n}
    BY <1>1 DEF Run, Inodes
  <2> QED BY <2>1 DEF SetBits
<1>4. /\ g.ino = n
      /\ g.im = [bits |-> SetBits(im.bits, n, 1), nfree |-> U32(im.nfree - 1)]
  BY DEF GetFreeInode
<1> HIDE DEF n
<1>5. SetBits(im.bits, n, 1) \in SUBSET Inodes
  BY <1>1, <1>3 DEF InodeMap
<1>6. g.im \in InodeMap
  BY <1>2, <1>4, <1>5 DEF InodeMap
<1> QED BY <1>1, <1>3, <1>4, <1>6

----
(* Growing a directory.                                                    *)

Holds(d) == {d.bno} \cup d.data

LEMMA NewInodeType ==
  ASSUME NEW mode \in {"none", "reg", "dir"}, NEW bno \in Blocks, NEW data \in SUBSET Blocks
  PROVE  /\ NewInode(mode, bno, data) \in InodeRec
         /\ NewInode(mode, bno, data).mode = mode
         /\ Holds(NewInode(mode, bno, data)) = {bno} \cup data
BY VolumeAssumption DEF NewInode, InodeRec, MaxHeight, Holds

LEMMA NoInodeType == NoInode \in InodeRec /\ NoInode.mode = "none"
<1>1. 0 \in Blocks
  BY VolumeAssumption DEF Blocks
<1> QED BY <1>1, NewInodeType DEF NoInode

(* The map went from bm to bm2 and the inode from d to d2 while blocks were *)
(* taken and none was put: what d2 holds beyond d are data blocks that     *)
(* were clear before and are set now.                                      *)
Grows(bm, d, bm2, d2) ==
  /\ bm2 \in BlockMap
  /\ d2 \in InodeRec
  /\ d2.mode = d.mode
  /\ bm.bits \subseteq bm2.bits
  /\ BelowMark(bm) => BelowMark(bm2)
  /\ Holds(d2) \ Holds(d) \subseteq (bm2.bits \ bm.bits) \cap DataBlocks

LEMMA GrowsTransitive ==
  ASSUME NEW bm, NEW d, NEW bm2, NEW d2, NEW bm3, NEW d3,
         Grows(bm, d, bm2, d2), Grows(bm2, d2, bm3, d3)
  PROVE  Grows(bm, d, bm3, d3)
BY DEF Grows

LEMMA AllocBlockGrows ==
  ASSUME NEW bm \in BlockMap, 1..(Meta - 1) \subseteq bm.bits,
         NEW d \in InodeRec, NEW a, a = AllocBlock(bm)
  PROVE  /\ Grows(bm, d, a.bm, d)
         /\ Grows(bm, d, a.bm, Grown(d, a.bno))
         /\ a.bno # NONE => a.bno \in (a.bm.bits \ bm.bits) \cap DataBlocks
<1>1. /\ a.bm \in BlockMap
      /\ a.bno = NONE => a.bm.bits = bm.bits
      /\ a.bno # NONE => /\ a.bno \in Run(a.bno, 1)
                         /\ Run(a.bno, 1) \subseteq DataBlocks \ bm.bits
                         /\ a.bm.bits = bm.bits \cup Run(a.bno, 1)
  BY GetFreeBlocksSound DEF AllocBlock
<1>2. BelowMark(bm) => BelowMark(a.bm)
  <2>1. 1 \in 1..ClusterLen
    BY VolumeAssumption
  <2> QED BY <2>1, GetFreeBlocksBelowMark DEF AllocBlock
<1>3. Grows(bm, d, a.bm, d)
  BY <1>1, <1>2 DEF Grows
<1>4. a.bno # NONE => a.bno \in (a.bm.bits \ bm.bits) \cap DataBlocks
  BY <1>1
<1>5. Grows(bm, d, a.bm, Grown(d, a.bno))
  <2>1. CASE a.bno = NONE
    BY <1>3, <2>1 DEF Grown
  <2>2. CASE a.bno # NONE
    <3>1. Grown(d, a.bno) = [d EXCEPT !.data = d.data \cup {a.bno}]
      BY <2>2 DEF Grown
    <3>2. a.bno \in Blocks
      BY <1>1, <1>4, <2>2 DEF BlockMap
    <3>3. /\ Grown(d, a.bno) \in InodeRec
          /\ Grown(d, a.bno).mode = d.mode
          /\ Holds(Grown(d, a.bno)) = Holds(d) \cup {a.bno}
      BY <3>1, <3>2 DEF InodeRec, Holds
    <3> QED BY <1>3, <1>4, <2>2, <3>3 DEF Grows
  <2> QED BY <2>1, <2>2
<1> QED BY <1>3, <1>4, <1>5

(* The counters and flags of a directory say nothing about its blocks. *)
LEMMA InsertedSound ==
  ASSUME NEW bm, NEW d \in InodeRec, NEW kept \in BOOLEAN,
         NEW t, t = Inserted(bm, d, kept)
  PROVE  /\ t.bm = bm /\ t.kept \in BOOLEAN
         /\ t.dir \in InodeRec /\ t.dir.mode = d.mode /\ Holds(t.dir) = Holds(d)
<1> DEFINE st == d.stored \/ kept
           n == d.files + 1
           x == [d EXCEPT !.files = n, !.stored = st]
<1>1. t = TreeOutcome(bm, x, "ok", kept, FALSE)
  BY DEF Inserted
<1>2. x \in InodeRec /\ x.mode = d.mode /\ x.bno = d.bno /\ x.data = d.data
  <2>1. st \in BOOLEAN
    OBVIOUS
  <2>2. n \in Int
    BY DEF InodeRec
  <2> HIDE DEF st, n
  <2> QED BY <2>1, <2>2 DEF InodeRec
<1> HIDE DEF x
<1>3. t.bm = bm /\ t.dir = x /\ t.kept = kept
  BY <1>1 DEF TreeOutcome
<1> QED BY <1>2, <1>3 DEF Holds

LEMMA RefusedSound ==
  ASSUME NEW bm, NEW d, NEW ret, NEW t, t = Refused(bm, d, ret)
  PROVE  t.bm = bm /\ t.dir = d /\ t.kept \in BOOLEAN
<1>1. t.kept = FALSE
  BY DEF Refused, TreeOutcome
<1>2. t.kept \in BOOLEAN
  BY <1>1, Zenon
<1> QED BY <1>2 DEF Refused, TreeOutcome

LEMMA InsertNonFullGrows ==
  ASSUME NEW bm \in BlockMap, 1..(Meta - 1) \subseteq bm.bits,
         NEW d \in InodeRec, NEW h, NEW t \in InsertNonFull(bm, d, h)
  PROVE  Grows(bm, d, t.bm, t.dir) /\ t.kept \in BOOLEAN
<1> DEFINE a == AllocBlock(bm)
           b == AllocBlock(a.bm)
           d1 == Grown(d, a.bno)
           d2 == Grown(d1, b.bno)
           more == b.bno # NONE
<1>1. Grows(bm, d, a.bm, d) /\ Grows(bm, d, a.bm, d1)
  BY AllocBlockGrows
<1>2. a.bm \in BlockMap /\ 1..(Meta - 1) \subseteq a.bm.bits /\ d1 \in InodeRec
  BY <1>1 DEF Grows
<1>3. Grows(a.bm, d1, b.bm, d2)
  BY <1>2, AllocBlockGrows
<1>4. Grows(bm, d, b.bm, d2)
  BY <1>1, <1>3, GrowsTransitive
<1>5. d2 \in InodeRec
  BY <1>3 DEF Grows
<1>6. Grows(bm, d, bm, d)
  BY DEF Grows
<1>7. more \in BOOLEAN
  OBVIOUS
<1>8. \/ t = Inserted(bm, d, TRUE)
      \/ t = Refused(a.bm, d, "ENOSPC")
      \/ t = Inserted(a.bm, d1, TRUE)
      \/ t = Inserted(a.bm, d, FALSE)
      \/ t = Inserted(b.bm, d2, more)
  BY DEF InsertNonFull
<1> HIDE DEF a, b, d1, d2, more
<1>9. CASE t = Refused(a.bm, d, "ENOSPC")
  <2>1. t.bm = a.bm /\ t.dir = d /\ t.kept \in BOOLEAN
    BY <1>9, RefusedSound
  <2> QED BY <1>1, <2>1
<1>10. ASSUME NEW bm2, NEW x \in InodeRec, NEW kept \in BOOLEAN, t = Inserted(bm2, x, kept),
              Grows(bm, d, bm2, x)
       PROVE  Grows(bm, d, t.bm, t.dir) /\ t.kept \in BOOLEAN
  <2>1. /\ t.bm = bm2 /\ t.kept \in BOOLEAN
        /\ t.dir \in InodeRec /\ t.dir.mode = x.mode /\ Holds(t.dir) = Holds(x)
    BY <1>10, InsertedSound
  <2> QED BY <1>10, <2>1 DEF Grows
<1> QED BY <1>1, <1>2, <1>4, <1>5, <1>6, <1>7, <1>8, <1>9, <1>10

(* A directory whose new root was not put in place has lost blocks and      *)
(* gained none.                                                            *)
LEMMA CutGrows ==
  ASSUME NEW bm, NEW d \in InodeRec, NEW bm2, NEW x, Grows(bm, d, bm2, x), NEW X,
         NEW y, y = [d EXCEPT !.data = @ \ X]
  PROVE  Grows(bm, d, bm2, y)
<1>1. y \in InodeRec /\ y.mode = d.mode /\ Holds(y) \subseteq Holds(d)
  BY DEF InodeRec, Holds
<1> QED BY <1>1 DEF Grows

LEMMA InsertAtFullRootGrows ==
  ASSUME NEW bm \in BlockMap, 1..(Meta - 1) \subseteq bm.bits,
         NEW d \in InodeRec, d.height < MaxHeight, NEW t \in InsertAtFullRoot(bm, d)
  PROVE  Grows(bm, d, t.bm, t.dir) /\ t.kept \in BOOLEAN
<1> DEFINE a == AllocBlock(bm)
           b == AllocBlock(a.bm)
           raised == [d EXCEPT !.bno = a.bno, !.data = d.data \cup {d.bno, b.bno},
                               !.height = d.height + 1]
           below == InsertNonFull(b.bm, raised, d.height)
<1>1. /\ Grows(bm, d, a.bm, d)
      /\ a.bno # NONE => a.bno \in (a.bm.bits \ bm.bits) \cap DataBlocks
  BY AllocBlockGrows
<1>2. a.bm \in BlockMap /\ bm.bits \subseteq a.bm.bits
  BY <1>1 DEF Grows
<1>3. /\ Grows(a.bm, d, b.bm, d)
      /\ b.bno # NONE => b.bno \in (b.bm.bits \ a.bm.bits) \cap DataBlocks
  BY <1>2, AllocBlockGrows
<1>4. Grows(bm, d, b.bm, d)
  BY <1>1, <1>3, GrowsTransitive
<1> HIDE DEF a, b
<1>5. CASE a.bno = NONE \/ b.bno = NONE
  <2>1. t = Refused(a.bm, d, "ENOSPC") \/ t = Refused(b.bm, d, "ENOSPC")
    BY <1>5 DEF InsertAtFullRoot, a, b
  <2>2. t.bm \in {a.bm, b.bm} /\ t.dir = d /\ t.kept \in BOOLEAN
    BY <2>1, RefusedSound
  <2> QED BY <1>1, <1>4, <2>2
<1>6. CASE a.bno # NONE /\ b.bno # NONE
  <2>1. a.bno \in Blocks /\ b.bno \in Blocks /\ d.bno \in Blocks
    BY <1>1, <1>2, <1>3, <1>6 DEF Grows, BlockMap, InodeRec
  <2>2. /\ raised \in InodeRec
        /\ raised.mode = d.mode
        /\ Holds(raised) = Holds(d) \cup {a.bno, b.bno}
    <3> DEFINE h == d.height + 1
               data == d.data \cup {d.bno, b.bno}
    <3>1. h \in 0..MaxHeight
      BY DEF InodeRec, MaxHeight
    <3>2. data \in SUBSET Blocks
      BY <2>1 DEF InodeRec
    <3>3. Holds(d) \cup {a.bno, b.bno} = {a.bno} \cup data
      BY DEF Holds
    <3>4. raised = [d EXCEPT !.bno = a.bno, !.data = data, !.height = h]
      OBVIOUS
    <3> HIDE DEF h, data, raised
    <3> QED BY <2>1, <3>1, <3>2, <3>3, <3>4 DEF InodeRec, Holds
  <2>3. b.bm \in BlockMap /\ a.bm.bits \subseteq b.bm.bits /\ bm.bits \subseteq b.bm.bits
    BY <1>3, <1>4 DEF Grows
  <2>4. {a.bno, b.bno} \subseteq (b.bm.bits \ bm.bits) \cap DataBlocks
    BY <1>1, <1>2, <1>3, <1>6, <2>3
  <2> HIDE DEF raised
  <2>5. Grows(bm, d, b.bm, raised)
    BY <1>4, <2>2, <2>4 DEF Grows
  <2>6. \A u \in below : Grows(bm, d, u.bm, u.dir) /\ u.kept \in BOOLEAN
    <3> SUFFICES ASSUME NEW u \in below
                 PROVE  Grows(bm, d, u.bm, u.dir) /\ u.kept \in BOOLEAN
      OBVIOUS
    <3>1. 1..(Meta - 1) \subseteq b.bm.bits
      BY <2>3
    <3>2. Grows(b.bm, raised, u.bm, u.dir) /\ u.kept \in BOOLEAN
      BY <2>2, <2>3, <3>1, InsertNonFullGrows
    <3> QED BY <2>5, <3>2, GrowsTransitive
  <2>7. \/ t \in below
        \/ \E u \in below, X \in SUBSET d.data :
             t = TreeOutcome(u.bm, [d EXCEPT !.data = @ \ X], "ENOSPC", FALSE, TRUE)
    BY <1>6 DEF InsertAtFullRoot, a, b, raised
  <2> HIDE DEF below
  <2>8. CASE t \in below
    BY <2>6, <2>8
  <2>9. ASSUME NEW u \in below, NEW X,
               t = TreeOutcome(u.bm, [d EXCEPT !.data = @ \ X], "ENOSPC", FALSE, TRUE)
        PROVE  Grows(bm, d, t.bm, t.dir) /\ t.kept \in BOOLEAN
    <3> DEFINE y == [d EXCEPT !.data = @ \ X]
    <3>1. Grows(bm, d, u.bm, y)
      BY <2>6, CutGrows
    <3>2. t.bm = u.bm /\ t.dir = y /\ t.kept = FALSE
      <4> HIDE DEF y
      <4> QED BY <2>9 DEF TreeOutcome, y
    <3> QED BY <3>1, <3>2
  <2> QED BY <2>7, <2>8, <2>9
<1> QED BY <1>5, <1>6

LEMMA TreeInsertGrows ==
  ASSUME NEW bm \in BlockMap, 1..(Meta - 1) \subseteq bm.bits,
         NEW d \in InodeRec, NEW t \in TreeInsert(bm, d)
  PROVE  Grows(bm, d, t.bm, t.dir) /\ t.kept \in BOOLEAN
BY InsertNonFullGrows, InsertAtFullRootGrows DEF TreeInsert

LEMMA NameInsertGrows ==
  ASSUME NEW bm \in BlockMap, 1..(Meta - 1) \subseteq bm.bits,
         NEW d \in InodeRec, NEW n \in NameInsert(bm, d)
  PROVE  Grows(bm, d, n.bm, n.dir) /\ n.named \in BOOLEAN
<1> DEFINE b == AllocBlock(bm)
           real == b.bno # NONE
           torn == [d EXCEPT !.torn = TRUE]
           dir == IF real THEN Grown(d, b.bno) ELSE torn
<1>1. Grows(bm, d, bm, d)
  BY DEF Grows
<1>2. Grows(bm, d, b.bm, d) /\ Grows(bm, d, b.bm, Grown(d, b.bno))
  BY AllocBlockGrows
<1>3. torn \in InodeRec /\ torn.mode = d.mode /\ Holds(torn) = Holds(d)
  BY DEF InodeRec, Holds
<1> HIDE DEF b, torn
<1>4. Grows(bm, d, b.bm, torn)
  BY <1>2, <1>3 DEF Grows
<1>5. Grows(bm, d, b.bm, dir) /\ real \in BOOLEAN
  BY <1>2, <1>4
<1>6. \/ n = [bm |-> bm, dir |-> d, named |-> TRUE]
      \/ n = [bm |-> b.bm, dir |-> dir, named |-> real]
      \/ n = [bm |-> bm, dir |-> d, named |-> FALSE]
  BY DEF NameInsert, b, torn
<1> HIDE DEF real, dir
<1>7. CASE n = [bm |-> b.bm, dir |-> dir, named |-> real]
  <2>1. n.named = real
    BY <1>7, Zenon
  <2>2. n.bm = b.bm /\ n.dir = dir
    BY <1>7
  <2> QED BY <1>5, <2>1, <2>2
<1>8. ASSUME NEW bool \in BOOLEAN, n = [bm |-> bm, dir |-> d, named |-> bool]
      PROVE  Grows(bm, d, n.bm, n.dir) /\ n.named \in BOOLEAN
  <2>1. n.named = bool
    BY <1>8, Zenon
  <2>2. n.bm = bm /\ n.dir = d
    BY <1>8
  <2> QED BY <1>1, <1>8, <2>1, <2>2
<1> QED BY <1>6, <1>7, <1>8

(* add_entry, whatever its name insertion and its tree insertion come to.   *)
LEMMA AddEntryGrows ==
  ASSUME NEW bm \in BlockMap, 1..(Meta - 1) \subseteq bm.bits,
         NEW d \in InodeRec, NEW a \in AddEntry(bm, d)
  PROVE  /\ Grows(bm, d, a.bm, a.dir)
         /\ a.disk \in BOOLEAN
         /\ a.named \in BOOLEAN
<1>1. CASE a \in AddRefused(bm, d)
  <2>1. a = AddOutcome(TRUE, Refused(bm, d, "EIO"), FALSE)
    BY <1>1 DEF AddRefused
  <2>2. a.bm = bm /\ a.dir = d /\ a.disk = FALSE /\ a.named = TRUE
    BY <2>1 DEF AddOutcome, Refused, TreeOutcome
  <2> QED BY <2>2 DEF Grows
<1>2. CASE a \notin AddRefused(bm, d)
  <2>1. PICK n \in NameInsert(bm, d), c \in MayCache(d) :
          \E t \in TreeInsert(n.bm, n.dir) : a = AddOutcome(n.named, t, c)
    BY <1>2 DEF AddEntry
  <2>2. PICK t \in TreeInsert(n.bm, n.dir) : a = AddOutcome(n.named, t, c)
    BY <2>1
  <2>3. Grows(bm, d, n.bm, n.dir) /\ n.named \in BOOLEAN
    BY NameInsertGrows
  <2>4. n.bm \in BlockMap /\ n.dir \in InodeRec /\ 1..(Meta - 1) \subseteq n.bm.bits
    BY <2>3 DEF Grows
  <2>5. Grows(n.bm, n.dir, t.bm, t.dir) /\ t.kept \in BOOLEAN
    BY <2>4, TreeInsertGrows
  <2>6. a.bm = t.bm /\ a.dir = t.dir /\ a.disk = t.kept /\ a.named = n.named
    BY <2>2 DEF AddOutcome
  <2> QED BY <2>3, <2>5, <2>6, GrowsTransitive
<1> QED BY <1>1, <1>2

LEMMA RecachedType ==
  ASSUME NEW dirs \in [Blocks -> Nat], NEW old \in Blocks, NEW new \in Blocks
  PROVE  Recached(dirs, old, new) \in [Blocks -> Nat]
BY DEF Recached

----
(***************************************************************************)
(* The inductive invariant.  Beyond the properties themselves it needs     *)
(* three facts that hold even after a file has been put twice: the blocks  *)
(* of the metadata stay marked, so that the search never hands one out;     *)
(* what an inode leads to are data blocks, so that no put clears the mark  *)
(* of a metadata block; and the inodes in use are marked, so that a new    *)
(* inode is none of them.                                                  *)
(***************************************************************************)

MetaMarked == 1..(Meta - 1) \subseteq bmap.bits

InodesSane ==
  \A i \in Inodes : inode[i].mode # "none" =>
    /\ i \in imap.bits
    /\ Holds(inode[i]) \subseteq DataBlocks

ReleasedRegular == \A i \in released : inode[i].mode = "reg"

IInv ==
  /\ TypeOK
  /\ MetaMarked
  /\ InodesSane
  /\ ReleasedRegular
  /\ OwnedMarked
  /\ NoSharing
  /\ HighWaterLag

LEMMA InitIInv == Init => IInv
<1> SUFFICES ASSUME Init PROVE IInv
  OBVIOUS
<1> USE VolumeAssumption, WordAssumption
<1>1. /\ NBlocks \in Nat
      /\ 0 \in Blocks /\ Meta \in Blocks /\ FirstFree \in Blocks
      /\ RootIno \in Inodes
      /\ 0 \in 0..MaxClusters
      /\ FirstFree \in DataBlocks
  BY DEF Blocks, Inodes, RootIno, DataBlocks, FirstFree
<1> DEFINE root == NewInode("dir", Meta, {FirstFree})
<1>2. NoInode \in InodeRec /\ NoInode.mode = "none"
  BY NoInodeType
<1>3. /\ root.mode = "dir" /\ root.bno = Meta /\ root.data = {FirstFree}
  BY DEF NewInode
<1>4. root \in InodeRec
  BY <1>1, NewInodeType
<1> HIDE DEF root
<1>5. \A i \in Inodes : inode[i] = IF i = RootIno THEN root ELSE NoInode
  BY DEF Init, root
<1>6. inode \in [Inodes -> InodeRec]
  BY <1>2, <1>4 DEF Init, root
<1>7. Holds(root) = {Meta, FirstFree} /\ root.mode = "dir"
  BY <1>3 DEF Holds
<1>8. imap \in InodeMap
  BY <1>1 DEF Init, InodeMap
<1>9. bmap \in BlockMap /\ bmap.bits = 0..FirstFree /\ bmap.unused = FirstFree + 1
  BY DEF Init, BlockMap, Blocks, FirstFree
<1>10. TypeOK
  BY <1>1, <1>6, <1>8, <1>9 DEF TypeOK, Init
<1>11. MetaMarked
  BY <1>9 DEF MetaMarked, FirstFree
<1>12. {Meta, FirstFree} \subseteq bmap.bits \cap DataBlocks
  BY <1>1, <1>9 DEF DataBlocks, FirstFree
<1>13. InodesSane
  BY <1>2, <1>5, <1>7, <1>12 DEF InodesSane, Init
<1>14. ReleasedRegular
  BY DEF ReleasedRegular, Init
<1>15. \A i \in Inodes : Owned(i) = IF i = RootIno THEN {Meta, FirstFree} ELSE {}
  BY <1>2, <1>5, <1>7 DEF Owned, Holds, Init
<1>16. OwnedMarked /\ NoSharing
  BY <1>12, <1>15 DEF OwnedMarked, NoSharing
<1>17. HighWaterLag
  BY <1>1, <1>9 DEF HighWaterLag, DataBlocks
<1> QED BY <1>10, <1>11, <1>13, <1>14, <1>16, <1>17 DEF IInv

----
(* Two shapes of steps keep OwnedMarked and NoSharing.                      *)

Gained(i) == Owned(i)' \ Owned(i)

(* Steps that take blocks: what an inode gains was clear and is set, and no *)
(* two inodes gain the same block.                                         *)
LEMMA TakingStep ==
  ASSUME OwnedMarked, NoSharing, twice' = twice,
         bmap.bits \subseteq bmap'.bits,
         \A i \in Inodes : Gained(i) \subseteq (bmap'.bits \ bmap.bits) \cap DataBlocks,
         \A i, j \in Inodes : i # j => Gained(i) \cap Gained(j) = {}
  PROVE  OwnedMarked' /\ NoSharing'
<1> SUFFICES ASSUME ~twice
             PROVE  /\ \A i \in Inodes : Owned(i)' \subseteq bmap'.bits \cap DataBlocks
                    /\ \A i, j \in Inodes : i # j => Owned(i)' \cap Owned(j)' = {}
  BY DEF OwnedMarked, NoSharing
<1>1. \A i \in Inodes : Owned(i) \subseteq bmap.bits \cap DataBlocks
  BY DEF OwnedMarked
<1>2. \A i, j \in Inodes : i # j => Owned(i) \cap Owned(j) = {}
  BY DEF NoSharing
<1>3. \A i \in Inodes : Owned(i)' \subseteq Owned(i) \cup Gained(i)
  BY DEF Gained
<1>4. \A i \in Inodes : Owned(i)' \subseteq bmap'.bits \cap DataBlocks
  BY <1>1, <1>3
<1>5. ASSUME NEW i \in Inodes, NEW j \in Inodes, i # j
      PROVE  Owned(i)' \cap Owned(j)' = {}
  <2>1. Owned(i) \cap Owned(j) = {} /\ Gained(i) \cap Gained(j) = {}
    BY <1>2, <1>5
  <2>2. Gained(i) \cap Owned(j) = {} /\ Gained(j) \cap Owned(i) = {}
    BY <1>1
  <2>3. Owned(i)' \subseteq Owned(i) \cup Gained(i) /\ Owned(j)' \subseteq Owned(j) \cup Gained(j)
    BY <1>3
  <2> QED BY <2>1, <2>2, <2>3
<1> QED BY <1>4, <1>5

(* Steps that put blocks: no inode gains one, and what an inode still leads *)
(* to is still marked.                                                     *)
LEMMA PuttingStep ==
  ASSUME OwnedMarked, NoSharing, twice' \/ twice' = twice,
         \A i \in Inodes : Owned(i)' \subseteq Owned(i),
         ~twice' => \A i \in Inodes : Owned(i)' \cap bmap.bits \subseteq bmap'.bits
  PROVE  OwnedMarked' /\ NoSharing'
<1> SUFFICES ASSUME ~twice'
             PROVE  /\ \A i \in Inodes : Owned(i)' \subseteq bmap'.bits \cap DataBlocks
                    /\ \A i, j \in Inodes : i # j => Owned(i)' \cap Owned(j)' = {}
  BY DEF OwnedMarked, NoSharing
<1>1. \A i \in Inodes : Owned(i) \subseteq bmap.bits \cap DataBlocks
  BY DEF OwnedMarked
<1>2. \A i, j \in Inodes : i # j => Owned(i) \cap Owned(j) = {}
  BY DEF NoSharing
<1> QED BY <1>1, <1>2

----
(* New inodes.                                                             *)

LEMMA NewInodeSound ==
  ASSUME IInv, NEW r, r = NewInodeCall
  PROVE  /\ r.im \in InodeMap
         /\ r.bm \in BlockMap
         /\ imap.bits \subseteq r.im.bits
         /\ bmap.bits \subseteq r.bm.bits
         /\ BelowMark(bmap) => BelowMark(r.bm)
         /\ r.ino # NONE => /\ r.ino \in Inodes \ imap.bits
                            /\ r.ino \in r.im.bits
                            /\ r.bno \in (r.bm.bits \ bmap.bits) \cap DataBlocks
<1> DEFINE gi == GetFreeInode(imap, NInodes)
           gb == AllocBlock(bmap)
<1>1. imap \in InodeMap /\ bmap \in BlockMap /\ 1..(Meta - 1) \subseteq bmap.bits
  BY DEF IInv, TypeOK, MetaMarked
<1>2. /\ gi.im \in InodeMap
      /\ imap.bits \subseteq gi.im.bits
      /\ gi.ino # NONE => gi.ino \in Inodes \ imap.bits /\ gi.ino \in gi.im.bits
  BY <1>1, GetFreeInodeSound
<1>3. NoInode \in InodeRec
  BY NoInodeType
<1>4. /\ Grows(bmap, NoInode, gb.bm, NoInode)
      /\ gb.bno # NONE => gb.bno \in (gb.bm.bits \ bmap.bits) \cap DataBlocks
  BY <1>1, <1>3, AllocBlockGrows
<1>5. /\ gb.bm \in BlockMap /\ bmap.bits \subseteq gb.bm.bits
      /\ BelowMark(bmap) => BelowMark(gb.bm)
  BY <1>4 DEF Grows
<1> DEFINE pi == PutInode(gi.im, NInodes, gi.ino)
<1>6. pi \in InodeMap /\ gi.im.bits \ {gi.ino} \subseteq pi.bits
  BY <1>2, PutInodeSound
<1>7. imap.bits \subseteq pi.bits
  <2>1. gi.ino \notin imap.bits
    BY <1>1, <1>2 DEF InodeMap, NONE, Inodes
  <2> QED BY <1>2, <1>6, <2>1
<1>8. r = IF gi.ino = NONE \/ gb.bno = NONE
            THEN [im |-> pi, bm |-> IF gi.ino = NONE THEN bmap ELSE gb.bm,
                  ino |-> NONE, bno |-> NONE]
            ELSE [im |-> gi.im, bm |-> gb.bm, ino |-> gi.ino, bno |-> gb.bno]
  BY DEF NewInodeCall
<1> HIDE DEF gi, gb, pi
<1>9. CASE gi.ino = NONE \/ gb.bno = NONE
  <2>1. r.im = pi /\ r.ino = NONE /\ r.bm \in {bmap, gb.bm}
    BY <1>8, <1>9
  <2> QED BY <1>1, <1>5, <1>6, <1>7, <2>1
<1>10. CASE gi.ino # NONE /\ gb.bno # NONE
  <2>1. r.im = gi.im /\ r.ino = gi.ino /\ r.bm = gb.bm /\ r.bno = gb.bno
    BY <1>8, <1>10
  <2> QED BY <1>2, <1>4, <1>5, <1>10, <2>1
<1> QED BY <1>9, <1>10

LEMMA AddedType ==
  ASSUME TypeOK, NEW d \in Inodes, NEW name \in Names, NEW ino \in Inodes,
         NEW a, a.disk \in BOOLEAN, a.named \in BOOLEAN, NEW new \in Added(a, d, name, ino)
  PROVE  new \in SUBSET Entry
<1> DEFINE e == [dir |-> d, name |-> name, ino |-> ino, disk |-> a.disk, named |-> a.named]
<1>1. e \in Entry
  BY DEF Entry
<1> HIDE DEF e
<1>2. PICK X \in SUBSET entries :
        new \subseteq entries \cup {[x EXCEPT !.disk = FALSE] : x \in X} \cup {e}
  BY DEF Added, EntriesOf, e
<1>3. \A x \in X : [x EXCEPT !.disk = FALSE] \in Entry
  <2> SUFFICES ASSUME NEW x \in Entry PROVE [x EXCEPT !.disk = FALSE] \in Entry
    BY DEF TypeOK
  <2> QED BY DEF Entry
<1> QED BY <1>1, <1>2, <1>3 DEF TypeOK

(* The end of create, when the blocks of the new inode are newly marked.    *)
LEMMA EnterStep ==
  ASSUME IInv, NEW d \in Inodes, NEW name \in Names, inode[d].mode = "dir",
         NEW r, r.im \in InodeMap, imap.bits \subseteq r.im.bits,
         r.ino \in Inodes \ imap.bits, r.ino \in r.im.bits,
         NEW rec \in InodeRec, rec.mode # "none",
         NEW bm \in BlockMap, bmap.bits \subseteq bm.bits, BelowMark(bmap) => BelowMark(bm),
         Holds(rec) \subseteq (bm.bits \ bmap.bits) \cap DataBlocks,
         NEW dirs \in [Blocks -> Nat],
         Enter(d, name, r, rec, bm, dirs)
  PROVE  IInv'
<1>1. /\ TypeOK /\ 1..(Meta - 1) \subseteq bmap.bits /\ BelowMark(bmap)
      /\ InodesSane /\ ReleasedRegular /\ OwnedMarked /\ NoSharing
  BY DEF IInv, MetaMarked, HighWaterLag, BelowMark
<1>2. inode \in [Inodes -> InodeRec] /\ inode[d] \in InodeRec
  BY <1>1 DEF TypeOK
<1>3. PICK a \in AddEntry(bm, inode[d]) :
        /\ entries' \in Added(a, d, name, r.ino)
        /\ IF a.ret = "ok"
             THEN /\ imap' = r.im
                  /\ bmap' = a.bm
                  /\ inode' = [inode EXCEPT ![r.ino] = rec, ![d] = a.dir]
                  /\ orphans' = orphans
             ELSE /\ imap' = PutInode(r.im, NInodes, r.ino)
                  /\ bmap' = PutBlocks(a.bm, NBlocks, {rec.bno})
                  /\ inode' = [inode EXCEPT ![d] = a.dir]
                  /\ orphans' = orphans \cup rec.data
        /\ cached' = Recached(dirs, inode[d].bno, a.dir.bno)
        /\ UNCHANGED <<released, twice>>
  BY DEF Enter
<1>4. Grows(bm, inode[d], a.bm, a.dir) /\ a.disk \in BOOLEAN /\ a.named \in BOOLEAN
  BY <1>1, <1>2, AddEntryGrows
<1>5. /\ a.bm \in BlockMap /\ a.dir \in InodeRec /\ a.dir.mode = "dir"
      /\ bm.bits \subseteq a.bm.bits /\ BelowMark(a.bm)
      /\ Holds(a.dir) \ Holds(inode[d]) \subseteq (a.bm.bits \ bm.bits) \cap DataBlocks
  BY <1>1, <1>4 DEF Grows
<1>6. entries' \in SUBSET Entry
  BY <1>1, <1>3, <1>4, AddedType
<1>7. cached' \in [Blocks -> Nat] /\ orphans' \in SUBSET Blocks
  <2>1. inode[d].bno \in Blocks /\ a.dir.bno \in Blocks /\ rec.data \in SUBSET Blocks
    BY <1>2, <1>5 DEF InodeRec
  <2>2. cached' \in [Blocks -> Nat]
    BY <1>3, <2>1, RecachedType
  <2> QED BY <1>1, <1>3, <2>1, <2>2 DEF TypeOK
<1>8. inode[r.ino].mode = "none" /\ r.ino # d /\ r.ino \notin released
  BY <1>1, <1>2 DEF InodesSane, ReleasedRegular
<1>9. d \notin released
  BY <1>1 DEF ReleasedRegular
<1>10. Holds(inode[d]) \subseteq DataBlocks /\ d \in imap.bits
  BY <1>1 DEF InodesSane
<1>11. Holds(a.dir) \subseteq DataBlocks
  BY <1>5, <1>10
<1>12. CASE a.ret = "ok"
  <2>1. imap' = r.im /\ bmap' = a.bm /\ inode' = [inode EXCEPT ![r.ino] = rec, ![d] = a.dir]
    BY <1>3, <1>12
  <2>2. /\ inode' \in [Inodes -> InodeRec]
        /\ inode'[d] = a.dir /\ inode'[r.ino] = rec
        /\ \A i \in Inodes : i # d /\ i # r.ino => inode'[i] = inode[i]
    BY <1>2, <1>5, <1>8, <2>1
  <2>3. TypeOK'
    BY <1>1, <1>3, <1>5, <1>6, <1>7, <2>1, <2>2 DEF TypeOK
  <2>4. MetaMarked' /\ HighWaterLag'
    BY <1>1, <1>5, <2>1 DEF MetaMarked, HighWaterLag, BelowMark
  <2>5. InodesSane'
    BY <1>1, <1>10, <1>11, <2>1, <2>2 DEF InodesSane
  <2>6. ReleasedRegular'
    BY <1>1, <1>3, <1>8, <1>9, <2>2, <2>3 DEF ReleasedRegular, TypeOK
  <2>7. Gained(d) \subseteq (a.bm.bits \ bm.bits) \cap DataBlocks
    <3>1. Owned(d) = Holds(inode[d]) /\ Owned(d)' = Holds(a.dir)
      BY <1>3, <1>5, <1>9, <2>2 DEF Owned, Holds
    <3> QED BY <1>5, <3>1 DEF Gained
  <2>8. Gained(r.ino) \subseteq (bm.bits \ bmap.bits) \cap DataBlocks
    <3>1. Owned(r.ino)' = Holds(rec)
      BY <1>3, <1>8, <2>2 DEF Owned, Holds
    <3> QED BY <3>1 DEF Gained
  <2>9. \A i \in Inodes : i # d /\ i # r.ino => Gained(i) = {}
    BY <1>3, <2>2 DEF Gained, Owned
  <2>10. \A i \in Inodes : Gained(i) \subseteq (bmap'.bits \ bmap.bits) \cap DataBlocks
    BY <1>5, <2>1, <2>7, <2>8, <2>9
  <2>11. \A i, j \in Inodes : i # j => Gained(i) \cap Gained(j) = {}
    BY <2>7, <2>8, <2>9
  <2>12. OwnedMarked' /\ NoSharing'
    <3>1. bmap.bits \subseteq bmap'.bits /\ twice' = twice
      BY <1>3, <1>5, <2>1
    <3> QED BY <1>1, <2>10, <2>11, <3>1, TakingStep
  <2> QED BY <2>3, <2>4, <2>5, <2>6, <2>12 DEF IInv
<1>13. CASE a.ret # "ok"
  <2>1. /\ imap' = PutInode(r.im, NInodes, r.ino)
        /\ bmap' = PutBlocks(a.bm, NBlocks, {rec.bno})
        /\ inode' = [inode EXCEPT ![d] = a.dir]
    BY <1>3, <1>13
  <2>2. /\ inode' \in [Inodes -> InodeRec]
        /\ inode'[d] = a.dir
        /\ \A i \in Inodes : i # d => inode'[i] = inode[i]
    BY <1>2, <1>5, <2>1
  <2>3. imap' \in InodeMap /\ imap.bits \subseteq imap'.bits
    BY <2>1, PutInodeSound
  <2>4. /\ bmap' \in BlockMap /\ BelowMark(bmap')
        /\ a.bm.bits \ {rec.bno} \subseteq bmap'.bits
    <3>1. {rec.bno} \in SUBSET Blocks
      BY DEF InodeRec
    <3> QED BY <1>5, <2>1, <3>1, PutBlocksSound
  <2>5. rec.bno \in bm.bits \ bmap.bits
    BY DEF Holds
  <2>6. bmap.bits \subseteq bmap'.bits
    BY <1>5, <2>4, <2>5
  <2>7. TypeOK'
    BY <1>1, <1>3, <1>6, <1>7, <2>2, <2>3, <2>4 DEF TypeOK
  <2>8. MetaMarked' /\ HighWaterLag'
    BY <1>1, <2>4, <2>6 DEF MetaMarked, HighWaterLag, BelowMark
  <2>9. InodesSane'
    BY <1>1, <1>10, <1>11, <2>2, <2>3 DEF InodesSane
  <2>10. ReleasedRegular'
    BY <1>1, <1>3, <1>9, <2>2, <2>7 DEF ReleasedRegular, TypeOK
  <2>11. Gained(d) \subseteq (bmap'.bits \ bmap.bits) \cap DataBlocks
    <3>1. Owned(d) = Holds(inode[d]) /\ Owned(d)' = Holds(a.dir)
      BY <1>3, <1>5, <1>9, <2>2 DEF Owned, Holds
    <3> QED BY <1>5, <2>4, <2>5, <3>1 DEF Gained
  <2>12. \A i \in Inodes : i # d => Gained(i) = {}
    BY <1>3, <2>2 DEF Gained, Owned
  <2>13. OwnedMarked' /\ NoSharing'
    <3>1. twice' = twice
      BY <1>3
    <3> QED BY <1>1, <2>6, <2>11, <2>12, <3>1, TakingStep
  <2> QED BY <2>7, <2>8, <2>9, <2>10, <2>13 DEF IInv
<1> QED BY <1>12, <1>13

LEMMA CreateFileStep ==
  ASSUME IInv, NEW d \in Inodes, NEW name \in Names, CreateFile(d, name)
  PROVE  IInv'
<1> DEFINE r == NewInodeCall
           rec == NewInode("reg", r.bno, {})
<1>1. /\ r.im \in InodeMap /\ imap.bits \subseteq r.im.bits
      /\ r.bm \in BlockMap /\ bmap.bits \subseteq r.bm.bits
      /\ BelowMark(bmap) => BelowMark(r.bm)
      /\ r.ino \in Inodes \ imap.bits /\ r.ino \in r.im.bits
      /\ r.bno \in (r.bm.bits \ bmap.bits) \cap DataBlocks
  BY NewInodeSound DEF CreateFile
<1>2. inode[d].mode = "dir" /\ Enter(d, name, r, rec, r.bm, cached)
  BY DEF CreateFile, MayCreate, MayAdd
<1>3. cached \in [Blocks -> Nat]
  BY DEF IInv, TypeOK
<1> HIDE DEF r
<1>4. rec \in InodeRec /\ rec.mode # "none" /\ Holds(rec) = {r.bno}
  <2>1. r.bno \in Blocks
    BY <1>1 DEF BlockMap
  <2> QED BY <2>1, NewInodeType
<1> HIDE DEF rec
<1> QED BY <1>1, <1>2, <1>3, <1>4, EnterStep

LEMMA MakeDirStep ==
  ASSUME IInv, NEW d \in Inodes, NEW name \in Names, MakeDir(d, name)
  PROVE  IInv'
<1> DEFINE r == NewInodeCall
           g == AllocBlock(r.bm)
           rec == NewInode("dir", r.bno, {g.bno})
           dirs == IF CacheSize < MaxDirs THEN [cached EXCEPT ![r.bno] = @ + 1] ELSE cached
<1>1. /\ r.im \in InodeMap /\ imap.bits \subseteq r.im.bits
      /\ r.bm \in BlockMap /\ bmap.bits \subseteq r.bm.bits
      /\ BelowMark(bmap) => BelowMark(r.bm)
      /\ r.ino \in Inodes \ imap.bits /\ r.ino \in r.im.bits
      /\ r.bno \in (r.bm.bits \ bmap.bits) \cap DataBlocks
  BY NewInodeSound DEF MakeDir
<1>2. inode[d].mode = "dir" /\ g.bno # NONE /\ Enter(d, name, r, rec, g.bm, dirs)
  BY DEF MakeDir, MayCreate, MayAdd
<1>3. r.bno \in Blocks
  BY <1>1 DEF BlockMap
<1>4. dirs \in [Blocks -> Nat]
  BY <1>3 DEF IInv, TypeOK
<1>5. /\ Grows(r.bm, inode[d], g.bm, inode[d])
      /\ g.bno \in (g.bm.bits \ r.bm.bits) \cap DataBlocks
  <2>1. inode[d] \in InodeRec /\ 1..(Meta - 1) \subseteq r.bm.bits
    BY <1>1 DEF IInv, TypeOK, MetaMarked
  <2> HIDE DEF r
  <2> QED BY <1>1, <1>2, <2>1, AllocBlockGrows
<1> HIDE DEF r, g
<1>6. /\ g.bm \in BlockMap /\ r.bm.bits \subseteq g.bm.bits
      /\ BelowMark(r.bm) => BelowMark(g.bm)
  BY <1>5 DEF Grows
<1>7. g.bno \in Blocks
  BY <1>5, <1>6 DEF BlockMap
<1>8. rec \in InodeRec /\ rec.mode # "none" /\ Holds(rec) = {r.bno, g.bno}
  BY <1>3, <1>7, NewInodeType
<1>9. Holds(rec) \subseteq (g.bm.bits \ bmap.bits) \cap DataBlocks
  BY <1>1, <1>5, <1>6, <1>8
<1> HIDE DEF rec, dirs
<1> QED BY <1>1, <1>2, <1>4, <1>6, <1>8, <1>9, EnterStep

(* The calls that fail before a new inode is entered keep at most some bits. *)
LEMMA FailedCreateStep ==
  ASSUME IInv, imap' \in InodeMap, imap.bits \subseteq imap'.bits,
         bmap' \in BlockMap, bmap.bits \subseteq bmap'.bits,
         BelowMark(bmap) => BelowMark(bmap'),
         UNCHANGED <<inode, entries, cached, released, orphans, twice>>
  PROVE  IInv'
<1>1. TypeOK'
  BY DEF IInv, TypeOK
<1>2. MetaMarked' /\ HighWaterLag'
  BY DEF IInv, MetaMarked, HighWaterLag, BelowMark
<1>3. InodesSane' /\ ReleasedRegular'
  BY DEF IInv, InodesSane, ReleasedRegular
<1>4. \A i \in Inodes : Owned(i)' = Owned(i)
  BY DEF Owned
<1>5. OwnedMarked' /\ NoSharing'
  BY <1>4, TakingStep DEF IInv, Gained
<1> QED BY <1>1, <1>2, <1>3, <1>5 DEF IInv

LEMMA NoSpaceForInodeStep ==
  ASSUME IInv, NEW d \in Inodes, NEW name \in Names, NoSpaceForInode(d, name)
  PROVE  IInv'
<1> DEFINE r == NewInodeCall
<1>1. /\ r.im \in InodeMap /\ imap.bits \subseteq r.im.bits
      /\ r.bm \in BlockMap /\ bmap.bits \subseteq r.bm.bits
      /\ BelowMark(bmap) => BelowMark(r.bm)
  BY NewInodeSound
<1>2. imap' = r.im /\ bmap' = r.bm /\ UNCHANGED <<inode, entries, cached, released, orphans, twice>>
  BY DEF NoSpaceForInode
<1> HIDE DEF r
<1> QED BY <1>1, <1>2, FailedCreateStep

LEMMA MakeDirNoNameListStep ==
  ASSUME IInv, NEW d \in Inodes, NEW name \in Names, MakeDirNoNameList(d, name)
  PROVE  IInv'
<1> DEFINE r == NewInodeCall
           g == AllocBlock(r.bm)
<1>1. /\ r.im \in InodeMap /\ imap.bits \subseteq r.im.bits
      /\ r.bm \in BlockMap /\ bmap.bits \subseteq r.bm.bits
      /\ BelowMark(bmap) => BelowMark(r.bm)
  BY NewInodeSound
<1>2. imap' = r.im /\ bmap' = g.bm /\ UNCHANGED <<inode, entries, cached, released, orphans, twice>>
  BY DEF MakeDirNoNameList
<1>3. inode[d] \in InodeRec /\ 1..(Meta - 1) \subseteq r.bm.bits
  BY <1>1 DEF IInv, TypeOK, MetaMarked
<1> HIDE DEF r
<1>4. Grows(r.bm, inode[d], g.bm, inode[d])
  BY <1>1, <1>3, AllocBlockGrows
<1> HIDE DEF g
<1>5. /\ g.bm \in BlockMap /\ r.bm.bits \subseteq g.bm.bits
      /\ BelowMark(r.bm) => BelowMark(g.bm)
  BY <1>4 DEF Grows
<1>6. bmap.bits \subseteq bmap'.bits
  BY <1>1, <1>2, <1>5
<1> QED BY <1>1, <1>2, <1>5, <1>6, FailedCreateStep

(* Two inodes that lead to the same blocks. *)
Same(x, y) == x.mode = y.mode /\ x.bno = y.bno /\ x.data = y.data

(* delete_entry counts one file less in a directory, which keeps its blocks. *)
LEMMA UncountedSame ==
  ASSUME NEW ind \in [Inodes -> InodeRec], NEW j \in Inodes,
         NEW new, new = [ind EXCEPT ![j].files = @ - 1]
  PROVE  /\ new \in [Inodes -> InodeRec]
         /\ \A i \in Inodes : Same(new[i], ind[i])
<1> DEFINE y == [ind[j] EXCEPT !.files = ind[j].files - 1]
<1>1. y \in InodeRec /\ Same(y, ind[j])
  BY DEF InodeRec, Same
<1>2. new = [ind EXCEPT ![j] = y]
  OBVIOUS
<1> HIDE DEF y
<1> QED BY <1>1, <1>2 DEF Same

(* link, rename and get_block: the inode in place i grows from inode[i] to  *)
(* x, the others lead to what they led to.                                 *)
LEMMA GrowingStep ==
  ASSUME IInv, NEW i \in Inodes, NEW x \in InodeRec, inode[i].mode # "none",
         Grows(bmap, inode[i], bmap', x),
         inode' \in [Inodes -> InodeRec], Same(inode'[i], x),
         \A j \in Inodes : j # i => Same(inode'[j], inode[j]),
         entries' \in SUBSET Entry, cached' \in [Blocks -> Nat],
         UNCHANGED <<imap, released, orphans, twice>>
  PROVE  IInv'
<1>1. /\ bmap' \in BlockMap /\ bmap.bits \subseteq bmap'.bits
      /\ BelowMark(bmap) => BelowMark(bmap')
      /\ Holds(x) \ Holds(inode[i]) \subseteq (bmap'.bits \ bmap.bits) \cap DataBlocks
      /\ x.mode = inode[i].mode
  BY DEF Grows
<1>2. /\ inode'[i].mode = x.mode /\ Holds(inode'[i]) = Holds(x)
      /\ \A j \in Inodes : j # i =>
           inode'[j].mode = inode[j].mode /\ Holds(inode'[j]) = Holds(inode[j])
  BY DEF Same, Holds
<1>3. TypeOK'
  BY <1>1 DEF IInv, TypeOK
<1>4. MetaMarked' /\ HighWaterLag'
  BY <1>1 DEF IInv, MetaMarked, HighWaterLag, BelowMark
<1>5. InodesSane'
  <2>1. Holds(inode[i]) \subseteq DataBlocks /\ i \in imap.bits
    BY DEF IInv, InodesSane
  <2>2. Holds(x) \subseteq DataBlocks
    BY <1>1, <2>1
  <2> QED BY <1>2, <2>1, <2>2 DEF IInv, InodesSane
<1>6. ReleasedRegular'
  BY <1>1, <1>2, <1>3 DEF IInv, ReleasedRegular, TypeOK
<1>7. Gained(i) \subseteq (bmap'.bits \ bmap.bits) \cap DataBlocks
  BY <1>1, <1>2 DEF Gained, Owned, Holds
<1>8. \A j \in Inodes : j # i => Gained(j) = {}
  BY <1>2 DEF Gained, Owned, Holds
<1>9. OwnedMarked' /\ NoSharing'
  BY <1>1, <1>7, <1>8, TakingStep DEF IInv
<1> QED BY <1>3, <1>4, <1>5, <1>6, <1>9 DEF IInv

(* What link and rename share: an entry goes into directory d, and at most  *)
(* a counter of another directory changes.                                 *)
LEMMA AddingStep ==
  ASSUME IInv, NEW e \in entries, NEW d \in Inodes, NEW name \in Names,
         inode[d].mode = "dir", NEW a \in AddEntry(bmap, inode[d]),
         NEW left \in Added(a, d, name, e.ino), entries' \subseteq left,
         bmap' = a.bm, NEW grown, grown = [inode EXCEPT ![d] = a.dir],
         inode' = grown \/ inode' = [grown EXCEPT ![e.dir].files = @ - 1],
         cached' = Recached(cached, inode[d].bno, a.dir.bno),
         UNCHANGED <<imap, released, orphans, twice>>
  PROVE  IInv'
<1>1. /\ inode \in [Inodes -> InodeRec] /\ inode[d] \in InodeRec
      /\ e.ino \in Inodes /\ e.dir \in Inodes
      /\ bmap \in BlockMap /\ 1..(Meta - 1) \subseteq bmap.bits
      /\ cached \in [Blocks -> Nat]
  BY DEF IInv, TypeOK, MetaMarked, Entry
<1>2. Grows(bmap, inode[d], a.bm, a.dir) /\ a.disk \in BOOLEAN /\ a.named \in BOOLEAN
  BY <1>1, AddEntryGrows
<1>3. a.dir \in InodeRec
  BY <1>2 DEF Grows
<1>4. entries' \in SUBSET Entry
  <2>1. left \in SUBSET Entry
    BY <1>1, <1>2, AddedType DEF IInv
  <2> QED BY <2>1
<1>5. cached' \in [Blocks -> Nat]
  <2>1. inode[d].bno \in Blocks /\ a.dir.bno \in Blocks
    BY <1>1, <1>3 DEF InodeRec
  <2> QED BY <1>1, <2>1, RecachedType
<1>6. /\ grown \in [Inodes -> InodeRec] /\ grown[d] = a.dir
      /\ \A j \in Inodes : j # d => grown[j] = inode[j]
  BY <1>1, <1>3
<1>7. inode' \in [Inodes -> InodeRec] /\ \A j \in Inodes : Same(inode'[j], grown[j])
  <2>1. CASE inode' = grown
    BY <1>6, <2>1 DEF Same
  <2>2. CASE inode' = [grown EXCEPT ![e.dir].files = @ - 1]
    BY <1>1, <1>6, <2>2, UncountedSame
  <2> QED BY <2>1, <2>2
<1>8. Same(inode'[d], a.dir) /\ \A j \in Inodes : j # d => Same(inode'[j], inode[j])
  BY <1>6, <1>7
<1> QED BY <1>2, <1>3, <1>4, <1>5, <1>7, <1>8, GrowingStep

LEMMA LinkStep ==
  ASSUME IInv, NEW e \in entries, NEW d \in Inodes, NEW name \in Names, Link(e, d, name)
  PROVE  IInv'
<1>1. PICK a \in AddEntry(bmap, inode[d]) :
        /\ bmap' = a.bm
        /\ inode' = [inode EXCEPT ![d] = a.dir]
        /\ entries' \in Added(a, d, name, e.ino)
        /\ cached' = Recached(cached, inode[d].bno, a.dir.bno)
  BY DEF Link
<1>2. inode[d].mode = "dir" /\ UNCHANGED <<imap, released, orphans, twice>>
  BY DEF Link, MayAdd
<1> QED BY <1>1, <1>2, AddingStep

LEMMA RenameStep ==
  ASSUME IInv, NEW e \in entries, NEW d \in Inodes, NEW name \in Names, Rename(e, d, name)
  PROVE  IInv'
<1>0. PICK a \in AddEntry(bmap, inode[d]) :
        \E left \in Added(a, d, name, e.ino) :
          /\ bmap' = a.bm
          /\ entries' \subseteq left
          /\ \/ inode' = [inode EXCEPT ![d] = a.dir]
             \/ inode' = [[inode EXCEPT ![d] = a.dir] EXCEPT ![e.dir].files = @ - 1]
          /\ cached' = Recached(cached, inode[d].bno, a.dir.bno)
  BY DEF Rename
<1>1. PICK left \in Added(a, d, name, e.ino) :
        /\ bmap' = a.bm
        /\ entries' \subseteq left
        /\ \/ inode' = [inode EXCEPT ![d] = a.dir]
           \/ inode' = [[inode EXCEPT ![d] = a.dir] EXCEPT ![e.dir].files = @ - 1]
        /\ cached' = Recached(cached, inode[d].bno, a.dir.bno)
  BY <1>0
<1>2. inode[d].mode = "dir" /\ UNCHANGED <<imap, released, orphans, twice>>
  BY DEF Rename, MayAdd
<1> DEFINE grown == [inode EXCEPT ![d] = a.dir]
<1>3. inode' = grown \/ inode' = [grown EXCEPT ![e.dir].files = @ - 1]
  BY <1>1
<1> HIDE DEF grown
<1>4. grown = [inode EXCEPT ![d] = a.dir]
  BY DEF grown
<1> QED BY <1>1, <1>2, <1>3, <1>4, AddingStep

LEMMA GetBlockStep ==
  ASSUME IInv, NEW i \in Inodes, GetBlock(i)
  PROVE  IInv'
<1> DEFINE g == GetFreeBlocks(bmap, NBlocks, ClusterLen)
           run == Run(g.bno, ClusterLen)
           f == inode[i]
           x == [f EXCEPT !.data = f.data \cup run, !.clusters = f.clusters + 1,
                          !.put = f.put \ run]
<1>1. /\ bmap \in BlockMap /\ 1..(Meta - 1) \subseteq bmap.bits /\ BelowMark(bmap)
      /\ inode \in [Inodes -> InodeRec] /\ f \in InodeRec
      /\ entries \in SUBSET Entry /\ cached \in [Blocks -> Nat]
  BY DEF IInv, TypeOK, MetaMarked, HighWaterLag, BelowMark
<1>2. ClusterLen \in Nat \ {0} /\ ClusterLen \in 1..ClusterLen
  BY VolumeAssumption
<1>3. /\ g.bm \in BlockMap
      /\ g.bno = NONE => g.bm.bits = bmap.bits
      /\ g.bno # NONE => /\ run \subseteq DataBlocks \ bmap.bits
                         /\ g.bm.bits = bmap.bits \cup run
  BY <1>1, <1>2, GetFreeBlocksSound
<1>4. BelowMark(g.bm)
  BY <1>1, <1>2, GetFreeBlocksBelowMark
<1>5. /\ f.mode = "reg" /\ f.clusters < MaxClusters /\ bmap' = g.bm
      /\ inode' = IF g.bno = NONE THEN inode ELSE [inode EXCEPT ![i] = x]
      /\ UNCHANGED <<imap, entries, cached, released, orphans, twice>>
  BY DEF GetBlock
<1> HIDE DEF g, run, x
<1>6. CASE g.bno = NONE
  <2>1. imap' = imap /\ inode' = inode /\ bmap.bits \subseteq bmap'.bits
    BY <1>3, <1>5, <1>6
  <2>2. imap' \in InodeMap
    BY <2>1 DEF IInv, TypeOK
  <2> QED BY <1>3, <1>4, <1>5, <2>1, <2>2, FailedCreateStep
<1>7. CASE g.bno # NONE
  <2>1. run \in SUBSET Blocks
    BY <1>3, <1>7 DEF BlockMap
  <2>2. f.clusters + 1 \in 0..MaxClusters
    BY <1>1, <1>5, VolumeAssumption DEF InodeRec
  <2>3. x \in InodeRec /\ x.mode = f.mode /\ Holds(x) = Holds(f) \cup run
    BY <1>1, <2>1, <2>2 DEF InodeRec, Holds, x
  <2>4. Grows(bmap, f, bmap', x)
    BY <1>3, <1>4, <1>5, <1>7, <2>3 DEF Grows
  <2>5. inode' = [inode EXCEPT ![i] = x] /\ entries' = entries /\ cached' = cached
    BY <1>5, <1>7
  <2>6. /\ inode' \in [Inodes -> InodeRec] /\ Same(inode'[i], x)
        /\ \A j \in Inodes : j # i => Same(inode'[j], inode[j])
    BY <1>1, <2>3, <2>5 DEF Same
  <2> QED BY <1>1, <1>5, <2>3, <2>4, <2>5, <2>6, GrowingStep
<1> QED BY <1>6, <1>7

LEMMA RemoveEntryOnlyStep ==
  ASSUME IInv, NEW e \in entries, RemoveEntryOnly(e)
  PROVE  IInv'
<1>1. /\ entries' = entries \ {e} /\ inode' = [inode EXCEPT ![e.dir].files = @ - 1]
      /\ UNCHANGED <<imap, bmap, cached, released, orphans, twice>>
  BY DEF RemoveEntryOnly, Without
<1>2. inode \in [Inodes -> InodeRec] /\ e.dir \in Inodes
  BY DEF IInv, TypeOK, Entry
<1>3. inode' \in [Inodes -> InodeRec] /\ \A i \in Inodes : Same(inode'[i], inode[i])
  BY <1>1, <1>2, UncountedSame
<1>4. TypeOK'
  BY <1>1, <1>3 DEF IInv, TypeOK
<1>5. \A i \in Inodes : inode'[i].mode = inode[i].mode /\ Holds(inode'[i]) = Holds(inode[i])
  BY <1>3 DEF Same, Holds
<1>6. InodesSane' /\ ReleasedRegular'
  BY <1>1, <1>4, <1>5 DEF IInv, InodesSane, ReleasedRegular, TypeOK
<1>7. \A i \in Inodes : Owned(i)' = Owned(i)
  BY <1>1, <1>5 DEF Owned, Holds
<1> QED BY <1>1, <1>4, <1>6, <1>7 DEF IInv, MetaMarked, OwnedMarked, NoSharing, HighWaterLag

(* unlink of a regular file: its data blocks go.  If it was never unlinked  *)
(* before, no other inode leads to them; if it was, the step is the one    *)
(* that sets "twice".                                                      *)
LEMMA UnlinkStep ==
  ASSUME IInv, NEW e \in entries, Unlink(e)
  PROVE  IInv'
<1> DEFINE f == inode[e.ino]
           half == PutBlocks(bmap, NBlocks, f.data)
           less == [inode EXCEPT ![e.dir].files = @ - 1]
<1>1. /\ bmap \in BlockMap /\ inode \in [Inodes -> InodeRec] /\ e.ino \in Inodes
      /\ f \in InodeRec /\ released \in SUBSET Inodes /\ twice \in BOOLEAN
      /\ imap \in InodeMap /\ cached \in [Blocks -> Nat] /\ entries \in SUBSET Entry
      /\ orphans \in SUBSET Blocks /\ e.dir \in Inodes
  BY DEF IInv, TypeOK, Entry
<1>2. /\ f.mode = "reg" /\ entries' = entries \ {e}
      /\ bmap' = PutBlocks(half, NBlocks, {0})
      /\ inode' = [less EXCEPT ![e.ino].put = f.data]
      /\ released' = released \cup {e.ino}
      /\ imap' = imap /\ cached' = cached /\ orphans' = orphans
  BY DEF Unlink, FileFreeBlocks, Without
<1>3. twice' = (twice \/ e.ino \in released)
  BY DEF Unlink
<1>4. f.data \in SUBSET Blocks /\ {0} \in SUBSET Blocks
  BY <1>1, VolumeAssumption DEF InodeRec, Blocks
<1>5. /\ half \in BlockMap
      /\ bmap.bits \ f.data \subseteq half.bits
      /\ BelowMark(bmap) => BelowMark(half)
  BY <1>1, <1>4, PutBlocksSound
<1> HIDE DEF half
<1>6. /\ bmap' \in BlockMap
      /\ half.bits \ {0} \subseteq bmap'.bits
      /\ BelowMark(half) => BelowMark(bmap')
  BY <1>2, <1>4, <1>5, PutBlocksSound
<1>7. less \in [Inodes -> InodeRec] /\ \A i \in Inodes : Same(less[i], inode[i])
  BY <1>1, UncountedSame
<1> HIDE DEF less
<1>8. /\ inode' \in [Inodes -> InodeRec]
      /\ \A i \in Inodes : inode'[i].mode = inode[i].mode /\ Holds(inode'[i]) = Holds(inode[i])
  <2> DEFINE x == [less[e.ino] EXCEPT !.put = f.data]
  <2>1. x \in InodeRec /\ Same(x, less[e.ino])
    BY <1>1, <1>4, <1>7 DEF InodeRec, Same
  <2>2. inode' = [less EXCEPT ![e.ino] = x]
    BY <1>2
  <2> HIDE DEF x
  <2>3. inode' \in [Inodes -> InodeRec] /\ \A i \in Inodes : Same(inode'[i], less[i])
    BY <1>7, <2>1, <2>2 DEF Same
  <2> QED BY <1>7, <2>3 DEF Same, Holds
<1>9. TypeOK'
  <2>1. twice' \in BOOLEAN
    BY <1>3
  <2> QED BY <1>1, <1>2, <1>6, <1>8, <2>1 DEF TypeOK
<1>10. f.data \subseteq DataBlocks
  BY <1>1, <1>2 DEF IInv, InodesSane, Holds
<1>11. MetaMarked'
  <2>1. \A b \in 1..(Meta - 1) : b # 0 /\ b \notin DataBlocks
    BY VolumeAssumption DEF DataBlocks
  <2> QED BY <1>5, <1>6, <1>10, <2>1 DEF IInv, MetaMarked
<1>12. HighWaterLag'
  BY <1>5, <1>6 DEF IInv, HighWaterLag, BelowMark
<1>13. InodesSane'
  BY <1>1, <1>2, <1>8 DEF IInv, InodesSane
<1>14. ReleasedRegular'
  BY <1>1, <1>2, <1>8 DEF IInv, ReleasedRegular
<1>15. Owned(e.ino)' = {}
  BY <1>1, <1>2 DEF Owned
<1>16. \A i \in Inodes : i # e.ino => Owned(i)' = Owned(i)
  BY <1>1, <1>2, <1>8 DEF Owned, Holds
<1>17. ASSUME ~twice', NEW i \in Inodes
       PROVE  Owned(i)' \cap bmap.bits \subseteq bmap'.bits
  <2>1. CASE i = e.ino
    BY <1>15, <2>1
  <2>2. CASE i # e.ino
    <3>1. ~twice /\ e.ino \notin released
      BY <1>3, <1>17
    <3>2. Owned(e.ino) = Holds(f)
      BY <1>2, <3>1 DEF Owned, Holds
    <3>3. Owned(i) \cap f.data = {} /\ Owned(i) \subseteq DataBlocks
      BY <1>1, <2>2, <3>1, <3>2 DEF IInv, NoSharing, OwnedMarked, Holds
    <3>4. 0 \notin Owned(i)
      BY <3>3, VolumeAssumption DEF DataBlocks
    <3> QED BY <1>5, <1>6, <1>16, <2>2, <3>3, <3>4
  <2> QED BY <2>1, <2>2
<1>18. OwnedMarked' /\ NoSharing'
  <2>1. \A i \in Inodes : Owned(i)' \subseteq Owned(i)
    BY <1>15, <1>16
  <2>2. twice' \/ twice' = twice
    BY <1>1, <1>3
  <2> QED BY <1>17, <2>1, <2>2, PuttingStep DEF IInv
<1> QED BY <1>9, <1>11, <1>12, <1>13, <1>14, <1>18 DEF IInv

(* rmdir: everything the directory led to goes with it. *)
LEMMA RmdirStep ==
  ASSUME IInv, NEW e \in entries, Rmdir(e)
  PROVE  IInv'
<1> DEFINE d == inode[e.ino]
           less == [inode EXCEPT ![e.dir].files = @ - 1]
<1>1. /\ bmap \in BlockMap /\ inode \in [Inodes -> InodeRec] /\ e.ino \in Inodes
      /\ orphans \in SUBSET Blocks /\ e.dir \in Inodes
      /\ d \in InodeRec /\ released \in SUBSET Inodes /\ twice \in BOOLEAN
      /\ imap \in InodeMap /\ cached \in [Blocks -> Nat] /\ entries \in SUBSET Entry
  BY DEF IInv, TypeOK, Entry
<1>2. /\ d.mode = "dir"
      /\ entries' = {x \in entries : x # e /\ x.dir # e.ino}
      /\ imap' = PutInode(imap, NInodes, e.ino)
      /\ bmap' = PutBlocks(bmap, NBlocks, d.data \cup {d.bno})
      /\ inode' = [less EXCEPT ![e.ino] = NoInode]
      /\ cached' = IF cached[d.bno] > 0 THEN [cached EXCEPT ![d.bno] = @ - 1] ELSE cached
      /\ UNCHANGED <<released, orphans, twice>>
  BY DEF Rmdir, FreeDir, Without
<1>3. d.data \cup {d.bno} \in SUBSET Blocks /\ Holds(d) = d.data \cup {d.bno}
  BY <1>1 DEF InodeRec, Holds
<1>4. /\ bmap' \in BlockMap /\ bmap.bits \ Holds(d) \subseteq bmap'.bits
      /\ BelowMark(bmap) => BelowMark(bmap')
  BY <1>1, <1>2, <1>3, PutBlocksSound
<1>5. imap' \in InodeMap /\ imap.bits \ {e.ino} \subseteq imap'.bits
  BY <1>1, <1>2, PutInodeSound
<1>6. NoInode \in InodeRec /\ NoInode.mode = "none"
  BY NoInodeType
<1>7. /\ inode' \in [Inodes -> InodeRec] /\ inode'[e.ino] = NoInode
      /\ \A i \in Inodes : i # e.ino =>
           inode'[i].mode = inode[i].mode /\ Holds(inode'[i]) = Holds(inode[i])
  <2>1. less \in [Inodes -> InodeRec] /\ \A i \in Inodes : Same(less[i], inode[i])
    BY <1>1, UncountedSame
  <2> HIDE DEF less
  <2> QED BY <1>1, <1>2, <1>6, <2>1 DEF Same, Holds
<1>8. TypeOK'
  <2>1. ASSUME cached[d.bno] > 0 PROVE cached' \in [Blocks -> Nat]
    <3>1. d.bno \in Blocks
      BY <1>1 DEF InodeRec
    <3> QED BY <1>1, <1>2, <2>1, <3>1
  <2>2. ASSUME ~(cached[d.bno] > 0) PROVE cached' \in [Blocks -> Nat]
    BY <1>1, <1>2, <2>2
  <2>3. cached' \in [Blocks -> Nat]
    BY <2>1, <2>2
  <2> QED BY <1>1, <1>2, <1>4, <1>5, <1>7, <2>3 DEF TypeOK
<1>9. Holds(d) \subseteq DataBlocks
  BY <1>1, <1>2 DEF IInv, InodesSane
<1>10. MetaMarked'
  <2>1. \A b \in 1..(Meta - 1) : b \notin DataBlocks
    BY VolumeAssumption DEF DataBlocks
  <2> QED BY <1>4, <1>9, <2>1 DEF IInv, MetaMarked
<1>11. HighWaterLag'
  BY <1>4 DEF IInv, HighWaterLag, BelowMark
<1>12. InodesSane'
  BY <1>1, <1>5, <1>6, <1>7 DEF IInv, InodesSane
<1>13. e.ino \notin released
  BY <1>2 DEF IInv, ReleasedRegular
<1>14. ReleasedRegular'
  BY <1>1, <1>2, <1>7, <1>13 DEF IInv, ReleasedRegular
<1>15. Owned(e.ino)' = {} /\ \A i \in Inodes : i # e.ino => Owned(i)' = Owned(i)
  BY <1>1, <1>2, <1>6, <1>7 DEF Owned, Holds
<1>16. ASSUME ~twice', NEW i \in Inodes
       PROVE  Owned(i)' \cap bmap.bits \subseteq bmap'.bits
  <2>1. CASE i = e.ino
    BY <1>15, <2>1
  <2>2. CASE i # e.ino
    <3>1. ~twice
      BY <1>2, <1>16
    <3>2. Owned(e.ino) = Holds(d)
      BY <1>2, <1>13 DEF Owned, Holds
    <3>3. Owned(i) \cap Holds(d) = {}
      BY <1>1, <2>2, <3>1, <3>2 DEF IInv, NoSharing
    <3> QED BY <1>4, <1>15, <2>2, <3>3
  <2> QED BY <2>1, <2>2
<1>17. OwnedMarked' /\ NoSharing'
  <2>1. \A i \in Inodes : Owned(i)' \subseteq Owned(i)
    BY <1>15
  <2>2. twice' \/ twice' = twice
    BY <1>2
  <2> QED BY <1>16, <2>1, <2>2, PuttingStep DEF IInv
<1> QED BY <1>8, <1>10, <1>11, <1>12, <1>14, <1>17 DEF IInv

----
LEMMA StepIInv == IInv /\ [Next]_vars => IInv'
<1> SUFFICES ASSUME IInv, [Next]_vars PROVE IInv'
  OBVIOUS
<1>1. ASSUME NEW d \in Inodes, NEW name \in Names, NoSpaceForInode(d, name) PROVE IInv'
  BY <1>1, NoSpaceForInodeStep
<1>2. ASSUME NEW d \in Inodes, NEW name \in Names, CreateFile(d, name) PROVE IInv'
  BY <1>2, CreateFileStep
<1>3. ASSUME NEW d \in Inodes, NEW name \in Names, MakeDirNoNameList(d, name) PROVE IInv'
  BY <1>3, MakeDirNoNameListStep
<1>4. ASSUME NEW d \in Inodes, NEW name \in Names, MakeDir(d, name) PROVE IInv'
  BY <1>4, MakeDirStep
<1>5. ASSUME NEW d \in Inodes, NEW name \in Names, NEW e \in entries, Link(e, d, name)
      PROVE  IInv'
  BY <1>5, LinkStep
<1>6. ASSUME NEW d \in Inodes, NEW name \in Names, NEW e \in entries, Rename(e, d, name)
      PROVE  IInv'
  BY <1>6, RenameStep
<1>7. ASSUME NEW i \in Inodes, GetBlock(i) PROVE IInv'
  BY <1>7, GetBlockStep
<1>8. ASSUME NEW e \in entries, Unlink(e) PROVE IInv'
  BY <1>8, UnlinkStep
<1>9. ASSUME NEW e \in entries, Rmdir(e) PROVE IInv'
  BY <1>9, RmdirStep
<1>10. ASSUME NEW e \in entries, RemoveEntryOnly(e) PROVE IInv'
  BY <1>10, RemoveEntryOnlyStep
<1>11. CASE UNCHANGED vars
  BY <1>11 DEF vars, IInv, TypeOK, MetaMarked, InodesSane, ReleasedRegular, OwnedMarked,
            NoSharing, HighWaterLag, Owned
<1> QED BY <1>1, <1>2, <1>3, <1>4, <1>5, <1>6, <1>7, <1>8, <1>9, <1>10, <1>11 DEF Next

LEMMA Inductive == Spec => []IInv
BY InitIInv, StepIInv, PTL DEF Spec

(* The maps, the inodes and the entries keep their types: no counter leaves *)
(* its 32 bits and no failed search stores the number -1 anywhere.         *)
THEOREM TypeCorrect == Spec => []TypeOK
<1>1. IInv => TypeOK
  BY DEF IInv
<1> QED BY <1>1, Inductive, PTL

(* Every block an inode leads to is in use and behind the metadata, until   *)
(* some file is put twice.                                                 *)
THEOREM OwnedBlocksAreMarked == Spec => []OwnedMarked
<1>1. IInv => OwnedMarked
  BY DEF IInv
<1> QED BY <1>1, Inductive, PTL

(* No block is led to by two inodes, until some file is put twice. *)
THEOREM BlocksAreNotShared == Spec => []NoSharing
<1>1. IInv => NoSharing
  BY DEF IInv
<1> QED BY <1>1, Inductive, PTL

(* A block in use lies less than a cluster above s_unused_area, until a     *)
(* search for blocks fails.                                                *)
THEOREM MarkLagsLessThanACluster == Spec => []HighWaterLag
<1>1. IInv => HighWaterLag
  BY DEF IInv
<1> QED BY <1>1, Inductive, PTL

----
(***************************************************************************)
(* The counter of free inodes.  It is exact because get_free_inode never   *)
(* fails behind the check s_nfree_inodes != 0: bit 0, which the search      *)
(* leaves out, is set for good, since no entry leads to the root.          *)
(***************************************************************************)

Exact(im) == im.nfree = Cardinality(Inodes \ im.bits)

CInv ==
  /\ InodeCounterExact
  /\ 0 \in imap.bits
  /\ \A e \in entries : e.ino # 0

LEMMA ClearInodesFinite ==
  ASSUME NEW S \in SUBSET Inodes
  PROVE  /\ IsFiniteSet(Inodes \ S)
         /\ Cardinality(Inodes \ S) \in 0..NInodes
<1>1. IsFiniteSet(Inodes) /\ Cardinality(Inodes) = NInodes
  BY FS_Interval, VolumeAssumption DEF Inodes
<1>2. IsFiniteSet(Inodes \ S) /\ Cardinality(Inodes \ S) <= NInodes
  BY <1>1, FS_Subset
<1> QED BY <1>2, FS_CardinalityType, VolumeAssumption

LEMMA PutInodeExact ==
  ASSUME NEW im \in InodeMap, Exact(im), NEW ino \in im.bits
  PROVE  /\ Exact(PutInode(im, NInodes, ino))
         /\ PutInode(im, NInodes, ino).bits = im.bits \ {ino}
<1> DEFINE free == Inodes \ im.bits
<1>1. ino \in Inodes /\ ino \notin free /\ Inodes \ (im.bits \ {ino}) = free \cup {ino}
  BY DEF InodeMap
<1>2. ~PutRefused(NInodes, ino, 1)
  <2>1. U32(ino + 1 - 1) = ino
    BY <1>1, U32Id, VolumeAssumption, WordAssumption DEF Inodes
  <2> QED BY <1>1, <2>1, VolumeAssumption DEF PutRefused, Inodes
<1>3. PutInode(im, NInodes, ino) = [bits |-> im.bits \ {ino}, nfree |-> U32(im.nfree + 1)]
  BY <1>2 DEF PutInode
<1>4. IsFiniteSet(free) /\ Cardinality(free) \in Nat
  BY ClearInodesFinite DEF InodeMap
<1>5. Cardinality(free \cup {ino}) = im.nfree + 1
  <2> HIDE DEF free
  <2>1. Cardinality(free \cup {ino}) = Cardinality(free) + 1
    BY <1>1, <1>4, FS_AddElement
  <2> QED BY <2>1 DEF Exact, free
<1>6. Cardinality(free \cup {ino}) \in 0..NInodes
  <2>1. im.bits \ {ino} \in SUBSET Inodes
    BY DEF InodeMap
  <2> QED BY <1>1, <2>1, ClearInodesFinite
<1>7. U32(im.nfree + 1) = im.nfree + 1
  BY <1>5, <1>6, U32Id, VolumeAssumption, WordAssumption
<1> QED BY <1>1, <1>3, <1>5, <1>7 DEF Exact

LEMMA GetFreeInodeExact ==
  ASSUME NEW im \in InodeMap, Exact(im), 0 \in im.bits, im.nfree # 0,
         NEW g, g = GetFreeInode(im, NInodes)
  PROVE  /\ g.ino \in Inodes \ im.bits
         /\ g.im.bits = im.bits \cup {g.ino}
         /\ Exact(g.im)
<1> DEFINE free == Inodes \ im.bits
           n == GetFirstFreeBits(im.bits, NInodes, 1)
<1>1. IsFiniteSet(free) /\ Cardinality(free) \in 0..NInodes
  BY ClearInodesFinite DEF InodeMap
<1>2. free # {}
  BY <1>1, FS_EmptySet DEF Exact
<1>3. PICK i \in free : TRUE
  BY <1>2
<1>4. i \in ZeroAreas(im.bits, NInodes, 1, 1)
  <2>1. i \in 1..(NInodes - 1) /\ Run(i, 1) = {i}
    BY <1>3, VolumeAssumption DEF Inodes, Run
  <2> QED BY <1>3, <2>1 DEF ZeroAreas
<1>5. n # NONE
  <2> DEFINE Z == ZeroAreas(im.bits, NInodes, 1, 1)
  <2>1. Z \in SUBSET Nat
    BY VolumeAssumption DEF ZeroAreas
  <2>2. n = Least(Z)
    BY <1>4 DEF GetFirstFreeBits
  <2>3. Z # {}
    BY <1>4
  <2> HIDE DEF Z, n
  <2>4. n \in Nat
    BY <2>1, <2>2, <2>3, LeastIsMember
  <2> QED BY <2>4 DEF NONE
<1>6. n \in 1..(NInodes - 1) /\ Run(n, 1) \cap im.bits = {}
  BY <1>5, FirstFreeIsFree, VolumeAssumption
<1>7. Run(n, 1) = {n}
  BY <1>6, VolumeAssumption DEF Run
<1>8. n \in free
  BY <1>6, <1>7, VolumeAssumption DEF Inodes
<1>9. g.ino = n /\ g.im = [bits |-> im.bits \cup {n}, nfree |-> U32(im.nfree - 1)]
  BY <1>5, <1>7 DEF GetFreeInode, SetBits
<1> HIDE DEF n
<1>10. Cardinality(free \ {n}) = im.nfree - 1
  <2> HIDE DEF free
  <2>1. Cardinality(free \ {n}) = Cardinality(free) - 1
    BY <1>1, <1>8, FS_RemoveElement
  <2> QED BY <2>1 DEF Exact, free
<1>11. U32(im.nfree - 1) = im.nfree - 1
  <2>1. im.nfree - 1 \in 0..(Word - 1)
    BY WordAssumption DEF InodeMap
  <2> QED BY <2>1, U32Id
<1>12. Inodes \ (im.bits \cup {n}) = free \ {n}
  OBVIOUS
<1>13. g.im.bits = im.bits \cup {n} /\ g.im.nfree = im.nfree - 1
  BY <1>9, <1>11
<1>14. Exact(g.im)
  BY <1>10, <1>12, <1>13 DEF Exact
<1> QED BY <1>8, <1>9, <1>13, <1>14

LEMMA NewInodeExact ==
  ASSUME IInv, CInv, imap.nfree # 0, NEW r, r = NewInodeCall
  PROVE  /\ r.im \in InodeMap /\ Exact(r.im) /\ 0 \in r.im.bits
         /\ r.ino # NONE => r.ino # 0 /\ r.ino \in r.im.bits
<1> DEFINE gi == GetFreeInode(imap, NInodes)
           gb == AllocBlock(bmap)
           pi == PutInode(gi.im, NInodes, gi.ino)
<1>1. imap \in InodeMap /\ Exact(imap) /\ 0 \in imap.bits
  BY DEF IInv, TypeOK, CInv, InodeCounterExact, Exact
<1>2. gi.ino \in Inodes \ imap.bits /\ gi.im.bits = imap.bits \cup {gi.ino} /\ Exact(gi.im)
  BY <1>1, GetFreeInodeExact
<1>3. gi.im \in InodeMap
  BY <1>1, GetFreeInodeSound
<1>4. Exact(pi) /\ pi.bits = gi.im.bits \ {gi.ino} /\ pi \in InodeMap
  BY <1>2, <1>3, PutInodeExact, PutInodeSound
<1>5. gi.ino # NONE /\ gi.ino # 0
  BY <1>1, <1>2 DEF NONE, Inodes
<1>6. r = IF gi.ino = NONE \/ gb.bno = NONE
            THEN [im |-> pi, bm |-> IF gi.ino = NONE THEN bmap ELSE gb.bm,
                  ino |-> NONE, bno |-> NONE]
            ELSE [im |-> gi.im, bm |-> gb.bm, ino |-> gi.ino, bno |-> gb.bno]
  BY DEF NewInodeCall
<1> HIDE DEF gi, gb, pi
<1>7. \/ r.im = pi /\ r.ino = NONE
      \/ r.im = gi.im /\ r.ino = gi.ino
  BY <1>6
<1> QED BY <1>1, <1>2, <1>3, <1>4, <1>5, <1>7

LEMMA AddedNotRoot ==
  ASSUME IInv, \A e \in entries : e.ino # 0, NEW a, NEW d, NEW name, NEW ino, ino # 0,
         NEW new \in Added(a, d, name, ino)
  PROVE  \A e \in new : e.ino # 0
<1> DEFINE x == [dir |-> d, name |-> name, ino |-> ino, disk |-> a.disk, named |-> a.named]
<1>1. x.ino # 0
  OBVIOUS
<1> HIDE DEF x
<1>2. PICK X \in SUBSET entries :
        new \subseteq entries \cup {[e EXCEPT !.disk = FALSE] : e \in X} \cup {x}
  BY DEF Added, EntriesOf, x
<1>3. \A e \in X : [e EXCEPT !.disk = FALSE].ino = e.ino
  BY DEF IInv, TypeOK, Entry
<1>4. \A e \in {[y EXCEPT !.disk = FALSE] : y \in X} : e.ino # 0
  BY <1>3
<1> QED BY <1>1, <1>2, <1>4

LEMMA EnterExact ==
  ASSUME NEW d, NEW name, NEW r, NEW rec, NEW bm, NEW dirs,
         IInv, CInv, r.im \in InodeMap, Exact(r.im), 0 \in r.im.bits, r.ino # 0,
         r.ino \in r.im.bits, Enter(d, name, r, rec, bm, dirs)
  PROVE  CInv'
<1>1. PICK a \in AddEntry(bm, inode[d]) :
        /\ entries' \in Added(a, d, name, r.ino)
        /\ imap' = r.im \/ imap' = PutInode(r.im, NInodes, r.ino)
  BY DEF Enter
<1>2. Exact(imap') /\ 0 \in imap'.bits
  BY <1>1, PutInodeExact
<1>3. \A e \in entries' : e.ino # 0
  BY <1>1, AddedNotRoot DEF CInv
<1> QED BY <1>2, <1>3 DEF CInv, InodeCounterExact, Exact

LEMMA StepCInv == IInv /\ CInv /\ [Next]_vars => CInv'
<1> SUFFICES ASSUME IInv, CInv, [Next]_vars PROVE CInv'
  OBVIOUS
<1> DEFINE r == NewInodeCall
<1>1. imap.nfree # 0 => /\ r.im \in InodeMap /\ Exact(r.im) /\ 0 \in r.im.bits
                        /\ r.ino # NONE => r.ino # 0 /\ r.ino \in r.im.bits
  BY NewInodeExact
<1>2. ASSUME imap' = imap, \A e \in entries' : e.ino # 0 PROVE CInv'
  BY <1>2 DEF CInv, InodeCounterExact
<1>3. ASSUME imap.nfree # 0, imap' = r.im, entries' = entries PROVE CInv'
  BY <1>1, <1>3 DEF CInv, InodeCounterExact, Exact
<1>4. ASSUME NEW d \in Inodes, NEW name \in Names, NoSpaceForInode(d, name) PROVE CInv'
  BY <1>3, <1>4 DEF NoSpaceForInode, MayCreate
<1>5. ASSUME NEW d \in Inodes, NEW name \in Names, CreateFile(d, name) PROVE CInv'
  BY <1>1, <1>5, EnterExact DEF CreateFile, MayCreate
<1>6. ASSUME NEW d \in Inodes, NEW name \in Names, MakeDirNoNameList(d, name) PROVE CInv'
  BY <1>3, <1>6 DEF MakeDirNoNameList, MayCreate
<1>7. ASSUME NEW d \in Inodes, NEW name \in Names, MakeDir(d, name) PROVE CInv'
  <2>1. imap.nfree # 0 /\ r.ino # NONE
    BY <1>7 DEF MakeDir, MayCreate
  <2>2. \E bm, dirs, rec : Enter(d, name, r, rec, bm, dirs)
    BY <1>7 DEF MakeDir
  <2> HIDE DEF r
  <2> QED BY <1>1, <2>1, <2>2, EnterExact
<1>8. ASSUME NEW d \in Inodes, NEW name \in Names, NEW e \in entries, Link(e, d, name)
      PROVE  CInv'
  <2>1. imap' = imap /\ \E a : entries' \in Added(a, d, name, e.ino)
    BY <1>8 DEF Link
  <2> QED BY <1>2, <2>1, AddedNotRoot DEF CInv
<1>9. ASSUME NEW d \in Inodes, NEW name \in Names, NEW e \in entries, Rename(e, d, name)
      PROVE  CInv'
  <2>1. imap' = imap /\ \E a : \E left \in Added(a, d, name, e.ino) : entries' \subseteq left
    BY <1>9 DEF Rename
  <2> QED BY <1>2, <2>1, AddedNotRoot DEF CInv
<1>10. ASSUME NEW i \in Inodes, GetBlock(i) PROVE CInv'
  BY <1>2, <1>10 DEF GetBlock, CInv
<1>11. ASSUME NEW e \in entries, Unlink(e) \/ RemoveEntryOnly(e) PROVE CInv'
  BY <1>2, <1>11 DEF Unlink, RemoveEntryOnly, CInv
<1>12. ASSUME NEW e \in entries, Rmdir(e) PROVE CInv'
  <2>1. e.ino \in imap.bits /\ e.ino # 0
    BY <1>12 DEF IInv, TypeOK, InodesSane, Rmdir, CInv, Entry
  <2>2. imap \in InodeMap /\ Exact(imap) /\ 0 \in imap.bits
    BY DEF IInv, TypeOK, CInv, InodeCounterExact, Exact
  <2>3. imap' = PutInode(imap, NInodes, e.ino) /\ entries' \subseteq entries
    BY <1>12 DEF Rmdir
  <2>4. Exact(imap') /\ 0 \in imap'.bits
    BY <2>1, <2>2, <2>3, PutInodeExact
  <2> QED BY <2>3, <2>4 DEF CInv, InodeCounterExact, Exact
<1>13. CASE UNCHANGED vars
  BY <1>2, <1>13 DEF vars, CInv
<1> QED BY <1>4, <1>5, <1>6, <1>7, <1>8, <1>9, <1>10, <1>11, <1>12, <1>13 DEF Next

LEMMA InitCInv == Init => CInv
<1> SUFFICES ASSUME Init PROVE CInv
  OBVIOUS
<1>1. imap.bits = {0} /\ imap.nfree = NInodes - 1 /\ entries = {}
  BY DEF Init, RootIno
<1>2. IsFiniteSet(Inodes) /\ Cardinality(Inodes) = NInodes /\ 0 \in Inodes
  BY FS_Interval, VolumeAssumption DEF Inodes
<1>3. Cardinality(Inodes \ {0}) = NInodes - 1
  BY <1>2, FS_RemoveElement
<1> QED BY <1>1, <1>3 DEF CInv, InodeCounterExact

(* s_nfree_inodes is the number of clear bits of the inode map, so that the *)
(* search for an inode that new_inode makes behind its check succeeds.      *)
THEOREM InodeCounterIsExact == Spec => []InodeCounterExact
<1>1. CInv => InodeCounterExact
  BY DEF CInv
<1> QED BY <1>1, Inductive, InitCInv, StepCInv, PTL DEF Spec
====
