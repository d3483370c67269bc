---- MODULE VolumeCountProofs ----
(***************************************************************************)
(* What the counters of Volume count, for every disk size, cluster length  *)
(* and set of names: s_nfree_blocks, the blocks in use that nothing leads  *)
(* to, and nr_of_files of a directory.  All three hold as long as no       *)
(* search for blocks has failed: then every call takes exactly the blocks   *)
(* that some inode leads to afterwards.                                    *)
(***************************************************************************)
EXTENDS VolumeProofs

----
(* The counter of free blocks (Bitmap).                                    *)

Free(bm) == (1..(NBlocks - 1)) \ bm.bits

(* The counter is the number of clear bits, and k too high. *)
Counted(bm, k) == bm.nfree = U32(Cardinality(Free(bm)) + k)

LEMMA FreeFinite ==
  ASSUME NEW bm
  PROVE  IsFiniteSet(Free(bm)) /\ Cardinality(Free(bm)) \in Nat
<1>1. IsFiniteSet(1..(NBlocks - 1))
  BY FS_Interval, VolumeAssumption
<1>2. IsFiniteSet(Free(bm))
  BY <1>1, FS_Subset DEF Free
<1> QED BY <1>2, FS_CardinalityType

(* get_free_blocks takes len from the counter and, when it succeeds, sets   *)
(* len bits that were clear.                                               *)
LEMMA GetFreeBlocksCounted ==
  ASSUME NEW bm \in BlockMap, 1..(Meta - 1) \subseteq bm.bits,
         NEW len \in Nat \ {0}, NEW k \in Int, Counted(bm, k),
         NEW g, g = GetFreeBlocks(bm, NBlocks, len), g.bno # NONE
  PROVE  Counted(g.bm, k)
<1> DEFINE run == Run(g.bno, len)
<1>1. run \subseteq DataBlocks \ bm.bits /\ g.bm.bits = bm.bits \cup run
  BY GetFreeBlocksSound
<1>2. run \subseteq Free(bm) /\ Free(g.bm) = Free(bm) \ run
  <2>1. DataBlocks \subseteq 1..(NBlocks - 1)
    BY VolumeAssumption DEF DataBlocks
  <2> HIDE DEF run
  <2> QED BY <1>1, <2>1 DEF Free
<1>3. Cardinality(run) = len
  <2>1. g.bno = GetFirstFreeBits(bm.bits, NBlocks, len)
    BY DEF GetFreeBlocks
  <2>2. NBlocks \in Nat
    BY VolumeAssumption
  <2>3. g.bno \in Int
    BY <2>1, <2>2, FirstFreeIsFree
  <2>4. Cardinality(g.bno..(g.bno + len - 1)) = len
    BY <2>3, FS_Interval
  <2> QED BY <2>4 DEF Run
<1> HIDE DEF run
<1>4. Cardinality(Free(g.bm)) = Cardinality(Free(bm)) - len
  <2>1. IsFiniteSet(Free(bm)) /\ Free(bm) \cap run = run
    BY <1>2, FreeFinite
  <2>2. Cardinality(Free(bm) \ run) = Cardinality(Free(bm)) - Cardinality(Free(bm) \cap run)
    BY <2>1, FS_Difference
  <2> QED BY <1>2, <1>3, <2>1, <2>2
<1>5. g.bm.nfree = U32(bm.nfree - len)
  BY DEF GetFreeBlocks
<1>6. PICK c \in Int : c = Cardinality(Free(bm))
  BY FreeFinite
<1>7. PICK x \in Int : x = c + k
  BY <1>6
<1>8. bm.nfree = U32(x) /\ Cardinality(Free(g.bm)) + k = x - len
  BY <1>4, <1>6, <1>7 DEF Counted
<1>9. U32(U32(x) - len) = U32(x - len)
  <2>1. PICK m \in Int : m = -len
    OBVIOUS
  <2>2. U32(U32(x) + m) = U32(x + m)
    BY U32Again
  <2>3. U32(x) \in Int
    BY U32Type
  <2>4. U32(x) + m = U32(x) - len /\ x + m = x - len
    BY <2>1, <2>3
  <2> QED BY <2>2, <2>4, Zenon
<1> QED BY <1>5, <1>8, <1>9, Zenon DEF Counted

(* put_blocks of marked blocks: as many bits are cleared as are counted.    *)
LEMMA PutBlocksCounted ==
  ASSUME NEW bm \in BlockMap, NEW S \in SUBSET DataBlocks, S \subseteq bm.bits,
         NEW k \in Int, Counted(bm, k)
  PROVE  /\ Counted(PutBlocks(bm, NBlocks, S), k)
         /\ PutBlocks(bm, NBlocks, S).bits = bm.bits \ S
         /\ PutBlocks(bm, NBlocks, S).short = bm.short
<1> DEFINE p == PutBlocks(bm, NBlocks, S)
           n == Cardinality(S)
<1>1. {b \in S : ~PutRefused(NBlocks, b, 1)} = S
  <2> SUFFICES ASSUME NEW b \in S PROVE ~PutRefused(NBlocks, b, 1)
    OBVIOUS
  <2>1. b \in 0..(Word - 1) /\ b <= NBlocks /\ b \in Int
    BY VolumeAssumption, WordAssumption DEF DataBlocks
  <2>2. U32(b + 1 - 1) = b
    BY <2>1, U32Id
  <2> QED BY <2>1, <2>2, VolumeAssumption DEF PutRefused
<1>2. p = [bm EXCEPT !.bits = @ \ S, !.nfree = U32(@ + Cardinality(S))]
  BY <1>1, Zenon DEF PutBlocks
<1>3. p.bits = bm.bits \ S /\ p.nfree = U32(bm.nfree + n) /\ p.short = bm.short
  BY <1>2 DEF BlockMap
<1>4. Free(p) = Free(bm) \cup S /\ Free(bm) \cap S = {} /\ S \subseteq Free(p)
  <2>1. DataBlocks \subseteq 1..(NBlocks - 1)
    BY VolumeAssumption DEF DataBlocks
  <2> HIDE DEF p
  <2> QED BY <1>3, <2>1 DEF Free
<1> HIDE DEF p
<1>5. IsFiniteSet(S)
  BY <1>4, FreeFinite, FS_Subset
<1>6. n \in Nat
  BY <1>5, FS_CardinalityType
<1>7. Cardinality(Free(p)) = Cardinality(Free(bm)) + n
  <2>1. IsFiniteSet(Free(bm)) /\ Cardinality(Free(bm)) \in Nat
    BY FreeFinite
  <2>2. Cardinality(Free(bm) \cup S) =
          Cardinality(Free(bm)) + Cardinality(S) - Cardinality(Free(bm) \cap S)
    BY <1>5, <2>1, FS_Union
  <2>3. Cardinality(Free(bm) \cap S) = 0
    BY <1>4, FS_EmptySet
  <2> QED BY <1>4, <1>6, <2>1, <2>2, <2>3
<1> HIDE DEF n
<1>8. PICK c \in Int : c = Cardinality(Free(bm))
  BY FreeFinite
<1>9. PICK x \in Int : x = c + k
  BY <1>8
<1>10. bm.nfree = U32(x) /\ Cardinality(Free(p)) + k = x + n
  BY <1>6, <1>7, <1>8, <1>9 DEF Counted
<1>11. U32(U32(x) + n) = U32(x + n)
  BY <1>6, U32Again
<1>12. Counted(p, k)
  BY <1>3, <1>10, <1>11, Zenon DEF Counted
<1> QED BY <1>3, <1>12 DEF p

(* put_blocks of block 0, which is no data block: the counter is one higher *)
(* and no bit that is counted changes.                                     *)
LEMMA PutZeroCounted ==
  ASSUME NEW bm \in BlockMap, NEW k \in Int, Counted(bm, k)
  PROVE  /\ Counted(PutBlocks(bm, NBlocks, {0}), k + 1)
         /\ PutBlocks(bm, NBlocks, {0}).bits = bm.bits \ {0}
         /\ PutBlocks(bm, NBlocks, {0}).short = bm.short
<1> DEFINE p == PutBlocks(bm, NBlocks, {0})
<1>1. {b \in {0} : ~PutRefused(NBlocks, b, 1)} = {0}
  <2>1. U32(0) = 0
    BY U32Id, WordAssumption
  <2>2. ~PutRefused(NBlocks, 0, 1)
    BY <2>1, VolumeAssumption DEF PutRefused
  <2> QED BY <2>2
<1>2. p = [bm EXCEPT !.bits = @ \ {0}, !.nfree = U32(@ + Cardinality({0}))]
  BY <1>1, Zenon DEF PutBlocks
<1>3. Cardinality({0}) = 1
  BY FS_Singleton
<1>4. p.bits = bm.bits \ {0} /\ p.nfree = U32(bm.nfree + 1) /\ p.short = bm.short
  BY <1>2, <1>3 DEF BlockMap
<1> HIDE DEF p
<1>5. Free(p) = Free(bm)
  BY <1>4, VolumeAssumption DEF Free
<1>6. PICK c \in Int : c = Cardinality(Free(bm))
  BY FreeFinite
<1>7. PICK x \in Int : x = c + k
  BY <1>6
<1>8. bm.nfree = U32(x) /\ Cardinality(Free(p)) + (k + 1) = x + 1
  BY <1>5, <1>6, <1>7 DEF Counted
<1>9. U32(U32(x) + 1) = U32(x + 1)
  BY U32Steps
<1>10. Counted(p, k + 1)
  BY <1>4, <1>8, <1>9, Zenon DEF Counted
<1> QED BY <1>4, <1>10 DEF p

----
(* Growing a directory while no search fails.                               *)

(* The map went from bm to bm2 and the inode from d to d2, and no search    *)
(* had failed in the end: if what d holds was marked, the bits that are     *)
(* set now are those that were set and the ones d2 holds, and the counter   *)
(* is off by what it was.                                                   *)
Fills(bm, d, bm2, d2) ==
  ~bm2.short =>
    /\ ~bm.short
    /\ Holds(d) \subseteq bm.bits =>
         /\ Holds(d) \subseteq Holds(d2)
         /\ bm2.bits = bm.bits \cup Holds(d2)
         /\ \A k \in Int : Counted(bm, k) => Counted(bm2, k)

LEMMA FillsTransitive ==
  ASSUME NEW bm, NEW d, NEW bm2, NEW d2, NEW bm3, NEW d3,
         Fills(bm, d, bm2, d2), Fills(bm2, d2, bm3, d3)
  PROVE  Fills(bm, d, bm3, d3)
<1> SUFFICES ASSUME ~bm3.short
             PROVE  /\ ~bm.short
                    /\ Holds(d) \subseteq bm.bits =>
                         /\ Holds(d) \subseteq Holds(d3)
                         /\ bm3.bits = bm.bits \cup Holds(d3)
                         /\ \A k \in Int : Counted(bm, k) => Counted(bm3, k)
  BY DEF Fills
<1>1. ~bm2.short /\ ~bm.short
  BY DEF Fills
<1>2. ASSUME Holds(d) \subseteq bm.bits
      PROVE  /\ Holds(d) \subseteq Holds(d3)
             /\ bm3.bits = bm.bits \cup Holds(d3)
             /\ \A k \in Int : Counted(bm, k) => Counted(bm3, k)
  <2>1. /\ Holds(d) \subseteq Holds(d2)
        /\ bm2.bits = bm.bits \cup Holds(d2)
        /\ \A k \in Int : Counted(bm, k) => Counted(bm2, k)
    BY <1>1, <1>2 DEF Fills
  <2>2. Holds(d2) \subseteq bm2.bits
    BY <2>1
  <2>3. /\ Holds(d2) \subseteq Holds(d3)
        /\ bm3.bits = bm2.bits \cup Holds(d3)
        /\ \A k \in Int : Counted(bm2, k) => Counted(bm3, k)
    BY <2>2 DEF Fills
  <2> QED BY <2>1, <2>3
<1> QED BY <1>1, <1>2

LEMMA FillsSame ==
  ASSUME NEW bm, NEW d, NEW d2, Holds(d2) = Holds(d)
  PROVE  Fills(bm, d, bm, d2)
BY DEF Fills

(* One block: the search fails, or the block is marked and counted. *)
LEMMA AllocBlockFills ==
  ASSUME NEW bm \in BlockMap, 1..(Meta - 1) \subseteq bm.bits,
         NEW a, a = AllocBlock(bm)
  PROVE  /\ ~a.bm.short => ~bm.short /\ a.bno # NONE
         /\ a.bno # NONE => /\ a.bm.bits = bm.bits \cup {a.bno}
                            /\ \A k \in Int : Counted(bm, k) => Counted(a.bm, k)
<1>1. a.bm.short = (bm.short \/ a.bno = NONE)
  BY DEF AllocBlock, GetFreeBlocks
<1>2. ASSUME a.bno # NONE PROVE a.bm.bits = bm.bits \cup {a.bno}
  <2>1. a.bm.bits = bm.bits \cup Run(a.bno, 1)
    BY <1>2, GetFreeBlocksSound DEF AllocBlock
  <2>2. a.bno = GetFirstFreeBits(bm.bits, NBlocks, 1) /\ NBlocks \in Nat
    BY VolumeAssumption DEF AllocBlock, GetFreeBlocks
  <2>3. a.bno \in Int
    BY <1>2, <2>2, FirstFreeIsFree
  <2> QED BY <2>1, <2>3 DEF Run
<1>3. ASSUME a.bno # NONE, NEW k \in Int, Counted(bm, k) PROVE Counted(a.bm, k)
  <2>1. 1 \in Nat \ {0}
    OBVIOUS
  <2> QED BY <1>3, <2>1, GetFreeBlocksCounted DEF AllocBlock
<1> QED BY <1>1, <1>2, <1>3

LEMMA GrownFills ==
  ASSUME NEW bm \in BlockMap, 1..(Meta - 1) \subseteq bm.bits, NEW d \in InodeRec,
         NEW a, a = AllocBlock(bm)
  PROVE  /\ Fills(bm, d, a.bm, Grown(d, a.bno))
         /\ Grown(d, a.bno).files = d.files
<1>1. /\ ~a.bm.short => ~bm.short /\ a.bno # NONE
      /\ a.bno # NONE => /\ a.bm.bits = bm.bits \cup {a.bno}
                         /\ \A k \in Int : Counted(bm, k) => Counted(a.bm, k)
  BY AllocBlockFills
<1>2. a.bno # NONE => /\ Holds(Grown(d, a.bno)) = Holds(d) \cup {a.bno}
  BY DEF Grown, Holds, InodeRec
<1>3. Grown(d, a.bno).files = d.files
  BY DEF Grown, InodeRec
<1>4. Fills(bm, d, a.bm, Grown(d, a.bno))
  BY <1>1, <1>2 DEF Fills
<1> QED BY <1>3, <1>4

(* What an insertion into the tree comes to when no search has failed: the  *)
(* entry is in the tree, and the root counts one more.                     *)
Kept(d, t) ==
  ~t.bm.short =>
    /\ t.ret = "ok"
    /\ t.kept
    /\ ~t.halved
    /\ t.dir.files = d.files + 1

LEMMA InsertedFields ==
  ASSUME NEW bm, NEW d \in InodeRec, NEW kept \in BOOLEAN,
         NEW t, t = Inserted(bm, d, kept)
  PROVE  /\ t.ret = "ok" /\ (kept => t.kept) /\ ~t.halved
         /\ t.dir.files = d.files + 1
<1> DEFINE st == d.stored \/ kept
           n == d.files + 1
           x == [d EXCEPT !.files = n, !.stored = st]
<1>1. t = TreeOutcome(bm, x, "ok", kept, FALSE)
  BY DEF Inserted
<1>2. x.files = n
  BY DEF InodeRec
<1> HIDE DEF x
<1>3. t.dir = x /\ t.ret = "ok"
  BY <1>1 DEF TreeOutcome
<1>5. kept => t.kept
  BY <1>1 DEF TreeOutcome
<1>6. ~t.halved
  BY <1>1 DEF TreeOutcome
<1>7. t.dir.files = n
  BY <1>2, <1>3
<1> QED BY <1>3, <1>5, <1>6, <1>7, Zenon

LEMMA InsertNonFullFills ==
  ASSUME NEW bm \in BlockMap, 1..(Meta - 1) \subseteq bm.bits,
         NEW d \in InodeRec, NEW h, NEW t \in InsertNonFull(bm, d, h)
  PROVE  Fills(bm, d, t.bm, t.dir) /\ Kept(d, t)
<1> DEFINE a == AllocBlock(bm)
           b == AllocBlock(a.bm)
           d1 == Grown(d, a.bno)
           d2 == Grown(d1, b.bno)
           more == b.bno # NONE
<1>1. Grows(bm, d, a.bm, d1)
  BY AllocBlockGrows
<1>2. a.bm \in BlockMap /\ 1..(Meta - 1) \subseteq a.bm.bits /\ d1 \in InodeRec
  BY <1>1 DEF Grows
<1>3. /\ Fills(bm, d, a.bm, d1) /\ d1.files = d.files
      /\ ~a.bm.short => ~bm.short /\ a.bno # NONE
  BY AllocBlockFills, GrownFills
<1>4. /\ Fills(a.bm, d1, b.bm, d2) /\ d2.files = d1.files
      /\ ~b.bm.short => ~a.bm.short /\ b.bno # NONE
  BY <1>2, AllocBlockFills, GrownFills
<1>5. Grows(a.bm, d1, b.bm, d2)
  BY <1>2, AllocBlockGrows
<1>6. d2 \in InodeRec /\ Fills(bm, d, b.bm, d2)
  BY <1>3, <1>4, <1>5, FillsTransitive DEF Grows
<1>7. Fills(bm, d, bm, d)
  BY FillsSame
<1>8. \/ t = Inserted(bm, d, TRUE)
      \/ t = Refused(a.bm, d, "ENOSPC") /\ a.bno = NONE
      \/ t = Inserted(a.bm, d1, TRUE)
      \/ t = Inserted(a.bm, d, FALSE) /\ a.bno = NONE
      \/ t = Inserted(b.bm, d2, more)
  BY DEF InsertNonFull
<1> HIDE DEF a, b, d1, d2
<1>9. ASSUME NEW bm2, NEW x \in InodeRec, NEW kept \in BOOLEAN, t = Inserted(bm2, x, kept),
             ~bm2.short => kept, x.files = d.files, Fills(bm, d, bm2, x)
      PROVE  Fills(bm, d, t.bm, t.dir) /\ Kept(d, t)
  <2>1. t.bm = bm2 /\ t.dir \in InodeRec /\ Holds(t.dir) = Holds(x)
    BY <1>9, InsertedSound
  <2>2. t.ret = "ok" /\ (kept => t.kept) /\ ~t.halved /\ t.dir.files = x.files + 1
    BY <1>9, InsertedFields
  <2>3. Fills(bm2, x, t.bm, t.dir)
    BY <2>1, FillsSame
  <2> QED BY <1>9, <2>1, <2>2, <2>3, FillsTransitive DEF Kept
<1>10. CASE a.bno = NONE /\ t = Refused(a.bm, d, "ENOSPC")
  <2>1. t.bm = a.bm /\ t.dir = d
    BY <1>10, RefusedSound
  <2>2. t.bm.short
    BY <1>3, <1>10, <2>1
  <2> QED BY <2>1, <2>2 DEF Fills, Kept
<1>11. CASE a.bno = NONE /\ t = Inserted(a.bm, d, FALSE)
  <2>2. t.bm = a.bm
    BY <1>11 DEF Inserted, TreeOutcome
  <2>3. t.bm.short
    BY <1>3, <1>11, <2>2
  <2> QED BY <2>3 DEF Fills, Kept
<1>12. CASE t = Inserted(b.bm, d2, more)
  <2>1. more \in BOOLEAN /\ (~b.bm.short => more)
    BY <1>4
  <2> HIDE DEF more
  <2> QED BY <1>3, <1>4, <1>6, <1>9, <1>12, <2>1
<1> QED BY <1>2, <1>3, <1>7, <1>8, <1>9, <1>10, <1>11, <1>12

LEMMA InsertAtFullRootFills ==
  ASSUME NEW bm \in BlockMap, 1..(Meta - 1) \subseteq bm.bits,
         NEW d \in InodeRec, d.height < MaxHeight, NEW t \in InsertAtFullRoot(bm, d)
  PROVE  Fills(bm, d, t.bm, t.dir) /\ Kept(d, t)
<1> DEFINE a == AllocBlock(bm)
           b == AllocBlock(a.bm)
           raised == [d EXCEPT !.bno = a.bno, !.data = d.data \cup {d.bno, b.bno},
                               !.height = d.height + 1]
           below == InsertNonFull(b.bm, raised, d.height)
<1>1. /\ ~a.bm.short => ~bm.short /\ a.bno # NONE
      /\ a.bno # NONE => /\ a.bm.bits = bm.bits \cup {a.bno}
                         /\ \A k \in Int : Counted(bm, k) => Counted(a.bm, k)
  BY AllocBlockFills
<1>2. /\ Grows(bm, d, a.bm, d)
      /\ a.bno # NONE => a.bno \in (a.bm.bits \ bm.bits) \cap DataBlocks
  BY AllocBlockGrows
<1>3. a.bm \in BlockMap /\ 1..(Meta - 1) \subseteq a.bm.bits
  BY <1>2 DEF Grows
<1>4. /\ ~b.bm.short => ~a.bm.short /\ b.bno # NONE
      /\ b.bno # NONE => /\ b.bm.bits = a.bm.bits \cup {b.bno}
                         /\ \A k \in Int : Counted(a.bm, k) => Counted(b.bm, k)
  BY <1>3, AllocBlockFills
<1>5. /\ Grows(a.bm, d, b.bm, d)
      /\ b.bno # NONE => b.bno \in (b.bm.bits \ a.bm.bits) \cap DataBlocks
  BY <1>3, AllocBlockGrows
<1>6. b.bm \in BlockMap /\ 1..(Meta - 1) \subseteq b.bm.bits
  BY <1>3, <1>5 DEF Grows
<1> HIDE DEF a, b
<1>7. CASE a.bno = NONE \/ b.bno = NONE
  <2>1. \/ t = Refused(a.bm, d, "ENOSPC") /\ a.bno = NONE
        \/ t = Refused(b.bm, d, "ENOSPC") /\ b.bno = NONE
    BY <1>7 DEF InsertAtFullRoot, a, b
  <2>2. t.bm.short
    BY <1>1, <1>4, <2>1, RefusedSound
  <2> QED BY <2>2 DEF Fills, Kept
<1>8. CASE a.bno # NONE /\ b.bno # NONE
  <2>1. a.bno \in Blocks /\ b.bno \in Blocks /\ d.bno \in Blocks
    BY <1>2, <1>3, <1>5, <1>6, <1>8 DEF BlockMap, InodeRec
  <2>2. /\ raised \in InodeRec
        /\ raised.files = d.files
        /\ Holds(raised) = Holds(d) \cup {a.bno, b.bno}
    <3> DEFINE h == d.height + 1
               data == d.data \cup {d.bno, b.bno}
    <3>1. h \in 0..MaxHeight
      BY DEF InodeRec, MaxHeight
    <3>2. data \in SUBSET Blocks
      BY <2>1 DEF InodeRec
    <3>3. Holds(d) \cup {a.bno, b.bno} = {a.bno} \cup data
      BY DEF Holds
    <3>4. raised = [d EXCEPT !.bno = a.bno, !.data = data, !.height = h]
      OBVIOUS
    <3> HIDE DEF h, data, raised
    <3> QED BY <2>1, <3>1, <3>2, <3>3, <3>4 DEF InodeRec, Holds
  <2> HIDE DEF raised
  <2>3. Fills(bm, d, b.bm, raised)
    BY <1>1, <1>4, <1>8, <2>2 DEF Fills
  <2>4. \A u \in below : Fills(bm, d, u.bm, u.dir) /\ Kept(d, u)
    <3> SUFFICES ASSUME NEW u \in below PROVE Fills(bm, d, u.bm, u.dir) /\ Kept(d, u)
      OBVIOUS
    <3>1. Fills(b.bm, raised, u.bm, u.dir) /\ Kept(raised, u)
      BY <1>6, <2>2, InsertNonFullFills
    <3> QED BY <2>2, <2>3, <3>1, FillsTransitive DEF Kept
  <2>5. \/ t \in below
        \/ \E u \in below, X \in SUBSET d.data :
             /\ u.ret # "ok"
             /\ t = TreeOutcome(u.bm, [d EXCEPT !.data = @ \ X], "ENOSPC", FALSE, TRUE)
    BY <1>8 DEF InsertAtFullRoot, a, b, raised
  <2> HIDE DEF below
  <2>6. CASE t \in below
    BY <2>4, <2>6
  <2>7. ASSUME NEW u \in below, u.ret # "ok", NEW X,
               t = TreeOutcome(u.bm, [d EXCEPT !.data = @ \ X], "ENOSPC", FALSE, TRUE)
        PROVE  Fills(bm, d, t.bm, t.dir) /\ Kept(d, t)
    <3>1. u.bm.short
      BY <2>4, <2>7 DEF Kept
    <3>2. t.bm.short
      BY <2>7, <3>1 DEF TreeOutcome
    <3> QED BY <3>2 DEF Fills, Kept
  <2> QED BY <2>5, <2>6, <2>7
<1> QED BY <1>7, <1>8

LEMMA TreeInsertFills ==
  ASSUME NEW bm \in BlockMap, 1..(Meta - 1) \subseteq bm.bits,
         NEW d \in InodeRec, NEW t \in TreeInsert(bm, d)
  PROVE  Fills(bm, d, t.bm, t.dir) /\ Kept(d, t)
BY InsertNonFullFills, InsertAtFullRootFills DEF TreeInsert

LEMMA NameInsertFills ==
  ASSUME NEW bm \in BlockMap, 1..(Meta - 1) \subseteq bm.bits,
         NEW d \in InodeRec, NEW n \in NameInsert(bm, d)
  PROVE  Fills(bm, d, n.bm, n.dir) /\ n.dir.files = d.files
<1> DEFINE b == AllocBlock(bm)
           real == b.bno # NONE
           torn == [d EXCEPT !.torn = TRUE]
           dir == IF b.bno = NONE THEN torn ELSE Grown(d, b.bno)
<1>1. /\ Fills(bm, d, b.bm, Grown(d, b.bno))
      /\ Grown(d, b.bno).files = d.files
      /\ ~b.bm.short => ~bm.short /\ b.bno # NONE
  BY AllocBlockFills, GrownFills
<1>2. torn.files = d.files
  BY DEF InodeRec
<1> HIDE DEF b, torn
<1>3. Fills(bm, d, b.bm, dir) /\ dir.files = d.files
  BY <1>1, <1>2 DEF Fills
<1>4. \/ n = [bm |-> bm, dir |-> d, named |-> TRUE]
      \/ n = [bm |-> b.bm, dir |-> dir, named |-> real]
      \/ n = [bm |-> bm, dir |-> d, named |-> FALSE]
  BY DEF NameInsert, b, torn
<1> HIDE DEF real, dir
<1>5. (n.bm = b.bm /\ n.dir = dir) \/ (n.bm = bm /\ n.dir = d)
  BY <1>4
<1> QED BY <1>3, <1>5, FillsSame

(* add_entry, when no search has failed: the entry is in the tree and       *)
(* counted, or the lookup at its start refused it and nothing changed.     *)
Outcome(bm, d, a) ==
  ~a.bm.short =>
    \/ /\ a.ret = "ok" /\ a.disk /\ a.seen /\ ~a.halved
       /\ a.dir.files = d.files + 1
    \/ /\ a.ret # "ok" /\ ~a.seen /\ ~a.halved
       /\ a.dir = d /\ a.bm = bm

LEMMA AddEntryFills ==
  ASSUME NEW bm \in BlockMap, 1..(Meta - 1) \subseteq bm.bits,
         NEW d \in InodeRec, NEW a \in AddEntry(bm, d)
  PROVE  Fills(bm, d, a.bm, a.dir) /\ Outcome(bm, d, a)
<1>1. CASE a \in AddRefused(bm, d)
  <2>1. a = AddOutcome(TRUE, Refused(bm, d, "EIO"), FALSE)
    BY <1>1 DEF AddRefused
  <2>2. /\ a.bm = bm /\ a.dir = d /\ a.ret = "EIO"
        /\ ~a.seen /\ ~a.halved
    BY <2>1 DEF AddOutcome, Refused, TreeOutcome
  <2> QED BY <2>2, FillsSame DEF Outcome
<1>2. CASE a \notin AddRefused(bm, d)
  <2>1. PICK n \in NameInsert(bm, d), c \in MayCache(d) :
          \E t \in TreeInsert(n.bm, n.dir) : a = AddOutcome(n.named, t, c)
    BY <1>2 DEF AddEntry
  <2>2. PICK t \in TreeInsert(n.bm, n.dir) : a = AddOutcome(n.named, t, c)
    BY <2>1
  <2>3. Grows(bm, d, n.bm, n.dir) /\ Fills(bm, d, n.bm, n.dir) /\ n.dir.files = d.files
    BY NameInsertGrows, NameInsertFills
  <2>4. n.bm \in BlockMap /\ n.dir \in InodeRec /\ 1..(Meta - 1) \subseteq n.bm.bits
    BY <2>3 DEF Grows
  <2>5. Fills(n.bm, n.dir, t.bm, t.dir) /\ Kept(n.dir, t)
    BY <2>4, TreeInsertFills
  <2>6. a.bm = t.bm /\ a.dir = t.dir /\ a.disk = t.kept /\ a.halved = t.halved
    BY <2>2 DEF AddOutcome
  <2>7. t.ret = "ok" /\ t.kept => a.ret = "ok" /\ a.seen
    BY <2>2 DEF AddOutcome
  <2>8. Outcome(bm, d, a)
    BY <2>3, <2>5, <2>6, <2>7 DEF Outcome, Kept
  <2> QED BY <2>3, <2>5, <2>6, <2>8, FillsTransitive
<1> QED BY <1>1, <1>2

----
(***************************************************************************)
(* nr_of_files.  The count is kept by every call because no entry is ever   *)
(* found in what is not a directory, so that a new directory starts with    *)
(* none, and because a name is entered only where it is not taken, so that  *)
(* an insertion adds one entry and not none.                               *)
(***************************************************************************)

OnDisk(ents, i) == {e \in ents : e.dir = i /\ e.disk}

Tally(ind, ents) ==
  /\ IsFiniteSet(ents)
  /\ \A i \in Inodes : ind[i].mode = "dir" => ind[i].files = Cardinality(OnDisk(ents, i))

EntriesInDirs == \A e \in entries : inode[e.dir].mode = "dir"

FileInv ==
  /\ EntriesInDirs
  /\ ~bmap.short => Tally(inode, entries)

LEMMA OnDiskFinite ==
  ASSUME NEW ents, IsFiniteSet(ents), NEW i
  PROVE  IsFiniteSet(OnDisk(ents, i)) /\ Cardinality(OnDisk(ents, i)) \in Nat
<1>1. OnDisk(ents, i) \subseteq ents
  BY DEF OnDisk
<1> QED BY <1>1, FS_Subset, FS_CardinalityType

LEMMA TallyAdd ==
  ASSUME NEW ind \in [Inodes -> InodeRec], NEW ents, Tally(ind, ents),
         NEW e \in Entry, e \notin ents, e.disk, ind[e.dir].mode = "dir",
         NEW x \in InodeRec, x.files = ind[e.dir].files + 1,
         NEW new, new = [ind EXCEPT ![e.dir] = x]
  PROVE  Tally(new, ents \cup {e})
<1>1. e.dir \in Inodes
  BY DEF Entry
<1>2. new[e.dir] = x /\ \A i \in Inodes : i # e.dir => new[i] = ind[i]
  BY <1>1
<1>3. IsFiniteSet(ents)
  BY DEF Tally
<1>4. OnDisk(ents \cup {e}, e.dir) = OnDisk(ents, e.dir) \cup {e} /\ e \notin OnDisk(ents, e.dir)
  BY DEF OnDisk
<1>5. \A i \in Inodes : i # e.dir => OnDisk(ents \cup {e}, i) = OnDisk(ents, i)
  BY DEF OnDisk
<1>6. Cardinality(OnDisk(ents, e.dir) \cup {e}) = Cardinality(OnDisk(ents, e.dir)) + 1
  <2>1. IsFiniteSet(OnDisk(ents, e.dir))
    BY <1>3, OnDiskFinite
  <2> QED BY <1>4, <2>1, FS_AddElement
<1>7. x.files = Cardinality(OnDisk(ents \cup {e}, e.dir))
  BY <1>1, <1>4, <1>6 DEF Tally
<1>8. IsFiniteSet(ents \cup {e})
  BY <1>3, FS_AddElement
<1> QED BY <1>2, <1>5, <1>7, <1>8 DEF Tally

LEMMA TallyRemove ==
  ASSUME NEW ind \in [Inodes -> InodeRec], NEW ents, Tally(ind, ents),
         NEW e \in ents, e \in Entry, e.disk,
         NEW new, new = [ind EXCEPT ![e.dir].files = @ - 1]
  PROVE  Tally(new, ents \ {e})
<1>1. e.dir \in Inodes
  BY DEF Entry
<1>2. /\ new[e.dir].mode = ind[e.dir].mode /\ new[e.dir].files = ind[e.dir].files - 1
      /\ \A i \in Inodes : i # e.dir => new[i] = ind[i]
  <2> DEFINE n == ind[e.dir].files - 1
             x == [ind[e.dir] EXCEPT !.files = n]
  <2>1. x.mode = ind[e.dir].mode /\ x.files = n
    <3>1. ind[e.dir] \in InodeRec
      BY <1>1
    <3> HIDE DEF n
    <3> QED BY <3>1 DEF InodeRec
  <2>2. new = [ind EXCEPT ![e.dir] = x]
    OBVIOUS
  <2> HIDE DEF x
  <2>3. new[e.dir] = x /\ \A i \in Inodes : i # e.dir => new[i] = ind[i]
    BY <1>1, <2>2
  <2> QED BY <2>1, <2>3
<1>3. IsFiniteSet(ents) /\ IsFiniteSet(ents \ {e})
  <2>1. IsFiniteSet(ents)
    BY DEF Tally
  <2> QED BY <2>1, FS_RemoveElement
<1>4. OnDisk(ents \ {e}, e.dir) = OnDisk(ents, e.dir) \ {e} /\ e \in OnDisk(ents, e.dir)
  BY DEF OnDisk
<1>5. \A i \in Inodes : i # e.dir => OnDisk(ents \ {e}, i) = OnDisk(ents, i)
  BY DEF OnDisk
<1>6. Cardinality(OnDisk(ents, e.dir) \ {e}) = Cardinality(OnDisk(ents, e.dir)) - 1
  <2>1. IsFiniteSet(OnDisk(ents, e.dir))
    BY <1>3, OnDiskFinite
  <2> QED BY <1>4, <2>1, FS_RemoveElement
<1>7. ind[e.dir].mode = "dir" => new[e.dir].files = Cardinality(OnDisk(ents \ {e}, e.dir))
  BY <1>1, <1>2, <1>4, <1>6 DEF Tally
<1> QED BY <1>2, <1>3, <1>5, <1>7 DEF Tally

(* An inode that no entry lies in is set up with the count 0. *)
LEMMA TallyFresh ==
  ASSUME NEW ind \in [Inodes -> InodeRec], NEW ents, Tally(ind, ents), NEW i \in Inodes,
         \A e \in ents : e.dir # i, NEW rec \in InodeRec, rec.files = 0,
         NEW new, new = [ind EXCEPT ![i] = rec]
  PROVE  Tally(new, ents)
<1>1. new[i] = rec /\ \A j \in Inodes : j # i => new[j] = ind[j]
  OBVIOUS
<1>2. OnDisk(ents, i) = {}
  BY DEF OnDisk
<1>3. Cardinality(OnDisk(ents, i)) = 0
  BY <1>2, FS_EmptySet
<1> QED BY <1>1, <1>3 DEF Tally

(* The inodes after a step count what they counted, and so do the entries. *)
LEMMA TallySame ==
  ASSUME NEW ind, NEW ents, Tally(ind, ents), NEW new,
         \A i \in Inodes : new[i].mode = "dir" =>
           ind[i].mode = "dir" /\ new[i].files = ind[i].files
  PROVE  Tally(new, ents)
BY DEF Tally

(* What add_entry leaves of the entries lies in directories it lay in, and  *)
(* the new entry in d.                                                     *)
LEMMA AddedDirs ==
  ASSUME TypeOK, NEW a, NEW d, NEW name, NEW ino, NEW new \in Added(a, d, name, ino)
  PROVE  \A e \in new : e.dir = d \/ \E x \in entries : e.dir = x.dir
<1> DEFINE y == [dir |-> d, name |-> name, ino |-> ino, disk |-> a.disk, named |-> a.named]
<1>1. y.dir = d
  OBVIOUS
<1> HIDE DEF y
<1>2. PICK X \in SUBSET entries :
        new \subseteq entries \cup {[x EXCEPT !.disk = FALSE] : x \in X} \cup {y}
  BY DEF Added, EntriesOf, y
<1>3. \A x \in X : [x EXCEPT !.disk = FALSE].dir = x.dir
  BY DEF TypeOK, Entry
<1>4. \A e \in {[x EXCEPT !.disk = FALSE] : x \in X} : \E x \in X : e.dir = x.dir
  BY <1>3
<1> QED BY <1>1, <1>2, <1>4

(* add_entry with outcome a on directory d of ind, where the name is free:  *)
(* the count follows the entries.                                          *)
LEMMA AddedTally ==
  ASSUME TypeOK, NEW ind \in [Inodes -> InodeRec], Tally(ind, entries),
         NEW d \in Inodes, ind[d].mode = "dir", NEW name \in Names, ~Taken(d, name),
         NEW ino \in Inodes, NEW bm, NEW a, Outcome(bm, ind[d], a), ~a.bm.short,
         a.dir \in InodeRec, a.disk \in BOOLEAN, a.named \in BOOLEAN,
         NEW new \in Added(a, d, name, ino)
  PROVE  /\ Tally([ind EXCEPT ![d] = a.dir], new)
         /\ entries \subseteq new
<1> DEFINE y == [dir |-> d, name |-> name, ino |-> ino, disk |-> a.disk, named |-> a.named]
           grown == [ind EXCEPT ![d] = a.dir]
<1>1. y \in Entry /\ y.dir = d /\ y.name = name
  BY DEF Entry
<1>2. y.disk = a.disk
  BY Zenon
<1>3. y \notin entries
  BY <1>1 DEF Taken, EntriesOf
<1>4. ~a.halved => /\ a.seen => new = entries \cup {y}
                   /\ ~a.seen => new = entries
  BY DEF Added
<1> HIDE DEF y
<1>5. CASE /\ a.ret = "ok" /\ a.disk /\ a.seen /\ ~a.halved
           /\ a.dir.files = ind[d].files + 1
  <2>1. y.disk /\ new = entries \cup {y}
    BY <1>2, <1>4, <1>5
  <2>2. Tally(grown, entries \cup {y})
    BY <1>1, <1>3, <1>5, <2>1, TallyAdd
  <2> QED BY <2>1, <2>2
<1>6. CASE ~a.seen /\ ~a.halved /\ a.dir = ind[d]
  <2>1. new = entries
    BY <1>4, <1>6
  <2>2. \A i \in Inodes : grown[i] = ind[i]
    BY <1>6
  <2> HIDE DEF grown
  <2>3. Tally(grown, entries)
    BY <2>2, TallySame
  <2> QED BY <2>1, <2>3 DEF grown
<1> QED BY <1>5, <1>6 DEF Outcome

LEMMA PutBlocksShort ==
  ASSUME NEW bm \in BlockMap, NEW S
  PROVE  PutBlocks(bm, NBlocks, S).short = bm.short
<1> DEFINE T == {b \in S : ~PutRefused(NBlocks, b, 1)}
           bits == bm.bits \ T
           n == U32(bm.nfree + Cardinality(T))
<1>1. PutBlocks(bm, NBlocks, S) = [bm EXCEPT !.bits = bits, !.nfree = n]
  BY DEF PutBlocks
<1> HIDE DEF bits, n
<1> QED BY <1>1 DEF BlockMap

LEMMA NewInodeShort ==
  ASSUME IInv, NEW r, r = NewInodeCall, r.ino # NONE
  PROVE  /\ ~r.bm.short => ~bmap.short
         /\ r.bm.bits = bmap.bits \cup {r.bno}
         /\ \A k \in Int : Counted(bmap, k) => Counted(r.bm, k)
<1> DEFINE gb == AllocBlock(bmap)
<1>1. r.bm = gb.bm /\ r.bno = gb.bno /\ r.bno # NONE
  BY DEF NewInodeCall
<1>2. bmap \in BlockMap /\ 1..(Meta - 1) \subseteq bmap.bits
  BY DEF IInv, TypeOK, MetaMarked
<1> QED BY <1>1, <1>2, AllocBlockFills

(* After an addition every entry lies in what was a directory. *)
LEMMA AddedInDirs ==
  ASSUME TypeOK, EntriesInDirs, NEW d \in Inodes, inode[d].mode = "dir", NEW a, NEW name, NEW ino,
         NEW new \in Added(a, d, name, ino), entries' \subseteq new,
         \A i \in Inodes : inode[i].mode = "dir" => inode'[i].mode = "dir"
  PROVE  EntriesInDirs'
<1> SUFFICES ASSUME NEW e \in entries' PROVE inode'[e.dir].mode = "dir"
  BY DEF EntriesInDirs
<1>1. e.dir = d \/ \E x \in entries : e.dir = x.dir
  BY AddedDirs
<1>2. \A x \in entries : x.dir \in Inodes /\ inode[x.dir].mode = "dir"
  BY DEF EntriesInDirs, TypeOK, Entry
<1> QED BY <1>1, <1>2

LEMMA EnterFiles ==
  ASSUME IInv, FileInv, NEW d \in Inodes, NEW name \in Names, MayAdd(d, name),
         NEW r, r.ino \in Inodes \ imap.bits,
         NEW rec \in InodeRec, rec.mode # "none", rec.files = 0,
         NEW bm \in BlockMap, bmap.bits \subseteq bm.bits, ~bm.short => ~bmap.short,
         NEW dirs, Enter(d, name, r, rec, bm, dirs)
  PROVE  FileInv'
<1>1. /\ TypeOK /\ 1..(Meta - 1) \subseteq bm.bits
      /\ inode \in [Inodes -> InodeRec] /\ inode[d] \in InodeRec
      /\ inode[d].mode = "dir" /\ ~Taken(d, name)
  BY DEF IInv, TypeOK, MetaMarked, MayAdd
<1>2. PICK a \in AddEntry(bm, inode[d]) :
        /\ entries' \in Added(a, d, name, r.ino)
        /\ IF a.ret = "ok"
             THEN /\ imap' = r.im
                  /\ bmap' = a.bm
                  /\ inode' = [inode EXCEPT ![r.ino] = rec, ![d] = a.dir]
                  /\ orphans' = orphans
             ELSE /\ imap' = PutInode(r.im, NInodes, r.ino)
                  /\ bmap' = PutBlocks(a.bm, NBlocks, {rec.bno})
                  /\ inode' = [inode EXCEPT ![d] = a.dir]
                  /\ orphans' = orphans \cup rec.data
  BY DEF Enter
<1>3. Grows(bm, inode[d], a.bm, a.dir) /\ a.disk \in BOOLEAN /\ a.named \in BOOLEAN
  BY <1>1, AddEntryGrows
<1>4. Fills(bm, inode[d], a.bm, a.dir) /\ Outcome(bm, inode[d], a)
  BY <1>1, AddEntryFills
<1>5. a.bm \in BlockMap /\ a.dir \in InodeRec /\ a.dir.mode = "dir"
  BY <1>1, <1>3 DEF Grows
<1>6. inode[r.ino].mode = "none" /\ r.ino # d /\ r.ino \in Inodes
  BY <1>1 DEF IInv, InodesSane
<1>7. bmap'.short = a.bm.short
  BY <1>2, <1>5, PutBlocksShort
<1>8. \A e \in entries : e.dir # r.ino
  BY <1>6 DEF FileInv, EntriesInDirs
<1> DEFINE made == IF a.ret = "ok" THEN [inode EXCEPT ![r.ino] = rec] ELSE inode
<1>9. /\ made \in [Inodes -> InodeRec] /\ made[d] = inode[d]
      /\ \A i \in Inodes : i # r.ino => made[i] = inode[i]
  BY <1>1, <1>6
<1>10. inode' = [made EXCEPT ![d] = a.dir]
  BY <1>1, <1>2, <1>6
<1>11. EntriesInDirs'
  <2>1. \A i \in Inodes : inode[i].mode = "dir" => inode'[i].mode = "dir"
    BY <1>5, <1>6, <1>9, <1>10
  <2> QED BY <1>1, <1>2, <2>1, AddedInDirs DEF FileInv
<1>12. ASSUME ~bmap'.short PROVE Tally(inode', entries')
  <2>1. ~a.bm.short /\ ~bm.short /\ ~bmap.short
    BY <1>4, <1>7, <1>12 DEF Fills
  <2>2. Tally(inode, entries)
    BY <2>1 DEF FileInv
  <2>3. Tally(made, entries)
    BY <1>1, <1>6, <1>8, <2>2, TallyFresh
  <2> HIDE DEF made
  <2>4. Outcome(bm, made[d], a) /\ made[d].mode = "dir"
    BY <1>1, <1>4, <1>9
  <2>5. entries' \in Added(a, d, name, r.ino)
    BY <1>2
  <2>6. Tally([made EXCEPT ![d] = a.dir], entries')
    BY <1>1, <1>3, <1>5, <1>6, <1>9, <2>1, <2>3, <2>4, <2>5, AddedTally
  <2> QED BY <1>10, <2>6
<1> QED BY <1>11, <1>12 DEF FileInv

LEMMA NewInodeFields ==
  ASSUME NEW mode, NEW bno, NEW data
  PROVE  /\ NewInode(mode, bno, data).files = 0
         /\ NewInode(mode, bno, data).bno = bno
         /\ NewInode(mode, bno, data).data = data
BY DEF NewInode

LEMMA CreateFileFiles ==
  ASSUME IInv, FileInv, NEW d \in Inodes, NEW name \in Names, CreateFile(d, name)
  PROVE  FileInv'
<1> DEFINE r == NewInodeCall
           rec == NewInode("reg", r.bno, {})
<1>1. /\ r.bm \in BlockMap /\ bmap.bits \subseteq r.bm.bits
      /\ r.ino \in Inodes \ imap.bits
      /\ r.bno \in (r.bm.bits \ bmap.bits) \cap DataBlocks
      /\ ~r.bm.short => ~bmap.short
  BY NewInodeSound, NewInodeShort DEF CreateFile
<1>2. MayAdd(d, name) /\ Enter(d, name, r, rec, r.bm, cached)
  BY DEF CreateFile, MayCreate
<1> HIDE DEF r
<1>3. rec \in InodeRec /\ rec.mode # "none" /\ rec.files = 0
  <2>1. r.bno \in Blocks
    BY <1>1 DEF BlockMap
  <2> QED BY <2>1, NewInodeType, NewInodeFields
<1> HIDE DEF rec
<1> QED BY <1>1, <1>2, <1>3, EnterFiles

LEMMA MakeDirFiles ==
  ASSUME IInv, FileInv, NEW d \in Inodes, NEW name \in Names, MakeDir(d, name)
  PROVE  FileInv'
<1> DEFINE r == NewInodeCall
           g == AllocBlock(r.bm)
           rec == NewInode("dir", r.bno, {g.bno})
<1>1. /\ r.bm \in BlockMap /\ bmap.bits \subseteq r.bm.bits
      /\ r.ino \in Inodes \ imap.bits
      /\ r.bno \in (r.bm.bits \ bmap.bits) \cap DataBlocks
      /\ ~r.bm.short => ~bmap.short
  BY NewInodeSound, NewInodeShort DEF MakeDir
<1>2. PICK dirs : MayAdd(d, name) /\ g.bno # NONE /\ Enter(d, name, r, rec, g.bm, dirs)
  BY DEF MakeDir, MayCreate
<1>3. r.bno \in Blocks /\ 1..(Meta - 1) \subseteq r.bm.bits /\ inode[d] \in InodeRec
  BY <1>1 DEF BlockMap, IInv, TypeOK, MetaMarked
<1> HIDE DEF r
<1>4. /\ Grows(r.bm, inode[d], g.bm, inode[d])
      /\ g.bno \in (g.bm.bits \ r.bm.bits) \cap DataBlocks
      /\ ~g.bm.short => ~r.bm.short
  BY <1>1, <1>2, <1>3, AllocBlockGrows, AllocBlockFills
<1> HIDE DEF g
<1>5. g.bm \in BlockMap /\ bmap.bits \subseteq g.bm.bits /\ g.bno \in Blocks
  BY <1>1, <1>4 DEF Grows, BlockMap
<1>6. rec \in InodeRec /\ rec.mode # "none" /\ rec.files = 0
  BY <1>3, <1>5, NewInodeType, NewInodeFields
<1>7. ~g.bm.short => ~bmap.short
  BY <1>1, <1>4
<1> HIDE DEF rec
<1> QED BY <1>1, <1>2, <1>5, <1>6, <1>7, EnterFiles

(* The calls that leave the inodes and the entries alone. *)
LEMMA UnchangedFiles ==
  ASSUME FileInv, ~bmap'.short => ~bmap.short, UNCHANGED <<inode, entries>>
  PROVE  FileInv'
BY DEF FileInv, EntriesInDirs

(* link and rename, up to the removal of the old entry. *)
Adds(a, grown, left) ==
  /\ ~a.bm.short => Tally(grown, left) /\ entries \subseteq left
  /\ grown \in [Inodes -> InodeRec]
  /\ \A i \in Inodes : grown[i].mode = inode[i].mode

LEMMA AddingFiles ==
  ASSUME IInv, FileInv, NEW e \in entries, NEW d \in Inodes, NEW name \in Names,
         MayAdd(d, name), NEW a \in AddEntry(bmap, inode[d]),
         NEW left \in Added(a, d, name, e.ino), NEW grown, grown = [inode EXCEPT ![d] = a.dir]
  PROVE  Adds(a, grown, left)
<1>1. /\ TypeOK /\ bmap \in BlockMap /\ 1..(Meta - 1) \subseteq bmap.bits
      /\ inode \in [Inodes -> InodeRec] /\ inode[d] \in InodeRec
      /\ inode[d].mode = "dir" /\ ~Taken(d, name) /\ e.ino \in Inodes
  BY DEF IInv, TypeOK, MetaMarked, MayAdd, Entry
<1>2. Grows(bmap, inode[d], a.bm, a.dir) /\ a.disk \in BOOLEAN /\ a.named \in BOOLEAN
  BY <1>1, AddEntryGrows
<1>3. Fills(bmap, inode[d], a.bm, a.dir) /\ Outcome(bmap, inode[d], a)
  BY <1>1, AddEntryFills
<1>4. a.dir \in InodeRec /\ a.dir.mode = inode[d].mode
  BY <1>2 DEF Grows
<1>5. grown \in [Inodes -> InodeRec] /\ \A i \in Inodes : grown[i].mode = inode[i].mode
  BY <1>1, <1>4
<1>6. ASSUME ~a.bm.short PROVE Tally(grown, left) /\ entries \subseteq left
  <2>1. Tally(inode, entries)
    BY <1>3, <1>6 DEF Fills, FileInv
  <2>2. Tally([inode EXCEPT ![d] = a.dir], left) /\ entries \subseteq left
    BY <1>1, <1>2, <1>3, <1>4, <1>6, <2>1, AddedTally
  <2> QED BY <2>2
<1> QED BY <1>5, <1>6 DEF Adds

LEMMA LinkFiles ==
  ASSUME IInv, FileInv, NEW e \in entries, NEW d \in Inodes, NEW name \in Names,
         Link(e, d, name)
  PROVE  FileInv'
<1>1. PICK a \in AddEntry(bmap, inode[d]) :
        /\ bmap' = a.bm
        /\ inode' = [inode EXCEPT ![d] = a.dir]
        /\ entries' \in Added(a, d, name, e.ino)
  BY DEF Link
<1>2. MayAdd(d, name) /\ inode[d].mode = "dir" /\ TypeOK /\ EntriesInDirs
  BY DEF Link, MayAdd, IInv, FileInv
<1> DEFINE grown == [inode EXCEPT ![d] = a.dir]
<1> HIDE DEF grown
<1>3. inode' = grown /\ grown = [inode EXCEPT ![d] = a.dir]
  BY <1>1 DEF grown
<1>4. PICK left \in Added(a, d, name, e.ino) : entries' = left
  BY <1>1
<1>5. Adds(a, grown, left)
  BY <1>2, <1>3, AddingFiles
<1>6. /\ ~a.bm.short => Tally(inode', entries')
      /\ \A i \in Inodes : inode'[i].mode = inode[i].mode
  BY <1>3, <1>4, <1>5 DEF Adds
<1>7. EntriesInDirs'
  BY <1>1, <1>2, <1>6, AddedInDirs
<1> QED BY <1>1, <1>6, <1>7 DEF FileInv

LEMMA RenameFiles ==
  ASSUME IInv, FileInv, NEW e \in entries, NEW d \in Inodes, NEW name \in Names,
         Rename(e, d, name)
  PROVE  FileInv'
<1>0. PICK a \in AddEntry(bmap, inode[d]) :
        \E left \in Added(a, d, name, e.ino) :
          /\ bmap' = a.bm
          /\ \/ /\ inode' = [inode EXCEPT ![d] = a.dir]
                /\ entries' = left
             \/ /\ inode' = [[inode EXCEPT ![d] = a.dir] EXCEPT ![e.dir].files = @ - 1]
                /\ entries' = left \ {e}
  BY DEF Rename
<1> DEFINE grown == [inode EXCEPT ![d] = a.dir]
<1>1. PICK left \in Added(a, d, name, e.ino) :
        /\ bmap' = a.bm
        /\ \/ inode' = grown /\ entries' = left
           \/ inode' = [grown EXCEPT ![e.dir].files = @ - 1] /\ entries' = left \ {e}
  BY <1>0
<1>2. MayAdd(d, name) /\ inode[d].mode = "dir" /\ TypeOK /\ EntriesInDirs
  BY DEF Rename, MayAdd, IInv, FileInv
<1>3. e \in Entry /\ e.disk /\ e.dir \in Inodes
  BY DEF Rename, MayRemove, IInv, TypeOK, Entry
<1> HIDE DEF grown
<1>4. grown = [inode EXCEPT ![d] = a.dir]
  BY DEF grown
<1>5. Adds(a, grown, left)
  BY <1>2, <1>4, AddingFiles
<1>6. /\ ~a.bm.short => Tally(grown, left) /\ entries \subseteq left
      /\ grown \in [Inodes -> InodeRec]
      /\ \A i \in Inodes : grown[i].mode = inode[i].mode
  BY <1>5 DEF Adds
<1>7. \A i \in Inodes : inode'[i].mode = grown[i].mode
  <2>1. CASE inode' = grown
    BY <2>1
  <2>2. CASE inode' = [grown EXCEPT ![e.dir].files = @ - 1]
    BY <1>3, <1>6, <2>2, UncountedSame DEF Same
  <2> QED BY <1>1, <2>1, <2>2
<1>8. EntriesInDirs'
  <2>1. entries' \subseteq left /\ \A i \in Inodes : inode'[i].mode = inode[i].mode
    BY <1>1, <1>6, <1>7
  <2> QED BY <1>2, <2>1, AddedInDirs
<1>9. ASSUME ~bmap'.short PROVE Tally(inode', entries')
  <2>1. Tally(grown, left) /\ e \in left
    BY <1>1, <1>6, <1>9
  <2>2. CASE inode' = grown /\ entries' = left
    BY <2>1, <2>2
  <2>3. CASE inode' = [grown EXCEPT ![e.dir].files = @ - 1] /\ entries' = left \ {e}
    BY <1>3, <1>6, <2>1, <2>3, TallyRemove
  <2> QED BY <1>1, <2>2, <2>3
<1> QED BY <1>8, <1>9 DEF FileInv

LEMMA GetBlockFiles ==
  ASSUME IInv, FileInv, NEW i \in Inodes, GetBlock(i)
  PROVE  FileInv'
<1> DEFINE g == GetFreeBlocks(bmap, NBlocks, ClusterLen)
           run == Run(g.bno, ClusterLen)
           f == inode[i]
           x == [f EXCEPT !.data = f.data \cup run, !.clusters = f.clusters + 1,
                          !.put = f.put \ run]
<1>1. inode \in [Inodes -> InodeRec] /\ f \in InodeRec /\ TypeOK
  BY DEF IInv, TypeOK
<1>2. /\ bmap' = g.bm /\ entries' = entries
      /\ inode' = IF g.bno = NONE THEN inode ELSE [inode EXCEPT ![i] = x]
  BY DEF GetBlock
<1>3. ~g.bm.short => ~bmap.short
  BY DEF GetFreeBlocks
<1>4. x.mode = f.mode /\ x.files = f.files
  BY <1>1 DEF InodeRec
<1> HIDE DEF g, x
<1>5. \A j \in Inodes : inode'[j].mode = inode[j].mode /\ inode'[j].files = inode[j].files
  BY <1>1, <1>2, <1>4
<1>6. EntriesInDirs'
  BY <1>1, <1>2, <1>5 DEF FileInv, EntriesInDirs, TypeOK, Entry
<1>7. ASSUME ~bmap'.short PROVE Tally(inode', entries')
  <2>1. Tally(inode, entries)
    BY <1>2, <1>3, <1>7 DEF FileInv
  <2>2. Tally(inode', entries)
    BY <1>5, <2>1, TallySame
  <2> QED BY <1>2, <2>2
<1> QED BY <1>6, <1>7 DEF FileInv

(* Entry e is taken out and its directory counts one less; whatever else    *)
(* the call does to the inodes touches neither their modes nor the counts. *)
LEMMA TakenOutFiles ==
  ASSUME IInv, FileInv, NEW e \in entries, MayRemove(e), entries' = entries \ {e},
         ~bmap'.short => ~bmap.short,
         \A i \in Inodes : inode'[i].mode = Without(e)[i].mode
                           /\ inode'[i].files = Without(e)[i].files
  PROVE  FileInv'
<1>1. /\ inode \in [Inodes -> InodeRec] /\ e.dir \in Inodes /\ e \in Entry /\ e.disk
      /\ entries \in SUBSET Entry
  BY DEF IInv, TypeOK, Entry, MayRemove
<1> DEFINE less == [inode EXCEPT ![e.dir].files = @ - 1]
<1>2. less = Without(e)
  BY DEF Without
<1>3. \A i \in Inodes : less[i].mode = inode[i].mode
  BY <1>1, UncountedSame DEF Same
<1>4. Tally(inode, entries) => Tally(less, entries \ {e})
  BY <1>1, TallyRemove
<1> HIDE DEF less
<1>5. EntriesInDirs'
  BY <1>1, <1>2, <1>3 DEF FileInv, EntriesInDirs, Entry
<1>6. ASSUME ~bmap'.short PROVE Tally(inode', entries')
  <2>1. Tally(less, entries')
    BY <1>4, <1>6 DEF FileInv
  <2> QED BY <1>2, <2>1, TallySame
<1> QED BY <1>5, <1>6 DEF FileInv

LEMMA RemoveEntryOnlyFiles ==
  ASSUME IInv, FileInv, NEW e \in entries, RemoveEntryOnly(e)
  PROVE  FileInv'
BY TakenOutFiles DEF RemoveEntryOnly

LEMMA UnlinkFiles ==
  ASSUME IInv, FileInv, NEW e \in entries, Unlink(e)
  PROVE  FileInv'
<1> DEFINE f == inode[e.ino]
           less == Without(e)
<1>1. /\ MayRemove(e) /\ entries' = entries \ {e}
      /\ bmap' = FileFreeBlocks(bmap, f)
      /\ inode' = [less EXCEPT ![e.ino].put = f.data]
  BY DEF Unlink
<1>2. /\ bmap \in BlockMap /\ e.ino \in Inodes /\ f \in InodeRec
      /\ inode \in [Inodes -> InodeRec] /\ e.dir \in Inodes
  BY DEF IInv, TypeOK, Entry
<1>3. less \in [Inodes -> InodeRec]
  BY <1>2, UncountedSame DEF Without
<1>4. bmap'.short = bmap.short
  <2>1. f.data \in SUBSET Blocks
    BY <1>2 DEF InodeRec
  <2>2. PutBlocks(bmap, NBlocks, f.data) \in BlockMap
    BY <1>2, <2>1, PutBlocksSound
  <2> QED BY <1>1, <1>2, <2>2, PutBlocksShort DEF FileFreeBlocks
<1> HIDE DEF less
<1>5. \A i \in Inodes : inode'[i].mode = less[i].mode /\ inode'[i].files = less[i].files
  <2> DEFINE x == [less[e.ino] EXCEPT !.put = f.data]
  <2>1. x.mode = less[e.ino].mode /\ x.files = less[e.ino].files
    BY <1>2, <1>3 DEF InodeRec
  <2>2. inode' = [less EXCEPT ![e.ino] = x]
    BY <1>1
  <2> HIDE DEF x
  <2> QED BY <1>2, <1>3, <2>1, <2>2
<1> QED BY <1>1, <1>4, <1>5, TakenOutFiles DEF less

(* rmdir: the entries of the directory that goes counted for nobody else. *)
LEMMA RmdirFiles ==
  ASSUME IInv, FileInv, NEW e \in entries, Rmdir(e)
  PROVE  FileInv'
<1> DEFINE d == inode[e.ino]
           less == [inode EXCEPT ![e.dir].files = @ - 1]
           left == entries \ {e}
<1>1. /\ MayRemove(e) /\ entries' = {x \in left : x.dir # e.ino}
      /\ bmap' = PutBlocks(bmap, NBlocks, d.data \cup {d.bno})
      /\ inode' = [less EXCEPT ![e.ino] = NoInode]
  BY DEF Rmdir, FreeDir, Without
<1>2. /\ bmap \in BlockMap /\ e.ino \in Inodes /\ e.dir \in Inodes /\ e \in Entry /\ e.disk
      /\ inode \in [Inodes -> InodeRec] /\ entries \in SUBSET Entry
  BY <1>1 DEF IInv, TypeOK, Entry, MayRemove
<1>3. less \in [Inodes -> InodeRec] /\ \A i \in Inodes : less[i].mode = inode[i].mode
  <2>1. less \in [Inodes -> InodeRec] /\ \A i \in Inodes : Same(less[i], inode[i])
    BY <1>2, UncountedSame
  <2> HIDE DEF less
  <2> QED BY <2>1 DEF Same
<1>4. Tally(inode, entries) => Tally(less, left)
  BY <1>2, TallyRemove
<1>5. bmap'.short = bmap.short
  BY <1>1, <1>2, PutBlocksShort
<1>6. NoInode.mode = "none"
  BY NoInodeType
<1> HIDE DEF less, left
<1>7. inode'[e.ino].mode = "none" /\ \A i \in Inodes : i # e.ino => inode'[i] = less[i]
  BY <1>1, <1>2, <1>3, <1>6
<1>8. EntriesInDirs'
  BY <1>1, <1>2, <1>3, <1>7 DEF FileInv, EntriesInDirs, Entry, left
<1>9. ASSUME ~bmap'.short PROVE Tally(inode', entries')
  <2>1. Tally(less, left)
    BY <1>4, <1>5, <1>9 DEF FileInv
  <2>2. IsFiniteSet(left) /\ entries' \subseteq left
    BY <1>1, <2>1 DEF Tally
  <2>3. IsFiniteSet(entries')
    BY <2>2, FS_Subset
  <2>4. \A i \in Inodes : i # e.ino => OnDisk(entries', i) = OnDisk(left, i)
    BY <1>1 DEF OnDisk
  <2> QED BY <1>7, <2>1, <2>3, <2>4 DEF Tally
<1> QED BY <1>8, <1>9 DEF FileInv

LEMMA StepFileInv == IInv /\ FileInv /\ [Next]_vars => FileInv'
<1> SUFFICES ASSUME IInv, FileInv, [Next]_vars PROVE FileInv'
  OBVIOUS
<1> DEFINE r == NewInodeCall
<1>1. bmap \in BlockMap /\ 1..(Meta - 1) \subseteq bmap.bits
  BY DEF IInv, TypeOK, MetaMarked
<1>2. ~r.bm.short => ~bmap.short
  <2>1. ~AllocBlock(bmap).bm.short => ~bmap.short
    BY <1>1, AllocBlockFills
  <2>2. r.bm = bmap \/ r.bm = AllocBlock(bmap).bm
    BY DEF NewInodeCall
  <2> QED BY <2>1, <2>2
<1>3. r.bm \in BlockMap /\ 1..(Meta - 1) \subseteq r.bm.bits
  BY <1>1, NewInodeSound
<1>4. ASSUME NEW d \in Inodes, NEW name \in Names, NoSpaceForInode(d, name) PROVE FileInv'
  BY <1>2, <1>4, UnchangedFiles DEF NoSpaceForInode
<1>5. ASSUME NEW d \in Inodes, NEW name \in Names, CreateFile(d, name) PROVE FileInv'
  BY <1>5, CreateFileFiles
<1>6. ASSUME NEW d \in Inodes, NEW name \in Names, MakeDirNoNameList(d, name) PROVE FileInv'
  <2>1. bmap' = AllocBlock(r.bm).bm /\ UNCHANGED <<inode, entries>>
    BY <1>6 DEF MakeDirNoNameList
  <2> HIDE DEF r
  <2>2. ~bmap'.short => ~bmap.short
    BY <1>2, <1>3, <2>1, AllocBlockFills
  <2> QED BY <2>1, <2>2, UnchangedFiles
<1>7. ASSUME NEW d \in Inodes, NEW name \in Names, MakeDir(d, name) PROVE FileInv'
  BY <1>7, MakeDirFiles
<1>8. ASSUME NEW d \in Inodes, NEW name \in Names, NEW e \in entries, Link(e, d, name)
      PROVE  FileInv'
  BY <1>8, LinkFiles
<1>9. ASSUME NEW d \in Inodes, NEW name \in Names, NEW e \in entries, Rename(e, d, name)
      PROVE  FileInv'
  BY <1>9, RenameFiles
<1>10. ASSUME NEW i \in Inodes, GetBlock(i) PROVE FileInv'
  BY <1>10, GetBlockFiles
<1>11. ASSUME NEW e \in entries, Unlink(e) PROVE FileInv'
  BY <1>11, UnlinkFiles
<1>12. ASSUME NEW e \in entries, Rmdir(e) PROVE FileInv'
  BY <1>12, RmdirFiles
<1>13. ASSUME NEW e \in entries, RemoveEntryOnly(e) PROVE FileInv'
  BY <1>13, RemoveEntryOnlyFiles
<1>14. CASE UNCHANGED vars
  BY <1>14, UnchangedFiles DEF vars
<1> QED BY <1>4, <1>5, <1>6, <1>7, <1>8, <1>9, <1>10, <1>11, <1>12, <1>13, <1>14 DEF Next

LEMMA InitFileInv == Init => FileInv
<1> SUFFICES ASSUME Init PROVE FileInv
  OBVIOUS
<1>1. entries = {} /\ IsFiniteSet(entries)
  BY FS_EmptySet DEF Init
<1>2. \A i : OnDisk(entries, i) = {}
  BY <1>1 DEF OnDisk
<1>3. Cardinality({}) = 0
  BY FS_EmptySet
<1>4. \A i \in Inodes : inode[i].files = 0
  BY NewInodeFields DEF Init, NoInode
<1>5. Tally(inode, entries)
  BY <1>1, <1>2, <1>3, <1>4 DEF Tally
<1> QED BY <1>1, <1>5 DEF FileInv, EntriesInDirs

(* nr_of_files, which create and rename compare with the limit of a         *)
(* directory and rmdir with 0, is the number of entries in the tree,        *)
(* whatever splits and new roots the insertions made and whichever calls    *)
(* were refused, until a search for blocks fails.                          *)
THEOREM FilesAreCounted == Spec => []FilesCounted
<1>1. \A i : {e \in EntriesOf(i) : e.disk} = OnDisk(entries, i)
  BY DEF EntriesOf, OnDisk
<1>2. FileInv => FilesCounted
  BY <1>1 DEF FileInv, Tally, FilesCounted
<1>3. IInv /\ FileInv /\ [Next]_vars => FileInv'
  BY StepFileInv
<1> QED BY <1>2, <1>3, InitFileInv, Inductive, PTL DEF Spec

----
(***************************************************************************)
(* The blocks in use that nothing leads to, and the counter of free blocks.*)
(* As long as no search fails and no file is put twice, a call marks        *)
(* exactly the blocks that an inode leads to afterwards, or that it leaves  *)
(* in one of the ways the property names.  The invariant needs besides      *)
(* that the cluster table of a file is none of its data blocks: unlink      *)
(* puts the one and not the other.                                         *)
(***************************************************************************)

\* The blocks some inode leads to, the ones in use that none leads to, and
\* what the property says these are.
Led == UNION {Owned(i) : i \in Inodes}
Stray == (bmap.bits \cap DataBlocks) \ Led
Left(i) == {inode[i].bno} \cup (inode[i].data \ inode[i].put)
Leaks == (Meta + 1)..(Meta + Excess) \cup orphans \cup UNION {Left(i) : i \in released}

TablesApart ==
  \A i \in Inodes : inode[i].mode = "reg" /\ i \notin released => inode[i].bno \notin inode[i].data

BlockInv ==
  ~bmap.short /\ ~twice =>
    /\ Counted(bmap, Excess + 1 + Cardinality(released))
    /\ TablesApart
    /\ Stray = Leaks

LEMMA LedElement ==
  ASSUME NEW b
  PROVE  /\ b \in Led <=> \E i \in Inodes : b \in Owned(i)
         /\ (b \in Led)' <=> \E i \in Inodes : b \in Owned(i)'
BY DEF Led

LEMMA LedMarked ==
  ASSUME OwnedMarked, ~twice
  PROVE  Led \subseteq bmap.bits \cap DataBlocks
BY DEF OwnedMarked, Led

(* Steps that take blocks: N goes to inodes, G to nobody. *)
LEMMA StrayTaking ==
  ASSUME OwnedMarked, ~twice, NEW N, NEW G,
         N \subseteq DataBlocks \ bmap.bits, G \subseteq DataBlocks \ bmap.bits, N \cap G = {},
         bmap'.bits = bmap.bits \cup N \cup G,
         \A i \in Inodes : Owned(i) \subseteq Owned(i)' /\ Owned(i)' \subseteq Owned(i) \cup N,
         \A b \in N : \E i \in Inodes : b \in Owned(i)'
  PROVE  Stray' = Stray \cup G
<1>1. Led \subseteq bmap.bits
  BY LedMarked
<1>2. Led' = Led \cup N
  <2>1. ASSUME NEW b \in Led' PROVE b \in Led \cup N
    BY <2>1, LedElement
  <2>2. ASSUME NEW b \in Led \cup N PROVE b \in Led'
    BY <2>2, LedElement
  <2> QED BY <2>1, <2>2
<1>3. DataBlocks' = DataBlocks
  BY DEF DataBlocks
<1> QED BY <1>1, <1>2, <1>3 DEF Stray

(* Steps after which inode i leads to nothing: of what it led to, the       *)
(* blocks of P are put.                                                    *)
LEMMA StrayPutting ==
  ASSUME OwnedMarked, NoSharing, ~twice, NEW i \in Inodes, NEW P, P \subseteq Owned(i),
         bmap'.bits \cap DataBlocks = (bmap.bits \cap DataBlocks) \ P,
         Owned(i)' = {}, \A j \in Inodes : j # i => Owned(j)' = Owned(j)
  PROVE  Stray' = Stray \cup (Owned(i) \ P)
<1>1. Led \subseteq bmap.bits \cap DataBlocks
  BY LedMarked
<1>2. Led' = Led \ Owned(i)
  <2>1. ASSUME NEW b \in Led' PROVE b \in Led \ Owned(i)
    <3>1. PICK j \in Inodes : b \in Owned(j)'
      BY <2>1, LedElement
    <3>2. j # i /\ b \in Owned(j)
      BY <3>1
    <3>3. b \notin Owned(i)
      BY <3>2 DEF NoSharing
    <3> QED BY <3>2, <3>3, LedElement
  <2>2. ASSUME NEW b \in Led \ Owned(i) PROVE b \in Led'
    BY <2>2, LedElement
  <2> QED BY <2>1, <2>2
<1>3. Owned(i) \subseteq Led
  BY DEF Led
<1>4. DataBlocks' = DataBlocks
  BY DEF DataBlocks
<1> QED BY <1>1, <1>2, <1>3, <1>4 DEF Stray

LEMMA LeaksSame ==
  ASSUME released' = released, orphans' = orphans,
         \A i \in released : Left(i)' = Left(i)
  PROVE  Leaks' = Leaks
<1>1. \A b : (\E i \in released : b \in Left(i)') <=> (\E i \in released : b \in Left(i))
  OBVIOUS
<1>2. \A b : (b \in Leaks)' <=> \/ b \in (Meta + 1)..(Meta + Excess)
                                \/ b \in orphans
                                \/ \E i \in released : b \in Left(i)'
  BY DEF Leaks
<1>3. \A b : b \in Leaks <=> \/ b \in (Meta + 1)..(Meta + Excess)
                             \/ b \in orphans
                             \/ \E i \in released : b \in Left(i)
  BY DEF Leaks
<1> QED BY <1>1, <1>2, <1>3

LEMMA ReleasedFinite ==
  ASSUME TypeOK
  PROVE  IsFiniteSet(released) /\ Excess + 1 + Cardinality(released) \in Int
<1>1. IsFiniteSet(Inodes) /\ released \in SUBSET Inodes
  BY FS_Interval, VolumeAssumption DEF TypeOK, Inodes
<1>2. IsFiniteSet(released)
  BY <1>1, FS_Subset
<1>3. Cardinality(released) \in Nat
  BY <1>2, FS_CardinalityType
<1> QED BY <1>2, <1>3, VolumeAssumption

LEMMA CountedAfter ==
  ASSUME NEW k, Counted(bmap', k), k = Excess + 1 + Cardinality(released')
  PROVE  Counted(bmap, Excess + 1 + Cardinality(released))'
<1>1. bmap'.nfree = U32(Cardinality(Free(bmap')) + k)
  BY DEF Counted
<1>2. bmap'.nfree = U32(Cardinality(Free(bmap')) + (Excess + 1 + Cardinality(released')))
  BY <1>1
<1> QED BY <1>2 DEF Counted, Free

(* Two inodes of the same blocks, put or not. *)
Alike(x, y) == Same(x, y) /\ x.put = y.put

LEMMA UncountedAlike ==
  ASSUME NEW ind \in [Inodes -> InodeRec], NEW j \in Inodes,
         NEW new, new = [ind EXCEPT ![j].files = @ - 1]
  PROVE  /\ new \in [Inodes -> InodeRec]
         /\ \A i \in Inodes : Alike(new[i], ind[i])
<1> DEFINE y == [ind[j] EXCEPT !.files = ind[j].files - 1]
<1>1. y \in InodeRec /\ Alike(y, ind[j])
  BY DEF InodeRec, Same, Alike
<1>2. new = [ind EXCEPT ![j] = y]
  OBVIOUS
<1> HIDE DEF y
<1> QED BY <1>1, <1>2 DEF Same, Alike

LEMMA OwnedAlike ==
  ASSUME NEW i \in Inodes, Alike(inode'[i], inode[i]), released' = released
  PROVE  Owned(i)' = Owned(i) /\ Left(i)' = Left(i)
BY DEF Alike, Same, Owned, Left

(* link, rename and get_block on a file that was not unlinked: the inode in *)
(* place i grows to x, and the others stay as they are.                    *)
LEMMA GrowingBlocks ==
  ASSUME IInv, BlockInv, NEW i \in Inodes \ released, NEW x \in InodeRec,
         inode[i].mode # "none",
         Grows(bmap, inode[i], bmap', x), Fills(bmap, inode[i], bmap', x),
         ~bmap'.short /\ ~twice /\ x.mode = "reg" => x.bno \notin x.data,
         Same(inode'[i], x),
         \A j \in Inodes : j # i => Alike(inode'[j], inode[j]),
         UNCHANGED <<released, orphans, twice>>
  PROVE  BlockInv'
<1> SUFFICES ASSUME ~bmap'.short, ~twice
             PROVE  /\ Counted(bmap, Excess + 1 + Cardinality(released))'
                    /\ TablesApart'
                    /\ Stray' = Leaks'
  BY DEF BlockInv
<1>1. Owned(i) = Holds(inode[i]) /\ Owned(i)' = Holds(x) /\ inode'[i].mode = x.mode
  BY DEF Owned, Holds, Grows, Same
<1>2. Holds(inode[i]) \subseteq bmap.bits /\ OwnedMarked
  BY <1>1 DEF IInv, OwnedMarked
<1>3. /\ ~bmap.short
      /\ Holds(inode[i]) \subseteq Holds(x)
      /\ bmap'.bits = bmap.bits \cup Holds(x)
      /\ \A k \in Int : Counted(bmap, k) => Counted(bmap', k)
  BY <1>2 DEF Fills
<1>4. /\ Counted(bmap, Excess + 1 + Cardinality(released))
      /\ TablesApart /\ Stray = Leaks
  BY <1>3 DEF BlockInv
<1>5. Counted(bmap, Excess + 1 + Cardinality(released))'
  <2>1. PICK k \in Int : k = Excess + 1 + Cardinality(released)
    BY ReleasedFinite DEF IInv
  <2>2. Counted(bmap', k)
    BY <1>3, <1>4, <2>1
  <2> QED BY <2>1, <2>2, CountedAfter
<1>6. \A j \in Inodes : j # i => Owned(j)' = Owned(j) /\ Left(j)' = Left(j)
  BY OwnedAlike
<1>7. TablesApart'
  BY <1>1, <1>4 DEF TablesApart, Alike, Same
<1> DEFINE N == Holds(x) \ Holds(inode[i])
<1>8. N \subseteq DataBlocks \ bmap.bits
  BY DEF Grows
<1>9. Stray' = Stray
  <2>0. PICK G : G = {}
    OBVIOUS
  <2>1. bmap'.bits = bmap.bits \cup N \cup G
    BY <1>2, <1>3, <2>0
  <2>2. \A j \in Inodes : Owned(j) \subseteq Owned(j)' /\ Owned(j)' \subseteq Owned(j) \cup N
    BY <1>1, <1>3, <1>6
  <2>3. \A b \in N : \E j \in Inodes : b \in Owned(j)'
    BY <1>1
  <2>4. G \subseteq DataBlocks \ bmap.bits /\ N \cap G = {}
    BY <2>0
  <2> HIDE DEF N
  <2>5. Stray' = Stray \cup G
    BY <1>2, <1>8, <2>1, <2>2, <2>3, <2>4, StrayTaking
  <2> QED BY <2>0, <2>5
<1>10. Leaks' = Leaks
  <2>1. released \subseteq Inodes /\ i \notin released
    BY DEF IInv, TypeOK
  <2> QED BY <1>6, <2>1, LeaksSame
<1> QED BY <1>4, <1>5, <1>7, <1>9, <1>10

(* The map bm is bmap with the blocks of the new inode rec marked. *)
Prepared(bm, rec) ==
  ~bm.short => /\ ~bmap.short
               /\ bm.bits = bmap.bits \cup Holds(rec)
               /\ \A k \in Int : Counted(bmap, k) => Counted(bm, k)

LEMMA EnterBlocks ==
  ASSUME IInv, BlockInv, NEW d \in Inodes, NEW name \in Names, inode[d].mode = "dir",
         NEW r, r.ino \in Inodes \ imap.bits,
         NEW rec \in InodeRec, rec.mode # "none", rec.bno \notin rec.data,
         NEW bm \in BlockMap, bmap.bits \subseteq bm.bits, Prepared(bm, rec),
         Holds(rec) \subseteq (bm.bits \ bmap.bits) \cap DataBlocks,
         NEW dirs, Enter(d, name, r, rec, bm, dirs)
  PROVE  BlockInv'
<1> SUFFICES ASSUME ~bmap'.short, ~twice'
             PROVE  /\ Counted(bmap, Excess + 1 + Cardinality(released))'
                    /\ TablesApart'
                    /\ Stray' = Leaks'
  BY DEF BlockInv
<1>1. /\ TypeOK /\ OwnedMarked /\ 1..(Meta - 1) \subseteq bm.bits
      /\ inode \in [Inodes -> InodeRec] /\ inode[d] \in InodeRec
  BY DEF IInv, TypeOK, MetaMarked
<1>2. PICK a \in AddEntry(bm, inode[d]) :
        /\ IF a.ret = "ok"
             THEN /\ imap' = r.im
                  /\ bmap' = a.bm
                  /\ inode' = [inode EXCEPT ![r.ino] = rec, ![d] = a.dir]
                  /\ orphans' = orphans
             ELSE /\ imap' = PutInode(r.im, NInodes, r.ino)
                  /\ bmap' = PutBlocks(a.bm, NBlocks, {rec.bno})
                  /\ inode' = [inode EXCEPT ![d] = a.dir]
                  /\ orphans' = orphans \cup rec.data
        /\ UNCHANGED <<released, twice>>
  BY DEF Enter
<1>3. Grows(bm, inode[d], a.bm, a.dir)
  BY <1>1, AddEntryGrows
<1>4. Fills(bm, inode[d], a.bm, a.dir) /\ Outcome(bm, inode[d], a)
  BY <1>1, AddEntryFills
<1>5. /\ a.bm \in BlockMap /\ a.dir \in InodeRec /\ a.dir.mode = "dir"
      /\ Holds(a.dir) \ Holds(inode[d]) \subseteq (a.bm.bits \ bm.bits) \cap DataBlocks
  BY <1>3 DEF Grows
<1>6. /\ inode[r.ino].mode = "none" /\ r.ino # d /\ r.ino \in Inodes
      /\ r.ino \notin released /\ d \notin released /\ released \subseteq Inodes
  BY <1>1 DEF IInv, InodesSane, ReleasedRegular, TypeOK
<1>7. ~a.bm.short
  BY <1>2, <1>5, PutBlocksShort
<1>8. Owned(d) = Holds(inode[d]) /\ Holds(inode[d]) \subseteq bmap.bits /\ ~twice
  BY <1>1, <1>2, <1>6 DEF Owned, Holds, OwnedMarked
<1>9. /\ ~bm.short
      /\ Holds(inode[d]) \subseteq Holds(a.dir)
      /\ a.bm.bits = bm.bits \cup Holds(a.dir)
      /\ \A k \in Int : Counted(bm, k) => Counted(a.bm, k)
  BY <1>4, <1>7, <1>8 DEF Fills
<1>10. /\ ~bmap.short
       /\ bm.bits = bmap.bits \cup Holds(rec)
       /\ \A k \in Int : Counted(bmap, k) => Counted(bm, k)
  BY <1>9 DEF Prepared
<1>11. /\ Counted(bmap, Excess + 1 + Cardinality(released))
       /\ TablesApart /\ Stray = Leaks
  BY <1>8, <1>10 DEF BlockInv
<1>12. PICK k \in Int : k = Excess + 1 + Cardinality(released) /\ Counted(bmap, k)
  BY <1>1, <1>11, ReleasedFinite
<1>13. Counted(a.bm, k)
  BY <1>9, <1>10, <1>12
<1>14. CASE a.ret = "ok"
  <2>1. /\ bmap' = a.bm /\ orphans' = orphans /\ released' = released
        /\ inode' = [inode EXCEPT ![r.ino] = rec, ![d] = a.dir]
    BY <1>2, <1>14
  <2>2. /\ inode'[d] = a.dir /\ inode'[r.ino] = rec
        /\ \A i \in Inodes : i # d /\ i # r.ino => inode'[i] = inode[i]
    BY <1>1, <1>6, <2>1
  <2>3. Counted(bmap, Excess + 1 + Cardinality(released))'
    BY <1>12, <1>13, <2>1, CountedAfter
  <2>4. TablesApart'
    BY <1>5, <1>11, <2>1, <2>2 DEF TablesApart
  <2> DEFINE N == Holds(rec) \cup (Holds(a.dir) \ Holds(inode[d]))
  <2>5. N \subseteq DataBlocks \ bmap.bits
    BY <1>5
  <2>6. /\ Owned(d)' = Holds(a.dir) /\ Owned(r.ino)' = Holds(rec) /\ Owned(r.ino) = {}
        /\ \A i \in Inodes : i # d /\ i # r.ino => Owned(i)' = Owned(i)
    BY <1>5, <1>6, <2>1, <2>2 DEF Owned, Holds
  <2>7. Stray' = Stray
    <3>1. PICK G : G = {}
      OBVIOUS
    <3>2. bmap'.bits = bmap.bits \cup N \cup G
      BY <1>8, <1>9, <1>10, <2>1, <3>1
    <3>3. \A i \in Inodes : Owned(i) \subseteq Owned(i)' /\ Owned(i)' \subseteq Owned(i) \cup N
      BY <1>8, <1>9, <2>6
    <3>4. \A b \in N : \E i \in Inodes : b \in Owned(i)'
      BY <1>6, <2>6
    <3>5. G \subseteq DataBlocks \ bmap.bits /\ N \cap G = {}
      BY <3>1
    <3> HIDE DEF N
    <3>6. Stray' = Stray \cup G
      BY <1>1, <1>8, <2>5, <3>2, <3>3, <3>4, <3>5, StrayTaking
    <3> QED BY <3>1, <3>6
  <2>8. Leaks' = Leaks
    <3>1. \A i \in released : Left(i)' = Left(i)
      BY <1>6, <2>2 DEF Left
    <3> QED BY <2>1, <3>1, LeaksSame
  <2> QED BY <1>11, <2>3, <2>4, <2>7, <2>8
<1>15. CASE a.ret # "ok"
  <2>1. a.dir = inode[d] /\ a.bm = bm
    BY <1>4, <1>7, <1>15 DEF Outcome
  <2>2. /\ bmap' = PutBlocks(bm, NBlocks, {rec.bno}) /\ released' = released
        /\ orphans' = orphans \cup rec.data
        /\ inode' = [inode EXCEPT ![d] = inode[d]]
    BY <1>2, <1>15, <2>1
  <2>3. inode' = inode
    BY <1>1, <2>2
  <2>4. /\ Counted(bmap', k)
        /\ bmap'.bits = bm.bits \ {rec.bno}
    <3>1. {rec.bno} \in SUBSET DataBlocks /\ {rec.bno} \subseteq bm.bits /\ Counted(bm, k)
      BY <1>10, <1>12 DEF Holds
    <3> QED BY <2>2, <3>1, PutBlocksCounted
  <2>5. Counted(bmap, Excess + 1 + Cardinality(released))'
    BY <1>12, <2>2, <2>4, CountedAfter
  <2>6. TablesApart'
    BY <1>11, <2>2, <2>3 DEF TablesApart
  <2>7. \A i \in Inodes : Owned(i)' = Owned(i)
    BY <2>2, <2>3 DEF Owned
  <2>8. rec.data \subseteq DataBlocks \ bmap.bits /\ bmap'.bits = bmap.bits \cup rec.data
    BY <1>10, <2>4 DEF Holds
  <2>9. Stray' = Stray \cup rec.data
    <3>1. PICK N : N = {}
      OBVIOUS
    <3>2. PICK G : G = rec.data
      OBVIOUS
    <3>3. /\ N \subseteq DataBlocks \ bmap.bits /\ G \subseteq DataBlocks \ bmap.bits
          /\ N \cap G = {} /\ bmap'.bits = bmap.bits \cup N \cup G
      BY <2>8, <3>1, <3>2
    <3>4. /\ \A i \in Inodes : Owned(i) \subseteq Owned(i)' /\ Owned(i)' \subseteq Owned(i) \cup N
          /\ \A b \in N : \E i \in Inodes : b \in Owned(i)'
      BY <2>7, <3>1
    <3>5. Stray' = Stray \cup G
      BY <1>1, <1>8, <3>3, <3>4, StrayTaking
    <3> QED BY <3>2, <3>5
  <2>10. Leaks' = Leaks \cup rec.data
    BY <2>2, <2>3 DEF Leaks, Left
  <2> QED BY <1>11, <2>5, <2>6, <2>9, <2>10
<1> QED BY <1>14, <1>15

LEMMA CreateFileBlocks ==
  ASSUME IInv, BlockInv, NEW d \in Inodes, NEW name \in Names, CreateFile(d, name)
  PROVE  BlockInv'
<1> DEFINE r == NewInodeCall
           rec == NewInode("reg", r.bno, {})
<1>1. /\ r.bm \in BlockMap /\ bmap.bits \subseteq r.bm.bits
      /\ r.ino \in Inodes \ imap.bits
      /\ r.bno \in (r.bm.bits \ bmap.bits) \cap DataBlocks
      /\ ~r.bm.short => ~bmap.short
      /\ r.bm.bits = bmap.bits \cup {r.bno}
      /\ \A k \in Int : Counted(bmap, k) => Counted(r.bm, k)
  BY NewInodeSound, NewInodeShort DEF CreateFile
<1>2. inode[d].mode = "dir" /\ Enter(d, name, r, rec, r.bm, cached)
  BY DEF CreateFile, MayCreate, MayAdd
<1> HIDE DEF r
<1>3. rec \in InodeRec /\ rec.mode # "none" /\ Holds(rec) = {r.bno} /\ rec.bno \notin rec.data
  <2>1. r.bno \in Blocks
    BY <1>1 DEF BlockMap
  <2> QED BY <2>1, NewInodeType, NewInodeFields
<1> HIDE DEF rec
<1>4. Prepared(r.bm, rec)
  BY <1>1, <1>3 DEF Prepared
<1> QED BY <1>1, <1>2, <1>3, <1>4, EnterBlocks

LEMMA MakeDirBlocks ==
  ASSUME IInv, BlockInv, NEW d \in Inodes, NEW name \in Names, MakeDir(d, name)
  PROVE  BlockInv'
<1> DEFINE r == NewInodeCall
           g == AllocBlock(r.bm)
           rec == NewInode("dir", r.bno, {g.bno})
<1>1. /\ r.bm \in BlockMap /\ bmap.bits \subseteq r.bm.bits
      /\ r.ino \in Inodes \ imap.bits
      /\ r.bno \in (r.bm.bits \ bmap.bits) \cap DataBlocks
      /\ ~r.bm.short => ~bmap.short
      /\ r.bm.bits = bmap.bits \cup {r.bno}
      /\ \A k \in Int : Counted(bmap, k) => Counted(r.bm, k)
  BY NewInodeSound, NewInodeShort DEF MakeDir
<1>2. PICK dirs : inode[d].mode = "dir" /\ g.bno # NONE /\ Enter(d, name, r, rec, g.bm, dirs)
  BY DEF MakeDir, MayCreate, MayAdd
<1>3. r.bno \in Blocks /\ 1..(Meta - 1) \subseteq r.bm.bits /\ inode[d] \in InodeRec
  BY <1>1 DEF BlockMap, IInv, TypeOK, MetaMarked
<1> HIDE DEF r
<1>4. /\ Grows(r.bm, inode[d], g.bm, inode[d])
      /\ g.bno \in (g.bm.bits \ r.bm.bits) \cap DataBlocks
      /\ ~g.bm.short => ~r.bm.short
      /\ g.bm.bits = r.bm.bits \cup {g.bno}
      /\ \A k \in Int : Counted(r.bm, k) => Counted(g.bm, k)
  BY <1>1, <1>2, <1>3, AllocBlockGrows, AllocBlockFills
<1> HIDE DEF g
<1>5. g.bm \in BlockMap /\ bmap.bits \subseteq g.bm.bits /\ g.bno \in Blocks /\ g.bno # r.bno
  BY <1>1, <1>4 DEF Grows, BlockMap
<1>6. /\ rec \in InodeRec /\ rec.mode # "none" /\ rec.bno \notin rec.data
      /\ Holds(rec) = {r.bno, g.bno}
  BY <1>3, <1>5, NewInodeType, NewInodeFields
<1> HIDE DEF rec
<1>7. Prepared(g.bm, rec)
  BY <1>1, <1>4, <1>6 DEF Prepared
<1>8. Holds(rec) \subseteq (g.bm.bits \ bmap.bits) \cap DataBlocks
  BY <1>1, <1>4, <1>6
<1> QED BY <1>1, <1>2, <1>5, <1>6, <1>7, <1>8, EnterBlocks

(* The inodes lead to what they led to, and nothing was taken or put. *)
LEMMA SameBlocks ==
  ASSUME IInv, BlockInv, \A i \in Inodes : Alike(inode'[i], inode[i]),
         UNCHANGED <<bmap, released, orphans, twice>>
  PROVE  BlockInv'
<1>1. \A i \in Inodes : Owned(i)' = Owned(i) /\ Left(i)' = Left(i)
  BY OwnedAlike
<1>2. Led' = Led
  <2>1. \A b : b \in Led' <=> b \in Led
    BY <1>1, LedElement
  <2> QED BY <2>1
<1>3. Stray' = Stray
  BY <1>2 DEF Stray, DataBlocks
<1>4. Leaks' = Leaks
  <2>1. released \subseteq Inodes
    BY DEF IInv, TypeOK
  <2> QED BY <1>1, <2>1, LeaksSame
<1>5. TablesApart => TablesApart'
  BY DEF TablesApart, Alike, Same
<1> QED BY <1>3, <1>4, <1>5 DEF BlockInv, Counted, Free

(* A call that fails before it enters anything: if no search failed either, *)
(* the block map is the old one.                                           *)
LEMMA FailedBlocks ==
  ASSUME IInv, BlockInv, ~bmap'.short => bmap' = bmap,
         UNCHANGED <<inode, released, orphans, twice>>
  PROVE  BlockInv'
<1>1. CASE bmap' = bmap
  <2>1. \A i \in Inodes : Alike(inode'[i], inode[i])
    BY DEF Alike, Same
  <2> QED BY <1>1, <2>1, SameBlocks
<1>2. CASE bmap' # bmap
  BY <1>2 DEF BlockInv
<1> QED BY <1>1, <1>2

(* link and rename. *)
LEMMA AddingBlocks ==
  ASSUME IInv, BlockInv, NEW d \in Inodes, inode[d].mode = "dir",
         NEW a \in AddEntry(bmap, inode[d]), bmap' = a.bm,
         Same(inode'[d], a.dir),
         \A j \in Inodes : j # d => Alike(inode'[j], inode[j]),
         UNCHANGED <<released, orphans, twice>>
  PROVE  BlockInv'
<1>1. /\ inode \in [Inodes -> InodeRec] /\ inode[d] \in InodeRec
      /\ bmap \in BlockMap /\ 1..(Meta - 1) \subseteq bmap.bits /\ d \notin released
  BY DEF IInv, TypeOK, MetaMarked, ReleasedRegular
<1>2. Grows(bmap, inode[d], a.bm, a.dir)
  BY <1>1, AddEntryGrows
<1>3. Fills(bmap, inode[d], a.bm, a.dir)
  BY <1>1, AddEntryFills
<1>4. a.dir \in InodeRec /\ a.dir.mode = "dir"
  BY <1>2 DEF Grows
<1>5. d \in Inodes \ released
  BY <1>1
<1> QED BY <1>2, <1>3, <1>4, <1>5, GrowingBlocks

LEMMA LinkBlocks ==
  ASSUME IInv, BlockInv, NEW e \in entries, NEW d \in Inodes, NEW name \in Names,
         Link(e, d, name)
  PROVE  BlockInv'
<1>1. PICK a \in AddEntry(bmap, inode[d]) :
        bmap' = a.bm /\ inode' = [inode EXCEPT ![d] = a.dir]
  BY DEF Link
<1>2. inode[d].mode = "dir" /\ UNCHANGED <<released, orphans, twice>>
  BY DEF Link, MayAdd
<1>3. inode \in [Inodes -> InodeRec]
  BY DEF IInv, TypeOK
<1>4. Same(inode'[d], a.dir) /\ \A j \in Inodes : j # d => Alike(inode'[j], inode[j])
  BY <1>1, <1>3 DEF Same, Alike
<1> QED BY <1>1, <1>2, <1>4, AddingBlocks

LEMMA RenameBlocks ==
  ASSUME IInv, BlockInv, NEW e \in entries, NEW d \in Inodes, NEW name \in Names,
         Rename(e, d, name)
  PROVE  BlockInv'
<1>1. PICK a \in AddEntry(bmap, inode[d]) :
        /\ bmap' = a.bm
        /\ \/ inode' = [inode EXCEPT ![d] = a.dir]
           \/ inode' = [[inode EXCEPT ![d] = a.dir] EXCEPT ![e.dir].files = @ - 1]
  BY DEF Rename
<1>2. inode[d].mode = "dir" /\ UNCHANGED <<released, orphans, twice>>
  BY DEF Rename, MayAdd
<1>3. /\ inode \in [Inodes -> InodeRec] /\ inode[d] \in InodeRec /\ e.dir \in Inodes
      /\ bmap \in BlockMap /\ 1..(Meta - 1) \subseteq bmap.bits
  BY DEF IInv, TypeOK, MetaMarked, Entry
<1>4. a.dir \in InodeRec
  BY <1>3, AddEntryGrows DEF Grows
<1> DEFINE grown == [inode EXCEPT ![d] = a.dir]
<1>5. inode' = grown \/ inode' = [grown EXCEPT ![e.dir].files = @ - 1]
  BY <1>1
<1>6. /\ grown \in [Inodes -> InodeRec] /\ grown[d] = a.dir
      /\ \A j \in Inodes : j # d => grown[j] = inode[j]
  BY <1>3, <1>4
<1> HIDE DEF grown
<1>7. Same(inode'[d], a.dir) /\ \A j \in Inodes : j # d => Alike(inode'[j], inode[j])
  <2>1. CASE inode' = grown
    BY <1>6, <2>1 DEF Alike, Same
  <2>2. CASE inode' = [grown EXCEPT ![e.dir].files = @ - 1]
    <3>1. \A j \in Inodes : Alike(inode'[j], grown[j])
      BY <1>3, <1>6, <2>2, UncountedAlike
    <3> QED BY <1>6, <3>1 DEF Alike
  <2> QED BY <1>5, <2>1, <2>2
<1>8. bmap' = a.bm
  BY <1>1
<1> QED BY <1>2, <1>7, <1>8, AddingBlocks

(* get_block: a cluster of a file that still owns its blocks is led to; one *)
(* of a file that was unlinked and is still open is among the leaks.       *)
LEMMA GetBlockBlocks ==
  ASSUME IInv, BlockInv, NEW i \in Inodes, GetBlock(i)
  PROVE  BlockInv'
<1> DEFINE g == GetFreeBlocks(bmap, NBlocks, ClusterLen)
           run == Run(g.bno, ClusterLen)
           f == inode[i]
           x == [f EXCEPT !.data = f.data \cup run, !.clusters = f.clusters + 1,
                          !.put = f.put \ run]
<1>1. /\ TypeOK /\ OwnedMarked /\ bmap \in BlockMap /\ 1..(Meta - 1) \subseteq bmap.bits
      /\ BelowMark(bmap) /\ inode \in [Inodes -> InodeRec] /\ f \in InodeRec
  BY DEF IInv, TypeOK, MetaMarked, HighWaterLag, BelowMark
<1>2. ClusterLen \in Nat \ {0} /\ ClusterLen \in 1..ClusterLen
  BY VolumeAssumption
<1>3. /\ g.bm \in BlockMap
      /\ g.bno # NONE => /\ run \subseteq DataBlocks \ bmap.bits
                         /\ g.bm.bits = bmap.bits \cup run
  BY <1>1, <1>2, GetFreeBlocksSound
<1>4. BelowMark(g.bm)
  BY <1>1, <1>2, GetFreeBlocksBelowMark
<1>5. \A k \in Int : g.bno # NONE /\ Counted(bmap, k) => Counted(g.bm, k)
  BY <1>1, <1>2, GetFreeBlocksCounted
<1>6. ~g.bm.short => ~bmap.short /\ g.bno # NONE
  BY DEF GetFreeBlocks
<1>7. /\ f.mode = "reg" /\ f.clusters < MaxClusters /\ bmap' = g.bm
      /\ inode' = IF g.bno = NONE THEN inode ELSE [inode EXCEPT ![i] = x]
      /\ UNCHANGED <<released, orphans, twice>>
  BY DEF GetBlock
<1> HIDE DEF g, run, x
<1>8. CASE g.bno = NONE
  BY <1>6, <1>7, <1>8 DEF BlockInv
<1>9. ASSUME g.bno # NONE
      PROVE  /\ x \in InodeRec /\ x.mode = "reg" /\ x.bno = f.bno
             /\ x.data = f.data \cup run /\ x.put = f.put \ run
             /\ inode'[i] = x /\ \A j \in Inodes : j # i => inode'[j] = inode[j]
  <2>1. run \in SUBSET Blocks
    BY <1>3, <1>9 DEF BlockMap
  <2>2. f.clusters + 1 \in 0..MaxClusters
    BY <1>1, <1>7, VolumeAssumption DEF InodeRec
  <2> QED BY <1>1, <1>7, <1>9, <2>1, <2>2 DEF InodeRec, x
<1>10. CASE g.bno # NONE /\ i \notin released
  <2>1. Holds(x) = Holds(f) \cup run
    BY <1>9, <1>10 DEF Holds
  <2>2. Grows(bmap, f, bmap', x) /\ Fills(bmap, f, bmap', x)
    BY <1>3, <1>4, <1>5, <1>6, <1>7, <1>9, <1>10, <2>1 DEF Grows, Fills
  <2>3. ASSUME ~bmap'.short, ~twice PROVE x.bno \notin x.data
    <3>1. f.bno \notin f.data
      BY <1>6, <1>7, <1>10, <2>3 DEF BlockInv, TablesApart
    <3>2. f.bno \in bmap.bits
      BY <1>1, <1>7, <1>10, <2>3 DEF OwnedMarked, Owned
    <3> QED BY <1>3, <1>9, <1>10, <3>1, <3>2
  <2>4. Same(inode'[i], x) /\ \A j \in Inodes : j # i => Alike(inode'[j], inode[j])
    BY <1>9, <1>10 DEF Same, Alike
  <2> QED BY <1>7, <1>9, <1>10, <2>2, <2>3, <2>4, GrowingBlocks
<1>11. CASE g.bno # NONE /\ i \in released
  <2> SUFFICES ASSUME ~bmap'.short, ~twice'
               PROVE  /\ Counted(bmap, Excess + 1 + Cardinality(released))'
                      /\ TablesApart'
                      /\ Stray' = Leaks'
    BY DEF BlockInv
  <2>1. /\ ~twice /\ Counted(bmap, Excess + 1 + Cardinality(released))
        /\ TablesApart /\ Stray = Leaks
    BY <1>6, <1>7 DEF BlockInv
  <2>2. Counted(bmap, Excess + 1 + Cardinality(released))'
    <3>1. PICK k \in Int : k = Excess + 1 + Cardinality(released)
      BY <1>1, ReleasedFinite
    <3>2. Counted(bmap', k)
      BY <1>5, <1>7, <1>11, <2>1, <3>1
    <3> QED BY <1>7, <3>1, <3>2, CountedAfter
  <2>3. TablesApart'
    BY <1>7, <1>9, <1>11, <2>1 DEF TablesApart
  <2>4. \A j \in Inodes : Owned(j)' = Owned(j)
    BY <1>7, <1>9, <1>11 DEF Owned
  <2>5. Stray' = Stray \cup run
    <3>1. PICK N : N = {}
      OBVIOUS
    <3>2. /\ N \subseteq DataBlocks \ bmap.bits /\ run \subseteq DataBlocks \ bmap.bits
          /\ N \cap run = {} /\ bmap'.bits = bmap.bits \cup N \cup run
      BY <1>3, <1>7, <1>11, <3>1
    <3>3. /\ \A j \in Inodes : Owned(j) \subseteq Owned(j)' /\ Owned(j)' \subseteq Owned(j) \cup N
          /\ \A b \in N : \E j \in Inodes : b \in Owned(j)'
      BY <2>4, <3>1
    <3>4. PICK G : G = run
      OBVIOUS
    <3>5. Stray' = Stray \cup G
      BY <1>1, <2>1, <3>2, <3>3, <3>4, StrayTaking
    <3> QED BY <3>4, <3>5
  <2>6. Left(i)' = Left(i) \cup run /\ \A j \in Inodes : j # i => Left(j)' = Left(j)
    BY <1>9, <1>11 DEF Left
  <2>7. Leaks' = Leaks \cup run
    <3>1. released \subseteq Inodes
      BY <1>1 DEF TypeOK
    <3>2. \A b : (\E j \in released : b \in Left(j)') <=>
                  (\E j \in released : b \in Left(j)) \/ b \in run
      BY <1>11, <2>6, <3>1
    <3>3. \A b : b \in Leaks' <=> \/ b \in (Meta + 1)..(Meta + Excess)
                                   \/ b \in orphans
                                   \/ \E j \in released : b \in Left(j)'
      BY <1>7 DEF Leaks
    <3>4. \A b : b \in Leaks <=> \/ b \in (Meta + 1)..(Meta + Excess)
                                  \/ b \in orphans
                                  \/ \E j \in released : b \in Left(j)
      BY DEF Leaks
    <3>5. \A b : b \in Leaks' <=> b \in Leaks \/ b \in run
      BY <3>2, <3>3, <3>4
    <3> QED BY <3>5
  <2> QED BY <2>1, <2>2, <2>3, <2>5, <2>7
<1> QED BY <1>8, <1>10, <1>11

LEMMA RemoveEntryOnlyBlocks ==
  ASSUME IInv, BlockInv, NEW e \in entries, RemoveEntryOnly(e)
  PROVE  BlockInv'
<1>1. /\ inode' = [inode EXCEPT ![e.dir].files = @ - 1]
      /\ UNCHANGED <<bmap, released, orphans, twice>>
  BY DEF RemoveEntryOnly, Without
<1>2. inode \in [Inodes -> InodeRec] /\ e.dir \in Inodes
  BY DEF IInv, TypeOK, Entry
<1>3. \A i \in Inodes : Alike(inode'[i], inode[i])
  BY <1>1, <1>2, UncountedAlike
<1> QED BY <1>1, <1>3, SameBlocks

(* unlink: the data blocks are put, the cluster table is left behind, and   *)
(* the counter is one higher than the map says because block 0 is put.     *)
LEMMA UnlinkBlocks ==
  ASSUME IInv, BlockInv, NEW e \in entries, Unlink(e)
  PROVE  BlockInv'
<1> DEFINE f == inode[e.ino]
           half == PutBlocks(bmap, NBlocks, f.data)
           less == [inode EXCEPT ![e.dir].files = @ - 1]
<1> SUFFICES ASSUME ~bmap'.short, ~twice'
             PROVE  /\ Counted(bmap, Excess + 1 + Cardinality(released))'
                    /\ TablesApart'
                    /\ Stray' = Leaks'
  BY DEF BlockInv
<1>1. /\ TypeOK /\ OwnedMarked /\ NoSharing
      /\ bmap \in BlockMap /\ inode \in [Inodes -> InodeRec] /\ e.ino \in Inodes
      /\ f \in InodeRec /\ released \in SUBSET Inodes /\ e.dir \in Inodes
  BY DEF IInv, TypeOK, Entry
<1>2. /\ f.mode = "reg"
      /\ bmap' = PutBlocks(half, NBlocks, {0})
      /\ inode' = [less EXCEPT ![e.ino].put = f.data]
      /\ released' = released \cup {e.ino} /\ orphans' = orphans
  BY DEF Unlink, FileFreeBlocks, Without
<1>3. ~twice /\ e.ino \notin released
  BY DEF Unlink
<1>4. Owned(e.ino) = Holds(f) /\ Holds(f) \subseteq bmap.bits \cap DataBlocks
  BY <1>1, <1>2, <1>3 DEF Owned, Holds, OwnedMarked
<1>5. f.data \in SUBSET Blocks /\ f.data \in SUBSET DataBlocks /\ f.data \subseteq bmap.bits
  BY <1>1, <1>4 DEF InodeRec, Holds
<1>6. half \in BlockMap /\ half.short = bmap.short
  BY <1>1, <1>5, PutBlocksSound, PutBlocksShort
<1>7. ~bmap.short
  <2> HIDE DEF half
  <2> QED BY <1>2, <1>6, PutBlocksShort
<1>8. /\ Counted(bmap, Excess + 1 + Cardinality(released))
      /\ TablesApart /\ Stray = Leaks
  BY <1>3, <1>7 DEF BlockInv
<1>9. PICK k \in Int : k = Excess + 1 + Cardinality(released) /\ Counted(bmap, k)
  BY <1>1, <1>8, ReleasedFinite
<1>10. Counted(half, k) /\ half.bits = bmap.bits \ f.data
  BY <1>1, <1>5, <1>9, PutBlocksCounted
<1> HIDE DEF half
<1>11. Counted(bmap', k + 1) /\ bmap'.bits = half.bits \ {0}
  BY <1>2, <1>6, <1>9, <1>10, PutZeroCounted
<1>12. Counted(bmap, Excess + 1 + Cardinality(released))'
  <2>1. IsFiniteSet(released)
    BY <1>1, ReleasedFinite
  <2>2. Cardinality(released \cup {e.ino}) = Cardinality(released) + 1
    BY <1>3, <2>1, FS_AddElement
  <2>3. Cardinality(released) \in Nat
    BY <2>1, FS_CardinalityType
  <2>4. k + 1 = Excess + 1 + Cardinality(released')
    BY <1>2, <1>9, <2>2, <2>3, VolumeAssumption
  <2> QED BY <1>11, <2>4, CountedAfter
<1>13. /\ inode'[e.ino].mode = f.mode /\ inode'[e.ino].bno = f.bno
       /\ inode'[e.ino].data = f.data /\ inode'[e.ino].put = f.data
       /\ \A i \in Inodes : i # e.ino => Alike(inode'[i], inode[i])
  <2>1. less \in [Inodes -> InodeRec] /\ \A i \in Inodes : Alike(less[i], inode[i])
    BY <1>1, UncountedAlike
  <2> HIDE DEF less
  <2> DEFINE x == [less[e.ino] EXCEPT !.put = f.data]
  <2>2. Same(x, less[e.ino]) /\ x.put = f.data
    <3>1. less[e.ino] \in InodeRec
      BY <1>1, <2>1
    <3> QED BY <3>1 DEF InodeRec, Same
  <2>3. inode' = [less EXCEPT ![e.ino] = x]
    BY <1>2
  <2> HIDE DEF x
  <2>4. inode'[e.ino] = x /\ \A i \in Inodes : i # e.ino => inode'[i] = less[i]
    BY <1>1, <2>1, <2>3
  <2> QED BY <1>1, <2>1, <2>2, <2>4 DEF Alike, Same
<1>14. TablesApart'
  BY <1>2, <1>8, <1>13 DEF TablesApart, Alike, Same
<1>15. Owned(e.ino)' = {}
  BY <1>2 DEF Owned
<1>16. \A i \in Inodes : i # e.ino => Owned(i)' = Owned(i) /\ Left(i)' = Left(i)
  BY <1>2, <1>13 DEF Owned, Left, Alike, Same
<1>17. Stray' = Stray \cup {f.bno}
  <2>1. PICK P : P = f.data
    OBVIOUS
  <2>2. 0 \notin DataBlocks
    BY VolumeAssumption DEF DataBlocks
  <2>3. P \subseteq Owned(e.ino) /\ bmap'.bits \cap DataBlocks = (bmap.bits \cap DataBlocks) \ P
    BY <1>4, <1>10, <1>11, <2>1, <2>2 DEF Holds
  <2>4. Stray' = Stray \cup (Owned(e.ino) \ P)
    BY <1>1, <1>3, <1>15, <1>16, <2>3, StrayPutting
  <2>5. f.bno \notin f.data
    BY <1>1, <1>2, <1>3, <1>8 DEF TablesApart
  <2>6. Owned(e.ino) \ P = {f.bno}
    BY <1>4, <2>1, <2>5 DEF Holds
  <2> QED BY <2>4, <2>6
<1>18. Leaks' = Leaks \cup {f.bno}
  <2>1. Left(e.ino)' = {f.bno}
    BY <1>13 DEF Left
  <2>2. \A b : (\E j \in released \cup {e.ino} : b \in Left(j)') <=>
                (\E j \in released : b \in Left(j)) \/ b = f.bno
    BY <1>1, <1>3, <1>16, <2>1
  <2>3. \A b : b \in Leaks' <=> \/ b \in (Meta + 1)..(Meta + Excess)
                                 \/ b \in orphans
                                 \/ \E j \in released \cup {e.ino} : b \in Left(j)'
    BY <1>2 DEF Leaks
  <2>4. \A b : b \in Leaks <=> \/ b \in (Meta + 1)..(Meta + Excess)
                                \/ b \in orphans
                                \/ \E j \in released : b \in Left(j)
    BY DEF Leaks
  <2>5. \A b : b \in Leaks' <=> b \in Leaks \/ b = f.bno
    BY <2>2, <2>3, <2>4
  <2> QED BY <2>5
<1> QED BY <1>8, <1>12, <1>14, <1>17, <1>18

(* rmdir: the directory leaves nothing behind. *)
LEMMA RmdirBlocks ==
  ASSUME IInv, BlockInv, NEW e \in entries, Rmdir(e)
  PROVE  BlockInv'
<1> DEFINE d == inode[e.ino]
           less == [inode EXCEPT ![e.dir].files = @ - 1]
<1> SUFFICES ASSUME ~bmap'.short, ~twice'
             PROVE  /\ Counted(bmap, Excess + 1 + Cardinality(released))'
                    /\ TablesApart'
                    /\ Stray' = Leaks'
  BY DEF BlockInv
<1>1. /\ TypeOK /\ OwnedMarked /\ NoSharing /\ ReleasedRegular
      /\ bmap \in BlockMap /\ inode \in [Inodes -> InodeRec] /\ e.ino \in Inodes
      /\ d \in InodeRec /\ released \in SUBSET Inodes /\ e.dir \in Inodes
  BY DEF IInv, TypeOK, Entry
<1>2. /\ d.mode = "dir"
      /\ bmap' = PutBlocks(bmap, NBlocks, d.data \cup {d.bno})
      /\ inode' = [less EXCEPT ![e.ino] = NoInode]
      /\ UNCHANGED <<released, orphans, twice>>
  BY DEF Rmdir, FreeDir, Without
<1>3. ~twice /\ e.ino \notin released
  BY <1>1, <1>2 DEF ReleasedRegular
<1>4. Owned(e.ino) = Holds(d) /\ Holds(d) \subseteq bmap.bits \cap DataBlocks
  BY <1>1, <1>2, <1>3 DEF Owned, Holds, OwnedMarked
<1>5. d.data \cup {d.bno} = Holds(d)
  BY DEF Holds
<1>6. ~bmap.short
  BY <1>1, <1>2, PutBlocksShort
<1>7. /\ Counted(bmap, Excess + 1 + Cardinality(released))
      /\ TablesApart /\ Stray = Leaks
  BY <1>3, <1>6 DEF BlockInv
<1>8. PICK k \in Int : k = Excess + 1 + Cardinality(released) /\ Counted(bmap, k)
  BY <1>1, <1>7, ReleasedFinite
<1>9. Counted(bmap', k) /\ bmap'.bits = bmap.bits \ Holds(d)
  <2>1. Holds(d) \in SUBSET DataBlocks /\ Holds(d) \subseteq bmap.bits
    BY <1>4
  <2>2. Counted(PutBlocks(bmap, NBlocks, Holds(d)), k)
        /\ PutBlocks(bmap, NBlocks, Holds(d)).bits = bmap.bits \ Holds(d)
    BY <1>1, <1>8, <2>1, PutBlocksCounted
  <2> QED BY <1>2, <1>5, <2>2
<1>10. Counted(bmap, Excess + 1 + Cardinality(released))'
  BY <1>2, <1>8, <1>9, CountedAfter
<1>11. NoInode.mode = "none"
  BY NoInodeType
<1>12. /\ inode'[e.ino].mode = "none"
       /\ \A i \in Inodes : i # e.ino => Alike(inode'[i], inode[i])
  <2>1. less \in [Inodes -> InodeRec] /\ \A i \in Inodes : Alike(less[i], inode[i])
    BY <1>1, UncountedAlike
  <2> HIDE DEF less
  <2> QED BY <1>1, <1>2, <1>11, <2>1 DEF Alike, Same
<1>13. TablesApart'
  BY <1>2, <1>7, <1>12 DEF TablesApart, Alike, Same
<1>14. Owned(e.ino)' = {}
  BY <1>12 DEF Owned
<1>15. \A i \in Inodes : i # e.ino => Owned(i)' = Owned(i) /\ Left(i)' = Left(i)
  BY <1>2, <1>12, OwnedAlike
<1>16. Stray' = Stray
  <2>1. PICK P : P = Holds(d)
    OBVIOUS
  <2>2. P \subseteq Owned(e.ino) /\ bmap'.bits \cap DataBlocks = (bmap.bits \cap DataBlocks) \ P
    BY <1>4, <1>9, <2>1
  <2>3. Stray' = Stray \cup (Owned(e.ino) \ P)
    BY <1>1, <1>3, <1>14, <1>15, <2>2, StrayPutting
  <2> QED BY <1>4, <2>1, <2>3
<1>17. Leaks' = Leaks
  BY <1>1, <1>2, <1>3, <1>15, LeaksSame
<1> QED BY <1>7, <1>10, <1>13, <1>16, <1>17

(* new_inode without an inode, and mkdir without a block for its name list: *)
(* no block is lost but by a failed search.                                *)
LEMMA NoSpaceBlocks ==
  ASSUME IInv, BlockInv, NEW d \in Inodes, NEW name \in Names, NoSpaceForInode(d, name)
  PROVE  BlockInv'
<1> DEFINE r == NewInodeCall
           gb == AllocBlock(bmap)
<1>1. bmap \in BlockMap /\ 1..(Meta - 1) \subseteq bmap.bits
  BY DEF IInv, TypeOK, MetaMarked
<1>2. ~gb.bm.short => gb.bno # NONE
  BY <1>1, AllocBlockFills
<1>3. r.ino = NONE /\ bmap' = r.bm /\ UNCHANGED <<inode, released, orphans, twice>>
  BY DEF NoSpaceForInode
<1>4. r.bm = bmap \/ (r.bm = gb.bm /\ gb.bno = NONE)
  <2>1. r.ino = NONE
    BY <1>3
  <2> QED BY <2>1 DEF NewInodeCall
<1> HIDE DEF r, gb
<1> QED BY <1>2, <1>3, <1>4, FailedBlocks

LEMMA NoNameListBlocks ==
  ASSUME IInv, BlockInv, NEW d \in Inodes, NEW name \in Names, MakeDirNoNameList(d, name)
  PROVE  BlockInv'
<1> DEFINE r == NewInodeCall
           g == AllocBlock(r.bm)
<1>1. g.bno = NONE /\ bmap' = g.bm /\ UNCHANGED <<inode, released, orphans, twice>>
  BY DEF MakeDirNoNameList
<1>2. r.bm \in BlockMap /\ 1..(Meta - 1) \subseteq r.bm.bits
  BY NewInodeSound DEF IInv, MetaMarked
<1> HIDE DEF r
<1>3. ~g.bm.short => g.bno # NONE
  BY <1>2, AllocBlockFills
<1> HIDE DEF g
<1> QED BY <1>1, <1>3, FailedBlocks

LEMMA StepBlockInv == IInv /\ BlockInv /\ [Next]_vars => BlockInv'
<1> SUFFICES ASSUME IInv, BlockInv, [Next]_vars PROVE BlockInv'
  OBVIOUS
<1>1. ASSUME NEW d \in Inodes, NEW name \in Names, NoSpaceForInode(d, name) PROVE BlockInv'
  BY <1>1, NoSpaceBlocks
<1>2. ASSUME NEW d \in Inodes, NEW name \in Names, CreateFile(d, name) PROVE BlockInv'
  BY <1>2, CreateFileBlocks
<1>3. ASSUME NEW d \in Inodes, NEW name \in Names, MakeDirNoNameList(d, name) PROVE BlockInv'
  BY <1>3, NoNameListBlocks
<1>4. ASSUME NEW d \in Inodes, NEW name \in Names, MakeDir(d, name) PROVE BlockInv'
  BY <1>4, MakeDirBlocks
<1>5. ASSUME NEW d \in Inodes, NEW name \in Names, NEW e \in entries, Link(e, d, name)
      PROVE  BlockInv'
  BY <1>5, LinkBlocks
<1>6. ASSUME NEW d \in Inodes, NEW name \in Names, NEW e \in entries, Rename(e, d, name)
      PROVE  BlockInv'
  BY <1>6, RenameBlocks
<1>7. ASSUME NEW i \in Inodes, GetBlock(i) PROVE BlockInv'
  BY <1>7, GetBlockBlocks
<1>8. ASSUME NEW e \in entries, Unlink(e) PROVE BlockInv'
  BY <1>8, UnlinkBlocks
<1>9. ASSUME NEW e \in entries, Rmdir(e) PROVE BlockInv'
  BY <1>9, RmdirBlocks
<1>10. ASSUME NEW e \in entries, RemoveEntryOnly(e) PROVE BlockInv'
  BY <1>10, RemoveEntryOnlyBlocks
<1>11. CASE UNCHANGED vars
  BY <1>11, FailedBlocks DEF vars
<1> QED BY <1>1, <1>2, <1>3, <1>4, <1>5, <1>6, <1>7, <1>8, <1>9, <1>10, <1>11 DEF Next

LEMMA InitBlockInv == Init => BlockInv
<1> SUFFICES ASSUME Init PROVE BlockInv
  OBVIOUS
<1> DEFINE root == NewInode("dir", Meta, {FirstFree})
<1>1. /\ bmap.bits = 0..FirstFree /\ bmap.nfree = NBlocks - Meta - 1
      /\ released = {} /\ orphans = {}
      /\ \A i \in Inodes : inode[i] = IF i = RootIno THEN root ELSE NoInode
  BY DEF Init
<1>2. root.mode = "dir" /\ Holds(root) = {Meta, FirstFree}
  BY DEF NewInode, Holds
<1>3. NoInode.mode = "none" /\ RootIno \in Inodes
  BY NoInodeType, VolumeAssumption DEF RootIno, Inodes
<1> HIDE DEF root
<1>4. TablesApart
  BY <1>1, <1>2, <1>3 DEF TablesApart
<1>5. Led = {Meta, FirstFree}
  <2>1. \A i \in Inodes : Owned(i) = IF i = RootIno THEN {Meta, FirstFree} ELSE {}
    BY <1>1, <1>2, <1>3 DEF Owned, Holds
  <2>2. \A b : b \in Led <=> b \in {Meta, FirstFree}
    BY <1>3, <2>1, LedElement
  <2> QED BY <2>2
<1>6. Stray = (Meta + 1)..(Meta + Excess)
  BY <1>1, <1>5, VolumeAssumption DEF Stray, DataBlocks, FirstFree
<1>7. Leaks = (Meta + 1)..(Meta + Excess)
  BY <1>1 DEF Leaks
<1>8. Counted(bmap, Excess + 1 + Cardinality(released))
  <2>1. Cardinality(released) = 0
    BY <1>1, FS_EmptySet
  <2>2. Free(bmap) = (FirstFree + 1)..(NBlocks - 1)
    BY <1>1, VolumeAssumption DEF Free, FirstFree
  <2>3. FirstFree + 1 \in Int /\ NBlocks - 1 \in Int
    BY VolumeAssumption DEF FirstFree
  <2>4. Cardinality((FirstFree + 1)..(NBlocks - 1)) =
          IF FirstFree + 1 > NBlocks - 1 THEN 0 ELSE (NBlocks - 1) - (FirstFree + 1) + 1
    BY <2>3, FS_Interval
  <2>5. Cardinality(Free(bmap)) + (Excess + 1 + Cardinality(released)) = NBlocks - Meta - 1
    BY <2>1, <2>2, <2>4, VolumeAssumption DEF FirstFree
  <2>6. NBlocks - Meta - 1 \in 0..(Word - 1)
    BY VolumeAssumption, WordAssumption
  <2>7. U32(NBlocks - Meta - 1) = NBlocks - Meta - 1
    BY <2>6, U32Id
  <2> QED BY <1>1, <2>5, <2>7, Zenon DEF Counted
<1> QED BY <1>4, <1>6, <1>7, <1>8 DEF BlockInv

LEMMA BlocksKept == Spec => []BlockInv
<1>1. IInv /\ BlockInv /\ [Next]_vars => BlockInv'
  BY StepBlockInv
<1> QED BY <1>1, InitBlockInv, Inductive, PTL DEF Spec

(* s_nfree_blocks, what statfs reports, is too high from mkfs on by the      *)
(* excess and one and by one more for every file unlinked, and wrong by     *)
(* nothing else, modulo 2^32, until a search for blocks fails or a file is  *)
(* put twice.                                                              *)
THEOREM BlockDriftIsKnown == Spec => []BlockCounterDrift
<1>1. BlockInv /\ TypeOK => BlockCounterDrift
  <2> SUFFICES ASSUME BlockInv, TypeOK, ~bmap.short, ~twice
               PROVE  bmap.nfree = U32(Cardinality((1..(NBlocks - 1)) \ bmap.bits)
                                       + Excess + 1 + Cardinality(released))
    BY DEF BlockCounterDrift
  <2>1. bmap.nfree = U32(Cardinality(Free(bmap)) + (Excess + 1 + Cardinality(released)))
    BY DEF BlockInv, Counted
  <2>2. Cardinality(Free(bmap)) \in Nat /\ Cardinality(released) \in Nat
    BY FreeFinite, ReleasedFinite, FS_CardinalityType
  <2>3. Cardinality(Free(bmap)) + (Excess + 1 + Cardinality(released)) =
          Cardinality(Free(bmap)) + Excess + 1 + Cardinality(released)
    BY <2>2, VolumeAssumption
  <2> QED BY <2>1, <2>3, Zenon DEF Free
<1> QED BY <1>1, BlocksKept, TypeCorrect, PTL

(* The blocks in use that nothing leads to are the excess of mkfs, the name *)
(* lists of directories that could not be entered, and of each unlinked     *)
(* file the cluster table and what an open descriptor added, until a search *)
(* for blocks fails or a file is put twice.                                *)
THEOREM LeaksAreKnown == Spec => []OnlyUnlinkedLeak
<1>1. BlockInv => OnlyUnlinkedLeak
  BY DEF BlockInv, Stray, Leaks, Led, Left, OnlyUnlinkedLeak
<1> QED BY <1>1, BlocksKept, PTL
====
