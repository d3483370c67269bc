---- MODULE FatVolumeProofs ----
(***************************************************************************)
(* Theorems about FatVolume, for every size of volume and of directories,  *)
(* every set of names and every number of calls.  They are about volumes   *)
(* to which no call has yet done one of the recorded damages.              *)
(***************************************************************************)
EXTENDS FatVolume, BitmapProofs

----
(* Cells: the slots of a directory, counted through its blocks.            *)

LEMMA ConstantFacts ==
  /\ NBlocks \in Nat /\ NInodes \in Nat \ {0} /\ Meta \in Nat \ {0} /\ Excess \in Nat
  /\ E \in Nat \ {0} /\ M \in Nat \ {0} /\ M * E \in Nat \ {0} /\ Word \in Nat \ {0}
  /\ 0 \in Inodes /\ Inodes \subseteq Nat
  /\ 0 \notin DataBlocks /\ NONE \notin DataBlocks /\ NONE # 0 /\ Meta \in DataBlocks
  /\ DataBlocks \subseteq 1..(NBlocks - 1) /\ Cells \subseteq Nat
<1>1. M * E \in Nat \ {0}
  <2>1. M \in Nat \ {0} /\ E \in Nat \ {0}
    BY FatAssumption
  <2>2. M * E \in Nat /\ M * E >= 1 * E
    BY <2>1
  <2> QED BY <2>1, <2>2
<1> QED BY <1>1, FatAssumption, WordAssumption DEF Inodes, DataBlocks, NONE, Cells

\* A cell has a block and a place in it.
LEMMA CellSplit ==
  ASSUME NEW p \in Cells
  PROVE  p \div E \in 0..(M - 1) /\ p % E \in 0..(E - 1) /\ p = (p \div E) * E + (p % E)
<1>1. E \in Nat \ {0} /\ M \in Nat \ {0} /\ p \in Nat /\ p \in Int /\ p < M * E
  BY ConstantFacts DEF Cells
<1>2. PICK k \in Int, e \in 0..(E - 1) : k = p \div E /\ e = p % E /\ p = k * E + e
  BY <1>1, Division, Zenon
<1>3. k >= 0
  <2> SUFFICES ASSUME k <= -1 PROVE FALSE
    BY <1>2
  <2>1. k * E <= -E
    BY <1>1, <1>2
  <2> QED BY <1>1, <1>2, <2>1
<1>4. k <= M - 1
  <2> SUFFICES ASSUME k >= M PROVE FALSE
    BY <1>1, <1>2
  <2>1. k * E >= M * E
    BY <1>1, <1>2
  <2> QED BY <1>1, <1>2, <2>1
<1>5. k \in 0..(M - 1)
  BY <1>1, <1>2, <1>3, <1>4
<1> QED BY <1>2, <1>5

\* A place in a block is a cell.
LEMMA CellJoin ==
  ASSUME NEW k \in 0..(M - 1), NEW e \in 0..(E - 1)
  PROVE  k * E + e \in Cells /\ (k * E + e) \div E = k /\ (k * E + e) % E = e
<1>1. E \in Nat \ {0} /\ M \in Nat \ {0} /\ k \in Int
  BY ConstantFacts
<1>2. k * E \in Nat /\ k * E + E <= M * E
  <2>1. (M - 1 - k) * E >= 0
    BY <1>1
  <2>2. (M - 1 - k) * E = M * E - E - k * E
    BY <1>1
  <2>3. k * E >= 0 /\ k * E \in Int /\ M * E \in Int
    BY <1>1
  <2> QED BY <1>1, <2>1, <2>2, <2>3
<1>3. k * E + e \in Cells
  BY <1>1, <1>2 DEF Cells
<1>4. ASSUME NEW z, z = k * E + e PROVE z \div E = k /\ z % E = e
  BY <1>1, <1>4, DivisionIsUnique, Zenon
<1> QED BY <1>3, <1>4

\* Different cells lie in different blocks or at different places.
LEMMA CellsDiffer ==
  ASSUME NEW p \in Cells, NEW q \in Cells, p \div E = q \div E, p % E = q % E
  PROVE  p = q
<1>1. p = (p \div E) * E + (p % E) /\ q = (q \div E) * E + (q % E)
  BY CellSplit, Zenon
<1> QED BY <1>1

----
(* The two maps.                                                           *)

InodeMap == [bits : SUBSET Inodes, nfree : 0..(Word - 1)]
BlockMap == [bits : SUBSET (0..(NBlocks - 1)), nfree : 0..(Word - 1)]

\* The metadata, block 0 among it, is marked and cannot be given.
MetaMarked(bm) == 0..(Meta - 1) \subseteq bm.bits

LEMMA TakeInodeSound ==
  ASSUME NEW im \in InodeMap, NEW g, g = TakeInode(im)
  PROVE  /\ g.im \in InodeMap /\ g.im.nfree = U32(im.nfree - 1)
         /\ g.ino = NONE => g.im.bits = im.bits /\ 1..(NInodes - 1) \subseteq im.bits
         /\ g.ino # NONE => /\ g.ino \in Inodes \ (im.bits \cup {0})
                            /\ g.im.bits = im.bits \cup {g.ino}
<1> DEFINE n == GetFirstFreeBits(im.bits, NInodes, 1)
<1>1. n # NONE => n \in 1..(NInodes - 1) /\ n \notin im.bits
  <2>1. NInodes \in Nat /\ 1 \in Nat \ {0}
    BY ConstantFacts
  <2>2. n # NONE => n \in 1..(NInodes - 1) /\ Run(n, 1) \cap im.bits = {}
    BY <2>1, FirstFreeIsFree
  <2>3. n \in Int => n \in Run(n, 1)
    BY DEF Run
  <2> QED BY <2>2, <2>3
<1>2. n = NONE => 1..(NInodes - 1) \subseteq im.bits
  <2> SUFFICES ASSUME n = NONE, NEW i \in 1..(NInodes - 1), i \notin im.bits PROVE FALSE
    OBVIOUS
  <2>1. Run(i, 1) = {i}
    BY DEF Run
  <2>2. i \in ZeroAreas(im.bits, NInodes, 1, 1)
    BY <2>1, ConstantFacts DEF ZeroAreas
  <2> DEFINE Z == ZeroAreas(im.bits, NInodes, 1, 1)
  <2>3. Z \in SUBSET Nat /\ Z \subseteq 1..(NInodes - 1)
    BY ConstantFacts DEF ZeroAreas
  <2> HIDE DEF Z
  <2>4. Least(Z) \in Z
    BY <2>2, <2>3, LeastIsMember DEF Z
  <2>5. n = Least(Z)
    BY <2>2 DEF GetFirstFreeBits, Z
  <2> QED BY <2>3, <2>4, <2>5 DEF NONE
<1>3. g.ino = n /\ g.im = [bits |-> SetBits(im.bits, n, 1), nfree |-> U32(im.nfree - 1)]
  BY DEF TakeInode, GetFreeInode
<1> HIDE DEF n
<1>4. n # NONE => SetBits(im.bits, n, 1) = im.bits \cup {n}
  BY <1>1 DEF SetBits, Run
<1>5. n = NONE => SetBits(im.bits, n, 1) = im.bits
  BY DEF SetBits
<1>6. U32(im.nfree - 1) \in 0..(Word - 1)
  BY U32Type, ConstantFacts DEF InodeMap
<1>7. 1..(NInodes - 1) \subseteq Inodes \ {0}
  BY DEF Inodes
<1> QED BY <1>1, <1>2, <1>3, <1>4, <1>5, <1>6, <1>7 DEF InodeMap

LEMMA PutBackInodeSound ==
  ASSUME NEW im \in InodeMap, NEW i \in Inodes
  PROVE  PutBackInode(im, i) = [bits |-> im.bits \ {i}, nfree |-> U32(im.nfree + 1)]
         /\ PutBackInode(im, i) \in InodeMap
<1>1. U32(i + 1 - 1) = i
  <2>1. i + 1 - 1 = i /\ i \in 0..(Word - 1)
    BY FatAssumption, ConstantFacts DEF Inodes
  <2> QED BY <2>1, U32Id
<1>2. ~PutRefused(NInodes, i, 1)
  BY <1>1, FatAssumption DEF PutRefused, Inodes
<1>3. U32(im.nfree + 1) \in 0..(Word - 1)
  BY U32Type, ConstantFacts DEF InodeMap
<1> QED BY <1>2, <1>3 DEF PutBackInode, PutInode, InodeMap

LEMMA TakeBlockSound ==
  ASSUME NEW bm \in BlockMap, MetaMarked(bm), NEW g, g = TakeBlock(bm)
  PROVE  /\ g.bm \in BlockMap /\ MetaMarked(g.bm) /\ g.bm.nfree = U32(bm.nfree - 1)
         /\ g.bno = NONE => g.bm.bits = bm.bits
         /\ g.bno # NONE => g.bno \in DataBlocks \ bm.bits /\ g.bm.bits = bm.bits \cup {g.bno}
<1> DEFINE n == GetFirstFreeBits(bm.bits, NBlocks, 1)
<1>1. n # NONE => n \in 1..(NBlocks - 1) /\ n \notin bm.bits
  <2>1. NBlocks \in Nat /\ 1 \in Nat \ {0}
    BY ConstantFacts
  <2>2. n # NONE => n \in 1..(NBlocks - 1) /\ Run(n, 1) \cap bm.bits = {}
    BY <2>1, FirstFreeIsFree
  <2>3. n \in Int => n \in Run(n, 1)
    BY DEF Run
  <2> QED BY <2>2, <2>3
<1>2. g.bno = n /\ g.bm = [bits |-> SetBits(bm.bits, n, 1), nfree |-> U32(bm.nfree - 1)]
  BY DEF TakeBlock
<1> HIDE DEF n
<1>3. n # NONE => n \in DataBlocks
  BY <1>1, ConstantFacts DEF DataBlocks, MetaMarked
<1>4. n # NONE => SetBits(bm.bits, n, 1) = bm.bits \cup {n}
  BY <1>1 DEF SetBits, Run
<1>5. n = NONE => SetBits(bm.bits, n, 1) = bm.bits
  BY DEF SetBits
<1>6. U32(bm.nfree - 1) \in 0..(Word - 1)
  BY U32Type, ConstantFacts DEF BlockMap
<1> QED BY <1>1, <1>2, <1>3, <1>4, <1>5, <1>6, ConstantFacts DEF BlockMap, MetaMarked

LEMMA PutBackBlockSound ==
  ASSUME NEW bm \in BlockMap, NEW b \in DataBlocks
  PROVE  /\ PutBackBlock(bm, b) = [bits |-> bm.bits \ {b}, nfree |-> U32(bm.nfree + 1)]
         /\ PutBackBlock(bm, b) \in BlockMap
         /\ MetaMarked(bm) => MetaMarked(PutBackBlock(bm, b))
<1>1. b \in 0..(NBlocks - 1)
  BY ConstantFacts
<1>2. U32(b + 1 - 1) = b
  <2>1. b + 1 - 1 = b /\ b \in 0..(Word - 1)
    BY <1>1, FatAssumption, ConstantFacts
  <2> QED BY <2>1, U32Id
<1>3. ~PutRefused(NBlocks, b, 1)
  BY <1>1, <1>2, FatAssumption DEF PutRefused
<1>4. U32(bm.nfree + 1) \in 0..(Word - 1)
  BY U32Type, ConstantFacts DEF BlockMap
<1>5. MetaMarked(bm) => 0..(Meta - 1) \subseteq bm.bits \ {b}
  BY ConstantFacts DEF MetaMarked, DataBlocks
<1> QED BY <1>3, <1>4, <1>5 DEF PutBackBlock, BlockMap, MetaMarked

----
(* What the operations of a directory do to its cells, and to others'.     *)

Slots == 0..(M - 1)

(* The table at b is one of a directory's: it does not hold the number -1,   *)
(* and no block twice.                                                     *)
DirTable(dk, b) ==
  /\ \A k \in Slots : dk.table[b].blocks[k] # NONE
  /\ \A j, k \in Slots : dk.table[b].blocks[j] = dk.table[b].blocks[k] /\ dk.table[b].blocks[j] # 0
                        => j = k

\* The blocks in the table at b.
BlocksIn(dk, b) == {dk.table[b].blocks[k] : k \in Slots} \ {0, NONE}

LEMMA ImageFacts ==
  ASSUME NEW dk \in DiskImage, NEW b \in DataBlocks
  PROVE  /\ dk.table \in [DataBlocks -> Table] /\ dk.table[b].nr_of_entries \in 0..(M * E)
         /\ dk.table[b].blocks \in [Slots -> DataBlocks \cup {0, NONE}]
         /\ dk.entries \in [DataBlocks -> [0..(E - 1) -> Entry]]
BY DEF DiskImage, Table, Slots

LEMMA EntryFacts == NoEntry \in Entry /\ NoEntry.ino = 0 /\ NoEntries \in [0..(E - 1) -> Entry]
BY ConstantFacts DEF NoEntry, NoEntries, Entry

LEMMA TableFacts == NoTable \in Table
BY ConstantFacts DEF NoTable, Table

LEMMA CellType ==
  ASSUME NEW dk \in DiskImage, NEW b \in DataBlocks, DirTable(dk, b)
  PROVE  Cell(dk, b) \in [Cells -> Entry]
<1> SUFFICES ASSUME NEW p \in Cells PROVE Cell(dk, b)[p] \in Entry
  BY DEF Cell
<1>1. p \div E \in Slots /\ p % E \in 0..(E - 1)
  BY CellSplit DEF Slots
<1>2. PICK k \in Slots, e \in 0..(E - 1) : k = p \div E /\ e = p % E
  BY <1>1
<1>3. PICK c : c = dk.table[b].blocks[k]
  OBVIOUS
<1>4. c \in DataBlocks \cup {0}
  BY <1>3, ImageFacts DEF DirTable
<1>5. Cell(dk, b)[p] = IF c = 0 THEN NoEntry ELSE dk.entries[c][e]
  BY <1>2, <1>3 DEF Cell
<1>6. c # 0 => dk.entries[c][e] \in Entry
  <2>1. c # 0 => dk.entries[c] \in [0..(E - 1) -> Entry]
    BY <1>4, ImageFacts
  <2> QED BY <2>1
<1> QED BY <1>5, <1>6, EntryFacts

\* What is in a cell depends on the directory's blocks alone.
LEMMA CellKept ==
  ASSUME NEW dk \in DiskImage, NEW dk2, NEW b \in DataBlocks,
         dk2.table[b].blocks = dk.table[b].blocks,
         \A c \in BlocksIn(dk, b) : dk2.entries[c] = dk.entries[c],
         DirTable(dk, b)
  PROVE  Cell(dk2, b) = Cell(dk, b)
<1>1. ASSUME NEW p \in Cells PROVE Cell(dk2, b)[p] = Cell(dk, b)[p]
  <2>1. PICK k \in Slots, e \in 0..(E - 1) : k = p \div E /\ e = p % E
    BY CellSplit DEF Slots
  <2>2. PICK c : c = dk.table[b].blocks[k]
    OBVIOUS
  <2>3. c # 0 => dk2.entries[c] = dk.entries[c]
    BY <2>2 DEF DirTable, BlocksIn
  <2> QED BY <2>1, <2>2, <2>3 DEF Cell
<1> QED BY <1>1 DEF Cell

\* A block with its one slot that changed.
LEMMA CellPut ==
  ASSUME NEW dk \in DiskImage, NEW dk2 \in DiskImage, NEW b \in DataBlocks, DirTable(dk, b),
         NEW n \in Cells, NEW kn \in Slots, kn = n \div E, NEW en \in 0..(E - 1), en = n % E,
         NEW at \in DataBlocks, NEW new \in Entry,
         \A k \in Slots : dk2.table[b].blocks[k] = IF k = kn THEN at ELSE dk.table[b].blocks[k],
         \A c \in DataBlocks \ {at} : dk2.entries[c] = dk.entries[c],
         \A e \in 0..(E - 1) : dk2.entries[at][e] = IF e = en THEN new ELSE dk.entries[at][e],
         \/ dk.table[b].blocks[kn] = at
         \/ /\ dk.table[b].blocks[kn] = 0 /\ at \notin BlocksIn(dk, b)
            /\ dk.entries[at] = NoEntries
  PROVE  /\ DirTable(dk2, b)
         /\ \A p \in Cells : Cell(dk2, b)[p] = IF p = n THEN new ELSE Cell(dk, b)[p]
<1>1. kn \in Slots /\ en \in 0..(E - 1)
  OBVIOUS
<1>2. PICK blocks : blocks = dk.table[b].blocks
  OBVIOUS
<1>3. blocks \in [Slots -> DataBlocks \cup {0, NONE}] /\ dk.entries \in [DataBlocks -> [0..(E - 1) -> Entry]]
  BY <1>2, ImageFacts
<1>4. PICK new2 : new2 = dk2.table[b].blocks
  OBVIOUS
<1>5. /\ \A k \in Slots : new2[k] = IF k = kn THEN at ELSE blocks[k]
      /\ \A e \in 0..(E - 1) : dk2.entries[at][e] = IF e = en THEN new ELSE dk.entries[at][e]
  BY <1>1, <1>2, <1>4
<1>6. /\ \A k \in Slots : blocks[k] # NONE
      /\ \A j, k \in Slots : blocks[j] = blocks[k] /\ blocks[j] # 0 => j = k
      /\ blocks[kn] = at \/ (blocks[kn] = 0 /\ at \notin {blocks[k] : k \in Slots} \ {0, NONE}
                                /\ dk.entries[at] = NoEntries)
  BY <1>1, <1>2 DEF DirTable, BlocksIn
<1>7. at # 0 /\ at # NONE
  BY ConstantFacts
<1>8. \A k \in Slots : k # kn => blocks[k] # at
  BY <1>1, <1>6, <1>7
<1>9. DirTable(dk2, b)
  <2>1. \A k \in Slots : new2[k] # NONE
    BY <1>5, <1>6, <1>7
  <2>2. \A j, k \in Slots : new2[j] = new2[k] /\ new2[j] # 0 => j = k
    BY <1>5, <1>6, <1>8
  <2> QED BY <1>4, <2>1, <2>2 DEF DirTable
<1>10. ASSUME NEW p \in Cells PROVE Cell(dk2, b)[p] = IF p = n THEN new ELSE Cell(dk, b)[p]
  <2>1. PICK k \in Slots, e \in 0..(E - 1) : k = p \div E /\ e = p % E
    BY CellSplit DEF Slots
  <2>2. Cell(dk, b)[p] = IF blocks[k] = 0 THEN NoEntry ELSE dk.entries[blocks[k]][e]
    BY <1>2, <2>1 DEF Cell
  <2>3. Cell(dk2, b)[p] = IF new2[k] = 0 THEN NoEntry ELSE dk2.entries[new2[k]][e]
    BY <1>4, <2>1 DEF Cell
  <2>4. p = n <=> k = kn /\ e = en
    BY <1>1, <2>1, CellsDiffer
  <2>6. CASE k # kn
    <3>1. new2[k] = blocks[k] /\ blocks[k] # at /\ blocks[k] \in DataBlocks \cup {0}
      BY <1>3, <1>5, <1>6, <1>8, <2>6
    <3>2. blocks[k] # 0 => dk2.entries[blocks[k]] = dk.entries[blocks[k]]
      BY <3>1
    <3> QED BY <2>2, <2>3, <2>4, <2>6, <3>1, <3>2
  <2>7. CASE k = kn
    <3>1. Cell(dk2, b)[p] = IF e = en THEN new ELSE dk.entries[at][e]
      BY <1>5, <1>7, <2>1, <2>3, <2>7
    <3>2. dk.entries[at][e] = Cell(dk, b)[p]
      BY <1>6, <1>7, <2>1, <2>2, <2>7 DEF NoEntries
    <3> QED BY <2>4, <2>7, <3>1, <3>2
  <2> QED BY <2>6, <2>7
<1> QED BY <1>9, <1>10

\* All the blocks of a directory written at once.
LEMMA WithCellsSound ==
  ASSUME NEW dk \in DiskImage, NEW b \in DataBlocks, DirTable(dk, b),
         NEW f \in [Cells -> Entry], NEW dk2, dk2 = WithCells(dk, b, f)
  PROVE  /\ dk2 \in DiskImage /\ dk2.table = dk.table
         /\ \A c \in DataBlocks \ BlocksIn(dk, b) : dk2.entries[c] = dk.entries[c]
         /\ \A p \in Cells : Cell(dk2, b)[p]
                              = IF dk.table[b].blocks[p \div E] = 0 THEN NoEntry ELSE f[p]
<1>1. PICK at : at = dk.table[b].blocks
  OBVIOUS
<1>2. at \in [Slots -> DataBlocks \cup {0, NONE}] /\ dk.entries \in [DataBlocks -> [0..(E - 1) -> Entry]]
  BY <1>1, ImageFacts
<1>3. /\ \A k \in Slots : at[k] # NONE
      /\ \A j, k \in Slots : at[j] = at[k] /\ at[j] # 0 => j = k
      /\ BlocksIn(dk, b) = {at[k] : k \in Slots} \ {0, NONE}
  BY <1>1 DEF DirTable, BlocksIn
<1> DEFINE new == [c \in DataBlocks |->
                     IF \E k \in DOMAIN at : at[k] = c
                       THEN LET k == CHOOSE k \in DOMAIN at : at[k] = c
                            IN  [e \in 0..(E - 1) |-> f[k * E + e]]
                       ELSE dk.entries[c]]
<1>4. dk2 = [dk EXCEPT !.entries = new]
  BY <1>1 DEF WithCells
<1>5. DOMAIN at = Slots
  BY <1>2
<1>6. ASSUME NEW c \in DataBlocks, ~ \E k \in Slots : at[k] = c
      PROVE  new[c] = dk.entries[c]
  BY <1>5, <1>6
<1>7. ASSUME NEW k \in Slots, at[k] \in DataBlocks
      PROVE  new[at[k]] = [e \in 0..(E - 1) |-> f[k * E + e]]
  <2>1. PICK j : j = CHOOSE x \in DOMAIN at : at[x] = at[k]
    OBVIOUS
  <2>2. j \in Slots /\ at[j] = at[k]
    BY <1>5, <2>1
  <2>3. at[k] # 0
    BY <1>7, ConstantFacts
  <2>4. j = k
    BY <1>3, <2>2, <2>3
  <2> QED BY <1>5, <1>7, <2>1, <2>4
<1>8. new \in [DataBlocks -> [0..(E - 1) -> Entry]]
  <2> SUFFICES ASSUME NEW c \in DataBlocks PROVE new[c] \in [0..(E - 1) -> Entry]
    OBVIOUS
  <2>1. CASE \E k \in Slots : at[k] = c
    <3>1. PICK k \in Slots : at[k] = c
      BY <2>1
    <3>2. new[c] = [e \in 0..(E - 1) |-> f[k * E + e]]
      BY <1>7, <3>1
    <3>3. ASSUME NEW e \in 0..(E - 1) PROVE f[k * E + e] \in Entry
      BY CellJoin DEF Slots
    <3> QED BY <3>2, <3>3
  <2>2. CASE ~ \E k \in Slots : at[k] = c
    BY <1>2, <1>6, <2>2
  <2> QED BY <2>1, <2>2
<1> HIDE DEF new
<1>9. dk2 \in DiskImage /\ dk2.table = dk.table /\ dk2.entries = new
  BY <1>4, <1>8 DEF DiskImage
<1>10. \A c \in DataBlocks \ BlocksIn(dk, b) : dk2.entries[c] = dk.entries[c]
  BY <1>3, <1>6, <1>9, ConstantFacts
<1>11. ASSUME NEW p \in Cells
       PROVE  Cell(dk2, b)[p] = IF dk.table[b].blocks[p \div E] = 0 THEN NoEntry ELSE f[p]
  <2>1. PICK k \in Slots, e \in 0..(E - 1) : k = p \div E /\ e = p % E /\ p = k * E + e
    BY CellSplit DEF Slots
  <2>2. Cell(dk2, b)[p] = IF at[k] = 0 THEN NoEntry ELSE new[at[k]][e]
    BY <1>1, <1>9, <2>1 DEF Cell
  <2>3. at[k] # 0 => at[k] \in DataBlocks
    BY <1>2, <1>3
  <2>4. at[k] # 0 => new[at[k]][e] = f[p]
    <3> SUFFICES ASSUME at[k] # 0 PROVE new[at[k]][e] = f[p]
      OBVIOUS
    <3>1. PICK row : row = new[at[k]]
      OBVIOUS
    <3>2. row = [x \in 0..(E - 1) |-> f[k * E + x]]
      BY <1>7, <2>3, <3>1
    <3>3. row[e] = f[k * E + e]
      BY <3>2
    <3> QED BY <2>1, <3>1, <3>3
  <2> QED BY <1>1, <2>1, <2>2, <2>4
<1> QED BY <1>9, <1>10, <1>11

----
(* A directory whose first n cells hold the entries S, each name once.     *)

Filled(c, n, S) ==
  /\ \A p \in Cells : c[p].ino # 0 <=> p < n
  /\ \A p, q \in Cells : p < n /\ q < n /\ c[p].name = c[q].name => p = q
  /\ {c[p] : p \in {q \in Cells : q < n}} = S

(* A scan reaches the last entry, and stays within the directory.           *)
LEMMA DepthReaches ==
  ASSUME NEW c \in [Cells -> Entry], NEW n \in 0..(M * E), NEW S, Filled(c, n, S)
  PROVE  Depth(c) \in 0..M /\ n <= Depth(c) * E /\ Depth(c) * E <= M * E /\ Depth(c) * E \in Nat
<1> DEFINE Seen == {k \in 0..(M - 1) : \A j \in 0..k : c[j * E].ino # 0}
<1>1. E \in Nat \ {0} /\ M \in Nat \ {0} /\ M * E \in Nat
  BY ConstantFacts
<1>2. ASSUME NEW j \in 0..(M - 1) PROVE j * E \in Cells /\ (c[j * E].ino # 0 <=> j * E < n)
  <2>1. 0 \in 0..(E - 1)
    BY <1>1
  <2>2. j * E + 0 \in Cells
    BY <2>1, CellJoin
  <2>3. j * E + 0 = j * E
    BY <1>1
  <2> QED BY <2>2, <2>3 DEF Filled
<1>3. ASSUME NEW k \in 0..(M - 1), NEW j \in 0..k PROVE j * E <= k * E /\ j \in 0..(M - 1)
  <2>1. (k - j) * E >= 0 /\ (k - j) * E = k * E - j * E
    BY <1>1
  <2>2. k * E \in Int /\ j * E \in Int
    BY <1>1
  <2> QED BY <1>1, <2>1, <2>2
<1>4. Seen = {k \in 0..(M - 1) : k * E < n}
  <2>1. ASSUME NEW k \in 0..(M - 1), k \in Seen PROVE k * E < n
    BY <1>1, <1>2, <2>1
  <2>2. ASSUME NEW k \in 0..(M - 1), k * E < n PROVE k \in Seen
    <3> SUFFICES ASSUME NEW j \in 0..k PROVE c[j * E].ino # 0
      OBVIOUS
    <3>1. j * E <= k * E /\ j \in 0..(M - 1)
      BY <1>3
    <3>2. j * E < n
      BY <1>1, <2>2, <3>1
    <3> QED BY <1>2, <3>1, <3>2
  <2> QED BY <2>1, <2>2
<1> HIDE DEF Seen
<1>5. PICK D \in 0..M : Seen = 0..(D - 1) /\ n <= D * E
  <2>1. CASE n = 0
    <3>1. Seen = {}
      BY <1>1, <1>2, <1>4, <2>1 DEF Cells
    <3>2. 0 \in 0..M /\ 0..(0 - 1) = {} /\ 0 <= 0 * E
      BY <1>1
    <3> QED BY <2>1, <3>1, <3>2
  <2>2. CASE n # 0
    <3>1. n - 1 \in Cells
      BY <1>1, <2>2 DEF Cells
    <3>2. PICK k \in 0..(M - 1), e \in 0..(E - 1) : n - 1 = k * E + e
      BY <3>1, CellSplit
    <3>3. (k + 1) * E = k * E + E
      BY <1>1
    <3>4. n <= (k + 1) * E
      BY <1>1, <3>2, <3>3
    <3>5. ASSUME NEW j \in 0..(M - 1) PROVE j * E < n <=> j <= k
      <4>1. CASE j <= k
        <5>1. j * E <= k * E
          BY <1>3, <4>1
        <5> QED BY <1>1, <3>2, <4>1, <5>1
      <4>2. CASE j > k
        <5>1. (k + 1) * E <= j * E
          BY <1>3, <4>2
        <5> QED BY <1>1, <3>2, <3>4, <4>2, <5>1
      <4> QED BY <4>1, <4>2
    <3>6. Seen = 0..k
      <4>1. \A j \in 0..k : j \in 0..(M - 1) /\ j <= k
        BY <1>1, <3>2
      <4>2. \A j \in 0..(M - 1) : j <= k => j \in 0..k
        BY <1>1, <3>2
      <4>3. Seen \subseteq 0..k
        BY <1>4, <3>5, <4>2
      <4>4. 0..k \subseteq Seen
        BY <1>4, <3>5, <4>1
      <4> QED BY <4>3, <4>4
    <3>7. k + 1 \in 0..M /\ (k + 1) - 1 = k
      BY <1>1, <3>2
    <3> QED BY <3>4, <3>6, <3>7
  <2> QED BY <2>1, <2>2
<1>6. Depth(c) = D
  <2>1. Cardinality(0..(D - 1)) = D
    BY FS_Interval
  <2> QED BY <1>5, <2>1 DEF Depth, Seen
<1>7. D * E <= M * E /\ D * E \in Nat
  <2>1. (M - D) * E >= 0 /\ (M - D) * E = M * E - D * E
    BY <1>1
  <2> QED BY <1>1, <2>1
<1> QED BY <1>5, <1>6, <1>7

LEMMA FilledFacts ==
  ASSUME NEW c \in [Cells -> Entry], NEW n \in 0..(M * E), NEW S, Filled(c, n, S)
  PROVE  /\ \A s \in S : \E p \in Cells : p < n /\ c[p] = s /\ s.ino # 0
         /\ \A p \in Cells : p < n => c[p] \in S
         /\ n = 0 => S = {}
<1>1. M * E \in Nat /\ \A p \in Cells : p \in Nat
  BY ConstantFacts
<1> QED BY <1>1 DEF Filled

\* One more entry, behind the others.
LEMMA FilledPut ==
  ASSUME NEW c \in [Cells -> Entry], NEW n \in 0..(M * E - 1), NEW S, Filled(c, n, S),
         NEW new \in Entry, new.ino # 0, \A s \in S : s.name # new.name
  PROVE  Filled([c EXCEPT ![n] = new], n + 1, S \cup {new})
<1> DEFINE c2 == [c EXCEPT ![n] = new]
<1>1. n \in Cells /\ \A p \in Cells : p \in Nat
  BY ConstantFacts DEF Cells
<1>2. \A p \in Cells : c2[p] = IF p = n THEN new ELSE c[p]
  BY <1>1
<1>3. \A p \in Cells : p < n + 1 <=> p < n \/ p = n
  BY <1>1
<1>4. \A p \in Cells : p < n => c[p] \in S /\ p # n
  BY <1>1 DEF Filled
<1> HIDE DEF c2
<1>5. \A p \in Cells : c2[p].ino # 0 <=> p < n + 1
  BY <1>2, <1>3, <1>4 DEF Filled
<1>6. \A p, q \in Cells : p < n + 1 /\ q < n + 1 /\ c2[p].name = c2[q].name => p = q
  BY <1>2, <1>3, <1>4 DEF Filled
<1>7. {c2[p] : p \in {q \in Cells : q < n + 1}} = S \cup {new}
  <2>1. \A x \in S : \E p \in Cells : p < n /\ c[p] = x
    BY DEF Filled
  <2>2. S \cup {new} \subseteq {c2[p] : p \in {q \in Cells : q < n + 1}}
    BY <1>1, <1>2, <1>3, <1>4, <2>1
  <2>3. {c2[p] : p \in {q \in Cells : q < n + 1}} \subseteq S \cup {new}
    BY <1>2, <1>3, <1>4
  <2> QED BY <2>2, <2>3
<1> QED BY <1>5, <1>6, <1>7 DEF Filled, c2

(* The entry at m goes and those behind it move up; what a new block of      *)
(* cells is filled with is seen only where there was a cell.               *)
LEMMA FilledClosed ==
  ASSUME NEW c \in [Cells -> Entry], NEW n \in 0..(M * E), NEW S, Filled(c, n, S),
         NEW m \in Cells, m < n, NEW f, f = Closed(c, m, Depth(c)), NEW c2,
         \A p \in Cells : c2[p] = f[p] \/ (c[p].ino = 0 /\ c2[p] = NoEntry)
  PROVE  f \in [Cells -> Entry] /\ Filled(c2, n - 1, S \ {c[m]})
<1>1. PICK d : d = Depth(c) * E
  OBVIOUS
<1>2. d \in Nat /\ n <= d /\ d <= M * E /\ M * E \in Nat /\ n \in Nat /\ m \in Nat
  BY <1>1, DepthReaches, ConstantFacts
<1>3. \A p \in Cells : p \in Nat /\ p < M * E
  BY <1>2 DEF Cells
<1>4. \A p \in Nat : p < M * E => p \in Cells
  BY <1>2 DEF Cells
<1>5. f = [q \in Cells |-> IF q < m \/ q >= d THEN c[q] ELSE IF q = d - 1 THEN NoEntry ELSE c[q + 1]]
  BY <1>1 DEF Closed
<1>6. ASSUME NEW q \in Cells, ~(q < m \/ q >= d), q # d - 1 PROVE q + 1 \in Cells
  BY <1>2, <1>3, <1>4, <1>6
<1>7. f \in [Cells -> Entry]
  BY <1>5, <1>6, EntryFacts
<1>8. \A p \in Cells : p < n <=> c[p].ino # 0
  BY DEF Filled
<1>9. ASSUME NEW p \in Cells, p < n - 1
      PROVE  c2[p] = (IF p < m THEN c[p] ELSE c[p + 1]) /\ p < n /\ p + 1 < n /\ p + 1 \in Cells
  <2>1. p \in Nat /\ p < n /\ p + 1 < n /\ p + 1 \in Cells
    BY <1>2, <1>3, <1>4, <1>9
  <2>2. c2[p] = f[p]
    BY <1>8, <2>1
  <2>3. ~(p >= d) /\ p # d - 1
    BY <1>2, <1>9, <2>1
  <2> QED BY <1>5, <2>1, <2>2, <2>3
<1>10. ASSUME NEW p \in Cells, ~(p < n - 1)
       PROVE  c2[p].ino = 0
  <2>1. p \in Nat /\ ~(p < m) /\ p + 1 \in Nat /\ ~(p + 1 < n)
    BY <1>2, <1>3, <1>10
  <2>2. CASE p >= d
    <3>1. f[p] = c[p] /\ ~(p < n)
      BY <1>2, <1>5, <2>1, <2>2
    <3> QED BY <1>8, <3>1, EntryFacts
  <2>3. CASE p = d - 1
    <3>1. f[p] = NoEntry
      BY <1>2, <1>5, <2>1, <2>3
    <3> QED BY <3>1, EntryFacts
  <2>4. CASE ~(p >= d) /\ p # d - 1
    <3>1. f[p] = c[p + 1] /\ p + 1 \in Cells
      BY <1>5, <1>6, <2>1, <2>4
    <3> QED BY <1>8, <2>1, <3>1, EntryFacts
  <2> QED BY <2>2, <2>3, <2>4
<1>11. n - 1 \in Nat
  BY <1>2
<1>12. \A p \in Cells : c2[p].ino # 0 <=> p < n - 1
  BY <1>8, <1>9, <1>10
<1> DEFINE from(p) == IF p < m THEN p ELSE p + 1
<1>13. \A p \in Cells : p < n - 1 => c2[p] = c[from(p)] /\ from(p) \in Cells /\ from(p) < n /\ from(p) # m
  BY <1>2, <1>3, <1>9
<1>14. ASSUME NEW p \in Cells, NEW q \in Cells, from(p) = from(q) PROVE p = q
  BY <1>2, <1>3, <1>14
<1>15. ASSUME NEW q \in Cells, q < n, q # m PROVE \E p \in Cells : p < n - 1 /\ from(p) = q
  <2>1. CASE q < m
    BY <1>2, <1>3, <1>15, <2>1
  <2>2. CASE ~(q < m)
    <3>1. q - 1 \in Nat /\ q - 1 < n - 1 /\ q - 1 < M * E /\ ~(q - 1 < m)
      BY <1>2, <1>3, <1>15, <2>2
    <3>2. q - 1 \in Cells /\ from(q - 1) = q
      BY <1>3, <1>4, <3>1
    <3> QED BY <3>1, <3>2
  <2> QED BY <2>1, <2>2
<1> HIDE DEF from
<1>16. ASSUME NEW p \in Cells, NEW q \in Cells, p < n, q < n, c[p].name = c[q].name PROVE p = q
  BY <1>16 DEF Filled
<1>17. \A p, q \in Cells : p < n - 1 /\ q < n - 1 /\ c2[p].name = c2[q].name => p = q
  BY <1>13, <1>14, <1>16
<1>18. {c2[p] : p \in {q \in Cells : q < n - 1}} = S \ {c[m]}
  <2>1. S = {c[p] : p \in {q \in Cells : q < n}}
    BY DEF Filled
  <2>2. ASSUME NEW p \in Cells, p < n - 1 PROVE c2[p] \in S \ {c[m]}
    BY <1>13, <1>16, <2>1, <2>2
  <2>3. ASSUME NEW x \in S \ {c[m]} PROVE \E p \in Cells : p < n - 1 /\ c2[p] = x
    <3>1. PICK q \in Cells : q < n /\ c[q] = x
      BY <2>1
    <3>2. q # m
      BY <3>1
    <3>3. PICK p \in Cells : p < n - 1 /\ from(p) = q
      BY <1>15, <3>1, <3>2
    <3> QED BY <1>13, <3>1, <3>3
  <2> QED BY <2>2, <2>3
<1> QED BY <1>7, <1>12, <1>17, <1>18 DEF Filled

(* The table at b is that of a directory that holds the entries S, and does *)
(* not list its own block.                                                 *)
DirSound(dk, b, S) ==
  /\ DirTable(dk, b) /\ b \notin BlocksIn(dk, b)
  /\ Filled(Cell(dk, b), dk.table[b].nr_of_entries, S)

LEMMA DirKept ==
  ASSUME NEW dk \in DiskImage, NEW dk2 \in DiskImage, NEW b \in DataBlocks, NEW S,
         DirSound(dk, b, S), dk2.table[b] = dk.table[b],
         \A c \in BlocksIn(dk, b) : dk2.entries[c] = dk.entries[c]
  PROVE  DirSound(dk2, b, S)
<1>1. DirTable(dk, b) /\ dk2.table[b].blocks = dk.table[b].blocks
  BY DEF DirSound
<1>2. Cell(dk2, b) = Cell(dk, b)
  BY <1>1, CellKept
<1>3. DirTable(dk2, b) /\ BlocksIn(dk2, b) = BlocksIn(dk, b)
  BY <1>1 DEF DirTable, BlocksIn
<1> QED BY <1>2, <1>3 DEF DirSound

\* A cleared table is that of an empty directory.
LEMMA DirEmpty ==
  ASSUME NEW dk \in DiskImage, NEW b \in DataBlocks, dk.table[b] = NoTable
  PROVE  DirSound(dk, b, {}) /\ BlocksIn(dk, b) = {}
<1>1. dk.table[b].nr_of_entries = 0 /\ \A k \in Slots : dk.table[b].blocks[k] = 0
  BY DEF NoTable, Slots
<1>2. DirTable(dk, b) /\ BlocksIn(dk, b) = {}
  BY <1>1, ConstantFacts DEF DirTable, BlocksIn
<1>3. \A p \in Cells : Cell(dk, b)[p] = NoEntry
  <2> SUFFICES ASSUME NEW p \in Cells PROVE Cell(dk, b)[p] = NoEntry
    OBVIOUS
  <2>1. PICK k \in Slots : k = p \div E
    BY CellSplit DEF Slots
  <2> QED BY <1>1, <2>1 DEF Cell
<1>4. \A p \in Cells : p \in Nat /\ ~(p < 0)
  BY ConstantFacts
<1>5. Filled(Cell(dk, b), 0, {})
  BY <1>3, <1>4, EntryFacts DEF Filled
<1> QED BY <1>1, <1>2, <1>5 DEF DirSound

\* The first cell with inode number i is the one delete_entry takes out.
FirstOf(c, i, m) == c[m].ino = i /\ \A q \in Cells : q < m => c[q].ino # i

\* dk2 is dk without the entry e of the directory at b.
EntryRemoved(dk, b, S, e, dk2) ==
  /\ dk2 \in DiskImage /\ DirSound(dk2, b, S \ {e})
  /\ BlocksIn(dk2, b) = BlocksIn(dk, b)
  /\ \A c \in DataBlocks \ {b} : dk2.table[c] = dk.table[c]
  /\ \A c \in DataBlocks \ BlocksIn(dk, b) : dk2.entries[c] = dk.entries[c]

(* a.dk is dk with one more entry e in the directory at b, to which a block *)
(* that was clear may have been added.                                     *)
EntryAdded(dk, bm, b, S, e, a) ==
  /\ a.dk \in DiskImage /\ DirSound(a.dk, b, S \cup {e})
  /\ \A m \in Cells : FirstOf(Cell(dk, b), e.ino, m)
       => FirstOf(Cell(a.dk, b), e.ino, m) /\ Cell(a.dk, b)[m] = Cell(dk, b)[m]
  /\ \A c \in DataBlocks \ {b} : a.dk.table[c] = dk.table[c]
  /\ \E new \in SUBSET (DataBlocks \ bm.bits) :
       /\ BlocksIn(a.dk, b) = BlocksIn(dk, b) \cup new
       /\ \A c \in DataBlocks \ BlocksIn(a.dk, b) : a.dk.entries[c] = dk.entries[c]
       /\ a.bm.bits = bm.bits \cup new
       /\ \/ new = {} /\ a.bm.nfree = bm.nfree
          \/ (\E x : new = {x}) /\ a.bm.nfree = U32(bm.nfree - 1)

LEMMA FirstIsLeast ==
  ASSUME NEW c \in [Cells -> Entry], NEW i, NEW m \in Cells, FirstOf(c, i, m),
         NEW D \in SUBSET Cells, m \in D
  PROVE  Least({p \in D : c[p].ino = i}) = m
<1> DEFINE H == {p \in D : c[p].ino = i}
<1>1. H \in SUBSET Nat /\ H # {} /\ m \in H /\ m \in Nat /\ H \subseteq Cells
  BY ConstantFacts DEF FirstOf
<1>2. \A p \in H : ~(p < m)
  BY DEF FirstOf
<1> HIDE DEF H
<1>3. PICK l : l = Least(H)
  OBVIOUS
<1>4. l \in H /\ \A t \in H : l <= t
  BY <1>1, <1>3, LeastIsMember
<1>5. l \in Nat /\ l <= m /\ ~(l < m)
  BY <1>1, <1>2, <1>4
<1>6. l = m
  BY <1>1, <1>5
<1> QED BY <1>3, <1>6 DEF H

\* A set of cells with inode i has a first one.
LEMMA FirstExists ==
  ASSUME NEW c \in [Cells -> Entry], NEW i, NEW q \in Cells, c[q].ino = i
  PROVE  \E m \in Cells : FirstOf(c, i, m) /\ m <= q /\ m = Least({p \in Cells : c[p].ino = i})
<1> DEFINE H == {p \in Cells : c[p].ino = i}
<1>1. H \in SUBSET Nat /\ q \in H /\ H \subseteq Cells
  BY ConstantFacts
<1>2. PICK m : m = Least(H)
  OBVIOUS
<1>3. m \in H /\ \A t \in H : m <= t
  <2> HIDE DEF H
  <2> QED BY <1>1, <1>2, LeastIsMember
<1>4. \A t \in Cells : t < m => c[t].ino # i
  BY <1>1, <1>3
<1>5. m \in Cells /\ c[m].ino = i /\ m <= q
  BY <1>1, <1>3
<1> QED BY <1>2, <1>4, <1>5 DEF FirstOf

LEMMA DeleteEntrySound ==
  ASSUME NEW dk \in DiskImage, NEW b \in DataBlocks, NEW S, DirSound(dk, b, S),
         NEW i \in Inodes \ {0}, NEW m \in Cells, FirstOf(Cell(dk, b), i, m),
         NEW dk2, dk2 = DeleteEntry(dk, b, i)
  PROVE  EntryRemoved(dk, b, S, Cell(dk, b)[m], dk2)
<1>0. /\ DirTable(dk, b) /\ b \notin BlocksIn(dk, b)
      /\ Filled(Cell(dk, b), dk.table[b].nr_of_entries, S)
  BY DEF DirSound
<1>1. PICK c : c = Cell(dk, b)
  OBVIOUS
<1>2. PICK n : n = dk.table[b].nr_of_entries
  OBVIOUS
<1>3. c \in [Cells -> Entry] /\ n \in 0..(M * E) /\ Filled(c, n, S)
  BY <1>0, <1>1, <1>2, CellType, ImageFacts
<1>4. c[m].ino = i /\ m < n /\ n \in Nat /\ m \in Nat
  <2>1. c[m].ino = i /\ i # 0
    BY <1>1 DEF FirstOf
  <2> QED BY <1>3, <2>1, ConstantFacts DEF Filled
<1>5. PICK D : D = 0..(Depth(c) * E - 1)
  OBVIOUS
<1>6. D \in SUBSET Cells /\ m \in D
  <2>1. PICK x : x = Depth(c) * E
    OBVIOUS
  <2>2. x \in Nat /\ n <= x /\ x <= M * E /\ M * E \in Nat
    BY <1>3, <2>1, DepthReaches, ConstantFacts
  <2> QED BY <1>4, <1>5, <2>1, <2>2 DEF Cells
<1>7. Least({p \in D : c[p].ino = i}) = m
  BY <1>1, <1>3, <1>6, FirstIsLeast
<1>8. PICK f : f = Closed(c, m, Depth(c))
  OBVIOUS
<1>9. PICK w : w = WithCells(dk, b, f)
  OBVIOUS
<1>10. {p \in D : c[p].ino = i} # {}
  BY <1>4, <1>6
<1>11. dk2 = [w EXCEPT !.table[b].nr_of_entries = @ - 1]
  BY <1>1, <1>5, <1>7, <1>8, <1>9, <1>10 DEF DeleteEntry
<1>12. f \in [Cells -> Entry]
  <2>1. \A p \in Cells : f[p] = f[p]
    OBVIOUS
  <2> QED BY <1>3, <1>4, <1>8, <2>1, FilledClosed
<1>13. /\ w \in DiskImage /\ w.table = dk.table
       /\ \A x \in DataBlocks \ BlocksIn(dk, b) : w.entries[x] = dk.entries[x]
       /\ \A p \in Cells : Cell(w, b)[p] = IF dk.table[b].blocks[p \div E] = 0 THEN NoEntry ELSE f[p]
  BY <1>0, <1>9, <1>12, WithCellsSound
<1>14. Filled(Cell(w, b), n - 1, S \ {c[m]})
  <2>1. PICK c2 : c2 = Cell(w, b)
    OBVIOUS
  <2>2. \A p \in Cells : dk.table[b].blocks[p \div E] = 0 => c[p] = NoEntry
    BY <1>1 DEF Cell
  <2>3. \A p \in Cells : c2[p] = f[p] \/ (c[p].ino = 0 /\ c2[p] = NoEntry)
    BY <1>13, <2>1, <2>2, EntryFacts
  <2>4. Filled(c2, n - 1, S \ {c[m]})
    BY <1>3, <1>4, <1>8, <2>3, FilledClosed
  <2> QED BY <2>1, <2>4
<1>15. PICK old : old = dk.table[b]
  OBVIOUS
<1>16. old \in Table /\ dk.table \in [DataBlocks -> Table] /\ old.nr_of_entries = n
  BY <1>2, <1>15 DEF DiskImage
<1>17. PICK new : new = [old EXCEPT !.nr_of_entries = n - 1]
  OBVIOUS
<1>18. new \in Table /\ new.nr_of_entries = n - 1 /\ new.blocks = old.blocks
  <2>1. n - 1 \in 0..(M * E)
    BY <1>3, <1>4, ConstantFacts
  <2>2. new = [nr_of_entries |-> n - 1, blocks |-> old.blocks]
    BY <1>16, <1>17 DEF Table
  <2> QED BY <1>16, <2>1, <2>2 DEF Table
<1>19. dk2 = [w EXCEPT !.table = [dk.table EXCEPT ![b] = new]]
  BY <1>11, <1>13, <1>15, <1>16, <1>17
<1>20. dk2.table = [dk.table EXCEPT ![b] = new] /\ dk2.entries = w.entries
  BY <1>13, <1>19 DEF DiskImage
<1>21. dk2 \in DiskImage
  <2>1. [dk.table EXCEPT ![b] = new] \in [DataBlocks -> Table]
    BY <1>16, <1>18
  <2> QED BY <1>13, <1>19, <2>1 DEF DiskImage
<1>22. dk2.table[b] = new /\ \A x \in DataBlocks \ {b} : dk2.table[x] = dk.table[x]
  BY <1>16, <1>20
<1>23. Cell(dk2, b) = Cell(w, b)
  <2>1. dk2.table[b].blocks = w.table[b].blocks
    BY <1>13, <1>15, <1>18, <1>22
  <2> QED BY <1>20, <2>1 DEF Cell
<1>24. DirTable(dk2, b) /\ BlocksIn(dk2, b) = BlocksIn(dk, b)
  BY <1>0, <1>15, <1>18, <1>22 DEF DirTable, BlocksIn
<1>25. DirSound(dk2, b, S \ {Cell(dk, b)[m]})
  BY <1>0, <1>1, <1>14, <1>18, <1>22, <1>23, <1>24 DEF DirSound
<1> QED BY <1>13, <1>20, <1>21, <1>22, <1>24, <1>25 DEF EntryRemoved

(* Nothing but the directory's own table and entries changes with a new     *)
(* name, and a block that was clear may become one of the directory's.     *)
LEMMA AddEntrySound ==
  ASSUME NEW dk \in DiskImage, NEW bm \in BlockMap, MetaMarked(bm),
         NEW b \in DataBlocks, NEW S, DirSound(dk, b, S),
         dk.table[b].nr_of_entries < M * E, BlocksIn(dk, b) \subseteq bm.bits, b \in bm.bits,
         \A c \in DataBlocks \ bm.bits : dk.entries[c] = NoEntries,
         NEW name \in Names, NEW i \in Inodes \ {0}, \A s \in S : s.name # name,
         NEW a, a = AddEntry(dk, bm, b, name, i)
  PROVE  /\ a.bm \in BlockMap /\ MetaMarked(a.bm)
         /\ ~a.ok => a.dk = dk /\ a.bm = [bits |-> bm.bits, nfree |-> U32(bm.nfree - 1)]
         /\ a.ok => EntryAdded(dk, bm, b, S, [ino |-> i, name |-> name], a)
<1> DEFINE n == dk.table[b].nr_of_entries
<1>0. /\ DirTable(dk, b) /\ Filled(Cell(dk, b), n, S) /\ b \notin BlocksIn(dk, b)
      /\ n \in 0..(M * E - 1)
  <2>1. n \in 0..(M * E) /\ n < M * E
    BY ImageFacts
  <2> QED BY <2>1, ConstantFacts DEF DirSound
<1> HIDE DEF n
<1>1. n \in Cells /\ M * E \in Nat /\ n \in Nat
  BY <1>0, ConstantFacts DEF Cells
<1>2. PICK k \in Slots, e \in 0..(E - 1) : k = n \div E /\ e = n % E
  BY <1>1, CellSplit DEF Slots
<1>3. PICK old : old = dk.table[b]
  OBVIOUS
<1>4. /\ old \in Table /\ dk.table \in [DataBlocks -> Table] /\ old.nr_of_entries = n
      /\ old.blocks \in [Slots -> DataBlocks \cup {0, NONE}]
      /\ dk.entries \in [DataBlocks -> [0..(E - 1) -> Entry]]
  BY <1>3 DEF DiskImage, Table, Slots, n
<1>5. PICK c : c = old.blocks[k]
  OBVIOUS
<1>6. c \in DataBlocks \cup {0} /\ c # NONE
  BY <1>0, <1>3, <1>4, <1>5, ConstantFacts DEF DirTable
<1>7. PICK g : g = TakeBlock(bm)
  OBVIOUS
<1>8. PICK at : at = IF c = 0 THEN g.bno ELSE c
  OBVIOUS
<1>9. PICK en : en = [ino |-> i, name |-> name]
  OBVIOUS
<1>10. /\ a.ok <=> at # NONE
       /\ a.bm = IF c = 0 THEN g.bm ELSE bm
       /\ a.dk = IF at = NONE THEN dk
                 ELSE [dk EXCEPT !.table[b].blocks[k] = at, !.table[b].nr_of_entries = n + 1,
                                 !.entries[at][e] = en]
  BY <1>2, <1>3, <1>4, <1>5, <1>7, <1>8, <1>9 DEF AddEntry, n
<1>11. /\ g.bm \in BlockMap /\ MetaMarked(g.bm) /\ g.bm.nfree = U32(bm.nfree - 1)
       /\ g.bno = NONE => g.bm.bits = bm.bits
       /\ g.bno # NONE => g.bno \in DataBlocks \ bm.bits /\ g.bm.bits = bm.bits \cup {g.bno}
  BY <1>7, TakeBlockSound
<1>12. ASSUME ~a.ok
       PROVE  a.dk = dk /\ a.bm = [bits |-> bm.bits, nfree |-> U32(bm.nfree - 1)]
  <2>1. at = NONE /\ c = 0 /\ g.bno = NONE
    BY <1>6, <1>8, <1>10, <1>12
  <2> QED BY <1>10, <1>11, <2>1 DEF BlockMap
<1>13. ASSUME a.ok PROVE EntryAdded(dk, bm, b, S, en, a)
  <2>1. at \in DataBlocks /\ at # 0 /\ at # NONE
    BY <1>6, <1>8, <1>10, <1>11, <1>13, ConstantFacts
  <2>2. PICK tab : tab = [old EXCEPT !.blocks = [old.blocks EXCEPT ![k] = at], !.nr_of_entries = n + 1]
    OBVIOUS
  <2>3. PICK blk : blk = [dk.entries[at] EXCEPT ![e] = en]
    OBVIOUS
  <2>4. a.dk = [dk EXCEPT !.table = [dk.table EXCEPT ![b] = tab],
                          !.entries = [dk.entries EXCEPT ![at] = blk]]
    <3>1. a.dk = [dk EXCEPT !.table[b].blocks[k] = at, !.table[b].nr_of_entries = n + 1,
                            !.entries[at][e] = en]
      BY <1>10, <1>13
    <3>2. [dk EXCEPT !.table[b].blocks[k] = at, !.table[b].nr_of_entries = n + 1,
                     !.entries[at][e] = en]
          = [dk EXCEPT !.table = [dk.table EXCEPT ![b] = tab],
                       !.entries = [dk.entries EXCEPT ![at] = blk]]
      BY <1>3, <1>4, <2>1, <2>2, <2>3 DEF DiskImage, Table
    <3> QED BY <3>1, <3>2
  <2>5. tab.blocks = [old.blocks EXCEPT ![k] = at] /\ tab.nr_of_entries = n + 1
    BY <1>4, <2>2 DEF Table
  <2>6. tab \in Table
    <3>1. n + 1 \in 0..(M * E)
      BY <1>0, <1>1
    <3>2. tab = [nr_of_entries |-> n + 1, blocks |-> [old.blocks EXCEPT ![k] = at]]
      BY <1>4, <2>2 DEF Table
    <3>3. [old.blocks EXCEPT ![k] = at] \in [Slots -> DataBlocks \cup {0, NONE}]
      BY <1>4, <2>1
    <3> QED BY <3>1, <3>2, <3>3 DEF Table, Slots
  <2>7. en \in Entry /\ en.ino # 0 /\ en.name = name
    BY <1>9 DEF Entry
  <2>8. blk \in [0..(E - 1) -> Entry]
    BY <1>4, <2>1, <2>3, <2>7
  <2>9. a.dk.table = [dk.table EXCEPT ![b] = tab] /\ a.dk.entries = [dk.entries EXCEPT ![at] = blk]
    BY <2>4 DEF DiskImage
  <2>10. a.dk \in DiskImage
    <3>1. [dk.table EXCEPT ![b] = tab] \in [DataBlocks -> Table]
      BY <1>4, <2>6
    <3>2. [dk.entries EXCEPT ![at] = blk] \in [DataBlocks -> [0..(E - 1) -> Entry]]
      BY <1>4, <2>8
    <3> QED BY <2>4, <3>1, <3>2 DEF DiskImage
  <2>11. a.dk.table[b] = tab /\ \A x \in DataBlocks \ {b} : a.dk.table[x] = dk.table[x]
    BY <1>4, <2>9
  <2>12. c # 0 => at = c
    BY <1>8
  <2>13. c = 0 => at \in DataBlocks \ bm.bits /\ a.bm.bits = bm.bits \cup {at}
                   /\ a.bm.nfree = U32(bm.nfree - 1)
    BY <1>8, <1>10, <1>11, <1>13
  <2>14. Cell(a.dk, b) = [Cell(dk, b) EXCEPT ![n] = en] /\ DirTable(a.dk, b)
    <3>1. \A x \in Slots : a.dk.table[b].blocks[x] = IF x = k THEN at ELSE dk.table[b].blocks[x]
      BY <1>3, <1>4, <2>5, <2>11
    <3>2. \A x \in DataBlocks \ {at} : a.dk.entries[x] = dk.entries[x]
      BY <1>4, <2>1, <2>9
    <3>3. \A x \in 0..(E - 1) : a.dk.entries[at][x] = IF x = e THEN en ELSE dk.entries[at][x]
      <4>1. dk.entries[at] \in [0..(E - 1) -> Entry]
        BY <1>4, <2>1
      <4>2. \A x \in 0..(E - 1) : blk[x] = IF x = e THEN en ELSE dk.entries[at][x]
        BY <2>3, <4>1
      <4>3. a.dk.entries[at] = blk
        BY <1>4, <2>1, <2>9
      <4> QED BY <4>2, <4>3
    <3>4. \/ dk.table[b].blocks[k] = at
          \/ /\ dk.table[b].blocks[k] = 0 /\ at \notin BlocksIn(dk, b)
             /\ dk.entries[at] = NoEntries
      BY <1>3, <1>5, <2>12, <2>13
    <3>5. PICK dk3 : dk3 = a.dk
      OBVIOUS
    <3>6. /\ DirTable(dk3, b)
          /\ \A p \in Cells : Cell(dk3, b)[p] = IF p = n THEN en ELSE Cell(dk, b)[p]
      <4>1. /\ \A x \in Slots : dk3.table[b].blocks[x] = IF x = k THEN at ELSE dk.table[b].blocks[x]
            /\ \A x \in DataBlocks \ {at} : dk3.entries[x] = dk.entries[x]
            /\ \A x \in 0..(E - 1) : dk3.entries[at][x] = IF x = e THEN en ELSE dk.entries[at][x]
        BY <3>1, <3>2, <3>3, <3>5
      <4> QED BY <1>0, <1>1, <1>2, <2>1, <2>7, <2>10, <3>4, <3>5, <4>1, CellPut
    <3>7. Cell(dk3, b) = [Cell(dk, b) EXCEPT ![n] = en]
      BY <3>6 DEF Cell
    <3> QED BY <3>5, <3>6, <3>7
  <2>15. Filled(Cell(a.dk, b), n + 1, S \cup {en})
    BY <1>0, <1>9, <2>7, <2>14, FilledPut, CellType
  <2>16. BlocksIn(a.dk, b) = BlocksIn(dk, b) \cup {at}
    <3>1. PICK blocks : blocks = old.blocks
      OBVIOUS
    <3>2. PICK blocks2 : blocks2 = tab.blocks
      OBVIOUS
    <3>3. \A j \in Slots : blocks2[j] = IF j = k THEN at ELSE blocks[j]
      BY <1>4, <2>5, <3>1, <3>2
    <3>4. BlocksIn(a.dk, b) = {blocks2[j] : j \in Slots} \ {0, NONE}
      BY <2>11, <3>2 DEF BlocksIn
    <3>5. BlocksIn(dk, b) = {blocks[j] : j \in Slots} \ {0, NONE}
      BY <1>3, <3>1 DEF BlocksIn
    <3>6. blocks[k] \in {0, at}
      BY <1>5, <2>12, <3>1
    <3> QED BY <2>1, <3>3, <3>4, <3>5, <3>6
  <2>17. \A x \in DataBlocks \ BlocksIn(a.dk, b) : a.dk.entries[x] = dk.entries[x]
    BY <1>4, <2>9, <2>16
  <2>18. \E new \in SUBSET (DataBlocks \ bm.bits) :
           /\ BlocksIn(a.dk, b) = BlocksIn(dk, b) \cup new
           /\ a.bm.bits = bm.bits \cup new
           /\ \/ new = {} /\ a.bm.nfree = bm.nfree
              \/ (\E x : new = {x}) /\ a.bm.nfree = U32(bm.nfree - 1)
    <3>1. CASE c = 0
      <4>1. {at} \in SUBSET (DataBlocks \ bm.bits)
        BY <2>13, <3>1
      <4> QED BY <2>13, <2>16, <3>1, <4>1
    <3>2. CASE c # 0
      <4>1. a.bm = bm
        BY <1>10, <3>2
      <4>2. at \in BlocksIn(dk, b)
        BY <1>3, <1>5, <1>6, <2>12, <3>2 DEF BlocksIn
      <4>3. {} \in SUBSET (DataBlocks \ bm.bits) /\ BlocksIn(a.dk, b) = BlocksIn(dk, b) \cup {}
            /\ a.bm.bits = bm.bits \cup {}
        BY <2>16, <4>1, <4>2
      <4> QED BY <4>1, <4>3
    <3> QED BY <3>1, <3>2
  <2>19. b \notin BlocksIn(a.dk, b)
    BY <1>0, <2>18
  <2>20. DirSound(a.dk, b, S \cup {en})
    BY <2>5, <2>11, <2>14, <2>15, <2>19 DEF DirSound
  <2>21. ASSUME NEW m \in Cells, FirstOf(Cell(dk, b), en.ino, m)
         PROVE  FirstOf(Cell(a.dk, b), en.ino, m) /\ Cell(a.dk, b)[m] = Cell(dk, b)[m]
    <3>1. PICK f : f = Cell(dk, b)
      OBVIOUS
    <3>2. PICK f2 : f2 = Cell(a.dk, b)
      OBVIOUS
    <3>3. f \in [Cells -> Entry]
      BY <1>0, <3>1, CellType
    <3>4. \A p \in Cells : p # n => f2[p] = f[p]
      BY <1>1, <2>14, <3>1, <3>2, <3>3
    <3>5. m < n /\ m \in Nat
      BY <1>0, <2>7, <2>21, ConstantFacts DEF Filled, FirstOf
    <3>6. \A q \in Cells : q < m => q # n
      BY <1>1, <3>5, ConstantFacts
    <3>7. m # n
      BY <1>1, <3>5
    <3>8. FirstOf(f2, en.ino, m)
      BY <2>21, <3>1, <3>4, <3>6, <3>7 DEF FirstOf
    <3> QED BY <3>1, <3>2, <3>4, <3>7, <3>8
  <2> QED BY <2>10, <2>11, <2>17, <2>18, <2>20, <2>21 DEF EntryAdded
<1>14. a.bm \in BlockMap /\ MetaMarked(a.bm)
  BY <1>10, <1>11
<1> QED BY <1>9, <1>12, <1>13, <1>14

\* A search that goes through a directory finds the name or nothing.
LEMMA SearchSound ==
  ASSUME NEW dk \in DiskImage, NEW b \in DataBlocks, DirTable(dk, b), NEW S, NEW name,
         Filled(Cell(dk, b), dk.table[b].nr_of_entries, S)
  PROVE  /\ \A s \in S : s.name = name => Search(dk, b, name) = s.ino
         /\ (\A s \in S : s.name # name) => Search(dk, b, name) = 0
<1>1. PICK c : c = Cell(dk, b)
  OBVIOUS
<1>2. PICK n : n = dk.table[b].nr_of_entries
  OBVIOUS
<1>3. c \in [Cells -> Entry] /\ n \in 0..(M * E) /\ Filled(c, n, S)
  BY <1>1, <1>2, CellType, ImageFacts
<1> DEFINE H == {p \in Cells : c[p].name = name /\ \A q \in 0..p : c[q].ino # 0}
<1>4. Search(dk, b, name) = IF H = {} THEN 0 ELSE c[Least(H)].ino
  BY <1>1 DEF Search
<1>5. ASSUME NEW p \in Cells
      PROVE  p \in H <=> (p < n /\ c[p].name = name)
  <2>1. p \in Nat /\ M * E \in Nat /\ n \in Nat /\ p \in 0..p
    BY <1>3, ConstantFacts
  <2>2. \A q \in 0..p : q \in Cells /\ q <= p
    BY <2>1 DEF Cells
  <2>3. p < n => \A q \in 0..p : q < n
    BY <2>1, <2>2
  <2> QED BY <1>3, <2>1, <2>2, <2>3 DEF Filled
<1>6. H \in SUBSET Nat /\ H \subseteq Cells
  BY ConstantFacts
<1> HIDE DEF H
<1>7. ASSUME NEW s \in S, s.name = name PROVE Search(dk, b, name) = s.ino
  <2>1. PICK p \in Cells : p < n /\ c[p] = s
    BY <1>3, FilledFacts
  <2>2. p \in H
    BY <1>5, <1>7, <2>1
  <2>3. \A q \in H : q = p
    BY <1>3, <1>5, <1>6, <1>7, <2>1 DEF Filled
  <2>4. Least(H) = p
    BY <1>6, <2>2, <2>3, LeastIsMember
  <2> QED BY <1>4, <2>1, <2>2, <2>4
<1>8. ASSUME \A s \in S : s.name # name PROVE Search(dk, b, name) = 0
  <2>1. H = {}
    BY <1>3, <1>5, <1>6, <1>8, FilledFacts
  <2> QED BY <1>4, <2>1
<1> QED BY <1>7, <1>8

(* The first cell with the inode of an entry s holds s itself, when what it *)
(* holds has the name of s.                                                *)
LEMMA FirstIsIt ==
  ASSUME NEW dk \in DiskImage, NEW b \in DataBlocks, NEW S, DirSound(dk, b, S), NEW s \in S,
         LET hits == {p \in Cells : Cell(dk, b)[p].ino = s.ino}
         IN  ~(hits # {} /\ Cell(dk, b)[Least(hits)].name # s.name)
  PROVE  \E m \in Cells : FirstOf(Cell(dk, b), s.ino, m) /\ Cell(dk, b)[m] = s
<1>1. PICK c : c = Cell(dk, b)
  OBVIOUS
<1>2. PICK n : n = dk.table[b].nr_of_entries
  OBVIOUS
<1>3. c \in [Cells -> Entry] /\ n \in 0..(M * E) /\ Filled(c, n, S)
  BY <1>1, <1>2, CellType, ImageFacts DEF DirSound
<1>4. PICK p \in Cells : p < n /\ c[p] = s /\ s.ino # 0
  BY <1>3, FilledFacts
<1>5. PICK m \in Cells : FirstOf(c, s.ino, m) /\ m <= p /\ m = Least({x \in Cells : c[x].ino = s.ino})
  BY <1>3, <1>4, FirstExists
<1>6. c[m].name = s.name
  BY <1>1, <1>4, <1>5
<1>7. m < n
  BY <1>3, <1>4, <1>5, ConstantFacts
<1>8. m = p
  BY <1>3, <1>4, <1>6, <1>7 DEF Filled
<1> QED BY <1>1, <1>4, <1>5, <1>8

----
(* The inductive invariant.                                                *)

Dirs == {d \in Inodes : inode[d].mode = "dir"}

\* The entries that directory d should hold.
Named(d) == {[ino |-> f.ino, name |-> f.name] : f \in {g \in files : g.dir = d}}

\* An inode is marked while it has a mode, and then it has a block.
NodesSane ==
  /\ imap.bits = {i \in Inodes : inode[i].mode # "none"}
  /\ inode[RootIno].mode = "dir"
  /\ \A i \in Inodes : IF inode[i].mode = "none" THEN inode[i] = NoInode ELSE inode[i].bno # 0

(* A name is in a directory, is there once, and is that of an inode; and    *)
(* the directories other than the root have one name each.                 *)
FilesSane ==
  /\ IsFiniteSet(files)
  /\ \A f \in files : f.ino # RootIno /\ inode[f.ino].mode # "none" /\ inode[f.dir].mode = "dir"
  /\ \A f, g \in files : f.dir = g.dir /\ f.name = g.name => f = g
  /\ \A f, g \in files : f.ino = g.ino /\ inode[f.ino].mode = "dir" => f = g
  /\ \A d \in Dirs : d = RootIno \/ \E f \in files : f.ino = d

\* What mkfs marked too much, and what rmdir forgot.
Lost == dropped \cup (Meta + 1)..(Meta + Excess)

\* What is lost belongs to nobody.
LostApart == \A i \in Inodes : BlocksOf(i) \cap Lost = {}

\* Every directory holds its names.
DirsSound == \A d \in Dirs : DirSound(disk, inode[d].bno, Named(d))

NamesOf(i) == {f \in files : f.ino = i}
SubdirsOf(i) == {f \in files : f.dir = i /\ inode[f.ino].mode = "dir"}

LinksSound ==
  \A i \in Inodes : inode[i].nlink =
    IF inode[i].mode = "none" THEN 0
    ELSE IF inode[i].mode = "reg" THEN Cardinality(NamesOf(i))
    ELSE 2 + gone[i] + Cardinality(SubdirsOf(i))

\* The free blocks are counted with an error of k.
BlocksCounted(bm, k) ==
  bm.nfree = U32(Cardinality((0..(NBlocks - 1)) \ bm.bits) + k)

\* The free inodes are counted with an error of up to k.
InodesCounted(im, k) ==
  LET clear == Cardinality(Inodes \ im.bits)
  IN  NInodes + k < Word => im.nfree \in clear..(clear + k)

CountersSound == BlocksCounted(bmap, Excess + 1 + doubled - failed) /\ InodesCounted(imap, doubled)

Whole ==
  /\ TypeOK /\ MetaMarked(bmap) /\ NodesSane /\ FilesSane /\ DirsSound
  /\ BlocksAccounted /\ LostApart /\ FreeBlocksAreClear
  /\ LinksSound /\ CountersSound

FInv == harm = {} => Whole

----
(* What the invariant says of one inode.                                   *)

LEMMA WholeTypes ==
  ASSUME Whole
  PROVE  /\ imap \in InodeMap /\ bmap \in BlockMap /\ disk \in DiskImage
         /\ inode \in [Inodes -> InodeRec] /\ files \in SUBSET File /\ gone \in [Inodes -> Nat]
         /\ failed \in Nat /\ doubled \in Nat /\ MetaMarked(bmap)
BY DEF Whole, TypeOK, InodeMap, BlockMap

LEMMA BlocksOfInode ==
  ASSUME NEW i \in Inodes
  PROVE  BlocksOf(i) = IF inode[i].mode = "none" THEN {}
                       ELSE {inode[i].bno} \cup BlocksIn(disk, inode[i].bno)
BY DEF BlocksOf, BlocksIn, Slots

LEMMA InodeFacts ==
  ASSUME Whole, harm = {}, NEW i \in Inodes, inode[i].mode # "none"
  PROVE  /\ inode[i].bno \in DataBlocks /\ inode[i].bno \in bmap.bits
         /\ BlocksIn(disk, inode[i].bno) \subseteq DataBlocks \cap bmap.bits
         /\ BlocksOf(i) = {inode[i].bno} \cup BlocksIn(disk, inode[i].bno)
         /\ \A j \in Inodes \ {i} : BlocksOf(i) \cap BlocksOf(j) = {}
<1>1. inode[i] \in InodeRec /\ inode[i].bno # 0
  BY WholeTypes DEF Whole, NodesSane
<1>2. inode[i].bno \in DataBlocks
  BY <1>1 DEF InodeRec
<1>3. BlocksOf(i) = {inode[i].bno} \cup BlocksIn(disk, inode[i].bno)
  BY BlocksOfInode
<1>4. bmap.bits \cap DataBlocks = (UNION {BlocksOf(j) : j \in Inodes}) \cup dropped \cup (Meta + 1)..(Meta + Excess)
      /\ \A j, k \in Inodes : j # k => BlocksOf(j) \cap BlocksOf(k) = {}
  BY DEF Whole, BlocksAccounted
<1>5. BlocksOf(i) \subseteq bmap.bits \cap DataBlocks
  BY <1>4
<1> QED BY <1>2, <1>3, <1>4, <1>5

LEMMA DirFacts ==
  ASSUME Whole, harm = {}, NEW d \in Dirs
  PROVE  /\ d \in Inodes /\ inode[d].mode # "none" /\ inode[d].mode = "dir"
         /\ DirSound(disk, inode[d].bno, Named(d))
BY DEF Whole, DirsSound, Dirs

LEMMA FileFacts ==
  ASSUME Whole, NEW f \in files
  PROVE  /\ f \in File /\ f.dir \in Dirs /\ f.ino \in Inodes \ {0} /\ f.name \in Names
         /\ inode[f.ino].mode # "none" /\ inode[f.ino].mode \in {"reg", "dir"}
         /\ f = [dir |-> f.dir, name |-> f.name, ino |-> f.ino]
         /\ [ino |-> f.ino, name |-> f.name] \in Named(f.dir)
         /\ \A g \in files : g.dir = f.dir /\ g.name = f.name => g = f
         /\ inode[f.ino].mode = "dir" => f.ino \in Dirs /\ \A g \in files : g.ino = f.ino => g = f
<1>1. f \in File
  BY WholeTypes
<1>2. f.dir \in Inodes /\ f.ino \in Inodes /\ f.name \in Names
      /\ f = [dir |-> f.dir, name |-> f.name, ino |-> f.ino]
  BY <1>1 DEF File
<1>3. f.ino # 0 /\ inode[f.ino].mode # "none" /\ inode[f.dir].mode = "dir"
  BY DEF Whole, FilesSane, RootIno
<1>4. inode[f.ino] \in InodeRec
  BY <1>2, WholeTypes
<1>5. inode[f.ino].mode \in {"reg", "dir"}
  BY <1>3, <1>4 DEF InodeRec
<1>6. \A g \in files : g.dir = f.dir /\ g.name = f.name => g = f
  BY DEF Whole, FilesSane
<1>7. inode[f.ino].mode = "dir" => \A g \in files : g.ino = f.ino => g = f
  BY DEF Whole, FilesSane
<1> QED BY <1>1, <1>2, <1>3, <1>5, <1>6, <1>7 DEF Dirs, Named

LEMMA ReachableDirs ==
  ASSUME Whole, NEW d \in Inodes
  PROVE  Reachable(d) <=> d \in Dirs
BY DEF Whole, FilesSane, Reachable, Dirs

----
(* What stays when tables and entries change: T are the inodes in whose      *)
(* blocks a call has written, and new the blocks it has given to them.     *)

OthersStay(dk2, T, new) ==
  /\ \A i \in Inodes \ T : inode[i].mode # "none" =>
       /\ dk2.table[inode[i].bno] = disk.table[inode[i].bno]
       /\ BlocksIn(dk2, inode[i].bno) = BlocksIn(disk, inode[i].bno)
  /\ \A d \in Dirs \ T : /\ DirSound(dk2, inode[d].bno, Named(d))
                          /\ Cell(dk2, inode[d].bno) = Cell(disk, inode[d].bno)
  /\ \A c \in DataBlocks \ bmap.bits : /\ dk2.table[c] = NoTable
                                       /\ c \notin new => dk2.entries[c] = NoEntries

LEMMA OthersKept ==
  ASSUME Whole, harm = {}, NEW dk2 \in DiskImage,
         NEW T \in SUBSET {i \in Inodes : inode[i].mode # "none"},
         NEW new \in SUBSET (DataBlocks \ bmap.bits),
         \A c \in DataBlocks : (\A x \in T : c # inode[x].bno) => dk2.table[c] = disk.table[c],
         \A c \in DataBlocks : c \notin new /\ (\A x \in T : c \notin BlocksIn(disk, inode[x].bno))
            => dk2.entries[c] = disk.entries[c]
  PROVE  OthersStay(dk2, T, new)
<1>1. ASSUME NEW i \in Inodes \ T, inode[i].mode # "none"
      PROVE  /\ dk2.table[inode[i].bno] = disk.table[inode[i].bno]
             /\ BlocksIn(dk2, inode[i].bno) = BlocksIn(disk, inode[i].bno)
             /\ \A c \in BlocksIn(disk, inode[i].bno) : dk2.entries[c] = disk.entries[c]
  <2>1. /\ inode[i].bno \in DataBlocks
        /\ BlocksOf(i) = {inode[i].bno} \cup BlocksIn(disk, inode[i].bno)
        /\ BlocksIn(disk, inode[i].bno) \subseteq DataBlocks \cap bmap.bits
        /\ \A j \in Inodes \ {i} : BlocksOf(i) \cap BlocksOf(j) = {}
    BY <1>1, InodeFacts
  <2>2. ASSUME NEW x \in T
        PROVE  BlocksOf(x) = {inode[x].bno} \cup BlocksIn(disk, inode[x].bno) /\ x \in Inodes \ {i}
    BY <1>1, InodeFacts
  <2>3. \A x \in T : inode[i].bno # inode[x].bno
    BY <2>1, <2>2
  <2>4. dk2.table[inode[i].bno] = disk.table[inode[i].bno]
    BY <2>1, <2>3
  <2>5. ASSUME NEW c \in BlocksIn(disk, inode[i].bno) PROVE dk2.entries[c] = disk.entries[c]
    <3>1. \A x \in T : c \notin BlocksIn(disk, inode[x].bno)
      BY <2>1, <2>2
    <3> QED BY <2>1, <3>1
  <2> QED BY <2>4, <2>5 DEF BlocksIn
<1>2. ASSUME NEW d \in Dirs \ T
      PROVE  DirSound(dk2, inode[d].bno, Named(d)) /\ Cell(dk2, inode[d].bno) = Cell(disk, inode[d].bno)
  <2>1. /\ d \in Inodes \ T /\ inode[d].mode # "none" /\ inode[d].bno \in DataBlocks
        /\ DirSound(disk, inode[d].bno, Named(d))
    BY DirFacts, InodeFacts
  <2>2. /\ dk2.table[inode[d].bno] = disk.table[inode[d].bno]
        /\ \A c \in BlocksIn(disk, inode[d].bno) : dk2.entries[c] = disk.entries[c]
    BY <1>1, <2>1
  <2>3. disk \in DiskImage
    BY WholeTypes
  <2>4. Cell(dk2, inode[d].bno) = Cell(disk, inode[d].bno)
    <3>1. DirTable(disk, inode[d].bno) /\ dk2.table[inode[d].bno].blocks = disk.table[inode[d].bno].blocks
      BY <2>1, <2>2 DEF DirSound
    <3> QED BY <2>1, <2>2, <2>3, <3>1, CellKept
  <2> QED BY <2>1, <2>2, <2>3, <2>4, DirKept
<1>3. ASSUME NEW c \in DataBlocks \ bmap.bits
      PROVE  dk2.table[c] = NoTable /\ (c \notin new => dk2.entries[c] = NoEntries)
  <2>1. disk.table[c] = NoTable /\ disk.entries[c] = NoEntries
    BY DEF Whole, FreeBlocksAreClear
  <2>2. \A x \in T : inode[x].bno \in bmap.bits /\ BlocksIn(disk, inode[x].bno) \subseteq bmap.bits
    BY InodeFacts
  <2>3. \A x \in T : c # inode[x].bno /\ c \notin BlocksIn(disk, inode[x].bno)
    BY <2>2
  <2> QED BY <2>1, <2>3
<1> QED BY <1>1, <1>2, <1>3 DEF OthersStay

\* Nobody's block is taken, and what is taken is not clear any more.
LEMMA BlocksTaken ==
  ASSUME Whole, harm = {}, NEW G \in [Inodes -> SUBSET (DataBlocks \ bmap.bits)],
         \A i \in Inodes : BlocksOf(i)' = BlocksOf(i) \cup G[i],
         \A i, j \in Inodes : i # j => G[i] \cap G[j] = {},
         bmap'.bits = bmap.bits \cup (UNION {G[i] : i \in Inodes}), dropped' = dropped,
         \A c \in DataBlocks \ bmap'.bits : disk'.table[c] = NoTable /\ disk'.entries[c] = NoEntries
  PROVE  BlocksAccounted' /\ LostApart' /\ FreeBlocksAreClear'
<1>1. /\ \A i, j \in Inodes : i # j => BlocksOf(i) \cap BlocksOf(j) = {}
      /\ bmap.bits \cap DataBlocks = (UNION {BlocksOf(i) : i \in Inodes}) \cup Lost
      /\ \A i \in Inodes : BlocksOf(i) \cap Lost = {}
  BY DEF Whole, BlocksAccounted, LostApart, Lost
<1>2. \A i \in Inodes : G[i] \subseteq DataBlocks /\ G[i] \cap bmap.bits = {}
  OBVIOUS
<1>3. \A i \in Inodes : BlocksOf(i) \subseteq bmap.bits /\ BlocksOf(i) \subseteq DataBlocks
  BY <1>1
<1>4. Lost \subseteq bmap.bits /\ Lost' = Lost
  <2>1. Lost \subseteq bmap.bits
    <3>1. PICK U : U = UNION {BlocksOf(i) : i \in Inodes}
      OBVIOUS
    <3>2. bmap.bits \cap DataBlocks = U \cup Lost
      BY <1>1, <3>1
    <3> QED BY <3>2
  <2>2. Lost' = Lost
    BY DEF Lost
  <2> QED BY <2>1, <2>2
<1>5. \A i, j \in Inodes : i # j => BlocksOf(i)' \cap BlocksOf(j)' = {}
  <2> SUFFICES ASSUME NEW i \in Inodes, NEW j \in Inodes, i # j
               PROVE  BlocksOf(i)' \cap BlocksOf(j)' = {}
    OBVIOUS
  <2>1. BlocksOf(i)' = BlocksOf(i) \cup G[i] /\ BlocksOf(j)' = BlocksOf(j) \cup G[j]
    OBVIOUS
  <2>2. BlocksOf(i) \cap BlocksOf(j) = {} /\ G[i] \cap G[j] = {}
    BY <1>1
  <2> QED BY <1>2, <1>3, <2>1, <2>2
<1>6. bmap'.bits \cap DataBlocks = (UNION {BlocksOf(i)' : i \in Inodes}) \cup Lost
  <2>1. \A x : x \in UNION {BlocksOf(i)' : i \in Inodes} <=> \E i \in Inodes : x \in BlocksOf(i) \cup G[i]
    OBVIOUS
  <2>2. \A x : x \in bmap'.bits \cap DataBlocks <=> x \in bmap.bits \cap DataBlocks \/ \E i \in Inodes : x \in G[i]
    BY <1>2
  <2> QED BY <1>1, <2>1, <2>2
<1>7. \A i \in Inodes : BlocksOf(i)' \cap Lost = {}
  BY <1>1, <1>2, <1>4
<1>8. BlocksAccounted'
  BY <1>4, <1>5, <1>6 DEF BlocksAccounted, Lost
<1>9. LostApart'
  BY <1>4, <1>7 DEF LostApart
<1> QED BY <1>8, <1>9 DEF FreeBlocksAreClear

----
(* The counters.                                                           *)

LEMMA BlocksCountedStep ==
  ASSUME NEW bm \in BlockMap, NEW bm2 \in BlockMap, NEW k \in Int, BlocksCounted(bm, k)
  PROVE  /\ bm2.bits = bm.bits /\ bm2.nfree = U32(bm.nfree - 1) => BlocksCounted(bm2, k - 1)
         /\ bm2.bits = bm.bits /\ bm2.nfree = U32(bm.nfree + 1) => BlocksCounted(bm2, k + 1)
         /\ (\E b \in DataBlocks \ bm.bits : bm2.bits = bm.bits \cup {b})
               /\ bm2.nfree = U32(bm.nfree - 1) => BlocksCounted(bm2, k)
         /\ (\E b \in DataBlocks \cap bm.bits : bm2.bits = bm.bits \ {b})
               /\ bm2.nfree = U32(bm.nfree + 1) => BlocksCounted(bm2, k)
<1>1. PICK c : c = Cardinality((0..(NBlocks - 1)) \ bm.bits)
  OBVIOUS
<1>2. c \in Int /\ NBlocks \in Nat
  <2>1. NBlocks \in Nat
    BY ConstantFacts
  <2>2. Cardinality((0..(NBlocks - 1)) \ bm.bits) \in 0..NBlocks
    BY <2>1, ClearBits
  <2> QED BY <1>1, <2>1, <2>2
<1>3. bm.nfree = U32(c + k)
  BY <1>1 DEF BlocksCounted
<1>4. U32(bm.nfree - 1) = U32((c + k) - 1) /\ U32(bm.nfree + 1) = U32((c + k) + 1)
  <2>1. c + k \in Int
    BY <1>2
  <2> QED BY <1>3, <2>1, U32Steps, Zenon
<1>5. DataBlocks \subseteq 0..(NBlocks - 1)
  BY ConstantFacts
<1>6. /\ c + (k - 1) = (c + k) - 1 /\ c + (k + 1) = (c + k) + 1
      /\ (c - 1) + k = (c + k) - 1 /\ (c + 1) + k = (c + k) + 1
  BY <1>2
<1>7. ASSUME bm2.bits = bm.bits, bm2.nfree = U32(bm.nfree - 1) PROVE BlocksCounted(bm2, k - 1)
  BY <1>1, <1>4, <1>6, <1>7 DEF BlocksCounted
<1>8. ASSUME bm2.bits = bm.bits, bm2.nfree = U32(bm.nfree + 1) PROVE BlocksCounted(bm2, k + 1)
  BY <1>1, <1>4, <1>6, <1>8 DEF BlocksCounted
<1>9. ASSUME NEW b \in DataBlocks \ bm.bits, bm2.bits = bm.bits \cup {b}, bm2.nfree = U32(bm.nfree - 1)
      PROVE  BlocksCounted(bm2, k)
  <2>1. Cardinality((0..(NBlocks - 1)) \ bm2.bits) = c - 1
    BY <1>1, <1>2, <1>5, <1>9, SetBitCounted
  <2> QED BY <1>4, <1>6, <1>9, <2>1 DEF BlocksCounted
<1>10. ASSUME NEW b \in DataBlocks \cap bm.bits, bm2.bits = bm.bits \ {b}, bm2.nfree = U32(bm.nfree + 1)
       PROVE  BlocksCounted(bm2, k)
  <2>1. Cardinality((0..(NBlocks - 1)) \ bm2.bits) = c + 1
    BY <1>1, <1>2, <1>5, <1>10, ClearBitCounted
  <2> QED BY <1>4, <1>6, <1>10, <2>1 DEF BlocksCounted
<1> QED BY <1>7, <1>8, <1>9, <1>10

LEMMA InodesCountedStep ==
  ASSUME NEW im \in InodeMap, NEW im2 \in InodeMap, NEW k \in Nat, InodesCounted(im, k)
  PROVE  /\ im2.bits = im.bits /\ im2.nfree = U32(im.nfree + 1) => InodesCounted(im2, k + 1)
         /\ im2.bits = im.bits /\ im2.nfree = U32(im.nfree - 1) /\ Inodes \subseteq im.bits
               /\ im.nfree # 0 => InodesCounted(im2, k)
         /\ (\E i \in Inodes \ im.bits : im2.bits = im.bits \cup {i})
               /\ im2.nfree = U32(im.nfree - 1) => InodesCounted(im2, k)
         /\ (\E i \in Inodes \cap im.bits : im2.bits = im.bits \ {i})
               /\ im2.nfree = U32(im.nfree + 1) => InodesCounted(im2, k)
<1>1. PICK c : c = Cardinality(Inodes \ im.bits)
  OBVIOUS
<1>2. PICK n : n = im.nfree
  OBVIOUS
<1>3. c \in 0..NInodes /\ NInodes \in Nat \ {0} /\ Word \in Nat \ {0} /\ n \in 0..(Word - 1)
  BY <1>1, <1>2, ClearBits, ConstantFacts DEF Inodes, InodeMap
<1>4. NInodes + k < Word => n \in c..(c + k)
  BY <1>1, <1>2 DEF InodesCounted
<1>5. n # 0 => U32(n - 1) = n - 1
  <2>1. n # 0 => n - 1 \in 0..(Word - 1)
    BY <1>3
  <2> QED BY <2>1, U32Id
<1>6. n < Word - 1 => U32(n + 1) = n + 1
  <2>1. n < Word - 1 => n + 1 \in 0..(Word - 1)
    BY <1>3
  <2> QED BY <2>1, U32Id
<1>7. ASSUME im2.bits = im.bits, im2.nfree = U32(im.nfree + 1) PROVE InodesCounted(im2, k + 1)
  <2> SUFFICES ASSUME NInodes + (k + 1) < Word PROVE im2.nfree \in c..(c + (k + 1))
    BY <1>1, <1>7 DEF InodesCounted
  <2>1. n \in c..(c + k) /\ n < Word - 1
    BY <1>3, <1>4
  <2> QED BY <1>2, <1>3, <1>6, <1>7, <2>1
<1>8. ASSUME im2.bits = im.bits, im2.nfree = U32(im.nfree - 1), Inodes \subseteq im.bits, im.nfree # 0
      PROVE  InodesCounted(im2, k)
  <2> SUFFICES ASSUME NInodes + k < Word PROVE im2.nfree \in c..(c + k)
    BY <1>1, <1>8 DEF InodesCounted
  <2>1. c = 0
    <3>1. Inodes \ im.bits = {}
      BY <1>8
    <3> QED BY <1>1, <3>1, FS_EmptySet
  <2>2. n \in c..(c + k) /\ n # 0
    BY <1>2, <1>4, <1>8
  <2> QED BY <1>2, <1>3, <1>5, <1>8, <2>1, <2>2
<1>9. ASSUME NEW i \in Inodes \ im.bits, im2.bits = im.bits \cup {i}, im2.nfree = U32(im.nfree - 1)
      PROVE  InodesCounted(im2, k)
  <2>1. Cardinality(Inodes \ im2.bits) = c - 1
    BY <1>1, <1>3, <1>9, SetBitCounted DEF Inodes
  <2>2. c - 1 \in Nat
    <3>1. NInodes \in Nat
      BY <1>3
    <3>2. Cardinality((0..(NInodes - 1)) \ im2.bits) \in 0..NInodes
      BY <3>1, ClearBits
    <3> QED BY <1>3, <2>1, <3>2 DEF Inodes
  <2> SUFFICES ASSUME NInodes + k < Word PROVE im2.nfree \in (c - 1)..((c - 1) + k)
    BY <2>1 DEF InodesCounted
  <2>3. n \in c..(c + k) /\ n # 0
    BY <1>3, <1>4, <2>2
  <2> QED BY <1>2, <1>3, <1>5, <1>9, <2>3
<1>10. ASSUME NEW i \in Inodes \cap im.bits, im2.bits = im.bits \ {i}, im2.nfree = U32(im.nfree + 1)
       PROVE  InodesCounted(im2, k)
  <2>1. Cardinality(Inodes \ im2.bits) = c + 1
    BY <1>1, <1>3, <1>10, ClearBitCounted DEF Inodes
  <2>2. c + 1 <= NInodes
    <3>1. NInodes \in Nat
      BY <1>3
    <3>2. Cardinality((0..(NInodes - 1)) \ im2.bits) \in 0..NInodes
      BY <3>1, ClearBits
    <3> QED BY <1>3, <2>1, <3>2 DEF Inodes
  <2> SUFFICES ASSUME NInodes + k < Word PROVE im2.nfree \in (c + 1)..((c + 1) + k)
    BY <2>1 DEF InodesCounted
  <2>3. n \in c..(c + k) /\ n < Word - 1
    BY <1>3, <1>4, <2>2
  <2> QED BY <1>2, <1>3, <1>6, <1>10, <2>3
<1> QED BY <1>7, <1>8, <1>9, <1>10

----
(* The calls.                                                              *)

\* A call that changes no file and no map of which bits are set.
LEMMA OnlyCountersStep ==
  ASSUME Whole, harm = {}, UNCHANGED <<inode, disk, files, gone, dropped, harm>>,
         imap' \in InodeMap, bmap' \in BlockMap, imap'.bits = imap.bits, bmap'.bits = bmap.bits,
         failed' \in Nat, doubled' \in Nat,
         BlocksCounted(bmap', Excess + 1 + doubled' - failed'), InodesCounted(imap', doubled')
  PROVE  Whole'
<1>1. TypeOK' /\ MetaMarked(bmap')
  BY DEF Whole, TypeOK, InodeMap, BlockMap, MetaMarked
<1>2. NodesSane' /\ FilesSane'
  BY DEF Whole, NodesSane, FilesSane, Dirs
<1>3. DirsSound'
  <2>1. \A d \in Dirs : Named(d)' = Named(d)
    BY DEF Named
  <2> QED BY <2>1 DEF Whole, DirsSound, Dirs
<1>4. \A i \in Inodes : BlocksOf(i)' = BlocksOf(i)
  BY DEF BlocksOf
<1>5. BlocksAccounted' /\ LostApart' /\ FreeBlocksAreClear'
  <2>1. BlocksAccounted'
    BY <1>4 DEF Whole, BlocksAccounted
  <2>2. LostApart'
    BY <1>4 DEF Whole, LostApart, Lost
  <2>3. FreeBlocksAreClear'
    BY DEF Whole, FreeBlocksAreClear
  <2> QED BY <2>1, <2>2, <2>3
<1>6. LinksSound'
  BY DEF Whole, LinksSound, NamesOf, SubdirsOf
<1>7. CountersSound'
  BY DEF CountersSound, BlocksCounted, InodesCounted
<1> QED BY <1>1, <1>2, <1>3, <1>5, <1>6, <1>7 DEF Whole

LEMMA CreateWithoutInodeStep ==
  ASSUME Whole, harm = {}, NEW d \in Inodes, NEW name \in Names, CreateWithoutInode(d, name)
  PROVE  Whole'
<1>1. PICK g : g = TakeInode(imap)
  OBVIOUS
<1>2. imap \in InodeMap /\ bmap \in BlockMap /\ failed \in Nat /\ doubled \in Nat
  BY WholeTypes
<1>3. /\ g.ino = NONE /\ imap' = g.im /\ imap.nfree # 0
      /\ UNCHANGED <<bmap, inode, disk, files, gone, dropped, failed, doubled, harm>>
  BY <1>1 DEF CreateWithoutInode, MayCreate
<1>4. /\ g.im \in InodeMap /\ g.im.nfree = U32(imap.nfree - 1)
      /\ g.im.bits = imap.bits /\ 1..(NInodes - 1) \subseteq imap.bits
  BY <1>1, <1>2, <1>3, TakeInodeSound
<1>5. Inodes \subseteq imap.bits
  <2>1. 0 \in imap.bits
    BY ConstantFacts DEF Whole, NodesSane, RootIno
  <2> QED BY <1>4, <2>1 DEF Inodes
<1>6. BlocksCounted(bmap, Excess + 1 + doubled - failed) /\ InodesCounted(imap, doubled)
  BY DEF Whole, CountersSound
<1>7. InodesCounted(imap', doubled)
  BY <1>2, <1>3, <1>4, <1>5, <1>6, InodesCountedStep
<1> QED BY <1>2, <1>3, <1>4, <1>6, <1>7, OnlyCountersStep

LEMMA CreateWithoutBlockStep ==
  ASSUME Whole, harm = {}, NEW d \in Inodes, NEW name \in Names, CreateWithoutBlock(d, name)
  PROVE  Whole'
<1>1. PICK gi : gi = TakeInode(imap)
  OBVIOUS
<1>2. PICK gb : gb = TakeBlock(bmap)
  OBVIOUS
<1>3. imap \in InodeMap /\ bmap \in BlockMap /\ failed \in Nat /\ doubled \in Nat /\ MetaMarked(bmap)
  BY WholeTypes
<1>4. /\ gi.ino # NONE /\ gb.bno = NONE
      /\ imap' = PutBackInode(gi.im, gi.ino) /\ bmap' = gb.bm /\ failed' = failed + 1
      /\ UNCHANGED <<inode, disk, files, gone, dropped, doubled, harm>>
  BY <1>1, <1>2 DEF CreateWithoutBlock
<1>5. /\ gi.im \in InodeMap /\ gi.im.nfree = U32(imap.nfree - 1)
      /\ gi.ino \in Inodes \ (imap.bits \cup {0}) /\ gi.im.bits = imap.bits \cup {gi.ino}
  BY <1>1, <1>3, <1>4, TakeInodeSound
<1>6. /\ gb.bm \in BlockMap /\ gb.bm.nfree = U32(bmap.nfree - 1) /\ gb.bm.bits = bmap.bits
  BY <1>2, <1>3, <1>4, TakeBlockSound
<1>7. /\ imap' = [bits |-> gi.im.bits \ {gi.ino}, nfree |-> U32(gi.im.nfree + 1)]
      /\ imap' \in InodeMap
  BY <1>4, <1>5, PutBackInodeSound
<1>8. imap'.bits = imap.bits /\ imap'.nfree = U32(gi.im.nfree + 1)
  BY <1>5, <1>7
<1>9. BlocksCounted(bmap, Excess + 1 + doubled - failed) /\ InodesCounted(imap, doubled)
  BY DEF Whole, CountersSound
<1>10. InodesCounted(gi.im, doubled)
  BY <1>3, <1>5, <1>9, InodesCountedStep
<1>11. InodesCounted(imap', doubled)
  <2>1. gi.ino \in Inodes \cap gi.im.bits /\ imap'.bits = gi.im.bits \ {gi.ino}
    BY <1>5, <1>7
  <2> QED BY <1>3, <1>5, <1>7, <1>8, <1>10, <2>1, InodesCountedStep
<1>12. BlocksCounted(bmap', Excess + 1 + doubled - (failed + 1))
  <2>1. Excess + 1 + doubled - failed \in Int
        /\ (Excess + 1 + doubled - failed) - 1 = Excess + 1 + doubled - (failed + 1)
    BY <1>3, ConstantFacts
  <2>2. BlocksCounted(gb.bm, (Excess + 1 + doubled - failed) - 1)
    BY <1>3, <1>6, <1>9, <2>1, BlocksCountedStep
  <2> QED BY <1>4, <2>1, <2>2
<1> QED BY <1>3, <1>4, <1>6, <1>7, <1>8, <1>11, <1>12, OnlyCountersStep

\* What add_entry does in a directory that is not full.
LEMMA AddToDir ==
  ASSUME Whole, harm = {}, NEW d \in Inodes, NEW name \in Names, MayAdd(d, name), ~FullDir(d),
         NEW i \in Inodes \ {0}, NEW bm \in BlockMap, MetaMarked(bm), bmap.bits \subseteq bm.bits,
         NEW a, a = AddEntry(disk, bm, inode[d].bno, name, i)
  PROVE  /\ d \in Dirs /\ a.bm \in BlockMap /\ MetaMarked(a.bm)
         /\ ~a.ok => a.dk = disk /\ a.bm = [bits |-> bm.bits, nfree |-> U32(bm.nfree - 1)]
         /\ a.ok => EntryAdded(disk, bm, inode[d].bno, Named(d), [ino |-> i, name |-> name], a)
<1>1. d \in Dirs
  BY ReachableDirs DEF MayAdd
<1>2. PICK b \in DataBlocks : b = inode[d].bno
  BY <1>1, DirFacts, InodeFacts
<1>3. DirSound(disk, b, Named(d)) /\ b \in bm.bits /\ BlocksIn(disk, b) \subseteq bm.bits
  BY <1>1, <1>2, DirFacts, InodeFacts
<1>4. disk \in DiskImage
  BY WholeTypes
<1>5. disk.table[b].nr_of_entries < M * E
  BY <1>2, <1>4, ImageFacts, ConstantFacts DEF FullDir, NrOfEntries
<1>6. \A c \in DataBlocks \ bm.bits : disk.entries[c] = NoEntries
  BY DEF Whole, FreeBlocksAreClear
<1>7. \A s \in Named(d) : s.name # name
  BY DEF Named, MayAdd
<1>8. a = AddEntry(disk, bm, b, name, i)
  BY <1>2
<1>9. /\ a.bm \in BlockMap /\ MetaMarked(a.bm)
      /\ ~a.ok => a.dk = disk /\ a.bm = [bits |-> bm.bits, nfree |-> U32(bm.nfree - 1)]
      /\ a.ok => EntryAdded(disk, bm, b, Named(d), [ino |-> i, name |-> name], a)
  BY <1>3, <1>4, <1>5, <1>6, <1>7, <1>8, AddEntrySound
<1> QED BY <1>1, <1>2, <1>9

(* What it leaves alone: every other directory, and every block that stays   *)
(* free; new are the blocks it takes.                                      *)
LeftAlone(d, bm, a, new) ==
  /\ BlocksIn(a.dk, inode[d].bno) = BlocksIn(disk, inode[d].bno) \cup new
  /\ a.bm.bits = bm.bits \cup new
  /\ \/ new = {} /\ a.bm.nfree = bm.nfree
     \/ (\E x : new = {x}) /\ a.bm.nfree = U32(bm.nfree - 1)
  /\ \A c \in DataBlocks \ (BlocksIn(disk, inode[d].bno) \cup new) :
       a.dk.entries[c] = disk.entries[c]
  /\ \A i \in Inodes \ {d} : inode[i].mode # "none" =>
       /\ a.dk.table[inode[i].bno] = disk.table[inode[i].bno]
       /\ BlocksIn(a.dk, inode[i].bno) = BlocksIn(disk, inode[i].bno)
  /\ \A x \in Dirs \ {d} : /\ DirSound(a.dk, inode[x].bno, Named(x))
                           /\ Cell(a.dk, inode[x].bno) = Cell(disk, inode[x].bno)
  /\ \A c \in DataBlocks \ bmap.bits :
       /\ a.dk.table[c] = NoTable
       /\ c \notin new => a.dk.entries[c] = NoEntries

LEMMA AddedKept ==
  ASSUME Whole, harm = {}, NEW d \in Dirs, NEW bm \in BlockMap, bmap.bits \subseteq bm.bits,
         NEW e, NEW a, EntryAdded(disk, bm, inode[d].bno, Named(d), e, a)
  PROVE  \E new \in SUBSET (DataBlocks \ bm.bits) : LeftAlone(d, bm, a, new)
<1>1. PICK dk2 : dk2 = a.dk
  OBVIOUS
<1>2. PICK b : b = inode[d].bno
  OBVIOUS
<1>3. PICK new \in SUBSET (DataBlocks \ bm.bits) :
        /\ BlocksIn(dk2, b) = BlocksIn(disk, b) \cup new
        /\ \A c \in DataBlocks \ BlocksIn(dk2, b) : dk2.entries[c] = disk.entries[c]
        /\ a.bm.bits = bm.bits \cup new
        /\ \/ new = {} /\ a.bm.nfree = bm.nfree
           \/ (\E x : new = {x}) /\ a.bm.nfree = U32(bm.nfree - 1)
  BY <1>1, <1>2 DEF EntryAdded
<1>4. dk2 \in DiskImage /\ \A c \in DataBlocks \ {b} : dk2.table[c] = disk.table[c]
  BY <1>1, <1>2 DEF EntryAdded
<1>5. PICK T \in SUBSET {i \in Inodes : inode[i].mode # "none"} : T = {d}
  BY DirFacts
<1>6. \A c \in DataBlocks : (\A x \in T : c # inode[x].bno) => dk2.table[c] = disk.table[c]
  BY <1>2, <1>4, <1>5
<1>7. \A c \in DataBlocks : c \notin new /\ (\A x \in T : c \notin BlocksIn(disk, inode[x].bno))
         => dk2.entries[c] = disk.entries[c]
  BY <1>2, <1>3, <1>5
<1>8. new \in SUBSET (DataBlocks \ bmap.bits)
  OBVIOUS
<1>9. OthersStay(dk2, T, new)
  BY <1>4, <1>6, <1>7, <1>8, OthersKept
<1>10. \A c \in DataBlocks \ (BlocksIn(disk, b) \cup new) : dk2.entries[c] = disk.entries[c]
  BY <1>3
<1> QED BY <1>1, <1>2, <1>3, <1>5, <1>9, <1>10 DEF LeftAlone, OthersStay

\* Cleaning a block that is clear changes nothing.
LEMMA CleanIsClear ==
  ASSUME NEW dk \in DiskImage, NEW b \in DataBlocks,
         dk.table[b] = NoTable, dk.entries[b] = NoEntries
  PROVE  CleanBlock(dk, b) = dk
<1>1. dk.table \in [DataBlocks -> Table] /\ dk.entries \in [DataBlocks -> [0..(E - 1) -> Entry]]
      /\ dk = [table |-> dk.table, entries |-> dk.entries]
  BY DEF DiskImage
<1>2. [dk.table EXCEPT ![b] = NoTable] = dk.table /\ [dk.entries EXCEPT ![b] = NoEntries] = dk.entries
  BY <1>1
<1>3. CleanBlock(dk, b) = [table |-> [dk.table EXCEPT ![b] = NoTable],
                           entries |-> [dk.entries EXCEPT ![b] = NoEntries]]
  BY <1>1 DEF CleanBlock
<1> QED BY <1>1, <1>2, <1>3

\* What create takes, and what it does with it.
CreateTakes(d, name, mode, gi, gb, a) ==
  /\ gi.im \in InodeMap /\ gi.im.nfree = U32(imap.nfree - 1)
  /\ gi.ino \in Inodes \ (imap.bits \cup {0}) /\ gi.im.bits = imap.bits \cup {gi.ino}
  /\ gb.bm \in BlockMap /\ gb.bm.nfree = U32(bmap.nfree - 1) /\ MetaMarked(gb.bm)
  /\ gb.bno \in DataBlocks \ bmap.bits /\ gb.bm.bits = bmap.bits \cup {gb.bno}
  /\ d \in Dirs /\ a.bm \in BlockMap /\ MetaMarked(a.bm)
  /\ ~a.ok => a.dk = disk /\ a.bm = [bits |-> gb.bm.bits, nfree |-> U32(gb.bm.nfree - 1)]
  /\ a.ok => EntryAdded(disk, gb.bm, inode[d].bno, Named(d), [ino |-> gi.ino, name |-> name], a)
  /\ disk' = a.dk
  /\ IF a.ok
       THEN /\ imap' = gi.im
            /\ bmap' = a.bm
            /\ inode' = [inode EXCEPT ![gi.ino] = NewInode(mode, gb.bno),
                                      ![d].nlink = IF mode = "dir" THEN @ + 1 ELSE @]
            /\ files' = files \cup {[dir |-> d, name |-> name, ino |-> gi.ino]}
            /\ gone' = [gone EXCEPT ![gi.ino] = 0]
            /\ UNCHANGED <<failed, doubled>>
       ELSE /\ imap' = PutBackInode(PutBackInode(gi.im, gi.ino), gi.ino)
            /\ bmap' = PutBackBlock(PutBackBlock(a.bm, gb.bno), gb.bno)
            /\ failed' = failed + 1
            /\ doubled' = doubled + 1
            /\ UNCHANGED <<inode, files, gone>>
  /\ UNCHANGED <<dropped, harm>>
  /\ MayAdd(d, name)

LEMMA CreateParts ==
  ASSUME Whole, harm = {}, NEW d \in Inodes, NEW name \in Names, NEW mode \in {"reg", "dir"},
         Create(d, name, mode), NEW gi, gi = TakeInode(imap), NEW gb, gb = TakeBlock(bmap),
         NEW a, a = AddEntry(disk, gb.bm, inode[d].bno, name, gi.ino)
  PROVE  CreateTakes(d, name, mode, gi, gb, a)
<1>1. imap \in InodeMap /\ bmap \in BlockMap /\ MetaMarked(bmap) /\ disk \in DiskImage
  BY WholeTypes
<1>2. gi.ino # NONE /\ gb.bno # NONE /\ MayAdd(d, name) /\ ~FullDir(d)
  BY DEF Create, MayCreate
<1>3. /\ gi.im \in InodeMap /\ gi.im.nfree = U32(imap.nfree - 1)
      /\ gi.ino \in Inodes \ (imap.bits \cup {0}) /\ gi.im.bits = imap.bits \cup {gi.ino}
  BY <1>1, <1>2, TakeInodeSound
<1>4. /\ gb.bm \in BlockMap /\ gb.bm.nfree = U32(bmap.nfree - 1) /\ MetaMarked(gb.bm)
      /\ gb.bno \in DataBlocks \ bmap.bits /\ gb.bm.bits = bmap.bits \cup {gb.bno}
  BY <1>1, <1>2, TakeBlockSound
<1>5. CleanBlock(disk, gb.bno) = disk
  <2>1. disk.table[gb.bno] = NoTable /\ disk.entries[gb.bno] = NoEntries
    BY <1>4 DEF Whole, FreeBlocksAreClear
  <2> QED BY <1>1, <1>4, <2>1, CleanIsClear
<1>6. /\ d \in Dirs /\ a.bm \in BlockMap /\ MetaMarked(a.bm)
      /\ ~a.ok => a.dk = disk /\ a.bm = [bits |-> gb.bm.bits, nfree |-> U32(gb.bm.nfree - 1)]
      /\ a.ok => EntryAdded(disk, gb.bm, inode[d].bno, Named(d), [ino |-> gi.ino, name |-> name], a)
  <2>1. PICK i \in Inodes \ {0} : i = gi.ino
    BY <1>3
  <2>2. PICK bm \in BlockMap : bm = gb.bm
    BY <1>4
  <2>3. MetaMarked(bm) /\ bmap.bits \subseteq bm.bits
    BY <1>4, <2>2
  <2>4. a = AddEntry(disk, bm, inode[d].bno, name, i)
    BY <2>1, <2>2
  <2>5. /\ d \in Dirs /\ a.bm \in BlockMap /\ MetaMarked(a.bm)
        /\ ~a.ok => a.dk = disk /\ a.bm = [bits |-> bm.bits, nfree |-> U32(bm.nfree - 1)]
        /\ a.ok => EntryAdded(disk, bm, inode[d].bno, Named(d), [ino |-> i, name |-> name], a)
    BY <1>2, <2>3, <2>4, AddToDir
  <2> QED BY <2>1, <2>2, <2>5
<1>7. /\ disk' = a.dk
      /\ IF a.ok
           THEN /\ imap' = gi.im
                /\ bmap' = a.bm
                /\ inode' = [inode EXCEPT ![gi.ino] = NewInode(mode, gb.bno),
                                          ![d].nlink = IF mode = "dir" THEN @ + 1 ELSE @]
                /\ files' = files \cup {[dir |-> d, name |-> name, ino |-> gi.ino]}
                /\ gone' = [gone EXCEPT ![gi.ino] = 0]
                /\ UNCHANGED <<failed, doubled>>
           ELSE /\ imap' = PutBackInode(PutBackInode(gi.im, gi.ino), gi.ino)
                /\ bmap' = PutBackBlock(PutBackBlock(a.bm, gb.bno), gb.bno)
                /\ failed' = failed + 1
                /\ doubled' = doubled + 1
                /\ UNCHANGED <<inode, files, gone>>
      /\ UNCHANGED <<dropped, harm>>
  BY <1>5 DEF Create
<1> QED BY <1>2, <1>3, <1>4, <1>6, <1>7 DEF CreateTakes

\* create that ends with no block for the entry leaves nothing but counters.
LEMMA CreateRefusedStep ==
  ASSUME Whole, harm = {}, NEW d \in Inodes, NEW name \in Names, NEW mode \in {"reg", "dir"},
         Create(d, name, mode), NEW gi, gi = TakeInode(imap), NEW gb, gb = TakeBlock(bmap),
         NEW a, a = AddEntry(disk, gb.bm, inode[d].bno, name, gi.ino), ~a.ok
  PROVE  Whole'
<1>1. imap \in InodeMap /\ bmap \in BlockMap /\ failed \in Nat /\ doubled \in Nat
  BY WholeTypes
<1>2. /\ gi.im \in InodeMap /\ gi.im.nfree = U32(imap.nfree - 1)
      /\ gi.ino \in Inodes \ (imap.bits \cup {0}) /\ gi.im.bits = imap.bits \cup {gi.ino}
      /\ gb.bm \in BlockMap /\ gb.bm.nfree = U32(bmap.nfree - 1)
      /\ gb.bno \in DataBlocks \ bmap.bits /\ gb.bm.bits = bmap.bits \cup {gb.bno}
      /\ a.bm \in BlockMap /\ a.dk = disk
      /\ a.bm = [bits |-> gb.bm.bits, nfree |-> U32(gb.bm.nfree - 1)]
      /\ imap' = PutBackInode(PutBackInode(gi.im, gi.ino), gi.ino)
      /\ bmap' = PutBackBlock(PutBackBlock(a.bm, gb.bno), gb.bno)
      /\ failed' = failed + 1 /\ doubled' = doubled + 1
      /\ UNCHANGED <<inode, files, gone, dropped, harm>> /\ disk' = disk
  <2>1. CreateTakes(d, name, mode, gi, gb, a)
    BY CreateParts
  <2> QED BY <2>1 DEF CreateTakes
<1>3. PICK im2 : im2 = PutBackInode(gi.im, gi.ino)
  OBVIOUS
<1>4. im2 \in InodeMap /\ im2 = [bits |-> gi.im.bits \ {gi.ino}, nfree |-> U32(gi.im.nfree + 1)]
  BY <1>2, <1>3, PutBackInodeSound
<1>5. imap' \in InodeMap /\ imap' = [bits |-> im2.bits \ {gi.ino}, nfree |-> U32(im2.nfree + 1)]
  BY <1>2, <1>3, <1>4, PutBackInodeSound
<1>6. PICK bm2 : bm2 = PutBackBlock(a.bm, gb.bno)
  OBVIOUS
<1>7. bm2 \in BlockMap /\ bm2 = [bits |-> a.bm.bits \ {gb.bno}, nfree |-> U32(a.bm.nfree + 1)]
  BY <1>2, <1>6, PutBackBlockSound
<1>8. bmap' \in BlockMap /\ bmap' = [bits |-> bm2.bits \ {gb.bno}, nfree |-> U32(bm2.nfree + 1)]
  <2>1. bmap' = PutBackBlock(bm2, gb.bno) /\ gb.bno \in DataBlocks /\ bm2 \in BlockMap
    BY <1>2, <1>6, <1>7
  <2> QED BY <2>1, PutBackBlockSound
<1>9. im2.bits = imap.bits /\ imap'.bits = im2.bits /\ imap'.nfree = U32(im2.nfree + 1)
  BY <1>2, <1>4, <1>5
<1>10. bm2.bits = bmap.bits /\ bmap'.bits = bm2.bits /\ bmap'.nfree = U32(bm2.nfree + 1)
  <2>1. a.bm.bits = bmap.bits \cup {gb.bno} /\ gb.bno \notin bmap.bits
    BY <1>2
  <2>2. bm2.bits = bmap.bits
    BY <1>7, <2>1
  <2>3. bmap'.bits = bm2.bits \ {gb.bno} /\ bmap'.nfree = U32(bm2.nfree + 1)
    BY <1>8
  <2> QED BY <2>1, <2>2, <2>3
<1>11. BlocksCounted(bmap, Excess + 1 + doubled - failed) /\ InodesCounted(imap, doubled)
  BY DEF Whole, CountersSound
<1>12. InodesCounted(imap', doubled + 1)
  <2>1. InodesCounted(gi.im, doubled)
    BY <1>1, <1>2, <1>11, InodesCountedStep
  <2>2. InodesCounted(im2, doubled)
    <3>1. gi.ino \in Inodes \cap gi.im.bits /\ im2.bits = gi.im.bits \ {gi.ino}
          /\ im2.nfree = U32(gi.im.nfree + 1)
      BY <1>2, <1>4
    <3> QED BY <1>1, <1>2, <1>4, <2>1, <3>1, InodesCountedStep
  <2> QED BY <1>1, <1>4, <1>5, <1>9, <2>2, InodesCountedStep
<1>13. BlocksCounted(bmap', Excess + 1 + (doubled + 1) - (failed + 1))
  <2> DEFINE k == Excess + 1 + doubled - failed
  <2>1. k \in Int /\ (k - 1) + 1 = k /\ Excess + 1 + (doubled + 1) - (failed + 1) = k /\ k - 1 \in Int
    BY <1>1, ConstantFacts
  <2> HIDE DEF k
  <2>2. BlocksCounted(gb.bm, k)
    BY <1>1, <1>2, <1>11, <2>1, BlocksCountedStep DEF k
  <2>3. BlocksCounted(a.bm, k - 1)
    <3>1. a.bm.bits = gb.bm.bits /\ a.bm.nfree = U32(gb.bm.nfree - 1)
      BY <1>2
    <3> QED BY <1>2, <2>1, <2>2, <3>1, BlocksCountedStep
  <2>4. BlocksCounted(bm2, k - 1)
    <3>1. gb.bno \in DataBlocks \cap a.bm.bits /\ bm2.bits = a.bm.bits \ {gb.bno}
          /\ bm2.nfree = U32(a.bm.nfree + 1)
      BY <1>2, <1>7
    <3> QED BY <1>2, <1>7, <2>1, <2>3, <3>1, BlocksCountedStep
  <2>5. BlocksCounted(bmap', (k - 1) + 1)
    BY <1>7, <1>8, <1>10, <2>1, <2>4, BlocksCountedStep
  <2> QED BY <2>1, <2>5
<1> QED BY <1>1, <1>2, <1>5, <1>8, <1>9, <1>10, <1>12, <1>13, OnlyCountersStep

\* A name more: what the directories hold then.
LEMMA NamedMore ==
  ASSUME NEW x, files' = files \cup {x}, NEW y
  PROVE  Named(y)' = IF y = x.dir THEN Named(y) \cup {[ino |-> x.ino, name |-> x.name]} ELSE Named(y)
BY DEF Named

LEMMA FilesMore ==
  ASSUME Whole, NEW x \in File, files' = files \cup {x},
         \A f \in files : ~(f.dir = x.dir /\ f.name = x.name),
         x.ino # RootIno, inode'[x.ino].mode # "none", x.dir \in Dirs,
         \A i \in Inodes : inode[i].mode # "none" => inode'[i].mode = inode[i].mode,
         inode'[x.ino].mode = "dir" => \A f \in files : f.ino # x.ino,
         Dirs' \subseteq Dirs \cup {x.ino}
  PROVE  FilesSane'
<1>1. IsFiniteSet(files')
  BY FS_AddElement DEF Whole, FilesSane
<1>2. ASSUME NEW f \in files'
      PROVE  f.ino # RootIno /\ inode'[f.ino].mode # "none" /\ inode'[f.dir].mode = "dir"
  <2>1. CASE f = x
    BY <2>1, DirFacts DEF Dirs
  <2>2. CASE f \in files
    <3>1. /\ f.ino # RootIno /\ inode[f.ino].mode # "none" /\ inode[f.dir].mode = "dir"
          /\ f.ino \in Inodes /\ f.dir \in Inodes
      BY <2>2, FileFacts DEF RootIno, Dirs
    <3> QED BY <3>1
  <2> QED BY <2>1, <2>2
<1>3. \A f, g \in files' : f.dir = g.dir /\ f.name = g.name => f = g
  <2>1. \A f, g \in files : f.dir = g.dir /\ f.name = g.name => f = g
    BY DEF Whole, FilesSane
  <2> QED BY <2>1
<1>4. ASSUME NEW f \in files', NEW g \in files', f.ino = g.ino, inode'[f.ino].mode = "dir"
      PROVE  f = g
  <2>1. CASE f = x \/ g = x
    BY <1>4, <2>1
  <2>2. CASE f \in files /\ g \in files
    <3>1. f.ino \in Inodes /\ inode[f.ino].mode # "none"
      BY <2>2, FileFacts
    <3>2. inode[f.ino].mode = "dir"
      BY <1>4, <3>1
    <3> QED BY <1>4, <2>2, <3>2 DEF Whole, FilesSane
  <2> QED BY <2>1, <2>2
<1>5. \A d \in Dirs' : d = RootIno \/ \E f \in files' : f.ino = d
  <2>1. \A d \in Dirs : d = RootIno \/ \E f \in files : f.ino = d
    BY DEF Whole, FilesSane
  <2> QED BY <2>1
<1> QED BY <1>1, <1>2, <1>3, <1>4, <1>5 DEF FilesSane

\* The parts of an action that makes a name for a new inode.
LEMMA CreateStep ==
  ASSUME Whole, harm = {}, NEW d \in Inodes, NEW name \in Names, NEW mode \in {"reg", "dir"},
         Create(d, name, mode), NEW gi, gi = TakeInode(imap), NEW gb, gb = TakeBlock(bmap),
         NEW a, a = AddEntry(disk, gb.bm, inode[d].bno, name, gi.ino), a.ok
  PROVE  Whole'
<1>1. PICK g \in Inodes \ {0} : g = gi.ino
  <2>1. CreateTakes(d, name, mode, gi, gb, a)
    BY CreateParts
  <2> QED BY <2>1 DEF CreateTakes
<1>2. PICK nb \in DataBlocks \ bmap.bits : nb = gb.bno
  <2>1. CreateTakes(d, name, mode, gi, gb, a)
    BY CreateParts
  <2> QED BY <2>1 DEF CreateTakes
<1>3. PICK x : x = [dir |-> d, name |-> name, ino |-> g]
  OBVIOUS
<1>4. PICK e : e = [ino |-> g, name |-> name]
  OBVIOUS
<1>5. /\ gi.im \in InodeMap /\ gi.im.nfree = U32(imap.nfree - 1)
      /\ g \notin imap.bits /\ gi.im.bits = imap.bits \cup {g}
      /\ gb.bm \in BlockMap /\ gb.bm.nfree = U32(bmap.nfree - 1)
      /\ gb.bm.bits = bmap.bits \cup {nb}
      /\ d \in Dirs /\ a.bm \in BlockMap /\ MetaMarked(a.bm)
      /\ EntryAdded(disk, gb.bm, inode[d].bno, Named(d), e, a)
      /\ disk' = a.dk /\ imap' = gi.im /\ bmap' = a.bm
      /\ inode' = [inode EXCEPT ![g] = NewInode(mode, nb),
                                ![d].nlink = IF mode = "dir" THEN @ + 1 ELSE @]
      /\ files' = files \cup {x}
      /\ gone' = [gone EXCEPT ![g] = 0]
      /\ UNCHANGED <<failed, doubled, dropped, harm>>
      /\ MayAdd(d, name)
  <2>1. CreateTakes(d, name, mode, gi, gb, a)
    BY CreateParts
  <2> QED BY <1>1, <1>2, <1>3, <1>4, <2>1 DEF CreateTakes
<1>6. /\ imap \in InodeMap /\ bmap \in BlockMap /\ inode \in [Inodes -> InodeRec]
      /\ files \in SUBSET File /\ gone \in [Inodes -> Nat] /\ failed \in Nat /\ doubled \in Nat
  BY WholeTypes
<1>7. inode[g] = NoInode /\ inode[g].mode = "none" /\ inode[d].mode = "dir" /\ g # d
  <2>1. inode[g].mode = "none"
    BY <1>5 DEF Whole, NodesSane
  <2>2. inode[g] = NoInode
    BY <2>1 DEF Whole, NodesSane
  <2> QED BY <1>5, <2>1, <2>2 DEF Dirs
<1>8. \A f \in files : f.ino # g /\ f.dir # g
  BY <1>7, FileFacts DEF Dirs
<1>9. /\ inode' \in [Inodes -> InodeRec]
      /\ inode'[g] = NewInode(mode, nb)
      /\ inode'[d].nlink = IF mode = "dir" THEN inode[d].nlink + 1 ELSE inode[d].nlink
      /\ \A i \in Inodes \ {g} : inode'[i].mode = inode[i].mode /\ inode'[i].bno = inode[i].bno
      /\ \A i \in Inodes \ {g, d} : inode'[i] = inode[i]
  <2>1. PICK o : o = inode[d]
    OBVIOUS
  <2>2. PICK u : u = [o EXCEPT !.nlink = IF mode = "dir" THEN o.nlink + 1 ELSE o.nlink]
    OBVIOUS
  <2>3. o \in InodeRec
    BY <1>6, <2>1
  <2>4. u \in InodeRec /\ u.mode = o.mode /\ u.bno = o.bno
        /\ u.nlink = IF mode = "dir" THEN o.nlink + 1 ELSE o.nlink
    BY <2>2, <2>3 DEF InodeRec
  <2>5. PICK v : v = NewInode(mode, nb)
    OBVIOUS
  <2>6. v \in InodeRec
    BY <2>5 DEF NewInode, InodeRec
  <2>7. inode' = [inode EXCEPT ![g] = v, ![d] = u]
    BY <1>5, <1>6, <1>7, <2>1, <2>2, <2>5
  <2>8. inode' \in [Inodes -> InodeRec] /\ inode'[g] = v /\ inode'[d] = u
        /\ \A i \in Inodes \ {g, d} : inode'[i] = inode[i]
    BY <1>6, <1>7, <2>4, <2>6, <2>7
  <2> QED BY <2>1, <2>4, <2>5, <2>8
<1>10. inode'[g].mode = mode /\ inode'[g].bno = nb /\ inode'[g].nlink = IF mode = "dir" THEN 2 ELSE 1
  BY <1>9 DEF NewInode
<1>11. x \in File /\ x.dir = d /\ x.name = name /\ x.ino = g /\ e = [ino |-> x.ino, name |-> x.name]
  BY <1>3, <1>4 DEF File
<1>12. PICK new \in SUBSET (DataBlocks \ gb.bm.bits) : LeftAlone(d, gb.bm, a, new)
  <2>1. bmap.bits \subseteq gb.bm.bits
    BY <1>5
  <2> QED BY <1>5, <2>1, AddedKept
<1>13. a.dk \in DiskImage /\ DirSound(a.dk, inode[d].bno, Named(d) \cup {e})
  BY <1>5 DEF EntryAdded
<1>14. DirSound(a.dk, nb, {}) /\ BlocksIn(a.dk, nb) = {}
  BY <1>12, <1>13, DirEmpty DEF LeftAlone
<1>15. TypeOK' /\ MetaMarked(bmap')
  <2>1. files' \in SUBSET File /\ gone' \in [Inodes -> Nat]
    BY <1>5, <1>6, <1>11
  <2>2. TypeOK'
    BY <1>5, <1>6, <1>9, <1>13, <2>1 DEF Whole, TypeOK, InodeMap, BlockMap
  <2> QED BY <1>5, <2>2
<1>16. NodesSane'
  <2>1. imap'.bits = {i \in Inodes : inode'[i].mode # "none"}
    BY <1>5, <1>9, <1>10 DEF Whole, NodesSane
  <2>2. inode'[RootIno].mode = "dir"
    BY <1>9, ConstantFacts DEF Whole, NodesSane, RootIno
  <2>3. ASSUME NEW i \in Inodes
        PROVE  IF inode'[i].mode = "none" THEN inode'[i] = NoInode ELSE inode'[i].bno # 0
    <3>1. CASE i = g
      BY <1>10, <3>1, ConstantFacts
    <3>2. CASE i = d
      BY <1>7, <1>9, <3>2 DEF Whole, NodesSane
    <3>3. CASE i \notin {g, d}
      BY <1>9, <3>3 DEF Whole, NodesSane
    <3> QED BY <3>1, <3>2, <3>3
  <2> QED BY <2>1, <2>2, <2>3 DEF NodesSane
<1>17. FilesSane'
  <2>1. Dirs' \subseteq Dirs \cup {g}
    BY <1>9 DEF Dirs
  <2>2. \A f \in files : ~(f.dir = x.dir /\ f.name = x.name)
    BY <1>5, <1>11 DEF MayAdd
  <2>3. x.ino # RootIno /\ inode'[x.ino].mode # "none" /\ x.dir \in Dirs
    BY <1>5, <1>10, <1>11 DEF RootIno
  <2>4. \A i \in Inodes : inode[i].mode # "none" => inode'[i].mode = inode[i].mode
    BY <1>7, <1>9
  <2>5. \A f \in files : f.ino # x.ino
    BY <1>8, <1>11
  <2> QED BY <1>5, <1>11, <2>1, <2>2, <2>3, <2>4, <2>5, FilesMore
<1>18. DirsSound'
  <2> SUFFICES ASSUME NEW y \in Dirs' PROVE DirSound(disk', inode'[y].bno, Named(y)')
    BY DEF DirsSound
  <2>1. y \in Inodes /\ inode'[y].mode = "dir"
    BY DEF Dirs
  <2>2. Named(y)' = IF y = d THEN Named(y) \cup {e} ELSE Named(y)
    BY <1>5, <1>11, NamedMore
  <2>3. CASE y = g
    <3>1. Named(g) = {}
      BY <1>8 DEF Named
    <3> QED BY <1>5, <1>7, <1>10, <1>14, <2>2, <2>3, <3>1
  <2>4. CASE y = d
    BY <1>5, <1>7, <1>9, <1>13, <2>2, <2>4
  <2>5. CASE y \notin {g, d}
    <3>1. y \in Dirs \ {d} /\ inode'[y].bno = inode[y].bno
      BY <1>9, <2>1, <2>5 DEF Dirs
    <3>2. DirSound(a.dk, inode[y].bno, Named(y))
      BY <1>12, <3>1 DEF LeftAlone
    <3>3. disk' = a.dk
      BY <1>5
    <3> QED BY <2>2, <2>5, <3>1, <3>2, <3>3
  <2> QED BY <2>3, <2>4, <2>5
<1>19. BlocksAccounted' /\ LostApart' /\ FreeBlocksAreClear'
  <2> DEFINE G == [i \in Inodes |-> IF i = g THEN {nb} ELSE IF i = d THEN new ELSE {}]
  <2>1. G \in [Inodes -> SUBSET (DataBlocks \ bmap.bits)]
    BY <1>5
  <2>2. ASSUME NEW i \in Inodes PROVE BlocksOf(i)' = BlocksOf(i) \cup G[i]
    <3>1. BlocksOf(i)' = IF inode'[i].mode = "none" THEN {}
                         ELSE {inode'[i].bno} \cup BlocksIn(disk', inode'[i].bno)
      BY DEF BlocksOf, BlocksIn, Slots
    <3>2. BlocksOf(i) = IF inode[i].mode = "none" THEN {}
                        ELSE {inode[i].bno} \cup BlocksIn(disk, inode[i].bno)
      BY BlocksOfInode
    <3>3. CASE i = g
      BY <1>5, <1>7, <1>10, <1>14, <3>1, <3>2, <3>3
    <3>4. CASE i = d
      <4>1. inode'[i].mode = "dir" /\ inode'[i].bno = inode[i].bno /\ G[i] = new
        BY <1>7, <1>9, <3>4
      <4>2. BlocksIn(a.dk, inode[i].bno) = BlocksIn(disk, inode[i].bno) \cup new
        BY <1>12, <3>4 DEF LeftAlone
      <4>3. disk' = a.dk
        BY <1>5
      <4> QED BY <1>7, <3>1, <3>2, <3>4, <4>1, <4>2, <4>3
    <3>5. CASE i \notin {g, d}
      <4>1. inode'[i].mode = inode[i].mode /\ inode'[i].bno = inode[i].bno /\ G[i] = {}
        BY <1>9, <3>5
      <4>2. inode[i].mode # "none" => BlocksIn(a.dk, inode[i].bno) = BlocksIn(disk, inode[i].bno)
        BY <1>12, <3>5 DEF LeftAlone
      <4>3. disk' = a.dk
        BY <1>5
      <4> QED BY <3>1, <3>2, <4>1, <4>2, <4>3
    <3> QED BY <3>3, <3>4, <3>5
  <2>3. \A i, j \in Inodes : i # j => G[i] \cap G[j] = {}
    BY <1>5, <1>12
  <2>4. bmap'.bits = bmap.bits \cup (UNION {G[i] : i \in Inodes})
    <3>1. \A z : z \in UNION {G[i] : i \in Inodes} <=> z = nb \/ z \in new
      <4>1. G[g] = {nb} /\ G[d] = new /\ \A i \in Inodes : G[i] \subseteq {nb} \cup new
        BY <1>7
      <4> QED BY <4>1
    <3> QED BY <1>5, <1>12, <3>1 DEF LeftAlone
  <2>5. \A c \in DataBlocks \ bmap'.bits : disk'.table[c] = NoTable /\ disk'.entries[c] = NoEntries
    BY <1>5, <1>12 DEF LeftAlone
  <2>6. dropped' = dropped
    BY <1>5
  <2> HIDE DEF G
  <2> QED BY <2>1, <2>2, <2>3, <2>4, <2>5, <2>6, BlocksTaken
<1>20. LinksSound'
  <2>1. ASSUME NEW i \in Inodes
        PROVE  /\ NamesOf(i)' = IF i = g THEN NamesOf(i) \cup {x} ELSE NamesOf(i)
               /\ SubdirsOf(i)' = IF i = d /\ mode = "dir" THEN SubdirsOf(i) \cup {x} ELSE SubdirsOf(i)
    <3>1. \A f \in files : inode'[f.ino].mode = inode[f.ino].mode
      BY <1>8, <1>9, FileFacts
    <3>2. x \notin files
      BY <1>8, <1>11
    <3> QED BY <1>5, <1>10, <1>11, <3>1, <3>2 DEF NamesOf, SubdirsOf
  <2>2. NamesOf(g) = {} /\ SubdirsOf(g) = {}
    BY <1>8 DEF NamesOf, SubdirsOf
  <2>3. Cardinality(NamesOf(g)') = 1 /\ Cardinality(SubdirsOf(g)') = 0
    <3>1. NamesOf(g)' = {x} /\ SubdirsOf(g)' = {}
      BY <1>7, <2>1, <2>2
    <3> QED BY <3>1, FS_EmptySet, FS_Singleton
  <2>4. mode = "dir" => Cardinality(SubdirsOf(d)') = Cardinality(SubdirsOf(d)) + 1
    <3>1. IsFiniteSet(SubdirsOf(d)) /\ x \notin SubdirsOf(d)
      <4>1. SubdirsOf(d) \subseteq files /\ IsFiniteSet(files)
        BY DEF SubdirsOf, Whole, FilesSane
      <4> QED BY <1>8, <1>11, <4>1, FS_Subset
    <3> QED BY <2>1, <3>1, FS_AddElement
  <2>5. Cardinality(SubdirsOf(d)) \in Nat
    <3>1. SubdirsOf(d) \subseteq files /\ IsFiniteSet(files)
      BY DEF SubdirsOf, Whole, FilesSane
    <3> QED BY <3>1, FS_Subset, FS_CardinalityType
  <2>6. inode[d].nlink = 2 + gone[d] + Cardinality(SubdirsOf(d))
    BY <1>7 DEF Whole, LinksSound
  <2>7. gone'[g] = 0 /\ \A i \in Inodes \ {g} : gone'[i] = gone[i]
    BY <1>5, <1>6
  <2> SUFFICES ASSUME NEW i \in Inodes
               PROVE  inode'[i].nlink = IF inode'[i].mode = "none" THEN 0
                         ELSE IF inode'[i].mode = "reg" THEN Cardinality(NamesOf(i)')
                         ELSE 2 + gone'[i] + Cardinality(SubdirsOf(i)')
    BY DEF LinksSound
  <2>8. CASE i = g
    BY <1>10, <2>3, <2>7, <2>8
  <2>9. CASE i = d
    <3>1. inode'[i].mode = "dir" /\ gone'[i] = gone[i] /\ gone[i] \in Nat
      BY <1>6, <1>7, <1>9, <2>7, <2>9
    <3>2. CASE mode = "dir"
      BY <1>9, <2>4, <2>5, <2>6, <2>9, <3>1, <3>2
    <3>3. CASE mode # "dir"
      BY <1>9, <2>1, <2>6, <2>9, <3>1, <3>3
    <3> QED BY <3>2, <3>3
  <2>10. CASE i \notin {g, d}
    <3>1. inode'[i] = inode[i] /\ gone'[i] = gone[i]
          /\ NamesOf(i)' = NamesOf(i) /\ SubdirsOf(i)' = SubdirsOf(i)
      BY <1>9, <2>1, <2>7, <2>10
    <3> QED BY <3>1 DEF Whole, LinksSound
  <2> QED BY <2>8, <2>9, <2>10
<1>21. CountersSound'
  <2> DEFINE k == Excess + 1 + doubled - failed
  <2>1. BlocksCounted(bmap, k) /\ InodesCounted(imap, doubled) /\ k \in Int
    BY <1>6, ConstantFacts DEF Whole, CountersSound
  <2>2. InodesCounted(imap', doubled)
    <3>1. g \in Inodes \ imap.bits
      BY <1>5
    <3> QED BY <1>5, <1>6, <2>1, <3>1, InodesCountedStep
  <2> HIDE DEF k
  <2>3. BlocksCounted(gb.bm, k)
    BY <1>5, <1>6, <2>1, BlocksCountedStep
  <2>4. BlocksCounted(a.bm, k)
    <3>1. CASE new = {}
      BY <1>12, <2>3, <3>1 DEF BlocksCounted, LeftAlone
    <3>2. CASE new # {}
      <4>1. PICK z : new = {z} /\ a.bm.nfree = U32(gb.bm.nfree - 1)
        BY <1>12, <3>2 DEF LeftAlone
      <4>2. z \in DataBlocks \ gb.bm.bits /\ a.bm.bits = gb.bm.bits \cup {z}
        BY <1>12, <4>1 DEF LeftAlone
      <4> QED BY <1>5, <2>1, <2>3, <4>1, <4>2, BlocksCountedStep
    <3> QED BY <3>1, <3>2
  <2>5. doubled' = doubled /\ failed' = failed
    BY <1>5
  <2> QED BY <1>5, <2>2, <2>4, <2>5 DEF CountersSound, BlocksCounted, InodesCounted, k
<1> QED BY <1>15, <1>16, <1>17, <1>18, <1>19, <1>20, <1>21 DEF Whole

\* Inodes whose modes and blocks stay.
LEMMA NodesKept ==
  ASSUME Whole, imap' = imap, inode' \in [Inodes -> InodeRec],
         \A i \in Inodes : inode'[i].mode = inode[i].mode /\ inode'[i].bno = inode[i].bno,
         \A i \in Inodes : inode[i].mode = "none" => inode'[i] = inode[i]
  PROVE  NodesSane' /\ Dirs' = Dirs
<1>1. Dirs' = Dirs
  BY DEF Dirs
<1>2. imap'.bits = {i \in Inodes : inode'[i].mode # "none"} /\ inode'[RootIno].mode = "dir"
  BY ConstantFacts DEF Whole, NodesSane, RootIno
<1>3. \A i \in Inodes : IF inode'[i].mode = "none" THEN inode'[i] = NoInode ELSE inode'[i].bno # 0
  BY DEF Whole, NodesSane
<1> QED BY <1>1, <1>2, <1>3 DEF NodesSane

\* One link more or less.
LEMMA LinkMoved ==
  ASSUME Whole, NEW j \in Inodes, NEW n \in Nat, inode' = [inode EXCEPT ![j].nlink = n],
         inode[j].mode # "none"
  PROVE  /\ inode' \in [Inodes -> InodeRec] /\ inode'[j].nlink = n
         /\ \A i \in Inodes : inode'[i].mode = inode[i].mode /\ inode'[i].bno = inode[i].bno
         /\ \A i \in Inodes \ {j} : inode'[i] = inode[i]
         /\ \A i \in Inodes : inode[i].mode = "none" => inode'[i] = inode[i]
<1>1. inode \in [Inodes -> InodeRec]
  BY WholeTypes
<1>2. PICK o : o = inode[j]
  OBVIOUS
<1>3. PICK u : u = [o EXCEPT !.nlink = n]
  OBVIOUS
<1>4. o \in InodeRec
  BY <1>1, <1>2
<1>5. u \in InodeRec /\ u.mode = o.mode /\ u.bno = o.bno /\ u.nlink = n
  BY <1>3, <1>4 DEF InodeRec
<1>6. inode' = [inode EXCEPT ![j] = u]
  BY <1>1, <1>2, <1>3
<1>7. inode' \in [Inodes -> InodeRec] /\ inode'[j] = u /\ \A i \in Inodes \ {j} : inode'[i] = inode[i]
  BY <1>1, <1>5, <1>6
<1> QED BY <1>2, <1>5, <1>7

\* A regular file that takes a block for its data.
LEMMA GetBlockStep ==
  ASSUME Whole, harm = {}, NEW i \in Inodes, NEW k \in Slots, GetBlock(i, k)
  PROVE  Whole'
<1>1. PICK g : g = TakeBlock(bmap)
  OBVIOUS
<1>2. PICK b : b = inode[i].bno
  OBVIOUS
<1>3. /\ inode[i].mode = "reg" /\ disk.table[b].blocks[k] = 0
      /\ disk' = [disk EXCEPT !.table[b].blocks[k] = g.bno]
      /\ bmap' = g.bm /\ failed' = IF g.bno = NONE THEN failed + 1 ELSE failed
      /\ UNCHANGED <<imap, inode, files, gone, dropped, doubled, harm>>
  BY <1>1, <1>2 DEF GetBlock
<1>4. /\ imap \in InodeMap /\ bmap \in BlockMap /\ disk \in DiskImage /\ MetaMarked(bmap)
      /\ failed \in Nat /\ doubled \in Nat
  BY WholeTypes
<1>5. /\ g.bm \in BlockMap /\ MetaMarked(g.bm) /\ g.bm.nfree = U32(bmap.nfree - 1)
      /\ g.bno = NONE => g.bm.bits = bmap.bits
      /\ g.bno # NONE => g.bno \in DataBlocks \ bmap.bits /\ g.bm.bits = bmap.bits \cup {g.bno}
  BY <1>1, <1>4, TakeBlockSound
<1>6. b \in DataBlocks /\ b \in bmap.bits
  BY <1>2, <1>3, InodeFacts
<1>7. PICK old : old = disk.table[b]
  OBVIOUS
<1>8. /\ old \in Table /\ disk.table \in [DataBlocks -> Table]
      /\ old.blocks \in [Slots -> DataBlocks \cup {0, NONE}]
  BY <1>4, <1>6, <1>7 DEF DiskImage, Table, Slots
<1>9. PICK tab : tab = [old EXCEPT !.blocks = [old.blocks EXCEPT ![k] = g.bno]]
  OBVIOUS
<1>10. tab \in Table /\ tab.blocks = [old.blocks EXCEPT ![k] = g.bno]
  <2>1. [old.blocks EXCEPT ![k] = g.bno] \in [Slots -> DataBlocks \cup {0, NONE}]
    BY <1>5, <1>8
  <2> QED BY <1>8, <1>9, <2>1 DEF Table, Slots
<1>11. disk' = [disk EXCEPT !.table = [disk.table EXCEPT ![b] = tab]]
  <2>1. [disk EXCEPT !.table[b].blocks[k] = g.bno] = [disk EXCEPT !.table = [disk.table EXCEPT ![b] = tab]]
    BY <1>4, <1>6, <1>7, <1>8, <1>9 DEF DiskImage, Table
  <2> QED BY <1>3, <2>1
<1>12. /\ disk'.table = [disk.table EXCEPT ![b] = tab] /\ disk'.entries = disk.entries
       /\ disk' \in DiskImage
  <2>1. [disk.table EXCEPT ![b] = tab] \in [DataBlocks -> Table]
    BY <1>8, <1>10
  <2> QED BY <1>4, <1>11, <2>1 DEF DiskImage
<1>13. disk'.table[b] = tab /\ \A c \in DataBlocks \ {b} : disk'.table[c] = disk.table[c]
  BY <1>6, <1>8, <1>12
<1>14. PICK new : new = {g.bno} \ {NONE}
  OBVIOUS
<1>15. new \in SUBSET (DataBlocks \ bmap.bits) /\ g.bm.bits = bmap.bits \cup new
  BY <1>5, <1>14
<1>16. PICK dk2 : dk2 = disk'
  OBVIOUS
<1>17. /\ \A j \in Inodes \ {i} : inode[j].mode # "none" =>
            BlocksIn(dk2, inode[j].bno) = BlocksIn(disk, inode[j].bno)
       /\ \A d \in Dirs : DirSound(dk2, inode[d].bno, Named(d))
       /\ \A c \in DataBlocks \ bmap.bits : /\ dk2.table[c] = NoTable
                                            /\ c \notin new => dk2.entries[c] = NoEntries
  <2>1. PICK T \in SUBSET {j \in Inodes : inode[j].mode # "none"} : T = {i}
    BY <1>3
  <2>2. \A c \in DataBlocks : (\A x \in T : c # inode[x].bno) => dk2.table[c] = disk.table[c]
    BY <1>2, <1>13, <1>16, <2>1
  <2>3. \A c \in DataBlocks : c \notin new /\ (\A x \in T : c \notin BlocksIn(disk, inode[x].bno))
           => dk2.entries[c] = disk.entries[c]
    BY <1>12, <1>16
  <2>4. dk2 \in DiskImage
    BY <1>12, <1>16
  <2>5. OthersStay(dk2, T, new)
    BY <1>15, <2>2, <2>3, <2>4, OthersKept
  <2>6. i \notin Dirs
    BY <1>3 DEF Dirs
  <2> QED BY <2>1, <2>5, <2>6 DEF OthersStay
<1>18. BlocksIn(dk2, b) = BlocksIn(disk, b) \cup new
  <2>1. PICK blocks : blocks = old.blocks
    OBVIOUS
  <2>2. PICK blocks2 : blocks2 = tab.blocks
    OBVIOUS
  <2>3. \A j \in Slots : blocks2[j] = IF j = k THEN g.bno ELSE blocks[j]
    BY <1>8, <1>10, <2>1, <2>2
  <2>4. BlocksIn(dk2, b) = {blocks2[j] : j \in Slots} \ {0, NONE}
    BY <1>13, <1>16, <2>2 DEF BlocksIn
  <2>5. BlocksIn(disk, b) = {blocks[j] : j \in Slots} \ {0, NONE} /\ blocks[k] = 0
    BY <1>3, <1>7, <2>1 DEF BlocksIn
  <2>6. g.bno # 0
    BY <1>5, ConstantFacts
  <2> QED BY <1>14, <2>3, <2>4, <2>5, <2>6
<1>19. TypeOK' /\ MetaMarked(bmap')
  <2>1. failed' \in Nat
    BY <1>3, <1>4
  <2> QED BY <1>3, <1>5, <1>12, <2>1 DEF Whole, TypeOK, BlockMap
<1>20. NodesSane' /\ Dirs' = Dirs
  BY <1>3, NodesKept, WholeTypes
<1>21. FilesSane'
  BY <1>3, <1>20 DEF Whole, FilesSane
<1>22. DirsSound'
  <2>1. \A d \in Dirs : Named(d)' = Named(d)
    BY <1>3 DEF Named
  <2> QED BY <1>3, <1>16, <1>17, <1>20, <2>1 DEF DirsSound
<1>23. BlocksAccounted' /\ LostApart' /\ FreeBlocksAreClear'
  <2> DEFINE G == [j \in Inodes |-> IF j = i THEN new ELSE {}]
  <2>1. G \in [Inodes -> SUBSET (DataBlocks \ bmap.bits)]
    BY <1>15
  <2>2. ASSUME NEW j \in Inodes PROVE BlocksOf(j)' = BlocksOf(j) \cup G[j]
    <3>1. BlocksOf(j)' = IF inode'[j].mode = "none" THEN {}
                         ELSE {inode'[j].bno} \cup BlocksIn(disk', inode'[j].bno)
      BY DEF BlocksOf, BlocksIn, Slots
    <3>2. BlocksOf(j) = IF inode[j].mode = "none" THEN {}
                        ELSE {inode[j].bno} \cup BlocksIn(disk, inode[j].bno)
      BY BlocksOfInode
    <3>3. inode' = inode /\ disk' = dk2
      BY <1>3, <1>16
    <3>4. CASE j = i
      BY <1>2, <1>3, <1>18, <3>1, <3>2, <3>3, <3>4
    <3>5. CASE j # i
      BY <1>17, <3>1, <3>2, <3>3, <3>5
    <3> QED BY <3>4, <3>5
  <2>3. \A j, l \in Inodes : j # l => G[j] \cap G[l] = {}
    OBVIOUS
  <2>4. bmap'.bits = bmap.bits \cup (UNION {G[j] : j \in Inodes})
    <3>1. G[i] = new /\ \A j \in Inodes : G[j] \subseteq new
      OBVIOUS
    <3>2. (UNION {G[j] : j \in Inodes}) = new
      BY <3>1
    <3> QED BY <1>3, <1>15, <3>2
  <2>5. \A c \in DataBlocks \ bmap'.bits : disk'.table[c] = NoTable /\ disk'.entries[c] = NoEntries
    BY <1>3, <1>15, <1>16, <1>17
  <2>6. dropped' = dropped
    BY <1>3
  <2> HIDE DEF G
  <2> QED BY <2>1, <2>2, <2>3, <2>4, <2>5, <2>6, BlocksTaken
<1>24. LinksSound'
  BY <1>3 DEF Whole, LinksSound, NamesOf, SubdirsOf
<1>25. CountersSound'
  <2> DEFINE m == Excess + 1 + doubled - failed
  <2>1. BlocksCounted(bmap, m) /\ InodesCounted(imap, doubled) /\ m \in Int
    BY <1>4, ConstantFacts DEF Whole, CountersSound
  <2>2. m - 1 = Excess + 1 + doubled - (failed + 1)
    BY <1>4, ConstantFacts
  <2>3. CASE g.bno = NONE
    <3> HIDE DEF m
    <3>1. BlocksCounted(bmap', m - 1)
      BY <1>3, <1>4, <1>5, <2>1, <2>3, BlocksCountedStep
    <3>2. failed' = failed + 1 /\ doubled' = doubled /\ imap' = imap
      BY <1>3, <2>3
    <3> QED BY <2>1, <2>2, <3>1, <3>2 DEF CountersSound, BlocksCounted, InodesCounted
  <2>4. CASE g.bno # NONE
    <3> HIDE DEF m
    <3>1. BlocksCounted(bmap', m)
      <4>1. g.bno \in DataBlocks \ bmap.bits /\ bmap'.bits = bmap.bits \cup {g.bno}
            /\ bmap' \in BlockMap /\ bmap'.nfree = U32(bmap.nfree - 1)
        BY <1>3, <1>5, <2>4
      <4> QED BY <1>4, <2>1, <4>1, BlocksCountedStep
    <3>2. failed' = failed /\ doubled' = doubled /\ imap' = imap
      BY <1>3, <2>4
    <3> QED BY <2>1, <3>1, <3>2 DEF CountersSound, BlocksCounted, InodesCounted, m
  <2> QED BY <2>3, <2>4
<1> QED BY <1>19, <1>20, <1>21, <1>22, <1>23, <1>24, <1>25 DEF Whole

----
(* A name more in a directory: what of the disk is lost or taken, and the    *)
(* counters.  dk2 is the disk after the call, which may have gone on to    *)
(* take an entry out of a directory.                                       *)
LEMMA AddedBlocks ==
  ASSUME Whole, harm = {}, NEW d \in Dirs, NEW a, NEW new \in SUBSET (DataBlocks \ bmap.bits),
         LeftAlone(d, bmap, a, new), bmap' = a.bm, dropped' = dropped, NEW dk2 \in DiskImage, disk' = dk2,
         \A i \in Inodes : inode'[i].mode = inode[i].mode /\ inode'[i].bno = inode[i].bno,
         \A i \in Inodes : inode[i].mode # "none"
            => BlocksIn(dk2, inode[i].bno) = BlocksIn(a.dk, inode[i].bno),
         \A c \in DataBlocks \ (bmap.bits \cup new) : /\ dk2.table[c] = a.dk.table[c]
                                                      /\ dk2.entries[c] = a.dk.entries[c]
  PROVE  BlocksAccounted' /\ LostApart' /\ FreeBlocksAreClear'
<1> DEFINE G == [i \in Inodes |-> IF i = d THEN new ELSE {}]
<1>1. G \in [Inodes -> SUBSET (DataBlocks \ bmap.bits)]
  OBVIOUS
<1>2. d \in Inodes /\ inode[d].mode # "none"
  BY DirFacts
<1>3. ASSUME NEW i \in Inodes PROVE BlocksOf(i)' = BlocksOf(i) \cup G[i]
  <2>1. BlocksOf(i)' = IF inode'[i].mode = "none" THEN {}
                       ELSE {inode'[i].bno} \cup BlocksIn(disk', inode'[i].bno)
    BY DEF BlocksOf, BlocksIn, Slots
  <2>2. BlocksOf(i) = IF inode[i].mode = "none" THEN {}
                      ELSE {inode[i].bno} \cup BlocksIn(disk, inode[i].bno)
    BY BlocksOfInode
  <2>3. CASE i = d
    <3>1. BlocksIn(a.dk, inode[i].bno) = BlocksIn(disk, inode[i].bno) \cup new
      BY <2>3 DEF LeftAlone
    <3> QED BY <1>2, <2>1, <2>2, <2>3, <3>1
  <2>4. CASE i # d
    <3>1. inode[i].mode # "none" => BlocksIn(a.dk, inode[i].bno) = BlocksIn(disk, inode[i].bno)
      BY <2>4 DEF LeftAlone
    <3> QED BY <2>1, <2>2, <2>4, <3>1
  <2> QED BY <2>3, <2>4
<1>4. \A i, j \in Inodes : i # j => G[i] \cap G[j] = {}
  OBVIOUS
<1>5. bmap'.bits = bmap.bits \cup (UNION {G[i] : i \in Inodes})
  <2>1. G[d] = new /\ \A i \in Inodes : G[i] \subseteq new
    BY <1>2
  <2>2. (UNION {G[i] : i \in Inodes}) = new
    BY <1>2, <2>1
  <2> QED BY <2>2 DEF LeftAlone
<1>6. \A c \in DataBlocks \ bmap'.bits : disk'.table[c] = NoTable /\ disk'.entries[c] = NoEntries
  BY DEF LeftAlone
<1> HIDE DEF G
<1> QED BY <1>1, <1>3, <1>4, <1>5, <1>6, BlocksTaken

LEMMA AddedCounted ==
  ASSUME Whole, NEW d, NEW a, NEW new \in SUBSET (DataBlocks \ bmap.bits),
         LeftAlone(d, bmap, a, new), a.bm \in BlockMap, bmap' = a.bm,
         UNCHANGED <<imap, failed, doubled>>
  PROVE  CountersSound'
<1> DEFINE k == Excess + 1 + doubled - failed
<1>1. BlocksCounted(bmap, k) /\ InodesCounted(imap, doubled) /\ k \in Int /\ bmap \in BlockMap
  BY WholeTypes, ConstantFacts DEF Whole, CountersSound
<1> HIDE DEF k
<1>2. BlocksCounted(a.bm, k)
  <2>1. CASE new = {}
    BY <1>1, <2>1 DEF BlocksCounted, LeftAlone
  <2>2. CASE new # {}
    <3>1. PICK z : new = {z} /\ a.bm.nfree = U32(bmap.nfree - 1)
      BY <2>2 DEF LeftAlone
    <3>2. z \in DataBlocks \ bmap.bits /\ a.bm.bits = bmap.bits \cup {z}
      BY <3>1 DEF LeftAlone
    <3> QED BY <1>1, <3>1, <3>2, BlocksCountedStep
  <2> QED BY <2>1, <2>2
<1> QED BY <1>1, <1>2 DEF CountersSound, BlocksCounted, InodesCounted, k

\* Nobody has taken or given back a block.
LEMMA BlocksSame ==
  ASSUME Whole, harm = {}, bmap'.bits = bmap.bits, dropped' = dropped,
         \A i \in Inodes : inode'[i].mode = inode[i].mode /\ inode'[i].bno = inode[i].bno,
         \A i \in Inodes : inode[i].mode # "none"
            => BlocksIn(disk', inode[i].bno) = BlocksIn(disk, inode[i].bno),
         \A c \in DataBlocks \ bmap.bits : disk'.table[c] = NoTable /\ disk'.entries[c] = NoEntries
  PROVE  BlocksAccounted' /\ LostApart' /\ FreeBlocksAreClear'
<1> DEFINE G == [i \in Inodes |-> {}]
<1>1. G \in [Inodes -> SUBSET (DataBlocks \ bmap.bits)] /\ (UNION {G[i] : i \in Inodes}) = {}
  OBVIOUS
<1>2. ASSUME NEW i \in Inodes PROVE BlocksOf(i)' = BlocksOf(i) \cup G[i]
  <2>1. BlocksOf(i)' = IF inode'[i].mode = "none" THEN {}
                       ELSE {inode'[i].bno} \cup BlocksIn(disk', inode'[i].bno)
    BY DEF BlocksOf, BlocksIn, Slots
  <2> QED BY <2>1, BlocksOfInode
<1>3. \A i, j \in Inodes : i # j => G[i] \cap G[j] = {}
  OBVIOUS
<1>4. bmap'.bits = bmap.bits \cup (UNION {G[i] : i \in Inodes})
  BY <1>1
<1> HIDE DEF G
<1> QED BY <1>1, <1>2, <1>3, <1>4, BlocksTaken

----
(* A second name for a regular file.                                       *)

LEMMA LinkStep ==
  ASSUME Whole, harm = {}, harm' = {}, NEW f \in files, NEW d \in Inodes, NEW name \in Names,
         Link(f, d, name)
  PROVE  Whole'
<1>1. PICK a : a = AddEntry(disk, bmap, inode[d].bno, name, f.ino)
  OBVIOUS
<1>2. PICK x : x = [f EXCEPT !.dir = d, !.name = name]
  OBVIOUS
<1>3. PICK j \in Inodes \ {0} : j = f.ino
  BY FileFacts
<1>4. /\ imap \in InodeMap /\ bmap \in BlockMap /\ disk \in DiskImage /\ MetaMarked(bmap)
      /\ inode \in [Inodes -> InodeRec] /\ files \in SUBSET File
  BY WholeTypes
<1>5. x \in File /\ x.dir = d /\ x.name = name /\ x.ino = j
  BY <1>2, <1>3, FileFacts DEF File
<1>6. /\ MayAdd(d, name) /\ ~FullDir(d) /\ a.ok /\ inode[j].mode = "reg"
      /\ inode' = [inode EXCEPT ![j].nlink = @ + 1] /\ files' = files \cup {x}
      /\ disk' = a.dk /\ bmap' = a.bm
      /\ UNCHANGED <<imap, failed, gone, dropped, doubled, harm>>
  BY <1>1, <1>2, <1>3 DEF Link, PutLiveInode
<1>7. /\ d \in Dirs /\ a.bm \in BlockMap /\ MetaMarked(a.bm)
      /\ EntryAdded(disk, bmap, inode[d].bno, Named(d), [ino |-> j, name |-> name], a)
  <2>1. a = AddEntry(disk, bmap, inode[d].bno, name, j)
    BY <1>1, <1>3
  <2> QED BY <1>4, <1>6, <2>1, AddToDir
<1>8. PICK new \in SUBSET (DataBlocks \ bmap.bits) : LeftAlone(d, bmap, a, new)
  BY <1>4, <1>7, AddedKept
<1>9. PICK n \in Nat : n = inode[j].nlink + 1
  BY <1>4 DEF InodeRec
<1>10. inode' = [inode EXCEPT ![j].nlink = n] /\ inode[j].mode # "none"
  BY <1>6, <1>9
<1>11. /\ inode' \in [Inodes -> InodeRec] /\ inode'[j].nlink = n
       /\ \A i \in Inodes : inode'[i].mode = inode[i].mode /\ inode'[i].bno = inode[i].bno
       /\ \A i \in Inodes \ {j} : inode'[i] = inode[i]
       /\ \A i \in Inodes : inode[i].mode = "none" => inode'[i] = inode[i]
  BY <1>10, LinkMoved
<1>12. a.dk \in DiskImage /\ DirSound(a.dk, inode[d].bno, Named(d) \cup {[ino |-> j, name |-> name]})
  BY <1>7 DEF EntryAdded
<1>13. TypeOK' /\ MetaMarked(bmap')
  <2>1. files' \in SUBSET File
    BY <1>4, <1>5, <1>6
  <2> QED BY <1>6, <1>7, <1>11, <1>12, <2>1 DEF Whole, TypeOK, BlockMap
<1>14. NodesSane' /\ Dirs' = Dirs
  BY <1>6, <1>11, NodesKept
<1>15. FilesSane'
  <2>1. \A g \in files : ~(g.dir = x.dir /\ g.name = x.name)
    BY <1>5, <1>6 DEF MayAdd
  <2>2. x.ino # RootIno /\ inode'[x.ino].mode = "reg" /\ x.dir \in Dirs
    BY <1>5, <1>6, <1>7, <1>11 DEF RootIno
  <2> QED BY <1>5, <1>6, <1>11, <1>14, <2>1, <2>2, FilesMore
<1>16. DirsSound'
  <2> SUFFICES ASSUME NEW y \in Dirs PROVE DirSound(a.dk, inode[y].bno, Named(y)')
    BY <1>6, <1>11, <1>14 DEF DirsSound, Dirs
  <2>1. Named(y)' = IF y = d THEN Named(y) \cup {[ino |-> j, name |-> name]} ELSE Named(y)
    BY <1>5, <1>6, NamedMore
  <2>2. y # d => DirSound(a.dk, inode[y].bno, Named(y))
    BY <1>8 DEF LeftAlone
  <2> QED BY <1>12, <2>1, <2>2
<1>17. BlocksAccounted' /\ LostApart' /\ FreeBlocksAreClear'
  <2>1. PICK dk2 \in DiskImage : dk2 = a.dk
    BY <1>12
  <2>2. disk' = dk2 /\ bmap' = a.bm /\ dropped' = dropped
    BY <1>6, <2>1
  <2>3. /\ \A i \in Inodes : inode[i].mode # "none"
             => BlocksIn(dk2, inode[i].bno) = BlocksIn(a.dk, inode[i].bno)
        /\ \A c \in DataBlocks \ (bmap.bits \cup new) : /\ dk2.table[c] = a.dk.table[c]
                                                        /\ dk2.entries[c] = a.dk.entries[c]
    BY <2>1
  <2> QED BY <1>7, <1>8, <1>11, <2>2, <2>3, AddedBlocks
<1>18. LinksSound'
  <2> SUFFICES ASSUME NEW i \in Inodes
               PROVE  inode'[i].nlink = IF inode'[i].mode = "none" THEN 0
                         ELSE IF inode'[i].mode = "reg" THEN Cardinality(NamesOf(i)')
                         ELSE 2 + gone'[i] + Cardinality(SubdirsOf(i)')
    BY DEF LinksSound
  <2>1. SubdirsOf(i)' = SubdirsOf(i)
    <3>1. \A g \in files : inode'[g.ino].mode = inode[g.ino].mode
      BY <1>11, FileFacts
    <3> QED BY <1>5, <1>6, <1>11, <3>1 DEF SubdirsOf
  <2>2. NamesOf(i)' = IF i = j THEN NamesOf(i) \cup {x} ELSE NamesOf(i)
    BY <1>5, <1>6 DEF NamesOf
  <2>3. inode[i].nlink = IF inode[i].mode = "none" THEN 0
                         ELSE IF inode[i].mode = "reg" THEN Cardinality(NamesOf(i))
                         ELSE 2 + gone[i] + Cardinality(SubdirsOf(i))
    BY DEF Whole, LinksSound
  <2>4. CASE i = j
    <3>1. IsFiniteSet(NamesOf(i)) /\ x \notin NamesOf(i)
      <4>1. NamesOf(i) \subseteq files /\ IsFiniteSet(files) /\ x \notin files
        BY <1>5, <1>6 DEF NamesOf, Whole, FilesSane, MayAdd
      <4> QED BY <4>1, FS_Subset
    <3>2. Cardinality(NamesOf(i)') = Cardinality(NamesOf(i)) + 1
      BY <2>2, <2>4, <3>1, FS_AddElement
    <3> QED BY <1>6, <1>9, <1>11, <2>3, <2>4, <3>2
  <2>5. CASE i # j
    BY <1>6, <1>11, <2>1, <2>2, <2>3, <2>5
  <2> QED BY <2>4, <2>5
<1>19. CountersSound'
  BY <1>6, <1>7, <1>8, AddedCounted
<1> QED BY <1>13, <1>14, <1>15, <1>16, <1>17, <1>18, <1>19 DEF Whole

----
(* A name less.                                                            *)

LEMMA NamedLess ==
  ASSUME Whole, NEW f \in files, files' = files \ {f}, NEW y
  PROVE  Named(y)' = IF y = f.dir THEN Named(y) \ {[ino |-> f.ino, name |-> f.name]} ELSE Named(y)
<1>1. \A g \in files \ {f} : g.dir = f.dir
        => [ino |-> g.ino, name |-> g.name] # [ino |-> f.ino, name |-> f.name]
  BY FileFacts
<1> QED BY <1>1 DEF Named

LEMMA FilesLess ==
  ASSUME Whole, NEW f \in files, files' = files \ {f}, Dirs' = Dirs \ {f.ino},
         \A i \in Inodes \ {f.ino} : inode'[i].mode = inode[i].mode,
         inode[f.ino].mode = "reg" => inode'[f.ino].mode = "reg",
         inode[f.ino].mode = "dir" => \A g \in files : g.dir # f.ino
  PROVE  FilesSane'
<1>1. IsFiniteSet(files')
  BY FS_Subset DEF Whole, FilesSane
<1>2. \A g \in files' : g.ino = f.ino => inode[f.ino].mode = "reg"
  BY FileFacts
<1>3. ASSUME NEW g \in files'
      PROVE  /\ g.ino # RootIno /\ inode'[g.ino].mode # "none" /\ inode'[g.dir].mode = "dir"
             /\ inode'[g.ino].mode = "dir" => inode[g.ino].mode = "dir"
  <2>1. /\ g.ino # RootIno /\ inode[g.ino].mode # "none" /\ inode[g.dir].mode = "dir"
        /\ g.ino \in Inodes /\ g.dir \in Inodes
    BY FileFacts DEF RootIno, Dirs
  <2>2. g.ino # f.ino => inode'[g.ino].mode = inode[g.ino].mode
    BY <2>1
  <2>3. g.ino = f.ino => inode'[g.ino].mode = "reg" /\ inode[g.ino].mode = "reg"
    BY <1>2
  <2>4. g.dir # f.ino
    <3>1. inode[f.ino].mode \in {"reg", "dir"}
      BY FileFacts
    <3> QED BY <2>1, <3>1
  <2>5. inode'[g.dir].mode = "dir"
    BY <2>1, <2>4
  <2> QED BY <2>1, <2>2, <2>3, <2>5
<1>4. \A g, h \in files' : g.dir = h.dir /\ g.name = h.name => g = h
  BY DEF Whole, FilesSane
<1>5. \A g, h \in files' : g.ino = h.ino /\ inode'[g.ino].mode = "dir" => g = h
  BY <1>3 DEF Whole, FilesSane
<1>6. \A d \in Dirs' : d = RootIno \/ \E g \in files' : g.ino = d
  BY DEF Whole, FilesSane
<1> QED BY <1>1, <1>3, <1>4, <1>5, <1>6 DEF FilesSane

\* What delete_entry does when it takes out the right entry.
LEMMA RemoveFromDir ==
  ASSUME Whole, harm = {}, NEW f \in files, ~TakesAnother(f),
         NEW dk2, dk2 = DeleteEntry(disk, inode[f.dir].bno, f.ino)
  PROVE  /\ EntryRemoved(disk, inode[f.dir].bno, Named(f.dir), [ino |-> f.ino, name |-> f.name], dk2)
         /\ OthersStay(dk2, {f.dir}, {})
<1>1. PICK d \in Dirs : d = f.dir
  BY FileFacts
<1>2. PICK i \in Inodes \ {0} : i = f.ino
  BY FileFacts
<1>3. PICK b \in DataBlocks : b = inode[d].bno
  BY DirFacts, InodeFacts
<1>4. PICK s \in Named(d) : s = [ino |-> i, name |-> f.name]
  BY <1>1, <1>2, FileFacts
<1>5. disk \in DiskImage /\ DirSound(disk, b, Named(d))
  BY <1>3, DirFacts, WholeTypes
<1>6. s.ino = i /\ s.name = f.name
  BY <1>4
<1>7. LET hits == {p \in Cells : Cell(disk, b)[p].ino = s.ino}
      IN  ~(hits # {} /\ Cell(disk, b)[Least(hits)].name # s.name)
  BY <1>1, <1>2, <1>3, <1>6 DEF TakesAnother
<1>8. PICK m \in Cells : FirstOf(Cell(disk, b), s.ino, m) /\ Cell(disk, b)[m] = s
  BY <1>5, <1>7, FirstIsIt
<1>9. EntryRemoved(disk, b, Named(d), Cell(disk, b)[m], dk2)
  <2>1. dk2 = DeleteEntry(disk, b, i) /\ FirstOf(Cell(disk, b), i, m)
    BY <1>1, <1>2, <1>3, <1>6, <1>8
  <2> QED BY <1>5, <2>1, DeleteEntrySound
<1>10. PICK T \in SUBSET {j \in Inodes : inode[j].mode # "none"} : T = {d}
  BY DirFacts
<1>11. PICK new \in SUBSET (DataBlocks \ bmap.bits) : new = {}
  OBVIOUS
<1>12. dk2 \in DiskImage
  BY <1>9 DEF EntryRemoved
<1>13. \A c \in DataBlocks : (\A x \in T : c # inode[x].bno) => dk2.table[c] = disk.table[c]
  BY <1>3, <1>9, <1>10 DEF EntryRemoved
<1>14. \A c \in DataBlocks : c \notin new /\ (\A x \in T : c \notin BlocksIn(disk, inode[x].bno))
          => dk2.entries[c] = disk.entries[c]
  BY <1>3, <1>9, <1>10 DEF EntryRemoved
<1>15. OthersStay(dk2, T, new)
  BY <1>12, <1>13, <1>14, OthersKept
<1> QED BY <1>1, <1>2, <1>3, <1>4, <1>8, <1>9, <1>10, <1>11, <1>15

\* The name of a regular file goes.
LEMMA UnlinkStep ==
  ASSUME Whole, harm = {}, harm' = {}, NEW f \in files, Unlink(f)
  PROVE  Whole'
<1>1. PICK dk2 : dk2 = DeleteEntry(disk, inode[f.dir].bno, f.ino)
  OBVIOUS
<1>2. PICK j \in Inodes \ {0} : j = f.ino
  BY FileFacts
<1>3. PICK d \in Dirs : d = f.dir
  BY FileFacts
<1>4. /\ ~TakesAnother(f) /\ inode[j].mode = "reg"
      /\ disk' = dk2 /\ inode' = [inode EXCEPT ![j].nlink = @ - 1] /\ files' = files \ {f}
      /\ UNCHANGED <<imap, bmap, gone, dropped, failed, doubled>>
  BY <1>1, <1>2 DEF Unlink, HarmOf
<1>5. PICK e : e = [ino |-> f.ino, name |-> f.name]
  OBVIOUS
<1>6. /\ EntryRemoved(disk, inode[d].bno, Named(d), e, dk2)
      /\ OthersStay(dk2, {d}, {})
  BY <1>1, <1>3, <1>4, <1>5, RemoveFromDir
<1>7. inode \in [Inodes -> InodeRec] /\ files \in SUBSET File /\ IsFiniteSet(files)
  BY WholeTypes DEF Whole, FilesSane
<1>8. /\ IsFiniteSet(NamesOf(j)) /\ f \in NamesOf(j)
      /\ Cardinality(NamesOf(j)) \in Nat /\ Cardinality(NamesOf(j) \ {f}) \in Nat
      /\ Cardinality(NamesOf(j) \ {f}) = Cardinality(NamesOf(j)) - 1
  <2>1. NamesOf(j) \subseteq files /\ f \in NamesOf(j)
    BY <1>2 DEF NamesOf
  <2>2. IsFiniteSet(NamesOf(j))
    BY <1>7, <2>1, FS_Subset
  <2> QED BY <2>1, <2>2, FS_RemoveElement, FS_CardinalityType
<1>9. inode[j].nlink = Cardinality(NamesOf(j))
  BY <1>4 DEF Whole, LinksSound
<1>10. PICK n \in Nat : n = inode[j].nlink - 1
  BY <1>8, <1>9
<1>11. inode' = [inode EXCEPT ![j].nlink = n] /\ inode[j].mode # "none"
  BY <1>4, <1>10
<1>12. /\ inode' \in [Inodes -> InodeRec] /\ inode'[j].nlink = n
       /\ \A i \in Inodes : inode'[i].mode = inode[i].mode /\ inode'[i].bno = inode[i].bno
       /\ \A i \in Inodes \ {j} : inode'[i] = inode[i]
       /\ \A i \in Inodes : inode[i].mode = "none" => inode'[i] = inode[i]
  BY <1>11, LinkMoved
<1>13. dk2 \in DiskImage /\ DirSound(dk2, inode[d].bno, Named(d) \ {e})
  BY <1>6 DEF EntryRemoved
<1>14. TypeOK' /\ MetaMarked(bmap')
  <2>1. files' \in SUBSET File
    BY <1>4, <1>7
  <2> QED BY <1>4, <1>12, <1>13, <2>1 DEF Whole, TypeOK
<1>15. NodesSane' /\ Dirs' = Dirs
  BY <1>4, <1>12, NodesKept
<1>16. FilesSane'
  <2>1. Dirs' = Dirs \ {f.ino}
    BY <1>2, <1>4, <1>15 DEF Dirs
  <2> QED BY <1>2, <1>4, <1>12, <2>1, FilesLess
<1>17. DirsSound'
  <2> SUFFICES ASSUME NEW y \in Dirs PROVE DirSound(dk2, inode[y].bno, Named(y)')
    BY <1>4, <1>12, <1>15 DEF DirsSound, Dirs
  <2>1. Named(y)' = IF y = d THEN Named(y) \ {e} ELSE Named(y)
    BY <1>3, <1>4, <1>5, NamedLess
  <2>2. y # d => DirSound(dk2, inode[y].bno, Named(y))
    BY <1>6 DEF OthersStay
  <2> QED BY <1>13, <2>1, <2>2
<1>18. BlocksAccounted' /\ LostApart' /\ FreeBlocksAreClear'
  <2>1. ASSUME NEW i \in Inodes, inode[i].mode # "none"
        PROVE  BlocksIn(disk', inode[i].bno) = BlocksIn(disk, inode[i].bno)
    <3>1. CASE i = d
      BY <1>4, <1>6, <3>1 DEF EntryRemoved
    <3>2. CASE i # d
      <4>1. BlocksIn(dk2, inode[i].bno) = BlocksIn(disk, inode[i].bno)
        BY <1>6, <2>1, <3>2 DEF OthersStay
      <4> QED BY <1>4, <4>1
    <3> QED BY <3>1, <3>2
  <2>2. \A c \in DataBlocks \ bmap.bits : disk'.table[c] = NoTable /\ disk'.entries[c] = NoEntries
    BY <1>4, <1>6 DEF OthersStay
  <2> QED BY <1>4, <1>12, <2>1, <2>2, BlocksSame
<1>19. LinksSound'
  <2> SUFFICES ASSUME NEW i \in Inodes
               PROVE  inode'[i].nlink = IF inode'[i].mode = "none" THEN 0
                         ELSE IF inode'[i].mode = "reg" THEN Cardinality(NamesOf(i)')
                         ELSE 2 + gone'[i] + Cardinality(SubdirsOf(i)')
    BY DEF LinksSound
  <2>1. SubdirsOf(i)' = SubdirsOf(i)
    <3>1. \A g \in files : inode'[g.ino].mode = inode[g.ino].mode
      BY <1>12, FileFacts
    <3> QED BY <1>2, <1>4, <3>1 DEF SubdirsOf
  <2>2. NamesOf(i)' = IF i = j THEN NamesOf(i) \ {f} ELSE NamesOf(i)
    BY <1>2, <1>4 DEF NamesOf
  <2>3. inode[i].nlink = IF inode[i].mode = "none" THEN 0
                         ELSE IF inode[i].mode = "reg" THEN Cardinality(NamesOf(i))
                         ELSE 2 + gone[i] + Cardinality(SubdirsOf(i))
    BY DEF Whole, LinksSound
  <2>4. CASE i = j
    BY <1>4, <1>8, <1>9, <1>10, <1>12, <2>2, <2>4
  <2>5. CASE i # j
    BY <1>4, <1>12, <2>1, <2>2, <2>3, <2>5
  <2> QED BY <2>4, <2>5
<1>20. CountersSound'
  BY <1>4 DEF Whole, CountersSound, BlocksCounted, InodesCounted
<1> QED BY <1>14, <1>15, <1>16, <1>17, <1>18, <1>19, <1>20 DEF Whole

----
(* rmdir of a directory that is empty.                                     *)

\* A directory has one name, so its entry is the one that is found.
LEMMA OnlyEntry ==
  ASSUME Whole, harm = {}, NEW f \in files, inode[f.ino].mode = "dir"
  PROVE  ~TakesAnother(f)
<1>1. PICK b \in DataBlocks : b = inode[f.dir].bno
  BY FileFacts, DirFacts, InodeFacts
<1>2. DirSound(disk, b, Named(f.dir)) /\ disk \in DiskImage
  BY <1>1, FileFacts, DirFacts, WholeTypes
<1>3. PICK c : c = Cell(disk, b)
  OBVIOUS
<1>4. PICK n : n = disk.table[b].nr_of_entries
  OBVIOUS
<1>5. c \in [Cells -> Entry] /\ n \in 0..(M * E) /\ Filled(c, n, Named(f.dir))
  BY <1>2, <1>3, <1>4, CellType, ImageFacts DEF DirSound
<1>6. ASSUME NEW q \in Cells, c[q].ino = f.ino
      PROVE  c[Least({p \in Cells : c[p].ino = f.ino})].name = f.name
  <2>1. PICK m \in Cells : FirstOf(c, f.ino, m) /\ m = Least({p \in Cells : c[p].ino = f.ino})
    BY <1>5, <1>6, FirstExists
  <2>2. c[m].ino = f.ino /\ f.ino # 0
    BY <2>1, FileFacts DEF FirstOf
  <2>3. c[m] \in Named(f.dir)
    BY <1>5, <2>2, FilledFacts DEF Filled
  <2>4. PICK g \in files : c[m] = [ino |-> g.ino, name |-> g.name]
    BY <2>3 DEF Named
  <2>5. g = f
    BY <2>2, <2>4, FileFacts
  <2> QED BY <2>1, <2>4, <2>5
<1> QED BY <1>1, <1>3, <1>6 DEF TakesAnother

\* Cleaning a block is nothing to a directory it does not belong to.
LEMMA CleanedKept ==
  ASSUME NEW dk \in DiskImage, NEW t \in DataBlocks, NEW dk2, dk2 = CleanBlock(dk, t)
  PROVE  /\ dk2 \in DiskImage /\ dk2.table[t] = NoTable /\ dk2.entries[t] = NoEntries
         /\ \A c \in DataBlocks \ {t} : dk2.table[c] = dk.table[c] /\ dk2.entries[c] = dk.entries[c]
         /\ \A c \in DataBlocks \ {t} : BlocksIn(dk2, c) = BlocksIn(dk, c)
         /\ \A c \in DataBlocks \ {t} : \A S : DirSound(dk, c, S) /\ t \notin BlocksIn(dk, c)
               => DirSound(dk2, c, S)
<1>1. dk.table \in [DataBlocks -> Table] /\ dk.entries \in [DataBlocks -> [0..(E - 1) -> Entry]]
      /\ dk = [table |-> dk.table, entries |-> dk.entries]
  BY DEF DiskImage
<1>2. dk2 = [table |-> [dk.table EXCEPT ![t] = NoTable],
             entries |-> [dk.entries EXCEPT ![t] = NoEntries]]
  BY <1>1 DEF CleanBlock
<1>3. /\ dk2.table = [dk.table EXCEPT ![t] = NoTable]
      /\ dk2.entries = [dk.entries EXCEPT ![t] = NoEntries]
  BY <1>2
<1>4. /\ [dk.table EXCEPT ![t] = NoTable] \in [DataBlocks -> Table]
      /\ [dk.entries EXCEPT ![t] = NoEntries] \in [DataBlocks -> [0..(E - 1) -> Entry]]
  BY <1>1, TableFacts, EntryFacts
<1>5. dk2 \in DiskImage
  BY <1>2, <1>4 DEF DiskImage
<1>6. /\ dk2.table[t] = NoTable /\ dk2.entries[t] = NoEntries
      /\ \A c \in DataBlocks \ {t} : dk2.table[c] = dk.table[c] /\ dk2.entries[c] = dk.entries[c]
  BY <1>1, <1>3
<1>7. \A c \in DataBlocks \ {t} : BlocksIn(dk2, c) = BlocksIn(dk, c)
  BY <1>6 DEF BlocksIn
<1>8. ASSUME NEW c \in DataBlocks \ {t}, NEW S, DirSound(dk, c, S), t \notin BlocksIn(dk, c)
      PROVE  DirSound(dk2, c, S)
  <2>1. \A x \in BlocksIn(dk, c) : x \in DataBlocks \ {t}
    BY <1>8, ImageFacts DEF BlocksIn
  <2>2. \A x \in BlocksIn(dk, c) : dk2.entries[x] = dk.entries[x]
    BY <1>6, <2>1
  <2>3. dk2.table[c] = dk.table[c]
    BY <1>6
  <2> QED BY <1>5, <1>8, <2>2, <2>3, DirKept
<1> QED BY <1>5, <1>6, <1>7, <1>8

LEMMA RmdirStep ==
  ASSUME Whole, harm = {}, harm' = {}, NEW f \in files, Rmdir(f)
  PROVE  Whole'
<1>1. PICK i \in Inodes \ {0} : i = f.ino
  BY FileFacts
<1>2. PICK d \in Dirs : d = f.dir
  BY FileFacts
<1>3. inode[i].mode = "dir" /\ i \in Dirs
  BY <1>1 DEF Rmdir, Dirs
<1>4. PICK t \in DataBlocks : t = inode[i].bno
  BY <1>3, InodeFacts
<1>5. PICK dk1 : dk1 = DeleteEntry(disk, inode[d].bno, i)
  OBVIOUS
<1>6. PICK dk2 : dk2 = CleanBlock(dk1, t)
  OBVIOUS
<1>7. /\ disk' = dk2 /\ imap' = PutBackInode(imap, i) /\ bmap' = PutBackBlock(bmap, t)
      /\ inode' = [inode EXCEPT ![i] = NoInode] /\ files' = files \ {f}
      /\ gone' = [gone EXCEPT ![d] = @ + 1]
      /\ dropped' = dropped \cup ({disk.table[t].blocks[k] : k \in Slots} \ {0})
      /\ ~(NrOfEntries(i) > 0)
      /\ UNCHANGED <<failed, doubled>>
  BY <1>1, <1>2, <1>4, <1>5, <1>6 DEF Rmdir, Slots
<1>8. /\ imap \in InodeMap /\ bmap \in BlockMap /\ disk \in DiskImage /\ MetaMarked(bmap)
      /\ inode \in [Inodes -> InodeRec] /\ files \in SUBSET File /\ gone \in [Inodes -> Nat]
      /\ failed \in Nat /\ doubled \in Nat /\ IsFiniteSet(files)
  BY WholeTypes DEF Whole, FilesSane
<1>9. PICK e : e = [ino |-> f.ino, name |-> f.name]
  OBVIOUS
<1>10. EntryRemoved(disk, inode[d].bno, Named(d), e, dk1) /\ OthersStay(dk1, {d}, {})
  <2>1. ~TakesAnother(f)
    BY <1>1, <1>3, OnlyEntry
  <2>2. dk1 = DeleteEntry(disk, inode[f.dir].bno, f.ino)
    BY <1>1, <1>2, <1>5
  <2> QED BY <1>2, <1>9, <2>1, <2>2, RemoveFromDir
\* The directory is empty, so nothing has a name in it.
<1>11. Named(i) = {}
  <2>1. DirSound(disk, t, Named(i))
    BY <1>3, <1>4, DirFacts
  <2>2. disk.table[t].nr_of_entries \in 0..(M * E)
    BY <1>8, ImageFacts
  <2>3. M * E \in Nat
    BY ConstantFacts
  <2>4. disk.table[t].nr_of_entries = 0
    BY <1>4, <1>7, <2>2, <2>3 DEF NrOfEntries
  <2>5. Cell(disk, t) \in [Cells -> Entry] /\ Filled(Cell(disk, t), disk.table[t].nr_of_entries, Named(i))
    BY <1>8, <2>1, CellType DEF DirSound
  <2> QED BY <2>2, <2>4, <2>5, FilledFacts
<1>12. \A g \in files : g.dir # i
  BY <1>11 DEF Named
<1>13. d # i /\ \A g \in files : g.ino = i => g = f
  BY <1>1, <1>2, <1>3, <1>12, FileFacts
<1>14. /\ t \in bmap.bits /\ BlocksOf(i) = {t} \cup BlocksIn(disk, t) /\ t \notin BlocksIn(disk, t)
       /\ BlocksIn(disk, t) \subseteq DataBlocks
       /\ \A j \in Inodes \ {i} : BlocksOf(i) \cap BlocksOf(j) = {}
  BY <1>3, <1>4, DirFacts, InodeFacts DEF DirSound
<1>15. {disk.table[t].blocks[k] : k \in Slots} \ {0} = BlocksIn(disk, t)
  <2>1. DirTable(disk, t)
    BY <1>3, <1>4, DirFacts DEF DirSound
  <2> QED BY <2>1 DEF DirTable, BlocksIn
<1>16. dropped' = dropped \cup BlocksIn(disk, t) /\ Lost' = Lost \cup BlocksIn(disk, t)
  BY <1>7, <1>15 DEF Lost
<1>17. /\ inode' \in [Inodes -> InodeRec] /\ inode'[i] = NoInode /\ inode'[i].mode = "none"
       /\ \A j \in Inodes \ {i} : inode'[j] = inode[j]
  <2>1. NoInode \in InodeRec /\ NoInode.mode = "none"
    BY DEF NoInode, InodeRec
  <2> QED BY <1>7, <1>8, <2>1
<1>18. /\ imap'.bits = imap.bits \ {i} /\ imap'.nfree = U32(imap.nfree + 1) /\ imap' \in InodeMap
       /\ bmap'.bits = bmap.bits \ {t} /\ bmap'.nfree = U32(bmap.nfree + 1) /\ bmap' \in BlockMap
       /\ MetaMarked(bmap')
  BY <1>7, <1>8, PutBackInodeSound, PutBackBlockSound
<1>19. dk1 \in DiskImage /\ DirSound(dk1, inode[d].bno, Named(d) \ {e})
       /\ BlocksIn(dk1, inode[d].bno) = BlocksIn(disk, inode[d].bno)
  BY <1>10 DEF EntryRemoved
<1>20. /\ dk2 \in DiskImage /\ dk2.table[t] = NoTable /\ dk2.entries[t] = NoEntries
       /\ \A c \in DataBlocks \ {t} : dk2.table[c] = dk1.table[c] /\ dk2.entries[c] = dk1.entries[c]
       /\ \A c \in DataBlocks \ {t} : BlocksIn(dk2, c) = BlocksIn(dk1, c)
       /\ \A c \in DataBlocks \ {t} : \A S : DirSound(dk1, c, S) /\ t \notin BlocksIn(dk1, c)
             => DirSound(dk2, c, S)
  BY <1>6, <1>19, CleanedKept
\* What is left of the others.
<1>21. ASSUME NEW j \in Inodes \ {i}, inode[j].mode # "none"
       PROVE  /\ inode[j].bno \in DataBlocks \ {t} /\ t \notin BlocksIn(disk, inode[j].bno)
              /\ BlocksIn(dk1, inode[j].bno) = BlocksIn(disk, inode[j].bno)
              /\ BlocksIn(dk2, inode[j].bno) = BlocksIn(disk, inode[j].bno)
  <2>1. inode[j].bno \in DataBlocks /\ BlocksOf(j) = {inode[j].bno} \cup BlocksIn(disk, inode[j].bno)
    BY <1>21, InodeFacts
  <2>2. BlocksOf(i) \cap BlocksOf(j) = {}
    BY <1>14
  <2>3. inode[j].bno \in DataBlocks \ {t} /\ t \notin BlocksIn(disk, inode[j].bno)
    BY <1>14, <2>1, <2>2
  <2>4. BlocksIn(dk1, inode[j].bno) = BlocksIn(disk, inode[j].bno)
    <3>1. j # d => BlocksIn(dk1, inode[j].bno) = BlocksIn(disk, inode[j].bno)
      BY <1>10, <1>21 DEF OthersStay
    <3> QED BY <1>19, <3>1
  <2> QED BY <1>20, <2>3, <2>4
<1>22. Dirs' = Dirs \ {i}
  BY <1>17 DEF Dirs
<1>23. TypeOK'
  <2>1. files' \in SUBSET File /\ dropped' \in SUBSET DataBlocks
    BY <1>7, <1>8, <1>14, <1>16 DEF Whole, TypeOK
  <2>2. gone' \in [Inodes -> Nat]
    <3>1. d \in Inodes
      BY DEF Dirs
    <3>2. PICK n \in Nat : n = gone[d] + 1
      BY <1>8, <3>1
    <3> QED BY <1>7, <1>8, <3>2
  <2> QED BY <1>7, <1>8, <1>17, <1>18, <1>20, <2>1, <2>2 DEF TypeOK, InodeMap, BlockMap
<1>24. NodesSane'
  <2>1. imap'.bits = {j \in Inodes : inode'[j].mode # "none"}
    BY <1>17, <1>18 DEF Whole, NodesSane
  <2>2. inode'[RootIno].mode = "dir"
    BY <1>17, ConstantFacts DEF Whole, NodesSane, RootIno
  <2>3. \A j \in Inodes : IF inode'[j].mode = "none" THEN inode'[j] = NoInode ELSE inode'[j].bno # 0
    BY <1>17 DEF Whole, NodesSane
  <2> QED BY <2>1, <2>2, <2>3 DEF NodesSane
<1>25. FilesSane'
  <2>1. Dirs' = Dirs \ {f.ino} /\ \A j \in Inodes \ {f.ino} : inode'[j].mode = inode[j].mode
    BY <1>1, <1>17, <1>22
  <2>2. inode[f.ino].mode = "dir" /\ \A g \in files : g.dir # f.ino
    BY <1>1, <1>3, <1>12
  <2> QED BY <1>7, <2>1, <2>2, FilesLess
<1>26. DirsSound'
  <2> SUFFICES ASSUME NEW y \in Dirs \ {i} PROVE DirSound(dk2, inode[y].bno, Named(y)')
    BY <1>7, <1>17, <1>22 DEF DirsSound, Dirs
  <2>1. Named(y)' = IF y = d THEN Named(y) \ {e} ELSE Named(y)
    BY <1>2, <1>7, <1>9, NamedLess
  <2>2. y # d => DirSound(dk1, inode[y].bno, Named(y))
    BY <1>10 DEF OthersStay
  <2>3. DirSound(dk1, inode[y].bno, Named(y)')
    BY <1>19, <2>1, <2>2
  <2>4. inode[y].bno \in DataBlocks \ {t} /\ t \notin BlocksIn(dk1, inode[y].bno)
    BY <1>21, DirFacts
  <2> QED BY <1>20, <2>3, <2>4
<1>27. ASSUME NEW j \in Inodes PROVE BlocksOf(j)' = IF j = i THEN {} ELSE BlocksOf(j)
  <2>1. BlocksOf(j)' = IF inode'[j].mode = "none" THEN {}
                       ELSE {inode'[j].bno} \cup BlocksIn(disk', inode'[j].bno)
    BY DEF BlocksOf, BlocksIn, Slots
  <2>2. j # i /\ inode[j].mode # "none" => BlocksIn(dk2, inode[j].bno) = BlocksIn(disk, inode[j].bno)
    BY <1>21
  <2>3. CASE j = i
    BY <1>17, <2>1, <2>3
  <2>4. CASE j # i
    BY <1>7, <1>17, <2>1, <2>2, <2>4, BlocksOfInode
  <2> QED BY <2>3, <2>4
<1>28. /\ \A j, k \in Inodes : j # k => BlocksOf(j) \cap BlocksOf(k) = {}
       /\ bmap.bits \cap DataBlocks = (UNION {BlocksOf(j) : j \in Inodes}) \cup Lost
       /\ \A j \in Inodes : BlocksOf(j) \cap Lost = {}
  BY DEF Whole, BlocksAccounted, LostApart, Lost
<1>29. BlocksAccounted'
  <2>1. \A j, k \in Inodes : j # k => BlocksOf(j)' \cap BlocksOf(k)' = {}
    BY <1>27, <1>28
  <2>2. \A x : x \in UNION {BlocksOf(j)' : j \in Inodes} <=> \E j \in Inodes \ {i} : x \in BlocksOf(j)
    BY <1>27
  <2>3. \A x : x \in bmap.bits \cap DataBlocks <=> (\E j \in Inodes : x \in BlocksOf(j)) \/ x \in Lost
    BY <1>28
  <2>4. t \notin Lost /\ \A j \in Inodes \ {i} : t \notin BlocksOf(j)
    BY <1>14, <1>28
  <2>5. \A x : x \in bmap'.bits \cap DataBlocks
            <=> (\E j \in Inodes \ {i} : x \in BlocksOf(j)) \/ x \in Lost \cup BlocksIn(disk, t)
    <3>1. \A x : x \in BlocksOf(i) <=> x = t \/ x \in BlocksIn(disk, t)
      BY <1>14
    <3>2. \A x : x \in bmap'.bits \cap DataBlocks <=> x \in bmap.bits \cap DataBlocks /\ x # t
      BY <1>18
    <3> QED BY <1>14, <2>3, <2>4, <3>1, <3>2
  <2>6. bmap'.bits \cap DataBlocks = (UNION {BlocksOf(j)' : j \in Inodes}) \cup Lost'
    BY <1>16, <2>2, <2>5
  <2> QED BY <2>1, <2>6 DEF BlocksAccounted, Lost
<1>30. LostApart'
  <2>1. \A j \in Inodes \ {i} : BlocksOf(j) \cap BlocksIn(disk, t) = {}
    BY <1>14
  <2> QED BY <1>16, <1>27, <1>28, <2>1 DEF LostApart
<1>31. FreeBlocksAreClear'
  <2>1. \A c \in DataBlocks \ bmap.bits : dk1.table[c] = NoTable /\ dk1.entries[c] = NoEntries
    BY <1>10 DEF OthersStay
  <2>2. \A c \in DataBlocks \ bmap'.bits : dk2.table[c] = NoTable /\ dk2.entries[c] = NoEntries
    BY <1>18, <1>20, <2>1
  <2> QED BY <1>7, <2>2 DEF FreeBlocksAreClear
<1>32. LinksSound'
  <2> SUFFICES ASSUME NEW j \in Inodes
               PROVE  inode'[j].nlink = IF inode'[j].mode = "none" THEN 0
                         ELSE IF inode'[j].mode = "reg" THEN Cardinality(NamesOf(j)')
                         ELSE 2 + gone'[j] + Cardinality(SubdirsOf(j)')
    BY DEF LinksSound
  <2>1. CASE j = i
    BY <1>17, <2>1 DEF NoInode
  <2>2. CASE j # i
    <3>1. NamesOf(j)' = NamesOf(j)
      BY <1>1, <1>7, <2>2 DEF NamesOf
    <3>2. SubdirsOf(j)' = IF j = d THEN SubdirsOf(j) \ {f} ELSE SubdirsOf(j)
      <4>1. \A g \in files \ {f} : inode'[g.ino].mode = inode[g.ino].mode
        BY <1>13, <1>17, FileFacts
      <4> QED BY <1>2, <1>7, <4>1 DEF SubdirsOf
    <3>3. inode'[j] = inode[j]
      BY <1>17, <2>2
    <3>4. inode[j].nlink = IF inode[j].mode = "none" THEN 0
                           ELSE IF inode[j].mode = "reg" THEN Cardinality(NamesOf(j))
                           ELSE 2 + gone[j] + Cardinality(SubdirsOf(j))
      BY DEF Whole, LinksSound
    <3>5. CASE j = d
      <4>1. IsFiniteSet(SubdirsOf(d)) /\ f \in SubdirsOf(d)
        <5>1. SubdirsOf(d) \subseteq files /\ f \in SubdirsOf(d)
          BY <1>1, <1>2, <1>3 DEF SubdirsOf
        <5> QED BY <1>8, <5>1, FS_Subset
      <4>2. /\ Cardinality(SubdirsOf(d) \ {f}) = Cardinality(SubdirsOf(d)) - 1
            /\ Cardinality(SubdirsOf(d)) \in Nat
        BY <4>1, FS_RemoveElement, FS_CardinalityType
      <4>3. gone'[d] = gone[d] + 1 /\ gone[d] \in Nat
        BY <1>7, <1>8 DEF Dirs
      <4>4. inode[j].mode = "dir"
        BY <3>5 DEF Dirs
      <4> QED BY <3>2, <3>3, <3>4, <3>5, <4>2, <4>3, <4>4
    <3>6. CASE j # d
      <4>1. gone'[j] = gone[j]
        BY <1>7, <1>8, <3>6
      <4> QED BY <3>1, <3>2, <3>3, <3>4, <3>6, <4>1
    <3> QED BY <3>5, <3>6
  <2> QED BY <2>1, <2>2
<1>33. CountersSound'
  <2> DEFINE k == Excess + 1 + doubled - failed
  <2>1. BlocksCounted(bmap, k) /\ InodesCounted(imap, doubled) /\ k \in Int
    BY <1>8, ConstantFacts DEF Whole, CountersSound
  <2> HIDE DEF k
  <2>2. InodesCounted(imap', doubled)
    <3>1. i \in Inodes \cap imap.bits
      BY <1>3 DEF Whole, NodesSane
    <3> QED BY <1>8, <1>18, <2>1, <3>1, InodesCountedStep
  <2>3. BlocksCounted(bmap', k)
    <3>1. t \in DataBlocks \cap bmap.bits
      BY <1>14
    <3> QED BY <1>8, <1>18, <2>1, <3>1, BlocksCountedStep
  <2> QED BY <1>7, <2>2, <2>3 DEF CountersSound, BlocksCounted, InodesCounted, k
<1> QED BY <1>18, <1>23, <1>24, <1>25, <1>26, <1>29, <1>30, <1>31, <1>32, <1>33 DEF Whole

----
(* rename to a free name.                                                  *)

LEMMA SwapCounted ==
  ASSUME NEW S, IsFiniteSet(S), NEW f \in S, NEW x, x \notin S
  PROVE  /\ Cardinality((S \ {f}) \cup {x}) = Cardinality(S) /\ Cardinality(S) \in Nat
         /\ Cardinality(S \ {f}) = Cardinality(S) - 1 /\ Cardinality(S \cup {x}) = Cardinality(S) + 1
<1>1. IsFiniteSet(S \ {f}) /\ Cardinality(S \ {f}) = Cardinality(S) - 1
  BY FS_RemoveElement
<1>2. Cardinality(S) \in Nat /\ Cardinality(S \cup {x}) = Cardinality(S) + 1
  BY FS_CardinalityType, FS_AddElement
<1>3. Cardinality((S \ {f}) \cup {x}) = Cardinality(S \ {f}) + 1
  BY <1>1, FS_AddElement
<1> QED BY <1>1, <1>2, <1>3

LEMMA FilesSwapped ==
  ASSUME Whole, NEW f \in files, NEW x \in File, files' = (files \ {f}) \cup {x}, x.ino = f.ino,
         x.dir \in Dirs, \A g \in files : ~(g.dir = x.dir /\ g.name = x.name),
         \A i \in Inodes : inode'[i].mode = inode[i].mode
  PROVE  FilesSane'
<1>1. IsFiniteSet(files')
  <2>1. IsFiniteSet(files \ {f})
    BY FS_Subset DEF Whole, FilesSane
  <2> QED BY <2>1, FS_AddElement
<1>2. \A g \in files' : g.ino # RootIno /\ inode'[g.ino].mode # "none" /\ inode'[g.dir].mode = "dir"
  <2>1. \A g \in files' : g.ino \in Inodes \ {0} /\ inode[g.ino].mode # "none" /\ g.dir \in Dirs
    BY FileFacts
  <2> QED BY <2>1 DEF RootIno, Dirs
<1>3. \A g, h \in files' : g.dir = h.dir /\ g.name = h.name => g = h
  BY DEF Whole, FilesSane
<1>4. ASSUME NEW g \in files', NEW h \in files', g.ino = h.ino, inode'[g.ino].mode = "dir"
      PROVE  g = h
  <2>1. PICK g0 \in files : g0.ino = g.ino /\ ((g = x /\ g0 = f) \/ (g = g0 /\ g # f))
    OBVIOUS
  <2>2. PICK h0 \in files : h0.ino = h.ino /\ ((h = x /\ h0 = f) \/ (h = h0 /\ h # f))
    OBVIOUS
  <2>3. inode[g0.ino].mode = "dir"
    BY <1>4, <2>1, FileFacts
  <2>4. g0 = h0
    BY <1>4, <2>1, <2>2, <2>3 DEF Whole, FilesSane
  <2> QED BY <2>1, <2>2, <2>4
<1>5. \A d \in Dirs' : d = RootIno \/ \E g \in files' : g.ino = d
  <2>1. \A d \in Dirs : d = RootIno \/ \E g \in files : g.ino = d
    BY DEF Whole, FilesSane
  <2>2. Dirs' = Dirs
    BY DEF Dirs
  <2> QED BY <2>1, <2>2
<1> QED BY <1>1, <1>2, <1>3, <1>4, <1>5 DEF FilesSane

LEMMA NamedSwapped ==
  ASSUME Whole, NEW f \in files, NEW x, files' = (files \ {f}) \cup {x}, NEW y
  PROVE  Named(y)' = (Named(y) \ (IF y = f.dir THEN {[ino |-> f.ino, name |-> f.name]} ELSE {}))
                      \cup (IF y = x.dir THEN {[ino |-> x.ino, name |-> x.name]} ELSE {})
<1>1. \A g \in files \ {f} : g.dir = f.dir
        => [ino |-> g.ino, name |-> g.name] # [ino |-> f.ino, name |-> f.name]
  BY FileFacts
<1> QED BY <1>1 DEF Named

(* The link that a directory is to its parent moves with it.               *)
LEMMA RelinkedNodes ==
  ASSUME Whole, NEW f \in files, NEW d \in Dirs, inode' = Relinked(inode, f, d)
  PROVE  /\ inode' \in [Inodes -> InodeRec]
         /\ \A i \in Inodes : inode'[i].mode = inode[i].mode /\ inode'[i].bno = inode[i].bno
         /\ \A i \in Inodes : i \notin {d, f.dir} => inode'[i] = inode[i]
         /\ \A i \in Inodes : inode[i].mode = "none" => inode'[i] = inode[i]
         /\ inode[f.ino].mode # "dir" => inode' = inode
         /\ inode[f.ino].mode = "dir" /\ d = f.dir => inode'[d].nlink = inode[d].nlink
         /\ inode[f.ino].mode = "dir" /\ d # f.dir
               => inode'[d].nlink = inode[d].nlink + 1 /\ inode'[f.dir].nlink = inode[f.dir].nlink - 1
<1>1. inode \in [Inodes -> InodeRec]
  BY WholeTypes
<1>2. CASE inode[f.ino].mode # "dir"
  BY <1>1, <1>2 DEF Relinked
<1>3. CASE inode[f.ino].mode = "dir"
  <2>1. PICK p \in Dirs : p = f.dir
    BY FileFacts
  <2>2. d \in Inodes /\ p \in Inodes /\ inode[d].mode = "dir" /\ inode[p].mode = "dir"
    BY DEF Dirs
  <2>3. PICK n \in Nat : n = inode[d].nlink + 1
    BY <1>1, <2>2 DEF InodeRec
  <2>4. PICK u : u = [inode[d] EXCEPT !.nlink = n]
    OBVIOUS
  <2>5. inode[d] \in InodeRec /\ inode[p] \in InodeRec
    BY <1>1, <2>2
  <2>6. u \in InodeRec /\ u.mode = inode[d].mode /\ u.bno = inode[d].bno /\ u.nlink = n
    BY <2>4, <2>5 DEF InodeRec
  <2>7. PICK mid : mid = [inode EXCEPT ![d] = u]
    OBVIOUS
  <2>8. mid \in [Inodes -> InodeRec] /\ mid[d] = u /\ \A i \in Inodes \ {d} : mid[i] = inode[i]
    BY <1>1, <2>2, <2>6, <2>7
  <2>9. inode[p].nlink - 1 \in Nat
    <3>1. gone[p] \in Nat
      BY <2>2, WholeTypes
    <3>2. Cardinality(SubdirsOf(p)) \in Nat
      <4>1. SubdirsOf(p) \subseteq files /\ IsFiniteSet(files)
        BY DEF SubdirsOf, Whole, FilesSane
      <4> QED BY <4>1, FS_Subset, FS_CardinalityType
    <3>3. inode[p].nlink = 2 + gone[p] + Cardinality(SubdirsOf(p))
      BY <2>2 DEF Whole, LinksSound
    <3> QED BY <3>1, <3>2, <3>3
  <2>10. PICK o : o = mid[p]
    OBVIOUS
  <2>11. o \in InodeRec /\ o.nlink - 1 \in Nat
    <3>1. o \in InodeRec
      BY <2>2, <2>8, <2>10
    <3>2. CASE p = d
      <4>1. o.nlink = n /\ inode[d].nlink \in Nat
        BY <2>5, <2>6, <2>8, <2>10, <3>2 DEF InodeRec
      <4> QED BY <2>3, <3>1, <4>1
    <3>3. CASE p # d
      <4>1. o.nlink = inode[p].nlink
        BY <2>2, <2>8, <2>10, <3>3
      <4> QED BY <2>9, <3>1, <4>1
    <3> QED BY <3>2, <3>3
  <2>12. PICK w : w = [o EXCEPT !.nlink = o.nlink - 1]
    OBVIOUS
  <2>13. w \in InodeRec /\ w.mode = o.mode /\ w.bno = o.bno /\ w.nlink = o.nlink - 1
    BY <2>11, <2>12 DEF InodeRec
  <2>14. inode' = [mid EXCEPT ![p] = w]
    <3>1. inode' = [[inode EXCEPT ![d].nlink = @ + 1] EXCEPT ![p].nlink = @ - 1]
      BY <1>3, <2>1 DEF Relinked
    <3>2. [inode EXCEPT ![d].nlink = @ + 1] = mid
      BY <1>1, <2>2, <2>3, <2>4, <2>7
    <3>3. [mid EXCEPT ![p].nlink = @ - 1] = [mid EXCEPT ![p] = w]
      BY <2>2, <2>8, <2>10, <2>12
    <3> QED BY <3>1, <3>2, <3>3
  <2>15. inode' \in [Inodes -> InodeRec] /\ inode'[p] = w /\ \A i \in Inodes \ {p} : inode'[i] = mid[i]
    BY <2>2, <2>8, <2>13, <2>14
  <2>16. \A i \in Inodes : i \notin {d, p} => inode'[i] = inode[i]
    BY <2>8, <2>15
  <2>17. /\ inode'[p].mode = inode[p].mode /\ inode'[p].bno = inode[p].bno
         /\ inode'[d].mode = inode[d].mode /\ inode'[d].bno = inode[d].bno
    BY <2>2, <2>6, <2>8, <2>10, <2>13, <2>15
  <2>18. d = p => inode'[d].nlink = inode[d].nlink
    BY <2>3, <2>5, <2>6, <2>8, <2>10, <2>13, <2>15 DEF InodeRec
  <2>19. d # p => inode'[d].nlink = inode[d].nlink + 1 /\ inode'[p].nlink = inode[p].nlink - 1
    BY <2>2, <2>3, <2>6, <2>8, <2>10, <2>13, <2>15
  <2> QED BY <1>3, <2>1, <2>2, <2>15, <2>16, <2>17, <2>18, <2>19
<1> QED BY <1>2, <1>3

(* The disk after the entry e2 has been added to directory d and the entry e *)
(* of f been taken out: dk2.                                               *)
EntryMoved(f, d, e, e2, a, new, dk2) ==
  /\ dk2 \in DiskImage
  /\ \A i \in Inodes : inode[i].mode # "none"
       => BlocksIn(dk2, inode[i].bno) = BlocksIn(a.dk, inode[i].bno)
  /\ \A c \in DataBlocks \ (bmap.bits \cup new) : /\ dk2.table[c] = a.dk.table[c]
                                                  /\ dk2.entries[c] = a.dk.entries[c]
  /\ \A y \in Dirs :
       DirSound(dk2, inode[y].bno, (Named(y) \ (IF y = f.dir THEN {e} ELSE {}))
                                   \cup (IF y = d THEN {e2} ELSE {}))

LEMMA RenamedDisk ==
  ASSUME Whole, harm = {}, NEW f \in files, ~TakesAnother(f), NEW d \in Dirs,
         NEW name \in Names, \A g \in files : ~(g.dir = d /\ g.name = name),
         NEW e2, e2 = [ino |-> f.ino, name |-> name], NEW a, NEW new \in SUBSET (DataBlocks \ bmap.bits),
         EntryAdded(disk, bmap, inode[d].bno, Named(d), e2, a), LeftAlone(d, bmap, a, new),
         NEW e, e = [ino |-> f.ino, name |-> f.name],
         NEW dk2, dk2 = DeleteEntry(a.dk, inode[f.dir].bno, f.ino)
  PROVE  EntryMoved(f, d, e, e2, a, new, dk2)
<1>1. PICK i \in Inodes \ {0} : i = f.ino
  BY FileFacts
<1>2. PICK p \in Dirs : p = f.dir
  BY FileFacts
<1>3. PICK b \in DataBlocks : b = inode[p].bno
  BY DirFacts, InodeFacts
<1>4. PICK dk1 : dk1 = a.dk
  OBVIOUS
<1>5. PICK s \in Named(p) : s = e
  BY <1>2, FileFacts
<1>6. disk \in DiskImage /\ DirSound(disk, b, Named(p))
  BY <1>3, DirFacts, WholeTypes
<1>7. s.ino = i /\ s.name = f.name /\ e2.ino = i /\ (d = p => e2 # e)
  <2>1. d = p => name # f.name
    BY <1>2
  <2>2. s.ino = i /\ s.name = f.name /\ e2.ino = i /\ e2.name = name /\ e.name = f.name
    BY <1>1, <1>5
  <2> QED BY <2>1, <2>2
<1>8. PICK m \in Cells : FirstOf(Cell(disk, b), i, m) /\ Cell(disk, b)[m] = s
  <2>1. LET hits == {q \in Cells : Cell(disk, b)[q].ino = s.ino}
        IN  ~(hits # {} /\ Cell(disk, b)[Least(hits)].name # s.name)
    BY <1>1, <1>2, <1>3, <1>7 DEF TakesAnother
  <2>2. \E m \in Cells : FirstOf(Cell(disk, b), s.ino, m) /\ Cell(disk, b)[m] = s
    BY <1>6, <2>1, FirstIsIt
  <2> QED BY <1>7, <2>2
<1>9. PICK S : S = Named(p) \cup (IF p = d THEN {e2} ELSE {})
  OBVIOUS
<1>10. dk1 \in DiskImage /\ DirSound(dk1, b, S) /\ FirstOf(Cell(dk1, b), i, m) /\ Cell(dk1, b)[m] = e
  <2>1. dk1 \in DiskImage
    BY <1>4 DEF EntryAdded
  <2>2. CASE p = d
    BY <1>3, <1>4, <1>5, <1>7, <1>8, <1>9, <2>1, <2>2 DEF EntryAdded
  <2>3. CASE p # d
    <3>1. DirSound(dk1, b, Named(p)) /\ Cell(dk1, b) = Cell(disk, b)
      BY <1>3, <1>4, <2>3 DEF LeftAlone
    <3> QED BY <1>5, <1>8, <1>9, <2>1, <2>3, <3>1
  <2> QED BY <2>2, <2>3
<1>11. EntryRemoved(dk1, b, S, e, dk2)
  <2>1. dk2 = DeleteEntry(dk1, b, i)
    BY <1>1, <1>2, <1>3, <1>4
  <2>2. EntryRemoved(dk1, b, S, Cell(dk1, b)[m], dk2)
    BY <1>10, <2>1, DeleteEntrySound
  <2> QED BY <1>10, <2>2
<1>12. /\ dk2 \in DiskImage /\ DirSound(dk2, b, S \ {e}) /\ BlocksIn(dk2, b) = BlocksIn(dk1, b)
       /\ \A c \in DataBlocks \ {b} : dk2.table[c] = dk1.table[c]
       /\ \A c \in DataBlocks \ BlocksIn(dk1, b) : dk2.entries[c] = dk1.entries[c]
  BY <1>11 DEF EntryRemoved
\* Whose block is whose.
<1>13. ASSUME NEW y \in Inodes, inode[y].mode # "none"
       PROVE  /\ inode[y].bno \in DataBlocks /\ inode[y].bno \in bmap.bits
              /\ BlocksIn(dk1, inode[y].bno) \subseteq BlocksIn(disk, inode[y].bno) \cup (IF y = d THEN new ELSE {})
              /\ BlocksIn(disk, inode[y].bno) \subseteq DataBlocks \cap bmap.bits
              /\ y # p => inode[y].bno # b /\ BlocksIn(disk, inode[y].bno) \cap BlocksIn(disk, b) = {}
  <2>1. /\ inode[y].bno \in DataBlocks /\ inode[y].bno \in bmap.bits
        /\ BlocksIn(disk, inode[y].bno) \subseteq DataBlocks \cap bmap.bits
        /\ BlocksOf(y) = {inode[y].bno} \cup BlocksIn(disk, inode[y].bno)
        /\ \A j \in Inodes \ {y} : BlocksOf(y) \cap BlocksOf(j) = {}
    BY <1>13, InodeFacts
  <2>2. p \in Inodes /\ BlocksOf(p) = {b} \cup BlocksIn(disk, b)
    BY <1>3, DirFacts, InodeFacts
  <2>3. BlocksIn(dk1, inode[y].bno) \subseteq BlocksIn(disk, inode[y].bno) \cup (IF y = d THEN new ELSE {})
    BY <1>4, <1>13 DEF LeftAlone
  <2> QED BY <2>1, <2>2, <2>3
<1>14. BlocksIn(dk1, b) \subseteq BlocksIn(disk, b) \cup (IF p = d THEN new ELSE {})
       /\ BlocksIn(disk, b) \subseteq bmap.bits /\ b \in bmap.bits
  BY <1>3, <1>13, DirFacts
<1>15. ASSUME NEW y \in Inodes, inode[y].mode # "none"
       PROVE  BlocksIn(dk2, inode[y].bno) = BlocksIn(dk1, inode[y].bno)
  <2>1. CASE y = p
    BY <1>3, <1>12, <2>1
  <2>2. CASE y # p
    <3>1. inode[y].bno \in DataBlocks \ {b}
      BY <1>13, <1>15, <2>2
    <3>2. dk2.table[inode[y].bno] = dk1.table[inode[y].bno]
      BY <1>12, <3>1
    <3> QED BY <3>2 DEF BlocksIn
  <2> QED BY <2>1, <2>2
<1>16. \A c \in DataBlocks \ (bmap.bits \cup new) : dk2.table[c] = dk1.table[c] /\ dk2.entries[c] = dk1.entries[c]
  BY <1>12, <1>14
<1>17. ASSUME NEW y \in Dirs
       PROVE  DirSound(dk2, inode[y].bno, (Named(y) \ (IF y = p THEN {e} ELSE {}))
                                          \cup (IF y = d THEN {e2} ELSE {}))
  <2>1. CASE y = p
    <3>1. S \ {e} = (Named(y) \ {e}) \cup (IF y = d THEN {e2} ELSE {})
      BY <1>7, <1>9, <2>1
    <3> QED BY <1>3, <1>12, <2>1, <3>1
  <2>2. CASE y # p
    <3>1. PICK Sy : Sy = Named(y) \cup (IF y = d THEN {e2} ELSE {})
      OBVIOUS
    <3>2. DirSound(dk1, inode[y].bno, Sy)
      <4>1. y = d => DirSound(dk1, inode[y].bno, Named(y) \cup {e2})
        BY <1>4 DEF EntryAdded
      <4>2. y # d => DirSound(dk1, inode[y].bno, Named(y))
        BY <1>4 DEF LeftAlone
      <4> QED BY <3>1, <4>1, <4>2
    <3>3. inode[y].mode # "none" /\ y \in Inodes
      BY DirFacts
    <3>4. inode[y].bno \in DataBlocks \ {b}
      BY <1>13, <2>2, <3>3
    <3>5. BlocksIn(dk1, inode[y].bno) \subseteq DataBlocks \ BlocksIn(dk1, b)
      <4>1. BlocksIn(dk1, inode[y].bno) \subseteq BlocksIn(disk, inode[y].bno) \cup (IF y = d THEN new ELSE {})
            /\ BlocksIn(disk, inode[y].bno) \subseteq DataBlocks \cap bmap.bits
            /\ BlocksIn(disk, inode[y].bno) \cap BlocksIn(disk, b) = {}
        BY <1>13, <2>2, <3>3
      <4>2. new \subseteq DataBlocks /\ new \cap bmap.bits = {}
        OBVIOUS
      <4> QED BY <1>14, <2>2, <4>1, <4>2
    <3>6. dk2.table[inode[y].bno] = dk1.table[inode[y].bno]
      BY <1>12, <3>4
    <3>7. \A c \in BlocksIn(dk1, inode[y].bno) : dk2.entries[c] = dk1.entries[c]
      BY <1>12, <3>5
    <3>8. DirSound(dk2, inode[y].bno, Sy)
      BY <1>10, <1>12, <3>2, <3>4, <3>6, <3>7, DirKept
    <3>9. Sy = (Named(y) \ {}) \cup (IF y = d THEN {e2} ELSE {})
      BY <3>1
    <3> QED BY <2>2, <3>8, <3>9
  <2> QED BY <2>1, <2>2
<1> QED BY <1>2, <1>4, <1>12, <1>15, <1>16, <1>17 DEF EntryMoved

LEMMA RenameStep ==
  ASSUME Whole, harm = {}, harm' = {}, NEW f \in files, NEW d \in Inodes, NEW name \in Names,
         Rename(f, d, name)
  PROVE  Whole'
<1>1. PICK a : a = AddEntry(disk, bmap, inode[d].bno, name, f.ino)
  OBVIOUS
<1>2. PICK x : x = [f EXCEPT !.dir = d, !.name = name]
  OBVIOUS
<1>3. PICK j \in Inodes \ {0} : j = f.ino
  BY FileFacts
<1>4. PICK p \in Dirs : p = f.dir
  BY FileFacts
<1>5. PICK dk2 : dk2 = DeleteEntry(a.dk, inode[p].bno, j)
  OBVIOUS
<1>6. PICK e : e = [ino |-> j, name |-> f.name]
  OBVIOUS
<1>7. PICK e2 : e2 = [ino |-> j, name |-> name]
  OBVIOUS
<1>8. /\ imap \in InodeMap /\ bmap \in BlockMap /\ disk \in DiskImage /\ MetaMarked(bmap)
      /\ inode \in [Inodes -> InodeRec] /\ files \in SUBSET File /\ IsFiniteSet(files)
  BY WholeTypes DEF Whole, FilesSane
<1>9. x \in File /\ x.dir = d /\ x.name = name /\ x.ino = j
  BY <1>2, <1>3, FileFacts DEF File
<1>10. /\ MayAdd(d, name) /\ ~FullDir(d) /\ a.ok /\ ~TakesAnother(f)
       /\ inode' = Relinked(inode, f, d) /\ files' = (files \ {f}) \cup {x}
       /\ disk' = dk2 /\ bmap' = a.bm
       /\ UNCHANGED <<imap, failed, gone, dropped, doubled>>
  BY <1>1, <1>2, <1>3, <1>4, <1>5 DEF Rename, PutLiveInode, HarmOf
<1>11. /\ d \in Dirs /\ a.bm \in BlockMap /\ MetaMarked(a.bm)
       /\ EntryAdded(disk, bmap, inode[d].bno, Named(d), e2, a)
  <2>1. a = AddEntry(disk, bmap, inode[d].bno, name, j)
    BY <1>1, <1>3
  <2> QED BY <1>7, <1>8, <1>10, <2>1, AddToDir
<1>12. PICK new \in SUBSET (DataBlocks \ bmap.bits) : LeftAlone(d, bmap, a, new)
  BY <1>8, <1>11, AddedKept
<1>13. \A g \in files : ~(g.dir = d /\ g.name = name)
  BY <1>10 DEF MayAdd
<1>14. /\ dk2 \in DiskImage
       /\ \A i \in Inodes : inode[i].mode # "none"
            => BlocksIn(dk2, inode[i].bno) = BlocksIn(a.dk, inode[i].bno)
       /\ \A c \in DataBlocks \ (bmap.bits \cup new) : /\ dk2.table[c] = a.dk.table[c]
                                                       /\ dk2.entries[c] = a.dk.entries[c]
       /\ \A y \in Dirs :
            DirSound(dk2, inode[y].bno, (Named(y) \ (IF y = f.dir THEN {e} ELSE {}))
                                        \cup (IF y = d THEN {e2} ELSE {}))
  <2>1. e2 = [ino |-> f.ino, name |-> name] /\ e = [ino |-> f.ino, name |-> f.name]
        /\ dk2 = DeleteEntry(a.dk, inode[f.dir].bno, f.ino)
    BY <1>3, <1>4, <1>5, <1>6, <1>7
  <2>2. EntryMoved(f, d, e, e2, a, new, dk2)
    BY <1>10, <1>11, <1>12, <1>13, <2>1, RenamedDisk
  <2> QED BY <2>2 DEF EntryMoved
<1>15. /\ inode' \in [Inodes -> InodeRec]
       /\ \A i \in Inodes : inode'[i].mode = inode[i].mode /\ inode'[i].bno = inode[i].bno
       /\ \A i \in Inodes : i \notin {d, p} => inode'[i] = inode[i]
       /\ \A i \in Inodes : inode[i].mode = "none" => inode'[i] = inode[i]
       /\ inode[j].mode # "dir" => inode' = inode
       /\ inode[j].mode = "dir" /\ d = p => inode'[d].nlink = inode[d].nlink
       /\ inode[j].mode = "dir" /\ d # p
             => inode'[d].nlink = inode[d].nlink + 1 /\ inode'[p].nlink = inode[p].nlink - 1
  BY <1>3, <1>4, <1>10, <1>11, RelinkedNodes
<1>16. TypeOK' /\ MetaMarked(bmap')
  <2>1. files' \in SUBSET File
    BY <1>8, <1>9, <1>10
  <2> QED BY <1>10, <1>11, <1>14, <1>15, <2>1 DEF Whole, TypeOK, BlockMap
<1>17. NodesSane' /\ Dirs' = Dirs
  BY <1>10, <1>15, NodesKept
<1>18. FilesSane'
  BY <1>3, <1>9, <1>10, <1>11, <1>13, <1>15, FilesSwapped
<1>19. DirsSound'
  <2> SUFFICES ASSUME NEW y \in Dirs PROVE DirSound(dk2, inode[y].bno, Named(y)')
    BY <1>10, <1>15, <1>17 DEF DirsSound, Dirs
  <2>1. Named(y)' = (Named(y) \ (IF y = f.dir THEN {e} ELSE {})) \cup (IF y = d THEN {e2} ELSE {})
    <3>1. Named(y)' = (Named(y) \ (IF y = f.dir THEN {[ino |-> f.ino, name |-> f.name]} ELSE {}))
                      \cup (IF y = x.dir THEN {[ino |-> x.ino, name |-> x.name]} ELSE {})
      BY <1>10, NamedSwapped
    <3> QED BY <1>3, <1>6, <1>7, <1>9, <3>1
  <2> QED BY <1>14, <2>1
<1>20. BlocksAccounted' /\ LostApart' /\ FreeBlocksAreClear'
  BY <1>10, <1>11, <1>12, <1>14, <1>15, AddedBlocks
<1>21. LinksSound'
  <2> SUFFICES ASSUME NEW i \in Inodes
               PROVE  inode'[i].nlink = IF inode'[i].mode = "none" THEN 0
                         ELSE IF inode'[i].mode = "reg" THEN Cardinality(NamesOf(i)')
                         ELSE 2 + gone'[i] + Cardinality(SubdirsOf(i)')
    BY DEF LinksSound
  <2>1. x \notin files
    BY <1>9, <1>13
  <2>2. inode[i].nlink = IF inode[i].mode = "none" THEN 0
                         ELSE IF inode[i].mode = "reg" THEN Cardinality(NamesOf(i))
                         ELSE 2 + gone[i] + Cardinality(SubdirsOf(i))
    BY DEF Whole, LinksSound
  <2>3. IsFiniteSet(NamesOf(i)) /\ IsFiniteSet(SubdirsOf(i)) /\ x \notin NamesOf(i) /\ x \notin SubdirsOf(i)
    <3>1. NamesOf(i) \subseteq files /\ SubdirsOf(i) \subseteq files
      BY DEF NamesOf, SubdirsOf
    <3> QED BY <1>8, <2>1, <3>1, FS_Subset
  <2>4. NamesOf(i)' = IF i = j THEN (NamesOf(i) \ {f}) \cup {x} ELSE NamesOf(i)
    BY <1>3, <1>9, <1>10 DEF NamesOf
  <2>5. i = j => f \in NamesOf(i)
    BY <1>3 DEF NamesOf
  <2>6. Cardinality(NamesOf(i)') = Cardinality(NamesOf(i))
    <3>1. CASE i = j
      <4>1. Cardinality((NamesOf(i) \ {f}) \cup {x}) = Cardinality(NamesOf(i))
        <5>1. PICK S : S = NamesOf(i)
          OBVIOUS
        <5>2. IsFiniteSet(S) /\ f \in S /\ x \notin S
          BY <2>3, <2>5, <3>1, <5>1
        <5> QED BY <5>1, <5>2, SwapCounted
      <4> QED BY <2>4, <3>1, <4>1
    <3>2. CASE i # j
      BY <2>4, <3>2
    <3> QED BY <3>1, <3>2
  <2>7. \A g \in files : inode'[g.ino].mode = inode[g.ino].mode
    BY <1>15, FileFacts
  <2>8. gone'[i] = gone[i] /\ inode'[i].mode = inode[i].mode
    BY <1>10, <1>15
  <2>9. CASE inode[j].mode # "dir"
    <3>1. SubdirsOf(i)' = SubdirsOf(i)
      BY <1>3, <1>9, <1>10, <1>15, <2>7, <2>9 DEF SubdirsOf
    <3> QED BY <1>15, <2>2, <2>6, <2>8, <2>9, <3>1
  <2>10. CASE inode[j].mode = "dir"
    <3>1. SubdirsOf(i)' = (SubdirsOf(i) \ (IF i = p THEN {f} ELSE {})) \cup (IF i = d THEN {x} ELSE {})
      BY <1>3, <1>4, <1>9, <1>10, <1>15, <2>7, <2>10 DEF SubdirsOf
    <3>2. i = p => f \in SubdirsOf(i)
      BY <1>3, <1>4, <2>10 DEF SubdirsOf
    <3>3. i \in {d, p} => inode[i].mode = "dir"
      BY <1>11 DEF Dirs
    <3>4. Cardinality(SubdirsOf(i)) \in Nat /\ gone[i] \in Nat
      BY <2>3, FS_CardinalityType, WholeTypes
    <3>5. CASE i \notin {d, p}
      <4>1. SubdirsOf(i)' = SubdirsOf(i) /\ inode'[i] = inode[i]
        BY <1>15, <3>1, <3>5
      <4> QED BY <2>2, <2>6, <2>8, <4>1
    <3>6. CASE i = d /\ i = p
      <4>1. Cardinality(SubdirsOf(i)') = Cardinality(SubdirsOf(i))
        <5>1. SubdirsOf(i)' = (SubdirsOf(i) \ {f}) \cup {x}
          BY <3>1, <3>6
        <5>2. Cardinality((SubdirsOf(i) \ {f}) \cup {x}) = Cardinality(SubdirsOf(i))
          BY <2>3, <3>2, <3>6, SwapCounted
        <5> QED BY <5>1, <5>2
      <4>2. inode'[i].nlink = inode[i].nlink
        BY <1>15, <2>10, <3>6
      <4> QED BY <2>2, <2>8, <3>3, <3>6, <4>1, <4>2
    <3>7. CASE i = d /\ i # p
      <4>1. Cardinality(SubdirsOf(i)') = Cardinality(SubdirsOf(i)) + 1
        <5>1. SubdirsOf(i)' = SubdirsOf(i) \cup {x}
          BY <3>1, <3>7
        <5> QED BY <2>3, <5>1, FS_AddElement
      <4>2. inode'[i].nlink = inode[i].nlink + 1
        BY <1>15, <2>10, <3>7
      <4> QED BY <2>2, <2>8, <3>3, <3>4, <3>7, <4>1, <4>2
    <3>8. CASE i # d /\ i = p
      <4>1. Cardinality(SubdirsOf(i)') = Cardinality(SubdirsOf(i)) - 1
        <5>1. SubdirsOf(i)' = SubdirsOf(i) \ {f}
          BY <3>1, <3>8
        <5>2. Cardinality(SubdirsOf(i) \ {f}) = Cardinality(SubdirsOf(i)) - 1
          BY <2>3, <3>2, <3>8, FS_RemoveElement
        <5> QED BY <5>1, <5>2
      <4>2. inode'[i].nlink = inode[i].nlink - 1
        BY <1>15, <2>10, <3>8
      <4> QED BY <2>2, <2>8, <3>3, <3>4, <3>8, <4>1, <4>2
    <3> QED BY <3>5, <3>6, <3>7, <3>8
  <2> QED BY <2>9, <2>10
<1>22. CountersSound'
  BY <1>10, <1>11, <1>12, AddedCounted
<1> QED BY <1>16, <1>17, <1>18, <1>19, <1>20, <1>21, <1>22 DEF Whole

----
(* The invariant holds after mkfs, and every call keeps it.                *)

LEMMA InitWhole ==
  ASSUME Init
  PROVE  Whole
<1>1. /\ imap = [bits |-> {0}, nfree |-> NInodes - 1]
      /\ bmap = [bits |-> 0..(Meta + Excess), nfree |-> NBlocks - Meta]
      /\ inode = [i \in Inodes |-> IF i = 0 THEN NewInode("dir", Meta) ELSE NoInode]
      /\ disk = [table |-> [b \in DataBlocks |-> NoTable], entries |-> [b \in DataBlocks |-> NoEntries]]
      /\ files = {} /\ gone = [i \in Inodes |-> 0] /\ dropped = {}
      /\ failed = 0 /\ doubled = 0 /\ harm = {}
  BY DEF Init, FormattedInodes, FormattedBlocks, RootIno
<1>2. Meta + Excess + 1 < NBlocks /\ NBlocks < Word /\ NInodes < Word /\ Meta + Excess + 1 \in Nat
  BY FatAssumption
<1>3. /\ inode \in [Inodes -> InodeRec]
      /\ inode[0].mode = "dir" /\ inode[0].bno = Meta /\ inode[0].nlink = 2
      /\ \A i \in Inodes \ {0} : inode[i] = NoInode /\ inode[i].mode = "none" /\ inode[i].nlink = 0
  <2>1. NewInode("dir", Meta) \in InodeRec /\ NoInode \in InodeRec
    BY ConstantFacts DEF NewInode, NoInode, InodeRec
  <2>2. inode \in [Inodes -> InodeRec]
    BY <1>1, <2>1
  <2> QED BY <1>1, <2>2, ConstantFacts DEF NewInode, NoInode
<1>4. /\ disk \in DiskImage
      /\ \A c \in DataBlocks : disk.table[c] = NoTable /\ disk.entries[c] = NoEntries
  BY <1>1, TableFacts, EntryFacts DEF DiskImage
<1>5. TypeOK
  <2>1. imap \in [bits : SUBSET Inodes, nfree : 0..(Word - 1)]
    BY <1>1, <1>2, ConstantFacts
  <2>2. bmap \in [bits : SUBSET (0..(NBlocks - 1)), nfree : 0..(Word - 1)]
    <3>1. 0..(Meta + Excess) \subseteq 0..(NBlocks - 1) /\ NBlocks - Meta \in 0..(Word - 1)
      BY <1>2, ConstantFacts
    <3> QED BY <1>1, <3>1
  <2> QED BY <1>1, <1>3, <1>4, <2>1, <2>2 DEF TypeOK
<1>6. MetaMarked(bmap)
  BY <1>1, ConstantFacts DEF MetaMarked
<1>7. NodesSane
  BY <1>1, <1>3, ConstantFacts DEF NodesSane, RootIno
<1>8. FilesSane
  BY <1>1, <1>3, FS_EmptySet DEF FilesSane, Dirs, RootIno
<1>9. DirSound(disk, Meta, {}) /\ BlocksIn(disk, Meta) = {}
  BY <1>4, ConstantFacts, DirEmpty
<1>10. DirsSound
  <2> SUFFICES ASSUME NEW d \in Dirs PROVE DirSound(disk, inode[d].bno, Named(d))
    BY DEF DirsSound
  <2>1. d = 0 /\ Named(d) = {}
    BY <1>1, <1>3 DEF Dirs, Named
  <2> QED BY <1>3, <1>9, <2>1
<1>11. BlocksOf(0) = {Meta} /\ \A i \in Inodes \ {0} : BlocksOf(i) = {}
  BY <1>3, <1>9, ConstantFacts, BlocksOfInode
<1>12. BlocksAccounted /\ LostApart
  <2>1. (UNION {BlocksOf(i) : i \in Inodes}) = {Meta}
    BY <1>11, ConstantFacts
  <2>2. bmap.bits \cap DataBlocks = Meta..(Meta + Excess)
    BY <1>1, <1>2, ConstantFacts DEF DataBlocks
  <2>3. Meta..(Meta + Excess) = {Meta} \cup (Meta + 1)..(Meta + Excess)
    BY ConstantFacts
  <2>4. Meta \notin (Meta + 1)..(Meta + Excess)
    BY ConstantFacts
  <2>5. BlocksAccounted
    BY <1>1, <1>11, <2>1, <2>2, <2>3 DEF BlocksAccounted
  <2>6. LostApart
    BY <1>1, <1>11, <2>4 DEF LostApart, Lost
  <2> QED BY <2>5, <2>6
<1>13. FreeBlocksAreClear
  BY <1>4 DEF FreeBlocksAreClear
<1>14. LinksSound
  <2>1. \A i \in Inodes : SubdirsOf(i) = {} /\ gone[i] = 0
    BY <1>1 DEF SubdirsOf
  <2>2. Cardinality({}) = 0
    BY FS_EmptySet
  <2> QED BY <1>3, <2>1, <2>2 DEF LinksSound
<1>15. CountersSound
  <2>1. (0..(NBlocks - 1)) \ bmap.bits = (Meta + Excess + 1)..(NBlocks - 1)
    BY <1>1, <1>2, ConstantFacts
  <2>2. Cardinality((Meta + Excess + 1)..(NBlocks - 1)) = NBlocks - (Meta + Excess + 1)
    <3>1. PICK lo \in Nat : lo = Meta + Excess + 1
      BY <1>2
    <3>2. Cardinality(lo..(NBlocks - 1)) = IF lo > NBlocks - 1 THEN 0 ELSE (NBlocks - 1) - lo + 1
      BY <3>1, ConstantFacts, FS_Interval
    <3> QED BY <1>2, <3>1, <3>2, ConstantFacts
  <2>3. BlocksCounted(bmap, Excess + 1 + doubled - failed)
    <3>1. (NBlocks - (Meta + Excess + 1)) + (Excess + 1 + doubled - failed) = NBlocks - Meta
      BY <1>1, <1>2, ConstantFacts
    <3>2. U32(NBlocks - Meta) = NBlocks - Meta
      <4>1. NBlocks - Meta \in 0..(Word - 1)
        BY <1>2, ConstantFacts
      <4> QED BY <4>1, U32Id
    <3> QED BY <1>1, <2>1, <2>2, <3>1, <3>2 DEF BlocksCounted
  <2>4. Cardinality(Inodes \ imap.bits) = NInodes - 1
    <3>1. Inodes \ imap.bits = 1..(NInodes - 1)
      BY <1>1, ConstantFacts DEF Inodes
    <3>2. Cardinality(1..(NInodes - 1)) = NInodes - 1
      BY ConstantFacts, FS_Interval
    <3> QED BY <3>1, <3>2
  <2>5. InodesCounted(imap, doubled)
    BY <1>1, <2>4, ConstantFacts DEF InodesCounted
  <2> QED BY <2>3, <2>5 DEF CountersSound
<1> QED BY <1>5, <1>6, <1>7, <1>8, <1>10, <1>12, <1>13, <1>14, <1>15 DEF Whole

(* What has been damaged stays so, and the calls that do no damage keep the *)
(* invariant.                                                              *)
LEMMA WholeStep ==
  ASSUME FInv, [Next]_vars
  PROVE  FInv'
<1> SUFFICES ASSUME harm' = {} PROVE Whole'
  BY DEF FInv
<1>1. harm = {}
  <2>1. ASSUME NEW d \in Inodes, NEW name \in Names,
               \/ CreateWithoutInode(d, name) \/ CreateWithoutBlock(d, name)
               \/ \E mode \in {"reg", "dir"} : Create(d, name, mode)
        PROVE  harm' = harm
    BY <2>1 DEF CreateWithoutInode, CreateWithoutBlock, Create
  <2>2. ASSUME NEW d \in Inodes, NEW name \in Names, NEW f \in files, Link(f, d, name) \/ Rename(f, d, name)
        PROVE  harm \subseteq harm'
    BY <2>2 DEF Link, Rename, PutLiveInode
  <2>3. ASSUME NEW f \in files, Unlink(f) \/ Rmdir(f) \/ \E x \in files : RenameOnto(f, x)
        PROVE  harm \subseteq harm'
    BY <2>3 DEF Unlink, Rmdir, RenameOnto
  <2>4. ASSUME NEW i \in Inodes, NEW k \in 0..(M - 1), GetBlock(i, k) PROVE harm' = harm
    BY <2>4 DEF GetBlock
  <2>5. CASE UNCHANGED vars
    BY <2>5 DEF vars
  <2>6. harm \subseteq harm'
    BY <2>1, <2>2, <2>3, <2>4, <2>5 DEF Next
  <2> QED BY <2>6
<1>2. Whole
  BY <1>1 DEF FInv
<1>3. ASSUME NEW d \in Inodes, NEW name \in Names, CreateWithoutInode(d, name) PROVE Whole'
  BY <1>1, <1>2, <1>3, CreateWithoutInodeStep
<1>4. ASSUME NEW d \in Inodes, NEW name \in Names, CreateWithoutBlock(d, name) PROVE Whole'
  BY <1>1, <1>2, <1>4, CreateWithoutBlockStep
<1>5. ASSUME NEW d \in Inodes, NEW name \in Names, NEW mode \in {"reg", "dir"}, Create(d, name, mode)
      PROVE  Whole'
  <2>1. PICK gi : gi = TakeInode(imap)
    OBVIOUS
  <2>2. PICK gb : gb = TakeBlock(bmap)
    OBVIOUS
  <2>3. PICK a : a = AddEntry(disk, gb.bm, inode[d].bno, name, gi.ino)
    OBVIOUS
  <2>4. CASE a.ok
    BY <1>1, <1>2, <1>5, <2>1, <2>2, <2>3, <2>4, CreateStep
  <2>5. CASE ~a.ok
    BY <1>1, <1>2, <1>5, <2>1, <2>2, <2>3, <2>5, CreateRefusedStep
  <2> QED BY <2>4, <2>5
<1>6. ASSUME NEW d \in Inodes, NEW name \in Names, NEW f \in files, Link(f, d, name) PROVE Whole'
  BY <1>1, <1>2, <1>6, LinkStep
<1>7. ASSUME NEW d \in Inodes, NEW name \in Names, NEW f \in files, Rename(f, d, name) PROVE Whole'
  BY <1>1, <1>2, <1>7, RenameStep
<1>8. ASSUME NEW f \in files, Unlink(f) PROVE Whole'
  BY <1>1, <1>2, <1>8, UnlinkStep
<1>9. ASSUME NEW f \in files, Rmdir(f) PROVE Whole'
  BY <1>1, <1>2, <1>9, RmdirStep
<1>10. ASSUME NEW f \in files, NEW x \in files, RenameOnto(f, x) PROVE Whole'
  BY <1>10 DEF RenameOnto
<1>11. ASSUME NEW i \in Inodes, NEW k \in 0..(M - 1), GetBlock(i, k) PROVE Whole'
  BY <1>1, <1>2, <1>11, GetBlockStep DEF Slots
<1>12. CASE UNCHANGED vars
  <2>1. /\ UNCHANGED <<inode, disk, files, gone, dropped, harm, imap, bmap, failed, doubled>>
    BY <1>12 DEF vars
  <2>2. /\ imap \in InodeMap /\ bmap \in BlockMap /\ failed \in Nat /\ doubled \in Nat
        /\ BlocksCounted(bmap, Excess + 1 + doubled - failed) /\ InodesCounted(imap, doubled)
    BY <1>2, WholeTypes DEF Whole, CountersSound
  <2> QED BY <1>1, <1>2, <2>1, <2>2, OnlyCountersStep
<1> QED BY <1>3, <1>4, <1>5, <1>6, <1>7, <1>8, <1>9, <1>10, <1>11, <1>12 DEF Next

LEMMA VolumeWhole == Spec => []FInv
<1>1. Init => FInv
  BY InitWhole DEF FInv
<1>2. FInv /\ [Next]_vars => FInv'
  BY WholeStep
<1> QED BY <1>1, <1>2, PTL DEF Spec

----
(* What follows.                                                           *)

(* As long as no call has done one of the recorded damages, every number in *)
(* a table, an entry or an inode is one of the volume: the tables hold no  *)
(* block of metadata and no number past the end, and a directory counts no *)
(* more entries than it has room for.                                      *)
THEOREM VolumeTyped == Spec => [](harm = {} => TypeOK)
<1>1. FInv => (harm = {} => TypeOK)
  BY DEF FInv, Whole
<1> QED BY <1>1, VolumeWhole, PTL

(* No two inodes lead to the same block, and every block in use is that of  *)
(* an inode, mkfs's excess or the entry block of a removed directory,      *)
(* whatever calls succeed and fail and in whatever order.                  *)
THEOREM NoBlockSharedOrLost == Spec => []BlocksAccounted
<1>1. FInv => BlocksAccounted
  BY DEF FInv, Whole, BlocksAccounted
<1> QED BY <1>1, VolumeWhole, PTL

(* Every free block is clear, which is why add_entry may take one without   *)
(* cleaning it and a scan of a directory may end at the first empty slot.  *)
THEOREM PutBlocksAreClear == Spec => []FreeBlocksAreClear
<1>1. FInv => FreeBlocksAreClear
  BY DEF FInv, Whole, FreeBlocksAreClear
<1> QED BY <1>1, VolumeWhole, PTL

(* Lookup finds exactly the names that were made and not removed, in        *)
(* directories of every size, and their entries fill the first cells.      *)
THEOREM LookupIsExact == Spec => []NamesFound
<1>1. ASSUME FInv PROVE NamesFound
  <2> SUFFICES ASSUME harm = {}, NEW d \in Inodes, Reachable(d)
               PROVE  LET b == inode[d].bno
                          c == Cell(disk, b)
                      IN  /\ \A name \in Names :
                               Search(disk, b, name)
                                 = LET at == {f \in files : f.dir = d /\ f.name = name}
                                   IN  IF at = {} THEN 0 ELSE (CHOOSE f \in at : TRUE).ino
                          /\ \A p \in Cells : c[p].ino # 0 <=> p < NrOfEntries(d)
    BY DEF NamesFound
  <2>1. Whole
    BY <1>1 DEF FInv
  <2>2. d \in Dirs
    BY <2>1, ReachableDirs
  <2>3. PICK b \in DataBlocks : b = inode[d].bno
    BY <2>1, <2>2, DirFacts, InodeFacts
  <2>4. disk \in DiskImage /\ DirSound(disk, b, Named(d))
    BY <2>1, <2>2, <2>3, DirFacts, WholeTypes
  <2>5. DirTable(disk, b) /\ Filled(Cell(disk, b), disk.table[b].nr_of_entries, Named(d))
    BY <2>4 DEF DirSound
  <2>6. ASSUME NEW name \in Names
        PROVE  Search(disk, b, name) = LET at == {f \in files : f.dir = d /\ f.name = name}
                                       IN  IF at = {} THEN 0 ELSE (CHOOSE f \in at : TRUE).ino
    <3> DEFINE at == {f \in files : f.dir = d /\ f.name = name}
    <3>1. /\ \A s \in Named(d) : s.name = name => Search(disk, b, name) = s.ino
          /\ (\A s \in Named(d) : s.name # name) => Search(disk, b, name) = 0
      BY <2>4, <2>5, SearchSound
    <3>2. CASE at = {}
      <4>1. \A s \in Named(d) : s.name # name
        BY <3>2 DEF Named
      <4> QED BY <3>1, <3>2, <4>1
    <3>3. CASE at # {}
      <4>1. PICK f \in at : f = (CHOOSE g \in at : TRUE)
        BY <3>3
      <4>2. [ino |-> f.ino, name |-> f.name] \in Named(d) /\ f.name = name
        BY <4>1 DEF Named
      <4>3. Search(disk, b, name) = f.ino
        BY <3>1, <4>2
      <4> QED BY <3>3, <4>1, <4>3
    <3> QED BY <3>2, <3>3
  <2>7. \A p \in Cells : Cell(disk, b)[p].ino # 0 <=> p < NrOfEntries(d)
    BY <2>3, <2>5 DEF Filled, NrOfEntries
  <2> QED BY <2>3, <2>6, <2>7
<1> QED BY <1>1, VolumeWhole, PTL

(* A regular file has as many links as names, and a directory those of its  *)
(* subdirectories and of the ones that were ever removed.                  *)
THEOREM LinksAreCounted == Spec => []LinksCounted
<1>1. ASSUME FInv PROVE LinksCounted
  <2> SUFFICES ASSUME harm = {}, NEW i \in Inodes
               PROVE  inode[i].nlink =
                        CASE inode[i].mode = "none" -> 0
                          [] inode[i].mode = "reg" -> Cardinality({f \in files : f.ino = i})
                          [] inode[i].mode = "dir" ->
                               2 + gone[i] + Cardinality({f \in files : f.dir = i /\ inode[f.ino].mode = "dir"})
    BY DEF LinksCounted
  <2>1. Whole
    BY <1>1 DEF FInv
  <2>2. inode[i].mode \in {"none", "reg", "dir"}
    BY <2>1, WholeTypes DEF InodeRec
  <2>3. inode[i].nlink = IF inode[i].mode = "none" THEN 0
                         ELSE IF inode[i].mode = "reg" THEN Cardinality(NamesOf(i))
                         ELSE 2 + gone[i] + Cardinality(SubdirsOf(i))
    BY <2>1 DEF Whole, LinksSound
  <2> QED BY <2>2, <2>3 DEF NamesOf, SubdirsOf
<1> QED BY <1>1, VolumeWhole, PTL

(* The free counters that create trusts are wrong by exactly what mkfs and   *)
(* the failed calls did to them.                                           *)
THEOREM DriftIsKnown == Spec => []CountersDrift
<1>1. ASSUME FInv PROVE CountersDrift
  <2> SUFFICES ASSUME harm = {} PROVE CountersDrift
    BY DEF CountersDrift
  <2>1. CountersSound /\ failed \in Nat /\ doubled \in Nat
    BY <1>1, WholeTypes DEF FInv, Whole
  <2>2. PICK c \in Nat : c = Cardinality((0..(NBlocks - 1)) \ bmap.bits)
    <3>1. NBlocks \in Nat
      BY ConstantFacts
    <3>2. Cardinality((0..(NBlocks - 1)) \ bmap.bits) \in 0..NBlocks
      BY <3>1, ClearBits
    <3> QED BY <3>1, <3>2
  <2>3. bmap.nfree = U32(c + (Excess + 1 + doubled - failed))
    BY <2>1, <2>2 DEF CountersSound, BlocksCounted
  <2>4. c + (Excess + 1 + doubled - failed) = c + Excess + 1 + doubled - failed
    BY <2>1, ConstantFacts
  <2>5. bmap.nfree = U32(Cardinality((0..(NBlocks - 1)) \ bmap.bits) + Excess + 1 + doubled - failed)
    BY <2>2, <2>3, <2>4
  <2>6. InodesCounted(imap, doubled)
    BY <2>1 DEF CountersSound
  <2> QED BY <2>5, <2>6 DEF CountersDrift, InodesCounted
<1> QED BY <1>1, VolumeWhole, PTL

----
(* Listings.                                                               *)

\* The names in the cells from lo up to hi, as far as there are entries.
NamesIn(c, n, lo, hi) == {c[q].name : q \in {q \in Cells : lo <= q /\ q < n /\ q < hi}}

(* What a listing that begins with a block emits, and where it ends.        *)
LEMMA ListedFrom ==
  ASSUME NEW c \in [Cells -> Entry], NEW n \in 0..(M * E), NEW S, Filled(c, n, S),
         NEW dk \in DiskImage, NEW b \in DataBlocks, c = Cell(dk, b),
         NEW D, D = Depth(c), NEW k \in 0..D, NEW room \in 0..(M * E), NEW pos, pos = k * E,
         NEW r, r = Listed(dk, b, pos, room)
  PROVE  /\ r.names = NamesIn(c, n, pos, pos + room)
         /\ r.pos = IF n <= pos + room THEN D * E ELSE pos + room
<1>1. /\ E \in Nat \ {0} /\ M \in Nat \ {0} /\ M * E \in Nat /\ room \in Nat /\ n \in Nat
      /\ D \in Nat /\ k \in Nat
      /\ D * E \in Nat /\ n <= D * E /\ D * E <= M * E
  <2>1. D \in 0..M /\ n <= D * E /\ D * E <= M * E /\ D * E \in Nat
    BY DepthReaches
  <2> QED BY <2>1, ConstantFacts
<1>2. pos \in Nat /\ pos \div E = k /\ pos % E = 0
  <2>1. k * E \in Nat /\ k * E = k * E + 0 /\ 0 \in 0..(E - 1) /\ k \in Int
    BY <1>1
  <2>2. pos = k * E + 0
    BY <2>1
  <2>3. pos \div E = k /\ pos % E = 0
    BY <1>1, <2>1, <2>2, DivisionIsUnique, Zenon
  <2> QED BY <2>1, <2>3
<1>3. PICK m \in Nat : m = (D - k) * E /\ pos + m = D * E /\ (k = D => m = 0)
  <2>1. (D - k) * E \in Nat /\ (D - k) * E = D * E - k * E
    BY <1>1
  <2> QED BY <1>1, <1>2, <2>1
<1> DEFINE seen == [i \in 0..(m - 1) |-> c[k * E + i + IF i < E - 0 THEN 0 ELSE 0]]
           live == {i \in 0..(m - 1) : seen[i].ino # 0}
           out == {i \in live : Cardinality({j \in live : j < i}) < room}
<1> HIDE DEF seen, live, out
<1>4. /\ r.names = {seen[i].name : i \in out}
      /\ r.pos = pos + (IF out = live THEN m ELSE Least(live \ out))
  <2>1. m = IF k < D THEN (D - k) * E - 0 ELSE 0
    BY <1>1, <1>3
  <2>2. Listed(dk, b, pos, room)
          = Emitted(Cell(dk, b), pos \div E, pos % E,
                        IF pos \div E < Depth(Cell(dk, b))
                          THEN (Depth(Cell(dk, b)) - (pos \div E)) * E - (pos % E) ELSE 0, pos, room)
    BY DEF Listed
  <2>3. r = Emitted(c, k, 0, m, pos, room)
    BY <1>2, <2>1, <2>2, Zenon
  <2>4. r = [names |-> {seen[i].name : i \in out},
             pos |-> pos + IF out = live THEN m ELSE Least(live \ out)]
    BY <2>3, Zenon DEF Emitted, seen, live, out
  <2> QED BY <2>4
<1>5. ASSUME NEW i \in 0..(m - 1) PROVE pos + i \in Cells /\ seen[i] = c[pos + i]
  <2>1. pos + i \in Cells
    <3>1. PICK hi \in Nat : hi = M * E
      BY <1>1
    <3>2. pos + m <= hi
      BY <1>1, <1>3, <3>1
    <3>3. pos + i \in 0..(hi - 1)
      BY <1>2, <3>2
    <3> QED BY <3>1, <3>3 DEF Cells
  <2>2. k * E + i + (IF i < E - 0 THEN 0 ELSE 0) = pos + i
    BY <1>1, <1>2
  <2> QED BY <2>1, <2>2 DEF seen
<1>6. PICK l \in Nat : l = (IF n <= pos THEN 0 ELSE n - pos) /\ l <= m
  BY <1>1, <1>2, <1>3
<1>7. live = 0..(l - 1)
  <2>1. ASSUME NEW i \in 0..(m - 1) PROVE i \in live <=> pos + i < n
    BY <1>5 DEF Filled, live
  <2>2. \A i \in 0..(m - 1) : pos + i < n <=> i < l
    BY <1>1, <1>2, <1>6
  <2>3. live \subseteq 0..(m - 1)
    BY DEF live
  <2>4. ASSUME NEW i \in live PROVE i \in 0..(l - 1)
    <3>1. i \in 0..(m - 1) /\ i < l
      BY <2>1, <2>2, <2>3
    <3> QED BY <1>3, <1>6, <3>1
  <2>5. ASSUME NEW i \in 0..(l - 1) PROVE i \in live
    <3>1. i \in 0..(m - 1) /\ i < l
      BY <1>3, <1>6
    <3> QED BY <2>1, <2>2, <3>1
  <2> QED BY <2>4, <2>5
<1>8. out = {i \in 0..(l - 1) : i < room}
  <2>1. ASSUME NEW i \in live PROVE Cardinality({j \in live : j < i}) = i
    <3>1. {j \in live : j < i} = 0..(i - 1) /\ i \in Nat
      BY <1>6, <1>7, <2>1
    <3>2. Cardinality(0..(i - 1)) = i
      BY <3>1, FS_Interval
    <3> QED BY <3>1, <3>2
  <2> QED BY <1>7, <2>1 DEF out
<1>9. r.names = NamesIn(c, n, pos, pos + room)
  <2>1. ASSUME NEW i \in out PROVE seen[i].name \in NamesIn(c, n, pos, pos + room)
    <3>1. i \in 0..(m - 1) /\ i < l /\ i < room
      BY <1>1, <1>3, <1>6, <1>8
    <3>2. pos <= pos + i /\ pos + i < n /\ pos + i < pos + room
      BY <1>1, <1>2, <1>6, <3>1
    <3> QED BY <1>5, <3>1, <3>2 DEF NamesIn
  <2>2. ASSUME NEW q \in Cells, pos <= q, q < n, q < pos + room
        PROVE  \E i \in out : seen[i].name = c[q].name
    <3>1. q \in Nat
      BY ConstantFacts
    <3>2. PICK i \in Nat : q = pos + i
      <4>1. q - pos \in Nat /\ q = pos + (q - pos)
        BY <1>2, <2>2, <3>1
      <4> QED BY <4>1
    <3>3. i < l /\ i < room /\ i \in 0..(l - 1) /\ i \in 0..(m - 1)
      BY <1>1, <1>2, <1>3, <1>6, <2>2, <3>2
    <3> QED BY <1>5, <1>8, <3>2, <3>3
  <2> QED BY <1>4, <2>1, <2>2 DEF NamesIn
<1>10. r.pos = IF n <= pos + room THEN D * E ELSE pos + room
  <2>1. CASE n <= pos + room
    <3>1. l <= room
      BY <1>1, <1>2, <1>6, <2>1
    <3>2. out = live
      BY <1>1, <1>6, <1>7, <1>8, <3>1
    <3> QED BY <1>3, <1>4, <2>1, <3>2
  <2>2. CASE ~(n <= pos + room)
    <3>1. room < l
      BY <1>1, <1>2, <1>6, <2>2
    <3>2. room \in live /\ room \notin out
      BY <1>1, <1>6, <1>7, <1>8, <3>1
    <3>3. PICK X \in SUBSET Nat : X = live \ out
      <4>1. live \ out \in SUBSET Nat
        BY <1>6, <1>7
      <4> QED BY <4>1
    <3>4. room \in X /\ \A t \in X : ~(t < room)
      BY <1>7, <1>8, <3>2, <3>3
    <3>5. Least(X) \in X /\ \A t \in X : Least(X) <= t
      BY <3>4, LeastIsMember
    <3>6. PICK s \in Nat : s = Least(X)
      BY <3>5
    <3>7. s = room
      BY <1>1, <3>4, <3>5, <3>6
    <3> QED BY <1>4, <2>2, <3>2, <3>3, <3>6, <3>7
  <2> QED BY <2>1, <2>2
<1> QED BY <1>9, <1>10

(* A listing in two parts, of which the first ends where a block ends, shows *)
(* every name once, and a third part shows nothing.                        *)
THEOREM ListingsAreWhole == Spec => []ListedOnce
<1>1. ASSUME FInv PROVE ListedOnce
  <2> SUFFICES ASSUME harm = {}, NEW d \in Inodes, NEW room \in 0..(M * E), Reachable(d),
                      NEW b, b = inode[d].bno, NEW one, one = Listed(disk, b, 0, room),
                      NEW two, two = Listed(disk, b, one.pos, M * E), one.pos % E = 0
               PROVE  /\ one.names \cap two.names = {}
                      /\ one.names \cup two.names = {f.name : f \in {g \in files : g.dir = d}}
                      /\ Listed(disk, b, two.pos, M * E).names = {}
    BY DEF ListedOnce
  <2>1. Whole
    BY <1>1 DEF FInv
  <2>2. d \in Dirs
    BY <2>1, ReachableDirs
  <2>3. b \in DataBlocks /\ disk \in DiskImage /\ DirSound(disk, b, Named(d))
    BY <2>1, <2>2, DirFacts, InodeFacts, WholeTypes
  <2>4. PICK c : c = Cell(disk, b)
    OBVIOUS
  <2>5. PICK n : n = disk.table[b].nr_of_entries
    OBVIOUS
  <2>6. c \in [Cells -> Entry] /\ n \in 0..(M * E) /\ Filled(c, n, Named(d))
    BY <2>3, <2>4, <2>5, CellType, ImageFacts DEF DirSound
  <2>7. PICK D : D = Depth(c)
    OBVIOUS
  <2>8. D \in 0..M /\ n <= D * E /\ D * E <= M * E /\ D * E \in Nat
    BY <2>6, <2>7, DepthReaches
  <2>9. E \in Nat \ {0} /\ M * E \in Nat /\ room \in Nat /\ n \in Nat /\ D \in Nat /\ M * E \in 0..(M * E)
    BY <2>6, <2>8, ConstantFacts
  <2>10. PICK all : all = NamesIn(c, n, 0, M * E)
    OBVIOUS
  <2>11. all = {f.name : f \in {g \in files : g.dir = d}}
    <3>1. all = {s.name : s \in Named(d)}
      <4>1. \A q \in Cells : 0 <= q /\ (q < n => q < M * E)
        BY <2>6, <2>9, ConstantFacts
      <4> QED BY <2>6, <2>10, <4>1 DEF Filled, NamesIn
    <3>2. \A x : x \in {s.name : s \in Named(d)} <=> \E f \in files : f.dir = d /\ x = f.name
      <4>1. ASSUME NEW f \in files, f.dir = d PROVE f.name \in {s.name : s \in Named(d)}
        <5>1. PICK s \in Named(d) : s = [ino |-> f.ino, name |-> f.name]
          BY <4>1 DEF Named
        <5>2. s.name = f.name
          BY <5>1
        <5> QED BY <5>2
      <4>2. ASSUME NEW s \in Named(d) PROVE \E f \in files : f.dir = d /\ s.name = f.name
        <5>1. PICK f \in files : f.dir = d /\ s = [ino |-> f.ino, name |-> f.name]
          BY DEF Named
        <5> QED BY <5>1
      <4> QED BY <4>1, <4>2
    <3>3. \A x : x \in {f.name : f \in {g \in files : g.dir = d}} <=> \E f \in files : f.dir = d /\ x = f.name
      OBVIOUS
    <3> QED BY <3>1, <3>2, <3>3
  <2>12. one.names = NamesIn(c, n, 0, room) /\ one.pos = IF n <= room THEN D * E ELSE room
    <3>1. 0 \in 0..D /\ 0 = 0 * E /\ 0 + room = room
      BY <2>9
    <3>2. one.names = NamesIn(c, n, 0, 0 + room) /\ one.pos = IF n <= 0 + room THEN D * E ELSE 0 + room
      BY <2>3, <2>4, <2>6, <2>7, <3>1, ListedFrom
    <3> QED BY <3>1, <3>2
  <2>13. PICK k \in 0..D : one.pos = k * E
    <3>1. CASE n <= room
      BY <2>9, <2>12, <3>1
    <3>2. CASE ~(n <= room)
      <4>1. one.pos = room /\ room < n
        BY <2>9, <2>12, <3>2
      <4>2. PICK q \in Int, z \in 0..(E - 1) : q = room \div E /\ z = room % E /\ room = q * E + z
        <5>1. E \in Nat \ {0} /\ room \in Int
          BY <2>9
        <5> QED BY <5>1, Division, Zenon
      <4>3. room = q * E
        BY <2>9, <4>1, <4>2
      <4>4. q >= 0
        <5>1. CASE q < 0
          <6>1. q * E <= -1 * E /\ -1 * E < 0
            BY <2>9, <4>2, <5>1
          <6> QED BY <2>9, <4>2, <4>3, <6>1
        <5>2. CASE ~(q < 0)
          BY <4>2, <5>2
        <5> QED BY <5>1, <5>2
      <4>5. q <= D
        <5>1. CASE q > D
          <6>1. (q - D) * E >= 0 /\ (q - D) * E = q * E - D * E
            BY <2>9, <4>2, <5>1
          <6> QED BY <2>8, <2>9, <4>1, <4>2, <4>3, <6>1
        <5>2. CASE ~(q > D)
          BY <2>9, <4>2, <5>2
        <5> QED BY <5>1, <5>2
      <4>6. q \in 0..D /\ one.pos = q * E
        BY <2>9, <4>1, <4>2, <4>3, <4>4, <4>5
      <4> QED BY <4>6
    <3> QED BY <3>1, <3>2
  <2>14. PICK pos \in Nat : pos = one.pos /\ pos = (IF n <= room THEN D * E ELSE room)
    BY <2>8, <2>9, <2>12
  <2>15. n <= pos + M * E /\ n <= D * E + M * E
    BY <2>6, <2>8, <2>9, <2>14
  <2>16. two.names = NamesIn(c, n, pos, pos + M * E) /\ two.pos = D * E
    <3>1. pos = k * E /\ two = Listed(disk, b, pos, M * E)
      BY <2>13, <2>14
    <3>2. /\ two.names = NamesIn(c, n, pos, pos + M * E)
          /\ two.pos = IF n <= pos + M * E THEN D * E ELSE pos + M * E
      BY <2>3, <2>4, <2>6, <2>7, <2>9, <3>1, ListedFrom
    <3> QED BY <2>15, <3>2
  <2>17. Listed(disk, b, two.pos, M * E).names = {}
    <3>1. PICK three : three = Listed(disk, b, two.pos, M * E)
      OBVIOUS
    <3>2. D \in 0..D
      BY <2>9
    <3>3. three.names = NamesIn(c, n, D * E, D * E + M * E)
      <4>1. three = Listed(disk, b, D * E, M * E)
        BY <2>16, <3>1
      <4> QED BY <2>3, <2>4, <2>6, <2>7, <2>9, <3>2, <4>1, ListedFrom
    <3>4. \A q \in Cells : ~(D * E <= q /\ q < n)
      BY <2>8, <2>9, ConstantFacts
    <3> QED BY <3>1, <3>3, <3>4 DEF NamesIn
  <2>18. /\ \A q \in Cells : q < n => q < M * E /\ q < pos + M * E
         /\ \A q \in Cells : 0 <= q /\ q \in Nat
         /\ \A q \in Cells : q < n => (q < room <=> q < pos)
    BY <2>6, <2>8, <2>9, <2>14, ConstantFacts
  <2>19. /\ one.names = {c[q].name : q \in {q \in Cells : q < n /\ q < pos}}
         /\ two.names = {c[q].name : q \in {q \in Cells : q < n /\ pos <= q}}
         /\ all = {c[q].name : q \in {q \in Cells : q < n}}
    BY <2>10, <2>12, <2>16, <2>18 DEF NamesIn
  <2>20. \A q \in Cells : q < pos <=> ~(pos <= q)
    BY <2>14, <2>18
  <2>21. one.names \cup two.names = all
    BY <2>19, <2>20
  <2>22. one.names \cap two.names = {}
    <3>1. \A p, q \in Cells : p < n /\ q < n /\ c[p].name = c[q].name => p = q
      BY <2>6 DEF Filled
    <3> QED BY <2>19, <2>20, <3>1
  <2> QED BY <2>11, <2>17, <2>21, <2>22
<1> QED BY <1>1, VolumeWhole, PTL
====
