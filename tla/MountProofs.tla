---- MODULE MountProofs ----
(***************************************************************************)
(* Theorems about Mount, for every size of volume, every number of mounts  *)
(* and calls, and every power failure.                                     *)
(***************************************************************************)
EXTENDS Mount, BitmapProofs

----
(* mkfs.                                                                   *)

(* write_bfree_blocks never marks what it should: with blocks of 4096 bytes *)
(* and 8 bits to a byte, there is no number of metadata blocks for which   *)
(* the bits it sets are those of the metadata and the root.                *)
THEOREM MkfsIsNeverExact ==
  ASSUME BlockSize = 4096, MapBits = 32768, NEW used \in Nat \ {0}
  PROVE  MkfsMarked(used) # 0..(used - 1)
<1> DEFINE k == used \div BlockSize
           r == used % BlockSize
           n == (k - 1) * MapBits + r
<1>1. k \in Nat /\ r \in 0..(BlockSize - 1) /\ used = k * 4096 + r
  OBVIOUS
<1>2. used - 1 \in 0..(used - 1)
  OBVIOUS
<1>3. CASE used < BlockSize
  BY <1>2, <1>3 DEF MkfsMarked
<1>4. CASE used >= BlockSize
  <2>1. k >= 1 /\ n = (k - 1) * 32768 + r
    BY <1>1, <1>4
  <2>2. MkfsMarked(used) = 0..(n - 1)
    BY <1>4 DEF MkfsMarked
  <2>3. n # used
    BY <1>1, <2>1
  <2> HIDE DEF n
  <2>4. n \in Nat
    BY <1>1, <2>1
  <2>5. (n > used => used \in MkfsMarked(used)) /\ (n < used => used - 1 \notin MkfsMarked(used))
    BY <2>2, <2>4
  <2> QED BY <2>3, <2>4, <2>5
<1> QED BY <1>3, <1>4

(* On a volume of the size Mount is about, the metadata and the root are    *)
(* marked.                                                                 *)
LEMMA MkfsMarksMetadata == 0..Meta \subseteq MkfsMarked(Meta + 1) \cap Blocks
<1> DEFINE k == (Meta + 1) \div BlockSize
           r == (Meta + 1) % BlockSize
<1>1. BlockSize \in Nat \ {0} /\ Meta \in Nat /\ MapBits \in Nat
  BY MountAssumption
<1>2. k \in Nat /\ r \in 0..(BlockSize - 1) /\ Meta + 1 = k * BlockSize + r
  BY <1>1
<1>3. k >= 2
  <2> SUFFICES ASSUME k <= 1 PROVE FALSE
    BY <1>2
  <2>1. k * BlockSize <= BlockSize
    BY <1>1, <1>2
  <2> QED BY <1>1, <1>2, <2>1, MountAssumption
<1>4. (k - 1) * MapBits >= k * BlockSize
  <2>1. (k - 1) * MapBits >= (k - 1) * (2 * BlockSize)
    BY <1>1, <1>2, <1>3, MountAssumption
  <2>2. (k - 1) * (2 * BlockSize) = k * BlockSize + (k - 2) * BlockSize
    BY <1>1, <1>2
  <2>3. (k - 2) * BlockSize >= 0
    BY <1>1, <1>2, <1>3
  <2> QED BY <1>1, <1>2, <2>1, <2>2, <2>3
<1>5. MkfsMarked(Meta + 1) = 0..((k - 1) * MapBits + r - 1)
  BY MountAssumption DEF MkfsMarked
<1> HIDE DEF k, r
<1>6. (k - 1) * MapBits \in Int
  BY <1>1, <1>2
<1>7. (k - 1) * MapBits + r - 1 >= Meta
  BY <1>1, <1>2, <1>4, <1>6
<1> QED BY <1>1, <1>2, <1>5, <1>6, <1>7, MountAssumption DEF Blocks

----
(* Types.                                                                  *)

LEMMA ConstantTypes ==
  /\ 0 \in Inodes /\ 0 \in Blocks /\ Root \in Blocks /\ Root >= 1
  /\ 1 \in Nat \ {0} /\ ClusterLen \in Nat \ {0} /\ NBlocks \in Nat
  /\ Inodes \subseteq Nat /\ Blocks \subseteq Nat
BY MountAssumption DEF Inodes, Blocks, Root

LEMMA InitialTypes ==
  NoMem \in Memory /\ NoBuf \in [node : Node, table : Tables] /\ Formatted \in Image /\ Idle \in Job
<1>1. 0 \in 0..(Word - 1) /\ NBlocks - Meta \in 0..(Word - 1)
  BY MountAssumption, WordAssumption
<1> QED BY <1>1, ConstantTypes DEF NoMem, NoBuf, Formatted, Idle, JobAt, Memory, Node, Tables, Image, Job

\* A run of clear blocks lies on the volume and does not begin at block 0.
LEMMA FoundRun ==
  ASSUME NEW bits, NEW len \in Nat \ {0},
         NEW s, s = GetFirstFreeBits(bits, NBlocks, len), s # NONE
  PROVE  /\ s \in 1..(NBlocks - len) /\ s \in Blocks
         /\ Run(s, len) \subseteq Blocks \ (bits \cup {0})
<1>1. s \in 1..(NBlocks - len) /\ Run(s, len) \cap bits = {}
  BY FirstFreeIsFree, ConstantTypes
<1> QED BY <1>1, ConstantTypes DEF Run, Blocks

LEMMA FoundTypes ==
  ASSUME TypeOK, NEW l \in Lock, NEW ino \in Inodes, NEW len \in Nat \ {0},
         Found(l, ino, len)
  PROVE  job' \in [Lock -> Job] /\ harm' \subseteq Harm
<1> DEFINE s == GetFirstFreeBits(mem.bits, NBlocks, len)
<1>1. s \in Blocks
  BY FoundRun DEF Found
<1> HIDE DEF s
<1>2. JobAt("found", ino, s, len, {}) \in Job
  BY <1>1 DEF Job, JobAt, Taking
<1>3. job' = [job EXCEPT ![l] = JobAt("found", ino, s, len, {})]
  BY DEF Found, s
<1>4. harm' \subseteq harm \cup {"same area"}
  BY DEF Found
<1> QED BY <1>2, <1>3, <1>4 DEF TypeOK, Harm

(* What the initial state and every step do to the types.                  *)
LEMMA TypeInit == Init => TypeOK
<1> SUFFICES ASSUME Init PROVE TypeOK
  OBVIOUS
<1>1. mem \in Memory /\ disk \in Image /\ buf \in [node : Node, table : Tables]
  BY InitialTypes DEF Init
<1>2. job \in [Lock -> Job]
  BY InitialTypes DEF Init
<1>3. mounts \in 0..MaxMounts /\ calls \in 0..MaxCalls
  BY MountAssumption DEF Init
<1> QED BY <1>1, <1>2, <1>3 DEF Init, TypeOK, Harm

LEMMA TypeMount ==
  ASSUME TypeOK, NEW list \in Blocks, NEW taken \in SUBSET Blocks,
         Cardinality(taken) \in Nat, MountWith(list, taken),
         mounts < MaxMounts, mounts' = mounts + 1, mapped' \in BOOLEAN
  PROVE  TypeOK'
<1>1. Read(list, taken) \in Memory
  <2>1. disk.nfree \in 0..(Word - 1) /\ disk.imap \subseteq Inodes /\ disk.bits \subseteq Blocks
        /\ disk.bno \in [Inodes -> Blocks]
    BY DEF TypeOK, Image
  <2>2. U32(disk.nfree - Cardinality(taken)) \in 0..(Word - 1)
    BY <2>1, U32Type, WordAssumption
  <2>3. [NoMem.bno EXCEPT ![0] = disk.bno[0]] \in [Inodes -> Blocks]
    BY <2>1, InitialTypes, ConstantTypes DEF Memory
  <2> QED BY <2>1, <2>2, <2>3 DEF Memory, Read
<1>2. [node |-> [list |-> list, files |-> {}], table |-> disk.table] \in [node : Node, table : Tables]
  BY DEF TypeOK, Image, Node
<1> QED BY <1>1, <1>2, ConstantTypes, MountAssumption DEF TypeOK, MountWith

\* The steps of mkfs's volume from down to up.
LEMMA TypeMounts ==
  ASSUME TypeOK, FirstMount \/ MountAgain \/ MountOops
  PROVE  TypeOK'
<1>1. CASE FirstMount
  <2> DEFINE list == GetFirstFreeBits(disk.bits, NBlocks, 1)
  <2>1. list \in Blocks
    BY <1>1, FoundRun DEF FirstMount
  <2> HIDE DEF list
  <2>2. Cardinality({list}) \in Nat
    BY FS_Singleton
  <2>3. MountWith(list, {list}) /\ mounts < MaxMounts /\ mounts' = mounts + 1 /\ mapped' \in BOOLEAN
    BY <1>1 DEF FirstMount, list
  <2> QED BY <2>1, <2>2, <2>3, TypeMount
<1>2. CASE MountAgain
  <2>1. disk.node.list \in Blocks
    BY DEF TypeOK, Image, Node
  <2>2. Cardinality({}) \in Nat
    BY FS_EmptySet
  <2>3. mapped' \in BOOLEAN
    BY <1>2 DEF MountAgain, TypeOK
  <2> QED BY <1>2, <2>1, <2>2, <2>3, TypeMount DEF MountAgain
<1>3. CASE MountOops
  BY <1>3, MountAssumption DEF MountOops, TypeOK, history
<1> QED BY <1>1, <1>2, <1>3

AreaLen(l) == IF l = 0 THEN 1 ELSE ClusterLen

(* A call that takes blocks has found an area of the length it asks for, on *)
(* the volume and not at block 0; it has marked a part of it, and all of it *)
(* when it changes the counter; a write belongs to a file in the directory. *)
TakingSane(l) ==
  /\ job[l].len = AreaLen(l)
  /\ job[l].bno \in 1..(NBlocks - job[l].len)
  /\ l # 0 => l \in buf.node.files
  /\ job[l].has \subseteq Area(l)
  /\ job[l].at \in {"marked", "counted"} => job[l].has = Area(l)

\* Blocks are put under the directory's lock, one that is left or block 0.
PuttingSane(l) ==
  /\ l = 0 /\ job[l].len # 0
  /\ job[l].at = "clearing" /\ harm = {} => job[l].bno \in job[l].has \cup {0}

JobSane(l) ==
  /\ job[l].at # "idle" => up = "up"
  /\ job[l].at = "idle" => job[l].has = {}
  /\ job[l].at \in Taking => TakingSane(l)
  /\ job[l].at \in Putting => PuttingSane(l)

JobsSane == \A l \in Lock : JobSane(l)

LEMMA ClustersFinite ==
  ASSUME NEW tab \in SUBSET Starts
  PROVE  Clusters(tab) \subseteq Blocks /\ Cardinality(Clusters(tab)) \in Nat
<1>1. IsFiniteSet(Blocks)
  BY FS_Interval, ConstantTypes DEF Blocks
<1>2. Clusters(tab) \subseteq Blocks
  BY ConstantTypes DEF Clusters, Run, Blocks, Starts
<1>3. IsFiniteSet(Clusters(tab))
  BY <1>1, <1>2, FS_Subset
<1> QED BY <1>2, <1>3, FS_CardinalityType

LEMMA AreaOnVolume ==
  ASSUME TypeOK, JobsSane, NEW l \in Lock, job[l].at \in Taking
  PROVE  /\ job[l].bno \in Blocks /\ job[l].bno # 0 /\ job[l].len \in Nat \ {0}
         /\ Area(l) \subseteq Blocks \ {0} /\ job[l].has \subseteq Area(l)
<1>1. job[l].len \in Nat \ {0} /\ job[l].bno \in 1..(NBlocks - job[l].len) /\ job[l].has \subseteq Area(l)
  BY ConstantTypes DEF JobsSane, JobSane, TakingSane, AreaLen
<1> QED BY <1>1, ConstantTypes DEF Run, Blocks, Area

\* The job under a lock may be changed field by field.
LEMMA JobChanged ==
  ASSUME NEW g \in [Lock -> Job], NEW l \in Lock, NEW at \in Taking \cup Putting,
         NEW bno \in Blocks, NEW has \in SUBSET Blocks, NEW saw \in SUBSET Blocks
  PROVE  /\ [g EXCEPT ![l].at = at, ![l].has = has, ![l].saw = saw] \in [Lock -> Job]
         /\ [g EXCEPT ![l].at = at, ![l].bno = bno, ![l].saw = saw] \in [Lock -> Job]
<1>1. [g EXCEPT ![l].at = at] \in [Lock -> Job]
  BY DEF Job
<1>2. ASSUME NEW k \in [Lock -> Job]
      PROVE  [k EXCEPT ![l].has = has] \in [Lock -> Job] /\ [k EXCEPT ![l].bno = bno] \in [Lock -> Job]
  BY DEF Job
<1>3. ASSUME NEW k \in [Lock -> Job] PROVE [k EXCEPT ![l].saw = saw] \in [Lock -> Job]
  BY DEF Job
<1> DEFINE g1 == [g EXCEPT ![l].at = at]
           g2 == [g1 EXCEPT ![l].has = has]
           g3 == [g1 EXCEPT ![l].bno = bno]
<1>4. g1 \in [Lock -> Job]
  BY <1>1
<1> HIDE DEF g1
<1>5. g2 \in [Lock -> Job] /\ g3 \in [Lock -> Job]
  BY <1>2, <1>4
<1> HIDE DEF g2, g3
<1>6. [g2 EXCEPT ![l].saw = saw] \in [Lock -> Job] /\ [g3 EXCEPT ![l].saw = saw] \in [Lock -> Job]
  BY <1>3, <1>5
<1> QED BY <1>6 DEF g1, g2, g3

\* Neither what is written back nor the counter leaves its type.
LEMMA WriteBackTypes ==
  ASSUME TypeOK, NEW l \in Lock, NEW w, NEW changed \in SUBSET Blocks,
         WriteBack(l, w, changed)
  PROVE  mem' \in Memory /\ harm' \subseteq Harm
<1>1. (mem.bits \ w) \cup changed \subseteq Blocks
  BY DEF TypeOK, Memory
<1>2. mem' = [mem EXCEPT !.bits = (mem.bits \ w) \cup changed]
  BY DEF WriteBack, TypeOK, Memory
<1>3. mem' \in Memory
  BY <1>1, <1>2 DEF TypeOK, Memory
<1>4. harm' \subseteq harm \cup {"word undone"}
  BY DEF WriteBack
<1> QED BY <1>3, <1>4 DEF TypeOK, Harm

LEMMA CountedTypes ==
  ASSUME TypeOK, NEW l \in Lock, NEW n \in Int, Counted(l, n)
  PROVE  mem' \in Memory /\ mem'.bits = mem.bits /\ mem'.bno = mem.bno
<1>1. mem \in Memory /\ mem.nfree \in 0..(Word - 1)
  BY DEF TypeOK, Memory
<1>2. U32(mem.nfree + n) \in 0..(Word - 1)
  BY <1>1, U32Type, WordAssumption
<1>3. mem' = mem \/ mem' = [mem EXCEPT !.nfree = U32(mem.nfree + n)]
  BY <1>1 DEF Counted, Memory
<1> QED BY <1>1, <1>2, <1>3 DEF Memory

\* The calls that take blocks.
LEMMA TypeTaking ==
  ASSUME TypeOK, JobsSane, NEW l \in Lock,
         BeginCreate \/ (l # 0 /\ BeginGrow(l)) \/ ReadToSet(l) \/ SetWord(l) \/ CountArea(l)
  PROVE  TypeOK'
<1>1. mem \in Memory /\ job[l] \in Job /\ Lock = Inodes
  BY DEF TypeOK, Lock
<1>2. CASE BeginCreate
  <2> DEFINE ino == Least(Inodes \ (mem.imap \cup {0}))
  <2>1. ino \in Inodes
    <3> DEFINE Free == Inodes \ (mem.imap \cup {0})
    <3>1. Free # {} /\ Free \in SUBSET Nat
      BY <1>2, ConstantTypes DEF BeginCreate
    <3> HIDE DEF Free
    <3>2. Least(Free) \in Free
      BY <3>1, LeastIsMember
    <3> QED BY <3>2 DEF Free
  <2> HIDE DEF ino
  <2>2. Found(0, ino, 1) /\ mem' = [mem EXCEPT !.imap = @ \cup {ino}]
    BY <1>2 DEF BeginCreate, ino
  <2>3. job' \in [Lock -> Job] /\ harm' \subseteq Harm
    BY <1>1, <2>1, <2>2, FoundTypes, ConstantTypes
  <2>4. mem' \in Memory
    BY <1>1, <2>1, <2>2 DEF Memory
  <2>5. calls' \in 0..MaxCalls
    BY <1>2, MountAssumption DEF BeginCreate, TypeOK
  <2> QED BY <1>2, <2>3, <2>4, <2>5 DEF BeginCreate, TypeOK
<1>3. CASE l # 0 /\ BeginGrow(l)
  <2>1. job' \in [Lock -> Job] /\ harm' \subseteq Harm
    BY <1>1, <1>3, FoundTypes, ConstantTypes DEF BeginGrow
  <2>2. calls' \in 0..MaxCalls
    BY <1>3, MountAssumption DEF BeginGrow, TypeOK
  <2> QED BY <1>3, <2>1, <2>2 DEF BeginGrow, TypeOK
<1>4. CASE ReadToSet(l)
  <2>1. job' = [job EXCEPT ![l].at = "marking", ![l].saw = mem.bits \cap WordInHand(l)]
    BY <1>4 DEF ReadToSet
  <2>2. mem.bits \cap WordInHand(l) \subseteq Blocks
    BY <1>1 DEF Memory
  <2>3. job' \in [Lock -> Job]
    BY <2>1, <2>2 DEF TypeOK, Job, Taking
  <2> QED BY <1>4, <2>3 DEF ReadToSet, TypeOK, history
<1>5. CASE SetWord(l)
  <2>1. PICK w, has, at :
           /\ has = job[l].has \cup (Area(l) \cap w)
           /\ at \in {"marked", "found"}
           /\ WriteBack(l, w, job[l].saw \cup (Area(l) \cap w))
           /\ job' = [job EXCEPT ![l].at = at, ![l].has = has, ![l].saw = {}]
    BY <1>5 DEF SetWord
  <2>2. Area(l) \subseteq Blocks
    BY <1>5, AreaOnVolume DEF SetWord, Taking
  <2>3. has \subseteq Blocks /\ job[l].saw \cup (Area(l) \cap w) \subseteq Blocks
    BY <1>1, <2>1, <2>2 DEF Job
  <2>4. mem' \in Memory /\ harm' \subseteq Harm
    BY <1>1, <2>1, <2>3, WriteBackTypes
  <2>5. job' \in [Lock -> Job]
    <3>1. at \in Taking \cup Putting /\ {} \in SUBSET Blocks /\ 0 \in Blocks /\ job \in [Lock -> Job]
      BY <2>1, ConstantTypes DEF Taking, TypeOK
    <3> QED BY <2>1, <2>3, <3>1, JobChanged
  <2> QED BY <1>5, <2>4, <2>5 DEF SetWord, TypeOK
<1>6. CASE CountArea(l)
  <2>1. mem' \in Memory
    <3>1. -job[l].len \in Int
      BY <1>1 DEF Job
    <3> QED BY <1>6, <3>1, CountedTypes DEF CountArea
  <2>2. job' \in [Lock -> Job]
    BY <1>1, <1>6 DEF CountArea, TypeOK, Job, Taking
  <2> QED BY <1>6, <2>1, <2>2 DEF CountArea, TypeOK
<1> QED BY <1>2, <1>3, <1>4, <1>5, <1>6

\* The end of a call, and the begin of unlink.
LEMMA TypeFiles ==
  ASSUME TypeOK, JobsSane, NEW f \in Inodes,
         FinishCreate \/ FinishGrow(f) \/ BeginUnlink(f)
  PROVE  TypeOK'
<1>1. /\ mem \in Memory /\ Lock = Inodes /\ Idle \in Job
      /\ buf.node.files \subseteq Inodes /\ buf.node.list \in Blocks
      /\ buf.table \in [Blocks -> SUBSET Starts]
      /\ buf = [node |-> [list |-> buf.node.list, files |-> buf.node.files], table |-> buf.table]
  BY InitialTypes DEF TypeOK, Lock, Node, Tables
<1>2. mem.bno \in [Inodes -> Blocks] /\ mem.bits \subseteq Blocks /\ mem.nfree \in 0..(Word - 1)
  BY <1>1 DEF Memory
<1>3. CASE FinishCreate
  <2> DEFINE ino == job[0].ino
             b == job[0].bno
  <2>1. ino \in Inodes /\ b \in Blocks /\ Root \in Blocks
    BY ConstantTypes DEF TypeOK, Lock, Job
  <2>2. mem' \in Memory
    BY <1>1, <1>2, <1>3, <2>1 DEF FinishCreate, Memory
  <2>3. buf' = [node |-> [list |-> buf.node.list, files |-> buf.node.files \cup {ino}],
                table |-> [buf.table EXCEPT ![b] = {}]]
    <3>1. buf' = [buf EXCEPT !.table[b] = {}, !.node.files = @ \cup {ino}]
      BY <1>3 DEF FinishCreate
    <3> HIDE DEF ino, b
    <3> QED BY <3>1 DEF TypeOK, Node, Tables
  <2>4. buf' \in [node : Node, table : Tables]
    BY <1>1, <2>1, <2>3 DEF Node, Tables
  <2>5. job' \in [Lock -> Job]
    BY <1>1, <1>3 DEF FinishCreate, TypeOK
  <2> QED BY <1>3, <2>1, <2>2, <2>4, <2>5 DEF FinishCreate, TypeOK
<1>4. CASE FinishGrow(f)
  <2> DEFINE b == mem.bno[f]
             start == job[f].bno
  <2>1. b \in Blocks /\ start \in Starts
    <3>1. job[f].at = "counted" /\ f # 0
      BY <1>4 DEF FinishGrow
    <3>2. job[f].len = ClusterLen /\ start \in 1..(NBlocks - job[f].len)
      BY <1>1, <3>1 DEF JobsSane, JobSane, TakingSane, Taking, AreaLen
    <3> QED BY <1>1, <1>2, <3>2, ConstantTypes DEF Blocks, Starts
  <2>2. buf' = [node |-> buf.node, table |-> [buf.table EXCEPT ![b] = @ \cup {start}]]
    BY <1>1, <1>4 DEF FinishGrow
  <2>3. buf' \in [node : Node, table : Tables]
    BY <1>1, <2>1, <2>2 DEF Node, Tables, TypeOK
  <2>4. late' \subseteq Blocks \X Blocks
    <3>1. late' \subseteq late \cup {<<b, start>>} /\ <<b, start>> \in Blocks \X Blocks
      BY <1>4, <2>1 DEF FinishGrow, Starts
    <3> QED BY <3>1 DEF TypeOK
  <2>5. job' \in [Lock -> Job]
    BY <1>1, <1>4 DEF FinishGrow, TypeOK
  <2> QED BY <1>4, <2>3, <2>4, <2>5 DEF FinishGrow, TypeOK
<1>5. CASE BeginUnlink(f)
  <2>0. PICK put : put = Clusters(buf.table[mem.bno[f]])
    OBVIOUS
  <2>1. Cardinality(put) \in Nat /\ put \subseteq Blocks
    BY <1>1, <1>2, <2>0, ClustersFinite
  <2>2. PICK j : /\ j = JobAt("freeing", f, 0, Cardinality(put) + 1, put)
                 /\ job' = [job EXCEPT ![0] = j]
    BY <1>5, <2>0 DEF BeginUnlink
  <2>3. j \in Job
    BY <1>1, <2>1, <2>2, ConstantTypes DEF Job, Putting, JobAt
  <2>4. job' \in [Lock -> Job]
    BY <2>2, <2>3 DEF TypeOK
  <2>5. buf' = [node |-> [list |-> buf.node.list, files |-> buf.node.files \ {f}], table |-> buf.table]
    <3>1. buf' = [buf EXCEPT !.node.files = @ \ {f}]
      BY <1>5 DEF BeginUnlink
    <3> QED BY <3>1 DEF TypeOK, Node, Tables
  <2>6. buf' \in [node : Node, table : Tables]
    BY <1>1, <2>5 DEF Node, Tables
  <2>7. calls' \in 0..MaxCalls
    <3>1. calls < MaxCalls /\ calls' = calls + 1 /\ calls \in 0..MaxCalls
      BY <1>5 DEF BeginUnlink, TypeOK
    <3> QED BY <3>1, MountAssumption
  <2>8. dirty' \subseteq Blocks
    BY <1>5, ConstantTypes DEF BeginUnlink, TypeOK
  <2> QED BY <1>5, <2>4, <2>6, <2>7, <2>8 DEF BeginUnlink, TypeOK
<1> QED BY <1>3, <1>4, <1>5

LEMMA TypePutting ==
  ASSUME TypeOK, JobsSane, ReadToClear \/ ClearBit \/ CountPut
  PROVE  TypeOK'
<1>1. mem \in Memory /\ 0 \in Lock /\ job[0] \in Job
  BY ConstantTypes DEF TypeOK, Lock
<1>2. CASE ReadToClear
  <2>1. PICK b :
           /\ b \in IF job[0].len > 1 THEN job[0].has ELSE {0} \cup Garbage
           /\ job' = [job EXCEPT ![0].at = "clearing", ![0].bno = b, ![0].saw = mem.bits \cap WordOf(b)]
           /\ harm' = IF job[0].len = 1 /\ b # 0 THEN harm \cup {"garbage put"} ELSE harm
    BY <1>2 DEF ReadToClear
  <2>2. b \in Blocks
    <3>1. Garbage \subseteq Blocks /\ 0 \in Blocks /\ job[0].has \subseteq Blocks
      BY <1>1, MountAssumption, ConstantTypes DEF Blocks, Job
    <3> QED BY <2>1, <3>1
  <2>3. mem.bits \cap WordOf(b) \subseteq Blocks
    BY <1>1 DEF Memory
  <2>4. job' \in [Lock -> Job]
    <3>1. "clearing" \in Taking \cup Putting /\ job \in [Lock -> Job]
      BY DEF Putting, TypeOK
    <3> QED BY <1>1, <2>1, <2>2, <2>3, <3>1, JobChanged
  <2>5. harm' \subseteq Harm
    BY <2>1 DEF TypeOK, Harm
  <2> QED BY <1>2, <2>4, <2>5 DEF ReadToClear, TypeOK
<1>3. CASE ClearBit
  <2>1. PICK b, w : /\ WriteBack(0, w, job[0].saw \ {b})
                    /\ job' = [job EXCEPT ![0].at = "cleared", ![0].has = @ \ {b}, ![0].saw = {}]
    BY <1>3 DEF ClearBit
  <2>2. mem' \in Memory /\ harm' \subseteq Harm
    BY <1>1, <2>1, WriteBackTypes DEF Job
  <2>3. job' \in [Lock -> Job]
    <3>1. "cleared" \in Taking \cup Putting /\ {} \in SUBSET Blocks /\ 0 \in Blocks /\ job \in [Lock -> Job]
      BY ConstantTypes DEF Putting, TypeOK
    <3>2. job[0].has \ {b} \in SUBSET Blocks
      BY <1>1 DEF Job
    <3> QED BY <1>1, <2>1, <3>1, <3>2, JobChanged
  <2> QED BY <1>3, <2>2, <2>3 DEF ClearBit, TypeOK
<1>4. CASE CountPut
  <2>1. mem' \in Memory
    BY <1>1, <1>4, CountedTypes DEF CountPut
  <2>2. job' \in [Lock -> Job]
    <3>1. CASE job[0].len = 1
      <4>1. job' = [job EXCEPT ![0] = Idle]
        BY <1>4, <3>1 DEF CountPut
      <4> QED BY <4>1, InitialTypes DEF TypeOK
    <3>2. CASE job[0].len # 1
      <4>1. job' = [job EXCEPT ![0].at = "freeing", ![0].len = @ - 1]
        BY <1>4, <3>2 DEF CountPut
      <4>2. job[0].len - 1 \in Nat
        BY <1>1, <1>4 DEF CountPut, JobsSane, JobSane, PuttingSane, Putting, Job
      <4> QED BY <1>1, <4>1, <4>2 DEF TypeOK, Job, Putting
    <3> QED BY <3>1, <3>2
  <2> QED BY <1>4, <2>1, <2>2 DEF CountPut, TypeOK
<1> QED BY <1>2, <1>3, <1>4

LEMMA WrittenTypes ==
  ASSUME TypeOK, NEW B \in SUBSET Blocks, NEW I \in SUBSET Inodes
  PROVE  /\ Written(disk, B) \in Image /\ WithInodes(disk, I) \in Image
         /\ Written(WithInodes(disk, I), B) \in Image
<1>1. /\ buf.node \in Node /\ buf.table \in Tables
      /\ mem.bno \in [Inodes -> Blocks]
  BY DEF TypeOK, Memory
<1>2. ASSUME NEW image \in Image
      PROVE  Written(image, B) \in Image /\ WithInodes(image, I) \in Image
  <2>1. image.node \in Node /\ image.table \in Tables /\ image.bno \in [Inodes -> Blocks]
    BY <1>2 DEF Image
  <2>2. [b \in Blocks |-> IF b \in B \ {Root} THEN buf.table[b] ELSE image.table[b]] \in Tables
    BY <1>1, <2>1 DEF Tables
  <2>3. Written(image, B) \in Image
    BY <1>1, <1>2, <2>1, <2>2 DEF Image, Written
  <2>4. [i \in Inodes |-> IF i \in I THEN mem.bno[i] ELSE image.bno[i]] \in [Inodes -> Blocks]
    BY <1>1, <2>1
  <2> QED BY <1>2, <2>3, <2>4 DEF Image, WithInodes
<1> QED BY <1>2 DEF TypeOK

\* Writing back, and the end of a mount.
LEMMA TypeDisk ==
  ASSUME TypeOK,
         \/ \E b \in Blocks : WriteBuffer(b)
         \/ \E i \in Inodes : WriteInode(i)
         \/ BeginSync \/ FlushSuperblock \/ FlushInodeMap \/ FlushBlockMap \/ EndSync
         \/ Unmount \/ Crash
  PROVE  TypeOK'
<1>1. /\ disk \in Image /\ dirty \subseteq Blocks /\ Loaded \subseteq Inodes
      /\ mem.nfree \in 0..(Word - 1) /\ mem.imap \subseteq Inodes /\ mem.bits \subseteq Blocks
  BY DEF TypeOK, Memory, Loaded
<1>2. CASE \E b \in Blocks : WriteBuffer(b)
  <2> PICK b \in Blocks : WriteBuffer(b)
    BY <1>2
  <2>1. disk' \in Image
    BY WrittenTypes DEF WriteBuffer
  <2> QED BY <2>1 DEF WriteBuffer, TypeOK, history
<1>3. CASE \E i \in Inodes : WriteInode(i)
  <2> PICK i \in Inodes : WriteInode(i)
    BY <1>3
  <2>1. disk' \in Image
    BY WrittenTypes DEF WriteInode
  <2> QED BY <2>1 DEF WriteInode, TypeOK, history
<1>4. CASE BeginSync
  <2>1. disk' \in Image
    BY <1>1, <1>4, WrittenTypes DEF BeginSync
  <2> QED BY <1>4, <2>1 DEF BeginSync, TypeOK
<1>5. CASE FlushSuperblock
  <2>1. disk' \in Image
    BY <1>1, <1>5 DEF FlushSuperblock, Image
  <2> QED BY <1>5, <2>1 DEF FlushSuperblock, TypeOK, history
<1>6. CASE FlushInodeMap
  <2>1. disk' \in Image
    BY <1>1, <1>6 DEF FlushInodeMap, Image
  <2> QED BY <1>6, <2>1 DEF FlushInodeMap, TypeOK, history
<1>7. CASE FlushBlockMap
  <2>1. disk' \in Image
    BY <1>1, <1>7 DEF FlushBlockMap, Image
  <2> QED BY <1>7, <2>1 DEF FlushBlockMap, TypeOK
<1>8. CASE EndSync
  <2>1. disk' \in Image
    BY <1>1, <1>8, WrittenTypes DEF EndSync
  <2> QED BY <1>8, <2>1 DEF EndSync, TypeOK
<1>9. CASE Unmount \/ Crash
  <2>1. disk' \in Image
    <3>1. CASE Unmount
      BY <1>1, <3>1, WrittenTypes DEF Unmount, Image
    <3>2. CASE Crash
      BY <1>1, <3>2 DEF Crash
    <3> QED BY <1>9, <3>1, <3>2
  <2>2. job' \in [Lock -> Job]
    BY <1>9, InitialTypes DEF Unmount, Crash, Off
  <2>3. harm' \subseteq Harm /\ mapped' \in BOOLEAN
    BY <1>9 DEF Unmount, Crash, TypeOK, Harm
  <2>4. Off
    BY <1>9 DEF Unmount, Crash
  <2> QED BY <2>1, <2>2, <2>3, <2>4, InitialTypes DEF Off, TypeOK
<1> QED BY <1>2, <1>3, <1>4, <1>5, <1>6, <1>7, <1>8, <1>9

LEMMA HarmStays ==
  ASSUME [Next]_vars, harm' = {}
  PROVE  harm = {}
<1>1. CASE UNCHANGED vars
  BY <1>1 DEF vars, history
<1>2. CASE FirstMount \/ MountAgain \/ MountOops
  BY <1>2 DEF FirstMount, MountAgain, MountOops, MountWith, history
<1>3. CASE BeginCreate
  BY <1>3 DEF BeginCreate, Found
<1>4. CASE FinishCreate
  BY <1>4 DEF FinishCreate
<1>5. ASSUME NEW l \in Lock, ReadToSet(l) \/ SetWord(l) \/ CountArea(l) PROVE harm = {}
  BY <1>5 DEF ReadToSet, SetWord, CountArea, WriteBack, history
<1>6. ASSUME NEW f \in Inodes, BeginGrow(f) \/ FinishGrow(f) \/ BeginUnlink(f) PROVE harm = {}
  BY <1>6 DEF BeginGrow, FinishGrow, BeginUnlink, Found
<1>7. CASE ReadToClear \/ ClearBit \/ CountPut
  BY <1>7 DEF ReadToClear, ClearBit, CountPut, WriteBack
<1>8. CASE \/ \E b \in Blocks : WriteBuffer(b)
           \/ \E i \in Inodes : WriteInode(i)
           \/ BeginSync \/ FlushSuperblock \/ FlushInodeMap \/ FlushBlockMap \/ EndSync
  BY <1>8 DEF WriteBuffer, WriteInode, BeginSync, FlushSuperblock, FlushInodeMap, FlushBlockMap,
              EndSync, history
<1>9. CASE Unmount \/ Crash
  BY <1>9 DEF Unmount, Crash
<1> QED BY <1>1, <1>2, <1>3, <1>4, <1>5, <1>6, <1>7, <1>8, <1>9 DEF Next

\* The job of a lock on which nobody works now.
LEMMA JobKept ==
  ASSUME NEW k \in Lock, JobSane(k), job'[k] = job[k], up' = up, harm' = {} => harm = {},
         job[k].at \in Taking /\ k # 0 /\ k \in buf.node.files => k \in buf'.node.files
  PROVE  JobSane(k)'
<1>1. Area(k)' = Area(k)
  BY DEF Area
<1> QED BY <1>1 DEF JobSane, TakingSane, PuttingSane, AreaLen

LEMMA JobFound ==
  ASSUME TypeOK, NEW l \in Lock, NEW ino \in Inodes, Found(l, ino, AreaLen(l)),
         up' = "up", l # 0 => l \in buf'.node.files
  PROVE  JobSane(l)'
<1> DEFINE s == GetFirstFreeBits(mem.bits, NBlocks, AreaLen(l))
<1>1. AreaLen(l) \in Nat \ {0}
  BY ConstantTypes DEF AreaLen
<1>2. s \in 1..(NBlocks - AreaLen(l))
  BY <1>1, FoundRun DEF Found
<1> HIDE DEF s
<1>3. job' = [job EXCEPT ![l] = JobAt("found", ino, s, AreaLen(l), {})]
  BY DEF Found, s
<1>4. job'[l] = [at |-> "found", ino |-> ino, bno |-> s, len |-> AreaLen(l), has |-> {}, saw |-> {}]
  BY <1>3 DEF TypeOK, JobAt
<1> QED BY <1>2, <1>4 DEF JobSane, TakingSane, AreaLen, Putting

LEMMA JobTaking ==
  ASSUME TypeOK, NEW l \in Lock, JobSane(l), ReadToSet(l) \/ SetWord(l) \/ CountArea(l)
  PROVE  JobSane(l)'
<1>1. /\ job \in [Lock -> Job] /\ up = "up" /\ up' = up /\ buf' = buf
      /\ job[l].at \in Taking /\ TakingSane(l)
  BY DEF TypeOK, ReadToSet, SetWord, CountArea, JobSane, Taking, history
<1>2. CASE ReadToSet(l)
  <2>1. /\ job'[l].at = "marking" /\ job'[l].bno = job[l].bno /\ job'[l].len = job[l].len
        /\ job'[l].has = job[l].has
    BY <1>1, <1>2 DEF ReadToSet, Job
  <2>2. Area(l)' = Area(l)
    BY <2>1 DEF Area
  <2> QED BY <1>1, <2>1, <2>2 DEF JobSane, TakingSane, AreaLen, Putting
<1>3. CASE SetWord(l)
  <2>1. PICK w, has, at :
           /\ has = job[l].has \cup (Area(l) \cap w)
           /\ at = IF Area(l) \subseteq has THEN "marked" ELSE "found"
           /\ job' = [job EXCEPT ![l].at = at, ![l].has = has, ![l].saw = {}]
    BY <1>3 DEF SetWord
  <2>2. /\ job'[l].at = at /\ job'[l].bno = job[l].bno /\ job'[l].len = job[l].len
        /\ job'[l].has = has
    BY <1>1, <2>1 DEF Job
  <2>3. Area(l)' = Area(l)
    BY <2>2 DEF Area
  <2>4. has \subseteq Area(l) /\ (at = "marked" => has = Area(l)) /\ at \in {"marked", "found"}
    BY <1>1, <2>1 DEF TakingSane
  <2> QED BY <1>1, <2>2, <2>3, <2>4 DEF JobSane, TakingSane, AreaLen, Putting
<1>4. CASE CountArea(l)
  <2>1. /\ job'[l].at = "counted" /\ job'[l].bno = job[l].bno /\ job'[l].len = job[l].len
        /\ job'[l].has = job[l].has /\ job[l].at = "marked"
    BY <1>1, <1>4 DEF CountArea, Job
  <2>2. Area(l)' = Area(l)
    BY <2>1 DEF Area
  <2> QED BY <1>1, <2>1, <2>2 DEF JobSane, TakingSane, AreaLen, Putting
<1> QED BY <1>2, <1>3, <1>4

LEMMA JobPutting ==
  ASSUME TypeOK, 0 \in Lock, JobSane(0), ReadToClear \/ ClearBit \/ CountPut
  PROVE  JobSane(0)'
<1>1. /\ job \in [Lock -> Job] /\ up = "up" /\ up' = up
      /\ job[0].at \in Putting /\ job[0].len # 0
  BY DEF TypeOK, ReadToClear, ClearBit, CountPut, JobSane, PuttingSane, Putting
<1>2. CASE ReadToClear
  <2>1. PICK b :
           /\ b \in IF job[0].len > 1 THEN job[0].has ELSE {0} \cup Garbage
           /\ job' = [job EXCEPT ![0].at = "clearing", ![0].bno = b, ![0].saw = mem.bits \cap WordOf(b)]
           /\ harm' = IF job[0].len = 1 /\ b # 0 THEN harm \cup {"garbage put"} ELSE harm
    BY <1>2 DEF ReadToClear
  <2>2. /\ job'[0].at = "clearing" /\ job'[0].bno = b /\ job'[0].len = job[0].len
        /\ job'[0].has = job[0].has
    BY <1>1, <2>1 DEF Job
  <2>3. harm' = {} => b \in job[0].has \cup {0}
    <3>1. job[0].len \in Nat
      BY <1>1 DEF Job
    <3>2. CASE job[0].len > 1
      BY <2>1, <3>2
    <3>3. CASE job[0].len = 1
      BY <2>1, <3>3
    <3> QED BY <1>1, <3>1, <3>2, <3>3
  <2> QED BY <1>1, <2>2, <2>3 DEF JobSane, PuttingSane, Taking
<1>3. CASE ClearBit
  <2>1. job'[0].at = "cleared" /\ job'[0].len = job[0].len
    BY <1>1, <1>3 DEF ClearBit, Job
  <2> QED BY <1>1, <2>1 DEF JobSane, PuttingSane, Taking
<1>4. CASE CountPut
  <2>1. CASE job[0].len = 1
    <3>1. job'[0] = Idle
      BY <1>1, <1>4, <2>1 DEF CountPut
    <3> QED BY <3>1 DEF Idle, JobAt, JobSane, Taking, Putting
  <2>2. CASE job[0].len # 1
    <3>1. job'[0].at = "freeing" /\ job'[0].len = job[0].len - 1
      BY <1>1, <1>4, <2>2 DEF CountPut, Job
    <3>2. job'[0].len # 0
      BY <1>1, <2>2, <3>1 DEF Job
    <3> QED BY <1>1, <3>1, <3>2 DEF JobSane, PuttingSane, Taking
  <2> QED BY <2>1, <2>2
<1> QED BY <1>2, <1>3, <1>4

\* Every step works on the job of one lock, or on none.
LEMMA JobsStep ==
  ASSUME TypeOK, JobsSane, [Next]_vars
  PROVE  JobsSane'
<1>1. /\ Lock = Inodes /\ 0 \in Lock /\ Idle.at = "idle" /\ Idle.has = {}
      /\ job \in [Lock -> Job] /\ (harm' = {} => harm = {})
      /\ \A k \in Lock : JobSane(k)
  BY ConstantTypes, HarmStays DEF Lock, Idle, JobAt, TypeOK, JobsSane
<1>2. ASSUME NEW l \in Lock, JobSane(l)', \A k \in Lock \ {l} : job'[k] = job[k],
             up' = up, \A k \in buf.node.files : k \in buf'.node.files \/ job[k].at = "idle"
      PROVE  JobsSane'
  <2>1. ASSUME NEW k \in Lock \ {l} PROVE JobSane(k)'
    <3>1. job[k].at \in Taking => job[k].at # "idle"
      BY DEF Taking
    <3> QED BY <1>1, <1>2, <3>1, JobKept
  <2> QED BY <1>2, <2>1 DEF JobsSane
<1>3. ASSUME job' = job, up' = up, buf' = buf PROVE JobsSane'
  BY <1>1, <1>3, JobKept DEF JobsSane
<1>4. ASSUME \A l \in Lock : job'[l].at = "idle" /\ job'[l].has = {} PROVE JobsSane'
  BY <1>4 DEF JobsSane, JobSane, Taking, Putting
<1>5. CASE UNCHANGED vars
  BY <1>3, <1>5 DEF vars
<1>6. CASE FirstMount \/ MountAgain \/ MountOops
  <2>1. job' = job /\ up # "up"
    BY <1>6 DEF FirstMount, MountAgain, MountOops, MountWith
  <2> QED BY <1>1, <1>4, <2>1 DEF JobSane
<1>7. CASE BeginCreate
  <2>1. PICK ino \in Inodes : Found(0, ino, 1)
    <3> DEFINE Free == Inodes \ (mem.imap \cup {0})
    <3>1. Free # {} /\ Free \in SUBSET Nat /\ Found(0, Least(Free), 1)
      BY <1>7, ConstantTypes DEF BeginCreate
    <3> HIDE DEF Free
    <3>2. Least(Free) \in Free
      BY <3>1, LeastIsMember
    <3> QED BY <3>1, <3>2 DEF Free
  <2>2. AreaLen(0) = 1 /\ up = "up" /\ up' = up /\ buf' = buf
    BY <1>7 DEF AreaLen, BeginCreate
  <2>3. JobSane(0)'
    BY <1>1, <2>1, <2>2, JobFound
  <2>4. \A k \in Lock \ {0} : job'[k] = job[k]
    BY <1>1, <2>1 DEF Found
  <2> QED BY <1>1, <1>2, <2>2, <2>3, <2>4
<1>8. ASSUME NEW f \in Inodes \ {0}, BeginGrow(f) PROVE JobsSane'
  <2>1. /\ AreaLen(f) = ClusterLen /\ up = "up" /\ up' = up /\ buf' = buf
        /\ f \in buf.node.files /\ Found(f, f, ClusterLen)
    BY <1>8 DEF AreaLen, BeginGrow
  <2>2. JobSane(f)'
    BY <1>1, <2>1, JobFound
  <2>3. \A k \in Lock \ {f} : job'[k] = job[k]
    BY <1>1, <2>1 DEF Found
  <2> QED BY <1>1, <1>2, <2>1, <2>2, <2>3
<1>9. ASSUME NEW l \in Lock, ReadToSet(l) \/ SetWord(l) \/ CountArea(l) PROVE JobsSane'
  <2>1. JobSane(l)'
    BY <1>1, <1>9, JobTaking
  <2>2. up' = up /\ buf' = buf /\ \A k \in Lock \ {l} : job'[k] = job[k]
    BY <1>1, <1>9 DEF ReadToSet, SetWord, CountArea
  <2> QED BY <1>2, <2>1, <2>2
<1>10. CASE ReadToClear \/ ClearBit \/ CountPut
  <2>1. JobSane(0)'
    BY <1>1, <1>10, JobPutting
  <2>2. up' = up /\ buf' = buf /\ \A k \in Lock \ {0} : job'[k] = job[k]
    BY <1>1, <1>10 DEF ReadToClear, ClearBit, CountPut
  <2> QED BY <1>1, <1>2, <2>1, <2>2
<1>11. CASE FinishCreate
  <2>1. /\ \A k \in Lock \ {0} : job'[k] = job[k]
        /\ job'[0] = Idle
    BY <1>1, <1>11 DEF FinishCreate
  <2>2. up' = up /\ buf.node.files \subseteq buf'.node.files
    BY <1>11 DEF FinishCreate, TypeOK, Node, Tables
  <2>3. JobSane(0)'
    BY <1>1, <2>1 DEF JobSane, Taking, Putting
  <2> QED BY <1>1, <1>2, <2>1, <2>2, <2>3
<1>12. ASSUME NEW f \in Inodes \ {0}, FinishGrow(f) PROVE JobsSane'
  <2>1. /\ \A k \in Lock \ {f} : job'[k] = job[k]
        /\ job'[f] = Idle
    BY <1>1, <1>12 DEF FinishGrow
  <2>2. up' = up /\ buf.node.files \subseteq buf'.node.files
    BY <1>12 DEF FinishGrow, TypeOK, Node, Tables
  <2>3. JobSane(f)'
    BY <1>1, <2>1 DEF JobSane, Taking, Putting
  <2> QED BY <1>1, <1>2, <2>1, <2>2, <2>3
<1>13. ASSUME NEW f \in Inodes \ {0}, BeginUnlink(f) PROVE JobsSane'
  <2>1. PICK put, n :
           /\ n = Cardinality(put) + 1
           /\ put = Clusters(buf.table[mem.bno[f]])
           /\ job' = [job EXCEPT ![0] = JobAt("freeing", f, 0, n, put)]
    BY <1>13 DEF BeginUnlink
  <2>2. n # 0
    <3>1. buf.table[mem.bno[f]] \in SUBSET Starts
      BY <1>13 DEF TypeOK, Memory, Tables
    <3> QED BY <2>1, <3>1, ClustersFinite
  <2>3. job'[0].at = "freeing" /\ job'[0].len = n /\ \A k \in Lock \ {0} : job'[k] = job[k]
    BY <1>1, <2>1 DEF JobAt
  <2>4. up = "up" /\ up' = up /\ job[f].at = "idle" /\ buf' = [buf EXCEPT !.node.files = @ \ {f}]
    BY <1>13 DEF BeginUnlink
  <2>5. \A k \in buf.node.files : k \in buf'.node.files \/ job[k].at = "idle"
    BY <2>4 DEF TypeOK, Node, Tables
  <2>6. JobSane(0)'
    BY <2>2, <2>3, <2>4 DEF JobSane, PuttingSane, Taking
  <2> QED BY <1>1, <1>2, <2>3, <2>4, <2>5, <2>6
<1>14. CASE \/ \E b \in Blocks : WriteBuffer(b)
            \/ \E i \in Inodes : WriteInode(i)
            \/ BeginSync \/ FlushSuperblock \/ FlushInodeMap \/ FlushBlockMap \/ EndSync
  <2>1. job' = job /\ up' = up /\ buf' = buf
    BY <1>14 DEF WriteBuffer, WriteInode, BeginSync, FlushSuperblock, FlushInodeMap, FlushBlockMap, EndSync
  <2> QED BY <1>3, <2>1
<1>15. CASE Unmount \/ Crash
  <2>1. job' = [l \in Lock |-> Idle]
    BY <1>15 DEF Unmount, Crash, Off
  <2> QED BY <1>1, <1>4, <2>1
<1> QED BY <1>5, <1>6, <1>7, <1>8, <1>9, <1>10, <1>11, <1>12, <1>13, <1>14, <1>15 DEF Next

LEMMA TypeStep ==
  ASSUME TypeOK, JobsSane, [Next]_vars
  PROVE  TypeOK'
<1>1. Lock = Inodes
  BY DEF Lock
<1>2. CASE UNCHANGED vars
  BY <1>2 DEF vars, history, TypeOK
<1> QED BY <1>1, <1>2, TypeMounts, TypeTaking, TypeFiles, TypePutting, TypeDisk, ConstantTypes DEF Next

\* The invariant that the types need.
LEMMA JobsInvariant == Spec => [](TypeOK /\ JobsSane)
<1>1. Init => TypeOK /\ JobsSane
  BY TypeInit DEF Init, JobsSane, JobSane, Taking, Putting, Idle, JobAt
<1>2. TypeOK /\ JobsSane /\ [Next]_vars => (TypeOK /\ JobsSane)'
  BY TypeStep, JobsStep
<1> QED BY <1>1, <1>2, PTL DEF Spec

(* Every reachable state is well typed: no area found, no bit marked and no *)
(* block number in an inode or a table, in memory or on the disk, lies     *)
(* outside the volume.                                                     *)
THEOREM MountTypeCorrect == Spec => []TypeOK
BY JobsInvariant, PTL

----
(* Who owns which block.                                                   *)

(* What a call has found and not yet marked is clear, and no other call has *)
(* found it.                                                               *)
Finding == {"found", "marking"}

FoundClear ==
  harm = {} =>
    \A l \in Lock : job[l].at \in Finding =>
      /\ (Area(l) \ job[l].has) \cap mem.bits = {}
      /\ \A k \in Lock : k # l /\ job[k].at \in Finding => Area(k) \cap Area(l) = {}

\* Nobody owns block 0, which unlink puts.
NoBlockZero == up = "up" /\ harm = {} => \A i \in Owners : 0 \notin Holds(i)

(* The block map on disk has the root's node, and once a map was written, or *)
(* when the volume is down, the name block to which the node on disk leads. *)
DiskSane ==
  harm = {} =>
    /\ Root \in disk.bits
    /\ up = "up" => /\ disk.node.list \in {0, buf.node.list}
                    /\ mapped => buf.node.list \in disk.bits
    /\ up # "up" /\ disk.node.list # 0 => disk.node.list \in disk.bits

MInv == TypeOK /\ JobsSane /\ FoundClear /\ NoBlockZero /\ DiskSane /\ OneOwner

\* What a step that takes or gives no block does to the owners.
Owned == FoundClear /\ NoBlockZero /\ OneOwner

LEMMA OwnedKept ==
  ASSUME MInv, up' = up, buf' = buf, mem'.bno = mem.bno, mem'.bits = mem.bits, job' = job, harm' = harm
  PROVE  Owned'
<1>1. /\ \A i : Holds(i)' = Holds(i)
      /\ Owners' = Owners
      /\ \A l : Pending(l)' = Pending(l) /\ Area(l)' = Area(l)
  BY DEF Holds, Owners, Pending, Area
<1> QED BY <1>1 DEF Owned, MInv, FoundClear, NoBlockZero, OneOwner

\* A call has found an area: it is clear, and was not found before.
LEMMA OwnedFound ==
  ASSUME MInv, NEW l \in Lock, NEW ino \in Inodes, job[l].at = "idle",
         Found(l, ino, AreaLen(l)),
         up' = up, buf' = buf, mem'.bno = mem.bno, mem'.bits = mem.bits, harm' = {} => harm = {}
  PROVE  Owned'
<1> DEFINE s == GetFirstFreeBits(mem.bits, NBlocks, AreaLen(l))
<1>1. AreaLen(l) \in Nat \ {0} /\ job \in [Lock -> Job]
  BY ConstantTypes DEF AreaLen, MInv, TypeOK
<1>2. Run(s, AreaLen(l)) \cap mem.bits = {}
  BY <1>1, FoundRun DEF Found
<1>3. harm' = {} => \A k \in Lock : job[k].at \in Finding => Area(k) \cap Run(s, AreaLen(l)) = {}
  BY DEF Found, Area, Finding
<1> HIDE DEF s
<1>4. job' = [job EXCEPT ![l] = JobAt("found", ino, s, AreaLen(l), {})]
  BY DEF Found, s
<1>5. /\ \A i : Holds(i)' = Holds(i)
      /\ Owners' = Owners
      /\ \A k \in Lock : k # l => job'[k] = job[k] /\ Pending(k)' = Pending(k) /\ Area(k)' = Area(k)
      /\ Pending(l)' = {} /\ Area(l)' = Run(s, AreaLen(l)) /\ job'[l].at = "found"
  <2>1. /\ \A k \in Lock : k # l => job'[k] = job[k]
        /\ job'[l] = JobAt("found", ino, s, AreaLen(l), {})
    BY <1>1, <1>4
  <2>2. job'[l].has = {} /\ job'[l].at = "found" /\ job'[l].bno = s /\ job'[l].len = AreaLen(l)
    BY <2>1 DEF JobAt
  <2>3. Owners' = Owners /\ \A i : Holds(i)' = Holds(i)
    BY DEF Holds, Owners
  <2> QED BY <2>1, <2>2, <2>3 DEF Pending, Area
<1>6. \A k \in Lock : Pending(k)' \subseteq Pending(k)
  BY <1>5
<1>7. FoundClear'
  <2> SUFFICES ASSUME harm' = {}, NEW k \in Lock, job'[k].at \in Finding
               PROVE  /\ (Area(k)' \ job'[k].has) \cap mem.bits = {}
                      /\ \A m \in Lock : m # k /\ job'[m].at \in Finding => Area(m)' \cap Area(k)' = {}
    BY DEF FoundClear
  <2>1. \A m \in Lock : job[m].at \in Finding =>
          /\ (Area(m) \ job[m].has) \cap mem.bits = {}
          /\ \A n \in Lock : n # m /\ job[n].at \in Finding => Area(n) \cap Area(m) = {}
    BY DEF FoundClear, MInv
  <2> QED BY <1>2, <1>3, <1>5, <2>1
<1>8. OneOwner'
  BY <1>5, <1>6 DEF OneOwner, MInv
<1> QED BY <1>5, <1>7, <1>8 DEF Owned, NoBlockZero, MInv

\* What a word written back does to the bits when nobody changed it meanwhile.
LEMMA WrittenBack ==
  ASSUME mem \in Memory, NEW l \in Lock, NEW w, NEW changed, WriteBack(l, w, changed), harm' = {}
  PROVE  /\ mem'.bits = (mem.bits \ w) \cup changed /\ mem'.bno = mem.bno
         /\ job[l].saw = mem.bits \cap w /\ harm = {}
BY DEF WriteBack, Memory

LEMMA OwnedTaking ==
  ASSUME MInv, NEW l \in Lock, ReadToSet(l) \/ SetWord(l) \/ CountArea(l), harm' = {}
  PROVE  Owned'
<1>1. /\ job \in [Lock -> Job] /\ mem \in Memory /\ up = "up" /\ up' = up /\ buf' = buf /\ harm = {}
  BY DEF MInv, TypeOK, ReadToSet, SetWord, CountArea, WriteBack, history
<1>2. CASE ReadToSet(l) \/ CountArea(l)
  <2>1. mem'.bits = mem.bits /\ mem'.bno = mem.bno
    <3>1. CASE ReadToSet(l)
      BY <3>1 DEF ReadToSet
    <3>2. CASE CountArea(l)
      <4>1. -job[l].len \in Int
        BY <1>1 DEF Job
      <4> QED BY <3>2, <4>1, CountedTypes DEF CountArea, MInv
    <3> QED BY <1>2, <3>1, <3>2
  <2>2. /\ \A k \in Lock \ {l} : job'[k] = job[k]
        /\ job'[l].has = job[l].has /\ job'[l].bno = job[l].bno /\ job'[l].len = job[l].len
        /\ job'[l].at \in Finding => job[l].at \in Finding
    BY <1>1, <1>2 DEF ReadToSet, CountArea, Job, Finding
  <2>3. /\ \A i : Holds(i)' = Holds(i)
        /\ Owners' = Owners
        /\ \A k \in Lock : /\ Pending(k)' = Pending(k) /\ Area(k)' = Area(k) /\ job'[k].has = job[k].has
                           /\ job'[k].at \in Finding => job[k].at \in Finding
    BY <1>1, <2>1, <2>2 DEF Holds, Owners, Pending, Area
  <2> QED BY <1>1, <2>1, <2>3 DEF Owned, FoundClear, NoBlockZero, OneOwner, MInv
<1>3. CASE SetWord(l)
  <2>1. PICK w, has, at :
           /\ has = job[l].has \cup (Area(l) \cap w)
           /\ WriteBack(l, w, job[l].saw \cup (Area(l) \cap w))
           /\ job' = [job EXCEPT ![l].at = at, ![l].has = has, ![l].saw = {}]
    BY <1>3 DEF SetWord
  <2>2. mem'.bits = mem.bits \cup (Area(l) \cap w) /\ mem'.bno = mem.bno
    BY <1>1, <2>1, WrittenBack
  <2>3. /\ \A k \in Lock \ {l} : job'[k] = job[k]
        /\ job'[l].has = has /\ job'[l].bno = job[l].bno /\ job'[l].len = job[l].len
        /\ job[l].at \in Finding
    <3>1. job[l].at \in Finding
      BY <1>3 DEF SetWord, Finding
    <3>2. job' = [job EXCEPT ![l].at = at, ![l].has = has, ![l].saw = {}]
      BY <2>1
    <3>3. \A k \in Lock \ {l} : job'[k] = job[k]
      BY <1>1, <3>2
    <3>4. job'[l].has = has /\ job'[l].bno = job[l].bno /\ job'[l].len = job[l].len
      BY <1>1, <3>2 DEF Job
    <3> QED BY <3>1, <3>3, <3>4
  <2>4. /\ \A i : Holds(i)' = Holds(i)
        /\ Owners' = Owners
        /\ \A k \in Lock : Area(k)' = Area(k)
        /\ \A k \in Lock \ {l} : Pending(k)' = Pending(k)
        /\ Pending(l)' = Pending(l) \cup (Area(l) \cap w)
    BY <1>1, <2>1, <2>2, <2>3 DEF Holds, Owners, Pending, Area
  <2>5. /\ (Area(l) \ job[l].has) \cap mem.bits = {}
        /\ \A k \in Lock \ {l} : job[k].at \in Finding =>
             (Area(k) \ job[k].has) \cap mem.bits = {} /\ Area(k) \cap Area(l) = {}
        /\ \A k, m \in Lock : k # m /\ job[k].at \in Finding /\ job[m].at \in Finding => Area(k) \cap Area(m) = {}
    BY <1>1, <2>3 DEF MInv, FoundClear
  <2>6. FoundClear'
    <3> SUFFICES ASSUME NEW k \in Lock, job'[k].at \in Finding
                 PROVE  /\ (Area(k)' \ job'[k].has) \cap mem'.bits = {}
                        /\ \A m \in Lock : m # k /\ job'[m].at \in Finding => Area(m)' \cap Area(k)' = {}
      BY DEF FoundClear
    <3>1. \A m \in Lock : job'[m].at \in Finding => job[m].at \in Finding
      BY <2>3
    <3>2. (Area(k) \ job'[k].has) \cap mem'.bits = {}
      <4>1. CASE k = l
        BY <2>1, <2>2, <2>3, <2>5, <4>1
      <4>2. CASE k # l
        BY <2>2, <2>3, <2>5, <3>1, <4>2
      <4> QED BY <4>1, <4>2
    <3> QED BY <2>4, <2>5, <3>1, <3>2
  <2>7. OneOwner'
    <3>1. /\ \A i \in Owners : Holds(i) \subseteq mem.bits
          /\ \A k \in Lock : Pending(k) \subseteq mem.bits
          /\ \A i, j \in Owners : i # j => Holds(i) \cap Holds(j) = {}
          /\ \A k \in Lock, i \in Owners : Pending(k) \cap Holds(i) = {}
          /\ \A k, m \in Lock : k # m => Pending(k) \cap Pending(m) = {}
      BY <1>1 DEF MInv, OneOwner
    <3>2. Pending(l)' \subseteq Pending(l) \cup (Area(l) \ job[l].has)
      BY <2>4 DEF Pending
    <3>3. Pending(l)' \cap mem.bits \subseteq Pending(l) /\ Pending(l)' \subseteq mem'.bits
      BY <2>2, <2>4, <2>5, <3>1, <3>2
    <3>4. /\ \A i \in Owners : Pending(l)' \cap Holds(i) = {}
          /\ \A k \in Lock \ {l} : Pending(l)' \cap Pending(k) = {}
      BY <3>1, <3>3
    <3>5. \A k, m \in Lock : k # m => Pending(k)' \cap Pending(m)' = {}
      BY <2>4, <3>1, <3>4
    <3>6. \A k \in Lock, i \in Owners' : Pending(k)' \cap Holds(i)' = {}
      BY <2>4, <3>1, <3>4
    <3>7. \A i \in Owners' : Holds(i)' \subseteq mem'.bits
      BY <2>2, <2>4, <3>1
    <3>8. \A k \in Lock : Pending(k)' \subseteq mem'.bits
      BY <2>2, <2>4, <3>1, <3>3
    <3> QED BY <2>4, <3>1, <3>5, <3>6, <3>7, <3>8 DEF OneOwner
  <2> QED BY <1>1, <2>4, <2>6, <2>7 DEF Owned, NoBlockZero, MInv
<1> QED BY <1>2, <1>3

\* Unlink puts one block after the other: what it has put is nobody's.
LEMMA OwnedPutting ==
  ASSUME MInv, ReadToClear \/ ClearBit \/ CountPut, harm' = {}
  PROVE  Owned'
<1>1. /\ job \in [Lock -> Job] /\ mem \in Memory /\ up = "up" /\ up' = up /\ buf' = buf /\ harm = {}
      /\ 0 \in Lock /\ job[0].at \in Putting
  BY ConstantTypes DEF MInv, TypeOK, Lock, ReadToClear, ClearBit, CountPut, WriteBack, Putting
<1>2. ASSUME mem'.bits \subseteq mem.bits, mem'.bno = mem.bno,
             \A k \in Lock \ {0} : job'[k] = job[k],
             job'[0].at \notin Finding,
             Pending(0)' \subseteq Pending(0) \cap mem'.bits,
             \A i \in Owners : Holds(i) \subseteq mem'.bits,
             \A k \in Lock \ {0} : Pending(k) \subseteq mem'.bits
      PROVE  Owned'
  <2>1. /\ \A i : Holds(i)' = Holds(i)
        /\ Owners' = Owners
        /\ \A k \in Lock \ {0} : Pending(k)' = Pending(k) /\ Area(k)' = Area(k)
    BY <1>1, <1>2 DEF Holds, Owners, Pending, Area
  <2>2. \A k \in Lock : Pending(k)' \subseteq Pending(k) /\ Pending(k)' \subseteq mem'.bits
    BY <1>2, <2>1
  <2>3. FoundClear'
    BY <1>1, <1>2, <2>1 DEF FoundClear, MInv
  <2>4. OneOwner'
    BY <1>1, <1>2, <2>1, <2>2 DEF OneOwner, MInv
  <2> QED BY <1>1, <2>1, <2>3, <2>4 DEF Owned, NoBlockZero, MInv
<1>3. /\ \A i \in Owners : Holds(i) \subseteq mem.bits
      /\ \A k \in Lock : Pending(k) \subseteq mem.bits
      /\ \A k \in Lock, i \in Owners : Pending(k) \cap Holds(i) = {}
      /\ \A k, m \in Lock : k # m => Pending(k) \cap Pending(m) = {}
  BY <1>1 DEF MInv, OneOwner
<1>4. CASE ReadToClear
  <2>1. mem' = mem /\ \A k \in Lock \ {0} : job'[k] = job[k]
    BY <1>1, <1>4 DEF ReadToClear
  <2>2. job'[0].at = "clearing" /\ job'[0].has = job[0].has
    <3>1. PICK b, w : job' = [job EXCEPT ![0].at = "clearing", ![0].bno = b, ![0].saw = w]
      BY <1>4 DEF ReadToClear
    <3> QED BY <1>1, <3>1 DEF Job
  <2>3. Pending(0)' = Pending(0) /\ job'[0].at \notin Finding
    BY <2>2 DEF Pending, Finding
  <2>4. /\ mem'.bits = mem.bits /\ mem'.bno = mem.bno
        /\ Pending(0)' \subseteq Pending(0) \cap mem'.bits
    BY <1>1, <1>3, <2>1, <2>3
  <2> QED BY <1>2, <1>3, <2>1, <2>3, <2>4
<1>5. CASE CountPut
  <2>1. mem'.bits = mem.bits /\ mem'.bno = mem.bno
    <3>1. TypeOK /\ Counted(0, 1)
      BY <1>5 DEF CountPut, MInv
    <3> QED BY <1>1, <3>1, CountedTypes
  <2>2. \A k \in Lock \ {0} : job'[k] = job[k]
    BY <1>1, <1>5 DEF CountPut
  <2>3. job'[0].at \in {"idle", "freeing"} /\ job'[0].has \in {{}, job[0].has}
    <3>1. CASE job[0].len = 1
      <4>1. job' = [job EXCEPT ![0] = Idle]
        BY <1>5, <3>1 DEF CountPut
      <4> QED BY <1>1, <4>1 DEF Idle, JobAt
    <3>2. CASE job[0].len # 1
      <4>1. job' = [job EXCEPT ![0].at = "freeing", ![0].len = @ - 1]
        BY <1>5, <3>2 DEF CountPut
      <4> QED BY <1>1, <4>1 DEF Job
    <3> QED BY <3>1, <3>2
  <2>4. Pending(0)' \subseteq Pending(0)
    BY <2>3 DEF Pending
  <2> QED BY <1>1, <1>2, <1>3, <2>1, <2>2, <2>3, <2>4 DEF Finding
<1>6. CASE ClearBit
  <2>1. PICK b, w : /\ b = job[0].bno
                    /\ WriteBack(0, w, job[0].saw \ {b})
                    /\ b \in w
                    /\ job' = [job EXCEPT ![0].at = "cleared", ![0].has = @ \ {b}, ![0].saw = {}]
    <3>1. job[0].bno \in WordOf(job[0].bno)
      BY <1>1 DEF WordOf, Job
    <3> QED BY <1>6, <3>1 DEF ClearBit
  <2>2. mem'.bits = mem.bits \ {b} /\ mem'.bno = mem.bno
    BY <1>1, <2>1, WrittenBack
  <2>3. /\ \A k \in Lock \ {0} : job'[k] = job[k]
        /\ job'[0].at = "cleared" /\ job'[0].has = job[0].has \ {b}
    BY <1>1, <2>1 DEF Job
  <2>4. b \in Pending(0) \/ b = 0
    BY <1>1, <1>6, <2>1 DEF ClearBit, MInv, JobsSane, JobSane, PuttingSane, Pending, Putting
  <2>5. \A i \in Owners : b \notin Holds(i)
    BY <1>1, <1>3, <2>4 DEF MInv, NoBlockZero
  <2>6. \A k \in Lock \ {0} : b \notin Pending(k)
    <3> SUFFICES ASSUME NEW k \in Lock \ {0}, b \in Pending(k) PROVE FALSE
      OBVIOUS
    <3>1. b = 0
      BY <1>1, <1>3, <2>4
    <3>2. job[k].at \in Taking
      BY <1>1 DEF MInv, JobsSane, JobSane, PuttingSane, Pending, Job
    <3> QED BY <3>1, <3>2, AreaOnVolume DEF MInv, Pending
  <2>7. Pending(0)' = Pending(0) \ {b}
    BY <2>3 DEF Pending
  <2> QED BY <1>1, <1>2, <1>3, <2>2, <2>3, <2>5, <2>6, <2>7 DEF Finding
<1> QED BY <1>4, <1>5, <1>6

(* A call gives its area to the inode f, which it had not before; the other *)
(* owners lead to what they led to.                                        *)
LEMMA OwnedGiven ==
  ASSUME MInv, NEW l \in Lock, NEW f \in Inodes, job[l].at = "counted",
         up' = up, harm' = harm, mem'.bits = mem.bits,
         job' = [job EXCEPT ![l] = Idle],
         Owners' \subseteq Owners \cup {f},
         \A i \in Owners \ {f} : Holds(i)' = Holds(i),
         \/ Holds(f)' = Area(l)
         \/ f \in Owners /\ Holds(f)' = Holds(f) \cup Area(l)
         \/ f \in Owners /\ Holds(f)' = Holds(f)
  PROVE  Owned'
<1>1. /\ job \in [Lock -> Job] /\ Pending(l) = Area(l) /\ 0 \notin Area(l)
      /\ up = "up"
  <2>1. job[l].at \in Taking
    BY DEF Taking
  <2> QED BY <2>1, AreaOnVolume DEF MInv, TypeOK, Pending, JobsSane, JobSane, TakingSane
<1>2. /\ \A k \in Lock : k # l => job'[k] = job[k] /\ Pending(k)' = Pending(k) /\ Area(k)' = Area(k)
      /\ job'[l].at = "idle" /\ Pending(l)' = {}
  BY <1>1 DEF Pending, Area, Idle, JobAt
<1>3. FoundClear'
  BY <1>2 DEF FoundClear, MInv, Finding
<1>4. NoBlockZero'
  BY <1>1 DEF NoBlockZero, MInv
<1>5. OneOwner'
  <2> SUFFICES ASSUME harm = {} PROVE OneOwner'
    BY DEF OneOwner
  <2>1. /\ \A i \in Owners : Holds(i) \subseteq mem.bits
        /\ \A k \in Lock : Pending(k) \subseteq mem.bits
        /\ \A i, j \in Owners : i # j => Holds(i) \cap Holds(j) = {}
        /\ \A k \in Lock, i \in Owners : Pending(k) \cap Holds(i) = {}
        /\ \A k, m \in Lock : k # m => Pending(k) \cap Pending(m) = {}
    BY <1>1 DEF MInv, OneOwner
  <2>2. \A i \in Owners' : Holds(i)' \subseteq mem.bits
    BY <1>1, <2>1
  <2>3. \A k \in Lock : Pending(k)' \subseteq mem.bits
    BY <1>2, <2>1
  <2>4. \A i \in Owners \ {f} : Holds(i) \cap Holds(f)' = {}
    BY <1>1, <2>1
  <2>5. \A i, j \in Owners' : i # j => Holds(i)' \cap Holds(j)' = {}
    BY <2>1, <2>4
  <2>6. \A k \in Lock : k # l => Pending(k) \cap Holds(f)' = {}
    BY <1>1, <2>1
  <2>7. \A k \in Lock, i \in Owners' : Pending(k)' \cap Holds(i)' = {}
    BY <1>2, <2>1, <2>6
  <2>8. \A k, m \in Lock : k # m => Pending(k)' \cap Pending(m)' = {}
    BY <1>2, <2>1
  <2> QED BY <2>2, <2>3, <2>5, <2>7, <2>8 DEF OneOwner
<1> QED BY <1>3, <1>4, <1>5 DEF Owned

LEMMA OwnedFiles ==
  ASSUME MInv, NEW f \in Inodes, FinishCreate \/ FinishGrow(f) \/ (f # 0 /\ BeginUnlink(f)), harm' = {}
  PROVE  Owned'
<1>1. /\ job \in [Lock -> Job] /\ mem \in Memory /\ Lock = Inodes /\ 0 \in Lock
      /\ mem.bno \in [Inodes -> Blocks] /\ mem.bits \subseteq Blocks
      /\ buf \in [node : Node, table : Tables]
      /\ buf.table \in [Blocks -> SUBSET Starts] /\ buf.node.files \subseteq Inodes
  BY ConstantTypes DEF MInv, TypeOK, Lock, Memory, Node, Tables
<1>2. up = "up" /\ harm = {}
  BY HarmStays, <1>1 DEF FinishCreate, FinishGrow, BeginUnlink, Next
<1>3. /\ \A i \in Owners : Holds(i) \subseteq mem.bits
      /\ \A i, j \in Owners : i # j => Holds(i) \cap Holds(j) = {}
      /\ \A k \in Lock, i \in Owners : Pending(k) \cap Holds(i) = {}
      /\ \A i \in Owners \ {0} : mem.bno[i] \in Holds(i)
      /\ Owners \subseteq Inodes
  BY <1>1, <1>2, ConstantTypes DEF MInv, OneOwner, Holds, Owners
<1>4. CASE FinishCreate
  <2>0. PICK ino, b : ino = job[0].ino /\ b = job[0].bno
    OBVIOUS
  <2>1. /\ job[0].at = "counted" /\ job' = [job EXCEPT ![0] = Idle] /\ up' = up /\ harm' = harm
        /\ mem' = [mem EXCEPT !.bno[ino] = b]
        /\ buf' = [buf EXCEPT !.table[b] = {}, !.node.files = @ \cup {ino}]
    BY <1>4, <2>0 DEF FinishCreate
  <2>2. ino \in Inodes /\ b \in Blocks /\ job[0].len = 1
    BY <1>1, <2>0, <2>1 DEF Job, MInv, JobsSane, JobSane, TakingSane, Taking, AreaLen
  <2>3. Area(0) = {b} /\ Pending(0) = {b}
    <3>1. Area(0) = {b}
      BY <2>0, <2>2, ConstantTypes DEF Area, Run
    <3> QED BY <1>1, <2>1, <3>1 DEF Pending, MInv, JobsSane, JobSane, TakingSane, Taking
  <2>4. /\ mem'.bits = mem.bits /\ mem'.bno = [mem.bno EXCEPT ![ino] = b]
        /\ buf'.node.list = buf.node.list /\ buf'.node.files = buf.node.files \cup {ino}
        /\ buf'.table = [buf.table EXCEPT ![b] = {}]
    BY <1>1, <2>1 DEF Memory, Node
  <2>5. Owners' = Owners \cup {ino}
    BY <2>4 DEF Owners
  <2>6. \A i \in Owners \ {ino} : Holds(i)' = Holds(i)
    <3> SUFFICES ASSUME NEW i \in Owners \ {ino} PROVE Holds(i)' = Holds(i)
      OBVIOUS
    <3>1. CASE i = 0
      BY <2>4, <3>1 DEF Holds
    <3>2. CASE i # 0
      <4>1. mem.bno[i] # b /\ mem.bno[i] \in Blocks
        BY <1>1, <1>3, <2>3, <3>2
      <4> QED BY <1>1, <1>3, <2>4, <3>2, <4>1 DEF Holds
    <3> QED BY <3>1, <3>2
  <2>7. Holds(ino)' = Area(0) \/ (ino \in Owners /\ Holds(ino)' = Holds(ino))
    <3>1. CASE ino = 0
      BY <2>4, <3>1 DEF Holds, Owners
    <3>2. CASE ino # 0
      <4>1. mem'.bno[ino] = b /\ buf'.table[b] = {}
        BY <1>1, <2>2, <2>4
      <4>2. Clusters({}) = {}
        BY DEF Clusters
      <4> QED BY <2>3, <3>2, <4>1, <4>2 DEF Holds
    <3> QED BY <3>1, <3>2
  <2> QED BY <1>1, <2>1, <2>2, <2>4, <2>5, <2>6, <2>7, OwnedGiven
<1>5. CASE FinishGrow(f)
  <2>0. PICK b, start : b = mem.bno[f] /\ start = job[f].bno
    OBVIOUS
  <2>1. /\ job[f].at = "counted" /\ job' = [job EXCEPT ![f] = Idle] /\ up' = up /\ harm' = harm
        /\ f # 0 /\ mem' = mem /\ buf' = [buf EXCEPT !.table[b] = @ \cup {start}]
    BY <1>5, <2>0 DEF FinishGrow
  <2>2. f \in Owners /\ job[f].len = ClusterLen /\ Area(f) = Run(start, ClusterLen) /\ b \in Blocks
    BY <1>1, <2>0, <2>1 DEF MInv, JobsSane, JobSane, TakingSane, Taking, AreaLen, Area, Owners
  <2>3. buf'.node = buf.node /\ buf'.table = [buf.table EXCEPT ![b] = @ \cup {start}]
    BY <1>1, <2>1
  <2>4. Owners' = Owners
    BY <2>3 DEF Owners
  <2>5. \A i \in Owners \ {f} : Holds(i)' = Holds(i)
    <3> SUFFICES ASSUME NEW i \in Owners \ {f} PROVE Holds(i)' = Holds(i)
      OBVIOUS
    <3>1. CASE i = 0
      BY <2>3, <3>1 DEF Holds
    <3>2. CASE i # 0
      <4>1. mem.bno[i] # b /\ mem.bno[i] \in Blocks
        BY <1>1, <1>3, <2>0, <2>1, <2>2, <3>2
      <4> QED BY <1>1, <2>1, <2>3, <3>2, <4>1 DEF Holds
    <3> QED BY <3>1, <3>2
  <2>6. Holds(f)' = Holds(f) \cup Area(f)
    <3>1. Clusters(buf.table[b] \cup {start}) = Clusters(buf.table[b]) \cup Run(start, ClusterLen)
      BY DEF Clusters
    <3>2. buf'.table[b] = buf.table[b] \cup {start}
      BY <1>1, <2>2, <2>3
    <3>3. Holds(f) = {b} \cup Clusters(buf.table[b])
      BY <2>0, <2>1 DEF Holds
    <3>4. Holds(f)' = {b} \cup Clusters(buf'.table[b])
      BY <2>0, <2>1 DEF Holds
    <3>5. Clusters(buf'.table[b]) = Clusters(buf.table[b]) \cup Run(start, ClusterLen)
      BY <3>1, <3>2
    <3>6. ASSUME NEW C, NEW D, NEW R, D = C \cup R PROVE {b} \cup D = ({b} \cup C) \cup R
      BY <3>6
    <3>7. {b} \cup Clusters(buf'.table[b]) = ({b} \cup Clusters(buf.table[b])) \cup Run(start, ClusterLen)
      BY <3>5, <3>6
    <3> QED BY <2>2, <3>3, <3>4, <3>7
  <2> QED BY <1>1, <2>1, <2>2, <2>4, <2>5, <2>6, OwnedGiven
<1>6. CASE f # 0 /\ BeginUnlink(f)
  <2>0. PICK put, n :
          /\ put = Clusters(buf.table[mem.bno[f]])
          /\ job' = [job EXCEPT ![0] = JobAt("freeing", f, 0, n, put)]
    BY <1>6 DEF BeginUnlink
  <2>1. /\ f \in Owners /\ f # 0 /\ put \subseteq Holds(f) /\ up' = up /\ mem' = mem
        /\ buf' = [buf EXCEPT !.node.files = @ \ {f}] /\ job[0].at = "idle"
    BY <1>6, <2>0 DEF BeginUnlink, Owners, Holds
  <2>2. /\ buf'.table = buf.table /\ buf'.node.list = buf.node.list
        /\ buf'.node.files = buf.node.files \ {f}
    BY <1>1, <2>1 DEF Node
  <2>3. /\ Owners' = Owners \ {f}
        /\ \A i : Holds(i)' = Holds(i)
    <3>1. mem'.bno = mem.bno /\ f # 0
      BY <2>1
    <3>2. Owners' = Owners \ {f}
      BY <2>2, <3>1 DEF Owners
    <3>3. \A i : Holds(i)' = Holds(i)
      BY <2>2, <3>1 DEF Holds
    <3> QED BY <3>2, <3>3
  <2>4. /\ \A k \in Lock \ {0} : job'[k] = job[k] /\ Pending(k)' = Pending(k) /\ Area(k)' = Area(k)
        /\ job'[0].at = "freeing" /\ Pending(0)' = put
    BY <1>1, <2>0 DEF Pending, Area, JobAt
  <2>5. FoundClear'
    BY <1>2, <2>1, <2>4 DEF FoundClear, MInv, Finding
  <2>6. /\ put \subseteq mem.bits
        /\ \A i \in Owners \ {f} : put \cap Holds(i) = {}
        /\ \A k \in Lock : put \cap Pending(k) = {}
    BY <1>3, <2>1
  <2>7. \A k, m \in Lock : k # m => Pending(k)' \cap Pending(m)' = {}
    BY <1>2, <2>4, <2>6 DEF MInv, OneOwner
  <2>8. \A k \in Lock : Pending(k)' \subseteq mem.bits
    BY <1>2, <2>4, <2>6 DEF MInv, OneOwner
  <2>9. \A k \in Lock, i \in Owners' : Pending(k)' \cap Holds(i)' = {}
    BY <1>3, <2>3, <2>4, <2>6
  <2>10. OneOwner'
    BY <1>2, <1>3, <2>1, <2>3, <2>7, <2>8, <2>9 DEF OneOwner
  <2> QED BY <1>2, <2>1, <2>3, <2>5, <2>10 DEF Owned, NoBlockZero, MInv
<1> QED BY <1>4, <1>5, <1>6

\* A mount, and the end of one: no call is in progress, and a mounted volume
\* has one owner, the root directory.
LEMMA OwnedEmpty ==
  ASSUME MInv, NEW list,
         \A l \in Lock : job'[l].at = "idle" /\ job'[l].has = {},
         harm' = {} /\ up' = "up" =>
           /\ buf'.node = [list |-> list, files |-> {}]
           /\ list # 0 /\ list \in mem'.bits /\ Root \in mem'.bits
  PROVE  Owned'
<1>1. FoundClear' /\ \A l \in Lock : Pending(l)' = {}
  BY DEF FoundClear, Finding, Pending
<1>2. CASE harm' = {} /\ up' = "up"
  <2>1. Owners' = {0} /\ Holds(0)' = {Root, list}
    BY <1>2 DEF Owners, Holds
  <2>2. 0 \notin Holds(0)' /\ Holds(0)' \subseteq mem'.bits
    BY <1>2, <2>1, ConstantTypes
  <2>3. \A i \in Owners' : i = 0
    BY <2>1
  <2> QED BY <1>1, <2>2, <2>3 DEF Owned, NoBlockZero, OneOwner
<1>3. CASE ~(harm' = {} /\ up' = "up")
  BY <1>1, <1>3 DEF Owned, NoBlockZero, OneOwner
<1> QED BY <1>2, <1>3

LEMMA OwnedMounts ==
  ASSUME MInv, FirstMount \/ MountAgain \/ MountOops
  PROVE  Owned'
<1>1. up = "down" /\ harm' = harm /\ job' = job
  BY DEF FirstMount, MountAgain, MountOops, MountWith, history
<1>2. \A l \in Lock : job'[l].at = "idle" /\ job'[l].has = {}
  BY <1>1 DEF MInv, JobsSane, JobSane
<1>3. CASE FirstMount
  <2> DEFINE list == GetFirstFreeBits(disk.bits, NBlocks, 1)
  <2>1. list # 0
    BY <1>3, FoundRun, ConstantTypes DEF FirstMount
  <2> HIDE DEF list
  <2>2. MountWith(list, {list})
    BY <1>3 DEF FirstMount, list
  <2>3. buf'.node = [list |-> list, files |-> {}] /\ mem'.bits = disk.bits \cup {list}
    BY <2>2 DEF MountWith, Read
  <2>4. harm' = {} => Root \in mem'.bits
    BY <1>1, <2>3 DEF MInv, DiskSane
  <2> QED BY <1>2, <2>1, <2>3, <2>4, OwnedEmpty
<1>4. CASE MountAgain
  <2>1. disk.node.list # 0 /\ MountWith(disk.node.list, {})
    BY <1>4 DEF MountAgain
  <2>2. buf'.node = [list |-> disk.node.list, files |-> {}] /\ mem'.bits = disk.bits
    BY <2>1 DEF MountWith, Read
  <2>3. harm' = {} => Root \in mem'.bits /\ disk.node.list \in mem'.bits
    BY <1>1, <2>1, <2>2 DEF MInv, DiskSane
  <2> QED BY <1>2, <2>1, <2>2, <2>3, OwnedEmpty
<1>5. CASE MountOops
  <2>1. up' # "up"
    BY <1>5 DEF MountOops
  <2> QED BY <1>2, <2>1, OwnedEmpty
<1> QED BY <1>3, <1>4, <1>5

\* Who owns what after any step.
LEMMA OwnedStep ==
  ASSUME MInv, [Next]_vars
  PROVE  Owned'
<1>1. CASE harm' # {}
  BY <1>1 DEF Owned, FoundClear, NoBlockZero, OneOwner
<1>2. CASE harm' = {}
  <2>0. harm = {} /\ mem \in Memory
    BY <1>2, HarmStays DEF MInv, TypeOK
  <2>1. CASE UNCHANGED vars
    BY <2>1, OwnedKept DEF vars, history
  <2>2. CASE FirstMount \/ MountAgain \/ MountOops
    BY <2>2, OwnedMounts
  <2>3. CASE BeginCreate
    <3> DEFINE ino == Least(Inodes \ (mem.imap \cup {0}))
    <3>1. ino \in Inodes
      <4> DEFINE Free == Inodes \ (mem.imap \cup {0})
      <4>1. Free # {} /\ Free \in SUBSET Nat
        BY <2>3, ConstantTypes DEF BeginCreate
      <4> HIDE DEF Free
      <4>2. Least(Free) \in Free
        BY <4>1, LeastIsMember
      <4> QED BY <4>2 DEF Free
    <3> HIDE DEF ino
    <3>2. Found(0, ino, 1) /\ mem' = [mem EXCEPT !.imap = @ \cup {ino}] /\ job[0].at = "idle"
          /\ up' = up /\ buf' = buf
      BY <2>3 DEF BeginCreate, ino
    <3>3. mem'.bno = mem.bno /\ mem'.bits = mem.bits /\ 0 \in Lock /\ AreaLen(0) = 1
      BY <2>0, <3>2, ConstantTypes DEF Memory, Lock, AreaLen
    <3> QED BY <2>0, <3>1, <3>2, <3>3, OwnedFound
  <2>4. CASE FinishCreate
    BY <1>2, <2>4, OwnedFiles, ConstantTypes
  <2>5. ASSUME NEW l \in Lock, ReadToSet(l) \/ SetWord(l) \/ CountArea(l) PROVE Owned'
    BY <1>2, <2>5, OwnedTaking
  <2>6. ASSUME NEW f \in Inodes \ {0}, BeginGrow(f) PROVE Owned'
    <3>1. /\ Found(f, f, AreaLen(f)) /\ job[f].at = "idle" /\ f \in Lock
          /\ up' = up /\ buf' = buf /\ mem' = mem
      BY <2>6 DEF BeginGrow, AreaLen, Lock
    <3> QED BY <2>0, <3>1, OwnedFound
  <2>7. ASSUME NEW f \in Inodes \ {0}, FinishGrow(f) \/ BeginUnlink(f) PROVE Owned'
    BY <1>2, <2>7, OwnedFiles
  <2>8. CASE \/ \E b \in Blocks : WriteBuffer(b)
             \/ \E i \in Inodes : WriteInode(i)
             \/ BeginSync \/ FlushSuperblock \/ FlushInodeMap \/ FlushBlockMap \/ EndSync
    BY <2>8, OwnedKept DEF WriteBuffer, WriteInode, BeginSync, FlushSuperblock, FlushInodeMap,
                           FlushBlockMap, EndSync, history
  <2>9. CASE Unmount \/ Crash
    <3>1. Off
      BY <2>9 DEF Unmount, Crash
    <3>2. up' = "down" /\ job' = [l \in Lock |-> Idle]
      BY <3>1 DEF Off
    <3>3. \A l \in Lock : job'[l].at = "idle" /\ job'[l].has = {}
      BY <3>2 DEF Idle, JobAt
    <3> QED BY <3>2, <3>3, OwnedEmpty
  <2>10. CASE ReadToClear \/ ClearBit \/ CountPut
    BY <1>2, <2>10, OwnedPutting
  <2> QED BY <2>1, <2>2, <2>3, <2>4, <2>5, <2>6, <2>7, <2>8, <2>9, <2>10 DEF Next
<1> QED BY <1>1, <1>2

----
(* What the map on the disk has.                                           *)

\* Marked and owned in memory, of an owner that stays where it is.
LEMMA RootIsMarked ==
  ASSUME MInv, up = "up", harm = {}
  PROVE  Root \in mem.bits /\ buf.node.list \in mem.bits
<1>1. 0 \in Owners /\ Holds(0) \subseteq mem.bits
  BY DEF Owners, MInv, OneOwner
<1> QED BY <1>1 DEF Holds

\* The steps that neither write the node nor the block map.
LEMMA DiskKept ==
  ASSUME MInv, up' = up, disk'.node = disk.node, disk'.bits = disk.bits,
         buf'.node.list = buf.node.list, mapped' = mapped, harm' = {} => harm = {}
  PROVE  DiskSane'
BY DEF DiskSane, MInv

LEMMA DiskStep ==
  ASSUME MInv, [Next]_vars
  PROVE  DiskSane'
<1>0. /\ disk \in Image /\ mem \in Memory /\ buf \in [node : Node, table : Tables]
      /\ job \in [Lock -> Job] /\ (harm' = {} => harm = {})
  BY HarmStays DEF MInv, TypeOK
<1>1. CASE UNCHANGED vars
  BY <1>1, DiskKept DEF vars, history
<1>2. CASE FirstMount
  <2> DEFINE list == GetFirstFreeBits(disk.bits, NBlocks, 1)
  <2> HIDE DEF list
  <2>1. /\ up = "down" /\ disk.node.list = 0 /\ MountWith(list, {list}) /\ mapped' = FALSE
    BY <1>2 DEF FirstMount, list
  <2> QED BY <1>0, <2>1 DEF MountWith, DiskSane, MInv
<1>3. CASE MountAgain
  <2>1. /\ up = "down" /\ disk.node.list # 0 /\ MountWith(disk.node.list, {})
    BY <1>3 DEF MountAgain
  <2>2. disk' = disk /\ harm' = harm /\ up' = "up" /\ buf'.node.list = disk.node.list
    BY <2>1 DEF MountWith
  <2> QED BY <2>1, <2>2 DEF DiskSane, MInv
<1>4. CASE MountOops
  BY <1>4 DEF MountOops, history, DiskSane, MInv
<1>5. CASE BeginCreate
  BY <1>0, <1>5, DiskKept DEF BeginCreate
<1>6. CASE FinishCreate
  <2> DEFINE b == job[0].bno
             ino == job[0].ino
  <2> HIDE DEF b, ino
  <2>1. buf' = [buf EXCEPT !.table[b] = {}, !.node.files = @ \cup {ino}]
        /\ up' = up /\ disk' = disk /\ mapped' = mapped
    BY <1>6 DEF FinishCreate, b, ino
  <2>2. buf'.node.list = buf.node.list
    BY <1>0, <2>1 DEF Node
  <2> QED BY <1>0, <2>1, <2>2, DiskKept
<1>7. ASSUME NEW l \in Lock, ReadToSet(l) \/ SetWord(l) \/ CountArea(l) PROVE DiskSane'
  BY <1>0, <1>7, DiskKept DEF ReadToSet, SetWord, CountArea, history
<1>8. ASSUME NEW f \in Inodes \ {0}, BeginGrow(f) PROVE DiskSane'
  BY <1>0, <1>8, DiskKept DEF BeginGrow
<1>9. ASSUME NEW f \in Inodes \ {0}, FinishGrow(f) PROVE DiskSane'
  <2>1. buf'.node = buf.node
    BY <1>0, <1>9 DEF FinishGrow
  <2> QED BY <1>0, <1>9, <2>1, DiskKept DEF FinishGrow
<1>10. ASSUME NEW f \in Inodes \ {0}, BeginUnlink(f) PROVE DiskSane'
  <2>1. buf'.node.list = buf.node.list
    BY <1>0, <1>10 DEF BeginUnlink, Node
  <2> QED BY <1>0, <1>10, <2>1, DiskKept DEF BeginUnlink
<1>11. ASSUME NEW b \in Blocks, WriteBuffer(b) PROVE DiskSane'
  <2>1. /\ disk'.node \in {disk.node, buf.node} /\ disk'.bits = disk.bits
        /\ up = "up" /\ up' = up /\ buf' = buf /\ mapped' = mapped /\ harm' = harm
    BY <1>0, <1>11 DEF WriteBuffer, Written, history, Image
  <2> QED BY <2>1 DEF DiskSane, MInv
<1>12. CASE \/ \E i \in Inodes : WriteInode(i)
            \/ BeginSync \/ FlushSuperblock \/ FlushInodeMap
  <2>1. /\ disk'.node = disk.node /\ disk'.bits = disk.bits
        /\ up' = up /\ buf' = buf /\ mapped' = mapped /\ harm' = harm
    BY <1>0, <1>12 DEF WriteInode, BeginSync, FlushSuperblock, FlushInodeMap, WithInodes, history, Image
  <2> QED BY <2>1, <1>0, DiskKept
<1>13. CASE FlushBlockMap
  <2>1. /\ disk'.node = disk.node /\ disk'.bits = mem.bits
        /\ up = "up" /\ up' = up /\ buf' = buf /\ harm' = harm
    BY <1>0, <1>13 DEF FlushBlockMap, Image
  <2> QED BY <2>1, RootIsMarked DEF DiskSane, MInv
<1>14. CASE EndSync
  <2>1. /\ disk'.node \in {disk.node, buf.node} /\ disk'.bits = disk.bits
        /\ up = "up" /\ up' = up /\ buf' = buf /\ mapped' = mapped /\ harm' = harm
    BY <1>0, <1>14 DEF EndSync, Written, Image
  <2> QED BY <2>1 DEF DiskSane, MInv
<1>15. CASE Unmount
  <2>1. /\ disk'.node \in {disk.node, buf.node} /\ disk'.bits = mem.bits
        /\ up = "up" /\ up' = "down" /\ harm' = harm
    BY <1>0, <1>15 DEF Unmount, Off, Written, WithInodes, Image
  <2> QED BY <2>1, RootIsMarked DEF DiskSane, MInv
<1>16. CASE Crash
  <2>1. /\ up' = "down" /\ disk' = disk
        /\ harm' = {} => disk.node.list = 0 \/ mapped
    BY <1>16 DEF Crash, Off
  <2> QED BY <1>0, <2>1 DEF DiskSane, MInv
<1>17. CASE ReadToClear \/ ClearBit \/ CountPut
  BY <1>0, <1>17, DiskKept DEF ReadToClear, ClearBit, CountPut
<1> QED BY <1>1, <1>2, <1>3, <1>4, <1>5, <1>6, <1>7, <1>8, <1>9, <1>10, <1>11, <1>12, <1>13, <1>14,
           <1>15, <1>16, <1>17 DEF Next

LEMMA MInvariant == Spec => []MInv
<1>1. Init => MInv
  <2> SUFFICES ASSUME Init PROVE MInv
    OBVIOUS
  <2>1. TypeOK /\ JobsSane
    BY TypeInit DEF Init, JobsSane, JobSane, Taking, Putting, Idle, JobAt
  <2>2. Root \in disk.bits /\ disk.node.list = 0
    <3>1. Root \in MkfsMarked(Meta + 1) \cap Blocks
      BY MkfsMarksMetadata, ConstantTypes, MountAssumption DEF Root
    <3> QED BY <3>1 DEF Init, Formatted, NoBuf
  <2> QED BY <2>1, <2>2 DEF Init, Idle, JobAt, MInv, FoundClear, Finding, NoBlockZero, DiskSane, OneOwner
<1>2. MInv /\ [Next]_vars => MInv'
  <2> SUFFICES ASSUME MInv, [Next]_vars PROVE MInv'
    OBVIOUS
  <2>1. TypeOK' /\ JobsSane'
    BY TypeStep, JobsStep DEF MInv
  <2> QED BY <2>1, OwnedStep, DiskStep DEF MInv, Owned
<1> QED BY <1>1, <1>2, PTL DEF Spec

(* Whatever the size of the volume and of its words, through any number of  *)
(* mounts, crashes and calls at work at once, word by word: unless one of   *)
(* the four harms was done, every block in use is marked and has one owner. *)
THEOREM EveryBlockHasOneOwner == Spec => []OneOwner
<1>1. MInv => OneOwner
  BY DEF MInv
<1> QED BY <1>1, MInvariant, PTL

----
(* What a sync leaves on the disk.                                         *)

\* The clusters of a table that were in it before it was written.
OnTime(b) == {s \in buf.table[b] : <<b, s>> \notin late}

(* A buffer that is not dirty is on the disk, a table without what came     *)
(* late; nothing comes late to one that is dirty.                          *)
BuffersWritten ==
  harm = {} =>
    /\ up # "up" => late = {}
    /\ up = "up" => /\ Root \notin dirty => disk.node = buf.node
                    /\ \A b \in Blocks \ {Root} : b \notin dirty => disk.table[b] = OnTime(b)
                    /\ \A b \in dirty \ {Root}, s \in Blocks : <<b, s>> \notin late

\* A sync since whose begin nothing has changed is in one of the phases, or over.
Reached(phases) == calm = "synced" \/ (calm = "begun" /\ syncing \in phases)

\* What such a sync has written when it gets there.
SyncWrites ==
  /\ calm # "no" => up = "up" /\ \A i \in Loaded : disk.bno[i] = mem.bno[i]
  /\ calm = "begun" => syncing # "no"
  /\ Reached({"imap", "bmap", "rest"}) => disk.nfree = mem.nfree
  /\ Reached({"bmap", "rest"}) => disk.imap = mem.imap
  /\ Reached({"rest"}) => disk.bits = mem.bits
  /\ calm = "synced" => dirty = {}

\* A new inode is never the root directory's.
RootIsNoFile ==
  /\ 0 \notin buf.node.files
  /\ job[0].at \in Taking => job[0].ino # 0

SInv == MInv /\ RootIsNoFile /\ BuffersWritten /\ SyncWrites

LEMMA RootIsNoFileStep ==
  ASSUME MInv, RootIsNoFile, [Next]_vars
  PROVE  RootIsNoFile'
<1>1. /\ job \in [Lock -> Job] /\ 0 \in Lock /\ Lock = Inodes
      /\ buf \in [node : Node, table : Tables]
      /\ Idle.at = "idle"
  BY ConstantTypes DEF MInv, TypeOK, Lock, Idle, JobAt
<1>2. CASE UNCHANGED vars
  BY <1>2 DEF vars, RootIsNoFile
<1>3. CASE FirstMount \/ MountAgain \/ MountOops
  BY <1>3 DEF FirstMount, MountAgain, MountOops, MountWith, RootIsNoFile
<1>4. CASE BeginCreate
  <2> DEFINE Free == Inodes \ (mem.imap \cup {0})
             s == GetFirstFreeBits(mem.bits, NBlocks, 1)
  <2>1. Free # {} /\ Free \in SUBSET Nat /\ Found(0, Least(Free), 1) /\ buf' = buf
    BY <1>4, ConstantTypes DEF BeginCreate
  <2> HIDE DEF Free
  <2>2. Least(Free) \in Free
    BY <2>1, LeastIsMember
  <2>3. Least(Free) # 0
    BY <2>2 DEF Free
  <2> HIDE DEF s
  <2>4. job' = [job EXCEPT ![0] = JobAt("found", Least(Free), s, 1, {})]
    BY <2>1 DEF Found, s
  <2> QED BY <1>1, <2>1, <2>3, <2>4 DEF RootIsNoFile, JobAt
<1>5. CASE FinishCreate
  <2>1. buf'.node.files = buf.node.files \cup {job[0].ino} /\ job'[0].at = "idle" /\ job[0].at = "counted"
    BY <1>1, <1>5 DEF FinishCreate, Node
  <2> QED BY <2>1 DEF RootIsNoFile, Taking
<1>6. ASSUME NEW l \in Lock, ReadToSet(l) \/ SetWord(l) \/ CountArea(l) PROVE RootIsNoFile'
  <2>1. buf' = buf /\ job[l].at \in Taking /\ \A k \in Lock \ {l} : job'[k] = job[k]
    BY <1>1, <1>6 DEF ReadToSet, SetWord, CountArea, Taking
  <2>2. job'[l].ino = job[l].ino
    <3>1. CASE ReadToSet(l)
      BY <1>1, <3>1 DEF ReadToSet, Job
    <3>2. CASE SetWord(l)
      <4>1. PICK at, has : job' = [job EXCEPT ![l].at = at, ![l].has = has, ![l].saw = {}]
        BY <3>2 DEF SetWord
      <4> QED BY <1>1, <4>1 DEF Job
    <3>3. CASE CountArea(l)
      BY <1>1, <3>3 DEF CountArea, Job
    <3> QED BY <1>6, <3>1, <3>2, <3>3
  <2>3. job'[0].at \in Taking => job[0].at \in Taking /\ job'[0].ino = job[0].ino
    BY <1>1, <2>1, <2>2
  <2> QED BY <2>1, <2>3 DEF RootIsNoFile
<1>7. ASSUME NEW f \in Inodes \ {0}, BeginGrow(f) \/ FinishGrow(f) PROVE RootIsNoFile'
  <2>1. job'[0] = job[0]
    BY <1>1, <1>7 DEF BeginGrow, FinishGrow, Found
  <2>2. buf'.node.files = buf.node.files
    BY <1>1, <1>7 DEF BeginGrow, FinishGrow
  <2> QED BY <2>1, <2>2 DEF RootIsNoFile
<1>10. ASSUME NEW f \in Inodes \ {0}, BeginUnlink(f) PROVE RootIsNoFile'
  <2>1. job'[0].at = "freeing"
    <3>1. PICK n, put : job' = [job EXCEPT ![0] = JobAt("freeing", f, 0, n, put)]
      BY <1>10 DEF BeginUnlink
    <3> QED BY <1>1, <3>1 DEF JobAt
  <2>2. buf' = [buf EXCEPT !.node.files = @ \ {f}]
    BY <1>10 DEF BeginUnlink
  <2>3. buf'.node.files = buf.node.files \ {f}
    BY <1>1, <2>2 DEF Node
  <2> QED BY <1>1, <2>1, <2>3 DEF RootIsNoFile, Taking
<1>11. CASE ReadToClear \/ ClearBit \/ CountPut
  <2>1. buf' = buf /\ job'[0].at \notin Taking
    <3>1. CASE ReadToClear
      <4>1. PICK b, w : job' = [job EXCEPT ![0].at = "clearing", ![0].bno = b, ![0].saw = w]
        BY <3>1 DEF ReadToClear
      <4>2. job'[0].at = "clearing"
        BY <1>1, <4>1 DEF Job
      <4> QED BY <3>1, <4>2 DEF ReadToClear, Taking
    <3>2. CASE ClearBit
      BY <1>1, <3>2 DEF ClearBit, Job, Taking
    <3>3. CASE CountPut
      <4>1. CASE job[0].len = 1
        BY <1>1, <3>3, <4>1 DEF CountPut, Idle, JobAt, Taking
      <4>2. CASE job[0].len # 1
        BY <1>1, <3>3, <4>2 DEF CountPut, Job, Taking
      <4> QED BY <3>3, <4>1, <4>2 DEF CountPut
    <3> QED BY <1>11, <3>1, <3>2, <3>3
  <2> QED BY <2>1 DEF RootIsNoFile
<1>8. CASE \/ \E b \in Blocks : WriteBuffer(b)
           \/ \E i \in Inodes : WriteInode(i)
           \/ BeginSync \/ FlushSuperblock \/ FlushInodeMap \/ FlushBlockMap \/ EndSync
  <2>1. job' = job /\ buf' = buf
    BY <1>8 DEF WriteBuffer, WriteInode, BeginSync, FlushSuperblock, FlushInodeMap, FlushBlockMap, EndSync
  <2> QED BY <2>1 DEF RootIsNoFile
<1>9. CASE Unmount \/ Crash
  <2>1. job'[0].at = "idle" /\ buf' = NoBuf
    BY <1>1, <1>9 DEF Unmount, Crash, Off
  <2> QED BY <2>1 DEF RootIsNoFile, NoBuf, Taking
<1> QED BY <1>2, <1>3, <1>4, <1>5, <1>6, <1>7, <1>8, <1>9, <1>10, <1>11 DEF Next

\* The steps of a sync and those that leave what it has written as it is.
LEMMA SyncWritesStep ==
  ASSUME MInv, SyncWrites, [Next]_vars
  PROVE  SyncWrites'
<1>1. /\ disk \in Image /\ mem \in Memory /\ mem.bno \in [Inodes -> Blocks]
      /\ Loaded \subseteq Inodes
  BY DEF MInv, TypeOK, Memory, Loaded
<1>2. CASE calm' = "no"
  BY <1>2 DEF SyncWrites, Reached
<1>3. CASE UNCHANGED vars
  BY <1>3 DEF vars, history, SyncWrites, Reached, Loaded
<1>4. CASE MountOops
  BY <1>4 DEF MountOops, history, SyncWrites, Reached, Loaded
<1>5. ASSUME NEW f \in Inodes, BeginGrow(f) PROVE SyncWrites'
  BY <1>5 DEF BeginGrow, SyncWrites, Reached, Loaded
<1>6. ASSUME NEW b \in Blocks, WriteBuffer(b) PROVE SyncWrites'
  <2>1. /\ disk'.bno = disk.bno /\ disk'.nfree = disk.nfree /\ disk'.imap = disk.imap
        /\ disk'.bits = disk.bits /\ dirty' \subseteq dirty
        /\ UNCHANGED <<up, mem, syncing, calm>>
    BY <1>1, <1>6 DEF WriteBuffer, Written, history, Image
  <2> QED BY <2>1 DEF SyncWrites, Reached, Loaded
<1>7. ASSUME NEW j \in Inodes, WriteInode(j) PROVE SyncWrites'
  <2>1. /\ disk'.nfree = disk.nfree /\ disk'.imap = disk.imap /\ disk'.bits = disk.bits
        /\ disk'.bno = [i \in Inodes |-> IF i \in {j} THEN mem.bno[i] ELSE disk.bno[i]]
        /\ UNCHANGED <<up, mem, dirty, syncing, calm>>
    BY <1>1, <1>7 DEF WriteInode, WithInodes, history, Image
  <2> QED BY <1>1, <2>1 DEF SyncWrites, Reached, Loaded
<1>8. CASE BeginSync
  <2>1. /\ up = "up" /\ up' = up /\ mem' = mem /\ syncing' = "super" /\ calm' = "begun"
        /\ disk'.bno = [i \in Inodes |-> IF i \in Loaded THEN mem.bno[i] ELSE disk.bno[i]]
    BY <1>1, <1>8 DEF BeginSync, WithInodes, Image
  <2> QED BY <1>1, <2>1 DEF SyncWrites, Reached, Loaded
<1>9. CASE FlushSuperblock
  <2>1. /\ disk'.bno = disk.bno /\ disk'.nfree = mem.nfree /\ disk'.imap = disk.imap
        /\ disk'.bits = disk.bits /\ syncing = "super" /\ syncing' = "imap"
        /\ UNCHANGED <<up, mem, dirty, calm>>
    BY <1>1, <1>9 DEF FlushSuperblock, history, Image
  <2> QED BY <2>1 DEF SyncWrites, Reached, Loaded
<1>10. CASE FlushInodeMap
  <2>1. /\ disk'.bno = disk.bno /\ disk'.nfree = disk.nfree /\ disk'.imap = mem.imap
        /\ disk'.bits = disk.bits /\ syncing = "imap" /\ syncing' = "bmap"
        /\ UNCHANGED <<up, mem, dirty, calm>>
    BY <1>1, <1>10 DEF FlushInodeMap, history, Image
  <2> QED BY <2>1 DEF SyncWrites, Reached, Loaded
<1>11. CASE FlushBlockMap
  <2>1. /\ disk'.bno = disk.bno /\ disk'.nfree = disk.nfree /\ disk'.imap = disk.imap
        /\ disk'.bits = mem.bits /\ syncing = "bmap" /\ syncing' = "rest"
        /\ UNCHANGED <<up, mem, dirty, calm>>
    BY <1>1, <1>11 DEF FlushBlockMap, Image
  <2> QED BY <2>1 DEF SyncWrites, Reached, Loaded
<1>12. CASE EndSync
  <2>1. /\ disk'.bno = disk.bno /\ disk'.nfree = disk.nfree /\ disk'.imap = disk.imap
        /\ disk'.bits = disk.bits /\ syncing = "rest" /\ dirty' = {}
        /\ calm' = (IF calm = "begun" THEN "synced" ELSE calm) /\ UNCHANGED <<up, mem>>
    BY <1>1, <1>12 DEF EndSync, Written, Image
  <2>2. calm' # "begun"
    BY <2>1
  <2> QED BY <2>1, <2>2 DEF SyncWrites, Reached, Loaded
<1>13. CASE \/ FirstMount \/ MountAgain \/ BeginCreate \/ FinishCreate
            \/ \E l \in Lock : SetWord(l) \/ CountArea(l)
            \/ \E f \in Inodes \ {0} : FinishGrow(f) \/ BeginUnlink(f)
            \/ ClearBit \/ CountPut
            \/ Unmount \/ Crash
  BY <1>2, <1>13 DEF FirstMount, MountAgain, MountWith, BeginCreate, FinishCreate, SetWord,
     CountArea, FinishGrow, BeginUnlink, ClearBit, CountPut, Unmount, Crash, Off
<1>14. CASE ReadToClear \/ \E l \in Lock : ReadToSet(l)
  BY <1>14 DEF ReadToClear, ReadToSet, history, SyncWrites, Reached, Loaded
<1> QED BY <1>3, <1>4, <1>5, <1>6, <1>7, <1>8, <1>9, <1>10, <1>11, <1>12, <1>13, <1>14 DEF Next

\* A mounted volume after a step, with what its buffers are said to be.
LEMMA BuffersMounted ==
  ASSUME harm = {} => up' = "up",
         harm = {} => (Root \notin dirty' => disk'.node = buf'.node),
         harm = {} => \A b \in Blocks \ {Root} : b \notin dirty' => disk'.table[b] = OnTime(b)',
         harm = {} => \A b \in dirty' \ {Root}, s \in Blocks : <<b, s>> \notin late',
         harm' = {} => harm = {}
  PROVE  BuffersWritten'
BY DEF BuffersWritten

\* The image with the buffers B of a volume written to it.
LEMMA WrittenBuffers ==
  ASSUME MInv, BuffersWritten, up = "up", NEW image \in Image, NEW B \in SUBSET dirty,
         image.node = disk.node, image.table = disk.table, up' = up, buf' = buf, late' = late, harm' = harm,
         disk'.node = Written(image, B).node, disk'.table = Written(image, B).table,
         dirty' = dirty \ B
  PROVE  BuffersWritten'
<1>1. /\ image.table \in Tables /\ buf.table \in Tables
      /\ disk'.node = IF Root \in B THEN buf.node ELSE disk.node
      /\ disk'.table = [b \in Blocks |-> IF b \in B \ {Root} THEN buf.table[b] ELSE disk.table[b]]
      /\ dirty \subseteq Blocks
  BY DEF Written, Image, MInv, TypeOK
<1>2. \A b \in Blocks : OnTime(b)' = OnTime(b)
  BY DEF OnTime
<1>3. ASSUME NEW b \in B \ {Root}, harm = {} PROVE OnTime(b) = buf.table[b]
  <2>1. \A s \in Blocks : <<b, s>> \notin late
    BY <1>3 DEF BuffersWritten
  <2>2. b \in Blocks /\ buf.table[b] \subseteq Blocks
    BY <1>1 DEF Tables, Starts
  <2> QED BY <2>1, <2>2 DEF OnTime
<1>4. ASSUME NEW b \in Blocks \ {Root}, b \notin dirty', harm = {}
      PROVE  disk'.table[b] = OnTime(b)'
  <2>1. CASE b \in B
    BY <1>1, <1>2, <1>3, <1>4, <2>1
  <2>2. CASE b \notin B
    <3>1. disk.table[b] = OnTime(b)
      BY <1>4, <2>2 DEF BuffersWritten
    <3> QED BY <1>1, <1>2, <1>4, <2>2, <3>1
  <2> QED BY <2>1, <2>2
<1> QED BY <1>1, <1>4 DEF BuffersWritten

LEMMA BuffersStep ==
  ASSUME MInv, BuffersWritten, [Next]_vars
  PROVE  BuffersWritten'
<1>1. /\ disk \in Image /\ mem \in Memory /\ mem.bno \in [Inodes -> Blocks]
      /\ buf \in [node : Node, table : Tables] /\ buf.table \in [Blocks -> SUBSET Starts]
      /\ disk.table \in [Blocks -> SUBSET Starts]
      /\ job \in [Lock -> Job] /\ Lock = Inodes /\ dirty \subseteq Blocks
      /\ late \subseteq Blocks \X Blocks
      /\ (harm' = {} => harm = {})
  BY HarmStays DEF MInv, TypeOK, Memory, Lock, Image, Tables
<1>2. CASE UNCHANGED vars
  BY <1>2 DEF vars, history, BuffersWritten, OnTime
<1>3. CASE FirstMount \/ MountAgain
  <2>1. PICK list, taken : MountWith(list, taken)
    BY <1>3 DEF FirstMount, MountAgain
  <2>2. /\ up = "down" /\ up' = "up" /\ disk' = disk /\ late' = late /\ dirty' = {Root}
        /\ buf'.table = disk.table /\ harm' = harm
    BY <1>3, <2>1 DEF FirstMount, MountAgain, MountWith
  <2>3. harm = {} => late' = {}
    BY <2>2 DEF BuffersWritten
  <2>4. harm = {} => \A b \in Blocks : OnTime(b)' = disk'.table[b]
    BY <1>1, <2>2, <2>3 DEF OnTime
  <2> QED BY <2>2, <2>3, <2>4 DEF BuffersWritten
<1>4. CASE MountOops
  BY <1>4 DEF MountOops, history, BuffersWritten
<1>5. CASE BeginCreate
  BY <1>1, <1>5 DEF BeginCreate, BuffersWritten, OnTime
<1>6. CASE FinishCreate
  <2>0. PICK ino, b : ino = job[0].ino /\ b = job[0].bno
    OBVIOUS
  <2>1. b \in Blocks
    BY <1>1, <2>0, ConstantTypes DEF Job, Lock
  <2>2. /\ buf' = [buf EXCEPT !.table[b] = {}, !.node.files = @ \cup {ino}]
        /\ up = "up" /\ up' = up /\ disk' = disk /\ dirty' = dirty \cup {b, Root}
        /\ late' = late \ ({b} \X Blocks) /\ harm' = harm
    BY <1>6, <2>0 DEF FinishCreate
  <2>3. buf'.table = [buf.table EXCEPT ![b] = {}]
    BY <1>1, <2>2
  <2>4. \A c \in Blocks \ {b} : OnTime(c)' = OnTime(c)
    BY <1>1, <2>1, <2>2, <2>3 DEF OnTime
  <2>5. harm = {} => \A c \in dirty' \ {Root}, s \in Blocks : <<c, s>> \notin late'
    BY <2>2 DEF BuffersWritten
  <2>6. harm = {} => \A c \in Blocks \ {Root} : c \notin dirty' => disk'.table[c] = OnTime(c)'
    BY <2>2, <2>4 DEF BuffersWritten
  <2> QED BY <2>2, <2>5, <2>6 DEF BuffersWritten
<1>7. CASE \/ \E l \in Lock : ReadToSet(l) \/ SetWord(l) \/ CountArea(l)
           \/ ReadToClear \/ ClearBit \/ CountPut
  <2>1. up = "up" /\ up' = up /\ buf' = buf /\ disk' = disk /\ dirty' = dirty /\ late' = late
    BY <1>7 DEF ReadToSet, SetWord, CountArea, ReadToClear, ClearBit, CountPut, history
  <2> QED BY <1>1, <2>1 DEF BuffersWritten, OnTime
<1>8. ASSUME NEW f \in Inodes \ {0}, BeginGrow(f) PROVE BuffersWritten'
  BY <1>1, <1>8 DEF BeginGrow, BuffersWritten, OnTime
<1>9. ASSUME NEW f \in Inodes \ {0}, FinishGrow(f) PROVE BuffersWritten'
  <2>0. PICK b, start : b = mem.bno[f] /\ start = job[f].bno
    OBVIOUS
  <2>1. /\ up = "up" /\ up' = up /\ job[f].at = "counted" /\ disk' = disk /\ dirty' = dirty /\ harm' = harm
        /\ buf' = [buf EXCEPT !.table[b] = @ \cup {start}]
        /\ late' = IF b \in dirty THEN late ELSE late \cup {<<b, start>>}
    BY <1>9, <2>0 DEF FinishGrow
  <2>2. b \in Blocks /\ start \in Blocks
    BY <1>1, <2>0, <2>1 DEF Job
  <2>3. harm = {} => start \notin buf.table[b]
    <3> SUFFICES ASSUME harm = {}, start \in buf.table[b] PROVE FALSE
      OBVIOUS
    <3>1. f \in Owners /\ f # 0 /\ job[f].len = ClusterLen /\ Pending(f) = Area(f)
      BY <1>1, <2>1 DEF MInv, JobsSane, JobSane, TakingSane, Taking, AreaLen, Owners, Pending
    <3>0. ASSUME NEW x \in Blocks PROVE x \in Run(x, ClusterLen)
      BY <3>0, ConstantTypes DEF Run
    <3>2. start \in Run(start, ClusterLen)
      BY <2>2, <3>0
    <3>3. start \in Pending(f)
      BY <2>0, <2>1, <3>1, <3>2 DEF Area
    <3>4. start \in Holds(f)
      BY <2>0, <3>1, <3>2 DEF Holds, Clusters
    <3>5. Pending(f) \cap Holds(f) = {}
      BY <1>1, <2>1, <3>1 DEF MInv, OneOwner
    <3> QED BY <3>3, <3>4, <3>5
  <2>4. buf'.node = buf.node /\ buf'.table = [buf.table EXCEPT ![b] = @ \cup {start}]
    BY <1>1, <2>1
  <2>5. \A c \in Blocks \ {b} : OnTime(c)' = OnTime(c)
    BY <1>1, <2>1, <2>4 DEF OnTime
  <2>6. harm = {} /\ b \notin dirty => OnTime(b)' = OnTime(b)
    <3> SUFFICES ASSUME harm = {}, b \notin dirty PROVE OnTime(b)' = OnTime(b)
      OBVIOUS
    <3>1. buf'.table[b] = buf.table[b] \cup {start} /\ late' = late \cup {<<b, start>>}
      BY <1>1, <2>1, <2>2, <2>4
    <3>2. start \notin buf.table[b]
      BY <2>3
    <3>3. \A s : s # start => (<<b, s>> \in late' <=> <<b, s>> \in late)
      BY <3>1
    <3>4. <<b, start>> \in late'
      BY <3>1
    <3> QED BY <3>1, <3>2, <3>3, <3>4 DEF OnTime
  <2>7. harm = {} => \A c \in Blocks \ {Root} : c \notin dirty' => disk'.table[c] = OnTime(c)'
    <3> SUFFICES ASSUME harm = {}, NEW c \in Blocks \ {Root}, c \notin dirty
                 PROVE  disk'.table[c] = OnTime(c)'
      BY <2>1
    <3>1. disk'.table[c] = OnTime(c)
      BY <2>1 DEF BuffersWritten
    <3>2. OnTime(c)' = OnTime(c)
      BY <2>5, <2>6
    <3> QED BY <3>1, <3>2
  <2>8. harm = {} => \A c \in dirty' \ {Root}, s \in Blocks : <<c, s>> \notin late'
    BY <2>1 DEF BuffersWritten
  <2> QED BY <2>1, <2>4, <2>7, <2>8 DEF BuffersWritten
<1>10. ASSUME NEW f \in Inodes \ {0}, BeginUnlink(f) PROVE BuffersWritten'
  <2>1. /\ up = "up" /\ up' = up /\ disk' = disk /\ dirty' = dirty \cup {Root} /\ late' = late
        /\ buf' = [buf EXCEPT !.node.files = @ \ {f}]
    BY <1>10 DEF BeginUnlink
  <2>2. buf'.table = buf.table
    BY <2>1
  <2>3. \A c \in Blocks : OnTime(c)' = OnTime(c)
    BY <2>1, <2>2 DEF OnTime
  <2> QED BY <1>1, <2>1, <2>3 DEF BuffersWritten
<1>11. ASSUME NEW b \in Blocks, WriteBuffer(b) PROVE BuffersWritten'
  BY <1>1, <1>11, WrittenBuffers DEF WriteBuffer, history
<1>12. CASE EndSync
  BY <1>1, <1>12, WrittenBuffers DEF EndSync
<1>13. CASE \/ \E i \in Inodes : WriteInode(i)
            \/ BeginSync \/ FlushSuperblock \/ FlushInodeMap \/ FlushBlockMap
  <2>1. /\ disk'.node = disk.node /\ disk'.table = disk.table
        /\ UNCHANGED <<up, buf, dirty, late, harm>>
    BY <1>1, <1>13 DEF WriteInode, BeginSync, FlushSuperblock, FlushInodeMap, FlushBlockMap,
                       WithInodes, history, Image
  <2> QED BY <2>1 DEF BuffersWritten, OnTime
<1>14. CASE Unmount \/ Crash
  BY <1>14 DEF Unmount, Crash, Off, BuffersWritten
<1> QED BY <1>2, <1>3, <1>4, <1>5, <1>6, <1>7, <1>8, <1>9, <1>10, <1>11, <1>12, <1>13, <1>14
        DEF Next

LEMMA SyncInvariant == Spec => []SInv
<1>1. Init /\ MInv => SInv
  BY ConstantTypes DEF Init, NoBuf, Idle, JobAt, Lock, Taking, SInv, RootIsNoFile, BuffersWritten, SyncWrites, Reached
<1>2. SInv /\ MInv' /\ [Next]_vars => SInv'
  BY RootIsNoFileStep, BuffersStep, SyncWritesStep DEF SInv
<1> QED BY <1>1, <1>2, MInvariant, PTL DEF Spec

(* After a sync during which and since nothing has changed, the disk has    *)
(* what memory has, but for the clusters whose table nobody marked dirty:   *)
(* whatever was written back before, in whatever order, and however often   *)
(* the volume was mounted or lost its power.                               *)
THEOREM SyncIsComplete == Spec => []SyncedIsOnDisk
<1>1. SInv => SyncedIsOnDisk
  <2> SUFFICES ASSUME SInv, calm = "synced", harm = {} PROVE SyncedIsOnDisk
    BY DEF SyncedIsOnDisk
  <2>1. /\ up = "up" /\ dirty = {}
        /\ disk.nfree = mem.nfree /\ disk.imap = mem.imap /\ disk.bits = mem.bits
        /\ \A i \in Loaded : disk.bno[i] = mem.bno[i]
    BY DEF SInv, SyncWrites, Reached
  <2>2. /\ disk.node = buf.node
        /\ \A b \in Blocks \ {Root} : disk.table[b] = OnTime(b)
    BY <2>1 DEF SInv, BuffersWritten
  <2>3. ASSUME NEW f \in buf.node.files
        PROVE  mem.bno[f] \in Blocks \ {Root} /\ f \in Loaded
    <3>1. f \in Inodes /\ mem.bno[f] \in Blocks /\ f # 0 /\ f \in Owners /\ 0 \in Owners
      BY DEF SInv, MInv, TypeOK, Memory, Node, RootIsNoFile, Owners
    <3>2. mem.bno[f] \in Holds(f) /\ Root \in Holds(0)
      BY <3>1 DEF Holds
    <3>3. 0 \notin Holds(f) /\ Holds(f) \cap Holds(0) = {}
      BY <2>1, <3>1 DEF SInv, MInv, NoBlockZero, OneOwner
    <3> QED BY <3>1, <3>2, <3>3 DEF Loaded
  <2> QED BY <2>1, <2>2, <2>3 DEF SyncedIsOnDisk, OnTime
<1> QED BY <1>1, SyncInvariant, PTL
====
