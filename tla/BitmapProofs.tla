---- MODULE BitmapProofs ----
(***************************************************************************)
(* Lemmas about the search for clear bits and the counters of Bitmap, for  *)
(* the proofs about the modules that use it.                               *)
(***************************************************************************)
EXTENDS Bitmap, TLAPS, FiniteSetTheorems

----
(* Lemmas about the free maps (Bitmap).                                    *)

(* A set of numbers that is not empty has a least one: the initial segment *)
(* it cuts off is minimal among the finite sets {t \in S : t <= s}.         *)
LEMMA LeastIsMember ==
  ASSUME NEW S \in SUBSET Nat, S # {}
  PROVE  Least(S) \in S /\ \A t \in S : Least(S) <= t
<1> DEFINE Below(s) == {t \in S : t <= s}
           F == {Below(s) : s \in S}
<1>1. F \subseteq FiniteSubsetsOf(Nat)
  <2> SUFFICES ASSUME NEW s \in S PROVE Below(s) \in FiniteSubsetsOf(Nat)
    OBVIOUS
  <2>1. IsFiniteSet(Below(s))
    <3>1. Below(s) \in SUBSET Nat /\ s \in Nat /\ \A t \in Below(s) : t <= s
      OBVIOUS
    <3> HIDE DEF Below
    <3> QED BY <3>1, FS_BoundedSetOfNaturals
  <2> QED BY <2>1 DEF FiniteSubsetsOf
<1>2. F # {}
  OBVIOUS
<1>3. PICK T \in F : \A U \in F : ~ (<<U, T>> \in StrictSubsetOrdering(Nat))
  <2> HIDE DEF F
  <2> QED BY <1>1, <1>2, FS_StrictSubsetOrderingWellFounded, WFMin
<1>4. PICK m \in S : T = Below(m)
  OBVIOUS
<1>5. \A y \in S : m <= y
  <2> SUFFICES ASSUME NEW y \in S, y < m PROVE FALSE
    OBVIOUS
  <2>1. y \in Nat /\ m \in Nat
    OBVIOUS
  <2>2. \A t \in S : t <= y => t <= m
    BY <2>1
  <2>3. Below(y) \subseteq Below(m)
    BY <2>2
  <2>4. m \in Below(m) /\ m \notin Below(y)
    BY <2>1
  <2>5. <<Below(y), T>> \in StrictSubsetOrdering(Nat)
    BY <1>4, <2>3, <2>4 DEF StrictSubsetOrdering
  <2> QED BY <1>3, <2>5
<1> QED BY <1>5 DEF Least

LEMMA U32Type ==
  ASSUME NEW x \in Int
  PROVE  U32(x) \in 0..(Word - 1)
BY WordAssumption DEF U32

LEMMA U32Id ==
  ASSUME NEW x \in 0..(Word - 1)
  PROVE  U32(x) = x
BY WordAssumption DEF U32

(* A search for len clear bits fails or returns a run of clear bits that    *)
(* lies within the map and not at bit 0.                                   *)
LEMMA FirstFreeIsFree ==
  ASSUME NEW bits, NEW size \in Nat, NEW len \in Nat \ {0},
         NEW b, b = GetFirstFreeBits(bits, size, len), b # NONE
  PROVE  b \in 1..(size - len) /\ Run(b, len) \cap bits = {}
<1> DEFINE Z == ZeroAreas(bits, size, 1, len)
<1>1. Z \subseteq 1..(size - len) /\ \A s \in Z : Run(s, len) \cap bits = {}
  BY DEF ZeroAreas
<1>2. Z # {} /\ b = Least(Z)
  BY DEF GetFirstFreeBits
<1>3. Z \in SUBSET Nat
  BY <1>1
<1> HIDE DEF Z
<1>4. b \in Z
  BY <1>2, <1>3, LeastIsMember
<1> QED BY <1>1, <1>4

LEMMA Division ==
  ASSUME NEW w \in Nat \ {0}, NEW z \in Int
  PROVE  \E q \in Int, r \in 0..(w - 1) : q = z \div w /\ r = z % w /\ z = q * w + r
<1>1. z \div w \in Int /\ z % w \in 0..(w - 1) /\ z = (z \div w) * w + (z % w)
  OBVIOUS
<1> QED BY <1>1, Zenon

(* A number is divided in one way only.                                    *)
LEMMA DivisionIsUnique ==
  ASSUME NEW w \in Nat \ {0}, NEW q \in Int, NEW r \in 0..(w - 1), NEW z, z = q * w + r
  PROVE  z \div w = q /\ z % w = r
<1>1. PICK a, b : a = z \div w /\ b = z % w
  OBVIOUS
<1>2. a \in Int /\ b \in 0..(w - 1) /\ z = a * w + b
  BY <1>1
<1>3. (q - a) * w = b - r
  BY <1>2
<1>4. ~(q - a >= 1)
  <2> SUFFICES ASSUME q - a >= 1 PROVE FALSE
    OBVIOUS
  <2>1. (q - a) * w >= w
    BY <1>2
  <2> QED BY <1>2, <1>3, <2>1
<1>5. ~(a - q >= 1)
  <2> SUFFICES ASSUME a - q >= 1 PROVE FALSE
    OBVIOUS
  <2>1. (a - q) * w >= w
    BY <1>2
  <2>2. (a - q) * w = r - b
    BY <1>2
  <2> QED BY <1>2, <2>1, <2>2
<1>6. a = q
  BY <1>2, <1>4, <1>5
<1>7. b = r
  BY <1>2, <1>6
<1> QED BY <1>1, <1>6, <1>7

(* The counters are taken modulo their size as often as one likes.          *)
LEMMA U32Again ==
  ASSUME NEW x \in Int, NEW k \in Int
  PROVE  U32(U32(x) + k) = U32(x + k)
<1>1. Word \in Nat \ {0}
  BY WordAssumption
<1>2. PICK q \in Int, r \in 0..(Word - 1) : q = x \div Word /\ r = x % Word /\ x = q * Word + r
  BY <1>1, Division, Zenon
<1>3. r + k \in Int
  BY <1>1, <1>2
<1>4. PICK t \in Int, s \in 0..(Word - 1) : t = (r + k) \div Word /\ s = (r + k) % Word /\ r + k = t * Word + s
  <2> HIDE <1>2
  <2> QED BY <1>1, <1>3, Division, Zenon
<1>5. (q + t) * Word = q * Word + t * Word
  BY <1>1, <1>2, <1>4
<1>6. x + k = (q + t) * Word + s
  <2> DEFINE A == q * Word
             B == t * Word
             C == (q + t) * Word
  <2>1. A \in Int /\ B \in Int /\ C \in Int /\ r \in Int /\ s \in Int
    BY <1>1, <1>2, <1>4
  <2>2. x = A + r /\ r + k = B + s /\ C = A + B
    BY <1>2, <1>4, <1>5
  <2> HIDE DEF A, B, C
  <2>3. x + k = C + s
    BY <2>1, <2>2
  <2> QED BY <2>3 DEF C
<1>7. q + t \in Int
  BY <1>2, <1>4
<1>8. (x + k) % Word = s
  <2>1. ASSUME NEW a \in Int, NEW z, z = a * Word + s PROVE z % Word = s
    BY <1>1, <2>1, DivisionIsUnique, Zenon
  <2> QED BY <1>6, <1>7, <2>1
<1> QED BY <1>2, <1>4, <1>8 DEF U32

LEMMA U32Steps ==
  ASSUME NEW x \in Int
  PROVE  U32(U32(x) - 1) = U32(x - 1) /\ U32(U32(x) + 1) = U32(x + 1)
<1>1. PICK k \in Int : k = -1
  OBVIOUS
<1>2. U32(U32(x) + k) = U32(x + k)
  BY U32Again
<1>3. PICK u \in Int : u = U32(x)
  BY U32Type
<1>4. u + k = u - 1 /\ x + k = x - 1
  BY <1>1
<1>5. U32(U32(x) - 1) = U32(x - 1)
  <2>1. U32(u + k) = U32(x + k)
    BY <1>2, <1>3
  <2>2. U32(u - 1) = U32(x - 1)
    BY <1>4, <2>1, Zenon
  <2> QED BY <1>3, <2>2
<1>6. 1 \in Int
  OBVIOUS
<1>7. U32(U32(x) + 1) = U32(x + 1)
  BY <1>6, U32Again
<1> QED BY <1>5, <1>7

(* What is clear in a map of size bits, when a bit is set or cleared.       *)
LEMMA ClearBits ==
  ASSUME NEW size \in Nat, NEW bits
  PROVE  /\ IsFiniteSet((0..(size - 1)) \ bits)
         /\ Cardinality((0..(size - 1)) \ bits) \in 0..size
<1>1. IsFiniteSet(0..(size - 1)) /\ Cardinality(0..(size - 1)) = size
  BY FS_Interval
<1>2. IsFiniteSet((0..(size - 1)) \ bits)
  BY <1>1, FS_Subset
<1>3. Cardinality((0..(size - 1)) \ bits) <= size
  BY <1>1, FS_Subset
<1> QED BY <1>2, <1>3, FS_CardinalityType

LEMMA SetBitCounted ==
  ASSUME NEW size \in Nat, NEW bits, NEW b \in (0..(size - 1)) \ bits
  PROVE  Cardinality((0..(size - 1)) \ (bits \cup {b})) = Cardinality((0..(size - 1)) \ bits) - 1
<1>1. IsFiniteSet((0..(size - 1)) \ bits)
  BY ClearBits
<1>2. (0..(size - 1)) \ (bits \cup {b}) = ((0..(size - 1)) \ bits) \ {b}
  OBVIOUS
<1>3. PICK S : S = (0..(size - 1)) \ bits
  OBVIOUS
<1>4. IsFiniteSet(S) /\ b \in S
  BY <1>1, <1>3
<1>5. Cardinality(S \ {b}) = Cardinality(S) - 1
  BY <1>4, FS_RemoveElement
<1> QED BY <1>2, <1>3, <1>5, Zenon

LEMMA ClearBitCounted ==
  ASSUME NEW size \in Nat, NEW bits, NEW b \in (0..(size - 1)) \cap bits
  PROVE  Cardinality((0..(size - 1)) \ (bits \ {b})) = Cardinality((0..(size - 1)) \ bits) + 1
<1>1. IsFiniteSet((0..(size - 1)) \ bits)
  BY ClearBits
<1>2. (0..(size - 1)) \ (bits \ {b}) = ((0..(size - 1)) \ bits) \cup {b}
  OBVIOUS
<1>3. PICK S : S = (0..(size - 1)) \ bits
  OBVIOUS
<1>4. IsFiniteSet(S) /\ b \notin S
  BY <1>1, <1>3
<1>5. Cardinality(S \cup {b}) = Cardinality(S) + 1
  BY <1>4, FS_AddElement
<1> QED BY <1>2, <1>3, <1>5, Zenon
====
