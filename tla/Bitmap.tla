---- MODULE Bitmap ----
(***************************************************************************)
(* The two free maps of a BasicBTFS volume (bitmap.h): one bit per inode   *)
(* and one per block, each with a 32-bit counter of free bits kept beside  *)
(* it, and for blocks the high-water mark s_unused_area.                   *)
(*                                                                         *)
(* A map is a record.  Its field "bits" is the set of bit numbers that are *)
(* set (in use).  The operators return the map as the C function leaves    *)
(* it, with the number the function returns.                               *)
(***************************************************************************)
EXTENDS Integers, FiniteSets

CONSTANT Word     \* 2^32: s_nfree_* and s_unused_area are uint32_t

ASSUME WordAssumption == Word \in Nat \ {0}

\* Mutant: the counters are signed.
U32Signed(x) == x

U32(x) == x % Word

\* What the C code calls -1 when it means "no such block or inode".
NONE == -1

Run(start, len) == start..(start + len - 1)

\* Mutant: an area is taken to be free when its first bit is.
ZeroAreasFirstBit(bits, size, start, len) == (start..(size - len)) \ bits

(* bitmap_find_next_zero_area: the starts of the areas it may return. *)
ZeroAreas(bits, size, start, len) ==
  {s \in start..(size - len) : Run(s, len) \cap bits = {}}

Least(S) == CHOOSE s \in S : \A t \in S : s <= t

(* get_first_free_bits: the search starts at bit 1; bit 0 is never given.  *)
GetFirstFreeBits(bits, size, len) ==
  LET areas == ZeroAreas(bits, size, 1, len)
  IN  IF areas = {} THEN NONE ELSE Least(areas)

\* Mutant: the last bit of the area is not set.
SetBitsShort(bits, start, len) ==
  IF start = NONE THEN bits ELSE bits \cup Run(start, len - 1)

SetBits(bits, start, len) ==
  IF start = NONE THEN bits ELSE bits \cup Run(start, len)

(* get_free_inode.  The test start_ino > 0 that guards the counter is true  *)
(* of every result, (uint32_t)-1 included.                                 *)
GetFreeInode(im, size) ==
  LET ino == GetFirstFreeBits(im.bits, size, 1)
  IN  [im  |-> [bits |-> SetBits(im.bits, ino, 1), nfree |-> U32(im.nfree - 1)],
       ino |-> ino]

\* Mutant: a run that starts at the mark does not raise it.
GetFreeBlocksAbove(bm, size, len) ==
  LET bno == GetFirstFreeBits(bm.bits, size, len)
  IN  [bm  |-> [bits   |-> SetBits(bm.bits, bno, len),
                nfree  |-> U32(bm.nfree - len),
                unused |-> IF U32(bno) > bm.unused THEN U32(bno + len) ELSE bm.unused,
                short  |-> bm.short \/ bno = NONE],
       bno |-> bno]

(* get_free_blocks.  A failed search still takes len from the counter, and  *)
(* since (uint32_t)-1 is above any mark it moves the mark to -1 + len.      *)
(* "short" is a history bit: some search has failed.                       *)
GetFreeBlocks(bm, size, len) ==
  LET bno == GetFirstFreeBits(bm.bits, size, len)
  IN  [bm  |-> [bits   |-> SetBits(bm.bits, bno, len),
                nfree  |-> U32(bm.nfree - len),
                unused |-> IF U32(bno) >= bm.unused THEN U32(bno + len) ELSE bm.unused,
                short  |-> bm.short \/ bno = NONE],
       bno |-> bno]

(* put_free_bits refuses a run that ends beyond bit "size" (it lets bit    *)
(* "size" itself through).                                                 *)
PutRefused(size, start, len) == U32(start + len - 1) > size

\* Mutant: the counter does not follow the bit.
PutInodeUncounted(im, size, ino) ==
  IF PutRefused(size, ino, 1) THEN im ELSE [im EXCEPT !.bits = @ \ {ino}]

PutInode(im, size, ino) ==
  IF PutRefused(size, ino, 1)
    THEN im
    ELSE [bits |-> im.bits \ {ino}, nfree |-> U32(im.nfree + 1)]

\* Mutant: the counter is raised once for the whole set.
PutBlocksOnce(bm, size, S) ==
  LET T == {b \in S : ~PutRefused(size, b, 1)}
  IN  [bm EXCEPT !.bits = @ \ T, !.nfree = U32(@ + 1)]

(* put_blocks(sbi, b, 1) for every b of S: the bit is cleared and the       *)
(* counter raised whether or not the bit was set.                          *)
PutBlocks(bm, size, S) ==
  LET T == {b \in S : ~PutRefused(size, b, 1)}
  IN  [bm EXCEPT !.bits = @ \ T, !.nfree = U32(@ + Cardinality(T))]
====
