---- MODULE MCVolume ----
(***************************************************************************)
(* Volume on a small disk.  MaxDeficit bounds how often a search for       *)
(* blocks may fail: a failed search lowers s_nfree_blocks each time, by up *)
(* to a cluster, and the counter is followed down through zero until it    *)
(* lies MaxDeficit below the value without failures.  Runs end where a      *)
(* file has been put twice: the damage is done, and the properties about   *)
(* blocks claim nothing any more.                                          *)
(***************************************************************************)
EXTENDS Volume, TLC

CONSTANT MaxDeficit

Deficit ==
  U32(Cardinality((1..(NBlocks - 1)) \ bmap.bits) + Excess + 1 + Cardinality(released)
      - bmap.nfree)

Bounded == ~twice /\ Deficit <= MaxDeficit

NameSymmetry == Permutations(Names)
====
