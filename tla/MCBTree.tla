---- MODULE MCBTree ----
(***************************************************************************)
(* Instances of BTree for TLC: nodes of one to three keys.                 *)
(***************************************************************************)
EXTENDS BTree

(* Nine keys is the least number with which a root that is no leaf is full *)
(* when the last of them is inserted, and is split.                        *)
NineKeys == 1..9
NineBlocks == 1..9

(* On a volume of seven blocks the eleventh key can be the one that finds  *)
(* no block two levels below the root.                                     *)
ElevenKeys == 1..11
SevenBlocks == 1..7

TenKeys == 1..10
====
