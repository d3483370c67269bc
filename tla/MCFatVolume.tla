---- MODULE MCFatVolume ----
(***************************************************************************)
(* FatVolume on a small disk.  Runs end where a call has done damage, where *)
(* MaxFailed searches have failed, where a directory has lost MaxGone       *)
(* subdirectories.                                                         *)
(***************************************************************************)
EXTENDS FatVolume, Functions, TLC

CONSTANTS MaxFailed, MaxGone

Bounded == harm = {} /\ failed <= MaxFailed /\ FoldFunction(+, 0, gone) <= MaxGone

NameSymmetry == Permutations(Names)
====
