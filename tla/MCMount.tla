---- MODULE MCMount ----
(***************************************************************************)
(* An instance of Mount: two mounts of a volume whose map mkfs has marked   *)
(* beyond the metadata.                                                    *)
(***************************************************************************)
EXTENDS Mount

\* The second mount is for what the first has left on the disk: it makes one
\* call less and is not synced.  Nor is a sync at work when the last call of a
\* mount is: that one is for four calls at the block map.  What follows a harm
\* is not looked at.
Bounded ==
  /\ harm = {}
  /\ calls = MaxCalls => syncing = "no"
  /\ mounts > 1 => calls < MaxCalls /\ syncing = "no"
====
