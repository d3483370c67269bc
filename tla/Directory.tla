---- MODULE Directory ----
(***************************************************************************)
(* What a directory promises to the calls that create names in it: a set   *)
(* of names, in which a call's name appears at once, when the call ends,   *)
(* and nothing else changes.                                               *)
(***************************************************************************)
EXTENDS Integers

CONSTANT Keys

VARIABLES dir, asked

dirVars == <<dir, asked>>

NoName == 0

DirInit == dir = {} /\ asked = NoName

Ask(k) ==
  /\ asked = NoName /\ k \notin dir
  /\ asked' = k
  /\ UNCHANGED dir

Create ==
  /\ asked # NoName
  /\ dir' = dir \cup {asked}
  /\ asked' = NoName

\* The only reason to fail is that the volume is full; nothing has happened.
Fail ==
  /\ asked # NoName
  /\ asked' = NoName
  /\ UNCHANGED dir

DirNext == (\E k \in Keys : Ask(k)) \/ Create \/ Fail

DirSpec == DirInit /\ [][DirNext]_dirVars
====
