------------------------------- MODULE MCProc -------------------------------
(***************************************************************************)
(* Instances of Proc for TLC.  Frames are interchangeable.                 *)
(***************************************************************************)
EXTENDS Proc, TLC

Sym == Permutations(Frames)
=============================================================================
