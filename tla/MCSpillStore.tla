---------------------------- MODULE MCSpillStore ----------------------------
(***************************************************************************)
(* SpillStore for TLC: blobs are interchangeable model values.             *)
(***************************************************************************)
EXTENDS SpillStore, TLC

Symmetry == Permutations(Blobs)
=============================================================================
