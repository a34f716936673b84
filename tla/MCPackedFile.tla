---------------------------- MODULE MCPackedFile ----------------------------
(***************************************************************************)
(* PackedFile for TLC: blobs and slots are interchangeable model values.   *)
(***************************************************************************)
EXTENDS PackedFile, TLC

Symmetry == Permutations(Blobs) \cup Permutations(Slots)
=============================================================================
