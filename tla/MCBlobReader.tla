---------------------------- MODULE MCBlobReader ----------------------------
(***************************************************************************)
(* BlobReader for TLC.                                                     *)
(***************************************************************************)
EXTENDS BlobReader
=============================================================================
