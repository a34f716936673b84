----------------------------- MODULE MCBackends -----------------------------
(***************************************************************************)
(* The two kinds of dataset for TLC: the allocator of a packed file, with  *)
(* small integers for pages and sizes, and the objects of a bucket, with   *)
(* two trees and, to copy, two trees that share a blob.  Either moves.     *)
(***************************************************************************)
EXTENDS BlobAllocator, ObjectBackend

SharedSource == [t \in {1, 2} |-> IF t = 1 THEN {"a", "b"} ELSE {"b"}]

VARIABLE dataset
MCInit == Init /\ ObjectsInit /\ dataset \in {"file", "bucket"}
MCNext ==
  /\ UNCHANGED dataset
  /\ \/ dataset = "file" /\ Next /\ UNCHANGED objectVars
     \/ dataset = "bucket" /\ ObjectsNext /\ UNCHANGED vars
MCSpec == MCInit /\ [][MCNext]_<<vars, objectVars, dataset>>
=============================================================================
