---------------------------- MODULE DurableStore ----------------------------
(***************************************************************************)
(* What the blob store promises its user, the tree: a blob that has been   *)
(* published reads back its own bytes until it is discarded, whatever      *)
(* happens to the place those bytes are kept in, and after a crash exactly *)
(* the blobs of the last committed checkpoint read back theirs.  A blob    *)
(* whose write failed is published broken: what is read of it is not       *)
(* specified, but it costs no other blob anything.                         *)
(*                                                                         *)
(* There is no cache, no allocator, no spill area and no residency table   *)
(* here: every eviction, spill, punch, sweep and metadata write of the     *)
(* implementation is a stuttering step of this specification.              *)
(***************************************************************************)
CONSTANTS
  Blobs,
  None,  \* "reads nothing": not published, discarded, or lost
  Broken \* "reads anything": published, though its write failed

VARIABLES
  value,  \* what a read of each blob returns
  taken,  \* the contents of the checkpoint being written
  saved   \* the contents of the last committed checkpoint

storeVars == <<value, taken, saved>>

Nothing == [b \in Blobs |-> None]

StoreInit == value = Nothing /\ taken = Nothing /\ saved = Nothing

\* A write completes: the blob reads back as itself from now on.
Publish(b) ==
  /\ value[b] = None
  /\ value' = [value EXCEPT ![b] = b]
  /\ UNCHANGED <<taken, saved>>

\* A write failed, which only the host was told.
PublishBroken(b) ==
  /\ value[b] = None
  /\ value' = [value EXCEPT ![b] = Broken]
  /\ UNCHANGED <<taken, saved>>

\* The tree drops its reference.
Drop(b) ==
  /\ value[b] # None
  /\ value' = [value EXCEPT ![b] = None]
  /\ UNCHANGED <<taken, saved>>

BeginCheckpoint == taken' = value /\ UNCHANGED <<value, saved>>
CommitCheckpoint == saved' = taken /\ UNCHANGED <<value, taken>>
AbandonCheckpoint == taken' = Nothing /\ UNCHANGED <<value, saved>>

\* The process dies and the file is reopened.
CrashAndReopen == value' = saved /\ taken' = Nothing /\ UNCHANGED saved

StoreNext ==
  \/ \E b \in Blobs : Publish(b) \/ PublishBroken(b) \/ Drop(b)
  \/ BeginCheckpoint \/ CommitCheckpoint \/ AbandonCheckpoint
  \/ CrashAndReopen

StoreSpec == StoreInit /\ [][StoreNext]_storeVars
=============================================================================
