----------------------------- MODULE SpillStore -----------------------------
(***************************************************************************)
(* The spill store (spill_store_t) at the grain of bucket objects: blobs   *)
(* are appended to an open segment in memory, a segment is PUT when it is  *)
(* full or a checkpoint flushes it, and a journal object names every       *)
(* segment that is in the bucket, or about to be, without being referenced *)
(* by a committed residency table.  Vio's object stores cannot list a      *)
(* bucket: what the journal does not name, no reopen will ever delete.     *)
(*                                                                         *)
(* Everything runs on the storage loop.  A coroutine is a blob being       *)
(* spilled, or the checkpoint (Ck); an action is what runs between two     *)
(* co_awaits, and the operations take the FIFO gate as a whole.  The gate  *)
(* is handed to the next waiter inline; the model lets other coroutines    *)
(* step in between.  A crash may strike with a PUT under way, whose object *)
(* may or may not have been written.                                       *)
(***************************************************************************)
EXTENDS Integers, Sequences, FiniteSets

CONSTANTS
  Blobs,           \* blobs, each spilled at most once per process life
  Ck,              \* the checkpoint coroutine
  None,            \* no object, no locator
  Target,          \* _segment_target_bytes, in blobs
  QuietCommit,     \* no reference dies between a snapshot and the end of its sweep
  MaxSegs,         \* bound on the segments opened
  MaxCheckpoints,  \* bound on the checkpoints
  MaxFailures,     \* bound on the failed object operations
  MaxCrashes       \* bound on the crashes

ASSUME SpillStoreAssumption ==
  /\ IsFiniteSet(Blobs) /\ Ck \notin Blobs /\ None \notin Blobs
  /\ Target \in Nat \ {0} /\ QuietCommit \in BOOLEAN
  /\ {MaxSegs, MaxCheckpoints, MaxFailures, MaxCrashes} \subseteq Nat

ASSUME NoneIsNoValue ==
  None \notin Seq(Blobs) /\ None \notin [seg : Nat, at : Nat]

VARIABLES
  bucket,    \* the segment objects
  journal,   \* the segments the journal object names, none when there is no such object
  open,      \* _open_seq, _open_buffer, _open_journaled
  next,      \* _next_seq
  undurable, \* _undurable_segments
  live,      \* _live_counts
  dead,      \* _dead_segments
  gate,      \* the holder of the gate, then its waiters
  op,        \* how far each coroutine has come
  loc,       \* the locator each blob was given
  ck,        \* the checkpoint's snapshot and the dead segments its sweep has left
  table,     \* the locators of the committed residency table
  known,     \* history: segments a committed table referenced once
  excused,   \* history: segments that left the journal's care (see NoLostOrphan)
  used       \* checkpoints, failures and crashes so far

vars == <<bucket, journal, open, next, undurable, live, dead, gate, op, loc, ck, table,
          known, excused, used>>
external == <<table, known>>

Segs == 1 .. MaxSegs
NoLocs == [b \in Blobs |-> None]
SegsOf(locs) == {locs[b].seg : b \in {c \in Blobs : locs[c] # None}}
Lives(locs) == [n \in Segs |-> Cardinality({b \in Blobs : locs[b] # None /\ locs[b].seg = n})]

ClosedSeg == [seq |-> 0, buf |-> <<>>, journaled |-> FALSE]
NoCk == [snap |-> NoLocs, left |-> {}]

Init ==
  /\ bucket = [n \in Segs |-> None] /\ journal = {}
  /\ open = ClosedSeg /\ next = 1
  /\ undurable = {} /\ live = [n \in Segs |-> 0] /\ dead = {}
  /\ gate = <<>> /\ op = [p \in Blobs \cup {Ck} |-> "off"]
  /\ loc = NoLocs /\ ck = NoCk /\ table = NoLocs
  /\ known = {} /\ excused = {}
  /\ used = [checkpoints |-> 0, failures |-> 0, crashes |-> 0]

-----------------------------------------------------------------------------
(***************************************************************************)
(* The gate: lock() queues, and whoever is at the head runs.               *)
(***************************************************************************)
Enter(p, pc) ==
  /\ gate' = Append(gate, p)
  /\ op' = [op EXCEPT ![p] = pc]

\* Mutant: coro_gate_t lets everyone in.
MutRuns(p, pc) == op[p] = pc

Runs(p, pc) == op[p] = pc /\ Head(gate) = p

Leave(p, pc) ==
  /\ gate' = Tail(gate)
  /\ op' = [op EXCEPT ![p] = pc]

MayFail == used.failures < MaxFailures
Fails == used' = [used EXCEPT !.failures = @ + 1]
-----------------------------------------------------------------------------
(***************************************************************************)
(* spill_blob.                                                             *)
(***************************************************************************)
Spill(b) ==
  /\ op[b] = "off"
  /\ Enter(b, "spill")
  /\ UNCHANGED <<bucket, journal, open, next, undurable, live, dead, loc, ck, excused, used,
                 external>>

\* The tail of spill_blob: append, hand out the locator, PUT the segment if it is full.
AppendBlob(b, o) ==
  LET grown == [o EXCEPT !.buf = Append(@, b), !.journaled = TRUE] IN
  /\ open' = grown
  /\ loc' = [loc EXCEPT ![b] = [seg |-> o.seq, at |-> Len(grown.buf)]]
  /\ live' = [live EXCEPT ![o.seq] = @ + 1]
  /\ IF Len(grown.buf) >= Target
     THEN op' = [op EXCEPT ![b] = "put"] /\ UNCHANGED gate
     ELSE Leave(b, "kept")

\* An empty buffer opens a segment; one that is not journaled waits for write_journal.
SpillStart(b) ==
  /\ Runs(b, "spill")
  /\ IF open.buf = <<>>
     THEN /\ next \in Segs
          /\ open' = [ClosedSeg EXCEPT !.seq = next]
          /\ next' = next + 1
          /\ op' = [op EXCEPT ![b] = "journal"]
          /\ UNCHANGED <<gate, live, loc>>
     ELSE AppendBlob(b, open) /\ UNCHANGED next
  /\ UNCHANGED <<bucket, journal, undurable, dead, ck, excused, used, external>>

\* Mutant: the journal names the open segment only.
MutJournalled == {open.seq}

\* What write_journal lists.
Journalled == undurable \cup {open.seq}

SpillJournaled(b) ==
  /\ Runs(b, "journal")
  /\ journal' = Journalled
  /\ AppendBlob(b, open)
  /\ known' = known \ {open.seq} /\ excused' = excused \ {open.seq}
  /\ UNCHANGED <<bucket, next, undurable, dead, ck, table, used>>

SpillJournalFails(b) ==
  /\ Runs(b, "journal") /\ MayFail
  /\ Leave(b, "off") /\ Fails
  /\ UNCHANGED <<bucket, journal, open, next, undurable, live, dead, loc, ck, excused, external>>

(***************************************************************************)
(* flush_locked, once the PUT has returned.  On an error the buffer is     *)
(* kept, and so is the count of the blob whose locator the caller drops.   *)
(***************************************************************************)
Flushed ==
  /\ bucket' = [bucket EXCEPT ![open.seq] = open.buf]
  /\ undurable' = undurable \cup {open.seq}
  /\ open' = [open EXCEPT !.buf = <<>>, !.journaled = FALSE]

SpillPut(b) ==
  /\ Runs(b, "put")
  /\ Flushed /\ Leave(b, "kept")
  /\ UNCHANGED <<journal, next, live, dead, loc, ck, excused, used, external>>

SpillPutFails(b) ==
  /\ Runs(b, "put") /\ MayFail
  /\ loc' = [loc EXCEPT ![b] = None]
  /\ Leave(b, "off") /\ Fails
  /\ excused' = excused \cup {open.seq}
  /\ UNCHANGED <<bucket, journal, open, next, undurable, live, dead, ck, external>>

Committing == op[Ck] \in {"commit", "sweep", "remove", "shrink"}

(***************************************************************************)
(* deref: the blob was uploaded, or dropped by the tree.  The segment of   *)
(* the last reference is queued for deletion unless it is still open: then *)
(* nothing remembers it.                                                   *)
(***************************************************************************)
Deref(b) ==
  /\ op[b] = "kept" /\ ~(QuietCommit /\ Committing)
  /\ LET n     == loc[b].seg
         last  == live[n] = 1
         inUse == n = open.seq /\ open.buf # <<>>
     IN /\ live' = [live EXCEPT ![n] = @ - 1]
        /\ dead' = IF last /\ ~inUse THEN dead \cup {n} ELSE dead
        /\ excused' = IF last /\ inUse THEN excused \cup {n} ELSE excused
  /\ loc' = [loc EXCEPT ![b] = None]
  /\ op' = [op EXCEPT ![b] = "gone"]
  /\ UNCHANGED <<bucket, journal, open, next, undurable, gate, ck, used, external>>

(***************************************************************************)
(* read: the bytes a locator leads to, None for an error.                  *)
(***************************************************************************)
Bytes(segment, at) == IF segment # None /\ at \in DOMAIN segment THEN segment[at] ELSE None

Read(l) ==
  IF open.buf # <<>> /\ l.seg = open.seq
  THEN Bytes(open.buf, l.at)
  ELSE Bytes(bucket[l.seg], l.at)
-----------------------------------------------------------------------------
(***************************************************************************)
(* The checkpoint of the backend, as far as the spill store takes part:    *)
(* flush(), the snapshot of the table in the same turn, the commit, and    *)
(* sweep_after_checkpoint().                                               *)
(***************************************************************************)
StartCheckpoint ==
  /\ op[Ck] = "off" /\ used.checkpoints < MaxCheckpoints
  /\ Enter(Ck, "flush")
  /\ used' = [used EXCEPT !.checkpoints = @ + 1]
  /\ UNCHANGED <<bucket, journal, open, next, undurable, live, dead, loc, ck, excused, external>>

Snapshot == [NoCk EXCEPT !.snap = [b \in Blobs |-> IF op[b] = "kept" THEN loc[b] ELSE None]]

Flush ==
  /\ Runs(Ck, "flush")
  /\ IF open.buf = <<>> THEN UNCHANGED <<bucket, undurable, open>> ELSE Flushed
  /\ Leave(Ck, "commit") /\ ck' = Snapshot
  /\ UNCHANGED <<journal, next, live, dead, loc, excused, used, external>>

FlushFails ==
  /\ Runs(Ck, "flush") /\ open.buf # <<>> /\ MayFail
  /\ Leave(Ck, "off") /\ Fails
  /\ UNCHANGED <<bucket, journal, open, next, undurable, live, dead, loc, ck, excused, external>>

\* The superblock lands, and the checkpoint asks for the gate again.
Commit ==
  /\ op[Ck] = "commit"
  /\ table' = ck.snap /\ known' = known \cup SegsOf(ck.snap)
  /\ Enter(Ck, "sweep")
  /\ UNCHANGED <<bucket, journal, open, next, undurable, live, dead, loc, ck, excused, used>>

CommitFails ==
  /\ op[Ck] = "commit" /\ MayFail
  /\ op' = [op EXCEPT ![Ck] = "off"] /\ Fails
  /\ UNCHANGED <<bucket, journal, open, next, undurable, live, dead, gate, loc, ck, excused,
                 external>>

(***************************************************************************)
(* sweep_after_checkpoint: every undurable segment leaves the list, also   *)
(* one that was PUT after the snapshot; then the dead segments are removed *)
(* one by one, and the journal is rewritten for the open segment or        *)
(* removed.  Removal goes on after an error.                               *)
(***************************************************************************)
SweepStart ==
  /\ Runs(Ck, "sweep")
  /\ excused' = excused \cup (undurable \ known)
  /\ undurable' = {}
  /\ ck' = [ck EXCEPT !.left = dead]
  /\ op' = [op EXCEPT ![Ck] = "remove"]
  /\ UNCHANGED <<bucket, journal, open, next, live, dead, gate, loc, used, external>>

SweepRemove(n) ==
  /\ op[Ck] = "remove" /\ n \in ck.left
  /\ ck' = [ck EXCEPT !.left = @ \ {n}]
  /\ \/ bucket' = [bucket EXCEPT ![n] = None] /\ UNCHANGED <<excused, used>>
     \/ MayFail /\ Fails /\ excused' = excused \cup {n} /\ UNCHANGED bucket
  /\ UNCHANGED <<journal, open, next, undurable, live, dead, gate, op, loc, external>>

\* The list is cleared, with what a deref appended while the loop was suspended.
SweepClear ==
  /\ op[Ck] = "remove" /\ ck.left = {}
  /\ dead' = {}
  /\ op' = [op EXCEPT ![Ck] = "shrink"]
  /\ UNCHANGED <<bucket, journal, open, next, undurable, live, gate, loc, ck, excused, used,
                 external>>

SweepShrink ==
  /\ op[Ck] = "shrink"
  /\ \/ journal' = (IF open.buf = <<>> THEN {} ELSE Journalled) /\ UNCHANGED used
     \/ MayFail /\ Fails /\ UNCHANGED journal
  /\ Leave(Ck, "off") /\ ck' = NoCk
  /\ UNCHANGED <<bucket, open, next, undurable, live, dead, loc, excused, external>>
-----------------------------------------------------------------------------
(***************************************************************************)
(* The process dies: a PUT under way may have landed.  The reopen replays  *)
(* add_live for the committed table, and gc_orphans deletes the journaled  *)
(* segments nothing references, then the journal; any removal may fail.    *)
(***************************************************************************)
Landed ==
  IF op[Head(gate)] = "put" \/ (op[Head(gate)] = "flush" /\ open.buf # <<>>)
  THEN {bucket, [bucket EXCEPT ![open.seq] = open.buf]}
  ELSE {bucket}

\* A journal write or removal under way.
JournalLanded ==
  CASE op[Head(gate)] = "journal"                   -> {journal, Journalled}
    [] op[Head(gate)] = "shrink" /\ open.buf = <<>> -> {journal, {}}
    [] op[Head(gate)] = "shrink" /\ open.buf # <<>> -> {journal, Journalled}
    [] OTHER                                        -> {journal}

\* gc_orphans
Orphans(j) == j \ SegsOf(table)

\* restore_next_segment_seq, for the table and the journal
NextSeq(j) ==
  LET seen == SegsOf(table) \cup j
  IN  IF seen = {} THEN 1 ELSE (CHOOSE n \in seen : \A m \in seen : m <= n) + 1

Crash ==
  /\ used.crashes < MaxCrashes
  /\ used' = [used EXCEPT !.crashes = @ + 1]
  /\ \E objects \in IF gate = <<>> THEN {bucket} ELSE Landed,
        j \in IF gate = <<>> THEN {journal} ELSE JournalLanded :
     \E failed \in IF MayFail THEN SUBSET Orphans(j) ELSE {{}} :
       /\ bucket' = [n \in Segs |-> IF n \in Orphans(j) \ failed THEN None ELSE objects[n]]
       /\ excused' = excused \cup failed
       /\ next' = NextSeq(j)
  /\ journal' = {}
  /\ open' = ClosedSeg /\ undurable' = {} /\ dead' = {}
  /\ live' = Lives(table) /\ loc' = table /\ ck' = NoCk /\ gate' = <<>>
  /\ op' = [p \in Blobs \cup {Ck} |-> IF p # Ck /\ table[p] # None THEN "kept" ELSE "off"]
  /\ UNCHANGED external

Next ==
  \/ \E b \in Blobs :
       \/ Spill(b) \/ SpillStart(b) \/ SpillJournaled(b) \/ SpillJournalFails(b)
       \/ SpillPut(b) \/ SpillPutFails(b) \/ Deref(b)
  \/ StartCheckpoint \/ Flush \/ FlushFails \/ Commit \/ CommitFails
  \/ SweepStart \/ (\E n \in Segs : SweepRemove(n)) \/ SweepClear \/ SweepShrink
  \/ Crash

Spec == Init /\ [][Next]_vars
-----------------------------------------------------------------------------
(***************************************************************************)
(* Properties.                                                             *)
(***************************************************************************)
Locs == [Blobs -> [seg : Segs, at : Nat] \cup {None}]

\* Every variable ranges over the values the code's fields can hold.
TypeOK ==
  /\ bucket \in [Segs -> Seq(Blobs) \cup {None}] /\ journal \subseteq Segs
  /\ open \in [seq : Segs \cup {0}, buf : Seq(Blobs), journaled : BOOLEAN]
  /\ next \in 1 .. MaxSegs + 1 /\ undurable \subseteq Segs /\ dead \subseteq Segs
  /\ live \in [Segs -> Nat] /\ gate \in Seq(Blobs \cup {Ck})
  /\ op \in [Blobs \cup {Ck} -> {"off", "spill", "journal", "put", "kept", "gone", "flush",
                                 "commit", "sweep", "remove", "shrink"}]
  /\ loc \in Locs /\ table \in Locs /\ ck \in [snap : Locs, left : SUBSET Segs]
  /\ known \subseteq Segs /\ excused \subseteq Segs
  /\ used \in [checkpoints : Nat, failures : Nat, crashes : Nat]

(***************************************************************************)
(* A locator the residency table holds reads back the bytes of its blob,   *)
(* from the open segment or from the bucket: an append never goes into a   *)
(* buffer that a suspended flush is about to clear, and a referenced       *)
(* segment is never deleted.  (the comment on the gate, spill_blob)        *)
(***************************************************************************)
LocatorReads == \A b \in Blobs : op[b] = "kept" => Read(loc[b]) = b

(***************************************************************************)
(* Whatever the committed table references is in the bucket, so the reopen *)
(* after a crash at any point finds every byte.  (flush() before the       *)
(* snapshot, deletion deferred to the sweep, add_live before gc_orphans)   *)
(***************************************************************************)
CommittedInBucket ==
  \A b \in Blobs : table[b] # None => Bytes(bucket[table[b].seg], table[b].at) = b

\* Now, and after a crash at any point, every spilled blob can be read.
BytesReachable == LocatorReads /\ CommittedInBucket

(***************************************************************************)
(* A crash leaves no segment that nothing can find: an object in the       *)
(* bucket is named by the journal, or a committed table knew it once, or   *)
(* one of these happened to it: its PUT failed under spill_blob, its last  *)
(* reference died while it was open, it was PUT between a snapshot and the *)
(* sweep of that checkpoint, or its removal failed.                        *)
(***************************************************************************)
NoLostOrphan ==
  \A n \in Segs : bucket[n] # None => n \in journal \cup known \cup excused

=============================================================================
