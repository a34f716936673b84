----------------------------- MODULE PackedFile -----------------------------
(***************************************************************************)
(* The single-file storage backend (packed_file_backend_t) with its cache  *)
(* tier: one file of blobs, a free list, a residency table, a spill area   *)
(* in the destination bucket, and checkpoints whose superblock write is    *)
(* the commit point.                                                       *)
(*                                                                         *)
(* All of it runs on one storage loop, so an action is what runs between   *)
(* two co_awaits.  The coroutines that interleave are the blob writes, the *)
(* spill pass (pass), the checkpoint (ck), tracked local reads and the     *)
(* notes of the uploader.  Crash kills the process and reopens the file.   *)
(*                                                                         *)
(* Abstractions.  Every blob has size one, so the allocator is a set of    *)
(* free slots (BlobAllocator models first-fit and coalescing).  The five   *)
(* metadata blobs of a checkpoint are allocated, written and superseded    *)
(* together: one slot holding Meta.  A spill locator is a segment plus the *)
(* bytes it designates, and whether an append reaches the segment target   *)
(* is a choice.  A crash kills the process; it does not lose or reorder    *)
(* completed writes.  A batch of writes is one blob; what runs between two *)
(* blobs of a batch are steps of others.                                   *)
(***************************************************************************)
EXTENDS BlobResidency, Integers, Sequences

CONSTANTS
  Blobs,           \* data blobs; each stands for its own bytes
  Meta,            \* the bytes of a checkpoint's metadata
  NoSlot,          \* "no location"
  Cap,             \* cache_max_bytes in blobs (0: no cap)
  HasSpill,        \* enable_spill() was called
  Uploadable,      \* blobs the uploader ships
  Discardable,     \* blobs the tree may drop again
  Readable,        \* blobs somebody reads
  Failing,         \* blobs whose write may fail outright
  FreeUntracked,   \* whether it may drop one that is neither uploaded nor spilled
  CleanShutdown,   \* whether an orderly teardown checkpoint can happen
  MaxSegs,         \* bound on the spill segments opened
  MaxCheckpoints,  \* bound on the checkpoints started
  MaxCrashes       \* bound on the crashes

ASSUME PackedFileAssumption ==
  /\ Uploadable \subseteq Blobs /\ Discardable \subseteq Blobs
  /\ Readable \subseteq Blobs /\ Failing \subseteq Blobs
  /\ {HasSpill, FreeUntracked, CleanShutdown} \subseteq BOOLEAN
  /\ Cap \in Nat /\ MaxSegs \in Nat /\ MaxCheckpoints \in Nat /\ MaxCrashes \in Nat
  /\ Hole \notin Blobs /\ Meta \notin Blobs /\ NoSlot \notin Slots \cup Blobs \cup {Hole}
  /\ IsFiniteSet(Slots)

VARIABLES
  file,         \* the bytes at each slot
  free,         \* free slots of the live _blob_manager
  where,        \* the storage_location handed out for each blob
  phase,        \* how far each blob has come
  unwritten,    \* blobs whose write failed: only the host's error callback was told
  table,        \* the residency table
  gen,          \* its generation counter
  resident,     \* its resident-bytes account
  dataBlobs,    \* _data_blobs: every data allocation of this session
  reading,      \* blobs with a tracked local read in flight
  spill,        \* the spill store
  pass,         \* the spill-pass coroutine
  ck,           \* the write_index coroutine
  metaSlot,     \* the _*_location members: metadata of the last checkpoint
  cleanNext,    \* _clean_shutdown_next_checkpoint
  disk,         \* what the committed superblock leads to
  checkpoints,  \* checkpoints started
  crashes       \* crashes so far

vars == <<file, free, where, phase, unwritten, table, gen, resident, dataBlobs, reading,
          spill, pass, ck, metaSlot, cleanNext, disk, checkpoints, crashes>>

Content == Blobs \cup {Hole, Meta}
Location == Slots \cup {NoSlot}
NoLocations == [b \in Blobs |-> NoSlot]

Phases == {"new", "allocated", "diverted", "diverting", "nospace", "written",
           "tree", "discard", "gone"}

\* Blobs whose write_allocated has not returned: their slots are _write_pending.
Writing == {"allocated", "diverted", "diverting", "nospace"}
Pending == {where[b] : b \in {c \in Blobs : phase[c] \in Writing}}
Busy == {where[b] : b \in reading}

(***************************************************************************)
(* Resident-bytes thresholds: soft at 7/8 of the cap, low at 6/8.          *)
(***************************************************************************)
OverSoft(r) == Cap > 0 /\ 8 * r > 7 * Cap
OverHard(r) == Cap > 0 /\ r + 1 > Cap
AboveLow(r) == 8 * r > 6 * Cap
Settle(r, n) == IF n < r THEN r - n ELSE 0

-----------------------------------------------------------------------------
(***************************************************************************)
(* The spill store, at the grain the backend sees: spill.open is the       *)
(* segment being assembled (0: none), spill.put the segments in the        *)
(* bucket, spill.live their live counts, spill.dead those queued for the   *)
(* post-checkpoint sweep.                                                  *)
(***************************************************************************)
Segs == 1 .. MaxSegs
NoSpill == [open |-> 0, next |-> 1, put |-> {}, live |-> [n \in Segs |-> 0], dead |-> {}]
SegmentCapacityLeft == spill.open # 0 \/ spill.next \in Segs

OpenSeg == IF spill.open = 0 THEN spill.next ELSE spill.open

Appended ==
  [spill EXCEPT !.open = OpenSeg,
                !.next = IF spill.open = 0 THEN @ + 1 ELSE @,
                !.live[OpenSeg] = @ + 1]

\* Mutant: the checkpoint does not flush the open segment.
MutFlushed(sp) == sp

Flushed(sp) ==
  IF sp.open = 0 THEN sp ELSE [sp EXCEPT !.open = 0, !.put = @ \cup {sp.open}]

Deref(sp, n) ==
  IF n \notin Segs \/ sp.live[n] = 0 THEN sp
  ELSE [sp EXCEPT !.live[n] = @ - 1,
                  !.dead    = IF sp.live[n] = 1 /\ n # sp.open THEN @ \cup {n} ELSE @]

\* The segment an entry references, 0 for none.
SegOf(e) == IF Spilled(e) THEN e.remote.seg ELSE 0

\* deref for every spilled entry of the slots in F
DerefAll(sp, F) ==
  LET lost(n) == Cardinality({s \in F : SegOf(table[s]) = n})
  IN  [sp EXCEPT !.live = [n \in Segs |-> @[n] - lost(n)],
                 !.dead = @ \cup {n \in Segs : lost(n) > 0 /\ sp.live[n] = lost(n) /\ n # sp.open}]

\* No append holds the spill store's gate while its segment is being PUT.
GateFree == pass.pc # "flush" /\ \A b \in Blobs : phase[b] \notin {"diverting", "nospace"}

SegReadable(sp, n) == n \in sp.put \/ n = sp.open
-----------------------------------------------------------------------------
(***************************************************************************)
(* read_blob: what a read of the blob at slot s returns.                   *)
(***************************************************************************)
Dispatch(e, s, readable) ==
  CASE HasLocalBytes(e)            -> file[s]
    [] e.state = "remote_uploaded" -> e.remote.bytes
    [] e.state = "remote_spilled"  -> IF readable THEN e.remote.bytes ELSE Hole

ReadBytes(b) ==
  LET e == table[where[b]]
  IN  Dispatch(e, where[b], SegReadable(spill, SegOf(e)))

\* What it would return had the process died now and the file been reopened.
RecoveredBytes(b) ==
  LET s == disk.loc[b]
      e == Deserialize(disk.table, disk.clean)[s]
  IN  Dispatch(e, s, SegOf(e) \in spill.put)
-----------------------------------------------------------------------------
PassOff == [pc |-> "off", i |-> 0, bytes |-> Hole, reclaim |-> 0]

(***************************************************************************)
(* The synchronous part of run_spill_pass: from index i downwards, skip    *)
(* tracked and write-pending blobs and stop at the first candidate, unless *)
(* the pass is below the low watermark or out of blobs.  The account is    *)
(* unsigned: once the reclaim promised exceeds it the difference wraps to  *)
(* a huge number, and the pass goes on.  (A set of one: the next state.)   *)
(***************************************************************************)
Scan(data, i, reclaim, t, r, pending) ==
  LET candidates == {j \in 1 .. i : ~Tracked(t[data[j]]) /\ data[j] \notin pending}
      wanted     == r < reclaim \/ AboveLow(r - reclaim)
  IN  IF wanted /\ candidates # {}
      THEN {[pc |-> "read", i |-> j, bytes |-> Hole, reclaim |-> reclaim] :
              j \in {k \in candidates : \A other \in candidates : other <= k}}
      ELSE {PassOff}

Punched(V) == [s \in Slots |-> IF s \in V THEN Hole ELSE file[s]]

(***************************************************************************)
(* run_eviction_pass: victims until the low watermark; a punch may fail or *)
(* be unsupported, which ends the pass early.                              *)
(***************************************************************************)
Victims(t, r) ==
  IF Cap = 0 THEN {{}}
  ELSE {V \in SUBSET Evictable(t, Busy) : V # {} => AboveLow(r - Cardinality(V) + 1)}

(***************************************************************************)
(* maybe_evict, the tail of every handler that adds bytes or remote facts. *)
(***************************************************************************)
MaybeEvict(t, r, data, pending) ==
  \E V \in IF OverSoft(r) THEN Victims(t, r) ELSE {{}} :
    LET left == Settle(r, Cardinality(V)) IN
    /\ table' = Evict(t, V)
    /\ file' = Punched(V)
    /\ resident' = left
    /\ pass' \in IF HasSpill /\ OverSoft(left) /\ pass.pc = "off"
                 THEN Scan(data, Len(data), 0, table', left, pending)
                 ELSE {pass}
-----------------------------------------------------------------------------
IdleCk == [pc |-> "idle", loc |-> NoLocations, freed |-> {}, gen |-> 0, clean |-> FALSE,
           table |-> [s \in Slots |-> NoEntry], meta |-> NoSlot, free |-> {},
           deferred |-> {}, punch |-> {}, resident |-> 0]

NoDisk == [loc |-> NoLocations, table |-> [s \in Slots |-> NoEntry], meta |-> NoSlot,
           free |-> Slots, clean |-> FALSE, resident |-> 0, gen |-> 1]

Init ==
  /\ file = [s \in Slots |-> Hole]
  /\ free = Slots
  /\ where = NoLocations
  /\ phase = [b \in Blobs |-> "new"] /\ unwritten = {}
  /\ table = [s \in Slots |-> NoEntry]
  /\ gen = 1 /\ resident = 0 /\ dataBlobs = <<>> /\ reading = {}
  /\ spill = NoSpill /\ pass = PassOff /\ ck = IdleCk
  /\ metaSlot = NoSlot /\ cleanNext = FALSE /\ disk = NoDisk
  /\ checkpoints = 0 /\ crashes = 0

\* wait_idle is waiting for its clean checkpoint: no blob is allocated or dropped.
Quiescing == cleanNext \/ ck.clean

(***************************************************************************)
(* allocate_blob for a data blob.  Over the hard cap the blob is diverted: *)
(* no local bytes are charged.                                             *)
(***************************************************************************)
Allocate(b) ==
  /\ phase[b] = "new" /\ ~Quiescing
  /\ \E s \in free :
       LET divert == HasSpill /\ OverHard(resident) IN
       /\ free' = free \ {s}
       /\ where' = [where EXCEPT ![b] = s]
       /\ phase' = [phase EXCEPT ![b] = IF divert THEN "diverted" ELSE "allocated"]
       /\ dataBlobs' = Append(dataBlobs, s)
       /\ resident' = IF divert THEN resident ELSE resident + 1
  /\ UNCHANGED <<file, unwritten, table, gen, reading, spill, pass, ck, metaSlot, cleanNext,
                 disk, checkpoints, crashes>>

\* write_allocated, local path: the bytes are in the file.
WriteDone(b) ==
  /\ phase[b] = "allocated"
  /\ file' = [file EXCEPT ![where[b]] = b]
  /\ phase' = [phase EXCEPT ![b] = "written"]
  /\ UNCHANGED <<free, where, unwritten, table, gen, resident, dataBlobs, reading, spill,
                 pass, ck, metaSlot, cleanNext, disk, checkpoints, crashes>>

(***************************************************************************)
(* write_allocated, diverted or after ENOSPC: once spill_blob returns, the *)
(* blob is recorded as born remote and, after ENOSPC, the charge made by   *)
(* allocate_blob is reversed.  An append that leaves the segment below its *)
(* target returns at once; one that fills it (or finds it over the target) *)
(* holds the gate while the segment is PUT.                                *)
(***************************************************************************)
BornRemote(b, charged, sp) ==
  /\ table' = MarkSpilledRemote(table, where[b], gen, Locator(OpenSeg, b))
  /\ resident' = IF charged THEN Settle(resident, 1) ELSE resident
  /\ phase' = [phase EXCEPT ![b] = "written"]
  /\ spill' = sp

SpillWrite(b) ==
  /\ HasSpill /\ SegmentCapacityLeft /\ GateFree
  /\ \/ phase[b] = "allocated" /\ BornRemote(b, TRUE, Appended)
     \/ phase[b] = "diverted" /\ BornRemote(b, FALSE, Appended)
  /\ UNCHANGED <<file, free, where, unwritten, gen, dataBlobs, reading, pass, ck, metaSlot,
                 cleanNext, disk, checkpoints, crashes>>

SpillWriteFills(b) ==
  /\ HasSpill /\ SegmentCapacityLeft /\ GateFree
  /\ phase[b] \in {"allocated", "diverted"}
  /\ spill' = Appended
  /\ phase' = [phase EXCEPT ![b] = IF @ = "diverted" THEN "diverting" ELSE "nospace"]
  /\ UNCHANGED <<file, free, where, unwritten, table, gen, resident, dataBlobs, reading, pass,
                 ck, metaSlot, cleanNext, disk, checkpoints, crashes>>

SpillWriteDone(b) ==
  /\ phase[b] \in {"diverting", "nospace"}
  /\ BornRemote(b, phase[b] = "nospace", Flushed(spill))
  /\ UNCHANGED <<file, free, where, unwritten, gen, dataBlobs, reading, pass, ck, metaSlot,
                 cleanNext, disk, checkpoints, crashes>>

(***************************************************************************)
(* A write error.  do_write posts it to the host and returns as if nothing *)
(* had happened, and nothing else is undone: the slot keeps whatever was   *)
(* there, or part of the blob, it has no entry, and its charge stays.      *)
(***************************************************************************)
Lost(b) ==
  /\ unwritten' = unwritten \cup {b}
  /\ \E bytes \in {file[where[b]], Hole} : file' = [file EXCEPT ![where[b]] = bytes]
  /\ phase' = [phase EXCEPT ![b] = "written"]
  /\ UNCHANGED <<free, where, table, gen, resident, dataBlobs, reading, spill,
                 pass, ck, metaSlot, cleanNext, disk, checkpoints, crashes>>

WriteFails(b) == b \in Failing /\ phase[b] \in {"allocated", "diverted"} /\ Lost(b)

\* The PUT of the filled segment fails: the bytes stay in the segment, and counted.
SpillWriteFails(b) == phase[b] \in {"diverting", "nospace"} /\ Lost(b)

(***************************************************************************)
(* The writes of the batch have returned, well or badly: maybe_evict, and  *)
(* done hands the location on, which the tree refers to from then on.      *)
(***************************************************************************)
HandOn(b) ==
  /\ phase[b] = "written"
  /\ phase' = [phase EXCEPT ![b] = "tree"]
  /\ MaybeEvict(table, resident, dataBlobs, Pending)
  /\ UNCHANGED <<free, where, unwritten, gen, dataBlobs, reading, spill, ck, metaSlot,
                 cleanNext, disk, checkpoints, crashes>>

\* The tree drops a blob: it is freed by the next checkpoint.
Discard(b) ==
  /\ b \in Discardable /\ phase[b] = "tree" /\ ~Quiescing
  /\ FreeUntracked \/ Tracked(table[where[b]])
  /\ phase' = [phase EXCEPT ![b] = "discard"]
  /\ UNCHANGED <<file, free, where, unwritten, table, gen, resident, dataBlobs, reading, spill,
                 pass, ck, metaSlot, cleanNext, disk, checkpoints, crashes>>

(***************************************************************************)
(* read_blob of a tracked blob with local bytes: the read in flight blocks *)
(* a punch until it returns.                                               *)
(***************************************************************************)
StartRead(b) ==
  /\ b \in Readable /\ phase[b] = "tree" /\ b \notin reading
  /\ Tracked(table[where[b]]) /\ HasLocalBytes(table[where[b]])
  /\ reading' = reading \cup {b}
  /\ UNCHANGED <<file, free, where, phase, unwritten, table, gen, resident, dataBlobs, spill,
                 pass, ck, metaSlot, cleanNext, disk, checkpoints, crashes>>

EndRead(b) ==
  /\ b \in reading
  /\ reading' = reading \ {b}
  /\ UNCHANGED <<file, free, where, phase, unwritten, table, gen, resident, dataBlobs, spill,
                 pass, ck, metaSlot, cleanNext, disk, checkpoints, crashes>>

(***************************************************************************)
(* note_blob_uploaded (a committed band put into the bucket what a raw     *)
(* read of the blob returned), then maybe_evict: a spilled blob releases   *)
(* its segment.                                                            *)
(***************************************************************************)
Own(b) == IF b \in unwritten THEN Hole ELSE b

NoteUploaded(b) ==
  /\ b \in Uploadable /\ phase[b] = "tree"
  /\ table[where[b]].state \notin {"local_uploaded", "remote_uploaded"}
  /\ spill' = Deref(spill, SegOf(table[where[b]]))
  /\ MaybeEvict(MarkUploaded(table, where[b], gen, Object(Own(b))), resident, dataBlobs, Pending)
  /\ UNCHANGED <<free, where, phase, unwritten, gen, dataBlobs, reading, ck, metaSlot,
                 cleanNext, disk, checkpoints, crashes>>
-----------------------------------------------------------------------------
(***************************************************************************)
(* The spill pass: the read of the candidate returns, spill_blob appends   *)
(* the bytes, and on its return the blob is looked up again before it is   *)
(* marked; any error ends the pass.                                        *)
(***************************************************************************)
PassRead ==
  /\ pass.pc = "read"
  /\ pass' = [pass EXCEPT !.pc = "put", !.bytes = file[dataBlobs[pass.i]]]
  /\ UNCHANGED <<file, free, where, phase, unwritten, table, gen, resident, dataBlobs, reading,
                 spill, ck, metaSlot, cleanNext, disk, checkpoints, crashes>>

PassMark(sp) ==
  LET s == dataBlobs[pass.i]
      Continue(reclaim, t) == Scan(dataBlobs, pass.i - 1, reclaim, t, resident, Pending)
  IN
  \/ /\ Tracked(table[s])
     /\ spill' = Deref(sp, OpenSeg)
     /\ pass' \in Continue(pass.reclaim, table)
     /\ UNCHANGED table
  \/ /\ ~Tracked(table[s])
     /\ table' = MarkSpilled(table, s, gen, Locator(OpenSeg, pass.bytes))
     /\ pass' \in Continue(pass.reclaim + 1, table')
     /\ spill' = sp

PassPut ==
  /\ pass.pc = "put" /\ SegmentCapacityLeft /\ GateFree
  /\ PassMark(Appended)
  /\ UNCHANGED <<file, free, where, phase, unwritten, gen, resident, dataBlobs, reading, ck, metaSlot,
                 cleanNext, disk, checkpoints, crashes>>

PassPutFills ==
  /\ pass.pc = "put" /\ SegmentCapacityLeft /\ GateFree
  /\ spill' = Appended
  /\ pass' = [pass EXCEPT !.pc = "flush"]
  /\ UNCHANGED <<file, free, where, phase, unwritten, table, gen, resident, dataBlobs, reading, ck,
                 metaSlot, cleanNext, disk, checkpoints, crashes>>

PassPutDone ==
  /\ pass.pc = "flush"
  /\ PassMark(Flushed(spill))
  /\ UNCHANGED <<file, free, where, phase, unwritten, gen, resident, dataBlobs, reading, ck, metaSlot,
                 cleanNext, disk, checkpoints, crashes>>

PassFails ==
  /\ pass.pc # "off"
  /\ pass' = PassOff
  /\ UNCHANGED <<file, free, where, phase, unwritten, table, gen, resident, dataBlobs, reading,
                 spill, ck, metaSlot, cleanNext, disk, checkpoints, crashes>>
-----------------------------------------------------------------------------
(***************************************************************************)
(* write_index.  The tree layer hands over the blobs its registry names    *)
(* (loc) and the blobs it freed; with a spill area the open segment is     *)
(* flushed first, so that every locator the snapshot persists is backed.   *)
(***************************************************************************)
StartCheckpoint ==
  /\ ck.pc = "idle" /\ checkpoints < MaxCheckpoints
  /\ ck' = [IdleCk EXCEPT
       !.pc    = "flush",
       !.loc   = [b \in Blobs |-> IF phase[b] = "tree" THEN where[b] ELSE NoSlot],
       !.freed = {where[b] : b \in {c \in Blobs : phase[c] = "discard"}}]
  /\ phase' = [b \in Blobs |-> IF phase[b] = "discard" THEN "gone" ELSE phase[b]]
  /\ checkpoints' = checkpoints + 1
  /\ UNCHANGED <<file, free, where, unwritten, table, gen, resident, dataBlobs, reading, spill,
                 pass, metaSlot, cleanNext, disk, crashes>>

FlushFails ==
  /\ ck.pc = "flush" /\ GateFree /\ spill.open # 0
  /\ ck' = IdleCk
  /\ UNCHANGED <<file, free, where, phase, unwritten, table, gen, resident, dataBlobs, reading,
                 spill, pass, metaSlot, cleanNext, disk, checkpoints, crashes>>

\* Mutant: the first checkpoint supersedes a metadata range there never was.
MutSuperseded == {metaSlot}

\* The metadata of the last checkpoint, if there was one.
Superseded == IF metaSlot = NoSlot THEN {} ELSE {metaSlot}

(***************************************************************************)
(* The flush returns and the synchronous allocator block runs:             *)
(*  - freed blobs with an entry are forgotten, and their slot never        *)
(*    returns to the allocator; the others, and the superseded metadata,   *)
(*    are unregistered after the commit (rule 2);                          *)
(*  - the new metadata is allocated on the live manager (rule 1);          *)
(*  - the free list written to disk is a copy with the superseded slots    *)
(*    free (rule 3);                                                       *)
(*  - the residency table is snapshotted and its generation advances.      *)
(***************************************************************************)
Snapshot ==
  LET tracked  == {s \in ck.freed : Tracked(table[s])}
      deferred == (ck.freed \ tracked) \cup Superseded
      left     == Settle(resident, Cardinality(ForgetLocal(table, tracked)))
  IN
  /\ ck.pc = "flush" /\ GateFree
  /\ \E m \in free :
       /\ free' = free \ {m}
       /\ ck' = [ck EXCEPT
            !.pc = "write", !.gen = gen, !.clean = cleanNext,
            !.table = Forget(table, tracked), !.resident = left,
            !.meta = m, !.free = free' \cup deferred, !.deferred = deferred,
            !.punch = ForgetPunchable(table, tracked, Busy)]
  /\ spill' = DerefAll(Flushed(spill), tracked)
  /\ table' = Forget(table, tracked)
  /\ resident' = left + 1
  /\ gen' = gen + 1
  /\ cleanNext' = FALSE
  /\ UNCHANGED <<file, where, phase, unwritten, dataBlobs, reading, pass, metaSlot, disk,
                 checkpoints, crashes>>

\* The metadata blobs are written, before the superblock that leads to them.
WriteMetadata ==
  /\ ck.pc = "write"
  /\ file' = [file EXCEPT ![ck.meta] = Meta]
  /\ ck' = [ck EXCEPT !.pc = "superblock"]
  /\ UNCHANGED <<free, where, phase, unwritten, table, gen, resident, dataBlobs, reading, spill,
                 pass, metaSlot, cleanNext, disk, checkpoints, crashes>>

\* Mutant: the rollback also returns the superseded ranges.
MutCheckpointFails ==
  /\ ck.pc \in {"write", "superblock"}
  /\ free' = free \cup {ck.meta} \cup ck.deferred
  /\ resident' = Settle(resident, 1)
  /\ ck' = IdleCk
  /\ UNCHANGED <<file, where, phase, unwritten, table, gen, dataBlobs, reading, spill, pass, metaSlot,
                 cleanNext, disk, checkpoints, crashes>>

\* A write before the commit point fails: rollback_metadata.
CheckpointFails ==
  /\ ck.pc \in {"write", "superblock"}
  /\ free' = free \cup {ck.meta}
  /\ resident' = Settle(resident, 1)
  /\ ck' = IdleCk
  /\ UNCHANGED <<file, where, phase, unwritten, table, gen, dataBlobs, reading, spill,
                 pass, metaSlot, cleanNext, disk, checkpoints, crashes>>

\* Mutant: the superblock does not wait for the metadata writes.
MutWriteSuperblock ==
  /\ ck.pc \in {"write", "superblock"}
  /\ disk' = [loc |-> ck.loc, table |-> ck.table, meta |-> ck.meta, free |-> ck.free,
              clean |-> ck.clean, resident |-> ck.resident, gen |-> ck.gen + 1]
  /\ ck' = [ck EXCEPT !.pc = "committed"]
  /\ UNCHANGED <<file, free, where, phase, unwritten, table, gen, resident, dataBlobs, reading, spill,
                 pass, metaSlot, cleanNext, checkpoints, crashes>>

\* The superblock write lands: the commit point.
WriteSuperblock ==
  /\ ck.pc = "superblock"
  /\ disk' = [loc |-> ck.loc, table |-> ck.table, meta |-> ck.meta, free |-> ck.free,
              clean |-> ck.clean, resident |-> ck.resident, gen |-> ck.gen + 1]
  /\ ck' = [ck EXCEPT !.pc = "committed"]
  /\ UNCHANGED <<file, free, where, phase, unwritten, table, gen, resident, dataBlobs, reading,
                 spill, pass, metaSlot, cleanNext, checkpoints, crashes>>

(***************************************************************************)
(* Its completion resumes write_index: superseded slots become reusable,   *)
(* the snapshotted facts durable, forgotten local bytes are punched (until *)
(* a punch fails).  Without a spill area the eviction pass runs at once.   *)
(***************************************************************************)
Commit ==
  LET durable == CommitDurable(table, ck.gen)
      settled == Settle(resident, Cardinality(ck.deferred))
  IN
  /\ ck.pc = "committed"
  /\ free' = free \cup ck.deferred
  /\ metaSlot' = ck.meta
  /\ \E P \in SUBSET ck.punch :
       IF HasSpill
       THEN /\ table' = durable /\ resident' = settled /\ file' = Punched(P)
            /\ ck' = [ck EXCEPT !.pc = "sweep"]
       ELSE \E V \in IF ck.clean THEN {{}} ELSE Victims(durable, settled) :
              /\ table' = Evict(durable, V)
              /\ resident' = Settle(settled, Cardinality(V))
              /\ file' = Punched(P \cup V)
              /\ ck' = IdleCk
  /\ UNCHANGED <<where, phase, unwritten, gen, dataBlobs, reading, spill, pass, cleanNext,
                 disk, checkpoints, crashes>>

\* sweep_after_checkpoint: delete the segments nothing references.
Sweep ==
  /\ ck.pc = "sweep" /\ GateFree
  /\ spill' = [spill EXCEPT !.put = @ \ spill.dead, !.dead = {}]
  /\ ck' = [ck EXCEPT !.pc = "reclaim"]
  /\ UNCHANGED <<file, free, where, phase, unwritten, table, gen, resident, dataBlobs, reading,
                 pass, metaSlot, cleanNext, disk, checkpoints, crashes>>

(***************************************************************************)
(* The tail of write_index: over the soft watermark, durably spilled blobs *)
(* drop their local bytes; then the eviction pass.  Neither after a clean  *)
(* snapshot.                                                               *)
(***************************************************************************)
Reclaim ==
  /\ ck.pc = "reclaim"
  /\ ck' = IdleCk
  /\ \E D \in IF ~ck.clean /\ OverSoft(resident) THEN SUBSET Droppable(table, Busy) ELSE {{}} :
       LET dropped == DropSpilledLocal(table, D)
           settled == Settle(resident, Cardinality(D))
       IN \E V \in IF ck.clean THEN {{}} ELSE Victims(dropped, settled) :
            /\ table' = Evict(dropped, V)
            /\ resident' = Settle(settled, Cardinality(V))
            /\ file' = Punched(D \cup V)
  /\ UNCHANGED <<free, where, phase, unwritten, gen, dataBlobs, reading, spill, pass,
                 metaSlot, cleanNext, disk, checkpoints, crashes>>

\* wait_idle, between its two checkpoints: everything is written, and the next checkpoint
\* is the clean one.  Its caller waits for that checkpoint: see Quiescing.
SetCleanShutdown ==
  /\ CleanShutdown /\ ~cleanNext
  /\ \A b \in Blobs : phase[b] \notin Writing \cup {"written"}
  /\ ck.pc = "idle" /\ disk.meta # NoSlot
  /\ cleanNext' = TRUE
  /\ UNCHANGED <<file, free, where, phase, unwritten, table, gen, resident, dataBlobs, reading,
                 spill, pass, ck, metaSlot, disk, checkpoints, crashes>>
-----------------------------------------------------------------------------
(***************************************************************************)
(* The process dies and the file is reopened: read_index, the allocator    *)
(* restored from the persisted free list, spill_bootstrap (live counts     *)
(* replayed from the table, unreferenced segments collected).              *)
(***************************************************************************)
Reopened(sp, t) ==
  LET live == [n \in Segs |-> Cardinality({s \in Slots : SegOf(t[s]) = n})]
      used == {n \in Segs : live[n] > 0}
  IN  [open |-> 0, next |-> sp.next, put |-> sp.put \cap used, live |-> live, dead |-> {}]

Crash ==
  /\ crashes < MaxCrashes /\ disk.meta # NoSlot
  /\ crashes' = crashes + 1
  /\ where' = disk.loc
  /\ phase' = [b \in Blobs |-> IF disk.loc[b] = NoSlot THEN "new" ELSE "tree"]
  /\ unwritten' = {b \in unwritten : disk.loc[b] # NoSlot}
  /\ free' = disk.free
  /\ metaSlot' = disk.meta
  /\ table' = Deserialize(disk.table, disk.clean)
  /\ resident' = Settle(disk.resident, Cardinality(DemotedLocal(disk.table, disk.clean)))
  /\ spill' = Reopened(spill, table')
  /\ dataBlobs' = <<>> /\ reading' = {}
  /\ pass' = PassOff /\ ck' = IdleCk /\ cleanNext' = FALSE
  /\ gen' = disk.gen
  /\ UNCHANGED <<file, disk, checkpoints>>

Next ==
  \/ \E b \in Blobs :
       \/ Allocate(b) \/ WriteDone(b) \/ HandOn(b) \/ SpillWrite(b)
       \/ SpillWriteFills(b) \/ SpillWriteDone(b) \/ SpillWriteFails(b) \/ WriteFails(b)
       \/ Discard(b) \/ StartRead(b) \/ EndRead(b) \/ NoteUploaded(b)
  \/ PassRead \/ PassPut \/ PassPutFills \/ PassPutDone \/ PassFails
  \/ StartCheckpoint \/ FlushFails \/ Snapshot \/ WriteMetadata \/ CheckpointFails
  \/ WriteSuperblock \/ Commit \/ Sweep \/ Reclaim \/ SetCleanShutdown
  \/ Crash

Spec == Init /\ [][Next]_vars
-----------------------------------------------------------------------------
(***************************************************************************)
(* Properties.                                                             *)
(***************************************************************************)

Tables == [Slots -> Entry(Content)]

SpillStates ==
  [open : Segs \cup {0}, next : Nat, put : SUBSET Segs, live : [Segs -> Int],
   dead : SUBSET Segs]

PassStates == [pc : {"off", "read", "put", "flush"}, i : Nat, bytes : Content, reclaim : Nat]

CkStates ==
  [pc : {"idle", "flush", "write", "superblock", "committed", "sweep", "reclaim"},
   loc : [Blobs -> Location], freed : SUBSET Slots, gen : Nat, clean : BOOLEAN,
   table : Tables, meta : Location, free : SUBSET Slots, deferred : SUBSET Slots,
   punch : SUBSET Slots, resident : Nat]

Disks ==
  [loc : [Blobs -> Location], table : Tables, meta : Location, free : SUBSET Slots,
   clean : BOOLEAN, resident : Nat, gen : Nat]

\* Every variable ranges over the values the code's fields can hold; a blob that has been
\* allocated has a slot, a spill pass a candidate, a checkpoint past its snapshot metadata.
TypeOK ==
  /\ file \in [Slots -> Content] /\ free \subseteq Slots
  /\ where \in [Blobs -> Location] /\ phase \in [Blobs -> Phases] /\ unwritten \subseteq Blobs
  /\ \A b \in Blobs : phase[b] # "new" => where[b] \in Slots
  /\ table \in Tables /\ gen \in Nat /\ resident \in Nat
  /\ dataBlobs \in Seq(Slots) /\ reading \subseteq Blobs
  /\ spill \in SpillStates
  /\ pass \in PassStates /\ (pass.pc # "off" => pass.i \in DOMAIN dataBlobs)
  /\ ck \in CkStates /\ (ck.pc \notin {"idle", "flush"} => ck.meta \in Slots)
  /\ metaSlot \in Location /\ cleanNext \in BOOLEAN /\ disk \in Disks
  /\ checkpoints \in 0 .. MaxCheckpoints /\ crashes \in 0 .. MaxCrashes

(***************************************************************************)
(* The backend keeps the store's promise: published blobs read back their  *)
(* own bytes through every eviction, spill, punch and sweep, and a crash   *)
(* at any point falls back to exactly the last committed checkpoint.  A    *)
(* blob whose write failed is published and committed all the same: the    *)
(* store promises nothing of what is read of it, and all of it of the      *)
(* others.  (do_write, handle_points_written, write_index, read_index)     *)
(***************************************************************************)
Served(b, bytes) == IF b \in unwritten THEN Hole ELSE bytes

StoreValue == [b \in Blobs |-> IF phase[b] = "tree" THEN Served(b, ReadBytes(b)) ELSE NoSlot]
StoreTaken == [b \in Blobs |-> IF ck.loc[b] = NoSlot THEN NoSlot ELSE Own(b)]
StoreSaved == [b \in Blobs |-> IF disk.loc[b] = NoSlot THEN NoSlot ELSE Served(b, RecoveredBytes(b))]

Store == INSTANCE DurableStore
           WITH None <- NoSlot, Broken <- Hole,
                value <- StoreValue, taken <- StoreTaken, saved <- StoreSaved

Implements == Store!StoreSpec

(***************************************************************************)
(* Rule 2 of write_index: no slot that the committed superblock leads to,  *)
(* its metadata included, is ever in the live free list, so no write can   *)
(* destroy what a crash would fall back to.                                *)
(***************************************************************************)
CommittedSlots == {disk.meta} \cup {disk.loc[b] : b \in Blobs}
CommittedNotFree == CommittedSlots \cap free = {}

\* The superblock is written last: the metadata it leads to is there from then on.
MetadataInPlace == disk.meta # NoSlot => file[disk.meta] = Meta

\* inflight_local_reads: the bytes under a tracked read stay until it returns (and are
\* the blob's, unless its write failed).
TrackedReadIntact == \A b \in reading \ unwritten : file[where[b]] = b

(***************************************************************************)
(* Bytes that somebody relies on stay in place, whatever is written,       *)
(* evicted, punched or freed meanwhile: the metadata the superblock leads  *)
(* to, from the moment it is written, and the bytes under a read that is   *)
(* suspended on them.  (write_index; read_blob with try_evict)             *)
(***************************************************************************)
BytesInPlace == MetadataInPlace /\ TrackedReadIntact

(***************************************************************************)
(* The two-phase rule: a durable fact is in the committed table with the   *)
(* same remote copy, so destroying what it replaces loses nothing.         *)
(***************************************************************************)
DurableIsCommitted ==
  \A s \in Slots : table[s].durable => /\ Tracked(disk.table[s])
                                       /\ disk.table[s].remote = table[s].remote

\* Every locator a committed table persists lies in a segment of the bucket.
LocatorsBacked ==
  \A s \in Slots : Spilled(disk.table[s]) => disk.table[s].remote.seg \in spill.put

(***************************************************************************)
(* A segment's live count covers every entry that references it and the    *)
(* append whose PUT is in flight, so that no deref runs the count out      *)
(* while a locator into the segment is still in use.  (It may exceed them: *)
(* an append whose PUT failed is never dereferenced.)                      *)
(***************************************************************************)
LiveCountsCover ==
  \A n \in Segs :
    spill.live[n] >= Cardinality({s \in Slots : SegOf(table[s]) = n})
                     + (IF ~GateFree /\ n = spill.open THEN 1 ELSE 0)

(***************************************************************************)
(* What is spilled stays reachable: a persisted locator leads into the     *)
(* bucket, and no segment in use can be counted out of it.                 *)
(* (spill_blob, flush, deref, sweep_after_checkpoint)                      *)
(***************************************************************************)
SpillBacked == LocatorsBacked /\ LiveCountsCover

(***************************************************************************)
(* An offset with a residency entry is never in the allocator: through a   *)
(* recycled offset a stale remote copy would shadow the new blob.  Holds   *)
(* as long as only tracked blobs are freed; refuted by stale_spill.        *)
(***************************************************************************)
TrackedNotFree == \A s \in free : ~Tracked(table[s])

(***************************************************************************)
(* A blob of the committed checkpoint reads back its own bytes if the      *)
(* process dies now (unless its write failed).  Part of Implements, by     *)
(* itself: refuted by the run uploaded_before_sweep.                       *)
(***************************************************************************)
CommittedRecoverable ==
  \A b \in Blobs \ unwritten : disk.loc[b] # NoSlot => RecoveredBytes(b) = b
=============================================================================
