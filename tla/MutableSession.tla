--------------------------- MODULE MutableSession ---------------------------
(***************************************************************************)
(* A host works on a mutable dataset: it opens it, declares attributes,    *)
(* hands in values, commits them (commit_attributes, attribute_amend_t)    *)
(* and in the end finalizes.  Its calls are one thread; what they ask for  *)
(* is done by the tree loop, the storage loop and the uploader, while the  *)
(* cache asks for checkpoints of its own.  A crash loses all but the last  *)
(* committed checkpoint and the destination.                               *)
(*                                                                         *)
(* A unit is what a tree's storage map keeps for one node's points: a      *)
(* configuration, which names its attributes, and the location of a blob   *)
(* for each, in the same order.  A location is as good as its blob here    *)
(* (BlobAllocator, PackedFile), a blob is its attribute and its values, or *)
(* nothing where its write failed.                                         *)
(* Input is all in, its LOD pass done: the watermark is terminal.          *)
(***************************************************************************)
EXTENDS AmendJoin

CONSTANTS
  Trees, Root,    \* tree ids, the id of the root tree
  Units,          \* the units, in the order a snapshot lists them: [tree, keys], no keys: no key attribute
  Names,          \* attributes that may be declared: 1 .. n, each first after the one before it
  Batches,        \* what one add_data may hand in: sequences of records
  Minted,         \* trees the first session made itself, by inserting points
  QuietFinalize,  \* no checkpoint is in flight when finalize is called
  MaxCalls,       \* bound: calls of add_attribute, add_data and commit_attributes
  MaxRequests,    \* bound: checkpoints asked for by the cache
  MaxFaults       \* bound: timeouts, failed reads, writes and uploads, crashes

ASSUME MutableSessionAssumption ==
  /\ Root \in Trees /\ Minted \subseteq Trees /\ QuietFinalize \in BOOLEAN
  /\ Units \in Seq([tree : Trees, keys : Seq(Int)])
  /\ Names \subseteq Nat \ {0}
  /\ Batches \subseteq Seq([key : Int, val : Int])
  /\ {MaxCalls, MaxRequests, MaxFaults} \subseteq Nat

VARIABLES
  units,      \* the storage maps of the trees: a unit for each of Units
  trees,      \* tree ids: loaded, requested, dirty, final, banded (tree_band assigned)
  mutable,    \* tree_config.mutable_dataset
  loop,       \* the tasks posted to the tree loop, in order
  loads,      \* trees being read for the registry, with what was read
  chain,      \* the serialize chain
  located,    \* the units of the tree blobs that the registry's locations name
  disk,       \* what the last committed index leads to
  host,       \* the host's call and how far it is
  pending,    \* _pending: the attributes declared and not committed
  uploads,    \* bands enqueued, whether the uploader is parked, and the destination
  given,      \* ghost: what commits joined, [name, file, lost: units whose blob of it was not written]
  told,       \* ghost: names whose commit returned without an error; whether finalize returned
  used        \* how much of each bound is used, how many checkpoints failed and uploaders parked

vars == <<units, trees, mutable, loop, loads, chain, located, disk, host, pending, uploads, given, told, used>>

Slot(name, vals) == [of |-> name, vals |-> vals]
Unwritten == <<>>   \* what is at the place of a blob whose write failed
UnitIds == DOMAIN Units
Xyz == 0 - 2    \* the attributes the dataset was converted with: positions and the key
Key == 0 - 1
BaseUnit(u) ==
  IF Units[u].keys = <<>>
  THEN [config |-> <<Xyz>>, storage |-> <<Slot(Xyz, <<>>)>>]
  ELSE [config |-> <<Xyz, Key>>, storage |-> <<Slot(Xyz, <<>>), Slot(Key, Units[u].keys)>>]
Base == [u \in UnitIds |-> BaseUnit(u)]
UnitsOf(ts) == {u \in UnitIds : Units[u].tree \in ts}
\* f, with the units of the trees ts as in g.
Over(f, ts, g) == [u \in UnitIds |-> IF u \in UnitsOf(ts) THEN g[u] ELSE f[u]]

NoUnits == [u \in {} |-> <<>>]
Idle == [pc |-> "idle", call |-> "none", todo |-> <<>>, attr |-> 0, snap |-> NoUnits, cursor |-> 0,
         slice |-> NoUnits, names |-> {}]
Opening == [Idle EXCEPT !.pc = "resident", !.call = "open"]
Task(kind) == [kind |-> kind, appends |-> NoUnits]
NoChain == [step |-> "off", trees |-> {}, units |-> Base, final |-> {}, mutable |-> FALSE, rerun |-> FALSE,
            commits |-> 0]
NoBands == [queue |-> <<>>, parked |-> FALSE, terminal |-> FALSE, bucket |-> {}, complete |-> FALSE]

\* The registry of a session that finds the checkpoint d: every tree of a
\* mutable dataset is asked for, and only the root of another.
Asked(d) == IF d.mutable THEN Trees ELSE {Root}
Registry(loaded, requested, d, uploaded) ==
  [loaded |-> loaded, requested |-> requested, dirty |-> {}, final |-> d.final, banded |-> uploaded]

Init ==
  /\ disk = [units |-> Base, mutable |-> TRUE, final |-> {}]
  /\ units = Base /\ located = Base /\ mutable = TRUE
  /\ trees = Registry(Minted, Trees \ Minted, disk, {})
  /\ loads = {[tree |-> t, units |-> Base] : t \in Trees \ Minted}
  /\ loop = <<>> /\ chain = NoChain
  /\ host = Opening /\ pending = <<>> /\ uploads = NoBands
  /\ given = {} /\ told = [names |-> {}, finalized |-> FALSE]
  /\ used = [calls |-> 0, requests |-> 0, faults |-> 0, chain |-> 0, parks |-> 0]

Called == used.calls < MaxCalls /\ used' = [used EXCEPT !.calls = @ + 1]
Fault == used.faults < MaxFaults /\ used' = [used EXCEPT !.faults = @ + 1]
-----------------------------------------------------------------------------
(***************************************************************************)
(* The calls that only buffer.                                             *)
(***************************************************************************)
Declared == {pending[i].name : i \in DOMAIN pending}

AddAttribute(n) ==
  /\ n = 1 \/ n - 1 \in Declared \cup {g.name : g \in given}
  /\ host.pc = "idle" /\ mutable /\ n \notin Declared /\ Called
  /\ pending' = Append(pending, [name |-> n, file |-> <<>>, late |-> <<>>, open |-> TRUE])
  /\ UNCHANGED <<units, trees, mutable, loop, loads, chain, located, disk, host, uploads, given, told>>

\* Once a commit has closed the spill file, records only reach its buffer.
AddData(i, batch) ==
  /\ host.pc = "idle" /\ Called
  /\ pending' = IF pending[i].open THEN [pending EXCEPT ![i].file = @ \o batch]
                                   ELSE [pending EXCEPT ![i].late = @ \o batch]
  /\ UNCHANGED <<units, trees, mutable, loop, loads, chain, located, disk, host, uploads, given, told>>
-----------------------------------------------------------------------------
(***************************************************************************)
(* commit_attributes, on the host's thread.                                *)
(***************************************************************************)
CommitAttributes ==
  /\ host.pc = "idle" /\ pending # <<>> /\ mutable /\ Called
  /\ host' = [Idle EXCEPT !.pc = "resident", !.call = "commit"]
  /\ loop' = Append(loop, Task("load"))
  /\ UNCHANGED <<units, trees, mutable, loads, chain, located, disk, pending, uploads, given, told>>

\* The host polls until every tree it asked for is resident.
Resident ==
  /\ host.pc = "resident" /\ Asked([mutable |-> mutable]) \subseteq trees.loaded
  /\ host' = IF host.call = "open" THEN Idle ELSE [host EXCEPT !.pc = "attribute"]
  /\ UNCHANGED <<units, trees, mutable, loop, loads, chain, located, disk, pending, uploads, given, told, used>>

Quiesce == <<"emissions", "drain", "settle">>

\* The next attribute: its spill file is flushed and closed, and the units are
\* asked for. A file closed by an earlier commit has nothing left to flush, or
\* cannot be flushed any more.
NextAttribute ==
  LET i == host.attr + 1 IN
  /\ host.pc = "attribute" /\ i <= Len(pending)
  /\ IF pending[i].late # <<>>
     THEN host' = Idle /\ UNCHANGED <<pending, loop, given>>
     ELSE /\ host' = [host EXCEPT !.attr = i, !.pc = "snapshot"]
          /\ pending' = [pending EXCEPT ![i].open = FALSE]
          /\ loop' = Append(loop, Task("snapshot"))
          /\ given' = given \cup {[name |-> pending[i].name, file |-> pending[i].file, lost |-> {}]}
  /\ UNCHANGED <<units, trees, mutable, loads, chain, located, disk, uploads, told, used>>

\* No attribute is left: what was declared is dropped, and made durable.
Joined ==
  /\ host.pc = "attribute" /\ host.attr = Len(pending)
  /\ pending' = <<>>
  /\ host' = [Idle EXCEPT !.pc = "plan", !.call = "commit", !.names = Declared,
                          !.todo = <<"checkpoint">> \o Quiesce]
  /\ UNCHANGED <<units, trees, mutable, loop, loads, chain, located, disk, uploads, given, told, used>>

HasAttribute(unit, n) == n \in ToSet(unit.config)
KeysOf(unit) ==
  LET at == {i \in DOMAIN unit.config : unit.config[i] = Key}
  IN  IF at = {} THEN <<>> ELSE unit.storage[Min(at)].vals

\* Units that have the attribute already, or lack the key, are passed over.
Amendable(unit, n) == ~HasAttribute(unit, n) /\ KeysOf(unit) # <<>>

\* Where the slice that starts after from is full, or the last unit.
SliceEnd(snap, from, n) ==
  LET points == [u \in DOMAIN snap |-> IF Amendable(snap[u], n) THEN Len(KeysOf(snap[u])) ELSE 0]
      full   == {k \in DOMAIN snap :
                   k > from /\ SumFunctionOnSet(points, {u \in DOMAIN snap : from < u /\ u <= k}) >= PassPoints}
  IN  Min(full \cup {Len(Units)})

Current == pending[host.attr]
Rest == LET end == SliceEnd(host.snap, host.cursor, Current.name)
        IN  {u \in DOMAIN host.snap : host.cursor < u /\ u <= end /\ Amendable(host.snap[u], Current.name)}

\* The files of n calls; the join of each the host can have written with each key.
Written[n \in 0 .. MaxCalls] == IF n = 0 THEN {<<>>} ELSE {file \o batch : file \in Written[n - 1], batch \in Batches}
Files == UNION {Written[n] : n \in 0 .. MaxCalls}
Keys == UNION {ToSet(Units[u].keys) : u \in UnitIds}
Join == [file \in Files |->
           LET records == InKeyOrder(file) IN [key \in Keys |-> Landed(records, key)]]

Scanned == \A u \in DOMAIN host.snap : u <= host.cursor

\* config_with_attribute_appended, and the blob of the joined values.
Amended(unit) ==
  LET keys == KeysOf(unit)
  IN  [config |-> Append(unit.config, Current.name),
       slot   |-> Slot(Current.name, [p \in DOMAIN keys |-> Join[Current.file][keys[p]]])]

\* A slice: its keys are read, its values joined, its blobs on their way.
Slice ==
  /\ host.pc = "slice"
  /\ IF Scanned
     THEN host' = [host EXCEPT !.pc = "attribute"]
     ELSE host' = [host EXCEPT !.cursor = SliceEnd(host.snap, host.cursor, Current.name),
                               !.pc = IF Rest = {} THEN "slice" ELSE "write",
                               !.slice = [u \in Rest |-> Amended(host.snap[u])]]
  /\ UNCHANGED <<units, trees, mutable, loop, loads, chain, located, disk, pending, uploads, given, told, used>>

\* A key blob or the values cannot be read, or a job of the pool fails while
\* the slice is written: the commit ends there.
SliceFails ==
  /\ host.pc = "write" \/ (host.pc = "slice" /\ ~Scanned /\ Rest # {})
  /\ Fault
  /\ host' = Idle
  /\ UNCHANGED <<units, trees, mutable, loop, loads, chain, located, disk, pending, uploads, given, told>>

\* A blob of the slice cannot be written. do_write only posts the error, so the
\* slice goes on with the place of a blob that has no bytes.
BlobLost ==
  /\ host.pc = "write" /\ Fault
  /\ \E u \in DOMAIN host.slice :
       /\ host' = [host EXCEPT !.slice[u].slot.vals = Unwritten]
       /\ given' = given \cup {[name |-> Current.name, file |-> Current.file, lost |-> {u}]}
  /\ UNCHANGED <<units, trees, mutable, loop, loads, chain, located, disk, pending, uploads, told>>

\* The storage loop is through with the blobs (do_write_attributes).
WriteAttributes ==
  /\ host.pc = "write"
  /\ host' = [host EXCEPT !.pc = "append", !.slice = NoUnits]
  /\ loop' = Append(loop, [Task("append") EXCEPT !.appends = host.slice])
  /\ UNCHANGED <<units, trees, mutable, loads, chain, located, disk, pending, uploads, given, told, used>>

\* The tree loop does not answer in time: the host goes on without its task,
\* which runs all the same, but nobody takes the answer.
TimesOut ==
  /\ host.pc \in {"snapshot", "append", "clear"} /\ Fault
  /\ IF host.pc = "clear"
     THEN mutable' = FALSE /\ host' = [host EXCEPT !.pc = "plan"]
     ELSE host' = Idle /\ UNCHANGED mutable
  /\ loop' = [i \in DOMAIN loop |-> IF loop[i].kind = "snapshot" THEN Task("unheard") ELSE loop[i]]
  /\ UNCHANGED <<units, trees, loads, chain, located, disk, pending, uploads, given, told>>
-----------------------------------------------------------------------------
(***************************************************************************)
(* finalize, and what both calls wait for in the end (wait_idle).          *)
(***************************************************************************)
Quiet == chain.step = "off" /\ \A i \in DOMAIN loop : loop[i].kind # "checkpoint"

\* Mutant: the flag is cleared after the checkpoint.
MutFinalize ==
  /\ host.pc = "idle" /\ ~told.finalized /\ (QuietFinalize => Quiet)
  /\ host' = [Idle EXCEPT !.pc = "plan", !.call = "finalize", !.todo = <<"checkpoint", "clear">> \o Quiesce]
  /\ UNCHANGED <<units, trees, mutable, loop, loads, chain, located, disk, pending, uploads, given, told, used>>

Finalize ==
  /\ host.pc = "idle" /\ ~told.finalized /\ (QuietFinalize => Quiet)
  /\ host' = [Idle EXCEPT !.pc = "plan", !.call = "finalize", !.todo = <<"clear", "checkpoint">> \o Quiesce]
  /\ UNCHANGED <<units, trees, mutable, loop, loads, chain, located, disk, pending, uploads, given, told, used>>

Doing(step) == host.pc = "plan" /\ host.todo # <<>> /\ Head(host.todo) = step
Goes(pc) == host' = [host EXCEPT !.pc = pc, !.todo = Tail(@)]

Post ==
  /\ \/ Doing("clear") /\ Goes("clear") /\ loop' = Append(loop, Task("clear"))
     \/ Doing("checkpoint") /\ Goes("round") /\ loop' = Append(loop, Task("checkpoint"))
  /\ UNCHANGED <<units, trees, mutable, loads, chain, located, disk, pending, uploads, given, told, used>>

Drained == uploads.parked \/ uploads.queue = <<>>

\* A session without a commit has nothing to settle.
Settled == IF chain.commits > 0 THEN <<"checkpoint", "checkpoint">> ELSE <<>>

Wait ==
  /\ \/ Doing("emissions") /\ chain.step # "emit" /\ Goes("plan")
     \/ Doing("drain") /\ Drained /\ Goes("plan")
     \/ Doing("settle") /\ host' = [host EXCEPT !.todo = Settled]
  /\ UNCHANGED <<units, trees, mutable, loop, loads, chain, located, disk, pending, uploads, given, told, used>>

Return ==
  /\ host.pc = "plan" /\ host.todo = <<>>
  /\ host' = Idle
  /\ told' = [names |-> told.names \cup host.names, finalized |-> told.finalized \/ host.call = "finalize"]
  /\ UNCHANGED <<units, trees, mutable, loop, loads, chain, located, disk, pending, uploads, given, used>>
-----------------------------------------------------------------------------
(***************************************************************************)
(* The tree loop: its tasks, and the serialize chain.                      *)
(***************************************************************************)
\* launch_serialize_chain on the registry ts: with the trees' dirty flags, in
\* one step; a chain in flight runs again. Nothing is final in a mutable dataset.
LaunchChain(c, ts) ==
  IF c.step # "off"
  THEN chain' = [c EXCEPT !.rerun = TRUE] /\ trees' = ts
  ELSE /\ chain' = [c EXCEPT !.step = "trees", !.trees = ts.dirty, !.units = units, !.rerun = FALSE]
       /\ trees' = [ts EXCEPT !.dirty = {}, !.final = IF mutable THEN @ ELSE @ \cup ts.loaded]

\* append_storage
Appended(unit, append) == [config |-> append.config, storage |-> Append(unit.storage, append.slot)]

Snapshot == [u \in UnitsOf(trees.loaded) |-> units[u]]

\* The units the task at the head of the loop appends to: those it names, in trees that are loaded.
Landing == DOMAIN Head(loop).appends \cap UnitsOf(trees.loaded)
AllLanded == [u \in UnitIds |-> IF u \in Landing THEN Appended(units[u], Head(loop).appends[u]) ELSE units[u]]

HandleLoad ==
  /\ Head(loop).kind = "load"
  /\ LET missing == Trees \ trees.requested
     IN  /\ trees' = [trees EXCEPT !.requested = Trees]
         /\ loads' = loads \cup {[tree |-> t, units |-> located] : t \in missing}
  /\ UNCHANGED <<units, mutable, chain, host>>

HandleSnapshot ==
  /\ Head(loop).kind = "snapshot"
  /\ host' = [host EXCEPT !.pc = "slice", !.snap = Snapshot, !.cursor = 0]
  /\ UNCHANGED <<units, trees, mutable, loads, chain>>

\* Mutant: the trees are not marked dirty.
MutHandleAppend ==
  /\ Head(loop).kind = "append"
  /\ units' = AllLanded
  /\ host' = IF host.pc = "append" THEN [host EXCEPT !.pc = "slice"] ELSE host
  /\ UNCHANGED <<trees, mutable, loads, chain>>

HandleAppend ==
  /\ Head(loop).kind = "append"
  /\ units' = AllLanded
  /\ trees' = [trees EXCEPT !.dirty = @ \cup {Units[u].tree : u \in Landing}]
  /\ host' = IF host.pc = "append" THEN [host EXCEPT !.pc = "slice"] ELSE host
  /\ UNCHANGED <<mutable, loads, chain>>

HandleClear ==
  /\ Head(loop).kind = "clear"
  /\ mutable' = FALSE
  /\ host' = IF host.pc = "clear" THEN [host EXCEPT !.pc = "plan"] ELSE host
  /\ UNCHANGED <<units, trees, loads, chain>>

HandleUnheard ==
  /\ Head(loop).kind = "unheard"
  /\ UNCHANGED <<units, trees, mutable, loads, chain, host>>

HandleCheckpoint ==
  /\ Head(loop).kind = "checkpoint"
  /\ LaunchChain(chain, trees)
  /\ UNCHANGED <<units, mutable, loads, host>>

TreeLoop ==
  /\ loop # <<>> /\ loop' = Tail(loop)
  /\ HandleLoad \/ HandleSnapshot \/ HandleAppend \/ HandleClear \/ HandleUnheard \/ HandleCheckpoint
  /\ UNCHANGED <<located, disk, pending, uploads, given, told, used>>

\* A tree that was read takes the place of whatever the registry has.
DeserializeTree ==
  \E load \in loads :
    /\ loads' = loads \ {load}
    /\ units' = Over(units, {load.tree}, load.units)
    /\ trees' = [trees EXCEPT !.loaded = @ \cup {load.tree}, !.dirty = @ \ {load.tree}]
    /\ UNCHANGED <<mutable, loop, chain, located, disk, host, pending, uploads, given, told, used>>

\* Storage is short and nothing can be evicted.
CachePressure ==
  /\ used.requests < MaxRequests /\ (QuietFinalize => host.call # "finalize")
  /\ used' = [used EXCEPT !.requests = @ + 1]
  /\ loop' = Append(loop, Task("checkpoint"))
  /\ UNCHANGED <<units, trees, mutable, loads, chain, located, disk, host, pending, uploads, given, told>>

\* The trees are written; the registry is serialized as it now is.
TreesWritten ==
  /\ chain.step = "trees"
  /\ located' = Over(located, chain.trees, chain.units)
  /\ chain' = [chain EXCEPT !.step = "index", !.units = located', !.final = trees.final, !.mutable = mutable]
  /\ UNCHANGED <<units, trees, mutable, loop, loads, disk, host, pending, uploads, given, told, used>>

IndexCommitted ==
  /\ chain.step = "index"
  /\ disk' = [units |-> chain.units, mutable |-> chain.mutable, final |-> chain.final]
  /\ chain' = [chain EXCEPT !.step = "emit", !.commits = @ + 1]
  /\ UNCHANGED <<units, trees, mutable, loop, loads, located, host, pending, uploads, given, told, used>>

\* Trees that could not be written turn dirty again; an index that could not
\* needs no repair, the registry has the new trees.
ChainFails ==
  /\ chain.step \in {"trees", "index"} /\ used.faults < MaxFaults
  /\ used' = [used EXCEPT !.faults = @ + 1, !.chain = @ + 1]
  /\ chain' = [chain EXCEPT !.step = "failed"]
  /\ trees' = IF chain.step = "trees" THEN [trees EXCEPT !.dirty = @ \cup chain.trees] ELSE trees
  /\ UNCHANGED <<units, mutable, loop, loads, located, disk, host, pending, uploads, given, told>>

\* emit_band_job, which every commit ends with: the trees final and in no band,
\* or none of them if the terminal band is still to come.
Band == [trees |-> trees.final \ trees.banded,
         emit  |-> ~mutable /\ (trees.final \ trees.banded # {} \/ ~uploads.terminal)]

\* Mutant: only a chain that committed wakes the host.
MutEndChain ==
  /\ chain.step \in {"emit", "failed"}
  /\ LET ships == chain.step = "emit" /\ Band.emit
         after == IF ships THEN [trees EXCEPT !.banded = @ \cup Band.trees] ELSE trees
         off   == [chain EXCEPT !.step = "off"]
     IN  /\ uploads' = IF ships THEN [uploads EXCEPT !.queue = Append(@, Band.trees), !.terminal = TRUE] ELSE uploads
         /\ IF chain.rerun THEN LaunchChain(off, after) ELSE chain' = off /\ trees' = after
  /\ host' = IF host.pc = "round" /\ chain.step = "emit" THEN [host EXCEPT !.pc = "plan"] ELSE host
  /\ UNCHANGED <<units, mutable, loop, loads, located, disk, pending, given, told, used>>

\* The chain is over: the host that waits for a round goes on, a rerun starts.
EndChain ==
  /\ chain.step \in {"emit", "failed"}
  /\ LET ships == chain.step = "emit" /\ Band.emit
         after == IF ships THEN [trees EXCEPT !.banded = @ \cup Band.trees] ELSE trees
         off   == [chain EXCEPT !.step = "off"]
     IN  /\ uploads' = IF ships THEN [uploads EXCEPT !.queue = Append(@, Band.trees), !.terminal = TRUE] ELSE uploads
         /\ IF chain.rerun THEN LaunchChain(off, after) ELSE chain' = off /\ trees' = after
  /\ host' = IF host.pc = "round" THEN [host EXCEPT !.pc = "plan"] ELSE host
  /\ UNCHANGED <<units, mutable, loop, loads, located, disk, pending, given, told, used>>
-----------------------------------------------------------------------------
(***************************************************************************)
(* The uploader (UploadHandler), a crash and the next session.             *)
(***************************************************************************)
BandUploaded ==
  /\ uploads.queue # <<>> /\ ~uploads.parked
  /\ uploads' = [uploads EXCEPT !.queue = Tail(@), !.bucket = @ \cup Head(uploads.queue), !.complete = TRUE]
  /\ UNCHANGED <<units, trees, mutable, loop, loads, chain, located, disk, host, pending, given, told, used>>

UploadParks ==
  /\ uploads.queue # <<>> /\ ~uploads.parked /\ used.faults < MaxFaults
  /\ used' = [used EXCEPT !.faults = @ + 1, !.parks = @ + 1]
  /\ uploads' = [uploads EXCEPT !.parked = TRUE]
  /\ UNCHANGED <<units, trees, mutable, loop, loads, chain, located, disk, host, pending, given, told>>

Crash ==
  /\ Fault
  /\ units' = disk.units /\ located' = disk.units /\ mutable' = disk.mutable
  /\ trees' = Registry({}, Asked(disk), disk, uploads.bucket)
  /\ loads' = {[tree |-> t, units |-> disk.units] : t \in Asked(disk)}
  /\ loop' = <<>> /\ chain' = NoChain
  /\ host' = Opening /\ pending' = <<>>
  /\ uploads' = [uploads EXCEPT !.queue = <<>>, !.parked = FALSE, !.terminal = uploads.complete]
  /\ UNCHANGED <<disk, given, told>>
-----------------------------------------------------------------------------
Calls == \/ \E n \in Names : AddAttribute(n)
         \/ \E i \in DOMAIN pending, batch \in Batches : AddData(i, batch)
         \/ CommitAttributes \/ Finalize
Host == Resident \/ NextAttribute \/ Joined \/ Slice \/ Post \/ Wait \/ Return
Chain == TreesWritten \/ IndexCommitted \/ EndChain
System == Host \/ WriteAttributes \/ TreeLoop \/ DeserializeTree \/ Chain \/ BandUploaded

Next == \/ Calls \/ System
        \/ SliceFails \/ BlobLost \/ TimesOut \/ CachePressure \/ ChainFails \/ UploadParks \/ Crash

Spec == Init /\ [][Next]_vars

\* A call runs on, every loop runs its tasks, a read tree arrives, the uploader
\* works until it parks; no more is assumed than that they do not all stop.
\* Nobody has to call, the cache need not fill, and nothing has to fail.
FairSpec == Spec /\ WF_vars(System)
-----------------------------------------------------------------------------
Readable(u, unit) ==
  LET base == Len(Base[u].config) IN
  /\ Len(unit.config) = Len(unit.storage) /\ IsInjective(unit.config)
  /\ SubSeq(unit.storage, 1, base) = Base[u].storage
  /\ \A i \in DOMAIN unit.config :
       /\ unit.storage[i].of = unit.config[i]
       /\ i > base => \E g \in given : /\ g.name = unit.config[i]
                                       /\ \/ unit.storage[i].vals = Given(g.file, Units[u].keys)
                                          \/ unit.storage[i].vals = Unwritten /\ u \in g.lost

\* In memory, in the trees written and in the last checkpoint, a reader who
\* resolves a name against a unit's configuration finds the blob of that
\* attribute, with the value last given under each point's key (append_storage,
\* config_with_attribute_appended): while attributes are committed one upon the
\* other, and after commits that ended halfway were called again. A name finds
\* no values only where the write of this very blob failed.
UnitsReadable ==
  \A u \in UnitIds : Readable(u, units[u]) /\ Readable(u, located[u]) /\ Readable(u, disk.units[u])

\* A commit that returned is durable, whatever checkpoint was in flight when
\* it asked for its own: every unit with the key has the attribute on disk
\* (commit_attributes, step 4), unless a checkpoint failed.
CommitLasts ==
  used.chain = 0 =>
    \A n \in told.names, u \in UnitIds : Units[u].keys # <<>> => HasAttribute(disk.units[u], n)

\* A destination called complete has every tree; and when finalize has
\* returned the dataset is sealed on disk and shipped (processor.hpp:113),
\* unless an uploader parked or a checkpoint failed.
ShippedWhole ==
  /\ uploads.complete => uploads.bucket = Trees
  /\ told.finalized /\ used.parks = 0 /\ used.chain = 0
       => ~disk.mutable /\ disk.final = Trees /\ uploads.bucket = Trees

\* Every call returns, with checkpoints that fail, tasks that time out and an
\* uploader that parks (checkpoint_and_wait, wait_idle).
HostReturns == host.pc # "idle" ~> host.pc = "idle"

\* handle_deserialize_tree asserts that the registry has no tree in its place.
LoadsFindNothing == \A load \in loads : load.tree \notin trees.loaded
=============================================================================
