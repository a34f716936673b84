# Dewfall, formally

Dewfall converts point clouds into an octree with levels of detail, stores it in
one cache file or in an object store, streams it into a bucket while converting,
amends it with attributes, answers queries over it and renders from it. These TLA+
modules model the part of it where state, concurrency and failure meet, and the
arithmetic that the rest relies on: the cache file and its checkpoints, the
residency of blobs between disk, spill area and bucket, the uploader, the conversion
that drives them, the octree, the formats of codes, the reader, the render nodes,
region requests, mutable datasets, the object backend and the codecs of blobs. The
theorems about them are proved for all values of the constants. `PROJECT.json` holds the machine-readable
side: components, runs, mutants, the map from definitions to source lines, findings,
hazards, theorems.

Paths below are relative to `src/src/`, the sources of the library.

## 1. Inventory

### Threads

| loop | owner | runs |
|---|---|---|
| processor loop | `converter/processor.cpp` | registration of inputs, dispatch, idle detection, LOD scheduling |
| input loop | `converter/reader.cpp`, `sorter.cpp` | pre-init and reading of files, sorting of chunks |
| tree loop | `converter/tree_handler.cpp`, `tree_lod_generator.cpp` | insertion, LOD passes, the checkpoint chain, emission of bands, amends |
| storage loop | `converter/storage_handler.cpp`, `core/packed_file_backend.cpp`, `core/blob_reader.cpp` | blobs, residency, spill, checkpoints, reads |
| uploader loop | `converter/upload_handler.cpp` | bands to the bucket |
| dataset loop | `access/dataset.cpp`, `request.cpp` | opening, region requests |
| host threads | the application | calls, `add_to_frame`, `dew_pump_poll`, callbacks |
| shared pool, convert pool | | reads, sorts, compression, merging and sampling; conversion of render nodes |

The loops are those of the vio submodule. They talk through event pipes. The models
take vio as external: a handler runs without interruption until it returns or
`co_await`s, a pipe delivers in the order of posting, and posts of one thread to
different pipes of a loop are handled in the order posted. So *one action is the code
between two suspension points*, and what interleaves is events and coroutines.

### Components

| component | state | operations | talks to |
|---|---|---|---|
| Free-space allocator (`core/blob_manager`) | free sections per page, file size | register, unregister, (de)serialise | packed file, by call |
| Residency table (`core/blob_residency`) | per offset: resident, uploaded, spilled, durable, last use | note, spill, evict, forget, snapshot | packed file, by call |
| Packed-file backend (`core/packed_file_backend`) | file, locations of metadata, set of data blobs, byte account, spill pass | allocate, write, read, checkpoint, spill, evict, note | spill store, residency, allocator |
| Spill store (`core/spill_store`) | open segment, live counts, dead segments, journal, gate | spill, flush, read, deref, sweep, recover | bucket |
| Object backend (`core/object_backend`), `dew copy` | one object per blob, a manifest, the next id | write, checkpoint, truncate, reopen, copy | bucket |
| Storage handler (`converter/storage_handler`) | destination claim, pressure flag | point and attribute writes, index and registry writes | tree loop and processor (events), backend |
| Blob reader, read cache (`core/blob_reader`, `lru_cache`) | two caches, requests, reads in flight | read, co_read, wait, cancel, invalidate, stop | storage loop, pool |
| Uploader (`converter/upload_handler`) | queue of bands, blobs and trees known to be uploaded, object counter, parked flag | bootstrap, handle band, PUT window, manifests | tree loop (bands), storage (reads, notes) |
| Input registry (`converter/input_data_source_registry`) | items, dispatch order, counters | register, settle, dispatch, count, done-morton, (de)serialise | processor, by call |
| Processor (`converter/processor`) | batches to come, idle flag, LOD pass, resume | add files, dispatch, start LOD, resume, wait_idle, commit_attributes, finalize | all other loops |
| Reader, sorter (`converter/reader`, `sorter`) | files in flight, buffers | pre-init, read, sort, choose the code format | processor (events) |
| Tree handler (`converter/tree_handler`) | trees, LOD pass, watermarks, checkpoint chain, bands | add points, LOD done, chain, emit band, load trees | storage, processor, uploader |
| Octree build, collapse, LOD (`converter/tree_*`, `core/tree`) | trees of nodes, units and their references | insert, split, reparent, collapse, sample | tree handler |
| Attribute amend, mutable datasets (`converter/attribute_amend`) | declared attributes, spilled records | declare, add_data, commit, finalize | processor, tree handler, storage |
| Morton codes (`core/morton`) | none | compare, mask, name, cast, encode, decode | everybody |
| Compression (`core/compressor*`) | none | compress, decompress | storage handler, blob reader |
| Render nodes (`converter/render_pipeline`, `virtual_tree`, `data_source_converter`) | node life cycles, cuts, byte accounts, brake | frame, load, upload, promote, evict, prune | blob reader, convert pool |
| Access and queries (`access/`, `core/tree_set`, `core/pump`) | dataset state, requests, results waiting | open, request, cancel, wait, release, poll, close | blob reader |
| WASM, bindings, tools, examples | | glue | |

### What is hard here, and what makes it right

* *Free-space allocator.* A hash map that is walked in insertion order while entries
  move; runs of free bytes that cross pages. Right when no byte is handed out twice,
  the free list is exactly the holes, and the list on disk is the one the commit
  implies.
* *Packed file, residency, spill.* Writes, reads, a spill pass, a checkpoint and
  upload notes are coroutines over one table, each suspended in the middle of its
  work; the process may die at any of these points. Right when it implements a map
  with snapshots: reads return what was written, a crash returns to the last commit,
  and nothing the last commit refers to is reused, punched or deleted; and when every
  object left in the bucket is one the journal or the table names.
* *Uploader.* A window of PUTs completing in any order, failing, or failing after
  the object arrived; a crash between any two of them. Right when the bucket is
  readable at every moment, nothing is uploaded twice, and waiting for it ends.
* *Object backend.* A checkpoint is a chain of PUTs, each of which may fail or fail
  after it was applied, and a copy may write over a dataset that is there. Right when
  the manifest in the bucket leads to objects that are there and are its own.
* *Conversion.* Files and chunks arrive in orders nobody controls, a LOD pass
  finalises everything below a bound on what is to come, checkpoints of two
  causes share one chain, and a new session resumes from the last. Right when the
  bound is a bound, a commit is consistent with itself, idle means done, and idle is
  reached.
* *Octree.* Children are found by counting skips in arrays that shift under
  insertion; trees split, grow upwards and share units by count; a pass merges and
  samples on the pool while a checkpoint discards. Right when every query returns
  each point exactly once, at every level of detail.
* *Codes.* A code has four widths, a lod lies across two words, and six readers
  rebuild a position from low bits and a header. Right when each of them finds
  every point where it was.
* *Compression.* Candidates are prepared in several ways, the smallest is kept, and
  a reader has only the blob to undo it. Right when every buffer comes back.
* *Blob reader.* Threads that block, coroutines and polls wait for reads that a
  writer makes stale and a shutdown cuts off. Right when no stale byte is read, no
  read outlives the backend, and nobody waits for ever.
* *Render nodes.* Jobs hold the address of a node that the view drops; three byte
  accounts, a brake and a promotion to a finer cut pull in different directions.
  Right when jobs are outlived, accounts exact, and what stays in view is drawn.
* *Access.* A waiter, a canceller, a poll and a coroutine meet at one atomic status,
  with the host free to release or close at any point. Right when the result is
  final, whole and delivered.
* *Mutable datasets.* An amend is a chain of steps over three loops, any of which may
  time out for the host and still run. Right when names resolve to the right values
  and what was acknowledged lasts.

`PROJECT.json` lists the hazards one by one, at their lines.

## 2. Modules

Theorem modules are in brackets, beside what they are about; each EXTENDS it
(`BackendProofs` both backends, which share nothing else).

    DurableStore <- refined by - PackedFile - EXTENDS -> BlobResidency
                                     |
    ObjectBackend ------------ [BackendProofs]       BlobAllocator

    SpillStore          UploadHandler        Conversion - EXTENDS -> InputRegistry
        |                    |                    |
    [SpillProofs]       [UploadProofs]       [ConversionProofs]

    AccessRequests      BlobReader           RegionWalk - EXTENDS -> Octree
        |                    |
    [AccessProofs]      [ReaderProofs]       ChunkFormats - EXTENDS -> MortonCodes

    RenderNodes         MutableSession - EXTENDS -> AmendJoin          BlobCodec
        |                    |
    [RenderProofs]      [SessionProofs]

Two MC modules put independent components side by side: `MCBackends` the allocator of
a packed file and the objects of a bucket, `MCOctree` the octree, the units and the
buffers. In each the first state decides which of them moves.

The modules meet at what one promises and another assumes, each stated in the header
of the module that assumes it: `Conversion` takes the commit of `PackedFile` for
atomic, `UploadHandler` takes bands from the trees `Conversion` makes final,
`MutableSession` takes a location to be as good as its blob, `AccessRequests` leaves
the choice of nodes to `RegionWalk` and the reads to `BlobReader`, `Octree` takes a
code for a number, which is what `MortonCodes` and `ChunkFormats` justify.

### `PackedFile`, `BlobResidency`, `DurableStore`

`BlobResidency` is the table: a function from slots to entries, with one operator per
method of `blob_residency_t`. `PackedFile` is the backend around it.

| state | in the code |
|---|---|
| `file`, `free` | the bytes at an offset, `_blob_manager` |
| `where`, `phase` | the location a caller holds, and how far `allocate_blob` / `write_allocated` came for it |
| `unwritten` | the blobs whose write failed, of which the code keeps no record |
| `table`, `gen`, `resident` | the residency table, `_generation`, the byte account behind the cap |
| `dataBlobs` | `_data_blobs`, walked by index by the spill pass |
| `reading` | local reads in flight, which pin an entry |
| `spill` | open segment, segments in the bucket, live counts, segments to delete |
| `pass` | the spill pass: read, append, PUT, flush |
| `ck`, `disk` | `write_index` in progress, and what the superblock leads to |

A blob is allocated, written (or diverted to the bucket at the hard cap, or when the
disk is full), handed on to the tree when its batch has returned (`HandOn`, with the
`maybe_evict` that ends a batch), maybe discarded by the tree. A write that fails
changes none of that (`WriteFails`, `SpillWriteFails`): `do_write` posts the error to
the host and returns, so the location is handed on, committed and uploaded like any
other, with whatever bytes are there. `StartCheckpoint`,
`Snapshot`, `WriteMetadata`, `WriteSuperblock`, `Commit`, `Sweep` and `Reclaim` are
the stretches of `write_index`, with `FlushFails` and `CheckpointFails` for its
error returns. `Crash` drops all but `file`, the bucket and `disk`, and does what
`load` does.

Abstractions: a blob has size one and an offset is a slot (sizes are the subject of
`BlobAllocator`); the five metadata blobs of a checkpoint are one; whether an append
fills a segment is a choice; the journal of the spill store is left out (it is the
subject of `SpillStore`), and reopening deletes every segment no committed entry
refers to, without reusing a sequence number. A crash is that of the process:
completed writes survive, in order.

`DurableStore` is what the backend promises: `value`, what each blob reads as;
`taken`, the snapshot of a checkpoint in progress; `saved`, the last commit. Take,
commit, crash. A blob is published as itself or, when its write failed, `Broken`:
nothing is promised of what is read of that one, ever. `PackedFile` implements it under
the mapping `StoreValue`, `StoreTaken`, `StoreSaved`: the value of a blob is what a
*read* would return, from disk, segment or bucket, and the saved one is what a reopened
backend would return, so the refinement says that evictions, spills, notes, sweeps,
reuse of slots and failed writes of other blobs never change what is read of a blob
that was written.

### `SpillStore`

The spill store by itself, with what `PackedFile` leaves out: the FIFO gate, the
journal object that names every segment not yet covered by a committed table, and
`gc_orphans` at a reopening. A coroutine is a blob being spilled or the checkpoint
`Ck`; `Spill`, `SpillStart`, `SpillJournaled`, `SpillPut` are the stretches of
`spill_blob` between its awaits, `Flush`, `Commit`, `SweepStart`, `SweepRemove`,
`SweepClear`, `SweepShrink` those of a checkpoint. Every object operation may fail,
and a crash may leave the one under way done or not. The journal is the set of the
segments it names; the gate is the sequence of its holder and those who wait, and is
handed on as its tail. `known` and `excused` are
history: what a table once referred to, and what left the journal's care on purpose.

### `BlobAllocator`

`free_blob_manager_t` byte by byte: `Look` is the search of `register_blob` in map
order, with the tail of the preceding page added; `RegisterBlob` takes the section
and walks back over the pages that contributed; `UnregisterBlob` merges and splits
per page. The map of pages is a sequence, since a dense map is walked in insertion
order and an erased entry is replaced by the last. Around it is the use
`write_index` makes of it: metadata registered in the live manager, the list for
disk serialised from a copy in which the superseded ranges are free.

### `ObjectBackend`

A dataset written to a bucket without a cache, one object to the blob. `memory` is the
trees with their units and dirty flags, `registry` their locations, `backend` the next
object id and the metadata committed, `chain` the serialize chain step by step (trees,
registry, attributes, statistics, manifest, removal of what was superseded). A PUT may
fail, and may have been applied all the same. A session begins over an empty bucket,
reopens what is there, or truncates it; `dew copy` writes the objects of another
dataset and the root manifest last. `by`, the session that wrote an object, is a ghost
by which an object is told from a later one of the same name.

### `UploadHandler`

`EmitBand` is the tree loop, which puts the trees that have become final in a band.
The uploader's `process_band` is `frame`: the job, what is left to do (places of blobs in the storage
maps of the trees, and trees, as sets that `BlobTurn` and `TreeTurn` take in order), the
PUT window, the manifest. `SkipBlob`, `UploadBlob`,
`AwaitRoom` (a tree waits for the window, and goes out even if a PUT fails
meanwhile), `UploadTree`, `FinishLaunching`, `WindowDrained`, `PutBandManifest`,
`PutRootManifest` follow the function; `ReadFails`, `PutFails`, `ManifestFails` lead
to the parked state. A failed PUT may have reached the bucket. `Crash` keeps the
bucket, with any of the PUTs in flight landed, and `Bootstrapped` is `bootstrap`: `Gathered`
puts the maps of the committed manifests together, the later having the last word.

### `InputRegistry`, `Conversion`

`InputRegistry` is a value with operators: one per method of the registry. A morton
code is a number, and a file has the corner pre-init reports. The dispatch order is the
rank of each item in it. `Conversion` is the
processor and the chain.

| state | in the code |
|---|---|
| `reg` | `_input_data_source_registry` |
| `preinit` | batches whose pre-init tasks run |
| `reading`, `stage` | each file at the reader; each chunk: read, sorted, in the tree, counted |
| `proc` | `_idle`, `_generating_lod`, `_last_lod_done_morton`, the target, index events to handle |
| `tree` | how many chunks of each file are in the tree, copies counted, the LOD pass, generated and committed watermark |
| `chain` | the checkpoint chain: trees, registry, index, with its snapshot and `_checkpoint_rerun` |
| `committed` | what the last index refers to |

Actions are the event handlers, plus the two things the processor does before its
loop blocks (`Dispatch`, `BecomeIdle`). Two triggers start a chain: the end of a LOD
pass and cache pressure. `Crash` restarts from `committed`, as the constructor of the
processor does, and the client adds its files again.

Abstractions: a chunk is its code; the counters the registry keeps beside its items
are derived; a LOD pass is one step (`Octree` has its inside); mutable datasets,
amending and finalize are in `MutableSession`.

### `Octree`, `RegionWalk`

The trees as `tree_build.cpp`, `tree_collapse.cpp` and `tree_lod_generator.cpp` work
on them, scaled down: `B` octants, `L` levels to a tree, `Mags` magnitudes.

| state | in the code |
|---|---|
| `trees`, `root` | `tree_registry_t`: per level the nodes with their skips, points and ids, and `sub_trees` |
| `units`, `refs` | the written units, and `input_storage_map_t` with the reference counts across trees |
| `stack` | the pending calls of the recursive `sub_tree_insert_points` |
| `phase`, `target`, `done`, `watermark` | the pass: `_pending_pass_watermark`, `_lod_complete_morton`, `_pass_watermark` |
| `jobs`, `work` | collapse jobs, and inner nodes still to be sampled |
| `chain`, `wanted`, `disk` | the checkpoint in flight and what it committed |

`AddChunk` is the arrival of a chunk with the reparenting it may need; `Descend`,
`Grow`, `Store`, `Split` are the branches of the insertion; `StartPass`, `Merge`,
`MergeFails`, `Apply`, `Walk`, `Turn`, `Sample`, `Publish`, `PassDone` the pass;
`Serialize`, `Commit`, `WriteFails`, `CommitFails` the checkpoint. Points are numbers,
distinct; a unit holds the codes it was written with.

`RegionWalk` selects, over these trees, the nodes a box query reads and clips their
points, with the code's early exits and its test for resolution.

### `MortonCodes`, `ChunkFormats`

`MortonCodes` is `morton.hpp`: a word is the set of its bits that are 1, `3K + 1` of
them, so that the lods lie across words as they do for 64 bits (K = 21); a code is one
to three words. Comparison, masks, octants, names, casts between the four formats,
and the interleaving of coordinates, whose core (libmorton) is external.

`ChunkFormats` is the way of a unit through the code: `SortPoints` encodes the points
of a file in the format its bounds allow and narrows them to the span they have;
`Collapse` merges units; `Generate` samples one, in both densities; `Subdivide` cuts
it by octants. `DecodePosition`, `RenderOrigin` with `RenderPlace`, and the header of
the next unit are the readers. Positions are in the grid; quantisation to it, and the
other attributes, are left out.

### `BlobCodec`

The way of a buffer into a blob and back: the three compressors with their candidates
(constant, delta, byte shuffle, bands of a double, permutations), the framing of huff0,
the choice of the smallest, and `decompress_any`. A byte is a bit, and sizes are
counted in those; a double has eight. The entropy coders are external: they return what
they were given, and how small they make it is a choice.

### `BlobReader`

`read`, `co_read` and the ways to wait, the pipe to the storage loop, `handle_read_request`
in its stretches (`Dispatch`, `Fetch`, `Land`), the decode jobs on the pool, both caches
as ordered sequences, each with a size of its own, the writer that makes an offset stale
(`StartWrite`, `EndWrite`), and `stop_loop`. A request is of one of four owners: a LOD worker that blocks a pool
thread, the tree loop, a coroutine on another loop (whose `await_ready`,
`await_suspend` and wake-up are separate steps), the render thread that polls and may
cancel. Blobs have size one, their bytes are a version. `StartWrite` waits for nobody;
where a read of the offset is left, it notes so in the ghost `overtaken`.

### `RenderNodes`

One frame after the other, in the phases of `add_to_frame`: `BeginFrame` (brake and
attribute), `BuildList`, `Stream` per node (`process_io_and_upload`), the promotion
phases, `CutWalk`, `CutEnd`, the CPU budget (`DropHandler`, `Unpromote`), `EndFrame`.
Between any two phases the convert pool finishes jobs (`FinishJob`) and reads arrive
(`ReadDone`). Nodes have addresses, because jobs hold them: a node that left the view
is parked while a job runs, and its successor is another object. The frustum walk is a
constant per camera.

### `AccessRequests`

A dataset opens (`co_open`), region requests run as coroutines (`run_region_request`:
walk, loads of trees that are not resident, batches of reads), and their results reach
the host through the pump or `dew_request_wait`. Cancel, release, wait (with its three
steps around the mutex), poll with its three steps (rearm, swap, callbacks), and close
with its order of joins and barriers are the host's.

### `AmendJoin`, `MutableSession`

`AmendJoin` is the algorithm of an amend: runs of records, each sorted, merged so that
the last value given under a key counts, joined with the keys of the units by slices.
`MutableSession` is the session around it: the host's calls, the tasks they post to the
tree loop (`run_on_loop_and_wait`, which may time out while the task still runs), the
loading of trees, the writes, the serialize chain with its rerun, the bands to the
uploader, a crash. A task the host gave up on stays in the loop and runs, heard by
nobody. A slice that cannot be read or compressed ends the commit (`SliceFails`); a blob
of it that cannot be written does not (`BlobLost`): the slice is appended with the place
of a blob that has no bytes, the commit returns without an error, and a later call
passes over the unit, whose slot is there. `used` also counts the checkpoints that failed and the uploaders that parked,
the two excuses that `CommitLasts` and `ShippedWhole` know.

## 3. Runs

Deadlock is not checked in any run: all these systems come to rest, when all input is
handled or the bounds are used up. What must go on is stated as liveness instead.

| run | question | bounds |
|---|---|---|
| `cache_upload` | is the store durable with uploads, discards and failing writes, but no spill area? | 2 blobs, 4 slots, cap 2, 2 checkpoints, 1 crash; the write of one of them may fail |
| `cache_spill` | are durable facts and locators sound with the spill area: passes, diversions and their failures, sweeps, an orderly shutdown? | 2 blobs, 3 slots, cap 2, 2 checkpoints, 1 crash, up to 8 segments, no reads |
| `spill_store` | does the spill area keep what it was given and forget nothing it left behind? | 3 blobs, segments of 2, up to 4 segments, 2 checkpoints, 1 failure, 1 crash |
| `backends` | is the allocator exact over every series of calls and checkpoints; does the manifest of a bucket lead to what is there? | file of 2 pages of 4 bytes, sizes 1 and 2, 7 blobs, 3 checkpoints; 2 trees, 2 units, 2 chains, 1 failing PUT, 2 sessions, copies over a packed layout |
| `upload` | is the bucket readable and complete, across failures and restarts? | 3 trees sharing 2 blobs, 2 PUTs at a time, 1 band waiting, 2 crashes |
| `conversion` | is a session right, does it end, and does the next one resume from its commit? | 2 files of 2 and 1 chunks, one may fail, both read at once, 1 pressure checkpoint, 1 failed step, 1 crash |
| `octree` | do queries return each point once at every level of detail, do codes stay in place, do buffers come back? | below |
| `blob_reader` | are reads fresh, and everyone released whatever happens? | 1 key, rewritten up to twice at any time; a blocking, a tree, an awaiting and a polling reader; 1 pool thread, caches of 0 and 1 |
| `render` | are jobs outlived, bytes accounted and nodes in view drawn? | 2 nodes, 1 promotable leaf, 4 addresses, 2 inputs of the host |
| `access` | are results final, whole and delivered? | 2 requests over 3 trees, batches of 2 nodes, open and one load may fail |
| `amend` | do names resolve to the right values, and last? | 2 trees, 4 units, 2 attributes, 5 calls, 1 cache request, 1 fault, runs and slices of 2 |
| `lod_narrow_children` | violated: are the samples of narrower units in place? | the units of `octree` |

Why these are enough for what they show. Two blobs and a cap of two reach every
regime of the cache: below the soft limit, above it, at the hard cap, with a victim
and without; four slots are two blobs plus the metadata of two commits, so a slot is
reused between commits as soon as it can be. `cache_spill`, whose spill area multiplies
the states, has three, and so no second commit while two blobs are local, and no reads:
neither of its two properties depends on one, and a read only keeps an entry from being
evicted. What reads find beside a spill area, also after failed writes, is left to the
theorem on `Implements`. Two checkpoints are one to supersede and
one to be interrupted. Segments of two blobs, with three blobs, are a full one and an
open one at once. Two pages of four bytes hold allocations across the page boundary,
whole free pages and partial ones; three checkpoints put a metadata range through its
whole life. Three trees in bands of any composition, with a blob in common, exercise
deduplication across bands and sessions. Two files with overlapping codes are the
least in which a file is a bound for another. One offset that is written twice is read
across a rewrite and after the next, and a cache of no entry and one of one make
readers find the bytes there, decoded, or nowhere. Two chains are a commit and the one that supersedes it, and
two sessions one that writes and one that finds what it left.

`octree` has three worlds in one run. In the first, a binary tree (`B = 2`) of two
levels to a tree and three magnitudes is fed by one of six feeds of chunks (`MCFeeds`),
chosen so that leaves of two points split, trees get sub-trees, a chunk reaches beyond
the root and reparents it once or twice, and equal chunks collapse; passes, a failing
merge, a checkpoint of pressure and a failing step come at any time. In the second,
words have 16 bits (`K = 5`) and the feed is replaced by units: chunks of two points
that differ in one bit, at each of the 48 bits and at the borders of the formats, are
sorted, merged to units of at most four points, sampled at every lod, and cut. In the
third, buffers of every element type, among them constant ones, ones with a rest after
the last element and doubles at the borders of their exponents, are coded and read
back; a huff0 block has 16 bytes and a permutation 3 elements, so that both limits are
passed.

The passing runs keep away from the regimes in which the code is known to break (the
tables below), each by a named constant: `cache_upload` has no spill area,
`cache_spill` no uploads and no discard of blobs that are neither uploaded nor
spilled, `upload` at most one band waiting, `spill_store` no reference that dies
between a snapshot and the end of its sweep, `backends` a file of two pages, and no
session that truncates or loses its probe, `conversion`
one batch, no read error after a crash, `octree` no unit that cannot be read and no
sample of a unit narrower than its node's, `access` no close while a request reads,
`amend` no tree made in the
session and no checkpoint in flight when `finalize` is called. In these regimes the
properties hold. Two things the code cannot promise are instead said in the properties,
and happen in the runs: what is read of a blob whose write failed (`Implements`,
`BytesInPlace`, `UnitsReadable`), and what is read of an offset that was written again
while a read of it was left (`FreshRead`).

What the properties say:

* `Implements`: `PackedFile` implements `DurableStore`: every blob whose write did not
  fail reads back itself while it is published, and after a crash those of the last
  commit do, however many others were lost, committed without bytes and uploaded as
  what was there.
* `CommittedNotFree`, `BytesInPlace`: nothing the last commit refers to is free or
  overwritten at any point of the next one, and no read in flight of a blob that was
  written has its bytes evicted or reused.
* `DurableIsCommitted`: an entry that counts as durable, and so allows its local
  bytes to be punched, is in the committed table in the same form.
* `SpillBacked`: each spill locator designates bytes that are assembled or in the
  bucket, and no segment is deleted under a reference.
* `BytesReachable`, `NoLostOrphan`: a locator handed out reads back, what a table
  commits is in the bucket, and every object there is one that a table or the journal
  names.
* `BytesAccounted`: no range is handed out twice; the free bytes are exactly the
  others, live and on disk.
* `BucketSound`: the manifest of a bucket, and of a copy, leads to objects that are
  there, of the right kind and session, and no failed or superseded one is in use.
* `BucketReadable`: what a manifest names is in the bucket, and what the cache tier
  was told is uploaded is committed there. `UploadedOnce`, `DrainedIsDurable`,
  `WaitDrainedReturns`: no blob twice, none lost, and waiting ends.
* `PassTargetSound`: a LOD pass never finalises past a point that a registered file
  has yet to bring. `LodDoneIsCommitted`: no pass counts as done past the commit.
  `CountedIsCommitted`: a commit counts no insertion that is not in its trees.
  `FirstSessionComplete`, `BecomesIdle`: idle means that all is committed with the
  terminal pass, and idle is reached.
* `QueriesExact`: a box query returns each point in the box exactly once at full
  resolution, and a cover of it at each coarser one. `RefsExact`: the counts of a unit
  are its references, and a unit is discarded with its last. `LodComplete`: a sampled
  node represents each node below it, and after the terminal pass none is left out.
  `FinalFrozen`: below the watermark nothing changes any more.
* `PointsSurvive`: every reader finds every point of every unit in place, through sort,
  merge, cut and sample, and each cell of a sample has its point. `BlobsSurvive`: each
  buffer is read back from its blob as it was (a double up to the rounding below).
* `FreshRead`: no read returns bytes older than what its offset held when it was
  issued, whatever reads of other offsets and of this one are under way; excepted are
  offsets that were being read when their last rewrite began (`Promised`), for whose
  old bytes see below. `BackendOutlivesReads`, `ReadersReleased`: see the names.
* `JobsOutlived`, `ParkedDrains`: no job outlives its node, and no node stays parked.
  `GpuAccounted`: at every step of a frame the bytes of virtual cuts are those held. `EventuallyDrawn`: a
  node that stays in view, under an input that stays, is drawn.
* `ToldIsFinal`, `ResultWhole`, `Delivered`, `WaitReturns`: a status once told never
  changes; a completed request has every node it selected; every request comes to
  the host that polls; a waiting host returns.
* `UnitsReadable`: under every name, every unit that has it reads the value last
  given, or nothing, where the write of this very blob failed. `CommitLasts`: what an acknowledged commit wrote is there after a crash.
  `ShippedWhole`: a sealed dataset was uploaded with all of it. `HostReturns`.

Each has at least one mutant, an operator `Mut...` next to the definition it
replaces: a plausible bug under which TLC finds the property violated.

### Where code and documentation disagree

`lod_narrow_children` violates `SamplesInPlace`, for three reasons, each of which
suffices: the bits between the end of a unit's format and the cell of the child are
masked away before the unit is cast (`tree_lod_generator.cpp:710`); `morton_upcast`
from 32 to 64 bits restores the bits 30 and 31 only when it adds words
(`morton.hpp:509-516`); and it restores bit 63, which the renderer neither masks nor
expects, so that the bit of the node's origin counts twice.

More configurations are kept for the other disagreements. They are not part of the
regular runs; TLC refutes the property of each with a trace to read:

| configuration | module | violated | in short |
|---|---|---|---|
| `stale_spill` | `MCPackedFile` | `TrackedNotFree` | `run_spill_pass` looks for the residency of an offset after its awaits but not for the blob: one freed in between is marked spilled, and its offset is reused under a live entry |
| `uploaded_before_sweep` | `MCPackedFile` | `CommittedRecoverable` | a note between snapshot and sweep drops the reference to a segment the commit still names |
| `upload_order` | `MCUploadHandler` | `CommittedBandsPresent` | with two bands waiting, the next one is put behind the second: bands commit out of order |
| `watermark_overclaims` | `MCConversion` | `PassTargetSound` | files dispatched but not first in order do not clamp the done-morton |
| `resume_unfinished` | `MCConversion` | `IdleMeansComplete` | a session that resumes when all input is done but LOD is not becomes idle with LOD unfinished |
| `octree_unwritten` | `MCOctree` | `CommittedClosed` | the intermediate trees of a reparenting are never written |
| `render_thrash` | `MCRenderNodes` | `CutsSettle` | promotion, eviction and reload may go on for ever with nothing moving |

Others are a regular configuration with some constants and the property changed:

| configuration | changed | violated | in short |
|---|---|---|---|
| `backends` | `MaxFile = 12`, `MaxCheckpoints = 2` | `NoOverlap` | with three pages, the walk back reads the page number through an entry it erased (`blob_manager.cpp` L82, L64) and consumes the wrong section |
| `octree` | `MaxFailures = 0`, `MaxLost = 1`, `Chunks = {}`, `Buffers = {}` | `LiveNotFreed` | a unit that cannot be read in a split loses its reference, and is freed under others |
| `octree` | `MaxFailures = 0`, `Chunks = {}`, `Buffers = {}` | `FinalSampled` | a tree is final before its nodes are sampled |
| `access` | `QuietClose = FALSE` | `NoEnqueueAfterJoin` | closing joins the pool before the requests that use it have ended |
| `access` | | `ReleasedIsSilent` | the callback of a released request still comes, against `query_api.cpp:231` |
| `amend` | `QuietFinalize = FALSE`, `MaxCalls = 3`, `MaxFaults = 0` | `ShippedWhole` | a chain launched while the dataset was mutable emits an empty terminal band |
| `amend` | `Minted = {2}`, `MaxCalls = 3`, `MaxRequests = 0`, `MaxFaults = 0` | `LoadsFindNothing` | trees made in the session are loaded over themselves (assertion at `tree_handler.cpp:861`) |
| `conversion` | three files in one batch, `MaxFailures = 0` | `PassTargetSound` | after a crash behind a checkpoint of pressure taken before pre-init answered, the resumed session dispatches files whose order is still 0, and pre-init then raises the orders |

Further deviations met while modelling, without a configuration of their own:

* A failed write is reported to the host and otherwise forgotten. `do_write` posts the
  error (`storage_handler.cpp:190-194`), `done` is called with no error (`:333-336`,
  `:370-372`, for attributes `:488-524`), and the tree takes the location
  (`processor.cpp:681-683`, `735-742`; `attribute_amend.cpp:738-746`;
  `tree_collapse.cpp:339-344`). `_has_errors` (`processor.cpp:728-733`) is shown to the
  host and stops nothing: the next checkpoint commits the location, the uploader
  ships what a raw read of it returns, a merged unit without bytes replaces its parts,
  an amend that lost a blob succeeds, and none of them can be told from the others after
  a restart. `PackedFile` (`unwritten`) and `MutableSession` (`BlobLost`) do the same;
  what is then promised is what the properties above except. `Octree` has no bytes: a
  merge whose write failed is a merge there, and its queries hold for units that can be
  read. `ObjectBackend` has it as a PUT of data that fails.
* A read under way when its offset is freed and written again lands after `invalidate`,
  and its old bytes are in the cache for the next reader, although
  `storage_handler.cpp:186-188` says that they cannot be. `BlobReader` does so
  (`overtaken`); `FreshRead` without `Promised` is violated.
* Eviction after an orderly checkpoint breaks what that checkpoint committed
  (`CommittedRecoverable` with `CleanShutdown` and uploads).
* The error of the PUT of the tree registry is ignored (`tree_handler.cpp:793-810`); a
  truncating session keeps the registry and trees read before, while its ids start
  again at 0 (`object_backend.cpp:129-138`); an existence probe that fails makes a
  session start anew over a dataset that is there (`converter.hpp:31`); `dew copy
  --force` over a bucket with a root manifest overwrites data objects before the root
  (`cmd_copy.cpp:499`); superseded trees are never removed (`tree_handler.cpp:786`).
* The offsets of a double's bands lose its last bit; a buffer with a rest after its
  last element is taken for constant without a look at the rest; deltas by element and
  by morton code are undone in the order they were done in; storing a buffer raw never
  wins against the candidates. The box of a dataset may be inverted on an axis
  (`tree_set.cpp:168`, `tree_handler.cpp:889`).
* A later batch all of whose files fail by their callback starts no LOD pass; a
  pre-init that fails after a resume retires a file in flight; the error of the
  registry write is dropped, and the index commits its location.
* `add_attribute` is documented to refuse a name that is taken and a key that is no
  integer (`converter.h:394-396`); the code looks at pending names only. A checkpoint
  that fails in `commit_attributes` is not reported. A commit that fails closes the
  files of the spill, and every later one fails with them. A tree that cannot be read
  makes `request_all_trees` poll for ever. Blobs written for units whose append never
  came are never freed.
* The sorter rounds the bounds it puts in the header but truncates the points when
  their scale differs; the base of the high bits is that of the last point read; a
  mask width of 0 is a cell of 8 grid points, where `lod_quantize.hpp:35-37` says one;
  adding one to a full 192-bit cell wraps.

## 4. Fairness

Safety runs use none. `WaitDrainedReturns` assumes that the uploader's loop runs what
is ready (`WF(Uploader)`) and that every PUT ends (`WF(PutDone \/ PutFails)`): retries
are counted (`put_with_retry`). Nothing obliges a PUT to succeed, and a band to be
emitted. `FairSpec` of `Conversion` assumes that the loops run their handlers
(`Processor`, `BecomeIdle`, `IndexWriteDone`, `Chain`), and that reads, sorts and LOD
tasks end (`Reader`, `LodPassDone`). `BlobReader` has `WF(Progress)`: loops run what
is posted, fetches end, pool threads take jobs. `MutableSession` has `WF(System)`, the
loops and their chains; a call of the host may or may not be made, but what it waits
for is the system's. `AccessRequests` has one condition per request, its coroutine or
the landing of its reads, and one each for opening, for the thread inside a call, and
for the host that polls once it was woken; none for cancel, release, wait or close.
`RenderNodes` has `WF(Frame)`, since the host draws frames as long as it wants
anything drawn, and strong fairness for reads and pool jobs one by one: jobs come and
go with frames, and each must have its turn.

Otherwise weak fairness is enough: once enabled, a handler stays enabled until it
runs, because its event stays in the pipe. The client, pressure, failures and crashes
are never obliged to happen.

`BecomesIdle` makes two exceptions, both by name. `failures > 0`: a chain whose step
failed sends no event, and the pass waits for one. `Wedged`: a session resumed from
an input that was read in part keeps parts that were added and never inserted, and
the processor never sees the counts agree; the registry notes this where it restores
them.

## 5. Proofs

Eight modules hold theorems. Each is proved from the assumptions on the constants that
the module of its component states (finite sets, bounds that are natural numbers,
markers that are no values), and from the hypotheses named below, which the regular
configurations satisfy. No bound of a configuration enters: the theorems hold for any
number of blobs, slots, segments, files, trees, requests, failures and crashes.

| theorem | states, always | hypothesis |
|---|---|---|
| `BackendProofs!TypeCorrect` | `TypeOK` | |
| `BackendProofs!DurableFactsCommitted` | `DurableIsCommitted` | |
| `BackendProofs!CommittedNeverFree` | `CommittedNotFree` | |
| `BackendProofs!BytesStayInPlace` | `BytesInPlace` | `Disciplined` |
| `BackendProofs!SpilledStaysBacked` | `SpillBacked` | `SpillsAlone` |
| `BackendProofs!BackendImplementsStore` | `Implements`, the refinement of `DurableStore` | `Disciplined`, `SpillsAlone` |
| `BackendProofs!BucketStaysSound` | `BucketSound` | `Steady` |
| `SpillProofs!TypeCorrect` | `TypeOK` | |
| `SpillProofs!SpilledIsReadable` | `BytesReachable` | `QuietCommit` |
| `SpillProofs!OrphansAreNamed` | `NoLostOrphan` | |
| `UploadProofs!ReadersFindEverything` | `BucketReadable` | `MaxWaiting = 1` |
| `UploadProofs!NothingShippedTwice` | `UploadedOnce` | `MaxWaiting = 1` |
| `UploadProofs!DrainedMeansCommitted` | `DrainedIsDurable` | `MaxWaiting = 1` |
| `ConversionProofs!TypeCorrect` | `TypeOK` | |
| `ConversionProofs!DonePassesCommitted` | `LodDoneIsCommitted` | |
| `ConversionProofs!CountsAreBacked` | `CountedIsCommitted` | |
| `ConversionProofs!PassesAreFinal` | `PassTargetSound`, an action property | `OneCall`, `MaxCrashes = 0` |
| `ConversionProofs!IdleIsComplete` | `FirstSessionComplete` | `OneCall` |
| `ReaderProofs!TypeCorrect` | `TypeOK` | |
| `ReaderProofs!ReadsAreFresh` | `FreshRead` | |
| `ReaderProofs!BackendOutlives` | `BackendOutlivesReads` | |
| `AccessProofs!ResultsAreFinal` | `ToldIsFinal`, an action property | |
| `AccessProofs!CompletedIsWhole` | `ResultWhole` | |
| `RenderProofs!TypeCorrect` | `TypeOK`, and that a node alive is listed or parked | |
| `RenderProofs!JobsAreOutlived` | `JobsOutlived` | |
| `RenderProofs!GpuIsAccounted` | `GpuAccounted` | |
| `SessionProofs!LastValueCounts` | the join of `AmendJoin` is what `Given` says, for every file and all keys | |
| `SessionProofs!LoadsHaveTheirPlace` | `LoadsFindNothing` | `Minted = {}` |
| `SessionProofs!FinalizeShips` | `ShippedWhole` | `Minted = {}`, `QuietFinalize` |
| `SessionProofs!UnitsStayReadable` | `UnitsReadable` | `Minted = {}` |
| `SessionProofs!CommitIsDurable` | `CommitLasts` | `Minted = {}` |

Each hypothesis cuts off a regime in which the code does otherwise, and names it:

* `Disciplined`: with a spill area the tree frees no blob that has no entry
  (`stale_spill`), and after an orderly shutdown nothing is uploaded: an eviction after
  the last checkpoint breaks what that checkpoint says of local bytes.
* `SpillsAlone`: beside a spill area nothing is uploaded (`uploaded_before_sweep`).
  `cache_upload` and `cache_spill` satisfy both.
* `Steady`: the PUTs that fail are not of data or of the registry, whose errors the
  chain does not look at (a failed write of data goes to the host; the manifest may
  still come to name the blob); no session begins anew over a dataset, and no copy over
  a copy: both hand out ids that the manifest there names. The run `backends` is within
  it.
* `QuietCommit`: no reference dies between the snapshot of a checkpoint and the end of
  its sweep; otherwise the sweep may delete what the commit names, the same fact again.
* `MaxWaiting = 1`: at most one band waits for the one in flight. With two, the second
  is taken first (`upload_order`), and none of the three properties survives.
* `OneCall`: the files come by one call of `add_files`. `MaxCrashes = 0`: only in a
  session that was not resumed is the target of a pass a bound on what is to come
  (`watermark_overclaims`, and the changed `conversion` in the table above).
* `Minted = {}`: the first session made no tree itself by inserting points; otherwise
  `request_all_trees` reads its trees over themselves. `QuietFinalize`: no checkpoint is
  in flight when `finalize` is called; a chain launched while the dataset was mutable
  emits an empty terminal band. Both are in the table above, as changes to `amend`.

The argument in each module is an inductive invariant, larger than what it is for. It
was checked by TLC on the configuration of its component before it was proved (but for
that of the bucket, which says that some function exists); the step is one lemma per
action, or per group of actions that disturb the same conjuncts.

* *Packed file.* `DurableInv` adds `SnapshotCovers`: while a checkpoint writes, the
  snapshot holds every entry the commit will make durable, in the same form.
  `CommittedNotFree` needs to know who owns a slot: `SlotsInv` says that a slot has one
  owner among live blobs, the metadata of the commit, that of the checkpoint under way
  and the ranges it will free, and that the list on disk leaves the committed ones alone
  (`StatesInv` ties slots to the phases of blobs). `BytesInv` goes on to the bytes: what
  is written, punched or read is one's own, and a write that fails spoils no slot but
  that of its blob.
* *Refinement.* `SpillInv`: live counts cover the references of the table, of the
  snapshot and of the append in flight (`Covers`); segments are numbered upwards and
  written once (`Ordered`, `OneAppend`); locators lead to a segment that has the blob
  (`Backs`, `LocatorsBacked`), also those of the snapshot (`TakenBacked`). `RefInv` puts
  it together with the bytes, for the blobs that were written. A read then returns the
  value of its blob wherever it goes to, so every action is a stutter of `DurableStore`,
  but the snapshot (`Take`), the commit, the crash, and the handing on (`Publish`, or
  `PublishBroken` of a blob in `unwritten`) and freeing of blobs.
* *Bucket.* An id is given once to an object, as a function `given` from ids to what is
  put there; it is a witness of the invariant (`BucketInv`), for the model does not keep
  it, and grows only at or above the next id. After a crash the next session starts from
  the count in the manifest and gives the ids above it anew, so `given` may change there:
  everything the manifest leads to, and every name an earlier one had, is below it
  (`DurableOK`, `NamedOK`), a tree's units below the tree and the trees below the
  registry. What a session works with (`WorkOK`): each tree's blobs are in the bucket and
  are its own, what the chain takes to free is in no tree's current blobs and in no
  registry to be committed, and what it removes after the commit is older than what the
  new manifest names. A copy (`CopyGoes`) puts a sequence of which the last object is
  the manifest and leads to those before it (`CopyPlanIs`, `CopyLands`).
* *Spill store.* `Gate`: one holder, and what each coroutine between two awaits has in
  hand. `Numbered`: segments below the next number, and the journal names those that are
  put. `Backed`: a reference has its bytes in the open segment, in the one in flight or
  in the bucket. `Named`: an object that the journal has dropped was in a committed
  table, or is excused.
* *Uploader.* The committed part of the bucket is `Whole` and its bands are `Apart`:
  objects are named below the object count of the root manifest, those of a band in
  flight at or above it, so no PUT, early or late, disturbs what is committed. `Known`:
  the session knows what is committed and what the band asked for. `Asking`: what it
  asked for is in the window or in the bucket, unless a PUT failed. `Left`: what is not
  asked for is still to do. `Turns`: the band in flight is the next the root expects.
  `Parted`: a tree is in one committed band, or the one in flight, or the one waiting. A
  crash rebuilds all of this from a `Whole` bucket alone (`BootstrappedFacts`).
* *Conversion.* `Numbers`: the watermarks form a chain, from the committed to that of
  the pass, at every step of the checkpoint. `Counts`: in each registry, live, in the
  chain and committed, no file counts more than its trees have. `FirstSession`: files
  are dispatched in rising order of their corners (`Ordered`), from which the bound
  `Below` of a pass follows; `Complete`, with `Quiet` for an idle processor, says what
  has been handed in, handled and committed.
* *Reader.* `CachesFresh`: each cache has one entry to a key, none of an offset that is
  being written, and each with what the offset holds, unless the offset is `overtaken`.
  `Flying`: a read under way asks for what its offset promises, and has it once it is
  fetched. `Lined` and `JobsKnown`: the
  pipe holds each queued request once, and a decode job belongs to a request with bytes
  in hand. What erasing, promoting, inserting and evicting do to a cache are lemmas
  about sequences. `EndInv` is the shutdown: behind the barrier the pipe stays empty, so
  the reads in flight only become fewer.
* *Requests.* `ToldInv`: a status a callback was told is terminal, and every write to a
  status tests for that. `WholeInv`: what a request has gathered is an initial piece of
  the walk, and what is left to load or read the rest of it.
* *Renderer.* `Objects`: what is alive is well-formed at its address. `JobsKnown`: each
  read, conversion, source build and materialization is of a node alive whose own state
  shows it, so that nothing which tests that state can destroy it. `Placed`: a node alive is
  listed under its tree node or parked, and there once. `Turns`: what the phases of the
  frame have in hand. `GpuAccounted` and `CpuAccounted` are part of it, for the actions
  keep a running total and the sum over the nodes alive changes by what they add and
  take: sums over a set, and the total of a list of casualties, are lemmas by induction
  over a set of numbers.
* *Session.* In layers. `SessionType`, `LoopControl` and `CallAt`: what waits in the tree
  loop belongs to the host's call, or to one it gave up. `RegistryInv` and
  `WritingLoaded`: a tree is loaded once, and what is written is loaded; from them
  `LoadsFindNothing`. `QuietInv`, `SealInv`, `ShipInv` and `FinalInv` follow a finalize:
  a chain launched behind the clearing of the flag has every tree in its last band.
  `SyncInv`: a unit of a tree that is not dirty is as it is written, so that reading a
  tree changes no unit. `SoundInv`: each unit, live, written and committed, has its own
  attributes first and then amended ones once each, with what its file joins to, or
  nothing where a blob was lost.
  `ExtendInv`, `ScanInv` and `AttributeInv`: what a call has in hand extends the units
  as they are now, although they are from a snapshot. `CountInv` and `CommitInv`: a call
  asks for its first checkpoint when its attributes are in memory; once a chain has
  ended since, whatever chain is in flight carries them, and once two have they are on
  disk.
* *Join.* `RanksOrder`: listing a finite set by rank is onto and in order. From it each
  run is a stable sort of its stretch (`RunIs`), the merge of the runs one of the whole
  file (`MergeIsStable`), and the scan takes for each key the last of its records
  (`LandedIs`).

Only model-checked:

* All liveness (`WaitDrainedReturns`, `BecomesIdle`, `Delivered`, `WaitReturns`,
  `HostReturns`, `ReadersReleased`, `EventuallyDrawn`, `ParkedDrains`): fairness and
  ENABLED are out of the prover's reach.
* What `RECURSIVE` operators compute, and folds that take an operator: an induction over
  numbers goes through when the property is a set (a recursive function, or a sum over a
  set, unfolds along it, as in `RenderProofs` and `SessionProofs`), but the prover cannot
  instantiate a theorem with an operator, and loses arithmetic beside a `RECURSIVE` one.
  So `BytesAccounted` of `BlobAllocator`, `PointsSurvive`, `BlobsSurvive`,
  `QueriesExact`, `RefsExact`, `LodComplete` and `FinalFrozen` are TLC's.

## 6. Not modelled

* vio: loops, pipes and object clients, taken as sequential and ordered; libmorton,
  taken by its result.
* Power loss: one fsync follows the superblock, and nothing orders the writes before
  it. A model of it needs reordered writes.
* Of the object backend and `dew copy`: statistics, a copy into a packed file, PUTs that
  are applied after they were given up. Of compression: the statistics it keeps.
* The frustum walk over nodes, a constant per camera in `RenderNodes`: the geometry
  of the host in floating point.
* Attribute values: conversion, statistics, zeros in place of values that cannot be
  read.
* Loading of sub-trees in a resumed conversion; files added to a dataset that is
  complete (`lower_lod_floor`); the order of teardown.
* `tree_set`'s `request()`, a pump shared by several datasets, replacing the wake
  callback while results wait, and the drain of a snapshot whose later source closes
  (`pump.cpp:130-139`).
* WASM, bindings, tools and examples: glue over the C interface. They are most of the
  lines that the map does not cover.

## 7. Plan

The models of the first plan are done, and so are its theorems.

Models worth adding: the frustum walk as a cut over the octree, loading of sub-trees
into `Octree`, and the statistics and names of attributes.
