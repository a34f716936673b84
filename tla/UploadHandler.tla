--------------------------- MODULE UploadHandler ---------------------------
(***************************************************************************)
(* The incremental uploader (upload_handler_t): bands of finalized trees   *)
(* go from the cache to the destination bucket as data objects, then a     *)
(* band manifest that names them, then the root manifest, the only object  *)
(* that is ever replaced.  The tree loop emits a band after a committed    *)
(* checkpoint; one band at a time is processed on the uploader's loop,     *)
(* with a window of PUTs in flight; a PUT that fails for good parks the    *)
(* uploader; a crash loses all but the bucket, from which bootstrap        *)
(* rebuilds the session.                                                   *)
(*                                                                         *)
(* Trees are numbered in the order of their ids, which is the order in     *)
(* which a band uploads them.  A blob is named by its cache offset.        *)
(***************************************************************************)
EXTENDS Integers, SequencesExt

CONSTANTS
  Trees,        \* tree ids
  Blobs,        \* data blobs of the cache, by offset
  BlobsOf,      \* the blobs a tree's storage map refers to, in its order; trees may share one
  MaxPuts,      \* k_max_in_flight_puts
  MaxWaiting,   \* bound on the bands emitted but not taken up
  MaxCrashes

ASSUME UploadHandlerAssumption ==
  /\ Trees \subseteq Nat /\ IsFiniteSet(Trees)
  /\ BlobsOf \in [Trees -> Seq(Blobs)]
  /\ MaxPuts \in Nat \ {0} /\ MaxWaiting \in Nat \ {0} /\ MaxCrashes \in Nat

VARIABLES
  final,        \* trees final in the committed cache; all of them: the terminal watermark
  banded,       \* trees assigned to a band (tree_band)
  emitted,      \* _next_band_id, _terminal_band_emitted
  pipe,         \* _band_pipe: bands posted to the uploader's loop
  queue,        \* _queued: bands waiting for the one in flight
  session,      \* what the uploader keeps from band to band
  frame,        \* process_band: the band in flight and how far it is
  bucket,       \* the destination: data objects, band manifests, root manifest
  noted,        \* ghost: blobs ever reported uploaded to the cache tier, with their object
  crashes

vars == <<final, banded, emitted, pipe, queue, session, frame, bucket, noted, crashes>>

Put(f, x, y) == [z \in DOMAIN f \cup {x} |-> IF z = x THEN y ELSE f[z]]
Empty == [x \in {} |-> 0]

Job(band, trees, terminal) == [band |-> band, trees |-> trees, terminal |-> terminal]

\* What an object holds; a remapped tree and the registry refer to objects.
BlobObject(b) == [kind |-> "blob", of |-> b, refs |-> Empty]
TreeObject(t, located) == [kind |-> "tree", of |-> t, refs |-> [b \in ToSet(BlobsOf[t]) |-> located[b]]]
RegistryObject(located) == [kind |-> "registry", of |-> 0, refs |-> located]
AttributesObject == [kind |-> "attributes", of |-> 0, refs |-> Empty]

NoManifest == [trees |-> Empty, blobs |-> Empty]
Frame(pc, job, todo) ==
  [pc |-> pc, job |-> job, todo |-> todo, window |-> {}, failed |-> FALSE, manifest |-> NoManifest]
NoFrame == Frame("idle", Job(0, {}, FALSE), [blobs |-> {}, trees |-> {}])

Root(bands, complete, next, registry) ==
  [bands |-> bands, complete |-> complete, next |-> next, registry |-> registry]
NoRegistry == 0 - 1

\* What is left of a band: places in the storage maps of its trees, then the trees.
Work(job) ==
  [blobs |-> UNION {{t} \X DOMAIN BlobsOf[t] : t \in job.trees}, trees |-> job.trees]

Earlier(p, q) == p[1] < q[1] \/ (p[1] = q[1] /\ p[2] < q[2])

Started(job) == Frame("work", job, Work(job))
-----------------------------------------------------------------------------
(***************************************************************************)
(* The session and its reconstruction from a bucket (bootstrap).           *)
(***************************************************************************)
\* Bands committed by earlier sessions count as resumed.
Session(dedup, trees, next, bands) ==
  [dedup |-> dedup, trees |-> trees, next |-> next, bands |-> bands, enqueued |-> 0, resumed |-> bands]
NewSession == Session(Empty, Empty, 0, 0)

Merged(f, g) == [x \in DOMAIN f \cup DOMAIN g |-> IF x \in DOMAIN g THEN g[x] ELSE f[x]]

\* The maps of n manifests in one; a later band has the last word.
Gathered(n, map) ==
  LET bands == 0 .. n - 1
      Latest(x) == CHOOSE k \in bands : x \in DOMAIN map[k] /\ \A l \in bands : l > k => x \notin DOMAIN map[l]
  IN  [x \in UNION {DOMAIN map[k] : k \in bands} |-> map[Latest(x)][x]]

TreesIn(b) == Gathered(b.root.bands, [k \in DOMAIN b.bands |-> b.bands[k].trees])
BlobsIn(b) == Gathered(b.root.bands, [k \in DOMAIN b.bands |-> b.bands[k].blobs])

\* Mutant: the blobs of committed bands are forgotten.
MutBootstrapped(b) == Session(Empty, TreesIn(b), b.root.next, b.root.bands)

Bootstrapped(b) == Session(BlobsIn(b), TreesIn(b), b.root.next, b.root.bands)

\* What the tree loop is told on resume (set_band_sink).
SinkSeed(b) == [next |-> b.root.bands, terminal |-> b.root.complete]

Refused == frame.pc = "refused"
Parked == frame.pc = "parked"

\* Mutant: the bands of earlier sessions are not taken into account.
MutDrained == Parked \/ session.bands >= session.enqueued

\* drained(), and what wait_drained waits for.
Drained == Parked \/ session.bands >= session.enqueued + session.resumed

Init ==
  /\ final = {} /\ banded = {} /\ emitted = [next |-> 0, terminal |-> FALSE]
  /\ pipe = <<>> /\ queue = <<>>
  /\ session = NewSession /\ frame = NoFrame
  /\ bucket = [objects |-> Empty, bands |-> Empty, root |-> Root(0, FALSE, 0, NoRegistry)]
  /\ noted = {} /\ crashes = 0
-----------------------------------------------------------------------------
(***************************************************************************)
(* The tree loop: a checkpoint commits with more trees final and the band  *)
(* of those not in one is emitted; nothing to ship, no band.               *)
(***************************************************************************)
EmitBand ==
  \E now \in SUBSET Trees :
    LET job == Job(emitted.next, now \ banded, now = Trees) IN
    /\ final \subseteq now /\ ~Refused
    /\ Len(pipe) + Len(queue) < MaxWaiting
    /\ job.trees # {} \/ (job.terminal /\ ~emitted.terminal)
    /\ final' = now /\ banded' = now
    /\ emitted' = [next |-> emitted.next + 1, terminal |-> emitted.terminal \/ job.terminal]
    /\ session' = [session EXCEPT !.enqueued = @ + 1]
    /\ pipe' = Append(pipe, job)
    /\ UNCHANGED <<queue, frame, bucket, noted, crashes>>

\* handle_band: queue the band; if none is in flight, take the first.
HandleBand ==
  /\ pipe # <<>> /\ pipe' = Tail(pipe)
  /\ IF frame.pc = "idle"
     THEN LET waiting == Append(queue, Head(pipe))
          IN  frame' = Started(Head(waiting)) /\ queue' = Tail(waiting)
     ELSE queue' = Append(queue, Head(pipe)) /\ UNCHANGED frame
  /\ UNCHANGED <<final, banded, emitted, session, bucket, noted, crashes>>

(***************************************************************************)
(* The uploader's loop: one step of process_band.                          *)
(***************************************************************************)
\* The place of a blob, or the tree, whose turn it is.
BlobTurn(p) ==
  /\ frame.pc = "work" /\ p \in frame.todo.blobs
  /\ \A q \in frame.todo.blobs : ~Earlier(q, p)
TreeTurn(t) ==
  /\ frame.pc \in {"work", "room"} /\ frame.todo.blobs = {} /\ t \in frame.todo.trees
  /\ \A u \in frame.todo.trees : t <= u
BlobAt(p) == BlobsOf[p[1]][p[2]]

HasRoom == Cardinality(frame.window) < MaxPuts
Request(id, content) == [id |-> id, content |-> content]
UploaderOnly == UNCHANGED <<final, banded, emitted, pipe, queue, noted, crashes>>

\* Uploaded by an earlier band or tree.
SkipBlob ==
  \E p \in frame.todo.blobs :
    /\ BlobTurn(p) /\ BlobAt(p) \in DOMAIN session.dedup
    /\ frame' = [frame EXCEPT !.todo.blobs = @ \ {p}]
    /\ UploaderOnly /\ UNCHANGED <<session, bucket>>

UploadBlob ==
  \E p \in frame.todo.blobs :
    LET b == BlobAt(p) IN
    /\ BlobTurn(p) /\ b \notin DOMAIN session.dedup
    /\ ~frame.failed /\ HasRoom
    /\ frame' = [frame EXCEPT !.todo.blobs = @ \ {p}, !.manifest.blobs = Put(@, b, session.next),
                              !.window = @ \cup {Request(session.next, BlobObject(b))}]
    /\ session' = [session EXCEPT !.next = @ + 1, !.dedup = Put(@, b, session.next)]
    /\ UploaderOnly /\ UNCHANGED bucket

\* No PUT has failed yet, and the window is full.
AwaitRoom ==
  /\ frame.pc = "work" /\ ~frame.failed /\ ~HasRoom
  /\ \E t \in frame.todo.trees : TreeTurn(t)
  /\ frame' = [frame EXCEPT !.pc = "room"]
  /\ UploaderOnly /\ UNCHANGED <<session, bucket>>

\* A PUT that fails while the next one waits for room does not stop it.
UploadTree ==
  \E t \in frame.todo.trees :
    /\ TreeTurn(t) /\ (frame.pc = "work" => ~frame.failed) /\ HasRoom
    /\ frame' = [frame EXCEPT !.pc = "work", !.todo.trees = @ \ {t}, !.manifest.trees = Put(@, t, session.next),
                              !.window = @ \cup {Request(session.next, TreeObject(t, session.dedup))}]
    /\ session' = [session EXCEPT !.next = @ + 1, !.trees = Put(@, t, session.next)]
    /\ UploaderOnly /\ UNCHANGED bucket

\* A tree or a blob cannot be read from the cache: drain the window, then park.
ReadFails ==
  /\ frame.pc = "work" /\ frame.todo.blobs # {}
  /\ frame' = [frame EXCEPT !.pc = "failing"]
  /\ UploaderOnly /\ UNCHANGED <<session, bucket>>

\* A PUT of this band has failed: no more are launched.
BreakOff ==
  /\ frame.pc = "work" /\ frame.failed
  /\ frame' = [frame EXCEPT !.pc = "drain"]
  /\ UploaderOnly /\ UNCHANGED <<session, bucket>>

\* Everything is launched.  A terminal band adds the registry and the attributes, past the window.
FinishLaunching ==
  /\ frame.pc = "work" /\ frame.todo = NoFrame.todo /\ ~frame.failed
  /\ IF ~frame.job.terminal
     THEN frame' = [frame EXCEPT !.pc = "drain"] /\ UNCHANGED session
     ELSE IF DOMAIN session.trees # Trees
     THEN frame' = [frame EXCEPT !.pc = "failing"] /\ UNCHANGED session
     ELSE /\ frame' = [frame EXCEPT !.pc = "drain", !.window = @ \cup
                         {Request(session.next, RegistryObject(session.trees)),
                          Request(session.next + 1, AttributesObject)}]
          /\ session' = [session EXCEPT !.next = @ + 2]
  /\ UploaderOnly /\ UNCHANGED bucket

\* put_with_retry ends: the object is there, or the retries are used up and it may be there.
PutDone ==
  \E put \in frame.window :
    /\ bucket' = [bucket EXCEPT !.objects = Put(@, put.id, put.content)]
    /\ frame' = [frame EXCEPT !.window = @ \ {put}]
    /\ UploaderOnly /\ UNCHANGED session

PutFails ==
  \E put \in frame.window, landed \in BOOLEAN :
    /\ bucket' = IF landed THEN [bucket EXCEPT !.objects = Put(@, put.id, put.content)] ELSE bucket
    /\ frame' = [frame EXCEPT !.window = @ \ {put}, !.failed = TRUE]
    /\ UploaderOnly /\ UNCHANGED session

Park == [NoFrame EXCEPT !.pc = "parked"]

\* Mutant: the band manifest does not wait for the data objects.
MutWindowDrained ==
  /\ frame.pc \in {"drain", "failing"}
  /\ frame' = IF frame.failed \/ frame.pc = "failing" THEN Park ELSE [frame EXCEPT !.pc = "manifest"]
  /\ UploaderOnly /\ UNCHANGED <<session, bucket>>

WindowDrained ==
  /\ frame.pc \in {"drain", "failing"} /\ frame.window = {}
  /\ frame' = IF frame.failed \/ frame.pc = "failing" THEN Park ELSE [frame EXCEPT !.pc = "manifest"]
  /\ UploaderOnly /\ UNCHANGED <<session, bucket>>

WithBand == [bucket EXCEPT !.bands = Put(@, frame.job.band, frame.manifest)]
RegistryId == session.next - 2
WithRoot ==
  [bucket EXCEPT !.root = Root(frame.job.band + 1, frame.job.terminal, session.next,
                               IF frame.job.terminal THEN RegistryId ELSE NoRegistry)]

\* Mutant: the cache tier hears of the blobs when the band manifest is written.
MutPutBandManifest ==
  /\ frame.pc = "manifest"
  /\ bucket' = WithBand /\ frame' = [frame EXCEPT !.pc = "root"]
  /\ noted' = noted \cup {<<b, frame.manifest.blobs[b]>> : b \in DOMAIN frame.manifest.blobs}
  /\ UNCHANGED <<final, banded, emitted, pipe, queue, session, crashes>>

PutBandManifest ==
  /\ frame.pc = "manifest"
  /\ bucket' = WithBand /\ frame' = [frame EXCEPT !.pc = "root"]
  /\ UploaderOnly /\ UNCHANGED session

\* A manifest PUT fails for good, with or without the manifest in the bucket.
ManifestFails ==
  /\ \/ frame.pc = "manifest" /\ bucket' \in {bucket, WithBand}
     \/ frame.pc = "root" /\ bucket' \in {bucket, WithRoot}
  /\ frame' = Park
  /\ UploaderOnly /\ UNCHANGED session

\* Mutant: a finished band leaves the next one where it is.
MutTakeNext == frame' = NoFrame /\ UNCHANGED queue

(***************************************************************************)
(* The band in flight has returned.  The first of the queue is taken off   *)
(* and handed to handle_band, which queues it again, at the end, and takes *)
(* up the first.                                                           *)
(***************************************************************************)
TakeNext ==
  IF queue = <<>>
  THEN frame' = NoFrame /\ UNCHANGED queue
  ELSE LET requeued == Append(Tail(queue), Head(queue))
       IN  frame' = Started(Head(requeued)) /\ queue' = Tail(requeued)

\* The root manifest is replaced: the band is committed and reported.
PutRootManifest ==
  /\ frame.pc = "root"
  /\ bucket' = WithRoot
  /\ session' = [session EXCEPT !.bands = frame.job.band + 1]
  /\ noted' = noted \cup {<<b, frame.manifest.blobs[b]>> : b \in DOMAIN frame.manifest.blobs}
  /\ TakeNext
  /\ UNCHANGED <<final, banded, emitted, pipe, crashes>>

(***************************************************************************)
(* The process dies, with any of its PUTs having reached the bucket, and a *)
(* new one bootstraps.  The cache is back at its committed checkpoint: its *)
(* trees are as final as before, and those the bucket does not know are in *)
(* no band (restore_uploaded_trees).                                       *)
(***************************************************************************)
Crash ==
  /\ crashes < MaxCrashes /\ crashes' = crashes + 1
  /\ \E landed \in SUBSET frame.window,
        found \in {bucket} \cup (IF frame.pc = "manifest" THEN {WithBand} ELSE {})
                           \cup (IF frame.pc = "root" THEN {WithRoot} ELSE {}) :
       LET b == [found EXCEPT !.objects =
                   Merged(@, [i \in {p.id : p \in landed} |->
                                (CHOOSE p \in landed : p.id = i).content])]
           readable == \A k \in 0 .. b.root.bands - 1 : k \in DOMAIN b.bands
       IN  /\ bucket' = b
           /\ IF readable
              THEN /\ session' = Bootstrapped(b) /\ frame' = NoFrame
                   /\ banded' = DOMAIN Bootstrapped(b).trees
                   /\ emitted' = SinkSeed(b)
              ELSE /\ session' = NewSession /\ frame' = [NoFrame EXCEPT !.pc = "refused"]
                   /\ UNCHANGED <<banded, emitted>>
  /\ pipe' = <<>> /\ queue' = <<>>
  /\ UNCHANGED <<final, noted>>

Uploader == \/ HandleBand \/ SkipBlob \/ UploadBlob \/ AwaitRoom \/ UploadTree \/ BreakOff \/ FinishLaunching
            \/ WindowDrained \/ PutBandManifest \/ PutRootManifest

Next == EmitBand \/ Uploader \/ PutDone \/ PutFails \/ ReadFails \/ ManifestFails \/ Crash

\* The uploader's loop runs what is ready, and every PUT ends, one way or the other.
Fairness == WF_vars(Uploader) /\ WF_vars(PutDone \/ PutFails)

Spec == Init /\ [][Next]_vars /\ Fairness
-----------------------------------------------------------------------------
(***************************************************************************)
(* Properties.                                                             *)
(***************************************************************************)
Content(id) == bucket.objects[id]
Holds(id, kind, of) == id \in DOMAIN bucket.objects /\ Content(id).kind = kind /\ Content(id).of = of
Committed == {k \in 0 .. bucket.root.bands - 1 : k \in DOMAIN bucket.bands}

\* Among the rest: no two PUTs in flight write the same object.
TypeOK ==
  /\ final \subseteq Trees /\ banded \subseteq final
  /\ emitted \in [next : Nat, terminal : BOOLEAN]
  /\ frame.pc \in {"idle", "work", "room", "failing", "drain", "manifest", "root", "parked", "refused"}
  /\ \A p, q \in frame.window : p.id < session.next /\ (p.id = q.id => p = q)
  /\ session.bands \in Nat /\ session.enqueued \in Nat /\ crashes \in 0 .. MaxCrashes

\* Every band below the root manifest's count has its manifest (bucket_format.hpp).
CommittedBandsPresent == \A k \in 0 .. bucket.root.bands - 1 : k \in DOMAIN bucket.bands

TreeReadable(t, id) ==
  /\ Holds(id, "tree", t)
  /\ \A b \in ToSet(BlobsOf[t]) : Holds(Content(id).refs[b], "blob", b)

\* A complete bucket has a registry that leads to all trees.
CommittedReadable ==
  /\ \A k \in Committed : \A t \in DOMAIN bucket.bands[k].trees :
       TreeReadable(t, bucket.bands[k].trees[t])
  /\ bucket.root.complete =>
       /\ Holds(bucket.root.registry, "registry", 0)
       /\ LET located == Content(bucket.root.registry).refs
          IN  \A t \in Trees : t \in DOMAIN located /\ TreeReadable(t, located[t])

\* What the cache tier is told is uploaded is in the bucket under that name, in a committed band.
NotedIsCommitted ==
  \A n \in noted : /\ Holds(n[2], "blob", n[1])
                   /\ \E k \in Committed : n[1] \in DOMAIN bucket.bands[k].blobs

(***************************************************************************)
(* At every moment, and so for a reader in mid-conversion and after any    *)
(* crash, a committed tree can be read from the bucket: its object is      *)
(* there, and each of its blobs is in the object it refers to; and so is   *)
(* every blob whose local bytes the cache tier may punch.                  *)
(***************************************************************************)
BucketReadable == CommittedReadable /\ NotedIsCommitted

\* No blob is uploaded by two committed bands, and no object serves two of their entries.
UploadedOnce ==
  \A j, k \in Committed : j # k =>
    LET m == bucket.bands[j]
        n == bucket.bands[k]
    IN  /\ DOMAIN m.blobs \cap DOMAIN n.blobs = {} /\ DOMAIN m.trees \cap DOMAIN n.trees = {}
        /\ (Range(m.blobs) \cup Range(m.trees)) \cap (Range(n.blobs) \cup Range(n.trees)) = {}

\* wait_drained lets wait_idle return only when every band is in the bucket, or the uploader parked.
DrainedIsDurable ==
  Drained /\ ~Parked => \A t \in banded : \E k \in Committed : t \in DOMAIN bucket.bands[k].trees

\* wait_drained always returns.
WaitDrainedReturns == []<>(Drained \/ Refused)
=============================================================================
