--------------------------- MODULE ObjectBackend ---------------------------
(***************************************************************************)
(* A dataset in a bucket, written without a cache: one object to the blob  *)
(* (object_backend_t), named by a counter; a checkpoint (the chain of      *)
(* tree_handler_t through storage_handler_t) PUTs the dirty trees, their   *)
(* registry and three metadata blobs, then replaces the manifest, and only *)
(* then removes what it superseded.  And dew copy, which writes a dataset  *)
(* in the other layout, one object after the other, the root manifest      *)
(* last.  A PUT may fail whether or not it was applied; a crash leaves     *)
(* only the bucket.                                                        *)
(*                                                                         *)
(* A location is an object's id; "by", the session that allocated it, is a *)
(* ghost that tells an object from a later one of the same name.           *)
(***************************************************************************)
EXTENDS Integers, FiniteSets, SequencesExt

CONSTANTS
  Trees,        \* tree ids
  Source,       \* the dataset dew copy reads: the blobs each of its trees refers to
  FailingPuts,  \* the PUTs that may fail, by kind of object
  Restarts,     \* how a session may begin anew over a dataset: "truncate", "lost probe"
  CopyOver,     \* the layouts dew copy --force overwrites
  MaxUnits,     \* blobs written, over all sessions
  MaxChains,    \* checkpoints begun
  MaxFailures,
  MaxSessions

ASSUME ObjectBackendAssumption ==
  /\ Trees \subseteq Nat /\ IsFiniteSet(Trees)
  /\ DOMAIN Source \subseteq Trees /\ \A t \in DOMAIN Source : IsFiniteSet(Source[t])
  /\ FailingPuts \subseteq {"data", "tree", "registry", "attributes", "stats", "perf", "manifest", "copy"}
  /\ Restarts \subseteq {"truncate", "lost probe"} /\ CopyOver \subseteq {"DEW0", "DEW2"}
  /\ {MaxUnits, MaxChains, MaxFailures, MaxSessions} \subseteq Nat

VARIABLES
  bucket,       \* the objects by name
  mode,         \* "closed", "writing", "copying"
  session,      \* how many sessions and copies there were; the number of the last
  backend,      \* object_backend_t: _next_id and the committed metadata's locations
  registry,     \* _tree_registry.locations
  memory,       \* the trees in memory: their blobs, the dirty flag, the discards
  writes,       \* blobs allocated, their PUT under way
  chain,        \* the serialize chain, or what is left to copy
  used,         \* units written and chains begun
  failures,
  named         \* ghost: the objects any committed manifest ever named

objectVars == <<bucket, mode, session, backend, registry, memory, writes, chain, used, failures, named>>

Manifest == <<"manifest", 0>>
\* object_name and bucket_data_object_name
Name(layout, location) == <<IF layout = "DEW2" THEN "data" ELSE "blob", location.id>>

NoLocation == [id |-> 0, by |-> 0]
MetaKinds == <<"attributes", "stats", "perf">>
NoMeta == [k \in {"attributes", "stats", "perf", "registry"} |-> NoLocation]
Empty == [x \in {} |-> NoLocation]

DataObject(by) == [kind |-> "data", by |-> by]
MetaObject(kind, by) == [kind |-> kind, by |-> by]
TreeObject(units, by) == [kind |-> "tree", by |-> by, units |-> units]
RegistryObject(trees, by) == [kind |-> "registry", by |-> by, trees |-> trees]
ManifestObject(layout, next, meta, born) ==
  [kind |-> layout, by |-> born, next |-> next, meta |-> meta]

\* tree ids in rising order
InOrder(S) == [k \in 1 .. Cardinality(S) |-> CHOOSE t \in S : Cardinality({s \in S : s < t}) = k - 1]

Clean == [units |-> {}, dirty |-> FALSE, discards |-> {}]
NoChain == [at |-> "idle"]
NoBackend == [next |-> 0, meta |-> NoMeta, born |-> 0]
Forgotten ==
  /\ mode' = "closed" /\ backend' = NoBackend /\ registry' = Empty
  /\ memory' = [t \in Trees |-> Clean] /\ writes' = {} /\ chain' = NoChain

ObjectsInit ==
  /\ bucket = Empty /\ mode = "closed" /\ session = 0 /\ backend = NoBackend
  /\ registry = Empty /\ memory = [t \in Trees |-> Clean] /\ writes = {} /\ chain = NoChain
  /\ used = [units |-> 0, chains |-> 0] /\ failures = 0 /\ named = {}

-----------------------------------------------------------------------------
(* The store, and what is read of it.                                      *)

HoldsKind(b, name, kind) == name \in DOMAIN b /\ b[name].kind = kind
Stored(name, object) == [n \in DOMAIN bucket \cup {name} |-> IF n = name THEN object ELSE bucket[n]]

\* write_object: it fails in either of two ways
Put(name, object, kind, ok) ==
  \/ ok /\ bucket' = Stored(name, object) /\ UNCHANGED failures
  \/ /\ ~ok /\ kind \in FailingPuts /\ failures < MaxFailures
     /\ failures' = failures + 1
     /\ bucket' \in {bucket, Stored(name, object)}

\* What a reader finds from the manifest on: do_read_index, read_location and
\* then read_blob of the trees and their blobs; each by its name and who put it there.
Exists(b) == Manifest \in DOMAIN b
Layout(b) == b[Manifest].kind
RegistryName(b) == Name(Layout(b), b[Manifest].meta["registry"])
LocationsOf(b) == IF HoldsKind(b, RegistryName(b), "registry") THEN b[RegistryName(b)].trees ELSE Empty
UnitsOf(b, location) ==
  LET name == Name(Layout(b), location)
  IN  IF HoldsKind(b, name, "tree") THEN b[name].units ELSE {}
Reachable(b) ==
  IF ~Exists(b) THEN {}
  ELSE LET trees == {LocationsOf(b)[t] : t \in DOMAIN LocationsOf(b)}
           all == {b[Manifest].meta[k] : k \in DOMAIN NoMeta} \cup trees \cup UNION {UnitsOf(b, l) : l \in trees}
       IN  {[name |-> Name(Layout(b), l), by |-> l.by] : l \in all \ {NoLocation}}
Intact(b) == \A o \in Reachable(b) : o.name \in DOMAIN b /\ b[o.name].by = o.by

-----------------------------------------------------------------------------
(* Opening: processor_t's constructor and upgrade_to_write.                *)

BeginSession(next, meta, born, restored) ==
  /\ session < MaxSessions /\ session' = session + 1
  /\ mode' = "writing"
  /\ backend' = [next |-> next, meta |-> meta, born |-> born]
  /\ registry' = restored
  /\ memory' = [t \in Trees |->
                 [Clean EXCEPT !.units = IF t \in DOMAIN restored THEN UnitsOf(bucket, restored[t]) ELSE {}]]
  /\ UNCHANGED <<bucket, writes, chain, used, failures, named>>

\* exists() is FALSE of a bucket without manifest, and where its probe fails
Create ==
  /\ mode = "closed" /\ (Exists(bucket) => "lost probe" \in Restarts)
  /\ BeginSession(0, NoMeta, session + 1, Empty)

\* A dataset of the other layout is refused.  open_for_write(true) forgets what
\* the backend knew, after the index was read into the registry and the trees,
\* which upgrade_to_write leaves as they are.
\* mutant: the counter is not restored from the manifest
MutOpenExisting ==
  /\ mode = "closed" /\ Exists(bucket) /\ Layout(bucket) = "DEW0" /\ Intact(bucket)
  /\ BeginSession(0, bucket[Manifest].meta, bucket[Manifest].by, LocationsOf(bucket))

OpenExisting ==
  /\ mode = "closed" /\ Exists(bucket) /\ Layout(bucket) = "DEW0" /\ Intact(bucket)
  /\ \/ BeginSession(bucket[Manifest].next, bucket[Manifest].meta, bucket[Manifest].by, LocationsOf(bucket))
     \/ "truncate" \in Restarts /\ BeginSession(0, NoMeta, session + 1, LocationsOf(bucket))

SessionCrash ==
  /\ mode # "closed"
  /\ Forgotten
  /\ UNCHANGED <<bucket, session, used, failures, named>>

-----------------------------------------------------------------------------
(* Blobs: do_write_events. *)

NextLocation(k) == [id |-> backend.next + k - 1, by |-> session]
Allocated(n) == [backend EXCEPT !.next = @ + n]

StartWrite(t) ==
  /\ mode = "writing" /\ used.units < MaxUnits
  /\ writes' = writes \cup {[tree |-> t, location |-> NextLocation(1)]}
  /\ backend' = Allocated(1)
  /\ used' = [used EXCEPT !.units = @ + 1]
  /\ UNCHANGED <<bucket, mode, session, registry, memory, chain, failures, named>>

\* The location is handed on even when the PUT failed (the error goes to the
\* processor); the tree may drop blobs for it.
FinishWrite(w) ==
  /\ mode = "writing" /\ w \in writes
  /\ \E ok \in BOOLEAN : Put(Name("DEW0", w.location), DataObject(session), "data", ok)
  /\ writes' = writes \ {w}
  /\ \E dropped \in {{}} \cup {{u} : u \in memory[w.tree].units} :
       memory' = [memory EXCEPT ![w.tree] = [units |-> (@.units \ dropped) \cup {w.location},
                                             dirty |-> TRUE, discards |-> @.discards \cup dropped]]
  /\ UNCHANGED <<mode, session, backend, registry, chain, used, named>>

-----------------------------------------------------------------------------
(* The checkpoint: do_serialize_trees. *)

AtPhase(at) == mode = "writing" /\ chain.at = at

\* Trees are serialized, and their flags and discards taken, before anything is
\* written (do_write_trees allocates for all of them at first).
StartChain ==
  /\ AtPhase("idle") /\ used.chains < MaxChains
  /\ LET dirty == InOrder({t \in Trees : memory[t].dirty})
     IN  /\ chain' = [at |-> "trees", failed |-> FALSE,
                      todo |-> [k \in DOMAIN dirty |->
                                  [tree |-> dirty[k], location |-> NextLocation(k),
                                   object |-> TreeObject(memory[dirty[k]].units, session)]],
                      written |-> [t \in ToSet(dirty) |-> NextLocation(CHOOSE k \in DOMAIN dirty : dirty[k] = t)],
                      discards |-> [t \in ToSet(dirty) |-> memory[t].discards]]
         /\ backend' = Allocated(Len(dirty))
  /\ memory' = [t \in Trees |-> [memory[t] EXCEPT !.dirty = FALSE, !.discards = {}]]
  /\ used' = [used EXCEPT !.chains = @ + 1]
  /\ UNCHANGED <<bucket, mode, session, registry, writes, failures, named>>

WriteTree ==
  /\ AtPhase("trees") /\ chain.todo # <<>>
  /\ \E ok \in BOOLEAN :
       /\ Put(Name("DEW0", Head(chain.todo).location), Head(chain.todo).object, "tree", ok)
       /\ chain' = [chain EXCEPT !.todo = Tail(@), !.failed = @ \/ ~ok]
  /\ UNCHANGED <<mode, session, backend, registry, memory, writes, used, named>>

\* restore_failed_serialize
TreesFailed ==
  /\ AtPhase("trees") /\ chain.todo = <<>> /\ chain.failed
  /\ memory' = [t \in Trees |->
                 IF t \in DOMAIN chain.discards
                   THEN [memory[t] EXCEPT !.dirty = TRUE, !.discards = @ \cup chain.discards[t]]
                   ELSE memory[t]]
  /\ chain' = NoChain
  /\ UNCHANGED <<bucket, mode, session, backend, registry, writes, used, failures, named>>

\* The old tree locations are freed only where their offset is above 0, and here
\* it is the upper half of the id: the objects stay.  do_write_tree_registry
\* allocates.
TreesWritten ==
  /\ AtPhase("trees") /\ chain.todo = <<>> /\ ~chain.failed
  /\ LET locations == [t \in DOMAIN registry \cup DOMAIN chain.written |->
                         IF t \in DOMAIN chain.written THEN chain.written[t] ELSE registry[t]]
     IN  /\ registry' = locations
         /\ chain' = [at |-> "registry", object |-> RegistryObject(locations, session),
                      freed |-> UNION {chain.discards[t] : t \in DOMAIN chain.discards},
                      meta |-> [NoMeta EXCEPT !["registry"] = NextLocation(1)]]
  /\ backend' = Allocated(1)
  /\ UNCHANGED <<bucket, mode, session, memory, writes, used, failures, named>>

\* The error of the registry's PUT is not looked at.
WriteRegistry ==
  /\ AtPhase("registry")
  /\ \E ok \in BOOLEAN : Put(Name("DEW0", chain.meta["registry"]), chain.object, "registry", ok)
  /\ chain' = [at |-> "attributes", freed |-> chain.freed, meta |-> chain.meta]
  /\ UNCHANGED <<mode, session, backend, registry, memory, writes, used, named>>

\* write_index: the three metadata objects, each allocated before it is put; and
\* after the last the snapshot of the counter.
After(at) == IF at = "attributes" THEN "stats" ELSE IF at = "stats" THEN "perf" ELSE "manifest"
\* mutant: the snapshot of the counter is taken before the object is allocated
MutWriteMeta ==
  /\ \E k \in ToSet(MetaKinds) : AtPhase(k)
  /\ backend' = Allocated(1)
  /\ \E ok \in BOOLEAN :
       /\ Put(Name("DEW0", NextLocation(1)), MetaObject(chain.at, session), chain.at, ok)
       /\ chain' = IF ~ok THEN NoChain
                   ELSE [at |-> After(chain.at), freed |-> chain.freed, next |-> backend.next,
                         meta |-> [chain.meta EXCEPT ![chain.at] = NextLocation(1)]]
  /\ UNCHANGED <<mode, session, registry, memory, writes, used, named>>

WriteMeta ==
  /\ \E k \in ToSet(MetaKinds) : AtPhase(k)
  /\ backend' = Allocated(1)
  /\ \E ok \in BOOLEAN :
       /\ Put(Name("DEW0", NextLocation(1)), MetaObject(chain.at, session), chain.at, ok)
       /\ chain' = IF ~ok THEN NoChain
                   ELSE [at |-> After(chain.at), freed |-> chain.freed, next |-> backend'.next,
                         meta |-> [chain.meta EXCEPT ![chain.at] = NextLocation(1)]]
  /\ UNCHANGED <<mode, session, registry, memory, writes, used, named>>

\* mutant: what is superseded is removed whether or not the manifest was written
MutWriteManifest ==
  /\ AtPhase("manifest")
  /\ LET object == ManifestObject("DEW0", chain.next, chain.meta, backend.born)
         old == {backend.meta[k] : k \in DOMAIN NoMeta} \ {NoLocation}
     IN  \E ok \in BOOLEAN :
           /\ Put(Manifest, object, "manifest", ok)
           /\ named' = IF Exists(bucket') THEN named \cup Reachable(bucket') ELSE named
           /\ backend' = [backend EXCEPT !.meta = chain.meta]
           /\ chain' = [at |-> "reclaim", todo |-> SetToSeq(chain.freed) \o SetToSeq(old)]
  /\ UNCHANGED <<mode, session, registry, memory, writes, used>>

\* the commit point
WriteManifest ==
  /\ AtPhase("manifest")
  /\ LET object == ManifestObject("DEW0", chain.next, chain.meta, backend.born)
         old == {backend.meta[k] : k \in DOMAIN NoMeta} \ {NoLocation}
     IN  \E ok \in BOOLEAN :
           /\ Put(Manifest, object, "manifest", ok)
           /\ named' = IF Exists(bucket') THEN named \cup Reachable(bucket') ELSE named
           /\ IF ok
                THEN /\ backend' = [backend EXCEPT !.meta = chain.meta]
                     /\ chain' = [at |-> "reclaim", todo |-> SetToSeq(chain.freed) \o SetToSeq(old)]
                ELSE chain' = NoChain /\ UNCHANGED backend
  /\ UNCHANGED <<mode, session, registry, memory, writes, used>>

\* best effort: a removal that fails leaves an orphan
RemoveOld ==
  /\ AtPhase("reclaim")
  /\ IF chain.todo = <<>>
       THEN chain' = NoChain /\ UNCHANGED bucket
       ELSE /\ LET name == Name("DEW0", Head(chain.todo))
               IN  bucket' = [n \in DOMAIN bucket \ {name} |-> bucket[n]]
            /\ chain' = [chain EXCEPT !.todo = Tail(@)]
  /\ UNCHANGED <<mode, session, backend, registry, memory, writes, used, failures, named>>

-----------------------------------------------------------------------------
(* dew copy into a bucket: do_copy_dew2. *)

\* The objects in the order of their ids: each blob once, the trees with their
\* blobs' new locations, the registry, the metadata; then the band and the root.
CopyPlan(by) ==
  LET blobs == SetToSeq(UNION {Source[t] : t \in DOMAIN Source})
      trees == InOrder(DOMAIN Source)
      at(k) == [id |-> k - 1, by |-> by]
      remap(b) == at(CHOOSE k \in DOMAIN blobs : blobs[k] = b)
      treeAt(t) == at(Len(blobs) + (CHOOSE k \in DOMAIN trees : trees[k] = t))
      rest == Len(blobs) + Len(trees)
      objects == [k \in DOMAIN blobs |-> DataObject(by)]
                   \o [k \in DOMAIN trees |-> TreeObject({remap(b) : b \in Source[trees[k]]}, by)]
                   \o <<RegistryObject([t \in DOMAIN Source |-> treeAt(t)], by)>>
                   \o [k \in DOMAIN MetaKinds |-> MetaObject(MetaKinds[k], by)]
      meta == [k \in DOMAIN NoMeta |->
                 IF k = "registry" THEN at(rest + 1)
                 ELSE at(rest + 1 + (CHOOSE i \in DOMAIN MetaKinds : MetaKinds[i] = k))]
  IN  [k \in DOMAIN objects |-> [name |-> Name("DEW2", at(k)), object |-> objects[k]]]
        \o <<[name |-> <<"bands", 0>>, object |-> MetaObject("band", by)],
             [name |-> Manifest, object |-> ManifestObject("DEW2", Len(objects), meta, by)]>>

CopyStart ==
  /\ mode = "closed" /\ session < MaxSessions
  /\ Exists(bucket) => Layout(bucket) \in CopyOver
  /\ session' = session + 1 /\ mode' = "copying"
  /\ chain' = [at |-> "copy", todo |-> CopyPlan(session + 1)]
  /\ UNCHANGED <<bucket, backend, registry, memory, writes, used, failures, named>>

\* mutant: an object that could not be put does not end the copy
MutCopyPut ==
  /\ mode = "copying"
  /\ \E ok \in BOOLEAN :
       LET todo == Tail(chain.todo)
       IN  /\ Put(Head(chain.todo).name, Head(chain.todo).object, "copy", ok)
           /\ IF todo = <<>> THEN mode' = "closed" /\ chain' = NoChain
                             ELSE mode' = mode /\ chain' = [chain EXCEPT !.todo = todo]
  /\ named' = IF Head(chain.todo).name = Manifest /\ Exists(bucket')
                THEN named \cup Reachable(bucket') ELSE named
  /\ UNCHANGED <<session, backend, registry, memory, writes, used>>

\* the first PUT, or read of the source, that fails ends it
CopyPut ==
  /\ mode = "copying"
  /\ \E ok \in BOOLEAN :
       LET todo == IF ok THEN Tail(chain.todo) ELSE <<>>
       IN  /\ Put(Head(chain.todo).name, Head(chain.todo).object, "copy", ok)
           /\ IF todo = <<>> THEN mode' = "closed" /\ chain' = NoChain
                             ELSE mode' = mode /\ chain' = [chain EXCEPT !.todo = todo]
  /\ named' = IF Head(chain.todo).name = Manifest /\ Exists(bucket')
                THEN named \cup Reachable(bucket') ELSE named
  /\ UNCHANGED <<session, backend, registry, memory, writes, used>>

-----------------------------------------------------------------------------

ObjectsNext ==
  \/ Create \/ OpenExisting \/ SessionCrash
  \/ \E t \in Trees : StartWrite(t)
  \/ \E w \in writes : FinishWrite(w)
  \/ StartChain \/ WriteTree \/ TreesFailed \/ TreesWritten \/ WriteRegistry
  \/ WriteMeta \/ WriteManifest \/ RemoveOld
  \/ CopyStart \/ CopyPut

ObjectsSpec == ObjectsInit /\ [][ObjectsNext]_objectVars

-----------------------------------------------------------------------------
(* Properties. *)

\* Whatever fails and wherever the program stops, each object that is reached
\* from the bucket's manifest is there, and is the one its location was given
\* for (object_backend_t::write_index: the manifest last, removals after it;
\* do_copy_dew2: the root manifest is the commit point).
DatasetIntact == Intact(bucket)

\* A reader that still works from an earlier manifest finds the objects that one
\* named or none: a name is never given to another blob, although ids handed
\* out after the last commit are handed out again by the next session.
StaleReadsFail == \A o \in named : o.name \in DOMAIN bucket => bucket[o.name].by = o.by

\* Both: a reader of the last manifest finds everything, and one of an earlier
\* manifest finds nothing else under the names it has (read_blob checks the size only).
BucketSound == DatasetIntact /\ StaleReadsFail

\* "The new manifest, written last, references only new objects" (of a session
\* that truncates).
OnlyNewObjects == Exists(bucket) => \A o \in Reachable(bucket) : o.by >= bucket[Manifest].by

\* The registry a committed index points at "is already written"
\* (storage_backend.hpp, checkpoint_t).
RegistryWritten == Exists(bucket) => HoldsKind(bucket, RegistryName(bucket), "registry")
=============================================================================
