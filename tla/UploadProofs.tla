---------------------------- MODULE UploadProofs ----------------------------
(***************************************************************************)
(* Theorems about UploadHandler, for any trees, blobs, window and number   *)
(* of crashes, while at most one band waits for the one in flight: with    *)
(* two waiting, the code takes them up out of turn.                        *)
(***************************************************************************)
EXTENDS UploadHandler, TLAPS

Bands(b) == 0 .. b.root.bands - 1

InObjects(b, id, kind, of) ==
  /\ id \in Nat /\ id \in DOMAIN b.objects /\ id < b.root.next
  /\ b.objects[id].kind = kind /\ b.objects[id].of = of
TreeFound(b, t, id) ==
  /\ InObjects(b, id, "tree", t)
  /\ \A x \in ToSet(BlobsOf[t]) : InObjects(b, b.objects[id].refs[x], "blob", x)

\* A bucket whose committed part is whole: its objects are named below the root's count.
Whole(b) ==
  /\ \A k \in Bands(b) : k \in DOMAIN b.bands
  /\ \A k \in Bands(b) : \A t \in DOMAIN b.bands[k].trees : TreeFound(b, t, b.bands[k].trees[t])
  /\ \A k \in Bands(b) : \A x \in DOMAIN b.bands[k].blobs : InObjects(b, b.bands[k].blobs[x], "blob", x)
  /\ b.root.complete =>
       /\ InObjects(b, b.root.registry, "registry", 0)
       /\ LET located == b.objects[b.root.registry].refs
          IN  \A t \in Trees : t \in DOMAIN located /\ TreeFound(b, t, located[t])

Parts(m) == Range(m.blobs) \cup Range(m.trees)

\* No two committed bands share a blob, a tree or an object.
Apart(b) ==
  \A j, k \in Bands(b) : j # k =>
    /\ DOMAIN b.bands[j].blobs \cap DOMAIN b.bands[k].blobs = {}
    /\ DOMAIN b.bands[j].trees \cap DOMAIN b.bands[k].trees = {}
    /\ Parts(b.bands[j]) \cap Parts(b.bands[k]) = {}

Told(b, told) ==
  \A n \in told : \E k \in Bands(b) : n[1] \in DOMAIN b.bands[k].blobs /\ n[2] = b.bands[k].blobs[n[1]]

TreeShipped(b, t) == \E k \in Bands(b) : t \in DOMAIN b.bands[k].trees
BlobShipped(b, x) == \E k \in Bands(b) : x \in DOMAIN b.bands[k].blobs

-----------------------------------------------------------------------------
(* The committed part of a bucket. *)

\* c has what is committed in b, and no more.
Keeps(b, c) ==
  /\ c.root = b.root
  /\ \A k \in Bands(b) : k \in DOMAIN b.bands => k \in DOMAIN c.bands /\ c.bands[k] = b.bands[k]
  /\ \A id \in DOMAIN b.objects : id \in Nat /\ id < b.root.next => id \in DOMAIN c.objects /\ c.objects[id] = b.objects[id]

LEMMA KeepsWhole ==
  ASSUME NEW b, NEW c, Keeps(b, c), Whole(b)
  PROVE  Whole(c)
<1>1. \A id, kind, of : InObjects(b, id, kind, of) => InObjects(c, id, kind, of) /\ c.objects[id] = b.objects[id]
  BY DEF Keeps, InObjects
<1>2. \A t, id : TreeFound(b, t, id) => TreeFound(c, t, id)
  BY <1>1 DEF TreeFound
<1>3. c.root = b.root /\ \A k \in Bands(b) : k \in DOMAIN c.bands /\ c.bands[k] = b.bands[k]
  BY DEF Keeps, Whole
<1>4. Bands(c) = Bands(b)
  BY <1>3 DEF Bands
<1>5. c.root.complete =>
       /\ InObjects(c, c.root.registry, "registry", 0)
       /\ \A t \in Trees : /\ t \in DOMAIN c.objects[c.root.registry].refs
                           /\ TreeFound(c, t, c.objects[c.root.registry].refs[t])
  <2> SUFFICES ASSUME b.root.complete
               PROVE  /\ InObjects(c, b.root.registry, "registry", 0)
                      /\ \A t \in Trees : /\ t \in DOMAIN c.objects[b.root.registry].refs
                                          /\ TreeFound(c, t, c.objects[b.root.registry].refs[t])
    BY <1>3
  <2>1. /\ InObjects(b, b.root.registry, "registry", 0)
        /\ \A t \in Trees : /\ t \in DOMAIN b.objects[b.root.registry].refs
                            /\ TreeFound(b, t, b.objects[b.root.registry].refs[t])
    BY DEF Whole
  <2>2. InObjects(c, b.root.registry, "registry", 0) /\ c.objects[b.root.registry] = b.objects[b.root.registry]
    BY <1>1, <2>1
  <2> QED
    BY <1>2, <2>1, <2>2
<1>6. \A k \in Bands(c) : \A t \in DOMAIN c.bands[k].trees : TreeFound(c, t, c.bands[k].trees[t])
  BY <1>2, <1>3, <1>4 DEF Whole
<1>7. \A k \in Bands(c) : \A x \in DOMAIN c.bands[k].blobs : InObjects(c, c.bands[k].blobs[x], "blob", x)
  BY <1>1, <1>3, <1>4 DEF Whole
<1> QED
  BY <1>3, <1>4, <1>5, <1>6, <1>7 DEF Whole

LEMMA KeepsApart ==
  ASSUME NEW b, NEW c, Keeps(b, c), Whole(b), Apart(b)
  PROVE  Apart(c)
<1>1. c.root = b.root /\ \A k \in Bands(b) : c.bands[k] = b.bands[k]
  BY DEF Keeps, Whole
<1>2. Bands(c) = Bands(b)
  BY <1>1 DEF Bands
<1> QED
  BY <1>1, <1>2 DEF Apart

LEMMA KeepsShipped ==
  ASSUME NEW b, NEW c, Keeps(b, c), Whole(b)
  PROVE  /\ \A told : Told(b, told) => Told(c, told)
         /\ \A t : TreeShipped(c, t) <=> TreeShipped(b, t)
         /\ \A x : BlobShipped(c, x) <=> BlobShipped(b, x)
         /\ Bands(c) = Bands(b) /\ \A k \in Bands(b) : c.bands[k] = b.bands[k]
<1>1. c.root = b.root /\ \A k \in Bands(b) : c.bands[k] = b.bands[k]
  BY DEF Keeps, Whole
<1>2. Bands(c) = Bands(b)
  BY <1>1 DEF Bands
<1> QED
  BY <1>1, <1>2 DEF Told, TreeShipped, BlobShipped

\* One more band, whose objects are all there.
LEMMA CommitsWhole ==
  ASSUME NEW b, NEW c, NEW m, NEW n \in Nat, b.root.bands = n, Whole(b), b.root.next \in Nat, c.root.next \in Nat,
         b.root.next <= c.root.next, c.root.bands = n + 1, c.objects = b.objects, c.bands = b.bands,
         n \in DOMAIN b.bands, b.bands[n] = m,
         \A x \in DOMAIN m.blobs : InObjects(c, m.blobs[x], "blob", x),
         \A t \in DOMAIN m.trees : TreeFound(c, t, m.trees[t]),
         c.root.complete =>
           /\ InObjects(c, c.root.registry, "registry", 0)
           /\ \A t \in Trees : /\ t \in DOMAIN c.objects[c.root.registry].refs
                               /\ TreeFound(c, t, c.objects[c.root.registry].refs[t])
  PROVE  Whole(c)
<1>1. \A id, kind, of : InObjects(b, id, kind, of) => InObjects(c, id, kind, of)
  BY DEF InObjects
<1>2. \A t, id : TreeFound(b, t, id) => TreeFound(c, t, id)
  BY <1>1 DEF TreeFound
<1>3. \A k \in Bands(c) : k = n \/ k \in Bands(b)
  BY DEF Bands
<1>4. \A k \in Bands(c) : \A t \in DOMAIN c.bands[k].trees : TreeFound(c, t, c.bands[k].trees[t])
  BY <1>2, <1>3 DEF Whole
<1>5. \A k \in Bands(c) : \A x \in DOMAIN c.bands[k].blobs : InObjects(c, c.bands[k].blobs[x], "blob", x)
  BY <1>1, <1>3 DEF Whole
<1>6. \A k \in Bands(c) : k \in DOMAIN c.bands
  BY <1>3 DEF Whole
<1> QED
  BY <1>4, <1>5, <1>6 DEF Whole

LEMMA CommitsApart ==
  ASSUME NEW b, NEW c, NEW m, NEW n \in Nat, b.root.bands = n, Whole(b), Apart(b), b.root.next \in Nat,
         c.root.bands = n + 1, c.bands = b.bands, b.bands[n] = m,
         \A x \in DOMAIN m.blobs : ~BlobShipped(b, x) /\ b.root.next <= m.blobs[x],
         \A t \in DOMAIN m.trees : ~TreeShipped(b, t) /\ b.root.next <= m.trees[t]
  PROVE  Apart(c)
<1>1. \A k \in Bands(c) : k = n \/ k \in Bands(b)
  BY DEF Bands
<1>2. \A k \in Bands(b) : \A i \in Parts(b.bands[k]) : i \in Nat /\ i < b.root.next
  <2> SUFFICES ASSUME NEW k \in Bands(b), NEW i \in Parts(b.bands[k]) PROVE i \in Nat /\ i < b.root.next
    OBVIOUS
  <2>1. CASE \E x \in DOMAIN b.bands[k].blobs : i = b.bands[k].blobs[x]
    BY <2>1 DEF Whole, InObjects
  <2>2. CASE \E t \in DOMAIN b.bands[k].trees : i = b.bands[k].trees[t]
    <3>1. PICK t \in DOMAIN b.bands[k].trees : i = b.bands[k].trees[t]
      BY <2>2
    <3>2. TreeFound(b, t, i)
      BY <3>1 DEF Whole
    <3> QED
      BY <3>2 DEF TreeFound, InObjects
  <2> QED
    BY <2>1, <2>2 DEF Parts, Range
<1>3. \A i \in Parts(m) : b.root.next <= i
  BY DEF Parts, Range
<1>4. \A i \in Nat : ~(i < b.root.next /\ b.root.next <= i)
  OBVIOUS
<1>5. \A k \in Bands(b) : /\ DOMAIN b.bands[k].blobs \cap DOMAIN m.blobs = {}
                          /\ DOMAIN b.bands[k].trees \cap DOMAIN m.trees = {}
                          /\ Parts(b.bands[k]) \cap Parts(m) = {}
  BY <1>2, <1>3, <1>4 DEF BlobShipped, TreeShipped
<1> SUFFICES ASSUME NEW j \in Bands(c), NEW k \in Bands(c), j # k
             PROVE  /\ DOMAIN c.bands[j].blobs \cap DOMAIN c.bands[k].blobs = {}
                    /\ DOMAIN c.bands[j].trees \cap DOMAIN c.bands[k].trees = {}
                    /\ Parts(c.bands[j]) \cap Parts(c.bands[k]) = {}
  BY DEF Apart
<1>6. CASE j \in Bands(b) /\ k \in Bands(b)
  BY <1>6 DEF Apart
<1>7. CASE j = n /\ k \in Bands(b)
  <2>1. b.bands[n] = m /\ c.bands[n] = m /\ c.bands[k] = b.bands[k]
    OBVIOUS
  <2> QED
    BY <1>5, <1>7, <2>1
<1>8. CASE k = n /\ j \in Bands(b)
  BY <1>5, <1>8
<1> QED
  BY <1>1, <1>6, <1>7, <1>8

LEMMA CommitsShipped ==
  ASSUME NEW b, NEW c, NEW m, NEW n \in Nat, b.root.bands = n, c.root.bands = n + 1, c.bands = b.bands, b.bands[n] = m
  PROVE  /\ Bands(c) = Bands(b) \cup {n}
         /\ \A t : TreeShipped(c, t) <=> TreeShipped(b, t) \/ t \in DOMAIN m.trees
         /\ \A x : BlobShipped(c, x) <=> BlobShipped(b, x) \/ x \in DOMAIN m.blobs
         /\ \A told : Told(b, told) => Told(c, told \cup {<<x, m.blobs[x]>> : x \in DOMAIN m.blobs}) /\ Told(c, told)
<1>1. Bands(c) = Bands(b) \cup {n}
  BY DEF Bands
<1>2. \A t : TreeShipped(c, t) <=> TreeShipped(b, t) \/ t \in DOMAIN m.trees
  BY <1>1 DEF TreeShipped
<1>3. \A x : BlobShipped(c, x) <=> BlobShipped(b, x) \/ x \in DOMAIN m.blobs
  BY <1>1 DEF BlobShipped
<1>4. \A told : Told(b, told) => Told(c, told)
  BY <1>1 DEF Told
<1>5. \A x \in DOMAIN m.blobs : \E k \in Bands(c) : x \in DOMAIN c.bands[k].blobs /\ m.blobs[x] = c.bands[k].blobs[x]
  BY <1>1
<1>6. \A told : Told(b, told) => Told(c, told \cup {<<x, m.blobs[x]>> : x \in DOMAIN m.blobs})
  BY <1>4, <1>5 DEF Told
<1> QED
  BY <1>1, <1>2, <1>3, <1>4, <1>6

LEMMA GatheredParts ==
  ASSUME NEW n \in Nat, NEW map, \A j, k \in 0 .. n - 1 : j # k => DOMAIN map[j] \cap DOMAIN map[k] = {}
  PROVE  /\ \A x : x \in DOMAIN Gathered(n, map) <=> \E k \in 0 .. n - 1 : x \in DOMAIN map[k]
         /\ \A k \in 0 .. n - 1 : \A x \in DOMAIN map[k] : Gathered(n, map)[x] = map[k][x]
<1> DEFINE Is(x, k) == k \in 0 .. n - 1 /\ x \in DOMAIN map[k] /\ \A l \in 0 .. n - 1 : l > k => x \notin DOMAIN map[l]
           Latest(x) == CHOOSE k \in 0 .. n - 1 : x \in DOMAIN map[k] /\ \A l \in 0 .. n - 1 : l > k => x \notin DOMAIN map[l]
           Whole1 == [x \in UNION {DOMAIN map[k] : k \in 0 .. n - 1} |-> map[Latest(x)][x]]
<1>1. Gathered(n, map) = Whole1
  BY DEF Gathered
<1>2. \A k \in 0 .. n - 1 : \A x \in DOMAIN map[k] : Latest(x) = k
  <2> SUFFICES ASSUME NEW k \in 0 .. n - 1, NEW x \in DOMAIN map[k] PROVE Latest(x) = k
    OBVIOUS
  <2>1. \A l \in 0 .. n - 1 : x \in DOMAIN map[l] => l = k
    OBVIOUS
  <2>2. \A l \in 0 .. n - 1 : l > k => x \notin DOMAIN map[l]
    BY <2>1
  <2>3. Latest(x) \in 0 .. n - 1 /\ x \in DOMAIN map[Latest(x)]
    BY <2>2
  <2> QED
    BY <2>1, <2>3
<1>3. DOMAIN Whole1 = UNION {DOMAIN map[k] : k \in 0 .. n - 1}
  OBVIOUS
<1> HIDE DEF Latest
<1>4. \A k \in 0 .. n - 1 : \A x \in DOMAIN map[k] : Whole1[x] = map[k][x]
  BY <1>2
<1> QED
  BY <1>1, <1>3, <1>4

-----------------------------------------------------------------------------
(* The inductive invariant. *)

Jobs == [band : Nat, trees : SUBSET Trees, terminal : BOOLEAN]
Places == {"idle", "work", "room", "failing", "drain", "manifest", "root", "parked"}

\* The variables are the records they are; the bucket is never found broken.
Shaped ==
  /\ emitted = [next |-> emitted.next, terminal |-> emitted.terminal]
  /\ emitted.next \in Nat /\ emitted.terminal \in BOOLEAN
  /\ session = [dedup |-> session.dedup, trees |-> session.trees, next |-> session.next, bands |-> session.bands,
                enqueued |-> session.enqueued, resumed |-> session.resumed]
  /\ session.next \in Nat /\ session.bands \in Nat /\ session.enqueued \in Nat /\ session.resumed \in Nat
  /\ frame = [pc |-> frame.pc, job |-> frame.job,
              todo |-> [blobs |-> frame.todo.blobs, trees |-> frame.todo.trees], window |-> frame.window,
              failed |-> frame.failed, manifest |-> [trees |-> frame.manifest.trees, blobs |-> frame.manifest.blobs]]
  /\ frame.pc \in Places /\ frame.job \in Jobs /\ frame.failed \in BOOLEAN
  /\ bucket = [objects |-> bucket.objects, bands |-> bucket.bands, root |-> bucket.root]
  /\ bucket.root.next \in Nat /\ bucket.root.bands \in Nat /\ bucket.root.complete \in BOOLEAN
  /\ pipe \in Seq(Jobs) /\ queue \in Seq(Jobs)
  /\ final \subseteq Trees /\ crashes \in 0 .. MaxCrashes

Busy == frame.pc \in {"work", "room", "failing", "drain", "manifest", "root"}
Alive == frame.pc = "idle" \/ Busy
Sound == frame.pc \in {"work", "room", "drain", "manifest", "root"} /\ ~frame.failed

\* The session knows what is committed and what the band in flight has asked for.
Known ==
  Alive =>
    /\ \A x : x \in DOMAIN session.dedup <=> BlobShipped(bucket, x) \/ x \in DOMAIN frame.manifest.blobs
    /\ \A t : t \in DOMAIN session.trees <=> TreeShipped(bucket, t) \/ t \in DOMAIN frame.manifest.trees
    /\ \A k \in Bands(bucket) :
         /\ \A x \in DOMAIN bucket.bands[k].blobs : session.dedup[x] = bucket.bands[k].blobs[x]
         /\ \A t \in DOMAIN bucket.bands[k].trees : session.trees[t] = bucket.bands[k].trees[t]
    /\ \A x \in DOMAIN frame.manifest.blobs : session.dedup[x] = frame.manifest.blobs[x] /\ ~BlobShipped(bucket, x)
    /\ \A t \in DOMAIN frame.manifest.trees : session.trees[t] = frame.manifest.trees[t] /\ t \in frame.job.trees

Registered == frame.pc \in {"drain", "manifest", "root"} /\ frame.job.terminal

\* The PUTs of the band in flight, landed or not.
BlobAsk(x) == Request(frame.manifest.blobs[x], BlobObject(x))
TreeAsk(t) == Request(frame.manifest.trees[t], TreeObject(t, session.dedup))
RegistryAsk == Request(session.next - 2, RegistryObject(session.trees))
AttributesAsk == Request(session.next - 1, AttributesObject)
Asked ==
  {BlobAsk(x) : x \in DOMAIN frame.manifest.blobs} \cup {TreeAsk(t) : t \in DOMAIN frame.manifest.trees} \cup
  (IF Registered THEN {RegistryAsk, AttributesAsk} ELSE {})

Sent(p) == p \in frame.window \/ (p.id \in DOMAIN bucket.objects /\ bucket.objects[p.id] = p.content)

\* What is asked for is written above the committed objects, each in its own.
Asking ==
  /\ Alive => bucket.root.next <= session.next
  /\ \A p \in frame.window : p.id \in Nat /\ bucket.root.next <= p.id
  /\ frame.pc \in {"idle", "manifest", "root", "parked"} => frame.window = {}
  /\ frame.pc \in {"idle", "manifest", "root"} => ~frame.failed
  /\ frame.pc = "idle" => frame.manifest = NoManifest
  /\ Sound =>
       /\ frame.window \subseteq Asked
       /\ \A p, q \in Asked : p.id = q.id => p = q
       /\ \A p \in Asked : p.id \in Nat /\ bucket.root.next <= p.id /\ p.id < session.next /\ Sent(p)
       /\ \A t \in DOMAIN frame.manifest.trees : ToSet(BlobsOf[t]) \subseteq DOMAIN session.dedup

\* What is left of the band in flight.
Left ==
  /\ Busy =>
    /\ frame.todo.trees \cup DOMAIN frame.manifest.trees = frame.job.trees
    /\ frame.todo.trees \cap DOMAIN frame.manifest.trees = {}
  /\ Sound =>
    /\ \A t \in frame.job.trees : \A k \in DOMAIN BlobsOf[t] :
         <<t, k>> \in frame.todo.blobs \/ BlobsOf[t][k] \in DOMAIN session.dedup
    /\ frame.pc \notin {"work", "room"} => frame.todo.trees = {}
    /\ Registered => DOMAIN session.trees = Trees
    /\ frame.pc = "root" => frame.job.band \in DOMAIN bucket.bands /\ bucket.bands[frame.job.band] = frame.manifest

\* Bands are taken up in turn.
Turns ==
  /\ session.enqueued + session.resumed = emitted.next
  /\ pipe = <<>> \/ queue = <<>>
  /\ Len(pipe) <= 1 /\ Len(queue) <= 1
  /\ Alive =>
       /\ session.bands = bucket.root.bands
       /\ Busy => frame.job.band = bucket.root.bands
       /\ emitted.next = bucket.root.bands + (IF Busy THEN 1 ELSE 0) + Len(pipe) + Len(queue)
       /\ frame.pc = "idle" => queue = <<>>
       /\ pipe # <<>> => pipe[1].band = emitted.next - 1
       /\ queue # <<>> => queue[1].band = emitted.next - 1

InWaiting(t) == (pipe # <<>> /\ t \in pipe[1].trees) \/ (queue # <<>> /\ t \in queue[1].trees)
InFlight(t) == Busy /\ t \in frame.job.trees

\* A tree is in one band.
Parted ==
  /\ banded \subseteq final
  /\ \A t : TreeShipped(bucket, t) => t \in final
  /\ Alive =>
       /\ \A t : t \in banded <=> TreeShipped(bucket, t) \/ InFlight(t) \/ InWaiting(t)
       /\ \A t : ~(TreeShipped(bucket, t) /\ InFlight(t))
       /\ \A t : ~(TreeShipped(bucket, t) /\ InWaiting(t))
       /\ \A t : ~(InFlight(t) /\ InWaiting(t))

Kept == Whole(bucket) /\ Apart(bucket) /\ Told(bucket, noted)
Inv == Shaped /\ Kept /\ Known /\ Asking /\ Left /\ Turns /\ Parted

-----------------------------------------------------------------------------
(* Steps that leave the bucket and the session alone. *)

LEMMA SameTurns ==
  ASSUME Inv, UNCHANGED <<final, banded, emitted, pipe, queue, bucket>>,
         session'.bands = session.bands, session'.enqueued = session.enqueued, session'.resumed = session.resumed,
         frame'.pc # "idle", Alive' => Alive /\ (Busy' <=> Busy) /\ frame'.job = frame.job
  PROVE  Turns' /\ Parted'
<1>1. Turns'
  BY DEF Inv, Turns, Alive
<1>2. \A t : (TreeShipped(bucket, t))' <=> TreeShipped(bucket, t)
  BY DEF TreeShipped, Bands
<1>3. \A t : InWaiting(t)' <=> InWaiting(t)
  BY DEF InWaiting
<1>4. Alive' => \A t : InFlight(t)' <=> InFlight(t)
  BY DEF InFlight
<1>5. Parted'
  BY <1>2, <1>3, <1>4 DEF Inv, Parted
<1> QED
  BY <1>1, <1>5

LEMMA SameKept ==
  ASSUME Inv, UNCHANGED <<bucket, noted>>
  PROVE  Kept'
BY DEF Inv, Kept

LEMMA SameAsked ==
  ASSUME UNCHANGED session, frame'.manifest = frame.manifest, Registered' <=> Registered
  PROVE  Asked' = Asked
BY DEF Asked, BlobAsk, TreeAsk, RegistryAsk, AttributesAsk

LEMMA SameAsking ==
  ASSUME Inv, UNCHANGED <<session, bucket>>, frame'.manifest = frame.manifest, frame'.window = frame.window,
         frame'.failed = frame.failed, Alive, frame'.pc # "idle", Sound' => Sound /\ (Registered' <=> Registered),
         frame'.pc \in {"manifest", "root", "parked"} => frame.window = {},
         frame'.pc \in {"manifest", "root"} => ~frame.failed
  PROVE  Asking'
<1>1. Sound' => Sound /\ Asked' = Asked
  BY SameAsked
<1>2. \A p : Sent(p)' <=> Sent(p)
  BY DEF Sent
<1> QED
  BY <1>1, <1>2 DEF Inv, Asking

LEMMA SameKnown ==
  ASSUME Inv, UNCHANGED <<session, bucket>>, frame'.manifest = frame.manifest, frame'.job = frame.job, Alive' => Alive
  PROVE  Known'
<1>1. \A t : (TreeShipped(bucket, t))' <=> TreeShipped(bucket, t)
  BY DEF TreeShipped, Bands
<1>2. \A x : (BlobShipped(bucket, x))' <=> BlobShipped(bucket, x)
  BY DEF BlobShipped, Bands
<1>3. Bands(bucket)' = Bands(bucket)
  BY DEF Bands
<1> QED
  BY <1>1, <1>2, <1>3 DEF Inv, Known

LEMMA SkipBlobStep ==
  ASSUME Inv, SkipBlob
  PROVE  Inv'
<1>1. PICK p \in frame.todo.blobs :
        /\ BlobTurn(p) /\ BlobAt(p) \in DOMAIN session.dedup
        /\ frame' = [frame EXCEPT !.todo.blobs = @ \ {p}]
  BY DEF SkipBlob
<1>2. UNCHANGED <<final, banded, emitted, pipe, queue, noted, crashes, session, bucket>>
  BY DEF SkipBlob, UploaderOnly
<1>3. frame.pc = "work"
  BY <1>1 DEF BlobTurn
<1>4. frame' = [pc |-> frame.pc, job |-> frame.job,
                todo |-> [blobs |-> frame.todo.blobs \ {p}, trees |-> frame.todo.trees], window |-> frame.window,
                failed |-> frame.failed, manifest |-> frame.manifest]
  <2>1. frame' = [frame EXCEPT !.todo = [frame.todo EXCEPT !.blobs = frame.todo.blobs \ {p}]]
    BY <1>1
  <2>2. frame.todo = [blobs |-> frame.todo.blobs, trees |-> frame.todo.trees]
    BY DEF Inv, Shaped
  <2>3. [frame.todo EXCEPT !.blobs = frame.todo.blobs \ {p}] = [blobs |-> frame.todo.blobs \ {p}, trees |-> frame.todo.trees]
    BY <2>2
  <2> QED
    BY <2>1, <2>3 DEF Inv, Shaped
<1>5. Shaped'
  <2>1. frame.manifest = [trees |-> frame.manifest.trees, blobs |-> frame.manifest.blobs]
    BY DEF Inv, Shaped
  <2> QED
    BY <1>2, <1>4, <2>1 DEF Inv, Shaped
<1>6. Busy' /\ Busy /\ Alive' /\ Alive /\ (Sound' <=> Sound) /\ ~Registered' /\ ~Registered
  BY <1>3, <1>4 DEF Busy, Alive, Sound, Registered
<1>7. Turns' /\ Parted' /\ Kept'
  BY <1>2, <1>3, <1>4, <1>6, SameTurns, SameKept
<1>8. Asking' /\ Known'
  BY <1>2, <1>3, <1>4, <1>6, SameAsking, SameKnown
<1>9. Left'
  <2>1. \A t, k : <<t, k>> = p => BlobsOf[t][k] \in DOMAIN session.dedup
    BY <1>1 DEF BlobAt
  <2> QED
    BY <1>2, <1>3, <1>4, <1>6, <2>1 DEF Inv, Left
<1> QED
  BY <1>5, <1>7, <1>8, <1>9 DEF Inv

\* Reading fails, or a PUT has failed.
LEMMA GivesUpStep ==
  ASSUME Inv, ReadFails \/ BreakOff
  PROVE  Inv'
<1>1. UNCHANGED <<final, banded, emitted, pipe, queue, noted, crashes, session, bucket>> /\ frame.pc = "work"
  BY DEF ReadFails, BreakOff, UploaderOnly
<1>2. PICK pc \in {"failing", "drain"} : frame' = [frame EXCEPT !.pc = pc] /\ (pc = "drain" => frame.failed)
  BY DEF ReadFails, BreakOff
<1>3. frame' = [pc |-> pc, job |-> frame.job, todo |-> frame.todo, window |-> frame.window,
                failed |-> frame.failed, manifest |-> frame.manifest]
  BY <1>2 DEF Inv, Shaped
<1>4. Shaped'
  BY <1>1, <1>3 DEF Inv, Shaped, Places
<1>5. Busy' /\ Busy /\ Alive' /\ Alive /\ ~Sound'
  BY <1>1, <1>2, <1>3 DEF Busy, Alive, Sound
<1>6. Turns' /\ Parted' /\ Kept'
  BY <1>1, <1>2, <1>3, <1>5, SameTurns, SameKept
<1>7. Asking' /\ Known'
  BY <1>1, <1>2, <1>3, <1>5, SameAsking, SameKnown
<1>8. Left'
  BY <1>3, <1>5 DEF Inv, Left
<1> QED
  BY <1>4, <1>6, <1>7, <1>8 DEF Inv

\* The uploader parks, whatever the last PUT has left in the bucket.
LEMMA Parking ==
  ASSUME Inv, UNCHANGED <<final, banded, emitted, pipe, queue, session, crashes>>, frame' = Park, Kept',
         bucket' = [objects |-> bucket'.objects, bands |-> bucket'.bands, root |-> bucket'.root],
         bucket'.root.next \in Nat, bucket'.root.bands \in Nat, bucket'.root.complete \in BOOLEAN,
         \A t : TreeShipped(bucket', t) => t \in final
  PROVE  Inv'
<1>1. /\ frame'.pc = "parked" /\ frame'.window = {} /\ frame'.job = Job(0, {}, FALSE) /\ frame'.failed = FALSE
      /\ frame' = [pc |-> frame'.pc, job |-> frame'.job,
                   todo |-> [blobs |-> frame'.todo.blobs, trees |-> frame'.todo.trees], window |-> frame'.window,
                   failed |-> frame'.failed, manifest |-> [trees |-> frame'.manifest.trees, blobs |-> frame'.manifest.blobs]]
  BY DEF Park, NoFrame, Frame, NoManifest
<1>2. Job(0, {}, FALSE) \in Jobs
  BY DEF Job, Jobs
<1>3. ~Alive' /\ ~Sound'
  BY <1>1 DEF Alive, Busy, Sound
<1>4. Shaped'
  BY <1>1, <1>2 DEF Inv, Shaped, Places
<1>5. Known' /\ Left'
  BY <1>3 DEF Known, Left, Alive
<1>6. Asking'
  BY <1>1, <1>3 DEF Asking
<1>7. Turns'
  BY <1>3 DEF Inv, Turns
<1>8. Parted'
  BY <1>3 DEF Inv, Parted
<1> QED
  BY <1>4, <1>5, <1>6, <1>7, <1>8 DEF Inv

\* The next tree waits for room.
LEMMA AwaitRoomStep ==
  ASSUME Inv, AwaitRoom
  PROVE  Inv'
<1>1. UNCHANGED <<final, banded, emitted, pipe, queue, noted, crashes, session, bucket>> /\ frame.pc = "work"
  BY DEF AwaitRoom, UploaderOnly
<1>2. frame' = [pc |-> "room", job |-> frame.job, todo |-> frame.todo, window |-> frame.window,
                failed |-> frame.failed, manifest |-> frame.manifest]
  BY DEF AwaitRoom, Inv, Shaped
<1>3. Shaped'
  BY <1>1, <1>2 DEF Inv, Shaped, Places
<1>4. Busy' /\ Busy /\ Alive' /\ Alive /\ (Sound' <=> Sound) /\ ~Registered' /\ ~Registered
  BY <1>1, <1>2 DEF Busy, Alive, Sound, Registered
<1>5. Turns' /\ Parted' /\ Kept'
  BY <1>1, <1>2, <1>4, SameTurns, SameKept
<1>6. Asking' /\ Known'
  BY <1>1, <1>2, <1>4, SameAsking, SameKnown
<1>7. Left'
  BY <1>1, <1>2, <1>4 DEF Inv, Left
<1> QED
  BY <1>3, <1>5, <1>6, <1>7 DEF Inv

LEMMA WindowDrainedStep ==
  ASSUME Inv, WindowDrained
  PROVE  Inv'
<1>1. UNCHANGED <<final, banded, emitted, pipe, queue, noted, crashes, session, bucket>>
  BY DEF WindowDrained, UploaderOnly
<1>2. Kept'
  BY <1>1, SameKept
<1>3. CASE frame' = Park
  <2>1. \A t : TreeShipped(bucket', t) => t \in final
    BY <1>1 DEF Inv, Parted
  <2> QED
    BY <1>1, <1>2, <1>3, <2>1, Parking DEF Inv, Shaped
<1>4. CASE frame.pc = "drain" /\ ~frame.failed /\ frame' = [frame EXCEPT !.pc = "manifest"]
  <2>1. frame' = [pc |-> "manifest", job |-> frame.job, todo |-> frame.todo, window |-> frame.window,
                  failed |-> frame.failed, manifest |-> frame.manifest]
    BY <1>4 DEF Inv, Shaped
  <2>2. Shaped'
    BY <1>1, <2>1 DEF Inv, Shaped, Places
  <2>3. Busy' /\ Busy /\ Alive' /\ Alive /\ Sound' /\ Sound /\ (Registered' <=> Registered)
    BY <1>4, <2>1 DEF Busy, Alive, Sound, Registered
  <2>4. Turns' /\ Parted'
    BY <1>1, <2>1, <2>3, SameTurns
  <2>5. frame.window = {}
    BY DEF WindowDrained
  <2>6. Asking' /\ Known'
    BY <1>1, <1>4, <2>1, <2>3, <2>5, SameAsking, SameKnown
  <2>7. Left'
    BY <1>1, <1>4, <2>1, <2>3 DEF Inv, Left
  <2> QED
    BY <1>2, <2>2, <2>4, <2>6, <2>7 DEF Inv
<1> QED
  BY <1>3, <1>4 DEF WindowDrained, Inv, Shaped

-----------------------------------------------------------------------------
(* Steps that ask for an object. *)

LEMMA UploadBlobStep ==
  ASSUME Inv, UploadBlob
  PROVE  Inv'
<1> DEFINE s == session.next
<1>1. PICK p \in frame.todo.blobs :
        /\ BlobTurn(p) /\ BlobAt(p) \notin DOMAIN session.dedup /\ ~frame.failed
        /\ frame' = [frame EXCEPT !.todo.blobs = @ \ {p}, !.manifest.blobs = Put(@, BlobAt(p), s),
                                  !.window = @ \cup {Request(s, BlobObject(BlobAt(p)))}]
        /\ session' = [session EXCEPT !.next = @ + 1, !.dedup = Put(@, BlobAt(p), s)]
  BY DEF UploadBlob
<1>2. PICK b : b = BlobAt(p)
  OBVIOUS
<1>3. UNCHANGED <<final, banded, emitted, pipe, queue, noted, crashes, bucket>> /\ frame.pc = "work"
  BY <1>1 DEF UploadBlob, UploaderOnly, BlobTurn
<1>4. session' = [dedup |-> Put(session.dedup, b, s), trees |-> session.trees, next |-> s + 1, bands |-> session.bands,
                  enqueued |-> session.enqueued, resumed |-> session.resumed]
  BY <1>1, <1>2 DEF Inv, Shaped
<1>5. frame' = [pc |-> frame.pc, job |-> frame.job,
                todo |-> [blobs |-> frame.todo.blobs \ {p}, trees |-> frame.todo.trees],
                window |-> frame.window \cup {Request(s, BlobObject(b))}, failed |-> frame.failed,
                manifest |-> [trees |-> frame.manifest.trees, blobs |-> Put(frame.manifest.blobs, b, s)]]
  <2>1. frame' = [frame EXCEPT !.todo = [frame.todo EXCEPT !.blobs = frame.todo.blobs \ {p}],
                               !.manifest = [frame.manifest EXCEPT !.blobs = Put(frame.manifest.blobs, b, s)],
                               !.window = frame.window \cup {Request(s, BlobObject(b))}]
    BY <1>1, <1>2
  <2>2. /\ frame.todo = [blobs |-> frame.todo.blobs, trees |-> frame.todo.trees]
        /\ frame.manifest = [trees |-> frame.manifest.trees, blobs |-> frame.manifest.blobs]
    BY DEF Inv, Shaped
  <2>3. [frame.todo EXCEPT !.blobs = frame.todo.blobs \ {p}] = [blobs |-> frame.todo.blobs \ {p}, trees |-> frame.todo.trees]
    BY <2>2
  <2>4. [frame.manifest EXCEPT !.blobs = Put(frame.manifest.blobs, b, s)]
          = [trees |-> frame.manifest.trees, blobs |-> Put(frame.manifest.blobs, b, s)]
    BY <2>2
  <2> QED
    BY <2>1, <2>3, <2>4 DEF Inv, Shaped
<1>6. Shaped'
  <2>1. session'.next \in Nat /\ session'.bands \in Nat /\ session'.enqueued \in Nat /\ session'.resumed \in Nat
    BY <1>4 DEF Inv, Shaped
  <2>2. session' = [dedup |-> session'.dedup, trees |-> session'.trees, next |-> session'.next, bands |-> session'.bands,
                    enqueued |-> session'.enqueued, resumed |-> session'.resumed]
    BY <1>4
  <2>3. frame' = [pc |-> frame'.pc, job |-> frame'.job,
              todo |-> [blobs |-> frame'.todo.blobs, trees |-> frame'.todo.trees], window |-> frame'.window,
              failed |-> frame'.failed, manifest |-> [trees |-> frame'.manifest.trees, blobs |-> frame'.manifest.blobs]]
    BY <1>5
  <2> QED
    BY <1>3, <1>5, <2>1, <2>2, <2>3 DEF Inv, Shaped
<1>7. Busy' /\ Busy /\ Alive' /\ Alive /\ Sound /\ Sound' /\ ~Registered' /\ ~Registered
  BY <1>1, <1>3, <1>5 DEF Busy, Alive, Sound, Registered
<1>8. Turns' /\ Parted' /\ Kept'
  BY <1>3, <1>4, <1>5, <1>7, SameTurns, SameKept
<1>9. /\ DOMAIN session'.dedup = DOMAIN session.dedup \cup {b} /\ session'.dedup[b] = s
      /\ \A x \in DOMAIN session.dedup : session'.dedup[x] = session.dedup[x]
  <2>1. session'.dedup = Put(session.dedup, b, s)
    BY <1>4
  <2> QED
    BY <1>1, <1>2, <2>1 DEF Put
<1>10. b \notin DOMAIN frame.manifest.blobs /\ ~BlobShipped(bucket, b)
  BY <1>1, <1>2, <1>7 DEF Inv, Known
<1>11. /\ DOMAIN frame'.manifest.blobs = DOMAIN frame.manifest.blobs \cup {b} /\ frame'.manifest.blobs[b] = s
       /\ \A x \in DOMAIN frame.manifest.blobs : frame'.manifest.blobs[x] = frame.manifest.blobs[x]
  BY <1>5, <1>10 DEF Put
<1>12. Known'
  <2>1. /\ \A x : (BlobShipped(bucket, x))' <=> BlobShipped(bucket, x)
        /\ \A t : (TreeShipped(bucket, t))' <=> TreeShipped(bucket, t)
        /\ Bands(bucket)' = Bands(bucket)
    BY <1>3
  <2>2. \A k \in Bands(bucket) : \A x \in DOMAIN bucket.bands[k].blobs : x \in DOMAIN session.dedup
    BY <1>7 DEF Inv, Known, BlobShipped
  <2>3. \A x \in DOMAIN frame.manifest.blobs : x \in DOMAIN session.dedup
    BY <1>7 DEF Inv, Known
  <2>4. session'.trees = session.trees /\ frame'.manifest.trees = frame.manifest.trees /\ frame'.job = frame.job
    BY <1>4, <1>5
  <2> QED
    BY <1>3, <1>7, <1>9, <1>10, <1>11, <2>1, <2>2, <2>3, <2>4 DEF Inv, Known
<1>13. Asked' = Asked \cup {Request(s, BlobObject(b))}
  <2>1. \A t \in DOMAIN frame.manifest.trees : TreeObject(t, session'.dedup) = TreeObject(t, session.dedup)
    BY <1>7, <1>9 DEF Inv, Asking, TreeObject
  <2>2. \A t \in DOMAIN frame.manifest.trees : TreeAsk(t)' = TreeAsk(t)
    BY <1>5, <2>1 DEF TreeAsk
  <2>3. /\ \A x \in DOMAIN frame.manifest.blobs : BlobAsk(x)' = BlobAsk(x)
        /\ BlobAsk(b)' = Request(s, BlobObject(b))
    BY <1>11 DEF BlobAsk
  <2>4. frame'.manifest.trees = frame.manifest.trees
    BY <1>5
  <2> QED
    BY <1>7, <1>11, <2>2, <2>3, <2>4 DEF Asked
<1>14. Asking'
  <2>1. s \in Nat /\ bucket.root.next \in Nat /\ bucket.root.next <= s /\ session'.next = s + 1
    BY <1>4, <1>7 DEF Inv, Shaped, Asking
  <2>2. \A q \in Asked : q.id \in Nat /\ bucket.root.next <= q.id /\ q.id < s /\ Sent(q)
    BY <1>7 DEF Inv, Asking
  <2>3. PICK r : r = Request(s, BlobObject(b)) /\ r.id = s
    <3>1. Request(s, BlobObject(b)).id = s
      BY DEF Request
    <3> QED
      BY <3>1
  <2>4. frame'.window = frame.window \cup {r} /\ Asked' = Asked \cup {r}
    BY <1>5, <1>13, <2>3
  <2>5. \A q : Sent(q) \/ q = r => Sent(q)'
    BY <1>3, <2>4 DEF Sent
  <2>6. \A q \in Asked' : q.id \in Nat /\ bucket.root.next <= q.id /\ q.id < s + 1 /\ Sent(q)'
    BY <2>1, <2>2, <2>3, <2>4, <2>5
  <2>7. \A q, o \in Asked' : q.id = o.id => q = o
    <3>1. \A q, o \in Asked : q.id = o.id => q = o
      BY <1>7 DEF Inv, Asking
    <3>2. \A q \in Asked : q.id # s
      BY <2>1, <2>2
    <3> QED
      BY <2>3, <2>4, <3>1, <3>2
  <2>8. \A t \in DOMAIN frame'.manifest.trees : ToSet(BlobsOf[t]) \subseteq DOMAIN session'.dedup
    BY <1>5, <1>7, <1>9 DEF Inv, Asking
  <2>9. frame'.window \subseteq Asked' /\ \A q \in frame'.window : q.id \in Nat /\ bucket.root.next <= q.id
    BY <1>7, <2>1, <2>3, <2>4 DEF Inv, Asking
  <2> QED
    BY <1>3, <1>5, <1>7, <2>1, <2>6, <2>7, <2>8, <2>9 DEF Asking
<1>15. Left'
  <2>1. \A t, k : <<t, k>> = p => BlobsOf[t][k] = b
    BY <1>2 DEF BlobAt
  <2> QED
    BY <1>3, <1>5, <1>7, <1>9, <2>1 DEF Inv, Left
<1> QED
  BY <1>6, <1>8, <1>12, <1>14, <1>15 DEF Inv

LEMMA UploadTreeStep ==
  ASSUME Inv, UploadTree
  PROVE  Inv'
<1> DEFINE s == session.next
<1>1. PICK t \in frame.todo.trees :
        /\ TreeTurn(t)
        /\ frame' = [frame EXCEPT !.pc = "work", !.todo.trees = @ \ {t}, !.manifest.trees = Put(@, t, s),
                                  !.window = @ \cup {Request(s, TreeObject(t, session.dedup))}]
        /\ session' = [session EXCEPT !.next = @ + 1, !.trees = Put(@, t, s)]
  BY DEF UploadTree
<1>2. UNCHANGED <<final, banded, emitted, pipe, queue, noted, crashes, bucket>> /\ frame.pc \in {"work", "room"}
        /\ frame.todo.blobs = {}
  BY <1>1 DEF UploadTree, UploaderOnly, TreeTurn
<1>3. session' = [dedup |-> session.dedup, trees |-> Put(session.trees, t, s), next |-> s + 1, bands |-> session.bands,
                  enqueued |-> session.enqueued, resumed |-> session.resumed]
  BY <1>1 DEF Inv, Shaped
<1>4. frame' = [pc |-> "work", job |-> frame.job,
                todo |-> [blobs |-> frame.todo.blobs, trees |-> frame.todo.trees \ {t}],
                window |-> frame.window \cup {Request(s, TreeObject(t, session.dedup))}, failed |-> frame.failed,
                manifest |-> [trees |-> Put(frame.manifest.trees, t, s), blobs |-> frame.manifest.blobs]]
  <2>1. frame' = [frame EXCEPT !.pc = "work", !.todo = [frame.todo EXCEPT !.trees = frame.todo.trees \ {t}],
                               !.manifest = [frame.manifest EXCEPT !.trees = Put(frame.manifest.trees, t, s)],
                               !.window = frame.window \cup {Request(s, TreeObject(t, session.dedup))}]
    BY <1>1
  <2>2. /\ frame.todo = [blobs |-> frame.todo.blobs, trees |-> frame.todo.trees]
        /\ frame.manifest = [trees |-> frame.manifest.trees, blobs |-> frame.manifest.blobs]
    BY DEF Inv, Shaped
  <2>3. [frame.todo EXCEPT !.trees = frame.todo.trees \ {t}] = [blobs |-> frame.todo.blobs, trees |-> frame.todo.trees \ {t}]
    BY <2>2
  <2>4. [frame.manifest EXCEPT !.trees = Put(frame.manifest.trees, t, s)]
          = [trees |-> Put(frame.manifest.trees, t, s), blobs |-> frame.manifest.blobs]
    BY <2>2
  <2> QED
    BY <2>1, <2>3, <2>4 DEF Inv, Shaped
<1>5. Shaped'
  <2>1. session'.next \in Nat /\ session'.bands \in Nat /\ session'.enqueued \in Nat /\ session'.resumed \in Nat
    BY <1>3 DEF Inv, Shaped
  <2>2. session' = [dedup |-> session'.dedup, trees |-> session'.trees, next |-> session'.next, bands |-> session'.bands,
                    enqueued |-> session'.enqueued, resumed |-> session'.resumed]
    BY <1>3
  <2>3. frame' = [pc |-> frame'.pc, job |-> frame'.job,
              todo |-> [blobs |-> frame'.todo.blobs, trees |-> frame'.todo.trees], window |-> frame'.window,
              failed |-> frame'.failed, manifest |-> [trees |-> frame'.manifest.trees, blobs |-> frame'.manifest.blobs]]
    BY <1>4
  <2> QED
    BY <1>2, <1>4, <2>1, <2>2, <2>3 DEF Inv, Shaped, Places
<1>6. Busy' /\ Busy /\ Alive' /\ Alive /\ (Sound' <=> Sound) /\ ~Registered' /\ ~Registered
  BY <1>1, <1>2, <1>4 DEF Busy, Alive, Sound, Registered
<1>7. Turns' /\ Parted' /\ Kept'
  BY <1>2, <1>3, <1>4, <1>6, SameTurns, SameKept
<1>8. t \in frame.job.trees /\ t \notin DOMAIN frame.manifest.trees /\ ~TreeShipped(bucket, t)
  BY <1>1, <1>6 DEF Inv, Left, Parted, InFlight
<1>9. t \notin DOMAIN session.trees
  BY <1>6, <1>8 DEF Inv, Known
<1>10. /\ DOMAIN session'.trees = DOMAIN session.trees \cup {t} /\ session'.trees[t] = s
       /\ \A u \in DOMAIN session.trees : session'.trees[u] = session.trees[u]
  <2>1. session'.trees = Put(session.trees, t, s)
    BY <1>3
  <2> QED
    BY <1>9, <2>1 DEF Put
<1>11. /\ DOMAIN frame'.manifest.trees = DOMAIN frame.manifest.trees \cup {t} /\ frame'.manifest.trees[t] = s
       /\ \A u \in DOMAIN frame.manifest.trees : frame'.manifest.trees[u] = frame.manifest.trees[u]
  BY <1>4, <1>8 DEF Put
<1>12. Known'
  <2>1. /\ \A x : (BlobShipped(bucket, x))' <=> BlobShipped(bucket, x)
        /\ \A u : (TreeShipped(bucket, u))' <=> TreeShipped(bucket, u)
        /\ Bands(bucket)' = Bands(bucket)
    BY <1>2
  <2>2. \A k \in Bands(bucket) : \A u \in DOMAIN bucket.bands[k].trees : u \in DOMAIN session.trees
    BY <1>6 DEF Inv, Known, TreeShipped
  <2>3. \A u \in DOMAIN frame.manifest.trees : u \in DOMAIN session.trees
    BY <1>6 DEF Inv, Known
  <2>4. session'.dedup = session.dedup /\ frame'.manifest.blobs = frame.manifest.blobs /\ frame'.job = frame.job
    BY <1>3, <1>4
  <2> QED
    BY <1>2, <1>6, <1>8, <1>10, <1>11, <2>1, <2>2, <2>3, <2>4 DEF Inv, Known
<1>13. Asked' = Asked \cup {Request(s, TreeObject(t, session.dedup))}
  <2>1. session'.dedup = session.dedup /\ frame'.manifest.blobs = frame.manifest.blobs
    BY <1>3, <1>4
  <2>2. /\ \A u \in DOMAIN frame.manifest.trees : TreeAsk(u)' = TreeAsk(u)
        /\ TreeAsk(t)' = Request(s, TreeObject(t, session.dedup))
    BY <1>11, <2>1 DEF TreeAsk
  <2>3. \A x \in DOMAIN frame.manifest.blobs : BlobAsk(x)' = BlobAsk(x)
    BY <2>1 DEF BlobAsk
  <2> QED
    BY <1>6, <1>11, <2>1, <2>2, <2>3 DEF Asked
<1>14. Sound => ToSet(BlobsOf[t]) \subseteq DOMAIN session.dedup
  <2>1. Sound => \A k \in DOMAIN BlobsOf[t] : BlobsOf[t][k] \in DOMAIN session.dedup
    BY <1>2, <1>8 DEF Inv, Left
  <2> QED
    BY <2>1 DEF ToSet
<1>15. Asking'
  <2>1. s \in Nat /\ bucket.root.next \in Nat /\ bucket.root.next <= s /\ session'.next = s + 1
    BY <1>3, <1>6 DEF Inv, Shaped, Asking
  <2>2. PICK r : r = Request(s, TreeObject(t, session.dedup)) /\ r.id = s
    <3>1. Request(s, TreeObject(t, session.dedup)).id = s
      BY DEF Request
    <3> QED
      BY <3>1
  <2>3. frame'.window = frame.window \cup {r} /\ Asked' = Asked \cup {r}
    BY <1>4, <1>13, <2>2
  <2>4. \A q \in frame'.window : q.id \in Nat /\ bucket.root.next <= q.id
    BY <2>1, <2>2, <2>3 DEF Inv, Asking
  <2>5. ASSUME Sound
        PROVE  /\ frame'.window \subseteq Asked'
               /\ \A q, o \in Asked' : q.id = o.id => q = o
               /\ \A q \in Asked' : q.id \in Nat /\ bucket.root.next <= q.id /\ q.id < s + 1 /\ Sent(q)'
               /\ \A u \in DOMAIN frame'.manifest.trees : ToSet(BlobsOf[u]) \subseteq DOMAIN session'.dedup
    <3>1. \A q \in Asked : q.id \in Nat /\ bucket.root.next <= q.id /\ q.id < s /\ Sent(q)
      BY <2>5 DEF Inv, Asking
    <3>2. \A q : Sent(q) \/ q = r => Sent(q)'
      BY <1>2, <2>3 DEF Sent
    <3>3. \A q \in Asked' : q.id \in Nat /\ bucket.root.next <= q.id /\ q.id < s + 1 /\ Sent(q)'
      BY <2>1, <2>2, <2>3, <3>1, <3>2
    <3>4. \A q, o \in Asked' : q.id = o.id => q = o
      <4>1. \A q, o \in Asked : q.id = o.id => q = o
        BY <2>5 DEF Inv, Asking
      <4>2. \A q \in Asked : q.id # s
        BY <2>1, <3>1
      <4> QED
        BY <2>2, <2>3, <4>1, <4>2
    <3>5. \A u \in DOMAIN frame'.manifest.trees : ToSet(BlobsOf[u]) \subseteq DOMAIN session'.dedup
      BY <1>3, <1>11, <1>14, <2>5 DEF Inv, Asking
    <3>6. frame'.window \subseteq Asked'
      BY <2>3, <2>5 DEF Inv, Asking
    <3> QED
      BY <3>3, <3>4, <3>5, <3>6
  <2> QED
    BY <1>2, <1>4, <1>6, <2>1, <2>4, <2>5 DEF Asking
<1>16. Left'
  <2>1. session'.dedup = session.dedup /\ frame'.todo.blobs = frame.todo.blobs /\ frame'.todo.trees = frame.todo.trees \ {t}
        /\ frame'.job = frame.job /\ frame'.pc = "work"
    BY <1>2, <1>3, <1>4
  <2>2. /\ frame'.todo.trees \cup DOMAIN frame'.manifest.trees = frame.job.trees
        /\ frame'.todo.trees \cap DOMAIN frame'.manifest.trees = {}
    BY <1>1, <1>6, <1>11, <2>1 DEF Inv, Left
  <2> QED
    BY <1>6, <2>1, <2>2 DEF Inv, Left
<1> QED
  BY <1>5, <1>7, <1>12, <1>15, <1>16 DEF Inv

LEMMA FinishLaunchingStep ==
  ASSUME Inv, FinishLaunching
  PROVE  Inv'
<1> DEFINE s == session.next
<1>1. UNCHANGED <<final, banded, emitted, pipe, queue, noted, crashes, bucket>> /\ frame.pc = "work" /\ ~frame.failed
  BY DEF FinishLaunching, UploaderOnly
<1>2. frame.todo.trees = {} /\ frame.todo.blobs = {}
  BY DEF FinishLaunching, NoFrame, Frame
<1>3. Busy /\ Alive /\ Sound /\ ~Registered
  BY <1>1 DEF Busy, Alive, Sound, Registered
<1>4. Kept'
  BY <1>1, SameKept
<1>5. CASE UNCHANGED session /\ \E pc \in {"drain", "failing"} : frame' = [frame EXCEPT !.pc = pc] /\ (pc = "drain" => ~frame.job.terminal)
  <2>1. PICK pc \in {"drain", "failing"} : frame' = [frame EXCEPT !.pc = pc] /\ (pc = "drain" => ~frame.job.terminal)
    BY <1>5
  <2>2. frame' = [pc |-> pc, job |-> frame.job, todo |-> frame.todo, window |-> frame.window,
                  failed |-> frame.failed, manifest |-> frame.manifest]
    BY <2>1 DEF Inv, Shaped
  <2>3. Shaped'
    BY <1>1, <1>5, <2>2 DEF Inv, Shaped, Places
  <2>4. Busy' /\ Alive' /\ (Sound' => ~Registered' /\ pc = "drain")
    BY <2>1, <2>2 DEF Busy, Alive, Sound, Registered
  <2>5. Turns' /\ Parted'
    BY <1>1, <1>3, <1>5, <2>2, <2>4, SameTurns
  <2>6. Asking' /\ Known'
    BY <1>1, <1>3, <1>5, <2>2, <2>4, SameAsking, SameKnown
  <2>7. Left'
    BY <1>1, <1>2, <1>3, <1>5, <2>2, <2>4 DEF Inv, Left
  <2> QED
    BY <1>4, <2>3, <2>5, <2>6, <2>7 DEF Inv
<1>6. CASE /\ frame.job.terminal /\ DOMAIN session.trees = Trees
           /\ frame' = [frame EXCEPT !.pc = "drain",
                                     !.window = @ \cup {Request(s, RegistryObject(session.trees)), Request(s + 1, AttributesObject)}]
           /\ session' = [session EXCEPT !.next = @ + 2]
  <2>1. PICK ra : ra = Request(s, RegistryObject(session.trees)) /\ ra.id = s
    <3>1. Request(s, RegistryObject(session.trees)).id = s
      BY DEF Request
    <3> QED
      BY <3>1
  <2>2. PICK rb : rb = Request(s + 1, AttributesObject) /\ rb.id = s + 1
    <3>1. Request(s + 1, AttributesObject).id = s + 1
      BY DEF Request
    <3> QED
      BY <3>1
  <2>3. session' = [dedup |-> session.dedup, trees |-> session.trees, next |-> s + 2, bands |-> session.bands,
                    enqueued |-> session.enqueued, resumed |-> session.resumed]
    BY <1>6 DEF Inv, Shaped
  <2>4. frame' = [pc |-> "drain", job |-> frame.job, todo |-> frame.todo, window |-> frame.window \cup {ra, rb},
                  failed |-> frame.failed, manifest |-> frame.manifest]
    BY <1>6, <2>1, <2>2 DEF Inv, Shaped
  <2>5. Shaped'
    <3>1. session'.next \in Nat /\ session'.bands \in Nat /\ session'.enqueued \in Nat /\ session'.resumed \in Nat
      BY <2>3 DEF Inv, Shaped
    <3>2. session' = [dedup |-> session'.dedup, trees |-> session'.trees, next |-> session'.next, bands |-> session'.bands,
                      enqueued |-> session'.enqueued, resumed |-> session'.resumed]
      BY <2>3
    <3>3. /\ frame.todo = [blobs |-> frame.todo.blobs, trees |-> frame.todo.trees]
          /\ frame.manifest = [trees |-> frame.manifest.trees, blobs |-> frame.manifest.blobs]
      BY DEF Inv, Shaped
    <3>4. frame' = [pc |-> frame'.pc, job |-> frame'.job,
                todo |-> [blobs |-> frame'.todo.blobs, trees |-> frame'.todo.trees], window |-> frame'.window,
                failed |-> frame'.failed, manifest |-> [trees |-> frame'.manifest.trees, blobs |-> frame'.manifest.blobs]]
      BY <2>4, <3>3
    <3> QED
      BY <1>1, <2>4, <3>1, <3>2, <3>4 DEF Inv, Shaped, Places
  <2>6. Busy' /\ Alive' /\ Sound' /\ Registered'
    BY <1>1, <1>6, <2>4 DEF Busy, Alive, Sound, Registered
  <2>7. Turns' /\ Parted'
    BY <1>1, <1>3, <2>3, <2>4, <2>6, SameTurns
  <2>8. session'.dedup = session.dedup /\ session'.trees = session.trees /\ frame'.manifest = frame.manifest /\ frame'.job = frame.job
    BY <2>3, <2>4
  <2>9. Known'
    <3>1. /\ \A x : (BlobShipped(bucket, x))' <=> BlobShipped(bucket, x)
          /\ \A t : (TreeShipped(bucket, t))' <=> TreeShipped(bucket, t)
          /\ Bands(bucket)' = Bands(bucket)
      BY <1>1
    <3> QED
      BY <1>1, <1>3, <2>8, <3>1 DEF Inv, Known
  <2>10. Asked' = Asked \cup {ra, rb}
    <3>1. s \in Nat
      BY DEF Inv, Shaped
    <3>2. session'.next - 2 = s /\ session'.next - 1 = s + 1
      BY <2>3, <3>1
    <3>3. RegistryAsk' = ra /\ AttributesAsk' = rb
      BY <2>1, <2>2, <2>8, <3>2 DEF RegistryAsk, AttributesAsk
    <3>4. (\A x : BlobAsk(x)' = BlobAsk(x)) /\ (\A t : TreeAsk(t)' = TreeAsk(t))
      BY <2>8 DEF BlobAsk, TreeAsk
    <3> QED
      BY <1>3, <2>6, <2>8, <3>3, <3>4 DEF Asked
  <2>11. Asking'
    <3>1. s \in Nat /\ bucket.root.next \in Nat /\ bucket.root.next <= s /\ session'.next = s + 2
      BY <1>3, <2>3 DEF Inv, Shaped, Asking
    <3>2. \A q \in Asked : q.id \in Nat /\ bucket.root.next <= q.id /\ q.id < s /\ Sent(q)
      BY <1>3 DEF Inv, Asking
    <3>3. frame'.window = frame.window \cup {ra, rb}
      BY <2>4
    <3>4. \A q : Sent(q) \/ q \in {ra, rb} => Sent(q)'
      BY <1>1, <3>3 DEF Sent
    <3>5. \A q \in Asked' : q.id \in Nat /\ bucket.root.next <= q.id /\ q.id < s + 2
      BY <2>1, <2>2, <2>10, <3>1, <3>2
    <3>6. \A q \in Asked' : Sent(q)'
      BY <2>10, <3>2, <3>4
    <3>7. \A q, o \in Asked' : q.id = o.id => q = o
      <4>1. \A q, o \in Asked : q.id = o.id => q = o
        BY <1>3 DEF Inv, Asking
      <4>2. (\A q \in Asked : q.id # s /\ q.id # s + 1) /\ s # s + 1
        BY <3>1, <3>2
      <4> QED
        BY <2>1, <2>2, <2>10, <4>1, <4>2
    <3>8. \A t \in DOMAIN frame'.manifest.trees : ToSet(BlobsOf[t]) \subseteq DOMAIN session'.dedup
      BY <1>3, <2>8 DEF Inv, Asking
    <3>9. frame'.window \subseteq Asked' /\ \A q \in frame'.window : q.id \in Nat /\ bucket.root.next <= q.id
      BY <1>3, <2>1, <2>2, <2>10, <3>1, <3>3 DEF Inv, Asking
    <3>10. frame'.pc = "drain" /\ bucket'.root.next = bucket.root.next /\ bucket'.root.next <= session'.next
      BY <1>1, <2>4, <3>1
    <3> QED
      BY <1>1, <3>1, <3>5, <3>6, <3>7, <3>8, <3>9, <3>10 DEF Asking
  <2>12. Left'
    BY <1>1, <1>2, <1>3, <1>6, <2>4, <2>6, <2>8 DEF Inv, Left
  <2> QED
    BY <1>4, <2>5, <2>7, <2>9, <2>11, <2>12 DEF Inv
<1> QED
  BY <1>5, <1>6 DEF FinishLaunching

-----------------------------------------------------------------------------
(* A PUT ends; the committed part of the bucket stays as it is. *)

LEMMA KeepsKept ==
  ASSUME NEW b, NEW c, NEW told, Whole(b), Apart(b), Told(b, told), Keeps(b, c)
  PROVE  Whole(c) /\ Apart(c) /\ Told(c, told)
BY KeepsWhole, KeepsApart, KeepsShipped

\* Put leaves the window; its object is there, or may be after a failure.
LEMMA PutStep ==
  ASSUME Inv, PutDone \/ PutFails
  PROVE  Inv'
<1>1. UNCHANGED <<final, banded, emitted, pipe, queue, noted, crashes, session>>
  BY DEF PutDone, PutFails, UploaderOnly
<1>2. PICK put \in frame.window, failed \in BOOLEAN :
        /\ frame' = [frame EXCEPT !.window = @ \ {put}, !.failed = failed]
        /\ failed = FALSE => failed = frame.failed /\ bucket' = [bucket EXCEPT !.objects = Put(@, put.id, put.content)]
        /\ bucket' \in {bucket, [bucket EXCEPT !.objects = Put(@, put.id, put.content)]}
  <2>1. CASE PutDone
    <3>1. PICK put \in frame.window : /\ bucket' = [bucket EXCEPT !.objects = Put(@, put.id, put.content)]
                                      /\ frame' = [frame EXCEPT !.window = @ \ {put}]
      BY <2>1 DEF PutDone
    <3>2. frame' = [frame EXCEPT !.window = @ \ {put}, !.failed = frame.failed] /\ frame.failed \in BOOLEAN
      BY <3>1 DEF Inv, Shaped
    <3> QED
      BY <3>1, <3>2
  <2>2. CASE PutFails
    BY <2>2 DEF PutFails
  <2> QED
    BY <2>1, <2>2
<1>3. frame' = [pc |-> frame.pc, job |-> frame.job, todo |-> frame.todo, window |-> frame.window \ {put},
                failed |-> failed, manifest |-> frame.manifest]
  BY <1>2 DEF Inv, Shaped
<1>4. put.id \in Nat /\ bucket.root.next <= put.id
  BY DEF Inv, Asking
<1>5. /\ bucket' = [objects |-> bucket'.objects, bands |-> bucket.bands, root |-> bucket.root]
      /\ DOMAIN bucket.objects \subseteq DOMAIN bucket'.objects
      /\ \A id \in DOMAIN bucket.objects : id \notin {put.id} => bucket'.objects[id] = bucket.objects[id]
      /\ ~failed => put.id \in DOMAIN bucket'.objects /\ bucket'.objects[put.id] = put.content
  <2>1. CASE bucket' = bucket
    <3>1. failed => failed
      OBVIOUS
    <3>2. ~failed => bucket' = [bucket EXCEPT !.objects = Put(@, put.id, put.content)]
      BY <1>2
    <3>3. ~failed => bucket'.objects = Put(bucket.objects, put.id, put.content)
      BY <3>2 DEF Inv, Shaped
    <3> QED
      BY <2>1, <3>3 DEF Inv, Shaped, Put
  <2>2. CASE bucket' = [bucket EXCEPT !.objects = Put(@, put.id, put.content)]
    <3>1. bucket' = [objects |-> Put(bucket.objects, put.id, put.content), bands |-> bucket.bands, root |-> bucket.root]
      BY <2>2 DEF Inv, Shaped
    <3> QED
      BY <3>1 DEF Put
  <2> QED
    BY <1>2, <2>1, <2>2
<1>6. Keeps(bucket, bucket')
  <2>1. bucket'.root = bucket.root /\ bucket'.bands = bucket.bands /\ bucket.root.next \in Nat
    BY <1>5 DEF Inv, Shaped
  <2>2. ~(put.id < bucket.root.next)
    BY <1>4, <2>1
  <2>3. \A id \in DOMAIN bucket.objects : id < bucket.root.next => id \in DOMAIN bucket'.objects /\ bucket'.objects[id] = bucket.objects[id]
    BY <1>5, <2>2
  <2> QED
    BY <2>1, <2>3 DEF Keeps
<1>7. Kept'
  BY <1>1, <1>6, KeepsKept DEF Inv, Kept
<1>8. Shaped'
  <2>1. /\ frame.todo = [blobs |-> frame.todo.blobs, trees |-> frame.todo.trees]
        /\ frame.manifest = [trees |-> frame.manifest.trees, blobs |-> frame.manifest.blobs]
    BY DEF Inv, Shaped
  <2>2. frame' = [pc |-> frame'.pc, job |-> frame'.job,
                todo |-> [blobs |-> frame'.todo.blobs, trees |-> frame'.todo.trees], window |-> frame'.window,
                failed |-> frame'.failed, manifest |-> [trees |-> frame'.manifest.trees, blobs |-> frame'.manifest.blobs]]
    BY <1>3, <2>1
  <2> QED
    BY <1>1, <1>3, <1>5, <2>2 DEF Inv, Shaped
<1>9. /\ \A x : BlobShipped(bucket', x) <=> BlobShipped(bucket, x)
      /\ \A t : TreeShipped(bucket', t) <=> TreeShipped(bucket, t)
      /\ Bands(bucket') = Bands(bucket) /\ \A k \in Bands(bucket) : bucket'.bands[k] = bucket.bands[k]
  BY <1>6, KeepsShipped DEF Inv, Kept
<1>10. /\ frame'.pc = frame.pc /\ frame'.job = frame.job /\ frame'.manifest = frame.manifest /\ frame'.todo = frame.todo
       /\ bucket'.root = bucket.root /\ bucket'.bands = bucket.bands /\ frame'.window = frame.window \ {put} /\ frame'.failed = failed
  BY <1>3, <1>5
<1>11. (Alive' <=> Alive) /\ (Busy' <=> Busy) /\ (Registered' <=> Registered) /\ (Sound' => Sound /\ ~failed)
  <2>1. ~failed => ~frame.failed
    BY <1>2
  <2> QED
    BY <1>10, <2>1 DEF Alive, Busy, Registered, Sound
<1>12. Known'
  BY <1>1, <1>9, <1>10, <1>11 DEF Inv, Known
<1>13. Turns'
  BY <1>1, <1>10, <1>11 DEF Inv, Turns
<1>14. Parted'
  <2>1. \A t : (InWaiting(t)' <=> InWaiting(t)) /\ (InFlight(t)' <=> InFlight(t))
    BY <1>1, <1>10, <1>11 DEF InWaiting, InFlight
  <2> QED
    BY <1>1, <1>9, <1>11, <2>1 DEF Inv, Parted
<1>15. Left'
  BY <1>1, <1>10, <1>11 DEF Inv, Left
<1>16. Asking'
  <2>1. Asked' = Asked
    BY <1>1, <1>10, <1>11, SameAsked
  <2>2. Sound' => \A p \in Asked : Sent(p) => Sent(p)'
    <3> SUFFICES ASSUME Sound', NEW p \in Asked, Sent(p) PROVE Sent(p)'
      OBVIOUS
    <3>1. CASE p.id = put.id
      <4>1. p = put
        BY <1>11, <3>1 DEF Inv, Asking
      <4> QED
        BY <1>5, <1>11, <4>1 DEF Sent
    <3>2. CASE p.id # put.id
      <4>1. p \in frame.window => p \in frame'.window
        BY <1>10, <3>2
      <4>2. p.id \in DOMAIN bucket.objects => p.id \in DOMAIN bucket'.objects /\ bucket'.objects[p.id] = bucket.objects[p.id]
        BY <1>5, <3>2
      <4> QED
        BY <4>1, <4>2 DEF Sent
    <3> QED
      BY <3>1, <3>2
  <2>3. frame.pc \notin {"idle", "manifest", "root", "parked"}
    BY DEF Inv, Asking
  <2> QED
    BY <1>1, <1>10, <1>11, <2>1, <2>2, <2>3 DEF Inv, Asking
<1> QED
  BY <1>7, <1>8, <1>12, <1>13, <1>14, <1>15, <1>16 DEF Inv

-----------------------------------------------------------------------------
(* The manifests. *)

LEMMA WithBandKeeps ==
  ASSUME Inv, frame.pc = "manifest"
  PROVE  /\ Keeps(bucket, WithBand)
         /\ WithBand = [objects |-> bucket.objects, bands |-> WithBand.bands, root |-> bucket.root]
         /\ frame.job.band \in DOMAIN WithBand.bands /\ WithBand.bands[frame.job.band] = frame.manifest
<1>1. frame.job.band = bucket.root.bands /\ bucket.root.bands \in Nat
  BY DEF Inv, Shaped, Turns, Alive, Busy
<1>2. frame.job.band \notin Bands(bucket)
  BY <1>1 DEF Bands
<1>3. WithBand = [objects |-> bucket.objects, bands |-> Put(bucket.bands, frame.job.band, frame.manifest), root |-> bucket.root]
  <2>1. bucket = [objects |-> bucket.objects, bands |-> bucket.bands, root |-> bucket.root]
    BY DEF Inv, Shaped
  <2> QED
    BY <2>1 DEF WithBand
<1>4. \A k \in DOMAIN bucket.bands : k # frame.job.band => k \in DOMAIN WithBand.bands /\ WithBand.bands[k] = bucket.bands[k]
  BY <1>3 DEF Put
<1>5. frame.job.band \in DOMAIN WithBand.bands /\ WithBand.bands[frame.job.band] = frame.manifest
  BY <1>3 DEF Put
<1>6. WithBand.root = bucket.root /\ WithBand.objects = bucket.objects
  BY <1>3
<1>7. Keeps(bucket, WithBand)
  BY <1>2, <1>4, <1>6 DEF Keeps
<1> QED
  BY <1>3, <1>5, <1>7

\* What the root manifest is about to name has landed.
LEMMA AskedIsThere ==
  ASSUME Inv, frame.pc = "root"
  PROVE  \A p \in Asked : /\ p.id \in Nat /\ p.id \in DOMAIN bucket.objects /\ bucket.objects[p.id] = p.content
                          /\ bucket.root.next <= p.id /\ p.id < session.next
BY DEF Inv, Asking, Sound, Sent

LEMMA WithRootKept ==
  ASSUME Inv, frame.pc = "root"
  PROVE  /\ Whole(WithRoot) /\ Apart(WithRoot) /\ Told(WithRoot, noted)
         /\ Told(WithRoot, noted \cup {<<x, frame.manifest.blobs[x]>> : x \in DOMAIN frame.manifest.blobs})
<1> DEFINE m == frame.manifest
           n == frame.job.band
           Found(t, id) == TreeFound(WithRoot, t, id)
<1>1. n = bucket.root.bands /\ n \in Nat /\ n \in DOMAIN bucket.bands /\ bucket.bands[n] = m
  BY DEF Inv, Shaped, Turns, Alive, Busy, Left, Sound, Asking
<1>2. /\ WithRoot.objects = bucket.objects /\ WithRoot.bands = bucket.bands
      /\ WithRoot.root = Root(n + 1, frame.job.terminal, session.next, IF frame.job.terminal THEN RegistryId ELSE NoRegistry)
  BY DEF Inv, Shaped, WithRoot
<1>3. /\ WithRoot.root.bands = n + 1 /\ WithRoot.root.complete = frame.job.terminal /\ WithRoot.root.next = session.next
      /\ frame.job.terminal => WithRoot.root.registry = session.next - 2
  BY <1>2 DEF Root, RegistryId
<1>4. session.next \in Nat /\ bucket.root.next \in Nat /\ bucket.root.next <= session.next
  BY DEF Inv, Shaped, Asking, Alive, Busy
<1>5. \A x \in DOMAIN m.blobs : InObjects(WithRoot, m.blobs[x], "blob", x) /\ bucket.root.next <= m.blobs[x]
  <2> SUFFICES ASSUME NEW x \in DOMAIN m.blobs
               PROVE  InObjects(WithRoot, m.blobs[x], "blob", x) /\ bucket.root.next <= m.blobs[x]
    OBVIOUS
  <2>1. BlobAsk(x) \in Asked
    BY DEF Asked
  <2>2. BlobAsk(x).id = m.blobs[x] /\ BlobAsk(x).content.kind = "blob" /\ BlobAsk(x).content.of = x
    BY DEF BlobAsk, Request, BlobObject
  <2> QED
    BY <1>2, <1>3, <2>1, <2>2, AskedIsThere DEF InObjects
<1>6. \A k \in Bands(bucket) : \A x \in DOMAIN bucket.bands[k].blobs : InObjects(WithRoot, bucket.bands[k].blobs[x], "blob", x)
  <2>1. \A id, x : InObjects(bucket, id, "blob", x) => InObjects(WithRoot, id, "blob", x)
    BY <1>2, <1>3, <1>4 DEF InObjects
  <2> QED
    BY <2>1 DEF Inv, Kept, Whole
<1>7. \A x \in DOMAIN session.dedup : InObjects(WithRoot, session.dedup[x], "blob", x)
  <2> SUFFICES ASSUME NEW x \in DOMAIN session.dedup PROVE InObjects(WithRoot, session.dedup[x], "blob", x)
    OBVIOUS
  <2>1. BlobShipped(bucket, x) \/ x \in DOMAIN m.blobs
    BY DEF Inv, Known, Alive, Busy
  <2>2. CASE BlobShipped(bucket, x)
    BY <1>6, <2>2 DEF Inv, Known, Alive, Busy, BlobShipped
  <2>3. CASE x \in DOMAIN m.blobs
    BY <1>5, <2>3 DEF Inv, Known, Alive, Busy
  <2> QED
    BY <2>1, <2>2, <2>3
<1>8. \A t \in DOMAIN m.trees : Found(t, m.trees[t]) /\ bucket.root.next <= m.trees[t]
  <2> SUFFICES ASSUME NEW t \in DOMAIN m.trees PROVE Found(t, m.trees[t]) /\ bucket.root.next <= m.trees[t]
    OBVIOUS
  <2>1. TreeAsk(t) \in Asked
    BY DEF Asked
  <2>2. /\ TreeAsk(t).id = m.trees[t] /\ TreeAsk(t).content.kind = "tree" /\ TreeAsk(t).content.of = t
        /\ \A x \in ToSet(BlobsOf[t]) : TreeAsk(t).content.refs[x] = session.dedup[x]
    BY DEF TreeAsk, Request, TreeObject
  <2>3. InObjects(WithRoot, m.trees[t], "tree", t) /\ bucket.root.next <= m.trees[t] /\ bucket.objects[m.trees[t]] = TreeAsk(t).content
    BY <1>2, <1>3, <2>1, <2>2, AskedIsThere DEF InObjects
  <2>4. \A x \in ToSet(BlobsOf[t]) : x \in DOMAIN session.dedup
    BY DEF Inv, Asking, Sound
  <2> QED
    BY <1>2, <1>7, <2>2, <2>3, <2>4 DEF TreeFound
<1>9. \A t \in DOMAIN session.trees : Found(t, session.trees[t])
  <2> SUFFICES ASSUME NEW t \in DOMAIN session.trees PROVE Found(t, session.trees[t])
    OBVIOUS
  <2>1. TreeShipped(bucket, t) \/ t \in DOMAIN m.trees
    BY DEF Inv, Known, Alive, Busy
  <2>2. CASE TreeShipped(bucket, t)
    <3>1. \A id, kind, of : InObjects(bucket, id, kind, of) => InObjects(WithRoot, id, kind, of)
      BY <1>2, <1>3, <1>4 DEF InObjects
    <3>2. \A id : TreeFound(bucket, t, id) => Found(t, id)
      BY <1>2, <3>1 DEF TreeFound
    <3>3. PICK k \in Bands(bucket) : t \in DOMAIN bucket.bands[k].trees
      BY <2>2 DEF TreeShipped
    <3>4. session.trees[t] = bucket.bands[k].trees[t]
      BY <3>3 DEF Inv, Known, Alive, Busy
    <3> QED
      BY <3>2, <3>3, <3>4 DEF Inv, Kept, Whole
  <2>3. CASE t \in DOMAIN m.trees
    BY <1>8, <2>3 DEF Inv, Known, Alive, Busy
  <2> QED
    BY <2>1, <2>2, <2>3
<1>10. WithRoot.root.complete =>
         /\ InObjects(WithRoot, WithRoot.root.registry, "registry", 0)
         /\ \A t \in Trees : /\ t \in DOMAIN WithRoot.objects[WithRoot.root.registry].refs
                             /\ TreeFound(WithRoot, t, WithRoot.objects[WithRoot.root.registry].refs[t])
  <2> SUFFICES ASSUME frame.job.terminal
               PROVE  /\ InObjects(WithRoot, session.next - 2, "registry", 0)
                      /\ \A t \in Trees : /\ t \in DOMAIN bucket.objects[session.next - 2].refs
                                          /\ TreeFound(WithRoot, t, bucket.objects[session.next - 2].refs[t])
    BY <1>2, <1>3
  <2>1. Registered /\ RegistryAsk \in Asked
    BY DEF Asked, Registered
  <2>2. /\ RegistryAsk.id = session.next - 2 /\ RegistryAsk.content.kind = "registry" /\ RegistryAsk.content.of = 0
        /\ RegistryAsk.content.refs = session.trees
    BY DEF RegistryAsk, Request, RegistryObject
  <2>3. InObjects(WithRoot, session.next - 2, "registry", 0) /\ bucket.objects[session.next - 2] = RegistryAsk.content
    BY <1>2, <1>3, <2>1, <2>2, AskedIsThere DEF InObjects
  <2>4. DOMAIN session.trees = Trees
    BY <2>1 DEF Inv, Left, Sound, Asking
  <2> QED
    BY <1>9, <2>2, <2>3, <2>4
<1>11. /\ \A x \in DOMAIN m.blobs : ~BlobShipped(bucket, x)
       /\ \A t \in DOMAIN m.trees : ~TreeShipped(bucket, t)
  <2>1. \A t \in DOMAIN m.trees : t \in frame.job.trees
    BY DEF Inv, Known, Alive, Busy
  <2> QED
    BY <2>1 DEF Inv, Known, Parted, InFlight, Alive, Busy
<1> HIDE DEF m, n
<1>12. Whole(WithRoot)
  BY <1>1, <1>2, <1>3, <1>4, <1>5, <1>8, <1>10, CommitsWhole DEF Inv, Kept
<1>13. Apart(WithRoot)
  BY <1>1, <1>2, <1>3, <1>4, <1>5, <1>8, <1>11, CommitsApart DEF Inv, Kept
<1>14. /\ Told(WithRoot, noted)
       /\ Told(WithRoot, noted \cup {<<x, m.blobs[x]>> : x \in DOMAIN m.blobs})
  BY <1>1, <1>2, <1>3, CommitsShipped DEF Inv, Kept
<1> QED
  BY <1>12, <1>13, <1>14 DEF m

LEMMA WithRootShipped ==
  ASSUME Inv, frame.pc = "root"
  PROVE  /\ WithRoot = [objects |-> bucket.objects, bands |-> bucket.bands, root |-> WithRoot.root]
         /\ WithRoot.root.bands = bucket.root.bands + 1 /\ WithRoot.root.complete = frame.job.terminal
         /\ WithRoot.root.next = session.next /\ Bands(WithRoot) = Bands(bucket) \cup {bucket.root.bands}
         /\ bucket.bands[bucket.root.bands] = frame.manifest
         /\ \A t : TreeShipped(WithRoot, t) <=> TreeShipped(bucket, t) \/ t \in DOMAIN frame.manifest.trees
         /\ \A x : BlobShipped(WithRoot, x) <=> BlobShipped(bucket, x) \/ x \in DOMAIN frame.manifest.blobs
<1>1. frame.job.band = bucket.root.bands /\ bucket.root.bands \in Nat /\ bucket.bands[bucket.root.bands] = frame.manifest
  BY DEF Inv, Shaped, Turns, Alive, Busy, Left, Sound, Asking
<1>2. /\ WithRoot = [objects |-> bucket.objects, bands |-> bucket.bands, root |-> WithRoot.root]
      /\ WithRoot.root = Root(frame.job.band + 1, frame.job.terminal, session.next, IF frame.job.terminal THEN RegistryId ELSE NoRegistry)
  BY DEF Inv, Shaped, WithRoot
<1>3. WithRoot.root.bands = bucket.root.bands + 1 /\ WithRoot.root.complete = frame.job.terminal /\ WithRoot.root.next = session.next
  BY <1>1, <1>2 DEF Root
<1>4. WithRoot.bands = bucket.bands
  BY <1>2
<1> QED
  BY <1>1, <1>2, <1>3, <1>4, CommitsShipped

LEMMA PutBandManifestStep ==
  ASSUME Inv, PutBandManifest
  PROVE  Inv'
<1>1. /\ UNCHANGED <<final, banded, emitted, pipe, queue, noted, crashes, session>>
      /\ frame.pc = "manifest" /\ bucket' = WithBand /\ frame' = [frame EXCEPT !.pc = "root"]
  BY DEF PutBandManifest, UploaderOnly
<1>2. /\ Keeps(bucket, bucket')
      /\ bucket' = [objects |-> bucket.objects, bands |-> bucket'.bands, root |-> bucket.root]
      /\ frame.job.band \in DOMAIN bucket'.bands /\ bucket'.bands[frame.job.band] = frame.manifest
  BY <1>1, WithBandKeeps
<1>3. Kept'
  BY <1>1, <1>2, KeepsKept DEF Inv, Kept
<1>4. frame' = [pc |-> "root", job |-> frame.job, todo |-> frame.todo, window |-> frame.window,
                failed |-> frame.failed, manifest |-> frame.manifest]
  BY <1>1 DEF Inv, Shaped
<1>5. Shaped'
  <2>1. /\ frame.todo = [blobs |-> frame.todo.blobs, trees |-> frame.todo.trees]
        /\ frame.manifest = [trees |-> frame.manifest.trees, blobs |-> frame.manifest.blobs]
    BY DEF Inv, Shaped
  <2>2. frame' = [pc |-> frame'.pc, job |-> frame'.job,
                todo |-> [blobs |-> frame'.todo.blobs, trees |-> frame'.todo.trees], window |-> frame'.window,
                failed |-> frame'.failed, manifest |-> [trees |-> frame'.manifest.trees, blobs |-> frame'.manifest.blobs]]
    BY <1>4, <2>1
  <2> QED
    BY <1>1, <1>2, <1>4, <2>2 DEF Inv, Shaped, Places
<1>6. /\ frame'.pc = "root" /\ frame'.job = frame.job /\ frame'.manifest = frame.manifest /\ frame'.todo = frame.todo
      /\ frame'.window = frame.window /\ frame'.failed = frame.failed
      /\ bucket'.root = bucket.root /\ bucket'.objects = bucket.objects
  BY <1>2, <1>4
<1>7. Alive /\ Alive' /\ Busy /\ Busy' /\ (Registered' <=> Registered) /\ Sound /\ Sound'
  BY <1>1, <1>6 DEF Alive, Busy, Registered, Sound, Inv, Asking
<1>8. /\ \A x : BlobShipped(bucket', x) <=> BlobShipped(bucket, x)
      /\ \A t : TreeShipped(bucket', t) <=> TreeShipped(bucket, t)
      /\ Bands(bucket') = Bands(bucket) /\ \A k \in Bands(bucket) : bucket'.bands[k] = bucket.bands[k]
  BY <1>2, KeepsShipped DEF Inv, Kept
<1>9. Known'
  BY <1>1, <1>6, <1>7, <1>8 DEF Inv, Known
<1>10. Turns'
  BY <1>1, <1>6, <1>7 DEF Inv, Turns
<1>11. Parted'
  <2>1. \A t : (InWaiting(t)' <=> InWaiting(t)) /\ (InFlight(t)' <=> InFlight(t))
    BY <1>1, <1>6, <1>7 DEF InWaiting, InFlight
  <2> QED
    BY <1>1, <1>7, <1>8, <2>1 DEF Inv, Parted
<1>12. Left'
  BY <1>1, <1>2, <1>6, <1>7 DEF Inv, Left
<1>13. Asking'
  <2>1. Asked' = Asked
    BY <1>1, <1>6, <1>7, SameAsked
  <2>2. \A p : Sent(p)' <=> Sent(p)
    BY <1>6 DEF Sent
  <2> QED
    BY <1>1, <1>6, <1>7, <2>1, <2>2 DEF Inv, Asking
<1> QED
  BY <1>3, <1>5, <1>9, <1>10, <1>11, <1>12, <1>13 DEF Inv

LEMMA ManifestFailsStep ==
  ASSUME Inv, ManifestFails
  PROVE  Inv'
<1>1. UNCHANGED <<final, banded, emitted, pipe, queue, noted, crashes, session>> /\ frame' = Park
  BY DEF ManifestFails, UploaderOnly
<1>2. CASE bucket' = bucket
  <2>1. Kept'
    BY <1>1, <1>2, SameKept
  <2>2. \A t : TreeShipped(bucket', t) => t \in final
    BY <1>2 DEF Inv, Parted
  <2> QED
    BY <1>1, <1>2, <2>1, <2>2, Parking DEF Inv, Shaped
<1>3. CASE frame.pc = "manifest" /\ bucket' = WithBand
  <2>1. Keeps(bucket, bucket') /\ bucket' = [objects |-> bucket.objects, bands |-> bucket'.bands, root |-> bucket.root]
    BY <1>3, WithBandKeeps
  <2>2. Kept'
    BY <1>1, <2>1, KeepsKept DEF Inv, Kept
  <2>3. \A t : TreeShipped(bucket', t) => t \in final
    BY <2>1, KeepsShipped DEF Inv, Kept, Parted
  <2>4. bucket'.root = bucket.root /\ bucket'.objects = bucket.objects
    BY <2>1
  <2> QED
    BY <1>1, <2>1, <2>2, <2>3, <2>4, Parking DEF Inv, Shaped
<1>4. CASE frame.pc = "root" /\ bucket' = WithRoot
  <2>1. Kept'
    BY <1>1, <1>4, WithRootKept DEF Kept
  <2>2. /\ bucket' = [objects |-> bucket.objects, bands |-> bucket.bands, root |-> bucket'.root]
        /\ bucket'.root.bands = bucket.root.bands + 1 /\ bucket'.root.complete = frame.job.terminal /\ bucket'.root.next = session.next
    BY <1>4, WithRootShipped
  <2>3. \A t \in DOMAIN frame.manifest.trees : t \in final
    BY <1>4 DEF Inv, Known, Parted, InFlight, Alive, Busy
  <2>4. \A t : TreeShipped(bucket', t) => t \in final
    BY <1>4, <2>3, WithRootShipped DEF Inv, Parted
  <2>5. bucket'.root.next \in Nat /\ bucket'.root.bands \in Nat /\ bucket'.root.complete \in BOOLEAN
    BY <2>2 DEF Inv, Shaped, Jobs
  <2>6. bucket' = [objects |-> bucket'.objects, bands |-> bucket'.bands, root |-> bucket'.root]
    BY <2>2
  <2> QED
    BY <1>1, <2>1, <2>4, <2>5, <2>6, Parking
<1> QED
  BY <1>2, <1>3, <1>4 DEF ManifestFails

-----------------------------------------------------------------------------
(* A band is taken up. *)

LEMMA StartedFacts ==
  ASSUME NEW job \in Jobs
  PROVE  /\ Started(job) = [pc |-> "work", job |-> job, todo |-> [blobs |-> Work(job).blobs, trees |-> job.trees], window |-> {},
                            failed |-> FALSE, manifest |-> NoManifest]
         /\ \A t \in job.trees : \A k \in DOMAIN BlobsOf[t] : <<t, k>> \in Work(job).blobs
<1>1. Work(job) = [blobs |-> Work(job).blobs, trees |-> job.trees]
  BY DEF Work
<1>2. \A t \in job.trees : \A k \in DOMAIN BlobsOf[t] : <<t, k>> \in Work(job).blobs
  BY DEF Work
<1>3. Started(job) = [pc |-> "work", job |-> job, todo |-> Work(job), window |-> {}, failed |-> FALSE, manifest |-> NoManifest]
  BY DEF Started, Frame
<1> QED
  BY <1>1, <1>2, <1>3

LEMMA OneJob ==
  ASSUME NEW s \in Seq(Jobs), Len(s) <= 1, s # <<>>
  PROVE  \E job \in Jobs : /\ s = <<job>> /\ s[1] = job /\ Head(s) = job /\ Tail(s) = <<>> /\ Len(s) = 1
                           /\ Append(Tail(s), Head(s)) = <<job>>
<1>1. Len(s) = 1 /\ s[1] \in Jobs
  <2>1. Len(s) \in Nat /\ Len(s) # 0
    OBVIOUS
  <2>2. Len(s) = 1
    BY <2>1
  <2> QED
    BY <2>2
<1>2. s = <<s[1]>>
  BY <1>1
<1>3. \A x : Head(<<x>>) = x /\ Tail(<<x>>) = <<>> /\ Append(<<>>, x) = <<x>>
  OBVIOUS
<1> QED
  BY <1>1, <1>2, <1>3

\* The session knows just what is committed.
Settled ==
  /\ \A x : x \in DOMAIN session.dedup <=> BlobShipped(bucket, x)
  /\ \A t : t \in DOMAIN session.trees <=> TreeShipped(bucket, t)
  /\ \A k \in Bands(bucket) :
       /\ \A x \in DOMAIN bucket.bands[k].blobs : session.dedup[x] = bucket.bands[k].blobs[x]
       /\ \A t \in DOMAIN bucket.bands[k].trees : session.trees[t] = bucket.bands[k].trees[t]
  /\ bucket.root.next <= session.next

FrameShaped ==
  /\ frame = [pc |-> frame.pc, job |-> frame.job,
              todo |-> [blobs |-> frame.todo.blobs, trees |-> frame.todo.trees], window |-> frame.window,
              failed |-> frame.failed, manifest |-> [trees |-> frame.manifest.trees, blobs |-> frame.manifest.blobs]]
  /\ frame.pc \in Places /\ frame.job \in Jobs /\ frame.failed \in BOOLEAN

\* A frame with nothing asked for yet.
LEMMA TakesUp ==
  ASSUME Settled', frame' = NoFrame \/ \E job \in Jobs : frame' = Started(job)
  PROVE  FrameShaped' /\ Known' /\ Asking' /\ Left' /\ Alive'
<1>1. DOMAIN Empty = {}
  BY DEF Empty
<1>2. NoManifest = [trees |-> Empty, blobs |-> Empty]
  BY DEF NoManifest
<1>3. CASE frame' = NoFrame
  <2>1. frame' = [pc |-> "idle", job |-> Job(0, {}, FALSE), todo |-> [blobs |-> {}, trees |-> {}], window |-> {},
                  failed |-> FALSE, manifest |-> NoManifest]
    BY <1>3 DEF NoFrame, Frame
  <2>2. Job(0, {}, FALSE) \in Jobs
    BY DEF Job, Jobs
  <2>3. FrameShaped'
    BY <1>2, <2>1, <2>2 DEF FrameShaped, Places
  <2>4. Alive' /\ ~Sound' /\ ~Busy' /\ frame'.manifest = NoManifest /\ frame'.window = {} /\ frame'.failed = FALSE
    BY <2>1 DEF Alive, Sound, Busy
  <2>5. DOMAIN frame'.manifest.blobs = {} /\ DOMAIN frame'.manifest.trees = {}
    BY <1>1, <1>2, <2>4
  <2>6. Known'
    BY <2>5 DEF Known, Settled
  <2>7. Asking' /\ Left'
    BY <2>4 DEF Asking, Left, Settled
  <2> QED
    BY <2>3, <2>4, <2>6, <2>7
<1>4. ASSUME NEW job \in Jobs, frame' = Started(job)
      PROVE  FrameShaped' /\ Known' /\ Asking' /\ Left' /\ Alive'
  <2>1. frame' = [pc |-> "work", job |-> job, todo |-> [blobs |-> Work(job).blobs, trees |-> job.trees], window |-> {},
                  failed |-> FALSE, manifest |-> NoManifest]
    BY <1>4, StartedFacts
  <2>2. FrameShaped'
    BY <1>2, <2>1 DEF FrameShaped, Places
  <2>3. Alive' /\ ~Registered' /\ frame'.manifest = NoManifest /\ frame'.window = {} /\ frame'.failed = FALSE /\ frame'.pc = "work"
    BY <2>1 DEF Alive, Busy, Registered
  <2>4. DOMAIN frame'.manifest.blobs = {} /\ DOMAIN frame'.manifest.trees = {}
    BY <1>1, <1>2, <2>3
  <2>5. Known'
    BY <2>4 DEF Known, Settled
  <2>6. Asked' = {}
    BY <2>3, <2>4 DEF Asked
  <2>7. Asking'
    BY <2>3, <2>4, <2>6 DEF Asking, Settled
  <2>8. Left'
    <3>1. \A t \in job.trees : \A k \in DOMAIN BlobsOf[t] : <<t, k>> \in Work(job).blobs
      BY StartedFacts
    <3> QED
      BY <2>1, <2>3, <2>4, <3>1 DEF Left
  <2> QED
    BY <2>2, <2>3, <2>5, <2>7, <2>8
<1> QED
  BY <1>3, <1>4

LEMMA HandleBandStep ==
  ASSUME Inv, HandleBand
  PROVE  Inv'
<1>1. /\ pipe # <<>> /\ pipe' = Tail(pipe)
      /\ UNCHANGED <<final, banded, emitted, session, bucket, noted, crashes>>
  BY DEF HandleBand
<1>2. PICK job \in Jobs : pipe = <<job>> /\ pipe[1] = job /\ Head(pipe) = job /\ Tail(pipe) = <<>> /\ Len(pipe) = 1
  BY <1>1, OneJob DEF Inv, Shaped, Turns
<1>3. queue = <<>> /\ pipe' = <<>>
  BY <1>1, <1>2 DEF Inv, Turns
<1>4. Kept'
  BY <1>1, SameKept
<1>5. /\ Len(<<>>) = 0 /\ Len(<<job>>) = 1 /\ <<job>>[1] = job /\ <<job>> # <<>> /\ Append(<<>>, job) = <<job>>
      /\ Head(<<job>>) = job /\ Tail(<<job>>) = <<>> /\ <<>> \in Seq(Jobs) /\ <<job>> \in Seq(Jobs)
  OBVIOUS
<1>6. \A t : (TreeShipped(bucket, t))' <=> TreeShipped(bucket, t)
  BY <1>1
<1>7. \A t : InWaiting(t) <=> t \in job.trees
  BY <1>2, <1>3 DEF InWaiting
<1>8. CASE frame.pc = "idle"
  <2>1. frame' = Started(job) /\ queue' = <<>>
    BY <1>2, <1>3, <1>5, <1>8 DEF HandleBand
  <2>2. Settled'
    <3>1. frame.manifest = NoManifest /\ Alive /\ bucket.root.next <= session.next
      BY <1>8 DEF Inv, Asking, Alive
    <3>2. DOMAIN frame.manifest.blobs = {} /\ DOMAIN frame.manifest.trees = {}
      BY <3>1 DEF NoManifest, Empty
    <3>3. Settled
      BY <3>1, <3>2 DEF Inv, Known, Settled
    <3>4. \A x : (BlobShipped(bucket, x))' <=> BlobShipped(bucket, x)
      BY <1>1
    <3>5. Bands(bucket)' = Bands(bucket)
      BY <1>1
    <3> QED
      BY <1>1, <1>6, <3>3, <3>4, <3>5 DEF Settled
  <2>3. FrameShaped' /\ Known' /\ Asking' /\ Left' /\ Alive'
    BY <2>1, <2>2, TakesUp
  <2>4. Shaped'
    BY <1>1, <1>3, <1>5, <2>1, <2>3 DEF FrameShaped, Inv, Shaped
  <2>5. frame'.pc = "work" /\ frame'.job = job
    BY <2>1, StartedFacts
  <2>6. Busy' /\ ~Busy /\ Alive
    BY <1>8, <2>5 DEF Busy, Alive
  <2>7. Turns'
    BY <1>1, <1>2, <1>3, <1>5, <1>8, <2>1, <2>5, <2>6 DEF Inv, Shaped, Turns
  <2>8. Parted'
    <3>1. \A t : ~InWaiting(t)' /\ (InFlight(t)' <=> t \in job.trees) /\ ~InFlight(t)
      BY <1>3, <2>1, <2>5, <2>6 DEF InWaiting, InFlight
    <3> QED
      BY <1>1, <1>6, <1>7, <2>6, <3>1 DEF Inv, Parted
  <2> QED
    BY <1>4, <2>3, <2>4, <2>7, <2>8 DEF Inv
<1>9. CASE frame.pc # "idle"
  <2>1. queue' = <<job>> /\ frame' = frame
    BY <1>2, <1>3, <1>5, <1>9 DEF HandleBand
  <2>2. Shaped'
    BY <1>1, <1>3, <1>5, <2>1 DEF Inv, Shaped
  <2>3. (Busy' <=> Busy) /\ (Alive' <=> Alive) /\ (Sound' <=> Sound) /\ (Registered' <=> Registered)
    BY <2>1 DEF Busy, Alive, Sound, Registered
  <2>4. Turns'
    BY <1>1, <1>2, <1>3, <1>5, <1>9, <2>1, <2>3 DEF Inv, Shaped, Turns
  <2>5. Parted'
    <3>1. \A t : (InWaiting(t)' <=> t \in job.trees) /\ (InFlight(t)' <=> InFlight(t))
      BY <1>3, <1>5, <2>1, <2>3 DEF InWaiting, InFlight
    <3> QED
      BY <1>1, <1>6, <1>7, <2>3, <3>1 DEF Inv, Parted
  <2>6. Asking' /\ Known'
    <3>1. Asked' = Asked /\ \A p : Sent(p)' <=> Sent(p)
      BY <1>1, <2>1, <2>3, SameAsked DEF Sent
    <3>2. Known'
      BY <1>1, <2>1, <2>3, SameKnown
    <3>3. Asking'
      BY <1>1, <2>1, <2>3, <3>1 DEF Inv, Asking
    <3> QED
      BY <3>2, <3>3
  <2>7. Left'
    BY <1>1, <2>1, <2>3 DEF Inv, Left
  <2> QED
    BY <1>4, <2>2, <2>4, <2>5, <2>6, <2>7 DEF Inv
<1> QED
  BY <1>8, <1>9

\* The root manifest commits the band, and the next is taken up.
LEMMA PutRootManifestStep ==
  ASSUME Inv, PutRootManifest
  PROVE  Inv'
<1>1. /\ frame.pc = "root" /\ bucket' = WithRoot /\ session' = [session EXCEPT !.bands = frame.job.band + 1]
      /\ noted' = noted \cup {<<b, frame.manifest.blobs[b]>> : b \in DOMAIN frame.manifest.blobs}
      /\ TakeNext /\ UNCHANGED <<final, banded, emitted, pipe, crashes>>
  BY DEF PutRootManifest
<1>2. Kept'
  BY <1>1, WithRootKept DEF Kept
<1>3. Busy /\ Alive /\ Sound
  BY <1>1 DEF Busy, Alive, Sound, Inv, Asking
<1>4. /\ bucket' = [objects |-> bucket.objects, bands |-> bucket.bands, root |-> bucket'.root]
      /\ bucket'.root.bands = bucket.root.bands + 1 /\ bucket'.root.complete = frame.job.terminal /\ bucket'.root.next = session.next
      /\ Bands(bucket') = Bands(bucket) \cup {bucket.root.bands} /\ bucket.bands[bucket.root.bands] = frame.manifest
      /\ \A t : TreeShipped(bucket', t) <=> TreeShipped(bucket, t) \/ t \in DOMAIN frame.manifest.trees
      /\ \A x : BlobShipped(bucket', x) <=> BlobShipped(bucket, x) \/ x \in DOMAIN frame.manifest.blobs
  BY <1>1, WithRootShipped
<1>5. frame.job.band = bucket.root.bands /\ bucket.root.bands \in Nat /\ frame.job \in Jobs
  BY <1>3 DEF Inv, Shaped, Turns
<1>6. session' = [dedup |-> session.dedup, trees |-> session.trees, next |-> session.next, bands |-> bucket.root.bands + 1,
                  enqueued |-> session.enqueued, resumed |-> session.resumed]
  BY <1>1, <1>5 DEF Inv, Shaped
<1>7. /\ bucket'.bands = bucket.bands /\ session'.dedup = session.dedup /\ session'.trees = session.trees
      /\ session'.next = session.next /\ session.next \in Nat /\ session'.bands = bucket'.root.bands
      /\ session'.enqueued = session.enqueued /\ session'.resumed = session.resumed
  BY <1>4, <1>6 DEF Inv, Shaped
<1>8. Settled'
  <2>1. \A k \in Bands(bucket') :
         /\ \A x \in DOMAIN bucket.bands[k].blobs : session.dedup[x] = bucket.bands[k].blobs[x]
         /\ \A t \in DOMAIN bucket.bands[k].trees : session.trees[t] = bucket.bands[k].trees[t]
    BY <1>3, <1>4 DEF Inv, Known
  <2>2. /\ \A x : x \in DOMAIN session.dedup <=> BlobShipped(bucket', x)
        /\ \A t : t \in DOMAIN session.trees <=> TreeShipped(bucket', t)
    BY <1>3, <1>4 DEF Inv, Known
  <2>3. bucket'.root.next <= session'.next
    BY <1>4, <1>7
  <2> QED
    BY <1>7, <2>1, <2>2, <2>3 DEF Settled
<1>9. /\ <<>> \in Seq(Jobs) /\ Len(<<>>) = 0
      /\ \A j : Head(<<j>>) = j /\ Tail(<<j>>) = <<>>
  OBVIOUS
<1>10. DOMAIN frame.manifest.trees = frame.job.trees
  BY <1>1, <1>3 DEF Inv, Left
<1>11. \A t : TreeShipped(bucket', t) <=> TreeShipped(bucket, t) \/ InFlight(t)
  BY <1>3, <1>4, <1>10 DEF InFlight
<1>12. bucket'.root.next \in Nat /\ bucket'.root.bands \in Nat /\ bucket'.root.complete \in BOOLEAN
  BY <1>4, <1>5, <1>7 DEF Jobs
<1>13. ASSUME FrameShaped', queue' = <<>>
       PROVE  Shaped'
  <2>1. session' = [dedup |-> session'.dedup, trees |-> session'.trees, next |-> session'.next, bands |-> session'.bands,
                    enqueued |-> session'.enqueued, resumed |-> session'.resumed]
    BY <1>6
  <2>2. session'.next \in Nat /\ session'.bands \in Nat /\ session'.enqueued \in Nat /\ session'.resumed \in Nat
    BY <1>5, <1>6, <1>7 DEF Inv, Shaped
  <2>3. bucket' = [objects |-> bucket'.objects, bands |-> bucket'.bands, root |-> bucket'.root]
    BY <1>4
  <2> QED
    BY <1>1, <1>9, <1>12, <1>13, <2>1, <2>2, <2>3 DEF FrameShaped, Inv, Shaped
<1>14. CASE queue = <<>>
  <2>1. frame' = NoFrame /\ queue' = <<>>
    BY <1>1, <1>14 DEF TakeNext
  <2>2. FrameShaped' /\ Known' /\ Asking' /\ Left' /\ Alive'
    BY <1>8, <2>1, TakesUp
  <2>3. ~Busy' /\ frame'.pc = "idle"
    BY <2>1 DEF Busy, NoFrame, Frame
  <2>4. Turns'
    BY <1>1, <1>3, <1>4, <1>5, <1>7, <1>9, <1>14, <2>1, <2>2, <2>3 DEF Inv, Shaped, Turns
  <2>5. Parted'
    <3>1. \A t : ~InFlight(t)' /\ (InWaiting(t)' <=> InWaiting(t))
      BY <1>1, <1>14, <2>1, <2>3 DEF InFlight, InWaiting
    <3>2. \A t : InFlight(t) => t \in banded
      BY <1>3 DEF Inv, Parted
    <3> QED
      BY <1>1, <1>3, <1>11, <3>1, <3>2 DEF Inv, Parted
  <2> QED
    BY <1>2, <1>13, <2>1, <2>2, <2>4, <2>5 DEF Inv
<1>15. CASE queue # <<>>
  <2>1. PICK job \in Jobs : queue = <<job>> /\ queue[1] = job /\ Len(queue) = 1 /\ Append(Tail(queue), Head(queue)) = <<job>>
    BY <1>15, OneJob DEF Inv, Shaped, Turns
  <2>2. frame' = Started(job) /\ queue' = <<>>
    BY <1>1, <1>9, <1>15, <2>1 DEF TakeNext
  <2>3. FrameShaped' /\ Known' /\ Asking' /\ Left' /\ Alive'
    BY <1>8, <2>2, TakesUp
  <2>4. frame'.pc = "work" /\ frame'.job = job
    BY <2>2, StartedFacts
  <2>5. Busy' /\ pipe = <<>>
    BY <1>15, <2>4 DEF Busy, Inv, Turns
  <2>6. Turns'
    <3>1. job.band = emitted.next - 1 /\ emitted.next = bucket.root.bands + 1 + Len(pipe) + Len(queue)
      BY <1>3, <1>15, <2>1 DEF Inv, Turns
    <3> QED
      BY <1>1, <1>4, <1>5, <1>7, <1>9, <2>1, <2>2, <2>4, <2>5, <3>1 DEF Inv, Shaped, Turns
  <2>7. Parted'
    <3>1. \A t : (InFlight(t)' <=> t \in job.trees) /\ ~InWaiting(t)'
      BY <1>1, <2>2, <2>4, <2>5 DEF InFlight, InWaiting
    <3>2. \A t : InWaiting(t) <=> t \in job.trees
      BY <2>1, <2>5 DEF InWaiting
    <3>3. \A t : InFlight(t) => t \in banded
      BY <1>3 DEF Inv, Parted
    <3> QED
      BY <1>1, <1>3, <1>11, <3>1, <3>2, <3>3 DEF Inv, Parted
  <2> QED
    BY <1>2, <1>13, <2>2, <2>3, <2>6, <2>7 DEF Inv
<1> QED
  BY <1>14, <1>15

-----------------------------------------------------------------------------
(* The tree loop emits a band. *)

LEMMA EmitBandStep ==
  ASSUME MaxWaiting = 1, Inv, EmitBand
  PROVE  Inv'
<1>1. PICK now \in SUBSET Trees :
        /\ final \subseteq now /\ final' = now /\ banded' = now
        /\ emitted' = [next |-> emitted.next + 1, terminal |-> emitted.terminal \/ (now = Trees)]
        /\ pipe' = Append(pipe, Job(emitted.next, now \ banded, now = Trees))
  BY DEF EmitBand, Job
<1>2. /\ Len(pipe) + Len(queue) < 1 /\ session' = [session EXCEPT !.enqueued = @ + 1]
      /\ UNCHANGED <<queue, frame, bucket, noted, crashes>>
  BY DEF EmitBand
<1>3. PICK job \in Jobs : job = Job(emitted.next, now \ banded, now = Trees) /\ job.band = emitted.next /\ job.trees = now \ banded
  <2>1. emitted.next \in Nat
    BY DEF Inv, Shaped
  <2>2. Job(emitted.next, now \ banded, now = Trees) \in Jobs
    BY <2>1 DEF Job, Jobs
  <2>3. /\ Job(emitted.next, now \ banded, now = Trees).band = emitted.next
        /\ Job(emitted.next, now \ banded, now = Trees).trees = now \ banded
    BY DEF Job
  <2> QED
    BY <2>2, <2>3
<1>4. pipe = <<>> /\ queue = <<>>
  <2> DEFINE p == pipe
             q == queue
  <2>1. p \in Seq(Jobs) /\ q \in Seq(Jobs) /\ Len(p) + Len(q) < 1
    BY <1>2 DEF Inv, Shaped
  <2> HIDE DEF p, q
  <2>2. Len(p) = 0 /\ Len(q) = 0
    BY <2>1
  <2>3. p = <<>> /\ q = <<>>
    BY <2>1, <2>2
  <2> QED
    BY <2>3 DEF p, q
<1>5. /\ Len(<<>>) = 0 /\ Len(<<job>>) = 1 /\ <<job>>[1] = job /\ <<job>> # <<>> /\ Append(<<>>, job) = <<job>> /\ <<job>> \in Seq(Jobs)
  OBVIOUS
<1>6. pipe' = <<job>> /\ queue' = <<>>
  BY <1>1, <1>2, <1>3, <1>4, <1>5
<1>7. session' = [dedup |-> session.dedup, trees |-> session.trees, next |-> session.next, bands |-> session.bands,
                  enqueued |-> session.enqueued + 1, resumed |-> session.resumed]
  BY <1>2 DEF Inv, Shaped
<1>8. /\ session'.dedup = session.dedup /\ session'.trees = session.trees /\ session'.next = session.next
      /\ session'.bands = session.bands /\ session'.enqueued = session.enqueued + 1 /\ session'.resumed = session.resumed
      /\ emitted'.next = emitted.next + 1
  BY <1>1, <1>7
<1>9. Shaped'
  <2>1. session' = [dedup |-> session'.dedup, trees |-> session'.trees, next |-> session'.next, bands |-> session'.bands,
                    enqueued |-> session'.enqueued, resumed |-> session'.resumed]
    BY <1>7
  <2>2. emitted' = [next |-> emitted'.next, terminal |-> emitted'.terminal] /\ emitted'.terminal \in BOOLEAN
    BY <1>1 DEF Inv, Shaped
  <2> QED
    BY <1>1, <1>2, <1>4, <1>5, <1>6, <1>8, <2>1, <2>2 DEF Inv, Shaped
<1>10. Kept'
  BY <1>2, SameKept
<1>11. (Busy' <=> Busy) /\ (Alive' <=> Alive) /\ (Sound' <=> Sound) /\ (Registered' <=> Registered)
  BY <1>2 DEF Busy, Alive, Sound, Registered
<1>12. /\ \A x : (BlobShipped(bucket, x))' <=> BlobShipped(bucket, x)
       /\ \A t : (TreeShipped(bucket, t))' <=> TreeShipped(bucket, t)
       /\ Bands(bucket)' = Bands(bucket)
  BY <1>2
<1>13. Known'
  BY <1>2, <1>8, <1>11, <1>12 DEF Inv, Known
<1>14. Asking'
  <2>1. Asked' = Asked /\ \A p : Sent(p)' <=> Sent(p)
    BY <1>2, <1>8, <1>11 DEF Asked, BlobAsk, TreeAsk, RegistryAsk, AttributesAsk, Sent
  <2> QED
    BY <1>2, <1>8, <1>11, <2>1 DEF Inv, Asking
<1>15. Left'
  BY <1>2, <1>8, <1>11 DEF Inv, Left
<1>16. Turns'
  BY <1>2, <1>3, <1>4, <1>5, <1>6, <1>8, <1>11 DEF Inv, Shaped, Turns
<1>17. Parted'
  <2>1. \A t : (InWaiting(t)' <=> t \in now \ banded) /\ (InFlight(t)' <=> InFlight(t)) /\ ~InWaiting(t)
    BY <1>2, <1>3, <1>4, <1>5, <1>6, <1>11 DEF InWaiting, InFlight
  <2>2. banded \subseteq now
    BY <1>1 DEF Inv, Parted
  <2> QED
    BY <1>1, <1>11, <1>12, <2>1, <2>2 DEF Inv, Parted
<1> QED
  BY <1>9, <1>10, <1>13, <1>14, <1>15, <1>16, <1>17 DEF Inv

-----------------------------------------------------------------------------
(* The process dies, and what it finds in the bucket is all it knows. *)

Found(b) ==
  /\ Whole(b) /\ Apart(b) /\ Told(b, noted)
  /\ b = [objects |-> b.objects, bands |-> b.bands, root |-> b.root]
  /\ b.root.next \in Nat /\ b.root.bands \in Nat /\ b.root.complete \in BOOLEAN
  /\ \A t : TreeShipped(b, t) => t \in final

LEMMA CrashFinds ==
  ASSUME Inv, NEW found,
         \/ found = bucket
         \/ found = WithBand /\ frame.pc = "manifest"
         \/ found = WithRoot /\ frame.pc = "root"
  PROVE  Found(found) /\ \A p \in frame.window : p.id \in Nat /\ found.root.next <= p.id
<1>1. CASE found = bucket
  BY <1>1 DEF Inv, Shaped, Kept, Asking, Parted, Found
<1>2. CASE found = WithBand /\ frame.pc = "manifest"
  <2>1. Keeps(bucket, found) /\ found = [objects |-> bucket.objects, bands |-> found.bands, root |-> bucket.root]
    BY <1>2, WithBandKeeps
  <2>2. Whole(found) /\ Apart(found) /\ Told(found, noted)
    BY <2>1, KeepsKept DEF Inv, Kept
  <2>3. \A t : TreeShipped(found, t) => t \in final
    BY <2>1, KeepsShipped DEF Inv, Kept, Parted
  <2>4. found.root = bucket.root /\ found.objects = bucket.objects
    BY <2>1
  <2> QED
    BY <2>1, <2>2, <2>3, <2>4 DEF Inv, Shaped, Asking, Found
<1>3. CASE found = WithRoot /\ frame.pc = "root"
  <2>1. Whole(found) /\ Apart(found) /\ Told(found, noted)
    BY <1>3, WithRootKept
  <2>2. /\ found = [objects |-> bucket.objects, bands |-> bucket.bands, root |-> found.root]
        /\ found.root.bands = bucket.root.bands + 1 /\ found.root.complete = frame.job.terminal /\ found.root.next = session.next
    BY <1>3, WithRootShipped
  <2>3. \A t \in DOMAIN frame.manifest.trees : t \in final
    BY <1>3 DEF Inv, Known, Parted, InFlight, Alive, Busy
  <2>4. \A t : TreeShipped(found, t) => t \in final
    BY <1>3, <2>3, WithRootShipped DEF Inv, Parted
  <2>5. found.root.next \in Nat /\ found.root.bands \in Nat /\ found.root.complete \in BOOLEAN
    BY <2>2 DEF Inv, Shaped, Jobs
  <2>6. found = [objects |-> found.objects, bands |-> found.bands, root |-> found.root]
    BY <2>2
  <2>7. frame.window = {}
    BY <1>3 DEF Inv, Asking
  <2> QED
    BY <2>1, <2>4, <2>5, <2>6, <2>7 DEF Found
<1> QED
  BY <1>1, <1>2, <1>3

LEMMA BootstrappedFacts ==
  ASSUME NEW b, Apart(b), Whole(b), b.root.bands \in Nat
  PROVE  /\ \A t : t \in DOMAIN TreesIn(b) <=> TreeShipped(b, t)
         /\ \A x : x \in DOMAIN BlobsIn(b) <=> BlobShipped(b, x)
         /\ \A k \in Bands(b) : /\ \A t \in DOMAIN b.bands[k].trees : TreesIn(b)[t] = b.bands[k].trees[t]
                                /\ \A x \in DOMAIN b.bands[k].blobs : BlobsIn(b)[x] = b.bands[k].blobs[x]
         /\ Bootstrapped(b) = [dedup |-> BlobsIn(b), trees |-> TreesIn(b), next |-> b.root.next, bands |-> b.root.bands,
                               enqueued |-> 0, resumed |-> b.root.bands]
<1> DEFINE n == b.root.bands
           tm == [k \in DOMAIN b.bands |-> b.bands[k].trees]
           bm == [k \in DOMAIN b.bands |-> b.bands[k].blobs]
<1>1. \A k \in 0 .. n - 1 : k \in DOMAIN b.bands /\ tm[k] = b.bands[k].trees /\ bm[k] = b.bands[k].blobs
  BY DEF Whole, Bands
<1>2. \A j, k \in 0 .. n - 1 : j # k => DOMAIN tm[j] \cap DOMAIN tm[k] = {} /\ DOMAIN bm[j] \cap DOMAIN bm[k] = {}
  BY <1>1 DEF Apart, Bands
<1>3. TreesIn(b) = Gathered(n, tm) /\ BlobsIn(b) = Gathered(n, bm)
  BY DEF TreesIn, BlobsIn
<1> HIDE DEF n, tm, bm
<1>4. n \in Nat
  BY DEF n
<1>5. /\ \A x : x \in DOMAIN Gathered(n, tm) <=> \E k \in 0 .. n - 1 : x \in DOMAIN tm[k]
      /\ \A k \in 0 .. n - 1 : \A x \in DOMAIN tm[k] : Gathered(n, tm)[x] = tm[k][x]
  BY <1>2, <1>4, GatheredParts
<1>6. /\ \A x : x \in DOMAIN Gathered(n, bm) <=> \E k \in 0 .. n - 1 : x \in DOMAIN bm[k]
      /\ \A k \in 0 .. n - 1 : \A x \in DOMAIN bm[k] : Gathered(n, bm)[x] = bm[k][x]
  BY <1>2, <1>4, GatheredParts
<1>7. Bands(b) = 0 .. n - 1
  BY DEF Bands, n
<1>8. /\ \A t : t \in DOMAIN TreesIn(b) <=> TreeShipped(b, t)
      /\ \A x : x \in DOMAIN BlobsIn(b) <=> BlobShipped(b, x)
  BY <1>1, <1>3, <1>5, <1>6, <1>7 DEF TreeShipped, BlobShipped
<1>9. \A k \in Bands(b) : /\ \A t \in DOMAIN b.bands[k].trees : TreesIn(b)[t] = b.bands[k].trees[t]
                          /\ \A x \in DOMAIN b.bands[k].blobs : BlobsIn(b)[x] = b.bands[k].blobs[x]
  BY <1>1, <1>3, <1>5, <1>6, <1>7
<1>10. Bootstrapped(b) = [dedup |-> BlobsIn(b), trees |-> TreesIn(b), next |-> b.root.next, bands |-> b.root.bands,
                          enqueued |-> 0, resumed |-> b.root.bands]
  BY DEF Bootstrapped, Session
<1> QED
  BY <1>8, <1>9, <1>10

LEMMA CrashStep ==
  ASSUME Inv, Crash
  PROVE  Inv'
<1>1. PICK landed \in SUBSET frame.window,
           found \in {bucket} \cup (IF frame.pc = "manifest" THEN {WithBand} ELSE {})
                              \cup (IF frame.pc = "root" THEN {WithRoot} ELSE {}) :
        LET b == [found EXCEPT !.objects =
                    Merged(@, [i \in {p.id : p \in landed} |-> (CHOOSE p \in landed : p.id = i).content])]
            readable == \A k \in 0 .. b.root.bands - 1 : k \in DOMAIN b.bands
        IN  /\ bucket' = b
            /\ IF readable
               THEN /\ session' = Bootstrapped(b) /\ frame' = NoFrame
                    /\ banded' = DOMAIN Bootstrapped(b).trees
                    /\ emitted' = SinkSeed(b)
               ELSE /\ session' = NewSession /\ frame' = [NoFrame EXCEPT !.pc = "refused"]
                    /\ UNCHANGED <<banded, emitted>>
  BY DEF Crash
<1>2. pipe' = <<>> /\ queue' = <<>> /\ UNCHANGED <<final, noted>> /\ crashes < MaxCrashes /\ crashes' = crashes + 1
  BY DEF Crash
<1>3. Found(found) /\ \A p \in landed : p.id \in Nat /\ found.root.next <= p.id
  BY <1>1, CrashFinds
<1>4. PICK new : /\ new = {p.id : p \in landed}
                 /\ bucket' = [found EXCEPT !.objects =
                      Merged(@, [i \in new |-> (CHOOSE p \in landed : p.id = i).content])]
  BY <1>1
<1>5. PICK extra : extra = [i \in new |-> (CHOOSE p \in landed : p.id = i).content]
  OBVIOUS
<1>6. DOMAIN extra = new /\ \A i \in new : i \in Nat /\ found.root.next <= i
  BY <1>3, <1>4, <1>5
<1>7. bucket' = [objects |-> Merged(found.objects, extra), bands |-> found.bands, root |-> found.root]
  BY <1>3, <1>4, <1>5 DEF Found
<1>8. /\ bucket'.root = found.root /\ bucket'.bands = found.bands /\ DOMAIN found.objects \subseteq DOMAIN bucket'.objects
      /\ \A id \in DOMAIN found.objects : id \notin new => bucket'.objects[id] = found.objects[id]
  BY <1>6, <1>7 DEF Merged
<1>9. Keeps(found, bucket')
  <2>1. \A id \in new : ~(id < found.root.next)
    BY <1>3, <1>6 DEF Found
  <2> QED
    BY <1>8, <2>1 DEF Keeps
<1>10. Kept'
  BY <1>2, <1>3, <1>9, KeepsKept DEF Kept, Found
<1>11. \A t : TreeShipped(bucket', t) => t \in final
  BY <1>3, <1>9, KeepsShipped DEF Found
<1>12. /\ session' = Bootstrapped(bucket') /\ frame' = NoFrame
       /\ banded' = DOMAIN Bootstrapped(bucket').trees /\ emitted' = SinkSeed(bucket')
  <2>1. \A k \in 0 .. bucket'.root.bands - 1 : k \in DOMAIN bucket'.bands
    BY <1>10 DEF Kept, Whole, Bands
  <2> QED
    BY <1>1, <2>1
<1>13. bucket'.root.next \in Nat /\ bucket'.root.bands \in Nat /\ bucket'.root.complete \in BOOLEAN
  BY <1>3, <1>8 DEF Found
<1>14. /\ \A t : t \in DOMAIN TreesIn(bucket') <=> TreeShipped(bucket', t)
       /\ \A x : x \in DOMAIN BlobsIn(bucket') <=> BlobShipped(bucket', x)
       /\ \A k \in Bands(bucket') : /\ \A t \in DOMAIN bucket'.bands[k].trees : TreesIn(bucket')[t] = bucket'.bands[k].trees[t]
                                    /\ \A x \in DOMAIN bucket'.bands[k].blobs : BlobsIn(bucket')[x] = bucket'.bands[k].blobs[x]
       /\ session' = [dedup |-> BlobsIn(bucket'), trees |-> TreesIn(bucket'), next |-> bucket'.root.next,
                      bands |-> bucket'.root.bands, enqueued |-> 0, resumed |-> bucket'.root.bands]
  BY <1>10, <1>12, <1>13, BootstrappedFacts DEF Kept
<1>15. /\ session'.dedup = BlobsIn(bucket') /\ session'.trees = TreesIn(bucket') /\ session'.next = bucket'.root.next
       /\ session'.bands = bucket'.root.bands /\ session'.enqueued = 0 /\ session'.resumed = bucket'.root.bands
       /\ banded' = DOMAIN TreesIn(bucket')
  BY <1>12, <1>14
<1>16. Settled'
  BY <1>13, <1>14, <1>15 DEF Settled
<1>17. FrameShaped' /\ Known' /\ Asking' /\ Left' /\ Alive'
  BY <1>12, <1>16, TakesUp
<1>18. emitted'.next = bucket'.root.bands /\ emitted' = [next |-> bucket'.root.bands, terminal |-> bucket'.root.complete]
  BY <1>12 DEF SinkSeed
<1>19. <<>> \in Seq(Jobs) /\ Len(<<>>) = 0
  OBVIOUS
<1>20. frame'.pc = "idle" /\ ~Busy'
  BY <1>12 DEF NoFrame, Frame, Busy
<1>21. Shaped'
  <2>1. session' = [dedup |-> session'.dedup, trees |-> session'.trees, next |-> session'.next, bands |-> session'.bands,
                    enqueued |-> session'.enqueued, resumed |-> session'.resumed]
    BY <1>14
  <2>2. emitted' = [next |-> emitted'.next, terminal |-> emitted'.terminal] /\ emitted'.terminal \in BOOLEAN /\ emitted'.next \in Nat
    BY <1>13, <1>18
  <2>3. bucket' = [objects |-> bucket'.objects, bands |-> bucket'.bands, root |-> bucket'.root]
    BY <1>7
  <2>4. crashes' \in 0 .. MaxCrashes
    BY <1>2, UploadHandlerAssumption DEF Inv, Shaped
  <2> QED
    BY <1>2, <1>13, <1>15, <1>17, <1>19, <2>1, <2>2, <2>3, <2>4 DEF FrameShaped, Inv, Shaped
<1>22. Turns'
  BY <1>2, <1>13, <1>15, <1>17, <1>18, <1>19, <1>20 DEF Turns
<1>23. Parted'
  <2>1. \A t : ~InFlight(t)' /\ ~InWaiting(t)'
    BY <1>2, <1>20 DEF InFlight, InWaiting
  <2> QED
    BY <1>2, <1>11, <1>14, <1>15, <2>1 DEF Parted
<1> QED
  BY <1>10, <1>17, <1>21, <1>22, <1>23 DEF Inv

-----------------------------------------------------------------------------
(* The theorems. *)

LEMMA InitInv == Init => Inv
<1> SUFFICES ASSUME Init PROVE Inv
  OBVIOUS
<1>1. /\ emitted = [next |-> 0, terminal |-> FALSE] /\ pipe = <<>> /\ queue = <<>> /\ frame = NoFrame
      /\ session = [dedup |-> Empty, trees |-> Empty, next |-> 0, bands |-> 0, enqueued |-> 0, resumed |-> 0]
      /\ bucket = [objects |-> Empty, bands |-> Empty, root |-> bucket.root]
      /\ bucket.root = [bands |-> 0, complete |-> FALSE, next |-> 0, registry |-> NoRegistry]
      /\ final = {} /\ banded = {} /\ noted = {} /\ crashes = 0
  BY DEF Init, NewSession, Session, Root
<1>2. frame = [pc |-> "idle", job |-> Job(0, {}, FALSE), todo |-> [blobs |-> {}, trees |-> {}], window |-> {},
               failed |-> FALSE, manifest |-> NoManifest]
  BY <1>1 DEF NoFrame, Frame
<1>3. Job(0, {}, FALSE) \in Jobs /\ NoManifest = [trees |-> Empty, blobs |-> Empty] /\ DOMAIN Empty = {}
      /\ <<>> \in Seq(Jobs) /\ Len(<<>>) = 0
  BY DEF Job, Jobs, NoManifest, Empty
<1>4. Bands(bucket) = {}
  BY <1>1 DEF Bands
<1>5. Shaped
  <2>1. frame = [pc |-> frame.pc, job |-> frame.job,
              todo |-> [blobs |-> frame.todo.blobs, trees |-> frame.todo.trees], window |-> frame.window,
              failed |-> frame.failed, manifest |-> [trees |-> frame.manifest.trees, blobs |-> frame.manifest.blobs]]
    BY <1>2, <1>3
  <2>2. frame.pc \in Places /\ frame.job \in Jobs /\ frame.failed \in BOOLEAN
    BY <1>2, <1>3 DEF Places
  <2> QED
    BY <1>1, <1>3, <2>1, <2>2, UploadHandlerAssumption DEF Shaped
<1>6. Kept
  BY <1>1, <1>4 DEF Kept, Whole, Apart, Told
<1>7. ~Busy /\ ~Sound /\ frame.pc = "idle" /\ frame.window = {} /\ ~frame.failed /\ frame.manifest = NoManifest
  BY <1>2 DEF Busy, Sound
<1>8. (\A t : ~TreeShipped(bucket, t)) /\ (\A x : ~BlobShipped(bucket, x))
  BY <1>4 DEF TreeShipped, BlobShipped
<1>9. session.dedup = Empty /\ session.trees = Empty /\ frame.manifest.blobs = Empty /\ frame.manifest.trees = Empty
  BY <1>1, <1>3, <1>7
<1>10. Known
  BY <1>3, <1>4, <1>8, <1>9 DEF Known
<1>11. Asking /\ Left
  BY <1>1, <1>7 DEF Asking, Left
<1>12. Turns
  BY <1>1, <1>3, <1>7 DEF Turns
<1>13. Parted
  <2>1. \A t : ~InFlight(t) /\ ~InWaiting(t)
    BY <1>1, <1>7 DEF InFlight, InWaiting
  <2> QED
    BY <1>1, <1>8, <2>1 DEF Parted
<1> QED
  BY <1>5, <1>6, <1>10, <1>11, <1>12, <1>13 DEF Inv

LEMMA StutterStep ==
  ASSUME Inv, UNCHANGED vars
  PROVE  Inv'
<1>1. UNCHANGED <<final, banded, emitted, pipe, queue, session, frame, bucket, noted, crashes>>
  BY DEF vars
<1>2. (Busy' <=> Busy) /\ (Alive' <=> Alive) /\ (Sound' <=> Sound) /\ (Registered' <=> Registered)
  BY <1>1 DEF Busy, Alive, Sound, Registered
<1>3. Shaped'
  BY <1>1 DEF Inv, Shaped
<1>4. Kept' /\ Known'
  BY <1>1, <1>2, SameKept, SameKnown
<1>5. Asking'
  <2>1. Asked' = Asked /\ \A p : Sent(p)' <=> Sent(p)
    BY <1>1, <1>2, SameAsked DEF Sent
  <2> QED
    BY <1>1, <1>2, <2>1 DEF Inv, Asking
<1>6. Left'
  BY <1>1, <1>2 DEF Inv, Left
<1>7. Turns'
  BY <1>1, <1>2 DEF Inv, Turns
<1>8. Parted'
  <2>1. \A t : (InFlight(t)' <=> InFlight(t)) /\ (InWaiting(t)' <=> InWaiting(t))
    BY <1>1, <1>2 DEF InFlight, InWaiting
  <2>2. \A t : (TreeShipped(bucket, t))' <=> TreeShipped(bucket, t)
    BY <1>1
  <2> QED
    BY <1>1, <1>2, <2>1, <2>2 DEF Inv, Parted
<1> QED
  BY <1>3, <1>4, <1>5, <1>6, <1>7, <1>8 DEF Inv

LEMMA NextInv ==
  ASSUME MaxWaiting = 1, Inv, [Next]_vars
  PROVE  Inv'
BY EmitBandStep, HandleBandStep, SkipBlobStep, UploadBlobStep, AwaitRoomStep, UploadTreeStep, GivesUpStep, FinishLaunchingStep,
   WindowDrainedStep, PutBandManifestStep, PutRootManifestStep, PutStep, ManifestFailsStep, CrashStep, StutterStep
   DEF Next, Uploader

LEMMA InvHolds ==
  ASSUME MaxWaiting = 1
  PROVE  Spec => []Inv
<1>1. Init => Inv
  BY InitInv
<1>2. Inv /\ [Next]_vars => Inv'
  BY NextInv
<1> QED
  BY <1>1, <1>2, PTL DEF Spec

LEMMA CommittedAreBands ==
  ASSUME Inv
  PROVE  \A k : k \in Committed <=> k \in Bands(bucket)
<1>1. \A k \in Bands(bucket) : k \in DOMAIN bucket.bands /\ k < bucket.root.bands
  BY DEF Inv, Shaped, Kept, Whole, Bands
<1>2. \A k \in Committed : k \in Bands(bucket)
  BY DEF Committed, Bands
<1> QED
  BY <1>1, <1>2 DEF Committed, Bands

LEMMA InvReadable ==
  ASSUME Inv
  PROVE  BucketReadable
<1>1. \A id, kind, of : InObjects(bucket, id, kind, of) => Holds(id, kind, of)
  BY DEF InObjects, Holds, Content
<1>2. \A t, id : TreeFound(bucket, t, id) => TreeReadable(t, id)
  BY <1>1 DEF TreeFound, TreeReadable, Content
<1>3. \A k \in Committed : \A t \in DOMAIN bucket.bands[k].trees : TreeReadable(t, bucket.bands[k].trees[t])
  BY <1>2, CommittedAreBands DEF Inv, Kept, Whole
<1>4. bucket.root.complete =>
        /\ Holds(bucket.root.registry, "registry", 0)
        /\ \A t \in Trees : /\ t \in DOMAIN Content(bucket.root.registry).refs
                            /\ TreeReadable(t, Content(bucket.root.registry).refs[t])
  BY <1>1, <1>2 DEF Inv, Kept, Whole, Content
<1>5. CommittedReadable
  BY <1>3, <1>4 DEF CommittedReadable
<1>6. NotedIsCommitted
  <2> SUFFICES ASSUME NEW n \in noted
               PROVE  Holds(n[2], "blob", n[1]) /\ \E k \in Committed : n[1] \in DOMAIN bucket.bands[k].blobs
    BY DEF NotedIsCommitted
  <2>1. PICK k \in Bands(bucket) : n[1] \in DOMAIN bucket.bands[k].blobs /\ n[2] = bucket.bands[k].blobs[n[1]]
    BY DEF Inv, Kept, Told
  <2>2. InObjects(bucket, n[2], "blob", n[1])
    BY <2>1 DEF Inv, Kept, Whole
  <2> QED
    BY <1>1, <2>1, <2>2, CommittedAreBands
<1> QED
  BY <1>5, <1>6 DEF BucketReadable

LEMMA InvOnce ==
  ASSUME Inv
  PROVE  UploadedOnce
<1>1. Apart(bucket)
  BY DEF Inv, Kept
<1> QED
  BY <1>1, CommittedAreBands DEF Apart, Parts, UploadedOnce

LEMMA InvDrained ==
  ASSUME Inv
  PROVE  DrainedIsDurable
<1> SUFFICES ASSUME session.bands >= session.enqueued + session.resumed, frame.pc # "parked", NEW t \in banded
             PROVE  \E k \in Committed : t \in DOMAIN bucket.bands[k].trees
  BY DEF DrainedIsDurable, Drained, Parked
<1>1. Alive
  BY DEF Inv, Shaped, Places, Alive, Busy
<1>2. Len(pipe) \in Nat /\ Len(queue) \in Nat /\ (pipe # <<>> => Len(pipe) # 0) /\ (queue # <<>> => Len(queue) # 0)
  <2> DEFINE p == pipe
             q == queue
  <2>1. p \in Seq(Jobs) /\ q \in Seq(Jobs)
    BY DEF Inv, Shaped
  <2> HIDE DEF p, q
  <2>2. Len(p) \in Nat /\ Len(q) \in Nat /\ (p # <<>> => Len(p) # 0) /\ (q # <<>> => Len(q) # 0)
    BY <2>1
  <2> QED
    BY <2>2 DEF p, q
<1>3. ~Busy /\ pipe = <<>> /\ queue = <<>>
  BY <1>1, <1>2 DEF Inv, Turns, Shaped
<1>4. TreeShipped(bucket, t)
  BY <1>1, <1>3 DEF Inv, Parted, InFlight, InWaiting
<1> QED
  BY <1>4, CommittedAreBands DEF TreeShipped

(***************************************************************************)
(* A reader of the bucket, in mid-conversion or after any crash, finds     *)
(* every committed tree and each of its blobs, and whatever the cache tier *)
(* was told it may punch: root manifest, band manifests and objects are    *)
(* written in an order (process_band) no failure can break.                *)
(***************************************************************************)
THEOREM ReadersFindEverything ==
  ASSUME MaxWaiting = 1
  PROVE  Spec => []BucketReadable
<1>1. Inv => BucketReadable
  BY InvReadable
<1> QED
  BY <1>1, InvHolds, PTL

\* No blob or tree is in two committed bands, nor an object: dedup, as rebuilt by bootstrap, misses nothing.
THEOREM NothingShippedTwice ==
  ASSUME MaxWaiting = 1
  PROVE  Spec => []UploadedOnce
<1>1. Inv => UploadedOnce
  BY InvOnce
<1> QED
  BY <1>1, InvHolds, PTL

\* When wait_drained lets wait_idle go, and the uploader has not parked, all that was emitted is committed.
THEOREM DrainedMeansCommitted ==
  ASSUME MaxWaiting = 1
  PROVE  Spec => []DrainedIsDurable
<1>1. Inv => DrainedIsDurable
  BY InvDrained
<1> QED
  BY <1>1, InvHolds, PTL

=============================================================================
