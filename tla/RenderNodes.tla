---------------------------- MODULE RenderNodes ----------------------------
(***************************************************************************)
(* The render nodes of a data source (render_pipeline.cpp,                 *)
(* data_source_converter.cpp, virtual_tree.cpp): one frame at a time on    *)
(* the host's thread, with the jobs it puts on convert_pool running        *)
(* beside it.  A frame walks the tree, retires departed nodes, advances    *)
(* loads and uploads, promotes leaves to virtual sources, walks their      *)
(* cuts, enforces the CPU budget and draws; `pc' is the phase, `todo' the  *)
(* nodes the phase has not reached.                                        *)
(*                                                                         *)
(* A render node is an object: the jobs hold its address, so objects have  *)
(* identities (Objs) and two of them may stand for the same walker node,   *)
(* one in the render list and one parked in pending_destroy.               *)
(*                                                                         *)
(* Abstractions.  The walker's answer, its frustum and its subdivision     *)
(* test are functions of the camera (Walk, InView, Refined), distance is   *)
(* the order Near.  Time is the frame: a crossfade lasts Fade frames.      *)
(* Estimated and actual sizes of a node are equal; sizes are small         *)
(* numbers.  A cut is its root and the octants below it.  The loader is    *)
(* the native one; of what it reads only the attribute is kept.            *)
(***************************************************************************)
EXTENDS Integers, Sequences, FiniteSets, FiniteSetsExt, SequencesExt, Functions

CONSTANTS
  Nodes,       \* nodes of the octree
  Order,       \* Nodes as a sequence, as render_node_less_than sorts them
  Leaves,      \* walker_data.is_leaf
  Promotable,  \* leaves with enough points and a coarser representation
  Corrupt,     \* nodes whose blobs decode to nothing
  Attrs,       \* attribute names
  Cams, Start, \* camera positions, the first one
  Walk, InView, Refined, Near, \* by camera: the nodes walked, those in the frustum,
                               \* those subdivided virtually, all nodes closest first
  Octants,     \* the virtual nodes below a root
  Objs,        \* addresses of render nodes
  Size, CutSize,           \* GPU bytes of a node, of a virtual node
  HandlerSize, ResidentSize, \* CPU bytes of a salvaged handler, of a resident source
  GpuBudget, CpuBudgets, MaxUpload, MaxIo, MaxNewIo, BacklogCap,
  Builds,      \* virtual_max_promotions_per_frame
  Fade,        \* frames of a crossfade
  EvictTtl, PruneTtl, FreeAfter, \* frames
  MaxInputs    \* bound on what the host changes between frames

Cut == {"root"} \cup Octants
None == "none"

ASSUME RenderAssumption ==
  /\ Promotable \subseteq Leaves /\ Leaves \subseteq Nodes /\ Corrupt \subseteq Nodes
  /\ Order \in Seq(Nodes) /\ Range(Order) = Nodes /\ IsInjective(Order)
  /\ \A c \in Cams : /\ Walk[c] \subseteq Nodes /\ InView[c] \subseteq Walk[c]
                      /\ Near[c] \in Seq(Nodes) /\ Range(Near[c]) = Nodes /\ IsInjective(Near[c])
  /\ Size \in [Nodes -> Nat \ {0}] /\ CutSize \in [Cut -> Nat \ {0}]
  /\ Octants \cap {"root", "convert", "build"} = {}
  /\ IsFiniteSet(Nodes) /\ IsFiniteSet(Octants) /\ IsFiniteSet(Objs) /\ Objs \subseteq Nat \ {0}
  /\ Start \in Cams /\ Cardinality(Walk[Start]) <= Cardinality(Objs)
  /\ Attrs # {} /\ None \notin Attrs
  /\ CpuBudgets \subseteq Nat /\ IsFiniteSet(CpuBudgets) /\ CpuBudgets # {}
  /\ {HandlerSize, ResidentSize, Builds, EvictTtl, PruneTtl, FreeAfter, MaxInputs} \subseteq Nat
  /\ Fade \in Nat \ {0}

VARIABLES
  obj,      \* the render nodes by address
  list,     \* render_list: the object of each walker node, 0 without
  parked,   \* pending_destroy
  jobs,     \* on convert_pool: <<object, kind>>
  pc, todo, \* the phase of the frame, the nodes it has not reached
  cam, attr, nextAttr, enabled, brake, budget, \* what the host sets
  builds, cpuUsed, gpuCut, \* builds_left, resident_cpu_used, virtual_gpu_used
  realGpu,  \* stats.gpu_memory_used of the frame
  inputs

env == <<cam, nextAttr, enabled, budget, inputs>>
vars == <<obj, list, parked, jobs, pc, todo, cam, attr, nextAttr, enabled, brake, budget,
          builds, cpuUsed, gpuCut, realGpu, inputs>>

-----------------------------------------------------------------------------
(***************************************************************************)
(* render_node_t and virtual_node_t.                                       *)
(***************************************************************************)
Cold == [mat |-> "none", done |-> FALSE, gpu |-> FALSE, fade |-> 0, age |-> 0]
NewCut == [v \in Cut |-> Cold]

\* `load' is the request behind load_handle, `data' the attribute of loaded_data
\* (None: released, or nothing was decoded), handler, pending and resident the attribute
\* of what they hold.
NewNode(n) ==
  [of |-> n, io |-> "none", load |-> "no", asked |-> None, done |-> FALSE, data |-> None,
   gpu |-> FALSE, fade |-> "in", ms |-> 0,
   handler |-> None, building |-> FALSE, ready |-> FALSE, pending |-> None, resident |-> None,
   sized |-> FALSE, source |-> FALSE, cut |-> NewCut, built |-> FALSE, suppressed |-> FALSE, lost |-> FALSE,
   freed |-> FALSE, live |-> 0]

Init ==
  /\ obj = <<>> /\ list = [n \in Nodes |-> 0] /\ parked = {} /\ jobs = {}
  /\ pc = "idle" /\ todo = {}
  /\ cam = Start /\ attr = None /\ nextAttr = (CHOOSE a \in Attrs : TRUE) /\ enabled = TRUE /\ brake = 0
  /\ budget = Max(CpuBudgets)
  /\ builds = 0 /\ cpuUsed = 0 /\ gpuCut = 0 /\ realGpu = 0 /\ inputs = 0

Alive == DOMAIN obj
Listed == {n \in Nodes : list[n] # 0}
At(n) == obj[list[n]]

\* The bytes of the virtual nodes of o that hold GPU buffers, and of those of all of S.
CutBytes(o) == SumFunctionOnSet(CutSize, {v \in Cut : obj[o].cut[v].gpu})
CutsBytes(S) == SumFunction([o \in S |-> CutBytes(o)])

\* virtual_subtree_has_inflight.
CutInFlight(o) == \E v \in Cut : obj[o].cut[v].mat = "materializing" /\ ~obj[o].cut[v].done

Converting(o) == obj[o].io = "converting" /\ ~obj[o].done

\* Mutant: a resident build does not keep a departed node.
MutBusy(o) == Converting(o) \/ CutInFlight(o)

\* Mutant: a build that has finished keeps the node.
MutBusyBuilt(o) == Converting(o) \/ obj[o].building \/ CutInFlight(o)

\* node_is_busy.
Busy(o) == Converting(o) \/ (obj[o].building /\ ~obj[o].ready) \/ CutInFlight(o)

\* f with its value for the keys in S replaced by F.
With(f, S, F(_)) == [x \in DOMAIN f |-> IF x \in S THEN F(x) ELSE f[x]]

-----------------------------------------------------------------------------
(***************************************************************************)
(* The loader and the pool.                                                *)
(***************************************************************************)
\* A frame reads each flag a job or a read sets at one place, so these may as well end between
\* frames, where the frame waits for them, or before the CPU budget looks for jobs in flight.
Pause == pc \in {"idle", "attr"} \/ (pc = "cut" /\ todo = {})

\* The blobs of a requested node have arrived.
ReadDone(o) ==
  /\ Pause /\ o \in Alive /\ obj[o].load = "reading"
  /\ obj' = [obj EXCEPT ![o].load = "ready"]
  /\ UNCHANGED <<list, parked, jobs, pc, todo, attr, brake, builds, cpuUsed, gpuCut, realGpu, env>>

\* What a job writes into its node: convert_node_data, build_resident_source,
\* materialize_virtual_node.
Written(node, kind) ==
  CASE kind = "convert" ->
         [node EXCEPT !.data = IF node.of \in Corrupt THEN None ELSE node.asked,
                      !.sized = @ \/ node.of \notin Corrupt,
                      !.load = "no", !.asked = None, !.done = TRUE]
    [] kind = "build" -> [node EXCEPT !.pending = node.handler, !.ready = TRUE]
    [] OTHER -> [node EXCEPT !.cut[kind].done = TRUE]

FinishJob(o, kind) ==
  /\ Pause /\ <<o, kind>> \in jobs
  /\ jobs' = jobs \ {<<o, kind>>}
  /\ obj' = IF o \in Alive THEN [obj EXCEPT ![o] = Written(@, kind)] ELSE obj
  /\ UNCHANGED <<list, parked, pc, todo, attr, brake, builds, cpuUsed, gpuCut, realGpu, env>>

-----------------------------------------------------------------------------
(***************************************************************************)
(* The host, between frames.                                               *)
(***************************************************************************)
Input == pc = "idle" /\ inputs < MaxInputs /\ inputs' = inputs + 1

\* There are addresses for the nodes the move may bring (a bound of the model).
MoveCamera ==
  /\ Input
  /\ \E c \in Cams \ {cam} :
       /\ Cardinality(Walk[c] \ Listed) <= Cardinality(Objs \ Alive)
       /\ cam' = c
  /\ UNCHANGED <<obj, list, parked, jobs, pc, todo, attr, nextAttr, enabled, brake, budget,
                 builds, cpuUsed, gpuCut, realGpu>>

\* dew_converter_data_set_rendered_attribute.
SetAttribute ==
  /\ Input
  /\ \E a \in Attrs \ {nextAttr} : nextAttr' = a
  /\ UNCHANGED <<obj, list, parked, jobs, pc, todo, cam, attr, enabled, brake, budget,
                 builds, cpuUsed, gpuCut, realGpu>>

\* dew_converter_data_source_set_memory_budget.
SetBudget ==
  /\ Input
  /\ \E b \in CpuBudgets \ {budget} : budget' = b
  /\ UNCHANGED <<obj, list, parked, jobs, pc, todo, cam, attr, nextAttr, enabled, brake,
                 builds, cpuUsed, gpuCut, realGpu>>

Sources == {o \in Alive : obj[o].source}

\* Mutant: the buffers of the cut stay.
MutDemotedCut(node) ==
  [node EXCEPT !.resident = None, !.source = FALSE, !.suppressed = FALSE, !.freed = FALSE,
               !.io = IF node.freed THEN "none" ELSE @]

\* A virtual source falls back to its monolith: the cut and the resident go, and a
\* monolith that was freed is loaded again.
Demoted(node) ==
  [node EXCEPT !.cut = NewCut, !.built = FALSE, !.resident = None, !.source = FALSE,
               !.suppressed = FALSE, !.freed = FALSE, !.io = IF node.freed THEN "none" ELSE @]

\* dew_converter_data_source_set_enable_virtual_subtrees(0): waits for the jobs of the cuts.
TurnOff ==
  LET objs == {list[n] : n \in Listed} IN
  /\ Input /\ enabled
  /\ \A o \in objs \cap Sources : ~CutInFlight(o)
  /\ enabled' = FALSE
  /\ obj' = With(obj, objs, LAMBDA o : IF obj[o].source THEN Demoted(obj[o])
                                       ELSE [obj[o] EXCEPT !.suppressed = FALSE])
  /\ gpuCut' = gpuCut - CutsBytes(objs \cap Sources)
  /\ cpuUsed' = 0
  /\ UNCHANGED <<list, parked, jobs, pc, todo, cam, attr, nextAttr, brake, budget, builds, realGpu>>

\* ...(1): leaves loaded meanwhile have no handler and are marked for a reload.
\* The code passes over leaves with too few points here; Promotable does not tell those from
\* leaves without a coarser representation, so all are marked, and the next judgment rejects.
TurnOn ==
  /\ Input /\ ~enabled
  /\ enabled' = TRUE
  /\ obj' = With(obj, {list[n] : n \in Leaves \cap Listed}, LAMBDA o :
       [obj[o] EXCEPT !.lost = @ \/ (obj[o].handler = None /\ ~obj[o].source /\ ~obj[o].building /\ obj[o].gpu)])
  /\ UNCHANGED <<list, parked, jobs, pc, todo, cam, attr, nextAttr, brake, budget, builds,
                 cpuUsed, gpuCut, realGpu>>

-----------------------------------------------------------------------------
(***************************************************************************)
(* The frame up to the render list.                                        *)
(***************************************************************************)
BeginFrame ==
  /\ pc = "idle"
  /\ attr' = nextAttr
  /\ pc' = IF attr # nextAttr THEN "attr" ELSE "list"
  /\ UNCHANGED <<obj, list, parked, jobs, todo, brake, builds, cpuUsed, gpuCut, realGpu, env>>

\* The heap probe of the next frame: the brake only ever rises (1 high, 2 critical).
RaiseBrake ==
  /\ Input
  /\ \E b \in {1, 2} : b > brake /\ brake' = b
  /\ UNCHANGED <<obj, list, parked, jobs, pc, todo, cam, attr, nextAttr, enabled, budget,
                 builds, cpuUsed, gpuCut, realGpu>>

\* handle_attribute_change: waits for the conversions, then every listed node starts over.
AttributeChange ==
  LET objs == {list[n] : n \in Listed} IN
  /\ pc = "attr"
  /\ \A o \in objs : ~Converting(o)
  /\ obj' = With(obj, objs, LAMBDA o :
       [obj[o] EXCEPT !.load = "no", !.asked = None, !.data = None, !.gpu = FALSE, !.io = "none"])
  /\ pc' = "list"
  /\ UNCHANGED <<list, parked, jobs, todo, attr, brake, builds, cpuUsed, gpuCut, realGpu, env>>

\* What build_render_list parks: departed nodes with a job in flight that do not fade.
Departed == {list[n] : n \in Listed \ Walk[cam]}
Fading == {o \in Departed : obj[o].gpu /\ (obj[o].fade # "out" \/ obj[o].ms < Fade)}
Parking == {o \in Departed \ Fading : Busy(o)}

\* Free addresses for the nodes S, each its own.
Addresses(S) == CHOOSE address \in Injection(S, Objs \ Alive) : TRUE

\* Phases 1 and 2: parked nodes whose jobs are done are destroyed, then the list follows
\* the walk: new nodes fade in, departed ones fade out, are parked or destroyed, and
\* returning ones fade in again.
BuildList ==
  LET arrived == Walk[cam] \ Listed
      address == Addresses(arrived)
      idle    == {o \in parked : ~Busy(o)}
      gone    == idle \cup (Departed \ (Fading \cup Parking))
      keep(o) ==
        IF o \in Departed /\ obj[o].fade # "out" THEN [obj[o] EXCEPT !.fade = "out", !.ms = 0]
        ELSE IF o \in {list[n] : n \in Listed \cap Walk[cam]} /\ obj[o].fade = "out"
             THEN [obj[o] EXCEPT !.fade = "in", !.ms = 0]
        ELSE obj[o]
      alive   == (Alive \ gone) \cup {address[n] : n \in arrived}
  IN
  /\ pc = "list"
  /\ obj' = [o \in alive |-> IF o \in Alive THEN keep(o)
                             ELSE NewNode(CHOOSE n \in arrived : address[n] = o)]
  /\ list' = [n \in Nodes |-> IF n \in arrived THEN address[n]
                              ELSE IF n \in Listed \cap Walk[cam] \/ list[n] \in Fading THEN list[n]
                              ELSE 0]
  /\ parked' = (parked \ idle) \cup Parking
  /\ gpuCut' = gpuCut - CutsBytes(gone)
  /\ pc' = "stream"
  /\ UNCHANGED <<jobs, todo, attr, brake, builds, cpuUsed, realGpu, env>>

-----------------------------------------------------------------------------
(***************************************************************************)
(* Phases 3 and 4: process_io_and_upload, then update_fades.               *)
(***************************************************************************)
Pipeline(o) == obj[o].io \in {"loading", "converting"} \/ (obj[o].io = "loaded" /\ ~obj[o].gpu)

\* Bytes parked nodes hold, those the list's pipeline holds or will claim.
Bytes(S) == SumFunctionOnSet(Size, S)
Deferred ==
  LET holding == {o \in parked : obj[o].io = "converting" \/ (obj[o].io = "loaded" /\ ~obj[o].gpu)}
  IN  SumFunction([o \in holding |-> Size[obj[o].of]])
Projected == Bytes({n \in Listed : Pipeline(list[n])})
Uploaded == Bytes({n \in Listed : At(n).gpu})

\* The nodes of S that are closer than n.
Closer(S, n) == {m \in S : \E i, j \in DOMAIN Near[cam] : i < j /\ Near[cam][i] = m /\ Near[cam][j] = n}

\* The nodes of S, closest first, as far as Gate lets them pass: the first refusal stops the loop.
Passing(S, Gate(_, _)) == {n \in S : \A m \in Closer(S, n) \cup {n} : Gate(m, Closer(S, m))}

Braked(cap) == IF brake = 0 THEN cap ELSE cap \div (2 * brake)
BrakedIo == Max({1, Braked(MaxIo)})
BrakedNew == IF brake = 2 THEN 1 ELSE MaxNewIo

\* The GPU-fit gate of phase B.
Fits(n, before) == Uploaded + gpuCut + Projected + Bytes(before) + Size[n] <= GpuBudget

\* Phase B: the loads this frame issues.
Requested ==
  LET inFlight == Cardinality({n \in Listed : At(n).io = "loading" /\ At(n).load # "ready"})
      load     == {n \in Listed : At(n).io = "none" /\ ~At(n).gpu /\ At(n).fade # "out" /\ ~At(n).freed}
      gate(n, before) ==
        LET k     == Cardinality(before)
            empty == inFlight + k = 0 /\ Projected + Bytes(before) = 0
        IN  /\ inFlight + k < BrakedIo /\ k < BrakedNew
            /\ empty \/ Deferred + Projected + Bytes(before) + Size[n] <= Braked(BacklogCap)
            /\ Fits(n, before)
  IN  Passing(load, gate)

\* The gates of phase C, the byte limit of a frame and the GPU budget.
Room(n, before) ==
  /\ Bytes(before) < MaxUpload
  /\ Uploaded + gpuCut + Bytes(before) + Size[n] <= GpuBudget

\* Phase C: the decoded nodes this frame uploads.
Uploads ==
  Passing({n \in Listed : ~At(n).gpu /\ (At(n).io = "loaded" \/ (At(n).io = "converting" /\ At(n).done /\ At(n).data # None))},
          Room)

\* A loaded node once it is on the GPU; a leaf's handler is salvaged when promotion is on.
AfterUpload(n, node) ==
  [node EXCEPT !.gpu = TRUE, !.data = None,
               !.handler = IF enabled /\ n \in Leaves /\ @ = None THEN node.data ELSE @]

\* Phase A for one node.
Classified(node) ==
  CASE node.io = "loading" /\ node.load = "ready" -> [node EXCEPT !.io = "converting", !.done = FALSE]
    [] node.io = "converting" /\ node.done -> [node EXCEPT !.io = IF node.data # None THEN "loaded" ELSE "none"]
    [] OTHER -> node

\* The crossfade of a node on the GPU.
Faded(node) ==
  IF ~node.gpu THEN node
  ELSE LET ms == IF node.ms < Fade THEN node.ms + 1 ELSE Fade
       IN  [node EXCEPT !.ms = ms, !.fade = IF @ = "in" /\ ms = Fade THEN "steady" ELSE @]

Stream ==
  LET requested == Requested
      uploads   == Uploads
      step(n)   ==
        LET node == Classified(At(n)) IN
        IF n \in requested THEN [node EXCEPT !.io = "loading", !.load = "reading", !.asked = attr]
        ELSE IF n \in uploads THEN AfterUpload(n, node) ELSE node
  IN
  /\ pc = "stream"
  /\ obj' = With(obj, {list[n] : n \in Listed}, LAMBDA o : Faded(step(obj[o].of)))
  /\ jobs' = jobs \cup {<<list[n], "convert">> : n \in {n \in Listed : At(n).io = "loading" /\ At(n).load = "ready"}}
  /\ realGpu' = Uploaded + Bytes(uploads)
  /\ pc' = IF enabled THEN "promote" ELSE "idle"
  /\ todo' = IF enabled THEN Listed ELSE {}
  /\ builds' = IF enabled /\ brake = 0 THEN Builds ELSE 0
  /\ UNCHANGED <<list, parked, attr, brake, cpuUsed, gpuCut, env>>

-----------------------------------------------------------------------------
(***************************************************************************)
(* Phase 4.5, the promotion loop: one node of the list at a time.          *)
(***************************************************************************)
\* The first node of S in the list.
First(S) == Order[CHOOSE i \in DOMAIN Order : Order[i] \in S /\ \A j \in DOMAIN Order : Order[j] \in S => i <= j]

\* The nodes that come after n.
After(n) == {m \in todo : \E i, j \in DOMAIN Order : i < j /\ Order[i] = n /\ Order[j] = m}

\* The loop's turn for node n leaves it as node.
Turn(n, node) ==
  /\ obj' = [obj EXCEPT ![list[n]] = node]
  /\ todo' = After(n)
  /\ UNCHANGED <<list, parked, pc, attr, brake, realGpu, env>>

\* A build has finished.
Built(node) == node.building /\ node.ready

\* A leaf that lost its handler may be loaded again: it fits the budget with a quarter to spare.
Recovers(n, node) ==
  /\ node.lost /\ node.handler = None /\ ~node.building /\ n \in InView[cam]
  /\ node.fade # "out" /\ node.gpu /\ node.io = "loaded"
  /\ builds > 0 /\ 4 * (cpuUsed + ResidentSize) <= 3 * budget

\* Candidates for promotion.
Candidate(n, node) == ~node.source /\ ~node.building /\ node.handler # None /\ node.gpu

\* The nodes the loop has something to do for.
Concerned == {n \in todo : Built(At(n)) \/ Recovers(n, At(n)) \/ Candidate(n, At(n))}

PromoteFinish ==
  LET n == First(Concerned)  node == At(n) IN
  /\ pc = "promote" /\ Concerned # {} /\ Built(node)
  /\ Turn(n, [node EXCEPT !.building = FALSE, !.resident = node.pending, !.pending = None,
                                  !.cut = NewCut, !.built = FALSE, !.source = TRUE])
  /\ UNCHANGED <<jobs, builds, cpuUsed, gpuCut>>

PromoteRecover ==
  LET n == First(Concerned)  node == At(n) IN
  /\ pc = "promote" /\ Concerned # {} /\ ~Built(node) /\ Recovers(n, node)
  /\ Turn(n, [node EXCEPT !.lost = FALSE, !.gpu = FALSE, !.io = "none", !.sized = FALSE])
  /\ builds' = builds - 1
  /\ UNCHANGED <<jobs, cpuUsed, gpuCut>>

\* Mutant: the brake does not lift the suppression.
MutVerdict(n, node) ==
  IF n \notin Promotable THEN [node EXCEPT !.lost = FALSE, !.handler = None]
  ELSE [node EXCEPT !.lost = FALSE, !.suppressed = TRUE]

\* A leaf not worth promoting drops its handler; a promotable one is not drawn at full
\* resolution from here on, unless the brake keeps it from being promoted.
Verdict(n, node) ==
  IF n \notin Promotable THEN [node EXCEPT !.lost = FALSE, !.handler = None]
  ELSE [node EXCEPT !.lost = FALSE, !.suppressed = (brake = 0)]

PromoteJudge ==
  LET n     == First(Concerned)
      node  == At(n)
      build == n \in Promotable /\ brake = 0 /\ builds > 0 /\ cpuUsed < budget
      after == Verdict(n, node)
  IN
  /\ pc = "promote" /\ Concerned # {} /\ ~Built(node) /\ ~Recovers(n, node) /\ Candidate(n, node)
  /\ Turn(n, IF build THEN [after EXCEPT !.building = TRUE, !.ready = FALSE] ELSE after)
  /\ IF build
     THEN /\ builds' = builds - 1 /\ cpuUsed' = cpuUsed + ResidentSize
          /\ jobs' = jobs \cup {<<list[n], "build">>}
     ELSE UNCHANGED <<builds, cpuUsed, jobs>>
  /\ UNCHANGED gpuCut

\* The frame counter advances: every virtual node is a frame older.  (The age of one that
\* holds nothing does not matter, but for a root with octants.)
Older(node) ==
  [node EXCEPT !.cut = [v \in Cut |->
     [node.cut[v] EXCEPT !.age = IF node.cut[v].mat = "none" /\ (v # "root" \/ ~node.built) THEN 0
                                 ELSE IF @ <= PruneTtl THEN @ + 1 ELSE @]]]

PromoteEnd ==
  /\ pc = "promote" /\ Concerned = {}
  /\ obj' = With(obj, {list[n] : n \in Listed}, LAMBDA o : Older(obj[o]))
  /\ pc' = "cut" /\ todo' = {n \in Listed : At(n).source /\ At(n).fade # "out"}
  /\ UNCHANGED <<list, parked, jobs, attr, brake, builds, cpuUsed, gpuCut, realGpu, env>>

-----------------------------------------------------------------------------
(***************************************************************************)
(* process_virtual_trees: one source at a time.  gpuCut is the running     *)
(* total the admission gate reads.                                         *)
(***************************************************************************)
\* walk_virtual: the nodes selected this frame.
Selected(n) == IF n \notin InView[cam] THEN {} ELSE IF n \in Refined[cam] THEN Cut ELSE {"root"}

\* Selected virtual nodes without a job get one.
Walked(v, selected) ==
  IF ~selected THEN v
  ELSE IF v.mat = "none" THEN [v EXCEPT !.age = 0, !.mat = "materializing", !.done = FALSE]
  ELSE [v EXCEPT !.age = 0]

\* Deferred eviction: not before its time to live, never with a job in flight.
Evicted(v) == v.mat # "none" /\ v.age > EvictTtl /\ ~(v.mat = "materializing" /\ ~v.done)

\* The admission gate: the leaf's own monolith does not count against its cut.
Admits(node, used, bytes) ==
  LET own == IF node.sized THEN Size[node.of] ELSE 0
  IN  Max({realGpu - own, 0}) + used + bytes <= GpuBudget

\* process_virtual_node for one node: a job that has ended, the upload if the gate admits it.
Reached(v) == v.age = 0 /\ v.mat # "none"
Settled(v) == IF v.mat = "materializing" /\ v.done THEN "materialized" ELSE v.mat
Admitted(node, key, v, used) ==
  Reached(v) /\ Settled(v) = "materialized" /\ ~v.gpu /\ Admits(node, used, CutSize[key])

Processed(node, key, v, used) ==
  LET admit == Admitted(node, key, v, used) IN
  IF Reached(v)
  THEN [v EXCEPT !.mat = Settled(v), !.gpu = @ \/ admit,
                 !.fade = IF admit THEN 1 ELSE IF v.gpu /\ @ < Fade THEN @ + 1 ELSE @]
  ELSE IF Evicted(v) THEN [Cold EXCEPT !.age = v.age] ELSE v

\* The virtual GPU bytes after it: an admitted node adds its own, an evicted one gives them up.
UsedAfter(node, key, v, used) ==
  IF Admitted(node, key, v, used) THEN used + CutSize[key]
  ELSE IF ~Reached(v) /\ Evicted(v) /\ v.gpu THEN used - CutSize[key]
  ELSE used

\* The octants of a long cold root are reclaimed once they are all idle.
Prunes(node) ==
  /\ node.built /\ node.cut["root"].age > PruneTtl
  /\ \A v \in Octants : node.cut[v].mat = "none" /\ ~node.cut[v].gpu

\* The monolith goes once the root of the cut has covered it for FreeAfter frames.
Covered(node) == node.cut["root"].gpu /\ node.cut["root"].fade = Fade

\* The root is processed first, then the octants.
CutOrder == <<"root">> \o SetToSeq(Octants)
Place(v) == CHOOSE i \in DOMAIN CutOrder : CutOrder[i] = v

\* The running total over the cut of node.
Running(node, cut) ==
  LET used[i \in 0..Len(CutOrder)] ==
        IF i = 0 THEN gpuCut ELSE UsedAfter(node, CutOrder[i], cut[CutOrder[i]], used[i - 1])
  IN  used

CutWalk ==
  LET n      == First(todo)
      node   == At(n)
      select == Selected(n)
      walked == [v \in Cut |-> Walked(node.cut[v], v \in select)]
      used   == Running(node, walked)
      after  == [node EXCEPT !.cut = [v \in Cut |-> Processed(node, v, walked[v], used[Place(v) - 1])],
                             !.built = @ \/ select \ {"root"} # {}]
      live   == IF Covered(after) THEN Min({node.live + 1, FreeAfter}) ELSE 0
      free   == live = FreeAfter /\ node.gpu /\ ~node.freed
      drawn  == [after EXCEPT !.live = live, !.suppressed = TRUE, !.built = @ /\ ~Prunes(after)]
  IN
  /\ pc = "cut" /\ todo # {}
  /\ Turn(n, IF free THEN [drawn EXCEPT !.gpu = FALSE, !.io = "none", !.sized = FALSE, !.freed = TRUE]
                   ELSE drawn)
  /\ jobs' = jobs \cup {<<list[n], v>> : v \in {v \in select : node.cut[v].mat = "none"}}
  /\ gpuCut' = used[Len(CutOrder)]
  /\ UNCHANGED <<builds, cpuUsed>>

-----------------------------------------------------------------------------
(***************************************************************************)
(* The CPU budget, and the end of the frame.                               *)
(***************************************************************************)
\* resident_cpu_used, recomputed: sources and builds in flight pin a resident, other
\* leaves their handler.
Pinned ==
  SumFunction([n \in Listed |->
    IF At(n).source \/ (At(n).building /\ At(n).handler # None) THEN ResidentSize
    ELSE IF At(n).handler # None THEN HandlerSize ELSE 0])

\* Under critical heap pressure down to a quarter of the budget.
Over(used) == used > (IF brake = 2 THEN budget \div 4 ELSE budget)

CutEnd ==
  /\ pc = "cut" /\ todo = {}
  /\ cpuUsed' = Pinned
  /\ pc' = IF Over(Pinned) THEN "enforce" ELSE "idle"
  /\ UNCHANGED <<obj, list, parked, jobs, todo, attr, brake, builds, gpuCut, realGpu, env>>

Farthest(S) == CHOOSE n \in S : Closer(S, n) = S \ {n}

Bare == {n \in Listed : At(n).handler # None /\ ~At(n).source /\ ~At(n).building}

\* Sources that can go without waiting for a job.
Evictable == {n \in Listed : At(n).source /\ ~CutInFlight(list[n])}

\* Tier 1: the farthest candidate loses its handler and draws its monolith again.
Bared(node) == [node EXCEPT !.handler = None, !.suppressed = FALSE, !.lost = TRUE]

DropHandler ==
  /\ pc = "enforce" /\ Over(cpuUsed) /\ Bare # {}
  /\ obj' = [obj EXCEPT ![list[Farthest(Bare)]] = Bared(@)]
  /\ cpuUsed' = Max({cpuUsed - HandlerSize, 0})
  /\ UNCHANGED <<list, parked, jobs, pc, todo, attr, brake, builds, gpuCut, realGpu, env>>

\* Tier 2: the farthest source falls back to its monolith.
Unpromote ==
  /\ pc = "enforce" /\ Over(cpuUsed) /\ Bare = {} /\ Evictable # {}
  /\ LET o == list[Farthest(Evictable)] IN
       /\ obj' = [obj EXCEPT ![o] = Bared(Demoted(@))]
       /\ gpuCut' = gpuCut - CutBytes(o)
  /\ cpuUsed' = cpuUsed - ResidentSize
  /\ UNCHANGED <<list, parked, jobs, pc, todo, attr, brake, builds, realGpu, env>>

\* emit_draws and emit_virtual_draws change nothing the model keeps.
EndFrame ==
  /\ pc = "enforce" /\ (~Over(cpuUsed) \/ (Bare = {} /\ Evictable = {}))
  /\ pc' = "idle"
  /\ UNCHANGED <<obj, list, parked, jobs, todo, attr, brake, builds, cpuUsed, gpuCut, realGpu, env>>

-----------------------------------------------------------------------------
Frame ==
  \/ BeginFrame \/ AttributeChange \/ BuildList \/ Stream
  \/ PromoteFinish \/ PromoteRecover \/ PromoteJudge \/ PromoteEnd
  \/ CutWalk \/ CutEnd \/ DropHandler \/ Unpromote \/ EndFrame

Host == MoveCamera \/ SetAttribute \/ SetBudget \/ TurnOff \/ TurnOn \/ RaiseBrake

Kinds == {"convert", "build"} \cup Cut

Reader == \E o \in Objs : ReadDone(o)
Worker == \E o \in Objs, kind \in Kinds : FinishJob(o, kind)

Next ==
  \/ Frame
  \/ Host
  \/ Reader
  \/ Worker

\* The host keeps drawing, reads are answered and the pool works (strongly fair, as their
\* steps are cut to the pauses of the frame).
Fairness == WF_vars(Frame) /\ SF_vars(Reader) /\ SF_vars(Worker)

Spec == Init /\ [][Next]_vars /\ Fairness

-----------------------------------------------------------------------------
(***************************************************************************)
(* Properties.                                                             *)
(***************************************************************************)
VirtualNode == [mat : {"none", "materializing", "materialized"}, done : BOOLEAN, gpu : BOOLEAN,
  fade : 0..Fade, age : 0..(PruneTtl + 1)]

RenderNode == [of : Nodes, io : {"none", "loading", "converting", "loaded"}, load : {"no", "reading", "ready"},
  asked : Attrs \cup {None}, done : BOOLEAN, data : Attrs \cup {None}, gpu : BOOLEAN,
  fade : {"in", "steady", "out"}, ms : 0..Fade, handler : Attrs \cup {None}, building : BOOLEAN,
  ready : BOOLEAN, pending : Attrs \cup {None}, resident : Attrs \cup {None}, sized : BOOLEAN,
  source : BOOLEAN, cut : [Cut -> VirtualNode], built : BOOLEAN, suppressed : BOOLEAN, lost : BOOLEAN, freed : BOOLEAN, live : 0..FreeAfter]

TypeOK ==
  /\ Alive \subseteq Objs /\ \A o \in Alive : obj[o] \in RenderNode
  /\ list \in [Nodes -> Alive \cup {0}] /\ parked \subseteq Alive
  /\ \A n \in Listed : At(n).of = n
  /\ Alive = {list[n] : n \in Listed} \cup parked
  /\ jobs \subseteq Objs \X Kinds
  /\ pc \in {"idle", "attr", "list", "stream", "promote", "cut", "enforce"} /\ todo \subseteq Nodes
  /\ cam \in Cams /\ attr \in Attrs \cup {None} /\ nextAttr \in Attrs
  /\ enabled \in BOOLEAN /\ brake \in 0..2 /\ budget \in CpuBudgets /\ inputs \in 0..MaxInputs
  /\ builds \in 0..Builds /\ {cpuUsed, gpuCut, realGpu} \subseteq Nat

\* A job on the pool writes into a render node that still exists and reads data that is
\* still there: its request, the handler it decodes, the resident source and the octant it
\* materializes.  Departure, the toggle, the CPU budget, an attribute change and the
\* reclaiming of octants all free one of these.
JobsOutlived ==
  \A job \in jobs :
    LET o == job[1] IN
    /\ o \in Alive
    /\ job[2] = "convert" => obj[o].io = "converting" /\ obj[o].asked # None
    /\ job[2] = "build" => obj[o].building /\ obj[o].handler # None
    /\ job[2] \in Cut => obj[o].resident # None /\ obj[o].cut[job[2]].mat = "materializing"
    /\ job[2] \in Octants => obj[o].built

\* virtual_gpu_used is what the cuts of all nodes hold, whichever way they were freed.
GpuAccounted == gpuCut = CutsBytes(Alive)

\* Drawn by its monolith or by its cut.
Drawn(n) == list[n] # 0 /\ ((At(n).gpu /\ ~At(n).suppressed) \/ At(n).cut["root"].gpu)

\* When the host leaves the camera alone every node in view that can be decoded is drawn
\* at last, by its monolith or by its cut.
EventuallyDrawn == \A n \in Nodes \ Corrupt : <>[](n \in InView[cam] => Drawn(n))

\* Departed nodes are freed at last: none is parked for ever.
ParkedDrains == []<>(parked = {})

\* With the camera at rest leaves stop falling back to their monoliths.
CutsSettle == <>[][~Unpromote]_vars
=============================================================================
