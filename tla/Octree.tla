------------------------------- MODULE Octree -------------------------------
(***************************************************************************)
(* The out-of-core octree of the converter, on the tree loop: chunks are   *)
(* routed into a tree of trees (tree_build.cpp), a pass first collapses    *)
(* the leaves that no input can reach any more (tree_collapse.cpp), then   *)
(* samples the inner nodes bottom up (tree_lod_generator.cpp), and a       *)
(* checkpoint marks trees final and frees the blobs that nothing refers to *)
(* any more (tree_handler.cpp).                                            *)
(*                                                                         *)
(* The model scales the octree down: B octants for 8, L levels in a tree   *)
(* for 5, Mags magnitudes.  A point is its morton code, a number; codes    *)
(* are distinct, so that a finest cell never holds more than NodeLimit     *)
(* points (past that the code has no way to split further).  Blobs are     *)
(* their unit: a unit is what one write stores and frees together.         *)
(*                                                                         *)
(* sub_tree_insert_points is recursive; here its pending calls are a stack *)
(* and each call is a step.  Everything else on the tree loop waits for    *)
(* the stack to be empty, and so do the pool's jobs, which share no state  *)
(* with an insertion.                                                      *)
(***************************************************************************)
EXTENDS Integers, Sequences, FiniteSets, SequencesExt, FiniteSetsExt

CONSTANTS
  B,              \* octants of a node (8 in the code)
  L,              \* levels of a tree (5 in the code)
  Mags,           \* magnitudes, hence B^(L*Mags) codes
  NodeLimit,      \* node_point_limit
  Feeds,          \* the runs of chunks (sets of codes) an input may deliver
  MaxPressure,    \* cache-pressure checkpoints (bound)
  MaxFailures,    \* merges, tree writes and commits that fail (bound)
  MaxLost         \* reads that fail while a leaf is split (bound)

ASSUME OctreeAssumption ==
  /\ {B, L} \subseteq Nat \ {0, 1}
  /\ {Mags, NodeLimit} \subseteq Nat \ {0}
  /\ B <= NodeLimit
  /\ {MaxPressure, MaxFailures, MaxLost} \subseteq Nat

VARIABLES
  feed,       \* the chunks still to come
  units,      \* unit id -> [kind, codes]; <<>> until its blob is written
  trees,      \* tree id -> the tree
  root,       \* id of the root tree, 0 before the first chunk
  refs,       \* chunk_tree_refs: chunk -> trees whose storage map has it
  stack,      \* pending calls of sub_tree_insert_points
  phase,      \* where the pass stands
  target,     \* its target, _pending_pass_watermark
  done,       \* target of the last concluded pass, _lod_complete_morton
  watermark,  \* _pass_watermark
  jobs,       \* collapse jobs of the pass
  work,       \* inner nodes the pass still has to sample
  chain,      \* checkpoint in flight
  wanted,     \* a checkpoint is requested
  located,    \* what the written trees refer to, by tree
  committed,  \* what the committed registry refers to
  freed,      \* units whose blobs were freed
  pressure, failures, lost   \* steps used of their bounds

vars == <<feed, units, trees, root, refs, stack, phase, target, done, watermark, jobs, work,
          chain, wanted, located, committed, freed, pressure, failures, lost>>

insertVars == <<feed, units, trees, root, refs, stack>>
passVars == <<phase, target, done, jobs, work>>
chainVars == <<watermark, chain, wanted, located, committed, freed>>
boundVars == <<pressure, failures, lost>>

-----------------------------------------------------------------------------
(* Morton arithmetic. *)

\* The all-0xFF target: above every code.
Terminal == B ^ (L * Mags)
Codes == 0 .. Terminal - 1

\* morton_tree_level_to_lod: cells shrink by B with every lod.
Lod(mag, level) == mag * L + (L - 1 - level)
Floor(c, lod) == c - (c % (B ^ (lod + 1)))
CellMax(c, lod) == Floor(c, lod) + B ^ (lod + 1) - 1
\* morton_get_child_mask
Octant(c, lod) == (c \div (B ^ lod)) % B
\* morton_lod: the lod of the smallest cell with both codes.
SpanLod(a, b) == Min({l \in 0 .. L * Mags - 1 : Floor(a, l) = Floor(b, l)})

SortedCodes(S) ==
  [k \in 1 .. Cardinality(S) |-> CHOOSE c \in S : Cardinality({d \in S : d < c}) = k - 1]

-----------------------------------------------------------------------------
(* Points, nodes and trees. *)

NoPoints == [subs |-> <<>>, min |-> 0, max |-> 0]
Count(p) == FoldLeft(LAMBDA n, s : n + s.n, 0, p.subs)
Slice(s) == SubSeq(units[s.unit].codes, s.off + 1, s.off + s.n)
UnitsOf(subs) == {subs[k].unit : k \in DOMAIN subs}
Uses(subs, u) == Cardinality({k \in DOMAIN subs : subs[k].unit = u})

\* points_data_add
Joined(p, q) ==
  IF p.subs = <<>> THEN q
  ELSE [subs |-> p.subs \o q.subs, min |-> Min({p.min, q.min}), max |-> Max({p.max, q.max})]

NewNode(min) == [kids |-> {}, skip |-> 0, min |-> min, pts |-> NoPoints]

\* tree_initialize_sub, tree_initialize_new_parent: only the root node.
NewTree(mag, c) ==
  [mag |-> mag, nodes |-> [l \in 0 .. L - 1 |-> IF l = 0 THEN <<NewNode(Floor(c, Lod(mag, 0)))>> ELSE <<>>],
   subs |-> <<>>, map |-> <<>>, discards |-> {}, dirty |-> FALSE, collapsed |-> FALSE,
   final |-> FALSE]

TreeMin(t) == t.nodes[0][1].min
TreeMax(t) == CellMax(TreeMin(t), Lod(t.mag, 0))

\* sub_tree_count_skips: children of the node before octant i.
Before(node, i) == Cardinality({k \in node.kids : k < i})

\* A storage map after the change d(u) in the references of each unit.
Recounted(map, d) ==
  LET n(u) == (IF u \in DOMAIN map THEN map[u] ELSE 0) + (IF u \in DOMAIN d THEN d[u] ELSE 0)
  IN  [u \in {x \in DOMAIN map \cup DOMAIN d : n(x) > 0} |-> n(u)]

Places == {<<t, l, i>> \in (1 .. Len(trees)) \X (0 .. L - 1) \X (1 .. B ^ (L + 1)) :
             i <= Len(trees[t].nodes[l])}
At(p) == trees[p[1]].nodes[p[2]][p[3]]
LodAt(p) == Lod(trees[p[1]].mag, p[2])
PlaceMax(p) == CellMax(At(p).min, LodAt(p))
IsLeaf(p) == At(p).kids = {}

-----------------------------------------------------------------------------
(* Building: tree_add_points and sub_tree_insert_points. *)

Call(t, level, i, pts) == [tree |-> t, level |-> level, i |-> i, kid |-> -1, pts |-> pts]

\* No handler of the tree loop is half way: "walk" is the second half of the
\* handler that applied the merges or found none to make.
Idle == stack = <<>> /\ phase # "walk"

\* One tree of the chain that reparent_tree hangs the old root under: a
\* single path of nodes down to the cell of its only sub-tree.
PathTree(mag, c, sub) ==
  [NewTree(mag, c) EXCEPT
     !.nodes = [l \in 0 .. L - 1 |->
                  <<[NewNode(Floor(c, Lod(mag, l))) EXCEPT !.kids = {Octant(c, Lod(mag, l))}]>>],
     !.subs = <<sub>>]

\* reparent_tree and insert_tree_in_tree: the trees from the new root, which
\* covers the old root and the chunk, down to the parent of the old root.
Parents(lo, hi) ==
  LET old == trees[root]
      top == SpanLod(Min({lo, TreeMin(old)}), Max({hi, TreeMax(old)})) \div L
      last == Len(trees) + top - old.mag
  IN  [k \in 1 .. top - old.mag |->
         PathTree(top + 1 - k, TreeMin(old), IF Len(trees) + k = last THEN root ELSE Len(trees) + k + 1)]

Covers(t, lo, hi) == TreeMin(t) <= lo /\ hi <= TreeMax(t)

\* tree_initialize, or tree_add_points with its reparenting, up to the call
\* of sub_tree_insert_points on the root.
AddChunk ==
  /\ Idle /\ feed # <<>>
  /\ LET codes == SortedCodes(Head(feed))
         lo == codes[1]
         hi == Last(codes)
         u  == Len(units) + 1
         more == IF root = 0 THEN <<NewTree(SpanLod(lo, hi) \div L, lo)>>
                 ELSE IF Covers(trees[root], lo, hi) THEN <<>>
                 ELSE Parents(lo, hi)
         r == IF more = <<>> THEN root ELSE Len(trees) + 1
         all == trees \o more
         whole == [subs |-> <<[unit |-> u, off |-> 0, n |-> Len(codes)]>>, min |-> lo, max |-> hi]
     IN  /\ units' = Append(units, [kind |-> "chunk", codes |-> codes])
         /\ root' = r
         /\ trees' = [all EXCEPT ![r].map = Recounted(@, [x \in {u} |-> 1]),
                                 ![r].dirty = TRUE, ![r].collapsed = FALSE]
         /\ refs' = [x \in DOMAIN refs \cup {u} |-> IF x = u THEN 1 ELSE refs[x]]
         /\ stack' = <<Call(r, 0, 1, whole)>>
  /\ feed' = Tail(feed)
  /\ UNCHANGED <<passVars, chainVars, boundVars>>

\* The pending call, its node, and the octant it goes on to: the one a split
\* routed it to, or the only one all its points are in.
Top == Head(stack)
TopNode == trees[Top.tree].nodes[Top.level][Top.i]
TopLod == Lod(trees[Top.tree].mag, Top.level)
TopSpan == SpanLod(Top.pts.min, Top.pts.max)
Routed == Top.kid >= 0 \/ (TopLod > TopSpan /\ TopNode.kids # {})
Kid == IF Top.kid >= 0 THEN Top.kid ELSE Octant(Top.pts.min, TopLod)
KidIndex == TopNode.skip + Before(TopNode, Kid) + 1

\* Every tree the points pass through is dirty and no longer collapsed.
Passed(ts) == [ts EXCEPT ![Top.tree].dirty = TRUE, ![Top.tree].collapsed = FALSE]

\* Mutant: the map a chunk is moved out of is not taken off the count.
MutMovedRefs(ts, new, from, to, subs) ==
  [u \in DOMAIN refs |-> refs[u] + (IF u \in UnitsOf(subs) /\ u \notin DOMAIN ts[to].map THEN 1 ELSE 0)]

\* move_storage_locations_to_subtree: the sub-tree's map takes over the
\* references of these points; a chunk counts the maps it is in.
Moved(ts, from, to, subs) ==
  LET d == [u \in UnitsOf(subs) |-> Uses(subs, u)]
  IN  [ts EXCEPT ![from].map = Recounted(@, [u \in DOMAIN d |-> -d[u]]),
                 ![to].map = Recounted(@, d)]
MovedRefs(ts, new, from, to, subs) ==
  [u \in DOMAIN refs |->
     refs[u] + (IF u \in UnitsOf(subs) /\ u \notin DOMAIN ts[to].map THEN 1 ELSE 0)
             - (IF u \in UnitsOf(subs) /\ u \in DOMAIN ts[from].map /\ u \notin DOMAIN new[from].map
                THEN 1 ELSE 0)]

\* The points go on into the node's child Kid, which exists in ts: a node of
\* the next level, or the root node of a sub-tree.
Descend(ts) ==
  IF Top.level < L - 1
  THEN /\ trees' = ts
       /\ stack' = <<Call(Top.tree, Top.level + 1, KidIndex, Top.pts)>> \o Tail(stack)
       /\ refs' = refs
  ELSE LET sub == ts[Top.tree].subs[KidIndex]
           new == Moved(ts, Top.tree, sub, Top.pts.subs)
       IN  /\ trees' = new
           /\ stack' = <<Call(sub, 0, 1, Top.pts)>> \o Tail(stack)
           /\ refs' = MovedRefs(ts, new, Top.tree, sub, Top.pts.subs)

InsertOnly == UNCHANGED <<feed, units, root, passVars, chainVars, pressure, failures>>

Route ==
  /\ stack # <<>> /\ Routed /\ Kid \in TopNode.kids
  /\ Descend(Passed(trees))
  /\ InsertOnly /\ UNCHANGED lost

\* sub_tree_alloc_children: the skip of a node put at place k of a level.
SkipAt(level, k) ==
  IF k <= Len(level) THEN level[k].skip
  ELSE IF level = <<>> THEN 0
  ELSE Last(level).skip + Cardinality(Last(level).kids)

\* A child is added: its octant is set, it is inserted at its place in the
\* next level or in sub_trees, and the skips behind the node move up by one.
Grown(t) ==
  LET lev == t.nodes[Top.level]
      min == TopNode.min + Kid * B ^ TopLod
      bumped == [k \in DOMAIN lev |->
                   IF k = Top.i THEN [lev[k] EXCEPT !.kids = @ \cup {Kid}]
                   ELSE IF k > Top.i THEN [lev[k] EXCEPT !.skip = @ + 1]
                   ELSE lev[k]]
      next == t.nodes[Top.level + 1]
      child == [NewNode(min) EXCEPT !.skip = SkipAt(next, KidIndex)]
  IN  IF Top.level < L - 1
      THEN [t EXCEPT !.nodes = [@ EXCEPT ![Top.level] = bumped,
                                         ![Top.level + 1] = InsertAt(@, KidIndex, child)]]
      ELSE [t EXCEPT !.nodes = [@ EXCEPT ![Top.level] = bumped],
                     !.subs = InsertAt(@, KidIndex, Len(trees) + 1)]

Grow ==
  /\ stack # <<>> /\ Routed /\ Kid \notin TopNode.kids
  /\ LET t == trees[Top.tree]
         grown == [Passed(trees) EXCEPT ![Top.tree] = Grown(@)]
     IN  Descend(IF Top.level < L - 1 THEN grown ELSE Append(grown, NewTree(t.mag - 1, Top.pts.min)))
  /\ InsertOnly /\ UNCHANGED lost

Fits == TopNode.kids = {} /\ Count(TopNode.pts) + Count(Top.pts) <= NodeLimit

\* A leaf with room takes the points.
Store ==
  /\ stack # <<>> /\ ~Routed /\ Fits
  /\ trees' = [Passed(trees) EXCEPT ![Top.tree].nodes[Top.level][Top.i].pts = Joined(@, Top.pts)]
  /\ stack' = Tail(stack)
  /\ InsertOnly /\ UNCHANGED <<refs, lost>>

\* point_buffer_subdivide: the part of subset s in octant o, if any.
Part(s, o, lod) ==
  LET codes == Slice(s)
      mine == {k \in DOMAIN codes : Octant(codes[k], lod) = o}
  IN  IF mine = {} THEN NoPoints
      ELSE [subs |-> <<[unit |-> s.unit, off |-> s.off + Min(mine) - 1, n |-> Cardinality(mine)]>>,
            min |-> codes[Min(mine)], max |-> codes[Max(mine)]]

\* What octant o of a split gets of the subsets.
Share(subs, o, lod) ==
  FoldLeft(LAMBDA p, s : IF Part(s, o, lod) = NoPoints THEN p ELSE Joined(p, Part(s, o, lod)), NoPoints, subs)

\* A leaf's own points go along with the new ones.
ToSplit == (IF TopNode.kids = {} THEN TopNode.pts.subs ELSE <<>>) \o Top.pts.subs

\* sub_tree_split_points_to_children for a full leaf or for points that span
\* several octants: each part takes a reference, then each subset drops its
\* own.  A subset that can't be read has no parts: its reference goes all
\* the same, and with the last one the unit is discarded.
Split ==
  /\ stack # <<>> /\ ~Routed /\ ~Fits
  /\ \E bad \in SUBSET UnitsOf(ToSplit) :
       LET subs == ToSplit
           read == SelectSeq(subs, LAMBDA s : s.unit \notin bad)
           share == [o \in 0 .. B - 1 |-> Share(read, o, TopLod)]
           parts(u) == Cardinality({o \in 0 .. B - 1 : u \in UnitsOf(share[o].subs)})
           given(u) == FoldLeft(LAMBDA n, o : n + Uses(share[o - 1].subs, u), 0, [k \in 1 .. B |-> k])
           d == [u \in UnitsOf(subs) |-> given(u) - Uses(subs, u)]
           map == Recounted(trees[Top.tree].map, d)
           order == SelectSeq([k \in 1 .. B |-> k - 1], LAMBDA o : share[o] # NoPoints)
       IN  /\ lost + Cardinality(bad) <= MaxLost
           /\ lost' = lost + Cardinality(bad)
           /\ trees' = [Passed(trees) EXCEPT
                          ![Top.tree].nodes[Top.level][Top.i].pts = IF TopNode.kids = {} THEN NoPoints ELSE @,
                          ![Top.tree].map = map,
                          ![Top.tree].discards = @ \cup (DOMAIN trees[Top.tree].map \ DOMAIN map)]
           /\ stack' = [k \in DOMAIN order |->
                          [Call(Top.tree, Top.level, Top.i, share[order[k]]) EXCEPT !.kid = order[k]]]
                       \o Tail(stack)
  /\ InsertOnly /\ UNCHANGED refs

-----------------------------------------------------------------------------
(* Leaf collapse: tree_collapse_runner_t. *)

\* get_done_morton as the processor passes it on: no chunk to come is below.
DoneMorton == IF feed = <<>> THEN Terminal ELSE Min(UNION ToSet(feed))

\* leaf_is_collapsed_shape: one subset that is a whole unit of its own.
Whole(pts) ==
  /\ Len(pts.subs) = 1 /\ pts.subs[1].off = 0
  /\ LET u == pts.subs[1].unit
     IN  units[u].kind = "chunk" => u \in DOMAIN refs /\ Len(units[u].codes) = pts.subs[1].n

\* Mutant: a tree whose last cell is the target is taken as out of reach.
MutReached(t, to) == to = Terminal \/ TreeMax(t) <= to
Reached(t, to) == to = Terminal \/ TreeMax(t) < to
Collapsible(t, to) == ~t.final /\ ~t.collapsed /\ Reached(t, to)

\* collapse_for_pass: a job for each leaf to rewrite, in the order of the
\* trees, their levels and their nodes; the unit's id is taken here.
Unmerged(to) ==
  {p \in Places : /\ Collapsible(trees[p[1]], to) /\ IsLeaf(p)
                  /\ At(p).pts.subs # <<>> /\ ~Whole(At(p).pts)}
PlaceKey(p) == (p[1] * L + p[2]) * B ^ (L + 1) + p[3]
InOrder(S) ==
  [k \in 1 .. Cardinality(S) |-> CHOOSE p \in S : Cardinality({q \in S : PlaceKey(q) < PlaceKey(p)}) = k - 1]

Blank(kind) == [kind |-> kind, codes |-> <<>>]

\* Trees with no leaf to rewrite are collapsed already.
Settled(S, to) ==
  [t \in DOMAIN trees |->
     IF Collapsible(trees[t], to) /\ \A p \in S : p[1] # t
     THEN [trees[t] EXCEPT !.collapsed = TRUE] ELSE trees[t]]

StartPass ==
  /\ Idle /\ phase = "idle" /\ root # 0 /\ done < DoneMorton
  /\ LET todo == InOrder(Unmerged(DoneMorton))
     IN  /\ trees' = Settled(ToSet(todo), DoneMorton)
         /\ jobs' = [k \in DOMAIN todo |->
                       [at |-> todo[k], unit |-> Len(units) + k, pts |-> At(todo[k]).pts, state |-> "queued"]]
         /\ units' = units \o [k \in DOMAIN todo |-> Blank("leaf")]
         /\ phase' = IF todo = <<>> THEN "walk" ELSE "collapse"
  /\ target' = DoneMorton
  /\ UNCHANGED <<feed, root, refs, stack, done, work, chainVars, boundVars>>

CodesOf(subs) == UNION {ToSet(Slice(subs[k])) : k \in DOMAIN subs}

\* merge_worker: reads the subsets and writes them as one unit.
Merge(k) ==
  /\ Idle /\ phase = "collapse" /\ k \in DOMAIN jobs /\ jobs[k].state = "queued"
  /\ units' = [units EXCEPT ![jobs[k].unit].codes = SortedCodes(CodesOf(jobs[k].pts.subs))]
  /\ jobs' = [jobs EXCEPT ![k].state = "merged"]
  /\ UNCHANGED <<feed, trees, root, refs, stack, phase, target, done, work, chainVars, boundVars>>

\* A subset cannot be read, or the pool job of the write fails; a write that
\* fails in the store itself is reported aside, and the merge is as good as any.
MergeFails(k) ==
  /\ Idle /\ phase = "collapse" /\ k \in DOMAIN jobs /\ jobs[k].state = "queued"
  /\ failures < MaxFailures /\ failures' = failures + 1
  /\ jobs' = [jobs EXCEPT ![k].state = "failed"]
  /\ UNCHANGED <<insertVars, phase, target, done, work, chainVars, pressure, lost>>

\* apply_results for one merged leaf: its subsets' references are released,
\* a chunk that no tree refers to any more is discarded, and the leaf is the
\* new unit.
ApplyJob(s, job) ==
  IF job.state # "merged" THEN s
  ELSE LET t == job.at[1]
           subs == s.trees[t].nodes[job.at[2]][job.at[3]].pts.subs
           map == Recounted(s.trees[t].map, [u \in UnitsOf(subs) |-> -Uses(subs, u)])
           dropped == {u \in DOMAIN s.trees[t].map \ DOMAIN map : u \in DOMAIN s.refs}
           dead == {u \in dropped : s.refs[u] = 1}
       IN  [trees |-> [s.trees EXCEPT
                         ![t].map = Recounted(map, [u \in {job.unit} |-> 1]),
                         ![t].discards = @ \cup dead,
                         ![t].dirty = TRUE,
                         ![t].nodes[job.at[2]][job.at[3]].pts.subs =
                            <<[unit |-> job.unit, off |-> 0, n |-> Count(job.pts)]>>],
            refs |-> [u \in DOMAIN s.refs \ dead |-> s.refs[u] - (IF u \in dropped THEN 1 ELSE 0)]]

\* A tree is collapsed when all its jobs were applied.
Collapsed(ts) ==
  [t \in DOMAIN ts |->
     LET mine == {k \in DOMAIN jobs : jobs[k].at[1] = t}
     IN  IF mine # {} /\ \A k \in mine : jobs[k].state = "merged"
         THEN [ts[t] EXCEPT !.collapsed = TRUE] ELSE ts[t]]

-----------------------------------------------------------------------------
(* LOD generation: tree_lod_generator_t. *)

Above(p, q) == LodAt(p) > LodAt(q) /\ Floor(At(q).min, LodAt(p)) = At(p).min

\* Mutant: a node is below the target when its first cell is.
MutBeyond(p, to) == ~(At(p).min < to)

\* The walk does not enter a node that is not wholly below the target, nor
\* one whose level of detail an earlier pass has made.
Beyond(p, to) == ~(PlaceMax(p) < to)
Sampled(p) == ~IsLeaf(p) /\ PlaceMax(p) < done /\ Len(At(p).pts.subs) = 1 /\ Count(At(p).pts) > 0
Walked(to) ==
  {p \in Places : /\ ~Beyond(p, to)
                  /\ \A q \in Places : Above(q, p) => ~Beyond(q, to) /\ ~Sampled(q)}
ToSample(to) == {p \in Walked(to) : ~IsLeaf(p) /\ ~Sampled(p)}

\* tree_get_work_items: a node to sample gets a unit, and takes what its
\* children hold: the subsets of a leaf, the unit of an inner node.
Unnamed(to) == {p \in ToSample(to) : At(p).pts.subs = <<>>}
Named(to) ==
  LET new == InOrder(Unnamed(to))
      unitOf(p) == Len(units) + CHOOSE k \in DOMAIN new : new[k] = p
  IN  [t \in DOMAIN trees |->
         [trees[t] EXCEPT !.nodes = [l \in 0 .. L - 1 |-> [i \in DOMAIN trees[t].nodes[l] |->
            IF <<t, l, i>> \in Unnamed(to)
            THEN [At(<<t, l, i>>) EXCEPT !.pts.subs = <<[unit |-> unitOf(<<t, l, i>>), off |-> 0, n |-> 0]>>]
            ELSE At(<<t, l, i>>)]]]]

\* Once every merge is in, its results are applied and the walk sets out the
\* nodes to sample; the walk sees the trees as the results leave them.
Apply ==
  /\ Idle /\ phase = "collapse" /\ \A k \in DOMAIN jobs : jobs[k].state # "queued"
  /\ LET s == FoldLeft(ApplyJob, [trees |-> trees, refs |-> refs], jobs)
     IN  trees' = Collapsed(s.trees) /\ refs' = s.refs
  /\ jobs' = <<>>
  /\ phase' = "walk"
  /\ UNCHANGED <<feed, units, root, stack, target, done, work, chainVars, boundVars>>

Walk ==
  /\ phase = "walk"
  /\ LET named == Named(target)
         at(p) == named[p[1]].nodes[p[2]][p[3]]
         kids(p) == {q \in Walked(target) : Above(p, q) /\ LodAt(q) = LodAt(p) - 1}
     IN  /\ trees' = named
         /\ units' = units \o [k \in 1 .. Cardinality(Unnamed(target)) |-> Blank("lod")]
         /\ work' = {[tree |-> p[1], mag |-> trees[p[1]].mag, level |-> p[2], min |-> At(p).min,
                      unit |-> at(p).pts.subs[1].unit, made |-> FALSE,
                      kids |-> {[tree |-> q[1], subs |-> at(q).pts.subs] : q \in kids(p)}] :
                       p \in ToSample(target)}
  /\ phase' = "lod"
  /\ UNCHANGED <<feed, root, refs, stack, target, done, jobs, chainVars, boundVars>>

\* Batches go by magnitude and, inside a tree, by level from the deepest: a
\* node is sampled when everything its turn waits for was published.
Turn(w) ==
  \A v \in work : \/ v.mag > w.mag
                  \/ v.mag = w.mag /\ (v.tree = w.tree => v.level <= w.level)

\* A whole unit (count 0, or an inner node's) or a slice of one.
Taken(s) == ToSet(IF s.n = 0 THEN units[s.unit].codes ELSE Slice(s))

\* lod_worker_t::work: what is sampled stands for all the points it is taken
\* from; the choice of the points themselves is left out.
Sample(w) ==
  /\ Idle /\ phase = "lod" /\ w \in work /\ ~w.made /\ Turn(w)
  /\ units' = [units EXCEPT ![w.unit].codes =
                 SortedCodes(UNION {UNION {Taken(k.subs[j]) : j \in DOMAIN k.subs} : k \in w.kids})]
  /\ work' = (work \ {w}) \cup {[w EXCEPT !.made = TRUE]}
  /\ UNCHANGED <<feed, trees, root, refs, stack, phase, target, done, jobs, chainVars, boundVars>>

\* advance_tree and adjust_tree_after_lod: a tree's finished level is
\* published in the tree.
Publish(w) ==
  /\ Idle /\ phase = "lod" /\ w \in work /\ Turn(w)
  /\ LET level == {v \in work : v.tree = w.tree /\ v.level = w.level}
         unit(n) == {v.unit : v \in {x \in level : x.min = n.min}}
     IN  /\ \A v \in level : v.made
         /\ trees' = [trees EXCEPT
              ![w.tree].dirty = TRUE,
              ![w.tree].map = Recounted(@, [u \in {v.unit : v \in level} \ DOMAIN @ |-> 1]),
              ![w.tree].nodes[w.level] =
                 [i \in DOMAIN @ |->
                    IF unit(@[i]) = {} THEN @[i]
                    ELSE LET u == CHOOSE x \in unit(@[i]) : TRUE
                             codes == units[u].codes
                         IN  [@[i] EXCEPT !.pts = [subs |-> <<[unit |-> u, off |-> 0, n |-> Len(codes)]>>,
                                                   min |-> codes[1], max |-> Last(codes)]]]]
         /\ work' = work \ level
  /\ UNCHANGED <<feed, units, root, refs, stack, phase, target, done, jobs, chainVars, boundVars>>

-----------------------------------------------------------------------------
(* Checkpoints: tree_handler_t::do_serialize_trees. *)

\* handle_serialize_trees: only a finished pass promotes its target.
PassDone ==
  /\ Idle /\ phase = "lod" /\ work = {}
  /\ watermark' = Max({watermark, target})
  /\ wanted' = TRUE
  /\ phase' = "commit"
  /\ UNCHANGED <<insertVars, target, done, jobs, work, chain, located, committed, freed, boundVars>>

\* request_checkpoint under cache pressure promotes nothing.
Pressure ==
  /\ Idle /\ root # 0 /\ pressure < MaxPressure
  /\ pressure' = pressure + 1
  /\ wanted' = TRUE
  /\ UNCHANGED <<insertVars, passVars, watermark, chain, located, committed, freed, failures, lost>>

NoChain == [on |-> FALSE, trees |-> <<>>, discards |-> <<>>, mark |-> 0]

Finalizes(t) == ~t.final /\ t.collapsed /\ watermark > 0 /\ Reached(t, watermark)

\* What the stored form of a tree refers to.
Stored(t) == [units |-> DOMAIN t.map, subs |-> ToSet(t.subs)]

\* Steps 0 and 1, one block: trees are marked final, dirty trees are
\* serialised and their discards taken.
Serialize ==
  /\ Idle /\ wanted /\ ~chain.on
  /\ LET dirty == {t \in DOMAIN trees : trees[t].dirty}
     IN  /\ chain' = [on |-> TRUE, mark |-> watermark,
                      trees |-> [t \in dirty |-> Stored(trees[t])],
                      discards |-> [t \in dirty |-> trees[t].discards]]
         /\ trees' = [t \in DOMAIN trees |->
                        [trees[t] EXCEPT !.final = @ \/ Finalizes(trees[t]),
                                         !.dirty = FALSE,
                                         !.discards = IF t \in dirty THEN {} ELSE @]]
  /\ wanted' = FALSE
  /\ UNCHANGED <<feed, units, root, refs, stack, passVars, watermark, located, committed, freed, boundVars>>

Relocated == [t \in DOMAIN located \cup DOMAIN chain.trees |->
                IF t \in DOMAIN chain.trees THEN chain.trees[t] ELSE located[t]]

\* The index is committed: what was discarded is freed, and a commit that
\* carries the pass's target ends the pass.
Commit ==
  /\ Idle /\ chain.on
  /\ located' = Relocated
  /\ committed' = Relocated
  /\ freed' = freed \cup UNION {chain.discards[t] : t \in DOMAIN chain.discards}
  /\ chain' = NoChain
  /\ IF phase = "commit" /\ target <= chain.mark
     THEN phase' = "idle" /\ done' = target
     ELSE UNCHANGED <<phase, done>>
  /\ UNCHANGED <<insertVars, target, jobs, work, watermark, wanted, boundVars>>

\* The trees could not be written: they are dirty again, with their discards.
WriteFails ==
  /\ Idle /\ chain.on /\ failures < MaxFailures
  /\ failures' = failures + 1
  /\ trees' = [t \in DOMAIN trees |->
                 IF t \in DOMAIN chain.trees
                 THEN [trees[t] EXCEPT !.dirty = TRUE, !.discards = @ \cup chain.discards[t]]
                 ELSE trees[t]]
  /\ chain' = NoChain
  /\ UNCHANGED <<feed, units, root, refs, stack, passVars, watermark, wanted, located, committed, freed,
                 pressure, lost>>

\* The registry or the index could not be written: the trees' new locations
\* stay in the registry, the discards taken are never freed.
CommitFails ==
  /\ Idle /\ chain.on /\ failures < MaxFailures
  /\ failures' = failures + 1
  /\ located' = Relocated
  /\ chain' = NoChain
  /\ UNCHANGED <<insertVars, passVars, watermark, wanted, committed, freed, pressure, lost>>

-----------------------------------------------------------------------------
Init ==
  /\ feed \in Feeds
  /\ units = <<>> /\ trees = <<>> /\ root = 0 /\ refs = <<>> /\ stack = <<>>
  /\ phase = "idle" /\ target = 0 /\ done = 0 /\ watermark = 0
  /\ jobs = <<>> /\ work = {}
  /\ chain = NoChain /\ wanted = FALSE /\ located = <<>> /\ committed = <<>> /\ freed = {}
  /\ pressure = 0 /\ failures = 0 /\ lost = 0

Next ==
  \/ AddChunk \/ Route \/ Grow \/ Store \/ Split
  \/ StartPass
  \/ \E k \in DOMAIN jobs : Merge(k) \/ MergeFails(k)
  \/ Apply \/ Walk
  \/ \E w \in work : Sample(w) \/ Publish(w)
  \/ PassDone \/ Pressure \/ Serialize \/ Commit \/ WriteFails \/ CommitFails

Spec == Init /\ [][Next]_vars

-----------------------------------------------------------------------------
(* Properties. *)

\* Types, and what the debug asserts of tree_build.cpp say of a node: the
\* skip of a node is the number of children before it, so that every child,
\* node or sub-tree, is found in the cell its parent's octant says.
KidCell(p, o) == At(p).min + o * B ^ LodAt(p)
TypeOK ==
  /\ phase \in {"idle", "collapse", "walk", "lod", "commit"}
  /\ {target, done, watermark} \subseteq 0 .. Terminal
  /\ root \in 0 .. Len(trees) /\ DOMAIN refs \subseteq DOMAIN units
  /\ freed \subseteq DOMAIN units /\ chain.on \in BOOLEAN
  /\ \A p \in Places :
       LET t == trees[p[1]]
           below == IF p[2] < L - 1 THEN [i \in DOMAIN t.nodes[p[2] + 1] |-> t.nodes[p[2] + 1][i].min]
                    ELSE [i \in DOMAIN t.subs |-> TreeMin(trees[t.subs[i]])]
       IN  \A o \in At(p).kids : /\ At(p).skip + Before(At(p), o) + 1 \in DOMAIN below
                                  /\ below[At(p).skip + Before(At(p), o) + 1] = KidCell(p, o)

\* The leaves' subsets, as <<place, index>>.
Subsets == {<<p, k>> \in Places \X (1 .. 2 * NodeLimit) : IsLeaf(p) /\ k \in DOMAIN At(p).pts.subs}
SubsetAt(x) == At(x[1]).pts.subs[x[2]]
Inserted == UNION {ToSet(units[u].codes) : u \in {v \in DOMAIN units : units[v].kind = "chunk"}}

\* A tree's storage map counts exactly the subsets and sampled nodes that
\* name the unit, and chunk_tree_refs the maps the chunk is in: what the
\* moves to sub-trees, the splits and the collapse have to keep, for a blob
\* is freed on the strength of these counts.
References(t, u) ==
  Cardinality({x \in Subsets : x[1][1] = t /\ SubsetAt(x).unit = u})
  + Cardinality({p \in Places : p[1] = t /\ ~IsLeaf(p) /\ Count(At(p).pts) > 0 /\ u \in UnitsOf(At(p).pts.subs)})
RefsExact ==
  Idle /\ lost = 0 =>
    /\ \A t \in DOMAIN trees, u \in DOMAIN units :
         References(t, u) = IF u \in DOMAIN trees[t].map THEN trees[t].map[u] ELSE 0
    /\ \A u \in DOMAIN units : units[u].kind = "chunk" =>
         Cardinality({t \in DOMAIN trees : u \in DOMAIN trees[t].map}) = IF u \in DOMAIN refs THEN refs[u] ELSE 0

\* No blob is freed that a tree, a job of the running pass, or the committed
\* state a crash would fall back to still refers to (the discards are taken
\* with the serialisation and freed only by its commit).
LiveNotFreed ==
  /\ \A t \in DOMAIN trees : DOMAIN trees[t].map \cap freed = {}
  /\ \A t \in DOMAIN committed : committed[t].units \cap freed = {}
  /\ \A k \in DOMAIN jobs : UnitsOf(jobs[k].pts.subs) \cap freed = {}

\* A published level of detail stands for every point below its node, also
\* of the sub-trees: bottom-up order, and no point comes in under a node an
\* earlier pass has sampled.
LodCovers ==
  Idle /\ lost = 0 =>
    \A p \in Places : ~IsLeaf(p) /\ Count(At(p).pts) > 0 =>
      {c \in Inserted : Floor(c, LodAt(p)) = At(p).min} \subseteq ToSet(units[At(p).pts.subs[1].unit].codes)

\* When the terminal pass is over, no node is left without level of detail
\* and every tree is final.
TerminalComplete ==
  done = Terminal /\ phase = "idle" /\ feed = <<>> /\ Idle =>
    \A p \in Places : /\ Count(At(p).pts) > 0
                      /\ failures = 0 => trees[p[1]].final

\* What a LOD pass leaves behind: nothing below its target unsampled, and
\* after the terminal one nothing unsampled and nothing open.
LodComplete == LodCovers /\ TerminalComplete

\* A final tree takes no point and no merge any more, and stays final
\* ("point insert into finalized tree", tree_build.cpp).
Frozen(t, u) ==
  /\ u.final /\ u.subs = t.subs
  /\ \A l \in 0 .. L - 1 :
       /\ Len(u.nodes[l]) = Len(t.nodes[l])
       /\ \A i \in DOMAIN t.nodes[l] : /\ u.nodes[l][i].kids = t.nodes[l][i].kids
                                        /\ t.nodes[l][i].kids = {} => u.nodes[l][i] = t.nodes[l][i]
FinalFrozen == [][\A t \in DOMAIN trees : trees[t].final => Frozen(trees[t], trees'[t])]_vars

\* "The LOD pass that produced this checkpoint already generated every LOD
\* node below the watermark": a final tree has all its levels of detail.
FinalSampled ==
  Idle => \A p \in Places : trees[p[1]].final => Count(At(p).pts) > 0

\* Every sub-tree the committed trees refer to is itself stored: what a
\* reopened dataset can be read from.
CommittedClosed == \A t \in DOMAIN committed : committed[t].subs \subseteq DOMAIN committed
=============================================================================
