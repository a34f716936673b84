----------------------------- MODULE RegionWalk -----------------------------
(***************************************************************************)
(* What a region query selects from the trees a conversion leaves behind:  *)
(* region_walk and the clipping of run_region_request, over the octree     *)
(* that module Octree builds.  Every tree is resident: that the walk comes *)
(* back for those that are not is the subject of AccessRequests.           *)
(*                                                                         *)
(* The space has one axis, so a box is an interval, a cell has two halves, *)
(* and the bounds of a node's codes are the bounds of its points.  (On     *)
(* three axes they are not: dataset.cpp:261-267.)                          *)
(***************************************************************************)
EXTENDS Octree

CONSTANT MaxDepth   \* max_depth (40)

ASSUME RegionWalkAssumption == B = 2 /\ MaxDepth \in Nat /\ MaxDepth >= L * Mags

\* Positions are codes in units of 1/Terminal, so that cells halve exactly.
Pos(c) == c * Terminal
Interval(lo, hi) == [min |-> Pos(lo), max |-> Pos(hi)]
Overlaps(a, b) == a.min <= b.max /\ b.min <= a.max
Encloses(outer, inner) == outer.min <= inner.min /\ inner.max <= outer.max

\* aabb_child: the octants of a cell, which runs from its first to its last code.
HalfOf(cell, o) ==
  LET mid == (cell.min + cell.max) \div 2
  IN  IF o = 1 THEN [cell EXCEPT !.min = mid] ELSE [cell EXCEPT !.max = mid]

\* Mutant: what meets the box is taken to be inside it.
MutInside(q, cell) == q.whole \/ Overlaps(cell, q.box)
Inside(q, cell) == q.whole \/ Encloses(q.box, cell)
Meets(q, cell) == q.whole \/ Overlaps(cell, q.box)

\* emit_node: full resolution takes leaf data, every other mode the sampled
\* unit of an inner node.
Shown(q, node, s) ==
  LET leafData == units[s.unit].kind # "lod"
  IN  IF q.mode = "full" THEN leafData ELSE node.kids = {} \/ ~leafData

Emit(q, found, p, node) ==
  LET tight == Interval(node.pts.min, node.pts.max)
      subs == IF node.pts.subs # <<>> /\ Meets(q, tight)
              THEN SelectSeq(node.pts.subs, LAMBDA s : Shown(q, node, s)) ELSE <<>>
  IN  [found EXCEPT !.total = @ + Count([node.pts EXCEPT !.subs = subs]),
                    !.nodes = @ \o [k \in DOMAIN subs |-> [sub |-> subs[k], inside |-> p.inside \/ Inside(q, tight)]]]

Descends(q, node, lod, total) ==
  /\ node.kids # {}
  /\ ~(q.mode = "level" /\ lod <= q.lod)
  /\ ~(q.mode = "budget" /\ total >= q.max)

\* The octants of an inner node that meet the box; a child is found by the
\* number of children before it, met or not.
Children(q, p, level, node) ==
  LET met == SelectSeq([k \in 1 .. B |-> k - 1], LAMBDA o : o \in node.kids /\ Meets(q, HalfOf(p.cell, o)))
      place(o) == node.skip + Before(node, o) + 1
  IN  [k \in DOMAIN met |->
         LET cell == HalfOf(p.cell, met[k])
         IN  [tree |-> IF level = L - 1 THEN trees[p.tree].subs[place(met[k])] ELSE p.tree,
              i |-> IF level = L - 1 THEN 1 ELSE place(met[k]),
              cell |-> cell, inside |-> p.inside \/ Inside(q, cell)]]

\* One node of the current depth: its children are next, or it is emitted.
Visit(q, level, found, p) ==
  LET node == trees[p.tree].nodes[level][p.i]
  IN  IF Descends(q, node, Lod(trees[p.tree].mag, level), found.total)
      THEN [found EXCEPT !.next = @ \o Children(q, p, level, node)]
      ELSE Emit(q, found, p, node)

\* region_walk: depth by depth from the root, over the trees' borders.
Selected(q) ==
  LET t == trees[root]
      cell == Interval(TreeMin(t), TreeMax(t))
      start == IF t.nodes[0][1].pts.subs = <<>> \/ ~Meets(q, cell) THEN <<>>
               ELSE <<[tree |-> root, i |-> 1, cell |-> cell, inside |-> Inside(q, cell)]>>
      deeper(found, depth) ==
        FoldLeft(LAMBDA f, p : Visit(q, depth % L, f, p), [found EXCEPT !.next = <<>>], found.next)
  IN  FoldLeft(deeper, [next |-> start, nodes |-> <<>>, total |-> 0], [d \in 1 .. MaxDepth |-> d - 1]).nodes

\* clip_to_box, for the nodes that are not wholly inside.
Kept(q, n) == {c \in ToSet(Slice(n.sub)) : n.inside \/ Encloses(q.box, Interval(c, c))}

-----------------------------------------------------------------------------
\* The conversion is over and its last checkpoint is in.
Finished ==
  /\ root # 0 /\ feed = <<>> /\ done = Terminal /\ phase = "idle" /\ Idle
  /\ ~chain.on /\ \A t \in DOMAIN trees : ~trees[t].dirty

Everything == Interval(0, Terminal - 1)
FullQueries == {[mode |-> "full", whole |-> FALSE, box |-> Interval(a, b)] : a, b \in Inserted}
CoarseQueries ==
  {[mode |-> "level", whole |-> TRUE, box |-> Everything, lod |-> l] : l \in 0 .. L * Mags}
  \cup {[mode |-> "budget", whole |-> TRUE, box |-> Everything, max |-> n] : n \in 0 .. Cardinality(Inserted) + 1}

\* How often each point is among the nodes a query selects.
Times(q) ==
  LET nodes == Selected(q)
      kept == [k \in DOMAIN nodes |-> Kept(q, nodes[k])]
  IN  [c \in Codes |-> Cardinality({k \in DOMAIN nodes : c \in kept[k]})]

\* A query returns the points of its box, each once, whatever splits, growth,
\* collapse and sampling made of the octree; a coarse one stops at a frontier
\* that stands for every point once, "never an ancestor of another emitted
\* node" (region_walk.hpp:27-32, dew_clip_point).
QueriesExact ==
  Finished /\ lost = 0 =>
    /\ \A q \in FullQueries :
         Times(q) = [c \in Codes |-> IF c \in Inserted /\ Encloses(q.box, Interval(c, c)) THEN 1 ELSE 0]
    /\ \A q \in CoarseQueries : LET times == Times(q) IN \A c \in Inserted : times[c] = 1
=============================================================================
