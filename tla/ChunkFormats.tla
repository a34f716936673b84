---------------------------- MODULE ChunkFormats ----------------------------
(***************************************************************************)
(* The codes of points on their way through the converter: sorter.cpp      *)
(* encodes the points of a chunk in the narrowest format the bounds of its *)
(* file allow, sorts them and narrows the format to the span they have; a  *)
(* collapse merges units (tree_collapse.cpp), a LOD pass samples them      *)
(* (tree_lod_generator.cpp, lod_quantize.hpp), a split takes ranges of     *)
(* them (point_buffer_splitter.hpp), and access (decode.cpp) and rendering *)
(* (point_buffer_render_helper.hpp) decode them.  Each of these has the    *)
(* low bits of the codes and the header only.                              *)
(*                                                                         *)
(* Octree has codes that are numbers; here they are the words of           *)
(* MortonCodes, and the tree is left out: one unit becomes another.        *)
(***************************************************************************)
EXTENDS MortonCodes, Sequences, SequencesExt

CONSTANTS
  Chunks,         \* the chunks of files: [lo, hi: corners of the file's bounds, pts: points]
  Detail,         \* lod_quantize_full_detail_level (9)
  MaxPoints,      \* bound on the points of a merged unit
  NarrowSamples   \* whether a sample may be cast to a wider format (see Widened)

\* The bounds are bounds: header.min and max of the file, in the grid.
ASSUME ChunksAssumption ==
  /\ \A c \in Chunks : \A k \in DOMAIN c.pts :
       LET p == Encode192(c.pts[k])
       IN  LessEqual(Encode192(c.lo), p) /\ LessEqual(p, Encode192(c.hi))
  /\ Detail \in Nat /\ MaxPoints \in Nat /\ NarrowSamples \in BOOLEAN

VARIABLES
  unit,    \* a unit: the header's fields, codes, and the width of the cells it has a point of
  points   \* the points it stands for

chunkVars == <<unit, points>>
PointsOf(c) == {c.pts[k] : k \in DOMAIN c.pts}
NoUnit == [codes |-> <<>>]

Sorted(codes) == SortSeq(codes, Less)
Narrowed(codes, s, t) ==
  IF Size[t] < Size[s] THEN [k \in DOMAIN codes |-> Downcast(codes[k], t)] ELSE codes

-----------------------------------------------------------------------------
(* The sorter: convert_and_sort, convert_and_sort_morton.  The high bits   *)
(* of the header come from the last point read; the format is narrowed to  *)
(* the span of the points, never widened.                                  *)

SortPoints(c) ==
  LET s == FormatOf(MortonLod(Encode192(c.lo), Encode192(c.hi)))
      codes == Sorted([k \in DOMAIN c.pts |-> Encode(c.pts[k], s)])
      first == Head(codes)
      last == Last(codes)
      base == Encode192(Last(c.pts))
      t == FormatOf(MortonLod(first, last))
  IN  [format |-> t, codes |-> Narrowed(codes, s, t), lod |-> MortonLod(first, last),
       min |-> Upcast(first, s, base, "m192"), max |-> Upcast(last, s, base, "m192"), width |-> -1]

ChunkInit == \E c \in Chunks : unit = SortPoints(c) /\ points = PointsOf(c)

\* append_absolute
Absolute(u) == [k \in DOMAIN u.codes |-> Upcast(u.codes[k], u.format, u.min, "m192")]

\* The cell at a lod that a code is in, by its least code.
CellMin(lod, a) == And(a, Negate(MaskCreate(lod, "m192"), "m192"))

-----------------------------------------------------------------------------
(* Collapse: merge_worker gives the merged unit the format of its own      *)
(* span.                                                                   *)

Merged(u, v) ==
  LET codes == Sorted(Absolute(u) \o Absolute(v))
      lod == MortonLod(Head(codes), Last(codes))
      t == FormatOf(lod)
  IN  [format |-> t, codes |-> Narrowed(codes, "m192", t), lod |-> lod,
       min |-> Head(codes), max |-> Last(codes), width |-> -1]

SameFile(c) == Encode192(c.lo) = CellMin(MortonLod(Encode192(c.lo), Encode192(c.hi)), unit.min)

Collapse ==
  \E c \in Chunks :
    /\ unit.width = -1 /\ SameFile(c)
    /\ Len(unit.codes) + Len(c.pts) <= MaxPoints
    /\ unit' = Merged(unit, SortPoints(c))
    /\ points' = points \cup PointsOf(c)

-----------------------------------------------------------------------------
(* LOD generation: one representative for each cell that has a point.      *)

\* lod_quantize_mask_width
MaskWidth(lod) == IF lod > Detail THEN lod - Detail ELSE 0

\* The widest cell a format can express (max_mask_for_type).
MaxMask(t) == (Size[t] - 4) \div 3

\* Where a cell of a width begins, as the codes of a format are scanned.
CellStarts(codes, t, width) ==
  FoldLeft(LAMBDA starts, k :
             IF LessEqual(codes[k], CreateMax(width, codes[Max(starts)], t)) THEN starts ELSE starts \cup {k},
           {1}, [k \in DOMAIN codes |-> k])

Clamped(width, t) == Min({width, MaxMask(t)})

\* find_indices_to_quantize: any one of each cell of a child (which one is
\* pseudo-random in the code).
Picks(u, lod) ==
  LET starts == CellStarts(u.codes, u.format, Clamped(MaskWidth(lod), u.format))
      cell(k) == Max({s \in starts : s <= k})
  IN  {P \in SUBSET DOMAIN u.codes : \A s \in starts : Cardinality({k \in P : cell(k) = s}) = 1}

\* quantize_subset: a code is cast with the header's min, cut to the cell of
\* the child, to the format of the node's lod.
SampleCode(u, k, lod) == Cast(u.codes[k], u.format, CellMin(lod - 1, u.min), FormatOf(lod))

\* The adaptive density: the width at which at most a quarter of the points
\* are left, or the widest of the format.
RepWidth(codes, lod, total, adaptive) ==
  LET t == FormatOf(lod)
      width == MaskWidth(lod)
      wide == {w \in width .. MaxMask(t) - 1 : Cardinality(CellStarts(codes, t, w)) <= Max({1, total \div 4})}
  IN  IF adaptive THEN Min(wide \cup {Max({width, MaxMask(t)})}) ELSE width

\* Mutant: the last cell is not closed when the codes end.
MutMiddles(codes, starts) ==
  LET s == SetToSortSeq(starts, <)
  IN  [n \in 1 .. Len(s) - 1 |-> codes[s[n] + (s[n + 1] - s[n]) \div 2]]

\* The middle one of each cell.
Middles(codes, starts) ==
  LET s == SetToSortSeq(starts \cup {Len(codes) + 1}, <)
  IN  [n \in 1 .. Len(s) - 1 |-> codes[s[n] + (s[n + 1] - s[n]) \div 2]]

\* quantize_morton_remember_indecies: of what was picked of the children, one
\* in each cell again.
SampledUnit(u, picks, lod, adaptive) ==
  LET t == FormatOf(lod)
      codes == Sorted([n \in 1 .. Cardinality(picks) |-> SampleCode(u, SetToSortSeq(picks, <)[n], lod)])
      width == RepWidth(codes, lod, Len(u.codes), adaptive)
      node == CellMin(lod, u.min)
  IN  [format |-> t, lod |-> lod, width |-> Max({width, u.width}),
       codes |-> Middles(codes, CellStarts(codes, t, width)),
       min |-> Upcast(Head(codes), t, node, "m192"), max |-> Upcast(Last(codes), t, node, "m192")]

\* A cast to a wider format goes wrong: the bits between the end of the unit's
\* format and the cell of the child are not in CellMin, bits H - 2 and H - 1
\* are not restored when 32 bits become 64, and the bits of the wider word
\* above its whole lods are set although RenderOrigin has them, too.
Widened(u, lod) == Size[FormatOf(lod)] > Size[u.format]

Generate ==
  \E lod \in unit.lod + 1 .. W - 2, adaptive \in BOOLEAN :
    /\ NarrowSamples \/ ~Widened(unit, lod)
    /\ \E picks \in Picks(unit, lod) : unit' = SampledUnit(unit, picks, lod, adaptive)
    /\ UNCHANGED points

ChunkNext == Collapse \/ Generate

-----------------------------------------------------------------------------
(* What reads a unit. *)

\* decode_positions, decode_one
DecodePosition(u, k) == Decode(Upcast(u.codes[k], u.format, CellMin(u.lod, u.min), "m192"))

\* The renderer keeps the origin of the cell and the place in it apart.
RenderOrigin(u) == Decode(CellMin(u.lod, u.min))
RenderPlace(u, k) ==
  LET outside == Downcast(Negate(MaskCreate(u.lod, "m192"), "m192"), u.format)
  IN  Decode(And(u.codes[k], Negate(outside, u.format)))

\* for_each_octant_range: the bound of an octant, in the unit's format.
BitsOf(i) == {b \in 0 .. 2 : (i \div (2 ^ b)) % 2 = 1}
OctantEnd(u, lod, i) ==
  LET min == Downcast(CellMin(lod, u.min), u.format)
  IN  IF i = 7 THEN AddOne(Or(min, MaskCreate(lod, u.format)), u.format)
      ELSE SetChildMask(lod, BitsOf(i + 1), min, u.format)

\* convert_local_morton_to_world: the ends of a range, for the child's bounds.
RangeCode(u, lod, k) == Upcast(u.codes[k], u.format, CellMin(lod, u.min), "m192")

\* point_buffer_subdivide_type: the octant each code goes to.  A unit whose
\* format ends below the lod is in one octant.
Subdivide(u, lod) ==
  IF 3 * lod + 3 > Size[u.format] THEN [k \in DOMAIN u.codes |-> ChildMask(lod, u.min)]
  ELSE [k \in DOMAIN u.codes |-> BitsOf(Min({i \in 0 .. 7 : Less(u.codes[k], OctantEnd(u, lod, i))}))]

-----------------------------------------------------------------------------
(* Properties.  The reference is a code as a flat set of bits, three to    *)
(* the lod.                                                                *)

Flat(a) == UNION {{W * i + b : b \in a[i]} : i \in DOMAIN a}
FlatPoint(p) ==
  {3 * b : b \in p.x} \cup {3 * b + 1 : b \in p.y} \cup {3 * b + 2 : b \in p.z}
HighBits(lod, f) == {b \in f : b > 3 * lod + 2}
Lods == 0 .. W - 2       \* the highest has no mask: magnitudes stop below it
Magnitudes == 0 .. (W - 1) \div TreeLevels - 1

\* Word arithmetic is cell arithmetic, across every word border: octants are
\* read and written, cells bounded and ordered, and a node's name restores
\* the code of its cell.
CellsAreWords(a, b) ==
  /\ Less(a, b) <=> LessWord(Flat(a), Flat(b))
  /\ a # b => MortonLod(a, b) = Max(Differ(Flat(a), Flat(b))) \div 3
  /\ \A lod \in Lods :
       /\ ChildMask(lod, a) = {n \in 0 .. 2 : 3 * lod + n \in Flat(a)}
       /\ Flat(SetChildMask(lod, ChildMask(lod, b), a, "m192"))
            = (Flat(a) \ (3 * lod .. 3 * lod + 2)) \cup (Flat(b) \cap (3 * lod .. 3 * lod + 2))
       /\ Flat(CellMin(lod, a)) = HighBits(lod, Flat(a))
       /\ Flat(CreateMax(lod, CellMin(lod, a), "m192")) = HighBits(lod, Flat(a)) \cup (0 .. 3 * lod + 2)
  /\ \A m \in Magnitudes :
       LET low == 3 * TreeLevels * m
       IN  SetName(m, CellMin(TreeLevels * m + TreeLevels - 1, a),
                   {n \in 0 .. 3 * TreeLevels - 1 : low + n \in Flat(a)})
             = CellMin(TreeLevels * m - 1, a)

\* Every code of a unit is read back as one of its points whoever reads it: as
\* an absolute code, as a position, as an origin and a place in its cell.
ReadInPlace ==
  \A k \in DOMAIN unit.codes :
    LET p == DecodePosition(unit, k)
        o == RenderOrigin(unit)
        q == RenderPlace(unit, k)
    IN  /\ p \in points /\ Flat(Absolute(unit)[k]) = FlatPoint(p)
        /\ \A d \in {"x", "y", "z"} : o[d] \cap q[d] = {} /\ o[d] \cup q[d] = p[d]

\* A split puts every code in its octant and knows the codes at the ends of a
\* range, at every lod that covers the unit.
CutInPlace ==
  \A lod \in unit.lod .. W - 2 : \A k \in DOMAIN unit.codes :
    /\ Subdivide(unit, lod)[k] = ChildMask(lod, Absolute(unit)[k])
    /\ 3 * lod + 3 <= Size[unit.format] => RangeCode(unit, lod, k) = Absolute(unit)[k]

\* The points of a chunk survive all that is done with their codes, in every
\* format: sorting, merging, sampling, splitting and decoding.
CodesSurvive ==
  unit # NoUnit => CellsAreWords(unit.min, unit.max) /\ ReadInPlace /\ CutInPlace

\* No part of space empties as units are merged and sampled: every cell of the
\* unit's width that has a point of those it stands for has one of the unit;
\* before it is sampled, a cell is a code.
CellsRepresented ==
  unit # NoUnit =>
    {HighBits(unit.width, FlatPoint(p)) : p \in points}
      = {HighBits(unit.width, Flat(Absolute(unit)[k])) : k \in DOMAIN unit.codes}

\* Both, for the run.
PointsSurvive == CodesSurvive /\ CellsRepresented

\* What is sampled for a LOD node lies where it was: "an LOD node holds a
\* SUBSET of its descendants' points" (attribute_amend_tests.cpp:1622).
SamplesInPlace == unit # NoUnit => ReadInPlace
=============================================================================
