------------------------------ MODULE MCOctree ------------------------------
(* Octree and RegionWalk: runs of chunks for TLC: two or three magnitudes of two levels.   *)
(* ChunkFormats: points whose codes differ in one bit, at every bit and at every format's  *)
(* border, in words of 16 bits.                                                            *)
(* BlobCodec: buffers of two to four elements in every kind of format.                     *)
EXTENDS RegionWalk, ChunkFormats, BlobCodec

MCFeeds == {
  <<{0, 3}, {1, 2}, {9, 12}>>,         \* a full leaf splits, the root grows by a magnitude
  <<{5, 6}, {4, 7, 13}>>,              \* a chunk spans two sub-trees
  <<{0, 9}, {1, 2, 3}, {12}>>,         \* a sub-tree is final before the root is
  <<{0, 9}, {1, 2}, {3, 12}>>,         \* ... or can still be reached, in its last cell
  <<{2, 3, 6, 7, 11}, {0, 1, 4, 5}>>,  \* chunks that interleave in every leaf
  <<{0, 1}, {40, 50, 51}>>}            \* the root grows by two magnitudes at once

MCFarFeeds == {<<{0, 1}, {40, 50, 51}>>}

PointAt(f) == [x |-> {b \in 0 .. W - 1 : 3 * b \in f}, y |-> {b \in 0 .. W - 1 : 3 * b + 1 \in f},
               z |-> {b \in 0 .. W - 1 : 3 * b + 2 \in f}]
TopBitUsed == 3 * (W - 2) - 1

\* Two points in a cell at lod: a code f and one with bit g the other way.  The
\* file's bounds are the cell.
ChunkAt(f, g, lod) ==
  LET cell == {b \in f : b > 3 * lod + 2}
  IN  [lo |-> PointAt(cell), hi |-> PointAt(cell \cup (0 .. 3 * lod + 2)),
       pts |-> <<PointAt(f), PointAt(Differ(f, {g}))>>]
Ones == 0 .. TopBitUsed
Alternating == {b \in Ones : b % 2 = 0}
Borders == {0, 7, 8, 14, 15, 31, TopBitUsed}    \* bits at the ends of words and formats
MCChunks ==
  {ChunkAt(f, g, W - 2) : f \in {Ones, Alternating}, g \in {0, 8, 15, TopBitUsed}}
    \cup {ChunkAt(Ones, g, g \div 3) : g \in Borders}
    \cup {ChunkAt(Alternating, g, g \div 3) : g \in 0 .. TopBitUsed}

\* Buffers of n of these elements (words of w bytes), after the bytes of a unit's header.
UnitHeader == <<1, 0, 1, 1, 0>>
Of(type, components, header, w, n, elements) ==
  {[type |-> type, components |-> components, count |-> n,
    raw |-> header \o Concat([k \in 1 .. n |-> Concat([j \in DOMAIN f[k] |-> Bytes(f[k][j], w)])])] :
     f \in [1 .. n -> elements]}
MCBuffers ==
  Of("m32", 1, UnitHeader, 4, 3, {<<0>>, <<1>>, <<15>>})
    \cup Of("m64", 1, UnitHeader, 8, 3, {<<1>>, <<128>>, <<255>>})
    \cup Of("m128", 1, UnitHeader, 8, 2, {<<0, 0>>, <<255, 0>>, <<0, 1>>, <<255, 255>>})
    \cup Of("m192", 1, UnitHeader, 8, 2,
            {<<0, 0, 0>>, <<0, 0, 1>>, <<255, 0, 1>>, <<255, 255, 0>>, <<0, 255, 255>>})
    \cup Of("u8", 1, <<>>, 1, 4, {<<0>>, <<1>>})
    \cup Of("u16", 1, <<>>, 2, 4, {<<0>>, <<3>>})
    \cup Of("u16", 3, <<>>, 2, 3, {<<0, 0, 0>>, <<3, 0, 1>>, <<1, 3, 2>>})
    \cup Of("u32", 1, <<>>, 4, 3, {<<1>>, <<2>>, <<3>>})
    \cup Of("u32", 2, <<>>, 4, 2, {<<0, 15>>, <<1, 0>>, <<15, 1>>})
    \cup Of("u64", 1, <<>>, 8, 3, {<<0>>, <<1>>, <<255>>})
    \cup Of("u64", 3, <<>>, 8, 2, {<<0, 255, 1>>, <<1, 0, 2>>})
    \cup Of("r64", 4, <<>>, 8, 2, {<<0, 5, 0, 5>>, <<0, 5, 0, 6>>})
    \cup Of("r64", 1, <<>>, 8, 3, {<<3>>, <<40>>, <<95>>, <<132>>})   \* 3, 96, 992, -4
    \cup Of("r64", 1, <<>>, 8, 4, {<<17>>, <<90>>})

\* The run's states are those of the tree and, apart from them, those of a unit's codes
\* and those of a buffer.
NoBuffer == [raw |-> <<>>]
MCInit ==
  /\ Init
  /\ \/ unit = NoUnit /\ points = {} /\ buffer = NoBuffer /\ blob = NoBlob /\ loaded = <<>>
     \/ feed = Head(SetToSeq(Feeds)) /\ ChunkInit /\ buffer = NoBuffer /\ blob = NoBlob /\ loaded = <<>>
     \/ feed = Head(SetToSeq(Feeds)) /\ unit = NoUnit /\ points = {} /\ CodecInit
MCNext ==
  \/ unit = NoUnit /\ buffer = NoBuffer /\ Next /\ UNCHANGED <<chunkVars, codecVars>>
  \/ unit # NoUnit /\ ChunkNext /\ UNCHANGED <<vars, codecVars>>
  \/ buffer # NoBuffer /\ CodecNext /\ UNCHANGED <<vars, chunkVars>>
MCSpec == MCInit /\ [][MCNext]_<<vars, chunkVars, codecVars>>
=============================================================================
