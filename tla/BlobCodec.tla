----------------------------- MODULE BlobCodec -----------------------------
(***************************************************************************)
(* How the buffers of a unit become blobs, and blobs buffers again:        *)
(* storage_handler.cpp compresses each buffer with one of three            *)
(* compressors (compressor_zstd.cpp, compressor_ans.cpp,                   *)
(* compressor_fse.cpp), which share their preprocessing                    *)
(* (compression_preprocess.cpp, byte_shuffle.cpp): several candidates are  *)
(* prepared, coded, and the smallest is kept; a reader has nothing but the *)
(* blob to undo it with (compressor.cpp: decompress_any).                  *)
(*                                                                         *)
(* A byte is a bit here, so that u16 is a number below 4 and u64 one below *)
(* 256; all counts of bytes are those of the code.  A double (8 bytes) has *)
(* a sign, an exponent of 3 bits and a mantissa of 4, and is rounded to    *)
(* nearest even.  The entropy coders are external: how small they make     *)
(* which candidate is a choice (Coders), and they return what they were    *)
(* given if they are given all of what they made.                          *)
(***************************************************************************)
EXTENDS Integers, Sequences, FiniteSets, SequencesExt

CONSTANTS
  Buffers,     \* buffers: [type, components, count: of elements, raw: the bytes]
  MaxBands,    \* bits of a band mask (32)
  HufBlock,    \* huf_max_block_size
  MaxNarrow    \* 65535: the elements a permutation of u16 can have

TypeSize(t) == CASE t = "u8" -> 1 [] t = "u16" -> 2 [] t \in {"u32", "m32"} -> 4
                 [] t \in {"u64", "r64", "m64"} -> 8 [] t = "m128" -> 16 [] t = "m192" -> 24
Stride(f) == TypeSize(f.type) * f.components

ASSUME BuffersAssumption ==
  /\ \A b \in Buffers : /\ b.raw \in Seq({0, 1})
                        /\ b.count > 0 /\ b.count * Stride(b) <= Len(b.raw)
  /\ MaxBands \in Nat /\ HufBlock \in Nat \ {0} /\ MaxNarrow \in Nat

VARIABLES
  buffer,   \* the buffer a unit was written with
  blob,     \* what storage has of it
  loaded    \* what a reader made of the blob

codecVars == <<buffer, blob, loaded>>
NoBlob == [method |-> "unwritten"]

-----------------------------------------------------------------------------
(* Bytes and the numbers in them, least byte first. *)

Upto(s, n) == SubSeq(s, 1, n)
From(s, n) == SubSeq(s, n + 1, Len(s))
Cut(s, n) == [k \in 1 .. Len(s) \div n |-> SubSeq(s, (k - 1) * n + 1, k * n)]
Rest(s, n) == From(s, n * (Len(s) \div n))
Concat(els) == LET upto[k \in 0 .. Len(els)] == IF k = 0 THEN <<>> ELSE upto[k - 1] \o els[k] IN upto[Len(els)]

Number(x) == LET sum[k \in 1 .. Len(x) + 1] == IF k > Len(x) THEN 0 ELSE x[k] + 2 * sum[k + 1] IN sum[1]
Bytes(v, n) == [k \in 1 .. n |-> (v \div 2 ^ (k - 1)) % 2]

\* An element of 16 or 24 bytes is two or three words.
WordSize(x) == IF Len(x) > 8 THEN 8 ELSE Len(x)
WordsOf(x) ==
  CASE Len(x) <= 8 -> <<Number(x)>>
    [] Len(x) = 16 -> <<Number(Upto(x, 8)), Number(From(x, 8))>>
    [] Len(x) = 24 -> <<Number(Upto(x, 8)), Number(SubSeq(x, 9, 16)), Number(From(x, 16))>>

\* less_than_u32 .. less_than_u192
LessThan(x, y) ==
  LET a == WordsOf(x)
      b == WordsOf(y)
  IN  \E k \in DOMAIN a : a[k] < b[k] /\ \A j \in DOMAIN a : j > k => a[j] = b[j]

\* sub_u32 .. sub_u192, and the subtraction of a single integer
Minus(x, y) ==
  LET a == WordsOf(x)
      b == WordsOf(y)
      m == 2 ^ WordSize(x)
      borrow[k \in DOMAIN a] ==
        IF k > 1 /\ (a[k - 1] < (b[k - 1] + borrow[k - 1]) % m
                      \/ (borrow[k - 1] = 1 /\ b[k - 1] = m - 1)) THEN 1 ELSE 0
  IN  Concat([k \in DOMAIN a |-> Bytes((a[k] - b[k] - borrow[k]) % m, WordSize(x))])

MutPlus(x, y) ==   \* a carry out of the second word is missed when the first carried in
  LET a == WordsOf(x)
      b == WordsOf(y)
      m == 2 ^ WordSize(x)
      sum[k \in DOMAIN a] ==
        LET carry == IF k = 1 THEN 0 ELSE sum[k - 1].carry
            r == (a[k] + b[k] + carry) % m
        IN  [word |-> r, carry |-> IF r < a[k] THEN 1 ELSE 0]
  IN  Concat([k \in DOMAIN a |-> Bytes(sum[k].word, WordSize(x))])

\* add_u32 .. add_u192, and the addition of a single integer
Plus(x, y) ==
  LET a == WordsOf(x)
      b == WordsOf(y)
      m == 2 ^ WordSize(x)
      sum[k \in DOMAIN a] ==   \* with the carry out of it
        LET carry == IF k = 1 THEN 0 ELSE sum[k - 1].carry
            r == (a[k] + b[k] + carry) % m
        IN  [word |-> r, carry |-> IF r < a[k] \/ (carry = 1 /\ r = a[k]) THEN 1 ELSE 0]
  IN  Concat([k \in DOMAIN a |-> Bytes(sum[k].word, WordSize(x))])

\* Each element less the one gap before it, and back: delta_encode_morton and
\* delta_encode_single with a gap of 1, delta_encode_u16x3 with one of 3.
Deltas(els, gap) ==
  [k \in DOMAIN els |-> IF k > gap THEN Minus(els[k], els[k - gap]) ELSE els[k]]
Sums(els, gap) ==
  LET sum[k \in DOMAIN els] == IF k > gap THEN Plus(els[k], sum[k - gap]) ELSE els[k]
  IN  [k \in DOMAIN els |-> sum[k]]

OnElements(s, n, Op(_)) == Concat(Op(Cut(s, n))) \o Rest(s, n)
DeltaEncode(s, n, gap) == LET Op(els) == Deltas(els, gap) IN OnElements(s, n, Op)
DeltaDecode(s, n, gap) == LET Op(els) == Sums(els, gap) IN OnElements(s, n, Op)

\* The check before delta_encode_morton encodes: a known width, in order.
Ascending(s, n) ==
  /\ n \in {4, 8, 16, 24} /\ Len(s) >= n
  /\ LET els == Cut(s, n) IN \A k \in 2 .. Len(els) : ~LessThan(els[k], els[k - 1])

-----------------------------------------------------------------------------
(* Doubles, as multiples of the least one.  Arithmetic rounds to nearest.  *)

Magnitude(v) == IF v < 0 THEN -v ELSE v
Scale(v) == CHOOSE k \in 0 .. 6 : Magnitude(v) < 32 * 2 ^ k /\ (k > 0 => Magnitude(v) >= 16 * 2 ^ k)
Ulp(v) == 2 ^ Scale(v)

Value(x) ==
  LET n == Number(Upto(x, 7))
      size == IF n < 16 THEN n ELSE (16 + (n % 16)) * 2 ^ ((n \div 16) - 1)
  IN  IF x[8] = 1 THEN -size ELSE size
Double(v) ==
  LET u == Ulp(v)
      down == Magnitude(v) \div u
      excess == 2 * (Magnitude(v) % u)
      n == IF excess > u \/ (excess = u /\ down % 2 = 1) THEN down + 1 ELSE down
  IN  Bytes(16 * Scale(v) + n, 7) \o <<IF v < 0 THEN 1 ELSE 0>>

\* offset_subtract_f64, offset_restore_f64
Smallest(s) == LET els == Cut(s, 8)
                   least == CHOOSE k \in DOMAIN els : \A j \in DOMAIN els : Value(els[k]) <= Value(els[j])
               IN  els[least]
OffsetSubtract(s, x) ==
  LET Op(els) == [k \in DOMAIN els |-> Double(Value(els[k]) - Value(x))] IN OnElements(s, 8, Op)
OffsetRestore(s, x) ==
  LET Op(els) == [k \in DOMAIN els |-> Double(Value(els[k]) + Value(x))] IN OnElements(s, 8, Op)

\* sort_with_permutation_f64 (as integers; ties in any order), unsort_with_permutation_f64
Permutation(s) ==
  LET els == Cut(s, 8) IN SortSeq([k \in DOMAIN els |-> k], LAMBDA i, j : LessThan(els[i], els[j]))
Sort(s, perm) == LET Op(els) == [k \in DOMAIN els |-> els[perm[k]]] IN OnElements(s, 8, Op)
Unsort(s, perm) ==
  LET Op(els) == [k \in DOMAIN els |-> els[CHOOSE j \in DOMAIN els : perm[j] = k]] IN OnElements(s, 8, Op)

-----------------------------------------------------------------------------
(* Colours of three u16, and bands. *)

Decorrelate(s) ==
  LET Op(els) == [k \in DOMAIN els |-> LET c == Cut(els[k], 2)
                                       IN  c[2] \o Minus(c[1], c[2]) \o Minus(c[3], c[2])]
  IN  OnElements(s, 6, Op)
Correlate(s) ==
  LET Op(els) == [k \in DOMAIN els |-> LET c == Cut(els[k], 2)
                                       IN  Plus(c[2], c[1]) \o c[1] \o Plus(c[3], c[1])]
  IN  OnElements(s, 6, Op)

\* byte_shuffle, byte_unshuffle: the k-th bytes of all elements together
Shuffle(s, n) ==
  Concat([b \in 1 .. n |-> [k \in 1 .. Len(s) \div n |-> s[(k - 1) * n + b]]]) \o Rest(s, n)
Unshuffle(s, n) ==
  LET count == Len(s) \div n
  IN  Concat([k \in 1 .. count |-> [b \in 1 .. n |-> s[(b - 1) * count + k]]]) \o Rest(s, n)

\* detect_constant_bands: which bands of a shuffled buffer have one value
ConstantBands(s, n) ==
  LET bands == Cut(Upto(s, n * (Len(s) \div n)), Len(s) \div n)
  IN  IF n > MaxBands \/ Len(s) < n THEN {}
      ELSE {b \in DOMAIN bands : \A x \in Range(bands[b]) : x = Head(bands[b])}
Compacted(s, n, mask) ==
  LET count == Len(s) \div n
      kept == SelectSeq([b \in 1 .. n |-> b], LAMBDA b : b \notin mask)
  IN  Concat([k \in DOMAIN kept |-> SubSeq(s, (kept[k] - 1) * count + 1, kept[k] * count)]) \o Rest(s, n)
\* restore_constant_bands, for a buffer of a size
Restored(s, size, n, mask, constants) ==
  LET count == size \div n
      Before(b) == Cardinality({c \in 1 .. b - 1 : c \notin mask})
      Band(b) == IF b \in mask THEN [k \in 1 .. count |-> constants[b - Before(b)]]
                 ELSE SubSeq(s, count * Before(b) + 1, count * (Before(b) + 1))
  IN  Concat([b \in 1 .. n |-> Band(b)]) \o From(s, count * Before(n + 1))

-----------------------------------------------------------------------------
(* Entropy coding: external but for the framing huff0 gets.  A coder is    *)
(* the candidate it makes small, with or without its constant bands, and   *)
(* those it fails on.                                                      *)

Methods == {"zstd", "ans", "huff0"}
Coders == [best : 1 .. 4, banded : BOOLEAN, fails : {{}}]
            \cup {[best |-> 3, banded |-> FALSE, fails |-> {k}] : k \in {1, 2}}
Cost(coder, path, banded, plain) ==
  CASE \A k \in DOMAIN plain : plain[k] = plain[1] -> 1
    [] path = coder.best /\ banded = coder.banded -> 2
    [] OTHER -> Len(plain) + 1

\* huf_compress_chunked: blocks with their sizes, stored, repeated or coded
Blocks(plain, cost) ==
  [k \in 1 .. (Len(plain) + HufBlock - 1) \div HufBlock |->
     LET piece == SubSeq(plain, (k - 1) * HufBlock + 1, IF k * HufBlock < Len(plain) THEN k * HufBlock ELSE Len(plain))
         same == \A j \in DOMAIN piece : piece[j] = piece[1]
         made == IF same THEN 1 ELSE cost
     IN  [size |-> Len(piece), coded |-> IF made >= Len(piece) THEN Len(piece) ELSE made, of |-> piece]]
BlocksSize(blocks) == LET sum[k \in 0 .. Len(blocks)] == IF k = 0 THEN 4 ELSE sum[k - 1] + 8 + blocks[k].coded
                      IN  sum[Len(blocks)]
BlocksPlain(blocks) ==
  Concat([k \in DOMAIN blocks |->
    IF blocks[k].coded = 1 THEN [j \in 1 .. blocks[k].size |-> blocks[k].of[1]] ELSE blocks[k].of])

\* What a method makes of bytes, and how many.  For ans 0 is not coded: one
\* symbol only, nothing, or nothing gained (fse_compress_data).
Coded(method, plain, cost) ==
  CASE method = "zstd" -> [bytes |-> cost, is |-> plain]
    [] method = "ans" -> [bytes |-> IF cost \in 2 .. Len(plain) THEN cost ELSE 0, is |-> plain]
    [] method = "huff0" -> LET blocks == Blocks(plain, cost) IN [bytes |-> BlocksSize(blocks), is |-> blocks]
\* Given all the bytes that were made of them, and room for them; else it is
\* bytes nobody wrote.
Decoded(method, field, bytes, size) ==
  LET plain == IF method = "huff0" THEN BlocksPlain(field.is) ELSE field.is
  IN  IF bytes = field.bytes /\ size = Len(plain) THEN plain ELSE [k \in 1 .. size |-> 2]

-----------------------------------------------------------------------------
(* A candidate: the bytes worked on, what was done to them, what a reader  *)
(* needs to undo that, and whether these bytes are its own or the buffer's *)
(* are stored if nothing is gained.  count is 0 if codes are not deltas.   *)

Total(fields) == LET sum[k \in 0 .. Len(fields)] == IF k = 0 THEN 0 ELSE sum[k - 1] + fields[k].bytes
                 IN  sum[Len(fields)]
HeaderSize == 16    \* compression_header_t
BlobOf(b, method, flags, fields) ==
  [method |-> method, type |-> TypeSize(b.type), components |-> b.components, flags |-> flags,
   uncompressed |-> Len(b.raw), compressed |-> Total(fields), fields |-> fields]
Failed == [method |-> "failed"]
BlobSize(x) == IF x = Failed THEN 0 ELSE HeaderSize + x.compressed

\* The standard path, the same in all three compressors.  The elements that are
\* the last of the work, if they are in order, become their differences ...
ElementsAt(b, c) == IF c.count > 0 THEN Len(c.work) - c.count * Stride(b) ELSE 0
Ordered(b, c) == c.count > 0 /\ Ascending(From(c.work, ElementsAt(b, c)), Stride(b))
Differences(b, c) ==
  LET at == ElementsAt(b, c)
  IN  IF Ordered(b, c) THEN Upto(c.work, at) \o DeltaEncode(From(c.work, at), Stride(b), 1) ELSE c.work

\* ... and the shuffled bytes are coded, whole or less their constant bands.  No
\* fields: ans does not code them, and they are stored.
WholeElements(method, s, coder, path) ==
  LET full == Coded(method, s, Cost(coder, path, FALSE, s)) IN IF full.bytes = 0 THEN <<>> ELSE <<full>>
Banded(method, s, n, coder, path) ==
  LET mask == ConstantBands(s, n)
      which == SelectSeq([k \in 1 .. n |-> k], LAMBDA k : k \in mask)
      constants == [k \in DOMAIN which |-> s[(which[k] - 1) * (Len(s) \div n) + 1]]
      compacted == Compacted(s, n, mask)
      coded == Coded(method, compacted, Cost(coder, path, TRUE, compacted))
  IN  IF mask = {} \/ (method = "ans" /\ coded.bytes = 0) THEN <<>>
      ELSE <<[bytes |-> 4, is |-> mask], [bytes |-> Cardinality(mask), is |-> constants], coded>>

\* What the better of the two makes a blob of, if it is smaller than the work.
Smaller(b, method, c, work, whole, banded) ==
  LET useBands == banded # <<>> /\ Total(banded) < (IF whole = <<>> THEN Len(work) ELSE Total(whole))
      ordered == Ordered(b, c)
      flags == c.flags \cup (IF ordered THEN {"delta"} ELSE {}) \cup (IF useBands THEN {"bands"} ELSE {})
      fields == (IF ordered \/ "delta" \in c.flags THEN <<[bytes |-> 4, is |-> ElementsAt(b, c)]>> ELSE <<>>)
                  \o (IF useBands THEN banded ELSE whole)
      stored == (~useBands /\ whole = <<>>) \/ Total(fields) >= Len(work)
  IN  IF stored THEN BlobOf(b, "none", {}, <<[bytes |-> Len(work), is |-> IF c.own THEN work ELSE b.raw]>>)
      ELSE BlobOf(b, method, flags, fields)

\* zstd_compress_standard, fse_compress_standard, huf_compress_standard
ShuffledAndCoded(b, method, coder, path, c, work, s) ==
  Smaller(b, method, c, work, WholeElements(method, s, coder, path), Banded(method, s, Stride(b), coder, path))
Standard(b, method, coder, path, c) ==
  IF path \in coder.fails THEN Failed
  ELSE LET work == Differences(b, c)
       IN  ShuffledAndCoded(b, method, coder, path, c, work, Shuffle(work, Stride(b)))

\* The candidate's own fields go before those of the standard path.
WithMeta(x, meta) ==
  IF x.method \in {"failed", "none"} THEN x
  ELSE [x EXCEPT !.fields = meta \o @, !.compressed = @ + Total(meta)]

Plain(b) == [work |-> b.raw, count |-> b.count, flags |-> {}, own |-> FALSE, meta |-> <<>>]
Worked(b, work, flags) == [work |-> work, count |-> b.count, flags |-> flags, own |-> TRUE, meta |-> <<>>]

PermutationField(method, coder, path, perm) ==
  LET width == IF Len(perm) > MaxNarrow THEN 4 ELSE 2
      plain == [k \in 1 .. width * Len(perm) |-> perm[((k - 1) \div width) + 1]]
      coded == Coded(method, plain, Cost(coder, path, FALSE, plain))
  IN  [bytes |-> 4 + coded.bytes, is |-> coded]

\* Doubles: less their smallest; and then sorted, with the permutation.
Offset(b) ==
  LET least == Smallest(b.raw)
  IN  [Plain(b) EXCEPT !.work = OffsetSubtract(b.raw, least), !.flags = {"offset"},
                       !.meta = <<[bytes |-> 8, is |-> least]>>]
SortedBy(offset, perm, sorted, permutation) ==
  LET ordered == Ascending(sorted, 8)
  IN  [work |-> IF ordered THEN DeltaEncode(sorted, 8, 1) ELSE sorted, count |-> 0, own |-> TRUE,
       flags |-> {"offset", "sorted"} \cup (IF ordered THEN {"delta"} ELSE {}),
       meta |-> Append(offset.meta, permutation)]
OffsetSorted(b, method, coder, offset) ==
  LET perm == Permutation(offset.work)
  IN  SortedBy(offset, perm, Sort(offset.work, perm), PermutationField(method, coder, 3, perm))

IsReal(b) == b.type = "r64" /\ b.components = 1
IsColour(b) == b.type = "u16" /\ b.components = 3
IsInteger(b) == b.components = 1 /\ b.type \in {"u8", "u16", "u32", "u64"}   \* or as wide: r32 is as u32

\* compress: the candidates, the first of which is the buffer as it is
Candidates(b, method, coder) ==
  CASE IsReal(b) /\ Len(b.raw) >= 8 ->
         <<Plain(b), Offset(b)>>
           \o (IF b.count > 1 /\ method # "huff0" THEN <<OffsetSorted(b, method, coder, Offset(b))>> ELSE <<>>)
    [] IsColour(b) /\ Len(b.raw) >= 6 ->
         <<Plain(b), Worked(b, Decorrelate(b.raw), {"decorrelated"}),
           Worked(b, DeltaEncode(b.raw, 2, 3), {"component"}),
           Worked(b, DeltaEncode(Decorrelate(b.raw), 2, 3), {"decorrelated", "component"})>>
    [] IsInteger(b) ->
         <<Plain(b), Worked(b, DeltaEncode(b.raw, TypeSize(b.type), 1), {"element"})>>
    [] OTHER -> <<Plain(b)>>

\* A permutation that ans does not code leaves its candidate out.
Tried(b, method, coder, path, c) ==
  IF Len(c.meta) = 2 /\ c.meta[2].is.bytes = 0 THEN Failed
  ELSE WithMeta(Standard(b, method, coder, path, c), c.meta)
BestOf(tried) ==
  FoldLeft(LAMBDA x, y : IF y # Failed /\ BlobSize(y) < BlobSize(x) THEN y ELSE x,
           Head(tried), Tail(tried))
TryAll(b, method, coder, cs) ==
  BestOf([k \in DOMAIN cs |-> Tried(b, method, coder, k, cs[k])])
Compress(b, method, coder) == TryAll(b, method, coder, Candidates(b, method, coder))

\* try_compress_constant: the elements are all the same; what is left over is not looked at
IsConstant(b) == LET els == Cut(b.raw, Stride(b)) IN \A k \in DOMAIN els : els[k] = els[1]

\* The work item of do_write_events: a buffer that is not compressed is stored as it is.
Verbatim(b) == [method |-> "verbatim", raw |-> b.raw]
OrVerbatim(b, made) == IF made = Failed THEN Verbatim(b) ELSE made
Serialized(b, method, coder) ==
  CASE method = "off" -> Verbatim(b)
    [] method # "off" /\ IsConstant(b) ->
         BlobOf(b, "constant", {}, <<[bytes |-> Stride(b), is |-> Upto(b.raw, Stride(b))]>>)
    [] OTHER -> OrVerbatim(b, Compress(b, method, coder))

-----------------------------------------------------------------------------
(* Reading: the fields in the order of the flags, and the steps undone in  *)
(* the reverse of the order they were done in.                             *)

\* Where the fields are that the flags say are there.
Has(x, flag) == flag \in x.flags
AtPermutation(x) == IF Has(x, "offset") THEN 2 ELSE 1
AtDelta(x) == IF Has(x, "sorted") THEN AtPermutation(x) + 1 ELSE AtPermutation(x)
AtBands(x) == IF Has(x, "delta") THEN AtDelta(x) + 1 ELSE AtDelta(x)
AtPayload(x) == IF Has(x, "bands") THEN AtBands(x) + 2 ELSE AtBands(x)

PermutationOf(x) ==
  LET count == x.uncompressed \div 8
      width == IF count > MaxNarrow THEN 4 ELSE 2
      field == x.fields[AtPermutation(x)]
      entries == Cut(Decoded(x.method, field.is, field.bytes - 4, width * count), width)
  IN  [k \in DOMAIN entries |-> Head(entries[k])]

\* The payload is what no other field has; the constant bands are put back.
ShuffledOf(x) ==
  LET n == x.type * x.components
      size == x.uncompressed
      mask == IF Has(x, "bands") THEN x.fields[AtBands(x)].is ELSE {}
      compacted == IF mask # {} THEN (n - Cardinality(mask)) * (size \div n) + (size % n) ELSE size
      bytes == x.compressed - Total(Upto(x.fields, AtPayload(x) - 1))
      plain == Decoded(x.method, x.fields[AtPayload(x)], bytes, compacted)
  IN  IF mask # {} THEN Restored(plain, size, n, mask, x.fields[AtBands(x) + 1].is) ELSE plain

\* The steps back: each is taken if its flag is there.
UndoElement(x, s) == IF Has(x, "element") THEN DeltaDecode(s, x.type, 1) ELSE s
UndoComponent(x, s) == IF Has(x, "component") THEN DeltaDecode(s, 2, 3) ELSE s
UndoDecorrelated(x, s) == IF Has(x, "decorrelated") THEN Correlate(s) ELSE s
UndoDelta(x, s) ==
  LET at == IF Has(x, "sorted") THEN 0 ELSE x.fields[AtDelta(x)].is
      n == IF Has(x, "sorted") THEN 8 ELSE x.type * x.components
  IN  IF Has(x, "delta") THEN Upto(s, at) \o DeltaDecode(From(s, at), n, 1) ELSE s
UndoSorted(x, s) == IF Has(x, "sorted") THEN Unsort(s, PermutationOf(x)) ELSE s
UndoOffset(x, s) == IF Has(x, "offset") THEN OffsetRestore(s, x.fields[1].is) ELSE s

\* compressor_zstd_t::decompress and the other two
Decompress(x) ==
  LET elements == Unshuffle(ShuffledOf(x), x.type * x.components)
  IN  UndoOffset(x, UndoSorted(x, UndoDelta(x, UndoDecorrelated(x, UndoComponent(x, UndoElement(x, elements))))))

\* decompress_any, for a blob that has the magic; others are as they were stored
ReadBack(x) ==
  CASE x.method = "verbatim" -> x.raw
    [] x.method = "none" -> Head(x.fields).is
    [] x.method = "constant" ->
         LET n == x.type * x.components
         IN  [k \in 1 .. x.uncompressed |->
                IF k > n * (x.uncompressed \div n) THEN 0 ELSE Head(x.fields).is[((k - 1) % n) + 1]]
    [] x.method \in Methods -> Decompress(x)

-----------------------------------------------------------------------------

CodecInit == buffer \in Buffers /\ blob = NoBlob /\ loaded = <<>>

StoreBuffer ==
  /\ blob = NoBlob
  /\ \E method \in Methods \cup {"off"}, coder \in Coders : blob' = Serialized(buffer, method, coder)
  /\ UNCHANGED <<buffer, loaded>>

LoadBuffer ==
  /\ blob # NoBlob /\ loaded = <<>>
  /\ loaded' = ReadBack(blob)
  /\ UNCHANGED <<buffer, blob>>

CodecNext == StoreBuffer \/ LoadBuffer
CodecSpec == CodecInit /\ [][CodecNext]_codecVars

-----------------------------------------------------------------------------
(* Properties. *)

\* Doubles are as close as the doubles about them, and about their distance to the least.
Near(x, y, least) ==
  LET distance == Value(x) - least
  IN  Magnitude(Value(x) - Value(y)) <= (IF distance > Magnitude(Value(x)) THEN Ulp(distance) ELSE Ulp(Value(x)))

\* Whatever the coder favours, and whatever was tried and dropped, what a reader
\* makes of the blob alone is the buffer that was written (compression_preprocess.hpp:
\* each step is documented to be reversed on decompression): byte for byte, but for
\* doubles, of which the offset costs the last bit.
BlobsSurvive ==
  loaded # <<>> =>
    IF IsReal(buffer)
      THEN LET written == Cut(buffer.raw, 8)
               read == Cut(loaded, 8)
           IN  /\ Len(loaded) = Len(buffer.raw)
               /\ \A k \in DOMAIN written : Near(written[k], read[k], Value(Smallest(buffer.raw)))
      ELSE loaded = buffer.raw

=============================================================================
