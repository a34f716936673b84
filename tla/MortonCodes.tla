----------------------------- MODULE MortonCodes -----------------------------
(***************************************************************************)
(* Morton codes in machine words (core/morton.hpp).                        *)
(*                                                                         *)
(* The other modules take a code for a number and a cell for a range of    *)
(* numbers.  The code has four formats of one to three words, a lod is     *)
(* three bits that may lie across two words, and a format that drops the   *)
(* high bits of a code is completed from a code that still has them.  This *)
(* module is that arithmetic; ChunkFormats is the path of the points of a  *)
(* chunk through it.                                                       *)
(*                                                                         *)
(* A word is the set of its bits that are 1.  A word has 3K + 1 of them,   *)
(* as 64 = 3 * 21 + 1, so that the lods lie across the words as they do in *)
(* the code; a code is a function from word numbers to words.              *)
(***************************************************************************)
EXTENDS Integers, FiniteSets, FiniteSetsExt

CONSTANT K   \* lods that lie within the first word (21)

TreeLevels == 5    \* levels of a tree, the lods in a name

ASSUME MortonAssumption == K \in Nat /\ K >= TreeLevels /\ K % 2 = 1

W == 3 * K + 1     \* bits of a word (64)
H == W \div 2      \* bits of the word of morton32_t (32)

\* dew_type_m32 .. dew_type_m192, by size.
Words == [m32 |-> 1, m64 |-> 1, m128 |-> 2, m192 |-> 3]
Size == [m32 |-> H, m64 |-> W, m128 |-> 2 * W, m192 |-> 3 * W]
Formats == DOMAIN Words
Width(t) == IF t = "m32" THEN H ELSE W

\* morton_type_from_lod: the narrowest format with all bits of the lod.
FormatOf(lod) ==
  LET top == 3 * lod + 3
  IN  IF top < H THEN "m32" ELSE IF top < W THEN "m64" ELSE IF top < 2 * W THEN "m128" ELSE "m192"

-----------------------------------------------------------------------------
(* Words. *)

All(t) == 0 .. Width(t) - 1
Shifted(word, n, t) == {b + n : b \in word} \cap All(t)
Differ(v, w) == (v \ w) \cup (w \ v)
LessWord(v, w) == v # w /\ Max(Differ(v, w)) \in w
Increment(word, t) ==
  IF word = All(t) THEN {}
  ELSE LET zero == Min(All(t) \ word) IN {zero} \cup {b \in word : b > zero}

(* Codes. *)

Or(a, b) == [i \in DOMAIN a |-> a[i] \cup b[i]]
And(a, b) == [i \in DOMAIN a |-> a[i] \cap b[i]]
Negate(a, t) == [i \in DOMAIN a |-> All(t) \ a[i]]
Xor(a, b) == [i \in DOMAIN a |-> Differ(a[i], b[i])]
Less(a, b) ==
  \E i \in DOMAIN a : /\ LessWord(a[i], b[i])
                      /\ \A j \in DOMAIN a : j > i => a[j] = b[j]
LessEqual(a, b) == ~Less(b, a)

\* morton_add_one: a full word passes a carry to the next one.
AddOne(a, t) ==
  [i \in DOMAIN a |->
     IF \A j \in DOMAIN a : j < i => a[j] = All(t) THEN Increment(a[i], t) ELSE a[i]]

\* morton_msb: 0 for the null code, too.
Msb(a) ==
  LET set == {i \in DOMAIN a : a[i] # {}}
  IN  IF set = {} THEN 0 ELSE W * Max(set) + Max(a[Max(set)])

MortonLod(a, b) == Msb(Xor(a, b)) \div 3

\* morton_mask_create: the bits of a lod and of those below.
MaskCreate(lod, t) ==
  LET n == 3 * lod + 3
      word == IF Words[t] = 1 \/ n <= W - 1 THEN 0
              ELSE IF Words[t] = 3 /\ n > 2 * (W - 1) THEN 2 ELSE 1
      bits == IF word = 0 THEN n ELSE n % W
  IN  [i \in 0 .. Words[t] - 1 |->
         IF i < word THEN All(t) ELSE IF i = word THEN 0 .. bits - 1 ELSE {}]

CreateMax(lod, a, t) == Or(MaskCreate(lod, t), a)

\* morton_get_child_mask, of a morton192_t: the octant, as the set of its bits.
Field(word, at) == {b \in 0 .. 2 : at + b \in word}
ChildMask(lod, a) ==
  LET at == 3 * lod
  IN  IF at < W
      THEN Field(a[0], at) \cup (IF at = W - 1 THEN {b + 1 : b \in a[1] \cap {0, 1}} ELSE {})
      ELSE IF at < 2 * W
      THEN Field(a[1], at - W) \cup (IF at - W = W - 2 THEN {b + 2 : b \in a[2] \cap {0}} ELSE {})
      ELSE Field(a[2], at - 2 * W)

\* morton_set_child_mask: the bits that spill over go to the next word.
SetChildMask(lod, mask, a, t) ==
  LET i == (3 * lod) \div W
      at == (3 * lod) % W
      over == at + 3 - W
      low == (a[i] \ (at .. at + 2)) \cup Shifted(mask, at, t)
  IN  IF over > 0 /\ i + 1 \in DOMAIN a
      THEN [a EXCEPT ![i] = low, ![i + 1] = (@ \ (0 .. over - 1)) \cup {b - (3 - over) : b \in {m \in mask : m >= 3 - over}}]
      ELSE [a EXCEPT ![i] = low]

\* set_name_in_morton: the lods of a tree below its root, from a node's name.
SetName(magnitude, a, name) ==
  LET lower == magnitude * 3 * TreeLevels
      i == lower \div W
      part == lower % W
      left == W - part
      first == [a EXCEPT ![i] = @ \cup Shifted(name, part, "m192")]
  IN  IF left < 3 * TreeLevels /\ i + 1 < 3
      THEN [first EXCEPT ![i + 1] = @ \cup {b - left : b \in {n \in name : n >= left}}]
      ELSE first

-----------------------------------------------------------------------------
(* Formats. *)

\* Bits that a format keeps of its last word: whole lods.
KeptBits(t) == IF t = "m192" THEN W ELSE Width(t) - (Size[t] % 3)

\* morton_downcast
Downcast(a, t) ==
  LET last == Words[t] - 1
  IN  [i \in 0 .. last |-> IF i = last THEN a[i] \cap (0 .. KeptBits(t) - 1) ELSE a[i]]

\* Mutant: the bits between the whole lods and the end of the word are not
\* taken from min.
MutUpcast(a, s, min, t) ==
  LET last == Words[s] - 1
  IN  [i \in 0 .. Words[t] - 1 |-> IF i <= last THEN a[i] ELSE min[i]]

\* morton_upcast: from min come the words above and, when the format gets
\* more words, the bits that a downcast drops; a 32-bit word gets the upper
\* half of min's first word.
Upcast(a, s, min, t) ==
  LET last == Words[s] - 1
      half == IF s = "m32" THEN {b \in min[0] : b >= H} ELSE {}
      rest == IF Words[s] = 2 \/ (Words[s] = 1 /\ Words[t] > 1)
              THEN {b \in min[last] : KeptBits(s) <= b /\ b < Width(s)}
              ELSE {}
  IN  [i \in 0 .. Words[t] - 1 |->
         IF i > last THEN min[i] ELSE IF i = last THEN a[i] \cup half \cup rest ELSE a[i]]

\* morton_cast
Cast(a, s, min, t) ==
  IF Size[s] > Size[t] THEN Downcast(a, t) ELSE IF Size[s] < Size[t] THEN Upcast(a, s, min, t) ELSE a

-----------------------------------------------------------------------------
(* Coordinates: encode and decode.  A coordinate has W bits as well; x, y  *)
(* and z take turns at the bit a word has more than it has lods.           *)

\* libmorton's encode of three coordinates in a word, and its decode, which
\* leaves the highest bit to the caller.
Spread(x, y, z, t) ==
  ({3 * b : b \in x} \cup {3 * b + 1 : b \in y} \cup {3 * b + 2 : b \in z}) \cap All(t)
Axis(word, n) == {b \in 0 .. K - 1 : 3 * b + n \in word}
TopBit(word, to) == IF W - 1 \in word THEN {to} ELSE {}
Bits(c, from, n) == {b - from : b \in c \cap (from .. from + n - 1)}
Placed(c, at) == {b + at : b \in c}

Encode192(p) ==
  [i \in 0 .. 2 |->
     IF i = 0 THEN Spread(Bits(p.x, 0, K + 1), Bits(p.y, 0, K), Bits(p.z, 0, K), "m192")
     ELSE IF i = 1 THEN Spread(Bits(p.y, K, K + 1), Bits(p.z, K, K), Bits(p.x, K + 1, K), "m192")
     ELSE Spread(Bits(p.z, 2 * K, K + 1), Bits(p.x, 2 * K + 1, K), Bits(p.y, 2 * K + 1, K), "m192")]

\* The narrower formats: the same words, the last one cut to whole lods.
Encode(p, t) ==
  LET last == Words[t] - 1
      word(i) == IF t = "m32" THEN Spread(p.x, p.y, p.z, "m32") ELSE Encode192(p)[i]
  IN  [i \in 0 .. last |-> IF i = last THEN word(i) \cap (0 .. KeptBits(t) - 1) ELSE word(i)]

\* A word the format does not have is null.
Decode(a) ==
  LET word(i) == IF i \in DOMAIN a THEN a[i] ELSE {}
  IN  [x |-> Axis(word(0), 0) \cup TopBit(word(0), K) \cup Placed(Axis(word(1), 2), K + 1)
               \cup Placed(Axis(word(2), 1), 2 * K + 1),
       y |-> Axis(word(0), 1) \cup Placed(Axis(word(1), 0), K) \cup TopBit(word(1), 2 * K)
               \cup Placed(Axis(word(2), 2), 2 * K + 1),
       z |-> Axis(word(0), 2) \cup Placed(Axis(word(1), 1), K) \cup Placed(Axis(word(2), 0), 2 * K)
               \cup TopBit(word(2), 3 * K)]
=============================================================================
