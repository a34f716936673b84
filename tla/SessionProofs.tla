--------------------------- MODULE SessionProofs ---------------------------
(***************************************************************************)
(* Theorems about MutableSession, for any trees and units, any names and   *)
(* values, and any number of calls, checkpoints, faults and crashes.       *)
(***************************************************************************)
EXTENDS MutableSession, FiniteSetTheorems, WellFoundedInduction, NaturalsInduction, TLAPS

-----------------------------------------------------------------------------
(***************************************************************************)
(* Numbers: induction for a set of them, and least elements.               *)
(***************************************************************************)
Less == OpToRel(<, Nat)

LEMMA LessIsWellFounded == IsWellFoundedOn(Less, Nat)
BY NatLessThanWellFounded DEF Less

LEMMA LessIsLess == \A x, y \in Nat : x < y => <<x, y>> \in Less
BY DEF OpToRel, Less

LEMMA Least ==
  ASSUME NEW S, S \subseteq Nat, S # {}
  PROVE  Min(S) \in S /\ \A y \in S : Min(S) <= y
<1>1. PICK n \in S : \A m \in S : ~(<<m, n>> \in Less)
  BY LessIsWellFounded, WFMin
<1>2. \A m \in S : ~(m < n)
  BY <1>1, LessIsLess
<1>3. \A m \in S : n <= m
  BY <1>2
<1> QED
  BY <1>1, <1>3 DEF Min

LEMMA AllNumbers ==
  ASSUME NEW I, 0 \in I, \A n \in Nat : n \in I => n + 1 \in I
  PROVE  \A n \in Nat : n \in I
<1> DEFINE Out == Nat \ I
<1> SUFFICES ASSUME Out # {} PROVE FALSE
  OBVIOUS
<1>1. Out \subseteq Nat
  OBVIOUS
<1> DEFINE n == Min(Out)
<1>2. n \in Out /\ \A m \in Out : n <= m
  BY <1>1, Least
<1>3. n \in Nat /\ n # 0 /\ n \notin I
  BY <1>2
<1> HIDE DEF n
<1>4. n - 1 \in Nat /\ n - 1 \notin Out
  BY <1>2, <1>3
<1>5. n - 1 \in I
  BY <1>4
<1>6. n \in I
  BY <1>3, <1>4, <1>5
<1> QED
  BY <1>3, <1>6

-----------------------------------------------------------------------------
(***************************************************************************)
(* The elements of a finite set in the order of their ranks.               *)
(***************************************************************************)
Below(S, R, x) == {y \in S : <<y, x>> \in R}
Ranks(S, R, f) ==
  \A k \in 1 .. Cardinality(S) :
    (\E x \in S : Cardinality(Below(S, R, x)) = k - 1) => f[k] \in S /\ Cardinality(Below(S, R, f[k])) = k - 1

IsTotalOn(S, R) ==
  /\ \A x \in S : <<x, x>> \notin R
  /\ \A x, y, z \in S : <<x, y>> \in R /\ <<y, z>> \in R => <<x, z>> \in R
  /\ \A x, y \in S : x # y => <<x, y>> \in R \/ <<y, x>> \in R

LEMMA RanksOrder ==
  ASSUME NEW S, IsFiniteSet(S), NEW R, IsTotalOn(S, R), NEW f, Ranks(S, R, f)
  PROVE  /\ Cardinality(S) \in Nat
         /\ \A k \in 1 .. Cardinality(S) : f[k] \in S
         /\ \A x \in S : \E k \in 1 .. Cardinality(S) : f[k] = x
         /\ \A j, k \in 1 .. Cardinality(S) : j < k => <<f[j], f[k]>> \in R
<1> DEFINE N == Cardinality(S)
           rank == [x \in S |-> Cardinality(Below(S, R, x))]
<1>1. N \in Nat
  BY FS_CardinalityType
<1>2. ASSUME NEW x \in S
      PROVE  /\ IsFiniteSet(Below(S, R, x)) /\ rank[x] \in 0 .. (N - 1)
  <2>1. Below(S, R, x) \in SUBSET (S \ {x})
    BY DEF Below, IsTotalOn
  <2>2. IsFiniteSet(S \ {x}) /\ Cardinality(S \ {x}) = N - 1
    BY FS_RemoveElement
  <2>3. IsFiniteSet(Below(S, R, x)) /\ Cardinality(Below(S, R, x)) <= N - 1
    BY <2>1, <2>2, FS_Subset
  <2>4. Cardinality(Below(S, R, x)) \in Nat
    BY <2>3, FS_CardinalityType
  <2> QED
    BY <1>1, <2>3, <2>4
<1>3. ASSUME NEW x \in S, NEW y \in S, <<x, y>> \in R PROVE rank[x] < rank[y]
  <2>1. Below(S, R, x) \in SUBSET Below(S, R, y) /\ x \in Below(S, R, y) /\ x \notin Below(S, R, x)
    BY <1>3 DEF Below, IsTotalOn
  <2>2. /\ Cardinality(Below(S, R, x)) <= Cardinality(Below(S, R, y))
        /\ Cardinality(Below(S, R, x)) # Cardinality(Below(S, R, y))
    BY <1>2, <2>1, FS_Subset
  <2>3. rank[x] \in Nat /\ rank[y] \in Nat
    BY <1>2
  <2> QED
    BY <2>2, <2>3
<1>4. \A x, y \in S : rank[x] = rank[y] => x = y
  <2> HIDE DEF rank
  <2> SUFFICES ASSUME NEW x \in S, NEW y \in S, x # y PROVE rank[x] # rank[y]
    OBVIOUS
  <2>1. <<x, y>> \in R \/ <<y, x>> \in R
    BY DEF IsTotalOn
  <2>2. rank[x] \in Nat /\ rank[y] \in Nat
    BY <1>2
  <2> QED
    BY <1>3, <2>1, <2>2
<1>5. ASSUME NEW k \in 1 .. N PROVE \E x \in S : rank[x] = k - 1
  <2> SUFFICES ASSUME \A x \in S : rank[x] # k - 1 PROVE FALSE
    OBVIOUS
  <2> DEFINE All == 0 .. (N - 1)
           T == All \ {k - 1}
  <2>1. IsFiniteSet(All) /\ Cardinality(All) = N
    <3> HIDE DEF N, rank
    <3>1. 0 \in Int /\ N - 1 \in Int /\ (IF 0 > N - 1 THEN 0 ELSE N - 1 - 0 + 1) = N
      BY <1>1
    <3>2. IsFiniteSet(0 .. (N - 1)) /\ Cardinality(0 .. (N - 1)) = IF 0 > N - 1 THEN 0 ELSE N - 1 - 0 + 1
      BY <3>1, FS_Interval
    <3> QED
      BY <3>1, <3>2
  <2>2. k - 1 \in All
    BY <1>1
  <2>3. IsFiniteSet(T) /\ Cardinality(T) = N - 1
    <3> HIDE DEF All, N, rank
    <3> QED
      BY <2>1, <2>2, FS_RemoveElement
  <2>4. rank \in [S -> T]
    BY <1>2
  <2>5. N - 1 < N
    BY <1>1
  <2> HIDE DEF T, rank
  <2>6. \E x, y \in S : x # y /\ rank[x] = rank[y]
    BY <2>3, <2>4, <2>5, FS_PigeonHole
  <2> QED
    BY <1>4, <2>6
<1>6. \A k \in 1 .. N : f[k] \in S /\ rank[f[k]] = k - 1
  <2>1. \A k \in 1 .. N : (\E x \in S : rank[x] = k - 1) => f[k] \in S /\ Cardinality(Below(S, R, f[k])) = k - 1
    BY DEF Ranks
  <2> QED
    BY <1>5, <2>1
<1> HIDE DEF rank, N
<1>7. \A x \in S : \E k \in 1 .. N : f[k] = x
  <2> SUFFICES ASSUME NEW x \in S PROVE \E k \in 1 .. N : f[k] = x
    OBVIOUS
  <2> DEFINE k == rank[x] + 1
  <2>1. k \in 1 .. N /\ k - 1 = rank[x]
    BY <1>1, <1>2
  <2> HIDE DEF k
  <2> QED
    BY <1>4, <1>6, <2>1
<1>8. \A j, k \in 1 .. N : j < k => <<f[j], f[k]>> \in R
  <2> SUFFICES ASSUME NEW j \in 1 .. N, NEW k \in 1 .. N, j < k PROVE <<f[j], f[k]>> \in R
    OBVIOUS
  <2>1. f[j] \in S /\ f[k] \in S /\ rank[f[j]] = j - 1 /\ rank[f[k]] = k - 1
    BY <1>6
  <2>2. f[j] # f[k] /\ ~(rank[f[k]] < rank[f[j]])
    BY <1>1, <2>1
  <2> QED
    BY <1>3, <2>1, <2>2 DEF IsTotalOn
<1> QED
  BY <1>1, <1>6, <1>7, <1>8 DEF N

-----------------------------------------------------------------------------
Recs == [key : Int, val : Int]
Earlier(block) == {p \in (DOMAIN block) \X (DOMAIN block) :
                     block[p[1]].key < block[p[2]].key \/ (block[p[1]].key = block[p[2]].key /\ p[1] < p[2])}

\* Keys in order, and what has the same key in the order of file.
Arranged(s, file) ==
  /\ s \in Seq(Recs)
  /\ \E p \in [1 .. Len(s) -> 1 .. Len(file)] :
       /\ \A i \in 1 .. Len(s) : s[i] = file[p[i]]
       /\ \A k \in 1 .. Len(file) : \E i \in 1 .. Len(s) : p[i] = k
       /\ \A i, j \in 1 .. Len(s) : i < j => s[i].key < s[j].key \/ (s[i].key = s[j].key /\ p[i] < p[j])

LEMMA Numbers ==
  ASSUME NEW n \in Nat
  PROVE  IsFiniteSet(1 .. n) /\ Cardinality(1 .. n) = n
<1>1. 1 \in Int /\ n \in Int /\ (IF 1 > n THEN 0 ELSE n - 1 + 1) = n
  OBVIOUS
<1> QED
  BY <1>1, FS_Interval

LEMMA SortIsStable ==
  ASSUME NEW block \in Seq(Recs)
  PROVE  Arranged(StablySorted(block), block) /\ Len(StablySorted(block)) = Len(block)
<1> DEFINE L == Len(block)
           D == 1 .. L
           R == Earlier(block)
           order == [k \in 1 .. Cardinality(D) |-> CHOOSE x \in D :
                       Cardinality({y \in D : block[y].key < block[x].key \/ (block[y].key = block[x].key /\ y < x)}) = k - 1]
           s == [i \in D |-> block[order[i]]]
<1>1. DOMAIN block = D /\ L \in Nat /\ IsFiniteSet(D) /\ Cardinality(D) = L /\ 1 .. Cardinality(D) = D
  <2>1. DOMAIN block = D /\ L \in Nat
    OBVIOUS
  <2> HIDE DEF L
  <2>2. IsFiniteSet(D) /\ Cardinality(D) = L
    BY <2>1, Numbers
  <2> QED
    BY <2>1, <2>2
<1>2. \A i \in D : block[i] \in Recs /\ block[i].key \in Int
  <2>1. \A i \in D : block[i] \in Recs
    OBVIOUS
  <2> HIDE DEF D
  <2> QED
    BY <2>1 DEF Recs
<1>3. \A i, j : <<i, j>> \in R <=> i \in D /\ j \in D /\ (block[i].key < block[j].key \/ (block[i].key = block[j].key /\ i < j))
  BY <1>1 DEF Earlier
<1>4. StablySorted(block) = s
  <2> HIDE DEF D
  <2> QED
    BY <1>1 DEF StablySorted, Ordered
<1>5. IsTotalOn(D, R)
  <2> HIDE DEF R, D
  <2>0. \A x \in D : x \in Int /\ block[x].key \in Int
    BY <1>1, <1>2 DEF D
  <2>1. \A x \in D : <<x, x>> \notin R
    BY <2>0, <1>3
  <2>2. ASSUME NEW x \in D, NEW y \in D, NEW z \in D, <<x, y>> \in R, <<y, z>> \in R PROVE <<x, z>> \in R
    <3>1. block[x].key < block[y].key \/ (block[x].key = block[y].key /\ x < y)
      BY <2>2, <1>3
    <3>2. block[y].key < block[z].key \/ (block[y].key = block[z].key /\ y < z)
      BY <2>2, <1>3
    <3>3. block[x].key < block[z].key \/ (block[x].key = block[z].key /\ x < z)
      BY <2>0, <3>1, <3>2
    <3> QED
      BY <1>3, <3>3
  <2>3. ASSUME NEW x \in D, NEW y \in D, x # y PROVE <<x, y>> \in R \/ <<y, x>> \in R
    BY <2>0, <2>3, <1>3
  <2> QED
    BY <2>1, <2>2, <2>3 DEF IsTotalOn
<1>6. Ranks(D, R, order)
  <2>1. \A x \in D : Below(D, R, x) = {y \in D : block[y].key < block[x].key \/ (block[y].key = block[x].key /\ y < x)}
    BY <1>3 DEF Below
  <2>2. ASSUME NEW k \in D, NEW x \in D, Cardinality(Below(D, R, x)) = k - 1
        PROVE  order[k] \in D /\ Cardinality(Below(D, R, order[k])) = k - 1
    <3> DEFINE Under(z) == {y \in D : block[y].key < block[z].key \/ (block[y].key = block[z].key /\ y < z)}
    <3>1. order[k] = CHOOSE z \in D : Cardinality(Under(z)) = k - 1
      <4> HIDE DEF D
      <4> QED
        BY <1>1
    <3>2. Cardinality(Under(x)) = k - 1
      BY <2>1, <2>2
    <3> HIDE DEF D, Under, order
    <3>3. order[k] \in D /\ Cardinality(Under(order[k])) = k - 1
      BY <3>1, <3>2
    <3> QED
      BY <2>1, <3>3 DEF Under
  <2> HIDE DEF D, R, order
  <2> QED
    BY <1>1, <2>2 DEF Ranks
<1> HIDE DEF order, R
<1>7. /\ \A k \in D : order[k] \in D
      /\ \A x \in D : \E k \in D : order[k] = x
      /\ \A j, k \in D : j < k => <<order[j], order[k]>> \in R
  <2> HIDE DEF D
  <2>1. /\ \A k \in 1 .. Cardinality(D) : order[k] \in D
        /\ \A x \in D : \E k \in 1 .. Cardinality(D) : order[k] = x
        /\ \A j, k \in 1 .. Cardinality(D) : j < k => <<order[j], order[k]>> \in R
    <3>1. IsFiniteSet(D) /\ IsTotalOn(D, R) /\ Ranks(D, R, order)
      BY <1>1, <1>5, <1>6
    <3> HIDE DEF s
    <3> QED
      BY <3>1, RanksOrder
  <2> QED
    BY <1>1, <2>1
<1>8. order \in [D -> D]
  <2>1. order = [k \in D |-> order[k]]
    <3> DEFINE At(k) == CHOOSE x \in D : Cardinality({y \in D : block[y].key < block[x].key \/ (block[y].key = block[x].key /\ y < x)}) = k - 1
    <3>1. order = [k \in 1 .. Cardinality(D) |-> At(k)]
      BY DEF order
    <3> HIDE DEF D, At
    <3> QED
      BY <1>1, <3>1
  <2> HIDE DEF D
  <2> QED
    BY <1>7, <2>1
<1>9. s \in Seq(Recs) /\ Len(s) = L /\ \A i \in D : s[i] = block[order[i]]
  BY <1>1, <1>2, <1>7
<1> HIDE DEF s
<1>10. ASSUME NEW i \in D, NEW j \in D, i < j
       PROVE  s[i].key < s[j].key \/ (s[i].key = s[j].key /\ order[i] < order[j])
  <2>1. <<order[i], order[j]>> \in R
    BY <1>7, <1>10
  <2> HIDE DEF D
  <2> QED
    BY <1>3, <1>9, <2>1
<1>11. /\ order \in [1 .. Len(s) -> 1 .. Len(block)]
       /\ \A i \in 1 .. Len(s) : s[i] = block[order[i]]
       /\ \A k \in 1 .. Len(block) : \E i \in 1 .. Len(s) : order[i] = k
       /\ \A i, j \in 1 .. Len(s) : i < j => s[i].key < s[j].key \/ (s[i].key = s[j].key /\ order[i] < order[j])
  BY <1>7, <1>8, <1>9, <1>10
<1>12. Len(s) = Len(block)
  BY <1>9
<1> HIDE DEF D, L
<1> QED
  BY <1>4, <1>9, <1>11, <1>12 DEF Arranged

-----------------------------------------------------------------------------
(***************************************************************************)
(* The runs: each has the records of one stretch of the file.              *)
(***************************************************************************)
\* p leads from the records of a run to their places in the file, all those of the r-th stretch.
InRun(records, r, run, p) ==
  /\ run \in Seq(Recs) /\ Len(run) <= RunLength
  /\ \A i \in 1 .. Len(run) : /\ p[i] \in 1 .. Len(records) /\ run[i] = records[p[i]]
                              /\ (r - 1) * RunLength < p[i] /\ p[i] <= r * RunLength
  /\ \A k \in 1 .. Len(records) :
       (r - 1) * RunLength < k /\ k <= r * RunLength => \E i \in 1 .. Len(run) : p[i] = k
  /\ \A i, j \in 1 .. Len(run) : i < j => run[i].key < run[j].key \/ (run[i].key = run[j].key /\ p[i] < p[j])

Stretch(records, r) ==
  SubSeq(records, (r - 1) * RunLength + 1, IF r * RunLength < Len(records) THEN r * RunLength ELSE Len(records))

LEMMA RunIs ==
  ASSUME NEW records \in Seq(Recs), NEW r \in Nat \ {0}
  PROVE  \E p : InRun(records, r, StablySorted(Stretch(records, r)), p)
<1> DEFINE base == (r - 1) * RunLength
           L == Len(records)
           end == IF base + RunLength < L THEN base + RunLength ELSE L
           block == SubSeq(records, base + 1, end)
           run == StablySorted(block)
<1>1. base \in Nat /\ r * RunLength = base + RunLength /\ RunLength \in Nat \ {0} /\ L \in Nat
  BY AmendJoinAssumption
<1>2. Stretch(records, r) = block
  BY <1>1 DEF Stretch
<1> HIDE DEF base, L
<1>3. /\ block \in Seq(Recs) /\ Len(block) = (IF base + 1 <= end THEN end - base ELSE 0)
      /\ \A i \in 1 .. Len(block) : block[i] = records[base + i]
  <2>1. end \in Nat /\ end <= L
    BY <1>1
  <2> HIDE DEF end
  <2>2. \A i \in (base + 1) .. end : i \in 1 .. L /\ records[i] \in Recs
    BY <1>1, <2>1 DEF L
  <2> QED
    BY <1>1, <2>1, <2>2
<1>4. Len(block) \in Nat /\ Len(block) <= RunLength /\ (Len(block) # 0 => base + Len(block) <= L)
  BY <1>1, <1>3
<1>5. \A k \in 1 .. L : base < k /\ k <= base + RunLength => k - base \in 1 .. Len(block)
  BY <1>1, <1>3
<1> HIDE DEF block, end
<1>6. Arranged(run, block) /\ Len(run) = Len(block)
  BY <1>3, SortIsStable
<1>7. PICK p \in [1 .. Len(run) -> 1 .. Len(block)] :
           /\ \A i \in 1 .. Len(run) : run[i] = block[p[i]]
           /\ \A k \in 1 .. Len(block) : \E i \in 1 .. Len(run) : p[i] = k
           /\ \A i, j \in 1 .. Len(run) : i < j => run[i].key < run[j].key \/ (run[i].key = run[j].key /\ p[i] < p[j])
  BY <1>6 DEF Arranged
<1>8. run \in Seq(Recs) /\ Len(run) = Len(block)
  BY <1>6 DEF Arranged
<1> DEFINE q == [i \in 1 .. Len(run) |-> base + p[i]]
<1> HIDE DEF run
<1>9. ASSUME NEW i \in 1 .. Len(run)
      PROVE  /\ q[i] = base + p[i] /\ q[i] \in 1 .. L /\ run[i] = records[q[i]]
             /\ base < q[i] /\ q[i] <= base + RunLength
  <2>1. q[i] = base + p[i] /\ p[i] \in 1 .. Len(block) /\ run[i] = block[p[i]]
    BY <1>7
  <2>2. run[i] = records[q[i]]
    BY <1>3, <2>1
  <2>3. Len(block) # 0
    BY <1>4, <2>1
  <2> QED
    BY <1>1, <1>4, <2>1, <2>2, <2>3
<1> HIDE DEF q
<1>10. ASSUME NEW k \in 1 .. L, base < k, k <= base + RunLength
       PROVE  \E i \in 1 .. Len(run) : q[i] = k
  <2>1. k - base \in 1 .. Len(block)
    BY <1>5, <1>10
  <2>2. PICK i \in 1 .. Len(run) : p[i] = k - base
    BY <1>7, <2>1
  <2>3. q[i] = k
    BY <1>1, <1>9, <2>2
  <2> QED
    BY <2>3
<1>11. ASSUME NEW i \in 1 .. Len(run), NEW j \in 1 .. Len(run), i < j
       PROVE  run[i].key < run[j].key \/ (run[i].key = run[j].key /\ q[i] < q[j])
  <2>1. p[i] \in Int /\ p[j] \in Int
    BY <1>7
  <2> QED
    BY <1>1, <1>7, <1>9, <1>11, <2>1
<1>12. InRun(records, r, run, q)
  BY <1>1, <1>4, <1>8, <1>9, <1>10, <1>11 DEF InRun, base, L
<1> QED
  BY <1>2, <1>12 DEF run

LEMMA Quotients ==
  ASSUME NEW L \in Nat
  PROVE  LET count == (L + RunLength - 1) \div RunLength
         IN  /\ count \in Nat
             /\ \A k \in 1 .. L : \E r \in 1 .. count : (r - 1) * RunLength < k /\ k <= r * RunLength
<1> DEFINE count == (L + RunLength - 1) \div RunLength
<1>1. RunLength \in Nat \ {0}
  BY AmendJoinAssumption
<1>2. count \in Nat
  <2>1. L + RunLength - 1 \in Nat
    BY <1>1
  <2> DEFINE m == L + RunLength - 1
  <2> HIDE DEF m
  <2>2. m \in Nat => m \div RunLength \in Nat
    BY <1>1
  <2> QED
    BY <2>1, <2>2 DEF m
<1>3. ASSUME NEW k \in 1 .. L
      PROVE  \E r \in 1 .. count : (r - 1) * RunLength < k /\ k <= r * RunLength
  <2> DEFINE S == {r \in Nat : k <= r * RunLength}
             r == Min(S)
  <2>1. k \in S
    BY <1>1
  <2>2. r \in S /\ \A y \in S : r <= y
    <3>1. S \subseteq Nat /\ S # {}
      BY <2>1
    <3> HIDE DEF S
    <3> QED
      BY <3>1, Least
  <2>3. r \in Nat /\ k <= r * RunLength
    BY <2>2
  <2> HIDE DEF r
  <2>4. r # 0
    BY <1>1, <2>3
  <2>5. r - 1 \in Nat /\ r - 1 \notin S
    BY <2>2, <2>3, <2>4
  <2>6. (r - 1) * RunLength < k
    BY <1>1, <2>5
  <2>7. (r - 1) * RunLength = r * RunLength - RunLength
    BY <1>1, <2>3
  <2> DEFINE m == L + RunLength - 1
  <2>8. m \in Nat /\ r * RunLength <= m
    BY <1>1, <2>3, <2>6, <2>7
  <2>9. count = m \div RunLength
    OBVIOUS
  <2> HIDE DEF count, m
  <2>10. r <= m \div RunLength
    BY <1>1, <2>3, <2>8
  <2>11. r \in 1 .. count
    BY <1>2, <2>3, <2>4, <2>9, <2>10
  <2> QED
    BY <2>3, <2>6, <2>11
<1> QED
  BY <1>2, <1>3

LEMMA RunsAre ==
  ASSUME NEW records \in Seq(Recs)
  PROVE  LET count == (Len(records) + RunLength - 1) \div RunLength
         IN  /\ DOMAIN Runs(records) = 1 .. count
             /\ \A r \in 1 .. count : \E p : InRun(records, r, Runs(records)[r], p)
<1> DEFINE count == (Len(records) + RunLength - 1) \div RunLength
<1>1. count \in Nat
  BY Quotients
<1>2. Runs(records) = [r \in 1 .. count |-> StablySorted(Stretch(records, r))]
  BY DEF Runs, Stretch
<1> HIDE DEF count
<1>3. \A r \in 1 .. count : r \in Nat \ {0}
  BY <1>1
<1>4. DOMAIN Runs(records) = 1 .. count
  BY <1>2
<1>5. ASSUME NEW r \in 1 .. count PROVE \E p : InRun(records, r, Runs(records)[r], p)
  <2>1. Runs(records)[r] = StablySorted(Stretch(records, r))
    BY <1>2
  <2> QED
    BY <1>3, <2>1, RunIs
<1> QED
  BY <1>4, <1>5 DEF count

LEMMA MergeIsStable ==
  ASSUME NEW records \in Seq(Recs)
  PROVE  Arranged(Merged(Runs(records)), records)
<1> DEFINE L == Len(records)
           count == (L + RunLength - 1) \div RunLength
           runs == Runs(records)
           places == UNION {{<<r, i>> : i \in DOMAIN runs[r]} : r \in DOMAIN runs}
           At(x) == runs[x[1]][x[2]]
           Before(x, y) == \/ At(x).key < At(y).key
                           \/ At(x).key = At(y).key /\ (x[1] < y[1] \/ (x[1] = y[1] /\ x[2] < y[2]))
           N == Cardinality(places)
           Nth(k) == CHOOSE x \in places : Cardinality({y \in places : Before(y, x)}) = k - 1
           order == [k \in 1 .. N |-> Nth(k)]
           s == [k \in 1 .. N |-> At(order[k])]
           R == {b \in places \X places : Before(b[1], b[2])}
           q == [r \in 1 .. count |-> CHOOSE p : InRun(records, r, runs[r], p)]
           Spot(x) == q[x[1]][x[2]]
<1>1. Merged(runs) = s
  <2>1. Merged(runs) = [i \in DOMAIN order |-> At(order[i])]
    <3> HIDE DEF runs
    <3> QED
      BY DEF Merged, Ordered
  <2>2. DOMAIN order = 1 .. N
    OBVIOUS
  <2> HIDE DEF order, places, At
  <2> QED
    BY <2>1, <2>2
<1>2. /\ L \in Nat /\ count \in Nat /\ RunLength \in Nat \ {0}
      /\ \A k \in 1 .. L : \E r \in 1 .. count : (r - 1) * RunLength < k /\ k <= r * RunLength
  <2>1. L \in Nat
    OBVIOUS
  <2> HIDE DEF L, runs
  <2> QED
    BY <2>1, AmendJoinAssumption, Quotients
<1>3. /\ DOMAIN runs = 1 .. count
      /\ \A r \in 1 .. count : \E p : InRun(records, r, runs[r], p)
  BY RunsAre
<1> HIDE DEF count, runs, L
<1>4. ASSUME NEW r \in 1 .. count PROVE InRun(records, r, runs[r], q[r])
  <2>1. q[r] = CHOOSE p : InRun(records, r, runs[r], p)
    OBVIOUS
  <2> HIDE DEF q
  <2> QED
    BY <1>3, <2>1
<1> HIDE DEF q
<1>5. ASSUME NEW r \in 1 .. count
      PROVE  /\ DOMAIN runs[r] = 1 .. Len(runs[r]) /\ Len(runs[r]) \in Nat /\ Len(runs[r]) <= RunLength
             /\ \A i \in 1 .. Len(runs[r]) : runs[r][i] \in Recs
  <2>1. runs[r] \in Seq(Recs) /\ Len(runs[r]) <= RunLength
    BY <1>4 DEF InRun
  <2> QED
    BY <2>1
<1>6. \A x : x \in places <=> \E r \in 1 .. count : \E i \in 1 .. Len(runs[r]) : x = <<r, i>>
  <2>1. \A x : x \in places <=> \E r \in DOMAIN runs : \E i \in DOMAIN runs[r] : x = <<r, i>>
    OBVIOUS
  <2> HIDE DEF places
  <2> QED
    BY <1>3, <1>5, <2>1
<1>7. IsFiniteSet(places)
  <2>1. places \in SUBSET ((1 .. count) \X (1 .. RunLength))
    <3> HIDE DEF places
    <3>1. ASSUME NEW x \in places PROVE x \in (1 .. count) \X (1 .. RunLength)
      <4>1. PICK r \in 1 .. count : \E i \in 1 .. Len(runs[r]) : x = <<r, i>>
        BY <1>6
      <4>2. PICK i \in 1 .. Len(runs[r]) : x = <<r, i>>
        BY <4>1
      <4>3. i \in 1 .. RunLength
        BY <1>2, <1>5
      <4> QED
        BY <4>2, <4>3
    <3> QED
      BY <3>1
  <2>2. IsFiniteSet(1 .. count) /\ IsFiniteSet(1 .. RunLength)
    BY <1>2, Numbers
  <2>3. IsFiniteSet((1 .. count) \X (1 .. RunLength))
    BY <2>2, FS_Product
  <2> HIDE DEF places
  <2> QED
    BY <2>1, <2>3, FS_Subset
<1>8. \A x \in places :
        /\ x[1] \in 1 .. count /\ x[2] \in 1 .. Len(runs[x[1]]) /\ x = <<x[1], x[2]>>
        /\ x[1] \in Nat \ {0} /\ x[2] \in Nat /\ At(x) \in Recs /\ At(x).key \in Int
  <2> HIDE DEF places
  <2> SUFFICES ASSUME NEW x \in places
               PROVE  /\ x[1] \in 1 .. count /\ x[2] \in 1 .. Len(runs[x[1]]) /\ x = <<x[1], x[2]>>
                      /\ x[1] \in Nat \ {0} /\ x[2] \in Nat /\ At(x) \in Recs /\ At(x).key \in Int
    OBVIOUS
  <2>1. PICK r \in 1 .. count : \E i \in 1 .. Len(runs[r]) : x = <<r, i>>
    BY <1>6
  <2>2. PICK i \in 1 .. Len(runs[r]) : x = <<r, i>>
    BY <2>1
  <2>3. r \in Nat \ {0} /\ i \in Nat
    BY <1>2, <1>5
  <2>4. x[1] = r /\ x[2] = i /\ At(x) = runs[r][i]
    BY <2>2
  <2>5. runs[r][i] \in Recs
    BY <1>5
  <2>6. runs[r][i].key \in Int
    BY <2>5 DEF Recs
  <2> QED
    BY <2>2, <2>3, <2>4, <2>5, <2>6

<1>9. \A x \in places :
        /\ Spot(x) \in 1 .. L /\ At(x) = records[Spot(x)]
        /\ (x[1] - 1) * RunLength < Spot(x) /\ Spot(x) <= x[1] * RunLength
  <2> HIDE DEF places
  <2> SUFFICES ASSUME NEW x \in places
               PROVE  /\ Spot(x) \in 1 .. L /\ At(x) = records[Spot(x)]
                      /\ (x[1] - 1) * RunLength < Spot(x) /\ Spot(x) <= x[1] * RunLength
    OBVIOUS
  <2>1. x[1] \in 1 .. count /\ x[2] \in 1 .. Len(runs[x[1]])
    BY <1>8
  <2>2. InRun(records, x[1], runs[x[1]], q[x[1]])
    BY <1>4, <2>1
  <2> QED
    BY <2>1, <2>2 DEF InRun, L
<1>10. \A x, y \in places : Before(x, y) => At(x).key < At(y).key \/ (At(x).key = At(y).key /\ Spot(x) < Spot(y))
  <2> HIDE DEF places
  <2> SUFFICES ASSUME NEW x \in places, NEW y \in places, Before(x, y), At(x).key = At(y).key
               PROVE  Spot(x) < Spot(y)
    OBVIOUS
  <2>1. /\ x[1] \in Nat \ {0} /\ y[1] \in Nat \ {0} /\ Spot(x) \in Int /\ Spot(y) \in Int
        /\ Spot(x) <= x[1] * RunLength /\ (y[1] - 1) * RunLength < Spot(y)
    <3>1. x[1] \in Nat \ {0} /\ y[1] \in Nat \ {0}
      BY <1>8
    <3> HIDE DEF Spot
    <3>2. Spot(x) \in 1 .. L /\ Spot(y) \in 1 .. L
      BY <1>9
    <3>3. Spot(x) <= x[1] * RunLength /\ (y[1] - 1) * RunLength < Spot(y)
      BY <1>9
    <3> QED
      BY <1>2, <3>1, <3>2, <3>3
  <2>2. x[1] < y[1] \/ (x[1] = y[1] /\ x[2] < y[2])
    BY <1>8
  <2>3. CASE x[1] < y[1]
    <3> HIDE DEF Spot
    <3>1. PICK a \in Nat, b \in Nat : a = x[1] /\ b = y[1] - 1 /\ a <= b
      BY <2>1, <2>3
    <3>2. a * RunLength <= b * RunLength
      BY <1>2, <3>1
    <3>3. a * RunLength \in Int /\ b * RunLength \in Int
      BY <1>2, <3>1
    <3> QED
      BY <2>1, <3>1, <3>2, <3>3
  <2>4. CASE x[1] = y[1] /\ x[2] < y[2]
    <3>1. InRun(records, x[1], runs[x[1]], q[x[1]])
      BY <1>4, <1>8
    <3>2. /\ x[2] \in 1 .. Len(runs[x[1]]) /\ y[2] \in 1 .. Len(runs[x[1]])
          /\ At(y) = runs[x[1]][y[2]] /\ Spot(y) = q[x[1]][y[2]]
      BY <1>8, <2>4
    <3>3. runs[x[1]][x[2]].key < runs[x[1]][y[2]].key \/ q[x[1]][x[2]] < q[x[1]][y[2]]
      BY <2>4, <3>1, <3>2 DEF InRun
    <3>4. ~(At(x).key < At(y).key)
      BY <1>8
    <3> QED
      BY <3>2, <3>3, <3>4
  <2> QED
    BY <2>2, <2>3, <2>4
<1>11. \A k \in 1 .. L : \E x \in places : Spot(x) = k
  <2> HIDE DEF places
  <2> SUFFICES ASSUME NEW k \in 1 .. L PROVE \E x \in places : Spot(x) = k
    OBVIOUS
  <2>1. PICK r \in 1 .. count : (r - 1) * RunLength < k /\ k <= r * RunLength
    BY <1>2
  <2>2. PICK i \in 1 .. Len(runs[r]) : q[r][i] = k
    BY <1>4, <2>1 DEF InRun, L
  <2>3. <<r, i>> \in places /\ Spot(<<r, i>>) = k
    BY <1>6, <2>2
  <2> QED
    BY <2>3
<1>12. \A x, y : <<x, y>> \in R <=> x \in places /\ y \in places /\ Before(x, y)
  <2> HIDE DEF places
  <2>1. \A x, y : Before(<<x, y>>[1], <<x, y>>[2]) <=> Before(x, y)
    OBVIOUS
  <2> HIDE DEF Before
  <2> QED
    BY <2>1
<1>13. IsTotalOn(places, R)
  <2> HIDE DEF places, R, At
  <2>1. ASSUME NEW x \in places PROVE <<x, x>> \notin R
    BY <1>8, <1>12
  <2>2. ASSUME NEW x \in places, NEW y \in places, NEW z \in places, <<x, y>> \in R, <<y, z>> \in R
        PROVE  <<x, z>> \in R
    <3>1. Before(x, y) /\ Before(y, z)
      BY <1>12, <2>2
    <3>2. At(x).key \in Int /\ At(y).key \in Int /\ At(z).key \in Int
      BY <1>8
    <3>3. x[1] \in Int /\ y[1] \in Int /\ z[1] \in Int /\ x[2] \in Int /\ y[2] \in Int /\ z[2] \in Int
      BY <1>8
    <3>4. Before(x, z)
      BY <3>1, <3>2, <3>3
    <3> QED
      BY <1>12, <3>4
  <2>3. ASSUME NEW x \in places, NEW y \in places, x # y PROVE <<x, y>> \in R \/ <<y, x>> \in R
    <3>1. At(x).key \in Int /\ At(y).key \in Int
      BY <1>8
    <3>2. x[1] \in Int /\ y[1] \in Int /\ x[2] \in Int /\ y[2] \in Int
      BY <1>8
    <3>3. x[1] # y[1] \/ x[2] # y[2]
      BY <1>8, <2>3
    <3>4. Before(x, y) \/ Before(y, x)
      BY <3>1, <3>2, <3>3
    <3> QED
      BY <1>12, <3>4
  <2> QED
    BY <2>1, <2>2, <2>3 DEF IsTotalOn
<1>14. Ranks(places, R, order)
  <2>1. \A x \in places : Below(places, R, x) = {y \in places : Before(y, x)}
    <3> HIDE DEF places, R, Before
    <3> QED
      BY <1>12 DEF Below
  <2>2. ASSUME NEW k \in 1 .. N, NEW x \in places, Cardinality(Below(places, R, x)) = k - 1
        PROVE  order[k] \in places /\ Cardinality(Below(places, R, order[k])) = k - 1
    <3> DEFINE Under(z) == {y \in places : Before(y, z)}
    <3>1. order[k] = CHOOSE z \in places : Cardinality(Under(z)) = k - 1
      <4> HIDE DEF places, Before, N
      <4> QED
        OBVIOUS
    <3>2. Cardinality(Under(x)) = k - 1
      BY <2>1, <2>2
    <3> HIDE DEF Under, order, places, Before, R
    <3>3. order[k] \in places /\ Cardinality(Under(order[k])) = k - 1
      BY <3>1, <3>2
    <3> QED
      BY <2>1, <3>3 DEF Under
  <2> HIDE DEF places, R, order
  <2> QED
    BY <2>2 DEF Ranks
<1> HIDE DEF order, R, places
<1>15. /\ N \in Nat
       /\ \A k \in 1 .. N : order[k] \in places
       /\ \A x \in places : \E k \in 1 .. N : order[k] = x
       /\ \A j, k \in 1 .. N : j < k => <<order[j], order[k]>> \in R
  <2> HIDE DEF s, Before, At, Spot
  <2> QED
    BY <1>7, <1>13, <1>14, RanksOrder
<1> HIDE DEF N, Before
<1>16. s \in Seq(Recs) /\ Len(s) = N /\ \A k \in 1 .. N : s[k] = At(order[k])
  <2>1. \A k \in 1 .. N : At(order[k]) \in Recs
    BY <1>8, <1>15
  <2> HIDE DEF At
  <2> QED
    BY <1>15, <2>1
<1> DEFINE p == [k \in 1 .. N |-> Spot(order[k])]
<1>17. p \in [1 .. N -> 1 .. L] /\ \A k \in 1 .. N : p[k] = Spot(order[k])
  <2> HIDE DEF Spot
  <2> QED
    BY <1>9, <1>15
<1> HIDE DEF s, p, At, Spot
<1>18. \A i \in 1 .. N : s[i] = records[p[i]]
  <2> SUFFICES ASSUME NEW i \in 1 .. N PROVE s[i] = records[p[i]]
    OBVIOUS
  <2>1. s[i] = At(order[i]) /\ p[i] = Spot(order[i]) /\ order[i] \in places
    BY <1>15, <1>16, <1>17
  <2>2. At(order[i]) = records[Spot(order[i])]
    BY <1>9, <2>1
  <2> QED
    BY <2>1, <2>2
<1>19. \A k \in 1 .. L : \E i \in 1 .. N : p[i] = k
  <2> SUFFICES ASSUME NEW k \in 1 .. L PROVE \E i \in 1 .. N : p[i] = k
    OBVIOUS
  <2>1. PICK x \in places : Spot(x) = k
    BY <1>11
  <2>2. PICK i \in 1 .. N : order[i] = x
    BY <1>15
  <2> QED
    BY <1>17, <2>1, <2>2
<1>20. \A i, j \in 1 .. N : i < j => s[i].key < s[j].key \/ (s[i].key = s[j].key /\ p[i] < p[j])
  <2> SUFFICES ASSUME NEW i \in 1 .. N, NEW j \in 1 .. N, i < j
               PROVE  s[i].key < s[j].key \/ (s[i].key = s[j].key /\ p[i] < p[j])
    OBVIOUS
  <2>1. order[i] \in places /\ order[j] \in places /\ Before(order[i], order[j])
    BY <1>12, <1>15
  <2>2. \/ At(order[i]).key < At(order[j]).key
        \/ At(order[i]).key = At(order[j]).key /\ Spot(order[i]) < Spot(order[j])
    BY <1>10, <2>1
  <2> QED
    BY <1>16, <1>17, <2>2
<1>21. Arranged(s, records)
  BY <1>16, <1>17, <1>18, <1>19, <1>20 DEF Arranged, L
<1> QED
  BY <1>1, <1>21 DEF runs

LEMMA KeysRise ==
  ASSUME NEW s \in Seq(Recs), Ascending(s)
  PROVE  \A i, j \in 1 .. Len(s) : i < j => s[i].key <= s[j].key
<1> DEFINE L == Len(s)
           I == {d \in Nat : \A i \in 1 .. L : i + d \in 1 .. L => s[i].key <= s[i + d].key}
<1>1. L \in Nat /\ \A i \in 1 .. L : s[i].key \in Int
  <2>1. \A i \in 1 .. L : s[i] \in Recs
    OBVIOUS
  <2> QED
    BY <2>1 DEF Recs
<1>2. \A i \in 2 .. L : s[i - 1].key <= s[i].key
  BY DEF Ascending
<1> HIDE DEF L
<1>3. 0 \in I
  BY <1>1
<1>4. ASSUME NEW d \in Nat, d \in I PROVE d + 1 \in I
  <2> SUFFICES ASSUME NEW i \in 1 .. L, i + (d + 1) \in 1 .. L PROVE s[i].key <= s[i + (d + 1)].key
    OBVIOUS
  <2>1. i + d \in 1 .. L /\ i + (d + 1) \in 2 .. L /\ (i + (d + 1)) - 1 = i + d
    BY <1>1
  <2>2. s[i].key <= s[i + d].key
    BY <1>4, <2>1
  <2>3. s[i + d].key <= s[i + (d + 1)].key
    <3> DEFINE j == i + (d + 1)
    <3>1. j \in 2 .. L /\ j - 1 = i + d
      BY <2>1
    <3> HIDE DEF j
    <3>2. s[j - 1].key <= s[j].key
      BY <1>2, <3>1
    <3> QED
      BY <3>1, <3>2 DEF j
  <2>4. s[i].key \in Int /\ s[i + d].key \in Int /\ s[i + (d + 1)].key \in Int
    BY <1>1, <2>1
  <2> QED
    BY <2>2, <2>3, <2>4
<1>5. \A d \in Nat : d \in I
  <2> HIDE DEF I
  <2> QED
    BY <1>3, <1>4, AllNumbers
<1>6. ASSUME NEW i \in 1 .. L, NEW j \in 1 .. L, i < j PROVE s[i].key <= s[j].key
  <2>1. j - i \in Nat /\ i + (j - i) = j
    BY <1>1, <1>6
  <2> QED
    BY <1>5, <2>1
<1> QED
  BY <1>6 DEF L

\* However the keys came, the file that is merged has them in order, equal ones in the order they were given.
LEMMA KeyOrder ==
  ASSUME NEW records \in Seq(Recs)
  PROVE  Arranged(InKeyOrder(records), records)
<1>1. CASE Ascending(records)
  <2> DEFINE p == [i \in 1 .. Len(records) |-> i]
  <2>1. p \in [1 .. Len(records) -> 1 .. Len(records)] /\ \A i \in 1 .. Len(records) : p[i] = i
    OBVIOUS
  <2>2. \A i \in 1 .. Len(records) : records[i].key \in Int
    <3>1. \A i \in 1 .. Len(records) : records[i] \in Recs
      OBVIOUS
    <3> QED
      BY <3>1 DEF Recs
  <2> HIDE DEF p
  <2>3. ASSUME NEW i \in 1 .. Len(records), NEW j \in 1 .. Len(records), i < j
        PROVE  records[i].key < records[j].key \/ (records[i].key = records[j].key /\ p[i] < p[j])
    <3>1. records[i].key <= records[j].key
      BY <1>1, <2>3, KeysRise
    <3> QED
      BY <2>1, <2>2, <2>3, <3>1
  <2>4. /\ \A i \in 1 .. Len(records) : records[i] = records[p[i]]
        /\ \A k \in 1 .. Len(records) : \E i \in 1 .. Len(records) : p[i] = k
    BY <2>1
  <2>5. Arranged(records, records)
    BY <2>1, <2>3, <2>4 DEF Arranged
  <2> QED
    BY <1>1, <2>5 DEF InKeyOrder
<1>2. CASE ~Ascending(records)
  BY <1>2, MergeIsStable DEF InKeyOrder
<1> QED
  BY <1>1, <1>2

-----------------------------------------------------------------------------
(***************************************************************************)
(* The merge of commit over a file in key order.                           *)
(***************************************************************************)
Ends(s) == {i \in DOMAIN s : i = Len(s) \/ s[i + 1].key # s[i].key}

LEMMA Greatest ==
  ASSUME NEW n \in Nat, NEW S, S \subseteq 1 .. n, S # {}
  PROVE  Max(S) \in S /\ \A y \in S : y <= Max(S)
<1> DEFINE T == {x \in Nat : n - x \in S}
           g == n - Min(T)
<1>1. T \subseteq Nat /\ T # {}
  <2>1. PICK y \in S : TRUE
    OBVIOUS
  <2>2. n - y \in Nat /\ n - (n - y) = y
    BY <2>1
  <2>3. n - y \in T
    BY <2>1, <2>2
  <2> QED
    BY <2>3
<1>2. Min(T) \in T /\ \A x \in T : Min(T) <= x
  <2> HIDE DEF T
  <2> QED
    BY <1>1, Least
<1>3. g \in S /\ Min(T) \in Nat
  BY <1>2
<1>4. ASSUME NEW y \in S PROVE y <= g
  <2>1. n - y \in Nat /\ n - (n - y) = y
    OBVIOUS
  <2>2. Min(T) <= n - y
    BY <1>2, <2>1
  <2> HIDE DEF T
  <2> QED
    BY <1>3, <2>2
<1>5. \A y \in S : g >= y
  <2>1. g \in Int /\ \A y \in S : y \in Int
    BY <1>3
  <2> HIDE DEF g
  <2> QED
    BY <1>4, <2>1
<1> HIDE DEF g, T
<1>6. Max(S) \in S /\ \A y \in S : Max(S) >= y
  BY <1>3, <1>5 DEF Max
<1> QED
  BY <1>6

LEMMA LastsAre ==
  ASSUME NEW s \in Seq(Recs)
  PROVE  \E N \in Nat : \E e :
           /\ DOMAIN LastOfEach(s) = 1 .. N
           /\ \A i \in 1 .. N : e[i] \in Ends(s) /\ LastOfEach(s)[i] = s[e[i]]
           /\ \A x \in Ends(s) : \E i \in 1 .. N : e[i] = x
           /\ \A i, j \in 1 .. N : i < j => e[i] < e[j]
<1> DEFINE E == Ends(s)
           N == Cardinality(E)
           Nth(k) == CHOOSE x \in E : Cardinality({y \in E : y < x}) = k - 1
           e == [k \in 1 .. N |-> Nth(k)]
           R == {b \in E \X E : b[1] < b[2]}
<1>1. LastOfEach(s) = [i \in 1 .. N |-> s[e[i]]]
  BY DEF LastOfEach, Ordered, Ends
<1>2. E \subseteq 1 .. Len(s) /\ IsFiniteSet(E)
  <2>1. E \in SUBSET (1 .. Len(s))
    BY DEF Ends
  <2>2. Len(s) \in Nat
    OBVIOUS
  <2>3. IsFiniteSet(1 .. Len(s))
    <3> DEFINE L == Len(s)
    <3> HIDE DEF L
    <3>1. L \in Nat => IsFiniteSet(1 .. L)
      BY Numbers
    <3> QED
      BY <2>2, <3>1 DEF L
  <2> HIDE DEF E
  <2> QED
    BY <2>1, <2>3, FS_Subset
<1>3. \A x \in E : x \in Int
  BY <1>2
<1> HIDE DEF E
<1>4. \A x, y : <<x, y>> \in R <=> x \in E /\ y \in E /\ x < y
  OBVIOUS
<1>5. IsTotalOn(E, R)
  <2> HIDE DEF R
  <2> QED
    BY <1>3, <1>4 DEF IsTotalOn
<1>6. Ranks(E, R, e)
  <2>1. \A x \in E : Below(E, R, x) = {y \in E : y < x}
    <3> HIDE DEF R
    <3> QED
      BY <1>4 DEF Below
  <2>2. ASSUME NEW k \in 1 .. N, NEW x \in E, Cardinality(Below(E, R, x)) = k - 1
        PROVE  e[k] \in E /\ Cardinality(Below(E, R, e[k])) = k - 1
    <3> DEFINE Under(z) == {y \in E : y < z}
    <3>1. e[k] = CHOOSE z \in E : Cardinality(Under(z)) = k - 1
      <4> HIDE DEF N
      <4> QED
        OBVIOUS
    <3>2. Cardinality(Under(x)) = k - 1
      BY <2>1, <2>2
    <3> HIDE DEF Under, e, R
    <3>3. e[k] \in E /\ Cardinality(Under(e[k])) = k - 1
      BY <3>1, <3>2
    <3> QED
      BY <2>1, <3>3 DEF Under
  <2> HIDE DEF R, e
  <2> QED
    BY <2>2 DEF Ranks
<1> HIDE DEF e, R
<1>7. /\ N \in Nat
      /\ \A k \in 1 .. N : e[k] \in E
      /\ \A x \in E : \E k \in 1 .. N : e[k] = x
      /\ \A j, k \in 1 .. N : j < k => <<e[j], e[k]>> \in R
  BY <1>2, <1>5, <1>6, RanksOrder
<1>8. \A j, k \in 1 .. N : j < k => e[j] < e[k]
  BY <1>4, <1>7
<1> HIDE DEF N
<1>9. /\ DOMAIN LastOfEach(s) = 1 .. N
      /\ \A i \in 1 .. N : e[i] \in E /\ LastOfEach(s)[i] = s[e[i]]
      /\ \A x \in E : \E i \in 1 .. N : e[i] = x
  BY <1>1, <1>7
<1> QED
  BY <1>7, <1>8, <1>9 DEF E

LEMMA LandedIs ==
  ASSUME NEW records \in Seq(Recs), NEW s, Arranged(s, records), NEW key \in Int
  PROVE  LET under == {i \in DOMAIN records : records[i].key = key}
         IN  Landed(s, key) = IF under = {} THEN Zero ELSE records[Max(under)].val
<1> DEFINE L == Len(s)
           K == Len(records)
           under == {i \in DOMAIN records : records[i].key = key}
           last == LastOfEach(s)
           here == {i \in DOMAIN last : last[i].key = key /\ \A j \in 1 .. i - 1 : last[j].key < key}
           O == {i \in 1 .. L : s[i].key = key}
<1> SUFFICES Landed(s, key) = IF under = {} THEN Zero ELSE records[Max(under)].val
  OBVIOUS
<1>1. s \in Seq(Recs) /\ DOMAIN s = 1 .. L /\ DOMAIN records = 1 .. K /\ L \in Nat /\ K \in Nat
  BY DEF Arranged
<1>2. PICK p \in [1 .. L -> 1 .. K] :
        /\ \A i \in 1 .. L : s[i] = records[p[i]]
        /\ \A k \in 1 .. K : \E i \in 1 .. L : p[i] = k
        /\ \A i, j \in 1 .. L : i < j => s[i].key < s[j].key \/ (s[i].key = s[j].key /\ p[i] < p[j])
  BY DEF Arranged
<1>33. PICK N \in Nat : \E e :
           /\ DOMAIN last = 1 .. N
           /\ \A i \in 1 .. N : e[i] \in Ends(s) /\ last[i] = s[e[i]]
           /\ \A x \in Ends(s) : \E i \in 1 .. N : e[i] = x
           /\ \A i, j \in 1 .. N : i < j => e[i] < e[j]
  BY <1>1, LastsAre
<1>3. PICK e :
           /\ DOMAIN last = 1 .. N
           /\ \A i \in 1 .. N : e[i] \in Ends(s) /\ last[i] = s[e[i]]
           /\ \A x \in Ends(s) : \E i \in 1 .. N : e[i] = x
           /\ \A i, j \in 1 .. N : i < j => e[i] < e[j]
  BY <1>33
<1>4. Landed(s, key) = IF here = {} THEN Zero ELSE last[Min(here)].val
  BY DEF Landed
<1> HIDE DEF last
<1>5. \A i \in 1 .. L : s[i].key \in Int /\ p[i] \in 1 .. K
  <2>1. \A i \in 1 .. L : s[i] \in Recs
    BY <1>1
  <2> HIDE DEF L
  <2> QED
    BY <1>2, <2>1 DEF Recs
<1>6. \A i \in 1 .. N : e[i] \in 1 .. L /\ last[i] = s[e[i]] /\ last[i].key \in Int
  BY <1>1, <1>3, <1>5 DEF Ends
<1>7. \A i \in 1 .. K : i \in under <=> records[i].key = key
  BY <1>1
<1>8. \A x \in Ends(s) : x \in 1 .. L /\ (x # L => s[x + 1].key # s[x].key)
  BY <1>1 DEF Ends
<1>88. \A x \in 1 .. L : (x # L => s[x + 1].key # s[x].key) => x \in Ends(s)
  BY <1>1 DEF Ends
<1> HIDE DEF L, K
<1>9. CASE under = {}
  <2>1. ASSUME NEW i \in 1 .. N PROVE last[i].key # key
    <3>1. e[i] \in 1 .. L /\ last[i] = s[e[i]]
      BY <1>6
    <3>2. s[e[i]] = records[p[e[i]]] /\ p[e[i]] \in 1 .. K
      BY <1>2, <1>5, <3>1
    <3>3. p[e[i]] \notin under
      BY <1>9
    <3> HIDE DEF under
    <3> QED
      BY <1>7, <3>1, <3>2, <3>3
  <2>2. here = {}
    BY <1>3, <2>1
  <2> HIDE DEF here, under
  <2> QED
    BY <1>4, <1>9, <2>2
<1>10. CASE under # {}
  <2> DEFINE m == Max(under)
             g == Max(O)
  <2>1. m \in under /\ \A y \in under : y <= m
    <3>1. under \subseteq 1 .. K
      BY <1>1
    <3> HIDE DEF under
    <3> QED
      BY <1>1, <1>10, <3>1, Greatest
  <2>2. m \in 1 .. K /\ records[m].key = key
    <3>1. m \in DOMAIN records /\ records[m].key = key
      BY <2>1
    <3> HIDE DEF m
    <3> QED
      BY <1>1, <3>1
  <2> HIDE DEF m
  <2>3. PICK i0 \in 1 .. L : p[i0] = m
    BY <1>2, <2>2
  <2>4. i0 \in O
    BY <1>2, <2>2, <2>3
  <2>5. g \in O /\ \A y \in O : y <= g
    <3>1. O \subseteq 1 .. L /\ O # {}
      BY <2>4
    <3> HIDE DEF O
    <3> QED
      BY <1>1, <3>1, Greatest
  <2> HIDE DEF g
  <2>6. g \in 1 .. L /\ s[g].key = key
    BY <2>5
  <2>7. g \in Ends(s)
    <3>1. ASSUME g # L PROVE s[g + 1].key # s[g].key
      <4>1. g + 1 \in 1 .. L /\ ~(g + 1 <= g)
        BY <1>1, <2>6, <3>1
      <4>2. g + 1 \notin O
        BY <2>5, <4>1
      <4> QED
        BY <2>6, <4>1, <4>2
    <3> QED
      BY <1>88, <2>6, <3>1
  <2>8. PICK c \in 1 .. N : e[c] = g
    BY <1>3, <2>7
  <2>9. last[c] = s[g] /\ last[c].key = key
    BY <1>6, <2>6, <2>8
  <2>10. ASSUME NEW j \in 1 .. N, j < c PROVE last[j].key < key
    <3>1. e[j] < g /\ e[j] \in 1 .. L /\ e[j] \in Ends(s)
      BY <1>3, <1>6, <2>8, <2>10
    <3> DEFINE x == e[j]
    <3>2. x \in 1 .. L /\ x < g /\ x # L /\ s[x + 1].key # s[x].key
      BY <1>1, <1>8, <2>6, <3>1
    <3>3. last[j] = s[x]
      BY <1>6
    <3> HIDE DEF x
    <3>4. x + 1 \in 1 .. L /\ x < x + 1 /\ (x + 1 = g \/ x + 1 < g)
      BY <1>1, <2>6, <3>2
    <3>5. s[x].key < s[x + 1].key
      BY <1>2, <3>2, <3>4
    <3>6. s[x + 1].key <= s[g].key
      <4>1. s[x + 1].key \in Int /\ s[g].key \in Int
        BY <1>5, <2>6, <3>4
      <4>2. CASE x + 1 = g
        BY <4>1, <4>2
      <4>3. CASE x + 1 < g
        BY <1>2, <2>6, <3>4, <4>1, <4>3
      <4> QED
        BY <3>4, <4>2, <4>3
    <3> QED
      BY <1>5, <2>6, <3>2, <3>3, <3>4, <3>5, <3>6
  <2>11. c \in here
    <3>1. \A j \in 1 .. c - 1 : j \in 1 .. N /\ j < c
      BY <1>3
    <3> QED
      BY <1>3, <2>9, <2>10, <3>1
  <2>12. ASSUME NEW i \in here PROVE i = c
    <3>1. i \in 1 .. N /\ last[i].key = key /\ \A j \in 1 .. i - 1 : last[j].key < key
      BY <1>3
    <3>2. ~(i < c)
      BY <2>10, <3>1
    <3>3. ~(c < i)
      <4> SUFFICES ASSUME c < i PROVE FALSE
        OBVIOUS
      <4>1. c \in 1 .. i - 1
        BY <1>3, <3>1
      <4> QED
        BY <2>9, <3>1, <4>1
    <3> QED
      BY <3>1, <3>2, <3>3
  <2>13. here = {c}
    BY <2>11, <2>12
  <2>14. Min(here) = c
    <3>1. here \subseteq Nat /\ here # {}
      <4>1. c \in Nat
        BY <1>33
      <4> HIDE DEF here
      <4> QED
        BY <2>13, <4>1
    <3> HIDE DEF here
    <3>2. Min(here) \in here
      BY <3>1, Least
    <3> QED
      BY <2>13, <3>2
  <2>15. p[g] = m
    <3>1. p[g] \in 1 .. K /\ records[p[g]].key = key
      BY <1>2, <1>5, <2>6
    <3>2. p[g] \in under
      BY <1>7, <3>1
    <3>3. p[g] <= m
      BY <2>1, <3>2
    <3>4. i0 <= g /\ s[i0].key = key
      BY <2>4, <2>5
    <3>5. i0 < g => m < p[g]
      BY <1>2, <1>5, <2>3, <2>6, <3>4
    <3>6. i0 \in Int /\ g \in Int /\ m \in Int /\ p[g] \in Int
      BY <2>2, <2>6, <3>1
    <3> QED
      BY <2>3, <3>3, <3>4, <3>5, <3>6
  <2>16. last[c].val = records[m].val
    BY <1>2, <2>6, <2>9, <2>15
  <2> HIDE DEF here, under
  <2> QED
    BY <1>4, <1>10, <2>13, <2>14, <2>16 DEF m
<1> QED
  BY <1>9, <1>10

\* The merge of commit gives each point the value that was given last under its key, and zero where none was
\* given: for any file, sorted in runs of any length when its keys ever fell (sort_spill_by_key), and any keys.
THEOREM LastValueCounts ==
  ASSUME NEW records \in Seq(Recs), NEW keys \in Seq(Int)
  PROVE  [p \in DOMAIN keys |-> Landed(InKeyOrder(records), keys[p])] = Given(records, keys)
<1>1. ASSUME NEW p \in DOMAIN keys
      PROVE  Landed(InKeyOrder(records), keys[p]) = Given(records, keys)[p]
  <2>1. keys[p] \in Int
    OBVIOUS
  <2>2. Arranged(InKeyOrder(records), records)
    BY KeyOrder
  <2> DEFINE under == {i \in DOMAIN records : records[i].key = keys[p]}
  <2>3. Landed(InKeyOrder(records), keys[p]) = IF under = {} THEN Zero ELSE records[Max(under)].val
    BY <2>1, <2>2, LandedIs
  <2>4. Given(records, keys)[p] = IF under = {} THEN Zero ELSE records[Max(under)].val
    BY DEF Given
  <2> QED
    BY <2>3, <2>4
<1>2. Given(records, keys) = [p \in DOMAIN keys |-> Given(records, keys)[p]]
  BY DEF Given
<1> QED
  BY <1>1, <1>2

-----------------------------------------------------------------------------
(***************************************************************************)
(* The files a host can write.                                             *)
(***************************************************************************)
Longer(files) == {file \o batch : file \in files, batch \in Batches}

LEMMA WrittenUnfolds ==
  /\ Written[0] = {<<>>}
  /\ \A n \in 0 .. MaxCalls : n # 0 => Written[n] = Longer(Written[n - 1])
<1> DEFINE N == MaxCalls
           Upto(n) == {k \in 0 .. N : k <= n}
           Partial(n, w) == w = [k \in Upto(n) |-> IF k = 0 THEN {<<>>} ELSE Longer(w[k - 1])]
           I == {n \in Nat : \E w : Partial(n, w)}
<1>0. N \in Nat
  BY MutableSessionAssumption
<1> HIDE DEF N
<1>1. 0 \in I
  <2> DEFINE w == [k \in Upto(0) |-> {<<>>}]
  <2>1. \A k \in Upto(0) : k = 0
    BY <1>0
  <2>2. Partial(0, w)
    BY <2>1
  <2> HIDE DEF w, Partial
  <2> QED
    BY <2>2
<1>2. ASSUME NEW n \in Nat, n \in I PROVE n + 1 \in I
  <2>1. PICK w : Partial(n, w)
    BY <1>2
  <2> DEFINE v == [k \in Upto(n + 1) |-> IF k = 0 THEN {<<>>} ELSE Longer(w[k - 1])]
  <2>2. ASSUME NEW k \in Upto(n) PROVE v[k] = w[k]
    <3>1. k \in Upto(n + 1)
      BY <1>0
    <3>2. w[k] = IF k = 0 THEN {<<>>} ELSE Longer(w[k - 1])
      BY <2>1
    <3> QED
      BY <3>1, <3>2
  <2>3. \A k \in Upto(n + 1) : k # 0 => k - 1 \in Upto(n)
    BY <1>0
  <2>4. \A k \in Upto(n + 1) : k # 0 => v[k - 1] = w[k - 1]
    BY <2>2, <2>3
  <2>5. Partial(n + 1, v)
    BY <2>4
  <2> HIDE DEF v, Partial
  <2> QED
    BY <2>5
<1>3. \A n \in Nat : n \in I
  <2> HIDE DEF I
  <2> QED
    BY <1>1, <1>2, AllNumbers
<1>4. N \in Nat /\ Upto(N) = 0 .. N
  BY <1>0
<1>5. PICK w : w = [k \in 0 .. N |-> IF k = 0 THEN {<<>>} ELSE Longer(w[k - 1])]
  <2>1. PICK v : Partial(N, v)
    BY <1>3, <1>4
  <2> QED
    BY <1>4, <2>1
<1>6. Written = CHOOSE v : v = [k \in 0 .. N |-> IF k = 0 THEN {<<>>} ELSE Longer(v[k - 1])]
  BY DEF Written, N, Longer
<1>7. Written = [k \in 0 .. N |-> IF k = 0 THEN {<<>>} ELSE Longer(Written[k - 1])]
  BY <1>5, <1>6
<1>8. Written[0] = {<<>>}
  BY <1>0, <1>7
<1>9. \A n \in 0 .. N : n # 0 => Written[n] = Longer(Written[n - 1])
  BY <1>0, <1>7
<1> QED
  BY <1>8, <1>9 DEF N

LEMMA FilesAre ==
  /\ <<>> \in Written[0] /\ <<>> \in Files
  /\ \A n \in 0 .. MaxCalls : Written[n] \subseteq Files
  /\ \A n \in 0 .. MaxCalls : n # MaxCalls =>
       \A file \in Written[n], batch \in Batches : file \o batch \in Written[n + 1]
<1>0. MaxCalls \in Nat
  BY MutableSessionAssumption
<1>1. \A n \in 0 .. MaxCalls : n # MaxCalls =>
        n + 1 \in 0 .. MaxCalls /\ n + 1 # 0 /\ (n + 1) - 1 = n
  BY <1>0
<1>2. 0 \in 0 .. MaxCalls
  BY <1>0
<1>3. <<>> \in Written[0]
  BY WrittenUnfolds
<1>4. \A n \in 0 .. MaxCalls : Written[n] \subseteq Files
  BY DEF Files
<1>5. ASSUME NEW n \in 0 .. MaxCalls, n # MaxCalls, NEW file \in Written[n], NEW batch \in Batches
      PROVE  file \o batch \in Written[n + 1]
  <2>1. n + 1 \in 0 .. MaxCalls /\ n + 1 # 0 /\ (n + 1) - 1 = n
    BY <1>1, <1>5
  <2>2. Written[n + 1] = Longer(Written[n])
    BY <2>1, WrittenUnfolds
  <2> QED
    BY <2>2 DEF Longer
<1> QED
  BY <1>2, <1>3, <1>4, <1>5

-----------------------------------------------------------------------------
(***************************************************************************)
(* Types, and what a unit is.                                              *)
(***************************************************************************)
\* What joining a file gives the points of a unit.
JoinOf(file, u) == [p \in DOMAIN Units[u].keys |-> Join[file][Units[u].keys[p]]]
Joins(files) == {JoinOf(file, u) : file \in files, u \in UnitIds}
Values == {<<>>} \cup {Units[u].keys : u \in UnitIds} \cup Joins(Files)
Slots == [of : Int, vals : Values]
Unit == [config : Seq(Int), storage : Seq(Slots)]
Addition == [config : Seq(Int), slot : Slots]

BaseLen(u) == Len(Base[u].config)
Keyed == {u \in UnitIds : Units[u].keys # <<>>}

\* The attributes of the conversion come first, and declared ones after them.
StartsAsBase(u, config) ==
  /\ BaseLen(u) <= Len(config)
  /\ \A i \in 1 .. BaseLen(u) : config[i] = Base[u].config[i]
  /\ \A i \in 1 .. Len(config) : BaseLen(u) < i => config[i] \in Names
UnitsAt(u) == {unit \in Unit : /\ StartsAsBase(u, unit.config) /\ BaseLen(u) <= Len(unit.storage)
                               /\ \A i \in 1 .. BaseLen(u) : unit.storage[i] = Base[u].storage[i]}
AdditionsAt(u) == {a \in Addition : StartsAsBase(u, a.config) /\ a.slot.of \in Names}

SomeUnits(S) == UNION {[ids -> S] : ids \in SUBSET UnitIds}
Maps == {f \in [UnitIds -> Unit] : \A u \in UnitIds : f[u] \in UnitsAt(u)}
Snaps == {f \in SomeUnits(Unit) : \A u \in DOMAIN f : f[u] \in UnitsAt(u)}
Appends == {f \in SomeUnits(Addition) : \A u \in DOMAIN f : f[u] \in AdditionsAt(u)}
Givens == [name : Names, file : Files, lost : SUBSET UnitIds]
Kinds == {"load", "snapshot", "append", "clear", "checkpoint", "unheard"}
Tasks == [kind : Kinds, appends : Appends]

\* vals are what some file given under name, one of G, gives the points of u, or its blob was not written.
FromFile(G, u, name, vals) ==
  \E g \in G : g.name = name /\ (vals = JoinOf(g.file, u) \/ (vals = Unwritten /\ u \in g.lost))

\* A unit is what the conversion made it, and a joined blob for each name after that.
Sound(G, u, unit) ==
  /\ unit \in Unit
  /\ Len(unit.config) = Len(unit.storage) /\ BaseLen(u) <= Len(unit.config)
  /\ \A i \in 1 .. Len(unit.config) : unit.storage[i].of = unit.config[i]
  /\ \A i \in 1 .. BaseLen(u) : unit.storage[i] = Base[u].storage[i]
  /\ \A i \in 1 .. Len(unit.config) : BaseLen(u) < i => /\ unit.config[i] \in Names
                                                        /\ FromFile(G, u, unit.config[i], unit.storage[i].vals)
  /\ \A i, j \in 1 .. Len(unit.config) : unit.config[i] = unit.config[j] => i = j

\* An append a goes on from the unit of u as it is.
Extends(G, u, unit, a) ==
  /\ a \in [config : Seq(Int), slot : Slots]
  /\ a.config = Append(unit.config, a.slot.of)
  /\ a.slot.of \in Names /\ ~HasAttribute(unit, a.slot.of)
  /\ FromFile(G, u, a.slot.of, a.slot.vals)

LEMMA UnitsAre ==
  /\ Len(Units) \in Nat /\ UnitIds = 1 .. Len(Units)
  /\ \A u \in UnitIds : Units[u].tree \in Trees /\ Units[u].keys \in Seq(Int)
<1> DEFINE S == [tree : Trees, keys : Seq(Int)]
<1>1. Units \in Seq(S)
  BY MutableSessionAssumption
<1>2. \A x \in S : x.tree \in Trees /\ x.keys \in Seq(Int)
  OBVIOUS
<1> HIDE DEF S
<1>3. Len(Units) \in Nat /\ DOMAIN Units = 1 .. Len(Units) /\ \A u \in 1 .. Len(Units) : Units[u] \in S
  BY <1>1
<1> QED
  BY <1>2, <1>3 DEF UnitIds

LEMMA NamesAre == Names \subseteq Nat \ {0} /\ Key = -1 /\ Xyz = -2
BY MutableSessionAssumption DEF Key, Xyz

LEMMA BaseIs ==
  ASSUME NEW u \in UnitIds
  PROVE  /\ u \notin Keyed => Base[u] = [config |-> <<Xyz>>, storage |-> <<Slot(Xyz, <<>>)>>] /\ BaseLen(u) = 1
         /\ u \in Keyed => /\ Base[u] = [config |-> <<Xyz, Key>>, storage |-> <<Slot(Xyz, <<>>), Slot(Key, Units[u].keys)>>]
                           /\ BaseLen(u) = 2
BY DEF Base, BaseUnit, BaseLen, Keyed

LEMMA FieldsOf == \A c, d : [config |-> c, storage |-> d].config = c /\ [config |-> c, storage |-> d].storage = d
OBVIOUS

LEMMA BaseHolds ==
  ASSUME NEW u \in UnitIds
  PROVE  /\ Base[u].storage[1].of = Xyz /\ Base[u].config[1] = Xyz
         /\ u \in Keyed => /\ Base[u].storage[2].of = Key /\ Base[u].storage[2].vals = Units[u].keys
                           /\ Base[u].config[2] = Key
         /\ BaseLen(u) \in Nat
<1>1. \A n, v : Slot(n, v).of = n /\ Slot(n, v).vals = v
  BY DEF Slot
<1>2. CASE u \notin Keyed
  <2>0. Base[u] = [config |-> <<Xyz>>, storage |-> <<Slot(Xyz, <<>>)>>] /\ BaseLen(u) = 1
    BY <1>2, BaseIs
  <2>1. Base[u].storage = <<Slot(Xyz, <<>>)>> /\ Base[u].config = <<Xyz>>
    BY <2>0, FieldsOf
  <2>2. Base[u].storage[1] = Slot(Xyz, <<>>) /\ Base[u].config[1] = Xyz
    BY <2>1
  <2> QED
    BY <1>1, <1>2, <2>0, <2>2
<1>3. CASE u \in Keyed
  <2>0. /\ Base[u] = [config |-> <<Xyz, Key>>, storage |-> <<Slot(Xyz, <<>>), Slot(Key, Units[u].keys)>>]
        /\ BaseLen(u) = 2
    BY <1>3, BaseIs
  <2>1. Base[u].storage = <<Slot(Xyz, <<>>), Slot(Key, Units[u].keys)>> /\ Base[u].config = <<Xyz, Key>>
    BY <2>0, FieldsOf
  <2>2. /\ Base[u].storage[1] = Slot(Xyz, <<>>) /\ Base[u].storage[2] = Slot(Key, Units[u].keys)
        /\ Base[u].config[1] = Xyz /\ Base[u].config[2] = Key
    BY <2>1
  <2> QED
    BY <1>1, <1>3, <2>0, <2>2
<1> QED
  BY <1>2, <1>3

LEMMA BaseSound ==
  ASSUME NEW u \in UnitIds, NEW G
  PROVE  Sound(G, u, Base[u])
<1>1. Slot(Xyz, <<>>) \in Slots /\ Slot(Key, Units[u].keys) \in Slots /\ Xyz \in Int /\ Key \in Int
  BY NamesAre DEF Slot, Slots, Values
<1>2. CASE u \notin Keyed
  <2>1. Base[u] = [config |-> <<Xyz>>, storage |-> <<Slot(Xyz, <<>>)>>] /\ BaseLen(u) = 1
    BY <1>2, BaseIs
  <2>2. Base[u] \in Unit
    BY <1>1, <2>1 DEF Unit
  <2> QED
    BY <2>1, <2>2 DEF Sound, Slot
<1>3. CASE u \in Keyed
  <2>1. /\ Base[u] = [config |-> <<Xyz, Key>>, storage |-> <<Slot(Xyz, <<>>), Slot(Key, Units[u].keys)>>]
        /\ BaseLen(u) = 2
    BY <1>3, BaseIs
  <2>2. Base[u] \in Unit
    BY <1>1, <2>1 DEF Unit
  <2> QED
    BY <2>1, <2>2, NamesAre DEF Sound, Slot
<1> QED
  BY <1>2, <1>3

LEMMA SoundGrows ==
  ASSUME NEW G, NEW H, G \subseteq H, NEW u \in UnitIds, NEW unit, Sound(G, u, unit)
  PROVE  Sound(H, u, unit)
BY DEF Sound, FromFile

LEMMA KeysFound ==
  ASSUME NEW u \in UnitIds, NEW unit \in UnitsAt(u)
  PROVE  KeysOf(unit) = Units[u].keys
<1> DEFINE at == {i \in DOMAIN unit.config : unit.config[i] = Key}
<1>0. /\ unit.config \in Seq(Int) /\ DOMAIN unit.config = 1 .. Len(unit.config) /\ Len(unit.config) \in Nat
      /\ BaseLen(u) <= Len(unit.config)
      /\ \A i \in 1 .. BaseLen(u) : unit.config[i] = Base[u].config[i] /\ unit.storage[i] = Base[u].storage[i]
      /\ \A i \in 1 .. Len(unit.config) : BaseLen(u) < i => unit.config[i] \in Names
  BY DEF UnitsAt, StartsAsBase, Unit
<1>1. \A i \in 1 .. Len(unit.config) : BaseLen(u) < i => unit.config[i] # Key
  BY <1>0, NamesAre
<1>2. CASE u \notin Keyed
  <2>1. BaseLen(u) = 1 /\ Base[u].config[1] = Xyz
    BY <1>2, BaseIs, BaseHolds
  <2>2. unit.config[1] # Key
    BY <1>0, <2>1, NamesAre
  <2>3. at = {}
    BY <1>0, <1>1, <2>1, <2>2
  <2>4. Units[u].keys = <<>>
    BY <1>2 DEF Keyed
  <2> QED
    BY <2>3, <2>4 DEF KeysOf
<1>3. CASE u \in Keyed
  <2>1. /\ BaseLen(u) = 2 /\ Base[u].config[1] = Xyz /\ Base[u].config[2] = Key
        /\ Base[u].storage[2].vals = Units[u].keys
    BY <1>3, BaseIs, BaseHolds
  <2>2. /\ unit.config[1] # Key /\ unit.config[2] = Key /\ 2 \in 1 .. Len(unit.config)
        /\ unit.storage[2].vals = Units[u].keys
    BY <1>0, <2>1, NamesAre
  <2>3. at = {2}
    BY <1>0, <1>1, <2>1, <2>2
  <2>4. Min(at) = 2
    BY <2>3 DEF Min
  <2> QED
    BY <2>2, <2>3, <2>4 DEF KeysOf
<1> QED
  BY <1>2, <1>3

LEMMA AppendedSound ==
  ASSUME NEW G, NEW u \in UnitIds, NEW unit, Sound(G, u, unit), NEW a, Extends(G, u, unit, a)
  PROVE  /\ Sound(G, u, Appended(unit, a))
         /\ \A n : HasAttribute(unit, n) => HasAttribute(Appended(unit, a), n)
         /\ HasAttribute(Appended(unit, a), a.slot.of)
<1> DEFINE now == Appended(unit, a)
           c == unit.config
           d == unit.storage
           L == Len(c)
<1>1. /\ c \in Seq(Int) /\ d \in Seq(Slots) /\ L \in Nat /\ Len(d) = L /\ BaseLen(u) <= L
      /\ a.slot \in Slots /\ a.slot.of \in Int /\ a.config = Append(c, a.slot.of)
      /\ BaseLen(u) \in Nat
  <2>1. c \in Seq(Int) /\ d \in Seq(Slots)
    BY DEF Sound, Unit
  <2>2. Len(d) = L /\ BaseLen(u) <= L
    BY DEF Sound
  <2>3. a.slot \in Slots /\ a.config = Append(c, a.slot.of)
    BY DEF Extends
  <2>4. a.slot.of \in Int
    BY <2>3 DEF Slots
  <2> QED
    BY <2>1, <2>2, <2>3, <2>4, BaseHolds
<1>2. now.config = Append(c, a.slot.of) /\ now.storage = Append(d, a.slot) /\ now \in Unit
  BY <1>1 DEF Appended, Unit
<1>0. \A n : HasAttribute(unit, n) <=> \E i \in DOMAIN c : c[i] = n
  BY DEF HasAttribute, ToSet
<1>00. \A n : HasAttribute(now, n) <=> \E i \in DOMAIN now.config : now.config[i] = n
  BY DEF HasAttribute, ToSet
<1> HIDE DEF now, c, d, L
<1>3. /\ Len(now.config) = L + 1 /\ Len(now.storage) = L + 1
      /\ \A i \in 1 .. L : now.config[i] = c[i] /\ now.storage[i] = d[i]
      /\ now.config[L + 1] = a.slot.of /\ now.storage[L + 1] = a.slot
  BY <1>1, <1>2 DEF L
<1>10. DOMAIN c = 1 .. L /\ DOMAIN now.config = 1 .. (L + 1)
  BY <1>1, <1>2 DEF L
<1>4. \A n : HasAttribute(unit, n) <=> \E i \in 1 .. L : c[i] = n
  BY <1>0, <1>10
<1>5. \A n : HasAttribute(now, n) <=> \E i \in 1 .. (L + 1) : now.config[i] = n
  BY <1>00, <1>10
<1>6. \A i \in 1 .. L : c[i] # a.slot.of
  BY <1>4 DEF Extends
<1>7. Sound(G, u, now)
  <2>1. /\ \A i \in 1 .. L : d[i].of = c[i]
        /\ \A i \in 1 .. BaseLen(u) : d[i] = Base[u].storage[i]
        /\ \A i \in 1 .. L : BaseLen(u) < i => c[i] \in Names /\ FromFile(G, u, c[i], d[i].vals)
        /\ \A i, j \in 1 .. L : c[i] = c[j] => i = j
    BY DEF Sound, c, d, L
  <2>2. a.slot.of \in Names /\ FromFile(G, u, a.slot.of, a.slot.vals)
    BY DEF Extends
  <2>3. \A i \in 1 .. (L + 1) : i \in 1 .. L \/ i = L + 1
    BY <1>1
  <2>4. \A i \in 1 .. (L + 1) : now.storage[i].of = now.config[i]
    BY <1>3, <2>1, <2>3
  <2>5. \A i \in 1 .. BaseLen(u) : now.storage[i] = Base[u].storage[i]
    BY <1>1, <1>3, <2>1
  <2>6. \A i \in 1 .. (L + 1) : BaseLen(u) < i => now.config[i] \in Names /\ FromFile(G, u, now.config[i], now.storage[i].vals)
    BY <1>3, <2>1, <2>2, <2>3
  <2>7. \A i, j \in 1 .. (L + 1) : now.config[i] = now.config[j] => i = j
    BY <1>3, <1>6, <2>1, <2>3
  <2>8. BaseLen(u) <= L + 1
    BY <1>1
  <2>9. Len(now.config) = L + 1 /\ Len(now.config) = Len(now.storage) /\ now \in Unit
    BY <1>2, <1>3
  <2>10. 1 .. Len(now.config) = 1 .. (L + 1)
    BY <2>9
  <2>11. /\ \A i \in 1 .. Len(now.config) : now.storage[i].of = now.config[i]
         /\ \A i, j \in 1 .. Len(now.config) : now.config[i] = now.config[j] => i = j
    BY <2>4, <2>7, <2>10
  <2>12. \A i \in 1 .. Len(now.config) : BaseLen(u) < i =>
           now.config[i] \in Names /\ FromFile(G, u, now.config[i], now.storage[i].vals)
    BY <2>6, <2>10
  <2>13. BaseLen(u) <= Len(now.config)
    BY <2>8, <2>9
  <2> QED
    BY <2>5, <2>9, <2>11, <2>12, <2>13 DEF Sound
<1>8. \A n : HasAttribute(unit, n) => HasAttribute(now, n)
  <2> SUFFICES ASSUME NEW n, HasAttribute(unit, n) PROVE HasAttribute(now, n)
    OBVIOUS
  <2>1. PICK i \in 1 .. L : c[i] = n
    BY <1>4
  <2>2. i \in 1 .. (L + 1) /\ now.config[i] = n
    BY <1>1, <1>3, <2>1
  <2> QED
    BY <1>5, <2>2
<1>9. HasAttribute(now, a.slot.of)
  <2>1. L \in Nat
    BY <1>1
  <2>2. L + 1 \in 1 .. (L + 1)
    BY <2>1
  <2>3. now.config[L + 1] = a.slot.of
    BY <1>3
  <2> QED
    BY <1>5, <2>2, <2>3
<1> QED
  BY <1>7, <1>8, <1>9 DEF now

LEMMA UnitMapIs ==
  ASSUME NEW f, f = [u \in UnitIds |-> f[u]], \A u \in UnitIds : f[u] \in UnitsAt(u)
  PROVE  f \in Maps
BY DEF Maps, UnitsAt

LEMMA SnapIs ==
  ASSUME NEW S \in SUBSET UnitIds, NEW f, f = [u \in S |-> f[u]], \A u \in S : f[u] \in UnitsAt(u)
  PROVE  f \in Snaps /\ DOMAIN f = S
<1>1. f \in [S -> Unit] /\ DOMAIN f = S
  BY DEF UnitsAt
<1> QED
  BY <1>1 DEF Snaps, SomeUnits

LEMMA AppendsAre ==
  ASSUME NEW S \in SUBSET UnitIds, NEW f, f = [u \in S |-> f[u]], \A u \in S : f[u] \in AdditionsAt(u)
  PROVE  f \in Appends /\ DOMAIN f = S
<1>1. f \in [S -> Addition] /\ DOMAIN f = S
  BY DEF AdditionsAt
<1> QED
  BY <1>1 DEF Appends, SomeUnits

LEMMA MapsHold ==
  /\ \A f \in Maps : f = [u \in UnitIds |-> f[u]] /\ \A u \in UnitIds : f[u] \in UnitsAt(u)
  /\ \A f \in Snaps \cup Appends : f = [u \in DOMAIN f |-> f[u]] /\ DOMAIN f \subseteq UnitIds
  /\ \A f \in Snaps : \A u \in DOMAIN f : f[u] \in UnitsAt(u)
  /\ \A f \in Appends : \A u \in DOMAIN f : f[u] \in AdditionsAt(u)
BY DEF Maps, Snaps, Appends, SomeUnits

LEMMA NoUnitsAre == NoUnits \in Snaps /\ NoUnits \in Appends /\ DOMAIN NoUnits = {}
<1>1. NoUnits = [u \in {} |-> NoUnits[u]] /\ {} \in SUBSET UnitIds /\ DOMAIN NoUnits = {}
  BY DEF NoUnits
<1> QED
  BY <1>1, SnapIs, AppendsAre

LEMMA BaseMaps == Base \in Maps /\ \A u \in UnitIds : Base[u] \in UnitsAt(u)
<1>1. ASSUME NEW u \in UnitIds PROVE Base[u] \in UnitsAt(u)
  <2>1. Sound({}, u, Base[u])
    BY BaseSound
  <2>2. /\ Base[u] \in Unit /\ Len(Base[u].config) = BaseLen(u) /\ Len(Base[u].storage) = BaseLen(u)
        /\ BaseLen(u) \in Nat
    BY <2>1, BaseHolds DEF Sound, BaseLen
  <2> QED
    BY <2>2 DEF UnitsAt, StartsAsBase
<1>2. Base = [u \in UnitIds |-> Base[u]]
  BY DEF Base
<1> QED
  BY <1>1, <1>2, UnitMapIs

LEMMA OverMaps ==
  ASSUME NEW f \in Maps, NEW g \in Maps, NEW ts
  PROVE  /\ Over(f, ts, g) \in Maps
         /\ \A u \in UnitIds : Over(f, ts, g)[u] = IF Units[u].tree \in ts THEN g[u] ELSE f[u]
<1> DEFINE o == Over(f, ts, g)
<1>1. o = [u \in UnitIds |-> IF Units[u].tree \in ts THEN g[u] ELSE f[u]]
  BY DEF Over, UnitsOf
<1> HIDE DEF o
<1>2. o = [u \in UnitIds |-> o[u]] /\ \A u \in UnitIds : o[u] \in UnitsAt(u)
  BY <1>1, MapsHold
<1>3. o \in Maps
  BY <1>2, UnitMapIs
<1> QED
  BY <1>1, <1>3 DEF o

LEMMA StartsLonger ==
  ASSUME NEW u \in UnitIds, NEW c \in Seq(Int), StartsAsBase(u, c), NEW n \in Names
  PROVE  Append(c, n) \in Seq(Int) /\ StartsAsBase(u, Append(c, n))
<1>1. /\ BaseLen(u) \in Nat /\ Len(c) \in Nat /\ Append(c, n) \in Seq(Int) /\ Len(Append(c, n)) = Len(c) + 1
      /\ \A i \in 1 .. Len(c) : Append(c, n)[i] = c[i]
      /\ Append(c, n)[Len(c) + 1] = n
  BY BaseHolds, NamesAre
<1> DEFINE d == Append(c, n)
<1> HIDE DEF d
<1>2. /\ BaseLen(u) \in Nat /\ Len(c) \in Nat /\ d \in Seq(Int) /\ Len(d) = Len(c) + 1
      /\ \A i \in 1 .. Len(c) : d[i] = c[i]
      /\ d[Len(c) + 1] = n
  BY <1>1 DEF d
<1>3. StartsAsBase(u, d)
  <2>1. \A i \in 1 .. Len(d) : i \in 1 .. Len(c) \/ i = Len(c) + 1
    BY <1>2
  <2>2. /\ BaseLen(u) <= Len(c)
        /\ \A i \in 1 .. BaseLen(u) : c[i] = Base[u].config[i]
        /\ \A i \in 1 .. Len(c) : BaseLen(u) < i => c[i] \in Names
    BY DEF StartsAsBase
  <2>3. BaseLen(u) <= Len(d)
    BY <1>2, <2>2
  <2>4. \A i \in 1 .. BaseLen(u) : d[i] = Base[u].config[i]
    BY <1>2, <2>2
  <2>5. \A i \in 1 .. Len(d) : BaseLen(u) < i => d[i] \in Names
    BY <1>2, <2>1, <2>2
  <2> QED
    BY <2>3, <2>4, <2>5 DEF StartsAsBase
<1> QED
  BY <1>2, <1>3 DEF d

LEMMA AppendedAt ==
  ASSUME NEW u \in UnitIds, NEW unit \in UnitsAt(u), NEW a \in AdditionsAt(u)
  PROVE  Appended(unit, a) \in UnitsAt(u)
<1> DEFINE c == unit.storage
           d == Append(c, a.slot)
<1>1. /\ BaseLen(u) \in Nat /\ c \in Seq(Slots) /\ a.slot \in Slots /\ a.config \in Seq(Int) /\ StartsAsBase(u, a.config)
      /\ BaseLen(u) <= Len(c) /\ \A i \in 1 .. BaseLen(u) : c[i] = Base[u].storage[i]
  BY BaseHolds DEF UnitsAt, Unit, AdditionsAt, Addition
<1>2. Appended(unit, a) = [config |-> a.config, storage |-> d]
  BY DEF Appended
<1> HIDE DEF c
<1>3. d \in Seq(Slots) /\ Len(c) \in Nat /\ Len(d) = Len(c) + 1 /\ \A i \in 1 .. Len(c) : d[i] = c[i]
  BY <1>1
<1> HIDE DEF d
<1>4. BaseLen(u) <= Len(d) /\ \A i \in 1 .. BaseLen(u) : d[i] = Base[u].storage[i]
  BY <1>1, <1>3
<1>5. [config |-> a.config, storage |-> d] \in Unit
  BY <1>1, <1>3 DEF Unit
<1> QED
  BY <1>1, <1>2, <1>4, <1>5 DEF UnitsAt

LEMMA AmendedAt ==
  ASSUME NEW u \in UnitIds, NEW unit \in UnitsAt(u), Current.file \in Files, Current.name \in Names
  PROVE  /\ Amended(unit) \in AdditionsAt(u)
         /\ Amended(unit).config = Append(unit.config, Current.name)
         /\ Amended(unit).slot = Slot(Current.name, JoinOf(Current.file, u))
<1> DEFINE n == Current.name
<1>1. Amended(unit) = [config |-> Append(unit.config, n), slot |-> Slot(n, JoinOf(Current.file, u))]
  <2> DEFINE v == [p \in DOMAIN KeysOf(unit) |-> Join[Current.file][KeysOf(unit)[p]]]
  <2>1. KeysOf(unit) = Units[u].keys
    BY KeysFound
  <2>2. JoinOf(Current.file, u) = v
    BY <2>1 DEF JoinOf
  <2>3. Amended(unit) = [config |-> Append(unit.config, n), slot |-> Slot(n, v)]
    BY DEF Amended
  <2> HIDE DEF n, v
  <2> QED
    BY <2>2, <2>3
<1>2. JoinOf(Current.file, u) \in Values /\ n \in Int /\ n \in Names
  <2>1. JoinOf(Current.file, u) \in Joins(Files)
    BY DEF Joins
  <2>2. Joins(Files) \subseteq Values
    BY DEF Values
  <2>3. JoinOf(Current.file, u) \in Values
    BY <2>1, <2>2
  <2> HIDE DEF n
  <2>4. n \in Names
    BY DEF n
  <2>5. n \in Int
    BY <2>4, NamesAre
  <2> QED
    BY <2>3, <2>4, <2>5
<1>3. Slot(n, JoinOf(Current.file, u)) \in Slots /\ Slot(n, JoinOf(Current.file, u)).of = n
  BY <1>2 DEF Slot, Slots
<1>4. unit.config \in Seq(Int) /\ StartsAsBase(u, unit.config)
  BY DEF UnitsAt, Unit
<1>5. Append(unit.config, n) \in Seq(Int) /\ StartsAsBase(u, Append(unit.config, n))
  BY <1>2, <1>4, StartsLonger
<1> DEFINE c == Append(unit.config, n)
           d == Slot(n, JoinOf(Current.file, u))
<1> HIDE DEF c, d
<1>6. /\ Amended(unit) = [config |-> c, slot |-> d]
      /\ c \in Seq(Int) /\ StartsAsBase(u, c) /\ d \in Slots /\ d.of = n
  BY <1>1, <1>3, <1>5 DEF c, d
<1>7. Amended(unit) \in AdditionsAt(u) /\ Amended(unit).config = c /\ Amended(unit).slot = d
  BY <1>2, <1>6 DEF AdditionsAt, Addition
<1> QED
  BY <1>7 DEF c, d

-----------------------------------------------------------------------------
(***************************************************************************)
(* Type correctness.                                                       *)
(***************************************************************************)
Disks == [units : Maps, mutable : BOOLEAN, final : SUBSET Trees]
Registries == [loaded : SUBSET Trees, requested : SUBSET Trees, dirty : SUBSET Trees, final : SUBSET Trees,
               banded : SUBSET Trees]
Loads == [tree : Trees, units : Maps]
Chains == [step : {"off", "trees", "index", "emit", "failed"}, trees : SUBSET Trees, units : Maps,
           final : SUBSET Trees, mutable : BOOLEAN, rerun : BOOLEAN, commits : Nat]
Places == {"idle", "resident", "attribute", "snapshot", "slice", "write", "append", "plan", "round", "clear"}
Steps == {"clear", "checkpoint", "emissions", "drain", "settle"}
Hosts == [pc : Places, call : {"none", "open", "commit", "finalize"}, todo : Seq(Steps), attr : Nat, snap : Snaps,
          cursor : Nat, slice : Appends, names : SUBSET Names]
Entries == [name : Names, file : Files, late : Files, open : BOOLEAN]
Destinations == [queue : Seq(SUBSET Trees), parked : BOOLEAN, terminal : BOOLEAN, bucket : SUBSET Trees,
                 complete : BOOLEAN]
Tolds == [names : SUBSET Names, finalized : BOOLEAN]
Uses == [calls : 0 .. MaxCalls, requests : Nat, faults : Nat, chain : Nat, parks : Nat]

\* A file is no longer than the calls there were.
Afforded(file, calls) == \E n \in 0 .. calls : file \in Written[n]
Affordable(entries, calls) ==
  \A i \in 1 .. Len(entries) : Afforded(entries[i].file, calls) /\ Afforded(entries[i].late, calls)

\* Where the host works on an attribute, and where it goes through its units.
Amending == {"snapshot", "slice", "write", "append"}

StoresType == units \in Maps /\ located \in Maps /\ disk \in Disks /\ loads \subseteq Loads /\ mutable \in BOOLEAN
TreesType == trees \in Registries
LoopType == loop \in Seq(Tasks)
ChainType == chain \in Chains
HostType == host \in Hosts /\ (host.pc \in Amending => host.attr \in 1 .. Len(pending))
PendingType == pending \in Seq(Entries) /\ Affordable(pending, used.calls)
UploadsType == uploads \in Destinations
GhostsType == given \subseteq Givens /\ told \in Tolds /\ used \in Uses

SessionType == StoresType /\ TreesType /\ LoopType /\ ChainType /\ HostType /\ PendingType /\ UploadsType /\ GhostsType

\* At most one append and one snapshot wait in the loop, the append first.
Has(l, kind) == {i \in 1 .. Len(l) : l[i].kind = kind}
InLoopOrder(l) ==
  /\ \A i, j \in Has(l, "append") : i = j
  /\ \A i, j \in Has(l, "snapshot") : i = j
  /\ \A i \in Has(l, "append"), j \in Has(l, "snapshot") : i < j

\* A snapshot or a clear in the loop is waited for, or the flag is cleared; no append lands while units are looked at.
LoopControl ==
  /\ InLoopOrder(loop)
  /\ Has(loop, "append") # {} => host.pc \notin {"slice", "write"}
  /\ Has(loop, "snapshot") # {} => host.pc = "snapshot"
  /\ Has(loop, "clear") # {} => ~mutable \/ host.pc = "clear"

LEMMA LoopHead ==
  ASSUME NEW l \in Seq(Tasks), l # <<>>
  PROVE  /\ 1 \in 1 .. Len(l) /\ Head(l) = l[1] /\ Has(l, Head(l).kind) # {} /\ Len(Tail(l)) = Len(l) - 1
         /\ \A i \in 1 .. Len(Tail(l)) : i \in Nat /\ i + 1 \in 1 .. Len(l) /\ Tail(l)[i] = l[i + 1]
<1>1. Len(l) \in Nat /\ Len(l) # 0 /\ Head(l) = l[1] /\ Len(Tail(l)) = Len(l) - 1
  OBVIOUS
<1>2. 1 \in 1 .. Len(l)
  BY <1>1
<1>3. \A i \in 1 .. Len(Tail(l)) : i \in Nat /\ i + 1 \in 1 .. Len(l) /\ Tail(l)[i] = l[i + 1]
  BY <1>1
<1>4. 1 \in Has(l, Head(l).kind)
  BY <1>1, <1>2 DEF Has
<1> QED
  BY <1>1, <1>2, <1>3, <1>4

LEMMA LoopTail ==
  ASSUME NEW l \in Seq(Tasks), l # <<>>, InLoopOrder(l)
  PROVE  /\ InLoopOrder(Tail(l)) /\ \A kind : Has(Tail(l), kind) # {} => Has(l, kind) # {}
         /\ Head(l).kind = "append" => Has(Tail(l), "append") = {}
         /\ Head(l).kind = "snapshot" => Has(Tail(l), "append") = {} /\ Has(Tail(l), "snapshot") = {}
<1> DEFINE t == Tail(l)
<1>1. /\ 1 \in 1 .. Len(l) /\ Head(l) = l[1]
      /\ \A i \in 1 .. Len(t) : i \in Nat /\ i # 0 /\ i + 1 \in 1 .. Len(l) /\ t[i] = l[i + 1]
  BY LoopHead
<1> HIDE DEF t
<1>2. \A kind : \A i \in Has(t, kind) : i \in Nat /\ i # 0 /\ i + 1 \in Has(l, kind)
  BY <1>1 DEF Has
<1>3. 1 \in Has(l, Head(l).kind)
  BY <1>1 DEF Has
<1>4. \A i, j \in Nat : (i + 1 = j + 1 => i = j) /\ (i + 1 < j + 1 => i < j) /\ (i # 0 => i + 1 # 1 /\ ~(i + 1 < 1))
  OBVIOUS
<1>5. InLoopOrder(t)
  BY <1>2, <1>4 DEF InLoopOrder
<1>6. Head(l).kind = "append" => Has(t, "append") = {}
  BY <1>2, <1>3, <1>4 DEF InLoopOrder
<1>7. Head(l).kind = "snapshot" => Has(t, "append") = {} /\ Has(t, "snapshot") = {}
  BY <1>2, <1>3, <1>4 DEF InLoopOrder
<1> QED
  BY <1>2, <1>5, <1>6, <1>7 DEF t

LEMMA LoopAppend ==
  ASSUME NEW l \in Seq(Tasks), NEW task \in Tasks
  PROVE  /\ Len(l) \in Nat /\ Len(Append(l, task)) = Len(l) + 1
         /\ \A i \in 1 .. Len(Append(l, task)) :
              \/ i \in 1 .. Len(l) /\ Append(l, task)[i] = l[i]
              \/ i = Len(l) + 1 /\ Append(l, task)[i] = task
         /\ \A kind : Has(Append(l, task), kind) = IF task.kind = kind THEN Has(l, kind) \cup {Len(l) + 1} ELSE Has(l, kind)
<1> DEFINE a == Append(l, task)
<1>1. /\ Len(l) \in Nat /\ Len(a) = Len(l) + 1
      /\ a[Len(l) + 1] = task /\ \A i \in 1 .. Len(l) : a[i] = l[i]
  OBVIOUS
<1> HIDE DEF a
<1>2. 1 .. Len(a) = 1 .. Len(l) \cup {Len(l) + 1} /\ Len(l) + 1 \notin 1 .. Len(l)
  BY <1>1
<1>3. \A i \in 1 .. Len(a) : (i \in 1 .. Len(l) /\ a[i] = l[i]) \/ (i = Len(l) + 1 /\ a[i] = task)
  BY <1>1, <1>2
<1>4. \A kind : Has(a, kind) = IF task.kind = kind THEN Has(l, kind) \cup {Len(l) + 1} ELSE Has(l, kind)
  BY <1>1, <1>2 DEF Has
<1> QED
  BY <1>1, <1>3, <1>4 DEF a

LEMMA LoopAppendOrder ==
  ASSUME NEW l \in Seq(Tasks), NEW task \in Tasks, InLoopOrder(l),
         task.kind = "append" => Has(l, "append") = {} /\ Has(l, "snapshot") = {},
         task.kind = "snapshot" => Has(l, "snapshot") = {}
  PROVE  InLoopOrder(Append(l, task))
<1>1. \A kind : Has(Append(l, task), kind) = IF task.kind = kind THEN Has(l, kind) \cup {Len(l) + 1} ELSE Has(l, kind)
  BY LoopAppend
<1>2. Len(l) \in Nat /\ \A kind : \A i \in Has(l, kind) : i < Len(l) + 1
  BY DEF Has
<1>3. CASE task.kind = "append"
  BY <1>1, <1>2, <1>3 DEF InLoopOrder
<1>4. CASE task.kind = "snapshot"
  BY <1>1, <1>2, <1>4 DEF InLoopOrder
<1>5. CASE task.kind \notin {"append", "snapshot"}
  BY <1>1, <1>5 DEF InLoopOrder
<1> QED
  BY <1>3, <1>4, <1>5

LEMMA CurrentType ==
  ASSUME SessionType, host.pc \in Amending
  PROVE  /\ host.attr \in 1 .. Len(pending) /\ Current \in Entries
         /\ Current.name \in Names /\ Current.file \in Files
<1>1. pending \in Seq(Entries) /\ host.attr \in 1 .. Len(pending)
  BY DEF SessionType, HostType, PendingType
<1>2. Current \in Entries
  BY <1>1 DEF Current
<1> QED
  BY <1>1, <1>2 DEF Entries

LEMMA TasksAre ==
  /\ \A kind \in Kinds : Task(kind) \in Tasks
  /\ \A a \in Appends : [Task("append") EXCEPT !.appends = a] = [kind |-> "append", appends |-> a]
  /\ \A a \in Appends : [kind |-> "append", appends |-> a] \in Tasks
  /\ \A kind \in Kinds : Task(kind).kind = kind /\ Task(kind).appends = NoUnits
BY NoUnitsAre DEF Task, Tasks, Kinds

LEMMA IdleType == Idle \in Hosts /\ Opening \in Hosts /\ NoChain \in Chains
<1>1. <<>> \in Seq(Steps)
  OBVIOUS
<1>2. Idle \in Hosts
  BY <1>1, NoUnitsAre DEF Idle, Hosts, Places
<1>3. Opening \in Hosts
  BY <1>2 DEF Opening, Hosts, Places
<1>4. NoChain \in Chains
  BY BaseMaps DEF NoChain, Chains
<1> QED
  BY <1>2, <1>3, <1>4

LEMMA AskedType == \A d : Asked(d) \subseteq Trees
BY MutableSessionAssumption DEF Asked

LEMMA SliceEndIs ==
  ASSUME NEW snap \in Snaps, NEW from, NEW n
  PROVE  SliceEnd(snap, from, n) \in 0 .. Len(Units)
<1> DEFINE points == [u \in DOMAIN snap |-> IF Amendable(snap[u], n) THEN Len(KeysOf(snap[u])) ELSE 0]
           full == {k \in DOMAIN snap :
                      k > from /\ SumFunctionOnSet(points, {u \in DOMAIN snap : from < u /\ u <= k}) >= PassPoints}
           ends == full \cup {Len(Units)}
<1>1. full \subseteq 1 .. Len(Units)
  BY MapsHold, UnitsAre
<1>2. SliceEnd(snap, from, n) = Min(ends)
  BY DEF SliceEnd
<1> HIDE DEF full
<1>3. ends \subseteq 0 .. Len(Units) /\ ends \subseteq Nat /\ ends # {}
  <2>1. Len(Units) \in Nat
    BY UnitsAre
  <2>2. \A k \in full : k \in 0 .. Len(Units) /\ k \in Nat
    BY <1>1, <2>1
  <2>3. Len(Units) \in 0 .. Len(Units)
    BY <2>1
  <2> QED
    BY <2>1, <2>2, <2>3
<1> HIDE DEF ends
<1> QED
  BY <1>2, <1>3, Least

LEMMA LaunchType ==
  ASSUME NEW c \in Chains, NEW ts \in Registries, units \in Maps, LaunchChain(c, ts)
  PROVE  chain' \in Chains /\ trees' \in Registries
<1>1. CASE c.step # "off"
  BY <1>1 DEF LaunchChain, Chains
<1>2. CASE c.step = "off"
  <2>1. /\ chain' = [c EXCEPT !.step = "trees", !.trees = ts.dirty, !.units = units, !.rerun = FALSE]
        /\ trees' = [ts EXCEPT !.dirty = {}, !.final = IF mutable THEN @ ELSE @ \cup ts.loaded]
    BY <1>2 DEF LaunchChain
  <2>2. ts.dirty \subseteq Trees /\ ts.loaded \subseteq Trees /\ ts.final \subseteq Trees
    BY DEF Registries
  <2>3. chain' \in Chains
    BY <2>1, <2>2 DEF Chains
  <2>4. trees' \in Registries
    BY <2>1, <2>2 DEF Registries
  <2> QED
    BY <2>3, <2>4
<1> QED
  BY <1>1, <1>2

LEMMA InitType == ASSUME Init PROVE SessionType
<1>1. StoresType /\ TreesType /\ ChainType
  BY BaseMaps, IdleType, MutableSessionAssumption DEF Init, StoresType, TreesType, ChainType, Disks, Loads, Registries, Registry
<1>2. HostType /\ PendingType /\ LoopType
  <2>1. host = Opening /\ pending = <<>> /\ loop = <<>> /\ Opening.pc = "resident"
    BY DEF Init, Opening, Idle
  <2>2. Affordable(pending, used.calls)
    BY <2>1 DEF Affordable
  <2> QED
    BY <2>1, <2>2, IdleType DEF HostType, PendingType, LoopType, Amending
<1>3. UploadsType /\ GhostsType
  BY MutableSessionAssumption DEF Init, NoBands, UploadsType, Destinations, GhostsType, Tolds, Uses
<1> QED
  BY <1>1, <1>2, <1>3 DEF SessionType

LEMMA CallsType ==
  ASSUME SessionType, Calls
  PROVE  SessionType'
<1> USE DEF SessionType
<1>0. /\ host \in Hosts /\ pending \in Seq(Entries) /\ loop \in Seq(Tasks) /\ used \in Uses
      /\ used.calls \in Nat /\ MaxCalls \in Nat /\ 0 \in 0 .. MaxCalls
  BY MutableSessionAssumption DEF HostType, PendingType, LoopType, GhostsType, Uses
<1>1. ASSUME NEW n \in Names, AddAttribute(n) PROVE SessionType'
  <2> DEFINE entry == [name |-> n, file |-> <<>>, late |-> <<>>, open |-> TRUE]
  <2>1. entry \in Entries /\ entry.file = <<>> /\ entry.late = <<>>
    BY FilesAre DEF Entries
  <2>2. pending' = Append(pending, entry)
    BY <1>1 DEF AddAttribute
  <2>3. /\ used' = [used EXCEPT !.calls = @ + 1] /\ used.calls < MaxCalls
        /\ UNCHANGED <<units, trees, mutable, loop, loads, chain, located, disk, host, uploads, given, told>>
        /\ host.pc = "idle"
    BY <1>1 DEF AddAttribute, Called
  <2> HIDE DEF entry
  <2>4. used' \in Uses /\ used'.calls = used.calls + 1
    BY <1>0, <2>3 DEF Uses
  <2>5. pending' \in Seq(Entries) /\ Len(pending') = Len(pending) + 1
    BY <1>0, <2>1, <2>2
  <2>6. Affordable(pending', used'.calls)
    <3> SUFFICES ASSUME NEW i \in 1 .. Len(pending')
                 PROVE  Afforded(pending'[i].file, used'.calls) /\ Afforded(pending'[i].late, used'.calls)
      BY DEF Affordable
    <3>1. CASE i = Len(pending) + 1
      <4>1. pending'[i] = entry
        BY <1>0, <2>2, <3>1
      <4>2. <<>> \in Written[0] /\ 0 \in 0 .. used'.calls
        BY <1>0, <2>4, FilesAre
      <4> QED
        BY <2>1, <4>1, <4>2 DEF Afforded
    <3>2. CASE i \in 1 .. Len(pending)
      <4>1. pending'[i] = pending[i]
        BY <1>0, <2>2, <3>2
      <4>2. Afforded(pending[i].file, used.calls) /\ Afforded(pending[i].late, used.calls)
        BY <3>2 DEF PendingType, Affordable
      <4>3. 0 .. used.calls \subseteq 0 .. used'.calls
        BY <1>0, <2>4
      <4> QED
        BY <4>1, <4>2, <4>3 DEF Afforded
    <3> QED
      BY <1>0, <2>5, <3>1, <3>2
  <2>7. HostType'
    BY <2>3 DEF HostType, Amending
  <2>8. PendingType' /\ GhostsType'
    BY <2>3, <2>4, <2>5, <2>6 DEF PendingType, GhostsType
  <2> QED
    BY <2>3, <2>7, <2>8 DEF StoresType, TreesType, LoopType, ChainType, UploadsType
<1>2. ASSUME NEW i \in DOMAIN pending, NEW batch \in Batches, AddData(i, batch) PROVE SessionType'
  <2>1. /\ used' = [used EXCEPT !.calls = @ + 1] /\ used.calls < MaxCalls
        /\ UNCHANGED <<units, trees, mutable, loop, loads, chain, located, disk, host, uploads, given, told>>
        /\ host.pc = "idle"
    BY <1>2 DEF AddData, Called
  <2>2. used' \in Uses /\ used'.calls = used.calls + 1
    BY <1>0, <2>1 DEF Uses
  <2>3. ASSUME NEW file, Afforded(file, used.calls)
        PROVE  /\ file \in Files /\ Afforded(file, used'.calls)
               /\ file \o batch \in Files /\ Afforded(file \o batch, used'.calls)
    <3>1. PICK n \in 0 .. used.calls : file \in Written[n]
      BY <2>3 DEF Afforded
    <3>2. /\ n \in 0 .. MaxCalls /\ n + 1 \in 0 .. MaxCalls /\ n # MaxCalls
          /\ n \in 0 .. used'.calls /\ n + 1 \in 0 .. used'.calls
      BY <1>0, <2>1, <2>2
    <3>3. file \o batch \in Written[n + 1]
      BY <3>1, <3>2, FilesAre
    <3> QED
      BY <3>1, <3>2, <3>3, FilesAre DEF Afforded
  <2>4. \A j \in 1 .. Len(pending) : /\ pending[j] \in Entries
                                     /\ Afforded(pending[j].file, used.calls) /\ Afforded(pending[j].late, used.calls)
    BY <1>0 DEF PendingType, Affordable
  <2> DEFINE now == IF pending[i].open THEN [pending[i] EXCEPT !.file = @ \o batch]
                                       ELSE [pending[i] EXCEPT !.late = @ \o batch]
  <2>5. i \in 1 .. Len(pending) /\ pending' = [pending EXCEPT ![i] = now]
    <3>1. CASE pending[i].open
      BY <1>0, <1>2, <3>1 DEF AddData
    <3>2. CASE ~pending[i].open
      BY <1>0, <1>2, <3>2 DEF AddData
    <3> QED
      BY <3>1, <3>2
  <2>6. now \in Entries /\ Afforded(now.file, used'.calls) /\ Afforded(now.late, used'.calls)
    <3>1. pending[i] \in Entries
      BY <2>4, <2>5
    <3>2. /\ Afforded(pending[i].file, used'.calls) /\ Afforded(pending[i].late, used'.calls)
          /\ pending[i].file \o batch \in Files /\ Afforded(pending[i].file \o batch, used'.calls)
          /\ pending[i].late \o batch \in Files /\ Afforded(pending[i].late \o batch, used'.calls)
      BY <2>3, <2>4, <2>5
    <3> QED
      BY <3>1, <3>2 DEF Entries
  <2> HIDE DEF now
  <2>7. pending' \in Seq(Entries) /\ Len(pending') = Len(pending) /\ pending'[i] = now
        /\ \A j \in 1 .. Len(pending) : j # i => pending'[j] = pending[j]
    BY <1>0, <2>5, <2>6
  <2>8. Affordable(pending', used'.calls)
    <3> SUFFICES ASSUME NEW j \in 1 .. Len(pending')
                 PROVE  Afforded(pending'[j].file, used'.calls) /\ Afforded(pending'[j].late, used'.calls)
      BY DEF Affordable
    <3> QED
      BY <2>3, <2>4, <2>6, <2>7
  <2>9. HostType'
    BY <2>1 DEF HostType, Amending
  <2>10. PendingType' /\ GhostsType'
    BY <2>1, <2>2, <2>7, <2>8 DEF PendingType, GhostsType
  <2> QED
    BY <2>1, <2>9, <2>10 DEF StoresType, TreesType, LoopType, ChainType, UploadsType
<1>4. CASE CommitAttributes
  <2>1. loop' \in Seq(Tasks)
    BY <1>0, <1>4, TasksAre DEF CommitAttributes, Kinds
  <2>2. host' \in Hosts /\ host'.pc = "resident"
    BY <1>4, IdleType DEF CommitAttributes, Hosts, Places
  <2>3. used' \in Uses /\ used'.calls = used.calls + 1
    BY <1>0, <1>4 DEF CommitAttributes, Called, Uses
  <2>4. 0 .. used.calls \subseteq 0 .. used'.calls
    BY <1>0, <2>3
  <2>5. PendingType'
    BY <1>4, <2>4 DEF CommitAttributes, PendingType, Affordable, Afforded
  <2> QED
    BY <1>4, <2>1, <2>2, <2>3, <2>5
    DEF CommitAttributes, StoresType, TreesType, LoopType, ChainType, HostType, Amending, UploadsType, GhostsType
<1>5. CASE Finalize
  <2>1. <<"clear", "checkpoint">> \o Quiesce \in Seq(Steps)
    BY DEF Quiesce, Steps
  <2>2. host' \in Hosts /\ host'.pc = "plan"
    BY <1>5, <2>1, IdleType DEF Finalize, Hosts, Places
  <2> QED
    BY <1>5, <2>2
    DEF Finalize, StoresType, TreesType, LoopType, ChainType, HostType, Amending, UploadsType, GhostsType, PendingType
<1> QED
  BY <1>1, <1>2, <1>4, <1>5 DEF Calls

\* A blob that is lost leaves the host where it is, with the slice it had but for the values of one unit.
LEMMA BlobLostIs ==
  ASSUME SessionType, BlobLost
  PROVE  /\ host.pc = "write" /\ host' \in Hosts /\ host'.pc = "write" /\ host'.call = host.call /\ host'.todo = host.todo
         /\ host'.attr = host.attr /\ host'.snap = host.snap /\ host'.cursor = host.cursor /\ host'.names = host.names
         /\ DOMAIN host'.slice = DOMAIN host.slice
         /\ \E u \in DOMAIN host.slice :
              /\ u \in UnitIds
              /\ \A v \in DOMAIN host.slice : v # u => host'.slice[v] = host.slice[v]
              /\ host'.slice[u].config = host.slice[u].config
              /\ host'.slice[u].slot.of = host.slice[u].slot.of /\ host'.slice[u].slot.vals = Unwritten
              /\ host'.slice[u] \in AdditionsAt(u)
              /\ given' = given \cup {[name |-> Current.name, file |-> Current.file, lost |-> {u}]}
         /\ used' = [used EXCEPT !.faults = @ + 1]
         /\ UNCHANGED <<units, trees, mutable, loop, loads, chain, located, disk, pending, uploads, told>>
<1>0. host \in Hosts /\ host.slice \in Appends /\ DOMAIN host.slice \subseteq UnitIds /\ host.pc = "write"
  <2>1. host \in Hosts
    BY DEF SessionType, HostType
  <2>2. host.slice \in Appends
    BY <2>1 DEF Hosts
  <2> QED
    BY <2>1, <2>2, MapsHold DEF BlobLost
<1>1. PICK u \in DOMAIN host.slice :
        /\ host' = [host EXCEPT !.slice[u].slot.vals = Unwritten]
        /\ given' = given \cup {[name |-> Current.name, file |-> Current.file, lost |-> {u}]}
  BY DEF BlobLost
<1> DEFINE slice == [host.slice EXCEPT ![u].slot.vals = Unwritten]
<1>2. host' = [host EXCEPT !.slice = slice]
  BY <1>1
<1>3. host.slice[u] \in AdditionsAt(u) /\ u \in UnitIds
  BY <1>0, MapsHold
<1>4. /\ DOMAIN slice = DOMAIN host.slice
      /\ \A v \in DOMAIN host.slice : v # u => slice[v] = host.slice[v]
      /\ slice[u] = [host.slice[u] EXCEPT !.slot.vals = Unwritten]
      /\ slice = [v \in DOMAIN host.slice |-> slice[v]]
  OBVIOUS
<1>5. /\ slice[u].config = host.slice[u].config /\ slice[u].slot.of = host.slice[u].slot.of
      /\ slice[u].slot.vals = Unwritten /\ slice[u] \in Addition
  <2> DEFINE old == host.slice[u]
  <2>1. old \in [config : Seq(Int), slot : Slots] /\ slice[u] = [old EXCEPT !.slot.vals = Unwritten]
    BY <1>3, <1>4 DEF AdditionsAt, Addition
  <2>2. Unwritten \in Values
    BY DEF Unwritten, Values
  <2> HIDE DEF old, slice
  <2>3. old.slot \in [of : Int, vals : Values]
    BY <2>1 DEF Slots
  <2>4. [old.slot EXCEPT !.vals = Unwritten] \in [of : Int, vals : Values]
    BY <2>2, <2>3
  <2>5. slice[u] = [old EXCEPT !.slot = [old.slot EXCEPT !.vals = Unwritten]]
    BY <2>1
  <2>6. slice[u].config = old.config /\ slice[u].slot = [old.slot EXCEPT !.vals = Unwritten]
    BY <2>1, <2>5
  <2>7. slice[u] \in [config : Seq(Int), slot : Slots]
    BY <2>1, <2>4, <2>5 DEF Slots
  <2> QED
    BY <2>3, <2>6, <2>7 DEF Addition, old
<1>6. slice[u] \in AdditionsAt(u)
  BY <1>3, <1>5 DEF AdditionsAt
<1> HIDE DEF slice
<1>7. \A v \in DOMAIN host.slice : slice[v] \in AdditionsAt(v)
  BY <1>0, <1>4, <1>6, MapsHold
<1>8. slice \in Appends
  BY <1>0, <1>4, <1>7, AppendsAre
<1>9. /\ host' \in Hosts /\ host'.pc = "write" /\ host'.call = host.call /\ host'.todo = host.todo
      /\ host'.attr = host.attr /\ host'.snap = host.snap /\ host'.cursor = host.cursor /\ host'.names = host.names
      /\ host'.slice = slice
  BY <1>0, <1>2, <1>8 DEF Hosts
<1> QED
  BY <1>0, <1>1, <1>3, <1>4, <1>5, <1>6, <1>9 DEF BlobLost, Fault

LEMMA HostType1 ==
  ASSUME SessionType, Resident \/ NextAttribute \/ Joined \/ Slice \/ SliceFails \/ BlobLost \/ WriteAttributes
  PROVE  SessionType'
<1> USE DEF SessionType
<1>0. /\ host \in Hosts /\ pending \in Seq(Entries) /\ loop \in Seq(Tasks) /\ used \in Uses
      /\ used.calls \in Nat /\ MaxCalls \in Nat /\ 0 \in 0 .. MaxCalls
  BY MutableSessionAssumption DEF HostType, PendingType, LoopType, GhostsType, Uses
<1>1. CASE Resident
  <2>1. host' \in Hosts /\ host'.pc \notin Amending
    BY <1>0, <1>1, IdleType DEF Resident, Hosts, Places, Amending, Idle
  <2> QED
    BY <1>1, <2>1
    DEF Resident, StoresType, TreesType, LoopType, ChainType, HostType, UploadsType, GhostsType, PendingType
<1>2. CASE NextAttribute
  <2> DEFINE i == host.attr + 1
  <2>1. /\ i \in 1 .. Len(pending) /\ pending[i] \in Entries
        /\ UNCHANGED <<units, trees, mutable, loads, chain, located, disk, uploads, told, used>>
    BY <1>0, <1>2 DEF NextAttribute, Hosts
  <2>2. CASE pending[i].late # <<>>
    <3>1. host' = Idle /\ UNCHANGED <<pending, loop, given>>
      BY <1>2, <2>2 DEF NextAttribute
    <3>2. host' \in Hosts /\ host'.pc \notin Amending
      BY <3>1, IdleType DEF Idle, Amending
    <3> QED
      BY <2>1, <3>1, <3>2
      DEF StoresType, TreesType, LoopType, ChainType, HostType, UploadsType, GhostsType, PendingType
  <2>3. CASE pending[i].late = <<>>
    <3>1. /\ host' = [host EXCEPT !.attr = i, !.pc = "snapshot"]
          /\ pending' = [pending EXCEPT ![i].open = FALSE]
          /\ loop' = Append(loop, Task("snapshot"))
          /\ given' = given \cup {[name |-> pending[i].name, file |-> pending[i].file, lost |-> {}]}
      BY <1>2, <2>3 DEF NextAttribute
    <3>0. i \in Nat
      BY <1>0 DEF Hosts
    <3> DEFINE now == [pending[i] EXCEPT !.open = FALSE]
    <3>2. pending' = [pending EXCEPT ![i] = now] /\ now \in Entries /\ now.file = pending[i].file
          /\ now.late = pending[i].late
      BY <2>1, <3>1 DEF Entries
    <3> HIDE DEF now, i
    <3>3. pending' \in Seq(Entries) /\ Len(pending') = Len(pending) /\ pending'[i] = now
          /\ \A j \in 1 .. Len(pending) : j # i => pending'[j] = pending[j]
      BY <1>0, <2>1, <3>2
    <3>4. Affordable(pending', used'.calls)
      BY <2>1, <3>2, <3>3 DEF Affordable, PendingType
    <3>5. host' \in Hosts /\ host'.attr = i
      BY <1>0, <3>0, <3>1 DEF Hosts, Places
    <3>6. HostType'
      BY <2>1, <3>3, <3>5 DEF HostType
    <3>7. LoopType'
      BY <1>0, <3>1, TasksAre DEF LoopType, Kinds
    <3>8. [name |-> pending[i].name, file |-> pending[i].file, lost |-> {}] \in Givens
      BY <2>1 DEF Entries, Givens
    <3>9. GhostsType'
      BY <2>1, <3>1, <3>8 DEF GhostsType
    <3> QED
      BY <2>1, <3>3, <3>4, <3>6, <3>7, <3>9
      DEF StoresType, TreesType, ChainType, UploadsType, PendingType
  <2> QED
    BY <2>2, <2>3
<1>3. CASE Joined
  <2>0. \A i \in DOMAIN pending : pending[i] \in Entries
    BY <1>0
  <2>1. \A i \in DOMAIN pending : pending[i].name \in Names
    BY <2>0 DEF Entries
  <2>2. Declared \subseteq Names
    BY <2>1 DEF Declared
  <2>3. <<"checkpoint">> \o Quiesce \in Seq(Steps)
    BY DEF Quiesce, Steps
  <2>4. host' \in Hosts /\ host'.pc \notin Amending
    BY <1>3, <2>2, <2>3, IdleType DEF Joined, Hosts, Places, Amending
  <2>5. PendingType'
    BY <1>3 DEF Joined, PendingType, Affordable
  <2> QED
    BY <1>3, <2>4, <2>5
    DEF Joined, StoresType, TreesType, LoopType, ChainType, HostType, UploadsType, GhostsType
<1>4. CASE Slice
  <2>1. host.snap \in Snaps /\ host.pc \in Amending
    BY <1>0, <1>4 DEF Hosts, Slice, Amending
  <2>2. \A u \in DOMAIN host.snap : u \in UnitIds /\ host.snap[u] \in UnitsAt(u)
    BY <2>1, MapsHold
  <2> DEFINE slice == [u \in Rest |-> Amended(host.snap[u])]
             end == SliceEnd(host.snap, host.cursor, Current.name)
  <2>3. Rest \subseteq DOMAIN host.snap /\ Rest \in SUBSET UnitIds
    BY <2>2 DEF Rest
  <2>4. \A u \in Rest : Amended(host.snap[u]) \in AdditionsAt(u)
    BY <2>1, <2>2, <2>3, CurrentType, AmendedAt
  <2>5. slice \in Appends
    <3>1. slice = [u \in Rest |-> slice[u]] /\ \A u \in Rest : slice[u] \in AdditionsAt(u)
      BY <2>4
    <3> HIDE DEF slice
    <3> QED
      BY <2>3, <3>1, AppendsAre
  <2>6. end \in Nat
    <3>1. end \in 0 .. Len(Units)
      BY <2>1, SliceEndIs
    <3> HIDE DEF end
    <3> QED
      BY <3>1, UnitsAre
  <2>7. host' = IF Scanned THEN [host EXCEPT !.pc = "attribute"]
                ELSE [host EXCEPT !.cursor = end, !.pc = IF Rest = {} THEN "slice" ELSE "write", !.slice = slice]
    BY <1>4 DEF Slice
  <2> HIDE DEF slice, end
  <2>8. host' \in Hosts /\ host'.attr = host.attr
    BY <1>0, <2>5, <2>6, <2>7 DEF Hosts, Places
  <2>9. HostType'
    BY <1>4, <2>1, <2>8 DEF HostType, Slice
  <2> QED
    BY <1>4, <2>9
    DEF Slice, StoresType, TreesType, LoopType, ChainType, UploadsType, GhostsType, PendingType
<1>5. CASE SliceFails
  <2>1. host' \in Hosts /\ host'.pc \notin Amending
    BY <1>5, IdleType DEF SliceFails, Idle, Amending
  <2>2. GhostsType' /\ used'.calls = used.calls
    <3>1. used' = [used EXCEPT !.faults = @ + 1] /\ UNCHANGED <<given, told>>
      BY <1>5 DEF SliceFails, Fault
    <3>2. used \in Uses
      BY <1>0
    <3>3. used.faults + 1 \in Nat
      BY <3>2 DEF Uses
    <3>4. used' \in Uses /\ used'.calls = used.calls
      BY <3>1, <3>2, <3>3 DEF Uses
    <3> QED
      BY <1>0, <3>1, <3>4 DEF GhostsType
  <2> QED
    BY <1>5, <2>1, <2>2
    DEF SliceFails, StoresType, TreesType, LoopType, ChainType, HostType, UploadsType, PendingType
<1>7. CASE BlobLost
  <2>1. /\ host' \in Hosts /\ host'.attr = host.attr /\ host.pc = "write" /\ used' = [used EXCEPT !.faults = @ + 1]
        /\ UNCHANGED <<units, trees, mutable, loop, loads, chain, located, disk, pending, uploads, told>>
    BY <1>7, BlobLostIs
  <2>2. HostType'
    BY <2>1 DEF HostType, Amending
  <2>3. GhostsType' /\ used'.calls = used.calls
    <3>1. PICK u \in UnitIds : given' = given \cup {[name |-> Current.name, file |-> Current.file, lost |-> {u}]}
      BY <1>7, BlobLostIs
    <3>2. Current.name \in Names /\ Current.file \in Files
      BY <2>1, CurrentType DEF Amending
    <3>3. used.faults + 1 \in Nat
      BY <1>0 DEF Uses
    <3>4. used' \in Uses /\ used'.calls = used.calls
      BY <1>0, <2>1, <3>3 DEF Uses
    <3>5. given' \subseteq Givens
      BY <3>1, <3>2 DEF GhostsType, Givens
    <3> QED
      BY <2>1, <3>4, <3>5 DEF GhostsType
  <2> QED
    BY <2>1, <2>2, <2>3 DEF StoresType, TreesType, LoopType, ChainType, UploadsType, PendingType
<1>6. CASE WriteAttributes
  <2>1. host' \in Hosts /\ host'.attr = host.attr
    BY <1>0, <1>6, NoUnitsAre DEF WriteAttributes, Hosts, Places
  <2>2. HostType'
    BY <1>6, <2>1 DEF HostType, WriteAttributes, Amending
  <2>3. host.slice \in Appends
    BY <1>0 DEF Hosts
  <2>4. LoopType'
    <3>1. PICK task \in Tasks : loop' = Append(loop, task)
      BY <1>6, <2>3, TasksAre DEF WriteAttributes
    <3> QED
      BY <1>0, <3>1 DEF LoopType
  <2> QED
    BY <1>6, <2>2, <2>4
    DEF WriteAttributes, StoresType, TreesType, ChainType, UploadsType, GhostsType, PendingType
<1> QED
  BY <1>1, <1>2, <1>3, <1>4, <1>5, <1>6, <1>7

LEMMA HostType2 ==
  ASSUME SessionType, TimesOut \/ Post \/ Wait \/ Return \/ CachePressure
  PROVE  SessionType'
<1> USE DEF SessionType
<1>0. /\ host \in Hosts /\ loop \in Seq(Tasks) /\ used \in Uses /\ host.todo \in Seq(Steps)
  BY DEF HostType, LoopType, GhostsType, Hosts
<1>1. CASE TimesOut
  <2>1. host' \in Hosts /\ host'.pc \notin Amending /\ mutable' \in BOOLEAN
    BY <1>0, <1>1, IdleType DEF TimesOut, Hosts, Places, Idle, Amending, StoresType
  <2>2. GhostsType' /\ used'.calls = used.calls
    BY <1>0, <1>1 DEF TimesOut, Fault, GhostsType, Uses
  <2>3. \A i \in DOMAIN loop : loop[i] \in Tasks
    BY <1>0
  <2>4. Task("unheard") \in Tasks
    BY TasksAre DEF Kinds
  <2>5. loop' = [i \in 1 .. Len(loop) |-> IF loop[i].kind = "snapshot" THEN Task("unheard") ELSE loop[i]]
    BY <1>0, <1>1 DEF TimesOut
  <2>6. LoopType'
    BY <1>0, <2>3, <2>4, <2>5 DEF LoopType
  <2> QED
    BY <1>1, <2>1, <2>2, <2>6
    DEF TimesOut, StoresType, TreesType, ChainType, HostType, UploadsType, PendingType
<1>2. CASE Post
  <2>1. Tail(host.todo) \in Seq(Steps)
    BY <1>0, <1>2 DEF Post, Doing
  <2>2. host' \in Hosts /\ host'.pc \notin Amending
    BY <1>0, <1>2, <2>1 DEF Post, Goes, Hosts, Places, Amending
  <2>3. LoopType'
    BY <1>0, <1>2, TasksAre DEF Post, LoopType, Kinds
  <2> QED
    BY <1>2, <2>2, <2>3
    DEF Post, StoresType, TreesType, ChainType, HostType, UploadsType, PendingType, GhostsType
<1>3. CASE Wait
  <2>1. host.todo # <<>> => Tail(host.todo) \in Seq(Steps)
    BY <1>0
  <2>2. Settled \in Seq(Steps)
    <3>1. <<"checkpoint", "checkpoint">> \in Seq(Steps) /\ <<>> \in Seq(Steps)
      BY DEF Steps
    <3> QED
      BY <3>1 DEF Settled
  <2>3. host' \in Hosts /\ host'.pc \notin Amending
    BY <1>0, <1>3, <2>1, <2>2 DEF Wait, Doing, Goes, Hosts, Places, Amending
  <2> QED
    BY <1>3, <2>3
    DEF Wait, StoresType, TreesType, ChainType, HostType, UploadsType, PendingType, GhostsType, LoopType
<1>4. CASE Return
  <2>1. host' \in Hosts /\ host'.pc \notin Amending
    BY <1>4, IdleType DEF Return, Idle, Amending
  <2>2. GhostsType'
    BY <1>0, <1>4 DEF Return, GhostsType, Tolds, Hosts
  <2> QED
    BY <1>4, <2>1, <2>2
    DEF Return, StoresType, TreesType, ChainType, HostType, UploadsType, PendingType, LoopType
<1>5. CASE CachePressure
  <2>1. GhostsType' /\ used'.calls = used.calls
    BY <1>0, <1>5 DEF CachePressure, GhostsType, Uses
  <2>2. LoopType'
    BY <1>0, <1>5, TasksAre DEF CachePressure, LoopType, Kinds
  <2> QED
    BY <1>5, <2>1, <2>2
    DEF CachePressure, StoresType, TreesType, ChainType, HostType, UploadsType, PendingType
<1> QED
  BY <1>1, <1>2, <1>3, <1>4, <1>5

LEMMA LoopTasksType ==
  ASSUME SessionType, LoopControl, TreeLoop
  PROVE  SessionType'
<1> USE DEF SessionType
<1> DEFINE task == Head(loop)
<1>0. /\ host \in Hosts /\ loop \in Seq(Tasks) /\ loop # <<>> /\ loop' = Tail(loop)
      /\ units \in Maps /\ located \in Maps /\ trees \in Registries /\ chain \in Chains /\ loads \subseteq Loads
      /\ UNCHANGED <<located, disk, pending, uploads, given, told, used>>
  BY DEF TreeLoop, HostType, LoopType, StoresType, TreesType, ChainType
<1>1. LoopType' /\ task \in Tasks /\ task.appends \in Appends
  <2>1. Tail(loop) \in Seq(Tasks) /\ task \in Tasks
    BY <1>0
  <2> HIDE DEF task
  <2>2. task.appends \in Appends
    BY <2>1 DEF Tasks
  <2> QED
    BY <1>0, <2>1, <2>2 DEF LoopType
<1> HIDE DEF task
<1>2. CASE HandleLoad
  <2>1. TreesType'
    BY <1>0, <1>2 DEF HandleLoad, TreesType, Registries
  <2>2. loads' \subseteq Loads
    BY <1>0, <1>2 DEF HandleLoad, Loads
  <2> QED
    BY <1>0, <1>1, <1>2, <2>1, <2>2
    DEF HandleLoad, StoresType, ChainType, HostType, UploadsType, PendingType, GhostsType
<1>3. CASE HandleSnapshot
  <2>1. Snapshot \in Snaps
    <3> DEFINE S == UnitsOf(trees.loaded)
               f == [u \in S |-> units[u]]
    <3>1. S \in SUBSET UnitIds
      BY DEF UnitsOf
    <3> HIDE DEF S
    <3>2. f = [u \in S |-> f[u]] /\ \A u \in S : f[u] \in UnitsAt(u)
      BY <1>0, <3>1, MapsHold
    <3> HIDE DEF f
    <3>3. f \in Snaps
      BY <3>1, <3>2, SnapIs
    <3> QED
      BY <3>3 DEF f, S, Snapshot
  <2>2. host' \in Hosts /\ host'.attr = host.attr
    BY <1>0, <1>3, <2>1 DEF HandleSnapshot, Hosts, Places
  <2>3. HostType'
    <3>1. host.pc = "snapshot" /\ pending' = pending
      BY <1>0, <1>3, LoopHead DEF HandleSnapshot, LoopControl
    <3> QED
      BY <2>2, <3>1 DEF HostType, Amending
  <2> QED
    BY <1>0, <1>1, <1>3, <2>3
    DEF HandleSnapshot, StoresType, TreesType, ChainType, HostType, UploadsType, PendingType, GhostsType
<1>4. CASE HandleAppend
  <2>1. units' \in Maps
    <3> DEFINE f == [u \in UnitIds |-> IF u \in Landing THEN Appended(units[u], task.appends[u]) ELSE units[u]]
    <3>1. \A u \in Landing : u \in DOMAIN task.appends /\ u \in UnitIds
      BY DEF Landing, task, UnitsOf
    <3>2. \A u \in Landing : task.appends[u] \in AdditionsAt(u)
      BY <1>1, <3>1, MapsHold
    <3>3. \A u \in UnitIds : units[u] \in UnitsAt(u)
      BY <1>0, MapsHold
    <3>4. \A u \in Landing : Appended(units[u], task.appends[u]) \in UnitsAt(u)
      BY <3>1, <3>2, <3>3, AppendedAt
    <3>5. f = [u \in UnitIds |-> f[u]] /\ \A u \in UnitIds : f[u] \in UnitsAt(u)
      BY <3>3, <3>4
    <3>6. units' = f
      BY <1>4 DEF HandleAppend, AllLanded, task
    <3> HIDE DEF f
    <3> QED
      BY <3>5, <3>6, UnitMapIs
  <2>2. {Units[u].tree : u \in Landing} \subseteq Trees
    BY UnitsAre DEF Landing, UnitsOf
  <2>3. TreesType'
    BY <1>0, <1>4, <2>2 DEF HandleAppend, TreesType, Registries
  <2>4. host' \in Hosts /\ host'.attr = host.attr
    BY <1>0, <1>4 DEF HandleAppend, Hosts, Places
  <2>5. HostType'
    BY <1>0, <1>4, <2>4 DEF HandleAppend, HostType, Amending
  <2> QED
    BY <1>0, <1>1, <1>4, <2>1, <2>3, <2>5
    DEF HandleAppend, StoresType, ChainType, UploadsType, PendingType, GhostsType
<1>5. CASE HandleClear
  <2>1. host' \in Hosts /\ (host'.pc = host.pc \/ host'.pc = "plan") /\ host'.attr = host.attr
    BY <1>0, <1>5 DEF HandleClear, Hosts, Places
  <2>2. HostType'
    BY <1>0, <2>1 DEF HostType, Amending
  <2> QED
    BY <1>0, <1>1, <1>5, <2>2
    DEF HandleClear, StoresType, TreesType, ChainType, UploadsType, PendingType, GhostsType
<1>6. CASE HandleUnheard
  BY <1>0, <1>1, <1>6
  DEF HandleUnheard, StoresType, TreesType, ChainType, HostType, UploadsType, PendingType, GhostsType
<1>7. CASE HandleCheckpoint
  <2>1. chain' \in Chains /\ trees' \in Registries
    BY <1>0, <1>7, LaunchType DEF HandleCheckpoint
  <2> QED
    BY <1>0, <1>1, <1>7, <2>1
    DEF HandleCheckpoint, StoresType, TreesType, ChainType, HostType, UploadsType, PendingType, GhostsType
<1> QED
  BY <1>2, <1>3, <1>4, <1>5, <1>6, <1>7 DEF TreeLoop

LEMMA ChainTasksType ==
  ASSUME SessionType, DeserializeTree \/ Chain \/ ChainFails
  PROVE  SessionType'
<1> USE DEF SessionType
<1>0. /\ host \in Hosts /\ uploads \in Destinations /\ used \in Uses
      /\ units \in Maps /\ located \in Maps /\ trees \in Registries /\ chain \in Chains /\ loads \subseteq Loads
      /\ mutable \in BOOLEAN /\ chain.units \in Maps /\ disk \in Disks
  BY DEF HostType, StoresType, TreesType, ChainType, UploadsType, GhostsType, Chains
<1>1. CASE DeserializeTree
  <2>1. PICK load \in loads :
          /\ loads' = loads \ {load}
          /\ units' = Over(units, {load.tree}, load.units)
          /\ trees' = [trees EXCEPT !.loaded = @ \cup {load.tree}, !.dirty = @ \ {load.tree}]
          /\ UNCHANGED <<mutable, loop, chain, located, disk, host, pending, uploads, given, told, used>>
    BY <1>1 DEF DeserializeTree
  <2>2. load.tree \in Trees /\ load.units \in Maps
    BY <1>0 DEF Loads
  <2>3. units' \in Maps
    BY <1>0, <2>1, <2>2, OverMaps
  <2>4. TreesType'
    BY <1>0, <2>1, <2>2 DEF TreesType, Registries
  <2>5. loads' \subseteq Loads
    BY <1>0, <2>1
  <2> QED
    BY <1>0, <2>1, <2>3, <2>4, <2>5
    DEF StoresType, LoopType, ChainType, HostType, UploadsType, PendingType, GhostsType
<1>2. CASE TreesWritten
  <2>1. located' \in Maps
    BY <1>0, <1>2, OverMaps DEF TreesWritten
  <2>2. ChainType'
    BY <1>0, <1>2, <2>1 DEF TreesWritten, ChainType, Chains, Registries
  <2> QED
    BY <1>0, <1>2, <2>1, <2>2
    DEF TreesWritten, StoresType, TreesType, LoopType, HostType, UploadsType, PendingType, GhostsType
<1>3. CASE IndexCommitted
  <2>1. disk' \in Disks
    BY <1>0, <1>3 DEF IndexCommitted, Chains, Disks
  <2>2. ChainType'
    <3>1. chain' = [chain EXCEPT !.step = "emit", !.commits = @ + 1]
      BY <1>3 DEF IndexCommitted
    <3>2. chain.commits + 1 \in Nat
      BY <1>0 DEF Chains
    <3> QED
      BY <1>0, <3>1, <3>2 DEF ChainType, Chains
  <2> QED
    BY <1>0, <1>3, <2>1, <2>2
    DEF IndexCommitted, StoresType, TreesType, LoopType, HostType, UploadsType, PendingType, GhostsType
<1>4. CASE ChainFails
  <2>1. ChainType'
    BY <1>0, <1>4 DEF ChainFails, ChainType, Chains
  <2>2. chain.trees \subseteq Trees
    BY <1>0 DEF Chains
  <2>3. TreesType'
    BY <1>0, <1>4, <2>2 DEF ChainFails, TreesType, Registries
  <2>4. used' = [used EXCEPT !.faults = @ + 1, !.chain = @ + 1]
    BY <1>4 DEF ChainFails
  <2>5. used' \in Uses /\ used'.calls = used.calls
    <3>1. used.faults + 1 \in Nat /\ used.chain + 1 \in Nat
      BY <1>0 DEF Uses
    <3> QED
      BY <1>0, <2>4, <3>1 DEF Uses
  <2> QED
    BY <1>4, <2>1, <2>3, <2>5
    DEF ChainFails, StoresType, LoopType, HostType, UploadsType, PendingType, GhostsType
<1>5. CASE EndChain
  <2> DEFINE ships == chain.step = "emit" /\ Band.emit
             after == IF ships THEN [trees EXCEPT !.banded = @ \cup Band.trees] ELSE trees
             off == [chain EXCEPT !.step = "off"]
  <2>1. Band.trees \subseteq Trees
    BY <1>0 DEF Band, Registries
  <2>2. after \in Registries
    BY <1>0, <2>1 DEF Registries
  <2>3. off \in Chains
    BY <1>0 DEF Chains
  <2>4. /\ uploads' = IF ships THEN [uploads EXCEPT !.queue = Append(@, Band.trees), !.terminal = TRUE] ELSE uploads
        /\ IF chain.rerun THEN LaunchChain(off, after) ELSE chain' = off /\ trees' = after
        /\ host' = IF host.pc = "round" THEN [host EXCEPT !.pc = "plan"] ELSE host
        /\ UNCHANGED <<units, mutable, loop, loads, located, disk, pending, given, told, used>>
    BY <1>5 DEF EndChain
  <2>5. uploads' \in Destinations
    <3>1. CASE ships
      <4>1. uploads' = [uploads EXCEPT !.queue = Append(@, Band.trees), !.terminal = TRUE]
        BY <2>4, <3>1
      <4>2. uploads.queue \in Seq(SUBSET Trees)
        BY <1>0 DEF Destinations
      <4>3. Append(uploads.queue, Band.trees) \in Seq(SUBSET Trees)
        BY <2>1, <4>2
      <4> QED
        BY <1>0, <4>1, <4>3 DEF Destinations
    <3>2. CASE ~ships
      BY <1>0, <2>4, <3>2
    <3> QED
      BY <3>1, <3>2
  <2> HIDE DEF after, off, ships
  <2>6. chain' \in Chains /\ trees' \in Registries
    <3>1. CASE chain.rerun
      BY <1>0, <2>2, <2>3, <2>4, <3>1, LaunchType
    <3>2. CASE ~chain.rerun
      BY <2>2, <2>3, <2>4, <3>2
    <3> QED
      BY <3>1, <3>2
  <2>7. host' \in Hosts /\ (host'.pc = host.pc \/ host'.pc = "plan") /\ host'.attr = host.attr
    BY <1>0, <2>4 DEF Hosts, Places
  <2>8. HostType'
    BY <2>4, <2>7 DEF HostType, Amending
  <2> QED
    BY <2>4, <2>5, <2>6, <2>8
    DEF StoresType, TreesType, LoopType, ChainType, UploadsType, PendingType, GhostsType
<1> QED
  BY <1>1, <1>2, <1>3, <1>4, <1>5 DEF Chain

LEMMA UploaderType ==
  ASSUME SessionType, BandUploaded \/ UploadParks \/ Crash
  PROVE  SessionType'
<1> USE DEF SessionType
<1>0. uploads \in Destinations /\ used \in Uses /\ disk \in Disks
  BY DEF StoresType, UploadsType, GhostsType
<1>1. CASE BandUploaded
  <2>1. /\ uploads.queue \in Seq(SUBSET Trees) /\ uploads.queue # <<>> /\ uploads.bucket \subseteq Trees
        /\ uploads' = [uploads EXCEPT !.queue = Tail(@), !.bucket = @ \cup Head(uploads.queue), !.complete = TRUE]
    BY <1>0, <1>1 DEF BandUploaded, Destinations
  <2>2. Tail(uploads.queue) \in Seq(SUBSET Trees) /\ Head(uploads.queue) \subseteq Trees
    BY <2>1
  <2>3. uploads' \in Destinations
    BY <1>0, <2>1, <2>2 DEF Destinations
  <2> QED
    BY <1>1, <2>3
    DEF BandUploaded, StoresType, TreesType, LoopType, ChainType, HostType, UploadsType, PendingType, GhostsType
<1>2. CASE UploadParks
  <2>1. uploads' \in Destinations
    BY <1>0, <1>2 DEF UploadParks, Destinations
  <2>2. used' \in Uses /\ used'.calls = used.calls
    <3>1. used' = [used EXCEPT !.faults = @ + 1, !.parks = @ + 1]
      BY <1>2 DEF UploadParks
    <3>2. used.faults + 1 \in Nat /\ used.parks + 1 \in Nat
      BY <1>0 DEF Uses
    <3> QED
      BY <1>0, <3>1, <3>2 DEF Uses
  <2> QED
    BY <1>2, <2>1, <2>2
    DEF UploadParks, StoresType, TreesType, LoopType, ChainType, HostType, UploadsType, PendingType, GhostsType
<1>3. CASE Crash
  <2>1. disk.units \in Maps /\ disk.mutable \in BOOLEAN /\ disk.final \subseteq Trees /\ Asked(disk) \subseteq Trees
        /\ uploads.bucket \subseteq Trees
    BY <1>0, AskedType DEF Disks, Destinations
  <2>2. loads' \subseteq Loads
    BY <1>3, <2>1 DEF Crash, Loads
  <2>3. StoresType'
    BY <1>0, <1>3, <2>1, <2>2 DEF Crash, StoresType
  <2>4. TreesType'
    BY <1>3, <2>1 DEF Crash, Registry, TreesType, Registries
  <2>5. LoopType' /\ ChainType' /\ HostType'
    BY <1>3, IdleType DEF Crash, LoopType, ChainType, HostType, Opening, Idle, Amending
  <2>6. UploadsType'
    <3>1. uploads' = [uploads EXCEPT !.queue = <<>>, !.parked = FALSE, !.terminal = uploads.complete]
      BY <1>3 DEF Crash
    <3>2. <<>> \in Seq(SUBSET Trees) /\ uploads.complete \in BOOLEAN
      BY <1>0 DEF Destinations
    <3>3. uploads' \in Destinations
      BY <1>0, <3>1, <3>2 DEF Destinations
    <3> QED
      BY <3>3 DEF UploadsType
  <2>7. used' = [used EXCEPT !.faults = @ + 1] /\ UNCHANGED <<given, told>> /\ pending' = <<>>
    BY <1>3 DEF Crash, Fault
  <2>8. used' \in Uses
    BY <1>0, <2>7 DEF Uses
  <2>9. PendingType' /\ GhostsType'
    BY <2>7, <2>8 DEF PendingType, Affordable, GhostsType
  <2> QED
    BY <2>3, <2>4, <2>5, <2>6, <2>9
<1> QED
  BY <1>1, <1>2, <1>3

LEMMA InitControl == ASSUME Init PROVE LoopControl
<1>1. loop = <<>>
  BY DEF Init
<1>2. \A kind : Has(loop, kind) = {}
  BY <1>1 DEF Has
<1> QED
  BY <1>2 DEF LoopControl, InLoopOrder

LEMMA PostedControl ==
  ASSUME SessionType, LoopControl, NEW kind \in Kinds \ {"append"}, loop' = Append(loop, Task(kind)),
         host'.pc = host.pc \/ (host.pc \notin {"snapshot", "clear"} /\ host'.pc \notin {"slice", "write"}),
         kind = "snapshot" => host.pc = "attribute" /\ host'.pc = "snapshot",
         kind = "clear" => host'.pc = "clear",
         mutable' = mutable
  PROVE  LoopControl'
<1>1. loop \in Seq(Tasks) /\ Task(kind) \in Tasks /\ Task(kind).kind = kind
  BY TasksAre DEF SessionType, LoopType
<1>2. InLoopOrder(loop')
  BY <1>1, LoopAppendOrder DEF LoopControl
<1>3. \A k : k # kind => Has(loop', k) = Has(loop, k)
  BY <1>1, LoopAppend
<1> QED
  BY <1>2, <1>3 DEF LoopControl

LEMMA KeptControl ==
  ASSUME LoopControl, loop' = loop, mutable' = mutable,
         \/ host'.pc = host.pc
         \/ /\ host.pc \notin {"snapshot", "clear"}
            /\ host'.pc \in {"slice", "write"} => host.pc \in {"slice", "write"}
  PROVE  LoopControl'
BY DEF LoopControl

LEMMA StepControl == SessionType /\ LoopControl /\ [Next]_vars => LoopControl'
<1> SUFFICES ASSUME SessionType, LoopControl, [Next]_vars PROVE LoopControl'
  OBVIOUS
<1>0. loop \in Seq(Tasks) /\ host \in Hosts
  BY DEF SessionType, LoopType, HostType
<1>1. CASE UNCHANGED vars
  BY <1>1, KeptControl DEF vars
<1>2. CASE Calls
  <2>1. CASE CommitAttributes
    <3>1. host.pc = "idle" /\ host'.pc = "resident" /\ loop' = Append(loop, Task("load")) /\ mutable' = mutable
      BY <2>1 DEF CommitAttributes, Idle
    <3> QED
      BY <3>1, PostedControl DEF Kinds
  <2>2. CASE Finalize
    <3>1. host.pc = "idle" /\ host'.pc = "plan" /\ loop' = loop /\ mutable' = mutable
      BY <2>2 DEF Finalize, Idle
    <3> QED
      BY <3>1, KeptControl
  <2> QED
    BY <1>2, <2>1, <2>2, KeptControl DEF Calls, AddAttribute, AddData
<1>3. CASE Resident \/ Joined \/ Wait \/ Return
  <2>1. /\ host.pc \notin {"snapshot", "clear"} /\ host'.pc \notin {"slice", "write"}
        /\ loop' = loop /\ mutable' = mutable
    <3>1. CASE Resident
      BY <1>0, <3>1 DEF Resident, Hosts, Idle
    <3>2. CASE Joined \/ Return
      <4>1. Idle.pc = "idle" /\ host.pc \in {"attribute", "plan"} /\ loop' = loop /\ mutable' = mutable
        BY <3>2 DEF Joined, Return, Idle
      <4>2. host'.pc \in {"idle", "plan"}
        BY <3>2, <4>1, IdleType DEF Joined, Return, Hosts
      <4> QED
        BY <4>1, <4>2
    <3>3. CASE Wait
      BY <1>0, <3>3 DEF Wait, Goes, Doing, Hosts
    <3> QED
      BY <1>3, <3>1, <3>2, <3>3
  <2> QED
    BY <2>1, KeptControl
<1>4. CASE NextAttribute
  <2>1. CASE loop' = loop
    <3>1. host.pc = "attribute" /\ host'.pc \in {"idle", "snapshot"} /\ mutable' = mutable
      <4>1. /\ host.pc = "attribute" /\ mutable' = mutable
            /\ host' = Idle \/ host' = [host EXCEPT !.attr = host.attr + 1, !.pc = "snapshot"]
        BY <1>4 DEF NextAttribute
      <4>2. Idle.pc = "idle"
        BY DEF Idle
      <4> QED
        BY <1>0, <4>1, <4>2 DEF Hosts
    <3> QED
      BY <2>1, <3>1, KeptControl
  <2>2. CASE loop' # loop
    <3>1. /\ host.pc = "attribute" /\ host'.pc = "snapshot" /\ mutable' = mutable
          /\ loop' = Append(loop, Task("snapshot"))
      BY <1>0, <1>4, <2>2 DEF NextAttribute, Hosts
    <3> QED
      BY <3>1, PostedControl DEF Kinds
  <2> QED
    BY <2>1, <2>2
<1>5. CASE Slice \/ SliceFails \/ BlobLost
  <2>1. host.pc \in {"slice", "write"} /\ loop' = loop /\ mutable' = mutable
    BY <1>5 DEF Slice, SliceFails, BlobLost
  <2> QED
    BY <2>1, KeptControl
<1>6. CASE WriteAttributes
  <2>1. host.slice \in Appends
    BY <1>0 DEF Hosts
  <2> DEFINE task == [Task("append") EXCEPT !.appends = host.slice]
  <2>2. host.pc = "write" /\ host'.pc = "append" /\ loop' = Append(loop, task) /\ mutable' = mutable
    BY <1>0, <1>6 DEF WriteAttributes, Hosts
  <2>3. task \in Tasks /\ task.kind = "append"
    BY <2>1, TasksAre
  <2> HIDE DEF task
  <2>4. Has(loop, "append") = {} /\ Has(loop, "snapshot") = {}
    BY <2>2 DEF LoopControl
  <2>5. InLoopOrder(loop')
    BY <1>0, <2>2, <2>3, <2>4, LoopAppendOrder DEF LoopControl
  <2>6. \A k : k # "append" => Has(loop', k) = Has(loop, k)
    BY <1>0, <2>2, <2>3, LoopAppend
  <2> QED
    BY <2>2, <2>4, <2>5, <2>6 DEF LoopControl
<1>7. CASE TimesOut
  <2>1. loop' = [i \in DOMAIN loop |-> IF loop[i].kind = "snapshot" THEN Task("unheard") ELSE loop[i]]
    BY <1>7 DEF TimesOut
  <2>2. /\ host.pc = "clear" => mutable' = FALSE /\ host'.pc = "plan"
        /\ host.pc # "clear" => mutable' = mutable /\ host'.pc = "idle"
    BY <1>0, <1>7 DEF TimesOut, Hosts, Idle
  <2>3. DOMAIN loop = 1 .. Len(loop) /\ Len(loop') = Len(loop)
    BY <1>0, <2>1
  <2>4. \A i \in 1 .. Len(loop) : loop'[i] = IF loop[i].kind = "snapshot" THEN Task("unheard") ELSE loop[i]
    BY <2>1, <2>3
  <2>5. \A i \in 1 .. Len(loop) : loop'[i].kind = IF loop[i].kind = "snapshot" THEN "unheard" ELSE loop[i].kind
    BY <2>4, TasksAre DEF Kinds
  <2>6. Has(loop', "snapshot") = {} /\ Has(loop', "append") = Has(loop, "append") /\ Has(loop', "clear") = Has(loop, "clear")
    BY <2>3, <2>5 DEF Has
  <2> QED
    BY <2>2, <2>6 DEF LoopControl, InLoopOrder
<1>8. CASE Post
  <2>1. \/ Doing("clear") /\ Goes("clear") /\ loop' = Append(loop, Task("clear"))
        \/ Doing("checkpoint") /\ Goes("round") /\ loop' = Append(loop, Task("checkpoint"))
    BY <1>8 DEF Post
  <2>2. /\ host.pc = "plan" /\ mutable' = mutable
        /\ \/ host'.pc = "clear" /\ loop' = Append(loop, Task("clear"))
           \/ host'.pc = "round" /\ loop' = Append(loop, Task("checkpoint"))
    BY <1>0, <1>8, <2>1 DEF Post, Doing, Goes, Hosts
  <2> QED
    BY <2>2, PostedControl DEF Kinds
<1>9. CASE CachePressure
  BY <1>9, PostedControl DEF CachePressure, Kinds
<1>10. CASE TreeLoop
  <2>1. loop # <<>> /\ loop' = Tail(loop)
    BY <1>10 DEF TreeLoop
  <2>2. /\ InLoopOrder(loop') /\ \A kind : Has(loop', kind) # {} => Has(loop, kind) # {}
        /\ Head(loop).kind = "append" => Has(loop', "append") = {}
        /\ Head(loop).kind = "snapshot" => Has(loop', "append") = {} /\ Has(loop', "snapshot") = {}
    BY <1>0, <2>1, LoopTail DEF LoopControl
  <2>3. Has(loop, Head(loop).kind) # {}
    BY <1>0, <2>1, LoopHead
  <2>4. CASE HandleSnapshot
    <3>1. /\ Head(loop).kind = "snapshot" /\ host'.pc = "slice" /\ mutable' = mutable
      BY <1>0, <2>4 DEF HandleSnapshot, Hosts
    <3> QED
      BY <2>2, <2>3, <3>1 DEF LoopControl
  <2>5. CASE HandleAppend
    <3>1. /\ Head(loop).kind = "append" /\ mutable' = mutable
          /\ host.pc \notin {"slice", "write"}
          /\ host'.pc = IF host.pc = "append" THEN "slice" ELSE host.pc
      BY <1>0, <1>10, <2>3, <2>5 DEF HandleAppend, Hosts, LoopControl
    <3> QED
      BY <2>2, <3>1 DEF LoopControl
  <2>6. CASE HandleClear
    <3>1. /\ mutable' = FALSE /\ host'.pc = IF host.pc = "clear" THEN "plan" ELSE host.pc
      BY <1>0, <2>6 DEF HandleClear, Hosts
    <3> QED
      BY <2>2, <3>1 DEF LoopControl
  <2>7. CASE HandleLoad \/ HandleUnheard \/ HandleCheckpoint
    <3>1. host' = host /\ mutable' = mutable
      BY <2>7 DEF HandleLoad, HandleUnheard, HandleCheckpoint
    <3> QED
      BY <2>2, <3>1 DEF LoopControl
  <2> QED
    BY <1>10, <2>4, <2>5, <2>6, <2>7 DEF TreeLoop
<1>11. CASE DeserializeTree \/ TreesWritten \/ IndexCommitted \/ ChainFails \/ BandUploaded \/ UploadParks
  BY <1>11, KeptControl DEF DeserializeTree, TreesWritten, IndexCommitted, ChainFails, BandUploaded, UploadParks
<1>12. CASE EndChain
  <2>1. loop' = loop /\ mutable' = mutable /\ host'.pc = IF host.pc = "round" THEN "plan" ELSE host.pc
    BY <1>0, <1>12 DEF EndChain, Hosts
  <2> QED
    BY <2>1, KeptControl
<1>13. CASE Crash
  <2>1. loop' = <<>>
    BY <1>13 DEF Crash
  <2>2. \A kind : Has(loop', kind) = {}
    BY <2>1 DEF Has
  <2> QED
    BY <2>2 DEF LoopControl, InLoopOrder
<1> QED
  BY <1>1, <1>2, <1>3, <1>4, <1>5, <1>6, <1>7, <1>8, <1>9, <1>10, <1>11, <1>12, <1>13
  DEF Next, System, Host, Chain

LEMMA StepType == SessionType /\ LoopControl /\ [Next]_vars => SessionType'
<1> SUFFICES ASSUME SessionType, LoopControl, [Next]_vars PROVE SessionType'
  OBVIOUS
<1>1. CASE UNCHANGED vars
  BY <1>1 DEF vars, SessionType, StoresType, TreesType, LoopType, ChainType, HostType, UploadsType, PendingType, GhostsType
<1>2. CASE Next
  BY <1>2, CallsType, HostType1, HostType2, LoopTasksType, ChainTasksType, UploaderType
  DEF Next, System, Host, Chain
<1> QED
  BY <1>1, <1>2

LEMMA AlwaysTyped == Spec => [](SessionType /\ LoopControl)
<1>1. Init => SessionType /\ LoopControl
  BY InitType, InitControl
<1> QED
  BY <1>1, StepType, StepControl, PTL DEF Spec

-----------------------------------------------------------------------------
(***************************************************************************)
(* Where a call is, and what it has left to do.                            *)
(***************************************************************************)
Todo5 == <<"clear", "checkpoint", "emissions", "drain", "settle">>
Todo4 == <<"checkpoint", "emissions", "drain", "settle">>
Todo3 == <<"emissions", "drain", "settle">>
Todo2 == <<"drain", "settle">>
Todo1 == <<"settle">>
Rounds2 == <<"checkpoint", "checkpoint">>
Rounds1 == <<"checkpoint">>

CallAt(h) ==
  /\ h.pc = "idle" => h.call = "none"
  /\ h.pc = "resident" => h.call \in {"open", "commit"}
  /\ h.pc \in {"attribute"} \cup Amending => h.call = "commit"
  /\ h.pc = "plan" => \/ h.todo \in {Todo4, Todo3, Todo2, Todo1, Rounds2, Rounds1, <<>>} /\ h.call \in {"commit", "finalize"}
                      \/ h.todo = Todo5 /\ h.call = "finalize"
  /\ h.pc = "round" => h.todo \in {Todo3, Rounds1, <<>>} /\ h.call \in {"commit", "finalize"}
  /\ h.pc = "clear" => h.todo = Todo4 /\ h.call = "finalize"
  /\ h.names # {} => h.pc \in {"plan", "round"} /\ h.call = "commit"

LEMMA TodosAre ==
  /\ Head(Todo5) = "clear" /\ Tail(Todo5) = Todo4
  /\ Head(Todo4) = "checkpoint" /\ Tail(Todo4) = Todo3
  /\ Head(Todo3) = "emissions" /\ Tail(Todo3) = Todo2
  /\ Head(Todo2) = "drain" /\ Tail(Todo2) = Todo1
  /\ Head(Todo1) = "settle"
  /\ Head(Rounds2) = "checkpoint" /\ Tail(Rounds2) = Rounds1
  /\ Head(Rounds1) = "checkpoint" /\ Tail(Rounds1) = <<>>
  /\ \A t \in {Todo5, Todo4, Todo3, Todo2, Todo1, Rounds2, Rounds1} : t # <<>>
  /\ <<"checkpoint">> \o Quiesce = Todo4 /\ <<"clear", "checkpoint">> \o Quiesce = Todo5
<1>1. Head(Todo5) = "clear" /\ Tail(Todo5) = Todo4 /\ Head(Todo4) = "checkpoint" /\ Tail(Todo4) = Todo3
  BY DEF Todo5, Todo4, Todo3
<1>2. Head(Todo3) = "emissions" /\ Tail(Todo3) = Todo2 /\ Head(Todo2) = "drain" /\ Tail(Todo2) = Todo1
  BY DEF Todo3, Todo2, Todo1
<1>3. Head(Todo1) = "settle" /\ Head(Rounds2) = "checkpoint" /\ Tail(Rounds2) = Rounds1
  BY DEF Todo1, Rounds2, Rounds1
<1>4. Head(Rounds1) = "checkpoint" /\ Tail(Rounds1) = <<>>
  BY DEF Rounds1
<1>5. Todo5 # <<>> /\ Todo4 # <<>> /\ Todo3 # <<>> /\ Todo2 # <<>> /\ Todo1 # <<>> /\ Rounds2 # <<>> /\ Rounds1 # <<>>
  BY DEF Todo5, Todo4, Todo3, Todo2, Todo1, Rounds2, Rounds1
<1>6. <<"checkpoint">> \o Quiesce = Todo4
  <2> DEFINE s == <<"checkpoint">> \o Quiesce
  <2>1. s \in Seq(Steps) /\ Len(s) = 4 /\ s[1] = "checkpoint" /\ s[2] = "emissions" /\ s[3] = "drain" /\ s[4] = "settle"
    BY DEF Quiesce, Steps
  <2> HIDE DEF s
  <2>2. s = <<s[1], s[2], s[3], s[4]>>
    BY <2>1
  <2>3. s = Todo4
    BY <2>1, <2>2 DEF Todo4
  <2> QED
    BY <2>3 DEF s
<1>7. <<"clear", "checkpoint">> \o Quiesce = Todo5
  <2> DEFINE s == <<"clear", "checkpoint">> \o Quiesce
  <2>1. s \in Seq(Steps) /\ Len(s) = 5 /\ s[1] = "clear" /\ s[2] = "checkpoint" /\ s[3] = "emissions" /\ s[4] = "drain" /\ s[5] = "settle"
    BY DEF Quiesce, Steps
  <2> HIDE DEF s
  <2>2. s = <<s[1], s[2], s[3], s[4], s[5]>>
    BY <2>1
  <2>3. s = Todo5
    BY <2>1, <2>2 DEF Todo5
  <2> QED
    BY <2>3 DEF s
<1> QED
  BY <1>1, <1>2, <1>3, <1>4, <1>5, <1>6, <1>7

LEMMA TodosDiffer ==
  /\ Todo5 \notin {Todo4, Todo3, Todo2, Todo1, Rounds2, Rounds1, <<>>}
  /\ Todo4 \notin {Todo3, Todo2, Todo1, Rounds2, Rounds1, <<>>}
  /\ Todo3 \notin {Todo2, Todo1, Rounds2, Rounds1, <<>>}
  /\ Todo2 \notin {Todo1, Rounds2, Rounds1, <<>>}
  /\ Todo1 \notin {Rounds2, Rounds1, <<>>}
  /\ Rounds2 \notin {Rounds1, <<>>} /\ Rounds1 # <<>>
<1>1. /\ Len(Todo5) = 5 /\ Len(Todo4) = 4 /\ Len(Todo3) = 3 /\ Len(Todo2) = 2 /\ Len(Todo1) = 1
      /\ Len(Rounds2) = 2 /\ Len(Rounds1) = 1
  BY DEF Todo5, Todo4, Todo3, Todo2, Todo1, Rounds2, Rounds1
<1>2. Todo2 # Rounds2 /\ Todo1 # Rounds1
  BY TodosAre
<1>3. \A s, t : Len(s) # Len(t) => s # t
  OBVIOUS
<1>4. /\ Todo5 # Todo4 /\ Todo5 # Todo3 /\ Todo5 # Todo2 /\ Todo5 # Todo1 /\ Todo5 # Rounds2 /\ Todo5 # Rounds1
      /\ Todo4 # Todo3 /\ Todo4 # Todo2 /\ Todo4 # Todo1 /\ Todo4 # Rounds2 /\ Todo4 # Rounds1
      /\ Todo3 # Todo2 /\ Todo3 # Todo1 /\ Todo3 # Rounds2 /\ Todo3 # Rounds1
      /\ Todo2 # Todo1 /\ Todo2 # Rounds1 /\ Todo1 # Rounds2 /\ Rounds2 # Rounds1
  <2>1. Todo5 # Todo4 /\ Todo5 # Todo3 /\ Todo5 # Todo2 /\ Todo5 # Todo1 /\ Todo5 # Rounds2 /\ Todo5 # Rounds1
    BY <1>1
  <2>2. Todo4 # Todo3 /\ Todo4 # Todo2 /\ Todo4 # Todo1 /\ Todo4 # Rounds2 /\ Todo4 # Rounds1
    BY <1>1
  <2>3. Todo3 # Todo2 /\ Todo3 # Todo1 /\ Todo3 # Rounds2 /\ Todo3 # Rounds1
    BY <1>1
  <2>4. Todo2 # Todo1 /\ Todo2 # Rounds1 /\ Todo1 # Rounds2 /\ Rounds2 # Rounds1
    BY <1>1
  <2> QED
    BY <2>1, <2>2, <2>3, <2>4
<1> QED
  BY <1>2, <1>4, TodosAre

\* What the host does next, by what it has left to do.
LEMMA PlanSteps ==
  ASSUME SessionType, CallAt(host), Post \/ Wait
  PROVE  /\ host.pc = "plan" /\ host'.call = host.call /\ host'.names = host.names
         /\ \/ host.todo = Todo5 /\ host'.pc = "clear" /\ host'.todo = Todo4 /\ Post /\ loop' = Append(loop, Task("clear"))
            \/ host.todo = Todo4 /\ host'.pc = "round" /\ host'.todo = Todo3 /\ Post
            \/ host.todo = Todo3 /\ host'.pc = "plan" /\ host'.todo = Todo2 /\ Wait /\ chain.step # "emit"
            \/ host.todo = Todo2 /\ host'.pc = "plan" /\ host'.todo = Todo1 /\ Wait /\ Drained
            \/ host.todo = Todo1 /\ host'.pc = "plan" /\ host'.todo = Settled /\ Wait
            \/ host.todo = Rounds2 /\ host'.pc = "round" /\ host'.todo = Rounds1 /\ Post
            \/ host.todo = Rounds1 /\ host'.pc = "round" /\ host'.todo = <<>> /\ Post
         /\ Post /\ host'.pc = "round" => loop' = Append(loop, Task("checkpoint"))
<1>0. host \in Hosts
  BY DEF SessionType, HostType
<1>1. CASE Post
  <2>1. CASE Doing("clear") /\ Goes("clear") /\ loop' = Append(loop, Task("clear"))
    <3>1. host.pc = "plan" /\ host.todo # <<>> /\ Head(host.todo) = "clear"
      BY <2>1 DEF Doing
    <3>2. host.todo = Todo5
      BY <3>1, TodosAre DEF CallAt
    <3>3. host' = [host EXCEPT !.pc = "clear", !.todo = Tail(@)]
      BY <2>1 DEF Goes
    <3>4. host'.pc = "clear" /\ host'.todo = Todo4 /\ host'.call = host.call /\ host'.names = host.names
      BY <1>0, <3>2, <3>3, TodosAre DEF Hosts
    <3> QED
      BY <1>1, <2>1, <3>1, <3>2, <3>4
  <2>2. CASE Doing("checkpoint") /\ Goes("round") /\ loop' = Append(loop, Task("checkpoint"))
    <3>1. host.pc = "plan" /\ host.todo # <<>> /\ Head(host.todo) = "checkpoint"
      BY <2>2 DEF Doing
    <3>2. host.todo \in {Todo4, Rounds2, Rounds1}
      BY <3>1, TodosAre DEF CallAt
    <3>3. host' = [host EXCEPT !.pc = "round", !.todo = Tail(@)]
      BY <2>2 DEF Goes
    <3>4. host'.pc = "round" /\ host'.todo = Tail(host.todo) /\ host'.call = host.call /\ host'.names = host.names
      BY <1>0, <3>3 DEF Hosts
    <3> QED
      BY <1>1, <2>2, <3>1, <3>2, <3>4, TodosAre
  <2> QED
    BY <1>1, <2>1, <2>2 DEF Post
<1>2. CASE Wait
  <2>1. CASE Doing("emissions") /\ chain.step # "emit" /\ Goes("plan")
    <3>1. host.pc = "plan" /\ host.todo # <<>> /\ Head(host.todo) = "emissions"
      BY <2>1 DEF Doing
    <3>2. host.todo = Todo3
      BY <3>1, TodosAre DEF CallAt
    <3>3. host' = [host EXCEPT !.pc = "plan", !.todo = Tail(@)]
      BY <2>1 DEF Goes
    <3>4. host'.pc = "plan" /\ host'.todo = Todo2 /\ host'.call = host.call /\ host'.names = host.names
      BY <1>0, <3>2, <3>3, TodosAre DEF Hosts
    <3> QED
      BY <1>2, <2>1, <3>1, <3>2, <3>4
  <2>2. CASE Doing("drain") /\ Drained /\ Goes("plan")
    <3>1. host.pc = "plan" /\ host.todo # <<>> /\ Head(host.todo) = "drain"
      BY <2>2 DEF Doing
    <3>2. host.todo = Todo2
      BY <3>1, TodosAre DEF CallAt
    <3>3. host' = [host EXCEPT !.pc = "plan", !.todo = Tail(@)]
      BY <2>2 DEF Goes
    <3>4. host'.pc = "plan" /\ host'.todo = Todo1 /\ host'.call = host.call /\ host'.names = host.names
      BY <1>0, <3>2, <3>3, TodosAre DEF Hosts
    <3> QED
      BY <1>2, <2>2, <3>1, <3>2, <3>4
  <2>3. CASE Doing("settle") /\ host' = [host EXCEPT !.todo = Settled]
    <3>1. host.pc = "plan" /\ host.todo # <<>> /\ Head(host.todo) = "settle"
      BY <2>3 DEF Doing
    <3>2. host.todo = Todo1
      BY <3>1, TodosAre DEF CallAt
    <3>4. host'.pc = "plan" /\ host'.todo = Settled /\ host'.call = host.call /\ host'.names = host.names
      BY <1>0, <2>3, <3>1 DEF Hosts
    <3> QED
      BY <1>2, <2>3, <3>1, <3>2, <3>4
  <2> QED
    BY <1>2, <2>1, <2>2, <2>3 DEF Wait
<1> QED
  BY <1>1, <1>2

LEMMA IdleAt ==
  /\ CallAt(Idle) /\ CallAt(Opening)
  /\ Idle.pc = "idle" /\ Idle.call = "none" /\ Idle.names = {}
  /\ Opening.pc = "resident" /\ Opening.call = "open" /\ Opening.names = {}
BY DEF Idle, Opening, CallAt, Amending

LEMMA CallSteps ==
  ASSUME SessionType, LoopControl, CallAt(host), [Next]_vars
  PROVE  CallAt(host')
<1>0. host \in Hosts /\ loop \in Seq(Tasks)
  BY DEF SessionType, HostType, LoopType
<1>1. CASE host' \in {host, Idle, Opening}
  BY <1>1, IdleAt
<1>2. CASE CommitAttributes
  <2>1. host'.pc = "resident" /\ host'.call = "commit" /\ host'.names = {}
    BY <1>2, IdleType, IdleAt DEF CommitAttributes, Hosts
  <2> QED
    BY <2>1 DEF CallAt, Amending
<1>3. CASE Finalize
  <2>1. host'.pc = "plan" /\ host'.call = "finalize" /\ host'.names = {} /\ host'.todo = Todo5
    BY <1>3, IdleType, IdleAt, TodosAre DEF Finalize, Hosts
  <2> QED
    BY <2>1 DEF CallAt, Amending
<1>4. CASE Joined
  <2>1. host'.pc = "plan" /\ host'.call = "commit" /\ host'.todo = Todo4
    BY <1>4, IdleType, TodosAre DEF Joined, Hosts
  <2> QED
    BY <2>1 DEF CallAt, Amending
<1>5. ASSUME host'.pc \in {"attribute"} \cup Amending, host'.call = host.call, host'.names = host.names,
             host.pc \in {"attribute"} \cup Amending \/ (host.pc = "resident" /\ host.call # "open")
      PROVE  CallAt(host')
  BY <1>5 DEF CallAt, Amending
<1>6. CASE Resident
  <2>1. CASE host.call = "open"
    BY <1>1, <1>6, <2>1 DEF Resident
  <2>2. CASE host.call # "open"
    <3>1. host.pc = "resident" /\ host'.pc = "attribute" /\ host'.call = host.call /\ host'.names = host.names
      BY <1>0, <1>6, <2>2 DEF Resident, Hosts
    <3> QED
      BY <1>5, <2>2, <3>1
  <2> QED
    BY <2>1, <2>2
<1>7. CASE NextAttribute
  <2>1. CASE host' = Idle
    BY <1>1, <2>1
  <2>2. CASE host' # Idle
    <3>1. host.pc = "attribute" /\ host' = [host EXCEPT !.attr = host.attr + 1, !.pc = "snapshot"]
      BY <1>7, <2>2 DEF NextAttribute
    <3>2. host'.pc = "snapshot" /\ host'.call = host.call /\ host'.names = host.names
      BY <1>0, <3>1 DEF Hosts
    <3> QED
      BY <1>5, <3>1, <3>2 DEF Amending
  <2> QED
    BY <2>1, <2>2
<1>8. CASE Slice
  <2>1. host.pc = "slice" /\ host'.pc \in {"attribute", "slice", "write"} /\ host'.call = host.call /\ host'.names = host.names
    BY <1>0, <1>8 DEF Slice, Hosts
  <2> QED
    BY <1>5, <2>1 DEF Amending
<1>9. CASE WriteAttributes
  <2>1. host.pc = "write" /\ host'.pc = "append" /\ host'.call = host.call /\ host'.names = host.names
    BY <1>0, <1>9 DEF WriteAttributes, Hosts
  <2> QED
    BY <1>5, <2>1 DEF Amending
<1>16. CASE BlobLost
  <2>1. host.pc = "write" /\ host'.pc = "write" /\ host'.call = host.call /\ host'.names = host.names
    BY <1>16, BlobLostIs
  <2> QED
    BY <1>5, <2>1 DEF Amending
<1>10. CASE HandleSnapshot /\ TreeLoop
  <2>1. host.pc = "snapshot"
    BY <1>0, <1>10, LoopHead DEF HandleSnapshot, TreeLoop, LoopControl
  <2>2. host'.pc = "slice" /\ host'.call = host.call /\ host'.names = host.names
    BY <1>0, <1>10 DEF HandleSnapshot, Hosts
  <2> QED
    BY <1>5, <2>1, <2>2 DEF Amending
<1>11. CASE HandleAppend
  <2>1. CASE host' = host
    BY <1>1, <2>1
  <2>2. CASE host' # host
    <3>1. host.pc = "append" /\ host'.pc = "slice" /\ host'.call = host.call /\ host'.names = host.names
      BY <1>0, <1>11, <2>2 DEF HandleAppend, Hosts
    <3> QED
      BY <1>5, <3>1 DEF Amending
  <2> QED
    BY <2>1, <2>2
<1>12. CASE TimesOut \/ HandleClear
  <2>1. CASE host' \in {host, Idle}
    BY <1>1, <2>1
  <2>2. CASE host' \notin {host, Idle}
    <3>1. host.pc = "clear" /\ host' = [host EXCEPT !.pc = "plan"]
      BY <1>12, <2>2 DEF TimesOut, HandleClear
    <3>2. host'.pc = "plan" /\ host'.todo = host.todo /\ host'.call = host.call /\ host'.names = host.names
      BY <1>0, <3>1 DEF Hosts
    <3> QED
      BY <3>1, <3>2 DEF CallAt, Amending
  <2> QED
    BY <2>1, <2>2
<1>13. CASE EndChain
  <2>1. CASE host' = host
    BY <1>1, <2>1
  <2>2. CASE host' # host
    <3>1. host.pc = "round" /\ host' = [host EXCEPT !.pc = "plan"]
      BY <1>13, <2>2 DEF EndChain
    <3>2. host'.pc = "plan" /\ host'.todo = host.todo /\ host'.call = host.call /\ host'.names = host.names
      BY <1>0, <3>1 DEF Hosts
    <3> QED
      BY <3>1, <3>2 DEF CallAt, Amending
  <2> QED
    BY <2>1, <2>2
<1>14. CASE Post \/ Wait
  <2>1. Settled \in {Rounds2, <<>>}
    BY DEF Settled, Rounds2
  <2>2. host.call \in {"commit", "finalize"} /\ (host.todo = Todo5 => host.call = "finalize") /\ host.pc = "plan"
    BY <1>14, PlanSteps, TodosDiffer DEF CallAt
  <2> QED
    BY <1>14, <2>1, <2>2, PlanSteps DEF CallAt, Amending
<1>15. CASE \/ UNCHANGED vars \/ SliceFails \/ Return \/ Crash \/ CachePressure \/ ChainFails \/ UploadParks
            \/ HandleLoad \/ HandleUnheard \/ HandleCheckpoint \/ DeserializeTree \/ BandUploaded
            \/ TreesWritten \/ IndexCommitted
            \/ (\E n \in Names : AddAttribute(n)) \/ (\E i \in DOMAIN pending, batch \in Batches : AddData(i, batch))
  <2>1. host' \in {host, Idle, Opening}
    BY <1>15
    DEF vars, SliceFails, Return, Crash, CachePressure, ChainFails, UploadParks, HandleLoad, HandleUnheard,
        HandleCheckpoint, DeserializeTree, BandUploaded, TreesWritten, IndexCommitted, AddAttribute, AddData
  <2> QED
    BY <1>1, <2>1
<1> QED
  BY <1>2, <1>3, <1>4, <1>6, <1>7, <1>8, <1>9, <1>10, <1>11, <1>12, <1>13, <1>14, <1>15, <1>16
  DEF Next, Calls, System, Host, Chain, TreeLoop

-----------------------------------------------------------------------------
(***************************************************************************)
(* The registry: which trees are loaded, being read, or dirty.             *)
(***************************************************************************)
IsOpening(h) == h.pc = "resident" /\ h.call = "open"
Committing(h) == h.call = "commit" /\ h.pc \notin {"plan", "round"}

\* A tree is read once; a dataset that is mutable has all its trees once it is opened.
RegistryInv ==
  /\ \A load \in loads : load.tree \in trees.requested /\ load.tree \notin trees.loaded
  /\ \A l, m \in loads : l.tree = m.tree => l = m
  /\ trees.loaded \subseteq trees.requested /\ trees.dirty \subseteq trees.loaded
  /\ mutable => trees.requested = Trees
  /\ mutable /\ ~IsOpening(host) => trees.loaded = Trees
  /\ Committing(host) => mutable
  /\ Has(loop, "append") # {} => trees.loaded = Trees

\* The trees that the chain has yet to write.
Writing == IF chain.step = "trees" THEN chain.trees ELSE {}
WritingLoaded == Writing \subseteq trees.loaded

SessionControl == SessionType /\ LoopControl /\ CallAt(host)

LEMMA InitRegistry == ASSUME Minted = {}, Init PROVE RegistryInv
<1>1. /\ trees.loaded = {} /\ trees.requested = Trees /\ trees.dirty = {} /\ mutable = TRUE /\ loop = <<>> /\ host = Opening
      /\ loads = {[tree |-> t, units |-> Base] : t \in Trees}
  BY DEF Init, Registry
<1>2. Has(loop, "append") = {}
  BY <1>1 DEF Has
<1> QED
  BY <1>1, <1>2, IdleAt DEF RegistryInv, IsOpening, Committing

LEMMA PostedAppends ==
  ASSUME NEW l \in Seq(Tasks), NEW kind \in Kinds \ {"append"}
  PROVE  Has(Append(l, Task(kind)), "append") = Has(l, "append")
<1>1. Task(kind) \in Tasks /\ Task(kind).kind = kind
  BY TasksAre
<1> QED
  BY <1>1, LoopAppend

LEMMA RegistryKept ==
  ASSUME RegistryInv, loads' = loads,
         trees'.loaded = trees.loaded, trees'.requested = trees.requested, trees'.dirty \subseteq trees.loaded,
         mutable' => mutable,
         IsOpening(host) => IsOpening(host') \/ trees.loaded = Trees \/ ~mutable',
         Committing(host') => mutable',
         Has(loop', "append") # {} => Has(loop, "append") # {} \/ trees.loaded = Trees
  PROVE  RegistryInv'
BY DEF RegistryInv

LEMMA StepRegistry ==
  ASSUME SessionControl, SessionType', LoopControl', CallAt(host'), RegistryInv, WritingLoaded, [Next]_vars
  PROVE  RegistryInv'
<1> USE DEF SessionControl
<1>0. /\ host \in Hosts /\ loop \in Seq(Tasks) /\ trees \in Registries /\ loads \subseteq Loads /\ mutable \in BOOLEAN
      /\ chain \in Chains /\ trees.dirty \subseteq trees.loaded
      /\ loop' \in Seq(Tasks)
  BY DEF SessionType, HostType, LoopType, TreesType, StoresType, ChainType, RegistryInv
<1>1. CASE host' = host /\ loop' = loop /\ mutable' = mutable /\ UNCHANGED <<loads, trees>>
  BY <1>0, <1>1, RegistryKept DEF RegistryInv
<1>2. CASE CommitAttributes \/ CachePressure
  <2>1. PICK kind \in Kinds \ {"append"} : loop' = Append(loop, Task(kind))
    BY <1>2 DEF CommitAttributes, CachePressure, Kinds
  <2>2. Has(loop', "append") = Has(loop, "append")
    BY <1>0, <2>1, PostedAppends
  <2>3. mutable' = mutable /\ UNCHANGED <<loads, trees>>
    BY <1>2 DEF CommitAttributes, CachePressure
  <2>4. CASE CachePressure
    <3>1. host' = host
      BY <2>4 DEF CachePressure
    <3> QED
      BY <1>0, <2>2, <2>3, <3>1, RegistryKept DEF RegistryInv
  <2>5. CASE CommitAttributes
    <3>1. host.pc = "idle" /\ mutable
      BY <2>5 DEF CommitAttributes
    <3> QED
      BY <1>0, <2>2, <2>3, <3>1, RegistryKept DEF RegistryInv, IsOpening
  <2> QED
    BY <1>2, <2>4, <2>5
<1>3. CASE Resident
  <2>1. /\ host.pc = "resident" /\ Asked([mutable |-> mutable]) \subseteq trees.loaded
        /\ loop' = loop /\ mutable' = mutable /\ UNCHANGED <<loads, trees>>
        /\ host' = IF host.call = "open" THEN Idle ELSE [host EXCEPT !.pc = "attribute"]
    BY <1>3 DEF Resident
  <2>2. mutable => trees.loaded = Trees
    BY <1>0, <2>1 DEF Asked, Registries
  <2>3. CASE host.call = "open"
    <3>1. host' = Idle
      BY <2>1, <2>3
    <3> QED
      BY <1>0, <2>1, <2>2, <3>1, RegistryKept, IdleAt DEF Committing
  <2>4. CASE host.call # "open"
    <3>1. host.call = "commit"
      BY <2>1, <2>4 DEF CallAt
    <3>2. Committing(host)
      BY <2>1, <3>1 DEF Committing
    <3>3. mutable
      BY <3>2 DEF RegistryInv
    <3> QED
      BY <1>0, <2>1, <2>2, <3>3, RegistryKept
  <2> QED
    BY <2>3, <2>4
<1>4. ASSUME UNCHANGED <<loads, trees>>, mutable' = mutable, Has(loop', "append") = Has(loop, "append") \/ mutable,
             ~IsOpening(host), Committing(host) \/ ~Committing(host')
      PROVE  RegistryInv'
  BY <1>0, <1>4, RegistryKept DEF RegistryInv
<1>5. CASE Finalize \/ Joined \/ Return \/ SliceFails
  <2>1. /\ ~IsOpening(host) /\ loop' = loop /\ mutable' = mutable /\ UNCHANGED <<loads, trees>>
    BY <1>5 DEF Finalize, Joined, Return, SliceFails, IsOpening
  <2>2. ~Committing(host')
    <3>1. CASE Finalize
      <4>1. host'.call = "finalize"
        BY <3>1, IdleType DEF Finalize, Hosts
      <4> QED
        BY <4>1 DEF Committing
    <3>2. CASE Joined
      <4>1. host'.pc = "plan"
        BY <3>2, IdleType DEF Joined, Hosts
      <4> QED
        BY <4>1 DEF Committing
    <3>3. CASE Return \/ SliceFails
      BY <3>3, IdleAt DEF Return, SliceFails, Committing
    <3> QED
      BY <1>5, <3>1, <3>2, <3>3
  <2> QED
    BY <1>4, <2>1, <2>2
<1>6. CASE NextAttribute
  <2>1. /\ host.pc = "attribute" /\ mutable' = mutable /\ UNCHANGED <<loads, trees>>
        /\ loop' = loop \/ loop' = Append(loop, Task("snapshot"))
    BY <1>6 DEF NextAttribute
  <2>2. Has(loop', "append") = Has(loop, "append")
    <3>1. "snapshot" \in Kinds \ {"append"}
      BY DEF Kinds
    <3>2. Has(Append(loop, Task("snapshot")), "append") = Has(loop, "append")
      BY <1>0, <3>1, PostedAppends
    <3> QED
      BY <2>1, <3>2
  <2>3. Committing(host) /\ ~IsOpening(host)
    BY <2>1 DEF CallAt, Committing, IsOpening
  <2> QED
    BY <1>4, <2>1, <2>2, <2>3
<1>7. CASE Slice
  <2>1. host.pc = "slice" /\ mutable' = mutable /\ UNCHANGED <<loads, trees, loop>>
    BY <1>7 DEF Slice
  <2>2. Committing(host) /\ ~IsOpening(host)
    BY <2>1 DEF CallAt, Committing, IsOpening, Amending
  <2> QED
    BY <1>4, <2>1, <2>2
<1>17. CASE BlobLost
  <2>1. host.pc = "write" /\ mutable' = mutable /\ UNCHANGED <<loads, trees, loop>>
    BY <1>17 DEF BlobLost
  <2>2. Committing(host) /\ ~IsOpening(host)
    BY <2>1 DEF CallAt, Committing, IsOpening, Amending
  <2> QED
    BY <1>4, <2>1, <2>2
<1>8. CASE WriteAttributes
  <2>1. host.pc = "write" /\ mutable' = mutable /\ UNCHANGED <<loads, trees>>
    BY <1>8 DEF WriteAttributes
  <2>2. Committing(host) /\ ~IsOpening(host)
    BY <2>1 DEF CallAt, Committing, IsOpening, Amending
  <2>3. mutable
    BY <2>2 DEF RegistryInv
  <2> QED
    BY <1>4, <2>1, <2>2, <2>3
<1>9. CASE TimesOut
  <2>1. /\ UNCHANGED <<loads, trees>> /\ (mutable' => mutable)
        /\ host.pc \in {"snapshot", "append", "clear"}
        /\ host.pc = "clear" => mutable' = FALSE /\ host' = [host EXCEPT !.pc = "plan"]
        /\ host.pc # "clear" => mutable' = mutable /\ host' = Idle
        /\ loop' = [i \in DOMAIN loop |-> IF loop[i].kind = "snapshot" THEN Task("unheard") ELSE loop[i]]
    BY <1>9 DEF TimesOut
  <2>2. Has(loop', "append") = Has(loop, "append")
    <3>3. DOMAIN loop = 1 .. Len(loop) /\ Len(loop') = Len(loop)
      BY <1>0, <2>1
    <3>4. \A i \in 1 .. Len(loop) : loop'[i] = IF loop[i].kind = "snapshot" THEN Task("unheard") ELSE loop[i]
      BY <2>1, <3>3
    <3>5. \A i \in 1 .. Len(loop) : loop'[i].kind = IF loop[i].kind = "snapshot" THEN "unheard" ELSE loop[i].kind
      BY <3>4, TasksAre DEF Kinds
    <3> QED
      BY <3>3, <3>5 DEF Has
  <2>3. ~Committing(host') /\ ~IsOpening(host)
    BY <1>0, <2>1, IdleAt DEF Committing, IsOpening, Hosts
  <2> QED
    BY <1>0, <2>1, <2>2, <2>3, RegistryKept
<1>10. CASE Post \/ Wait
  <2>1. /\ host.pc = "plan" /\ host'.call = host.call
        /\ host'.pc \in {"plan", "round"} \/ (host.todo = Todo5 /\ host'.pc = "clear")
    BY <1>10, PlanSteps
  <2>2. ~IsOpening(host) /\ ~Committing(host')
    BY <2>1, TodosDiffer DEF CallAt, IsOpening, Committing
  <2>3. UNCHANGED <<loads, trees>> /\ mutable' = mutable
    BY <1>10 DEF Post, Wait
  <2>4. Has(loop', "append") = Has(loop, "append")
    <3>1. loop' = loop \/ \E kind \in Kinds \ {"append"} : loop' = Append(loop, Task(kind))
      BY <1>10 DEF Post, Wait, Kinds
    <3> QED
      BY <1>0, <3>1, PostedAppends
  <2> QED
    BY <1>4, <2>2, <2>3, <2>4
<1>11. CASE TreeLoop
  <2>1. loop # <<>> /\ loop' = Tail(loop)
    BY <1>11 DEF TreeLoop
  <2>2. Has(loop', "append") # {} => Has(loop, "append") # {}
    BY <1>0, <2>1, LoopTail DEF LoopControl
  <2>3. Has(loop, Head(loop).kind) # {}
    BY <1>0, <2>1, LoopHead
  <2>4. CASE HandleLoad
    <3> DEFINE missing == Trees \ trees.requested
               new == {[tree |-> t, units |-> located] : t \in missing}
    <3>1. /\ trees' = [trees EXCEPT !.requested = Trees] /\ loads' = loads \cup new
          /\ UNCHANGED <<mutable, host>>
      BY <2>4 DEF HandleLoad
    <3>2. trees'.requested = Trees /\ trees'.loaded = trees.loaded /\ trees'.dirty = trees.dirty /\ trees.loaded \subseteq Trees
      BY <1>0, <3>1 DEF Registries
    <3>3. \A load \in new : load.tree \in missing /\ load = [tree |-> load.tree, units |-> located]
      OBVIOUS
    <3> HIDE DEF new
    <3>4. \A load \in loads' : load.tree \in Trees /\ load.tree \notin trees.loaded
      BY <1>0, <3>1, <3>3 DEF RegistryInv, Loads
    <3>5. \A l, m \in loads' : l.tree = m.tree => l = m
      BY <3>1, <3>3 DEF RegistryInv
    <3> QED
      BY <2>2, <3>1, <3>2, <3>4, <3>5 DEF RegistryInv
  <2>5. CASE HandleSnapshot
    <3>1. host.pc = "snapshot" /\ mutable' = mutable /\ UNCHANGED <<loads, trees>>
      BY <2>3, <2>5 DEF HandleSnapshot, LoopControl
    <3>2. Committing(host) /\ ~IsOpening(host)
      BY <3>1 DEF CallAt, Committing, IsOpening, Amending
    <3> QED
      BY <1>0, <2>2, <3>1, <3>2, RegistryKept DEF RegistryInv
  <2>6. CASE HandleAppend
    <3>1. /\ trees' = [trees EXCEPT !.dirty = @ \cup {Units[u].tree : u \in Landing}]
          /\ UNCHANGED <<mutable, loads>>
          /\ host' = IF host.pc = "append" THEN [host EXCEPT !.pc = "slice"] ELSE host
      BY <2>6 DEF HandleAppend
    <3>2. {Units[u].tree : u \in Landing} \subseteq trees.loaded
      BY DEF Landing, UnitsOf
    <3>3. trees'.loaded = trees.loaded /\ trees'.requested = trees.requested /\ trees'.dirty \subseteq trees.loaded
      BY <1>0, <3>1, <3>2 DEF Registries
    <3>4. CASE host.pc = "append"
      <4>1. Committing(host) /\ ~IsOpening(host)
        BY <3>4 DEF CallAt, Committing, IsOpening, Amending
      <4> QED
        BY <2>2, <3>1, <3>3, <4>1, RegistryKept DEF RegistryInv
    <3>5. CASE host.pc # "append"
      BY <2>2, <3>1, <3>3, <3>5, RegistryKept DEF RegistryInv
    <3> QED
      BY <3>4, <3>5
  <2>7. CASE HandleClear
    <3>1. /\ mutable' = FALSE /\ UNCHANGED <<loads, trees>>
          /\ host' = IF host.pc = "clear" THEN [host EXCEPT !.pc = "plan"] ELSE host
          /\ Has(loop, "clear") # {}
      BY <2>3, <2>7 DEF HandleClear
    <3>2. ~Committing(host')
      <4>1. CASE host.pc = "clear"
        <5>1. host'.pc = "plan"
          BY <1>0, <3>1, <4>1 DEF Hosts
        <5> QED
          BY <5>1 DEF Committing
      <4>2. CASE host.pc # "clear"
        BY <3>1, <4>2 DEF LoopControl, RegistryInv
      <4> QED
        BY <4>1, <4>2
    <3> QED
      BY <1>0, <2>2, <3>1, <3>2, RegistryKept DEF RegistryInv
  <2>8. CASE HandleUnheard
    BY <1>0, <2>2, <2>8, RegistryKept DEF HandleUnheard, RegistryInv
  <2>9. CASE HandleCheckpoint
    <3>1. LaunchChain(chain, trees) /\ UNCHANGED <<mutable, loads, host>>
      BY <2>9 DEF HandleCheckpoint
    <3>2. trees' = trees \/ trees' = [trees EXCEPT !.dirty = {}, !.final = IF mutable THEN @ ELSE @ \cup trees.loaded]
      BY <3>1 DEF LaunchChain
    <3>3. trees'.loaded = trees.loaded /\ trees'.requested = trees.requested /\ trees'.dirty \subseteq trees.loaded
      BY <1>0, <3>2 DEF Registries
    <3> QED
      BY <2>2, <3>1, <3>3, RegistryKept DEF RegistryInv
  <2> QED
    BY <1>11, <2>4, <2>5, <2>6, <2>7, <2>8, <2>9 DEF TreeLoop
<1>12. CASE DeserializeTree
  <2>1. PICK load \in loads :
          /\ loads' = loads \ {load}
          /\ trees' = [trees EXCEPT !.loaded = @ \cup {load.tree}, !.dirty = @ \ {load.tree}]
          /\ UNCHANGED <<mutable, loop, host>>
    BY <1>12 DEF DeserializeTree
  <2>2. /\ trees'.loaded = trees.loaded \cup {load.tree} /\ trees'.requested = trees.requested
        /\ trees'.dirty = trees.dirty \ {load.tree} /\ load.tree \in Trees
    BY <1>0, <2>1 DEF Registries, Loads
  <2>3. \A l \in loads' : l.tree # load.tree
    BY <2>1 DEF RegistryInv
  <2>4. trees.loaded = Trees => trees'.loaded = Trees
    BY <2>2
  <2> QED
    BY <2>1, <2>2, <2>3, <2>4 DEF RegistryInv
<1>13. CASE ChainFails
  <2>1. CASE chain.step = "trees"
    <3>1. trees' = [trees EXCEPT !.dirty = @ \cup chain.trees] /\ UNCHANGED <<mutable, loop, host, loads>>
      BY <1>13, <2>1 DEF ChainFails
    <3>2. chain.trees \subseteq trees.loaded
      BY <2>1 DEF WritingLoaded, Writing
    <3>3. trees'.loaded = trees.loaded /\ trees'.requested = trees.requested /\ trees'.dirty \subseteq trees.loaded
      BY <1>0, <3>1, <3>2 DEF Registries
    <3> QED
      BY <3>1, <3>3, RegistryKept DEF RegistryInv
  <2>2. CASE chain.step # "trees"
    BY <1>1, <1>13, <2>2 DEF ChainFails
  <2> QED
    BY <2>1, <2>2
<1>14. CASE EndChain
  <2> DEFINE ships == chain.step = "emit" /\ Band.emit
             after == IF ships THEN [trees EXCEPT !.banded = @ \cup Band.trees] ELSE trees
             off == [chain EXCEPT !.step = "off"]
  <2>1. /\ IF chain.rerun THEN LaunchChain(off, after) ELSE chain' = off /\ trees' = after
        /\ host' = IF host.pc = "round" THEN [host EXCEPT !.pc = "plan"] ELSE host
        /\ UNCHANGED <<mutable, loop, loads>>
    BY <1>14 DEF EndChain
  <2>2. after.loaded = trees.loaded /\ after.requested = trees.requested /\ after.dirty = trees.dirty /\ after \in Registries
    <3>1. Band.trees \subseteq Trees
      BY <1>0 DEF Band, Registries
    <3> QED
      BY <1>0, <3>1 DEF Registries
  <2> HIDE DEF after, off
  <2>3. trees' = after \/ trees' = [after EXCEPT !.dirty = {}, !.final = IF mutable THEN @ ELSE @ \cup after.loaded]
    BY <2>1 DEF LaunchChain
  <2>4. trees'.loaded = trees.loaded /\ trees'.requested = trees.requested /\ trees'.dirty \subseteq trees.loaded
    BY <1>0, <2>2, <2>3 DEF Registries
  <2>5. (host.pc = "round" /\ host'.pc = "plan") \/ host' = host
    BY <1>0, <2>1 DEF Hosts
  <2>6. CASE host' = host
    BY <2>1, <2>4, <2>6, RegistryKept DEF RegistryInv
  <2>7. CASE host.pc = "round" /\ host'.pc = "plan"
    BY <2>1, <2>4, <2>7, RegistryKept DEF IsOpening, Committing
  <2> QED
    BY <2>5, <2>6, <2>7
<1>15. CASE Crash
  <2>1. /\ mutable' = disk.mutable /\ trees' = Registry({}, Asked(disk), disk, uploads.bucket)
        /\ loads' = {[tree |-> t, units |-> disk.units] : t \in Asked(disk)}
        /\ loop' = <<>> /\ host' = Opening
    BY <1>15 DEF Crash
  <2>2. trees'.loaded = {} /\ trees'.dirty = {} /\ trees'.requested = Asked(disk)
    BY <2>1 DEF Registry
  <2>3. Has(loop', "append") = {}
    BY <2>1 DEF Has
  <2>4. disk.mutable => Asked(disk) = Trees
    BY DEF Asked
  <2>5. \A load \in loads' : load.tree \in Asked(disk) /\ load = [tree |-> load.tree, units |-> disk.units]
    BY <2>1
  <2> QED
    BY <2>1, <2>2, <2>3, <2>4, <2>5, IdleAt DEF RegistryInv, IsOpening, Committing
<1>16. CASE \/ UNCHANGED vars \/ TreesWritten \/ IndexCommitted \/ BandUploaded \/ UploadParks
            \/ (\E n \in Names : AddAttribute(n)) \/ (\E i \in DOMAIN pending, batch \in Batches : AddData(i, batch))
  <2>1. host' = host /\ loop' = loop /\ mutable' = mutable /\ UNCHANGED <<loads, trees>>
    BY <1>16 DEF vars, TreesWritten, IndexCommitted, BandUploaded, UploadParks, AddAttribute, AddData
  <2> QED
    BY <1>1, <2>1
<1> QED
  BY <1>2, <1>3, <1>5, <1>6, <1>7, <1>8, <1>9, <1>10, <1>11, <1>12, <1>13, <1>14, <1>15, <1>16, <1>17
  DEF Next, Calls, System, Host, Chain

LEMMA StepWriting ==
  ASSUME SessionControl, RegistryInv, WritingLoaded, [Next]_vars
  PROVE  WritingLoaded'
<1>0. trees \in Registries /\ chain \in Chains /\ trees.dirty \subseteq trees.loaded
  BY DEF SessionControl, SessionType, TreesType, ChainType, RegistryInv
<1>1. CASE chain' = chain /\ trees.loaded \subseteq trees'.loaded
  BY <1>1 DEF WritingLoaded, Writing
<1>2. CASE chain'.step # "trees"
  BY <1>2 DEF WritingLoaded, Writing
<1>3. ASSUME NEW c \in Chains, NEW ts \in Registries, ts.loaded = trees.loaded, ts.dirty = trees.dirty, LaunchChain(c, ts),
             c.step = "trees" => c.trees \subseteq ts.loaded
      PROVE  WritingLoaded'
  <2>1. CASE c.step = "off"
    <3>1. chain'.trees = ts.dirty /\ trees'.loaded = ts.loaded
      BY <1>3, <2>1 DEF LaunchChain, Chains, Registries
    <3> QED
      BY <1>0, <1>3, <3>1 DEF WritingLoaded, Writing
  <2>2. CASE c.step # "off"
    <3>1. chain' = [c EXCEPT !.rerun = TRUE] /\ trees' = ts
      BY <1>3, <2>2 DEF LaunchChain
    <3>2. chain'.trees = c.trees /\ chain'.step = c.step /\ trees'.loaded = ts.loaded
      BY <1>3, <3>1 DEF Chains
    <3> QED
      BY <1>3, <3>2 DEF WritingLoaded, Writing
  <2> QED
    BY <2>1, <2>2
<1>4. CASE HandleCheckpoint
  BY <1>0, <1>3, <1>4 DEF HandleCheckpoint, WritingLoaded, Writing
<1>5. CASE EndChain
  <2> DEFINE ships == chain.step = "emit" /\ Band.emit
             after == IF ships THEN [trees EXCEPT !.banded = @ \cup Band.trees] ELSE trees
             off == [chain EXCEPT !.step = "off"]
  <2>1. IF chain.rerun THEN LaunchChain(off, after) ELSE chain' = off /\ trees' = after
    BY <1>5 DEF EndChain
  <2>2. after.loaded = trees.loaded /\ after.dirty = trees.dirty /\ after \in Registries
    <3>1. Band.trees \subseteq Trees
      BY <1>0 DEF Band, Registries
    <3> QED
      BY <1>0, <3>1 DEF Registries
  <2>3. off \in Chains /\ off.step = "off"
    BY <1>0 DEF Chains
  <2> HIDE DEF after, off
  <2>4. CASE chain.rerun
    BY <1>3, <2>1, <2>2, <2>3, <2>4
  <2>5. CASE ~chain.rerun
    BY <1>2, <2>1, <2>3, <2>5
  <2> QED
    BY <2>4, <2>5
<1>6. CASE TreesWritten \/ IndexCommitted \/ ChainFails \/ Crash
  <2>1. chain'.step # "trees"
    <3>1. CASE TreesWritten
      BY <1>0, <3>1 DEF TreesWritten, Chains
    <3>2. CASE IndexCommitted \/ ChainFails
      BY <1>0, <3>2 DEF IndexCommitted, ChainFails, Chains
    <3>3. CASE Crash
      BY <3>3 DEF Crash, NoChain
    <3> QED
      BY <1>6, <3>1, <3>2, <3>3
  <2> QED
    BY <1>2, <2>1
<1>7. CASE HandleLoad \/ HandleAppend \/ DeserializeTree
  <2>1. chain' = chain
    BY <1>7 DEF HandleLoad, HandleAppend, DeserializeTree
  <2>2. trees.loaded \subseteq trees'.loaded
    BY <1>0, <1>7 DEF HandleLoad, HandleAppend, DeserializeTree, Registries
  <2> QED
    BY <1>1, <2>1, <2>2
<1>8. CASE \/ Calls \/ Host \/ WriteAttributes \/ SliceFails \/ BlobLost \/ TimesOut \/ CachePressure \/ BandUploaded
           \/ UploadParks
  <2>1. chain' = chain /\ trees' = trees
    BY <1>8
    DEF Calls, Host, WriteAttributes, SliceFails, BlobLost, TimesOut, CachePressure, BandUploaded, UploadParks, AddAttribute, AddData,
        CommitAttributes, Finalize, Resident, NextAttribute, Joined, Slice, Post, Wait, Return
  <2> QED
    BY <1>1, <2>1
<1>9. CASE UNCHANGED vars \/ HandleSnapshot \/ HandleClear \/ HandleUnheard
  <2>1. chain' = chain /\ trees' = trees
    BY <1>9 DEF vars, HandleSnapshot, HandleClear, HandleUnheard
  <2> QED
    BY <1>1, <2>1
<1> QED
  BY <1>4, <1>5, <1>6, <1>7, <1>8, <1>9 DEF Next, System, Chain, TreeLoop

SessionBase == SessionControl /\ RegistryInv /\ WritingLoaded

LEMMA InitBase == ASSUME Minted = {}, Init PROVE SessionBase
<1>1. host = Opening /\ chain = NoChain
  BY DEF Init
<1>2. CallAt(host) /\ WritingLoaded
  BY <1>1, IdleAt DEF WritingLoaded, Writing, NoChain
<1> QED
  BY <1>2, InitType, InitControl, InitRegistry DEF SessionBase, SessionControl

LEMMA StepBase == ASSUME SessionBase, [Next]_vars PROVE SessionBase'
<1>1. SessionControl /\ SessionType /\ LoopControl /\ CallAt(host) /\ RegistryInv /\ WritingLoaded
  BY DEF SessionBase, SessionControl
<1>2. SessionType' /\ LoopControl' /\ CallAt(host')
  BY <1>1, StepType, StepControl, CallSteps
<1>3. RegistryInv' /\ WritingLoaded'
  BY <1>1, <1>2, StepRegistry, StepWriting
<1> QED
  BY <1>2, <1>3 DEF SessionBase, SessionControl

LEMMA AlwaysBased == ASSUME Minted = {} PROVE Spec => []SessionBase
<1>1. Init => SessionBase
  BY InitBase
<1>2. SessionBase /\ [Next]_vars => SessionBase'
  BY StepBase
<1> QED
  BY <1>1, <1>2, PTL DEF Spec

\* handle_deserialize_tree asserts that the registry has no tree in the place of one that was read: nothing
\* the session's host or its cache asks for makes a tree be read twice, or after it was loaded.
THEOREM LoadsHaveTheirPlace == ASSUME Minted = {} PROVE Spec => []LoadsFindNothing
<1>1. SessionBase => LoadsFindNothing
  BY DEF SessionBase, RegistryInv, LoadsFindNothing
<1> QED
  BY <1>1, AlwaysBased, PTL

-----------------------------------------------------------------------------
(***************************************************************************)
(* Finalizing: nothing is in flight when the flag is cleared.              *)
(***************************************************************************)
Clearing(h) == h.pc = "clear" \/ (h.pc = "plan" /\ h.call = "finalize" /\ h.todo \in {Todo5, Todo4})
IsQuiet(c, l) == c.step = "off" /\ Has(l, "checkpoint") = {}
QuietInv == Clearing(host) => IsQuiet(chain, loop)

LEMMA QuietIs == ASSUME LoopType PROVE Quiet <=> IsQuiet(chain, loop)
<1>1. DOMAIN loop = 1 .. Len(loop)
  BY DEF LoopType
<1> QED
  BY <1>1 DEF Quiet, IsQuiet, Has

\* The host's call goes on to clearing only from finalize, and from one step of it to the next.
LEMMA ClearingSteps ==
  ASSUME SessionControl, [Next]_vars, Clearing(host')
  PROVE  \/ Finalize
         \/ /\ Clearing(host)
            /\ \/ host' = host
               \/ Post /\ host.todo = Todo5 /\ host.pc = "plan" /\ host'.pc = "clear" /\ loop' = Append(loop, Task("clear"))
               \/ (TimesOut \/ (TreeLoop /\ HandleClear)) /\ host.pc = "clear" /\ host'.pc = "plan"
<1>0. host \in Hosts /\ loop \in Seq(Tasks) /\ SessionType /\ CallAt(host)
  BY DEF SessionControl, SessionType, HostType, LoopType
<1>1. CASE host' = host
  BY <1>1
<1>2. ASSUME \/ host'.pc \notin {"plan", "clear"}
             \/ host'.pc = "plan" /\ (host'.call # "finalize" \/ host'.todo \in {Todo3, Todo2, Todo1, Rounds2, Rounds1, <<>>})
      PROVE  FALSE
  BY <1>2, TodosDiffer DEF Clearing
<1>3. CASE Post
  <2>1. /\ host.pc = "plan" /\ host'.call = host.call
        /\ \/ host.todo = Todo5 /\ host'.pc = "clear" /\ loop' = Append(loop, Task("clear"))
           \/ host'.pc = "round"
           \/ host'.pc = "plan" /\ host'.todo \in {Todo2, Todo1}
           \/ host'.pc = "plan" /\ host'.todo = Settled
    BY <1>0, <1>3, PlanSteps
  <2>2. Settled \in {Rounds2, <<>>}
    BY DEF Settled, Rounds2
  <2>3. host.todo = Todo5 /\ host'.pc = "clear" /\ loop' = Append(loop, Task("clear"))
    BY <1>2, <2>1, <2>2
  <2>4. Clearing(host)
    BY <1>0, <2>1, <2>3, TodosDiffer DEF Clearing, CallAt
  <2> QED
    BY <1>3, <2>1, <2>3, <2>4
<1>4. CASE Wait
  <2>1. Post \/ (host'.pc = "plan" /\ host'.todo \in {Todo2, Todo1, Settled})
    BY <1>0, <1>4, PlanSteps
  <2>2. Settled \in {Rounds2, <<>>}
    BY DEF Settled, Rounds2
  <2> QED
    BY <1>2, <1>3, <2>1, <2>2
<1>5. CASE TimesOut \/ (TreeLoop /\ HandleClear)
  <2>1. host' \in {host, Idle} \/ (host.pc = "clear" /\ host' = [host EXCEPT !.pc = "plan"])
    BY <1>5 DEF TimesOut, HandleClear
  <2>2. host' = host \/ (host.pc = "clear" /\ host'.pc = "plan")
    BY <1>0, <1>2, <2>1, IdleAt DEF Hosts
  <2> QED
    BY <1>1, <1>5, <2>2 DEF Clearing
<1>6. CASE Joined
  <2>1. host'.pc = "plan" /\ host'.call = "commit"
    BY <1>6, IdleType DEF Joined, Hosts
  <2> QED
    BY <1>2, <2>1
<1>7. CASE CommitAttributes \/ Resident \/ NextAttribute \/ Return \/ SliceFails \/ Crash
  <2>1. host' \in {Idle, Opening} \/ host'.pc \in {"resident", "attribute", "snapshot"}
    <3>1. CASE CommitAttributes \/ Return \/ SliceFails \/ Crash
      BY <3>1, IdleType, IdleAt DEF CommitAttributes, Return, SliceFails, Crash, Hosts
    <3>2. CASE Resident \/ NextAttribute
      BY <1>0, <3>2 DEF Resident, NextAttribute, Hosts
    <3> QED
      BY <1>7, <3>1, <3>2
  <2> QED
    BY <1>2, <2>1, IdleAt
<1>8. CASE Slice \/ WriteAttributes \/ HandleSnapshot
  <2>1. host'.pc \in {"attribute", "slice", "write", "append"}
    BY <1>0, <1>8 DEF Slice, WriteAttributes, HandleSnapshot, Hosts
  <2> QED
    BY <1>2, <2>1
<1>12. CASE BlobLost
  <2>1. host'.pc = "write"
    BY <1>0, <1>12, BlobLostIs
  <2> QED
    BY <1>2, <2>1
<1>9. CASE HandleAppend
  <2>1. host' = host \/ host'.pc = "slice"
    BY <1>0, <1>9 DEF HandleAppend, Hosts
  <2> QED
    BY <1>1, <1>2, <2>1
<1>10. CASE EndChain
  <2>1. host' = host \/ (host.pc = "round" /\ host'.pc = "plan" /\ host'.todo = host.todo)
    BY <1>0, <1>10 DEF EndChain, Hosts
  <2> QED
    BY <1>0, <1>1, <1>2, <2>1 DEF CallAt
<1>11. CASE \/ UNCHANGED vars \/ CachePressure \/ ChainFails \/ UploadParks
            \/ HandleLoad \/ HandleUnheard \/ HandleCheckpoint \/ DeserializeTree \/ BandUploaded
            \/ TreesWritten \/ IndexCommitted
            \/ (\E n \in Names : AddAttribute(n)) \/ (\E i \in DOMAIN pending, batch \in Batches : AddData(i, batch))
  BY <1>1, <1>11
  DEF vars, CachePressure, ChainFails, UploadParks, HandleLoad, HandleUnheard, HandleCheckpoint, DeserializeTree,
      BandUploaded, TreesWritten, IndexCommitted, AddAttribute, AddData
<1> QED
  BY <1>3, <1>4, <1>5, <1>6, <1>7, <1>8, <1>9, <1>10, <1>11, <1>12
  DEF Next, Calls, System, Host, Chain, TreeLoop

LEMMA StepQuiet ==
  ASSUME QuietFinalize, SessionControl, SessionType', QuietInv, [Next]_vars
  PROVE  QuietInv'
<1> SUFFICES ASSUME Clearing(host') PROVE IsQuiet(chain', loop')
  BY DEF QuietInv
<1>0. host \in Hosts /\ loop \in Seq(Tasks) /\ SessionType /\ CallAt(host) /\ chain \in Chains /\ LoopControl
  BY DEF SessionControl, SessionType, HostType, LoopType, ChainType
<1>1. CASE Finalize
  <2>1. Quiet /\ chain' = chain /\ loop' = loop
    BY <1>1 DEF Finalize
  <2> QED
    BY <1>0, <2>1, QuietIs DEF LoopType
<1>2. CASE ~Finalize
  <2>1. /\ Clearing(host)
        /\ \/ host' = host
           \/ Post /\ host.todo = Todo5 /\ host.pc = "plan" /\ host'.pc = "clear" /\ loop' = Append(loop, Task("clear"))
           \/ (TimesOut \/ (TreeLoop /\ HandleClear)) /\ host.pc = "clear" /\ host'.pc = "plan"
    BY <1>2, ClearingSteps
  <2>2. chain.step = "off" /\ Has(loop, "checkpoint") = {}
    BY <2>1 DEF QuietInv, IsQuiet
  <2>3. host.pc \in {"clear", "plan"} /\ host.call = "finalize"
    BY <1>0, <2>1 DEF Clearing, CallAt
  <2>4. ASSUME chain' = chain, loop' = loop PROVE IsQuiet(chain', loop')
    BY <2>2, <2>4 DEF IsQuiet
  <2>5. CASE Post
    <3>1. CASE loop' = Append(loop, Task("clear"))
      <4>1. Has(loop', "checkpoint") = Has(loop, "checkpoint")
        BY <1>0, <3>1, LoopAppend, TasksAre DEF Kinds
      <4> QED
        BY <2>2, <2>5, <4>1 DEF Post, IsQuiet
    <3>2. host.pc = "plan" /\ host'.pc \in {"clear", "round"}
      BY <1>0, <2>5 DEF Post, Doing, Goes, Hosts
    <3> QED
      BY <2>1, <3>1, <3>2
  <2>6. CASE TimesOut
    <3>1. loop' = [i \in DOMAIN loop |-> IF loop[i].kind = "snapshot" THEN Task("unheard") ELSE loop[i]]
      BY <2>6 DEF TimesOut
    <3>3. DOMAIN loop = 1 .. Len(loop) /\ Len(loop') = Len(loop)
      BY <1>0, <3>1
    <3>4. \A i \in 1 .. Len(loop) : loop'[i] = IF loop[i].kind = "snapshot" THEN Task("unheard") ELSE loop[i]
      BY <3>1, <3>3
    <3>5. \A i \in 1 .. Len(loop) : loop'[i].kind = IF loop[i].kind = "snapshot" THEN "unheard" ELSE loop[i].kind
      BY <3>4, TasksAre DEF Kinds
    <3>6. Has(loop', "checkpoint") = {}
      BY <2>2, <3>3, <3>5 DEF Has
    <3> QED
      BY <2>2, <2>6, <3>6 DEF TimesOut, IsQuiet
  <2>7. CASE TreeLoop
    <3>1. loop # <<>> /\ loop' = Tail(loop)
      BY <2>7 DEF TreeLoop
    <3>2. Has(loop', "checkpoint") = {}
      BY <1>0, <2>2, <3>1, LoopTail DEF LoopControl
    <3>3. ~HandleCheckpoint
      BY <1>0, <2>2, <3>1, LoopHead DEF HandleCheckpoint
    <3>4. chain' = chain
      BY <2>7, <3>3 DEF TreeLoop, HandleLoad, HandleSnapshot, HandleAppend, HandleClear, HandleUnheard
    <3> QED
      BY <2>2, <3>2, <3>4 DEF IsQuiet
  <2>8. CASE Chain \/ ChainFails
    BY <2>2, <2>8 DEF Chain, TreesWritten, IndexCommitted, EndChain, ChainFails
  <2>9. CASE CachePressure \/ CommitAttributes \/ NextAttribute \/ WriteAttributes
    BY <2>3, <2>9 DEF CachePressure, CommitAttributes, NextAttribute, WriteAttributes
  <2>10. CASE Crash
    <3>1. host' = Opening
      BY <2>10 DEF Crash
    <3> QED
      BY <2>1, <2>3, <3>1, IdleAt DEF Clearing
  <2>11. CASE \/ UNCHANGED vars \/ UploadParks \/ DeserializeTree \/ BandUploaded
              \/ Resident \/ Joined \/ Slice \/ SliceFails \/ BlobLost \/ Wait \/ Return
              \/ (\E n \in Names : AddAttribute(n)) \/ (\E i \in DOMAIN pending, batch \in Batches : AddData(i, batch))
    BY <2>4, <2>11
    DEF vars, UploadParks, DeserializeTree, BandUploaded, Resident, Joined, Slice, SliceFails, BlobLost, Wait, Return, AddAttribute,
        AddData
  <2> QED
    BY <1>2, <2>5, <2>6, <2>7, <2>8, <2>9, <2>10, <2>11
    DEF Next, Calls, System, Host
<1> QED
  BY <1>1, <1>2

\* A chain in a dataset that is not mutable was launched when the flag was cleared, and has every tree in its index.
SealInv ==
  /\ ~mutable => trees.loaded \cup trees.final = Trees
  /\ ~mutable /\ chain.step # "off" => trees.final = Trees
  /\ ~mutable /\ chain.step = "index" => ~chain.mutable
  /\ ~mutable /\ chain.step = "emit" => ~disk.mutable
  /\ chain.step = "index" /\ ~chain.mutable => chain.final = Trees
  /\ ~disk.mutable => disk.final = Trees

LEMMA SealKept ==
  ASSUME SealInv, mutable' = mutable, chain' = chain, disk' = disk, trees'.final = trees.final,
         trees.loaded \subseteq trees'.loaded, trees' \in Registries
  PROVE  SealInv'
BY DEF SealInv, Registries

LEMMA LaunchSeals ==
  ASSUME SealInv, mutable' = mutable, disk' = disk, NEW c \in Chains, NEW ts \in Registries, LaunchChain(c, ts),
         ts.loaded = trees.loaded, ts.final = trees.final, c = chain \/ c.step = "off"
  PROVE  SealInv'
<1>1. CASE c.step # "off"
  <2>1. chain' = [c EXCEPT !.rerun = TRUE] /\ trees' = ts
    BY <1>1 DEF LaunchChain
  <2>2. chain'.step = chain.step /\ chain'.mutable = chain.mutable /\ chain'.final = chain.final
    BY <1>1, <2>1 DEF Chains
  <2> QED
    BY <2>1, <2>2 DEF SealInv
<1>2. CASE c.step = "off"
  <2>1. /\ chain' = [c EXCEPT !.step = "trees", !.trees = ts.dirty, !.units = units, !.rerun = FALSE]
        /\ trees' = [ts EXCEPT !.dirty = {}, !.final = IF mutable THEN @ ELSE @ \cup ts.loaded]
    BY <1>2 DEF LaunchChain
  <2>2. chain'.step = "trees"
    BY <2>1 DEF Chains
  <2>3. trees'.loaded = trees.loaded /\ trees'.final = IF mutable THEN trees.final ELSE trees.final \cup trees.loaded
    BY <2>1 DEF Registries
  <2>4. ~mutable => trees'.final = Trees /\ trees'.loaded \cup trees'.final = Trees
    <3>1. ~mutable => trees.loaded \cup trees.final = Trees
      BY DEF SealInv
    <3> QED
      BY <2>3, <3>1
  <2> QED
    BY <2>2, <2>4 DEF SealInv
<1> QED
  BY <1>1, <1>2

LEMMA StepSeal ==
  ASSUME QuietFinalize, SessionBase, SessionType', QuietInv, SealInv, [Next]_vars
  PROVE  SealInv'
<1>0. /\ host \in Hosts /\ loop \in Seq(Tasks) /\ CallAt(host) /\ chain \in Chains /\ LoopControl /\ trees \in Registries
      /\ trees' \in Registries /\ chain' \in Chains /\ disk \in Disks /\ mutable \in BOOLEAN /\ RegistryInv
  BY DEF SessionBase, SessionControl, SessionType, HostType, LoopType, ChainType, TreesType, StoresType
<1>1. ASSUME ~mutable', host.pc = "clear" \/ ~mutable, chain' = chain, trees' = trees, disk' = disk PROVE SealInv'
  <2>1. CASE ~mutable
    BY <1>1, <2>1 DEF SealInv
  <2>2. CASE mutable
    <3>1. trees.loaded = Trees
      BY <1>0, <1>1, <2>2 DEF RegistryInv, IsOpening
    <3>2. chain.step = "off"
      BY <1>1, <2>2 DEF QuietInv, Clearing, IsQuiet
    <3>3. trees.loaded \cup trees.final = Trees
      BY <1>0, <3>1 DEF Registries
    <3> QED
      BY <1>1, <3>2, <3>3 DEF SealInv
  <2> QED
    BY <1>0, <2>1, <2>2
<1>2. CASE TimesOut
  <2>1. CASE host.pc = "clear"
    BY <1>1, <1>2, <2>1 DEF TimesOut
  <2>2. CASE host.pc # "clear"
    BY <1>0, <1>2, <2>2, SealKept DEF TimesOut
  <2> QED
    BY <2>1, <2>2
<1>3. CASE TreeLoop
  <2>1. loop # <<>> /\ disk' = disk /\ Has(loop, Head(loop).kind) # {}
    BY <1>0, <1>3, LoopHead DEF TreeLoop
  <2>2. CASE HandleClear
    <3>1. ~mutable' /\ chain' = chain /\ trees' = trees /\ Has(loop, "clear") # {}
      BY <2>1, <2>2 DEF HandleClear
    <3> QED
      BY <1>0, <1>1, <2>1, <3>1 DEF LoopControl
  <2>3. CASE HandleCheckpoint
    BY <1>0, <2>1, <2>3, LaunchSeals DEF HandleCheckpoint
  <2>4. CASE HandleLoad \/ HandleAppend
    <3>1. chain' = chain /\ mutable' = mutable
      BY <2>4 DEF HandleLoad, HandleAppend
    <3>2. trees'.final = trees.final /\ trees'.loaded = trees.loaded
      BY <1>0, <2>4 DEF HandleLoad, HandleAppend, Registries
    <3> QED
      BY <1>0, <2>1, <3>1, <3>2, SealKept
  <2>5. CASE HandleSnapshot \/ HandleUnheard
    BY <1>0, <2>1, <2>5, SealKept DEF HandleSnapshot, HandleUnheard
  <2> QED
    BY <1>3, <2>2, <2>3, <2>4, <2>5 DEF TreeLoop
<1>4. CASE DeserializeTree
  <2>1. PICK load \in loads :
          /\ trees' = [trees EXCEPT !.loaded = @ \cup {load.tree}, !.dirty = @ \ {load.tree}]
          /\ UNCHANGED <<mutable, chain, disk>>
    BY <1>4 DEF DeserializeTree
  <2>2. trees'.loaded = trees.loaded \cup {load.tree} /\ trees'.final = trees.final
    BY <1>0, <2>1 DEF Registries
  <2> QED
    BY <1>0, <2>1, <2>2, SealKept
<1>5. CASE TreesWritten
  <2>1. /\ chain' = [chain EXCEPT !.step = "index", !.units = located', !.final = trees.final, !.mutable = mutable]
        /\ UNCHANGED <<trees, mutable, disk>> /\ chain.step = "trees"
    BY <1>5 DEF TreesWritten
  <2>2. chain'.step = "index" /\ chain'.final = trees.final /\ chain'.mutable = mutable
    BY <1>0, <2>1 DEF Chains
  <2> QED
    BY <2>1, <2>2 DEF SealInv
<1>6. CASE IndexCommitted
  <2>1. /\ disk' = [units |-> chain.units, mutable |-> chain.mutable, final |-> chain.final]
        /\ chain' = [chain EXCEPT !.step = "emit", !.commits = @ + 1]
        /\ UNCHANGED <<trees, mutable>> /\ chain.step = "index"
    BY <1>6 DEF IndexCommitted
  <2>2. chain'.step = "emit" /\ disk'.mutable = chain.mutable /\ disk'.final = chain.final
    BY <1>0, <2>1 DEF Chains
  <2> QED
    BY <2>1, <2>2 DEF SealInv
<1>7. CASE ChainFails
  <2>1. /\ chain' = [chain EXCEPT !.step = "failed"] /\ chain.step # "off" /\ UNCHANGED <<mutable, disk>>
        /\ trees' = IF chain.step = "trees" THEN [trees EXCEPT !.dirty = @ \cup chain.trees] ELSE trees
    BY <1>7 DEF ChainFails
  <2>2. chain'.step = "failed" /\ trees'.loaded = trees.loaded /\ trees'.final = trees.final
    BY <1>0, <2>1 DEF Chains, Registries
  <2> QED
    BY <2>1, <2>2 DEF SealInv
<1>8. CASE EndChain
  <2> DEFINE ships == chain.step = "emit" /\ Band.emit
             after == IF ships THEN [trees EXCEPT !.banded = @ \cup Band.trees] ELSE trees
             off == [chain EXCEPT !.step = "off"]
  <2>1. /\ IF chain.rerun THEN LaunchChain(off, after) ELSE chain' = off /\ trees' = after
        /\ UNCHANGED <<mutable, disk>>
    BY <1>8 DEF EndChain
  <2>2. after.loaded = trees.loaded /\ after.final = trees.final /\ after \in Registries
    <3>1. Band.trees \subseteq Trees
      BY <1>0 DEF Band, Registries
    <3> QED
      BY <1>0, <3>1 DEF Registries
  <2>3. off \in Chains /\ off.step = "off"
    BY <1>0 DEF Chains
  <2> HIDE DEF after, off
  <2>4. CASE chain.rerun
    BY <2>1, <2>2, <2>3, <2>4, LaunchSeals
  <2>5. CASE ~chain.rerun
    BY <2>1, <2>2, <2>3, <2>5 DEF SealInv
  <2> QED
    BY <2>4, <2>5
<1>9. CASE Crash
  <2>1. /\ mutable' = disk.mutable /\ disk' = disk /\ chain' = NoChain
        /\ trees' = Registry({}, Asked(disk), disk, uploads.bucket)
    BY <1>9 DEF Crash
  <2>2. chain'.step = "off" /\ trees'.final = disk.final /\ trees'.loaded = {}
    BY <2>1 DEF NoChain, Registry
  <2> QED
    BY <2>1, <2>2 DEF SealInv
<1>10. CASE \/ UNCHANGED vars \/ UploadParks \/ BandUploaded \/ CachePressure \/ CommitAttributes \/ Finalize
            \/ Resident \/ Joined \/ Slice \/ SliceFails \/ BlobLost \/ NextAttribute \/ WriteAttributes \/ Post \/ Wait
            \/ Return \/ (\E n \in Names : AddAttribute(n)) \/ (\E i \in DOMAIN pending, batch \in Batches : AddData(i, batch))
  <2>1. UNCHANGED <<trees, mutable, chain, disk>>
    BY <1>10
    DEF vars, UploadParks, BandUploaded, CachePressure, CommitAttributes, Finalize, Resident, Joined, Slice, SliceFails, BlobLost,
        NextAttribute, WriteAttributes, Post, Wait, Return, AddAttribute, AddData
  <2> QED
    BY <1>0, <2>1, SealKept
<1> QED
  BY <1>2, <1>3, <1>4, <1>5, <1>6, <1>7, <1>8, <1>9, <1>10 DEF Next, Calls, System, Host, Chain

\* The one band a session ships is the terminal one, of every tree.
ShipInv ==
  /\ trees.banded = IF uploads.terminal THEN Trees ELSE {}
  /\ uploads.bucket = IF uploads.complete THEN Trees ELSE {}
  /\ uploads.queue = IF uploads.terminal /\ ~uploads.complete THEN <<Trees>> ELSE <<>>
  /\ uploads.complete => uploads.terminal
  /\ used.parks = 0 => ~uploads.parked

LEMMA ShipKept ==
  ASSUME ShipInv, uploads' = uploads, used'.parks = used.parks, trees'.banded = trees.banded
  PROVE  ShipInv'
BY DEF ShipInv

LEMMA LaunchBands ==
  ASSUME NEW c \in Chains, NEW ts \in Registries, LaunchChain(c, ts)
  PROVE  trees'.banded = ts.banded
BY DEF LaunchChain, Registries

\* What the end of a chain ships.
LEMMA ChainShips ==
  ASSUME SessionBase, SealInv, ShipInv, EndChain
  PROVE  /\ \/ trees'.banded = trees.banded /\ uploads' = uploads
            \/ /\ chain.step = "emit" /\ ~mutable /\ ~uploads.terminal /\ trees'.banded = Trees
               /\ uploads' = [uploads EXCEPT !.queue = <<Trees>>, !.terminal = TRUE]
         /\ chain.step = "emit" /\ ~mutable => uploads'.terminal
<1> DEFINE ships == chain.step = "emit" /\ Band.emit
           after == IF ships THEN [trees EXCEPT !.banded = @ \cup Band.trees] ELSE trees
           off == [chain EXCEPT !.step = "off"]
<1>0. chain \in Chains /\ trees \in Registries /\ uploads \in Destinations
  BY DEF SessionBase, SessionControl, SessionType, ChainType, TreesType, UploadsType
<1>1. /\ uploads' = IF ships THEN [uploads EXCEPT !.queue = Append(@, Band.trees), !.terminal = TRUE] ELSE uploads
      /\ IF chain.rerun THEN LaunchChain(off, after) ELSE chain' = off /\ trees' = after
  BY DEF EndChain
<1>2. after \in Registries /\ off \in Chains
  <2>1. Band.trees \subseteq Trees
    BY <1>0 DEF Band, Registries
  <2> QED
    BY <1>0, <2>1 DEF Registries, Chains
<1>3. after.banded = IF ships THEN trees.banded \cup Band.trees ELSE trees.banded
  BY <1>0 DEF Registries
<1>4. chain.step = "emit" /\ ~mutable => trees.final = Trees
  BY DEF SealInv
<1>5. ships => ~mutable /\ ~uploads.terminal /\ Band.trees = Trees /\ trees.banded = {} /\ uploads.queue = <<>>
  <2>1. SUFFICES ASSUME ships PROVE ~mutable /\ ~uploads.terminal /\ Band.trees = Trees /\ trees.banded = {} /\ uploads.queue = <<>>
    OBVIOUS
  <2>2. ~mutable /\ (trees.final \ trees.banded # {} \/ ~uploads.terminal) /\ Band.trees = trees.final \ trees.banded
    BY <2>1 DEF Band
  <2>3. ~uploads.terminal
    BY <1>4, <2>1, <2>2 DEF ShipInv
  <2> QED
    BY <1>4, <2>1, <2>2, <2>3 DEF ShipInv
<1>6. chain.step = "emit" /\ ~mutable /\ ~ships => uploads.terminal
  BY DEF Band
<1> HIDE DEF after, off, ships
<1>7. trees'.banded = after.banded
  BY <1>1, <1>2, LaunchBands
<1>8. CASE ships
  <2>1. uploads' = [uploads EXCEPT !.queue = Append(<<>>, Trees), !.terminal = TRUE]
    BY <1>1, <1>5, <1>8
  <2>2. Append(<<>>, Trees) = <<Trees>>
    OBVIOUS
  <2>3. uploads' = [uploads EXCEPT !.queue = <<Trees>>, !.terminal = TRUE]
    BY <2>1, <2>2
  <2>4. uploads'.terminal
    BY <1>0, <2>3 DEF Destinations
  <2>5. trees'.banded = Trees
    BY <1>3, <1>5, <1>7, <1>8
  <2>6. chain.step = "emit"
    BY <1>8 DEF ships
  <2> QED
    BY <1>5, <1>8, <2>3, <2>4, <2>5, <2>6
<1>9. CASE ~ships
  BY <1>1, <1>3, <1>6, <1>7, <1>9
<1> QED
  BY <1>8, <1>9

LEMMA StepShip ==
  ASSUME SessionBase, SessionType', SealInv, ShipInv, [Next]_vars
  PROVE  ShipInv'
<1>0. trees \in Registries /\ uploads \in Destinations /\ used \in Uses /\ chain \in Chains
  BY DEF SessionBase, SessionControl, SessionType, TreesType, UploadsType, GhostsType, ChainType
<1>1. CASE EndChain
  <2>1. used' = used
    BY <1>1 DEF EndChain
  <2>2. CASE trees'.banded = trees.banded /\ uploads' = uploads
    BY <2>1, <2>2 DEF ShipInv
  <2>3. CASE ~(trees'.banded = trees.banded /\ uploads' = uploads)
    <3>1. ~uploads.terminal /\ trees'.banded = Trees /\ uploads' = [uploads EXCEPT !.queue = <<Trees>>, !.terminal = TRUE]
      BY <1>1, <2>3, ChainShips
    <3>2. /\ uploads'.queue = <<Trees>> /\ uploads'.terminal = TRUE /\ uploads'.bucket = uploads.bucket
          /\ uploads'.complete = uploads.complete /\ uploads'.parked = uploads.parked
      BY <1>0, <3>1 DEF Destinations
    <3> QED
      BY <2>1, <3>1, <3>2 DEF ShipInv
  <2> QED
    BY <2>2, <2>3
<1>2. CASE BandUploaded
  <2>1. /\ uploads.queue # <<>> /\ trees' = trees /\ used' = used
        /\ uploads' = [uploads EXCEPT !.queue = Tail(@), !.bucket = @ \cup Head(uploads.queue), !.complete = TRUE]
    BY <1>2 DEF BandUploaded
  <2>2. uploads.terminal /\ ~uploads.complete /\ uploads.queue = <<Trees>> /\ uploads.bucket = {}
    BY <2>1 DEF ShipInv
  <2>3. Tail(<<Trees>>) = <<>> /\ Head(<<Trees>>) = Trees
    OBVIOUS
  <2>4. /\ uploads'.queue = <<>> /\ uploads'.bucket = Trees /\ uploads'.complete = TRUE
        /\ uploads'.terminal = uploads.terminal /\ uploads'.parked = uploads.parked
    BY <1>0, <2>1, <2>2, <2>3 DEF Destinations
  <2> QED
    BY <2>1, <2>2, <2>4 DEF ShipInv
<1>3. CASE UploadParks
  <2>1. /\ uploads' = [uploads EXCEPT !.parked = TRUE] /\ trees' = trees
        /\ used' = [used EXCEPT !.faults = @ + 1, !.parks = @ + 1]
    BY <1>3 DEF UploadParks
  <2>2. used.parks \in Nat /\ used'.parks = used.parks + 1
    BY <1>0, <2>1 DEF Uses
  <2>3. used'.parks # 0
    BY <2>2
  <2>4. /\ uploads'.queue = uploads.queue /\ uploads'.bucket = uploads.bucket /\ uploads'.complete = uploads.complete
        /\ uploads'.terminal = uploads.terminal
    BY <1>0, <2>1 DEF Destinations
  <2> QED
    BY <2>1, <2>3, <2>4 DEF ShipInv
<1>4. CASE Crash
  <2>1. /\ trees' = Registry({}, Asked(disk), disk, uploads.bucket)
        /\ uploads' = [uploads EXCEPT !.queue = <<>>, !.parked = FALSE, !.terminal = uploads.complete]
    BY <1>4 DEF Crash
  <2>2. /\ uploads'.queue = <<>> /\ uploads'.bucket = uploads.bucket /\ uploads'.complete = uploads.complete
        /\ uploads'.terminal = uploads.complete /\ uploads'.parked = FALSE /\ trees'.banded = uploads.bucket
    BY <1>0, <2>1 DEF Destinations, Registry
  <2> QED
    BY <2>2 DEF ShipInv
<1>5. CASE TreeLoop
  <2>1. uploads' = uploads /\ used' = used
    BY <1>5 DEF TreeLoop
  <2>2. trees'.banded = trees.banded
    <3>1. CASE HandleCheckpoint
      BY <1>0, <3>1, LaunchBands DEF HandleCheckpoint
    <3>2. CASE ~HandleCheckpoint
      BY <1>0, <1>5, <3>2 DEF TreeLoop, HandleLoad, HandleSnapshot, HandleAppend, HandleClear, HandleUnheard, Registries
    <3> QED
      BY <3>1, <3>2
  <2> QED
    BY <2>1, <2>2, ShipKept
<1>6. CASE DeserializeTree
  <2>1. uploads' = uploads /\ used' = used
        /\ \E load \in loads : trees' = [trees EXCEPT !.loaded = @ \cup {load.tree}, !.dirty = @ \ {load.tree}]
    BY <1>6 DEF DeserializeTree
  <2>2. trees'.banded = trees.banded
    BY <1>0, <2>1 DEF Registries
  <2> QED
    BY <2>1, <2>2, ShipKept
<1>7. CASE ChainFails
  <2>1. /\ uploads' = uploads /\ used' = [used EXCEPT !.faults = @ + 1, !.chain = @ + 1]
        /\ trees' = IF chain.step = "trees" THEN [trees EXCEPT !.dirty = @ \cup chain.trees] ELSE trees
    BY <1>7 DEF ChainFails
  <2>2. trees'.banded = trees.banded /\ used'.parks = used.parks
    BY <1>0, <2>1 DEF Registries, Uses
  <2> QED
    BY <2>1, <2>2, ShipKept
<1>8. CASE Calls \/ CachePressure \/ SliceFails \/ BlobLost \/ TimesOut
  <2>1. uploads' = uploads /\ trees' = trees
    BY <1>8 DEF Calls, AddAttribute, AddData, CommitAttributes, Finalize, CachePressure, SliceFails, BlobLost, TimesOut
  <2>2. \/ used' = used \/ used' = [used EXCEPT !.calls = @ + 1] \/ used' = [used EXCEPT !.requests = @ + 1]
        \/ used' = [used EXCEPT !.faults = @ + 1]
    BY <1>8
    DEF Calls, AddAttribute, AddData, CommitAttributes, Finalize, CachePressure, SliceFails, BlobLost, TimesOut, Called, Fault
  <2>3. used'.parks = used.parks
    BY <1>0, <2>2 DEF Uses
  <2> QED
    BY <2>1, <2>3, ShipKept
<1>9. CASE UNCHANGED vars \/ Host \/ WriteAttributes \/ TreesWritten \/ IndexCommitted
  <2>1. uploads' = uploads /\ trees' = trees /\ used' = used
    BY <1>9
    DEF vars, Host, WriteAttributes, TreesWritten, IndexCommitted, Resident, NextAttribute, Joined, Slice, Post, Wait, Return
  <2> QED
    BY <2>1, ShipKept
<1> QED
  BY <1>1, <1>2, <1>3, <1>4, <1>5, <1>6, <1>7, <1>8, <1>9 DEF Next, System, Chain

Before(h) == h.pc = "clear" \/ (h.pc = "plan" /\ h.todo = Todo5)
Shipping(h) == h.pc = "plan" /\ h.todo \in {Todo3, Todo2}
Through(h) == \/ h.pc = "plan" /\ h.todo \in {Todo1, Rounds2, Rounds1, <<>>}
              \/ h.pc = "round" /\ h.todo \in {Rounds1, <<>>}

\* A checkpoint that ends after finalize cleared the flag seals the dataset, and leaves the terminal band
\* enqueued; when the queue is empty it is shipped.
FinalInv ==
  /\ used.chain = 0 => chain.step # "failed"
  /\ host.call = "finalize" /\ ~Before(host) => ~mutable
  /\ host.call = "finalize" /\ (Shipping(host) \/ Through(host)) /\ used.chain = 0 => ~disk.mutable /\ uploads.terminal
  /\ host.call = "finalize" /\ Through(host) /\ used.chain = 0 /\ used.parks = 0 => uploads.complete
  /\ told.finalized /\ used.chain = 0 /\ used.parks = 0 => ~mutable /\ ~disk.mutable /\ uploads.complete

\* The host's call is finalize only from then on, and goes from one step of it to the next.
LEMMA FinalSteps ==
  ASSUME SessionControl, [Next]_vars, host'.call = "finalize"
  PROVE  \/ Finalize /\ Before(host')
         \/ /\ host.call = "finalize"
            /\ \/ host' = host
               \/ Post \/ Wait
               \/ host.pc = "clear" /\ host'.pc = "plan" /\ ~mutable' /\ host'.todo = Todo4
               \/ EndChain /\ host.pc = "round" /\ host'.pc = "plan" /\ host'.todo = host.todo
<1>0. host \in Hosts /\ loop \in Seq(Tasks) /\ SessionType /\ CallAt(host)
  BY DEF SessionControl, SessionType, HostType, LoopType
<1>1. CASE host' = host
  BY <1>1
<1>2. CASE Finalize
  <2>1. host'.pc = "plan" /\ host'.todo = Todo5
    BY <1>2, IdleType, TodosAre DEF Finalize, Hosts
  <2> QED
    BY <1>2, <2>1 DEF Before
<1>3. CASE Post \/ Wait
  BY <1>0, <1>3, PlanSteps
<1>4. CASE TimesOut \/ HandleClear
  <2>1. host' \in {host, Idle} \/ (host.pc = "clear" /\ mutable' = FALSE /\ host' = [host EXCEPT !.pc = "plan"])
    BY <1>4 DEF TimesOut, HandleClear
  <2>2. \/ host' = host
        \/ host.pc = "clear" /\ mutable' = FALSE /\ host'.pc = "plan" /\ host'.call = host.call /\ host'.todo = host.todo
    BY <1>0, <2>1, IdleAt DEF Hosts
  <2>3. host.pc = "clear" => host.todo = Todo4
    BY <1>0 DEF CallAt
  <2> QED
    BY <1>1, <2>2, <2>3
<1>5. ASSUME host'.call = host.call, host.pc \in {"resident", "attribute"} \cup Amending PROVE FALSE
  BY <1>0, <1>5 DEF CallAt
<1>6. CASE CommitAttributes \/ Joined \/ Return \/ SliceFails \/ Crash
  <2>1. host'.call \in {"none", "open", "commit"}
    BY <1>6, IdleType, IdleAt DEF CommitAttributes, Joined, Return, SliceFails, Crash, Hosts
  <2> QED
    BY <2>1
<1>7. CASE Resident \/ NextAttribute
  <2>1. host.pc \in {"resident", "attribute"} /\ (host' = Idle \/ host'.call = host.call)
    BY <1>0, <1>7 DEF Resident, NextAttribute, Hosts
  <2> QED
    BY <1>5, <2>1, IdleAt
<1>8. CASE Slice \/ WriteAttributes
  <2>1. host.pc \in Amending /\ host'.call = host.call
    BY <1>0, <1>8 DEF Slice, WriteAttributes, Hosts, Amending
  <2> QED
    BY <1>5, <2>1
<1>13. CASE BlobLost
  <2>1. host.pc \in Amending /\ host'.call = host.call
    BY <1>0, <1>13, BlobLostIs DEF Amending
  <2> QED
    BY <1>5, <2>1
<1>9. CASE TreeLoop /\ HandleSnapshot
  <2>1. Has(loop, "snapshot") # {}
    BY <1>0, <1>9, LoopHead DEF TreeLoop, HandleSnapshot
  <2>2. host.pc = "snapshot" /\ host'.call = host.call
    BY <1>0, <1>9, <2>1 DEF SessionControl, LoopControl, HandleSnapshot, Hosts
  <2> QED
    BY <1>5, <2>2 DEF Amending
<1>10. CASE HandleAppend
  <2>1. host' = host \/ (host.pc = "append" /\ host'.call = host.call)
    BY <1>0, <1>10 DEF HandleAppend, Hosts
  <2> QED
    BY <1>1, <1>5, <2>1 DEF Amending
<1>11. CASE EndChain
  <2>1. host' = host \/ (host.pc = "round" /\ host'.pc = "plan" /\ host'.todo = host.todo /\ host'.call = host.call)
    BY <1>0, <1>11 DEF EndChain, Hosts
  <2> QED
    BY <1>1, <1>11, <2>1
<1>12. CASE \/ UNCHANGED vars \/ CachePressure \/ ChainFails \/ UploadParks
            \/ HandleLoad \/ HandleUnheard \/ HandleCheckpoint \/ DeserializeTree \/ BandUploaded
            \/ TreesWritten \/ IndexCommitted
            \/ (\E n \in Names : AddAttribute(n)) \/ (\E i \in DOMAIN pending, batch \in Batches : AddData(i, batch))
  BY <1>1, <1>12
  DEF vars, CachePressure, ChainFails, UploadParks, HandleLoad, HandleUnheard, HandleCheckpoint, DeserializeTree,
      BandUploaded, TreesWritten, IndexCommitted, AddAttribute, AddData
<1> QED
  BY <1>2, <1>3, <1>4, <1>6, <1>7, <1>8, <1>9, <1>10, <1>11, <1>12, <1>13
  DEF Next, Calls, System, Host, Chain, TreeLoop

\* What no step takes back.
LEMMA Lasting ==
  ASSUME SessionBase, SealInv, ShipInv, [Next]_vars
  PROVE  /\ used'.chain = 0 => used.chain = 0
         /\ used'.parks = 0 => used.parks = 0
         /\ uploads.complete => uploads'.complete
         /\ uploads.terminal => uploads'.terminal \/ Crash
         /\ ~mutable => ~mutable' \/ Crash
         /\ ~mutable /\ ~disk.mutable => ~mutable' /\ ~disk'.mutable
         /\ ~mutable /\ ~disk.mutable /\ uploads.complete => uploads'.terminal
<1>0. used \in Uses /\ uploads \in Destinations /\ chain \in Chains /\ mutable \in BOOLEAN /\ disk \in Disks
  BY DEF SessionBase, SessionControl, SessionType, UploadsType, GhostsType, ChainType, StoresType
<1>1. (used'.chain = 0 => used.chain = 0) /\ (used'.parks = 0 => used.parks = 0)
  <2>1. \/ used' = used \/ used' = [used EXCEPT !.calls = @ + 1] \/ used' = [used EXCEPT !.requests = @ + 1]
        \/ used' = [used EXCEPT !.faults = @ + 1]
        \/ used' = [used EXCEPT !.faults = @ + 1, !.parks = @ + 1]
        \/ used' = [used EXCEPT !.faults = @ + 1, !.chain = @ + 1]
    BY DEF Next, Calls, System, Host, Chain, vars, AddAttribute, AddData, CommitAttributes, Finalize, Resident,
           NextAttribute, Joined, Slice, Post, Wait, Return, WriteAttributes, TreeLoop, DeserializeTree, TreesWritten,
           IndexCommitted, EndChain, BandUploaded, SliceFails, BlobLost, TimesOut, CachePressure, ChainFails, UploadParks, Crash,
           Called, Fault
  <2>2. used.chain \in Nat /\ used.parks \in Nat /\ used.chain + 1 # 0 /\ used.parks + 1 # 0
    BY <1>0 DEF Uses
  <2>3. used'.chain \in {used.chain, used.chain + 1} /\ used'.parks \in {used.parks, used.parks + 1}
    BY <1>0, <2>1 DEF Uses
  <2> QED
    BY <2>2, <2>3
<1>2. \/ uploads' = uploads
      \/ EndChain /\ uploads' = [uploads EXCEPT !.queue = Append(@, Band.trees), !.terminal = TRUE]
      \/ BandUploaded \/ UploadParks \/ Crash
  BY DEF Next, Calls, System, Host, Chain, vars, AddAttribute, AddData, CommitAttributes, Finalize, Resident,
         NextAttribute, Joined, Slice, Post, Wait, Return, WriteAttributes, TreeLoop, DeserializeTree, TreesWritten,
         IndexCommitted, EndChain, SliceFails, BlobLost, TimesOut, CachePressure, ChainFails
<1>3. /\ uploads.complete => uploads'.complete
      /\ uploads.terminal => uploads'.terminal \/ Crash
  BY <1>0, <1>2 DEF BandUploaded, UploadParks, Crash, Destinations
<1>4. \/ mutable' = mutable \/ mutable' = FALSE \/ (Crash /\ mutable' = disk.mutable)
  BY DEF Next, Calls, System, Host, Chain, vars, AddAttribute, AddData, CommitAttributes, Finalize, Resident,
         NextAttribute, Joined, Slice, Post, Wait, Return, WriteAttributes, TreeLoop, HandleLoad, HandleSnapshot,
         HandleAppend, HandleClear, HandleUnheard, HandleCheckpoint, DeserializeTree, TreesWritten, IndexCommitted,
         EndChain, BandUploaded, SliceFails, BlobLost, TimesOut, CachePressure, ChainFails, UploadParks, Crash
<1>5. disk' = disk \/ (IndexCommitted /\ disk'.mutable = chain.mutable)
  <2>1. disk' = disk \/ IndexCommitted
    BY DEF Next, Calls, System, Host, Chain, vars, AddAttribute, AddData, CommitAttributes, Finalize, Resident,
           NextAttribute, Joined, Slice, Post, Wait, Return, WriteAttributes, TreeLoop, DeserializeTree, TreesWritten,
           EndChain, BandUploaded, SliceFails, BlobLost, TimesOut, CachePressure, ChainFails, UploadParks, Crash
  <2>2. IndexCommitted => disk'.mutable = chain.mutable
    BY DEF IndexCommitted
  <2> QED
    BY <2>1, <2>2
<1>6. ~mutable /\ IndexCommitted => ~chain.mutable
  BY DEF IndexCommitted, SealInv
<1>7. uploads.complete => uploads.terminal /\ (Crash => uploads'.terminal)
  BY <1>0 DEF ShipInv, Crash, Destinations
<1> QED
  BY <1>1, <1>3, <1>4, <1>5, <1>6, <1>7

LEMMA StepFinal ==
  ASSUME SessionBase, SessionType', QuietInv, SealInv, ShipInv, FinalInv, [Next]_vars
  PROVE  FinalInv'
<1>0. /\ host \in Hosts /\ chain \in Chains /\ used \in Uses /\ told \in Tolds /\ uploads \in Destinations
      /\ mutable \in BOOLEAN /\ SessionType /\ CallAt(host) /\ SessionControl
      /\ mutable' \in BOOLEAN /\ disk' \in Disks /\ host' \in Hosts
  BY DEF SessionBase, SessionControl, SessionType, HostType, ChainType, GhostsType, UploadsType, StoresType
<1>1. used'.chain = 0 => chain'.step # "failed"
  <2>1. SUFFICES ASSUME used'.chain = 0 PROVE chain'.step # "failed"
    OBVIOUS
  <2>2. chain.step # "failed" /\ used.chain = 0
    BY <2>1, Lasting DEF FinalInv
  <2>3. ASSUME NEW c \in Chains, NEW ts, LaunchChain(c, ts), c.step # "failed" PROVE chain'.step # "failed"
    <3>1. chain' = [c EXCEPT !.rerun = TRUE] \/
          chain' = [c EXCEPT !.step = "trees", !.trees = ts.dirty, !.units = units, !.rerun = FALSE]
      BY <2>3 DEF LaunchChain
    <3> QED
      BY <2>3, <3>1 DEF Chains
  <2>4. CASE HandleCheckpoint
    BY <1>0, <2>2, <2>3, <2>4 DEF HandleCheckpoint
  <2>5. CASE EndChain
    <3> DEFINE off == [chain EXCEPT !.step = "off"]
    <3>1. \/ \E ts : LaunchChain(off, ts)
          \/ chain' = off
      BY <2>5 DEF EndChain
    <3>2. off \in Chains /\ off.step = "off"
      BY <1>0 DEF Chains
    <3> HIDE DEF off
    <3> QED
      BY <2>3, <3>1, <3>2
  <2>6. CASE ChainFails
    <3>1. used' = [used EXCEPT !.faults = @ + 1, !.chain = @ + 1]
      BY <2>6 DEF ChainFails
    <3>2. used'.chain = used.chain + 1 /\ used.chain \in Nat
      BY <1>0, <3>1 DEF Uses
    <3> QED
      BY <2>1, <3>2
  <2>7. CASE TreesWritten \/ IndexCommitted
    BY <1>0, <2>7 DEF TreesWritten, IndexCommitted, Chains
  <2>8. CASE Crash
    BY <2>8 DEF Crash, NoChain
  <2>9. CASE chain' = chain
    BY <2>2, <2>9
  <2>10. chain' = chain \/ HandleCheckpoint \/ EndChain \/ ChainFails \/ TreesWritten \/ IndexCommitted \/ Crash
    BY DEF Next, Calls, System, Host, Chain, vars, AddAttribute, AddData, CommitAttributes, Finalize, Resident,
           NextAttribute, Joined, Slice, Post, Wait, Return, WriteAttributes, TreeLoop, HandleLoad, HandleSnapshot,
           HandleAppend, HandleClear, HandleUnheard, DeserializeTree, BandUploaded, SliceFails, BlobLost, TimesOut, CachePressure,
           UploadParks
  <2> QED
    BY <2>4, <2>5, <2>6, <2>7, <2>8, <2>9, <2>10
<1>2. host'.call = "finalize" => ~Crash
  BY IdleAt DEF Crash
<1>3. ASSUME Post \/ Wait
      PROVE  /\ mutable' = mutable /\ disk' = disk /\ uploads' = uploads /\ used' = used
             /\ ~Before(host') => ~Before(host)
             /\ Shipping(host') => Shipping(host)
             /\ Through(host') => Through(host) \/ (host.pc = "plan" /\ host.todo = Todo2 /\ Drained)
  <2>1. mutable' = mutable /\ disk' = disk /\ uploads' = uploads /\ used' = used
    BY <1>3 DEF Post, Wait
  <2>2. Settled \in {Rounds2, <<>>}
    BY DEF Settled, Rounds2
  <2>3. ~Before(host') => ~Before(host)
    BY <1>0, <1>3, PlanSteps, TodosDiffer DEF Before
  <2>4. Shipping(host') => Shipping(host)
    BY <1>0, <1>3, <2>2, PlanSteps, TodosDiffer DEF Shipping
  <2>5. Through(host') => Through(host) \/ (host.pc = "plan" /\ host.todo = Todo2 /\ Drained)
    BY <1>0, <1>3, <2>2, PlanSteps, TodosDiffer DEF Through
  <2> QED
    BY <2>1, <2>3, <2>4, <2>5
<1>4. \A h : Before(h) => ~Shipping(h) /\ ~Through(h)
  BY TodosDiffer DEF Before, Shipping, Through
<1>5. ASSUME host'.call = "finalize" PROVE ~Before(host') => ~mutable'
  <2>1. SUFFICES ASSUME ~Before(host') PROVE ~mutable'
    OBVIOUS
  <2>2. host.call = "finalize"
    BY <1>0, <1>5, <2>1, FinalSteps
  <2>3. CASE ~Before(host)
    BY <1>2, <1>5, <2>2, <2>3, Lasting DEF FinalInv
  <2>4. CASE Before(host)
    <3>1. \/ host.pc = "clear" /\ host'.pc = "plan" /\ ~mutable' /\ host'.todo = Todo4
          \/ EndChain /\ host.pc = "round" /\ host'.pc = "plan" /\ host'.todo = host.todo
      BY <1>0, <1>3, <1>5, <2>1, <2>4, FinalSteps
    <3> QED
      BY <2>4, <3>1 DEF Before
  <2> QED
    BY <2>3, <2>4
<1>6. ASSUME host'.call = "finalize", Shipping(host') \/ Through(host'), used'.chain = 0
      PROVE  ~disk'.mutable /\ uploads'.terminal
  <2>1. host.call = "finalize" /\ used.chain = 0 /\ ~Before(host')
    BY <1>0, <1>4, <1>6, FinalSteps, Lasting
  <2>2. CASE Shipping(host) \/ Through(host)
    <3>1. ~mutable /\ ~disk.mutable /\ uploads.terminal
      BY <1>4, <2>1, <2>2 DEF FinalInv
    <3> QED
      BY <1>2, <1>6, <3>1, Lasting
  <2>3. CASE ~Shipping(host) /\ ~Through(host)
    <3>1. ~(host.pc = "plan" /\ host.todo = Todo2)
      BY <2>3 DEF Shipping
    <3>2. \/ host.pc = "clear" /\ host'.pc = "plan" /\ ~mutable' /\ host'.todo = Todo4
          \/ EndChain /\ host.pc = "round" /\ host'.pc = "plan" /\ host'.todo = host.todo
      BY <1>0, <1>3, <1>6, <2>1, <2>3, <3>1, FinalSteps
    <3>3. CASE host.pc = "clear" /\ host'.pc = "plan" /\ ~mutable' /\ host'.todo = Todo4
      BY <1>6, <3>3, TodosDiffer DEF Shipping, Through
    <3>4. CASE EndChain /\ host.pc = "round" /\ host'.pc = "plan" /\ host'.todo = host.todo
      <4>1. ~mutable /\ chain.step # "failed"
        BY <2>1, <3>4 DEF FinalInv, Before
      <4>2. chain.step = "emit"
        BY <3>4, <4>1 DEF EndChain
      <4>3. ~disk.mutable /\ disk' = disk
        BY <3>4, <4>1, <4>2 DEF SealInv, EndChain
      <4> QED
        BY <3>4, <4>1, <4>2, <4>3, ChainShips
    <3> QED
      BY <3>2, <3>3, <3>4
  <2> QED
    BY <2>2, <2>3
<1>7. ASSUME host'.call = "finalize", Through(host'), used'.chain = 0, used'.parks = 0 PROVE uploads'.complete
  <2>1. host.call = "finalize" /\ used.chain = 0 /\ used.parks = 0 /\ ~Before(host')
    BY <1>0, <1>4, <1>7, FinalSteps, Lasting
  <2>2. CASE Through(host)
    BY <2>1, <2>2, Lasting DEF FinalInv
  <2>3. CASE host.pc = "plan" /\ host.todo = Todo2 /\ Drained
    <3>1. uploads.terminal
      BY <2>1, <2>3 DEF FinalInv, Shipping
    <3>2. uploads.queue = <<>>
      BY <2>1, <2>3 DEF Drained, ShipInv
    <3>3. <<Trees>> # <<>>
      OBVIOUS
    <3>4. uploads.complete
      BY <3>1, <3>2, <3>3 DEF ShipInv
    <3> QED
      BY <3>4, Lasting
  <2>4. CASE ~Through(host) /\ ~(host.pc = "plan" /\ host.todo = Todo2 /\ Drained)
    <3>2. \/ host.pc = "clear" /\ host'.pc = "plan" /\ ~mutable' /\ host'.todo = Todo4
          \/ EndChain /\ host.pc = "round" /\ host'.pc = "plan" /\ host'.todo = host.todo
      BY <1>0, <1>3, <1>7, <2>1, <2>4, FinalSteps
    <3>3. CASE host.pc = "clear" /\ host'.pc = "plan" /\ ~mutable' /\ host'.todo = Todo4
      BY <1>7, <3>3, TodosDiffer DEF Through
    <3>4. CASE EndChain /\ host.pc = "round" /\ host'.pc = "plan" /\ host'.todo = host.todo
      <4>1. host.todo \in {Todo3, Rounds1, <<>>}
        BY <1>0, <3>4 DEF CallAt
      <4> QED
        BY <1>7, <2>4, <3>4, <4>1, TodosDiffer DEF Through
    <3> QED
      BY <3>2, <3>3, <3>4
  <2> QED
    BY <2>2, <2>3, <2>4
<1>8. ASSUME told'.finalized, used'.chain = 0, used'.parks = 0 PROVE ~mutable' /\ ~disk'.mutable /\ uploads'.complete
  <2>1. used.chain = 0 /\ used.parks = 0
    BY <1>8, Lasting
  <2>2. CASE told.finalized
    BY <2>1, <2>2, Lasting DEF FinalInv
  <2>3. CASE ~told.finalized
    <3>1. Return /\ told'.finalized = (told.finalized \/ host.call = "finalize")
      <4>1. told' = told \/ Return
        BY DEF Next, Calls, System, Host, Chain, vars, AddAttribute, AddData, CommitAttributes, Finalize, Resident,
               NextAttribute, Joined, Slice, Post, Wait, WriteAttributes, TreeLoop, DeserializeTree, TreesWritten,
               IndexCommitted, EndChain, BandUploaded, SliceFails, BlobLost, TimesOut, CachePressure, ChainFails, UploadParks, Crash
      <4>2. Return
        BY <1>8, <2>3, <4>1
      <4> QED
        BY <4>2 DEF Return
    <3>2. host.call = "finalize" /\ host.pc = "plan" /\ host.todo = <<>>
      BY <1>8, <2>3, <3>1 DEF Return
    <3>3. Through(host) /\ ~Before(host)
      BY <1>4, <3>2 DEF Through
    <3>4. ~mutable /\ ~disk.mutable /\ uploads.complete
      BY <2>1, <3>2, <3>3 DEF FinalInv
    <3> QED
      BY <3>4, Lasting
  <2> QED
    BY <2>2, <2>3
<1> QED
  BY <1>1, <1>5, <1>6, <1>7, <1>8 DEF FinalInv

FinalizeInv == SessionBase /\ QuietInv /\ SealInv /\ ShipInv /\ FinalInv

LEMMA InitFinalize == ASSUME Minted = {}, Init PROVE QuietInv /\ SealInv /\ ShipInv /\ FinalInv
<1>1. /\ host = Opening /\ chain = NoChain /\ mutable = TRUE /\ disk = [units |-> Base, mutable |-> TRUE, final |-> {}]
      /\ uploads = NoBands /\ trees = Registry({}, Trees \ {}, disk, {})
      /\ told = [names |-> {}, finalized |-> FALSE]
  BY DEF Init
<1>2. chain.step = "off" /\ disk.mutable /\ trees.banded = {} /\ ~told.finalized
  BY <1>1 DEF NoChain, Registry
<1>3. uploads.queue = <<>> /\ ~uploads.parked /\ ~uploads.terminal /\ uploads.bucket = {} /\ ~uploads.complete
  BY <1>1 DEF NoBands
<1>4. QuietInv
  BY <1>1, IdleAt DEF QuietInv, Clearing
<1>5. SealInv /\ ShipInv
  BY <1>1, <1>2, <1>3 DEF SealInv, ShipInv
<1>6. FinalInv
  BY <1>1, <1>2, IdleAt DEF FinalInv
<1> QED
  BY <1>4, <1>5, <1>6

\* A destination called complete has every tree, and when finalize has returned the dataset is sealed on disk
\* and shipped (processor.hpp:113), unless an uploader parked or a checkpoint failed: for any number of commits,
\* crashes and timeouts before and after it, when no checkpoint is in flight as finalize is called.
THEOREM FinalizeShips == ASSUME Minted = {}, QuietFinalize PROVE Spec => []ShippedWhole
<1>1. Init => FinalizeInv
  <2> SUFFICES ASSUME Init PROVE FinalizeInv
    OBVIOUS
  <2>1. SessionBase
    BY InitBase
  <2> QED
    BY <2>1, InitFinalize DEF FinalizeInv
<1>2. FinalizeInv /\ [Next]_vars => FinalizeInv'
  <2> SUFFICES ASSUME FinalizeInv, [Next]_vars PROVE FinalizeInv'
    OBVIOUS
  <2>1. SessionBase /\ QuietInv /\ SealInv /\ ShipInv /\ FinalInv
    BY DEF FinalizeInv
  <2>2. SessionBase'
    BY <2>1, StepBase
  <2>3. SessionType' /\ SessionControl
    BY <2>1, <2>2 DEF SessionBase, SessionControl
  <2>4. QuietInv' /\ SealInv' /\ ShipInv' /\ FinalInv'
    BY <2>1, <2>3, StepQuiet, StepSeal, StepShip, StepFinal
  <2> QED
    BY <2>2, <2>4 DEF FinalizeInv
<1>3. FinalizeInv => ShippedWhole
  BY DEF FinalizeInv, FinalInv, SealInv, ShipInv, ShippedWhole
<1> QED
  BY <1>1, <1>2, <1>3, PTL DEF Spec

-----------------------------------------------------------------------------
(***************************************************************************)
(* The units in memory, in the trees written and on disk.                  *)
(***************************************************************************)
\* What is not dirty is written, or is being written as it is; a tree that was read is as it was written.
SyncInv ==
  /\ \A u \in UnitIds : Units[u].tree \notin trees.dirty =>
       units[u] = IF Units[u].tree \in Writing THEN chain.units[u] ELSE located[u]
  /\ \A load \in loads : \A u \in UnitIds : Units[u].tree = load.tree => load.units[u] = located[u]
  /\ chain.step = "index" => chain.units = located
  /\ used.chain = 0 /\ chain.step # "index" => disk.units = located

LEMMA InitSync == ASSUME Init PROVE SyncInv
<1>1. /\ units = Base /\ located = Base /\ disk.units = Base /\ chain = NoChain
      /\ loads = {[tree |-> t, units |-> Base] : t \in Trees \ Minted}
  BY DEF Init
<1>2. chain.step = "off" /\ Writing = {}
  BY <1>1 DEF NoChain, Writing
<1> QED
  BY <1>1, <1>2 DEF SyncInv

\* The steps that change what a sync is about.
LEMMA SyncKept ==
  ASSUME SyncInv, SessionBase, SessionBase', units' = units, located' = located, disk' = disk, chain' = chain, loads' \subseteq loads,
         trees.dirty \subseteq trees'.dirty, used'.chain = 0 => used.chain = 0
  PROVE  SyncInv'
<1>1. Writing' = Writing
  BY DEF Writing
<1> QED
  BY <1>1 DEF SyncInv

LEMMA LaunchSync ==
  ASSUME SyncInv, trees \in Registries, chain \in Chains, units' = units, located' = located, disk' = disk, loads' = loads,
         used' = used, NEW c \in Chains, NEW ts \in Registries, LaunchChain(c, ts), ts.dirty = trees.dirty,
         c = chain \/ (c.step = "off" /\ chain.step \in {"off", "emit", "failed"})
  PROVE  SyncInv'
<1>1. CASE c.step # "off"
  <2>1. chain' = [chain EXCEPT !.rerun = TRUE] /\ trees' = ts
    BY <1>1 DEF LaunchChain
  <2>2. chain'.step = chain.step /\ chain'.trees = chain.trees /\ chain'.units = chain.units
    BY <2>1 DEF Chains
  <2>3. Writing' = Writing /\ trees'.dirty = trees.dirty
    BY <2>1, <2>2 DEF Writing
  <2> QED
    BY <2>2, <2>3 DEF SyncInv
<1>2. CASE c.step = "off"
  <2>1. /\ chain' = [c EXCEPT !.step = "trees", !.trees = ts.dirty, !.units = units, !.rerun = FALSE]
        /\ trees' = [ts EXCEPT !.dirty = {}, !.final = IF mutable THEN @ ELSE @ \cup ts.loaded]
    BY <1>2 DEF LaunchChain
  <2>2. chain'.step = "trees" /\ chain'.trees = trees.dirty /\ chain'.units = units /\ trees'.dirty = {}
    BY <2>1 DEF Chains, Registries
  <2>3. Writing' = trees.dirty /\ Writing = {} /\ chain.step # "index"
    BY <1>2, <2>2 DEF Writing
  <2> QED
    BY <2>2, <2>3 DEF SyncInv
<1> QED
  BY <1>1, <1>2

LEMMA UsedChain == ASSUME SessionBase, [Next]_vars, used'.chain = 0 PROVE used.chain = 0 /\ ~ChainFails
<1>0. used \in Uses
  BY DEF SessionBase, SessionControl, SessionType, GhostsType
<1>1. \/ used' = used \/ used' = [used EXCEPT !.calls = @ + 1] \/ used' = [used EXCEPT !.requests = @ + 1]
      \/ used' = [used EXCEPT !.faults = @ + 1]
      \/ used' = [used EXCEPT !.faults = @ + 1, !.parks = @ + 1]
      \/ used' = [used EXCEPT !.faults = @ + 1, !.chain = @ + 1]
  BY DEF Next, Calls, System, Host, Chain, vars, AddAttribute, AddData, CommitAttributes, Finalize, Resident,
         NextAttribute, Joined, Slice, Post, Wait, Return, WriteAttributes, TreeLoop, DeserializeTree, TreesWritten,
         IndexCommitted, EndChain, BandUploaded, SliceFails, BlobLost, TimesOut, CachePressure, ChainFails, UploadParks, Crash,
         Called, Fault
<1>2. used.chain \in Nat /\ used.chain + 1 # 0
  BY <1>0 DEF Uses
<1>3. used'.chain \in {used.chain, used.chain + 1}
  BY <1>0, <1>1 DEF Uses
<1>4. ChainFails => used'.chain = used.chain + 1
  BY <1>0 DEF ChainFails, Uses
<1> QED
  BY <1>2, <1>3, <1>4

LEMMA StepSync ==
  ASSUME SessionBase, SessionBase', SyncInv, [Next]_vars
  PROVE  SyncInv'
<1>0. /\ chain \in Chains /\ trees \in Registries /\ trees' \in Registries /\ loop \in Seq(Tasks) /\ units \in Maps /\ located \in Maps
      /\ disk \in Disks /\ loads \subseteq Loads /\ RegistryInv /\ WritingLoaded /\ chain.units \in Maps /\ disk.units \in Maps
  BY DEF SessionBase, SessionControl, SessionType, ChainType, TreesType, LoopType, StoresType, Chains, Disks
<1>1. used'.chain = 0 => used.chain = 0
  BY UsedChain
<1>2. ASSUME TreeLoop PROVE loop # <<>> /\ UNCHANGED <<located, disk, used>>
  BY <1>2 DEF TreeLoop
<1>3. CASE TreeLoop /\ HandleLoad
  <2> DEFINE missing == Trees \ trees.requested
             new == {[tree |-> t, units |-> located] : t \in missing}
  <2>1. trees' = [trees EXCEPT !.requested = Trees] /\ loads' = loads \cup new /\ UNCHANGED <<units, chain>>
    BY <1>3 DEF HandleLoad
  <2>2. trees'.dirty = trees.dirty /\ Writing' = Writing
    BY <1>0, <2>1 DEF Registries, Writing
  <2>3. \A load \in new : load.units = located
    OBVIOUS
  <2> HIDE DEF new
  <2>4. \A load \in loads' : \A u \in UnitIds : Units[u].tree = load.tree => load.units[u] = located[u]
    BY <2>1, <2>3 DEF SyncInv
  <2> QED
    BY <1>2, <1>3, <2>1, <2>2, <2>4 DEF SyncInv
<1>4. CASE TreeLoop /\ HandleAppend
  <2>1. /\ units' = AllLanded
        /\ trees' = [trees EXCEPT !.dirty = @ \cup {Units[u].tree : u \in Landing}]
        /\ UNCHANGED <<chain, loads>>
    BY <1>4 DEF HandleAppend
  <2>2. trees'.dirty = trees.dirty \cup {Units[u].tree : u \in Landing} /\ Writing' = Writing
    BY <1>0, <2>1 DEF Registries, Writing
  <2>3. \A u \in UnitIds : Units[u].tree \notin trees'.dirty => Units[u].tree \notin trees.dirty /\ units'[u] = units[u]
    BY <2>1, <2>2 DEF AllLanded
  <2> QED
    BY <1>2, <1>4, <2>1, <2>2, <2>3 DEF SyncInv
<1>5. CASE TreeLoop /\ HandleCheckpoint
  BY <1>0, <1>2, <1>5, LaunchSync DEF HandleCheckpoint
<1>6. CASE TreeLoop /\ (HandleSnapshot \/ HandleClear \/ HandleUnheard)
  BY <1>0, <1>2, <1>6, SyncKept DEF HandleSnapshot, HandleClear, HandleUnheard
<1>7. CASE DeserializeTree
  <2>1. PICK load \in loads :
          /\ loads' = loads \ {load}
          /\ units' = Over(units, {load.tree}, load.units)
          /\ trees' = [trees EXCEPT !.loaded = @ \cup {load.tree}, !.dirty = @ \ {load.tree}]
          /\ UNCHANGED <<chain, located, disk, used>>
    BY <1>7 DEF DeserializeTree
  <2>2. load.units \in Maps /\ load.tree \notin trees.loaded
    BY <1>0 DEF Loads, RegistryInv
  <2>3. load.tree \notin Writing /\ Writing' = Writing /\ trees'.dirty = trees.dirty \ {load.tree}
    BY <1>0, <2>1, <2>2 DEF WritingLoaded, Writing, Registries
  <2>4. \A u \in UnitIds : units'[u] = IF Units[u].tree = load.tree THEN load.units[u] ELSE units[u]
    BY <1>0, <2>1, <2>2, OverMaps
  <2>5. \A u \in UnitIds : Units[u].tree = load.tree => load.units[u] = located[u]
    BY DEF SyncInv
  <2> QED
    BY <2>1, <2>3, <2>4, <2>5 DEF SyncInv
<1>8. CASE TreesWritten
  <2>1. /\ chain.step = "trees" /\ located' = Over(located, chain.trees, chain.units)
        /\ chain' = [chain EXCEPT !.step = "index", !.units = located', !.final = trees.final, !.mutable = mutable]
        /\ UNCHANGED <<units, trees, loads, disk, used>>
    BY <1>8 DEF TreesWritten
  <2>2. chain'.step = "index" /\ chain'.units = located' /\ Writing = chain.trees /\ Writing' = {}
    BY <1>0, <2>1 DEF Chains, Writing
  <2>3. \A u \in UnitIds : located'[u] = IF Units[u].tree \in chain.trees THEN chain.units[u] ELSE located[u]
    BY <1>0, <2>1, OverMaps
  <2>4. \A load \in loads : load.tree \notin chain.trees
    BY <1>0, <2>2 DEF RegistryInv, WritingLoaded
  <2> QED
    BY <2>1, <2>2, <2>3, <2>4 DEF SyncInv
<1>9. CASE IndexCommitted
  <2>1. /\ chain.step = "index"
        /\ disk' = [units |-> chain.units, mutable |-> chain.mutable, final |-> chain.final]
        /\ chain' = [chain EXCEPT !.step = "emit", !.commits = @ + 1]
        /\ UNCHANGED <<units, trees, loads, located, used>>
    BY <1>9 DEF IndexCommitted
  <2>2. chain'.step = "emit" /\ disk'.units = located /\ Writing = {} /\ Writing' = {}
    BY <1>0, <2>1 DEF Chains, Writing, SyncInv
  <2> QED
    BY <2>1, <2>2 DEF SyncInv
<1>10. CASE ChainFails
  <2>1. /\ chain.step \in {"trees", "index"} /\ chain' = [chain EXCEPT !.step = "failed"]
        /\ trees' = IF chain.step = "trees" THEN [trees EXCEPT !.dirty = @ \cup chain.trees] ELSE trees
        /\ UNCHANGED <<units, loads, located, disk>>
    BY <1>10 DEF ChainFails
  <2>2. chain'.step = "failed" /\ Writing' = {} /\ trees'.dirty = trees.dirty \cup Writing
    BY <1>0, <2>1 DEF Chains, Writing, Registries
  <2>3. used'.chain # 0
    BY <1>10, UsedChain
  <2> QED
    BY <2>1, <2>2, <2>3 DEF SyncInv
<1>11. CASE EndChain
  <2> DEFINE ships == chain.step = "emit" /\ Band.emit
             after == IF ships THEN [trees EXCEPT !.banded = @ \cup Band.trees] ELSE trees
             off == [chain EXCEPT !.step = "off"]
  <2>1. /\ chain.step \in {"emit", "failed"}
        /\ IF chain.rerun THEN LaunchChain(off, after) ELSE chain' = off /\ trees' = after
        /\ UNCHANGED <<units, loads, located, disk, used>>
    BY <1>11 DEF EndChain
  <2>2. after.dirty = trees.dirty /\ after \in Registries
    <3>1. Band.trees \subseteq Trees
      BY <1>0 DEF Band, Registries
    <3> QED
      BY <1>0, <3>1 DEF Registries
  <2>3. off \in Chains /\ off.step = "off"
    BY <1>0 DEF Chains
  <2> HIDE DEF after, off
  <2>4. CASE chain.rerun
    BY <1>0, <2>1, <2>2, <2>3, <2>4, LaunchSync
  <2>5. CASE ~chain.rerun
    <3>1. Writing = {} /\ Writing' = {} /\ trees'.dirty = trees.dirty
      BY <2>1, <2>2, <2>3, <2>5 DEF Writing
    <3> QED
      BY <2>1, <2>3, <2>5, <3>1 DEF SyncInv
  <2> QED
    BY <2>4, <2>5
<1>12. CASE Crash
  <2>1. /\ units' = disk.units /\ located' = disk.units /\ disk' = disk /\ chain' = NoChain
        /\ loads' = {[tree |-> t, units |-> disk.units] : t \in Asked(disk)}
    BY <1>12 DEF Crash
  <2>2. Writing' = {} /\ chain'.step = "off" /\ \A load \in loads' : load.units = disk.units
    BY <2>1 DEF Writing, NoChain
  <2> QED
    BY <2>1, <2>2 DEF SyncInv
<1>13. CASE \/ UNCHANGED vars \/ Calls \/ Host \/ WriteAttributes \/ SliceFails \/ BlobLost \/ TimesOut \/ CachePressure
            \/ UploadParks \/ BandUploaded
  <2>1. UNCHANGED <<units, trees, loads, chain, located, disk>>
    BY <1>13
    DEF vars, Calls, Host, AddAttribute, AddData, CommitAttributes, Finalize, Resident, NextAttribute, Joined, Slice, Post,
        Wait, Return, WriteAttributes, SliceFails, BlobLost, TimesOut, CachePressure, UploadParks, BandUploaded
  <2> QED
    BY <1>1, <2>1, SyncKept
<1> QED
  BY <1>3, <1>4, <1>5, <1>6, <1>7, <1>8, <1>9, <1>10, <1>11, <1>12, <1>13
  DEF Next, System, Chain, TreeLoop

-----------------------------------------------------------------------------
(***************************************************************************)
(* Amending: what is written, and what is on its way.                      *)
(***************************************************************************)
AllSound(G, f) == \A u \in UnitIds : Sound(G, u, f[u])
AllExtend(G, f, appends) == \A u \in DOMAIN appends : Extends(G, u, f[u], appends[u])

\* Every unit with a key has the attribute n.
HasAll(f, n) == \A u \in Keyed : HasAttribute(f[u], n)

\* The units up to a cursor have the attribute n, or a slice has it for them, and for none beyond.
Covers(f, n, cursor, slice) ==
  /\ \A u \in DOMAIN slice : u <= cursor /\ slice[u].slot.of = n
  /\ \A u \in Keyed : u <= cursor => HasAttribute(f[u], n) \/ u \in DOMAIN slice

SoundInv ==
  /\ AllSound(given, units) /\ AllSound(given, located)
  /\ AllSound(given, disk.units) /\ AllSound(given, chain.units)

\* What was amended still goes on from the units as they are.
ExtendInv ==
  /\ \A i \in Has(loop, "append") : AllExtend(given, units, loop[i].appends)
  /\ host.pc = "write" => AllExtend(given, units, host.slice)

Scanning == {"slice", "write", "append"}
ScanInv ==
  /\ host.pc \in Scanning => /\ DOMAIN host.snap = UnitIds
                             /\ \A u \in UnitIds : host.cursor < u => host.snap[u] = units[u]
  /\ host.pc = "slice" => Covers(units, Current.name, host.cursor, NoUnits)
  /\ host.pc = "write" => Covers(units, Current.name, host.cursor, host.slice)
  /\ host.pc = "append" => \A i \in Has(loop, "append") : Covers(units, Current.name, host.cursor, loop[i].appends)

\* The attributes the host is through with are joined everywhere, and the file of the one it works on is given.
AttributeInv ==
  /\ host.pc = "resident" => host.attr = 0
  /\ host.pc \in Amending => [name |-> Current.name, file |-> Current.file, lost |-> {}] \in given
  /\ host.pc \in {"attribute"} \cup Amending =>
       /\ host.attr \in 0 .. Len(pending)
       /\ \A i \in 1 .. host.attr : (i < host.attr \/ host.pc = "attribute") => HasAll(units, pending[i].name)

AmendInv == SoundInv /\ ExtendInv /\ ScanInv /\ AttributeInv

LEMMA GivenGrows == ASSUME [Next]_vars PROVE given \subseteq given'
<1>1. given' = given \/ \E e : given' = given \cup {e}
  BY DEF Next, Calls, System, Host, Chain, vars, AddAttribute, AddData, CommitAttributes, Finalize, Resident,
         NextAttribute, Joined, Slice, Post, Wait, Return, WriteAttributes, TreeLoop, DeserializeTree, TreesWritten,
         IndexCommitted, EndChain, BandUploaded, SliceFails, BlobLost, TimesOut, CachePressure, ChainFails, UploadParks, Crash
<1> QED
  BY <1>1

LEMMA FromMore ==
  ASSUME NEW G, NEW H, G \subseteq H
  PROVE  /\ \A f : AllSound(G, f) => AllSound(H, f)
         /\ \A f, a : AllExtend(G, f, a) => AllExtend(H, f, a)
<1>1. \A f : AllSound(G, f) => AllSound(H, f)
  BY SoundGrows DEF AllSound
<1>2. \A u, unit, a : Extends(G, u, unit, a) => Extends(H, u, unit, a)
  BY DEF Extends, FromFile
<1> QED
  BY <1>1, <1>2 DEF AllExtend

\* Reading a tree changes no unit: what is read is what the registry has.
LEMMA UnitsStep ==
  ASSUME SessionBase, SyncInv, [Next]_vars
  PROVE  units' = units \/ (TreeLoop /\ HandleAppend) \/ Crash
<1>1. units' = units \/ (TreeLoop /\ HandleAppend) \/ Crash \/ DeserializeTree
  <2>1. TreeLoop /\ ~HandleAppend => units' = units
    BY DEF TreeLoop, HandleLoad, HandleSnapshot, HandleClear, HandleUnheard, HandleCheckpoint
  <2> QED
    BY <2>1
    DEF Next, Calls, System, Host, Chain, vars, AddAttribute, AddData, CommitAttributes, Finalize, Resident,
        NextAttribute, Joined, Slice, Post, Wait, Return, WriteAttributes, TreesWritten,
        IndexCommitted, EndChain, BandUploaded, SliceFails, BlobLost, TimesOut, CachePressure, ChainFails, UploadParks
<1>2. CASE DeserializeTree
  <2>0. units \in Maps /\ loads \subseteq Loads /\ RegistryInv /\ WritingLoaded
    BY DEF SessionBase, SessionControl, SessionType, StoresType
  <2>1. PICK load \in loads : units' = Over(units, {load.tree}, load.units)
    BY <1>2 DEF DeserializeTree
  <2>2. load.units \in Maps /\ load.tree \notin trees.loaded
    BY <2>0 DEF Loads, RegistryInv
  <2>3. load.tree \notin Writing /\ load.tree \notin trees.dirty
    BY <2>0, <2>2 DEF WritingLoaded, RegistryInv
  <2>4. \A u \in UnitIds : units'[u] = IF Units[u].tree = load.tree THEN load.units[u] ELSE units[u]
    BY <2>0, <2>1, <2>2, OverMaps
  <2>5. \A u \in UnitIds : Units[u].tree = load.tree => load.units[u] = located[u] /\ units[u] = located[u]
    BY <2>3 DEF SyncInv
  <2>6. \A u \in UnitIds : units'[u] = units[u]
    BY <2>4, <2>5
  <2>7. units' \in Maps
    BY <2>0, <2>1, <2>2, OverMaps
  <2>8. units' = [u \in UnitIds |-> units'[u]] /\ units = [u \in UnitIds |-> units[u]]
    BY <2>0, <2>7, MapsHold
  <2> QED
    BY <2>6, <2>8
<1> QED
  BY <1>1, <1>2

\* The appends of the loop: none but the host's own slice comes to them.
LEMMA SliceWritten ==
  ASSUME SessionBase, WriteAttributes
  PROVE  /\ host.slice \in Appends /\ Has(loop, "append") = {}
         /\ \E i \in 1 .. Len(loop') : Has(loop', "append") = {i} /\ loop'[i].appends = host.slice
<1>0. loop \in Seq(Tasks) /\ LoopControl /\ host \in Hosts
  BY DEF SessionBase, SessionControl, SessionType, LoopType, HostType
<1>1. host.slice \in Appends /\ Has(loop, "append") = {}
  BY <1>0 DEF Hosts, LoopControl, WriteAttributes
<1> DEFINE task == [kind |-> "append", appends |-> host.slice]
<1>2. task \in Tasks /\ task.kind = "append" /\ task.appends = host.slice /\ loop' = Append(loop, task)
  BY <1>1, TasksAre DEF WriteAttributes
<1> HIDE DEF task
<1>3. Has(loop', "append") = {Len(loop) + 1} /\ Len(loop') = Len(loop) + 1 /\ Len(loop) \in Nat
  BY <1>0, <1>1, <1>2, LoopAppend
<1>4. Len(loop) + 1 \in 1 .. Len(loop')
  BY <1>3
<1>5. loop'[Len(loop) + 1] = task
  BY <1>0, <1>2
<1> QED
  BY <1>1, <1>2, <1>3, <1>4, <1>5

LEMMA AppendsStep ==
  ASSUME SessionBase, [Next]_vars, ~WriteAttributes
  PROVE  \A i \in Has(loop', "append") : \E j \in Has(loop, "append") : loop'[i].appends = loop[j].appends
<1>0. loop \in Seq(Tasks)
  BY DEF SessionBase, SessionControl, SessionType, LoopType
<1> DEFINE Kept == \A i \in Has(loop', "append") : \E j \in Has(loop, "append") : loop'[i].appends = loop[j].appends
<1>2. ASSUME NEW kind \in Kinds \ {"append"}, loop' = Append(loop, Task(kind)) PROVE Kept
  <2>2. Has(loop', "append") = Has(loop, "append")
    BY <1>0, <1>2, PostedAppends
  <2>3. \A i \in Has(loop, "append") : loop'[i] = loop[i]
    BY <1>0, <1>2 DEF Has
  <2> QED
    BY <2>2, <2>3
<1>3. CASE TreeLoop
  <2>1. loop # <<>> /\ loop' = Tail(loop)
    BY <1>0, <1>3 DEF TreeLoop
  <2>2. \A i \in 1 .. Len(loop') : i + 1 \in 1 .. Len(loop) /\ loop'[i] = loop[i + 1]
    BY <1>0, <2>1, LoopHead
  <2>3. \A i \in Has(loop', "append") : i + 1 \in Has(loop, "append") /\ loop'[i] = loop[i + 1]
    BY <2>2 DEF Has
  <2> QED
    BY <2>3
<1>4. CASE TimesOut
  <2>1. loop' = [i \in 1 .. Len(loop) |-> IF loop[i].kind = "snapshot" THEN Task("unheard") ELSE loop[i]]
    BY <1>0, <1>4 DEF TimesOut
  <2>2. Len(loop') = Len(loop)
    BY <1>0, <2>1
  <2>3. Task("unheard").kind # "append"
    BY TasksAre DEF Kinds
  <2>4. \A i \in Has(loop', "append") : i \in Has(loop, "append") /\ loop'[i] = loop[i]
    BY <2>1, <2>2, <2>3 DEF Has
  <2> QED
    BY <2>4
<1>5. CASE loop' = loop \/ loop' = <<>>
  BY <1>5 DEF Has
<1>6. \/ TreeLoop \/ TimesOut \/ loop' = loop \/ loop' = <<>>
      \/ \E kind \in {"load", "snapshot", "clear", "checkpoint"} : loop' = Append(loop, Task(kind))
  BY DEF Next, Calls, System, Host, Chain, vars, AddAttribute, AddData, CommitAttributes, Finalize, Resident,
         NextAttribute, Joined, Slice, Post, Wait, Return, DeserializeTree, TreesWritten,
         IndexCommitted, EndChain, BandUploaded, SliceFails, BlobLost, CachePressure, ChainFails, UploadParks, Crash
<1>7. {"load", "snapshot", "clear", "checkpoint"} \subseteq Kinds \ {"append"}
  BY DEF Kinds
<1> QED
  BY <1>2, <1>3, <1>4, <1>5, <1>6, <1>7

LEMMA AppendsLand ==
  ASSUME SessionBase, SoundInv, ExtendInv, TreeLoop, HandleAppend, NEW a, a = Head(loop).appends
  PROVE  /\ 1 \in Has(loop, "append") /\ loop[1].appends = a /\ a \in Appends /\ Has(loop', "append") = {}
         /\ \A u \in UnitIds : units'[u] = IF u \in DOMAIN a THEN Appended(units[u], a[u]) ELSE units[u]
         /\ AllSound(given, units')
         /\ \A u \in UnitIds : \A n : HasAttribute(units[u], n) => HasAttribute(units'[u], n)
         /\ \A u \in DOMAIN a : u \in UnitIds /\ HasAttribute(units'[u], a[u].slot.of)
<1>0. /\ loop \in Seq(Tasks) /\ loop # <<>> /\ loop' = Tail(loop) /\ LoopControl /\ RegistryInv /\ Head(loop).kind = "append"
      /\ UNCHANGED given
  BY DEF SessionBase, SessionControl, SessionType, LoopType, TreeLoop, HandleAppend
<1>1. /\ 1 \in Has(loop, "append") /\ loop[1].appends = a
  BY <1>0, LoopHead DEF Has
<1>2. Has(loop', "append") = {}
  BY <1>0, LoopTail DEF LoopControl
<1>3. a \in Appends
  <2>1. loop[1] \in Tasks
    BY <1>0
  <2> QED
    BY <1>1, <2>1 DEF Tasks
<1>4. DOMAIN a \subseteq UnitIds
  BY <1>3, MapsHold
<1>5. Landing = DOMAIN a
  <2>1. trees.loaded = Trees
    BY <1>0, <1>1 DEF RegistryInv
  <2>2. UnitsOf(Trees) = UnitIds
    BY UnitsAre DEF UnitsOf
  <2> QED
    BY <1>4, <2>1, <2>2 DEF Landing
<1>6. \A u \in UnitIds : units'[u] = IF u \in DOMAIN a THEN Appended(units[u], a[u]) ELSE units[u]
  BY <1>5 DEF HandleAppend, AllLanded
<1>7. AllExtend(given, units, a) /\ AllSound(given, units)
  BY <1>1 DEF ExtendInv, SoundInv
<1>8. ASSUME NEW u \in UnitIds
      PROVE  /\ Sound(given, u, units'[u])
             /\ \A n : HasAttribute(units[u], n) => HasAttribute(units'[u], n)
             /\ u \in DOMAIN a => HasAttribute(units'[u], a[u].slot.of)
  <2>1. CASE u \notin DOMAIN a
    BY <1>6, <1>7, <2>1 DEF AllSound
  <2>2. CASE u \in DOMAIN a
    <3>1. units'[u] = Appended(units[u], a[u]) /\ Sound(given, u, units[u]) /\ Extends(given, u, units[u], a[u])
      BY <1>6, <1>7, <2>2 DEF AllSound, AllExtend
    <3> QED
      BY <3>1, AppendedSound
  <2> QED
    BY <2>1, <2>2
<1>9. \A u \in DOMAIN a : u \in UnitIds /\ HasAttribute(units'[u], a[u].slot.of)
  BY <1>4, <1>8
<1>10. AllSound(given, units')
  BY <1>8 DEF AllSound
<1> QED
  BY <1>1, <1>2, <1>3, <1>6, <1>8, <1>9, <1>10

LEMMA StepSound ==
  ASSUME SessionBase, SyncInv, SoundInv, ExtendInv, [Next]_vars
  PROVE  SoundInv'
<1>0. /\ chain \in Chains /\ trees \in Registries /\ units \in Maps /\ located \in Maps /\ disk \in Disks /\ chain.units \in Maps
  BY DEF SessionBase, SessionControl, SessionType, ChainType, TreesType, StoresType, Chains
<1>1. \A f : AllSound(given, f) => AllSound(given', f)
  BY GivenGrows, FromMore
<1>2. AllSound(given', units) /\ AllSound(given', located) /\ AllSound(given', disk.units) /\ AllSound(given', chain.units)
  BY <1>1 DEF SoundInv
<1>3. AllSound(given', Base)
  BY BaseSound DEF AllSound
<1>4. AllSound(given', units')
  <2>1. CASE TreeLoop /\ HandleAppend
    <3>1. PICK a : a = Head(loop).appends
      OBVIOUS
    <3>2. AllSound(given, units')
      BY <2>1, <3>1, AppendsLand
    <3> QED
      BY <2>1, <3>2 DEF TreeLoop
  <2>2. Crash => units' = disk.units
    BY DEF Crash
  <2> QED
    BY <1>2, <2>1, <2>2, UnitsStep
<1>5. located' = located \/ Crash \/ TreesWritten
  BY DEF Next, Calls, System, Host, Chain, vars, AddAttribute, AddData, CommitAttributes, Finalize, Resident,
         NextAttribute, Joined, Slice, Post, Wait, Return, WriteAttributes, TreeLoop, DeserializeTree,
         IndexCommitted, EndChain, BandUploaded, SliceFails, BlobLost, TimesOut, CachePressure, ChainFails, UploadParks
<1>6. AllSound(given', located')
  <2>1. CASE TreesWritten
    <3>1. located' = Over(located, chain.trees, chain.units)
      BY <2>1 DEF TreesWritten
    <3>2. \A u \in UnitIds : located'[u] = IF Units[u].tree \in chain.trees THEN chain.units[u] ELSE located[u]
      BY <1>0, <3>1, OverMaps
    <3> QED
      BY <1>2, <3>2 DEF AllSound
  <2>2. Crash => located' = disk.units
    BY DEF Crash
  <2> QED
    BY <1>2, <1>5, <2>1, <2>2
<1>7. AllSound(given', disk'.units)
  <2>1. disk' = disk \/ IndexCommitted
    BY DEF Next, Calls, System, Host, Chain, vars, AddAttribute, AddData, CommitAttributes, Finalize, Resident,
           NextAttribute, Joined, Slice, Post, Wait, Return, WriteAttributes, TreeLoop, DeserializeTree, TreesWritten,
           EndChain, BandUploaded, SliceFails, BlobLost, TimesOut, CachePressure, ChainFails, UploadParks, Crash
  <2>2. IndexCommitted => disk'.units = chain.units
    BY DEF IndexCommitted
  <2> QED
    BY <1>2, <2>1, <2>2
<1>8. AllSound(given', chain'.units)
  <2>1. ASSUME NEW c \in Chains, NEW ts, c.units = chain.units, LaunchChain(c, ts), units' = units
        PROVE  AllSound(given', chain'.units)
    <3>1. chain'.units = c.units \/ chain'.units = units
      BY <2>1 DEF LaunchChain, Chains
    <3> QED
      BY <1>2, <2>1, <3>1
  <2>2. CASE TreeLoop /\ HandleCheckpoint
    BY <1>0, <2>1, <2>2 DEF HandleCheckpoint
  <2>3. CASE EndChain
    <3> DEFINE off == [chain EXCEPT !.step = "off"]
    <3>1. off \in Chains /\ off.units = chain.units
      BY <1>0 DEF Chains
    <3> HIDE DEF off
    <3>2. (\E ts : LaunchChain(off, ts)) \/ chain' = off
      BY <2>3 DEF EndChain, off
    <3>3. units' = units
      BY <2>3 DEF EndChain
    <3> QED
      BY <1>2, <2>1, <3>1, <3>2, <3>3
  <2>4. CASE TreesWritten
    <3>1. chain'.units = located'
      BY <1>0, <2>4 DEF TreesWritten, Chains
    <3> QED
      BY <1>6, <3>1
  <2>5. CASE IndexCommitted \/ ChainFails
    <3>1. chain'.units = chain.units
      BY <1>0, <2>5 DEF IndexCommitted, ChainFails, Chains
    <3> QED
      BY <1>2, <3>1
  <2>6. CASE Crash
    <3>1. chain'.units = Base
      BY <2>6 DEF Crash, NoChain
    <3> QED
      BY <1>3, <3>1
  <2>7. TreeLoop /\ ~HandleCheckpoint => chain' = chain
    BY DEF TreeLoop, HandleLoad, HandleSnapshot, HandleAppend, HandleClear, HandleUnheard
  <2>8. \/ chain' = chain \/ (TreeLoop /\ HandleCheckpoint) \/ EndChain \/ TreesWritten \/ IndexCommitted \/ ChainFails \/ Crash
    BY <2>7
    DEF Next, Calls, System, Host, Chain, vars, AddAttribute, AddData, CommitAttributes, Finalize, Resident,
        NextAttribute, Joined, Slice, Post, Wait, Return, WriteAttributes, DeserializeTree,
        BandUploaded, SliceFails, BlobLost, TimesOut, CachePressure, UploadParks
  <2> QED
    BY <1>2, <2>2, <2>3, <2>4, <2>5, <2>6, <2>8
<1> QED
  BY <1>4, <1>6, <1>7, <1>8 DEF SoundInv

LEMMA SliceEndAfter ==
  ASSUME NEW snap \in Snaps, NEW from \in Nat, NEW n, NEW v \in DOMAIN snap, from < v
  PROVE  SliceEnd(snap, from, n) \in Nat /\ from < SliceEnd(snap, from, n)
<1> DEFINE points == [u \in DOMAIN snap |-> IF Amendable(snap[u], n) THEN Len(KeysOf(snap[u])) ELSE 0]
           full == {k \in DOMAIN snap :
                      k > from /\ SumFunctionOnSet(points, {u \in DOMAIN snap : from < u /\ u <= k}) >= PassPoints}
           ends == full \cup {Len(Units)}
<1>1. full \subseteq 1 .. Len(Units) /\ (\A k \in full : k > from) /\ v \in 1 .. Len(Units)
  BY MapsHold, UnitsAre
<1>2. SliceEnd(snap, from, n) = Min(ends)
  BY DEF SliceEnd
<1> HIDE DEF full
<1>3. ends \subseteq Nat /\ ends # {} /\ \A k \in ends : from < k
  <2>1. Len(Units) \in Nat
    BY UnitsAre
  <2>2. \A k \in full : k \in Nat /\ from < k
    BY <1>1, <2>1
  <2>3. from < Len(Units)
    BY <1>1, <2>1
  <2> QED
    BY <2>1, <2>2, <2>3
<1> HIDE DEF ends
<1> QED
  BY <1>2, <1>3, Least

\* The host and its attributes, in the steps that do not carry an amend on.
LEMMA HostMoves ==
  ASSUME SessionBase, SyncInv, [Next]_vars
  PROVE  \/ host' = host /\ pending' = pending /\ units' = units /\ ~WriteAttributes
         \/ host'.pc \in {"idle", "plan", "round", "clear"} /\ units' = units /\ ~WriteAttributes
         \/ Crash \/ CommitAttributes \/ Resident \/ NextAttribute \/ Slice \/ BlobLost \/ WriteAttributes
         \/ (TreeLoop /\ HandleSnapshot) \/ (TreeLoop /\ HandleAppend)
<1>0. host \in Hosts /\ CallAt(host)
  BY DEF SessionBase, SessionControl, SessionType, HostType
<1>1. units' = units \/ Crash \/ (TreeLoop /\ HandleAppend)
  BY UnitsStep
<1>2. SUFFICES ASSUME units' = units, ~WriteAttributes, ~(TreeLoop /\ HandleAppend), ~(TreeLoop /\ HandleSnapshot),
                      ~CommitAttributes, ~Resident, ~NextAttribute, ~Slice, ~BlobLost, ~Crash
               PROVE  (host' = host /\ pending' = pending) \/ host'.pc \in {"idle", "plan", "round", "clear"}
  BY <1>1
<1>3. CASE (\E n \in Names : AddAttribute(n)) \/ (\E i \in DOMAIN pending, batch \in Batches : AddData(i, batch))
  BY <1>3 DEF AddAttribute, AddData
<1>4. CASE Finalize \/ Joined \/ Return \/ SliceFails
  <2>1. Idle.pc = "idle" /\ Idle \in Hosts
    BY IdleAt, IdleType
  <2>2. CASE Finalize
    BY <2>1, <2>2 DEF Finalize, Hosts
  <2>3. CASE Joined
    BY <2>1, <2>3 DEF Joined, Hosts
  <2>4. CASE Return \/ SliceFails
    BY <2>1, <2>4 DEF Return, SliceFails
  <2> QED
    BY <1>4, <2>2, <2>3, <2>4
<1>5. CASE Post \/ Wait
  BY <1>0, <1>5 DEF Post, Wait, Goes, Hosts, Doing
<1>6. CASE TimesOut
  BY <1>0, <1>6, IdleAt DEF TimesOut, Hosts
<1>7. CASE TreeLoop
  <2>1. CASE HandleClear
    BY <1>0, <1>7, <2>1 DEF TreeLoop, HandleClear, Hosts
  <2>2. CASE HandleLoad \/ HandleUnheard \/ HandleCheckpoint
    BY <1>7, <2>2 DEF TreeLoop, HandleLoad, HandleUnheard, HandleCheckpoint
  <2> QED
    BY <1>2, <1>7, <2>1, <2>2 DEF TreeLoop
<1>8. CASE EndChain
  BY <1>0, <1>8 DEF EndChain, Hosts
<1>9. CASE \/ UNCHANGED vars \/ DeserializeTree \/ TreesWritten \/ IndexCommitted \/ BandUploaded \/ CachePressure \/ ChainFails \/ UploadParks
  BY <1>9 DEF vars, DeserializeTree, TreesWritten, IndexCommitted, BandUploaded, CachePressure, ChainFails, UploadParks
<1> QED
  BY <1>2, <1>3, <1>4, <1>5, <1>6, <1>7, <1>8, <1>9 DEF Next, Calls, System, Host, Chain

LEMMA SliceSteps ==
  ASSUME SessionBase, ScanInv, AttributeInv, Slice
  PROVE  /\ UNCHANGED <<units, pending, loop, given>> /\ host.pc = "slice" /\ host'.attr = host.attr
         /\ \/ host'.pc = "attribute" /\ HasAll(units, Current.name)
            \/ /\ host'.pc \in {"slice", "write"} /\ host'.snap = host.snap /\ host.cursor < host'.cursor
               /\ AllExtend(given, units, host'.slice)
               /\ Covers(units, Current.name, host'.cursor, host'.slice)
               /\ host'.pc = "slice" => Covers(units, Current.name, host'.cursor, NoUnits)
               /\ host'.cursor \in Nat
<1> DEFINE n == Current.name
           end == SliceEnd(host.snap, host.cursor, n)
           slice == [u \in Rest |-> Amended(host.snap[u])]
<1>0. /\ host \in Hosts /\ units \in Maps /\ SessionType /\ host.pc = "slice" /\ host.snap \in Snaps /\ host.cursor \in Nat
      /\ UNCHANGED <<units, pending, loop, given>>
  BY DEF SessionBase, SessionControl, SessionType, HostType, StoresType, Slice, Hosts
<1>1. n \in Names /\ Current.file \in Files /\ [name |-> n, file |-> Current.file, lost |-> {}] \in given
  BY <1>0, CurrentType DEF AttributeInv, Amending
<1>2. /\ DOMAIN host.snap = UnitIds /\ \A u \in UnitIds : host.cursor < u => host.snap[u] = units[u]
      /\ \A u \in Keyed : u <= host.cursor => HasAttribute(units[u], n)
  <2>1. DOMAIN host.snap = UnitIds /\ \A u \in UnitIds : host.cursor < u => host.snap[u] = units[u]
    BY <1>0 DEF ScanInv, Scanning
  <2>2. Covers(units, n, host.cursor, NoUnits)
    BY <1>0 DEF ScanInv
  <2> QED
    BY <2>1, <2>2, NoUnitsAre DEF Covers
<1>3. host' = IF Scanned THEN [host EXCEPT !.pc = "attribute"]
              ELSE [host EXCEPT !.cursor = end, !.pc = IF Rest = {} THEN "slice" ELSE "write", !.slice = slice]
  BY DEF Slice
<1>4. Rest = {u \in UnitIds : host.cursor < u /\ u <= end /\ Amendable(host.snap[u], n)}
  BY <1>2 DEF Rest
<1>5. Keyed \subseteq UnitIds /\ UnitIds \subseteq Nat
  BY UnitsAre DEF Keyed
<1>6. CASE Scanned
  <2>1. \A u \in UnitIds : u <= host.cursor
    BY <1>2, <1>6 DEF Scanned
  <2>2. HasAll(units, n)
    BY <1>2, <1>5, <2>1 DEF HasAll
  <2>3. host' = [host EXCEPT !.pc = "attribute"]
    BY <1>3, <1>6
  <2>4. host'.pc = "attribute" /\ host'.attr = host.attr
    BY <1>0, <2>3 DEF Hosts
  <2> QED
    BY <1>0, <2>2, <2>4
<1>7. CASE ~Scanned
  <2>1. end \in Nat /\ host.cursor < end
    <3>1. PICK v \in DOMAIN host.snap : ~(v <= host.cursor)
      BY <1>7 DEF Scanned
    <3>2. v \in Nat /\ host.cursor < v
      BY <1>0, <1>2, <1>5, <3>1
    <3> QED
      BY <1>0, <3>1, <3>2, SliceEndAfter
  <2>2. ASSUME NEW u \in Rest
        PROVE  /\ slice[u].config = Append(units[u].config, n) /\ slice[u].slot.of = n
               /\ slice[u] \in AdditionsAt(u) /\ u \in UnitIds /\ u <= end
               /\ Extends(given, u, units[u], slice[u])
    <3>1. u \in UnitIds /\ host.cursor < u /\ u <= end /\ Amendable(host.snap[u], n) /\ host.snap[u] = units[u]
      BY <1>2, <1>4
    <3>2. units[u] \in UnitsAt(u)
      BY <1>0, <3>1, MapsHold
    <3>3. slice[u] = Amended(units[u])
      BY <3>1
    <3>4. /\ Amended(units[u]) \in AdditionsAt(u)
          /\ Amended(units[u]).config = Append(units[u].config, n)
          /\ Amended(units[u]).slot = Slot(n, JoinOf(Current.file, u))
      BY <1>1, <3>1, <3>2, AmendedAt
    <3> HIDE DEF slice, n
    <3>5. slice[u].slot.of = n /\ slice[u].slot.vals = JoinOf(Current.file, u)
      BY <3>3, <3>4 DEF Slot
    <3>6. ~HasAttribute(units[u], n)
      BY <3>1 DEF Amendable
    <3>7. FromFile(given, u, n, JoinOf(Current.file, u))
      <4> DEFINE g == [name |-> n, file |-> Current.file, lost |-> {}]
      <4>1. g \in given /\ g.name = n /\ g.file = Current.file
        BY <1>1
      <4> QED
        BY <4>1 DEF FromFile
    <3>8. slice[u] \in Addition
      BY <3>3, <3>4 DEF AdditionsAt
    <3> QED
      BY <1>1, <3>1, <3>3, <3>4, <3>5, <3>6, <3>7, <3>8 DEF Extends, Addition
  <2>3. DOMAIN slice = Rest
    OBVIOUS
  <2>4. \A u \in Keyed : u <= end => HasAttribute(units[u], n) \/ u \in Rest
    <3> SUFFICES ASSUME NEW u \in Keyed, u <= end, ~HasAttribute(units[u], n) PROVE u \in Rest
      OBVIOUS
    <3>1. u \in UnitIds /\ u \in Nat /\ ~(u <= host.cursor)
      BY <1>2, <1>5
    <3>2. host.cursor < u /\ host.snap[u] = units[u]
      BY <1>0, <1>2, <3>1
    <3>3. KeysOf(units[u]) # <<>>
      <4>1. units[u] \in UnitsAt(u)
        BY <1>0, <3>1, MapsHold
      <4> QED
        BY <3>1, <4>1, KeysFound DEF Keyed
    <3> QED
      BY <1>4, <3>1, <3>2, <3>3 DEF Amendable
  <2>5. host' = [host EXCEPT !.cursor = end, !.pc = IF Rest = {} THEN "slice" ELSE "write", !.slice = slice]
    BY <1>3, <1>7
  <2> HIDE DEF slice, end, n
  <2>6. /\ host'.cursor = end /\ host'.slice = slice /\ host'.snap = host.snap /\ host'.attr = host.attr
        /\ host'.pc = IF Rest = {} THEN "slice" ELSE "write"
    BY <1>0, <2>5 DEF Hosts
  <2>7. AllExtend(given, units, slice)
    BY <2>2, <2>3 DEF AllExtend
  <2>8. Covers(units, n, end, slice)
    BY <2>2, <2>3, <2>4 DEF Covers
  <2>9. Rest = {} => Covers(units, n, end, NoUnits)
    BY <2>4, NoUnitsAre DEF Covers
  <2> QED
    BY <1>0, <2>1, <2>6, <2>7, <2>8, <2>9 DEF n
<1> QED
  BY <1>6, <1>7

LEMMA StepExtend ==
  ASSUME SessionBase, SyncInv, SoundInv, ExtendInv, ScanInv, AttributeInv, [Next]_vars
  PROVE  ExtendInv'
<1>0. LoopControl /\ given \subseteq given'
  BY GivenGrows DEF SessionBase, SessionControl
<1>1. \A f, a : AllExtend(given, f, a) => AllExtend(given', f, a)
  BY <1>0, FromMore
<1>2. ASSUME NEW i \in Has(loop', "append") PROVE AllExtend(given', units', loop'[i].appends)
  <2>1. CASE Crash
    <3>1. loop' = <<>>
      BY <2>1 DEF Crash
    <3> QED
      BY <3>1 DEF Has
  <2>2. CASE TreeLoop /\ HandleAppend
    <3>1. PICK a : a = Head(loop).appends
      OBVIOUS
    <3> QED
      BY <2>2, <3>1, AppendsLand
  <2>3. CASE WriteAttributes
    <3>1. loop'[i].appends = host.slice
      BY <2>3, SliceWritten
    <3>2. units' = units /\ host.pc = "write"
      BY <2>3 DEF WriteAttributes
    <3> QED
      BY <1>1, <3>1, <3>2 DEF ExtendInv
  <2>4. CASE units' = units /\ ~WriteAttributes
    <3>1. PICK j \in Has(loop, "append") : loop'[i].appends = loop[j].appends
      BY <2>4, AppendsStep
    <3> QED
      BY <1>1, <2>4, <3>1 DEF ExtendInv
  <2> QED
    BY <2>1, <2>2, <2>3, <2>4, UnitsStep
<1>3. ASSUME host'.pc = "write" PROVE AllExtend(given', units', host'.slice)
  <2>0. host \in Hosts
    BY DEF SessionBase, SessionControl, SessionType, HostType
  <2>1. CASE host' = host /\ units' = units
    BY <1>1, <1>3, <2>1 DEF ExtendInv
  <2>2. CASE Slice
    <3>1. AllExtend(given, units, host'.slice) /\ units' = units
      BY <1>3, <2>2, SliceSteps
    <3> QED
      BY <1>1, <3>1
  <2>3. CASE TreeLoop /\ HandleAppend
    <3>1. host.pc = "write"
      BY <1>3, <2>0, <2>3 DEF HandleAppend, Hosts
    <3>2. PICK a : a = Head(loop).appends
      OBVIOUS
    <3>3. Has(loop, "append") # {}
      BY <2>3, <3>2, AppendsLand
    <3> QED
      BY <1>0, <3>1, <3>3 DEF LoopControl
  <2>4. CASE Crash \/ CommitAttributes \/ Resident \/ NextAttribute \/ WriteAttributes \/ (TreeLoop /\ HandleSnapshot)
    <3>1. Opening.pc # "write" /\ Idle.pc # "write" /\ Idle \in Hosts
      BY IdleAt, IdleType
    <3>2. CASE Crash \/ CommitAttributes \/ Resident
      BY <1>3, <2>0, <3>1, <3>2 DEF Crash, CommitAttributes, Resident, Hosts
    <3>3. CASE NextAttribute \/ WriteAttributes \/ (TreeLoop /\ HandleSnapshot)
      BY <1>3, <2>0, <3>1, <3>3 DEF NextAttribute, WriteAttributes, HandleSnapshot, Hosts
    <3> QED
      BY <2>4, <3>2, <3>3
  <2>5. CASE BlobLost
    <3>1. SessionType /\ host.pc = "write" /\ units' = units /\ DOMAIN host'.slice = DOMAIN host.slice
      BY <2>5, BlobLostIs DEF SessionBase, SessionControl
    <3>2. AllExtend(given', units, host.slice)
      BY <1>1, <3>1 DEF ExtendInv
    <3>3. PICK u \in DOMAIN host.slice :
            /\ u \in UnitIds
            /\ \A v \in DOMAIN host.slice : v # u => host'.slice[v] = host.slice[v]
            /\ host'.slice[u].config = host.slice[u].config
            /\ host'.slice[u].slot.of = host.slice[u].slot.of /\ host'.slice[u].slot.vals = Unwritten
            /\ host'.slice[u] \in AdditionsAt(u)
            /\ given' = given \cup {[name |-> Current.name, file |-> Current.file, lost |-> {u}]}
      BY <2>5, <3>1, BlobLostIs
    <3>4. host.slice[u].slot.of = Current.name
      BY <3>1 DEF ScanInv, Covers
    <3>5. FromFile(given', u, Current.name, Unwritten)
      <4> DEFINE g == [name |-> Current.name, file |-> Current.file, lost |-> {u}]
      <4>1. g \in given' /\ g.name = Current.name /\ u \in g.lost
        BY <3>3
      <4> QED
        BY <4>1 DEF FromFile
    <3>6. Extends(given', u, units[u], host.slice[u])
      BY <3>2 DEF AllExtend
    <3>7. host'.slice[u] \in [config : Seq(Int), slot : Slots]
      BY <3>3 DEF AdditionsAt, Addition
    <3>8. Extends(given', u, units[u], host'.slice[u])
      BY <3>3, <3>4, <3>5, <3>6, <3>7 DEF Extends
    <3> QED
      BY <3>1, <3>2, <3>3, <3>8 DEF AllExtend
  <2> QED
    BY <1>3, <2>1, <2>2, <2>3, <2>4, <2>5, HostMoves
<1> QED
  BY <1>2, <1>3 DEF ExtendInv

LEMMA SnapshotScans ==
  ASSUME SessionBase, TreeLoop, HandleSnapshot
  PROVE  /\ host.pc = "snapshot" /\ host'.pc = "slice" /\ host'.cursor = 0 /\ host'.snap = units /\ host'.attr = host.attr
         /\ DOMAIN units = UnitIds /\ UNCHANGED <<units, pending, given>>
<1>0. /\ host \in Hosts /\ units \in Maps /\ loop \in Seq(Tasks) /\ loop # <<>> /\ LoopControl /\ RegistryInv /\ CallAt(host)
      /\ Head(loop).kind = "snapshot"
  BY DEF SessionBase, SessionControl, SessionType, HostType, StoresType, LoopType, TreeLoop, HandleSnapshot
<1>1. host.pc = "snapshot"
  BY <1>0, LoopHead DEF LoopControl
<1>2. Committing(host) /\ ~IsOpening(host)
  BY <1>0, <1>1 DEF CallAt, Committing, IsOpening, Amending
<1>3. trees.loaded = Trees
  BY <1>0, <1>2 DEF RegistryInv
<1>4. UnitsOf(trees.loaded) = UnitIds
  BY <1>3, UnitsAre DEF UnitsOf
<1>5. units = [u \in UnitIds |-> units[u]]
  BY <1>0, MapsHold
<1>6. Snapshot = units /\ DOMAIN units = UnitIds
  BY <1>4, <1>5 DEF Snapshot
<1>7. host' = [host EXCEPT !.pc = "slice", !.snap = units, !.cursor = 0] /\ UNCHANGED <<units, pending, given>>
  BY <1>6 DEF TreeLoop, HandleSnapshot
<1> QED
  BY <1>0, <1>1, <1>6, <1>7 DEF Hosts

LEMMA StepScan ==
  ASSUME SessionBase, SyncInv, SoundInv, ExtendInv, ScanInv, AttributeInv, [Next]_vars
  PROVE  ScanInv'
<1>0. LoopControl /\ host \in Hosts /\ units \in Maps /\ Keyed \subseteq UnitIds /\ UnitIds \subseteq Nat
  BY UnitsAre DEF SessionBase, SessionControl, SessionType, HostType, StoresType, Keyed
<1>1. CASE host'.pc \notin Scanning
  BY <1>1 DEF ScanInv, Scanning
<1>2. CASE host' = host /\ pending' = pending /\ units' = units /\ ~WriteAttributes
  <2>1. Current' = Current
    BY <1>2 DEF Current
  <2>2. \A i \in Has(loop', "append") : \E j \in Has(loop, "append") : loop'[i].appends = loop[j].appends
    BY <1>2, AppendsStep
  <2>3. host'.pc = "append" => \A i \in Has(loop', "append") : Covers(units', Current'.name, host'.cursor, loop'[i].appends)
    BY <1>2, <2>1, <2>2 DEF ScanInv
  <2> QED
    BY <1>2, <2>1, <2>3 DEF ScanInv
<1>3. CASE Slice
  <2>1. /\ UNCHANGED <<units, pending>> /\ host.pc = "slice" /\ host'.attr = host.attr
        /\ \/ host'.pc = "attribute"
           \/ /\ host'.pc \in {"slice", "write"} /\ host'.snap = host.snap /\ host.cursor < host'.cursor
              /\ Covers(units, Current.name, host'.cursor, host'.slice)
              /\ host'.pc = "slice" => Covers(units, Current.name, host'.cursor, NoUnits)
              /\ host'.cursor \in Nat
    BY <1>3, SliceSteps
  <2>2. Current' = Current
    BY <2>1 DEF Current
  <2>3. DOMAIN host.snap = UnitIds /\ \A u \in UnitIds : host.cursor < u => host.snap[u] = units[u]
    BY <2>1 DEF ScanInv, Scanning
  <2>4. CASE host'.pc = "attribute"
    BY <1>1, <2>4 DEF Scanning
  <2>5. CASE host'.pc \in {"slice", "write"}
    <3>1. host.cursor \in Nat /\ host'.cursor \in Nat /\ host.cursor < host'.cursor /\ host'.snap = host.snap
      BY <1>0, <2>1, <2>5 DEF Hosts
    <3>2. \A u \in UnitIds : host'.cursor < u => host.cursor < u
      BY <1>0, <3>1
    <3>3. DOMAIN host'.snap = UnitIds /\ \A u \in UnitIds : host'.cursor < u => host'.snap[u] = units'[u]
      BY <2>1, <2>3, <3>1, <3>2
    <3>4. /\ host'.pc = "slice" => Covers(units', Current'.name, host'.cursor, NoUnits)
          /\ host'.pc = "write" => Covers(units', Current'.name, host'.cursor, host'.slice)
      BY <2>1, <2>2, <2>5
    <3> QED
      BY <2>5, <3>3, <3>4 DEF ScanInv
  <2> QED
    BY <2>1, <2>4, <2>5
<1>8. CASE BlobLost
  <2>1. /\ host.pc = "write" /\ host'.pc = "write" /\ host'.snap = host.snap /\ host'.cursor = host.cursor
        /\ host'.attr = host.attr /\ DOMAIN host'.slice = DOMAIN host.slice /\ UNCHANGED <<units, pending>>
        /\ \A u \in DOMAIN host.slice : host'.slice[u].slot.of = host.slice[u].slot.of
    BY <1>8, BlobLostIs DEF SessionBase, SessionControl
  <2>2. Current' = Current
    BY <2>1 DEF Current
  <2>3. Covers(units, Current.name, host.cursor, host.slice)
    BY <2>1 DEF ScanInv
  <2>4. Covers(units', Current'.name, host'.cursor, host'.slice)
    BY <2>1, <2>2, <2>3 DEF Covers
  <2> QED
    BY <2>1, <2>4 DEF ScanInv, Scanning
<1>4. CASE WriteAttributes
  <2>1. host.pc = "write" /\ host' = [host EXCEPT !.pc = "append", !.slice = NoUnits] /\ UNCHANGED <<units, pending>>
    BY <1>4 DEF WriteAttributes
  <2>2. host'.pc = "append" /\ host'.snap = host.snap /\ host'.cursor = host.cursor /\ host'.attr = host.attr
    BY <1>0, <2>1 DEF Hosts
  <2>3. Current' = Current
    BY <2>1, <2>2 DEF Current
  <2>4. \A i \in Has(loop', "append") : loop'[i].appends = host.slice
    BY <1>4, SliceWritten
  <2>5. Covers(units, Current.name, host.cursor, host.slice)
    BY <2>1 DEF ScanInv
  <2>6. host.pc \in Scanning
    BY <2>1 DEF Scanning
  <2> QED
    BY <2>1, <2>2, <2>3, <2>4, <2>5, <2>6 DEF ScanInv
<1>5. CASE TreeLoop /\ HandleSnapshot
  <2>1. /\ host'.pc = "slice" /\ host'.cursor = 0 /\ host'.snap = units /\ DOMAIN units = UnitIds /\ units' = units
    BY <1>5, SnapshotScans
  <2>2. \A u \in UnitIds : ~(u <= 0)
    BY UnitsAre
  <2>3. Covers(units', Current'.name, 0, NoUnits)
    BY <1>0, <2>2, NoUnitsAre DEF Covers
  <2> QED
    BY <2>1, <2>3 DEF ScanInv
<1>6. CASE TreeLoop /\ HandleAppend
  <2> DEFINE a == Head(loop).appends
  <2>1. /\ 1 \in Has(loop, "append") /\ loop[1].appends = a
        /\ \A u \in UnitIds : units'[u] = IF u \in DOMAIN a THEN Appended(units[u], a[u]) ELSE units[u]
        /\ \A u \in UnitIds : \A n : HasAttribute(units[u], n) => HasAttribute(units'[u], n)
        /\ \A u \in DOMAIN a : u \in UnitIds /\ HasAttribute(units'[u], a[u].slot.of)
    BY <1>6, AppendsLand
  <2>2. host' = IF host.pc = "append" THEN [host EXCEPT !.pc = "slice"] ELSE host
    BY <1>6 DEF HandleAppend
  <2>3. pending' = pending
    BY <1>6 DEF TreeLoop
  <2> HIDE DEF a
  <2>4. CASE host.pc = "append"
    <3>1. host' = [host EXCEPT !.pc = "slice"]
      BY <2>2, <2>4
    <3>2. host'.pc = "slice" /\ host'.snap = host.snap /\ host'.cursor = host.cursor /\ host'.attr = host.attr
      BY <1>0, <3>1 DEF Hosts
    <3>3. Current' = Current
      BY <2>3, <3>2 DEF Current
    <3>4. Covers(units, Current.name, host.cursor, a)
      BY <2>1, <2>4 DEF ScanInv
    <3>5. DOMAIN host.snap = UnitIds /\ \A u \in UnitIds : host.cursor < u => host.snap[u] = units[u]
      BY <2>4 DEF ScanInv, Scanning
    <3>6. \A u \in UnitIds : host.cursor < u => units'[u] = units[u]
      <4>1. \A u \in DOMAIN a : u <= host.cursor
        BY <3>4 DEF Covers
      <4>2. host.cursor \in Nat
        BY <1>0 DEF Hosts
      <4>3. \A u \in UnitIds : host.cursor < u => u \notin DOMAIN a
        BY <1>0, <4>1, <4>2
      <4> QED
        BY <2>1, <4>3
    <3>7. Covers(units', Current.name, host.cursor, NoUnits)
      <4>1. \A u \in DOMAIN a : a[u].slot.of = Current.name
        BY <3>4 DEF Covers
      <4>2. \A u \in Keyed : u <= host.cursor => HasAttribute(units[u], Current.name) \/ u \in DOMAIN a
        BY <3>4 DEF Covers
      <4>3. \A u \in Keyed : u <= host.cursor => HasAttribute(units'[u], Current.name)
        BY <1>0, <2>1, <4>1, <4>2
      <4> QED
        BY <4>3, NoUnitsAre DEF Covers
    <3> QED
      BY <3>2, <3>3, <3>5, <3>6, <3>7 DEF ScanInv
  <2>5. CASE host.pc # "append"
    <3>1. host' = host
      BY <2>2, <2>5
    <3>2. host.pc \notin {"slice", "write"}
      BY <1>0, <2>1 DEF LoopControl
    <3> QED
      BY <1>1, <2>5, <3>1, <3>2 DEF Scanning
  <2> QED
    BY <2>4, <2>5
<1>7. CASE Crash \/ CommitAttributes \/ Resident \/ NextAttribute \/ host'.pc \in {"idle", "plan", "round", "clear"}
  <2>1. Opening.pc \notin Scanning /\ Idle.pc \notin Scanning /\ Idle \in Hosts
    BY IdleAt, IdleType DEF Scanning
  <2>2. CASE Crash \/ CommitAttributes \/ Resident
    <3>1. host'.pc \notin Scanning
      BY <1>0, <2>1, <2>2 DEF Crash, CommitAttributes, Resident, Hosts, Scanning
    <3> QED
      BY <1>1, <3>1
  <2>3. CASE NextAttribute
    <3>1. host'.pc \notin Scanning
      BY <1>0, <2>1, <2>3 DEF NextAttribute, Hosts, Scanning
    <3> QED
      BY <1>1, <3>1
  <2>4. CASE host'.pc \in {"idle", "plan", "round", "clear"}
    BY <1>1, <2>4 DEF Scanning
  <2> QED
    BY <1>7, <2>2, <2>3, <2>4
<1> QED
  BY <1>2, <1>3, <1>4, <1>5, <1>6, <1>7, <1>8, HostMoves

\* No step but a crash takes an attribute from the units.
LEMMA UnitsHold ==
  ASSUME SessionBase, SyncInv, SoundInv, ExtendInv, [Next]_vars, ~Crash
  PROVE  \A n : HasAll(units, n) => HasAll(units', n)
<1>1. \A u \in UnitIds : \A n : HasAttribute(units[u], n) => HasAttribute(units'[u], n)
  <2>1. CASE units' = units
    BY <2>1
  <2>2. CASE TreeLoop /\ HandleAppend
    <3>1. PICK a : a = Head(loop).appends
      OBVIOUS
    <3> QED
      BY <2>2, <3>1, AppendsLand
  <2> QED
    BY <2>1, <2>2, UnitsStep
<1> QED
  BY <1>1 DEF HasAll, Keyed

LEMMA StepAttribute ==
  ASSUME SessionBase, SessionBase', SyncInv, SoundInv, ExtendInv, ScanInv, AttributeInv, [Next]_vars
  PROVE  AttributeInv'
<1>0. /\ host \in Hosts /\ given \subseteq given' /\ pending \in Seq(Entries) /\ Idle \in Hosts /\ CallAt(host)
      /\ Len(pending) \in Nat
  BY GivenGrows, IdleType DEF SessionBase, SessionControl, SessionType, HostType, PendingType
<1>1. CASE host'.pc \in {"idle", "plan", "round", "clear"}
  BY <1>1 DEF AttributeInv, Amending
<1>2. CASE host' = host /\ pending' = pending /\ units' = units
  <2>1. Current' = Current
    BY <1>2 DEF Current
  <2> QED
    BY <1>0, <1>2, <2>1 DEF AttributeInv
<1>3. CASE Crash \/ CommitAttributes \/ (Resident /\ host.call = "open")
  <2>1. host' = Opening \/ host' = Idle \/ host' = [Idle EXCEPT !.pc = "resident", !.call = "commit"]
    BY <1>3 DEF Crash, CommitAttributes, Resident
  <2>2. Idle.attr = 0 /\ Opening.attr = 0
    BY DEF Idle, Opening
  <2>3. host'.attr = 0 /\ host'.pc \in {"idle", "resident"}
    BY <1>0, <2>1, <2>2, IdleAt DEF Hosts
  <2> QED
    BY <2>3 DEF AttributeInv, Amending
<1>4. CASE Resident /\ host.call # "open"
  <2>1. host' = [host EXCEPT !.pc = "attribute"] /\ host.pc = "resident" /\ pending' = pending
    BY <1>4 DEF Resident
  <2>2. host'.pc = "attribute" /\ host'.attr = 0
    BY <1>0, <2>1 DEF Hosts, AttributeInv
  <2> QED
    BY <1>0, <2>1, <2>2 DEF AttributeInv, Amending
<1>5. ASSUME pending' = pending, host'.attr = host.attr, host.pc \in Amending, host'.pc \in Amending, ~Crash
      PROVE  AttributeInv'
  <2>1. Current' = Current
    BY <1>5 DEF Current
  <2>2. \A n : HasAll(units, n) => HasAll(units', n)
    BY <1>5, UnitsHold
  <2>3. host.attr \in 0 .. Len(pending) /\ \A i \in 1 .. host.attr : i < host.attr => HasAll(units, pending[i].name)
    BY <1>5 DEF AttributeInv, Amending
  <2>4. \A i \in 1 .. host'.attr : (i < host'.attr \/ host'.pc = "attribute") => HasAll(units', pending'[i].name)
    BY <1>5, <2>2, <2>3 DEF Amending
  <2>5. [name |-> Current'.name, file |-> Current'.file, lost |-> {}] \in given'
    BY <1>0, <1>5, <2>1 DEF AttributeInv
  <2>6. host'.pc # "resident" /\ host'.attr \in 0 .. Len(pending')
    BY <1>5, <2>3 DEF Amending
  <2> QED
    BY <2>4, <2>5, <2>6 DEF AttributeInv
<1>6. CASE NextAttribute
  <2> DEFINE i == host.attr + 1
  <2>1. /\ host.pc = "attribute" /\ i <= Len(pending) /\ units' = units
    BY <1>6 DEF NextAttribute
  <2>2. CASE pending[i].late # <<>>
    <3>1. host' = Idle
      BY <1>6, <2>2 DEF NextAttribute
    <3> QED
      BY <1>1, <3>1, IdleAt
  <2>3. CASE pending[i].late = <<>>
    <3>1. /\ host' = [host EXCEPT !.attr = i, !.pc = "snapshot"]
          /\ pending' = [pending EXCEPT ![i].open = FALSE]
          /\ given' = given \cup {[name |-> pending[i].name, file |-> pending[i].file, lost |-> {}]}
      BY <1>6, <2>3 DEF NextAttribute
    <3>2. host'.attr = i /\ host'.pc = "snapshot" /\ host.attr \in Nat
      BY <1>0, <3>1 DEF Hosts
    <3>3. i \in 1 .. Len(pending) /\ pending[i] \in Entries
      BY <1>0, <2>1, <3>2
    <3> DEFINE now == [pending[i] EXCEPT !.open = FALSE]
    <3>4. pending' = [pending EXCEPT ![i] = now] /\ now \in Entries /\ now.file = pending[i].file /\ now.name = pending[i].name
      BY <3>1, <3>3 DEF Entries
    <3> HIDE DEF now, i
    <3>5. Len(pending') = Len(pending) /\ pending'[i] = now /\ \A j \in 1 .. Len(pending) : j # i => pending'[j] = pending[j]
      BY <1>0, <3>3, <3>4
    <3>6. Current' = now
      BY <3>2, <3>5 DEF Current
    <3>7. [name |-> Current'.name, file |-> Current'.file, lost |-> {}] \in given'
      BY <3>1, <3>4, <3>6
    <3>8. \A j \in 1 .. host.attr : HasAll(units, pending[j].name)
      BY <2>1 DEF AttributeInv
    <3>9. \A j \in 1 .. i : j < i => j \in 1 .. host.attr /\ j \in 1 .. Len(pending)
      BY <1>0, <3>2, <3>3 DEF i
    <3>10. \A j \in 1 .. i : j < i => HasAll(units', pending'[j].name)
      BY <2>1, <3>3, <3>5, <3>8, <3>9
    <3>11. i \in 0 .. Len(pending')
      BY <1>0, <3>3, <3>5
    <3> QED
      BY <3>2, <3>7, <3>10, <3>11 DEF AttributeInv
  <2> QED
    BY <2>2, <2>3
<1>7. CASE Slice
  <2>1. /\ UNCHANGED <<units, pending, given>> /\ host.pc = "slice" /\ host'.attr = host.attr
        /\ \/ host'.pc = "attribute" /\ HasAll(units, Current.name)
           \/ host'.pc \in {"slice", "write"}
    BY <1>7, SliceSteps
  <2>2. CASE host'.pc \in {"slice", "write"}
    <3>1. ~Crash
      BY <2>2, IdleAt DEF Crash
    <3> QED
      BY <1>5, <2>1, <2>2, <3>1 DEF Amending
  <2>3. CASE host'.pc = "attribute" /\ HasAll(units, Current.name)
    <3>1. host.attr \in 0 .. Len(pending) /\ \A i \in 1 .. host.attr : i < host.attr => HasAll(units, pending[i].name)
      BY <2>1 DEF AttributeInv, Amending
    <3>2. \A i \in 1 .. host.attr : i < host.attr \/ i = host.attr
      BY <1>0, <3>1
    <3>3. \A i \in 1 .. host.attr : HasAll(units, pending[i].name)
      BY <2>3, <3>1, <3>2 DEF Current
    <3> QED
      BY <2>1, <2>3, <3>1, <3>3 DEF AttributeInv, Amending
  <2> QED
    BY <2>1, <2>2, <2>3
<1>11. CASE BlobLost
  <2>1. host.pc = "write" /\ host'.pc = "write" /\ host'.attr = host.attr /\ pending' = pending
    BY <1>11, BlobLostIs DEF SessionBase, SessionControl
  <2>2. ~Crash
    BY <2>1, IdleAt DEF Crash
  <2> QED
    BY <1>5, <2>1, <2>2 DEF Amending
<1>8. CASE WriteAttributes
  <2>1. host.pc = "write" /\ host' = [host EXCEPT !.pc = "append", !.slice = NoUnits] /\ pending' = pending
    BY <1>8 DEF WriteAttributes
  <2>2. host'.pc = "append" /\ host'.attr = host.attr
    BY <1>0, <2>1 DEF Hosts
  <2>3. ~Crash
    BY <2>2, IdleAt DEF Crash
  <2> QED
    BY <1>5, <2>1, <2>2, <2>3 DEF Amending
<1>9. CASE TreeLoop /\ HandleSnapshot
  <2>1. host.pc = "snapshot" /\ host'.pc = "slice" /\ host'.attr = host.attr /\ pending' = pending
    BY <1>9, SnapshotScans
  <2>2. ~Crash
    BY <2>1, IdleAt DEF Crash
  <2> QED
    BY <1>5, <2>1, <2>2 DEF Amending
<1>10. CASE TreeLoop /\ HandleAppend
  <2>1. host' = (IF host.pc = "append" THEN [host EXCEPT !.pc = "slice"] ELSE host) /\ pending' = pending /\ given' = given
    BY <1>10 DEF TreeLoop, HandleAppend
  <2>2. host'.attr = host.attr /\ (host.pc = "append" => host'.pc = "slice") /\ (host.pc # "append" => host' = host)
    BY <1>0, <2>1 DEF Hosts
  <2>3. CASE host.pc \in Amending
    <3>1. host'.pc \in Amending
      BY <2>2, <2>3 DEF Amending
    <3>2. ~Crash
      BY <3>1, IdleAt DEF Crash, Amending
    <3> QED
      BY <1>5, <2>1, <2>2, <2>3, <3>1, <3>2
  <2>4. CASE host.pc \notin Amending
    <3>1. host' = host
      BY <2>2, <2>4 DEF Amending
    <3>2. \A n : HasAll(units, n) => HasAll(units', n)
      <4>1. PICK a : a = Head(loop).appends
        OBVIOUS
      <4>2. \A u \in UnitIds : \A n : HasAttribute(units[u], n) => HasAttribute(units'[u], n)
        BY <1>10, <4>1, AppendsLand
      <4> QED
        BY <4>2 DEF HasAll, Keyed
    <3> QED
      BY <2>1, <2>4, <3>1, <3>2 DEF AttributeInv
  <2> QED
    BY <2>3, <2>4
<1> QED
  BY <1>1, <1>2, <1>3, <1>4, <1>6, <1>7, <1>8, <1>9, <1>10, <1>11, HostMoves

SessionInv == SessionBase /\ SyncInv /\ AmendInv

LEMMA InitAmend == ASSUME Init PROVE AmendInv
<1>1. units = Base /\ located = Base /\ disk.units = Base /\ chain = NoChain /\ loop = <<>> /\ host = Opening
  BY DEF Init
<1>2. chain.units = Base /\ Has(loop, "append") = {} /\ host.pc = "resident" /\ host.attr = 0
  BY <1>1 DEF NoChain, Has, Opening, Idle
<1>3. SoundInv
  BY <1>1, <1>2, BaseSound DEF SoundInv, AllSound
<1> QED
  BY <1>2, <1>3 DEF AmendInv, ExtendInv, ScanInv, AttributeInv, Scanning, Amending

LEMMA AlwaysAmends == ASSUME Minted = {} PROVE Spec => []SessionInv
<1>1. Init => SessionInv
  <2> SUFFICES ASSUME Init PROVE SessionInv
    OBVIOUS
  <2>1. SessionBase
    BY InitBase
  <2> QED
    BY <2>1, InitSync, InitAmend DEF SessionInv
<1>2. SessionInv /\ [Next]_vars => SessionInv'
  <2> SUFFICES ASSUME SessionInv, [Next]_vars PROVE SessionInv'
    OBVIOUS
  <2>1. SessionBase /\ SyncInv /\ SoundInv /\ ExtendInv /\ ScanInv /\ AttributeInv
    BY DEF SessionInv, AmendInv
  <2>2. SessionBase'
    BY <2>1, StepBase
  <2>3. SyncInv' /\ SoundInv' /\ ExtendInv' /\ ScanInv' /\ AttributeInv'
    BY <2>1, <2>2, StepSync, StepSound, StepExtend, StepScan, StepAttribute
  <2> QED
    BY <2>2, <2>3 DEF SessionInv, AmendInv
<1> QED
  BY <1>1, <1>2, PTL DEF Spec

LEMMA FilesHoldRecords == Files \subseteq Seq(Recs)
<1> DEFINE I == {n \in Nat : n \in 0 .. MaxCalls => Written[n] \subseteq Seq(Recs)}
<1>1. MaxCalls \in Nat /\ Batches \subseteq Seq(Recs)
  <2>1. {MaxCalls, MaxRequests, MaxFaults} \subseteq Nat
    BY MutableSessionAssumption
  <2>2. Batches \subseteq Seq([key : Int, val : Int])
    BY MutableSessionAssumption
  <2>3. MaxCalls \in Nat
    BY <2>1
  <2> DEFINE S == [key : Int, val : Int]
  <2>4. Batches \subseteq Seq(S)
    BY <2>2
  <2>5. Recs = S
    BY DEF Recs
  <2> HIDE DEF S
  <2>6. Batches \subseteq Seq(Recs)
    BY <2>4, <2>5
  <2> QED
    BY <2>3, <2>6
<1>2. 0 \in I
  <2>1. Written[0] = {<<>>}
    BY WrittenUnfolds
  <2>2. <<>> \in Seq(Recs)
    OBVIOUS
  <2>3. \A x \in Written[0] : x = <<>>
    BY <2>1
  <2>4. Written[0] \subseteq Seq(Recs)
    BY <2>2, <2>3
  <2> QED
    BY <2>4
<1>3. ASSUME NEW n \in Nat, n \in I PROVE n + 1 \in I
  <2> SUFFICES ASSUME n + 1 \in 0 .. MaxCalls, NEW file \in Written[n + 1] PROVE file \in Seq(Recs)
    OBVIOUS
  <2>1. n \in 0 .. MaxCalls /\ n + 1 # 0 /\ (n + 1) - 1 = n
    BY <1>1
  <2>2. Written[n + 1] = Longer(Written[n])
    BY <2>1, WrittenUnfolds
  <2>3. PICK old \in Written[n], batch \in Batches : file = old \o batch
    BY <2>2 DEF Longer
  <2>4. old \in Seq(Recs) /\ batch \in Seq(Recs)
    BY <1>1, <1>3, <2>1
  <2> QED
    BY <2>3, <2>4
<1>4. \A n \in Nat : n \in I
  <2> HIDE DEF I
  <2> QED
    BY <1>2, <1>3, AllNumbers
<1>5. \A n \in 0 .. MaxCalls : Written[n] \subseteq Seq(Recs)
  BY <1>1, <1>4
<1> QED
  BY <1>5 DEF Files

\* What a commit joins with a unit is what was given under the keys of its points.
LEMMA JoinExact ==
  ASSUME NEW file \in Files, NEW u \in UnitIds
  PROVE  JoinOf(file, u) = Given(file, Units[u].keys)
<1> DEFINE keys == Units[u].keys
<1>1. keys \in Seq(Int) /\ file \in Seq(Recs)
  BY UnitsAre, FilesHoldRecords
<1>2. \A p \in DOMAIN keys : keys[p] \in Keys
  BY DEF Keys, ToSet
<1>3. \A key \in Keys : Join[file][key] = Landed(InKeyOrder(file), key)
  BY DEF Join
<1>4. JoinOf(file, u) = [p \in DOMAIN keys |-> Landed(InKeyOrder(file), keys[p])]
  BY <1>2, <1>3 DEF JoinOf
<1> HIDE DEF keys
<1>5. [p \in DOMAIN keys |-> Landed(InKeyOrder(file), keys[p])] = Given(file, keys)
  BY <1>1, LastValueCounts
<1> QED
  BY <1>4, <1>5 DEF keys

LEMMA SoundReads ==
  ASSUME given \subseteq Givens, NEW u \in UnitIds, NEW unit, Sound(given, u, unit)
  PROVE  Readable(u, unit)
<1> DEFINE base == BaseLen(u)
           d == unit.storage
           b == Base[u].storage
<1>1. /\ unit \in Unit /\ Len(unit.config) = Len(d) /\ base <= Len(unit.config)
      /\ \A i \in 1 .. Len(unit.config) : d[i].of = unit.config[i]
      /\ \A i \in 1 .. base : d[i] = b[i]
      /\ \A i \in 1 .. Len(unit.config) : base < i => FromFile(given, u, unit.config[i], d[i].vals)
      /\ \A i, j \in 1 .. Len(unit.config) : unit.config[i] = unit.config[j] => i = j
  BY DEF Sound
<1>2. d \in Seq(Slots) /\ unit.config \in Seq(Int) /\ DOMAIN unit.config = 1 .. Len(unit.config) /\ base \in Nat
  BY <1>1, BaseHolds DEF Unit
<1>3. b \in Seq(Slots) /\ Len(b) = base
  <2>1. Sound({}, u, Base[u])
    BY BaseSound
  <2> QED
    BY <2>1 DEF Sound, Unit, BaseLen
<1>4. SubSeq(d, 1, base) = b
  <2> HIDE DEF d, b, base
  <2>1. SubSeq(d, 1, base) = [i \in 1 .. base |-> d[i]]
    BY <1>1, <1>2
  <2>2. b = [i \in 1 .. base |-> b[i]]
    BY <1>3
  <2> QED
    BY <1>1, <2>1, <2>2
<1>5. \A i \in DOMAIN unit.config : base < i =>
        \E g \in given : /\ g.name = unit.config[i]
                         /\ d[i].vals = Given(g.file, Units[u].keys) \/ (d[i].vals = Unwritten /\ u \in g.lost)
  <2> SUFFICES ASSUME NEW i \in DOMAIN unit.config, base < i
               PROVE  \E g \in given : /\ g.name = unit.config[i]
                                       /\ d[i].vals = Given(g.file, Units[u].keys) \/ (d[i].vals = Unwritten /\ u \in g.lost)
    OBVIOUS
  <2>1. PICK g \in given : /\ g.name = unit.config[i]
                           /\ d[i].vals = JoinOf(g.file, u) \/ (d[i].vals = Unwritten /\ u \in g.lost)
    BY <1>1, <1>2 DEF FromFile
  <2>2. g.file \in Files
    BY DEF Givens
  <2> QED
    BY <2>1, <2>2, JoinExact
<1>6. IsInjective(unit.config)
  BY <1>1, <1>2 DEF IsInjective
<1>7. \A i \in DOMAIN unit.config : i > base => base < i
  BY <1>2
<1> QED
  BY <1>1, <1>2, <1>4, <1>5, <1>6, <1>7 DEF Readable, BaseLen

\* In memory, in the trees written and in the last checkpoint, a reader who resolves a name against a unit's
\* configuration finds the blob of that attribute, with the value last given under each point's key
\* (append_storage, config_with_attribute_appended), or nothing where the write of this very blob failed
\* (do_write): while attributes are committed one upon the other, and after commits that ended halfway, timed
\* out or crashed were called again.
THEOREM UnitsStayReadable == ASSUME Minted = {} PROVE Spec => []UnitsReadable
<1>1. SessionInv => UnitsReadable
  <2> SUFFICES ASSUME SessionInv PROVE UnitsReadable
    OBVIOUS
  <2>1. given \subseteq Givens /\ AllSound(given, units) /\ AllSound(given, located) /\ AllSound(given, disk.units)
    BY DEF SessionInv, SessionBase, SessionControl, SessionType, GhostsType, AmendInv, SoundInv
  <2> QED
    BY <2>1, SoundReads DEF UnitsReadable, AllSound
<1> QED
  BY <1>1, AlwaysAmends, PTL

-----------------------------------------------------------------------------
(***************************************************************************)
(* Committing: what the chains that end after the join have made durable.  *)
(***************************************************************************)
\* Where one chain has ended since the call's first checkpoint was asked for, and where two have.
Once(h) == (h.pc = "plan" /\ h.todo \in {Todo3, Todo2, Todo1, Rounds2}) \/ (h.pc = "round" /\ h.todo = Rounds1)
Twice(h) == (h.pc = "plan" /\ h.todo \in {Rounds1, <<>>}) \/ (h.pc = "round" /\ h.todo = <<>>)

\* Whatever chain is in flight, the index it commits has the attribute n.
Carried(n) ==
  /\ chain.step = "trees" => HasAll(Over(located, chain.trees, chain.units), n)
  /\ chain.step = "index" => HasAll(chain.units, n)
  /\ chain.step = "emit" => HasAll(disk.units, n)

\* A session in which a checkpoint ended has one to settle.
CountInv ==
  /\ chain.step = "emit" => chain.commits > 0
  /\ used.chain = 0 => chain.step # "failed" /\ (Once(host) => chain.commits > 0)

CommitInv ==
  /\ \A n \in host.names : HasAll(units, n)
  /\ used.chain = 0 =>
       /\ \A n \in host.names : Once(host) \/ Twice(host) => Carried(n)
       /\ \A n \in host.names : Twice(host) => HasAll(disk.units, n)
       /\ \A n \in told.names : HasAll(units, n) /\ Carried(n) /\ HasAll(disk.units, n)

\* The ways to where the host waits for its checkpoints, and from one wait to the next.
LEMMA WaitSteps ==
  ASSUME SessionBase, SyncInv, [Next]_vars, host'.pc \in {"plan", "round"}
  PROVE  \/ host' = host
         \/ Joined /\ host'.pc = "plan" /\ host'.todo = Todo4 /\ host'.names = Declared
         \/ host'.pc = "plan" /\ host'.todo = Todo5 /\ host'.names = {}
         \/ Post \/ Wait
         \/ host'.pc = "plan" /\ host'.todo = Todo4 /\ host'.names = host.names
         \/ EndChain /\ host.pc = "round" /\ host'.pc = "plan" /\ host'.todo = host.todo /\ host'.names = host.names
<1>0. host \in Hosts /\ loop \in Seq(Tasks) /\ SessionType /\ CallAt(host) /\ Idle \in Hosts
  BY IdleType DEF SessionBase, SessionControl, SessionType, HostType, LoopType
<1>1. CASE host' = host
  BY <1>1
<1>2. CASE Joined
  BY <1>0, <1>2, TodosAre DEF Joined, Hosts
<1>3. CASE Finalize
  BY <1>0, <1>3, TodosAre, IdleAt DEF Finalize, Hosts
<1>4. CASE Post \/ Wait
  BY <1>4
<1>5. CASE TimesOut \/ HandleClear
  <2>1. host' \in {host, Idle} \/ (host.pc = "clear" /\ host' = [host EXCEPT !.pc = "plan"])
    BY <1>5 DEF TimesOut, HandleClear
  <2>2. \/ host' \in {host, Idle}
        \/ host.pc = "clear" /\ host'.pc = "plan" /\ host'.names = host.names /\ host'.todo = host.todo
    BY <1>0, <2>1 DEF Hosts
  <2>3. host.pc = "clear" => host.todo = Todo4
    BY <1>0 DEF CallAt
  <2> QED
    BY <2>2, <2>3, IdleAt
<1>6. CASE CommitAttributes \/ Return \/ SliceFails \/ Crash \/ Resident
  <2>1. host'.pc \in {"resident", "idle", "attribute"}
    BY <1>0, <1>6, IdleAt DEF CommitAttributes, Return, SliceFails, Crash, Resident, Hosts
  <2> QED
    BY <2>1
<1>7. CASE NextAttribute \/ Slice \/ WriteAttributes
  <2>1. host'.pc \in {"idle", "snapshot", "attribute", "slice", "write", "append"}
    BY <1>0, <1>7, IdleAt DEF NextAttribute, Slice, WriteAttributes, Hosts
  <2> QED
    BY <2>1
<1>8. CASE HandleSnapshot \/ HandleAppend
  <2>1. host'.pc = "slice" \/ host' = host
    BY <1>0, <1>8 DEF HandleSnapshot, HandleAppend, Hosts
  <2> QED
    BY <2>1
<1>9. CASE EndChain
  <2>1. host' = host \/ (host.pc = "round" /\ host'.pc = "plan" /\ host'.todo = host.todo /\ host'.names = host.names)
    BY <1>0, <1>9 DEF EndChain, Hosts
  <2> QED
    BY <1>9, <2>1
<1>10. CASE \/ UNCHANGED vars \/ CachePressure \/ ChainFails \/ UploadParks
            \/ HandleLoad \/ HandleUnheard \/ HandleCheckpoint \/ DeserializeTree \/ BandUploaded
            \/ TreesWritten \/ IndexCommitted
            \/ (\E n \in Names : AddAttribute(n)) \/ (\E i \in DOMAIN pending, batch \in Batches : AddData(i, batch))
  BY <1>1, <1>10
  DEF vars, CachePressure, ChainFails, UploadParks, HandleLoad, HandleUnheard, HandleCheckpoint, DeserializeTree,
      BandUploaded, TreesWritten, IndexCommitted, AddAttribute, AddData
<1>11. CASE BlobLost
  <2>1. host'.pc = "write"
    BY <1>0, <1>11, BlobLostIs
  <2> QED
    BY <2>1
<1> QED
  BY <1>2, <1>3, <1>4, <1>5, <1>6, <1>7, <1>8, <1>9, <1>10, <1>11
  DEF Next, Calls, System, Host, Chain, TreeLoop

\* The two waits, step by step.
LEMMA WaitsOn ==
  ASSUME SessionBase, SyncInv, [Next]_vars
  PROVE  /\ Once(host') => Once(host) \/ (EndChain /\ host.pc = "round")
         /\ Twice(host') => \/ Twice(host) \/ (EndChain /\ Once(host))
                            \/ Once(host) /\ chain.commits = 0 /\ UNCHANGED <<chain, disk>>
         /\ Once(host') \/ Twice(host') => host'.names = {} \/ host'.names = host.names
<1>0. SessionType /\ CallAt(host) /\ chain \in Chains
  BY DEF SessionBase, SessionControl, SessionType, ChainType
<1> SUFFICES ASSUME Once(host') \/ Twice(host')
             PROVE  /\ Once(host') => Once(host) \/ (EndChain /\ host.pc = "round")
                    /\ Twice(host') => \/ Twice(host) \/ (EndChain /\ Once(host))
                                       \/ Once(host) /\ chain.commits = 0 /\ UNCHANGED <<chain, disk>>
                    /\ host'.names = {} \/ host'.names = host.names
  OBVIOUS
<1>1. host'.pc \in {"plan", "round"}
  BY DEF Once, Twice
<1>2. host'.pc = "plan" => host'.todo \notin {Todo4, Todo5}
  BY TodosDiffer DEF Once, Twice
<1>3. CASE host' = host
  BY <1>3
<1>4. CASE Post \/ Wait
  <2>1. /\ host.pc = "plan" /\ host'.names = host.names
        /\ \/ host.todo = Todo5 /\ host'.pc = "clear" /\ host'.todo = Todo4
           \/ host.todo = Todo4 /\ host'.pc = "round" /\ host'.todo = Todo3
           \/ host.todo = Todo3 /\ host'.pc = "plan" /\ host'.todo = Todo2
           \/ host.todo = Todo2 /\ host'.pc = "plan" /\ host'.todo = Todo1
           \/ host.todo = Todo1 /\ host'.pc = "plan" /\ host'.todo = Settled /\ Wait
           \/ host.todo = Rounds2 /\ host'.pc = "round" /\ host'.todo = Rounds1
           \/ host.todo = Rounds1 /\ host'.pc = "round" /\ host'.todo = <<>>
    BY <1>0, <1>4, PlanSteps
  <2>2. CASE host.todo = Todo5 \/ (host.todo = Todo4 /\ host'.pc = "round" /\ host'.todo = Todo3)
    BY <1>1, <2>1, <2>2, TodosDiffer DEF Once, Twice
  <2>3. CASE host.todo = Todo3 /\ host'.pc = "plan" /\ host'.todo = Todo2
    BY <2>1, <2>3, TodosDiffer DEF Once, Twice
  <2>4. CASE host.todo = Todo2 /\ host'.pc = "plan" /\ host'.todo = Todo1
    BY <2>1, <2>4, TodosDiffer DEF Once, Twice
  <2>5. CASE host.todo = Todo1 /\ host'.pc = "plan" /\ host'.todo = Settled /\ Wait
    <3>1. Once(host)
      BY <2>1, <2>5 DEF Once
    <3>2. CASE chain.commits > 0
      <4>1. host'.todo = Rounds2
        BY <2>5, <3>2 DEF Settled, Rounds2
      <4>2. ~Twice(host')
        BY <2>5, <4>1, TodosDiffer DEF Twice
      <4> QED
        BY <2>1, <3>1, <4>2
    <3>3. CASE ~(chain.commits > 0)
      <4>1. chain.commits = 0
        BY <1>0, <3>3 DEF Chains
      <4>2. UNCHANGED <<chain, disk>>
        BY <2>5 DEF Wait
      <4> QED
        BY <2>1, <3>1, <4>1, <4>2
    <3> QED
      BY <3>2, <3>3
  <2>6. CASE host.todo = Rounds2 /\ host'.pc = "round" /\ host'.todo = Rounds1
    BY <2>1, <2>6, TodosDiffer DEF Once, Twice
  <2>7. CASE host.todo = Rounds1 /\ host'.pc = "round" /\ host'.todo = <<>>
    BY <2>1, <2>7, TodosDiffer DEF Once, Twice
  <2> QED
    BY <2>1, <2>2, <2>3, <2>4, <2>5, <2>6, <2>7
<1>5. CASE EndChain /\ host.pc = "round" /\ host'.pc = "plan" /\ host'.todo = host.todo /\ host'.names = host.names
  <2>1. host.todo \in {Todo3, Rounds1, <<>>}
    BY <1>0, <1>5 DEF CallAt
  <2>2. CASE host.todo = Todo3
    BY <1>5, <2>2, TodosDiffer DEF Once, Twice
  <2>3. CASE host.todo = Rounds1
    BY <1>5, <2>3, TodosDiffer DEF Once, Twice
  <2>4. CASE host.todo = <<>>
    BY <1>5, <2>4, TodosDiffer DEF Once, Twice
  <2> QED
    BY <2>1, <2>2, <2>3, <2>4
<1> QED
  BY <1>1, <1>2, <1>3, <1>4, <1>5, WaitSteps

LEMMA LaunchSteps ==
  ASSUME SessionBase, NEW c \in Chains, NEW ts \in Registries, LaunchChain(c, ts)
  PROVE  IF c.step = "off"
         THEN /\ chain'.step = "trees" /\ chain'.trees = ts.dirty /\ chain'.units = units /\ chain'.commits = c.commits
         ELSE /\ chain'.step = c.step /\ chain'.trees = c.trees /\ chain'.units = c.units /\ chain'.commits = c.commits
BY DEF LaunchChain, Chains

\* The chain, step by step.
LEMMA ChainMoves ==
  ASSUME SessionBase, [Next]_vars
  PROVE  \/ /\ chain'.step = chain.step /\ chain'.trees = chain.trees /\ chain'.units = chain.units
            /\ chain'.commits = chain.commits /\ UNCHANGED <<located, disk>> /\ ~EndChain
         \/ /\ chain.step \in {"off", "emit", "failed"} /\ chain'.step = "trees" /\ chain'.trees = trees.dirty
            /\ chain'.units = units /\ chain'.commits = chain.commits /\ UNCHANGED <<units, located, disk>>
            /\ EndChain => chain.step \in {"emit", "failed"}
         \/ EndChain /\ chain.step \in {"emit", "failed"} /\ chain'.step = "off" /\ chain'.commits = chain.commits
            /\ UNCHANGED <<located, disk>>
         \/ /\ chain.step = "trees" /\ chain'.step = "index" /\ chain'.commits = chain.commits
            /\ chain'.units = Over(located, chain.trees, chain.units) /\ located' = chain'.units /\ disk' = disk /\ ~EndChain
         \/ /\ chain.step = "index" /\ chain'.step = "emit" /\ chain'.commits = chain.commits + 1
            /\ disk'.units = chain.units /\ located' = located /\ ~EndChain
         \/ ChainFails \/ Crash
<1>0. chain \in Chains /\ trees \in Registries
  BY DEF SessionBase, SessionControl, SessionType, ChainType, TreesType
<1>1. EndChain => chain.step \in {"emit", "failed"}
  BY DEF EndChain
<1>2. CASE EndChain
  <2> DEFINE ships == chain.step = "emit" /\ Band.emit
             after == IF ships THEN [trees EXCEPT !.banded = @ \cup Band.trees] ELSE trees
             off == [chain EXCEPT !.step = "off"]
  <2>1. /\ IF chain.rerun THEN LaunchChain(off, after) ELSE chain' = off /\ trees' = after
        /\ UNCHANGED <<units, located, disk>>
    BY <1>2 DEF EndChain
  <2>2. after.dirty = trees.dirty /\ after \in Registries
    <3>1. Band.trees \subseteq Trees
      BY <1>0 DEF Band, Registries
    <3> QED
      BY <1>0, <3>1 DEF Registries
  <2>3. off \in Chains /\ off.step = "off" /\ off.commits = chain.commits
    BY <1>0 DEF Chains
  <2> HIDE DEF after, off
  <2>4. CASE chain.rerun
    BY <1>1, <1>2, <2>1, <2>2, <2>3, <2>4, LaunchSteps
  <2>5. CASE ~chain.rerun
    BY <1>1, <1>2, <2>1, <2>3, <2>5
  <2> QED
    BY <2>4, <2>5
<1>3. CASE TreeLoop /\ HandleCheckpoint /\ ~EndChain
  <2>1. LaunchChain(chain, trees) /\ UNCHANGED <<units, located, disk>>
    BY <1>3 DEF TreeLoop, HandleCheckpoint
  <2>2. CASE chain.step = "off"
    BY <1>0, <1>3, <2>1, <2>2, LaunchSteps
  <2>3. CASE chain.step # "off"
    BY <1>0, <1>3, <2>1, <2>3, LaunchSteps
  <2> QED
    BY <2>2, <2>3
<1>4. CASE TreesWritten /\ ~EndChain
  <2>1. /\ chain.step = "trees" /\ located' = Over(located, chain.trees, chain.units) /\ disk' = disk
        /\ chain' = [chain EXCEPT !.step = "index", !.units = located', !.final = trees.final, !.mutable = mutable]
    BY <1>4 DEF TreesWritten
  <2>2. chain'.step = "index" /\ chain'.units = located' /\ chain'.commits = chain.commits
    BY <1>0, <2>1 DEF Chains
  <2> QED
    BY <1>4, <2>1, <2>2
<1>5. CASE IndexCommitted /\ ~EndChain
  <2>1. /\ chain.step = "index" /\ located' = located
        /\ disk' = [units |-> chain.units, mutable |-> chain.mutable, final |-> chain.final]
        /\ chain' = [chain EXCEPT !.step = "emit", !.commits = @ + 1]
    BY <1>5 DEF IndexCommitted
  <2>2. chain'.step = "emit" /\ chain'.commits = chain.commits + 1 /\ disk'.units = chain.units
    BY <1>0, <2>1 DEF Chains
  <2> QED
    BY <1>5, <2>1, <2>2
<1>6. CASE UNCHANGED <<chain, located, disk>> /\ ~EndChain
  BY <1>6
<1>7. TreeLoop /\ ~HandleCheckpoint => UNCHANGED <<chain, located, disk>>
  BY DEF TreeLoop, HandleLoad, HandleSnapshot, HandleAppend, HandleClear, HandleUnheard
<1>8. \/ UNCHANGED <<chain, located, disk>> \/ (TreeLoop /\ HandleCheckpoint) \/ EndChain \/ TreesWritten
      \/ IndexCommitted \/ ChainFails \/ Crash
  BY <1>7
  DEF Next, Calls, System, Host, Chain, vars, AddAttribute, AddData, CommitAttributes, Finalize, Resident,
      NextAttribute, Joined, Slice, Post, Wait, Return, WriteAttributes, DeserializeTree,
      BandUploaded, SliceFails, BlobLost, TimesOut, CachePressure, UploadParks
<1> QED
  BY <1>2, <1>3, <1>4, <1>5, <1>6, <1>8

LEMMA StepCount ==
  ASSUME SessionBase, SyncInv, CountInv, [Next]_vars
  PROVE  CountInv'
<1>0. chain \in Chains /\ chain.commits \in Nat
  BY DEF SessionBase, SessionControl, SessionType, ChainType, Chains
<1>1. used'.chain = 0 => used.chain = 0 /\ ~ChainFails
  BY UsedChain
<1>2. ChainFails => chain'.step = "failed"
  BY <1>0 DEF ChainFails, Chains
<1>3. Crash => chain'.step = "off" /\ ~Once(host')
  BY IdleAt DEF Crash, NoChain, Once
<1>4. Once(host') => Once(host) \/ (EndChain /\ host.pc = "round")
  BY WaitsOn
<1>5. ~ChainFails /\ ~Crash => chain'.commits \in {chain.commits, chain.commits + 1} /\ (EndChain => chain'.commits = chain.commits)
  BY ChainMoves
<1>6. chain'.step = "emit" => chain'.commits > 0
  BY <1>0, <1>2, <1>3, ChainMoves DEF CountInv
<1>7. used'.chain = 0 => chain'.step # "failed"
  BY <1>1, <1>3, ChainMoves DEF CountInv
<1>8. EndChain => chain.step \in {"emit", "failed"}
  BY DEF EndChain
<1>9. ASSUME used'.chain = 0, Once(host') PROVE chain'.commits > 0
  <2>1. ~ChainFails /\ ~Crash /\ used.chain = 0
    BY <1>1, <1>3, <1>9
  <2>2. chain.commits > 0
    BY <1>4, <1>8, <1>9, <2>1 DEF CountInv
  <2> QED
    BY <1>0, <1>5, <2>1, <2>2
<1> QED
  BY <1>6, <1>7, <1>9 DEF CountInv

\* A chain launched now carries what the units have: what is not dirty is written.
LEMMA LaunchCarries ==
  ASSUME SessionBase, SyncInv, chain.step # "trees", NEW n, HasAll(units, n)
  PROVE  HasAll(Over(located, trees.dirty, units), n)
<1>0. units \in Maps /\ located \in Maps /\ Writing = {}
  BY DEF SessionBase, SessionControl, SessionType, StoresType, Writing
<1>1. \A u \in UnitIds : Over(located, trees.dirty, units)[u] = IF Units[u].tree \in trees.dirty THEN units[u] ELSE located[u]
  BY <1>0, OverMaps
<1>2. \A u \in UnitIds : Units[u].tree \notin trees.dirty => units[u] = located[u]
  BY <1>0 DEF SyncInv
<1>3. \A u \in UnitIds : Over(located, trees.dirty, units)[u] = units[u]
  BY <1>1, <1>2
<1> QED
  BY <1>3 DEF HasAll, Keyed

LEMMA CarrySteps ==
  ASSUME SessionBase, SyncInv, CountInv, [Next]_vars, used'.chain = 0, ~Crash, NEW n, HasAll(units, n)
  PROVE  /\ Carried(n) \/ EndChain => Carried(n)'
         /\ Carried(n) /\ (HasAll(disk.units, n) \/ EndChain) => HasAll(disk'.units, n)
<1>1. ~ChainFails /\ chain.step # "failed"
  BY UsedChain DEF CountInv
<1>2. CASE /\ chain'.step = chain.step /\ chain'.trees = chain.trees /\ chain'.units = chain.units
           /\ UNCHANGED <<located, disk>> /\ ~EndChain
  BY <1>2 DEF Carried
<1>3. CASE /\ chain.step \in {"off", "emit", "failed"} /\ chain'.step = "trees" /\ chain'.trees = trees.dirty
           /\ chain'.units = units /\ UNCHANGED <<units, located, disk>>
           /\ EndChain => chain.step \in {"emit", "failed"}
  <2>1. HasAll(Over(located, trees.dirty, units), n)
    BY <1>3, LaunchCarries
  <2>2. Carried(n)'
    BY <1>3, <2>1 DEF Carried
  <2>3. EndChain /\ Carried(n) => HasAll(disk.units, n)
    BY <1>1, <1>3 DEF Carried
  <2> QED
    BY <1>3, <2>2, <2>3
<1>4. CASE /\ EndChain /\ chain.step \in {"emit", "failed"} /\ chain'.step = "off" /\ UNCHANGED <<located, disk>>
  BY <1>1, <1>4 DEF Carried
<1>5. CASE /\ chain.step = "trees" /\ chain'.step = "index"
           /\ chain'.units = Over(located, chain.trees, chain.units) /\ disk' = disk /\ ~EndChain
  BY <1>5 DEF Carried
<1>6. CASE /\ chain.step = "index" /\ chain'.step = "emit" /\ disk'.units = chain.units /\ ~EndChain
  BY <1>6 DEF Carried
<1> QED
  BY <1>1, <1>2, <1>3, <1>4, <1>5, <1>6, ChainMoves

\* Where the names of the host's call come from.
LEMMA NamesJoined ==
  ASSUME SessionBase, SessionBase', SyncInv, AttributeInv, CommitInv, [Next]_vars, NEW n \in host'.names
  PROVE  HasAll(units, n) /\ ~Crash
<1>0. SessionControl /\ SessionType /\ CallAt(host) /\ CallAt(host') /\ host \in Hosts /\ pending \in Seq(Entries)
  BY DEF SessionBase, SessionControl, SessionType, HostType, PendingType
<1>1. host'.pc \in {"plan", "round"} /\ host'.names # {}
  BY <1>0 DEF CallAt
<1>2. host'.names = host.names \/ (Joined /\ host'.names = Declared)
  <2>1. Post \/ Wait => host'.names = host.names
    BY <1>0, PlanSteps
  <2> QED
    BY <1>1, <2>1, WaitSteps
<1>3. ASSUME host'.names = host.names PROVE HasAll(units, n)
  BY <1>3 DEF CommitInv
<1>4. ASSUME Joined, host'.names = Declared PROVE HasAll(units, n)
  <2>1. host.pc = "attribute" /\ host.attr = Len(pending)
    BY <1>4 DEF Joined
  <2>2. \A i \in 1 .. host.attr : HasAll(units, pending[i].name)
    BY <2>1 DEF AttributeInv
  <2>3. DOMAIN pending = 1 .. host.attr
    BY <1>0, <2>1
  <2> QED
    BY <1>4, <2>2, <2>3 DEF Declared
<1>5. ~Crash
  BY <1>1, IdleAt DEF Crash
<1> QED
  BY <1>2, <1>3, <1>4, <1>5

LEMMA ToldSteps ==
  ASSUME SessionBase, [Next]_vars, NEW n \in told'.names
  PROVE  n \in told.names \/ (n \in host.names /\ Twice(host) /\ UNCHANGED <<units, chain, located, disk, used>>)
<1>0. told \in Tolds
  BY DEF SessionBase, SessionControl, SessionType, GhostsType
<1>1. told' = told \/ Return
  BY DEF Next, Calls, System, Host, Chain, vars, AddAttribute, AddData, CommitAttributes, Finalize, Resident,
         NextAttribute, Joined, Slice, Post, Wait, WriteAttributes, TreeLoop, DeserializeTree, TreesWritten,
         IndexCommitted, EndChain, BandUploaded, SliceFails, BlobLost, TimesOut, CachePressure, ChainFails, UploadParks, Crash
<1>2. CASE Return
  <2>1. told'.names = told.names \cup host.names /\ host.pc = "plan" /\ host.todo = <<>>
        /\ UNCHANGED <<units, chain, located, disk, used>>
    BY <1>2 DEF Return
  <2> QED
    BY <2>1 DEF Twice
<1> QED
  BY <1>1, <1>2

LEMMA StepCommit ==
  ASSUME SessionBase, SessionBase', SyncInv, SoundInv, ExtendInv, AttributeInv, CountInv, CommitInv, [Next]_vars
  PROVE  CommitInv'
<1>1. ASSUME NEW n \in host'.names PROVE HasAll(units', n)
  BY <1>1, NamesJoined, UnitsHold
<1>2. ASSUME used'.chain = 0 PROVE used.chain = 0
  BY <1>2, UsedChain
<1>3. ASSUME used'.chain = 0, NEW n \in host'.names, Once(host') \/ Twice(host')
      PROVE  Carried(n)' /\ (Twice(host') => HasAll(disk'.units, n))
  <2>1. HasAll(units, n) /\ ~Crash /\ used.chain = 0
    BY <1>2, <1>3, NamesJoined
  <2>2. n \in host.names
    BY <1>3, WaitsOn
  <2>3. /\ Once(host) \/ Twice(host) => Carried(n)
        /\ Twice(host) => HasAll(disk.units, n)
    BY <2>1, <2>2 DEF CommitInv
  <2>4. /\ Carried(n) \/ EndChain => Carried(n)'
        /\ Carried(n) /\ (HasAll(disk.units, n) \/ EndChain) => HasAll(disk'.units, n)
    BY <1>3, <2>1, CarrySteps
  <2>5. ~(Once(host) /\ chain.commits = 0)
    <3>1. Once(host) => chain.commits > 0
      BY <2>1 DEF CountInv
    <3>2. chain.commits \in Nat
      BY DEF SessionBase, SessionControl, SessionType, ChainType, Chains
    <3> QED
      BY <3>1, <3>2
  <2>6. /\ Once(host') => Once(host) \/ EndChain
        /\ Twice(host') => Twice(host) \/ (EndChain /\ Once(host))
    BY <2>5, WaitsOn
  <2> QED
    BY <1>3, <2>3, <2>4, <2>6
<1>4. ASSUME used'.chain = 0, NEW n \in told'.names
      PROVE  HasAll(units', n) /\ Carried(n)' /\ HasAll(disk'.units, n)
  <2>1. CASE n \in told.names
    <3>1. HasAll(units, n) /\ Carried(n) /\ HasAll(disk.units, n)
      BY <1>2, <1>4, <2>1 DEF CommitInv
    <3>2. CASE Crash
      <4>1. units' = disk.units /\ disk' = disk /\ chain'.step = "off"
        BY <3>2 DEF Crash, NoChain
      <4> QED
        BY <3>1, <4>1 DEF Carried
    <3>3. CASE ~Crash
      <4>1. HasAll(units', n)
        BY <3>1, <3>3, UnitsHold
      <4>2. Carried(n)' /\ HasAll(disk'.units, n)
        BY <1>4, <3>1, <3>3, CarrySteps
      <4> QED
        BY <4>1, <4>2
    <3> QED
      BY <3>2, <3>3
  <2>2. CASE n \in host.names /\ Twice(host) /\ UNCHANGED <<units, chain, located, disk, used>>
    <3>1. HasAll(units, n) /\ Carried(n) /\ HasAll(disk.units, n)
      BY <1>2, <1>4, <2>2 DEF CommitInv
    <3> QED
      BY <2>2, <3>1 DEF Carried
  <2> QED
    BY <1>4, <2>1, <2>2, ToldSteps
<1> QED
  BY <1>1, <1>3, <1>4 DEF CommitInv

\* A commit that returned is durable, whatever checkpoint was in flight when it asked for its own and whatever
\* the cache asked for since: every unit with the key has the attribute on disk (commit_attributes, step 4),
\* through crashes, timeouts and calls that failed, unless a checkpoint failed.
THEOREM CommitIsDurable == ASSUME Minted = {} PROVE Spec => []CommitLasts
<1> DEFINE CommittedInv == CountInv /\ CommitInv
<1>1. Init => CommittedInv
  <2> SUFFICES ASSUME Init PROVE CommittedInv
    OBVIOUS
  <2>1. host = Opening /\ chain = NoChain /\ told.names = {}
    BY DEF Init
  <2>2. chain.step = "off" /\ host.names = {} /\ ~Once(host)
    BY <2>1, IdleAt DEF NoChain, Once
  <2> QED
    BY <2>1, <2>2 DEF CountInv, CommitInv
<1>2. SessionInv /\ SessionInv' /\ CommittedInv /\ [Next]_vars => CommittedInv'
  <2> SUFFICES ASSUME SessionInv, SessionInv', CommittedInv, [Next]_vars PROVE CommittedInv'
    OBVIOUS
  <2>1. SessionBase /\ SessionBase' /\ SyncInv /\ SoundInv /\ ExtendInv /\ AttributeInv
    BY DEF SessionInv, AmendInv
  <2> QED
    BY <2>1, StepCount, StepCommit
<1>3. CommittedInv => CommitLasts
  <2> SUFFICES ASSUME CommittedInv, used.chain = 0, NEW n \in told.names, NEW u \in UnitIds, Units[u].keys # <<>>
               PROVE  HasAttribute(disk.units[u], n)
    BY DEF CommitLasts
  <2> QED
    BY DEF CommitInv, HasAll, Keyed
<1> QED
  BY <1>1, <1>2, <1>3, AlwaysAmends, PTL DEF Spec

=============================================================================
