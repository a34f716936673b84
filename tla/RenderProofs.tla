---------------------------- MODULE RenderProofs ----------------------------
(***************************************************************************)
(* Theorems about RenderNodes, for any octree, any walks of the camera,    *)
(* budgets and brakes, and any number of inputs of the host.               *)
(***************************************************************************)
EXTENDS RenderNodes, FiniteSetTheorems, WellFoundedInduction, NaturalsInduction, TLAPS

-----------------------------------------------------------------------------
(***************************************************************************)
(* Sums.  What a fold computes follows by induction, which is here a set   *)
(* of numbers with no least outside it.                                    *)
(***************************************************************************)
Less == OpToRel(<, Nat)

LEMMA LessIsWellFounded == IsWellFoundedOn(Less, Nat)
BY NatLessThanWellFounded DEF Less

LEMMA LessIsLess == \A x, y \in Nat : x < y => <<x, y>> \in Less
BY DEF OpToRel, Less

\* Induction, for a set of numbers.
LEMMA AllNumbers ==
  ASSUME NEW I, 0 \in I, \A n \in Nat : n \in I => n + 1 \in I
  PROVE  \A n \in Nat : n \in I
<1> DEFINE Out == Nat \ I
<1> SUFFICES ASSUME Out # {} PROVE FALSE
  OBVIOUS
<1>1. PICK n \in Out : \A m \in Out : ~(<<m, n>> \in Less)
  <2>1. Out \subseteq Nat
    OBVIOUS
  <2> HIDE DEF Out
  <2> QED
    BY <2>1, LessIsWellFounded, WFMin
<1>2. \A m \in Out : ~(m < n)
  BY <1>1, LessIsLess
<1>3. n \in Nat /\ n # 0 /\ n \notin I
  OBVIOUS
<1>4. n - 1 \in Nat /\ n - 1 < n
  BY <1>3
<1>5. n - 1 \in I
  BY <1>2, <1>4
<1> QED
  BY <1>3, <1>4, <1>5

Some(s) == CHOOSE x \in s : TRUE

LEMMA SomeIn == ASSUME NEW s, s # {} PROVE Some(s) \in s
BY DEF Some

Summed(f, S, g) == g = [s \in SUBSET S |-> IF s = {} THEN 0 ELSE f[Some(s)] + g[s \ {Some(s)}]]

LEMMA SumUnfolds ==
  ASSUME NEW f, NEW S
  PROVE  SumFunctionOnSet(f, S) = (CHOOSE g : Summed(f, S, g))[S]
BY DEF SumFunctionOnSet, FoldFunctionOnSet, MapThenFoldSet, Summed, Some

LEMMA Smaller ==
  ASSUME NEW S, IsFiniteSet(S), NEW s \in SUBSET S
  PROVE  /\ IsFiniteSet(s) /\ Cardinality(s) \in Nat /\ Cardinality(s) <= Cardinality(S)
         /\ \A x \in s : Cardinality(s \ {x}) = Cardinality(s) - 1
         /\ Cardinality(s) = 0 <=> s = {}
BY FS_Subset, FS_CardinalityType, FS_RemoveElement, FS_EmptySet

LEMMA SummedExists ==
  ASSUME NEW f, NEW S, IsFiniteSet(S)
  PROVE  \E g : Summed(f, S, g)
<1> DEFINE Upto(n) == {s \in SUBSET S : Cardinality(s) <= n}
           Partial(n, g) == g = [s \in Upto(n) |-> IF s = {} THEN 0 ELSE f[Some(s)] + g[s \ {Some(s)}]]
           I == {n \in Nat : \E g : Partial(n, g)}
<1>1. 0 \in I
  <2> DEFINE g == [s \in Upto(0) |-> 0]
  <2>1. \A s \in Upto(0) : s = {}
    BY Smaller
  <2>2. g = [s \in Upto(0) |-> IF s = {} THEN 0 ELSE f[Some(s)] + g[s \ {Some(s)}]]
    BY <2>1
  <2> QED
    BY <2>2
<1>2. ASSUME NEW n \in Nat, n \in I PROVE n + 1 \in I
  <2>1. PICK g : Partial(n, g)
    BY <1>2
  <2> DEFINE h == [s \in Upto(n + 1) |-> IF s = {} THEN 0 ELSE f[Some(s)] + g[s \ {Some(s)}]]
  <2>2. ASSUME NEW s \in Upto(n) PROVE h[s] = g[s]
    <3>1. s \in Upto(n + 1)
      BY Smaller
    <3>2. g[s] = IF s = {} THEN 0 ELSE f[Some(s)] + g[s \ {Some(s)}]
      BY <2>1
    <3> QED
      BY <3>1, <3>2
  <2>3. ASSUME NEW s \in Upto(n + 1), s # {} PROVE s \ {Some(s)} \in Upto(n)
    <3>1. Some(s) \in s
      BY <2>3, SomeIn
    <3>2. Cardinality(s \ {Some(s)}) = Cardinality(s) - 1 /\ Cardinality(s) \in Nat
      BY <3>1, Smaller
    <3> QED
      BY <3>2
  <2>4. Partial(n + 1, h)
    <3>1. \A s \in Upto(n + 1) : s # {} => h[s \ {Some(s)}] = g[s \ {Some(s)}]
      BY <2>2, <2>3
    <3> QED
      BY <3>1
  <2> HIDE DEF h, Partial
  <2> QED
    BY <2>4
<1>3. \A n \in Nat : n \in I
  <2> HIDE DEF I
  <2> QED
    BY <1>1, <1>2, AllNumbers
<1>4. Cardinality(S) \in Nat /\ Upto(Cardinality(S)) = SUBSET S
  BY Smaller
<1>5. PICK g : Partial(Cardinality(S), g)
  BY <1>3, <1>4
<1>6. Summed(f, S, g)
  BY <1>4, <1>5 DEF Summed
<1> QED
  BY <1>6

LEMMA SummedAgree ==
  ASSUME NEW f, NEW S, IsFiniteSet(S), NEW g, Summed(f, S, g),
         NEW e, NEW T, IsFiniteSet(T), NEW h, Summed(e, T, h)
  PROVE  \A U \in SUBSET (S \cap T) : (\A x \in U : f[x] = e[x]) => g[U] = h[U]
<1> DEFINE I == {n \in Nat : \A U \in SUBSET (S \cap T) :
                   Cardinality(U) = n /\ (\A x \in U : f[x] = e[x]) => g[U] = h[U]}
<1>0. ASSUME NEW U \in SUBSET (S \cap T)
      PROVE  /\ g[U] = IF U = {} THEN 0 ELSE f[Some(U)] + g[U \ {Some(U)}]
             /\ h[U] = IF U = {} THEN 0 ELSE e[Some(U)] + h[U \ {Some(U)}]
             /\ Cardinality(U) \in Nat /\ (Cardinality(U) = 0 <=> U = {})
             /\ \A x \in U : Cardinality(U \ {x}) = Cardinality(U) - 1
  <2>1. U \in SUBSET S /\ U \in SUBSET T
    OBVIOUS
  <2>2. g[U] = IF U = {} THEN 0 ELSE f[Some(U)] + g[U \ {Some(U)}]
    BY <2>1 DEF Summed
  <2>3. h[U] = IF U = {} THEN 0 ELSE e[Some(U)] + h[U \ {Some(U)}]
    BY <2>1 DEF Summed
  <2> QED
    BY <2>1, <2>2, <2>3, Smaller
<1>1. 0 \in I
  BY <1>0
<1>2. ASSUME NEW n \in Nat, n \in I PROVE n + 1 \in I
  <2> SUFFICES ASSUME NEW U \in SUBSET (S \cap T), Cardinality(U) = n + 1, \A x \in U : f[x] = e[x]
               PROVE  g[U] = h[U]
    OBVIOUS
  <2> HIDE DEF I
  <2>0. (Cardinality(U) = 0 <=> U = {}) /\ \A x \in U : Cardinality(U \ {x}) = Cardinality(U) - 1
    BY <1>0
  <2>1. U # {}
    BY <2>0
  <2>2. Some(U) \in U
    BY <2>1, SomeIn
  <2>3. Cardinality(U \ {Some(U)}) = n
    BY <2>0, <2>2
  <2> USE DEF I
  <2>4. g[U \ {Some(U)}] = h[U \ {Some(U)}]
    BY <1>2, <2>3
  <2> QED
    BY <1>0, <2>1, <2>2, <2>4
<1>3. \A n \in Nat : n \in I
  <2> HIDE DEF I
  <2> QED
    BY <1>1, <1>2, AllNumbers
<1> QED
  BY <1>0, <1>3

LEMMA SumIsSummed ==
  ASSUME NEW f, NEW S, IsFiniteSet(S)
  PROVE  \E g : Summed(f, S, g) /\ SumFunctionOnSet(f, S) = g[S]
<1> DEFINE g == CHOOSE g : Summed(f, S, g)
<1>1. Summed(f, S, g)
  BY SummedExists
<1>2. SumFunctionOnSet(f, S) = g[S]
  BY SumUnfolds
<1> QED
  BY <1>1, <1>2

\* The sum depends on the values summed.
LEMMA SumAgrees ==
  ASSUME NEW f, NEW g, NEW S, IsFiniteSet(S), \A x \in S : f[x] = g[x]
  PROVE  SumFunctionOnSet(f, S) = SumFunctionOnSet(g, S)
<1>1. PICK h : Summed(f, S, h) /\ SumFunctionOnSet(f, S) = h[S]
  BY SumIsSummed
<1>2. PICK k : Summed(g, S, k) /\ SumFunctionOnSet(g, S) = k[S]
  BY SumIsSummed
<1>3. h[S] = k[S]
  <2>1. \A U \in SUBSET (S \cap S) : (\A x \in U : f[x] = g[x]) => h[U] = k[U]
    BY <1>1, <1>2, SummedAgree
  <2> QED
    BY <2>1
<1> QED
  BY <1>1, <1>2, <1>3

LEMMA SumOfNothing == ASSUME NEW f PROVE SumFunctionOnSet(f, {}) = 0
<1>1. PICK g : Summed(f, {}, g) /\ SumFunctionOnSet(f, {}) = g[{}]
  BY SumIsSummed, FS_EmptySet
<1> QED
  BY <1>1 DEF Summed

LEMMA SumStep ==
  ASSUME NEW f, NEW S, IsFiniteSet(S), S # {}
  PROVE  SumFunctionOnSet(f, S) = f[Some(S)] + SumFunctionOnSet(f, S \ {Some(S)})
<1> DEFINE T == S \ {Some(S)}
<1>1. IsFiniteSet(T)
  BY FS_Subset
<1>2. PICK g : Summed(f, S, g) /\ SumFunctionOnSet(f, S) = g[S]
  BY SumIsSummed
<1>3. PICK h : Summed(f, T, h) /\ SumFunctionOnSet(f, T) = h[T]
  BY <1>1, SumIsSummed
<1>4. g[T] = h[T]
  <2>1. T \in SUBSET (S \cap T)
    OBVIOUS
  <2> HIDE DEF T
  <2>2. PICK e : e = f
    OBVIOUS
  <2>3. Summed(e, T, h)
    BY <1>3, <2>2
  <2>4. \A U \in SUBSET (S \cap T) : (\A x \in U : f[x] = e[x]) => g[U] = h[U]
    BY <1>1, <1>2, <2>3, SummedAgree
  <2> QED
    BY <2>1, <2>2, <2>4
<1>5. g[S] = f[Some(S)] + g[T]
  BY <1>2 DEF Summed
<1> QED
  BY <1>2, <1>3, <1>4, <1>5

LEMMA SumType ==
  ASSUME NEW f, NEW D, IsFiniteSet(D), \A x \in D : f[x] \in Nat
  PROVE  \A S \in SUBSET D : SumFunctionOnSet(f, S) \in Nat
<1> DEFINE I == {n \in Nat : \A S \in SUBSET D : Cardinality(S) = n => SumFunctionOnSet(f, S) \in Nat}
<1>1. 0 \in I
  BY SumOfNothing, Smaller
<1>2. ASSUME NEW n \in Nat, n \in I PROVE n + 1 \in I
  <2> SUFFICES ASSUME NEW S \in SUBSET D, Cardinality(S) = n + 1 PROVE SumFunctionOnSet(f, S) \in Nat
    OBVIOUS
  <2>1. IsFiniteSet(S) /\ S # {}
    BY Smaller
  <2>2. Some(S) \in S
    BY <2>1, SomeIn
  <2>3. Cardinality(S \ {Some(S)}) = n
    BY <2>2, Smaller
  <2>4. SumFunctionOnSet(f, S \ {Some(S)}) \in Nat
    BY <1>2, <2>3
  <2> QED
    BY <2>1, <2>2, <2>4, SumStep
<1>3. \A n \in Nat : n \in I
  <2> HIDE DEF I
  <2> QED
    BY <1>1, <1>2, AllNumbers
<1> QED
  BY <1>3, Smaller

\* Any one of the values may be taken out.
LEMMA SumWithout ==
  ASSUME NEW f, NEW D, IsFiniteSet(D), \A x \in D : f[x] \in Nat
  PROVE  \A S \in SUBSET D : \A x \in S : SumFunctionOnSet(f, S) = f[x] + SumFunctionOnSet(f, S \ {x})
<1> DEFINE Sum(S) == SumFunctionOnSet(f, S)
           I == {n \in Nat : \A S \in SUBSET D : Cardinality(S) = n => \A x \in S : Sum(S) = f[x] + Sum(S \ {x})}
<1>0. \A S \in SUBSET D : Sum(S) \in Nat
  BY SumType
<1>1. 0 \in I
  BY Smaller
<1>2. ASSUME NEW n \in Nat, n \in I PROVE n + 1 \in I
  <2> SUFFICES ASSUME NEW S \in SUBSET D, Cardinality(S) = n + 1, NEW x \in S PROVE Sum(S) = f[x] + Sum(S \ {x})
    OBVIOUS
  <2> DEFINE c == Some(S)
  <2>1. IsFiniteSet(S) /\ S # {} /\ c \in S
    BY Smaller, SomeIn
  <2>2. Sum(S) = f[c] + Sum(S \ {c})
    BY <2>1, SumStep
  <2> HIDE DEF c
  <2>3. CASE x = c
    BY <2>2, <2>3
  <2>4. CASE x # c
    <3>1. Cardinality(S \ {c}) = n /\ Cardinality(S \ {x}) = n
      BY <2>1, Smaller
    <3>2. Sum(S \ {c}) = f[x] + Sum((S \ {c}) \ {x})
      BY <1>2, <2>1, <2>4, <3>1
    <3>3. Sum(S \ {x}) = f[c] + Sum((S \ {x}) \ {c})
      BY <1>2, <2>1, <2>4, <3>1
    <3>4. (S \ {c}) \ {x} = (S \ {x}) \ {c}
      OBVIOUS
    <3>5. f[x] \in Nat /\ f[c] \in Nat /\ Sum((S \ {x}) \ {c}) \in Nat
      BY <1>0, <2>1
    <3>6. Sum(S \ {c}) = f[x] + Sum((S \ {x}) \ {c})
      BY <3>2, <3>4
    <3> DEFINE rest == Sum((S \ {x}) \ {c})
    <3>7. Sum(S) = f[c] + (f[x] + rest) /\ Sum(S \ {x}) = f[c] + rest /\ rest \in Nat
      BY <2>2, <3>3, <3>5, <3>6
    <3> HIDE DEF Sum, I, rest
    <3> QED
      BY <3>5, <3>7
  <2> QED
    BY <2>3, <2>4
<1>3. \A n \in Nat : n \in I
  <2> HIDE DEF I
  <2> QED
    BY <1>1, <1>2, AllNumbers
<1> QED
  BY <1>3, Smaller

LEMMA SumOfBoth ==
  ASSUME NEW f, NEW D, IsFiniteSet(D), \A x \in D : f[x] \in Nat, NEW S \in SUBSET D
  PROVE  \A T \in SUBSET D : S \cap T = {} =>
           SumFunctionOnSet(f, S \cup T) = SumFunctionOnSet(f, S) + SumFunctionOnSet(f, T)
<1> DEFINE Sum(U) == SumFunctionOnSet(f, U)
           I == {n \in Nat : \A T \in SUBSET D :
                   S \cap T = {} /\ Cardinality(T) = n => Sum(S \cup T) = Sum(S) + Sum(T)}
<1>0. \A U \in SUBSET D : Sum(U) \in Nat
  BY SumType
<1>1. 0 \in I
  <2> SUFFICES ASSUME NEW T \in SUBSET D, S \cap T = {}, Cardinality(T) = 0 PROVE Sum(S \cup T) = Sum(S) + Sum(T)
    OBVIOUS
  <2>1. T = {} /\ S \cup T = S
    BY Smaller
  <2>2. Sum(T) = 0 /\ Sum(S) \in Nat
    BY <1>0, <2>1, SumOfNothing
  <2> HIDE DEF Sum, I
  <2> QED
    BY <2>1, <2>2
<1>2. ASSUME NEW n \in Nat, n \in I PROVE n + 1 \in I
  <2> SUFFICES ASSUME NEW T \in SUBSET D, S \cap T = {}, Cardinality(T) = n + 1
               PROVE  Sum(S \cup T) = Sum(S) + Sum(T)
    OBVIOUS
  <2>1. PICK x : x \in T
    BY Smaller
  <2> DEFINE U == T \ {x}
  <2>2. Cardinality(U) = n /\ S \cap U = {} /\ U \in SUBSET D
    BY <2>1, Smaller
  <2>3. Sum(S \cup U) = Sum(S) + Sum(U)
    BY <1>2, <2>2
  <2>4. (S \cup T) \ {x} = S \cup U /\ S \cup T \in SUBSET D /\ x \in S \cup T
    BY <2>1
  <2>5. Sum(S \cup T) = f[x] + Sum(S \cup U) /\ Sum(T) = f[x] + Sum(U)
    BY <2>1, <2>4, SumWithout
  <2>6. f[x] \in Nat /\ Sum(S) \in Nat /\ Sum(U) \in Nat
    BY <1>0, <2>1, <2>2
  <2> HIDE DEF Sum, I, U
  <2> QED
    BY <2>3, <2>5, <2>6
<1>3. \A n \in Nat : n \in I
  <2> HIDE DEF I
  <2> QED
    BY <1>1, <1>2, AllNumbers
<1> QED
  BY <1>3, Smaller

LEMMA SumOfZeros ==
  ASSUME NEW f, NEW S, IsFiniteSet(S), \A x \in S : f[x] = 0
  PROVE  SumFunctionOnSet(f, S) = 0
<1> DEFINE I == {n \in Nat : \A T \in SUBSET S : Cardinality(T) = n => SumFunctionOnSet(f, T) = 0}
<1>1. 0 \in I
  BY SumOfNothing, Smaller
<1>2. ASSUME NEW n \in Nat, n \in I PROVE n + 1 \in I
  <2> SUFFICES ASSUME NEW T \in SUBSET S, Cardinality(T) = n + 1 PROVE SumFunctionOnSet(f, T) = 0
    OBVIOUS
  <2>1. IsFiniteSet(T) /\ T # {}
    BY Smaller
  <2>2. Some(T) \in T
    BY <2>1, SomeIn
  <2>3. Cardinality(T \ {Some(T)}) = n
    BY <2>2, Smaller
  <2>4. SumFunctionOnSet(f, T \ {Some(T)}) = 0
    BY <1>2, <2>3
  <2> QED
    BY <2>1, <2>2, <2>4, SumStep
<1>3. \A n \in Nat : n \in I
  <2> HIDE DEF I
  <2> QED
    BY <1>1, <1>2, AllNumbers
<1> QED
  BY <1>3, Smaller

\* One value of a function changes, and the sum with it.
LEMMA SumChanges ==
  ASSUME NEW f, NEW g, NEW S, IsFiniteSet(S), NEW x \in S,
         \A y \in S : f[y] \in Nat /\ g[y] \in Nat, \A y \in S \ {x} : f[y] = g[y]
  PROVE  /\ SumFunctionOnSet(f, S) \in Nat /\ SumFunctionOnSet(f, S) >= f[x]
         /\ SumFunctionOnSet(g, S) = SumFunctionOnSet(f, S) - f[x] + g[x]
<1> DEFINE T == S \ {x}
<1>1. SumFunctionOnSet(f, S) = f[x] + SumFunctionOnSet(f, T) /\ SumFunctionOnSet(f, T) \in Nat
  BY SumWithout, SumType
<1>2. SumFunctionOnSet(g, S) = g[x] + SumFunctionOnSet(g, T)
  BY SumWithout
<1>3. SumFunctionOnSet(f, T) = SumFunctionOnSet(g, T)
  BY Smaller, SumAgrees
<1>4. f[x] \in Nat /\ g[x] \in Nat
  OBVIOUS
<1> HIDE DEF T
<1> QED
  BY <1>1, <1>2, <1>3, <1>4

-----------------------------------------------------------------------------
(***************************************************************************)
(* The invariant.  What a render node may look like, and what a job on the *)
(* pool relies on in its node.                                             *)
(***************************************************************************)
NodeSound(node) ==
  /\ node.io = "loading" => node.asked # None
  /\ node.gpu => node.io = "loaded"
  /\ node.freed => node.io = "none"
  /\ node.source => node.resident # None /\ ~node.building
  /\ node.building /\ node.ready => node.pending # None
  /\ ~node.source => \A v \in Cut : ~node.cut[v].gpu

Good(node) == node \in RenderNode /\ NodeSound(node)

JobSound(node, kind) ==
  /\ kind = "convert" => node.io = "converting" /\ ~node.done /\ node.asked # None
  /\ kind = "build" => node.building /\ ~node.ready /\ node.handler # None
  /\ kind \in Cut => node.source /\ node.cut[kind].mat = "materializing" /\ ~node.cut[kind].done
  /\ kind \in Octants => node.built

Objects == /\ Alive \subseteq Objs /\ obj = [o \in Alive |-> obj[o]]
           /\ \A o \in Alive : Good(obj[o])

JobsKnown == /\ jobs \subseteq Objs \X Kinds
             /\ \A job \in jobs : job[1] \in Alive /\ JobSound(obj[job[1]], job[2])

\* Every object is listed, under the node it is of, or parked, and not both; there are
\* addresses for the nodes the walk brings.
Placed ==
  /\ list \in [Nodes -> Alive \cup {0}] /\ parked \subseteq Alive
  /\ \A n \in Listed : At(n).of = n /\ list[n] \notin parked
  /\ Alive = {list[n] : n \in Listed} \cup parked
  /\ Cardinality(Walk[cam] \ Listed) <= Cardinality(Objs \ Alive)

Scalars ==
  /\ pc \in {"idle", "attr", "list", "stream", "promote", "cut", "enforce"} /\ todo \subseteq Nodes
  /\ cam \in Cams /\ attr \in Attrs \cup {None} /\ nextAttr \in Attrs
  /\ enabled \in BOOLEAN /\ brake \in 0..2 /\ budget \in CpuBudgets /\ inputs \in 0..MaxInputs
  /\ builds \in 0..Builds /\ cpuUsed \in Nat /\ realGpu \in Nat

Turns ==
  /\ pc # "idle" => attr \in Attrs
  /\ pc \in {"promote", "cut"} => todo \subseteq Listed
  /\ pc = "cut" => \A n \in todo : At(n).source

\* While the budget is enforced the total is what is pinned: what is dropped counts.
CpuAccounted == pc = "enforce" => cpuUsed = Pinned

IInv == Objects /\ JobsKnown /\ Placed /\ Scalars /\ Turns /\ GpuAccounted /\ CpuAccounted

\* The virtual GPU bytes of a node, and of all objects of q.
Held(node) == SumFunctionOnSet(CutSize, {v \in Cut : node.cut[v].gpu})
Total(q) == SumFunction([o \in DOMAIN q |-> Held(q[o])])

-----------------------------------------------------------------------------
(***************************************************************************)
(* Totals.                                                                 *)
(***************************************************************************)
LEMMA ConstantsFinite ==
  /\ IsFiniteSet(Cut) /\ IsFiniteSet(Nodes) /\ IsFiniteSet(Objs)
  /\ \A v \in Cut : CutSize[v] \in Nat
  /\ \A n \in Nodes : Size[n] \in Nat
  /\ "convert" \notin Cut /\ "build" \notin Cut
  /\ HandlerSize \in Nat /\ ResidentSize \in Nat
<1>1. IsFiniteSet(Cut)
  BY RenderAssumption, FS_Singleton, FS_Union DEF Cut
<1>2. "convert" \notin Cut /\ "build" \notin Cut
  BY RenderAssumption DEF Cut
<1> QED
  BY <1>1, <1>2, RenderAssumption

LEMMA HeldType == \A node : Held(node) \in Nat
BY ConstantsFinite, SumType DEF Held

LEMMA HeldNothing == \A node : (\A v \in Cut : ~node.cut[v].gpu) => Held(node) = 0
<1> SUFFICES ASSUME NEW node, \A v \in Cut : ~node.cut[v].gpu PROVE Held(node) = 0
  OBVIOUS
<1>1. {v \in Cut : node.cut[v].gpu} = {}
  OBVIOUS
<1> QED
  BY <1>1, SumOfNothing DEF Held

LEMMA HeldSame ==
  \A node, now : (\A v \in Cut : node.cut[v].gpu = now.cut[v].gpu) => Held(node) = Held(now)
<1> SUFFICES ASSUME NEW node, NEW now, \A v \in Cut : node.cut[v].gpu = now.cut[v].gpu
             PROVE  Held(node) = Held(now)
  OBVIOUS
<1>1. {v \in Cut : node.cut[v].gpu} = {v \in Cut : now.cut[v].gpu}
  OBVIOUS
<1> QED
  BY <1>1 DEF Held

LEMMA TotalIs ==
  ASSUME NEW q, NEW f, DOMAIN q \subseteq DOMAIN f, IsFiniteSet(DOMAIN q), \A o \in DOMAIN q : f[o] = Held(q[o])
  PROVE  Total(q) = SumFunctionOnSet(f, DOMAIN q)
<1> DEFINE g == [o \in DOMAIN q |-> Held(q[o])]
<1>1. Total(q) = SumFunctionOnSet(g, DOMAIN q)
  BY DEF Total, SumFunction
<1>2. \A o \in DOMAIN q : g[o] = f[o]
  OBVIOUS
<1> HIDE DEF g
<1> QED
  BY <1>1, <1>2, SumAgrees

LEMMA TotalType == ASSUME NEW q, IsFiniteSet(DOMAIN q) PROVE Total(q) \in Nat
<1> DEFINE g == [o \in DOMAIN q |-> Held(q[o])]
<1>1. \A o \in DOMAIN q : g[o] \in Nat
  BY HeldType
<1>2. Total(q) = SumFunctionOnSet(g, DOMAIN q)
  BY DEF Total, SumFunction
<1> HIDE DEF g
<1> QED
  BY <1>1, <1>2, SumType

\* Objects that change, but hold what they held.
LEMMA TotalSame ==
  ASSUME NEW p, NEW q, IsFiniteSet(DOMAIN p), DOMAIN q = DOMAIN p, \A o \in DOMAIN p : Held(p[o]) = Held(q[o])
  PROVE  Total(q) = Total(p)
<1> DEFINE g == [o \in DOMAIN q |-> Held(q[o])]
<1>1. \A o \in DOMAIN p : g[o] = Held(p[o])
  OBVIOUS
<1>2. Total(p) = SumFunctionOnSet(g, DOMAIN p)
  BY <1>1, TotalIs
<1>3. Total(q) = SumFunctionOnSet(g, DOMAIN q)
  BY DEF Total, SumFunction
<1> QED
  BY <1>2, <1>3

\* One object changes.
LEMMA TotalReplaced ==
  ASSUME NEW p, NEW q, IsFiniteSet(DOMAIN p), DOMAIN q = DOMAIN p, NEW o \in DOMAIN p,
         \A x \in DOMAIN p \ {o} : Held(q[x]) = Held(p[x])
  PROVE  /\ Total(p) \in Nat /\ Total(p) >= Held(p[o])
         /\ Total(q) = Total(p) - Held(p[o]) + Held(q[o])
<1> DEFINE f == [x \in DOMAIN p |-> Held(p[x])]
           g == [x \in DOMAIN q |-> Held(q[x])]
<1>1. Total(p) = SumFunctionOnSet(f, DOMAIN p) /\ Total(q) = SumFunctionOnSet(g, DOMAIN p)
  BY DEF Total, SumFunction
<1>2. \A x \in DOMAIN p : f[x] \in Nat /\ g[x] \in Nat
  BY HeldType
<1>3. \A x \in DOMAIN p \ {o} : f[x] = g[x]
  OBVIOUS
<1>4. f[o] = Held(p[o]) /\ g[o] = Held(q[o])
  OBVIOUS
<1> HIDE DEF f, g
<1> QED
  BY <1>1, <1>2, <1>3, <1>4, SumChanges

\* The objects gone are dropped, or give up all they hold; new ones hold nothing.
LEMMA TotalDropped ==
  ASSUME NEW p, NEW q, IsFiniteSet(DOMAIN p), IsFiniteSet(DOMAIN q), NEW gone, gone \subseteq DOMAIN p,
         DOMAIN p \ gone \subseteq DOMAIN q,
         \A x \in DOMAIN p \ gone : Held(q[x]) = Held(p[x]),
         \A x \in DOMAIN q \ (DOMAIN p \ gone) : Held(q[x]) = 0
  PROVE  /\ SumFunction([o \in gone |-> Held(p[o])]) \in Nat
         /\ Total(p) = Total(q) + SumFunction([o \in gone |-> Held(p[o])])
<1> DEFINE f == [x \in DOMAIN p |-> Held(p[x])]
           g == [x \in DOMAIN q |-> Held(q[x])]
           h == [o \in gone |-> Held(p[o])]
           kept == DOMAIN p \ gone
           fresh == DOMAIN q \ kept
<1>1. /\ Total(p) = SumFunctionOnSet(f, DOMAIN p) /\ Total(q) = SumFunctionOnSet(g, DOMAIN q)
      /\ SumFunction(h) = SumFunctionOnSet(h, gone)
  BY DEF Total, SumFunction
<1>2. /\ \A x \in DOMAIN p : f[x] \in Nat
      /\ \A x \in DOMAIN q : g[x] \in Nat
      /\ \A x \in gone : h[x] \in Nat /\ h[x] = f[x]
      /\ \A x \in kept : f[x] = g[x]
      /\ \A x \in fresh : g[x] = 0
  BY HeldType
<1>3. /\ DOMAIN p = kept \cup gone /\ kept \cap gone = {} /\ kept \in SUBSET DOMAIN p /\ gone \in SUBSET DOMAIN p
      /\ DOMAIN q = kept \cup fresh /\ kept \cap fresh = {} /\ kept \in SUBSET DOMAIN q /\ fresh \in SUBSET DOMAIN q
      /\ IsFiniteSet(kept) /\ IsFiniteSet(gone) /\ IsFiniteSet(fresh)
  BY FS_Subset
<1> HIDE DEF f, g, h, kept, fresh
<1>4. SumFunctionOnSet(f, DOMAIN p) = SumFunctionOnSet(f, kept) + SumFunctionOnSet(f, gone)
  BY <1>2, <1>3, SumOfBoth
<1>5. SumFunctionOnSet(g, DOMAIN q) = SumFunctionOnSet(g, kept) + SumFunctionOnSet(g, fresh)
  BY <1>2, <1>3, SumOfBoth
<1>6. SumFunctionOnSet(f, kept) = SumFunctionOnSet(g, kept) /\ SumFunctionOnSet(h, gone) = SumFunctionOnSet(f, gone)
  BY <1>2, <1>3, SumAgrees
<1>7. SumFunctionOnSet(g, fresh) = 0
  BY <1>2, <1>3, SumOfZeros
<1>8. SumFunctionOnSet(g, kept) \in Nat /\ SumFunctionOnSet(h, gone) \in Nat
  BY <1>2, <1>3, SumType
<1>9. SumFunction(h) \in Nat /\ Total(p) = Total(q) + SumFunction(h)
  BY <1>1, <1>4, <1>5, <1>6, <1>7, <1>8
<1> QED
  BY <1>9 DEF h

LEMMA AccountedAsTotal == Objects => (GpuAccounted <=> gpuCut = Total(obj))
BY DEF GpuAccounted, Total, CutsBytes, CutBytes, Held, Alive

-----------------------------------------------------------------------------
(***************************************************************************)
(* What the operations make of one node.                                   *)
(***************************************************************************)
\* A node that is changed keeps its name and what its jobs rely on, but for those of kinds.
Keeps(node, now, kinds) ==
  /\ Good(now) /\ now.of = node.of
  /\ \A kind \in Kinds \ kinds : JobSound(node, kind) => JobSound(now, kind)

SameCut(node, now) == \A v \in Cut : node.cut[v].gpu = now.cut[v].gpu

LEMMA NoneIsNone == None \notin Attrs /\ Attrs # {}
BY RenderAssumption

LEMMA NewCutType == NewCut \in [Cut -> VirtualNode] /\ \A v \in Cut : ~NewCut[v].gpu
BY RenderAssumption DEF NewCut, Cold, VirtualNode

LEMMA RenderNodeCut == \A node \in RenderNode : node.cut \in [Cut -> VirtualNode]
BY DEF RenderNode

LEMMA NewNodeGood ==
  ASSUME NEW n \in Nodes
  PROVE  Good(NewNode(n)) /\ NewNode(n).of = n /\ \A v \in Cut : ~NewNode(n).cut[v].gpu
<1>1. NewNode(n).cut = NewCut /\ NewNode(n).of = n
  BY DEF NewNode
<1>2. NewNode(n) \in RenderNode
  BY NewCutType, RenderAssumption DEF NewNode, RenderNode
<1>3. NodeSound(NewNode(n))
  BY NewCutType DEF NewNode, NodeSound
<1> QED
  BY <1>1, <1>2, <1>3, NewCutType DEF Good

LEMMA WrittenKeeps ==
  ASSUME NEW node, Good(node), NEW kind \in Kinds, JobSound(node, kind)
  PROVE  Keeps(node, Written(node, kind), {kind}) /\ SameCut(node, Written(node, kind))
<1> DEFINE now == Written(node, kind)
<1>1. CASE kind = "convert"
  <2>1. now = [node EXCEPT !.data = IF node.of \in Corrupt THEN None ELSE node.asked,
                      !.sized = @ \/ node.of \notin Corrupt, !.load = "no", !.asked = None, !.done = TRUE]
    BY <1>1 DEF Written
  <2> HIDE DEF now
  <2>2. now \in RenderNode
    <3>1. PICK data \in Attrs \cup {None}, sized \in BOOLEAN :
            now = [node EXCEPT !.data = data, !.sized = sized, !.load = "no", !.asked = None, !.done = TRUE]
      BY <2>1, Zenon DEF Good, RenderNode
    <3> QED
      BY <3>1 DEF Good, RenderNode
  <2>5. /\ now.of = node.of /\ now.cut = node.cut /\ now.io = node.io /\ now.gpu = node.gpu /\ now.freed = node.freed
        /\ now.source = node.source /\ now.resident = node.resident /\ now.building = node.building
        /\ now.ready = node.ready /\ now.pending = node.pending /\ now.handler = node.handler /\ now.built = node.built
    BY <2>1 DEF Good, RenderNode
  <2>6. node.io = "converting" /\ NodeSound(node)
    BY <1>1 DEF JobSound, Good
  <2>3. NodeSound(now)
    BY <2>5, <2>6 DEF NodeSound
  <2>4. \A k \in Kinds \ {kind} : JobSound(node, k) => JobSound(now, k)
    BY <1>1, <2>5 DEF JobSound
  <2> QED
    BY <2>2, <2>3, <2>4, <2>5 DEF Keeps, Good, SameCut, now
<1>2. CASE kind = "build"
  <2>1. now = [node EXCEPT !.pending = node.handler, !.ready = TRUE]
    BY <1>2 DEF Written
  <2>2. now \in RenderNode
    BY <2>1 DEF Good, RenderNode
  <2>3. NodeSound(now) /\ now.of = node.of /\ now.cut = node.cut
    BY <1>2, <2>1 DEF Good, RenderNode, NodeSound, JobSound
  <2>4. \A k \in Kinds \ {kind} : JobSound(node, k) => JobSound(now, k)
    BY <1>2, <2>1 DEF Good, RenderNode, JobSound
  <2> QED
    BY <2>2, <2>3, <2>4 DEF Keeps, Good, SameCut
<1>3. CASE kind \in Cut
  <2>0. node.cut \in [Cut -> VirtualNode]
    BY RenderNodeCut DEF Good
  <2>1. now = [node EXCEPT !.cut[kind].done = TRUE]
    BY <1>3, ConstantsFinite DEF Written
  <2> DEFINE cut == [node.cut EXCEPT ![kind].done = TRUE]
  <2>2. cut \in [Cut -> VirtualNode] /\ \A v \in Cut : cut[v].gpu = node.cut[v].gpu /\ cut[v].mat = node.cut[v].mat
    BY <1>3, <2>0 DEF VirtualNode
  <2>3. \A v \in Cut \ {kind} : cut[v] = node.cut[v]
    BY <1>3, <2>0
  <2>4. now = [node EXCEPT !.cut = cut]
    BY <2>1 DEF Good, RenderNode
  <2> HIDE DEF cut, now
  <2>5. now \in RenderNode /\ now.cut = cut
    BY <2>2, <2>4 DEF Good, RenderNode
  <2>6. NodeSound(now) /\ now.of = node.of
    BY <2>2, <2>4, <2>5 DEF Good, RenderNode, NodeSound
  <2>7. \A k \in Kinds \ {kind} : JobSound(node, k) => JobSound(now, k)
    BY <2>2, <2>3, <2>4, <2>5 DEF Good, RenderNode, JobSound
  <2> QED
    BY <2>2, <2>5, <2>6, <2>7 DEF Keeps, Good, SameCut, now
<1> QED
  BY <1>1, <1>2, <1>3 DEF Kinds

LEMMA DemotedKeeps ==
  ASSUME NEW node, Good(node)
  PROVE  Keeps(node, Demoted(node), Cut) /\ \A v \in Cut : ~Demoted(node).cut[v].gpu
<1> DEFINE now == Demoted(node)
<1>1. now = [node EXCEPT !.cut = NewCut, !.built = FALSE, !.resident = None, !.source = FALSE,
               !.suppressed = FALSE, !.freed = FALSE, !.io = IF node.freed THEN "none" ELSE @]
  BY DEF Demoted
<1> HIDE DEF now
<1>2. now \in RenderNode /\ now.cut = NewCut
  <2>1. now.cut = NewCut
    BY <1>1 DEF Good, RenderNode
  <2>2. node \in RenderNode /\ NewCut \in [Cut -> VirtualNode]
    BY NewCutType DEF Good
  <2>3. (IF node.freed THEN "none" ELSE node.io) \in {"none", "loading", "converting", "loaded"}
    BY <2>2 DEF RenderNode
  <2>4. now \in RenderNode
    <3>1. PICK io \in {"none", "loading", "converting", "loaded"} :
            now = [node EXCEPT !.cut = NewCut, !.built = FALSE, !.resident = None, !.source = FALSE,
                     !.suppressed = FALSE, !.freed = FALSE, !.io = io]
      BY <1>1, <2>3, Zenon
    <3> QED
      BY <2>2, <3>1 DEF RenderNode
  <2> QED
    BY <2>1, <2>4
<1>3. NodeSound(now) /\ now.of = node.of
  BY <1>1, <1>2, NewCutType DEF Good, RenderNode, NodeSound
<1>4. \A k \in Kinds \ Cut : JobSound(node, k) => JobSound(now, k)
  BY <1>1, RenderAssumption DEF Good, RenderNode, NodeSound, JobSound, Cut
<1> QED
  BY <1>2, <1>3, <1>4, NewCutType DEF Keeps, Good, now

LEMMA KeepsAgain ==
  ASSUME NEW node, NEW now, NEW last, Keeps(node, now, {}), Keeps(now, last, {}), SameCut(node, now), SameCut(now, last)
  PROVE  Keeps(node, last, {}) /\ SameCut(node, last)
BY DEF Keeps, SameCut

\* Changes of the fields that no job and no other field relies on.
LEMMA SoundFields ==
  ASSUME NEW node, Good(node), NEW now \in RenderNode,
         now.of = node.of, now.cut = node.cut, now.source = node.source, now.built = node.built,
         now.resident = node.resident, now.building = node.building, now.ready = node.ready,
         now.pending = node.pending, now.handler = node.handler \/ ~node.building,
         now.io = node.io \/ node.io # "converting" \/ node.done,
         now.io = "converting" => now.asked # None,
         now.io = "converting" /\ node.io = "converting" => now.asked = node.asked /\ now.done = node.done,
         now.io = "loading" => now.asked # None, now.gpu => now.io = "loaded", now.freed => now.io = "none"
  PROVE  Keeps(node, now, {}) /\ SameCut(node, now)
<1>1. NodeSound(now)
  BY DEF Good, NodeSound
<1>2. \A kind \in Kinds : JobSound(node, kind) => JobSound(now, kind)
  BY DEF JobSound
<1> QED
  BY <1>1, <1>2 DEF Keeps, Good, SameCut

LEMMA ClassifiedKeeps ==
  ASSUME NEW node, Good(node)
  PROVE  /\ Keeps(node, Classified(node), {}) /\ SameCut(node, Classified(node))
         /\ node.io = "loading" /\ node.load = "ready" => JobSound(Classified(node), "convert")
<1> DEFINE now == Classified(node)
<1>1. CASE node.io = "loading" /\ node.load = "ready"
  <2>1. now = [node EXCEPT !.io = "converting", !.done = FALSE]
    BY <1>1 DEF Classified
  <2> HIDE DEF now
  <2>2. now \in RenderNode
    BY <2>1 DEF Good, RenderNode
  <2>3. /\ now.of = node.of /\ now.cut = node.cut /\ now.io = "converting" /\ now.gpu = node.gpu /\ now.freed = node.freed
        /\ now.source = node.source /\ now.resident = node.resident /\ now.building = node.building
        /\ now.ready = node.ready /\ now.pending = node.pending /\ now.handler = node.handler /\ now.built = node.built
        /\ now.asked = node.asked /\ now.done = FALSE
    BY <2>1 DEF Good, RenderNode
  <2>4. ~node.gpu /\ ~node.freed /\ node.asked # None
    BY <1>1 DEF Good, NodeSound
  <2>5. Keeps(node, now, {}) /\ SameCut(node, now)
    BY <1>1, <2>2, <2>3, <2>4, SoundFields
  <2>6. JobSound(now, "convert")
    BY <2>3, <2>4, ConstantsFinite DEF JobSound, Cut
  <2> QED
    BY <2>5, <2>6 DEF now
<1>2. CASE ~(node.io = "loading" /\ node.load = "ready") /\ node.io = "converting" /\ node.done
  <2>1. PICK io \in {"none", "loaded"} : now = [node EXCEPT !.io = io]
    BY <1>2 DEF Classified
  <2> HIDE DEF now
  <2>2. now \in RenderNode
    BY <2>1 DEF Good, RenderNode
  <2>3. /\ now.of = node.of /\ now.cut = node.cut /\ now.io = io /\ now.gpu = node.gpu /\ now.freed = node.freed
        /\ now.source = node.source /\ now.resident = node.resident /\ now.building = node.building
        /\ now.ready = node.ready /\ now.pending = node.pending /\ now.handler = node.handler /\ now.built = node.built
    BY <2>1 DEF Good, RenderNode
  <2>4. ~node.gpu /\ ~node.freed
    BY <1>2 DEF Good, NodeSound
  <2>5. Keeps(node, now, {}) /\ SameCut(node, now)
    BY <1>2, <2>2, <2>3, <2>4, SoundFields
  <2> QED
    BY <1>2, <2>5 DEF now
<1>3. CASE ~(node.io = "loading" /\ node.load = "ready") /\ ~(node.io = "converting" /\ node.done)
  <2>1. now = node
    BY <1>3 DEF Classified
  <2> HIDE DEF now
  <2>2. Keeps(node, node, {}) /\ SameCut(node, node)
    BY DEF Keeps, SameCut
  <2> QED
    BY <1>3, <2>1, <2>2 DEF now
<1> QED
  BY <1>1, <1>2, <1>3

LEMMA AskedKeeps ==
  ASSUME NEW node, Good(node), node.io = "none", ~node.gpu, ~node.freed, NEW a \in Attrs,
         NEW now, now = [node EXCEPT !.io = "loading", !.load = "reading", !.asked = a]
  PROVE  Keeps(node, now, {}) /\ SameCut(node, now)
<1>1. now \in RenderNode
  BY DEF Good, RenderNode
<1>2. /\ now.of = node.of /\ now.cut = node.cut /\ now.io = "loading" /\ now.gpu = node.gpu /\ now.freed = node.freed
      /\ now.source = node.source /\ now.resident = node.resident /\ now.building = node.building
      /\ now.ready = node.ready /\ now.pending = node.pending /\ now.handler = node.handler /\ now.built = node.built
      /\ now.asked = a
  BY DEF Good, RenderNode
<1> QED
  BY <1>1, <1>2, NoneIsNone, SoundFields

LEMMA UploadedKeeps ==
  ASSUME NEW node, Good(node), node.io = "loaded", NEW n \in Nodes
  PROVE  Keeps(node, AfterUpload(n, node), {}) /\ SameCut(node, AfterUpload(n, node))
<1> DEFINE now == AfterUpload(n, node)
<1>1. PICK handler \in Attrs \cup {None} : /\ now = [node EXCEPT !.gpu = TRUE, !.data = None, !.handler = handler]
                                           /\ node.handler # None => handler = node.handler
  <2>1. node.handler \in Attrs \cup {None} /\ node.data \in Attrs \cup {None}
    BY DEF Good, RenderNode
  <2> DEFINE handler == IF enabled /\ n \in Leaves /\ node.handler = None THEN node.data ELSE node.handler
  <2>2. handler \in Attrs \cup {None} /\ (node.handler # None => handler = node.handler)
    BY <2>1
  <2>3. now = [node EXCEPT !.gpu = TRUE, !.data = None, !.handler = handler]
    BY DEF AfterUpload
  <2> QED
    BY <2>2, <2>3
<1> HIDE DEF now
<1>2. now \in RenderNode
  BY <1>1 DEF Good, RenderNode
<1>3. /\ now.of = node.of /\ now.cut = node.cut /\ now.io = node.io /\ now.gpu = TRUE /\ now.freed = node.freed
      /\ now.source = node.source /\ now.resident = node.resident /\ now.building = node.building
      /\ now.ready = node.ready /\ now.pending = node.pending /\ now.handler = handler /\ now.built = node.built
  BY <1>1 DEF Good, RenderNode
<1>4. NodeSound(now)
  BY <1>3 DEF Good, NodeSound
<1>5. \A kind \in Kinds : JobSound(node, kind) => JobSound(now, kind)
  BY <1>1, <1>3 DEF JobSound
<1>6. Keeps(node, now, {}) /\ SameCut(node, now)
  BY <1>2, <1>3, <1>4, <1>5 DEF Keeps, Good, SameCut
<1> QED
  BY <1>6 DEF now

\* Changes of the crossfade and of what only says how a node is drawn.
LEMMA LooksKeep ==
  ASSUME NEW node, Good(node), NEW fade \in {"in", "steady", "out"}, NEW ms \in 0..Fade,
         NEW lost \in BOOLEAN, NEW suppressed \in BOOLEAN,
         NEW now, now = [node EXCEPT !.fade = fade, !.ms = ms, !.lost = lost, !.suppressed = suppressed]
  PROVE  Keeps(node, now, {}) /\ SameCut(node, now)
<1>1. now \in RenderNode
  <2>1. [node EXCEPT !.fade = fade, !.ms = ms, !.lost = lost, !.suppressed = suppressed] \in RenderNode
    BY DEF Good, RenderNode
  <2> QED
    BY <2>1
<1>2. /\ now.of = node.of /\ now.cut = node.cut /\ now.io = node.io /\ now.gpu = node.gpu /\ now.freed = node.freed
      /\ now.source = node.source /\ now.resident = node.resident /\ now.building = node.building
      /\ now.ready = node.ready /\ now.pending = node.pending /\ now.handler = node.handler /\ now.built = node.built
      /\ now.asked = node.asked /\ now.done = node.done
  BY DEF Good, RenderNode
<1>4. NodeSound(now)
  BY <1>2 DEF Good, NodeSound
<1>5. \A kind \in Kinds : JobSound(node, kind) => JobSound(now, kind)
  BY <1>2 DEF JobSound
<1> QED
  BY <1>1, <1>2, <1>4, <1>5 DEF Keeps, Good, SameCut

LEMMA FadedKeeps ==
  ASSUME NEW node, Good(node)
  PROVE  Keeps(node, Faded(node), {}) /\ SameCut(node, Faded(node))
<1>0. /\ node.fade \in {"in", "steady", "out"} /\ node.ms \in 0..Fade /\ Fade \in Nat
      /\ node.lost \in BOOLEAN /\ node.suppressed \in BOOLEAN
  BY RenderAssumption DEF Good, RenderNode
<1>1. CASE ~node.gpu
  BY <1>1 DEF Faded, Keeps, SameCut
<1>2. CASE node.gpu
  <2> DEFINE ms == IF node.ms < Fade THEN node.ms + 1 ELSE Fade
             fade == IF node.fade = "in" /\ ms = Fade THEN "steady" ELSE node.fade
  <2>1. ms \in 0..Fade /\ fade \in {"in", "steady", "out"}
    BY <1>0
  <2>2. Faded(node) = [node EXCEPT !.ms = ms, !.fade = fade]
    BY <1>2 DEF Faded
  <2> HIDE DEF ms, fade
  <2>3. Faded(node) = [node EXCEPT !.fade = fade, !.ms = ms, !.lost = node.lost, !.suppressed = node.suppressed]
    BY <2>2 DEF Good, RenderNode
  <2> QED
    BY <1>0, <2>1, <2>3, LooksKeep
<1> QED
  BY <1>1, <1>2

LEMMA OlderKeeps ==
  ASSUME NEW node, Good(node)
  PROVE  Keeps(node, Older(node), {}) /\ SameCut(node, Older(node))
<1> DEFINE older(v) == [node.cut[v] EXCEPT !.age = IF node.cut[v].mat = "none" /\ (v # "root" \/ ~node.built) THEN 0
                                             ELSE IF @ <= PruneTtl THEN @ + 1 ELSE @]
           cut == [v \in Cut |-> older(v)]
           now == Older(node)
<1>0. node.cut \in [Cut -> VirtualNode] /\ node \in RenderNode /\ PruneTtl \in Nat
  BY RenderNodeCut, RenderAssumption DEF Good
<1>1. now = [node EXCEPT !.cut = cut]
  BY DEF Older
<1>2. ASSUME NEW v \in Cut
      PROVE  /\ older(v) \in VirtualNode /\ older(v).gpu = node.cut[v].gpu
             /\ older(v).mat = node.cut[v].mat /\ older(v).done = node.cut[v].done
  <2>1. PICK age \in 0..(PruneTtl + 1) : older(v) = [node.cut[v] EXCEPT !.age = age]
    <3>1. node.cut[v].age \in 0..(PruneTtl + 1) /\ PruneTtl \in Nat
      BY <1>0 DEF VirtualNode
    <3>2. 0 \in 0..(PruneTtl + 1) /\ (node.cut[v].age <= PruneTtl => node.cut[v].age + 1 \in 0..(PruneTtl + 1))
      BY <3>1
    <3> DEFINE aged == IF node.cut[v].mat = "none" /\ (v # "root" \/ ~node.built) THEN 0
                       ELSE IF node.cut[v].age <= PruneTtl THEN node.cut[v].age + 1 ELSE node.cut[v].age
    <3>3. aged \in 0..(PruneTtl + 1)
      BY <3>1, <3>2
    <3>4. older(v) = [node.cut[v] EXCEPT !.age = aged]
      OBVIOUS
    <3> QED
      BY <3>3, <3>4, Zenon
  <2>2. node.cut[v] \in VirtualNode
    BY <1>0
  <2> HIDE DEF older
  <2> QED
    BY <2>1, <2>2 DEF VirtualNode
<1>3. cut \in [Cut -> VirtualNode] /\ \A v \in Cut : cut[v].gpu = node.cut[v].gpu /\ cut[v].mat = node.cut[v].mat /\ cut[v].done = node.cut[v].done
  BY <1>2
<1> HIDE DEF cut, now
<1>4. now \in RenderNode
  BY <1>0, <1>1, <1>3 DEF RenderNode
<1>5. /\ now.of = node.of /\ now.cut = cut /\ now.io = node.io /\ now.gpu = node.gpu /\ now.freed = node.freed
      /\ now.source = node.source /\ now.resident = node.resident /\ now.building = node.building
      /\ now.ready = node.ready /\ now.pending = node.pending /\ now.handler = node.handler /\ now.built = node.built
      /\ now.asked = node.asked /\ now.done = node.done
  BY <1>0, <1>1 DEF RenderNode
<1>6. NodeSound(now)
  BY <1>3, <1>5 DEF Good, NodeSound
<1>7. \A kind \in Kinds : JobSound(node, kind) => JobSound(now, kind)
  BY <1>3, <1>5 DEF JobSound
<1> QED
  BY <1>3, <1>4, <1>5, <1>6, <1>7 DEF Keeps, Good, SameCut, now

LEMMA FinishedKeeps ==
  ASSUME NEW node, Good(node), Built(node)
  PROVE  LET now == [node EXCEPT !.building = FALSE, !.resident = node.pending, !.pending = None,
                                 !.cut = NewCut, !.built = FALSE, !.source = TRUE]
         IN  Keeps(node, now, {}) /\ SameCut(node, now)
<1> DEFINE now == [node EXCEPT !.building = FALSE, !.resident = node.pending, !.pending = None,
                               !.cut = NewCut, !.built = FALSE, !.source = TRUE]
<1>0. node \in RenderNode /\ NewCut \in [Cut -> VirtualNode]
  BY NewCutType DEF Good
<1>1. now \in RenderNode
  BY <1>0 DEF RenderNode
<1>2. /\ now.of = node.of /\ now.cut = NewCut /\ now.io = node.io /\ now.gpu = node.gpu /\ now.freed = node.freed
      /\ now.source = TRUE /\ now.resident = node.pending /\ now.building = FALSE
      /\ now.handler = node.handler /\ now.asked = node.asked /\ now.done = node.done
  BY <1>0 DEF RenderNode
<1> HIDE DEF now
<1>3. ~node.source /\ node.building /\ node.ready /\ node.pending # None
  BY DEF Built, Good, NodeSound
<1>4. NodeSound(now)
  BY <1>2, <1>3 DEF Good, NodeSound
<1>5. \A kind \in Kinds : JobSound(node, kind) => JobSound(now, kind)
  BY <1>2, <1>3 DEF JobSound, Cut
<1>6. SameCut(node, now)
  <2>1. \A v \in Cut : ~node.cut[v].gpu
    BY <1>3 DEF Good, NodeSound
  <2>2. \A v \in Cut : ~now.cut[v].gpu
    BY <1>2, NewCutType
  <2>3. \A v \in Cut : node.cut[v].gpu \in BOOLEAN /\ now.cut[v].gpu \in BOOLEAN
    BY <1>0, <1>2 DEF RenderNode, VirtualNode
  <2> QED
    BY <2>1, <2>2, <2>3 DEF SameCut
<1>7. Keeps(node, now, {}) /\ SameCut(node, now)
  BY <1>1, <1>2, <1>4, <1>5, <1>6 DEF Keeps, Good
<1> QED
  BY <1>7 DEF now

LEMMA RecoveredKeeps ==
  ASSUME NEW node, Good(node), node.io = "loaded"
  PROVE  LET now == [node EXCEPT !.lost = FALSE, !.gpu = FALSE, !.io = "none", !.sized = FALSE]
         IN  Keeps(node, now, {}) /\ SameCut(node, now)
<1> DEFINE now == [node EXCEPT !.lost = FALSE, !.gpu = FALSE, !.io = "none", !.sized = FALSE]
<1>1. now \in RenderNode
  BY DEF Good, RenderNode
<1>2. /\ now.of = node.of /\ now.cut = node.cut /\ now.io = "none" /\ now.gpu = FALSE /\ now.freed = node.freed
      /\ now.source = node.source /\ now.resident = node.resident /\ now.building = node.building
      /\ now.ready = node.ready /\ now.pending = node.pending /\ now.handler = node.handler /\ now.built = node.built
  BY DEF Good, RenderNode
<1> HIDE DEF now
<1>3. Keeps(node, now, {}) /\ SameCut(node, now)
  BY <1>1, <1>2, SoundFields DEF Good, NodeSound
<1> QED
  BY <1>3 DEF now

LEMMA JudgedKeeps ==
  ASSUME NEW node, Good(node), NEW n, Candidate(n, node)
  PROVE  /\ Keeps(node, Verdict(n, node), {}) /\ SameCut(node, Verdict(n, node))
         /\ n \in Promotable =>
              LET now == [Verdict(n, node) EXCEPT !.building = TRUE, !.ready = FALSE]
              IN  Keeps(node, now, {}) /\ SameCut(node, now) /\ JobSound(now, "build")
<1>0. ~node.source /\ ~node.building /\ node.handler # None /\ node \in RenderNode /\ NodeSound(node)
  BY DEF Candidate, Good
<1>1. CASE n \notin Promotable
  <2> DEFINE now == Verdict(n, node)
  <2>1. now = [node EXCEPT !.lost = FALSE, !.handler = None]
    BY <1>1 DEF Verdict
  <2> HIDE DEF now
  <2>2. now \in RenderNode
    BY <1>0, <2>1 DEF RenderNode
  <2>3. /\ now.of = node.of /\ now.cut = node.cut /\ now.io = node.io /\ now.gpu = node.gpu /\ now.freed = node.freed
        /\ now.source = node.source /\ now.resident = node.resident /\ now.building = node.building
        /\ now.ready = node.ready /\ now.pending = node.pending /\ now.built = node.built
        /\ now.asked = node.asked /\ now.done = node.done
    BY <1>0, <2>1 DEF RenderNode
  <2>4. NodeSound(now)
    BY <1>0, <2>3 DEF NodeSound
  <2>5. \A kind \in Kinds : JobSound(node, kind) => JobSound(now, kind)
    BY <1>0, <2>3 DEF JobSound
  <2> QED
    BY <1>1, <2>2, <2>3, <2>4, <2>5 DEF Keeps, Good, SameCut, now
<1>2. CASE n \in Promotable
  <2> DEFINE after == Verdict(n, node)
             now   == [after EXCEPT !.building = TRUE, !.ready = FALSE]
  <2>1. PICK suppressed \in BOOLEAN : after = [node EXCEPT !.lost = FALSE, !.suppressed = suppressed]
    BY <1>2 DEF Verdict
  <2>2. Keeps(node, after, {}) /\ SameCut(node, after)
    <3>1. /\ node.fade \in {"in", "steady", "out"} /\ node.ms \in 0..Fade
      BY <1>0 DEF RenderNode
    <3>2. after = [node EXCEPT !.fade = node.fade, !.ms = node.ms, !.lost = FALSE, !.suppressed = suppressed]
      BY <1>0, <2>1 DEF RenderNode
    <3> HIDE DEF after
    <3> QED
      BY <3>1, <3>2, LooksKeep
  <2>3. /\ after.of = node.of /\ after.cut = node.cut /\ after.io = node.io /\ after.gpu = node.gpu /\ after.freed = node.freed
        /\ after.source = node.source /\ after.resident = node.resident /\ after.handler = node.handler
        /\ after.pending = node.pending /\ after.built = node.built /\ after.asked = node.asked /\ after.done = node.done
    BY <1>0, <2>1 DEF RenderNode
  <2>4. after \in RenderNode
    BY <2>2 DEF Keeps, Good
  <2> HIDE DEF after
  <2>5. now \in RenderNode
    BY <2>4 DEF RenderNode
  <2>6. /\ now.of = after.of /\ now.cut = after.cut /\ now.io = after.io /\ now.gpu = after.gpu /\ now.freed = after.freed
        /\ now.source = after.source /\ now.resident = after.resident /\ now.handler = after.handler
        /\ now.pending = after.pending /\ now.built = after.built /\ now.asked = after.asked /\ now.done = after.done
        /\ now.building = TRUE /\ now.ready = FALSE
    BY <2>4 DEF RenderNode
  <2> HIDE DEF now
  <2>7. NodeSound(now)
    BY <1>0, <2>3, <2>6 DEF NodeSound
  <2>8. \A kind \in Kinds : JobSound(node, kind) => JobSound(now, kind)
    BY <1>0, <2>3, <2>6 DEF JobSound
  <2>9. JobSound(now, "build")
    BY <1>0, <2>3, <2>6, ConstantsFinite DEF JobSound, Cut
  <2>10. Keeps(node, now, {}) /\ SameCut(node, now) /\ JobSound(now, "build")
    BY <2>3, <2>5, <2>6, <2>7, <2>8, <2>9 DEF Keeps, Good, SameCut
  <2> QED
    BY <1>2, <2>2, <2>10 DEF after, now
<1> QED
  BY <1>1, <1>2

LEMMA BaredKeeps ==
  ASSUME NEW node, Good(node), ~node.building
  PROVE  Keeps(node, Bared(node), {}) /\ SameCut(node, Bared(node))
<1> DEFINE now == Bared(node)
<1>1. now = [node EXCEPT !.handler = None, !.suppressed = FALSE, !.lost = TRUE]
  BY DEF Bared
<1> HIDE DEF now
<1>2. now \in RenderNode
  BY <1>1 DEF Good, RenderNode
<1>3. /\ now.of = node.of /\ now.cut = node.cut /\ now.io = node.io /\ now.gpu = node.gpu /\ now.freed = node.freed
      /\ now.source = node.source /\ now.resident = node.resident /\ now.building = node.building
      /\ now.ready = node.ready /\ now.pending = node.pending /\ now.built = node.built
      /\ now.asked = node.asked /\ now.done = node.done
  BY <1>1 DEF Good, RenderNode
<1>4. NodeSound(now)
  BY <1>3 DEF Good, NodeSound
<1>5. \A kind \in Kinds : JobSound(node, kind) => JobSound(now, kind)
  BY <1>3 DEF JobSound
<1> QED
  BY <1>2, <1>3, <1>4, <1>5 DEF Keeps, Good, SameCut, now

LEMMA RestartedKeeps ==
  ASSUME NEW node, Good(node), ~(node.io = "converting" /\ ~node.done)
  PROVE  LET now == [node EXCEPT !.load = "no", !.asked = None, !.data = None, !.gpu = FALSE, !.io = "none"]
         IN  Keeps(node, now, {}) /\ SameCut(node, now)
<1> DEFINE now == [node EXCEPT !.load = "no", !.asked = None, !.data = None, !.gpu = FALSE, !.io = "none"]
<1>1. now \in RenderNode
  BY DEF Good, RenderNode
<1>2. /\ now.of = node.of /\ now.cut = node.cut /\ now.io = "none" /\ now.gpu = FALSE /\ now.freed = node.freed
      /\ now.source = node.source /\ now.resident = node.resident /\ now.building = node.building
      /\ now.ready = node.ready /\ now.pending = node.pending /\ now.handler = node.handler /\ now.built = node.built
  BY DEF Good, RenderNode
<1> HIDE DEF now
<1>3. Keeps(node, now, {}) /\ SameCut(node, now)
  BY <1>1, <1>2, SoundFields
<1> QED
  BY <1>3 DEF now

-----------------------------------------------------------------------------
(***************************************************************************)
(* The walk of one cut.                                                    *)
(***************************************************************************)
\* A virtual node keeps the job that writes it.
KeepsJob(v, now) == v.mat = "materializing" /\ ~v.done => now.mat = "materializing" /\ ~now.done

LEMMA WalkedKeeps ==
  ASSUME NEW v \in VirtualNode, NEW selected \in BOOLEAN
  PROVE  /\ Walked(v, selected) \in VirtualNode
         /\ Walked(v, selected).gpu = v.gpu /\ KeepsJob(v, Walked(v, selected))
         /\ selected /\ v.mat = "none" => /\ Walked(v, selected).mat = "materializing"
                                          /\ ~Walked(v, selected).done
<1>0. PruneTtl \in Nat
  BY RenderAssumption
<1>1. CASE ~selected
  BY <1>1 DEF Walked, KeepsJob
<1>2. CASE selected /\ v.mat = "none"
  <2>1. PICK now : now = [v EXCEPT !.age = 0, !.mat = "materializing", !.done = FALSE]
    OBVIOUS
  <2>2. Walked(v, selected) = now
    BY <1>2, <2>1 DEF Walked
  <2>3. now \in VirtualNode
    <3>1. 0 \in 0..(PruneTtl + 1)
      BY <1>0
    <3> QED
      BY <2>1, <3>1 DEF VirtualNode
  <2>4. now.gpu = v.gpu /\ now.mat = "materializing" /\ ~now.done
    BY <2>1 DEF VirtualNode
  <2> QED
    BY <1>2, <2>2, <2>3, <2>4 DEF KeepsJob
<1>3. CASE selected /\ v.mat # "none"
  BY <1>0, <1>3 DEF Walked, KeepsJob, VirtualNode
<1> QED
  BY <1>1, <1>2, <1>3

Weight(key, gpu) == IF gpu THEN CutSize[key] ELSE 0

LEMMA ProcessedKeeps ==
  ASSUME NEW node, NEW key \in Cut, NEW v \in VirtualNode, NEW used \in Int
  PROVE  /\ Processed(node, key, v, used) \in VirtualNode /\ KeepsJob(v, Processed(node, key, v, used))
         /\ UsedAfter(node, key, v, used)
              = used - Weight(key, v.gpu) + Weight(key, Processed(node, key, v, used).gpu)
<1> DEFINE admit == Admitted(node, key, v, used)
           now   == Processed(node, key, v, used)
<1>0. /\ admit \in BOOLEAN /\ (admit => Reached(v) /\ ~v.gpu /\ Settled(v) = "materialized")
      /\ CutSize[key] \in Int /\ Fade \in Nat \ {0} /\ PruneTtl \in Nat
  BY RenderAssumption DEF Admitted
<1>1. CASE Reached(v)
  <2> DEFINE fade == IF admit THEN 1 ELSE IF v.gpu /\ v.fade < Fade THEN v.fade + 1 ELSE v.fade
             mat  == Settled(v)
             gpu  == v.gpu \/ admit
  <2>1. now = [v EXCEPT !.mat = mat, !.gpu = gpu, !.fade = fade]
    BY <1>1 DEF Processed
  <2>2. fade \in 0..Fade
    BY <1>0 DEF VirtualNode
  <2>3. mat \in {"none", "materializing", "materialized"} /\ gpu \in BOOLEAN
    BY <1>0 DEF VirtualNode, Settled
  <2>4. v.mat = "materializing" /\ ~v.done => mat = "materializing"
    BY DEF Settled
  <2>5. UsedAfter(node, key, v, used) = IF admit THEN used + CutSize[key] ELSE used
    BY <1>1 DEF UsedAfter
  <2>6. admit => ~v.gpu
    BY <1>0
  <2>7. gpu = (v.gpu \/ admit)
    OBVIOUS
  <2> HIDE DEF admit, mat, gpu, fade, now
  <2>8. now \in VirtualNode /\ now.mat = mat /\ now.gpu = gpu /\ now.done = v.done
    BY <2>1, <2>2, <2>3 DEF VirtualNode
  <2>9. KeepsJob(v, now)
    BY <2>4, <2>8 DEF KeepsJob
  <2>10. UsedAfter(node, key, v, used) = used - Weight(key, v.gpu) + Weight(key, now.gpu)
    <3>1. CASE admit
      <4>1. Weight(key, v.gpu) = 0 /\ Weight(key, now.gpu) = CutSize[key]
        BY <2>6, <2>7, <2>8, <3>1 DEF Weight
      <4> QED
        BY <1>0, <2>5, <3>1, <4>1
    <3>2. CASE ~admit
      <4>1. now.gpu = v.gpu
        <5>1. v.gpu \in BOOLEAN
          BY DEF VirtualNode
        <5> QED
          BY <2>7, <2>8, <3>2, <5>1
      <4>2. Weight(key, v.gpu) \in Int
        BY <1>0 DEF Weight
      <4> QED
        BY <2>5, <3>2, <4>1, <4>2
    <3> QED
      BY <3>1, <3>2
  <2> QED
    BY <2>8, <2>9, <2>10 DEF now
<1>2. CASE ~Reached(v) /\ Evicted(v)
  <2>1. now = [Cold EXCEPT !.age = v.age]
    BY <1>2 DEF Processed
  <2>2. v.age \in 0..(PruneTtl + 1) /\ 0 \in 0..Fade
    BY <1>0 DEF VirtualNode
  <2>3. now = [mat |-> "none", done |-> FALSE, gpu |-> FALSE, fade |-> 0, age |-> v.age]
    BY <2>1 DEF Cold
  <2> HIDE DEF now
  <2>4. now \in VirtualNode /\ ~now.gpu
    BY <2>2, <2>3 DEF VirtualNode
  <2>5. ~(v.mat = "materializing" /\ ~v.done)
    BY <1>2 DEF Evicted
  <2>6. ~admit
    BY <1>0, <1>2
  <2>7. UsedAfter(node, key, v, used) = IF v.gpu THEN used - CutSize[key] ELSE used
    BY <1>2, <2>6 DEF UsedAfter
  <2>8. Weight(key, v.gpu) = (IF v.gpu THEN CutSize[key] ELSE 0) /\ Weight(key, now.gpu) = 0
    BY <2>4 DEF Weight
  <2> HIDE DEF admit
  <2>9. UsedAfter(node, key, v, used) = used - Weight(key, v.gpu) + Weight(key, now.gpu)
    BY <1>0, <2>7, <2>8
  <2> QED
    BY <2>4, <2>5, <2>9 DEF now, KeepsJob
<1>3. CASE ~Reached(v) /\ ~Evicted(v)
  <2>1. now = v
    BY <1>3 DEF Processed
  <2>2. ~admit
    BY <1>0, <1>3
  <2>3. UsedAfter(node, key, v, used) = used
    BY <1>3, <2>2 DEF UsedAfter
  <2>4. Weight(key, v.gpu) \in Int
    BY <1>0 DEF Weight
  <2> HIDE DEF now, admit
  <2>5. UsedAfter(node, key, v, used) = used - Weight(key, v.gpu) + Weight(key, now.gpu)
    BY <2>1, <2>3, <2>4
  <2> QED
    BY <2>1, <2>5 DEF now, KeepsJob
<1> QED
  BY <1>1, <1>2, <1>3

\* The octants and the root, each at its own place.
LEMMA CutOrderIs ==
  /\ CutOrder \in Seq(Cut) /\ Len(CutOrder) \in Nat
  /\ \A v \in Cut : Place(v) \in 1..Len(CutOrder) /\ CutOrder[Place(v)] = v
  /\ \A i \in 1..Len(CutOrder) : CutOrder[i] \in Cut /\ Place(CutOrder[i]) = i
<1> DEFINE N == Cardinality(Octants)
           s == SetToSeq(Octants)
<1>1. IsFiniteSet(Octants) /\ N \in Nat
  BY RenderAssumption, FS_CardinalityType
<1>2. \E f \in [1..N -> Octants] : IsInjective(f)
  <2>1. ExistsBijection(1..N, Octants)
    BY <1>1, FS_CardinalityType
  <2>2. PICK f : f \in Bijection(1..N, Octants)
    BY <2>1 DEF ExistsBijection
  <2> QED
    BY <2>2 DEF Bijection, Injection
<1>3. s \in [1..N -> Octants] /\ IsInjective(s)
  BY <1>2 DEF SetToSeq
<1>4. s \in Injection(1..N, Octants)
  BY <1>3 DEF Injection
<1>5. s \in Surjection(1..N, Octants)
  <2>1. Cardinality(1..N) = N
    BY <1>1, FS_Interval
  <2> QED
    BY <1>1, <1>4, <2>1, FS_Injection
<1>6. /\ \A v \in Octants : \E i \in 1..N : s[i] = v
      /\ \A i, j \in 1..N : s[i] = s[j] => i = j
  BY <1>4, <1>5 DEF Surjection, Injection, IsInjective
<1>7. s \in Seq(Octants) /\ Len(s) = N
  BY <1>1, <1>3
<1> HIDE DEF s
<1>8. /\ CutOrder \in Seq(Cut) /\ Len(CutOrder) = N + 1 /\ CutOrder[1] = "root"
      /\ \A i \in 1..N : CutOrder[i + 1] = s[i]
  <2>1. CutOrder = <<"root">> \o s /\ Octants \subseteq Cut /\ "root" \in Cut
    BY DEF CutOrder, s, Cut
  <2>2. <<"root">> \in Seq(Cut) /\ s \in Seq(Cut) /\ Len(<<"root">>) = 1 /\ <<"root">>[1] = "root"
    BY <1>7, <2>1
  <2> HIDE DEF N
  <2> QED
    BY <1>1, <1>7, <2>1, <2>2
<1>9. "root" \notin Octants
  BY RenderAssumption
<1> HIDE DEF N
<1>10. ASSUME NEW i \in 1..(N + 1) PROVE CutOrder[i] \in Cut /\ (i # 1 => CutOrder[i] \in Octants /\ CutOrder[i] = s[i - 1])
  <2>1. CutOrder[i] \in Cut
    BY <1>1, <1>8
  <2>2. ASSUME i # 1 PROVE CutOrder[i] \in Octants /\ CutOrder[i] = s[i - 1]
    <3>1. i - 1 \in 1..N /\ (i - 1) + 1 = i
      BY <1>1, <2>2
    <3>2. CutOrder[i] = s[i - 1]
      BY <1>8, <3>1
    <3> QED
      BY <1>3, <3>1, <3>2 DEF N
  <2> QED
    BY <2>1, <2>2
<1>11. \A i, j \in 1..(N + 1) : CutOrder[i] = CutOrder[j] => i = j
  <2> SUFFICES ASSUME NEW i \in 1..(N + 1), NEW j \in 1..(N + 1), CutOrder[i] = CutOrder[j] PROVE i = j
    OBVIOUS
  <2>1. CASE i = 1 \/ j = 1
    BY <1>8, <1>9, <1>10, <2>1
  <2>2. CASE i # 1 /\ j # 1
    <3>1. s[i - 1] = s[j - 1] /\ i - 1 \in 1..N /\ j - 1 \in 1..N
      BY <1>1, <1>10, <2>2
    <3>2. i - 1 = j - 1
      BY <1>6, <3>1
    <3> QED
      BY <1>1, <3>2
  <2> QED
    BY <2>1, <2>2
<1>12. \A v \in Cut : \E i \in 1..(N + 1) : CutOrder[i] = v
  <2> SUFFICES ASSUME NEW v \in Cut PROVE \E i \in 1..(N + 1) : CutOrder[i] = v
    OBVIOUS
  <2>1. CASE v = "root"
    BY <1>1, <1>8, <2>1
  <2>2. CASE v \in Octants
    <3>1. PICK i \in 1..N : s[i] = v
      BY <1>6, <2>2
    <3>2. i + 1 \in 1..(N + 1) /\ CutOrder[i + 1] = v
      BY <1>1, <1>8, <3>1
    <3> QED
      BY <3>2
  <2> QED
    BY <2>1, <2>2 DEF Cut
<1>13. DOMAIN CutOrder = 1..(N + 1) /\ N + 1 \in Nat
  BY <1>1, <1>8
<1>14. \A v \in Cut : Place(v) \in 1..(N + 1) /\ CutOrder[Place(v)] = v
  <2> SUFFICES ASSUME NEW v \in Cut PROVE Place(v) \in 1..(N + 1) /\ CutOrder[Place(v)] = v
    OBVIOUS
  <2>1. \E i : i \in DOMAIN CutOrder /\ CutOrder[i] = v
    BY <1>12, <1>13
  <2> QED
    BY <1>12, <1>13 DEF Place
<1>15. \A i \in 1..(N + 1) : Place(CutOrder[i]) = i
  BY <1>10, <1>11, <1>14
<1> QED
  BY <1>8, <1>10, <1>13, <1>14, <1>15

\* The running total follows the order of the cut.
LEMMA RunningUnfolds ==
  ASSUME NEW node, NEW cut
  PROVE  /\ Running(node, cut)[0] = gpuCut
         /\ \A i \in 1..Len(CutOrder) :
              Running(node, cut)[i] = UsedAfter(node, CutOrder[i], cut[CutOrder[i]], Running(node, cut)[i - 1])
<1> DEFINE N == Len(CutOrder)
           Upto(n) == {i \in 0..N : i <= n}
           After1(i, u) == UsedAfter(node, CutOrder[i], cut[CutOrder[i]], u)
           Partial(n, u) == u = [i \in Upto(n) |-> IF i = 0 THEN gpuCut ELSE After1(i, u[i - 1])]
           Whole(u) == u = [i \in 0..N |-> IF i = 0 THEN gpuCut ELSE After1(i, u[i - 1])]
           I == {n \in Nat : \E u : Partial(n, u)}
<1>0. N \in Nat
  BY CutOrderIs
<1> HIDE DEF N, After1
<1>1. 0 \in I
  <2> DEFINE u == [i \in Upto(0) |-> gpuCut]
  <2>1. \A i \in Upto(0) : i = 0
    BY <1>0
  <2>2. Partial(0, u)
    BY <2>1
  <2> HIDE DEF u, Partial
  <2> QED
    BY <2>2
<1>2. ASSUME NEW n \in Nat, n \in I PROVE n + 1 \in I
  <2>1. PICK u : Partial(n, u)
    BY <1>2
  <2> DEFINE w == [i \in Upto(n + 1) |-> IF i = 0 THEN gpuCut ELSE After1(i, u[i - 1])]
  <2>2. ASSUME NEW i \in Upto(n) PROVE w[i] = u[i]
    <3>1. i \in Upto(n + 1)
      BY <1>0
    <3>2. u[i] = IF i = 0 THEN gpuCut ELSE After1(i, u[i - 1])
      BY <2>1
    <3> QED
      BY <3>1, <3>2
  <2>3. \A i \in Upto(n + 1) : i # 0 => i - 1 \in Upto(n)
    BY <1>0
  <2>4. \A i \in Upto(n + 1) : i # 0 => w[i - 1] = u[i - 1]
    BY <2>2, <2>3
  <2>5. Partial(n + 1, w)
    BY <2>4
  <2> HIDE DEF w, Partial
  <2> QED
    BY <2>5
<1>3. \A n \in Nat : n \in I
  <2> HIDE DEF I
  <2> QED
    BY <1>1, <1>2, AllNumbers
<1>4. Upto(N) = 0..N
  BY <1>0
<1>5. PICK u : Partial(N, u)
  BY <1>0, <1>3
<1>6. Whole(u)
  BY <1>4, <1>5
<1>7. Whole(CHOOSE w : Whole(w))
  <2> HIDE DEF Whole
  <2> QED
    BY <1>6
<1>8. Running(node, cut) = CHOOSE w : Whole(w)
  BY DEF Running, Whole, N, After1
<1> DEFINE r == Running(node, cut)
<1>9. r = [i \in 0..N |-> IF i = 0 THEN gpuCut ELSE After1(i, r[i - 1])]
  <2>1. Whole(r)
    BY <1>7, <1>8
  <2> HIDE DEF r
  <2> QED
    BY <2>1
<1> HIDE DEF r
<1>10. r[0] = gpuCut /\ \A i \in 1..N : r[i] = After1(i, r[i - 1])
  BY <1>0, <1>9
<1> QED
  BY <1>10 DEF r, N, After1

\* What a node holds, as a sum over its cut.
LEMMA HeldWeighs ==
  ASSUME NEW node, NEW f, \A v \in Cut : f[v] = Weight(v, node.cut[v].gpu)
  PROVE  Held(node) = SumFunctionOnSet(f, Cut)
<1> DEFINE S == {v \in Cut : node.cut[v].gpu}
           T == {v \in Cut : ~node.cut[v].gpu}
<1>1. IsFiniteSet(Cut) /\ \A v \in Cut : f[v] \in Nat
  BY ConstantsFinite DEF Weight
<1>2. S \in SUBSET Cut /\ T \in SUBSET Cut /\ S \cup T = Cut /\ S \cap T = {}
  OBVIOUS
<1>3. (\A v \in S : CutSize[v] = f[v]) /\ \A v \in T : f[v] = 0
  BY DEF Weight
<1>4. IsFiniteSet(S) /\ IsFiniteSet(T) /\ Held(node) = SumFunctionOnSet(CutSize, S)
  BY <1>1, <1>2, FS_Subset DEF Held
<1> HIDE DEF S, T
<1>5. SumFunctionOnSet(f, Cut) = SumFunctionOnSet(f, S) + SumFunctionOnSet(f, T)
  <2>1. SumFunctionOnSet(f, S \cup T) = SumFunctionOnSet(f, S) + SumFunctionOnSet(f, T)
    BY <1>1, <1>2, SumOfBoth
  <2> QED
    BY <1>2, <2>1
<1>6. SumFunctionOnSet(CutSize, S) = SumFunctionOnSet(f, S)
  BY <1>3, <1>4, SumAgrees
<1>7. SumFunctionOnSet(f, T) = 0 /\ SumFunctionOnSet(f, S) \in Nat
  BY <1>1, <1>2, <1>3, <1>4, SumOfZeros, SumType
<1> QED
  BY <1>4, <1>5, <1>6, <1>7

\* The cut of a node once its virtual nodes are processed, the total being the running one.
ProcessedCut(node, cut) ==
  [v \in Cut |-> Processed(node, v, cut[v], Running(node, cut)[Place(v) - 1])]

LEMMA ProcessedHolds ==
  ASSUME NEW node, NEW cut \in [Cut -> VirtualNode], gpuCut \in Nat,
         NEW old, \A v \in Cut : old.cut[v].gpu = cut[v].gpu,
         NEW now, now.cut = ProcessedCut(node, cut)
  PROVE  /\ ProcessedCut(node, cut) \in [Cut -> VirtualNode]
         /\ \A v \in Cut : KeepsJob(cut[v], ProcessedCut(node, cut)[v])
         /\ Running(node, cut)[Len(CutOrder)] = gpuCut - Held(old) + Held(now)
<1> DEFINE N == Len(CutOrder)
           used == Running(node, cut)
           new == ProcessedCut(node, cut)
           f(i) == [v \in Cut |-> IF Place(v) <= i THEN Weight(v, new[v].gpu) ELSE Weight(v, cut[v].gpu)]
           I == {i \in Nat : i <= N => /\ used[i] \in Int
                                       /\ used[i] = gpuCut - SumFunctionOnSet(f(0), Cut) + SumFunctionOnSet(f(i), Cut)}
<1>0. /\ N \in Nat /\ (\A v \in Cut : Place(v) \in 1..N /\ CutOrder[Place(v)] = v)
      /\ \A i \in 1..N : CutOrder[i] \in Cut /\ Place(CutOrder[i]) = i
  BY CutOrderIs
<1>1. \A v \in Cut : new[v] = Processed(node, v, cut[v], used[Place(v) - 1])
  BY DEF ProcessedCut
<1>2. \A i \in Nat : \A v \in Cut : f(i)[v] \in Nat
  BY ConstantsFinite DEF Weight
<1>3. \A i \in Nat : SumFunctionOnSet(f(i), Cut) \in Nat
  <2> SUFFICES ASSUME NEW i \in Nat PROVE SumFunctionOnSet(f(i), Cut) \in Nat
    OBVIOUS
  <2> DEFINE g == f(i)
  <2>1. \A v \in Cut : g[v] \in Nat
    BY <1>2
  <2> HIDE DEF g
  <2>2. SumFunctionOnSet(g, Cut) \in Nat
    BY <2>1, ConstantsFinite, SumType
  <2> QED
    BY <2>2 DEF g
<1>4. used[0] = gpuCut /\ \A i \in 1..N : used[i] = UsedAfter(node, CutOrder[i], cut[CutOrder[i]], used[i - 1])
  BY RunningUnfolds
<1> HIDE DEF N, used, new
<1>5. 0 \in I
  <2> DEFINE s == SumFunctionOnSet(f(0), Cut)
  <2>1. s \in Nat
    BY <1>3
  <2> HIDE DEF s
  <2>2. gpuCut = gpuCut - s + s
    BY <2>1
  <2> QED
    BY <1>4, <2>2 DEF s
<1>6. ASSUME NEW i \in Nat, i \in I PROVE i + 1 \in I
  <2> SUFFICES ASSUME i + 1 <= N
               PROVE  /\ used[i + 1] \in Int
                      /\ used[i + 1] = gpuCut - SumFunctionOnSet(f(0), Cut) + SumFunctionOnSet(f(i + 1), Cut)
    BY <1>6
  <2> DEFINE x == CutOrder[i + 1]
             g == f(i)
             h == f(i + 1)
             s0 == SumFunctionOnSet(f(0), Cut)
  <2>1. used[i] \in Int /\ used[i] = gpuCut - s0 + SumFunctionOnSet(g, Cut)
    BY <1>0, <1>6
  <2>2. i + 1 \in 1..N /\ (i + 1) - 1 = i
    BY <1>0
  <2>3. x \in Cut /\ Place(x) = i + 1
    BY <1>0, <2>2
  <2>4. used[i + 1] = UsedAfter(node, x, cut[x], used[i])
    BY <1>4, <2>2
  <2>5. new[x] = Processed(node, x, cut[x], used[i])
    BY <1>1, <2>2, <2>3
  <2>6. used[i + 1] = used[i] - Weight(x, cut[x].gpu) + Weight(x, new[x].gpu)
    <3> HIDE DEF x
    <3>1. cut[x] \in VirtualNode
      BY <2>3
    <3> QED
      BY <2>1, <2>3, <2>4, <2>5, <3>1, ProcessedKeeps
  <2>7. g[x] = Weight(x, cut[x].gpu) /\ h[x] = Weight(x, new[x].gpu)
    <3> HIDE DEF x
    <3> QED
      BY <2>3
  <2>8. \A v \in Cut \ {x} : g[v] = h[v]
    <3> SUFFICES ASSUME NEW v \in Cut \ {x} PROVE g[v] = h[v]
      OBVIOUS
    <3>1. Place(v) # i + 1 /\ Place(v) \in Nat
      BY <1>0
    <3>2. Place(v) <= i <=> Place(v) <= i + 1
      BY <3>1
    <3> QED
      BY <3>2
  <2>9. \A v \in Cut : g[v] \in Nat /\ h[v] \in Nat
    BY <1>2
  <2>10. s0 \in Nat
    BY <1>3
  <2> HIDE DEF g, h, s0, x
  <2>11. SumFunctionOnSet(g, Cut) \in Nat /\ SumFunctionOnSet(h, Cut) = SumFunctionOnSet(g, Cut) - g[x] + h[x]
    BY <2>3, <2>8, <2>9, ConstantsFinite, SumChanges
  <2>12. g[x] \in Nat /\ h[x] \in Nat
    BY <2>3, <2>9
  <2>13. used[i + 1] \in Int /\ used[i + 1] = gpuCut - s0 + SumFunctionOnSet(h, Cut)
    BY <2>1, <2>6, <2>7, <2>10, <2>11, <2>12
  <2> QED
    BY <2>13 DEF s0, h
<1>7. \A i \in Nat : i \in I
  <2> HIDE DEF I
  <2> QED
    BY <1>5, <1>6, AllNumbers
<1>8. used[N] = gpuCut - SumFunctionOnSet(f(0), Cut) + SumFunctionOnSet(f(N), Cut)
  BY <1>0, <1>7
<1>9. SumFunctionOnSet(f(0), Cut) = Held(old)
  <2> DEFINE g == f(0)
  <2>1. \A v \in Cut : g[v] = Weight(v, old.cut[v].gpu)
    BY <1>0
  <2> HIDE DEF g
  <2>2. Held(old) = SumFunctionOnSet(g, Cut)
    BY <2>1, HeldWeighs
  <2> QED
    BY <2>2 DEF g
<1>10. SumFunctionOnSet(f(N), Cut) = Held(now)
  <2> DEFINE g == f(N)
  <2>1. \A v \in Cut : g[v] = Weight(v, now.cut[v].gpu)
    BY <1>0 DEF new
  <2> HIDE DEF g
  <2>2. Held(now) = SumFunctionOnSet(g, Cut)
    BY <2>1, HeldWeighs
  <2> QED
    BY <2>2 DEF g
<1>11. ASSUME NEW v \in Cut PROVE new[v] \in VirtualNode /\ KeepsJob(cut[v], new[v])
  <2>1. used[Place(v) - 1] \in Int
    <3>1. Place(v) - 1 \in Nat /\ Place(v) - 1 <= N
      BY <1>0
    <3> QED
      BY <1>7, <3>1
  <2>2. new[v] = Processed(node, v, cut[v], used[Place(v) - 1]) /\ cut[v] \in VirtualNode
    BY <1>1
  <2> QED
    BY <2>1, <2>2, ProcessedKeeps
<1>12. new = [v \in Cut |-> new[v]]
  BY DEF new, ProcessedCut
<1> QED
  BY <1>8, <1>9, <1>10, <1>11, <1>12 DEF new, used, N

\* What the walk of a cut makes of its node, before the monolith may go.
IsDrawn(node, select, cut, live, pruned, built, now) ==
  /\ Good(node) /\ node.source /\ select \in SUBSET Cut
  /\ cut \in [Cut -> VirtualNode] /\ \A v \in Cut : KeepsJob(Walked(node.cut[v], v \in select), cut[v])
  /\ live \in 0..FreeAfter /\ pruned \in BOOLEAN /\ (pruned => \A v \in Octants : cut[v].mat = "none")
  /\ built \in BOOLEAN /\ ((node.built \/ select \ {"root"} # {}) /\ ~pruned => built)
  /\ now = [node EXCEPT !.cut = cut, !.built = built, !.live = live, !.suppressed = TRUE]

LEMMA DrawnKeeps ==
  ASSUME NEW node, NEW select, NEW cut, NEW live, NEW pruned, NEW built, NEW now,
         IsDrawn(node, select, cut, live, pruned, built, now)
  PROVE  /\ Keeps(node, now, {}) /\ now.cut = cut /\ now.source /\ now.gpu = node.gpu /\ now.io = node.io
         /\ \A v \in select : node.cut[v].mat = "none" => JobSound(now, v)
<1> USE DEF IsDrawn
<1>0. node \in RenderNode /\ NodeSound(node) /\ node.cut \in [Cut -> VirtualNode]
  BY RenderNodeCut DEF Good
<1>6. now \in RenderNode
  BY <1>0 DEF RenderNode
<1>7. /\ now.of = node.of /\ now.cut = cut /\ now.io = node.io /\ now.gpu = node.gpu /\ now.freed = node.freed
      /\ now.source = node.source /\ now.resident = node.resident /\ now.building = node.building
      /\ now.ready = node.ready /\ now.pending = node.pending /\ now.handler = node.handler /\ now.built = built
      /\ now.asked = node.asked /\ now.done = node.done
  BY <1>0 DEF RenderNode
<1>9. NodeSound(now)
  BY <1>0, <1>7 DEF NodeSound
<1>10. ASSUME NEW v \in Cut PROVE KeepsJob(node.cut[v], cut[v])
  <2>1. node.cut[v] \in VirtualNode /\ (v \in select) \in BOOLEAN
    BY <1>0
  <2>2. KeepsJob(node.cut[v], Walked(node.cut[v], v \in select))
    BY <2>1, WalkedKeeps
  <2> QED
    BY <2>2 DEF KeepsJob
<1>11. \A v \in Octants : cut[v].mat = "materializing" => ~pruned
  OBVIOUS
<1>12. \A kind \in Kinds : JobSound(node, kind) => JobSound(now, kind)
  <2> SUFFICES ASSUME NEW kind \in Kinds, JobSound(node, kind) PROVE JobSound(now, kind)
    OBVIOUS
  <2>1. CASE kind = "convert"
    BY <1>7, <2>1, ConstantsFinite DEF JobSound, Cut
  <2>2. CASE kind = "build"
    BY <1>7, <2>2, ConstantsFinite DEF JobSound, Cut
  <2>3. CASE kind \in Cut
    <3>1. cut[kind].mat = "materializing" /\ ~cut[kind].done
      BY <1>10, <2>3 DEF KeepsJob, JobSound
    <3>2. kind \in Octants => built
      BY <1>11, <3>1 DEF JobSound
    <3> QED
      BY <1>7, <2>3, <3>1, <3>2, ConstantsFinite DEF JobSound
  <2> QED
    BY <2>1, <2>2, <2>3 DEF Kinds
<1>13. ASSUME NEW v \in select, node.cut[v].mat = "none" PROVE JobSound(now, v)
  <2>1. v \in Cut /\ node.cut[v] \in VirtualNode
    BY <1>0
  <2>2. Walked(node.cut[v], TRUE).mat = "materializing" /\ ~Walked(node.cut[v], TRUE).done
    BY <1>13, <2>1, WalkedKeeps
  <2>3. KeepsJob(Walked(node.cut[v], v \in select), cut[v]) /\ (v \in select) = TRUE
    BY <2>1
  <2>4. cut[v].mat = "materializing" /\ ~cut[v].done
    BY <2>2, <2>3 DEF KeepsJob
  <2>5. v \in Octants => built
    <3>1. v \in Octants => v # "root"
      BY RenderAssumption
    <3> QED
      BY <1>11, <2>4, <3>1
  <2> QED
    BY <1>7, <2>1, <2>4, <2>5, ConstantsFinite DEF JobSound
<1> QED
  BY <1>6, <1>7, <1>9, <1>12, <1>13 DEF Keeps, Good

\* The monolith is freed under a cut that covers it.
LEMMA FreedKeeps ==
  ASSUME NEW node, Good(node), node.gpu,
         NEW now, now = [node EXCEPT !.gpu = FALSE, !.io = "none", !.sized = FALSE, !.freed = TRUE]
  PROVE  Keeps(node, now, {}) /\ now.cut = node.cut /\ now.source = node.source
<1>1. now \in RenderNode
  BY DEF Good, RenderNode
<1>2. /\ now.of = node.of /\ now.cut = node.cut /\ now.io = "none" /\ now.gpu = FALSE /\ now.freed = TRUE
      /\ now.source = node.source /\ now.resident = node.resident /\ now.building = node.building
      /\ now.ready = node.ready /\ now.pending = node.pending /\ now.handler = node.handler /\ now.built = node.built
  BY DEF Good, RenderNode
<1>3. node.io = "loaded"
  BY DEF Good, NodeSound
<1> QED
  BY <1>1, <1>2, <1>3, SoundFields

-----------------------------------------------------------------------------
(***************************************************************************)
(* Choices: the first node of the list, the farthest one, free addresses.  *)
(***************************************************************************)
LEMMA LeastNumber ==
  ASSUME NEW S, S # {}, S \subseteq Nat
  PROVE  \E n \in S : \A m \in S : n <= m
<1>1. PICK n \in S : \A m \in S : ~(<<m, n>> \in Less)
  BY LessIsWellFounded, WFMin
<1>2. \A m \in S : ~(m < n)
  BY <1>1, LessIsLess
<1>3. \A m \in S : m \in Nat /\ n \in Nat
  OBVIOUS
<1> QED
  BY <1>2, <1>3

LEMMA GreatestNumber ==
  ASSUME NEW S, S # {}, S \subseteq Nat, IsFiniteSet(S)
  PROVE  \E n \in S : \A m \in S : n >= m
<1> DEFINE I == {k \in Nat : \A T \in SUBSET S : Cardinality(T) = k + 1 => \E n \in T : \A m \in T : n >= m}
<1>1. 0 \in I
  <2> SUFFICES ASSUME NEW T \in SUBSET S, Cardinality(T) = 1 PROVE \E n \in T : \A m \in T : n >= m
    OBVIOUS
  <2>1. PICK x : T = {x}
    BY Smaller, FS_Singleton
  <2> QED
    BY <2>1
<1>2. ASSUME NEW k \in Nat, k \in I PROVE k + 1 \in I
  <2> SUFFICES ASSUME NEW T \in SUBSET S, Cardinality(T) = k + 2 PROVE \E n \in T : \A m \in T : n >= m
    OBVIOUS
  <2>1. PICK x : x \in T
    BY Smaller
  <2>2. Cardinality(T \ {x}) = k + 1
    <3>1. Cardinality(T \ {x}) = Cardinality(T) - 1
      BY <2>1, Smaller
    <3> QED
      BY <3>1
  <2>3. PICK n \in T \ {x} : \A m \in T \ {x} : n >= m
    BY <1>2, <2>2
  <2>4. CASE n >= x
    BY <2>3, <2>4
  <2>5. CASE ~(n >= x)
    <3>1. x \in Nat /\ \A m \in T : m \in Nat
      BY <2>1
    <3>2. \A m \in T : x >= m
      BY <2>3, <2>5, <3>1
    <3> QED
      BY <2>1, <3>2
  <2> QED
    BY <2>4, <2>5
<1>3. \A k \in Nat : k \in I
  <2> HIDE DEF I
  <2> QED
    BY <1>1, <1>2, AllNumbers
<1>4. Cardinality(S) \in Nat /\ Cardinality(S) # 0
  BY FS_CardinalityType, FS_EmptySet
<1>5. Cardinality(S) - 1 \in Nat /\ Cardinality(S) = (Cardinality(S) - 1) + 1
  BY <1>4
<1> QED
  BY <1>3, <1>5

LEMMA FirstIn == ASSUME NEW S, S # {}, S \subseteq Nodes PROVE First(S) \in S
<1> DEFINE I == {i \in DOMAIN Order : Order[i] \in S}
<1>1. DOMAIN Order \subseteq Nat /\ \A n \in Nodes : \E i \in DOMAIN Order : Order[i] = n
  BY RenderAssumption DEF Range
<1>2. I # {} /\ I \subseteq Nat
  BY <1>1
<1>3. PICK i \in I : \A j \in I : i <= j
  <2> HIDE DEF I
  <2> QED
    BY <1>2, LeastNumber
<1>4. \E k : k \in DOMAIN Order /\ Order[k] \in S /\ \A j \in DOMAIN Order : Order[j] \in S => k <= j
  BY <1>3
<1> QED
  BY <1>4 DEF First

LEMMA FarthestIn == ASSUME NEW S, S # {}, S \subseteq Nodes, cam \in Cams PROVE Farthest(S) \in S
<1> DEFINE near == Near[cam]
           I == {j \in DOMAIN near : near[j] \in S}
           N == Len(near)
           Back == {N - j : j \in I}
<1>1. /\ near \in Seq(Nodes) /\ (\A n \in Nodes : \E j \in DOMAIN near : near[j] = n)
      /\ \A i, j \in DOMAIN near : near[i] = near[j] => i = j
  BY RenderAssumption DEF Range, IsInjective
<1>2. DOMAIN near = 1..N /\ N \in Nat
  BY <1>1
<1> HIDE DEF near, N
<1>3. Back # {} /\ Back \subseteq Nat
  BY <1>1, <1>2
<1>4. PICK b \in Back : \A c \in Back : b <= c
  <2> HIDE DEF Back
  <2> QED
    BY <1>3, LeastNumber
<1>5. PICK j \in I : b = N - j
  BY <1>4
<1>6. \A i \in I : i <= j
  <2> SUFFICES ASSUME NEW i \in I PROVE i <= j
    OBVIOUS
  <2>1. N - j <= N - i /\ i \in Nat /\ j \in Nat
    BY <1>2, <1>4, <1>5
  <2> QED
    BY <1>2, <2>1
<1>7. Closer(S, near[j]) = S \ {near[j]}
  <2>1. ASSUME NEW m \in S \ {near[j]} PROVE m \in Closer(S, near[j])
    <3>1. PICK i \in DOMAIN near : near[i] = m
      BY <1>1
    <3>2. i \in I /\ i # j /\ i \in Nat /\ j \in Nat
      BY <1>2, <3>1
    <3>3. i < j
      BY <1>6, <3>2
    <3> QED
      BY <3>1, <3>3 DEF Closer, near
  <2>2. near[j] \notin Closer(S, near[j])
    <3> SUFFICES ASSUME NEW i \in DOMAIN near, NEW k \in DOMAIN near, i < k, near[i] = near[j], near[k] = near[j]
                 PROVE  FALSE
      BY DEF Closer, near
    <3> QED
      BY <1>1, <1>2
  <2> QED
    BY <2>1, <2>2 DEF Closer
<1>8. \E n : n \in S /\ Closer(S, n) = S \ {n}
  BY <1>5, <1>7
<1> QED
  BY <1>8 DEF Farthest

LEMMA InjectionExists ==
  ASSUME NEW S, NEW T, IsFiniteSet(S), IsFiniteSet(T), Cardinality(S) <= Cardinality(T)
  PROVE  \E f : f \in Injection(S, T)
<1> DEFINE m == Cardinality(S)
           n == Cardinality(T)
<1>1. m \in Nat /\ n \in Nat /\ ExistsBijection(1..m, S) /\ ExistsBijection(1..n, T)
  BY FS_CardinalityType
<1>2. PICK f : f \in Bijection(1..m, S)
  BY <1>1 DEF ExistsBijection
<1>3. PICK g : g \in Bijection(1..n, T)
  BY <1>1 DEF ExistsBijection
<1>4. \A s \in S : \E i \in 1..m : f[i] = s
  BY <1>2 DEF Bijection, Surjection
<1>5. /\ g \in [1..n -> T] /\ \A i, j \in 1..n : g[i] = g[j] => i = j
  BY <1>3 DEF Bijection, Injection, IsInjective
<1> DEFINE at(s) == CHOOSE i \in 1..m : f[i] = s
           h == [s \in S |-> g[at(s)]]
<1>6. \A s \in S : at(s) \in 1..m /\ f[at(s)] = s
  BY <1>4
<1>7. m <= n
  OBVIOUS
<1> HIDE DEF m, n, at
<1>8. \A s \in S : at(s) \in 1..n
  BY <1>1, <1>6, <1>7
<1>9. \A s, t \in S : h[s] = h[t] => s = t
  BY <1>5, <1>6, <1>8
<1>10. h \in [S -> T] /\ IsInjective(h)
  BY <1>5, <1>8, <1>9 DEF IsInjective
<1> QED
  BY <1>10 DEF Injection

LEMMA AddressesAre ==
  ASSUME NEW S, S \subseteq Nodes, Cardinality(S) <= Cardinality(Objs \ Alive)
  PROVE  /\ Addresses(S) \in [S -> Objs \ Alive]
         /\ \A m, n \in S : Addresses(S)[m] = Addresses(S)[n] => m = n
<1>1. IsFiniteSet(S) /\ IsFiniteSet(Objs \ Alive)
  BY ConstantsFinite, FS_Subset
<1>2. \E f : f \in Injection(S, Objs \ Alive)
  BY <1>1, InjectionExists
<1>3. Addresses(S) \in Injection(S, Objs \ Alive)
  BY <1>2 DEF Addresses
<1> QED
  BY <1>3 DEF Injection, IsInjective

-----------------------------------------------------------------------------
(***************************************************************************)
(* The objects of a step.                                                  *)
(***************************************************************************)
LEMMA ListedAre == Placed => /\ Listed \subseteq Nodes
                             /\ \A n \in Listed : list[n] \in Alive /\ At(n) = obj[list[n]] /\ At(n).of = n
BY DEF Placed, Listed, At

LEMMA KeepsSelf == \A node : Good(node) => Keeps(node, node, {})
BY DEF Keeps

LEMMA KeepsTwice ==
  ASSUME NEW node, NEW now, NEW last, Keeps(node, now, {}), Keeps(now, last, {})
  PROVE  Keeps(node, last, {})
BY DEF Keeps

LEMMA AliveFinite == Objects => IsFiniteSet(Alive)
BY ConstantsFinite, FS_Subset DEF Objects

\* The same objects at the same places.
LEMMA ObjectsStay ==
  ASSUME Objects, Placed, Alive' = Alive, obj' = [o \in Alive |-> obj'[o]],
         \A o \in Alive : Good(obj'[o]) /\ obj'[o].of = obj[o].of,
         list' = list, parked' = parked, cam' = cam
  PROVE  Objects' /\ Placed' /\ Listed' = Listed
<1>1. Listed' = Listed
  BY DEF Listed
<1>2. Objects'
  BY DEF Objects
<1>3. Placed'
  <2>1. \A n \in Listed : At(n)' = obj'[list[n]] /\ list[n] \in Alive
    BY ListedAre DEF At
  <2> QED
    BY <1>1, <2>1, ListedAre DEF Placed
<1> QED
  BY <1>1, <1>2, <1>3

\* The jobs of before are still sound, and so are the new ones.
LEMMA JobsStay ==
  ASSUME JobsKnown, Alive' = Alive, \A o \in Alive : Keeps(obj[o], obj'[o], {}), jobs' \subseteq Objs \X Kinds,
         \A job \in jobs' \ jobs : job[1] \in Alive /\ JobSound(obj'[job[1]], job[2])
  PROVE  JobsKnown'
<1>1. ASSUME NEW job \in jobs' PROVE job[1] \in Alive /\ JobSound(obj'[job[1]], job[2])
  <2>1. CASE job \in jobs
    <3>1. job[1] \in Alive /\ JobSound(obj[job[1]], job[2]) /\ job[2] \in Kinds
      BY <2>1 DEF JobsKnown
    <3> QED
      BY <3>1 DEF Keeps
  <2> QED
    BY <2>1
<1> QED
  BY <1>1 DEF JobsKnown, JobSound

\* One object changes.
LEMMA OneChanges ==
  ASSUME Objects, NEW o \in Alive, NEW now, Good(now), now.of = obj[o].of, obj' = [obj EXCEPT ![o] = now]
  PROVE  /\ Alive' = Alive /\ obj' = [x \in Alive |-> obj'[x]] /\ obj'[o] = now
         /\ \A x \in Alive \ {o} : obj'[x] = obj[x]
         /\ \A x \in Alive : Good(obj'[x]) /\ obj'[x].of = obj[x].of
         /\ Keeps(obj[o], now, {}) => \A x \in Alive : Keeps(obj[x], obj'[x], {})
         /\ Total(obj') = Total(obj) - Held(obj[o]) + Held(now)
         /\ Total(obj) \in Nat /\ Total(obj) >= Held(obj[o])
<1>1. /\ Alive' = Alive /\ obj' = [x \in Alive |-> obj'[x]] /\ obj'[o] = now
      /\ \A x \in Alive \ {o} : obj'[x] = obj[x]
  BY DEF Alive, Objects
<1>2. \A x \in Alive : Good(obj'[x]) /\ obj'[x].of = obj[x].of
  BY <1>1 DEF Objects
<1>3. Keeps(obj[o], now, {}) => \A x \in Alive : Keeps(obj[x], obj'[x], {})
  BY <1>1, KeepsSelf DEF Objects
<1>4. PICK p : p = obj
  OBVIOUS
<1>5. PICK q : q = obj'
  OBVIOUS
<1>6. DOMAIN p = Alive /\ DOMAIN q = Alive /\ IsFiniteSet(Alive)
  BY <1>1, <1>4, <1>5, AliveFinite DEF Alive
<1>7. \A x \in DOMAIN p \ {o} : Held(q[x]) = Held(p[x])
  BY <1>1, <1>4, <1>5, <1>6
<1>8. Total(p) \in Nat /\ Total(p) >= Held(p[o]) /\ Total(q) = Total(p) - Held(p[o]) + Held(q[o])
  BY <1>6, <1>7, TotalReplaced
<1> QED
  BY <1>1, <1>2, <1>3, <1>4, <1>5, <1>8

\* Objects that change and hold what they held.
LEMMA AllHold ==
  ASSUME Objects, Alive' = Alive, obj' = [o \in Alive |-> obj'[o]], \A o \in Alive : SameCut(obj[o], obj'[o])
  PROVE  Total(obj') = Total(obj)
<1>1. PICK p : p = obj
  OBVIOUS
<1>2. PICK q : q = obj'
  OBVIOUS
<1>3. DOMAIN p = Alive /\ DOMAIN q = Alive /\ IsFiniteSet(Alive)
  BY <1>1, <1>2, AliveFinite DEF Alive
<1>4. \A o \in DOMAIN p : Held(p[o]) = Held(q[o])
  BY <1>1, <1>2, <1>3, HeldSame DEF SameCut
<1>5. Total(q) = Total(p)
  BY <1>3, <1>4, TotalSame
<1> QED
  BY <1>1, <1>2, <1>5

LEMMA AccountedLater ==
  ASSUME Objects', gpuCut' = Total(obj')
  PROVE  GpuAccounted'
<1>1. Total(obj') = CutsBytes(Alive)'
  BY DEF Total, CutsBytes, CutBytes, Held, Alive
<1> QED
  BY <1>1 DEF GpuAccounted

-----------------------------------------------------------------------------
(***************************************************************************)
(* The invariant, step by step.                                            *)
(***************************************************************************)
LEMMA InitInv == Init => IInv
<1> SUFFICES ASSUME Init PROVE IInv
  OBVIOUS
<1>1. Alive = {} /\ Listed = {}
  BY DEF Init, Alive, Listed
<1>2. Objects
  <2>1. obj = [o \in Alive |-> obj[o]]
    BY <1>1 DEF Init
  <2> QED
    BY <1>1, <2>1 DEF Objects
<1>3. JobsKnown
  BY DEF Init, JobsKnown
<1>4. Placed
  <2>1. Objs \ Alive = Objs /\ Walk[cam] \ Listed = Walk[Start]
    BY <1>1 DEF Init
  <2> QED
    BY <1>1, <2>1, RenderAssumption DEF Init, Placed
<1>5. Scalars
  <2>1. nextAttr \in Attrs
    BY RenderAssumption DEF Init
  <2>2. budget \in CpuBudgets
    <3>1. PICK b \in CpuBudgets : \A c \in CpuBudgets : b >= c
      BY RenderAssumption, GreatestNumber
    <3>2. \E x : x \in CpuBudgets /\ \A c \in CpuBudgets : x >= c
      BY <3>1
    <3> QED
      BY <3>2 DEF Init, Max
  <2> QED
    BY <2>1, <2>2, RenderAssumption DEF Init, Scalars
<1>6. Turns /\ CpuAccounted
  BY DEF Init, Turns, CpuAccounted
<1>7. GpuAccounted
  <2>1. Total(obj) = 0
    <3> DEFINE g == [o \in DOMAIN obj |-> Held(obj[o])]
    <3>1. Total(obj) = SumFunctionOnSet(g, {})
      BY <1>1 DEF Total, SumFunction, Alive
    <3> QED
      BY <3>1, SumOfNothing
  <2> QED
    BY <1>2, <2>1, AccountedAsTotal DEF Init
<1> QED
  BY <1>2, <1>3, <1>4, <1>5, <1>6, <1>7 DEF IInv

LEMMA StutterInv == IInv /\ UNCHANGED vars => IInv'
<1> SUFFICES ASSUME IInv, UNCHANGED vars PROVE IInv'
  OBVIOUS
<1>0. /\ obj' = obj /\ list' = list /\ parked' = parked /\ jobs' = jobs /\ pc' = pc /\ todo' = todo
      /\ cam' = cam /\ attr' = attr /\ nextAttr' = nextAttr /\ enabled' = enabled /\ brake' = brake /\ budget' = budget
      /\ builds' = builds /\ cpuUsed' = cpuUsed /\ gpuCut' = gpuCut /\ realGpu' = realGpu /\ inputs' = inputs
  BY DEF vars
<1>1. Objects' /\ JobsKnown' /\ Placed'
  BY <1>0 DEF IInv, Objects, JobsKnown, Placed, Alive, Listed, At, Good, JobSound, NodeSound, RenderNode, VirtualNode
<1>2. Scalars' /\ Turns'
  BY <1>0 DEF IInv, Scalars, Turns, Listed, At
<1>3. GpuAccounted' /\ CpuAccounted'
  BY <1>0 DEF IInv, GpuAccounted, CpuAccounted, CutsBytes, CutBytes, Alive, Pinned, Listed, At
<1> QED
  BY <1>1, <1>2, <1>3 DEF IInv

Core == Objects /\ JobsKnown /\ Placed /\ GpuAccounted

\* Steps that leave the objects alone.
LEMMA NothingMoves ==
  ASSUME Core, obj' = obj, list' = list, parked' = parked, jobs' = jobs, gpuCut' = gpuCut, cam' = cam
  PROVE  Core' /\ Listed' = Listed /\ Alive' = Alive /\ \A n \in Nodes : At(n)' = At(n)
<1>1. Objects' /\ JobsKnown' /\ Placed'
  BY DEF Core, Objects, JobsKnown, Placed, Alive, Listed, At, Good, JobSound, NodeSound, RenderNode, VirtualNode
<1>2. GpuAccounted'
  BY DEF Core, GpuAccounted, CutsBytes, CutBytes, Alive
<1>3. Listed' = Listed /\ Alive' = Alive /\ \A n \in Nodes : At(n)' = At(n)
  BY DEF Listed, Alive, At
<1> QED
  BY <1>1, <1>2, <1>3 DEF Core

\* Steps that change objects in ways their jobs do not mind.
LEMMA OnlyChanges ==
  ASSUME Core, Alive' = Alive, obj' = [o \in Alive |-> obj'[o]],
         \A o \in Alive : Keeps(obj[o], obj'[o], {}) /\ SameCut(obj[o], obj'[o]),
         list' = list, parked' = parked, cam' = cam, gpuCut' = gpuCut, jobs' \subseteq Objs \X Kinds,
         \A job \in jobs' \ jobs : job[1] \in Alive /\ JobSound(obj'[job[1]], job[2])
  PROVE  Core' /\ Listed' = Listed
<1>1. Objects' /\ Placed' /\ Listed' = Listed
  BY ObjectsStay DEF Core, Keeps
<1>2. JobsKnown'
  BY JobsStay DEF Core
<1>3. GpuAccounted'
  <2>1. Total(obj') = Total(obj)
    BY AllHold DEF Core
  <2>2. gpuCut = Total(obj)
    BY AccountedAsTotal DEF Core
  <2> QED
    BY <1>1, <2>1, <2>2, AccountedLater
<1> QED
  BY <1>1, <1>2, <1>3 DEF Core

LEMMA ReadDoneInv == ASSUME IInv, NEW o \in Objs, ReadDone(o) PROVE IInv'
<1> USE DEF IInv
<1>0. /\ Pause /\ o \in Alive /\ obj' = [obj EXCEPT ![o].load = "ready"]
      /\ list' = list /\ parked' = parked /\ jobs' = jobs /\ pc' = pc /\ todo' = todo
      /\ cam' = cam /\ attr' = attr /\ nextAttr' = nextAttr /\ enabled' = enabled /\ brake' = brake /\ budget' = budget
      /\ builds' = builds /\ cpuUsed' = cpuUsed /\ gpuCut' = gpuCut /\ realGpu' = realGpu /\ inputs' = inputs
  BY DEF ReadDone, env
<1> DEFINE now == [obj[o] EXCEPT !.load = "ready"]
<1>1. Good(obj[o])
  BY <1>0 DEF Objects
<1>2. Keeps(obj[o], now, {}) /\ SameCut(obj[o], now)
  <2>1. PICK node : node = obj[o]
    OBVIOUS
  <2> DEFINE new == [node EXCEPT !.load = "ready"]
  <2>2. new \in RenderNode
    BY <1>1, <2>1 DEF Good, RenderNode
  <2>3. /\ new.of = node.of /\ new.cut = node.cut /\ new.io = node.io /\ new.gpu = node.gpu /\ new.freed = node.freed
        /\ new.source = node.source /\ new.resident = node.resident /\ new.building = node.building
        /\ new.ready = node.ready /\ new.pending = node.pending /\ new.handler = node.handler /\ new.built = node.built
        /\ new.asked = node.asked /\ new.done = node.done
    BY <1>1, <2>1 DEF Good, RenderNode
  <2> HIDE DEF new
  <2>4. NodeSound(new)
    BY <1>1, <2>1, <2>3 DEF Good, NodeSound
  <2>5. \A kind \in Kinds : JobSound(node, kind) => JobSound(new, kind)
    BY <2>3 DEF JobSound
  <2>6. Keeps(node, new, {}) /\ SameCut(node, new)
    BY <2>2, <2>3, <2>4, <2>5 DEF Keeps, Good, SameCut
  <2> QED
    BY <2>1, <2>6 DEF new
<1>3. obj' = [obj EXCEPT ![o] = now]
  BY <1>0
<1> HIDE DEF now
<1>4. /\ Alive' = Alive /\ obj' = [x \in Alive |-> obj'[x]]
      /\ obj'[o] = now /\ \A x \in Alive \ {o} : obj'[x] = obj[x]
      /\ \A x \in Alive : Keeps(obj[x], obj'[x], {})
  BY <1>0, <1>2, <1>3, OneChanges DEF Keeps
<1>5. \A x \in Alive : SameCut(obj[x], obj'[x])
  BY <1>2, <1>4 DEF SameCut
<1>6. Core' /\ Listed' = Listed
  BY <1>0, <1>4, <1>5, OnlyChanges DEF Core, JobsKnown
<1>7. Scalars' /\ Turns' /\ CpuAccounted'
  BY <1>0, <1>6 DEF Scalars, Turns, CpuAccounted, Pause
<1> QED
  BY <1>6, <1>7 DEF Core

LEMMA FinishJobInv == ASSUME IInv, NEW o \in Objs, NEW kind \in Kinds, FinishJob(o, kind) PROVE IInv'
<1> USE DEF IInv
<1>0. /\ Pause /\ <<o, kind>> \in jobs /\ jobs' = jobs \ {<<o, kind>>}
      /\ obj' = (IF o \in Alive THEN [obj EXCEPT ![o] = Written(obj[o], kind)] ELSE obj)
      /\ list' = list /\ parked' = parked /\ pc' = pc /\ todo' = todo
      /\ cam' = cam /\ attr' = attr /\ nextAttr' = nextAttr /\ enabled' = enabled /\ brake' = brake /\ budget' = budget
      /\ builds' = builds /\ cpuUsed' = cpuUsed /\ gpuCut' = gpuCut /\ realGpu' = realGpu /\ inputs' = inputs
  BY DEF FinishJob, env
<1>1. o \in Alive /\ JobSound(obj[o], kind)
  <2>1. <<o, kind>>[1] = o /\ <<o, kind>>[2] = kind
    OBVIOUS
  <2>2. \A job \in jobs : job[1] \in Alive /\ JobSound(obj[job[1]], job[2])
    BY DEF JobsKnown
  <2> QED
    BY <1>0, <2>1, <2>2
<1> DEFINE now == Written(obj[o], kind)
<1>2. Good(obj[o])
  BY <1>1 DEF Objects
<1>3. Keeps(obj[o], now, {kind}) /\ SameCut(obj[o], now)
  BY <1>1, <1>2, WrittenKeeps
<1>4. obj' = [obj EXCEPT ![o] = now]
  BY <1>0, <1>1
<1> HIDE DEF now
<1>5. /\ Alive' = Alive /\ obj' = [x \in Alive |-> obj'[x]]
      /\ obj'[o] = now /\ \A x \in Alive \ {o} : obj'[x] = obj[x]
      /\ \A x \in Alive : Good(obj'[x]) /\ obj'[x].of = obj[x].of
  BY <1>1, <1>3, <1>4, OneChanges DEF Keeps
<1>6. Objects' /\ Placed' /\ Listed' = Listed
  BY <1>0, <1>5, ObjectsStay
<1>7. JobsKnown'
  <2>1. ASSUME NEW job \in jobs' PROVE job[1] \in Alive /\ JobSound(obj'[job[1]], job[2])
    <3>1. job \in jobs /\ job # <<o, kind>> /\ job \in Objs \X Kinds
      BY <1>0 DEF JobsKnown
    <3>2. job[1] \in Alive /\ JobSound(obj[job[1]], job[2]) /\ job[2] \in Kinds
      BY <3>1 DEF JobsKnown
    <3>3. CASE job[1] # o
      BY <1>5, <3>2, <3>3
    <3>4. CASE job[1] = o
      <4>1. job[2] # kind
        BY <3>1, <3>4
      <4>2. JobSound(obj[o], job[2])
        BY <3>2, <3>4
      <4>3. JobSound(now, job[2])
        BY <1>3, <3>2, <4>1, <4>2 DEF Keeps
      <4> QED
        BY <1>5, <3>2, <3>4, <4>3
    <3> QED
      BY <3>3, <3>4
  <2>2. jobs' \subseteq Objs \X Kinds
    BY <1>0 DEF JobsKnown
  <2> QED
    BY <1>5, <2>1, <2>2 DEF JobsKnown, JobSound
<1>8. GpuAccounted'
  <2>1. \A x \in Alive : SameCut(obj[x], obj'[x])
    BY <1>3, <1>5 DEF SameCut
  <2>2. Total(obj') = Total(obj)
    BY <1>5, <2>1, AllHold
  <2> QED
    BY <1>0, <1>6, <2>2, AccountedAsTotal, AccountedLater
<1>9. Scalars' /\ Turns' /\ CpuAccounted'
  BY <1>0, <1>6 DEF Scalars, Turns, CpuAccounted, Pause
<1> QED
  BY <1>6, <1>7, <1>8, <1>9

\* The inputs that change no object.
LEMMA SettingInv == ASSUME IInv, SetAttribute \/ SetBudget \/ RaiseBrake PROVE IInv'
<1> USE DEF IInv
<1>0. /\ obj' = obj /\ list' = list /\ parked' = parked /\ jobs' = jobs /\ pc' = pc /\ pc = "idle" /\ todo' = todo
      /\ cam' = cam /\ attr' = attr /\ enabled' = enabled
      /\ builds' = builds /\ cpuUsed' = cpuUsed /\ gpuCut' = gpuCut /\ realGpu' = realGpu
      /\ inputs < MaxInputs /\ inputs' = inputs + 1
  BY DEF SetAttribute, SetBudget, RaiseBrake, Input
<1>1. Core'
  BY <1>0, NothingMoves DEF Core
<1>2. Scalars'
  <2>1. nextAttr' \in Attrs /\ budget' \in CpuBudgets /\ brake' \in 0..2
    BY DEF SetAttribute, SetBudget, RaiseBrake, Scalars
  <2>2. inputs' \in 0..MaxInputs
    BY <1>0, RenderAssumption DEF Scalars
  <2> QED
    BY <1>0, <2>1, <2>2 DEF Scalars
<1>3. Turns' /\ CpuAccounted'
  BY <1>0 DEF Turns, CpuAccounted
<1> QED
  BY <1>1, <1>2, <1>3 DEF Core

LEMMA MoveCameraInv == ASSUME IInv, MoveCamera PROVE IInv'
<1> USE DEF IInv
<1>0. /\ obj' = obj /\ list' = list /\ parked' = parked /\ jobs' = jobs /\ pc' = pc /\ pc = "idle" /\ todo' = todo
      /\ attr' = attr /\ nextAttr' = nextAttr /\ enabled' = enabled /\ brake' = brake /\ budget' = budget
      /\ builds' = builds /\ cpuUsed' = cpuUsed /\ gpuCut' = gpuCut /\ realGpu' = realGpu
      /\ inputs < MaxInputs /\ inputs' = inputs + 1
  BY DEF MoveCamera, Input
<1>1. PICK c \in Cams : Cardinality(Walk[c] \ Listed) <= Cardinality(Objs \ Alive) /\ cam' = c
  BY DEF MoveCamera
<1>2. Objects' /\ JobsKnown' /\ GpuAccounted'
  BY <1>0 DEF Objects, JobsKnown, GpuAccounted, CutsBytes, CutBytes, Alive, Good, JobSound, NodeSound, RenderNode, VirtualNode
<1>3. Placed'
  BY <1>0, <1>1 DEF Placed, Alive, Listed, At
<1>4. Scalars'
  BY <1>0, <1>1, RenderAssumption DEF Scalars
<1>5. Turns' /\ CpuAccounted'
  BY <1>0 DEF Turns, CpuAccounted
<1> QED
  BY <1>2, <1>3, <1>4, <1>5

LEMMA TurnOnInv == ASSUME IInv, TurnOn PROVE IInv'
<1> USE DEF IInv
<1> DEFINE marked == {list[n] : n \in Leaves \cap Listed}
           mark(o) == [obj[o] EXCEPT !.lost = @ \/ (obj[o].handler = None /\ ~obj[o].source /\ ~obj[o].building /\ obj[o].gpu)]
<1>0. /\ obj' = With(obj, marked, mark) /\ enabled' = TRUE
      /\ list' = list /\ parked' = parked /\ jobs' = jobs /\ pc' = pc /\ pc = "idle" /\ todo' = todo
      /\ cam' = cam /\ attr' = attr /\ nextAttr' = nextAttr /\ brake' = brake /\ budget' = budget
      /\ builds' = builds /\ cpuUsed' = cpuUsed /\ gpuCut' = gpuCut /\ realGpu' = realGpu
      /\ inputs < MaxInputs /\ inputs' = inputs + 1
  BY DEF TurnOn, Input
<1>1. obj' = [o \in Alive |-> IF o \in marked THEN mark(o) ELSE obj[o]]
  BY <1>0 DEF With, Alive
<1>2. ASSUME NEW o \in Alive PROVE Keeps(obj[o], obj'[o], {}) /\ SameCut(obj[o], obj'[o])
  <2>1. Good(obj[o])
    BY DEF Objects
  <2>2. CASE o \notin marked
    BY <1>1, <2>1, <2>2, KeepsSelf DEF SameCut
  <2>3. CASE o \in marked
    <3>1. obj'[o] = mark(o)
      BY <1>1, <2>3
    <3>2. PICK node : node = obj[o]
      OBVIOUS
    <3>3. PICK lost \in BOOLEAN : obj'[o] = [node EXCEPT !.lost = lost]
      <4>1. node.lost \in BOOLEAN
        BY <2>1, <3>2 DEF Good, RenderNode
      <4> QED
        BY <3>1, <3>2, <4>1
    <3>4. /\ node.fade \in {"in", "steady", "out"} /\ node.ms \in 0..Fade /\ node.suppressed \in BOOLEAN /\ Good(node)
      BY <2>1, <3>2 DEF Good, RenderNode
    <3>5. obj'[o] = [node EXCEPT !.fade = node.fade, !.ms = node.ms, !.lost = lost, !.suppressed = node.suppressed]
      BY <3>3, <3>4 DEF Good, RenderNode
    <3>6. Keeps(node, obj'[o], {}) /\ SameCut(node, obj'[o])
      BY <3>4, <3>5, LooksKeep
    <3> QED
      BY <3>2, <3>6
  <2> QED
    BY <2>2, <2>3
<1>3. Alive' = Alive /\ obj' = [o \in Alive |-> obj'[o]]
  BY <1>1 DEF Alive
<1>4. Core' /\ Listed' = Listed
  BY <1>0, <1>2, <1>3, OnlyChanges DEF Core, JobsKnown
<1>5. Scalars'
  BY <1>0, RenderAssumption DEF Scalars
<1>6. Turns' /\ CpuAccounted'
  BY <1>0 DEF Turns, CpuAccounted
<1> QED
  BY <1>4, <1>5, <1>6 DEF Core

LEMMA TurnOffInv == ASSUME IInv, TurnOff PROVE IInv'
<1> USE DEF IInv
<1> DEFINE objs == {list[n] : n \in Listed}
           gone == objs \cap Sources
           change(o) == IF obj[o].source THEN Demoted(obj[o]) ELSE [obj[o] EXCEPT !.suppressed = FALSE]
<1>0. /\ obj' = With(obj, objs, change) /\ enabled' = FALSE
      /\ (\A o \in gone : ~CutInFlight(o)) /\ gpuCut' = gpuCut - CutsBytes(gone) /\ cpuUsed' = 0
      /\ list' = list /\ parked' = parked /\ jobs' = jobs /\ pc' = pc /\ pc = "idle" /\ todo' = todo
      /\ cam' = cam /\ attr' = attr /\ nextAttr' = nextAttr /\ brake' = brake /\ budget' = budget
      /\ builds' = builds /\ realGpu' = realGpu
      /\ inputs < MaxInputs /\ inputs' = inputs + 1
  BY DEF TurnOff, Input
<1>1. obj' = [o \in Alive |-> IF o \in objs THEN change(o) ELSE obj[o]]
  BY <1>0 DEF With, Alive
<1>2. Alive' = Alive /\ obj' = [o \in Alive |-> obj'[o]]
  BY <1>1 DEF Alive
<1>3. ASSUME NEW o \in Alive
      PROVE  /\ o \notin gone => Keeps(obj[o], obj'[o], {}) /\ SameCut(obj[o], obj'[o])
             /\ o \in gone => Keeps(obj[o], obj'[o], Cut) /\ \A v \in Cut : ~obj'[o].cut[v].gpu
  <2>1. Good(obj[o])
    BY DEF Objects
  <2>2. CASE o \notin objs
    BY <1>1, <2>1, <2>2, KeepsSelf DEF SameCut
  <2>3. CASE o \in objs /\ obj[o].source
    <3>1. obj'[o] = Demoted(obj[o]) /\ o \in gone
      BY <1>1, <2>3 DEF Sources
    <3> QED
      BY <2>1, <3>1, DemotedKeeps
  <2>4. CASE o \in objs /\ ~obj[o].source
    <3>1. obj'[o] = [obj[o] EXCEPT !.suppressed = FALSE] /\ o \notin gone
      BY <1>1, <2>4 DEF Sources
    <3>2. PICK node : node = obj[o]
      OBVIOUS
    <3>4. /\ node.fade \in {"in", "steady", "out"} /\ node.ms \in 0..Fade /\ node.lost \in BOOLEAN /\ Good(node)
      BY <2>1, <3>2 DEF Good, RenderNode
    <3>5. obj'[o] = [node EXCEPT !.fade = node.fade, !.ms = node.ms, !.lost = node.lost, !.suppressed = FALSE]
      BY <3>1, <3>2, <3>4 DEF Good, RenderNode
    <3>6. Keeps(node, obj'[o], {}) /\ SameCut(node, obj'[o])
      BY <3>4, <3>5, LooksKeep
    <3> QED
      BY <3>1, <3>2, <3>6
  <2> QED
    BY <2>2, <2>3, <2>4
<1>4. gone \subseteq Alive
  BY DEF Sources
<1> HIDE DEF gone, objs, change
<1>5. Objects' /\ Placed' /\ Listed' = Listed
  BY <1>0, <1>2, <1>3, ObjectsStay DEF Keeps
<1>6. JobsKnown'
  <2>1. ASSUME NEW job \in jobs PROVE job[1] \in Alive /\ JobSound(obj'[job[1]], job[2])
    <3>1. job[1] \in Alive /\ JobSound(obj[job[1]], job[2]) /\ job[2] \in Kinds
      BY DEF JobsKnown
    <3>2. CASE job[1] \in gone
      <4>1. job[2] \notin Cut
        BY <1>0, <3>1, <3>2 DEF JobSound, CutInFlight
      <4> QED
        BY <1>3, <3>1, <3>2, <4>1 DEF Keeps
    <3>3. CASE job[1] \notin gone
      BY <1>3, <3>1, <3>3 DEF Keeps
    <3> QED
      BY <3>2, <3>3
  <2> QED
    BY <1>0, <1>2, <2>1 DEF JobsKnown, JobSound
<1>7. GpuAccounted'
  <2>1. PICK p : p = obj
    OBVIOUS
  <2>2. PICK q : q = obj'
    OBVIOUS
  <2>3. DOMAIN p = Alive /\ DOMAIN q = Alive /\ IsFiniteSet(Alive)
    BY <1>2, <2>1, <2>2, AliveFinite DEF Alive
  <2>4. \A x \in DOMAIN p \ gone : Held(q[x]) = Held(p[x])
    BY <1>3, <2>1, <2>2, <2>3, HeldSame DEF SameCut
  <2>5. \A x \in DOMAIN q \ (DOMAIN p \ gone) : Held(q[x]) = 0
    BY <1>3, <2>2, <2>3, HeldNothing
  <2>6. Total(p) = Total(q) + SumFunction([o \in gone |-> Held(p[o])]) /\ SumFunction([o \in gone |-> Held(p[o])]) \in Nat
    BY <1>4, <2>3, <2>4, <2>5, TotalDropped
  <2>7. CutsBytes(gone) = SumFunction([o \in gone |-> Held(p[o])])
    BY <2>1 DEF CutsBytes, CutBytes, Held
  <2>8. gpuCut = Total(p)
    BY <2>1, AccountedAsTotal
  <2>9. Total(q) \in Nat
    BY <2>3, TotalType
  <2>10. gpuCut' = Total(q)
    BY <1>0, <2>6, <2>7, <2>8, <2>9
  <2> QED
    BY <1>5, <2>2, <2>10, AccountedLater
<1>8. Scalars'
  <2>1. inputs' \in 0..MaxInputs
    BY <1>0, RenderAssumption DEF Scalars
  <2>2. cpuUsed' \in Nat /\ enabled' \in BOOLEAN
    BY <1>0
  <2> QED
    BY <1>0, <2>1, <2>2 DEF Scalars
<1>9. Turns' /\ CpuAccounted'
  BY <1>0 DEF Turns, CpuAccounted
<1> QED
  BY <1>5, <1>6, <1>7, <1>8, <1>9

LEMMA BeginFrameInv == ASSUME IInv, BeginFrame PROVE IInv'
<1> USE DEF IInv
<1>0. /\ obj' = obj /\ list' = list /\ parked' = parked /\ jobs' = jobs /\ pc' \in {"attr", "list"} /\ todo' = todo
      /\ cam' = cam /\ attr' = nextAttr /\ nextAttr' = nextAttr /\ enabled' = enabled /\ brake' = brake /\ budget' = budget
      /\ builds' = builds /\ cpuUsed' = cpuUsed /\ gpuCut' = gpuCut /\ realGpu' = realGpu /\ inputs' = inputs
  BY DEF BeginFrame, env
<1>1. Core'
  BY <1>0, NothingMoves DEF Core
<1>2. Scalars' /\ Turns' /\ CpuAccounted'
  BY <1>0 DEF Scalars, Turns, CpuAccounted
<1> QED
  BY <1>1, <1>2 DEF Core

LEMMA AttributeChangeInv == ASSUME IInv, AttributeChange PROVE IInv'
<1> USE DEF IInv
<1> DEFINE objs == {list[n] : n \in Listed}
           restart(o) == [obj[o] EXCEPT !.load = "no", !.asked = None, !.data = None, !.gpu = FALSE, !.io = "none"]
<1>0. /\ obj' = With(obj, objs, restart) /\ (\A o \in objs : ~Converting(o)) /\ pc = "attr"
      /\ list' = list /\ parked' = parked /\ jobs' = jobs /\ pc' = "list" /\ todo' = todo
      /\ cam' = cam /\ attr' = attr /\ nextAttr' = nextAttr /\ enabled' = enabled /\ brake' = brake /\ budget' = budget
      /\ builds' = builds /\ cpuUsed' = cpuUsed /\ gpuCut' = gpuCut /\ realGpu' = realGpu /\ inputs' = inputs
  BY DEF AttributeChange, env
<1>1. obj' = [o \in Alive |-> IF o \in objs THEN restart(o) ELSE obj[o]]
  BY <1>0 DEF With, Alive
<1>2. ASSUME NEW o \in Alive PROVE Keeps(obj[o], obj'[o], {}) /\ SameCut(obj[o], obj'[o])
  <2>1. Good(obj[o])
    BY DEF Objects
  <2>2. CASE o \notin objs
    BY <1>1, <2>1, <2>2, KeepsSelf DEF SameCut
  <2>3. CASE o \in objs
    <3>1. obj'[o] = restart(o) /\ ~(obj[o].io = "converting" /\ ~obj[o].done)
      BY <1>0, <1>1, <2>3 DEF Converting
    <3> QED
      BY <2>1, <3>1, RestartedKeeps
  <2> QED
    BY <2>2, <2>3
<1>3. Alive' = Alive /\ obj' = [o \in Alive |-> obj'[o]]
  BY <1>1 DEF Alive
<1>4. Core' /\ Listed' = Listed
  BY <1>0, <1>2, <1>3, OnlyChanges DEF Core, JobsKnown
<1>5. Scalars' /\ Turns' /\ CpuAccounted'
  BY <1>0 DEF Scalars, Turns, CpuAccounted
<1> QED
  BY <1>4, <1>5 DEF Core

\* A node with a job is busy: the frame neither destroys nor forgets it.
LEMMA JobsKeepBusy == JobsKnown => \A job \in jobs : job[1] \in Alive /\ Busy(job[1])
<1> SUFFICES ASSUME JobsKnown, NEW job \in jobs PROVE job[1] \in Alive /\ Busy(job[1])
  OBVIOUS
<1>1. job[1] \in Alive /\ JobSound(obj[job[1]], job[2]) /\ job[2] \in Kinds
  BY DEF JobsKnown
<1>2. CASE job[2] = "convert"
  BY <1>1, <1>2 DEF JobSound, Busy, Converting
<1>3. CASE job[2] = "build"
  BY <1>1, <1>3 DEF JobSound, Busy
<1>4. CASE job[2] \in Cut
  BY <1>1, <1>4 DEF JobSound, Busy, CutInFlight
<1> QED
  BY <1>1, <1>2, <1>3, <1>4 DEF Kinds

LEMMA BuildListInv == ASSUME IInv, BuildList PROVE IInv'
<1> USE DEF IInv
<1> DEFINE arrived == Walk[cam] \ Listed
           address == Addresses(arrived)
           idle    == {o \in parked : ~Busy(o)}
           gone    == idle \cup (Departed \ (Fading \cup Parking))
           keep(o) ==
             IF o \in Departed /\ obj[o].fade # "out" THEN [obj[o] EXCEPT !.fade = "out", !.ms = 0]
             ELSE IF o \in {list[n] : n \in Listed \cap Walk[cam]} /\ obj[o].fade = "out"
                  THEN [obj[o] EXCEPT !.fade = "in", !.ms = 0]
             ELSE obj[o]
           fresh   == {address[n] : n \in arrived}
           alive   == (Alive \ gone) \cup fresh
<1>0. /\ pc = "list" /\ pc' = "stream"
      /\ obj' = [o \in alive |-> IF o \in Alive THEN keep(o) ELSE NewNode(CHOOSE n \in arrived : address[n] = o)]
      /\ list' = [n \in Nodes |-> IF n \in arrived THEN address[n]
                                  ELSE IF n \in Listed \cap Walk[cam] \/ list[n] \in Fading THEN list[n]
                                  ELSE 0]
      /\ parked' = (parked \ idle) \cup Parking
      /\ gpuCut' = gpuCut - CutsBytes(gone)
      /\ jobs' = jobs /\ todo' = todo
      /\ cam' = cam /\ attr' = attr /\ nextAttr' = nextAttr /\ enabled' = enabled /\ brake' = brake /\ budget' = budget
      /\ builds' = builds /\ cpuUsed' = cpuUsed /\ realGpu' = realGpu /\ inputs' = inputs
  BY DEF BuildList, env
<1>1. Walk[cam] \subseteq Nodes
  BY RenderAssumption DEF Scalars
<1>1b. gpuCut' = gpuCut - CutsBytes(gone)
  BY <1>0
<1>2. /\ address \in [arrived -> Objs \ Alive] /\ \A m, n \in arrived : address[m] = address[n] => m = n
  BY <1>1, AddressesAre DEF Placed
<1>3. /\ Departed \subseteq Alive /\ Fading \subseteq Departed /\ Parking \subseteq Departed \ Fading
      /\ parked \subseteq Alive /\ \A o \in Departed \ (Fading \cup Parking) : ~Busy(o)
      /\ \A o \in Parking : Busy(o)
  BY ListedAre DEF Departed, Fading, Parking, Placed
<1>4. /\ gone \subseteq Alive /\ \A o \in gone : ~Busy(o)
      /\ fresh \subseteq Objs \ Alive
  BY <1>2, <1>3
<1>5. ASSUME NEW o \in Alive PROVE Keeps(obj[o], keep(o), {}) /\ SameCut(obj[o], keep(o))
  <2>1. PICK node : node = obj[o]
    OBVIOUS
  <2>2. /\ node.fade \in {"in", "steady", "out"} /\ node.ms \in 0..Fade /\ node.lost \in BOOLEAN
        /\ node.suppressed \in BOOLEAN /\ Good(node) /\ 0 \in 0..Fade
    BY <2>1, RenderAssumption DEF Objects, Good, RenderNode
  <2>3. PICK fade \in {"in", "steady", "out"}, ms \in 0..Fade : keep(o) = [node EXCEPT !.fade = fade, !.ms = ms]
    <3>1. [node EXCEPT !.fade = node.fade, !.ms = node.ms] = node
      BY <2>2 DEF Good, RenderNode
    <3>2. \/ keep(o) = [node EXCEPT !.fade = "out", !.ms = 0]
          \/ keep(o) = [node EXCEPT !.fade = "in", !.ms = 0]
          \/ keep(o) = node
      BY <2>1
    <3> HIDE DEF keep
    <3> QED
      BY <2>2, <3>1, <3>2
  <2> HIDE DEF keep
  <2>4. keep(o) = [node EXCEPT !.fade = fade, !.ms = ms, !.lost = node.lost, !.suppressed = node.suppressed]
    BY <2>2, <2>3 DEF Good, RenderNode
  <2>5. Keeps(node, keep(o), {}) /\ SameCut(node, keep(o))
    BY <2>2, <2>4, LooksKeep
  <2> QED
    BY <2>1, <2>5
<1>6. ASSUME NEW n \in arrived
      PROVE  address[n] \in fresh /\ obj'[address[n]] = NewNode(n)
  <2>1. address[n] \in fresh /\ address[n] \notin Alive
    BY <1>4
  <2> DEFINE m == CHOOSE m \in arrived : address[m] = address[n]
  <2>2. m \in arrived /\ address[m] = address[n]
    OBVIOUS
  <2>3. m = n
    BY <1>2, <2>2
  <2>4. obj'[address[n]] = NewNode(m)
    BY <1>0, <2>1
  <2> QED
    BY <2>1, <2>3, <2>4
<1>7. Alive' = alive /\ \A o \in Alive \ gone : obj'[o] = keep(o)
  BY <1>0, <1>4 DEF Alive
<1>8. \A o \in fresh : \E n \in arrived : o = address[n] /\ obj'[o] = NewNode(n)
  BY <1>6
<1>9. alive \subseteq Objs
  BY <1>4 DEF Objects
<1>10. ASSUME NEW o \in alive PROVE Good(obj'[o])
  <2>1. CASE o \in fresh
    <3>1. PICK n \in arrived : obj'[o] = NewNode(n)
      BY <1>8, <2>1
    <3>2. n \in Nodes
      BY <1>1
    <3> QED
      BY <3>1, <3>2, NewNodeGood
  <2>2. CASE o \in Alive \ gone
    BY <1>5, <1>7, <2>2 DEF Keeps
  <2> QED
    BY <2>1, <2>2
<1>11. Objects'
  <2> HIDE DEF alive, keep, address, arrived
  <2>1. obj' = [o \in alive |-> obj'[o]]
    BY <1>0
  <2> QED
    BY <1>7, <1>9, <1>10, <2>1 DEF Objects
<1>12. JobsKnown'
  <2>1. ASSUME NEW job \in jobs PROVE job[1] \in alive /\ JobSound(obj'[job[1]], job[2])
    <3>1. job[1] \in Alive /\ JobSound(obj[job[1]], job[2]) /\ job[2] \in Kinds /\ Busy(job[1])
      BY JobsKeepBusy DEF JobsKnown
    <3>2. job[1] \in Alive \ gone
      BY <1>4, <3>1
    <3>3. obj'[job[1]] = keep(job[1])
      BY <1>7, <3>2
    <3>4. Keeps(obj[job[1]], keep(job[1]), {})
      BY <1>5, <3>1
    <3> HIDE DEF keep, gone, fresh
    <3> QED
      BY <3>1, <3>2, <3>3, <3>4 DEF Keeps
  <2> HIDE DEF alive
  <2> QED
    BY <1>0, <1>7, <2>1 DEF JobsKnown, JobSound
<1>13. GpuAccounted'
  <2>1. PICK p : p = obj
    OBVIOUS
  <2>2. PICK q : q = obj'
    OBVIOUS
  <2>3. DOMAIN p = Alive /\ DOMAIN q = alive /\ IsFiniteSet(Alive) /\ IsFiniteSet(alive)
    BY <1>7, <1>9, <2>1, <2>2, AliveFinite, ConstantsFinite, FS_Subset DEF Alive
  <2>4. \A x \in DOMAIN p \ gone : Held(q[x]) = Held(p[x])
    <3> HIDE DEF gone, keep
    <3> QED
      BY <1>5, <1>7, <2>1, <2>2, <2>3, HeldSame DEF SameCut
  <2>5. ASSUME NEW x \in fresh PROVE Held(q[x]) = 0
    <3>1. PICK n \in arrived : q[x] = NewNode(n)
      BY <1>8, <2>2
    <3>2. n \in Nodes
      BY <1>1
    <3> QED
      BY <3>1, <3>2, NewNodeGood, HeldNothing
  <2>6. DOMAIN q \ (DOMAIN p \ gone) \subseteq fresh /\ DOMAIN p \ gone \subseteq DOMAIN q
    BY <2>3
  <2> HIDE DEF gone, fresh, alive
  <2>7. Total(p) = Total(q) + SumFunction([o \in gone |-> Held(p[o])]) /\ SumFunction([o \in gone |-> Held(p[o])]) \in Nat
    BY <1>4, <2>3, <2>4, <2>5, <2>6, TotalDropped
  <2>8. CutsBytes(gone) = SumFunction([o \in gone |-> Held(p[o])])
    BY <2>1 DEF CutsBytes, CutBytes, Held
  <2>9. gpuCut = Total(p)
    BY <2>1, AccountedAsTotal
  <2>10. Total(q) \in Nat
    BY <2>3, TotalType
  <2>11. gpuCut' = Total(q)
    BY <1>1b, <2>7, <2>8, <2>9, <2>10
  <2> QED
    BY <1>11, <2>2, <2>11, AccountedLater
<1>14. Placed'
  <2>0. 0 \notin Objs /\ \A n \in arrived : address[n] \in Objs /\ address[n] # 0
    BY <1>2, RenderAssumption
  <2>1. /\ Listed \subseteq Nodes
        /\ \A n \in Listed : list[n] \in Alive /\ obj[list[n]].of = n /\ list[n] \notin parked /\ list[n] # 0
    BY ListedAre DEF Placed, Listed
  <2>2. \A n \in Nodes : n \notin Listed => list[n] = 0
    BY DEF Listed
  <2>3. Fading \subseteq Objs /\ Departed = {list[n] : n \in Listed \ Walk[cam]}
    BY <1>3 DEF Departed, Objects
  <2> HIDE DEF address, keep
  <2>4. \A n \in Nodes : \/ n \in arrived /\ list'[n] = address[n]
                         \/ n \in Listed \cap Walk[cam] /\ list'[n] = list[n]
                         \/ n \in Listed \ Walk[cam] /\ list[n] \in Fading /\ list'[n] = list[n]
                         \/ n \in Listed \ Walk[cam] /\ list[n] \notin Fading /\ list'[n] = 0
                         \/ n \notin Walk[cam] /\ n \notin Listed /\ list'[n] = 0
    BY <1>0, <2>0, <2>2, <2>3
  <2>5. \A n \in Nodes : \/ n \in arrived /\ list'[n] \in fresh
                         \/ n \in Listed /\ list'[n] = list[n] /\ list[n] \in Alive \ gone /\ list[n] \notin parked'
                         \/ list'[n] = 0
    <3> SUFFICES ASSUME NEW n \in Nodes,
                        \/ n \in Listed \cap Walk[cam] /\ list'[n] = list[n]
                        \/ n \in Listed \ Walk[cam] /\ list[n] \in Fading /\ list'[n] = list[n]
                 PROVE  list[n] \in Alive \ gone /\ list[n] \notin parked'
      BY <2>4
    <3>1. n \in Listed /\ list[n] \in Alive /\ list[n] \notin parked
      BY <2>1
    <3>2. list[n] \notin Departed \ Fading
      <4>1. CASE n \in Walk[cam]
        <5>1. \A m \in Listed : list[m] = list[n] => m = n
          BY <2>1, <3>1
        <5> QED
          BY <2>3, <4>1, <5>1
      <4>2. CASE n \notin Walk[cam]
        BY <4>2
      <4> QED
        BY <4>1, <4>2
    <3> QED
      BY <1>0, <1>3, <3>1, <3>2
  <2>6. \A n \in Nodes : list'[n] # 0 => list'[n] \in alive /\ list'[n] \notin parked'
    <3>1. parked' \subseteq Alive
      BY <1>0, <1>3
    <3> QED
      BY <1>4, <2>5, <3>1
  <2>7. Listed' = {n \in Nodes : list'[n] # 0}
    BY DEF Listed
  <2>8. list' \in [Nodes -> alive \cup {0}]
    <3>1. list' = [n \in Nodes |-> list'[n]]
      BY <1>0
    <3> HIDE DEF alive
    <3> QED
      BY <2>6, <3>1
  <2>9. parked' \subseteq alive
    BY <1>0, <1>3, <1>4
  <2>10. ASSUME NEW n \in Nodes, list'[n] # 0 PROVE obj'[list'[n]].of = n
    <3>1. CASE n \in arrived /\ list'[n] \in fresh
      <4>1. list'[n] = address[n]
        BY <1>0, <3>1
      <4>2. obj'[list'[n]] = NewNode(n)
        BY <1>6, <3>1, <4>1
      <4> QED
        BY <4>2, NewNodeGood
    <3>2. CASE n \in Listed /\ list'[n] = list[n] /\ list[n] \in Alive \ gone
      <4>1. Keeps(obj[list[n]], obj'[list[n]], {})
        BY <1>5, <1>7, <3>2
      <4> QED
        BY <2>1, <3>2, <4>1 DEF Keeps
    <3> QED
      BY <2>5, <2>10, <3>1, <3>2
  <2>11. ASSUME NEW o \in alive PROVE o \in parked' \/ \E n \in Nodes : list'[n] = o /\ o # 0
    <3>1. CASE o \in fresh
      <4>1. PICK n \in arrived : o = address[n]
        BY <3>1
      <4>2. n \in Nodes /\ list'[n] = o /\ o # 0
        BY <1>0, <1>1, <2>0, <4>1
      <4> QED
        BY <4>2
    <3>2. CASE o \in Alive \ gone /\ o \in parked
      BY <1>0, <3>2
    <3>3. CASE o \in Alive \ gone /\ o \notin parked
      <4>1. PICK n \in Listed : o = list[n]
        BY <3>3 DEF Placed
      <4>2. CASE n \in Walk[cam]
        <5>1. list'[n] = o /\ n \in Nodes /\ o # 0
          BY <1>0, <2>1, <4>1, <4>2
        <5> QED
          BY <5>1
      <4>3. CASE n \notin Walk[cam] /\ o \in Fading
        <5>1. list'[n] = o /\ n \in Nodes /\ o # 0
          BY <1>0, <2>1, <4>1, <4>3
        <5> QED
          BY <5>1
      <4>4. CASE n \notin Walk[cam] /\ o \notin Fading
        <5>1. o \in Departed
          BY <2>3, <4>1, <4>4
        <5> QED
          BY <1>0, <3>3, <4>4, <5>1
      <4> QED
        BY <4>2, <4>3, <4>4
    <3> QED
      BY <3>1, <3>2, <3>3
  <2>12. Cardinality(Walk[cam] \ Listed') <= Cardinality(Objs \ alive)
    <3>1. Walk[cam] \ Listed' = {}
      <4> SUFFICES ASSUME NEW n \in Walk[cam] PROVE n \in Nodes /\ list'[n] # 0
        BY <2>7
      <4>1. n \in Nodes
        BY <1>1
      <4>2. CASE n \in Listed
        BY <1>0, <2>1, <4>1, <4>2
      <4>3. CASE n \notin Listed
        BY <1>0, <2>0, <4>1, <4>3
      <4> QED
        BY <4>1, <4>2, <4>3
    <3>2. IsFiniteSet(Objs \ alive)
      BY ConstantsFinite, FS_Subset
    <3> HIDE DEF alive
    <3>3. Cardinality(Objs \ alive) \in Nat
      BY <3>2, FS_CardinalityType
    <3>4. Cardinality(Walk[cam] \ Listed') = 0
      BY <3>1, FS_EmptySet
    <3> QED
      BY <3>3, <3>4
  <2> HIDE DEF alive, arrived, gone, idle, fresh
  <2>13. \A n \in Listed' : At(n)' = obj'[list'[n]]
    BY DEF At
  <2>14. alive = {list'[n] : n \in Listed'} \cup parked'
    <3>1. \A n \in Listed' : list'[n] \in alive
      BY <2>6, <2>7
    <3>2. \A o \in alive : o \in parked' \/ \E n \in Listed' : list'[n] = o
      BY <2>7, <2>11
    <3> QED
      BY <2>9, <3>1, <3>2
  <2>15. Placed' <=> /\ list' \in [Nodes -> Alive' \cup {0}] /\ parked' \subseteq Alive'
                     /\ \A n \in Listed' : At(n)'.of = n /\ list'[n] \notin parked'
                     /\ Alive' = {list'[n] : n \in Listed'} \cup parked'
                     /\ Cardinality(Walk[cam'] \ Listed') <= Cardinality(Objs \ Alive')
    BY DEF Placed
  <2>16. \A n \in Listed' : At(n)'.of = n /\ list'[n] \notin parked'
    BY <2>6, <2>7, <2>10, <2>13
  <2> QED
    BY <1>0, <1>7, <2>8, <2>9, <2>12, <2>14, <2>15, <2>16
<1>15. Scalars' /\ Turns' /\ CpuAccounted'
  BY <1>0 DEF Scalars, Turns, CpuAccounted
<1> QED
  BY <1>11, <1>12, <1>13, <1>14, <1>15

LEMMA BytesType == \A S \in SUBSET Nodes : Bytes(S) \in Nat
BY ConstantsFinite, SumType DEF Bytes

LEMMA StreamInv == ASSUME IInv, Stream PROVE IInv'
<1> USE DEF IInv
<1> DEFINE requested == Requested
           uploads   == Uploads
           objs      == {list[n] : n \in Listed}
           asked(n)  == [Classified(At(n)) EXCEPT !.io = "loading", !.load = "reading", !.asked = attr]
           step(n)   == IF n \in requested THEN asked(n)
                        ELSE IF n \in uploads THEN AfterUpload(n, Classified(At(n))) ELSE Classified(At(n))
           fetched   == {n \in Listed : At(n).io = "loading" /\ At(n).load = "ready"}
           change(o) == Faded(step(obj[o].of))
<1>0. /\ pc = "stream" /\ pc' = (IF enabled THEN "promote" ELSE "idle")
      /\ obj' = With(obj, objs, change)
      /\ jobs' = jobs \cup {<<list[n], "convert">> : n \in fetched}
      /\ realGpu' = Uploaded + Bytes(uploads)
      /\ todo' = (IF enabled THEN Listed ELSE {})
      /\ builds' = (IF enabled /\ brake = 0 THEN Builds ELSE 0)
      /\ list' = list /\ parked' = parked
      /\ cam' = cam /\ attr' = attr /\ nextAttr' = nextAttr /\ enabled' = enabled /\ brake' = brake /\ budget' = budget
      /\ cpuUsed' = cpuUsed /\ gpuCut' = gpuCut /\ inputs' = inputs
  BY DEF Stream, env
<1>1. obj' = [o \in Alive |-> IF o \in objs THEN change(o) ELSE obj[o]]
  BY <1>0 DEF With, Alive
<1>2. Alive' = Alive /\ obj' = [o \in Alive |-> obj'[o]]
  BY <1>1 DEF Alive
<1>3. /\ Listed \subseteq Nodes
      /\ \A n \in Listed : list[n] \in Alive /\ At(n) = obj[list[n]] /\ At(n).of = n /\ Good(At(n))
  BY ListedAre DEF Objects
<1>4. \A n \in requested : At(n).io = "none" /\ ~At(n).gpu /\ ~At(n).freed
  BY DEF Requested, Passing
<1>5. \A n \in uploads : At(n).io = "loaded" \/ (At(n).io = "converting" /\ At(n).done /\ At(n).data # None)
  BY DEF Uploads, Passing
<1>6. uploads \subseteq Nodes
  BY DEF Uploads, Passing, Listed
<1>7. attr \in Attrs
  BY <1>0 DEF Turns
<1> HIDE DEF requested, uploads
<1>8. ASSUME NEW n \in Listed
      PROVE  /\ Keeps(At(n), Faded(step(n)), {}) /\ SameCut(At(n), Faded(step(n)))
             /\ n \in fetched => JobSound(Faded(step(n)), "convert")
  <2> DEFINE node == At(n)
             c    == Classified(node)
  <2>1. /\ Good(node) /\ Keeps(node, c, {}) /\ SameCut(node, c) /\ Good(c)
        /\ n \in fetched => JobSound(c, "convert")
    BY <1>3, ClassifiedKeeps DEF Keeps
  <2>2. ASSUME NEW s, Keeps(node, s, {}), SameCut(node, s)
        PROVE  Keeps(node, Faded(s), {}) /\ SameCut(node, Faded(s))
    <3>1. Keeps(s, Faded(s), {}) /\ SameCut(s, Faded(s))
      BY <2>2, FadedKeeps DEF Keeps
    <3> QED
      BY <2>2, <3>1, KeepsAgain
  <2>3. CASE n \in requested
    <3>1. c = node /\ node.io = "none" /\ ~node.gpu /\ ~node.freed
      BY <1>4, <2>3 DEF Classified
    <3>2. step(n) = [c EXCEPT !.io = "loading", !.load = "reading", !.asked = attr]
      BY <2>3
    <3>3. n \notin fetched
      BY <3>1
    <3> HIDE DEF c, node, step, fetched
    <3>4. step(n) = [node EXCEPT !.io = "loading", !.load = "reading", !.asked = attr]
      BY <3>1, <3>2
    <3>5. Keeps(node, step(n), {}) /\ SameCut(node, step(n))
      BY <1>7, <2>1, <3>1, <3>4, AskedKeeps
    <3> QED
      BY <2>2, <3>3, <3>5 DEF node
  <2>4. CASE n \notin requested /\ n \in uploads
    <3>1. c.io = "loaded" /\ node.io # "loading"
      <4>1. node \in RenderNode
        BY <2>1 DEF Good
      <4>2. CASE node.io = "loaded"
        BY <4>2 DEF Classified
      <4>3. CASE node.io = "converting" /\ node.done /\ node.data # None
        <5>1. c = [node EXCEPT !.io = "loaded"]
          BY <4>3 DEF Classified
        <5> QED
          BY <4>1, <4>3, <5>1 DEF RenderNode
      <4> QED
        BY <1>5, <2>4, <4>2, <4>3
    <3>2. step(n) = AfterUpload(n, c)
      BY <2>4
    <3>3. n \notin fetched /\ n \in Nodes
      BY <1>3, <3>1
    <3> HIDE DEF c, node, step, fetched
    <3>4. Keeps(c, step(n), {}) /\ SameCut(c, step(n))
      BY <2>1, <3>1, <3>2, <3>3, UploadedKeeps
    <3>5. Keeps(node, step(n), {}) /\ SameCut(node, step(n))
      BY <2>1, <3>4, KeepsAgain
    <3> QED
      BY <2>2, <3>3, <3>5 DEF node
  <2>5. CASE n \notin requested /\ n \notin uploads
    <3>1. step(n) = c
      BY <2>5
    <3> HIDE DEF c, node, step, fetched
    <3>2. Keeps(node, Faded(c), {}) /\ SameCut(node, Faded(c))
      BY <2>1, <2>2
    <3>3. Keeps(c, Faded(c), {})
      BY <2>1, FadedKeeps
    <3>4. JobSound(c, "convert") => JobSound(Faded(c), "convert")
      BY <3>3 DEF Keeps, Kinds
    <3> QED
      BY <2>1, <3>1, <3>2, <3>4 DEF node
  <2> QED
    BY <2>3, <2>4, <2>5
<1> HIDE DEF step
<1>9. \A n \in Listed : obj'[list[n]] = Faded(step(n))
  BY <1>1, <1>3
<1>10. ASSUME NEW o \in Alive PROVE Keeps(obj[o], obj'[o], {}) /\ SameCut(obj[o], obj'[o])
  <2>1. CASE o \notin objs
    BY <1>1, <2>1, KeepsSelf DEF SameCut, Objects
  <2>2. CASE o \in objs
    <3>1. PICK n \in Listed : o = list[n]
      BY <2>2
    <3> QED
      BY <1>3, <1>8, <1>9, <3>1
  <2> QED
    BY <2>1, <2>2
<1>11. jobs' \subseteq Objs \X Kinds
  BY <1>0, <1>3 DEF JobsKnown, Objects, Kinds
<1>12. ASSUME NEW job \in jobs' \ jobs PROVE job[1] \in Alive /\ JobSound(obj'[job[1]], job[2])
  <2>1. PICK n \in fetched : job = <<list[n], "convert">>
    BY <1>0
  <2>2. job[1] = list[n] /\ job[2] = "convert" /\ n \in Listed
    BY <2>1
  <2>3. JobSound(Faded(step(n)), "convert")
    BY <1>8, <2>2
  <2> QED
    BY <1>3, <1>9, <2>2, <2>3
<1>13. Core' /\ Listed' = Listed
  BY <1>0, <1>2, <1>10, <1>11, <1>12, OnlyChanges DEF Core
<1>14. Scalars'
  <2>1. realGpu' \in Nat
    <3>1. {n \in Listed : At(n).gpu} \in SUBSET Nodes /\ uploads \in SUBSET Nodes
      BY <1>3, <1>6
    <3>2. Uploaded \in Nat /\ Bytes(uploads) \in Nat
      BY <3>1, BytesType DEF Uploaded
    <3> QED
      BY <1>0, <3>2
  <2>2. builds' \in 0..Builds
    BY <1>0, RenderAssumption
  <2>3. todo' \subseteq Nodes /\ pc' \in {"promote", "idle"}
    BY <1>0, <1>3
  <2> QED
    BY <1>0, <2>1, <2>2, <2>3 DEF Scalars
<1>15. Turns' /\ CpuAccounted'
  BY <1>0, <1>7, <1>13 DEF Turns, CpuAccounted
<1> QED
  BY <1>13, <1>14, <1>15 DEF Core

LEMMA ConcernedAre ==
  ASSUME IInv, pc = "promote", Concerned # {}
  PROVE  LET n == First(Concerned) IN
         /\ n \in Listed /\ n \in Nodes /\ list[n] \in Alive /\ At(n) = obj[list[n]] /\ Good(At(n))
<1>1. Concerned \subseteq todo /\ todo \subseteq Listed /\ Listed \subseteq Nodes
  BY ListedAre DEF IInv, Concerned, Turns
<1>2. First(Concerned) \in Concerned
  BY <1>1, FirstIn
<1> QED
  BY <1>1, <1>2, ListedAre DEF IInv, Objects

\* The promotion loop's turn for one node.
LEMMA TurnInv ==
  ASSUME IInv, pc = "promote", NEW n \in Listed, NEW node, Turn(n, node), Keeps(At(n), node, {}), SameCut(At(n), node),
         gpuCut' = gpuCut, builds' \in 0..Builds, cpuUsed' \in Nat,
         \/ jobs' = jobs
         \/ jobs' = jobs \cup {<<list[n], "build">>} /\ JobSound(node, "build")
  PROVE  IInv'
<1> USE DEF IInv
<1>0. /\ obj' = [obj EXCEPT ![list[n]] = node] /\ todo' = After(n)
      /\ list' = list /\ parked' = parked /\ pc' = pc
      /\ cam' = cam /\ attr' = attr /\ nextAttr' = nextAttr /\ enabled' = enabled /\ brake' = brake /\ budget' = budget
      /\ realGpu' = realGpu /\ inputs' = inputs
  BY DEF Turn, env
<1>1. list[n] \in Alive /\ At(n) = obj[list[n]] /\ Good(node) /\ node.of = At(n).of
  BY ListedAre DEF Keeps
<1>2. /\ Alive' = Alive /\ obj' = [x \in Alive |-> obj'[x]]
      /\ obj'[list[n]] = node /\ \A x \in Alive \ {list[n]} : obj'[x] = obj[x]
      /\ \A x \in Alive : Keeps(obj[x], obj'[x], {})
  <2>1. PICK o \in Alive : o = list[n]
    BY <1>1
  <2>2. Good(node) /\ node.of = obj[o].of /\ obj' = [obj EXCEPT ![o] = node] /\ Keeps(obj[o], node, {})
    BY <1>0, <1>1, <2>1
  <2>3. /\ Alive' = Alive /\ obj' = [x \in Alive |-> obj'[x]]
        /\ obj'[o] = node /\ \A x \in Alive \ {o} : obj'[x] = obj[x]
        /\ \A x \in Alive : Keeps(obj[x], obj'[x], {})
    BY <2>2, OneChanges
  <2> QED
    BY <2>1, <2>3
<1>3. \A x \in Alive : SameCut(obj[x], obj'[x])
  BY <1>1, <1>2 DEF SameCut
<1>4. jobs' \subseteq Objs \X Kinds
  BY <1>1 DEF JobsKnown, Objects, Kinds
<1>5. \A job \in jobs' \ jobs : job[1] \in Alive /\ JobSound(obj'[job[1]], job[2])
  BY <1>1, <1>2
<1>6. Core' /\ Listed' = Listed
  BY <1>0, <1>2, <1>3, <1>4, <1>5, OnlyChanges DEF Core
<1>7. todo' \subseteq todo
  BY <1>0 DEF After
<1>8. Scalars' /\ Turns' /\ CpuAccounted'
  BY <1>0, <1>6, <1>7 DEF Scalars, Turns, CpuAccounted
<1> QED
  BY <1>6, <1>8 DEF Core

LEMMA PromoteFinishInv == ASSUME IInv, PromoteFinish PROVE IInv'
<1> DEFINE n == First(Concerned)
           node == At(n)
           now == [node EXCEPT !.building = FALSE, !.resident = node.pending, !.pending = None,
                               !.cut = NewCut, !.built = FALSE, !.source = TRUE]
<1>0. /\ pc = "promote" /\ Concerned # {} /\ Built(node) /\ Turn(n, now)
      /\ jobs' = jobs /\ builds' = builds /\ cpuUsed' = cpuUsed /\ gpuCut' = gpuCut
  BY DEF PromoteFinish
<1>1. n \in Listed /\ Good(node)
  BY <1>0, ConcernedAre
<1>2. Keeps(node, now, {}) /\ SameCut(node, now)
  BY <1>0, <1>1, FinishedKeeps
<1>3. builds' \in 0..Builds /\ cpuUsed' \in Nat
  BY <1>0 DEF IInv, Scalars
<1> HIDE DEF now, n
<1> QED
  BY <1>0, <1>1, <1>2, <1>3, TurnInv

LEMMA PromoteRecoverInv == ASSUME IInv, PromoteRecover PROVE IInv'
<1> DEFINE n == First(Concerned)
           node == At(n)
           now == [node EXCEPT !.lost = FALSE, !.gpu = FALSE, !.io = "none", !.sized = FALSE]
<1>0. /\ pc = "promote" /\ Concerned # {} /\ Recovers(n, node) /\ Turn(n, now)
      /\ jobs' = jobs /\ builds' = builds - 1 /\ cpuUsed' = cpuUsed /\ gpuCut' = gpuCut
  BY DEF PromoteRecover
<1>1. n \in Listed /\ Good(node)
  BY <1>0, ConcernedAre
<1>2. Keeps(node, now, {}) /\ SameCut(node, now)
  BY <1>0, <1>1, RecoveredKeeps DEF Recovers
<1>3. builds' \in 0..Builds /\ cpuUsed' \in Nat
  <2>1. builds > 0
    BY <1>0 DEF Recovers
  <2>2. builds \in 0..Builds /\ Builds \in Nat /\ cpuUsed \in Nat
    BY RenderAssumption DEF IInv, Scalars
  <2> QED
    BY <1>0, <2>1, <2>2
<1> HIDE DEF now, n
<1> QED
  BY <1>0, <1>1, <1>2, <1>3, TurnInv

LEMMA PromoteJudgeInv == ASSUME IInv, PromoteJudge PROVE IInv'
<1> DEFINE n == First(Concerned)
           node == At(n)
           build == n \in Promotable /\ brake = 0 /\ builds > 0 /\ cpuUsed < budget
           after == Verdict(n, node)
           begun == [after EXCEPT !.building = TRUE, !.ready = FALSE]
<1>0. /\ pc = "promote" /\ Concerned # {} /\ Candidate(n, node) /\ Turn(n, IF build THEN begun ELSE after)
      /\ gpuCut' = gpuCut
      /\ IF build
         THEN /\ builds' = builds - 1 /\ cpuUsed' = cpuUsed + ResidentSize
              /\ jobs' = jobs \cup {<<list[n], "build">>}
         ELSE builds' = builds /\ cpuUsed' = cpuUsed /\ jobs' = jobs
  BY DEF PromoteJudge
<1>1. n \in Listed /\ Good(node)
  BY <1>0, ConcernedAre
<1>2. /\ Keeps(node, after, {}) /\ SameCut(node, after)
      /\ n \in Promotable => Keeps(node, begun, {}) /\ SameCut(node, begun) /\ JobSound(begun, "build")
  BY <1>0, <1>1, JudgedKeeps
<1>3. CASE build
  <2>1. builds' \in 0..Builds /\ cpuUsed' \in Nat
    BY <1>0, <1>3, RenderAssumption DEF IInv, Scalars
  <2>0. n \in Promotable
    BY <1>3
  <2> HIDE DEF begun, after, build, n
  <2>2. Turn(n, begun) /\ jobs' = jobs \cup {<<list[n], "build">>} /\ n \in Promotable
    BY <1>0, <1>3, <2>0
  <2> QED
    BY <1>0, <1>1, <1>2, <2>1, <2>2, TurnInv
<1>4. CASE ~build
  <2>1. builds' \in 0..Builds /\ cpuUsed' \in Nat
    BY <1>0, <1>4, RenderAssumption DEF IInv, Scalars
  <2> HIDE DEF begun, after, build, n
  <2>2. Turn(n, after) /\ jobs' = jobs
    BY <1>0, <1>4
  <2> QED
    BY <1>0, <1>1, <1>2, <2>1, <2>2, TurnInv
<1> QED
  BY <1>3, <1>4

LEMMA PromoteEndInv == ASSUME IInv, PromoteEnd PROVE IInv'
<1> USE DEF IInv
<1> DEFINE objs == {list[n] : n \in Listed}
           change(o) == Older(obj[o])
<1>0. /\ pc = "promote" /\ pc' = "cut" /\ obj' = With(obj, objs, change)
      /\ todo' = {n \in Listed : At(n).source /\ At(n).fade # "out"}
      /\ list' = list /\ parked' = parked /\ jobs' = jobs
      /\ cam' = cam /\ attr' = attr /\ nextAttr' = nextAttr /\ enabled' = enabled /\ brake' = brake /\ budget' = budget
      /\ builds' = builds /\ cpuUsed' = cpuUsed /\ gpuCut' = gpuCut /\ realGpu' = realGpu /\ inputs' = inputs
  BY DEF PromoteEnd, env
<1>1. obj' = [o \in Alive |-> IF o \in objs THEN Older(obj[o]) ELSE obj[o]]
  BY <1>0 DEF With, Alive
<1>2. Alive' = Alive /\ obj' = [o \in Alive |-> obj'[o]]
  BY <1>1 DEF Alive
<1>3. ASSUME NEW o \in Alive
      PROVE  Keeps(obj[o], obj'[o], {}) /\ SameCut(obj[o], obj'[o]) /\ obj'[o].source = obj[o].source
  <2>1. Good(obj[o])
    BY DEF Objects
  <2>2. Older(obj[o]).source = obj[o].source
    BY <2>1 DEF Older, Good, RenderNode
  <2>3. Keeps(obj[o], Older(obj[o]), {}) /\ SameCut(obj[o], Older(obj[o]))
    BY <2>1, OlderKeeps
  <2>4. CASE o \in objs
    BY <1>1, <2>2, <2>3, <2>4
  <2>5. CASE o \notin objs
    BY <1>1, <2>1, <2>5, KeepsSelf DEF SameCut
  <2> QED
    BY <2>4, <2>5
<1>4. Core' /\ Listed' = Listed
  BY <1>0, <1>2, <1>3, OnlyChanges DEF Core, JobsKnown
<1>5. \A n \in Listed : At(n)' = obj'[list[n]] /\ list[n] \in Alive /\ At(n) = obj[list[n]]
  BY <1>0, ListedAre DEF At
<1>6. Listed \subseteq Nodes
  BY ListedAre
<1>7. Scalars' /\ CpuAccounted'
  BY <1>0, <1>6 DEF Scalars, CpuAccounted
<1>8. Turns'
  BY <1>0, <1>3, <1>4, <1>5 DEF Turns
<1> QED
  BY <1>4, <1>7, <1>8 DEF Core

LEMMA LesserOf == \A a, b \in Nat : Min({a, b}) \in Nat /\ Min({a, b}) <= b
<1> SUFFICES ASSUME NEW a \in Nat, NEW b \in Nat PROVE Min({a, b}) \in Nat /\ Min({a, b}) <= b
  OBVIOUS
<1>1. \E x : x \in {a, b} /\ \A y \in {a, b} : x =< y
  <2>1. a <= b \/ b <= a
    OBVIOUS
  <2> QED
    BY <2>1
<1>2. Min({a, b}) \in {a, b} /\ \A y \in {a, b} : Min({a, b}) =< y
  BY <1>1 DEF Min
<1> QED
  BY <1>2

LEMMA GreaterOf == \A a \in Int : Max({a, 0}) = IF a >= 0 THEN a ELSE 0
<1> SUFFICES ASSUME NEW a \in Int PROVE Max({a, 0}) = IF a >= 0 THEN a ELSE 0
  OBVIOUS
<1>1. \E x : x \in {a, 0} /\ \A y \in {a, 0} : x >= y
  <2>1. a >= 0 \/ 0 >= a
    OBVIOUS
  <2> QED
    BY <2>1
<1>2. Max({a, 0}) \in {a, 0} /\ \A y \in {a, 0} : Max({a, 0}) >= y
  BY <1>1 DEF Max
<1> QED
  BY <1>2

LEMMA CutWalkInv == ASSUME IInv, CutWalk PROVE IInv'
<1> USE DEF IInv
<1> DEFINE n      == First(todo)
           node   == At(n)
           select == Selected(n)
           walked == [v \in Cut |-> Walked(node.cut[v], v \in select)]
           cut    == ProcessedCut(node, walked)
           after  == [node EXCEPT !.cut = cut, !.built = @ \/ select \ {"root"} # {}]
           live   == IF Covered(after) THEN Min({node.live + 1, FreeAfter}) ELSE 0
           free   == live = FreeAfter /\ node.gpu /\ ~node.freed
           drawn  == [after EXCEPT !.live = live, !.suppressed = TRUE, !.built = @ /\ ~Prunes(after)]
           freed  == [drawn EXCEPT !.gpu = FALSE, !.io = "none", !.sized = FALSE, !.freed = TRUE]
           now    == IF free THEN freed ELSE drawn
           fresh  == {v \in select : node.cut[v].mat = "none"}
<1>0. /\ pc = "cut" /\ todo # {} /\ Turn(n, now)
      /\ jobs' = jobs \cup {<<list[n], v>> : v \in fresh}
      /\ gpuCut' = Running(node, walked)[Len(CutOrder)]
      /\ builds' = builds /\ cpuUsed' = cpuUsed
  BY DEF CutWalk, ProcessedCut
<1>1. /\ obj' = [obj EXCEPT ![list[n]] = now] /\ todo' = After(n)
      /\ list' = list /\ parked' = parked /\ pc' = pc
      /\ cam' = cam /\ attr' = attr /\ nextAttr' = nextAttr /\ enabled' = enabled /\ brake' = brake /\ budget' = budget
      /\ realGpu' = realGpu /\ inputs' = inputs
  BY <1>0 DEF Turn, env
<1>2. n \in todo /\ n \in Listed /\ list[n] \in Alive /\ node = obj[list[n]] /\ Good(node) /\ node.source
  <2>1. todo \subseteq Listed /\ Listed \subseteq Nodes /\ \A m \in todo : At(m).source
    BY <1>0, ListedAre DEF Turns
  <2>2. n \in todo
    BY <1>0, <2>1, FirstIn
  <2> QED
    BY <2>1, <2>2, ListedAre DEF Objects
<1>3. select \in SUBSET Cut
  BY DEF Selected, Cut
<1>4. node \in RenderNode /\ node.cut \in [Cut -> VirtualNode]
  BY <1>2, RenderNodeCut DEF Good
<1>5. walked \in [Cut -> VirtualNode] /\ \A v \in Cut : walked[v].gpu = node.cut[v].gpu
  <2>1. ASSUME NEW v \in Cut
        PROVE  Walked(node.cut[v], v \in select) \in VirtualNode /\ Walked(node.cut[v], v \in select).gpu = node.cut[v].gpu
    <3>1. node.cut[v] \in VirtualNode /\ (v \in select) \in BOOLEAN
      BY <1>4
    <3> QED
      BY <3>1, WalkedKeeps
  <2> QED
    BY <2>1
<1>6. \A v \in Cut : walked[v] = Walked(node.cut[v], v \in select)
  OBVIOUS
<1> HIDE DEF select, walked
<1>7. gpuCut = Total(obj) /\ gpuCut \in Nat
  <2>1. PICK p : p = obj
    OBVIOUS
  <2>2. Total(p) \in Nat
    BY <2>1, AliveFinite, TotalType DEF Alive
  <2> QED
    BY <2>1, <2>2, AccountedAsTotal
<1>8. cut \in [Cut -> VirtualNode] /\ \A v \in Cut : KeepsJob(Walked(node.cut[v], v \in select), cut[v])
  <2>1. PICK some : some = [node EXCEPT !.cut = cut]
    OBVIOUS
  <2>2. some.cut = cut
    BY <1>4, <2>1 DEF RenderNode
  <2>3. cut \in [Cut -> VirtualNode] /\ \A v \in Cut : KeepsJob(walked[v], cut[v])
    BY <1>5, <1>7, <2>2, ProcessedHolds
  <2> QED
    BY <1>6, <2>3
<1> HIDE DEF cut
<1>9. PICK was \in BOOLEAN : after = [node EXCEPT !.cut = cut, !.built = was] /\ (node.built \/ select \ {"root"} # {} => was)
  <2>1. (node.built \/ select \ {"root"} # {}) \in BOOLEAN
    OBVIOUS
  <2> QED
    OBVIOUS
<1> HIDE DEF after
<1>10. after \in RenderNode /\ after.cut = cut /\ after.built = was /\ after.live = node.live
  BY <1>4, <1>8, <1>9 DEF RenderNode
<1>11. live \in 0..FreeAfter
  <2>1. node.live \in Nat /\ FreeAfter \in Nat
    BY <1>4, RenderAssumption DEF RenderNode
  <2>2. Min({node.live + 1, FreeAfter}) \in 0..FreeAfter
    BY <2>1, LesserOf
  <2> QED
    BY <2>1, <2>2
<1> HIDE DEF live
<1>12. PICK pruned \in BOOLEAN : pruned = Prunes(after)
  BY DEF Prunes
<1>13. pruned => \A v \in Octants : cut[v].mat = "none"
  BY <1>10, <1>12 DEF Prunes
<1>14. PICK built \in BOOLEAN : /\ drawn = [after EXCEPT !.live = live, !.suppressed = TRUE, !.built = built]
                                /\ was /\ ~pruned => built
  BY <1>10, <1>12
<1> HIDE DEF drawn
<1>15. drawn = [node EXCEPT !.cut = cut, !.built = built, !.live = live, !.suppressed = TRUE]
  BY <1>4, <1>9, <1>14 DEF RenderNode
<1>16. (node.built \/ select \ {"root"} # {}) /\ ~pruned => built
  BY <1>9, <1>14
<1> HIDE DEF n, node
<1>17. /\ Keeps(node, drawn, {}) /\ drawn.cut = cut /\ drawn.source /\ drawn.gpu = node.gpu
       /\ \A v \in select : node.cut[v].mat = "none" => JobSound(drawn, v)
  <2>1. IsDrawn(node, select, cut, live, pruned, built, drawn)
    BY <1>2, <1>3, <1>8, <1>11, <1>13, <1>15, <1>16 DEF IsDrawn
  <2> QED
    BY <2>1, DrawnKeeps
<1>18. ASSUME node.gpu PROVE Keeps(drawn, freed, {}) /\ freed.cut = cut /\ freed.source
  <2>1. Good(drawn) /\ drawn.gpu
    BY <1>17, <1>18 DEF Keeps
  <2>2. PICK last : last = freed
    OBVIOUS
  <2>3. last = [drawn EXCEPT !.gpu = FALSE, !.io = "none", !.sized = FALSE, !.freed = TRUE]
    BY <2>2
  <2>4. Keeps(drawn, last, {}) /\ last.cut = drawn.cut /\ last.source = drawn.source
    BY <2>1, <2>3, FreedKeeps
  <2> QED
    BY <1>17, <2>2, <2>4
<1>19. /\ Keeps(node, now, {}) /\ now.cut = cut /\ now.source
       /\ \A v \in fresh : JobSound(now, v)
  <2>1. CASE free
    <3>1. now = freed /\ node.gpu
      BY <2>1
    <3> HIDE DEF freed, now, free
    <3>2. Keeps(node, now, {})
      BY <1>17, <1>18, <3>1, KeepsTwice
    <3>3. \A v \in fresh : JobSound(drawn, v) /\ v \in Kinds
      BY <1>3, <1>17 DEF Kinds
    <3> HIDE DEF fresh
    <3>4. \A v \in fresh : JobSound(now, v)
      BY <1>18, <3>1, <3>3 DEF Keeps
    <3> QED
      BY <1>18, <3>1, <3>2, <3>4
  <2>2. CASE ~free
    <3>1. now = drawn
      BY <2>2
    <3> HIDE DEF now, free
    <3> QED
      BY <1>17, <3>1
  <2> QED
    BY <2>1, <2>2
<1> HIDE DEF now, freed, free
<1>20. PICK o \in Alive : o = list[n]
  BY <1>2
<1>21. /\ Alive' = Alive /\ obj' = [x \in Alive |-> obj'[x]]
       /\ obj'[o] = now /\ \A x \in Alive \ {o} : obj'[x] = obj[x]
       /\ \A x \in Alive : Good(obj'[x]) /\ obj'[x].of = obj[x].of
       /\ \A x \in Alive : Keeps(obj[x], obj'[x], {})
       /\ Total(obj') = Total(obj) - Held(obj[o]) + Held(now)
  <2>1. Good(now) /\ now.of = obj[o].of /\ obj' = [obj EXCEPT ![o] = now] /\ Keeps(obj[o], now, {})
    BY <1>1, <1>2, <1>19, <1>20 DEF Keeps
  <2> QED
    BY <2>1, OneChanges
<1>22. Objects' /\ Placed' /\ Listed' = Listed
  BY <1>1, <1>21, ObjectsStay
<1>23. JobsKnown'
  <2>1. jobs' \subseteq Objs \X Kinds
    <3>1. fresh \subseteq Kinds /\ o \in Objs /\ jobs \subseteq Objs \X Kinds
      BY <1>3 DEF Kinds, JobsKnown, Objects
    <3> HIDE DEF fresh
    <3> QED
      BY <1>0, <1>20, <3>1
  <2>2. ASSUME NEW job \in jobs' \ jobs PROVE job[1] \in Alive /\ JobSound(obj'[job[1]], job[2])
    <3> HIDE DEF fresh
    <3>1. PICK v \in fresh : job = <<o, v>>
      BY <1>0, <1>20
    <3>2. job[1] = o /\ job[2] = v
      BY <3>1
    <3> QED
      BY <1>19, <1>21, <3>2
  <2> QED
    BY <1>21, <2>1, <2>2, JobsStay
<1>24. GpuAccounted'
  <2>1. Running(node, walked)[Len(CutOrder)] = gpuCut - Held(node) + Held(now)
    <3>1. now.cut = ProcessedCut(node, walked)
      BY <1>19 DEF cut
    <3>2. \A v \in Cut : node.cut[v].gpu = walked[v].gpu
      BY <1>5
    <3> QED
      BY <1>5, <1>7, <3>1, <3>2, ProcessedHolds
  <2>2. gpuCut' = Total(obj')
    BY <1>0, <1>2, <1>7, <1>20, <1>21, <2>1
  <2> QED
    BY <1>22, <2>2, AccountedLater
<1>25. todo' \subseteq todo
  BY <1>1 DEF After
<1>26. Scalars' /\ CpuAccounted'
  BY <1>0, <1>1, <1>25 DEF Scalars, CpuAccounted
<1>27. Turns'
  <2>1. \A m \in Listed : At(m)' = obj'[list[m]] /\ At(m) = obj[list[m]] /\ list[m] \in Alive
    BY <1>1, ListedAre DEF At
  <2>2. \A m \in todo' : m \in Listed /\ At(m).source
    BY <1>0, <1>25 DEF Turns
  <2>3. \A m \in todo' : At(m)'.source
    BY <1>19, <1>20, <1>21, <2>1, <2>2
  <2> QED
    BY <1>0, <1>1, <1>22, <2>2, <2>3 DEF Turns
<1> QED
  BY <1>22, <1>23, <1>24, <1>26, <1>27

\* What a node pins of the CPU budget.
Pin(node) ==
  IF node.source \/ (node.building /\ node.handler # None) THEN ResidentSize
  ELSE IF node.handler # None THEN HandlerSize ELSE 0

LEMMA PinnedIs == Pinned = SumFunction([n \in Listed |-> Pin(At(n))])
BY DEF Pinned, Pin

LEMMA PinnedType == Placed => Pinned \in Nat
<1> SUFFICES ASSUME Placed PROVE Pinned \in Nat
  OBVIOUS
<1> DEFINE g == [n \in Listed |-> Pin(At(n))]
<1>1. \A n \in Listed : g[n] \in Nat
  BY ConstantsFinite DEF Pin
<1>2. IsFiniteSet(Listed)
  BY ListedAre, ConstantsFinite, FS_Subset
<1>3. Pinned = SumFunctionOnSet(g, Listed)
  BY PinnedIs DEF SumFunction
<1> HIDE DEF g
<1> QED
  BY <1>1, <1>2, <1>3, SumType

\* One listed node changes.
LEMMA PinnedChanges ==
  ASSUME Placed, NEW n \in Listed, NEW now, obj' = [obj EXCEPT ![list[n]] = now], list' = list
  PROVE  /\ Pinned \in Nat /\ Pinned >= Pin(At(n))
         /\ Pinned' = Pinned - Pin(At(n)) + Pin(now)
<1> DEFINE f == [m \in Listed |-> Pin(At(m))]
           g == [m \in Listed |-> Pin(obj'[list[m]])]
<1>0. /\ Listed' = Listed /\ \A m \in Listed : list[m] \in Alive /\ At(m) = obj[list[m]] /\ At(m).of = m
  BY ListedAre DEF Listed
<1>1. \A m \in Listed \ {n} : list[m] # list[n]
  BY <1>0
<1>2. obj'[list[n]] = now /\ \A m \in Listed \ {n} : obj'[list[m]] = obj[list[m]]
  BY <1>0, <1>1 DEF Alive
<1>3. /\ \A m \in Listed : f[m] \in Nat /\ g[m] \in Nat
      /\ f[n] = Pin(At(n)) /\ g[n] = Pin(now)
      /\ \A m \in Listed \ {n} : f[m] = g[m]
  BY <1>0, <1>2, ConstantsFinite DEF Pin
<1>4. IsFiniteSet(Listed)
  BY ListedAre, ConstantsFinite, FS_Subset
<1>5. Pinned = SumFunctionOnSet(f, Listed)
  BY PinnedIs DEF SumFunction
<1>6. Pinned' = SumFunctionOnSet(g, Listed)
  <2>1. Pinned' = SumFunction([m \in Listed |-> Pin(obj'[list[m]])])
    BY <1>0 DEF Pinned, Pin, At
  <2> QED
    BY <2>1 DEF SumFunction
<1> HIDE DEF f, g
<1> QED
  BY <1>3, <1>4, <1>5, <1>6, SumChanges

LEMMA CutEndInv == ASSUME IInv, CutEnd PROVE IInv'
<1> USE DEF IInv
<1>0. /\ pc = "cut" /\ todo = {} /\ cpuUsed' = Pinned /\ pc' \in {"enforce", "idle"}
      /\ obj' = obj /\ list' = list /\ parked' = parked /\ jobs' = jobs /\ todo' = todo
      /\ cam' = cam /\ attr' = attr /\ nextAttr' = nextAttr /\ enabled' = enabled /\ brake' = brake /\ budget' = budget
      /\ builds' = builds /\ gpuCut' = gpuCut /\ realGpu' = realGpu /\ inputs' = inputs
  BY DEF CutEnd, env
<1>1. Core'
  BY <1>0, NothingMoves DEF Core
<1>2. Scalars'
  BY <1>0, PinnedType DEF Scalars
<1>3. CpuAccounted'
  <2>1. Pinned' = Pinned
    BY <1>0 DEF Pinned, Listed, At
  <2> QED
    BY <1>0, <2>1 DEF CpuAccounted
<1>4. Turns'
  BY <1>0 DEF Turns
<1> QED
  BY <1>1, <1>2, <1>3, <1>4 DEF Core

LEMMA EndFrameInv == ASSUME IInv, EndFrame PROVE IInv'
<1> USE DEF IInv
<1>0. /\ pc' = "idle"
      /\ obj' = obj /\ list' = list /\ parked' = parked /\ jobs' = jobs /\ todo' = todo
      /\ cam' = cam /\ attr' = attr /\ nextAttr' = nextAttr /\ enabled' = enabled /\ brake' = brake /\ budget' = budget
      /\ builds' = builds /\ cpuUsed' = cpuUsed /\ gpuCut' = gpuCut /\ realGpu' = realGpu /\ inputs' = inputs
  BY DEF EndFrame, env
<1>1. Core'
  BY <1>0, NothingMoves DEF Core
<1>2. Scalars' /\ Turns' /\ CpuAccounted'
  BY <1>0 DEF Scalars, Turns, CpuAccounted
<1> QED
  BY <1>1, <1>2 DEF Core

LEMMA DropHandlerInv == ASSUME IInv, DropHandler PROVE IInv'
<1> USE DEF IInv
<1> DEFINE n == Farthest(Bare)
           now == Bared(obj[list[n]])
<1>0. /\ pc = "enforce" /\ Bare # {} /\ obj' = [obj EXCEPT ![list[n]] = now]
      /\ cpuUsed' = Max({cpuUsed - HandlerSize, 0})
      /\ list' = list /\ parked' = parked /\ jobs' = jobs /\ pc' = pc /\ todo' = todo
      /\ cam' = cam /\ attr' = attr /\ nextAttr' = nextAttr /\ enabled' = enabled /\ brake' = brake /\ budget' = budget
      /\ builds' = builds /\ gpuCut' = gpuCut /\ realGpu' = realGpu /\ inputs' = inputs
  BY DEF DropHandler, env
<1>1. n \in Bare
  <2>1. Bare \subseteq Nodes /\ cam \in Cams
    BY ListedAre DEF Bare, Scalars
  <2> QED
    BY <1>0, <2>1, FarthestIn
<1>2. /\ n \in Listed /\ list[n] \in Alive /\ At(n) = obj[list[n]] /\ Good(At(n))
      /\ At(n).handler # None /\ ~At(n).source /\ ~At(n).building
  BY <1>1, ListedAre DEF Bare, Objects
<1> HIDE DEF n
<1>3. Keeps(At(n), now, {}) /\ SameCut(At(n), now)
  BY <1>2, BaredKeeps
<1>4. ~now.source /\ ~now.building /\ now.handler = None
  BY <1>2 DEF Bared, Good, RenderNode
<1> HIDE DEF now
<1>5. PICK o \in Alive : o = list[n]
  BY <1>2
<1>6. /\ Alive' = Alive /\ obj' = [x \in Alive |-> obj'[x]]
      /\ obj'[o] = now /\ \A x \in Alive \ {o} : obj'[x] = obj[x]
      /\ \A x \in Alive : Keeps(obj[x], obj'[x], {})
  <2>1. Good(now) /\ now.of = obj[o].of /\ obj' = [obj EXCEPT ![o] = now] /\ Keeps(obj[o], now, {})
    BY <1>0, <1>2, <1>3, <1>5 DEF Keeps
  <2> QED
    BY <2>1, OneChanges
<1>7. \A x \in Alive : SameCut(obj[x], obj'[x])
  BY <1>2, <1>3, <1>5, <1>6 DEF SameCut
<1>8. Core' /\ Listed' = Listed
  BY <1>0, <1>6, <1>7, OnlyChanges DEF Core, JobsKnown
<1>9. Pin(At(n)) = HandlerSize /\ Pin(now) = 0
  BY <1>2, <1>4 DEF Pin
<1>10. Pinned \in Nat /\ Pinned >= HandlerSize /\ Pinned' = Pinned - HandlerSize
  <2>1. Pinned \in Nat /\ Pinned >= Pin(At(n)) /\ Pinned' = Pinned - Pin(At(n)) + Pin(now)
    BY <1>0, <1>2, PinnedChanges
  <2> QED
    BY <1>9, <2>1, ConstantsFinite
<1>11. cpuUsed' = Pinned' /\ cpuUsed' \in Nat
  <2>1. cpuUsed = Pinned
    BY <1>0 DEF CpuAccounted
  <2>2. Max({cpuUsed - HandlerSize, 0}) = cpuUsed - HandlerSize
    BY <1>10, <2>1, ConstantsFinite, GreaterOf
  <2> QED
    BY <1>0, <1>10, <2>1, <2>2, ConstantsFinite
<1>12. Scalars' /\ Turns' /\ CpuAccounted'
  BY <1>0, <1>11 DEF Scalars, Turns, CpuAccounted
<1> QED
  BY <1>8, <1>12 DEF Core

LEMMA UnpromoteInv == ASSUME IInv, Unpromote PROVE IInv'
<1> USE DEF IInv
<1> DEFINE n == Farthest(Evictable)
           fallen == Demoted(obj[list[n]])
           now == Bared(fallen)
<1>0. /\ pc = "enforce" /\ Evictable # {} /\ obj' = [obj EXCEPT ![list[n]] = now]
      /\ gpuCut' = gpuCut - CutBytes(list[n]) /\ cpuUsed' = cpuUsed - ResidentSize
      /\ list' = list /\ parked' = parked /\ jobs' = jobs /\ pc' = pc /\ todo' = todo
      /\ cam' = cam /\ attr' = attr /\ nextAttr' = nextAttr /\ enabled' = enabled /\ brake' = brake /\ budget' = budget
      /\ builds' = builds /\ realGpu' = realGpu /\ inputs' = inputs
  BY DEF Unpromote, env
<1>1. n \in Evictable
  <2>1. Evictable \subseteq Nodes /\ cam \in Cams
    BY ListedAre DEF Evictable, Scalars
  <2> QED
    BY <1>0, <2>1, FarthestIn
<1>2. /\ n \in Listed /\ list[n] \in Alive /\ At(n) = obj[list[n]] /\ Good(At(n))
      /\ At(n).source /\ ~CutInFlight(list[n]) /\ ~At(n).building
  BY <1>1, ListedAre DEF Evictable, Objects, Good, NodeSound
<1> HIDE DEF n
<1>3. Keeps(At(n), fallen, Cut) /\ \A v \in Cut : ~fallen.cut[v].gpu
  BY <1>2, DemotedKeeps
<1>4. ~fallen.building /\ ~fallen.source
  BY <1>2 DEF Demoted, Good, RenderNode
<1>5. Good(fallen)
  BY <1>3 DEF Keeps
<1> HIDE DEF fallen
<1>6. Keeps(fallen, now, {}) /\ SameCut(fallen, now)
  BY <1>4, <1>5, BaredKeeps
<1>7. ~now.source /\ ~now.building /\ now.handler = None
  BY <1>4, <1>5 DEF Bared, Good, RenderNode
<1> HIDE DEF now
<1>8. /\ Keeps(At(n), now, Cut) /\ Held(now) = 0
  <2>1. Keeps(At(n), now, Cut)
    BY <1>3, <1>6 DEF Keeps
  <2>2. \A v \in Cut : ~now.cut[v].gpu
    <3>1. \A v \in Cut : fallen.cut[v].gpu = now.cut[v].gpu
      BY <1>6 DEF SameCut
    <3> QED
      BY <1>3, <3>1
  <2> QED
    BY <2>1, <2>2, HeldNothing
<1>9. PICK o \in Alive : o = list[n]
  BY <1>2
<1>10. /\ Alive' = Alive /\ obj' = [x \in Alive |-> obj'[x]]
       /\ obj'[o] = now /\ \A x \in Alive \ {o} : obj'[x] = obj[x]
       /\ \A x \in Alive : Good(obj'[x]) /\ obj'[x].of = obj[x].of
       /\ Total(obj') = Total(obj) - Held(obj[o]) + Held(now)
       /\ Total(obj) \in Nat /\ Total(obj) >= Held(obj[o])
  <2>1. Good(now) /\ now.of = obj[o].of /\ obj' = [obj EXCEPT ![o] = now]
    BY <1>0, <1>2, <1>8, <1>9 DEF Keeps
  <2> QED
    BY <2>1, OneChanges
<1>11. Objects' /\ Placed' /\ Listed' = Listed
  BY <1>0, <1>10, ObjectsStay
<1>12. JobsKnown'
  <2>1. ASSUME NEW job \in jobs PROVE job[1] \in Alive /\ JobSound(obj'[job[1]], job[2])
    <3>1. job[1] \in Alive /\ JobSound(obj[job[1]], job[2]) /\ job[2] \in Kinds
      BY DEF JobsKnown
    <3>2. CASE job[1] = o
      <4>1. job[2] \notin Cut
        BY <1>2, <1>9, <3>1, <3>2 DEF JobSound, CutInFlight
      <4>2. Keeps(obj[o], now, Cut)
        BY <1>2, <1>8, <1>9
      <4> QED
        BY <1>10, <3>1, <3>2, <4>1, <4>2 DEF Keeps
    <3>3. CASE job[1] # o
      BY <1>10, <3>1, <3>3
    <3> QED
      BY <3>2, <3>3
  <2> QED
    BY <1>0, <1>10, <2>1 DEF JobsKnown, JobSound
<1>13. GpuAccounted'
  <2>1. CutBytes(list[n]) = Held(obj[o])
    BY <1>9 DEF CutBytes, Held
  <2>2. gpuCut = Total(obj) /\ Held(obj[o]) \in Nat
    BY AccountedAsTotal, HeldType
  <2>3. gpuCut' = Total(obj')
    BY <1>0, <1>8, <1>10, <2>1, <2>2
  <2> QED
    BY <1>11, <2>3, AccountedLater
<1>14. Pin(At(n)) = ResidentSize /\ Pin(now) = 0
  BY <1>2, <1>7 DEF Pin
<1>15. Pinned \in Nat /\ Pinned >= ResidentSize /\ Pinned' = Pinned - ResidentSize
  <2>1. Pinned \in Nat /\ Pinned >= Pin(At(n)) /\ Pinned' = Pinned - Pin(At(n)) + Pin(now)
    BY <1>0, <1>2, PinnedChanges
  <2> QED
    BY <1>14, <2>1, ConstantsFinite
<1>16. cpuUsed' = Pinned' /\ cpuUsed' \in Nat
  <2>1. cpuUsed = Pinned
    BY <1>0 DEF CpuAccounted
  <2> QED
    BY <1>0, <1>15, <2>1, ConstantsFinite
<1>17. Scalars' /\ Turns' /\ CpuAccounted'
  BY <1>0, <1>16 DEF Scalars, Turns, CpuAccounted
<1> QED
  BY <1>11, <1>12, <1>13, <1>17

-----------------------------------------------------------------------------
(***************************************************************************)
(* The theorems.                                                           *)
(***************************************************************************)
LEMMA Inductive == IInv /\ [Next]_vars => IInv'
<1> SUFFICES ASSUME IInv, [Next]_vars PROVE IInv'
  OBVIOUS
<1>1. CASE Frame
  BY <1>1, BeginFrameInv, AttributeChangeInv, BuildListInv, StreamInv, PromoteFinishInv, PromoteRecoverInv,
     PromoteJudgeInv, PromoteEndInv, CutWalkInv, CutEndInv, DropHandlerInv, UnpromoteInv, EndFrameInv DEF Frame
<1>2. CASE Host
  BY <1>2, MoveCameraInv, SettingInv, TurnOffInv, TurnOnInv DEF Host
<1>3. CASE Reader
  BY <1>3, ReadDoneInv DEF Reader
<1>4. CASE Worker
  BY <1>4, FinishJobInv DEF Worker
<1>5. CASE UNCHANGED vars
  BY <1>5, StutterInv
<1> QED
  BY <1>1, <1>2, <1>3, <1>4, <1>5 DEF Next

LEMMA Inductively == Spec => []IInv
BY InitInv, Inductive, PTL DEF Spec

LEMMA InvTypes == IInv => TypeOK
<1> SUFFICES ASSUME IInv PROVE TypeOK
  OBVIOUS
<1>1. gpuCut \in Nat
  <2>1. PICK p : p = obj
    OBVIOUS
  <2>2. Total(p) \in Nat
    BY <2>1, AliveFinite, TotalType DEF IInv, Alive
  <2> QED
    BY <2>1, <2>2, AccountedAsTotal DEF IInv
<1>2. Objects /\ JobsKnown /\ Placed /\ Scalars
  BY DEF IInv
<1> QED
  BY <1>1, <1>2 DEF TypeOK, Objects, JobsKnown, Placed, Scalars, Good

\* In every reachable state of the frame loop, whatever the tree, the budgets and the
\* interleaving with the pool, the variables have their types and every live render node
\* is either in the render list under its own tree node or parked.
THEOREM TypeCorrect == Spec => []TypeOK
BY Inductively, InvTypes, PTL

\* No job on convert_pool outlives what it reads and writes: departure, the toggle of the
\* virtual subtrees, the CPU budget, an attribute change and the reclaiming of octants all
\* leave alone a render node a job still holds.
THEOREM JobsAreOutlived == Spec => []JobsOutlived
<1>1. IInv => JobsOutlived
  <2> SUFFICES ASSUME IInv, NEW job \in jobs
               PROVE  LET o == job[1] IN
                      /\ o \in Alive
                      /\ job[2] = "convert" => obj[o].io = "converting" /\ obj[o].asked # None
                      /\ job[2] = "build" => obj[o].building /\ obj[o].handler # None
                      /\ job[2] \in Cut => obj[o].resident # None /\ obj[o].cut[job[2]].mat = "materializing"
                      /\ job[2] \in Octants => obj[o].built
    BY DEF JobsOutlived
  <2>1. job[1] \in Alive /\ JobSound(obj[job[1]], job[2]) /\ NodeSound(obj[job[1]])
    BY DEF IInv, JobsKnown, Objects, Good
  <2> QED
    BY <2>1 DEF JobSound, NodeSound
<1> QED
  BY <1>1, Inductively, PTL

\* virtual_gpu_used, which an admission adds to and departure, the end of parking, the
\* toggle, the CPU budget and the eviction of octants take from, is
\* always the GPU bytes the cuts of all render nodes hold.
THEOREM GpuIsAccounted == Spec => []GpuAccounted
<1>1. IInv => GpuAccounted
  BY DEF IInv
<1> QED
  BY <1>1, Inductively, PTL
=============================================================================
