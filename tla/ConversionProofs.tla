-------------------------- MODULE ConversionProofs --------------------------
(***************************************************************************)
(* Theorems about Conversion, for any inputs, chunks, budgets and bounds   *)
(* of faults.  The two that need it say so: one call of add_files, and for *)
(* the boundary of a LOD pass no crash.                                    *)
(***************************************************************************)
EXTENDS Conversion, FiniteSetTheorems, WellFoundedInduction, NaturalsInduction, TLAPS

-----------------------------------------------------------------------------
(* The least element of a set of numbers. *)

Less == OpToRel(<, Nat)

LEMMA LessIsWellFounded == IsWellFoundedOn(Less, Nat)
BY NatLessThanWellFounded DEF Less

LEMMA LessIsLess == \A x, y \in Nat : x < y => <<x, y>> \in Less
BY DEF OpToRel, Less

LEMMA LeastOfNat ==
  ASSUME NEW I \in SUBSET Nat, I # {}
  PROVE  Min(I) \in I /\ \A y \in I : Min(I) <= y
<1>1. PICK x \in I : \A y \in I : ~(<<y, x>> \in Less)
  <2>1. I \subseteq Nat
    OBVIOUS
  <2> QED
    BY <2>1, LessIsWellFounded, WFMin
<1>2. \A y \in I : ~(y < x)
  BY <1>1, LessIsLess
<1>3. \A y \in I : x <= y
  BY <1>2
<1> QED
  BY <1>3 DEF Min

LEMMA LargerIsMax ==
  ASSUME NEW a \in Nat, NEW b \in Nat
  PROVE  Larger(a, b) = IF a <= b THEN b ELSE a
<1>1. \A y \in {a, b} : (IF a <= b THEN b ELSE a) >= y
  OBVIOUS
<1>2. \A x \in {a, b} : (\A y \in {a, b} : x >= y) => x = IF a <= b THEN b ELSE a
  OBVIOUS
<1> QED
  BY <1>1, <1>2 DEF Larger, Max

-----------------------------------------------------------------------------
(* The registry. *)

LEMMA EmptyType == Empty \in Registries
BY TerminalIsGreatest DEF Empty, NoItem, Registries, Items

LEMMA ItemTypes ==
  /\ NoItem \in Items /\ NewItem \in Items
  /\ \A x \in Items, n \in 0..Terminal : [x EXCEPT !.order = n, !.settled = TRUE] \in Items
  /\ \A x \in Items : [x EXCEPT !.settled = TRUE, !.started = TRUE, !.finished = TRUE] \in Items
  /\ \A x \in Items, n \in Nat : [x EXCEPT !.subs = n] \in Items
  /\ \A x \in Items, n \in Nat : [x EXCEPT !.inserted = n] \in Items
  /\ \A x \in Items : [x EXCEPT !.finished = TRUE] \in Items
  /\ \A x \in Items, n \in 0..Terminal : [x EXCEPT !.lo = n] \in Items
  /\ \A x \in Items, n \in Nat : [x EXCEPT !.started = TRUE, !.rank = n] \in Items
  /\ \A x \in Items, b \in BOOLEAN, n \in Nat :
       [x EXCEPT !.settled = TRUE, !.started = b, !.rank = n] \in Items
<1>1. NoItem \in Items
  BY TerminalIsGreatest DEF NoItem, NewItem, Items
<1>2. NewItem \in Items
  BY <1>1 DEF NewItem, Items
<1>3. \A x \in Items, n \in 0..Terminal : [x EXCEPT !.order = n, !.settled = TRUE] \in Items
  BY TerminalIsGreatest DEF NoItem, NewItem, Items
<1>4. \A x \in Items : [x EXCEPT !.settled = TRUE, !.started = TRUE, !.finished = TRUE] \in Items
  BY TerminalIsGreatest DEF NoItem, NewItem, Items
<1>5. \A x \in Items, n \in Nat : [x EXCEPT !.subs = n] \in Items
  BY TerminalIsGreatest DEF NoItem, NewItem, Items
<1>6. \A x \in Items, n \in Nat : [x EXCEPT !.inserted = n] \in Items
  BY TerminalIsGreatest DEF NoItem, NewItem, Items
<1>7. \A x \in Items : [x EXCEPT !.finished = TRUE] \in Items
  BY TerminalIsGreatest DEF NoItem, NewItem, Items
<1>8. \A x \in Items, n \in 0..Terminal : [x EXCEPT !.lo = n] \in Items
  BY TerminalIsGreatest DEF NoItem, NewItem, Items
<1>9. \A x \in Items, n \in Nat : [x EXCEPT !.started = TRUE, !.rank = n] \in Items
  BY TerminalIsGreatest DEF NoItem, NewItem, Items
<1>10. \A x \in Items, b \in BOOLEAN, n \in Nat :
       [x EXCEPT !.settled = TRUE, !.started = b, !.rank = n] \in Items
  BY TerminalIsGreatest DEF NoItem, NewItem, Items
<1> QED
  BY <1>1, <1>2, <1>3, <1>4, <1>5, <1>6, <1>7, <1>8, <1>9, <1>10

LEMMA ItemNumbers ==
  ASSUME NEW r \in Registries, NEW f \in Files
  PROVE  /\ r[f] \in Items
         /\ {r[f].subs, r[f].inserted, r[f].rank} \subseteq Nat
         /\ {r[f].order, r[f].lo} \subseteq 0..Terminal
         /\ {r[f].known, r[f].settled, r[f].started, r[f].finished} \subseteq BOOLEAN
BY DEF Registries, Items

LEMMA RegisterFilesType ==
  ASSUME NEW r \in Registries, NEW fs \in SUBSET Files PROVE RegisterFiles(r, fs) \in Registries
BY ItemTypes DEF RegisterFiles, Registries

LEMMA RegisterPreInitType ==
  ASSUME NEW r \in Registries, NEW fs \in SUBSET Files PROVE RegisterPreInit(r, fs) \in Registries
<1>1. \A f \in Files : Corner[f] \in 0..Terminal
  BY TerminalIsGreatest
<1>2. \A f \in Files : [r[f] EXCEPT !.order = Corner[f], !.settled = TRUE] \in Items /\ r[f] \in Items
  BY <1>1, ItemTypes, ItemNumbers
<1> QED
  BY <1>2, Zenon DEF RegisterPreInit, Registries

LEMMA FilesFailedType ==
  ASSUME NEW r \in Registries, NEW fs \in SUBSET Files PROVE FilesFailed(r, fs) \in Registries
<1>1. \A f \in Files : /\ [r[f] EXCEPT !.settled = TRUE, !.started = TRUE, !.finished = TRUE] \in Items
                       /\ r[f] \in Items
  BY ItemTypes, ItemNumbers
<1> QED
  BY <1>1, Zenon DEF FilesFailed, Registries

LEMMA WithItem ==
  ASSUME NEW r \in Registries, NEW f \in Files, NEW x \in Items PROVE [r EXCEPT ![f] = x] \in Registries
BY DEF Registries

LEMMA SubAddedType ==
  ASSUME NEW r \in Registries, NEW f \in Files PROVE SubAdded(r, f) \in Registries
<1>1. [r[f] EXCEPT !.subs = r[f].subs + 1] \in Items
  <2>1. r[f] \in Items /\ r[f].subs + 1 \in Nat
    BY ItemNumbers
  <2> QED
    BY <2>1, ItemTypes
<1>2. SubAdded(r, f) = [r EXCEPT ![f] = [r[f] EXCEPT !.subs = r[f].subs + 1]]
  BY DEF SubAdded, Registries, Items
<1> QED
  BY <1>1, <1>2, WithItem

LEMMA TreeDoneType ==
  ASSUME NEW r \in Registries, NEW f \in Files PROVE TreeDone(r, f) \in Registries
<1>1. [r[f] EXCEPT !.inserted = r[f].inserted + 1] \in Items
  <2>1. r[f] \in Items /\ r[f].inserted + 1 \in Nat
    BY ItemNumbers
  <2> QED
    BY <2>1, ItemTypes
<1>2. TreeDone(r, f) = [r EXCEPT ![f] = [r[f] EXCEPT !.inserted = r[f].inserted + 1]]
  BY DEF TreeDone, Registries, Items
<1> QED
  BY <1>1, <1>2, WithItem

LEMMA ReadingDoneType ==
  ASSUME NEW r \in Registries, NEW f \in Files PROVE ReadingDone(r, f) \in Registries
<1>1. [r[f] EXCEPT !.finished = TRUE] \in Items
  BY ItemTypes, ItemNumbers
<1>2. ReadingDone(r, f) = [r EXCEPT ![f] = [r[f] EXCEPT !.finished = TRUE]]
  BY DEF ReadingDone, Registries, Items
<1> QED
  BY <1>1, <1>2, WithItem

LEMMA SortedPointsType ==
  ASSUME NEW r \in Registries, NEW f \in Files, NEW key \in 0..Terminal
  PROVE  SortedPoints(r, f, key) \in Registries
<1> DEFINE x == [r[f] EXCEPT !.lo = IF key < r[f].lo THEN key ELSE r[f].lo]
<1>1. x \in Items
  BY ItemTypes, ItemNumbers
<1>2. SortedPoints(r, f, key) = [r EXCEPT ![f] = x]
  BY DEF SortedPoints, Registries, Items
<1> HIDE DEF x
<1> QED
  BY <1>1, <1>2, WithItem

LEMMA FilesAreFinite == \A S \in SUBSET Files : IsFiniteSet(S) /\ Cardinality(S) \in Nat
<1> SUFFICES ASSUME NEW S \in SUBSET Files PROVE IsFiniteSet(S) /\ Cardinality(S) \in Nat
  OBVIOUS
<1>1. IsFiniteSet(S)
  BY TerminalIsGreatest, FS_Subset
<1> QED
  BY <1>1, FS_CardinalityType

LEMMA DispatchedType ==
  ASSUME NEW r \in Registries, NEW f \in Files PROVE Dispatched(r, f) \in Registries
<1>1. Cardinality(InOrder(r)) + 1 \in Nat
  BY FilesAreFinite DEF InOrder
<1>2. [r[f] EXCEPT !.started = TRUE, !.rank = Cardinality(InOrder(r)) + 1] \in Items
  BY <1>1, ItemTypes, ItemNumbers
<1>3. Dispatched(r, f) = [r EXCEPT ![f] = [r[f] EXCEPT !.started = TRUE, !.rank = Cardinality(InOrder(r)) + 1]]
  BY DEF Dispatched, Registries, Items
<1> QED
  BY <1>2, <1>3, WithItem

LEMMA RestoredType == ASSUME NEW r \in Registries PROVE Restored(r) \in Registries
<1> DEFINE Place(f) == Cardinality({g \in InOrder(r) \ Open(r) : r[g].rank <= r[f].rank})
           Again(f) == [r[f] EXCEPT !.settled = TRUE, !.started = r[f].started /\ f \notin Open(r),
                                    !.rank = IF f \in Open(r) THEN 0 ELSE Place(f)]
<1>1. \A f \in Files : Place(f) \in Nat
  BY FilesAreFinite DEF InOrder
<1>2. \A f \in Files : Again(f) =
        [r[f] EXCEPT !.settled = TRUE, !.started = @ /\ f \notin Open(r),
             !.rank = IF f \in Open(r) THEN 0
                      ELSE Cardinality({g \in InOrder(r) \ Open(r) : r[g].rank <= @})]
  BY ItemNumbers DEF Items
<1>3. \A f \in Files : Again(f) \in Items
  <2> HIDE DEF Place
  <2> QED
    BY <1>1, ItemTypes, ItemNumbers
<1> HIDE DEF Again
<1>4. Restored(r) = [f \in Files |-> IF ~r[f].known THEN NoItem ELSE Again(f)]
  BY <1>2, Zenon DEF Restored
<1> QED
  BY <1>3, <1>4, ItemTypes, Zenon DEF Registries

LEMMA BoundsType ==
  ASSUME NEW r \in Registries
  PROVE  HeadBounds(r) \cup Clamp(r) \in SUBSET (0..Terminal) /\ Terminal \in HeadBounds(r) \cup Clamp(r)
BY TerminalIsGreatest DEF HeadBounds, Clamp, FirstOpen, Open, InOrder, Registered, Registries, Items

LEMMA DoneMortonLeast ==
  ASSUME NEW r \in Registries, HasDonePrefix(r)
  PROVE  /\ DoneMorton(r) \in HeadBounds(r) \cup Clamp(r)
         /\ \A b \in HeadBounds(r) \cup Clamp(r) : DoneMorton(r) <= b
<1>1. HeadBounds(r) \cup Clamp(r) \in SUBSET Nat /\ HeadBounds(r) \cup Clamp(r) # {}
  BY BoundsType
<1> QED
  BY <1>1, LeastOfNat DEF DoneMorton

LEMMA DoneMortonType == ASSUME NEW r \in Registries PROVE DoneMorton(r) \in 0..Terminal
<1>1. CASE HasDonePrefix(r)
  BY <1>1, BoundsType, DoneMortonLeast
<1>2. CASE ~HasDonePrefix(r)
  BY <1>2, TerminalIsGreatest DEF DoneMorton
<1> QED
  BY <1>1, <1>2

-----------------------------------------------------------------------------
(* Starting a pass, and starting a chain. *)

LEMMA StartLod ==
  ASSUME NEW p \in Procs, NEW r \in Registries, tree \in Trees, MaybeStartLod(p, r)
  PROVE  \/ /\ p.generating \/ DoneMorton(r) <= p.lodDone
            /\ proc' = p /\ tree' = tree
         \/ /\ ~p.generating /\ p.lodDone < DoneMorton(r)
            /\ proc' = [p EXCEPT !.generating = TRUE, !.target = DoneMorton(r)]
            /\ tree' = [tree EXCEPT !.lod = "running"]
<1>1. DoneMorton(r) \in Nat /\ p.lodDone \in Nat
  BY DoneMortonType DEF Procs
<1> QED
  BY <1>1 DEF MaybeStartLod

LEMMA StartLodTypes ==
  ASSUME NEW p \in Procs, NEW r \in Registries, tree \in Trees, MaybeStartLod(p, r)
  PROVE  proc' \in Procs /\ tree' \in Trees
<1>1. DoneMorton(r) \in 0..Terminal
  BY DoneMortonType
<1>2. [p EXCEPT !.generating = TRUE, !.target = DoneMorton(r)] \in Procs
  BY <1>1 DEF Procs
<1>3. [tree EXCEPT !.lod = "running"] \in Trees
  BY DEF Trees
<1> QED
  BY <1>2, <1>3, StartLod

LEMMA LaunchTypes ==
  ASSUME NEW t \in Trees, NEW c \in Chains, reg \in Registries, LaunchChain(t, c)
  PROVE  /\ tree' \in Trees
         /\ chain' \in Chains /\ (chain'.rerun => chain'.step # "off")
<1>1. [t EXCEPT !.watermark = Larger(t.watermark, t.pass)] \in Trees
  <2>1. Larger(t.watermark, t.pass) \in {t.watermark, t.pass}
    BY LargerIsMax DEF Trees
  <2> QED
    BY <2>1 DEF Trees
<1>2. [c EXCEPT !.rerun = TRUE] \in Chains
  BY DEF Chains
<1>3. [step |-> "trees", reg |-> reg, copies |-> t.copies, ok |-> TRUE, rerun |-> FALSE] \in Chains
  BY DEF Chains, Trees
<1>4. [c EXCEPT !.rerun = TRUE].step = c.step
  BY DEF Chains
<1>5. CASE c.step # "off"
  <2>1. tree' = t /\ chain' = [c EXCEPT !.rerun = TRUE]
    BY <1>5 DEF LaunchChain
  <2> QED
    BY <1>2, <1>4, <1>5, <2>1
<1>6. CASE c.step = "off"
  <2>1. /\ tree' = [t EXCEPT !.watermark = Larger(t.watermark, t.pass)]
        /\ chain' = [step |-> "trees", reg |-> reg, copies |-> t.copies, ok |-> TRUE, rerun |-> FALSE]
    BY <1>6 DEF LaunchChain
  <2> QED
    BY <1>1, <1>3, <2>1
<1> QED
  BY <1>5, <1>6

-----------------------------------------------------------------------------
(***************************************************************************)
(* The watermarks.  What is committed is at most the watermark, that the   *)
(* end of the last pass, that its target; what the processor counts as     *)
(* done is committed, and a pass under way aims further.                   *)
(***************************************************************************)
Numbers ==
  /\ tree.last <= committed.watermark /\ committed.watermark <= tree.watermark
  /\ tree.watermark <= tree.pass /\ tree.pass <= proc.target
  /\ proc.generating => proc.lodDone < proc.target
  /\ ~proc.generating => proc.target = proc.lodDone
  /\ proc.lodDone <= committed.watermark
  /\ tree.lod = "running" => proc.generating /\ tree.pass <= proc.lodDone

Typed == TypeOK /\ Numbers

LEMMA PartOf ==
  /\ \A c \in Parts : c = <<c[1], c[2]>> /\ c[1] \in Files /\ c[2] \in DOMAIN Chunks[c[1]]
  /\ \A f \in Files : \A i \in DOMAIN Chunks[f] : <<f, i>> \in Parts
BY DEF Parts

LEMMA KeyType == \A c \in Parts : Key(c) \in 0..Terminal /\ Corner[c[1]] <= Key(c)
<1> SUFFICES ASSUME NEW c \in Parts PROVE Key(c) \in 0..Terminal /\ Corner[c[1]] <= Key(c)
  OBVIOUS
<1>1. c[1] \in Files /\ c[2] \in DOMAIN Chunks[c[1]]
  BY PartOf
<1>2. Chunks[c[1]] \in Seq(0..(Terminal - 1))
  BY <1>1, InputsAreFiles
<1>3. Chunks[c[1]][c[2]] \in 0..(Terminal - 1)
  <2> DEFINE S == 0..(Terminal - 1)
             s == Chunks[c[1]]
  <2>1. s \in Seq(S) /\ c[2] \in DOMAIN s
    BY <1>1, <1>2
  <2> HIDE DEF S, s
  <2>2. s[c[2]] \in S
    BY <2>1
  <2> QED
    BY <2>2 DEF S, s
<1> QED
  BY <1>1, <1>3, InputsAreFiles, TerminalIsGreatest DEF Key

LEMMA TypedInit == Init => Typed
<1> SUFFICES ASSUME Init PROVE Typed
  OBVIOUS
<1> USE TerminalIsGreatest, InputsAreFiles
<1>1. [f \in Files |-> 0] \in Copies
  BY DEF Copies
<1>2. Len(Batches) \in Nat
  OBVIOUS
<1>3. proc \in Procs /\ tree \in Trees /\ chain \in Chains /\ committed \in Commits
  BY <1>1, <1>2, EmptyType DEF Init, NewProc, NewTree, NoChain, NoCommit, Procs, Trees, Chains, Commits
<1>4. TypeOK
  BY <1>2, <1>3, EmptyType DEF Init, TypeOK, NewProc, NewTree, NoChain, NoCommit, Unread, Stages
<1>5. Numbers
  BY DEF Init, Numbers, NewProc, NewTree, NoCommit
<1> QED
  BY <1>4, <1>5 DEF Typed

LEMMA TypedStep == Typed /\ [Next]_vars => Typed'
<1> SUFFICES ASSUME Typed, [Next]_vars PROVE Typed'
  OBVIOUS
<1> USE TerminalIsGreatest, InputsAreFiles
<1>0. /\ reg \in Registries /\ proc \in Procs /\ tree \in Trees /\ chain \in Chains /\ committed \in Commits
      /\ Len(Batches) \in Nat
  BY DEF Typed, TypeOK
<1> DEFINE Rest == /\ (preinit \subseteq SUBSET Files)'
                   /\ (reading \in [Files -> {"no", "yes", "stopped"}])'
                   /\ (stage \in [Parts -> Stages])'
                   /\ (requests \in 0..MaxRequests)' /\ (failures \in 0..MaxFailures)'
                   /\ (crashes \in 0..MaxCrashes)'
<1>1. CASE AddFiles
  <2>1. proc' \in Procs /\ proc'.handled <= proc'.added
    <3>1. proc.added + 1 \in 0..Len(Batches) /\ proc.handled <= proc.added + 1
      BY <1>0, <1>1 DEF AddFiles, Procs, Typed, TypeOK
    <3>2. proc' = [proc EXCEPT !.added = proc.added + 1, !.idle = FALSE]
      BY <1>0, <1>1 DEF AddFiles, Procs
    <3> QED
      BY <1>0, <3>1, <3>2 DEF Procs
  <2>2. /\ proc'.lodDone = proc.lodDone /\ proc'.target = proc.target /\ proc'.generating = proc.generating
    BY <1>0, <1>1 DEF AddFiles, Procs
  <2> QED
    BY <1>1, <2>1, <2>2 DEF AddFiles, Typed, TypeOK, Numbers
<1>2. CASE HandleNewFiles
  <2>1. proc' \in Procs /\ proc'.handled <= proc'.added
    <3>1. proc.handled + 1 \in 0..Len(Batches) /\ proc.handled + 1 <= proc.added
      BY <1>0, <1>2 DEF HandleNewFiles, Procs, Typed, TypeOK
    <3>2. proc' = [proc EXCEPT !.handled = proc.handled + 1]
      BY <1>0, <1>2 DEF HandleNewFiles, Procs
    <3> QED
      BY <1>0, <3>1, <3>2 DEF Procs
  <2>2. /\ proc'.lodDone = proc.lodDone /\ proc'.target = proc.target /\ proc'.generating = proc.generating
    BY <1>0, <1>2 DEF HandleNewFiles, Procs
  <2>3. Batches[proc.handled + 1] \in SUBSET Files
    BY <1>0, <1>2 DEF HandleNewFiles, Procs
  <2>4. reg' \in Registries
    BY <1>0, <1>2, <2>3, RegisterFilesType DEF HandleNewFiles
  <2>5. preinit' \subseteq SUBSET Files
    BY <1>2, <2>3 DEF HandleNewFiles, Typed, TypeOK
  <2> QED
    BY <1>2, <2>1, <2>2, <2>4, <2>5 DEF HandleNewFiles, Typed, TypeOK, Numbers
<1>3. ASSUME NEW p \in Procs, NEW r \in Registries, MaybeStartLod(p, r),
             p.handled <= p.added, p.lodDone <= committed.watermark,
             p.lodDone <= p.target, ~p.generating => p.target = p.lodDone,
             tree.pass <= p.target,
             p.generating => p.lodDone < p.target,
             tree.lod = "running" => p.generating /\ tree.pass <= p.lodDone,
             UNCHANGED committed
      PROVE  Numbers' /\ proc' \in Procs /\ tree' \in Trees /\ proc'.handled <= proc'.added
  <2>1. proc' \in Procs /\ tree' \in Trees
    BY <1>0, <1>3, StartLodTypes
  <2>2. CASE proc' = p /\ tree' = tree
    BY <1>0, <1>3, <2>1, <2>2 DEF Numbers, Typed, Procs, Trees
  <2>3. CASE /\ ~p.generating /\ p.lodDone < DoneMorton(r)
             /\ proc' = [p EXCEPT !.generating = TRUE, !.target = DoneMorton(r)]
             /\ tree' = [tree EXCEPT !.lod = "running"]
    <3>1. /\ proc'.generating = TRUE /\ proc'.target = DoneMorton(r) /\ proc'.lodDone = p.lodDone
          /\ proc'.handled = p.handled /\ proc'.added = p.added
      BY <2>3 DEF Procs
    <3>2. tree'.pass = tree.pass /\ tree'.watermark = tree.watermark /\ tree'.last = tree.last
      BY <1>0, <2>3 DEF Trees
    <3>3. DoneMorton(r) \in Nat /\ p.lodDone \in Nat /\ p.target \in Nat /\ tree.pass \in Nat
      BY <1>0, DoneMortonType DEF Procs, Trees
    <3> QED
      BY <1>3, <2>1, <2>3, <3>1, <3>2, <3>3 DEF Numbers, Typed
  <2> QED
    BY <1>0, <1>3, <2>2, <2>3, StartLod
<1>4. /\ proc.lodDone <= committed.watermark /\ proc.lodDone <= proc.target /\ tree.pass <= proc.target
      /\ (~proc.generating => proc.target = proc.lodDone)
      /\ proc.handled <= proc.added
      /\ proc.generating => proc.lodDone < proc.target
      /\ tree.lod = "running" => proc.generating /\ tree.pass <= proc.lodDone
  BY <1>0 DEF Typed, TypeOK, Numbers, Procs
<1>5. CASE SettleBatch
  <2>1. PICK refs \in preinit : \E answer \in [refs -> {"bounds", "error", "lost"}] :
            LET failed  == {f \in refs : answer[f] # "bounds"}
                settled == {f \in refs : answer[f] # "lost"}
                next    == FilesFailed(RegisterPreInit(reg, refs \ failed), failed)
            IN  /\ reg' = next /\ preinit' = preinit \ {refs}
                /\ IF refs # {} /\ settled = {} THEN MaybeStartLod(proc, next) ELSE UNCHANGED <<proc, tree>>
    BY <1>5, Zenon DEF SettleBatch
  <2>2. PICK answer \in [refs -> {"bounds", "error", "lost"}] :
            LET failed  == {f \in refs : answer[f] # "bounds"}
                settled == {f \in refs : answer[f] # "lost"}
                next    == FilesFailed(RegisterPreInit(reg, refs \ failed), failed)
            IN  /\ reg' = next /\ preinit' = preinit \ {refs}
                /\ IF refs # {} /\ settled = {} THEN MaybeStartLod(proc, next) ELSE UNCHANGED <<proc, tree>>
    BY <2>1, Zenon
  <2> DEFINE failed == {f \in refs : answer[f] # "bounds"}
             next   == FilesFailed(RegisterPreInit(reg, refs \ failed), failed)
  <2>3. refs \in SUBSET Files /\ failed \in SUBSET Files
    BY <2>1 DEF Typed, TypeOK
  <2>4. RegisterPreInit(reg, refs \ failed) \in Registries
    BY <1>0, <2>3, RegisterPreInitType
  <2>5. next \in Registries
    BY <2>3, <2>4, FilesFailedType
  <2>6. reg' \in Registries /\ preinit' \subseteq SUBSET Files
    BY <2>2, <2>5 DEF Typed, TypeOK
  <2>7. MaybeStartLod(proc, next) \/ UNCHANGED <<proc, tree>>
    BY <2>2, Zenon
  <2>8. UNCHANGED <<reading, stage, chain, committed, requests, failures, crashes>>
    BY <1>5, Zenon DEF SettleBatch
  <2>9. Numbers' /\ proc' \in Procs /\ tree' \in Trees /\ proc'.handled <= proc'.added
    <3>1. CASE MaybeStartLod(proc, next)
      BY <1>0, <1>3, <1>4, <2>5, <2>8, <3>1
    <3>2. CASE UNCHANGED <<proc, tree>>
      BY <1>0, <2>8, <3>2 DEF Typed, TypeOK, Numbers
    <3> QED
      BY <2>7, <3>1, <3>2
  <2> QED
    BY <2>6, <2>8, <2>9 DEF Typed, TypeOK, Numbers
<1>6. CASE Dispatch
  <2>1. PICK f \in NextInputs(reg) : reg' = Dispatched(reg, f) /\ reading' = [reading EXCEPT ![f] = "yes"]
    BY <1>6 DEF Dispatch
  <2>2. f \in Files
    BY DEF NextInputs, Registered
  <2>3. reg' \in Registries
    BY <1>0, <2>1, <2>2, DispatchedType
  <2> QED
    BY <1>6, <2>1, <2>2, <2>3 DEF Dispatch, Typed, TypeOK, Numbers
<1>7. CASE BecomeIdle
  <2>1. proc' \in Procs /\ proc'.handled = proc.handled /\ proc'.added = proc.added
    BY <1>0, <1>7 DEF BecomeIdle, Procs
  <2>2. /\ proc'.lodDone = proc.lodDone /\ proc'.target = proc.target /\ proc'.generating = proc.generating
    BY <1>0, <1>7 DEF BecomeIdle, Procs
  <2> QED
    BY <1>7, <2>1, <2>2 DEF BecomeIdle, Typed, TypeOK, Numbers
<1>8. CASE ReadChunk
  <2>1. PICK f \in Files :
          /\ LET i == Min({c[2] : c \in NextUnread(f)}) IN stage' = [stage EXCEPT ![<<f, i>>] = "read"]
          /\ reg' = SubAdded(reg, f)
    BY <1>8 DEF ReadChunk
  <2>2. reg' \in Registries
    BY <1>0, <2>1, SubAddedType
  <2>3. stage' \in [Parts -> Stages]
    BY <2>1 DEF Typed, TypeOK, Stages
  <2> QED
    BY <1>8, <2>2, <2>3 DEF ReadChunk, Typed, TypeOK, Numbers
<1>9. CASE ReadError
  BY <1>9 DEF ReadError, Typed, TypeOK, Numbers
<1>10. CASE SortedChunk
  <2>1. PICK c \in Parts : stage' = [stage EXCEPT ![c] = "sorted"] /\ reg' = SortedPoints(reg, c[1], Key(c))
    BY <1>10 DEF SortedChunk
  <2>2. c[1] \in Files /\ Key(c) \in 0..Terminal
    BY PartOf, KeyType
  <2>3. reg' \in Registries
    BY <1>0, <2>1, <2>2, SortedPointsType
  <2>4. stage' \in [Parts -> Stages]
    BY <2>1 DEF Typed, TypeOK, Stages
  <2> QED
    BY <1>10, <2>3, <2>4 DEF SortedChunk, Typed, TypeOK, Numbers
<1>11. CASE InsertChunk
  <2>1. PICK c \in Parts : stage' = [stage EXCEPT ![c] = "inTree"] /\ tree' = [tree EXCEPT !.copies[c[1]] = @ + 1]
    BY <1>11 DEF InsertChunk
  <2>2. c[1] \in Files
    BY PartOf
  <2>3. [tree.copies EXCEPT ![c[1]] = @ + 1] \in Copies
    BY <1>0, <2>2 DEF Trees, Copies
  <2>4. tree' = [tree EXCEPT !.copies = [tree.copies EXCEPT ![c[1]] = @ + 1]]
    BY <1>0, <2>1, <2>2 DEF Trees
  <2>5. /\ tree' \in Trees /\ tree'.lod = tree.lod /\ tree'.pass = tree.pass
        /\ tree'.watermark = tree.watermark /\ tree'.last = tree.last
    BY <1>0, <2>3, <2>4 DEF Trees
  <2>6. stage' \in [Parts -> Stages]
    BY <2>1 DEF Typed, TypeOK, Stages
  <2> QED
    BY <1>11, <2>5, <2>6 DEF InsertChunk, Typed, TypeOK, Numbers
<1>12. CASE TreeDoneWithInput
  <2>1. PICK c \in Parts : /\ stage' = [stage EXCEPT ![c] = "counted"]
                           /\ reg' = TreeDone(reg, c[1]) /\ MaybeStartLod(proc, reg')
    BY <1>12 DEF TreeDoneWithInput
  <2>2. reg' \in Registries
    BY <1>0, <2>1, PartOf, TreeDoneType
  <2>3. stage' \in [Parts -> Stages]
    BY <2>1 DEF Typed, TypeOK, Stages
  <2>4. UNCHANGED <<preinit, reading, chain, committed, requests, failures, crashes>>
    BY <1>12 DEF TreeDoneWithInput
  <2>5. Numbers' /\ proc' \in Procs /\ tree' \in Trees /\ proc'.handled <= proc'.added
    BY <1>0, <1>3, <1>4, <2>1, <2>2, <2>4
  <2> QED
    BY <2>2, <2>3, <2>4, <2>5 DEF Typed, TypeOK, Numbers
<1>13. CASE FileReadingDone
  <2>1. PICK f \in Files : /\ reading' = [reading EXCEPT ![f] = "no"]
                           /\ reg' = ReadingDone(reg, f) /\ MaybeStartLod(proc, reg')
    BY <1>13 DEF FileReadingDone
  <2>2. reg' \in Registries
    BY <1>0, <2>1, ReadingDoneType
  <2>3. UNCHANGED <<preinit, stage, chain, committed, requests, failures, crashes>>
    BY <1>13 DEF FileReadingDone
  <2>4. Numbers' /\ proc' \in Procs /\ tree' \in Trees /\ proc'.handled <= proc'.added
    BY <1>0, <1>3, <1>4, <2>1, <2>2, <2>3
  <2> QED
    BY <2>1, <2>2, <2>3, <2>4 DEF Typed, TypeOK, Numbers
<1>14. ASSUME NEW t \in Trees, NEW c \in Chains, LaunchChain(t, c), UNCHANGED <<proc, committed>>,
              t.last = tree.last, t.watermark = tree.watermark, t.watermark <= t.pass, t.pass <= proc.target,
              t.lod = "running" => proc.generating /\ t.pass <= proc.lodDone
       PROVE  /\ Numbers' /\ tree' \in Trees /\ chain' \in Chains /\ (chain'.rerun => chain'.step # "off")
  <2>1. tree' \in Trees /\ chain' \in Chains /\ (chain'.rerun => chain'.step # "off")
    BY <1>0, <1>14, LaunchTypes
  <2>2. Larger(t.watermark, t.pass) = t.pass
    BY <1>14, LargerIsMax DEF Trees
  <2>3. tree' = t \/ tree' = [t EXCEPT !.watermark = t.pass]
    BY <1>14, <2>2 DEF LaunchChain
  <2>4. /\ tree'.last = tree.last /\ tree'.pass = t.pass /\ tree'.lod = t.lod
        /\ tree'.watermark \in {t.watermark, t.pass}
    BY <1>14, <2>3 DEF Trees
  <2>5. /\ t.watermark \in Nat /\ t.pass \in Nat /\ proc.target \in Nat /\ committed.watermark \in Nat
    BY <1>0 DEF Trees, Procs, Commits
  <2> QED
    BY <1>14, <2>1, <2>4, <2>5 DEF Numbers, Typed
<1>15. CASE LodPassDone
  <2> DEFINE t == [tree EXCEPT !.lod = "none", !.pass = Larger(tree.pass, proc.target)]
  <2>1. proc.target \in 0..Terminal /\ tree.pass \in 0..Terminal /\ tree.pass <= proc.target
    BY <1>0, <1>4 DEF Procs, Trees
  <2>2. Larger(tree.pass, proc.target) = proc.target
    BY <2>1, LargerIsMax
  <2>3. /\ t \in Trees /\ t.last = tree.last /\ t.watermark = tree.watermark /\ t.pass = proc.target
        /\ t.lod = "none"
    BY <1>0, <2>1, <2>2 DEF Trees
  <2>4. LaunchChain(t, chain) /\ UNCHANGED <<reg, preinit, reading, stage, proc, committed, requests, failures, crashes>>
    BY <1>0, <1>15 DEF LodPassDone, Trees
  <2>5. tree.watermark \in Nat /\ tree.watermark <= proc.target
    BY <1>0, <2>1 DEF Trees, Typed, Numbers
  <2> HIDE DEF t
  <2>6. Numbers' /\ tree' \in Trees /\ chain' \in Chains /\ (chain'.rerun => chain'.step # "off")
    BY <1>0, <1>14, <2>1, <2>3, <2>4, <2>5
  <2> QED
    BY <2>4, <2>6 DEF Typed, TypeOK, Numbers
<1>16. CASE CachePressure
  <2>1. proc' \in Procs /\ proc'.handled = proc.handled /\ proc'.added = proc.added
    BY <1>0, <1>16 DEF CachePressure, Procs
  <2>2. /\ proc'.lodDone = proc.lodDone /\ proc'.target = proc.target /\ proc'.generating = proc.generating
    BY <1>0, <1>16 DEF CachePressure, Procs
  <2>3. LaunchChain(tree, chain) /\ UNCHANGED <<reg, preinit, reading, stage, committed, failures, crashes>>
    BY <1>16 DEF CachePressure
  <2>4. tree' \in Trees /\ chain' \in Chains /\ (chain'.rerun => chain'.step # "off")
    BY <1>0, <2>3, LaunchTypes
  <2>5. Larger(tree.watermark, tree.pass) = tree.pass
    BY <1>0, LargerIsMax DEF Trees, Typed, Numbers
  <2>6. tree' = tree \/ tree' = [tree EXCEPT !.watermark = tree.pass]
    BY <2>3, <2>5 DEF LaunchChain
  <2>7. /\ tree'.last = tree.last /\ tree'.pass = tree.pass /\ tree'.lod = tree.lod
        /\ tree'.watermark \in {tree.watermark, tree.pass}
    BY <1>0, <2>6 DEF Trees
  <2>8. tree.watermark \in Nat /\ tree.pass \in Nat /\ committed.watermark \in Nat
    BY <1>0 DEF Trees, Commits
  <2>9. Numbers'
    BY <1>0, <2>2, <2>3, <2>7, <2>8 DEF Numbers, Typed
  <2>10. requests' \in 0..MaxRequests
    BY <1>16 DEF CachePressure, Typed, TypeOK
  <2>11. proc'.handled <= proc'.added /\ (tree'.lod = "running" => proc'.generating)
    BY <1>4, <2>1, <2>2, <2>7
  <2> QED
    BY <2>1, <2>3, <2>4, <2>9, <2>10, <2>11 DEF Typed, TypeOK
<1>17. CASE TreesWritten
  <2>1. chain' \in Chains /\ chain'.step = "registry"
    BY <1>0, <1>17 DEF TreesWritten, Chains
  <2> QED
    BY <1>17, <2>1 DEF TreesWritten, Typed, TypeOK, Numbers
<1>18. CASE RegistryWritten
  <2>1. PICK ok \in BOOLEAN : /\ ok \/ failures + crashes < MaxFailures
                              /\ failures' = IF ok THEN failures ELSE failures + 1
                              /\ chain' = [chain EXCEPT !.step = "index", !.ok = ok]
    BY <1>18 DEF RegistryWritten
  <2>2. chain' \in Chains /\ chain'.step = "index"
    BY <1>0, <2>1 DEF Chains
  <2>3. failures' \in 0..MaxFailures
    BY <2>1 DEF Typed, TypeOK
  <2> QED
    BY <1>18, <2>2, <2>3 DEF RegistryWritten, Typed, TypeOK, Numbers
<1>19. CASE IndexCommitted
  <2>1. committed' \in Commits /\ committed'.watermark = tree.watermark
    BY <1>0, <1>19 DEF IndexCommitted, Commits, Chains, Trees
  <2>2. /\ tree' \in Trees /\ tree'.last = tree.watermark /\ tree'.watermark = tree.watermark
        /\ tree'.pass = tree.pass /\ tree'.lod = tree.lod
    BY <1>0, <1>19 DEF IndexCommitted, Trees
  <2>3. proc.written + 1 \in Nat
    BY <1>0 DEF Procs
  <2>4. proc' = [proc EXCEPT !.written = proc.written + 1]
    BY <1>0, <1>19 DEF IndexCommitted, Procs
  <2>5. /\ proc' \in Procs /\ proc'.lodDone = proc.lodDone /\ proc'.target = proc.target
        /\ proc'.generating = proc.generating /\ proc'.handled = proc.handled /\ proc'.added = proc.added
    BY <1>0, <2>3, <2>4 DEF Procs
  <2>6. chain' \in Chains /\ chain'.step = "end"
    BY <1>0, <1>19 DEF IndexCommitted, Chains
  <2>7. /\ tree.watermark \in Nat /\ committed.watermark \in Nat /\ proc.lodDone \in Nat
    BY <1>0 DEF Trees, Procs, Commits
  <2>8. Numbers'
    BY <2>1, <2>2, <2>5, <2>7 DEF Numbers, Typed
  <2> QED
    BY <1>19, <2>1, <2>2, <2>5, <2>6, <2>8 DEF IndexCommitted, Typed, TypeOK
<1>20. CASE ChainEnds
  <2>1. CASE chain.rerun
    <3>1. NoChain \in Chains
      BY EmptyType DEF NoChain, Chains, NoCommit, Copies
    <3>2. LaunchChain(tree, NoChain) /\ UNCHANGED <<reg, preinit, reading, stage, proc, committed, requests, failures, crashes>>
      BY <1>20, <2>1 DEF ChainEnds
    <3>3. Numbers' /\ tree' \in Trees /\ chain' \in Chains /\ (chain'.rerun => chain'.step # "off")
      BY <1>0, <1>4, <1>14, <3>1, <3>2 DEF Typed, Numbers
    <3> QED
      BY <3>2, <3>3 DEF Typed, TypeOK, Numbers
  <2>2. CASE ~chain.rerun
    <3>1. NoChain \in Chains /\ ~NoChain.rerun
      BY EmptyType DEF NoChain, Chains, NoCommit, Copies
    <3> QED
      BY <1>20, <2>2, <3>1 DEF ChainEnds, Typed, TypeOK, Numbers
  <2> QED
    BY <2>1, <2>2
<1>21. CASE StepFails
  <2>1. chain' \in Chains /\ chain'.step = "end"
    BY <1>0, <1>21 DEF StepFails, Chains
  <2>2. failures' \in 0..MaxFailures
    BY <1>21 DEF StepFails, Typed, TypeOK
  <2> QED
    BY <1>21, <2>1, <2>2 DEF StepFails, Typed, TypeOK, Numbers
<1>22. CASE IndexWriteDone
  <2> DEFINE rearmed == [proc EXCEPT !.written = @ - 1, !.asked = FALSE]
             p == [rearmed EXCEPT !.lodDone = proc.target, !.generating = FALSE]
  <2>1. proc.written - 1 \in Nat
    BY <1>0, <1>22 DEF IndexWriteDone, Procs
  <2>2. rearmed = [proc EXCEPT !.written = proc.written - 1, !.asked = FALSE]
    BY <1>0 DEF Procs
  <2>3. /\ rearmed \in Procs /\ rearmed.lodDone = proc.lodDone /\ rearmed.target = proc.target
        /\ rearmed.generating = proc.generating /\ rearmed.handled = proc.handled /\ rearmed.added = proc.added
    BY <1>0, <2>1, <2>2 DEF Procs
  <2> HIDE DEF rearmed
  <2>4. /\ p \in Procs /\ p.lodDone = proc.target /\ p.target = proc.target /\ ~p.generating
        /\ p.handled = proc.handled /\ p.added = proc.added
    BY <1>0, <2>3 DEF Procs
  <2>5. UNCHANGED <<reg, preinit, reading, stage, chain, committed, requests, failures, crashes>>
    BY <1>22 DEF IndexWriteDone
  <2>6. CASE ~proc.generating \/ tree.last >= proc.target
    <3>1. MaybeStartLod(p, reg)
      BY <1>22, <2>6 DEF IndexWriteDone, rearmed
    <3>2. /\ {tree.last, tree.watermark, tree.pass, proc.target, proc.lodDone, committed.watermark} \subseteq Nat
      BY <1>0 DEF Trees, Procs, Commits
    <3>3. proc.target <= committed.watermark
      BY <2>6, <3>2 DEF Typed, Numbers
    <3>4. tree.lod # "running"
      BY <2>6, <3>2 DEF Typed, Numbers
    <3> HIDE DEF p
    <3>5. Numbers' /\ proc' \in Procs /\ tree' \in Trees /\ proc'.handled <= proc'.added
      BY <1>0, <1>3, <1>4, <2>4, <2>5, <3>1, <3>2, <3>3, <3>4
    <3> QED
      BY <2>5, <3>5 DEF Typed, TypeOK, Numbers
  <2>7. CASE ~(~proc.generating \/ tree.last >= proc.target)
    <3>1. proc' = rearmed /\ UNCHANGED tree
      BY <1>22, <2>7 DEF IndexWriteDone, rearmed
    <3> QED
      BY <2>3, <2>5, <3>1 DEF Typed, TypeOK, Numbers
  <2> QED
    BY <2>6, <2>7
<1>23. CASE Crash
  <2>1. reg' \in Registries
    BY <1>0, <1>23, RestoredType DEF Crash, Commits
  <2>2. committed.watermark \in 0..Terminal /\ committed.copies \in Copies
    BY <1>0 DEF Commits
  <2>3. proc' \in Procs /\ tree' \in Trees
    BY <1>0, <1>23, <2>2 DEF Crash, NewProc, NewTree, Procs, Trees
  <2>4. chain' \in Chains /\ ~chain'.rerun
    BY <1>23, EmptyType DEF Crash, NoChain, Chains, NoCommit, Copies
  <2>5. Numbers'
    BY <1>23, <2>2 DEF Crash, NewProc, NewTree, Numbers
  <2>6. crashes' \in 0..MaxCrashes
    BY <1>23 DEF Crash, Typed, TypeOK
  <2>7. proc'.handled <= proc'.added /\ tree'.lod = "none"
    BY <1>23 DEF Crash, NewProc, NewTree
  <2> QED
    BY <1>23, <2>1, <2>3, <2>4, <2>5, <2>6, <2>7 DEF Crash, Typed, TypeOK, Unread, Stages
<1>24. CASE UNCHANGED vars
  BY <1>24 DEF vars, Typed, TypeOK, Numbers
<1> QED
  BY <1>1, <1>2, <1>5, <1>6, <1>7, <1>8, <1>9, <1>10, <1>11, <1>12, <1>13, <1>15, <1>16, <1>17,
     <1>18, <1>19, <1>20, <1>21, <1>22, <1>23, <1>24 DEF Next, Reader, Chain, Processor

\* The state keeps its shape; one chain runs at a time, and a pass only while
\* the processor waits for one.
THEOREM TypeCorrect == Spec => []TypeOK
<1>1. Typed => TypeOK
  BY DEF Typed
<1> QED
  BY TypedInit, TypedStep, <1>1, PTL DEF Spec

\* handle_index_write_done: no pass counts as done past what is committed.
THEOREM DonePassesCommitted == Spec => []LodDoneIsCommitted
<1>1. Typed => LodDoneIsCommitted
  BY DEF Typed, Numbers, LodDoneIsCommitted
<1> QED
  BY TypedInit, TypedStep, <1>1, PTL DEF Spec

-----------------------------------------------------------------------------
(***************************************************************************)
(* Counting.  Of the parts a file was counted to have, some are on their   *)
(* way and the others counted as inserted; those, and the ones in the tree *)
(* that are not counted yet, are copies in the tree.                       *)
(***************************************************************************)
InFlight(f) == {i \in DOMAIN Chunks[f] : stage[<<f, i>>] \in {"read", "sorted", "inTree"}}
InTree(f) == {i \in DOMAIN Chunks[f] : stage[<<f, i>>] = "inTree"}

Counted(r, copies) == \A f \in Files : r[f].inserted <= copies[f] /\ r[f].inserted <= r[f].subs

Counts ==
  /\ \A f \in Files : /\ reg[f].inserted + Cardinality(InFlight(f)) <= reg[f].subs
                      /\ reg[f].inserted + Cardinality(InTree(f)) <= tree.copies[f]
                      /\ ~reg[f].known => reg[f].subs = 0
                      /\ reading[f] # "no" => reg[f].known
  /\ Counted(chain.reg, chain.copies)
  /\ Counted(committed.reg, committed.copies)

LEMMA IndicesAreFinite ==
  ASSUME NEW f \in Files, NEW S \in SUBSET DOMAIN Chunks[f]
  PROVE  IsFiniteSet(S) /\ Cardinality(S) \in Nat
<1>1. DOMAIN Chunks[f] = 1..Len(Chunks[f]) /\ Len(Chunks[f]) \in Nat
  BY InputsAreFiles
<1>2. IsFiniteSet(1..Len(Chunks[f]))
  BY <1>1, FS_Interval
<1>3. IsFiniteSet(S)
  BY <1>1, <1>2, FS_Subset
<1> QED
  BY <1>3, FS_CardinalityType

LEMMA SetsOfIndices ==
  ASSUME NEW f \in Files
  PROVE  /\ IsFiniteSet(InFlight(f)) /\ Cardinality(InFlight(f)) \in Nat
         /\ IsFiniteSet(InTree(f)) /\ Cardinality(InTree(f)) \in Nat
<1>1. InFlight(f) \in SUBSET DOMAIN Chunks[f] /\ InTree(f) \in SUBSET DOMAIN Chunks[f]
  BY DEF InFlight, InTree
<1> QED
  BY <1>1, IndicesAreFinite

\* A chunk that moves from a stage to another changes these sets by itself.
LEMMA OthersStay ==
  ASSUME stage \in [Parts -> Stages], NEW c \in Parts, NEW s \in Stages,
         stage' = [stage EXCEPT ![c] = s], NEW f \in Files, f # c[1]
  PROVE  InFlight(f)' = InFlight(f) /\ InTree(f)' = InTree(f)
<1>1. \A i \in DOMAIN Chunks[f] : <<f, i>> \in Parts /\ <<f, i>> # c
  BY PartOf
<1>2. \A i \in DOMAIN Chunks[f] : stage'[<<f, i>>] = stage[<<f, i>>]
  BY <1>1
<1> QED
  BY <1>2 DEF InFlight, InTree

LEMMA OneMoves ==
  ASSUME stage \in [Parts -> Stages], NEW c \in Parts, NEW s \in Stages,
         stage' = [stage EXCEPT ![c] = s]
  PROVE  /\ s \in {"read", "sorted", "inTree"} => InFlight(c[1])' = InFlight(c[1]) \cup {c[2]}
         /\ s = "counted" => InFlight(c[1])' = InFlight(c[1]) \ {c[2]}
         /\ s = "inTree" => InTree(c[1])' = InTree(c[1]) \cup {c[2]}
         /\ s # "inTree" => InTree(c[1])' = InTree(c[1]) \ {c[2]}
         /\ c[2] \in InFlight(c[1]) <=> stage[c] \in {"read", "sorted", "inTree"}
         /\ c[2] \in InTree(c[1]) <=> stage[c] = "inTree"
<1>1. c = <<c[1], c[2]>> /\ c[1] \in Files /\ c[2] \in DOMAIN Chunks[c[1]]
  BY PartOf
<1> DEFINE f == c[1]
<1>2. \A i \in DOMAIN Chunks[f] : i # c[2] => <<f, i>> # c
  BY <1>1
<1>3. \A i \in DOMAIN Chunks[f] : stage'[<<f, i>>] = IF i = c[2] THEN s ELSE stage[<<f, i>>]
  BY <1>1, <1>2, PartOf
<1> QED
  BY <1>1, <1>3 DEF InFlight, InTree

LEMMA MovedCounts ==
  ASSUME stage \in [Parts -> Stages], NEW c \in Parts, NEW s \in Stages,
         stage' = [stage EXCEPT ![c] = s], NEW f \in Files
  PROVE  /\ f # c[1] => /\ Cardinality(InFlight(f)') = Cardinality(InFlight(f))
                        /\ Cardinality(InTree(f)') = Cardinality(InTree(f))
         /\ f = c[1] /\ stage[c] = "unread" /\ s = "read" =>
              /\ Cardinality(InFlight(f)') = Cardinality(InFlight(f)) + 1
              /\ Cardinality(InTree(f)') = Cardinality(InTree(f))
         /\ f = c[1] /\ stage[c] = "read" /\ s = "sorted" =>
              /\ Cardinality(InFlight(f)') = Cardinality(InFlight(f))
              /\ Cardinality(InTree(f)') = Cardinality(InTree(f))
         /\ f = c[1] /\ stage[c] = "sorted" /\ s = "inTree" =>
              /\ Cardinality(InFlight(f)') = Cardinality(InFlight(f))
              /\ Cardinality(InTree(f)') = Cardinality(InTree(f)) + 1
         /\ f = c[1] /\ stage[c] = "inTree" /\ s = "counted" =>
              /\ Cardinality(InFlight(f)') = Cardinality(InFlight(f)) - 1
              /\ Cardinality(InTree(f)') = Cardinality(InTree(f)) - 1
<1>1. CASE f # c[1]
  BY <1>1, OthersStay
<1>2. CASE f = c[1]
  <2> DEFINE i == c[2]
  <2>1. /\ Cardinality(InFlight(f) \cup {i}) =
              IF i \in InFlight(f) THEN Cardinality(InFlight(f)) ELSE Cardinality(InFlight(f)) + 1
        /\ Cardinality(InTree(f) \cup {i}) =
              IF i \in InTree(f) THEN Cardinality(InTree(f)) ELSE Cardinality(InTree(f)) + 1
    BY SetsOfIndices, FS_AddElement
  <2>2. /\ Cardinality(InFlight(f) \ {i}) =
              IF i \in InFlight(f) THEN Cardinality(InFlight(f)) - 1 ELSE Cardinality(InFlight(f))
        /\ Cardinality(InTree(f) \ {i}) =
              IF i \in InTree(f) THEN Cardinality(InTree(f)) - 1 ELSE Cardinality(InTree(f))
    BY SetsOfIndices, FS_RemoveElement
  <2> HIDE DEF i
  <2>3. /\ s \in {"read", "sorted", "inTree"} => InFlight(f)' = InFlight(f) \cup {i}
        /\ s = "counted" => InFlight(f)' = InFlight(f) \ {i}
        /\ s = "inTree" => InTree(f)' = InTree(f) \cup {i}
        /\ s # "inTree" => InTree(f)' = InTree(f) \ {i}
        /\ i \in InFlight(f) <=> stage[c] \in {"read", "sorted", "inTree"}
        /\ i \in InTree(f) <=> stage[c] = "inTree"
    BY <1>2, OneMoves DEF i
  <2> QED
    BY <1>2, <2>1, <2>2, <2>3
<1> QED
  BY <1>1, <1>2

LEMMA FirstUnread ==
  ASSUME NEW f \in Files, NextUnread(f) # {}
  PROVE  LET i == Min({c[2] : c \in NextUnread(f)})
         IN  <<f, i>> \in Parts /\ stage[<<f, i>>] = "unread"
<1> DEFINE I == {c[2] : c \in NextUnread(f)}
<1>1. \A c \in NextUnread(f) : c \in Parts /\ c = <<f, c[2]>> /\ c[2] \in Nat /\ stage[c] = "unread"
  <2>1. \A i \in DOMAIN Chunks[f] : i \in Nat
    BY InputsAreFiles
  <2> QED
    BY <2>1, PartOf DEF NextUnread
<1>2. I \in SUBSET Nat /\ I # {}
  BY <1>1
<1>3. Min(I) \in I
  BY <1>2, LeastOfNat
<1> QED
  BY <1>1, <1>3

LEMMA CountsInit == Init => Counts
<1> SUFFICES ASSUME Init PROVE Counts
  OBVIOUS
<1>1. /\ reg = Empty /\ chain.reg = Empty /\ committed.reg = Empty
      /\ tree.copies = [f \in Files |-> 0] /\ chain.copies = [f \in Files |-> 0]
      /\ committed.copies = [f \in Files |-> 0] /\ reading = [f \in Files |-> "no"] /\ stage = Unread
  BY DEF Init, NoChain, NoCommit, NewTree
<1>2. \A f \in Files : /\ Empty[f].inserted = 0 /\ Empty[f].subs = 0 /\ Empty[f].known = FALSE
  BY DEF Empty, NoItem
<1>3. ASSUME NEW f \in Files PROVE Cardinality(InFlight(f)) = 0 /\ Cardinality(InTree(f)) = 0
  <2>1. InFlight(f) = {} /\ InTree(f) = {}
    BY <1>1, PartOf DEF InFlight, InTree, Unread
  <2> QED
    BY <2>1, FS_EmptySet
<1>4. Counted(Empty, [f \in Files |-> 0])
  BY <1>2 DEF Counted
<1> QED
  BY <1>1, <1>2, <1>3, <1>4 DEF Counts

\* What a step does to the parts outside the one it moves.
LEMMA CountsNow ==
  ASSUME Typed, Counts PROVE Counted(reg, tree.copies)
<1>1. \A f \in Files : /\ Cardinality(InFlight(f)) \in Nat /\ Cardinality(InTree(f)) \in Nat
                       /\ {reg[f].inserted, reg[f].subs, tree.copies[f]} \subseteq Nat
  BY SetsOfIndices, ItemNumbers DEF Typed, TypeOK, Trees, Copies
<1> QED
  BY <1>1 DEF Counted, Counts

LEMMA CountsFrame ==
  ASSUME Counts, UNCHANGED <<reg, stage, reading>>, tree'.copies = tree.copies,
         Counted(chain.reg, chain.copies)', Counted(committed.reg, committed.copies)'
  PROVE  Counts'
<1>1. \A f \in Files : InFlight(f)' = InFlight(f) /\ InTree(f)' = InTree(f)
  BY DEF InFlight, InTree
<1> QED
  BY <1>1 DEF Counts

LEMMA LaunchCounts ==
  ASSUME Typed, Counts, NEW t \in Trees, NEW c \in Chains, LaunchChain(t, c), t.copies = tree.copies,
         Counted(c.reg, c.copies)
  PROVE  tree'.copies = tree.copies /\ Counted(chain.reg, chain.copies)'
<1>1. Counted(reg, tree.copies)
  BY CountsNow
<1>2. CASE c.step # "off"
  <2>1. tree' = t /\ chain' = [c EXCEPT !.rerun = TRUE]
    BY <1>2 DEF LaunchChain
  <2>2. chain'.reg = c.reg /\ chain'.copies = c.copies
    BY <2>1 DEF Chains
  <2> QED
    BY <2>1, <2>2 DEF Counted
<1>3. CASE c.step = "off"
  <2>1. /\ tree' = [t EXCEPT !.watermark = Larger(t.watermark, t.pass)]
        /\ chain' = [step |-> "trees", reg |-> reg, copies |-> t.copies, ok |-> TRUE, rerun |-> FALSE]
    BY <1>3 DEF LaunchChain
  <2>2. tree'.copies = tree.copies /\ chain'.reg = reg /\ chain'.copies = tree.copies
    BY <2>1 DEF Trees
  <2> QED
    BY <1>1, <2>2 DEF Counted
<1> QED
  BY <1>2, <1>3

LEMMA StartLodCopies ==
  ASSUME NEW p \in Procs, NEW r \in Registries, tree \in Trees, MaybeStartLod(p, r)
  PROVE  tree'.copies = tree.copies
BY StartLod DEF Trees

LEMMA RestoredCounts ==
  ASSUME NEW r \in Registries, NEW f \in Files
  PROVE  /\ r[f].known => Restored(r)[f].inserted = r[f].inserted /\ Restored(r)[f].subs = r[f].subs
         /\ ~r[f].known => Restored(r)[f].inserted = 0 /\ Restored(r)[f].subs = 0
         /\ Restored(r)[f].known = r[f].known
BY ItemNumbers DEF Restored, Items, NoItem

LEMMA CountsStep == Typed /\ Typed' /\ Counts /\ [Next]_vars => Counts'
<1> SUFFICES ASSUME Typed, Typed', Counts, [Next]_vars PROVE Counts'
  OBVIOUS
<1>0. /\ reg \in Registries /\ proc \in Procs /\ tree \in Trees /\ chain \in Chains /\ committed \in Commits
      /\ stage \in [Parts -> Stages] /\ reading \in [Files -> {"no", "yes", "stopped"}]
      /\ reg' \in Registries
  BY DEF Typed, TypeOK
<1>1. /\ Counted(chain.reg, chain.copies) /\ Counted(committed.reg, committed.copies)
      /\ Counted(reg, tree.copies)
  BY CountsNow DEF Counts
<1>2. \A f \in Files : /\ Cardinality(InFlight(f)) \in Nat /\ Cardinality(InTree(f)) \in Nat
                       /\ reg[f].inserted \in Nat /\ reg[f].subs \in Nat /\ tree.copies[f] \in Nat
  BY <1>0, SetsOfIndices, ItemNumbers DEF Trees, Copies
\* The steps that touch neither the registry nor a chunk.
<1>3. CASE AddFiles \/ BecomeIdle
  BY <1>1, <1>3, CountsFrame DEF AddFiles, BecomeIdle, Counted
<1>4. CASE LodPassDone
  <2> DEFINE t == [tree EXCEPT !.lod = "none", !.pass = Larger(tree.pass, proc.target)]
  <2>1. proc.target \in 0..Terminal /\ tree.pass \in 0..Terminal
    BY <1>0 DEF Procs, Trees
  <2>2. Larger(tree.pass, proc.target) \in 0..Terminal
    BY <2>1, LargerIsMax
  <2>3. t \in Trees /\ t.copies = tree.copies
    BY <1>0, <2>2 DEF Trees
  <2>4. LaunchChain(t, chain) /\ UNCHANGED <<reg, reading, stage, committed>>
    BY <1>0, <1>4 DEF LodPassDone, Trees
  <2> HIDE DEF t
  <2>5. tree'.copies = tree.copies /\ Counted(chain.reg, chain.copies)'
    BY <1>0, <1>1, <2>3, <2>4, LaunchCounts
  <2> QED
    BY <1>1, <2>4, <2>5, CountsFrame DEF Counted
<1>5. CASE CachePressure
  <2>1. LaunchChain(tree, chain) /\ UNCHANGED <<reg, reading, stage, committed>>
    BY <1>5 DEF CachePressure
  <2>2. tree'.copies = tree.copies /\ Counted(chain.reg, chain.copies)'
    BY <1>0, <1>1, <2>1, LaunchCounts
  <2> QED
    BY <1>1, <2>1, <2>2, CountsFrame DEF Counted
<1>6. CASE ChainEnds
  <2>1. NoChain \in Chains /\ Counted(NoChain.reg, NoChain.copies)
    BY EmptyType DEF NoChain, Chains, NoCommit, Copies, Counted, Empty, NoItem
  <2>2. UNCHANGED <<reg, reading, stage, committed>>
    BY <1>6 DEF ChainEnds
  <2>3. tree'.copies = tree.copies /\ Counted(chain.reg, chain.copies)'
    <3>1. CASE chain.rerun
      BY <1>0, <1>6, <2>1, <3>1, LaunchCounts DEF ChainEnds
    <3>2. CASE ~chain.rerun
      BY <1>6, <2>1, <3>2 DEF ChainEnds, Counted
    <3> QED
      BY <3>1, <3>2
  <2> QED
    BY <1>1, <2>2, <2>3, CountsFrame DEF Counted
<1>7. CASE TreesWritten \/ RegistryWritten \/ StepFails
  <2>1. chain'.reg = chain.reg /\ chain'.copies = chain.copies
    BY <1>0, <1>7 DEF TreesWritten, RegistryWritten, StepFails, Chains
  <2>2. UNCHANGED <<reg, reading, stage, committed, tree>>
    BY <1>7 DEF TreesWritten, RegistryWritten, StepFails
  <2> QED
    BY <1>1, <2>1, <2>2, CountsFrame DEF Counted
<1>8. CASE IndexCommitted
  <2>1. chain'.reg = chain.reg /\ chain'.copies = chain.copies
    BY <1>0, <1>8 DEF IndexCommitted, Chains
  <2>2. tree'.copies = tree.copies
    BY <1>0, <1>8 DEF IndexCommitted, Trees
  <2>3. committed'.reg = chain.reg /\ committed'.copies = chain.copies
    BY <1>8 DEF IndexCommitted
  <2>4. UNCHANGED <<reg, reading, stage>>
    BY <1>8 DEF IndexCommitted
  <2> QED
    BY <1>1, <2>1, <2>2, <2>3, <2>4, CountsFrame DEF Counted
<1>9. CASE IndexWriteDone
  <2> DEFINE rearmed == [proc EXCEPT !.written = @ - 1, !.asked = FALSE]
             p == [rearmed EXCEPT !.lodDone = proc.target, !.generating = FALSE]
  <2>1. UNCHANGED <<reg, reading, stage, chain, committed>>
    BY <1>9 DEF IndexWriteDone
  <2>2. MaybeStartLod(p, reg) \/ UNCHANGED tree
    BY <1>9 DEF IndexWriteDone
  <2>3. tree'.copies = tree.copies
    BY <1>0, <2>2 DEF MaybeStartLod, Trees
  <2> QED
    BY <1>1, <2>1, <2>3, CountsFrame DEF Counted
<1>10. CASE ReadError
  <2>1. UNCHANGED <<reg, stage, tree, chain, committed>>
    BY <1>10 DEF ReadError
  <2>2. \A f \in Files : InFlight(f)' = InFlight(f) /\ InTree(f)' = InTree(f)
    BY <2>1 DEF InFlight, InTree
  <2>3. \A f \in Files : reading'[f] # "no" => reading[f] # "no"
    BY <1>0, <1>10 DEF ReadError
  <2> QED
    BY <1>1, <2>1, <2>2, <2>3 DEF Counts, Counted
\* The steps of the registry alone.
<1>11. ASSUME UNCHANGED <<stage, chain, committed>>, tree'.copies = tree.copies,
              \A f \in Files : /\ reg'[f].inserted = reg[f].inserted \/ (reg'[f].inserted = 0 /\ ~reg[f].known)
                               /\ reg'[f].subs = reg[f].subs \/ (reg'[f].subs = 0 /\ ~reg[f].known)
                               /\ reg'[f].known \/ (~reg[f].known /\ reg'[f].subs = reg[f].subs)
                               /\ reading'[f] # "no" => reg'[f].known
       PROVE  Counts'
  <2>1. \A f \in Files : InFlight(f)' = InFlight(f) /\ InTree(f)' = InTree(f)
    BY <1>11 DEF InFlight, InTree
  <2>2. ASSUME NEW f \in Files
        PROVE  /\ reg'[f].inserted + Cardinality(InFlight(f)) <= reg'[f].subs
               /\ reg'[f].inserted + Cardinality(InTree(f)) <= tree.copies[f]
               /\ ~reg'[f].known => reg'[f].subs = 0
    BY <1>2, <1>11 DEF Counts
  <2> QED
    BY <1>1, <1>11, <2>1, <2>2 DEF Counts, Counted
<1>12. CASE HandleNewFiles
  <2>1. PICK fs : reg' = RegisterFiles(reg, fs)
    BY <1>12 DEF HandleNewFiles
  <2>2. UNCHANGED <<stage, chain, committed, tree, reading>>
    BY <1>12 DEF HandleNewFiles
  <2>3. NewItem.known /\ NewItem.inserted = 0 /\ NewItem.subs = 0
    BY DEF NewItem, NoItem
  <2>4. \A f \in Files : reg'[f] = reg[f] \/ (~reg[f].known /\ reg'[f] = NewItem)
    BY <2>1 DEF RegisterFiles
  <2> QED
    BY <1>11, <2>2, <2>3, <2>4 DEF Counts
<1>13. CASE SettleBatch
  <2>1. PICK fs, gs : reg' = FilesFailed(RegisterPreInit(reg, fs), gs)
    BY <1>13, Zenon DEF SettleBatch
  <2>2. UNCHANGED <<stage, chain, committed, reading>> /\ (MaybeStartLod(proc, reg') \/ UNCHANGED tree)
    BY <1>13, Zenon DEF SettleBatch
  <2>3. tree'.copies = tree.copies
    BY <1>0, <2>2 DEF MaybeStartLod, Trees
  <2>4. \A f \in Files : /\ reg'[f].inserted = reg[f].inserted /\ reg'[f].subs = reg[f].subs
                         /\ reg'[f].known = reg[f].known
    BY <1>0, <2>1, ItemNumbers DEF FilesFailed, RegisterPreInit, Items
  <2> QED
    BY <1>11, <2>2, <2>3, <2>4 DEF Counts
<1>14. CASE Dispatch
  <2>1. PICK f \in NextInputs(reg) : reg' = Dispatched(reg, f) /\ reading' = [reading EXCEPT ![f] = "yes"]
    BY <1>14 DEF Dispatch
  <2>2. f \in Files /\ reg[f].known
    BY DEF NextInputs, Registered
  <2>3. UNCHANGED <<stage, chain, committed, tree>>
    BY <1>14 DEF Dispatch
  <2>4. \A g \in Files : /\ reg'[g].inserted = reg[g].inserted /\ reg'[g].subs = reg[g].subs
                         /\ reg'[g].known = reg[g].known
    BY <1>0, <2>1, <2>2, ItemNumbers DEF Dispatched, Items, Registries
  <2>5. \A g \in Files : reading'[g] # "no" => g = f \/ reading[g] # "no"
    BY <1>0, <2>1
  <2> QED
    BY <1>11, <2>2, <2>3, <2>4, <2>5 DEF Counts
<1>15. CASE FileReadingDone
  <2>1. PICK f \in Files : /\ reading' = [reading EXCEPT ![f] = "no"]
                           /\ reg' = ReadingDone(reg, f) /\ MaybeStartLod(proc, reg')
    BY <1>15 DEF FileReadingDone
  <2>2. UNCHANGED <<stage, chain, committed>>
    BY <1>15 DEF FileReadingDone
  <2>3. tree'.copies = tree.copies
    BY <1>0, <2>1, StartLodCopies
  <2>4. \A g \in Files : /\ reg'[g].inserted = reg[g].inserted /\ reg'[g].subs = reg[g].subs
                         /\ reg'[g].known = reg[g].known
    BY <1>0, <2>1, ItemNumbers DEF ReadingDone, Items, Registries
  <2>5. \A g \in Files : reading'[g] # "no" => reading[g] # "no"
    BY <1>0, <2>1
  <2> QED
    BY <1>11, <2>2, <2>3, <2>4, <2>5 DEF Counts
\* The steps of a chunk.
<1>16. CASE ReadChunk
  <2>1. PICK f \in Files :
          /\ reading[f] = "yes" /\ NextUnread(f) # {}
          /\ LET i == Min({c[2] : c \in NextUnread(f)}) IN stage' = [stage EXCEPT ![<<f, i>>] = "read"]
          /\ reg' = SubAdded(reg, f)
    BY <1>16 DEF ReadChunk
  <2>2. PICK c \in Parts : c[1] = f /\ stage[c] = "unread" /\ stage' = [stage EXCEPT ![c] = "read"]
    BY <2>1, FirstUnread
  <2>3. UNCHANGED <<reading, tree, chain, committed>>
    BY <1>16 DEF ReadChunk
  <2>4. \A g \in Files : /\ reg'[g].inserted = reg[g].inserted /\ reg'[g].known = reg[g].known
                         /\ reg'[g].subs = IF g = f THEN reg[g].subs + 1 ELSE reg[g].subs
    BY <1>0, <2>1, ItemNumbers DEF SubAdded, Items, Registries
  <2>5. \A g \in Files : /\ Cardinality(InTree(g)') = Cardinality(InTree(g))
                         /\ Cardinality(InFlight(g)') = IF g = f THEN Cardinality(InFlight(g)) + 1
                                                                 ELSE Cardinality(InFlight(g))
    BY <1>0, <2>2, MovedCounts DEF Stages
  <2>6. ASSUME NEW g \in Files
        PROVE  /\ reg'[g].inserted + Cardinality(InFlight(g)') <= reg'[g].subs
               /\ reg'[g].inserted + Cardinality(InTree(g)') <= tree.copies[g]
               /\ ~reg'[g].known => reg'[g].subs = 0
               /\ reading[g] # "no" => reg'[g].known
    BY <1>2, <2>1, <2>4, <2>5 DEF Counts
  <2> QED
    BY <1>1, <2>3, <2>6 DEF Counts, Counted
<1>17. CASE SortedChunk
  <2>1. PICK c \in Parts : /\ stage[c] = "read" /\ stage' = [stage EXCEPT ![c] = "sorted"]
                           /\ reg' = SortedPoints(reg, c[1], Key(c))
    BY <1>17 DEF SortedChunk
  <2>2. UNCHANGED <<reading, tree, chain, committed>> /\ c[1] \in Files
    BY <1>17, PartOf DEF SortedChunk
  <2>3. \A g \in Files : /\ reg'[g].inserted = reg[g].inserted /\ reg'[g].known = reg[g].known
                         /\ reg'[g].subs = reg[g].subs
    BY <1>0, <2>1, <2>2, ItemNumbers DEF SortedPoints, Items, Registries
  <2>4. \A g \in Files : /\ Cardinality(InTree(g)') = Cardinality(InTree(g))
                         /\ Cardinality(InFlight(g)') = Cardinality(InFlight(g))
    BY <1>0, <2>1, MovedCounts DEF Stages
  <2> QED
    BY <1>1, <2>2, <2>3, <2>4 DEF Counts, Counted
<1>18. CASE InsertChunk
  <2>1. PICK c \in Parts : /\ stage[c] = "sorted" /\ stage' = [stage EXCEPT ![c] = "inTree"]
                           /\ tree' = [tree EXCEPT !.copies[c[1]] = @ + 1]
    BY <1>18 DEF InsertChunk
  <2>2. UNCHANGED <<reg, reading, chain, committed>> /\ c[1] \in Files
    BY <1>18, PartOf DEF InsertChunk
  <2>3. \A g \in Files : tree'.copies[g] = IF g = c[1] THEN tree.copies[g] + 1 ELSE tree.copies[g]
    BY <1>0, <2>1, <2>2 DEF Trees, Copies
  <2>4. \A g \in Files : /\ Cardinality(InTree(g)') = IF g = c[1] THEN Cardinality(InTree(g)) + 1
                                                                  ELSE Cardinality(InTree(g))
                         /\ Cardinality(InFlight(g)') = Cardinality(InFlight(g))
    BY <1>0, <2>1, MovedCounts DEF Stages
  <2>5. ASSUME NEW g \in Files
        PROVE  /\ reg[g].inserted + Cardinality(InFlight(g)') <= reg[g].subs
               /\ reg[g].inserted + Cardinality(InTree(g)') <= tree'.copies[g]
    BY <1>2, <2>3, <2>4 DEF Counts
  <2> QED
    BY <1>1, <2>2, <2>5 DEF Counts, Counted
<1>19. CASE TreeDoneWithInput
  <2>1. PICK c \in Parts : /\ stage[c] = "inTree" /\ stage' = [stage EXCEPT ![c] = "counted"]
                           /\ reg' = TreeDone(reg, c[1]) /\ MaybeStartLod(proc, reg')
    BY <1>19 DEF TreeDoneWithInput
  <2>2. UNCHANGED <<reading, chain, committed>> /\ c[1] \in Files
    BY <1>19, PartOf DEF TreeDoneWithInput
  <2>3. tree'.copies = tree.copies
    BY <1>0, <2>1, StartLodCopies
  <2>4. \A g \in Files : /\ reg'[g].inserted = IF g = c[1] THEN reg[g].inserted + 1 ELSE reg[g].inserted
                         /\ reg'[g].known = reg[g].known /\ reg'[g].subs = reg[g].subs
    BY <1>0, <2>1, <2>2, ItemNumbers DEF TreeDone, Items, Registries
  <2>5. \A g \in Files : IF g = c[1] THEN /\ Cardinality(InTree(g)') = Cardinality(InTree(g)) - 1
                                          /\ Cardinality(InFlight(g)') = Cardinality(InFlight(g)) - 1
                                     ELSE /\ Cardinality(InTree(g)') = Cardinality(InTree(g))
                                          /\ Cardinality(InFlight(g)') = Cardinality(InFlight(g))
    BY <1>0, <2>1, MovedCounts DEF Stages
  <2>6. ASSUME NEW g \in Files
        PROVE  /\ reg'[g].inserted + Cardinality(InFlight(g)') <= reg'[g].subs
               /\ reg'[g].inserted + Cardinality(InTree(g)') <= tree.copies[g]
               /\ ~reg'[g].known => reg'[g].subs = 0
               /\ reading[g] # "no" => reg'[g].known
    BY <1>2, <2>4, <2>5 DEF Counts
  <2> QED
    BY <1>1, <2>2, <2>3, <2>6 DEF Counts, Counted
<1>20. CASE Crash
  <2>1. /\ reg' = Restored(committed.reg) /\ reading' = [f \in Files |-> "no"] /\ stage' = Unread
        /\ tree' = NewTree(committed.watermark, committed.copies) /\ chain' = NoChain /\ committed' = committed
    BY <1>20 DEF Crash
  <2>2. tree'.copies = committed.copies
    BY <2>1 DEF NewTree
  <2>3. ASSUME NEW f \in Files PROVE Cardinality(InFlight(f)') = 0 /\ Cardinality(InTree(f)') = 0
    <3>1. InFlight(f)' = {} /\ InTree(f)' = {}
      BY <2>1, PartOf DEF InFlight, InTree, Unread
    <3> QED
      BY <3>1, FS_EmptySet
  <2>4. Counted(chain.reg, chain.copies)'
    BY <2>1 DEF NoChain, NoCommit, Counted, Empty, NoItem
  <2>5. ASSUME NEW f \in Files
        PROVE  /\ reg'[f].inserted <= reg'[f].subs /\ reg'[f].inserted <= committed.copies[f]
               /\ ~reg'[f].known => reg'[f].subs = 0
               /\ reg'[f].inserted \in Nat
    <3>1. committed.reg \in Registries /\ committed.copies[f] \in Nat
      BY <1>0 DEF Commits, Copies
    <3>2. committed.reg[f].inserted <= committed.reg[f].subs /\ committed.reg[f].inserted <= committed.copies[f]
      BY <1>1 DEF Counted
    <3> QED
      BY <1>0, <2>1, <3>1, <3>2, RestoredCounts, ItemNumbers
  <2> QED
    BY <1>1, <2>1, <2>2, <2>3, <2>4, <2>5 DEF Counts, Counted
<1>21. CASE UNCHANGED vars
  BY <1>1, <1>21, CountsFrame DEF vars, Counted
<1> QED
  BY <1>3, <1>4, <1>5, <1>6, <1>7, <1>8, <1>9, <1>10, <1>12, <1>13, <1>14, <1>15, <1>16, <1>17,
     <1>18, <1>19, <1>20, <1>21 DEF Next, Reader, Chain, Processor

\* A registry section and the trees written with it: no insertion is counted
\* whose chunk is missing, whatever crashes and whatever is read again.
THEOREM CountsAreBacked == Spec => []CountedIsCommitted
<1>1. Counts => CountedIsCommitted
  <2>1. Counts => \A f \in Files : committed.reg[f].inserted <= committed.copies[f]
    BY DEF Counts, Counted
  <2> QED
    BY <2>1 DEF CountedIsCommitted
<1> QED
  BY TypedInit, TypedStep, CountsInit, CountsStep, <1>1, PTL DEF Spec

-----------------------------------------------------------------------------
(***************************************************************************)
(* The first session of a conversion whose files are all added by one      *)
(* call.  They are settled together, before any is dispatched, and so are  *)
(* dispatched in rising order of their corners.                            *)
(***************************************************************************)
OneCall == Len(Batches) <= 1

Ordered(r) ==
  /\ \A f, g \in InOrder(r) : r[f].rank <= r[g].rank => r[f].order <= r[g].order
  /\ \A f \in InOrder(r) : r[f].rank <= Cardinality(InOrder(r))
  /\ \A f \in InOrder(r), g \in Registered(r) : r[g].started \/ r[f].order <= r[g].order

\* A file: registered, settled, dispatched, read; only then are there parts.
Life(f) ==
  /\ reg[f].order <= Corner[f]
  /\ reg[f].rank > 0 => reg[f].settled /\ reg[f].started
  /\ reg[f].settled => reg[f].known
  /\ reg[f].started => reg[f].settled
  /\ reg[f].finished => reg[f].started
  /\ reading[f] = "no" <=> (reg[f].rank > 0 => reg[f].finished)
  /\ reg[f].rank = 0 => \A i \in DOMAIN Chunks[f] : stage[<<f, i>>] = "unread"
  /\ reg[f].rank = 0 => tree.copies[f] = 0

Batch ==
  /\ proc.handled = 0 => preinit = {} /\ Registered(reg) = {}
  /\ \A f \in Registered(reg) : reg[f].settled <=> preinit = {}
  /\ preinit # {} => preinit = {Batches[1]} /\ Registered(reg) = Batches[1]

FirstSession == crashes = 0 => Ordered(reg) /\ (\A f \in Files : Life(f)) /\ Batch

LEMMA SameOrder ==
  ASSUME NEW r, NEW q, \A f \in Files : /\ q[f].rank = r[f].rank /\ q[f].order = r[f].order
                                        /\ q[f].started = r[f].started /\ q[f].known = r[f].known
  PROVE  /\ InOrder(q) = InOrder(r) /\ Registered(q) = Registered(r)
         /\ Ordered(r) => Ordered(q)
<1>1. InOrder(q) = InOrder(r) /\ Registered(q) = Registered(r)
  BY DEF InOrder, Registered
<1>2. InOrder(r) \subseteq Files /\ Registered(r) \subseteq Files
  BY DEF InOrder, Registered
<1>3. ASSUME Ordered(r) PROVE Ordered(q)
  <2>1. \A f, g \in InOrder(q) : q[f].rank <= q[g].rank => q[f].order <= q[g].order
    BY <1>1, <1>2, <1>3 DEF Ordered
  <2>2. \A f \in InOrder(q) : q[f].rank <= Cardinality(InOrder(q))
    BY <1>1, <1>2, <1>3 DEF Ordered
  <2>3. \A f \in InOrder(q), g \in Registered(q) : q[g].started \/ q[f].order <= q[g].order
    BY <1>1, <1>2, <1>3 DEF Ordered
  <2> QED
    BY <2>1, <2>2, <2>3 DEF Ordered
<1> QED
  BY <1>1, <1>3

LEMMA NoneInOrder == ASSUME NEW r, InOrder(r) = {} PROVE Ordered(r)
BY DEF Ordered

LEMMA FirstSessionInit == Init => FirstSession
<1> SUFFICES ASSUME Init PROVE Ordered(reg) /\ (\A f \in Files : Life(f)) /\ Batch
  BY DEF FirstSession
<1> USE TerminalIsGreatest
<1>1. \A f \in Files : reg[f] = NoItem
  BY DEF Init, Empty
<1>2. InOrder(reg) = {} /\ Registered(reg) = {}
  BY <1>1 DEF InOrder, Registered, NoItem
<1>3. Ordered(reg)
  BY <1>2, NoneInOrder
<1>4. Batch
  BY <1>2 DEF Batch, Init
<1>5. ASSUME NEW f \in Files PROVE Life(f)
  <2>1. \A i \in DOMAIN Chunks[f] : stage[<<f, i>>] = "unread"
    BY PartOf DEF Init, Unread
  <2>2. tree.copies[f] = 0 /\ reading[f] = "no"
    BY DEF Init, NewTree, NoCommit
  <2> QED
    BY <1>1, <2>1, <2>2 DEF Life, NoItem
<1> QED
  BY <1>3, <1>4, <1>5

\* The first session goes on when nothing of it is touched.
LEMMA SessionFrame ==
  ASSUME Ordered(reg), \A f \in Files : Life(f), Batch,
         UNCHANGED <<reg, preinit, reading, stage>>,
         tree'.copies = tree.copies, proc'.handled = proc.handled
  PROVE  Ordered(reg)' /\ (\A f \in Files : Life(f)') /\ Batch'
BY DEF Ordered, Life, Batch, InOrder, Registered

\* A step within the first session.
LEMMA NoCrash == ASSUME Typed, [Next]_vars, crashes' = 0 PROVE crashes = 0 /\ ~Crash
<1>1. Crash => crashes' = crashes + 1
  BY DEF Crash
<1>2. ~Crash
  BY <1>1 DEF Typed, TypeOK
<1>3. Next => Crash \/ crashes' = crashes
  BY Zenon DEF Next, Reader, Chain, Processor, AddFiles, HandleNewFiles, SettleBatch, Dispatch, BecomeIdle,
    ReadChunk, SortedChunk, InsertChunk, TreeDoneWithInput, FileReadingDone, ReadError, LodPassDone,
    CachePressure, TreesWritten, RegistryWritten, IndexCommitted, ChainEnds, StepFails, IndexWriteDone
<1> QED
  BY <1>2, <1>3 DEF vars

\* What settling a batch does to the registry.
LEMMA SettleShape ==
  ASSUME SettleBatch
  PROVE  \E refs \in preinit : \E failed \in SUBSET refs :
           /\ reg' = FilesFailed(RegisterPreInit(reg, refs \ failed), failed)
           /\ preinit' = preinit \ {refs}
<1>1. PICK refs \in preinit : \E answer \in [refs -> {"bounds", "error", "lost"}] :
          LET failed == {f \in refs : answer[f] # "bounds"}
              next   == FilesFailed(RegisterPreInit(reg, refs \ failed), failed)
          IN  reg' = next /\ preinit' = preinit \ {refs}
  BY Zenon DEF SettleBatch
<1>2. PICK answer \in [refs -> {"bounds", "error", "lost"}] :
          LET failed == {f \in refs : answer[f] # "bounds"}
              next   == FilesFailed(RegisterPreInit(reg, refs \ failed), failed)
          IN  reg' = next /\ preinit' = preinit \ {refs}
  BY <1>1, Zenon
<1> DEFINE failed == {f \in refs : answer[f] # "bounds"}
<1>3. reg' = FilesFailed(RegisterPreInit(reg, refs \ failed), failed) /\ preinit' = preinit \ {refs}
  BY <1>2, Zenon
<1>4. failed \in SUBSET refs
  OBVIOUS
<1> HIDE DEF failed
<1> QED
  BY <1>3, <1>4

LEMMA FirstSessionStep ==
  ASSUME OneCall PROVE Typed /\ Typed' /\ Counts /\ FirstSession /\ [Next]_vars => FirstSession'
<1> SUFFICES ASSUME Typed, Typed', Counts, FirstSession, [Next]_vars, crashes' = 0
             PROVE  Ordered(reg)' /\ (\A f \in Files : Life(f)') /\ Batch'
  BY DEF FirstSession
<1>0. /\ reg \in Registries /\ proc \in Procs /\ tree \in Trees /\ chain \in Chains /\ committed \in Commits
      /\ stage \in [Parts -> Stages] /\ reading \in [Files -> {"no", "yes", "stopped"}]
      /\ reg' \in Registries /\ crashes \in Nat
  BY DEF Typed, TypeOK
<1>1. crashes = 0 /\ ~Crash
  BY NoCrash
<1>2. Ordered(reg) /\ (\A f \in Files : Life(f)) /\ Batch
  BY <1>1 DEF FirstSession
<1>3. \A f \in Files : /\ {reg[f].rank, reg[f].order, reg[f].inserted, reg[f].subs} \subseteq Nat
                       /\ reg[f].known \in BOOLEAN /\ reg[f].settled \in BOOLEAN
                       /\ reg[f].started \in BOOLEAN /\ reg[f].finished \in BOOLEAN
  BY <1>0, ItemNumbers
<1>4. InOrder(reg) \subseteq Files /\ Registered(reg) \subseteq Files
  BY DEF InOrder, Registered
<1>5. CASE \/ AddFiles \/ BecomeIdle \/ LodPassDone \/ CachePressure \/ Chain \/ StepFails
           \/ IndexWriteDone \/ UNCHANGED vars
  <2>1. UNCHANGED <<reg, preinit, reading, stage>>
    BY <1>5 DEF AddFiles, BecomeIdle, LodPassDone, CachePressure, Chain, StepFails, IndexWriteDone, vars,
      TreesWritten, RegistryWritten, IndexCommitted, ChainEnds
  <2>2. proc'.handled = proc.handled
    BY <1>0, <1>5 DEF AddFiles, BecomeIdle, LodPassDone, CachePressure, Chain, StepFails, IndexWriteDone, vars,
      TreesWritten, RegistryWritten, IndexCommitted, ChainEnds, Procs, MaybeStartLod
  <2>3. tree'.copies = tree.copies
    BY <1>0, <1>5 DEF AddFiles, BecomeIdle, LodPassDone, CachePressure, Chain, StepFails, IndexWriteDone, vars,
      TreesWritten, RegistryWritten, IndexCommitted, ChainEnds, Trees, MaybeStartLod, LaunchChain
  <2> QED
    BY <1>2, <2>1, <2>2, <2>3, SessionFrame
<1>6. CASE HandleNewFiles
  <2>1. proc.handled = 0 /\ proc'.handled = 1 /\ Len(Batches) = 1
    <3>1. proc.handled < proc.added /\ proc' = [proc EXCEPT !.handled = proc.handled + 1]
      BY <1>6 DEF HandleNewFiles
    <3>2. Len(Batches) \in Nat /\ proc.handled \in 0..Len(Batches) /\ proc.added \in 0..Len(Batches)
      BY <1>0, InputsAreFiles DEF Procs
    <3>3. proc'.handled = proc.handled + 1
      BY <1>0, <3>1 DEF Procs
    <3>4. proc.handled = 0 /\ Len(Batches) = 1
      <4>1. \A h, a, l \in Nat : h < a /\ a <= l /\ l <= 1 => h = 0 /\ l = 1
        OBVIOUS
      <4>2. /\ proc.handled \in Nat /\ proc.added \in Nat /\ Len(Batches) \in Nat
            /\ proc.added <= Len(Batches) /\ Len(Batches) <= 1 /\ proc.handled < proc.added
        BY <3>1, <3>2 DEF OneCall
      <4> QED
        BY <4>1, <4>2
    <3> QED
      BY <3>3, <3>4
  <2>2. preinit = {} /\ Registered(reg) = {}
    BY <1>2, <2>1 DEF Batch
  <2>3. \A f \in Files : ~reg[f].known
    BY <2>2 DEF Registered
  <2>14. Batches[1] \in SUBSET Files
    <3> DEFINE S == SUBSET Files
               s == Batches
    <3>1. s \in Seq(S) /\ 1 \in DOMAIN s
      BY <2>1, InputsAreFiles
    <3> HIDE DEF S, s
    <3>2. s[1] \in S
      BY <3>1
    <3> QED
      BY <3>2 DEF S, s
  <2>4. /\ Batches[1] \in SUBSET Files
        /\ {f \in Batches[1] : ~(reg[f].known /\ Done(reg[f]))} = Batches[1]
    BY <2>3, <2>14, Zenon
  <2>15. proc.handled + 1 = 1
    BY <2>1
  <2>5. reg' = RegisterFiles(reg, Batches[1]) /\ preinit' = {Batches[1]}
    <3>1. /\ reg' = RegisterFiles(reg, Batches[proc.handled + 1])
          /\ preinit' = preinit \cup {{f \in Batches[proc.handled + 1] : ~(reg[f].known /\ Done(reg[f]))}}
      BY <1>6 DEF HandleNewFiles
    <3> QED
      BY <2>2, <2>4, <2>15, <3>1
  <2>6. UNCHANGED <<reading, stage, tree>>
    BY <1>6 DEF HandleNewFiles
  <2>7. /\ ~NewItem.settled /\ ~NewItem.started /\ ~NewItem.finished /\ NewItem.known
        /\ NewItem.rank = 0 /\ NewItem.order = 0
    BY DEF NewItem, NoItem
  <2>8. \A f \in Files : reg'[f] = IF f \in Batches[1] THEN NewItem ELSE reg[f]
    BY <2>3, <2>5 DEF RegisterFiles
  <2>9. \A f \in Files : reg[f].rank = 0
    BY <1>2, <1>3, <2>3 DEF Life
  <2>10. InOrder(reg)' = {} /\ Registered(reg)' = Batches[1]
    BY <2>3, <2>4, <2>7, <2>8, <2>9 DEF InOrder, Registered
  <2>11. Ordered(reg)'
    BY <2>10, NoneInOrder
  <2>12. Batch'
    BY <2>1, <2>4, <2>5, <2>7, <2>8, <2>10 DEF Batch
  <2>13. ASSUME NEW f \in Files PROVE Life(f)'
    <3>1. Corner[f] >= 0
      BY TerminalIsGreatest
    <3>2. Life(f) /\ reg[f].rank = 0 /\ ~reg[f].known
      BY <1>2, <2>3, <2>9
    <3> QED
      BY <2>6, <2>7, <2>8, <3>1, <3>2 DEF Life
  <2> QED
    BY <2>11, <2>12, <2>13
<1>7. CASE SettleBatch
  <2>1. PICK refs \in preinit : \E failed \in SUBSET refs :
            /\ reg' = FilesFailed(RegisterPreInit(reg, refs \ failed), failed)
            /\ preinit' = preinit \ {refs}
    BY <1>7, SettleShape
  <2>0. PICK failed \in SUBSET refs : /\ reg' = FilesFailed(RegisterPreInit(reg, refs \ failed), failed)
                                      /\ preinit' = preinit \ {refs}
    BY <2>1
  <2>2. UNCHANGED <<reading, stage>> /\ (MaybeStartLod(proc, reg') \/ UNCHANGED <<proc, tree>>)
    BY <1>7, Zenon DEF SettleBatch
  <2>3. tree'.copies = tree.copies /\ proc'.handled = proc.handled
    BY <1>0, <2>2 DEF MaybeStartLod, Trees, Procs
  <2>4. refs = Batches[1] /\ preinit' = {} /\ Registered(reg) = refs
    BY <1>2, <2>0 DEF Batch
  <2>5. \A f \in Files : ~reg[f].settled /\ reg[f].rank = 0 /\ ~reg[f].started /\ ~reg[f].finished
    BY <1>2, <1>3, <2>1 DEF Batch, Life, Registered
  <2>16. \A f \in Files : reg[f].settled = FALSE /\ reg[f].started = FALSE /\ reg[f].finished = FALSE
    BY <1>3, <2>5
  <2>6. \A f \in Files :
          /\ reg'[f].known = reg[f].known /\ reg'[f].rank = reg[f].rank
          /\ reg'[f].order \in {reg[f].order, Corner[f]}
          /\ (reg'[f].settled <=> f \in refs)
          /\ (reg'[f].started <=> f \in failed) /\ (reg'[f].finished <=> f \in failed)
    <3> SUFFICES ASSUME NEW f \in Files
                 PROVE  /\ reg'[f].known = reg[f].known /\ reg'[f].rank = reg[f].rank
                        /\ reg'[f].order \in {reg[f].order, Corner[f]}
                        /\ (reg'[f].settled <=> f \in refs)
                        /\ (reg'[f].started <=> f \in failed) /\ (reg'[f].finished <=> f \in failed)
      OBVIOUS
    <3>1. CASE f \in failed
      <4>1. reg'[f] = [reg[f] EXCEPT !.settled = TRUE, !.started = TRUE, !.finished = TRUE]
        BY <2>0, <3>1 DEF FilesFailed, RegisterPreInit
      <4> QED
        BY <1>0, <2>1, <3>1, <4>1, ItemNumbers DEF Items
    <3>2. CASE f \in refs /\ f \notin failed
      <4>1. reg'[f] = [reg[f] EXCEPT !.order = Corner[f], !.settled = TRUE]
        BY <2>0, <3>2 DEF FilesFailed, RegisterPreInit
      <4>2. reg[f] \in Items
        BY <1>0, ItemNumbers
      <4>3. /\ reg'[f].known = reg[f].known /\ reg'[f].rank = reg[f].rank /\ reg'[f].order = Corner[f]
            /\ reg'[f].settled = TRUE /\ reg'[f].started = reg[f].started
            /\ reg'[f].finished = reg[f].finished
        BY <4>1, <4>2 DEF Items
      <4> QED
        BY <2>16, <3>2, <4>3
    <3>3. CASE f \notin refs
      <4>1. reg'[f] = reg[f]
        BY <2>0, <3>3 DEF FilesFailed, RegisterPreInit
      <4> QED
        BY <1>3, <2>1, <2>5, <2>16, <3>3, <4>1
    <3> QED
      BY <2>16, <3>1, <3>2, <3>3
  <2>7. InOrder(reg)' = {} /\ Registered(reg)' = refs
    BY <1>3, <2>4, <2>5, <2>6 DEF InOrder, Registered
  <2>8. Ordered(reg)'
    BY <2>7, NoneInOrder
  <2>9. Batch'
    <3>1. proc.handled # 0
      BY <1>2, <2>1 DEF Batch
    <3>2. \A f \in Registered(reg)' : reg'[f].settled
      BY <1>4, <2>4, <2>6, <2>7
    <3> QED
      BY <2>3, <2>4, <3>1, <3>2 DEF Batch
  <2>10. ASSUME NEW f \in Files PROVE Life(f)'
    <3>1. Corner[f] \in Nat
      BY TerminalIsGreatest
    <3>2. Life(f) /\ reg[f].rank = 0 /\ (f \in refs => reg[f].known) /\ (f \in failed => f \in refs)
      BY <1>2, <2>1, <2>4, <2>5 DEF Registered
    <3>3. reg'[f].order <= Corner[f]
      BY <1>3, <2>6, <3>1, <3>2 DEF Life
    <3> QED
      BY <2>2, <2>3, <2>5, <2>6, <3>2, <3>3 DEF Life
  <2> QED
    BY <2>8, <2>9, <2>10
<1>8. CASE Dispatch
  <2>1. PICK f \in NextInputs(reg) : reg' = Dispatched(reg, f) /\ reading' = [reading EXCEPT ![f] = "yes"]
    BY <1>8 DEF Dispatch
  <2>2. UNCHANGED <<preinit, stage, proc, tree>>
    BY <1>8 DEF Dispatch
  <2>3. f \in Files /\ reg[f].known /\ reg[f].settled /\ ~reg[f].started
    BY DEF NextInputs, Registered
  <2>4. preinit = {} /\ \A g \in Registered(reg) : reg[g].settled
    BY <1>2, <2>3 DEF Batch, Registered
  <2>5. \A g \in Registered(reg) : ~reg[g].started => reg[f].order <= reg[g].order
    BY <2>4 DEF NextInputs
  <2> DEFINE n == Cardinality(InOrder(reg))
  <2>6. n \in Nat /\ f \notin InOrder(reg)
    BY <1>2, <2>3, FilesAreFinite DEF InOrder, Life
  <2>7. /\ \A g \in Files : g # f => reg'[g] = reg[g]
        /\ reg'[f] = [reg[f] EXCEPT !.started = TRUE, !.rank = n + 1]
    BY <1>0, <2>1, <2>3 DEF Dispatched, Registries
  <2> HIDE DEF n
  <2>8. /\ reg'[f].rank = n + 1 /\ reg'[f].started = TRUE /\ reg'[f].order = reg[f].order
        /\ reg'[f].known = reg[f].known /\ reg'[f].settled = reg[f].settled
        /\ reg'[f].finished = reg[f].finished
    BY <1>0, <2>3, <2>7, ItemNumbers DEF Items
  <2>9. InOrder(reg)' = InOrder(reg) \cup {f} /\ Registered(reg)' = Registered(reg)
    <3>1. \A g \in Files : reg'[g].known = reg[g].known
      BY <2>7, <2>8
    <3>2. \A g \in Files : reg'[g].rank > 0 <=> (reg[g].rank > 0 \/ g = f)
      <4>1. n + 1 > 0
        BY <2>6
      <4>2. ASSUME NEW g \in Files, g # f PROVE reg'[g].rank = reg[g].rank
        BY <2>7, <4>2
      <4> QED
        BY <2>8, <4>1, <4>2
    <3>3. InOrder(reg)' = InOrder(reg) \cup {f}
      BY <2>3, <3>2 DEF InOrder
    <3> QED
      BY <3>1, <3>3 DEF Registered
  <2>10. Cardinality(InOrder(reg)') = n + 1
    <3>1. IsFiniteSet(InOrder(reg))
      BY <1>4, FilesAreFinite
    <3>2. Cardinality(InOrder(reg) \cup {f}) = Cardinality(InOrder(reg)) + 1
      BY <2>6, <3>1, FS_AddElement
    <3> QED
      BY <2>9, <3>2 DEF n
  <2>11. Ordered(reg)'
    <3>1. \A g \in InOrder(reg) : reg'[g] = reg[g] /\ reg[g].rank <= n /\ reg[g].order <= reg[f].order
      BY <1>2, <1>4, <2>3, <2>6, <2>7 DEF Ordered, Registered, n
    <3>2. \A g, h \in InOrder(reg)' : reg'[g].rank <= reg'[h].rank => reg'[g].order <= reg'[h].order
      <4> SUFFICES ASSUME NEW g \in InOrder(reg)', NEW h \in InOrder(reg)', reg'[g].rank <= reg'[h].rank
                   PROVE  reg'[g].order <= reg'[h].order
        OBVIOUS
      <4>1. CASE g = f /\ h = f
        BY <1>3, <2>3, <2>8, <4>1
      <4>2. CASE g = f /\ h # f
        BY <1>3, <1>4, <2>6, <2>8, <2>9, <3>1, <4>2
      <4>3. CASE g # f /\ h = f
        BY <2>8, <2>9, <3>1, <4>3
      <4>4. CASE g # f /\ h # f
        BY <1>2, <2>9, <3>1, <4>4 DEF Ordered
      <4> QED
        BY <4>1, <4>2, <4>3, <4>4
    <3>3. \A g \in InOrder(reg)' : reg'[g].rank <= Cardinality(InOrder(reg)')
      BY <1>3, <1>4, <2>6, <2>8, <2>9, <2>10, <3>1
    <3>4. \A g \in InOrder(reg)', h \in Registered(reg)' : reg'[h].started \/ reg'[g].order <= reg'[h].order
      <4> SUFFICES ASSUME NEW g \in InOrder(reg)', NEW h \in Registered(reg)'
                   PROVE  reg'[h].started \/ reg'[g].order <= reg'[h].order
        OBVIOUS
      <4>1. CASE h = f
        BY <2>8, <4>1
      <4>2. CASE h # f /\ g = f
        BY <1>4, <2>5, <2>7, <2>8, <2>9, <4>2
      <4>3. CASE h # f /\ g # f
        BY <1>2, <1>4, <2>7, <2>9, <3>1, <4>3 DEF Ordered
      <4> QED
        BY <4>1, <4>2, <4>3
    <3> QED
      BY <3>2, <3>3, <3>4 DEF Ordered
  <2>12. Batch'
    BY <1>2, <1>4, <2>2, <2>4, <2>7, <2>8, <2>9 DEF Batch
  <2>13. ASSUME NEW g \in Files PROVE Life(g)'
    <3>1. CASE g = f
      <4>1. Life(f) /\ reading'[f] = "yes"
        BY <1>0, <1>2, <2>1, <2>3
      <4>2. n + 1 > 0 /\ n + 1 # 0
        BY <2>6
      <4>3. reg'[f].finished = FALSE /\ reg'[f].settled = TRUE /\ reg'[f].order <= Corner[f]
        BY <1>3, <2>3, <2>8, <4>1 DEF Life
      <4>4. reg'[f].rank > 0 /\ reg'[f].rank # 0 /\ reg'[f].started /\ reg'[f].known
        BY <2>3, <2>8, <4>2
      <4> QED
        BY <3>1, <4>1, <4>3, <4>4 DEF Life
    <3>2. CASE g # f
      BY <1>0, <1>2, <2>1, <2>2, <2>7, <3>2 DEF Life
    <3> QED
      BY <3>1, <3>2
  <2> QED
    BY <2>11, <2>12, <2>13
\* What is left changes one item, and not its place.
<1>9. ASSUME NEW f \in Files, UNCHANGED preinit, proc'.handled = proc.handled,
             \A g \in Files : /\ reg'[g].rank = reg[g].rank /\ reg'[g].order = reg[g].order
                              /\ reg'[g].started = reg[g].started /\ reg'[g].known = reg[g].known
                              /\ reg'[g].settled = reg[g].settled
                              /\ g # f => /\ reg'[g].finished = reg[g].finished /\ reading'[g] = reading[g]
                                          /\ tree'.copies[g] = tree.copies[g]
                                          /\ \A i \in DOMAIN Chunks[g] : stage'[<<g, i>>] = stage[<<g, i>>],
             reg[f].rank > 0, reading'[f] = "no" <=> reg'[f].finished
      PROVE  Ordered(reg)' /\ (\A g \in Files : Life(g)') /\ Batch'
  <2>1. Ordered(reg)' /\ Registered(reg)' = Registered(reg)
    BY <1>2, <1>9, SameOrder
  <2>2. Batch'
    BY <1>2, <1>4, <1>9, <2>1 DEF Batch
  <2>3. Life(f)'
    BY <1>2, <1>3, <1>9 DEF Life
  <2>4. ASSUME NEW g \in Files, g # f PROVE Life(g)'
    BY <1>2, <1>9, <2>4 DEF Life
  <2> QED
    BY <2>1, <2>2, <2>3, <2>4
<1>10. CASE ReadChunk
  <2>1. PICK f \in Files :
          /\ reading[f] = "yes" /\ NextUnread(f) # {}
          /\ LET i == Min({c[2] : c \in NextUnread(f)}) IN stage' = [stage EXCEPT ![<<f, i>>] = "read"]
          /\ reg' = SubAdded(reg, f)
    BY <1>10 DEF ReadChunk
  <2>2. PICK j : stage' = [stage EXCEPT ![<<f, j>>] = "read"]
    BY <2>1
  <2>3. UNCHANGED <<preinit, reading, proc, tree>>
    BY <1>10 DEF ReadChunk
  <2>4. reg[f].rank > 0 /\ ~reg[f].finished
    BY <1>2, <2>1 DEF Life
  <2>5. \A g \in Files : /\ reg'[g].rank = reg[g].rank /\ reg'[g].order = reg[g].order
                         /\ reg'[g].started = reg[g].started /\ reg'[g].known = reg[g].known
                         /\ reg'[g].settled = reg[g].settled /\ reg'[g].finished = reg[g].finished
    BY <1>0, <2>1, ItemNumbers DEF SubAdded, Items, Registries
  <2>6. \A g \in Files : g # f => \A i \in DOMAIN Chunks[g] : stage'[<<g, i>>] = stage[<<g, i>>]
    BY <1>0, <2>2, PartOf
  <2> QED
    BY <1>9, <2>1, <2>3, <2>4, <2>5, <2>6
<1>11. CASE ReadError
  <2>1. PICK f \in Files : reading[f] = "yes" /\ reading' = [reading EXCEPT ![f] = "stopped"]
    BY <1>11, InputsAreFiles DEF ReadError
  <2>2. UNCHANGED <<reg, preinit, stage, proc, tree>>
    BY <1>11 DEF ReadError
  <2>3. reg[f].rank > 0 /\ ~reg[f].finished
    BY <1>2, <2>1 DEF Life
  <2> QED
    BY <1>0, <1>9, <2>1, <2>2, <2>3
<1>12. CASE SortedChunk
  <2>1. PICK c \in Parts : /\ stage[c] = "read" /\ stage' = [stage EXCEPT ![c] = "sorted"]
                           /\ reg' = SortedPoints(reg, c[1], Key(c))
    BY <1>12 DEF SortedChunk
  <2>2. UNCHANGED <<preinit, reading, proc, tree>>
    BY <1>12 DEF SortedChunk
  <2>3. c = <<c[1], c[2]>> /\ c[1] \in Files /\ c[2] \in DOMAIN Chunks[c[1]]
    BY PartOf
  <2>4. reg[c[1]].rank > 0
    BY <1>2, <1>3, <2>1, <2>3 DEF Life
  <2>5. \A g \in Files : /\ reg'[g].rank = reg[g].rank /\ reg'[g].order = reg[g].order
                         /\ reg'[g].started = reg[g].started /\ reg'[g].known = reg[g].known
                         /\ reg'[g].settled = reg[g].settled /\ reg'[g].finished = reg[g].finished
    BY <1>0, <2>1, <2>3, ItemNumbers DEF SortedPoints, Items, Registries
  <2>6. \A g \in Files : g # c[1] => \A i \in DOMAIN Chunks[g] : stage'[<<g, i>>] = stage[<<g, i>>]
    BY <1>0, <2>1, <2>3, PartOf
  <2>7. reading[c[1]] = "no" <=> reg[c[1]].finished
    BY <1>2, <2>3, <2>4 DEF Life
  <2> QED
    BY <1>9, <2>2, <2>3, <2>4, <2>5, <2>6, <2>7
<1>13. CASE InsertChunk
  <2>1. PICK c \in Parts : /\ stage[c] = "sorted" /\ stage' = [stage EXCEPT ![c] = "inTree"]
                           /\ tree' = [tree EXCEPT !.copies[c[1]] = @ + 1]
    BY <1>13 DEF InsertChunk
  <2>2. UNCHANGED <<reg, preinit, reading, proc>>
    BY <1>13 DEF InsertChunk
  <2>3. c = <<c[1], c[2]>> /\ c[1] \in Files /\ c[2] \in DOMAIN Chunks[c[1]]
    BY PartOf
  <2>4. reg[c[1]].rank > 0
    BY <1>2, <1>3, <2>1, <2>3 DEF Life
  <2>5. \A g \in Files : g # c[1] => tree'.copies[g] = tree.copies[g]
    BY <1>0, <2>1, <2>3 DEF Trees, Copies
  <2>6. \A g \in Files : g # c[1] => \A i \in DOMAIN Chunks[g] : stage'[<<g, i>>] = stage[<<g, i>>]
    BY <1>0, <2>1, <2>3, PartOf
  <2>7. reading[c[1]] = "no" <=> reg[c[1]].finished
    BY <1>2, <2>3, <2>4 DEF Life
  <2> QED
    BY <1>9, <2>2, <2>3, <2>4, <2>5, <2>6, <2>7
<1>14. CASE TreeDoneWithInput
  <2>1. PICK c \in Parts : /\ stage[c] = "inTree" /\ stage' = [stage EXCEPT ![c] = "counted"]
                           /\ reg' = TreeDone(reg, c[1]) /\ MaybeStartLod(proc, reg')
    BY <1>14 DEF TreeDoneWithInput
  <2>2. UNCHANGED <<preinit, reading>>
    BY <1>14 DEF TreeDoneWithInput
  <2>3. c = <<c[1], c[2]>> /\ c[1] \in Files /\ c[2] \in DOMAIN Chunks[c[1]]
    BY PartOf
  <2>4. reg[c[1]].rank > 0
    BY <1>2, <1>3, <2>1, <2>3 DEF Life
  <2>5. \A g \in Files : /\ reg'[g].rank = reg[g].rank /\ reg'[g].order = reg[g].order
                         /\ reg'[g].started = reg[g].started /\ reg'[g].known = reg[g].known
                         /\ reg'[g].settled = reg[g].settled /\ reg'[g].finished = reg[g].finished
    BY <1>0, <2>1, <2>3, ItemNumbers DEF TreeDone, Items, Registries
  <2>6. \A g \in Files : g # c[1] => \A i \in DOMAIN Chunks[g] : stage'[<<g, i>>] = stage[<<g, i>>]
    BY <1>0, <2>1, <2>3, PartOf
  <2>7. reading[c[1]] = "no" <=> reg[c[1]].finished
    BY <1>2, <2>3, <2>4 DEF Life
  <2>8. tree'.copies = tree.copies /\ proc'.handled = proc.handled
    BY <1>0, <2>1 DEF MaybeStartLod, Trees, Procs
  <2> QED
    BY <1>9, <2>2, <2>3, <2>4, <2>5, <2>6, <2>7, <2>8
<1>15. CASE FileReadingDone
  <2>1. PICK f \in Files : /\ reading[f] # "no" /\ reading' = [reading EXCEPT ![f] = "no"]
                           /\ reg' = ReadingDone(reg, f) /\ MaybeStartLod(proc, reg')
    BY <1>15 DEF FileReadingDone
  <2>2. UNCHANGED <<preinit, stage>>
    BY <1>15 DEF FileReadingDone
  <2>3. reg[f].rank > 0
    BY <1>2, <2>1 DEF Life
  <2>4. \A g \in Files : /\ reg'[g].rank = reg[g].rank /\ reg'[g].order = reg[g].order
                         /\ reg'[g].started = reg[g].started /\ reg'[g].known = reg[g].known
                         /\ reg'[g].settled = reg[g].settled
                         /\ reg'[g].finished = IF g = f THEN TRUE ELSE reg[g].finished
    BY <1>0, <2>1, ItemNumbers DEF ReadingDone, Items, Registries
  <2>5. tree'.copies = tree.copies /\ proc'.handled = proc.handled
    BY <1>0, <2>1 DEF MaybeStartLod, Trees, Procs
  <2> QED
    BY <1>0, <1>9, <2>1, <2>2, <2>3, <2>4, <2>5
<1> QED
  BY <1>1, <1>5, <1>6, <1>7, <1>8, <1>10, <1>11, <1>12, <1>13, <1>14, <1>15 DEF Next, Reader, Processor

-----------------------------------------------------------------------------
(* The boundary of a LOD pass. *)

\* There is a first open file; no open file has an order below its own.
LEMMA LeastRank ==
  ASSUME NEW r \in Registries, NEW f \in Open(r)
  PROVE  \E g \in FirstOpen(r) : g \in Open(r) /\ r[g].rank <= r[f].rank
<1> DEFINE ranks == {r[g].rank : g \in Open(r)}
<1>1. Open(r) \subseteq Files
  BY DEF Open, InOrder
<1>2. ranks \in SUBSET Nat /\ ranks # {}
  BY <1>1, ItemNumbers
<1>3. Min(ranks) \in ranks /\ \A y \in ranks : Min(ranks) <= y
  <2> HIDE DEF ranks
  <2> QED
    BY <1>2, LeastOfNat
<1>4. PICK g \in Open(r) : r[g].rank = Min(ranks)
  BY <1>3
<1>5. \A h \in Open(r) : r[g].rank <= r[h].rank
  BY <1>3, <1>4
<1> QED
  BY <1>4, <1>5 DEF FirstOpen

LEMMA FirstIsBelow ==
  ASSUME reg \in Registries, Ordered(reg), NEW f \in Open(reg)
  PROVE  \E g \in FirstOpen(reg) : reg[g].order <= reg[f].order
<1>1. PICK g \in FirstOpen(reg) : g \in Open(reg) /\ reg[g].rank <= reg[f].rank
  BY LeastRank
<1>2. Open(reg) \subseteq InOrder(reg)
  BY DEF Open
<1>3. reg[g].order <= reg[f].order
  BY <1>1, <1>2 DEF Ordered
<1> QED
  BY <1>3

Below == crashes = 0 => \A c \in Outstanding : DoneMorton(reg) <= Key(c)

LEMMA OutstandingIsBelow == Typed /\ Counts /\ FirstSession => Below
<1> SUFFICES ASSUME Typed, Counts, FirstSession, crashes = 0, NEW c \in Outstanding
             PROVE  DoneMorton(reg) <= Key(c)
  BY DEF Below
<1> DEFINE f == c[1]
<1>1. c \in Parts /\ c = <<f, c[2]>> /\ f \in Files /\ c[2] \in DOMAIN Chunks[f]
  BY PartOf DEF Outstanding
<1>2. /\ Key(c) \in Nat /\ Corner[f] \in Nat /\ Corner[f] <= Key(c)
  BY <1>1, KeyType, TerminalIsGreatest
<1>3. reg \in Registries /\ Ordered(reg) /\ Life(f)
  BY <1>1 DEF Typed, TypeOK, FirstSession
<1>4. /\ {reg[f].rank, reg[f].order, reg[f].inserted, reg[f].subs} \subseteq Nat
      /\ DoneMorton(reg) \in Nat /\ \A g \in Files : reg[g].order \in Nat
  BY <1>1, <1>3, ItemNumbers, DoneMortonType
<1>5. stage[c] = stage[<<f, c[2]>>]
  BY <1>1
<1> HIDE DEF f
<1>6. CASE ~HasDonePrefix(reg)
  BY <1>2, <1>6 DEF DoneMorton
<1>7. ASSUME HasDonePrefix(reg), f \in Open(reg) PROVE DoneMorton(reg) <= Key(c)
  <2>1. PICK g \in FirstOpen(reg) : reg[g].order <= reg[f].order
    BY <1>3, <1>7, FirstIsBelow
  <2>2. g \in Files
    BY DEF FirstOpen, Open, InOrder
  <2>3. reg[g].order \in HeadBounds(reg)
    BY DEF HeadBounds
  <2>4. DoneMorton(reg) <= reg[g].order
    BY <1>3, <1>7, <2>3, DoneMortonLeast
  <2>5. reg[f].order <= Corner[f]
    BY <1>3 DEF Life
  <2> QED
    BY <1>2, <1>4, <2>1, <2>2, <2>4, <2>5
<1>8. CASE HasDonePrefix(reg) /\ stage[c] \in {"read", "sorted"}
  <2>1. c[2] \in InFlight(f)
    BY <1>1, <1>5, <1>8 DEF InFlight
  <2>2. Cardinality(InFlight(f)) \in Nat /\ Cardinality(InFlight(f)) # 0
    BY <1>1, <2>1, SetsOfIndices, FS_EmptySet
  <2>3. reg[f].inserted < reg[f].subs
    BY <1>1, <1>4, <2>2 DEF Counts
  <2>4. reg[f].rank > 0
    BY <1>1, <1>3, <1>4, <1>5, <1>8 DEF Life
  <2>5. f \in Open(reg)
    BY <1>1, <1>4, <2>3, <2>4 DEF Open, InOrder, Done
  <2> QED
    BY <1>7, <1>8, <2>5
<1>9. CASE HasDonePrefix(reg) /\ reading[f] = "yes"
  <2>1. reg[f].rank > 0 /\ ~reg[f].finished
    BY <1>3, <1>9 DEF Life
  <2>2. f \in Open(reg)
    BY <1>1, <2>1 DEF Open, InOrder, Done
  <2> QED
    BY <1>7, <1>9, <2>2
<1>10. CASE HasDonePrefix(reg) /\ reg[f].known /\ ~reg[f].started
  <2>1. reg[f].order \in Clamp(reg)
    BY <1>1, <1>10 DEF Clamp, Registered
  <2>2. DoneMorton(reg) <= reg[f].order
    BY <1>3, <1>10, <2>1, DoneMortonLeast
  <2>3. reg[f].order <= Corner[f]
    BY <1>3 DEF Life
  <2> QED
    BY <1>2, <1>4, <2>2, <2>3
<1>11. stage[c] \in {"read", "sorted"} \/ reading[f] = "yes" \/ (reg[f].known /\ ~reg[f].started)
  BY DEF Outstanding, f
<1> QED
  BY <1>6, <1>8, <1>9, <1>10, <1>11

LEMMA OutstandingIsBelowNext == (Typed /\ Counts /\ FirstSession)' => Below'
BY OutstandingIsBelow, PTL

\* A pass starts only where the processor asks for one, at the boundary the
\* registry has then.
LEMMA PassStarts ==
  ASSUME Typed, Typed', Next, tree.lod = "none", tree'.lod = "running"
  PROVE  proc'.target = DoneMorton(reg)'
<1>0. /\ reg \in Registries /\ proc \in Procs /\ tree \in Trees /\ chain \in Chains
      /\ reg' \in Registries
  BY DEF Typed, TypeOK
<1>1. ASSUME NEW CONSTANT p \in Procs, NEW CONSTANT r \in Registries, MaybeStartLod(p, r)
      PROVE  proc'.target = DoneMorton(r)
  <2>1. tree' # tree
    OBVIOUS
  <2>2. proc' = [p EXCEPT !.generating = TRUE, !.target = DoneMorton(r)]
    BY <1>0, <1>1, <2>1, StartLod
  <2> QED
    BY <1>1, <2>2 DEF Procs
<1>2. CASE SettleBatch
  <2>1. MaybeStartLod(proc, reg') \/ UNCHANGED tree
    BY <1>2, Zenon DEF SettleBatch
  <2> QED
    BY <1>0, <1>1, <2>1
<1>3. CASE TreeDoneWithInput \/ FileReadingDone
  <2>1. MaybeStartLod(proc, reg')
    BY <1>3 DEF TreeDoneWithInput, FileReadingDone
  <2> QED
    BY <1>0, <1>1, <2>1
<1>4. CASE IndexWriteDone
  <2> DEFINE p == [proc EXCEPT !.written = proc.written - 1, !.asked = FALSE,
                               !.lodDone = proc.target, !.generating = FALSE]
  <2>1. proc.written > 0 /\ proc.written \in Nat
    BY <1>0, <1>4 DEF IndexWriteDone, Procs
  <2>2. p \in Procs
    <3>1. proc.written - 1 \in Nat
      BY <2>1
    <3> QED
      BY <1>0, <3>1 DEF Procs
  <2>3. MaybeStartLod(p, reg) /\ reg' = reg
    <3>1. tree' # tree
      OBVIOUS
    <3>2. [[proc EXCEPT !.written = @ - 1, !.asked = FALSE] EXCEPT !.lodDone = proc.target, !.generating = FALSE] = p
      BY <1>0 DEF Procs
    <3>3. MaybeStartLod([[proc EXCEPT !.written = @ - 1, !.asked = FALSE] EXCEPT !.lodDone = proc.target,
                                                                                 !.generating = FALSE], reg)
      BY <1>4, <3>1, Zenon DEF IndexWriteDone
    <3>4. reg' = reg
      BY <1>4 DEF IndexWriteDone
    <3> QED
      BY <3>2, <3>3, <3>4
  <2> HIDE DEF p
  <2> QED
    BY <1>0, <1>1, <2>2, <2>3
<1>5. CASE AddFiles \/ HandleNewFiles \/ Dispatch \/ BecomeIdle \/ ReadChunk \/ ReadError \/ SortedChunk
            \/ TreesWritten \/ RegistryWritten \/ StepFails
  BY <1>5 DEF AddFiles, HandleNewFiles, Dispatch, BecomeIdle, ReadChunk, ReadError, SortedChunk, TreesWritten,
    RegistryWritten, StepFails
<1>6. CASE InsertChunk
  <2>1. tree'.lod = tree.lod
    BY <1>0, <1>6 DEF InsertChunk, Trees
  <2> QED
    BY <2>1
<1>7. ASSUME NEW t \in Trees, NEW c, LaunchChain(t, c) PROVE tree'.lod = t.lod
  BY <1>7 DEF LaunchChain, Trees
<1>8. CASE LodPassDone
  <2>1. tree.lod = "running"
    BY <1>8 DEF LodPassDone
  <2> QED
    BY <2>1
<1>9. CASE CachePressure \/ ChainEnds
  <2>1. tree' = tree \/ \E c : LaunchChain(tree, c)
    BY <1>9 DEF CachePressure, ChainEnds
  <2> QED
    BY <1>0, <1>7, <2>1
<1>10. CASE IndexCommitted
  <2>1. tree'.lod = tree.lod
    BY <1>0, <1>10 DEF IndexCommitted, Trees
  <2> QED
    BY <2>1
<1>11. CASE Crash
  <2>1. tree'.lod = "none"
    BY <1>11 DEF Crash, NewTree
  <2> QED
    BY <2>1
<1> QED
  BY <1>2, <1>3, <1>4, <1>5, <1>6, <1>8, <1>9, <1>10, <1>11 DEF Next, Reader, Chain, Processor

\* The target of a LOD pass is below every point that a registered file has yet
\* to bring: in a session that adds its files by one call and is not resumed.
\* In a resumed one it need not be: see the hazard at get_done_morton.
THEOREM PassesAreFinal == ASSUME OneCall, MaxCrashes = 0 PROVE Spec => PassTargetSound
<1>1. Typed' => crashes' = 0
  BY DEF Typed, TypeOK
<1>2. Typed /\ Typed' /\ Below' /\ [Next]_vars =>
        [(tree.lod = "none" /\ tree'.lod = "running") => \A c \in Outstanding' : proc'.target <= Key(c)]_vars
  <2> SUFFICES ASSUME Typed, Typed', Below', Next, tree.lod = "none", tree'.lod = "running"
               PROVE  \A c \in Outstanding' : proc'.target <= Key(c)
    OBVIOUS
  <2>1. crashes' = 0
    BY <1>1
  <2>2. proc'.target = DoneMorton(reg)'
    BY PassStarts
  <2>3. \A c \in Outstanding' : DoneMorton(reg)' <= Key(c)
    BY <2>1 DEF Below, Key
  <2> QED
    BY <2>2, <2>3
<1> QED
  BY <1>2, TypedInit, TypedStep, CountsInit, CountsStep, FirstSessionInit, FirstSessionStep, OutstandingIsBelowNext,
     PTL DEF Spec, PassTargetSound

-----------------------------------------------------------------------------
(***************************************************************************)
(* How the boundary moves.  It is lowered, never raised, by a file that is *)
(* dispatched, read on or sorted; what may raise it asks for a pass.       *)
(***************************************************************************)
LEMMA LowerBounds ==
  ASSUME NEW r \in Registries, NEW q \in Registries, HasDonePrefix(q) => HasDonePrefix(r),
         \A b \in HeadBounds(r) \cup Clamp(r) : \E a \in HeadBounds(q) \cup Clamp(q) : a <= b
  PROVE  DoneMorton(q) <= DoneMorton(r)
<1>1. DoneMorton(r) \in Nat /\ DoneMorton(q) \in Nat
  BY DoneMortonType
<1>2. CASE ~HasDonePrefix(q)
  BY <1>1, <1>2 DEF DoneMorton
<1>3. CASE HasDonePrefix(q)
  <2>1. DoneMorton(r) \in HeadBounds(r) \cup Clamp(r)
    BY <1>3, DoneMortonLeast
  <2>2. PICK a \in HeadBounds(q) \cup Clamp(q) : a <= DoneMorton(r)
    BY <2>1
  <2>3. DoneMorton(q) <= a
    BY <1>3, DoneMortonLeast
  <2>4. a \in Nat
    BY BoundsType
  <2> QED
    BY <1>1, <2>2, <2>3, <2>4
<1> QED
  BY <1>2, <1>3

LEMMA SameFiles ==
  ASSUME NEW r \in Registries, NEW q \in Registries,
         \A f \in Files : /\ q[f].rank = r[f].rank /\ q[f].order = r[f].order
                          /\ (q[f].started <=> r[f].started) /\ (q[f].known <=> r[f].known)
                          /\ (Done(q[f]) <=> Done(r[f])) /\ q[f].lo <= r[f].lo
  PROVE  DoneMorton(q) <= DoneMorton(r)
<1>1. InOrder(q) = InOrder(r) /\ InOrder(r) \subseteq Files
  BY DEF InOrder
<1>2. Open(q) = Open(r) /\ Open(r) \subseteq Files
  BY <1>1 DEF Open
<1>3. FirstOpen(q) = FirstOpen(r) /\ FirstOpen(r) \subseteq Files
  BY <1>2 DEF FirstOpen
<1>4. HasDonePrefix(q) => HasDonePrefix(r)
  BY <1>1, <1>2 DEF HasDonePrefix
<1>5. Clamp(q) = Clamp(r)
  BY DEF Clamp, Registered
<1>6. ASSUME NEW b \in HeadBounds(r) \cup Clamp(r) PROVE \E a \in HeadBounds(q) \cup Clamp(q) : a <= b
  <2>1. b \in Nat
    BY BoundsType
  <2>2. CASE b \in Clamp(r)
    BY <1>5, <2>1, <2>2
  <2>3. CASE b = Terminal
    <3>1. Terminal \in HeadBounds(q)
      BY DEF HeadBounds
    <3> QED
      BY <2>1, <2>3, <3>1
  <2>4. CASE \E f \in FirstOpen(r) : b = r[f].order
    <3>1. PICK f \in FirstOpen(r) : b = r[f].order
      BY <2>4
    <3>2. q[f].order \in HeadBounds(q) /\ q[f].order <= b
      BY <1>3, <2>1, <3>1 DEF HeadBounds
    <3> QED
      BY <3>2
  <2>5. CASE \E f \in FirstOpen(r) : b = r[f].lo
    <3>1. PICK f \in FirstOpen(r) : b = r[f].lo
      BY <2>5
    <3>2. q[f].lo \in HeadBounds(q) /\ q[f].lo <= b
      BY <1>3, <3>1 DEF HeadBounds
    <3> QED
      BY <3>2
  <2> QED
    BY <2>2, <2>3, <2>4, <2>5 DEF HeadBounds
<1> QED
  BY <1>4, <1>6, LowerBounds

LEMMA DispatchLowers ==
  ASSUME NEW r \in Registries, Ordered(r), NEW f \in Files, r[f].known, ~r[f].started, ~r[f].finished,
         r[f].rank = 0
  PROVE  DoneMorton(Dispatched(r, f)) <= DoneMorton(r)
<1> DEFINE q == Dispatched(r, f)
           n == Cardinality(InOrder(r))
<1>1. q \in Registries
  BY DispatchedType
<1>2. n \in Nat /\ InOrder(r) \subseteq Files /\ f \notin InOrder(r)
  BY FilesAreFinite DEF InOrder
<1>3. /\ \A g \in Files : g # f => q[g] = r[g]
      /\ q[f] = [r[f] EXCEPT !.started = TRUE, !.rank = n + 1]
  BY DEF Dispatched, Registries
<1> HIDE DEF q, n
<1>4. /\ q[f].rank = n + 1 /\ q[f].started = TRUE /\ q[f].order = r[f].order
      /\ q[f].finished = r[f].finished
  BY <1>3, ItemNumbers DEF Items
<1>5. InOrder(q) = InOrder(r) \cup {f}
  <2>1. n + 1 > 0
    BY <1>2
  <2> QED
    BY <1>3, <1>4, <2>1 DEF InOrder
<1>6. Open(q) = Open(r) \cup {f} /\ f \notin Open(r) /\ Open(r) \subseteq InOrder(r)
  <2>1. ~Done(q[f])
    BY <1>4 DEF Done
  <2>2. \A g \in InOrder(r) : Done(q[g]) <=> Done(r[g])
    BY <1>2, <1>3
  <2> QED
    BY <1>2, <1>5, <2>1, <2>2 DEF Open
<1>7. \A g \in Open(r) : q[g] = r[g] /\ r[g].rank \in Nat /\ r[g].rank <= n /\ r[g].order <= r[f].order
  BY <1>2, <1>3, <1>6, ItemNumbers DEF Ordered, Registered, n
<1>8. HasDonePrefix(q) => HasDonePrefix(r)
  <2> SUFFICES ASSUME NEW g \in InOrder(q) \ Open(q), \A h \in Open(q) : q[g].rank < q[h].rank
               PROVE  HasDonePrefix(r)
    BY DEF HasDonePrefix
  <2>1. g \in InOrder(r) \ Open(r) /\ q[g] = r[g]
    BY <1>2, <1>3, <1>5, <1>6
  <2>2. \A h \in Open(r) : r[g].rank < r[h].rank
    BY <1>6, <1>7, <2>1
  <2> QED
    BY <2>1, <2>2 DEF HasDonePrefix
<1>9. FirstOpen(r) \subseteq FirstOpen(q)
  <2> SUFFICES ASSUME NEW g \in FirstOpen(r) PROVE g \in FirstOpen(q)
    OBVIOUS
  <2>1. g \in Open(r) /\ \A h \in Open(r) : r[g].rank <= r[h].rank
    BY DEF FirstOpen
  <2>2. q[g].rank <= q[f].rank
    BY <1>2, <1>4, <1>7, <2>1
  <2>3. \A h \in Open(q) : q[g].rank <= q[h].rank
    BY <1>6, <1>7, <2>1, <2>2
  <2> QED
    BY <1>6, <2>1, <2>3 DEF FirstOpen
<1>10. \E a \in HeadBounds(q) : a <= r[f].order
  <2>1. r[f].order \in Nat
    BY ItemNumbers
  <2>2. CASE Open(r) = {}
    <3>1. Open(q) = {f}
      BY <1>6, <2>2
    <3>2. f \in FirstOpen(q)
      BY <1>2, <1>4, <3>1 DEF FirstOpen
    <3>3. q[f].order \in HeadBounds(q)
      BY <3>2 DEF HeadBounds
    <3> QED
      BY <1>4, <2>1, <3>3
  <2>3. CASE Open(r) # {}
    <3>1. PICK h \in Open(r) : TRUE
      BY <2>3
    <3>2. PICK g \in FirstOpen(r) : TRUE
      BY <3>1, LeastRank
    <3>3. g \in Open(r)
      BY DEF FirstOpen
    <3>4. q[g].order \in HeadBounds(q) /\ q[g].order <= r[f].order
      BY <1>7, <1>9, <3>2, <3>3 DEF HeadBounds
    <3> QED
      BY <3>4
  <2> QED
    BY <2>2, <2>3
<1>11. ASSUME NEW b \in HeadBounds(r) \cup Clamp(r) PROVE \E a \in HeadBounds(q) \cup Clamp(q) : a <= b
  <2>1. b \in Nat
    BY BoundsType
  <2>2. CASE b \in Clamp(r)
    <3>1. PICK g \in Registered(r) : ~r[g].started /\ b = r[g].order
      BY <2>2 DEF Clamp
    <3>2. CASE g = f
      BY <1>10, <3>1, <3>2
    <3>3. CASE g # f
      <4>1. g \in Registered(q) /\ ~q[g].started /\ q[g].order = b
        BY <1>3, <3>1, <3>3 DEF Registered
      <4>2. b \in Clamp(q)
        BY <4>1 DEF Clamp
      <4> QED
        BY <2>1, <4>2
    <3> QED
      BY <3>2, <3>3
  <2>3. CASE b \in HeadBounds(r)
    <3>1. \A g \in FirstOpen(r) : g \in FirstOpen(q) /\ q[g] = r[g]
      BY <1>7, <1>9 DEF FirstOpen
    <3>2. b \in HeadBounds(q)
      BY <2>3, <3>1 DEF HeadBounds
    <3> QED
      BY <2>1, <3>2
  <2> QED
    BY <2>2, <2>3
<1>12. DoneMorton(q) <= DoneMorton(r)
  BY <1>1, <1>8, <1>11, LowerBounds
<1> QED
  BY <1>12 DEF q

-----------------------------------------------------------------------------
(***************************************************************************)
(* When all files in the dispatch order are done and none waits for its    *)
(* dispatch, nothing moves any more but checkpoints.                       *)
(***************************************************************************)
Quiet ==
  /\ \A f \in Files : reg[f].rank > 0 => Done(reg[f])
  /\ \A f \in Registered(reg) : reg[f].started

LEMMA QuietChunks ==
  ASSUME Typed, Counts, FirstSession, crashes = 0, Quiet
  PROVE  /\ \A f \in Files : reading[f] = "no"
         /\ \A c \in Parts : stage[c] \notin {"read", "sorted", "inTree"}
<1>1. ASSUME NEW f \in Files PROVE reading[f] = "no"
  BY <1>1 DEF FirstSession, Life, Quiet, Done
<1>2. ASSUME NEW c \in Parts, stage[c] \in {"read", "sorted", "inTree"} PROVE FALSE
  <2> DEFINE f == c[1]
  <2>1. c = <<f, c[2]>> /\ f \in Files /\ c[2] \in DOMAIN Chunks[f]
    BY PartOf
  <2>2. stage[<<f, c[2]>>] \in {"read", "sorted", "inTree"}
    BY <1>2, <2>1
  <2> HIDE DEF f
  <2>3. {reg[f].rank, reg[f].inserted, reg[f].subs} \subseteq Nat
    BY <2>1, ItemNumbers DEF Typed, TypeOK
  <2>4. reg[f].rank > 0
    <3>1. reg[f].rank # 0
      BY <2>1, <2>2 DEF FirstSession, Life
    <3> QED
      BY <2>3, <3>1
  <2>5. reg[f].inserted = reg[f].subs
    BY <2>1, <2>4 DEF Quiet, Done
  <2>6. c[2] \in InFlight(f)
    BY <2>1, <2>2 DEF InFlight
  <2>7. Cardinality(InFlight(f)) \in Nat /\ Cardinality(InFlight(f)) # 0
    BY <2>1, <2>6, SetsOfIndices, FS_EmptySet
  <2> QED
    BY <2>1, <2>3, <2>5, <2>7 DEF Counts
<1> QED
  BY <1>1, <1>2

LEMMA QuietStays ==
  ASSUME Typed, Counts, FirstSession, crashes = 0, Quiet, Next, ~Crash, ~HandleNewFiles
  PROVE  reg' = reg /\ tree'.copies = tree.copies
<1>0. /\ reg \in Registries /\ proc \in Procs /\ tree \in Trees /\ chain \in Chains
      /\ preinit \subseteq SUBSET Files
  BY DEF Typed, TypeOK
<1>1. /\ \A f \in Files : reading[f] = "no"
      /\ \A c \in Parts : stage[c] \notin {"read", "sorted", "inTree"}
  BY QuietChunks
<1>2. ~ReadChunk /\ ~ReadError /\ ~SortedChunk /\ ~InsertChunk /\ ~TreeDoneWithInput /\ ~FileReadingDone
  BY <1>1, InputsAreFiles DEF ReadChunk, ReadError, SortedChunk, InsertChunk, TreeDoneWithInput, FileReadingDone
<1>3. ~Dispatch
  BY DEF Dispatch, NextInputs, Quiet
<1>4. CASE SettleBatch
  <2>1. PICK refs \in preinit : \E failed \in SUBSET refs :
            /\ reg' = FilesFailed(RegisterPreInit(reg, refs \ failed), failed)
            /\ preinit' = preinit \ {refs}
    BY <1>4, SettleShape
  <2>2. PICK failed \in SUBSET refs : reg' = FilesFailed(RegisterPreInit(reg, refs \ failed), failed)
    BY <2>1
  <2>3. refs = Registered(reg) /\ Registered(reg) \subseteq Files
    BY <2>1 DEF FirstSession, Batch, Registered
  <2>4. ASSUME NEW f \in Registered(reg) PROVE FALSE
    <3>1. reg[f].started /\ ~reg[f].settled /\ Life(f)
      BY <2>1, <2>3 DEF Quiet, FirstSession, Batch
    <3> QED
      BY <3>1 DEF Life
  <2>5. refs = {} /\ failed = {}
    BY <2>3, <2>4
  <2>6. reg' = reg
    BY <1>0, <2>2, <2>5 DEF FilesFailed, RegisterPreInit, Registries
  <2>7. MaybeStartLod(proc, reg') \/ UNCHANGED <<proc, tree>>
    BY <1>4, Zenon DEF SettleBatch
  <2> QED
    BY <1>0, <2>6, <2>7, StartLodCopies
<1>5. CASE AddFiles \/ BecomeIdle \/ TreesWritten \/ RegistryWritten \/ StepFails
  BY <1>5 DEF AddFiles, BecomeIdle, TreesWritten, RegistryWritten, StepFails
<1>6. ASSUME NEW t \in Trees, NEW c, LaunchChain(t, c) PROVE tree'.copies = t.copies
  BY <1>6 DEF LaunchChain, Trees
<1>7. CASE LodPassDone
  <2> DEFINE t == [tree EXCEPT !.lod = "none", !.pass = Larger(@, proc.target)]
  <2>1. t \in Trees /\ t.copies = tree.copies
    <3>1. Larger(tree.pass, proc.target) \in {tree.pass, proc.target}
      BY <1>0, LargerIsMax DEF Trees, Procs
    <3> QED
      BY <1>0, <3>1 DEF Trees, Procs
  <2>2. LaunchChain(t, chain) /\ reg' = reg
    BY <1>7, Zenon DEF LodPassDone
  <2> HIDE DEF t
  <2> QED
    BY <1>6, <2>1, <2>2
<1>8. CASE CachePressure \/ ChainEnds
  <2>1. reg' = reg /\ (tree' = tree \/ \E c : LaunchChain(tree, c))
    BY <1>8 DEF CachePressure, ChainEnds
  <2> QED
    BY <1>0, <1>6, <2>1
<1>9. CASE IndexCommitted
  BY <1>0, <1>9 DEF IndexCommitted, Trees
<1>10. CASE IndexWriteDone
  <2>1. reg' = reg
    BY <1>10 DEF IndexWriteDone
  <2>2. tree'.copies = tree.copies
    <3>1. tree' = tree \/ tree' = [tree EXCEPT !.lod = "running"]
      BY <1>10 DEF IndexWriteDone, MaybeStartLod
    <3> QED
      BY <1>0, <3>1 DEF Trees
  <2> QED
    BY <2>1, <2>2
<1> QED
  BY <1>2, <1>3, <1>4, <1>5, <1>7, <1>8, <1>9, <1>10 DEF Next, Reader, Chain, Processor

\* With the boundary at the end of the code everything is quiet.
LEMMA FinalIsQuiet ==
  ASSUME Typed, FirstSession, crashes = 0, DoneMorton(reg) = Terminal
  PROVE  Quiet /\ proc.handled # 0
<1>0. reg \in Registries
  BY DEF Typed, TypeOK
<1>1. HasDonePrefix(reg)
  BY TerminalIsGreatest DEF DoneMorton
<1>2. \A f \in Files : /\ reg[f].order \in Nat /\ reg[f].order < Terminal
                       /\ reg[f].rank \in Nat
  <2> TAKE f \in Files
  <2>1. reg[f].order <= Corner[f] /\ Corner[f] \in 0..(Terminal - 1)
    BY TerminalIsGreatest DEF FirstSession, Life
  <2> QED
    BY <1>0, <2>1, ItemNumbers, TerminalIsGreatest
<1>3. \A b \in HeadBounds(reg) \cup Clamp(reg) : Terminal <= b
  BY <1>0, <1>1, DoneMortonLeast
<1>4. ASSUME NEW f \in Open(reg) PROVE FALSE
  <2>1. PICK g \in FirstOpen(reg) : g \in Open(reg)
    BY <1>0, <1>4, LeastRank
  <2>2. g \in Files /\ reg[g].order \in HeadBounds(reg)
    BY <2>1 DEF Open, InOrder, HeadBounds
  <2> QED
    BY <1>2, <1>3, <2>2, TerminalIsGreatest
<1>5. ASSUME NEW f \in Registered(reg), ~reg[f].started PROVE FALSE
  <2>1. f \in Files /\ reg[f].order \in Clamp(reg)
    BY <1>5 DEF Registered, Clamp
  <2> QED
    BY <1>2, <1>3, <2>1, TerminalIsGreatest
<1>6. Quiet
  BY <1>4, <1>5 DEF Quiet, Open, InOrder
<1>7. proc.handled # 0
  <2>1. PICK f \in InOrder(reg) : TRUE
    BY <1>1 DEF HasDonePrefix
  <2>2. f \in Registered(reg)
    BY <2>1 DEF FirstSession, Life, InOrder, Registered
  <2> QED
    BY <2>2 DEF FirstSession, Batch
<1> QED
  BY <1>6, <1>7

\* One call of add_files is handled once.
LEMMA HandledOnce ==
  ASSUME OneCall, Typed, proc.handled # 0 \/ proc.handled = proc.added
  PROVE  ~HandleNewFiles
<1>1. /\ proc.handled \in Nat /\ proc.added \in Nat /\ Len(Batches) \in Nat
      /\ proc.added <= Len(Batches) /\ Len(Batches) <= 1
  BY InputsAreFiles DEF OneCall, Typed, TypeOK, Procs
<1>2. \A h, a, l \in Nat : h < a /\ a <= l /\ l <= 1 => h = 0 /\ h # a
  OBVIOUS
<1> QED
  BY <1>1, <1>2 DEF HandleNewFiles

-----------------------------------------------------------------------------
(* What a step does to the processor, and to the chain. *)

LEMMA Asks ==
  ASSUME NEW p \in Procs, NEW r \in Registries, tree \in Trees, MaybeStartLod(p, r)
  PROVE  /\ proc'.idle = p.idle /\ proc'.handled = p.handled /\ proc'.added = p.added
         /\ proc'.lodDone = p.lodDone /\ proc'.target \in {p.target, DoneMorton(r)}
         /\ ~proc'.generating => ~p.generating /\ DoneMorton(r) <= p.lodDone
         /\ ~p.generating /\ DoneMorton(r) <= p.lodDone => ~proc'.generating
         /\ tree'.watermark = tree.watermark
<1>1. DoneMorton(r) \in Nat /\ p.lodDone \in Nat
  BY DoneMortonType DEF Procs
<1>2. CASE /\ p.generating \/ DoneMorton(r) <= p.lodDone
           /\ proc' = p /\ tree' = tree
  BY <1>2
<1>3. CASE /\ ~p.generating /\ p.lodDone < DoneMorton(r)
           /\ proc' = [p EXCEPT !.generating = TRUE, !.target = DoneMorton(r)]
           /\ tree' = [tree EXCEPT !.lod = "running"]
  <2>1. /\ proc'.idle = p.idle /\ proc'.handled = p.handled /\ proc'.added = p.added
        /\ proc'.lodDone = p.lodDone /\ proc'.target = DoneMorton(r) /\ proc'.generating = TRUE
    BY <1>3 DEF Procs
  <2>2. tree'.watermark = tree.watermark
    BY <1>3 DEF Trees
  <2>3. ~(DoneMorton(r) <= p.lodDone)
    BY <1>1, <1>3
  <2> QED
    BY <2>1, <2>2, <2>3
<1> QED
  BY <1>2, <1>3, StartLod

Reports == TreeDoneWithInput \/ FileReadingDone \/ IndexWriteDone

LEMMA ProcMoves ==
  ASSUME Typed, Typed', Next, ~Crash
  PROVE  /\ proc'.target \in {proc.target, DoneMorton(reg)'}
         /\ proc'.idle => (proc.idle /\ ~AddFiles) \/ BecomeIdle
         /\ ~AddFiles /\ ~HandleNewFiles => proc'.handled = proc.handled /\ proc'.added = proc.added
         /\ ~proc.generating /\ DoneMorton(reg)' <= proc.lodDone => ~proc'.generating
         /\ Reports /\ ~proc'.generating => DoneMorton(reg)' <= proc'.lodDone
         /\ ~Reports /\ ~proc'.generating => ~proc.generating /\ proc'.lodDone = proc.lodDone
<1>0. /\ reg \in Registries /\ proc \in Procs /\ tree \in Trees /\ chain \in Chains
      /\ reg' \in Registries
  BY DEF Typed, TypeOK
<1>1. AddFiles => ~proc'.idle
  BY <1>0 DEF AddFiles, Procs
<1>2. CASE TreeDoneWithInput \/ FileReadingDone
  <2>1. MaybeStartLod(proc, reg')
    BY <1>2 DEF TreeDoneWithInput, FileReadingDone
  <2>2. Reports
    BY <1>2 DEF Reports
  <2> QED
    BY <1>0, <1>1, <2>1, <2>2, Asks
<1>3. CASE IndexWriteDone
  <2> DEFINE rearmed == [proc EXCEPT !.written = @ - 1, !.asked = FALSE]
             p == [rearmed EXCEPT !.lodDone = proc.target, !.generating = FALSE]
  <2>1. Reports /\ reg' = reg /\ proc.written \in Nat /\ proc.written > 0
    BY <1>0, <1>3 DEF IndexWriteDone, Reports, Procs
  <2>2. proc.written - 1 \in Nat
    BY <2>1
  <2>3. /\ rearmed.idle = proc.idle /\ rearmed.handled = proc.handled /\ rearmed.added = proc.added
        /\ rearmed.target = proc.target /\ rearmed.generating = proc.generating
        /\ rearmed.lodDone = proc.lodDone
        /\ rearmed \in Procs
    BY <1>0, <2>2 DEF Procs
  <2>4. IF ~proc.generating \/ tree.last >= proc.target THEN MaybeStartLod(p, reg)
        ELSE proc' = rearmed /\ UNCHANGED tree
    BY <1>3, Zenon DEF IndexWriteDone
  <2> HIDE DEF rearmed
  <2>5. /\ p.idle = proc.idle /\ p.handled = proc.handled /\ p.added = proc.added
        /\ p.target = proc.target /\ p.generating = FALSE /\ p.lodDone = proc.target /\ p \in Procs
    BY <1>0, <2>3 DEF Procs
  <2>6. DoneMorton(reg)' = DoneMorton(reg)
    BY <2>1
  <2> HIDE DEF p
  <2>7. CASE MaybeStartLod(p, reg)
    <3>1. ~proc.generating => proc.lodDone = proc.target
      BY DEF Typed, Numbers
    <3> QED
      BY <1>0, <1>1, <2>1, <2>5, <2>6, <2>7, <3>1, Asks
  <2>8. CASE proc.generating /\ proc' = rearmed
    BY <1>1, <2>1, <2>3, <2>8
  <2> QED
    BY <2>4, <2>7, <2>8
<1>4. CASE SettleBatch /\ ~Reports
  <2>1. MaybeStartLod(proc, reg') \/ proc' = proc
    BY <1>4, Zenon DEF SettleBatch
  <2> QED
    BY <1>0, <1>1, <1>4, <2>1, Asks
<1>5. CASE BecomeIdle /\ ~Reports
  <2>1. /\ proc'.handled = proc.handled /\ proc'.added = proc.added /\ proc'.target = proc.target
        /\ proc'.generating = proc.generating /\ proc'.lodDone = proc.lodDone
    BY <1>0, <1>5 DEF BecomeIdle, Procs
  <2> QED
    BY <1>5, <2>1
<1>6. CASE (AddFiles \/ HandleNewFiles) /\ ~Reports
  <2>1. /\ proc'.target = proc.target /\ proc'.generating = proc.generating /\ proc'.lodDone = proc.lodDone
    BY <1>0, <1>6 DEF AddFiles, HandleNewFiles, Procs
  <2>2. proc'.idle => proc.idle
    BY <1>0, <1>6 DEF AddFiles, HandleNewFiles, Procs
  <2> QED
    BY <1>1, <1>6, <2>1, <2>2
<1>7. CASE /\ Dispatch \/ ReadChunk \/ ReadError \/ SortedChunk \/ InsertChunk \/ LodPassDone
              \/ CachePressure \/ Chain \/ StepFails
           /\ ~Reports
  <2>1. /\ proc'.handled = proc.handled /\ proc'.added = proc.added /\ proc'.target = proc.target
        /\ proc'.generating = proc.generating /\ proc'.lodDone = proc.lodDone /\ proc'.idle = proc.idle
    BY <1>0, <1>7 DEF Dispatch, ReadChunk, ReadError, SortedChunk, InsertChunk, LodPassDone, CachePressure,
      Chain, TreesWritten, RegistryWritten, IndexCommitted, ChainEnds, StepFails, Procs
  <2> QED
    BY <1>1, <1>7, <2>1
<1> QED
  BY <1>2, <1>3, <1>4, <1>5, <1>6, <1>7 DEF Next, Reader, Processor, Reports

\* What a chain carries is taken with the watermark; nothing else raises it.
LEMMA ChainMoves ==
  ASSUME Typed, Typed', Next, ~Crash
  PROVE  \/ chain'.copies = tree'.copies
         \/ /\ tree'.watermark = tree.watermark
            /\ chain'.step \in {"trees", "registry", "index"} =>
                 /\ chain.step \in {"trees", "registry", "index"}
                 /\ chain'.copies = chain.copies
<1>0. /\ reg \in Registries /\ proc \in Procs /\ tree \in Trees /\ chain \in Chains
      /\ reg' \in Registries
  BY DEF Typed, TypeOK
<1>1. ASSUME NEW t \in Trees, NEW c, LaunchChain(t, c), t.watermark = tree.watermark, c = chain \/ c = NoChain
      PROVE  \/ chain'.copies = tree'.copies
             \/ /\ tree'.watermark = tree.watermark
                /\ chain'.step = chain.step /\ chain'.copies = chain.copies
  <2>1. CASE c.step = "off"
    BY <1>1, <2>1 DEF LaunchChain, Trees
  <2>2. CASE c.step # "off"
    <3>1. tree' = t /\ c = chain /\ chain' = [chain EXCEPT !.rerun = TRUE]
      BY <1>1, <2>2 DEF LaunchChain, NoChain
    <3> QED
      BY <1>0, <1>1, <3>1 DEF Chains
  <2> QED
    BY <2>1, <2>2
<1>2. CASE LodPassDone
  <2> DEFINE t == [tree EXCEPT !.lod = "none", !.pass = Larger(@, proc.target)]
  <2>1. t \in Trees /\ t.watermark = tree.watermark
    <3>1. Larger(tree.pass, proc.target) \in {tree.pass, proc.target}
      BY <1>0, LargerIsMax DEF Trees, Procs
    <3> QED
      BY <1>0, <3>1 DEF Trees, Procs
  <2>2. LaunchChain(t, chain)
    BY <1>2, Zenon DEF LodPassDone
  <2> HIDE DEF t
  <2> QED
    BY <1>1, <2>1, <2>2
<1>3. CASE CachePressure
  <2>1. LaunchChain(tree, chain)
    BY <1>3 DEF CachePressure
  <2> QED
    BY <1>0, <1>1, <2>1
<1>4. CASE ChainEnds
  <2>1. CASE chain.rerun
    <3>1. LaunchChain(tree, NoChain)
      BY <1>4, <2>1 DEF ChainEnds
    <3> QED
      BY <1>0, <1>1, <3>1
  <2>2. CASE ~chain.rerun
    <3>1. chain' = NoChain /\ tree' = tree
      BY <1>4, <2>2 DEF ChainEnds
    <3>2. chain'.step = "off"
      BY <3>1 DEF NoChain
    <3> QED
      BY <3>1, <3>2
  <2> QED
    BY <2>1, <2>2
<1>5. CASE TreesWritten \/ RegistryWritten \/ StepFails
  <2>1. tree' = tree /\ chain.step \in {"trees", "registry", "index"}
    BY <1>5 DEF TreesWritten, RegistryWritten, StepFails
  <2>2. chain'.copies = chain.copies
    BY <1>0, <1>5 DEF TreesWritten, RegistryWritten, StepFails, Chains
  <2> QED
    BY <2>1, <2>2
<1>6. CASE IndexCommitted
  <2>1. tree'.watermark = tree.watermark /\ chain'.step = "end"
    BY <1>0, <1>6 DEF IndexCommitted, Trees, Chains
  <2> QED
    BY <2>1
<1>7. CASE AddFiles \/ Processor \/ BecomeIdle \/ Reader \/ ReadError \/ IndexWriteDone
  <2>1. chain' = chain
    BY <1>7, Zenon DEF AddFiles, Processor, BecomeIdle, Reader, ReadError, IndexWriteDone, HandleNewFiles, SettleBatch,
      Dispatch, ReadChunk, SortedChunk, InsertChunk, TreeDoneWithInput, FileReadingDone
  <2>2. \/ tree' = tree \/ tree' = [tree EXCEPT !.lod = "running"]
        \/ \E c \in Parts : tree' = [tree EXCEPT !.copies[c[1]] = @ + 1]
    BY <1>7, Zenon DEF AddFiles, Processor, BecomeIdle, Reader, ReadError, IndexWriteDone, HandleNewFiles, SettleBatch,
      Dispatch, ReadChunk, SortedChunk, InsertChunk, TreeDoneWithInput, FileReadingDone, MaybeStartLod
  <2>3. tree'.watermark = tree.watermark
    BY <1>0, <2>2 DEF Trees
  <2> QED
    BY <2>1, <2>3
<1> QED
  BY <1>2, <1>3, <1>4, <1>5, <1>6, <1>7 DEF Next, Chain

-----------------------------------------------------------------------------
(***************************************************************************)
(* The end of the first session.  While no pass runs, none is due; the     *)
(* pass to the end of the code starts when all is in; a commit with the    *)
(* last watermark has every chunk; an idle processor has nothing left.     *)
(***************************************************************************)
Complete ==
  crashes = 0 =>
    /\ ~proc.generating => DoneMorton(reg) <= proc.lodDone
    /\ proc.target = Terminal => DoneMorton(reg) = Terminal
    /\ tree.watermark = Terminal /\ chain.step \in {"trees", "registry", "index"} =>
         chain.copies = tree.copies
    /\ committed.watermark = Terminal => committed.copies = tree.copies
    /\ proc.idle => proc.handled = proc.added /\ AllInserted(reg) /\ ~proc.generating

LEMMA CompleteInit == Init => Complete
<1> SUFFICES ASSUME Init PROVE Complete
  OBVIOUS
<1>1. \A f \in Files : ~reg[f].known /\ reg[f].rank = 0
  BY DEF Init, Empty, NoItem
<1>2. InOrder(reg) = {} /\ Registered(reg) = {}
  BY <1>1 DEF InOrder, Registered
<1>3. DoneMorton(reg) = 0 /\ AllInserted(reg)
  BY <1>2 DEF DoneMorton, HasDonePrefix, AllInserted
<1>4. /\ proc.lodDone = 0 /\ proc.target = 0 /\ tree.watermark = 0 /\ committed.watermark = 0
      /\ proc.handled = proc.added /\ ~proc.generating
  BY DEF Init, NewProc, NewTree, NoCommit
<1>5. Terminal # 0
  BY TerminalIsGreatest
<1> QED
  BY <1>3, <1>4, <1>5 DEF Complete

\* No file is in the dispatch order before its batch is settled.
LEMMA NoneBeforeSettled ==
  ASSUME FirstSession, crashes = 0, reg \in Registries, preinit # {} PROVE InOrder(reg) = {}
BY DEF FirstSession, Batch, Life, InOrder, Registered

LEMMA NoneBeforeSettledNext ==
  (FirstSession /\ crashes = 0 /\ reg \in Registries /\ preinit # {})' => (InOrder(reg) = {})'
BY NoneBeforeSettled, PTL

\* What does not report a part or a file as done does not raise the boundary.
LEMMA BoundaryStays ==
  ASSUME Typed, Typed', Counts, FirstSession, FirstSession', crashes = 0, crashes' = 0, Next, ~Crash, ~Reports
  PROVE  DoneMorton(reg)' = 0 \/ DoneMorton(reg)' <= DoneMorton(reg)
<1>0. /\ reg \in Registries /\ reg' \in Registries
      /\ \A f \in Files : Life(f)
      /\ DoneMorton(reg) \in Nat
  BY DoneMortonType DEF Typed, TypeOK, FirstSession
<1>1. \A f \in Files : /\ {reg[f].rank, reg[f].order, reg[f].inserted, reg[f].subs, reg[f].lo} \subseteq Nat
                       /\ reg[f].finished \in BOOLEAN /\ reg[f] \in Items
  BY <1>0, ItemNumbers
<1>2. ASSUME NEW r, InOrder(r) = {} PROVE DoneMorton(r) = 0
  BY <1>2 DEF DoneMorton, HasDonePrefix
<1>3. CASE HandleNewFiles
  <2>1. preinit' # {}
    BY <1>3 DEF HandleNewFiles
  <2>2. (InOrder(reg) = {})'
    BY <1>0, <2>1, NoneBeforeSettledNext
  <2> QED
    BY <1>2, <2>2
<1>4. CASE SettleBatch
  <2>1. PICK refs \in preinit : \E failed \in SUBSET refs :
            reg' = FilesFailed(RegisterPreInit(reg, refs \ failed), failed)
    BY <1>4, SettleShape
  <2>2. PICK failed \in SUBSET refs : reg' = FilesFailed(RegisterPreInit(reg, refs \ failed), failed)
    BY <2>1
  <2>3. \A f \in Files : reg[f].rank = 0
    <3>1. InOrder(reg) = {}
      BY <1>0, <2>1, NoneBeforeSettled
    <3> QED
      BY <1>1, <3>1 DEF InOrder
  <2>4. ASSUME NEW f \in Files PROVE reg'[f].rank = 0
    <3>1. CASE f \in failed
      <4>1. reg'[f] = [reg[f] EXCEPT !.settled = TRUE, !.started = TRUE, !.finished = TRUE]
        BY <2>2, <3>1 DEF FilesFailed, RegisterPreInit
      <4> QED
        BY <1>1, <2>3, <4>1 DEF Items
    <3>2. CASE f \in refs /\ f \notin failed
      <4>1. reg'[f] = [reg[f] EXCEPT !.order = Corner[f], !.settled = TRUE]
        BY <2>2, <3>2 DEF FilesFailed, RegisterPreInit
      <4> QED
        BY <1>1, <2>3, <4>1 DEF Items
    <3>3. CASE f \notin refs
      <4>1. reg'[f] = reg[f]
        BY <2>2, <3>3 DEF FilesFailed, RegisterPreInit
      <4> QED
        BY <2>3, <4>1
    <3> QED
      BY <3>1, <3>2, <3>3
  <2>5. (InOrder(reg) = {})'
    BY <2>4 DEF InOrder
  <2> QED
    BY <1>2, <2>5
<1>5. CASE Dispatch
  <2>1. PICK f \in NextInputs(reg) : reg' = Dispatched(reg, f)
    BY <1>5 DEF Dispatch
  <2>2. f \in Files /\ reg[f].known /\ ~reg[f].started
    BY DEF NextInputs, Registered
  <2>3. ~reg[f].finished /\ reg[f].rank = 0
    BY <1>0, <1>1, <2>2 DEF Life
  <2>4. Ordered(reg)
    BY DEF FirstSession
  <2> QED
    BY <1>0, <2>1, <2>2, <2>3, <2>4, DispatchLowers
<1>6. CASE ReadChunk
  <2>1. PICK f \in Files : reading[f] = "yes" /\ reg' = SubAdded(reg, f)
    BY <1>6 DEF ReadChunk
  <2>2. reg[f].finished = FALSE
    BY <1>0, <1>1, <2>1 DEF Life
  <2>3. \A g \in Files : /\ reg'[g].rank = reg[g].rank /\ reg'[g].order = reg[g].order
                         /\ reg'[g].started = reg[g].started /\ reg'[g].known = reg[g].known
                         /\ reg'[g].finished = reg[g].finished /\ reg'[g].lo = reg[g].lo
                         /\ g # f => reg'[g] = reg[g]
    BY <1>0, <1>1, <2>1 DEF SubAdded, Items, Registries
  <2>4. \A g \in Files : (Done(reg'[g]) <=> Done(reg[g])) /\ reg'[g].lo <= reg[g].lo
    BY <1>1, <2>2, <2>3 DEF Done
  <2> QED
    BY <1>0, <2>3, <2>4, SameFiles
<1>7. CASE SortedChunk
  <2>1. PICK c \in Parts : reg' = SortedPoints(reg, c[1], Key(c))
    BY <1>7 DEF SortedChunk
  <2>2. c[1] \in Files /\ Key(c) \in Nat
    BY PartOf, KeyType
  <2>3. \A g \in Files : /\ reg'[g].rank = reg[g].rank /\ reg'[g].order = reg[g].order
                         /\ reg'[g].started = reg[g].started /\ reg'[g].known = reg[g].known
                         /\ reg'[g].finished = reg[g].finished /\ reg'[g].inserted = reg[g].inserted
                         /\ reg'[g].subs = reg[g].subs
    BY <1>0, <1>1, <2>1, <2>2 DEF SortedPoints, Items, Registries
  <2>4. \A g \in Files : reg'[g].lo <= reg[g].lo
    <3> TAKE g \in Files
    <3>1. CASE g = c[1]
      <4>1. reg'[g] = [reg[g] EXCEPT !.lo = IF Key(c) < reg[g].lo THEN Key(c) ELSE reg[g].lo]
        BY <1>0, <2>1, <2>2, <3>1 DEF SortedPoints, Registries, Items
      <4>2. reg'[g].lo = IF Key(c) < reg[g].lo THEN Key(c) ELSE reg[g].lo
        BY <1>1, <4>1 DEF Items
      <4> QED
        BY <1>1, <2>2, <4>2
    <3>2. CASE g # c[1]
      <4>1. reg'[g] = reg[g]
        BY <1>0, <2>1, <2>2, <3>2 DEF SortedPoints, Registries
      <4> QED
        BY <1>1, <4>1
    <3> QED
      BY <3>1, <3>2
  <2>5. \A g \in Files : Done(reg'[g]) <=> Done(reg[g])
    BY <2>3 DEF Done
  <2> QED
    BY <1>0, <2>3, <2>4, <2>5, SameFiles
<1>8. CASE AddFiles \/ BecomeIdle \/ InsertChunk \/ ReadError \/ LodPassDone \/ CachePressure \/ Chain \/ StepFails
  <2>1. reg' = reg
    BY <1>8, Zenon DEF AddFiles, BecomeIdle, InsertChunk, ReadError, LodPassDone, CachePressure, Chain, StepFails,
      TreesWritten, RegistryWritten, IndexCommitted, ChainEnds
  <2> QED
    BY <1>0, <2>1
<1> QED
  BY <1>3, <1>4, <1>5, <1>6, <1>7, <1>8 DEF Next, Reader, Processor, Reports

LEMMA CompleteStep ==
  ASSUME OneCall
  PROVE  Typed /\ Typed' /\ Counts /\ FirstSession /\ FirstSession' /\ Complete /\ [Next]_vars => Complete'
<1> SUFFICES ASSUME Typed, Typed', Counts, FirstSession, FirstSession', Complete, [Next]_vars, crashes' = 0
             PROVE  /\ ~proc'.generating => DoneMorton(reg)' <= proc'.lodDone
                    /\ proc'.target = Terminal => DoneMorton(reg)' = Terminal
                    /\ tree'.watermark = Terminal /\ chain'.step \in {"trees", "registry", "index"} =>
                         chain'.copies = tree'.copies
                    /\ committed'.watermark = Terminal => committed'.copies = tree'.copies
                    /\ proc'.idle => proc'.handled = proc'.added /\ AllInserted(reg)' /\ ~proc'.generating
  BY DEF Complete
<1>0. /\ reg \in Registries /\ proc \in Procs /\ tree \in Trees /\ chain \in Chains /\ committed \in Commits
      /\ reg' \in Registries /\ proc' \in Procs
  BY DEF Typed, TypeOK
<1>1. crashes = 0 /\ ~Crash
  BY NoCrash
<1>2. /\ ~proc.generating => DoneMorton(reg) <= proc.lodDone
      /\ proc.target = Terminal => DoneMorton(reg) = Terminal
      /\ tree.watermark = Terminal /\ chain.step \in {"trees", "registry", "index"} =>
           chain.copies = tree.copies
      /\ committed.watermark = Terminal => committed.copies = tree.copies
      /\ proc.idle => proc.handled = proc.added /\ AllInserted(reg) /\ ~proc.generating
  BY <1>1 DEF Complete
<1>3. CASE UNCHANGED vars
  BY <1>2, <1>3 DEF vars, AllInserted, Registered
<1>4. ASSUME Next PROVE ~proc'.generating => DoneMorton(reg)' <= proc'.lodDone
  <2>1. DoneMorton(reg) \in Nat /\ DoneMorton(reg)' \in Nat /\ proc'.lodDone \in Nat /\ proc.lodDone \in Nat
    BY <1>0, DoneMortonType DEF Procs
  <2>2. CASE Reports
    BY <1>1, <1>4, <2>2, ProcMoves
  <2>3. ASSUME ~Reports, ~proc'.generating PROVE DoneMorton(reg)' <= proc'.lodDone
    <3>1. ~proc.generating /\ proc'.lodDone = proc.lodDone
      BY <1>1, <1>4, <2>3, ProcMoves
    <3>2. DoneMorton(reg)' = 0 \/ DoneMorton(reg)' <= DoneMorton(reg)
      BY <1>1, <1>4, <2>3, BoundaryStays
    <3> QED
      BY <1>2, <2>1, <3>1, <3>2
  <2> QED
    BY <2>2, <2>3
\* With the target at the end of the code nothing moves.
<1>5. ASSUME Next, proc.target = Terminal
      PROVE  reg' = reg /\ tree'.copies = tree.copies /\ DoneMorton(reg)' = Terminal
  <2>1. DoneMorton(reg) = Terminal
    BY <1>2, <1>5
  <2>2. Quiet /\ proc.handled # 0
    BY <1>1, <2>1, FinalIsQuiet
  <2>3. ~HandleNewFiles
    BY <2>2, HandledOnce
  <2>4. reg' = reg /\ tree'.copies = tree.copies
    BY <1>1, <1>5, <2>2, <2>3, QuietStays
  <2> QED
    BY <2>1, <2>4
<1>6. ASSUME Next PROVE proc'.target = Terminal => DoneMorton(reg)' = Terminal
  <2>1. proc'.target \in {proc.target, DoneMorton(reg)'}
    BY <1>1, <1>6, ProcMoves
  <2> QED
    BY <1>5, <1>6, <2>1
<1>7. /\ tree.watermark = Terminal => proc.target = Terminal
      /\ committed.watermark = Terminal => proc.target = Terminal
  <2>1. {tree.watermark, tree.pass, proc.target, committed.watermark, Terminal} \subseteq Nat /\ proc.target <= Terminal
    BY <1>0, TerminalIsGreatest DEF Trees, Procs, Commits
  <2>2. committed.watermark <= tree.watermark /\ tree.watermark <= tree.pass /\ tree.pass <= proc.target
    BY DEF Typed, Numbers
  <2> QED
    BY <2>1, <2>2
<1>8. ASSUME Next, tree'.watermark = Terminal, chain'.step \in {"trees", "registry", "index"}
      PROVE  chain'.copies = tree'.copies
  <2>1. CASE chain'.copies = tree'.copies
    BY <2>1
  <2>2. CASE /\ tree'.watermark = tree.watermark
             /\ chain.step \in {"trees", "registry", "index"} /\ chain'.copies = chain.copies
    BY <1>2, <1>5, <1>7, <1>8, <2>2
  <2> QED
    BY <1>1, <1>8, <2>1, <2>2, ChainMoves
<1>9. ASSUME Next, committed'.watermark = Terminal PROVE committed'.copies = tree'.copies
  <2>1. CASE committed' = committed
    BY <1>2, <1>5, <1>7, <1>9, <2>1
  <2>2. CASE IndexCommitted
    <3>1. chain.step = "index" /\ committed'.copies = chain.copies /\ committed'.watermark = tree.watermark
      BY <2>2 DEF IndexCommitted
    <3> QED
      BY <1>2, <1>5, <1>7, <1>9, <3>1
  <2>3. committed' = committed \/ IndexCommitted
    BY <1>1, <1>9, Zenon DEF Next, Reader, Chain, Processor, AddFiles, HandleNewFiles, SettleBatch, Dispatch, BecomeIdle,
      ReadChunk, SortedChunk, InsertChunk, TreeDoneWithInput, FileReadingDone, ReadError, LodPassDone,
      CachePressure, TreesWritten, RegistryWritten, ChainEnds, StepFails, IndexWriteDone
  <2> QED
    BY <2>1, <2>2, <2>3
<1>10. ASSUME Next, proc'.idle PROVE proc'.handled = proc'.added /\ AllInserted(reg)' /\ ~proc'.generating
  <2>1. CASE BecomeIdle
    <3>1. proc.added = proc.handled /\ ~proc.generating /\ AllInserted(reg) /\ reg' = reg
      BY <2>1 DEF BecomeIdle
    <3>2. proc'.added = proc.added /\ proc'.handled = proc.handled /\ proc'.generating = proc.generating
      BY <1>0, <2>1 DEF BecomeIdle, Procs
    <3>3. AllInserted(reg)'
      BY <3>1 DEF AllInserted, Registered
    <3> QED
      BY <3>1, <3>2, <3>3
  <2>2. CASE proc.idle /\ ~AddFiles
    <3>1. proc.handled = proc.added /\ AllInserted(reg) /\ ~proc.generating
      BY <1>2, <2>2
    <3>2. Quiet
      <4>1. \A f \in Files : Life(f)
        BY <1>1 DEF FirstSession
      <4> QED
        BY <3>1, <4>1 DEF Quiet, AllInserted, Registered, Done, Life
    <3>3. ~HandleNewFiles
      BY <3>1, HandledOnce
    <3>4. reg' = reg
      BY <1>1, <1>10, <3>2, <3>3, QuietStays
    <3>5. proc'.handled = proc.handled /\ proc'.added = proc.added
      BY <1>1, <1>10, <2>2, <3>3, ProcMoves
    <3>6. ~proc'.generating
      BY <1>1, <1>2, <1>10, <3>1, <3>4, ProcMoves
    <3>7. AllInserted(reg)'
      BY <3>1, <3>4 DEF AllInserted, Registered
    <3> QED
      BY <3>1, <3>5, <3>6, <3>7
  <2> QED
    BY <1>1, <1>10, <2>1, <2>2, ProcMoves
<1> QED
  BY <1>3, <1>4, <1>6, <1>8, <1>9, <1>10

\* An idle processor that was handed all its files has them all committed, with
\* the terminal pass: in a session that adds its files by one call and starts
\* with an empty dataset, whatever fails in it but the process.
THEOREM IdleIsComplete == ASSUME OneCall PROVE Spec => []FirstSessionComplete
<1>1. Typed /\ FirstSession /\ Complete => FirstSessionComplete
  <2> SUFFICES ASSUME Typed, FirstSession, Complete, crashes = 0, proc.idle, NEW f \in Files, tree.copies[f] > 0
               PROVE  committed.watermark = Terminal /\ committed.copies = tree.copies
    BY DEF FirstSessionComplete, IdleMeansComplete
  <2>0. reg \in Registries /\ \A g \in Files : Life(g)
    BY DEF Typed, TypeOK, FirstSession
  <2>1. AllInserted(reg) /\ DoneMorton(reg) <= proc.lodDone
    BY DEF Complete
  <2>2. \A g \in Files : reg[g].rank \in Nat
    BY <2>0, ItemNumbers
  <2>3. f \in InOrder(reg)
    BY <2>0, <2>2 DEF Life, InOrder
  <2>4. Open(reg) = {}
    BY <2>0, <2>1 DEF Open, InOrder, AllInserted, Registered, Life
  <2>5. HasDonePrefix(reg)
    BY <2>3, <2>4 DEF HasDonePrefix
  <2>6. Clamp(reg) = {}
    BY <2>0, <2>1 DEF Clamp, AllInserted, Registered, Done, Life
  <2>7. HeadBounds(reg) \cup Clamp(reg) = {Terminal}
    BY <2>4, <2>6 DEF HeadBounds, FirstOpen
  <2>8. DoneMorton(reg) = Terminal
    BY <2>0, <2>5, <2>7, DoneMortonLeast
  <2>9. proc.lodDone <= committed.watermark /\ committed.watermark <= Terminal
        /\ {proc.lodDone, committed.watermark, Terminal} \subseteq Nat
    BY TerminalIsGreatest DEF Typed, TypeOK, Numbers, Commits, Procs
  <2>10. committed.watermark = Terminal
    BY <2>1, <2>8, <2>9
  <2> QED
    BY <2>10 DEF Complete
<1> QED
  BY <1>1, TypedInit, TypedStep, CountsInit, CountsStep, FirstSessionInit, FirstSessionStep, CompleteInit, CompleteStep,
     PTL DEF Spec
=============================================================================
