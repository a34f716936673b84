----------------------------- MODULE SpillProofs -----------------------------
(***************************************************************************)
(* Theorems about SpillStore, for any number of blobs, segments,           *)
(* checkpoints, failures and crashes.                                      *)
(***************************************************************************)
EXTENDS SpillStore, FiniteSetTheorems, WellFoundedInduction, NaturalsInduction, TLAPS

Coros == Blobs \cup {Ck}

\* In the queue of the gate, and past its head.
InGate == {"spill", "journal", "put", "flush", "sweep", "remove", "shrink"}
Inside == {"journal", "put", "remove", "shrink"}

\* The queue holds who waits for the gate or has it, once; only the head is inside.
Gate ==
  /\ \A i, j \in DOMAIN gate : i # j => gate[i] # gate[j]
  /\ \A p \in Coros : (\E i \in DOMAIN gate : gate[i] = p) <=> op[p] \in InGate
  /\ \A p \in Coros : op[p] \in Inside => gate[1] = p
  /\ op[Ck] \in {"off", "flush", "commit", "sweep", "remove", "shrink"}
  /\ \A b \in Blobs : op[b] \in {"off", "spill", "journal", "put", "kept", "gone"}

RefersTo(locs, n) == \E b \in Blobs : locs[b] # None /\ locs[b].seg = n

\* The checkpoint has its snapshot and not yet deleted what was dead.
Snapped == op[Ck] \in {"commit", "sweep", "remove"}

\* Segments are numbered in turn, and one just opened is referred to by nothing.
Numbered ==
  /\ open.buf # <<>> => open.seq \in 1 .. (next - 1)
  /\ \A b \in Blobs : op[b] = "journal" =>
       /\ open.buf = <<>> /\ open.seq \in 1 .. (next - 1)
       /\ ~RefersTo(loc, open.seq) /\ ~RefersTo(table, open.seq) /\ open.seq \notin dead
       /\ Snapped => ~RefersTo(ck.snap, open.seq)
  /\ \A n \in Segs :
       RefersTo(loc, n) \/ RefersTo(table, n) \/ n \in dead \/ (Snapped /\ RefersTo(ck.snap, n)) => n < next

\* The bucket's bytes, as long as no reference dies under a checkpoint.
Reads(segment, at, b) == QuietCommit => Bytes(segment, at) = b

InOpen(l) == open.buf # <<>> /\ l.seg = open.seq
Found(l, b) ==
  IF InOpen(l) THEN l.at \in DOMAIN open.buf /\ open.buf[l.at] = b ELSE Reads(bucket[l.seg], l.at, b)

\* Every locator of locs leads into the bucket, to its blob.
Settled(locs) == \A b \in Blobs : locs[b] # None => ~InOpen(locs[b]) /\ Reads(bucket[locs[b].seg], locs[b].at, b)

Users(locs, n) == {b \in Blobs : locs[b] # None /\ locs[b].seg = n}

\* Locators lead to their blobs; counts cover them; what is dead is referred to
\* by none, nor by a checkpoint under way.
Backed ==
  /\ \A b \in Blobs : loc[b] # None <=> op[b] \in {"kept", "put"}
  /\ \A b \in Blobs : loc[b] # None => Found(loc[b], b)
  /\ \A b \in Blobs : op[b] = "put" => InOpen(loc[b])
  /\ Settled(table) /\ (Snapped => Settled(ck.snap))
  /\ \A n \in Segs : Cardinality(Users(loc, n)) <= live[n]
  /\ \A n \in dead : ~RefersTo(loc, n) /\ (QuietCommit /\ Snapped => ~RefersTo(ck.snap, n)) /\ (open.buf # <<>> => open.seq # n)
  /\ op[Ck] \in {"sweep", "remove"} => table = ck.snap
  /\ op[Ck] = "remove" => ck.left \subseteq dead

OpenSegs == IF open.buf # <<>> THEN {open.seq} ELSE {}

\* The journal names what is in the bucket, or about to be, and not committed.
Named ==
  /\ undurable \cup OpenSegs \subseteq journal
  /\ \A n \in Segs : bucket[n] # None => n \in undurable \cup OpenSegs \cup known \cup excused
  /\ SegsOf(table) \subseteq known
  /\ op[Ck] \in {"remove", "shrink"} => undurable = {}

Inv == TypeOK /\ Gate /\ Numbered /\ Backed /\ Named

-----------------------------------------------------------------------------
(* The gate. *)

LEMMA InGateHolds ==
  ASSUME TypeOK, Gate, NEW p \in Coros, op[p] \in InGate
  PROVE  gate # <<>> /\ Len(gate) \in Nat \ {0} /\ Head(gate) = gate[1]
<1>1. PICK i \in DOMAIN gate : gate[i] = p
  BY DEF Gate
<1>2. gate \in Seq(Coros)
  BY DEF TypeOK, Coros
<1> QED
  BY <1>1, <1>2

LEMMA AtHead ==
  ASSUME TypeOK, Gate, NEW p \in Coros, NEW q \in Coros, Head(gate) = p, gate # <<>>, op[q] \in Inside
  PROVE  p = q
<1>1. gate \in Seq(Coros)
  BY DEF TypeOK, Coros
<1> QED
  BY <1>1 DEF Gate

LEMMA EnterGate ==
  ASSUME TypeOK, Gate, NEW p \in Coros, NEW pc \in InGate \ Inside, op[p] \notin InGate, Enter(p, pc),
         p = Ck => pc \in {"flush", "sweep"}, p # Ck => pc = "spill"
  PROVE  Gate' /\ gate' \in Seq(Coros)
<1>1. gate \in Seq(Coros) /\ gate' = Append(gate, p) /\ op' = [op EXCEPT ![p] = pc]
  BY DEF TypeOK, Coros, Enter
<1>2. gate' \in Seq(Coros) /\ Len(gate') = Len(gate) + 1 /\ Len(gate) \in Nat
  BY <1>1
<1>3. \A i \in DOMAIN gate : gate'[i] = gate[i] /\ i \in DOMAIN gate' /\ i # Len(gate) + 1
  BY <1>1
<1>4. gate'[Len(gate) + 1] = p /\ DOMAIN gate' = DOMAIN gate \cup {Len(gate) + 1} /\ Len(gate) + 1 \notin DOMAIN gate
  BY <1>1
<1>5. \A q \in Coros : op'[q] = IF q = p THEN pc ELSE op[q]
  BY <1>1 DEF TypeOK, Coros
<1>6. \A i \in DOMAIN gate : gate[i] # p
  BY DEF Gate
<1>7. \A i, j \in DOMAIN gate' : i # j => gate'[i] # gate'[j]
  <2> SUFFICES ASSUME NEW i \in DOMAIN gate', NEW j \in DOMAIN gate', i # j PROVE gate'[i] # gate'[j]
    OBVIOUS
  <2>1. CASE i \in DOMAIN gate /\ j \in DOMAIN gate
    BY <1>3, <2>1 DEF Gate
  <2>2. CASE i = Len(gate) + 1 \/ j = Len(gate) + 1
    BY <1>3, <1>4, <1>6, <2>2
  <2> QED
    BY <1>4, <2>1, <2>2
<1>8. \A q \in Coros : (\E i \in DOMAIN gate' : gate'[i] = q) <=> op'[q] \in InGate
  <2> TAKE q \in Coros
  <2>1. CASE q = p
    BY <1>4, <1>5, <2>1
  <2>2. CASE q # p
    <3>1. (\E i \in DOMAIN gate' : gate'[i] = q) <=> (\E i \in DOMAIN gate : gate[i] = q)
      BY <1>3, <1>4, <2>2
    <3> QED
      BY <1>5, <2>2, <3>1 DEF Gate
  <2> QED
    BY <2>1, <2>2
<1>9. \A q \in Coros : op'[q] \in Inside => gate'[1] = q
  <2> SUFFICES ASSUME NEW q \in Coros, op'[q] \in Inside PROVE gate'[1] = q
    OBVIOUS
  <2>1. q # p /\ op[q] \in Inside
    BY <1>5
  <2>2. gate[1] = q /\ op[q] \in InGate
    BY <2>1 DEF Gate, Inside, InGate
  <2>3. 1 \in DOMAIN gate
    BY <1>1, <2>2, InGateHolds
  <2> QED
    BY <1>3, <2>2, <2>3
<1>10. /\ op'[Ck] \in {"off", "flush", "commit", "sweep", "remove", "shrink"}
       /\ \A b \in Blobs : op'[b] \in {"off", "spill", "journal", "put", "kept", "gone"}
  BY <1>5, SpillStoreAssumption DEF Gate, Coros
<1> QED
  BY <1>2, <1>7, <1>8, <1>9, <1>10 DEF Gate

LEMMA LeaveGate ==
  ASSUME TypeOK, Gate, NEW p \in Coros, NEW pc, pc \notin InGate, op[p] \in InGate, Head(gate) = p, Leave(p, pc),
         p = Ck => pc \in {"off", "commit"}, p # Ck => pc \in {"off", "kept"}
  PROVE  Gate' /\ gate' \in Seq(Coros)
<1>1. gate \in Seq(Coros) /\ gate' = Tail(gate) /\ op' = [op EXCEPT ![p] = pc] /\ gate # <<>>
  BY InGateHolds DEF TypeOK, Coros, Leave
<1>2. /\ gate' \in Seq(Coros) /\ Len(gate') = Len(gate) - 1 /\ Len(gate) \in Nat \ {0}
      /\ DOMAIN gate = 1 .. Len(gate) /\ DOMAIN gate' = 1 .. (Len(gate) - 1)
  BY <1>1
<1>3. \A i \in DOMAIN gate' : gate'[i] = gate[i + 1] /\ i + 1 \in DOMAIN gate
  BY <1>1, <1>2
<1>4. \A q \in Coros : op'[q] = IF q = p THEN pc ELSE op[q]
  BY <1>1 DEF TypeOK, Coros
<1>5. gate[1] = p /\ 1 \in DOMAIN gate
  BY <1>1, <1>2
<1>6. \A i, j \in DOMAIN gate' : i # j => gate'[i] # gate'[j]
  <2> SUFFICES ASSUME NEW i \in DOMAIN gate', NEW j \in DOMAIN gate', i # j PROVE gate'[i] # gate'[j]
    OBVIOUS
  <2>1. i + 1 # j + 1
    BY <1>2
  <2> QED
    BY <1>3, <2>1 DEF Gate
<1>7. \A i \in DOMAIN gate' : gate'[i] # p
  <2> TAKE i \in DOMAIN gate'
  <2>1. i + 1 # 1
    BY <1>2
  <2> QED
    BY <1>3, <1>5, <2>1 DEF Gate
<1>8. \A q \in Coros : (\E i \in DOMAIN gate' : gate'[i] = q) <=> op'[q] \in InGate
  <2> TAKE q \in Coros
  <2>1. CASE q = p
    BY <1>4, <1>7, <2>1
  <2>2. CASE q # p
    <3>1. ASSUME NEW i \in DOMAIN gate, gate[i] = q PROVE \E j \in DOMAIN gate' : gate'[j] = q
      <4>1. i # 1
        BY <1>5, <2>2, <3>1
      <4>2. i - 1 \in DOMAIN gate' /\ (i - 1) + 1 = i
        BY <1>2, <4>1
      <4> QED
        BY <1>3, <3>1, <4>2
    <3>2. (\E i \in DOMAIN gate' : gate'[i] = q) <=> (\E i \in DOMAIN gate : gate[i] = q)
      BY <1>3, <3>1
    <3> QED
      BY <1>4, <2>2, <3>2 DEF Gate
  <2> QED
    BY <2>1, <2>2
<1>9. \A q \in Coros : op'[q] \in Inside => gate'[1] = q
  <2> SUFFICES ASSUME NEW q \in Coros, op'[q] \in Inside PROVE FALSE
    OBVIOUS
  <2>1. q # p /\ op[q] \in Inside
    BY <1>4 DEF Inside, InGate
  <2> QED
    BY <1>1, <2>1, AtHead
<1>10. /\ op'[Ck] \in {"off", "flush", "commit", "sweep", "remove", "shrink"}
       /\ \A b \in Blobs : op'[b] \in {"off", "spill", "journal", "put", "kept", "gone"}
  BY <1>4, SpillStoreAssumption DEF Gate, Coros
<1> QED
  BY <1>2, <1>6, <1>8, <1>9, <1>10 DEF Gate

\* The head of the queue goes on, or a coroutine outside of it.
LEMMA StayGate ==
  ASSUME TypeOK, Gate, NEW p \in Coros, NEW pc, gate' = gate, op' = [op EXCEPT ![p] = pc],
         op[p] \in InGate <=> pc \in InGate, pc \in Inside => Head(gate) = p,
         p = Ck => pc \in {"off", "commit", "remove", "shrink"}, p # Ck => pc \in {"journal", "put", "gone"}
  PROVE  Gate' /\ gate' \in Seq(Coros)
<1>1. gate \in Seq(Coros) /\ gate' = gate
  BY DEF TypeOK, Coros
<1>2. \A q \in Coros : op'[q] = IF q = p THEN pc ELSE op[q]
  BY DEF TypeOK, Coros
<1>3. \A q \in Coros : (\E i \in DOMAIN gate' : gate'[i] = q) <=> op'[q] \in InGate
  BY <1>2 DEF Gate
<1>4. \A q \in Coros : op'[q] \in Inside => gate'[1] = q
  <2> SUFFICES ASSUME NEW q \in Coros, op'[q] \in Inside PROVE gate[1] = q
    OBVIOUS
  <2>1. CASE q # p
    BY <1>2, <2>1 DEF Gate
  <2>2. CASE q = p
    <3>1. op[p] \in InGate /\ Head(gate) = p
      BY <1>2, <2>2 DEF Inside, InGate
    <3> QED
      BY <2>2, <3>1, InGateHolds
  <2> QED
    BY <2>1, <2>2
<1>5. /\ op'[Ck] \in {"off", "flush", "commit", "sweep", "remove", "shrink"}
      /\ \A b \in Blobs : op'[b] \in {"off", "spill", "journal", "put", "kept", "gone"}
  BY <1>2, SpillStoreAssumption DEF Gate, Coros
<1> QED
  BY <1>1, <1>3, <1>4, <1>5 DEF Gate

-----------------------------------------------------------------------------
(* Steps that leave the store alone. *)

LEMMA StoreFrame ==
  ASSUME TypeOK, Numbered, Backed, Named,
         UNCHANGED <<bucket, journal, open, next, undurable, live, dead, loc, ck, table, known, excused>>,
         \A b \in Blobs : /\ op'[b] \in {"kept", "put"} <=> op[b] \in {"kept", "put"}
                          /\ op'[b] = "journal" => op[b] = "journal"
                          /\ op'[b] = "put" => op[b] = "put",
         op'[Ck] \in {"sweep", "remove", "shrink"} => op'[Ck] = op[Ck],
         op'[Ck] = "commit" => op[Ck] = "commit"
  PROVE  Numbered' /\ Backed' /\ Named'
<1>1. Snapped' => Snapped
  BY DEF Snapped
<1>2. op'[Ck] \in {"sweep", "remove"} => op[Ck] \in {"sweep", "remove"} /\ (op'[Ck] = "remove" => op[Ck] = "remove")
  OBVIOUS
<1>3. Numbered'
  BY <1>1 DEF Numbered, RefersTo
<1>4. Backed'
  <2>1. \A b \in Blobs : loc'[b] # None <=> op'[b] \in {"kept", "put"}
    BY DEF Backed
  <2>2. \A b \in Blobs : (loc'[b] # None => Found(loc[b], b)') /\ (op'[b] = "put" => InOpen(loc[b])')
    BY DEF Backed, Found, InOpen, Bytes, Reads
  <2>3. Settled(table)' /\ (Snapped' => Settled(ck.snap)')
    BY <1>1 DEF Backed, Settled, InOpen, Bytes, Reads
  <2>4. \A n \in Segs : Cardinality(Users(loc, n)') <= live'[n]
    BY DEF Backed, Users
  <2>5. \A n \in dead' : ~RefersTo(loc, n)' /\ (QuietCommit /\ Snapped' => ~RefersTo(ck.snap, n)') /\ (open'.buf # <<>> => open'.seq # n)
    BY <1>1 DEF Backed, RefersTo
  <2>6. (op'[Ck] \in {"sweep", "remove"} => table' = ck'.snap) /\ (op'[Ck] = "remove" => ck'.left \subseteq dead')
    BY <1>2 DEF Backed
  <2> QED
    BY <2>1, <2>2, <2>3, <2>4, <2>5, <2>6 DEF Backed
<1>5. Named'
  BY DEF Named, OpenSegs, SegsOf
<1> QED
  BY <1>3, <1>4, <1>5

Places == {"off", "spill", "journal", "put", "kept", "gone", "flush", "commit", "sweep", "remove", "shrink"}
Counters == [checkpoints : Nat, failures : Nat, crashes : Nat]

LEMMA Counting ==
  /\ Fails => used' = [used EXCEPT !.failures = used.failures + 1]
  /\ \A u \in Counters : /\ [u EXCEPT !.failures = u.failures + 1] \in Counters
                          /\ [u EXCEPT !.checkpoints = u.checkpoints + 1] \in Counters
                          /\ [u EXCEPT !.crashes = u.crashes + 1] \in Counters
<1>1. Fails => used' = [used EXCEPT !.failures = used.failures + 1]
  BY DEF Fails
<1>2. \A u \in Counters : u.failures \in Nat /\ u.checkpoints \in Nat /\ u.crashes \in Nat
  BY DEF Counters
<1>3. \A n \in Nat : n + 1 \in Nat
  OBVIOUS
<1> QED
  BY <1>1, <1>2, <1>3 DEF Counters

LEMMA TypeFrame ==
  ASSUME TypeOK, UNCHANGED <<bucket, journal, open, next, undurable, live, dead, loc, ck, excused, external>>,
         gate' \in Seq(Coros), op' \in [Coros -> Places],
         used' \in Counters
  PROVE  TypeOK'
<1> QED
  BY DEF TypeOK, external, Coros, Locs, Places, Counters

LEMMA IdleSteps ==
  ASSUME Inv, NEW b \in Blobs,
         Spill(b) \/ SpillJournalFails(b)
  PROVE  Inv'
<1> USE DEF Inv
<1>0. b \in Coros /\ Ck \in Coros /\ b # Ck /\ op \in [Coros -> Places]
  BY SpillStoreAssumption DEF Coros, TypeOK, Places
<1>t. /\ [used EXCEPT !.failures = used.failures + 1] \in Counters
      /\ [used EXCEPT !.checkpoints = used.checkpoints + 1] \in Counters
      /\ used \in Counters /\ (Fails => used' \in Counters)
  BY Counting DEF TypeOK, Counters
<1>s. /\ \A p \in Coros, pc \in Places : [op EXCEPT ![p] = pc] \in [Coros -> Places]
      /\ {"off", "spill", "flush"} \subseteq Places
  BY <1>0 DEF Places
<1>1. CASE Spill(b)
  <2>1. Gate' /\ gate' \in Seq(Coros)
    BY <1>0, <1>1, EnterGate DEF Spill, InGate, Inside
  <2>2. op' = [op EXCEPT ![b] = "spill"] /\ op[b] = "off"
    BY <1>1 DEF Spill, Enter
  <2>3. Numbered' /\ Backed' /\ Named'
    BY <1>0, <1>1, <2>2, StoreFrame DEF Spill, external
  <2>4. TypeOK'
    BY <1>0, <1>1, <1>s, <1>t, <2>1, <2>2, TypeFrame DEF Spill, external
  <2> QED
    BY <2>1, <2>3, <2>4
<1>2. CASE SpillJournalFails(b)
  <2>1. Gate' /\ gate' \in Seq(Coros)
    BY <1>0, <1>2, LeaveGate DEF SpillJournalFails, Runs, InGate
  <2>2. op' = [op EXCEPT ![b] = "off"] /\ op[b] = "journal"
    BY <1>2 DEF SpillJournalFails, Leave, Runs
  <2>3. Numbered' /\ Backed' /\ Named'
    BY <1>0, <1>2, <2>2, StoreFrame DEF SpillJournalFails, external
  <2>4. TypeOK'
    BY <1>0, <1>2, <1>s, <1>t, <2>1, <2>2, TypeFrame DEF SpillJournalFails, external
  <2> QED
    BY <2>1, <2>3, <2>4
<1> QED
  BY <1>1, <1>2

LEMMA CkIdleSteps ==
  ASSUME Inv, StartCheckpoint \/ FlushFails \/ CommitFails
  PROVE  Inv'
<1> USE DEF Inv
<1>0. Ck \in Coros /\ Ck \notin Blobs /\ op \in [Coros -> Places]
  BY SpillStoreAssumption DEF Coros, TypeOK, Places
<1>t. /\ [used EXCEPT !.failures = used.failures + 1] \in Counters
      /\ [used EXCEPT !.checkpoints = used.checkpoints + 1] \in Counters
      /\ used \in Counters /\ (Fails => used' \in Counters)
  BY Counting DEF TypeOK, Counters
<1>s. /\ \A p \in Coros, pc \in Places : [op EXCEPT ![p] = pc] \in [Coros -> Places]
      /\ {"off", "spill", "flush"} \subseteq Places
  BY <1>0 DEF Places
<1>3. CASE StartCheckpoint
  <2>1. Gate' /\ gate' \in Seq(Coros)
    BY <1>0, <1>3, EnterGate DEF StartCheckpoint, InGate, Inside
  <2>2. op' = [op EXCEPT ![Ck] = "flush"] /\ op[Ck] = "off"
    BY <1>3 DEF StartCheckpoint, Enter
  <2>3. Numbered' /\ Backed' /\ Named'
    BY <1>0, <1>3, <2>2, SpillStoreAssumption, StoreFrame DEF StartCheckpoint, external, Coros
  <2>4. TypeOK'
    BY <1>0, <1>3, <1>s, <1>t, <2>1, <2>2, TypeFrame DEF StartCheckpoint, external
  <2> QED
    BY <2>1, <2>3, <2>4
<1>4. CASE FlushFails
  <2>1. Gate' /\ gate' \in Seq(Coros)
    BY <1>0, <1>4, LeaveGate DEF FlushFails, Runs, InGate
  <2>2. op' = [op EXCEPT ![Ck] = "off"] /\ op[Ck] = "flush"
    BY <1>4 DEF FlushFails, Leave, Runs
  <2>3. Numbered' /\ Backed' /\ Named'
    BY <1>0, <1>4, <2>2, SpillStoreAssumption, StoreFrame DEF FlushFails, external, Coros
  <2>4. TypeOK'
    BY <1>0, <1>4, <1>s, <1>t, <2>1, <2>2, TypeFrame DEF FlushFails, external
  <2> QED
    BY <2>1, <2>3, <2>4
<1>5. CASE CommitFails
  <2>1. op' = [op EXCEPT ![Ck] = "off"] /\ op[Ck] = "commit" /\ gate' = gate
    BY <1>5 DEF CommitFails
  <2>2. Gate' /\ gate' \in Seq(Coros)
    BY <1>0, <2>1, StayGate DEF InGate, Inside
  <2>3. Numbered' /\ Backed' /\ Named'
    BY <1>0, <1>5, <2>1, SpillStoreAssumption, StoreFrame DEF CommitFails, external, Coros
  <2>4. TypeOK'
    BY <1>0, <1>5, <1>s, <1>t, <2>1, <2>2, TypeFrame DEF CommitFails, external
  <2> QED
    BY <2>2, <2>3, <2>4
<1> QED
  BY <1>3, <1>4, <1>5

-----------------------------------------------------------------------------
(* An append to the open segment. *)

LEMMA Counted ==
  ASSUME TypeOK, NEW locs \in Locs
  PROVE  \A n : IsFiniteSet(Users(locs, n)) /\ Cardinality(Users(locs, n)) \in Nat /\ Users(locs, n) \subseteq Blobs
<1> TAKE n
<1>1. Users(locs, n) \subseteq Blobs /\ IsFiniteSet(Blobs)
  BY SpillStoreAssumption DEF Users
<1>2. IsFiniteSet(Users(locs, n))
  BY <1>1, FS_Subset
<1> QED
  BY <1>1, <1>2, FS_CardinalityType

LEMMA AppendStep ==
  ASSUME Inv, NEW b \in Blobs, op[b] \in {"spill", "journal"}, Head(gate) = b, AppendBlob(b, open),
         open.seq \in 1 .. (next - 1), ~RefersTo(table, open.seq), Snapped => ~RefersTo(ck.snap, open.seq),
         open.seq \notin dead, open.buf = <<>> => ~RefersTo(loc, open.seq),
         UNCHANGED <<bucket, undurable, dead, ck, table, next, used>>,
         undurable \cup {open.seq} \subseteq journal', journal' \subseteq Segs,
         known' \in {known, known \ {open.seq}}, excused' \in {excused, excused \ {open.seq}}
  PROVE  Inv'
<1> DEFINE n == open.seq
<1> USE DEF Inv
<1>0. /\ b \in Coros /\ b # Ck /\ op \in [Coros -> Places] /\ n \in Segs /\ open.buf \in Seq(Blobs) /\ loc \in Locs
      /\ live \in [Segs -> Nat] /\ op[b] \in InGate /\ loc[b] = None
  BY SpillStoreAssumption DEF Coros, TypeOK, Places, Segs, InGate, Backed
<1>1. PICK l \in Nat : l = Len(open.buf)
  BY <1>0
<1>2. /\ Append(open.buf, b) \in Seq(Blobs) /\ Len(Append(open.buf, b)) = l + 1 /\ Append(open.buf, b) # <<>>
      /\ l + 1 \in DOMAIN Append(open.buf, b) /\ Append(open.buf, b)[l + 1] = b
      /\ \A i \in DOMAIN open.buf : i \in DOMAIN Append(open.buf, b) /\ Append(open.buf, b)[i] = open.buf[i]
  <2> DEFINE s == open.buf
  <2>1. s \in Seq(Blobs) /\ l = Len(s)
    BY <1>0, <1>1
  <2> HIDE DEF s
  <2>2. /\ Append(s, b) \in Seq(Blobs) /\ Len(Append(s, b)) = l + 1 /\ Append(s, b) # <<>>
        /\ l + 1 \in DOMAIN Append(s, b) /\ Append(s, b)[l + 1] = b
        /\ \A i \in DOMAIN s : i \in DOMAIN Append(s, b) /\ Append(s, b)[i] = s[i]
    BY <2>1
  <2> QED
    BY <2>2 DEF s
<1>3. /\ open' = [open EXCEPT !.buf = Append(open.buf, b), !.journaled = TRUE]
      /\ open'.buf = Append(open.buf, b) /\ open'.buf # <<>> /\ open'.seq = n
      /\ open' \in [seq : Segs \cup {0}, buf : Seq(Blobs), journaled : BOOLEAN]
  <2>1. open \in [seq : Segs \cup {0}, buf : Seq(Blobs), journaled : BOOLEAN]
    BY DEF TypeOK
  <2>2. open' = [open EXCEPT !.buf = Append(open.buf, b), !.journaled = TRUE]
    BY DEF AppendBlob
  <2> QED
    BY <1>2, <2>1, <2>2
<1>4. loc' = [loc EXCEPT ![b] = [seg |-> n, at |-> l + 1]] /\ live' = [live EXCEPT ![n] = live[n] + 1]
  <2>1. loc' = [loc EXCEPT ![b] = [seg |-> n, at |-> Len(open'.buf)]]
    BY <1>3 DEF AppendBlob
  <2>2. live' = [live EXCEPT ![n] = live[n] + 1]
    BY DEF AppendBlob
  <2> QED
    BY <1>2, <1>3, <2>1, <2>2
<1>5. \/ op' = [op EXCEPT ![b] = "put"] /\ gate' = gate
      \/ op' = [op EXCEPT ![b] = "kept"] /\ Leave(b, "kept")
  BY DEF AppendBlob, Leave
<1>6. Gate' /\ gate' \in Seq(Coros)
  <2>1. CASE op' = [op EXCEPT ![b] = "put"] /\ gate' = gate
    BY <1>0, <2>1, StayGate DEF InGate, Inside
  <2>2. CASE Leave(b, "kept")
    BY <1>0, <2>2, LeaveGate DEF InGate
  <2> QED
    BY <1>5, <2>1, <2>2
<1>7. /\ op'[Ck] = op[Ck] /\ (Snapped' <=> Snapped) /\ op'[b] \in {"kept", "put"} /\ op' \in [Coros -> Places]
      /\ \A c \in Blobs : c # b => op'[c] = op[c] /\ op[c] \notin {"journal", "put"}
  <2>1. \A p \in Coros : op'[p] = IF p = b THEN op'[b] ELSE op[p]
    BY <1>0, <1>5
  <2>2. op'[b] \in {"kept", "put"} /\ op' \in [Coros -> Places]
    BY <1>0, <1>5 DEF Places
  <2>3. \A c \in Blobs : c # b => op[c] \notin {"journal", "put"}
    BY <1>0, InGateHolds, AtHead DEF Coros, Inside
  <2> QED
    BY <1>0, <2>1, <2>2, <2>3 DEF Snapped, Coros
<1>8. /\ loc' \in Locs /\ loc'[b] = [seg |-> n, at |-> l + 1] /\ loc'[b] # None
      /\ \A c \in Blobs : c # b => loc'[c] = loc[c]
  <2>1. l + 1 \in Nat
    BY <1>1
  <2> QED
    BY <1>0, <1>4, <2>1, NoneIsNoValue DEF Locs, Segs
<1>9. \A m : RefersTo(loc, m)' => RefersTo(loc, m) \/ m = n
  BY <1>8 DEF RefersTo
<1>10. Numbered'
  <2>1. \A c \in Blobs : op'[c] # "journal"
    BY <1>7
  <2>2. n < next
    BY DEF TypeOK
  <2>3. \A m \in Segs : (RefersTo(table, m)' <=> RefersTo(table, m)) /\ (RefersTo(ck.snap, m)' <=> RefersTo(ck.snap, m))
    BY DEF RefersTo
  <2> QED
    BY <1>3, <1>7, <1>9, <2>1, <2>2, <2>3 DEF Numbered
<1>11. Backed'
  <2>1. \A c \in Blobs : loc'[c] # None <=> op'[c] \in {"kept", "put"}
    BY <1>7, <1>8 DEF Backed
  <2>2. \A c \in Blobs : loc'[c] # None => Found(loc[c], c)'
    <3> SUFFICES ASSUME NEW c \in Blobs, loc'[c] # None PROVE Found(loc[c], c)'
      OBVIOUS
    <3>1. CASE c = b
      BY <1>2, <1>3, <1>8, <3>1 DEF Found, InOpen
    <3>2. CASE c # b
      <4>1. loc'[c] = loc[c] /\ Found(loc[c], c) /\ loc[c] # None
        BY <1>8, <3>2 DEF Backed
      <4>2. CASE InOpen(loc[c])
        BY <1>2, <1>3, <4>1, <4>2 DEF Found, InOpen
      <4>3. CASE ~InOpen(loc[c])
        <5>1. loc[c].seg # n
          BY <4>1, <4>3 DEF InOpen, RefersTo
        <5> QED
          BY <1>3, <4>1, <4>3, <5>1 DEF Found, InOpen, Bytes, Reads
      <4> QED
        BY <4>2, <4>3
    <3> QED
      BY <3>1, <3>2
  <2>3. \A c \in Blobs : op'[c] = "put" => InOpen(loc[c])'
    BY <1>3, <1>7, <1>8 DEF InOpen
  <2>4. Settled(table)' /\ (Snapped' => Settled(ck.snap)')
    BY <1>3, <1>7 DEF Settled, InOpen, Bytes, Reads, RefersTo, Backed
  <2>5. \A m \in Segs : Cardinality(Users(loc, m)') <= live'[m]
    <3> TAKE m \in Segs
    <3>1. CASE m # n
      <4>1. Users(loc, m)' = Users(loc, m) /\ live'[m] = live[m]
        BY <1>0, <1>4, <1>8, <3>1 DEF Users
      <4> QED
        BY <4>1 DEF Backed
    <3>2. CASE m = n
      <4>1. Users(loc, m)' = Users(loc, m) \cup {b} /\ b \notin Users(loc, m) /\ live'[m] = live[m] + 1
        BY <1>0, <1>4, <1>8, <3>2 DEF Users
      <4>2. IsFiniteSet(Users(loc, m)) /\ Cardinality(Users(loc, m)) \in Nat
        BY <1>0, Counted
      <4>3. Cardinality(Users(loc, m) \cup {b}) = Cardinality(Users(loc, m)) + 1
        BY <4>1, <4>2, FS_AddElement
      <4>4. Cardinality(Users(loc, m)) <= live[m] /\ live[m] \in Nat
        BY <1>0 DEF Backed
      <4>5. \A i, j \in Nat : i <= j => i + 1 <= j + 1
        OBVIOUS
      <4> QED
        BY <4>1, <4>2, <4>3, <4>4, <4>5
    <3> QED
      BY <3>1, <3>2
  <2>6. \A m \in dead' : ~RefersTo(loc, m)' /\ (QuietCommit /\ Snapped' => ~RefersTo(ck.snap, m)') /\ (open'.buf # <<>> => open'.seq # m)
    <3> SUFFICES ASSUME NEW m \in dead PROVE ~RefersTo(loc, m)' /\ (QuietCommit /\ Snapped' => ~RefersTo(ck.snap, m)') /\ n # m
      BY <1>3
    <3>1. m # n /\ ~RefersTo(loc, m) /\ (QuietCommit /\ Snapped => ~RefersTo(ck.snap, m))
      BY DEF Backed
    <3>2. RefersTo(ck.snap, m)' <=> RefersTo(ck.snap, m)
      BY DEF RefersTo
    <3> QED
      BY <1>7, <1>9, <3>1, <3>2
  <2>7. (op'[Ck] \in {"sweep", "remove"} => table' = ck'.snap) /\ (op'[Ck] = "remove" => ck'.left \subseteq dead')
    BY <1>7 DEF Backed
  <2> QED
    BY <2>1, <2>2, <2>3, <2>4, <2>5, <2>6, <2>7 DEF Backed
<1>12. Named'
  <2>1. OpenSegs' = {n}
    BY <1>3 DEF OpenSegs
  <2>2. SegsOf(table') \subseteq known'
    BY DEF Named, SegsOf, RefersTo
  <2>3. \A m \in Segs : bucket'[m] # None => m \in undurable' \cup OpenSegs' \cup known' \cup excused'
    BY <2>1 DEF Named, OpenSegs
  <2> QED
    BY <1>7, <2>1, <2>2, <2>3 DEF Named, SegsOf
<1>13. TypeOK'
  <2>1. live' \in [Segs -> Nat]
    <3>1. live[n] + 1 \in Nat
      BY <1>0
    <3> QED
      BY <1>0, <1>4, <3>1
  <2> QED
    BY <1>3, <1>6, <1>7, <1>8, <2>1 DEF TypeOK, Coros, Places
<1> QED
  BY <1>6, <1>10, <1>11, <1>12, <1>13

LEMMA AppendSteps ==
  ASSUME Inv, NEW b \in Blobs, \/ SpillStart(b) /\ open.buf # <<>>
                               \/ SpillJournaled(b)
  PROVE  Inv'
<1> USE DEF Inv
<1>1. CASE SpillStart(b) /\ open.buf # <<>>
  <2>1. AppendBlob(b, open) /\ Runs(b, "spill") /\ UNCHANGED <<bucket, undurable, dead, ck, table, next, used, journal, known, excused>>
    BY <1>1 DEF SpillStart, external
  <2>2. open.seq \in 1 .. (next - 1) /\ open.seq \notin dead /\ undurable \cup {open.seq} \subseteq journal /\ journal \subseteq Segs
    BY <1>1 DEF Numbered, Backed, Named, OpenSegs, TypeOK
  <2>3. ~RefersTo(table, open.seq) /\ (Snapped => ~RefersTo(ck.snap, open.seq))
    BY <1>1 DEF Backed, Settled, InOpen, RefersTo
  <2> QED
    BY <1>1, <2>1, <2>2, <2>3, AppendStep DEF Runs
<1>2. CASE SpillJournaled(b)
  <2>1. /\ AppendBlob(b, open) /\ Runs(b, "journal") /\ UNCHANGED <<bucket, undurable, dead, ck, table, next, used>>
        /\ journal' = undurable \cup {open.seq} /\ known' = known \ {open.seq} /\ excused' = excused \ {open.seq}
    BY <1>2 DEF SpillJournaled, Journalled
  <2>2. /\ open.seq \in 1 .. (next - 1) /\ open.seq \notin dead
        /\ ~RefersTo(table, open.seq) /\ (Snapped => ~RefersTo(ck.snap, open.seq)) /\ ~RefersTo(loc, open.seq)
    BY <2>1 DEF Numbered, Runs
  <2>3. journal' \subseteq Segs
    <3>1. open.seq \in Segs /\ undurable \subseteq Segs
      BY <2>2 DEF TypeOK, Segs
    <3> QED
      BY <2>1, <3>1
  <2> QED
    BY <2>1, <2>2, <2>3, AppendStep DEF Runs
<1> QED
  BY <1>1, <1>2

-----------------------------------------------------------------------------
(* Opening a segment. *)

LEMMA OpeningStep ==
  ASSUME Inv, NEW b \in Blobs, SpillStart(b), open.buf = <<>>
  PROVE  Inv'
<1> USE DEF Inv
<1>0. /\ b \in Coros /\ b # Ck /\ op \in [Coros -> Places] /\ op[b] = "spill" /\ Head(gate) = b /\ op[b] \in InGate
      /\ next \in Segs
  BY SpillStoreAssumption DEF Coros, TypeOK, Places, SpillStart, Runs, InGate
<1>1. /\ open' = [ClosedSeg EXCEPT !.seq = next] /\ next' = next + 1 /\ op' = [op EXCEPT ![b] = "journal"] /\ gate' = gate
      /\ UNCHANGED <<bucket, journal, undurable, dead, live, loc, ck, excused, used, table, known>>
  BY DEF SpillStart, external
<1>2. /\ open'.buf = <<>> /\ open'.seq = next /\ next' \in 1 .. MaxSegs + 1 /\ next \in 1 .. (next' - 1)
      /\ open' \in [seq : Segs \cup {0}, buf : Seq(Blobs), journaled : BOOLEAN]
  <2>1. open' = [seq |-> next, buf |-> <<>>, journaled |-> FALSE]
    BY <1>1 DEF ClosedSeg
  <2>2. <<>> \in Seq(Blobs)
    OBVIOUS
  <2>3. MaxSegs \in Nat
    BY SpillStoreAssumption
  <2>4. next' \in 1 .. MaxSegs + 1 /\ next \in 1 .. (next' - 1)
    BY <1>0, <1>1, <2>3 DEF Segs
  <2> QED
    BY <1>0, <2>1, <2>2, <2>4
<1>3. Gate' /\ gate' \in Seq(Coros)
  BY <1>0, <1>1, StayGate DEF InGate, Inside
<1>4. /\ op'[Ck] = op[Ck] /\ (Snapped' <=> Snapped) /\ op' \in [Coros -> Places] /\ op'[b] = "journal"
      /\ \A c \in Blobs : c # b => op'[c] = op[c] /\ op[c] \notin {"journal", "put"}
  <2>1. \A c \in Blobs : c # b => op[c] \notin {"journal", "put"}
    BY <1>0, InGateHolds, AtHead DEF Coros, Inside
  <2>2. Ck \in Coros /\ Blobs \subseteq Coros
    BY DEF Coros
  <2> QED
    BY <1>0, <1>1, <2>1, <2>2 DEF Snapped, Places
<1>5. \A m : /\ RefersTo(loc, m)' <=> RefersTo(loc, m)
             /\ RefersTo(table, m)' <=> RefersTo(table, m)
             /\ RefersTo(ck.snap, m)' <=> RefersTo(ck.snap, m)
  BY <1>1 DEF RefersTo
<1>6. Numbered'
  <2>1. ~(RefersTo(loc, next) \/ RefersTo(table, next) \/ next \in dead \/ (Snapped /\ RefersTo(ck.snap, next)))
    <3>1. ~(next < next)
      BY DEF TypeOK
    <3> QED
      BY <1>0, <3>1 DEF Numbered
  <2>2. \A c \in Blobs : op'[c] = "journal" =>
          /\ open'.buf = <<>> /\ open'.seq \in 1 .. (next' - 1)
          /\ ~RefersTo(loc, open.seq)' /\ ~RefersTo(table, open.seq)' /\ open'.seq \notin dead'
          /\ Snapped' => ~RefersTo(ck.snap, open.seq)'
    BY <1>1, <1>2, <1>4, <2>1 DEF RefersTo
  <2>3. \A m \in Segs : m < next => m < next'
    BY <1>1, SpillStoreAssumption DEF Segs, TypeOK
  <2>4. \A m \in Segs :
          RefersTo(loc, m)' \/ RefersTo(table, m)' \/ m \in dead' \/ (Snapped' /\ RefersTo(ck.snap, m)') => m < next'
    BY <1>1, <1>4, <1>5, <2>3 DEF Numbered
  <2> QED
    BY <1>2, <2>2, <2>4 DEF Numbered
<1>7. Backed'
  <2>1. \A c \in Blobs : loc'[c] # None <=> op'[c] \in {"kept", "put"}
    BY <1>0, <1>1, <1>4 DEF Backed
  <2>2. \A c \in Blobs : (loc'[c] # None => Found(loc[c], c)') /\ op'[c] # "put"
    BY <1>1, <1>2, <1>4 DEF Backed, Found, InOpen, Bytes, Reads
  <2>3. Settled(table)' /\ (Snapped' => Settled(ck.snap)')
    BY <1>1, <1>2, <1>4 DEF Settled, InOpen, Bytes, Reads, Backed
  <2>4. \A m \in Segs : Cardinality(Users(loc, m)') <= live'[m]
    BY <1>1 DEF Users, Backed
  <2>5. \A m \in dead' : ~RefersTo(loc, m)' /\ (QuietCommit /\ Snapped' => ~RefersTo(ck.snap, m)') /\ (open'.buf # <<>> => open'.seq # m)
    BY <1>1, <1>2, <1>4, <1>5 DEF Backed
  <2>6. (op'[Ck] \in {"sweep", "remove"} => table' = ck'.snap) /\ (op'[Ck] = "remove" => ck'.left \subseteq dead')
    BY <1>1, <1>4 DEF Backed
  <2> QED
    BY <2>1, <2>2, <2>3, <2>4, <2>5, <2>6 DEF Backed
<1>8. Named'
  BY <1>1, <1>2, <1>4 DEF Named, OpenSegs, SegsOf
<1>9. TypeOK'
  BY <1>1, <1>2, <1>3, <1>4 DEF TypeOK, Coros, Places, Locs
<1> QED
  BY <1>3, <1>6, <1>7, <1>8, <1>9

-----------------------------------------------------------------------------
(* A segment PUT, or nothing to PUT. *)

LEMMA Stored ==
  ASSUME Inv, \/ Flushed /\ open.buf # <<>>
              \/ open.buf = <<>> /\ UNCHANGED <<bucket, undurable, open>>,
         UNCHANGED journal
  PROVE  /\ open'.buf = <<>> /\ open' \in [seq : Segs \cup {0}, buf : Seq(Blobs), journaled : BOOLEAN]
         /\ bucket' \in [Segs -> Seq(Blobs) \cup {None}] /\ undurable' \subseteq Segs
         /\ \A c \in Blobs : loc[c] # None => Reads(bucket'[loc[c].seg], loc[c].at, c)
         /\ \A locs \in Locs : Settled(locs) =>
              \A c \in Blobs : locs[c] # None => Reads(bucket'[locs[c].seg], locs[c].at, c)
         /\ undurable' \subseteq journal
         /\ \A m \in Segs : bucket'[m] # None => m \in undurable' \cup known \cup excused
<1> USE DEF Inv
<1>1. CASE open.buf = <<>> /\ UNCHANGED <<bucket, undurable, open>>
  <2>1. \A c \in Blobs : loc[c] # None => Reads(bucket'[loc[c].seg], loc[c].at, c)
    BY <1>1 DEF Backed, Found, InOpen
  <2>2. \A locs \in Locs : Settled(locs) =>
          \A c \in Blobs : locs[c] # None => Reads(bucket'[locs[c].seg], locs[c].at, c)
    BY <1>1 DEF Settled
  <2> QED
    BY <1>1, <2>1, <2>2 DEF TypeOK, Named, OpenSegs
<1>2. CASE Flushed /\ open.buf # <<>>
  <2> DEFINE n == open.seq
  <2>0. n \in Segs /\ open.buf \in Seq(Blobs) /\ open.buf # None /\ bucket \in [Segs -> Seq(Blobs) \cup {None}]
    BY <1>2, NoneIsNoValue DEF Numbered, TypeOK, Segs
  <2>1. bucket' = [bucket EXCEPT ![n] = open.buf] /\ undurable' = undurable \cup {n}
    BY <1>2 DEF Flushed
  <2>2. open'.buf = <<>> /\ open' \in [seq : Segs \cup {0}, buf : Seq(Blobs), journaled : BOOLEAN]
    <3>1. open \in [seq : Segs \cup {0}, buf : Seq(Blobs), journaled : BOOLEAN]
      BY DEF TypeOK
    <3>2. open' = [open EXCEPT !.buf = <<>>, !.journaled = FALSE]
      BY <1>2 DEF Flushed
    <3>3. <<>> \in Seq(Blobs)
      OBVIOUS
    <3>4. open' = [seq |-> open.seq, buf |-> <<>>, journaled |-> FALSE]
      BY <3>1, <3>2
    <3> QED
      BY <3>1, <3>3, <3>4
  <2>3. bucket' \in [Segs -> Seq(Blobs) \cup {None}] /\ undurable' \subseteq Segs
    BY <2>0, <2>1 DEF TypeOK
  <2>4. \A m \in Segs : bucket'[m] = IF m = n THEN open.buf ELSE bucket[m]
    BY <2>0, <2>1
  <2>5. \A c \in Blobs : loc[c] # None => Reads(bucket'[loc[c].seg], loc[c].at, c)
    <3> SUFFICES ASSUME NEW c \in Blobs, loc[c] # None PROVE Reads(bucket'[loc[c].seg], loc[c].at, c)
      OBVIOUS
    <3>1. Found(loc[c], c) /\ loc[c].seg \in Segs
      BY DEF Backed, TypeOK, Locs
    <3>2. CASE loc[c].seg = n
      BY <1>2, <2>0, <2>4, <3>1, <3>2 DEF Found, InOpen, Bytes, Reads
    <3>3. CASE loc[c].seg # n
      BY <2>4, <3>1, <3>3 DEF Found, InOpen, Bytes, Reads
    <3> QED
      BY <3>2, <3>3
  <2>6. \A locs \in Locs : Settled(locs) =>
          \A c \in Blobs : locs[c] # None => Reads(bucket'[locs[c].seg], locs[c].at, c)
    <3> SUFFICES ASSUME NEW locs \in Locs, Settled(locs), NEW c \in Blobs, locs[c] # None
                 PROVE  Reads(bucket'[locs[c].seg], locs[c].at, c)
      OBVIOUS
    <3>1. locs[c].seg \in Segs /\ locs[c].seg # n /\ Reads(bucket[locs[c].seg], locs[c].at, c)
      BY <1>2 DEF Settled, InOpen, Locs
    <3> QED
      BY <2>4, <3>1
  <2>7. undurable' \subseteq journal
    BY <1>2, <2>1 DEF Named, OpenSegs
  <2>8. \A m \in Segs : bucket'[m] # None => m \in undurable' \cup known \cup excused
    BY <1>2, <2>1, <2>4 DEF Named, OpenSegs
  <2> QED
    BY <2>2, <2>3, <2>5, <2>6, <2>7, <2>8
<1> QED
  BY <1>1, <1>2

LEMMA PutStep ==
  ASSUME Inv, NEW b \in Blobs, SpillPut(b)
  PROVE  Inv'
<1> USE DEF Inv
<1>0. /\ b \in Coros /\ b # Ck /\ op \in [Coros -> Places] /\ op[b] = "put" /\ Head(gate) = b /\ op[b] \in InGate
      /\ open.buf # <<>>
  BY SpillStoreAssumption DEF Coros, TypeOK, Places, SpillPut, Runs, InGate, Backed, InOpen
<1>1. /\ Flushed /\ Leave(b, "kept") /\ op' = [op EXCEPT ![b] = "kept"]
      /\ UNCHANGED <<journal, next, live, dead, loc, ck, excused, used, table, known>>
  BY DEF SpillPut, external, Leave
<1>2. Gate' /\ gate' \in Seq(Coros)
  BY <1>0, <1>1, LeaveGate DEF InGate
<1>3. /\ op'[Ck] = op[Ck] /\ (Snapped' <=> Snapped) /\ op' \in [Coros -> Places] /\ op'[b] = "kept"
      /\ \A c \in Blobs : c # b => op'[c] = op[c] /\ op[c] \notin {"journal", "put"}
  <2>1. \A c \in Blobs : c # b => op[c] \notin {"journal", "put"}
    BY <1>0, InGateHolds, AtHead DEF Coros, Inside
  <2>2. Ck \in Coros /\ Blobs \subseteq Coros
    BY DEF Coros
  <2> QED
    BY <1>0, <1>1, <2>1, <2>2 DEF Snapped, Places
<1>4. op[Ck] \notin {"remove", "shrink"}
  BY <1>0, InGateHolds, AtHead DEF Coros, Inside
<1>5. /\ open'.buf = <<>> /\ open' \in [seq : Segs \cup {0}, buf : Seq(Blobs), journaled : BOOLEAN]
      /\ bucket' \in [Segs -> Seq(Blobs) \cup {None}] /\ undurable' \subseteq Segs
      /\ \A c \in Blobs : loc[c] # None => Reads(bucket'[loc[c].seg], loc[c].at, c)
      /\ \A locs \in Locs : Settled(locs) =>
           \A c \in Blobs : locs[c] # None => Reads(bucket'[locs[c].seg], locs[c].at, c)
      /\ undurable' \subseteq journal
      /\ \A m \in Segs : bucket'[m] # None => m \in undurable' \cup known \cup excused
  BY <1>0, <1>1, Stored
<1>6. \A m : /\ RefersTo(loc, m)' <=> RefersTo(loc, m)
             /\ RefersTo(table, m)' <=> RefersTo(table, m)
             /\ RefersTo(ck.snap, m)' <=> RefersTo(ck.snap, m)
  BY <1>1 DEF RefersTo
<1>7. Numbered'
  BY <1>1, <1>3, <1>5, <1>6 DEF Numbered
<1>8. Backed'
  <2>1. \A c \in Blobs : loc'[c] # None <=> op'[c] \in {"kept", "put"}
    BY <1>0, <1>1, <1>3 DEF Backed
  <2>2. \A c \in Blobs : (loc'[c] # None => Found(loc[c], c)') /\ op'[c] # "put"
    BY <1>1, <1>3, <1>5 DEF Found, InOpen
  <2>3. Settled(table)' /\ (Snapped' => Settled(ck.snap)')
    <3>1. table \in Locs /\ ck.snap \in Locs
      BY DEF TypeOK
    <3> QED
      BY <1>1, <1>3, <1>5, <3>1 DEF Settled, InOpen, Backed
  <2>4. \A m \in Segs : Cardinality(Users(loc, m)') <= live'[m]
    BY <1>1 DEF Users, Backed
  <2>5. \A m \in dead' : ~RefersTo(loc, m)' /\ (QuietCommit /\ Snapped' => ~RefersTo(ck.snap, m)') /\ (open'.buf # <<>> => open'.seq # m)
    BY <1>1, <1>3, <1>5, <1>6 DEF Backed
  <2>6. (op'[Ck] \in {"sweep", "remove"} => table' = ck'.snap) /\ (op'[Ck] = "remove" => ck'.left \subseteq dead')
    BY <1>1, <1>3 DEF Backed
  <2> QED
    BY <2>1, <2>2, <2>3, <2>4, <2>5, <2>6 DEF Backed
<1>9. Named'
  BY <1>1, <1>3, <1>4, <1>5 DEF Named, OpenSegs, SegsOf
<1>10. TypeOK'
  BY <1>1, <1>2, <1>3, <1>5 DEF TypeOK, Coros, Places, Locs
<1> QED
  BY <1>2, <1>7, <1>8, <1>9, <1>10

LEMMA FlushStep ==
  ASSUME Inv, Flush
  PROVE  Inv'
<1> USE DEF Inv
<1>0. /\ Ck \in Coros /\ Ck \notin Blobs /\ op \in [Coros -> Places] /\ op[Ck] = "flush" /\ Head(gate) = Ck /\ op[Ck] \in InGate
  BY SpillStoreAssumption DEF Coros, TypeOK, Places, Flush, Runs, InGate
<1>1. /\ \/ Flushed /\ open.buf # <<>>
         \/ open.buf = <<>> /\ UNCHANGED <<bucket, undurable, open>>
      /\ Leave(Ck, "commit") /\ op' = [op EXCEPT ![Ck] = "commit"]
      /\ ck' = Snapshot /\ UNCHANGED <<journal, next, live, dead, loc, excused, used, table, known>>
  BY DEF Flush, external, Leave
<1>2. Gate' /\ gate' \in Seq(Coros)
  BY <1>0, <1>1, LeaveGate DEF InGate
<1>3. /\ op'[Ck] = "commit" /\ op' \in [Coros -> Places]
      /\ \A c \in Blobs : op'[c] = op[c] /\ op[c] \notin {"journal", "put"}
  <2>1. \A c \in Blobs : op[c] \notin {"journal", "put"}
    BY <1>0, InGateHolds, AtHead DEF Coros, Inside
  <2>2. Blobs \subseteq Coros
    BY DEF Coros
  <2> QED
    BY <1>0, <1>1, <2>1, <2>2 DEF Places
<1>4. ck'.snap = loc /\ ck'.left = {}
  <2>1. \A c \in Blobs : (IF op[c] = "kept" THEN loc[c] ELSE None) = loc[c]
    BY <1>3 DEF Backed
  <2>2. loc = [c \in Blobs |-> loc[c]]
    BY DEF TypeOK, Locs
  <2>3. ck'.snap = [c \in Blobs |-> IF op[c] = "kept" THEN loc[c] ELSE None] /\ ck'.left = {}
    BY <1>1 DEF Snapshot, NoCk
  <2> QED
    BY <2>1, <2>2, <2>3
<1>5. /\ open'.buf = <<>> /\ open' \in [seq : Segs \cup {0}, buf : Seq(Blobs), journaled : BOOLEAN]
      /\ bucket' \in [Segs -> Seq(Blobs) \cup {None}] /\ undurable' \subseteq Segs
      /\ \A c \in Blobs : loc[c] # None => Reads(bucket'[loc[c].seg], loc[c].at, c)
      /\ \A locs \in Locs : Settled(locs) =>
           \A c \in Blobs : locs[c] # None => Reads(bucket'[locs[c].seg], locs[c].at, c)
      /\ undurable' \subseteq journal
      /\ \A m \in Segs : bucket'[m] # None => m \in undurable' \cup known \cup excused
  BY <1>1, Stored
<1>6. \A m : /\ RefersTo(loc, m)' <=> RefersTo(loc, m)
             /\ RefersTo(table, m)' <=> RefersTo(table, m)
             /\ RefersTo(ck.snap, m)' <=> RefersTo(loc, m)
  BY <1>1, <1>4 DEF RefersTo
<1>7. Numbered'
  BY <1>1, <1>3, <1>5, <1>6 DEF Numbered
<1>8. Backed'
  <2>1. \A c \in Blobs : loc'[c] # None <=> op'[c] \in {"kept", "put"}
    BY <1>1, <1>3 DEF Backed
  <2>2. \A c \in Blobs : (loc'[c] # None => Found(loc[c], c)') /\ op'[c] # "put"
    BY <1>1, <1>3, <1>5 DEF Found, InOpen
  <2>3. Settled(table)'
    <3>1. table \in Locs /\ Settled(table)
      BY DEF TypeOK, Backed
    <3> QED
      BY <1>1, <1>5, <3>1 DEF Settled, InOpen
  <2>4. Settled(ck.snap)'
    BY <1>4, <1>5 DEF Settled, InOpen
  <2>5. \A m \in Segs : Cardinality(Users(loc, m)') <= live'[m]
    BY <1>1 DEF Users, Backed
  <2>6. \A m \in dead' : ~RefersTo(loc, m)' /\ ~RefersTo(ck.snap, m)'
    BY <1>1, <1>6 DEF Backed
  <2> QED
    BY <1>3, <1>5, <2>1, <2>2, <2>3, <2>4, <2>5, <2>6 DEF Backed
<1>9. Named'
  BY <1>1, <1>3, <1>5 DEF Named, OpenSegs, SegsOf
<1>10. TypeOK'
  <2>1. ck' \in [snap : Locs, left : SUBSET Segs]
    <3>1. ck' = [snap |-> ck'.snap, left |-> {}]
      BY <1>1, <1>4 DEF Snapshot, NoCk
    <3> QED
      BY <1>4, <3>1 DEF TypeOK
  <2> QED
    BY <1>1, <1>2, <1>3, <1>5, <2>1 DEF TypeOK, Coros, Places, Locs
<1> QED
  BY <1>2, <1>7, <1>8, <1>9, <1>10

LEMMA CommitStep ==
  ASSUME Inv, Commit
  PROVE  Inv'
<1> USE DEF Inv
<1>0. Ck \in Coros /\ Ck \notin Blobs /\ op \in [Coros -> Places] /\ op[Ck] = "commit" /\ Snapped
  BY SpillStoreAssumption DEF Coros, TypeOK, Places, Commit, Snapped
<1>1. /\ table' = ck.snap /\ known' = known \cup SegsOf(ck.snap) /\ Enter(Ck, "sweep") /\ op' = [op EXCEPT ![Ck] = "sweep"]
      /\ UNCHANGED <<bucket, journal, open, next, undurable, live, dead, loc, ck, excused, used>>
  BY DEF Commit, Enter
<1>2. Gate' /\ gate' \in Seq(Coros)
  BY <1>0, <1>1, EnterGate DEF InGate, Inside
<1>3. op'[Ck] = "sweep" /\ op' \in [Coros -> Places] /\ Snapped' /\ \A c \in Blobs : op'[c] = op[c]
  BY <1>0, <1>1 DEF Coros, Places, Snapped
<1>4. \A m : /\ RefersTo(loc, m)' <=> RefersTo(loc, m)
             /\ RefersTo(table, m)' <=> RefersTo(ck.snap, m)
             /\ RefersTo(ck.snap, m)' <=> RefersTo(ck.snap, m)
  BY <1>1 DEF RefersTo
<1>5. Numbered'
  <2>1. \A c \in Blobs : op'[c] = "journal" =>
          /\ open'.buf = <<>> /\ open'.seq \in 1 .. (next' - 1)
          /\ ~RefersTo(loc, open.seq)' /\ ~RefersTo(table, open.seq)' /\ open'.seq \notin dead'
          /\ Snapped' => ~RefersTo(ck.snap, open.seq)'
    BY <1>0, <1>1, <1>3 DEF Numbered, RefersTo
  <2> QED
    BY <1>0, <1>1, <1>3, <1>4, <2>1 DEF Numbered
<1>6. Backed'
  <2>1. \A c \in Blobs : loc'[c] # None <=> op'[c] \in {"kept", "put"}
    BY <1>1, <1>3 DEF Backed
  <2>2. \A c \in Blobs : (loc'[c] # None => Found(loc[c], c)') /\ (op'[c] = "put" => InOpen(loc[c])')
    BY <1>1, <1>3 DEF Backed, Found, InOpen
  <2>3. Settled(table)' /\ Settled(ck.snap)'
    BY <1>0, <1>1 DEF Backed, Settled, InOpen
  <2>4. \A m \in Segs : Cardinality(Users(loc, m)') <= live'[m]
    BY <1>1 DEF Users, Backed
  <2>5. \A m \in dead' : ~RefersTo(loc, m)' /\ (QuietCommit => ~RefersTo(ck.snap, m)') /\ (open'.buf # <<>> => open'.seq # m)
    BY <1>0, <1>1, <1>4 DEF Backed
  <2> QED
    BY <1>1, <1>3, <2>1, <2>2, <2>3, <2>4, <2>5 DEF Backed
<1>7. Named'
  BY <1>1, <1>3 DEF Named, OpenSegs, SegsOf
<1>8. TypeOK'
  <2>1. table' \in Locs /\ known' \subseteq Segs
    BY <1>1 DEF TypeOK, SegsOf, Locs
  <2> QED
    BY <1>1, <1>2, <1>3, <2>1 DEF TypeOK, Coros, Places
<1> QED
  BY <1>2, <1>5, <1>6, <1>7, <1>8

-----------------------------------------------------------------------------
(* A locator dropped. *)

LEMMA Dropped ==
  ASSUME Inv, NEW b \in Blobs, NEW n, loc[b] # None, loc[b].seg = n, loc' = [loc EXCEPT ![b] = None]
  PROVE  /\ loc' \in Locs /\ loc'[b] = None /\ (\A c \in Blobs : c # b => loc'[c] = loc[c])
         /\ n \in Segs /\ RefersTo(loc, n)
         /\ \A m : RefersTo(loc, m)' => RefersTo(loc, m)
         /\ \A m \in Segs : m # n => Cardinality(Users(loc, m)') <= live[m]
         /\ live[n] \in Nat \ {0} /\ Cardinality(Users(loc, n)') <= live[n] - 1
         /\ live[n] = 1 => ~RefersTo(loc, n)'
<1> USE DEF Inv
<1> DEFINE U == Users(loc, n)
           V == Users(loc', n)
<1>1. /\ loc' \in Locs /\ loc'[b] = None /\ (\A c \in Blobs : c # b => loc'[c] = loc[c])
      /\ n \in Segs /\ RefersTo(loc, n)
  BY DEF TypeOK, Locs, RefersTo
<1>2. \A m : RefersTo(loc, m)' => RefersTo(loc, m)
  BY <1>1 DEF RefersTo
<1>3. \A m \in Segs : m # n => Cardinality(Users(loc, m)') <= live[m]
  <2> SUFFICES ASSUME NEW m \in Segs, m # n PROVE Cardinality(Users(loc, m)') <= live[m]
    OBVIOUS
  <2>1. Users(loc, m)' = Users(loc, m)
    BY <1>1 DEF Users
  <2> QED
    BY <2>1 DEF Backed
<1>4. V = U \ {b} /\ b \in U
  BY <1>1 DEF Users
<1>5. IsFiniteSet(U) /\ Cardinality(U) \in Nat /\ IsFiniteSet(V) /\ Cardinality(V) \in Nat
  <2>1. loc \in Locs
    BY DEF TypeOK
  <2> QED
    BY <1>1, <2>1, Counted
<1>6. Cardinality(V) = Cardinality(U) - 1
  <2>1. \A S : IsFiniteSet(S) /\ b \in S => Cardinality(S \ {b}) = Cardinality(S) - 1
    BY FS_RemoveElement
  <2> HIDE DEF U, V
  <2> QED
    BY <1>4, <1>5, <2>1
<1>7. Cardinality(U) <= live[n] /\ live[n] \in Nat
  BY <1>1 DEF Backed, TypeOK
<1>8. live[n] \in Nat \ {0} /\ Cardinality(V) <= live[n] - 1 /\ (live[n] = 1 => Cardinality(V) = 0)
  <2>1. \A u, v, k \in Nat : v = u - 1 /\ u <= k => k \in Nat \ {0} /\ v <= k - 1 /\ (k = 1 => v = 0)
    OBVIOUS
  <2> HIDE DEF U, V
  <2> QED
    BY <1>5, <1>6, <1>7, <2>1
<1>9. live[n] = 1 => ~RefersTo(loc, n)'
  <2>1. Cardinality(V) = 0 => V = {}
    BY <1>5, FS_EmptySet
  <2>2. V = {} => ~RefersTo(loc', n)
    BY DEF Users, RefersTo
  <2> QED
    BY <1>8, <2>1, <2>2 DEF RefersTo
<1> QED
  BY <1>1, <1>2, <1>3, <1>8, <1>9 DEF Users

LEMMA PutFailsStep ==
  ASSUME Inv, NEW b \in Blobs, SpillPutFails(b)
  PROVE  Inv'
<1> USE DEF Inv
<1> PICK n : n = loc[b].seg
  OBVIOUS
<1>0. /\ b \in Coros /\ b # Ck /\ op \in [Coros -> Places] /\ op[b] = "put" /\ Head(gate) = b /\ op[b] \in InGate
      /\ loc[b] # None /\ InOpen(loc[b])
  BY SpillStoreAssumption DEF Coros, TypeOK, Places, SpillPutFails, Runs, InGate, Backed
<1>1. /\ loc' = [loc EXCEPT ![b] = None] /\ Leave(b, "off") /\ op' = [op EXCEPT ![b] = "off"] /\ Fails
      /\ excused' = excused \cup {open.seq}
      /\ UNCHANGED <<bucket, journal, open, next, undurable, live, dead, ck, table, known>>
  BY DEF SpillPutFails, external, Leave
<1>2. Gate' /\ gate' \in Seq(Coros)
  BY <1>0, <1>1, LeaveGate DEF InGate
<1>3. /\ op'[Ck] = op[Ck] /\ (Snapped' <=> Snapped) /\ op' \in [Coros -> Places] /\ op'[b] = "off"
      /\ \A c \in Blobs : c # b => op'[c] = op[c] /\ op[c] \notin {"journal", "put"}
  <2>1. \A c \in Blobs : c # b => op[c] \notin {"journal", "put"}
    BY <1>0, InGateHolds, AtHead DEF Coros, Inside
  <2>2. Ck \in Coros /\ Blobs \subseteq Coros
    BY DEF Coros
  <2> QED
    BY <1>0, <1>1, <2>1, <2>2 DEF Snapped, Places
<1>4. /\ loc' \in Locs /\ loc'[b] = None /\ (\A c \in Blobs : c # b => loc'[c] = loc[c])
      /\ n \in Segs
      /\ \A m : RefersTo(loc, m)' => RefersTo(loc, m)
      /\ \A m \in Segs : m # n => Cardinality(Users(loc, m)') <= live[m]
      /\ live[n] \in Nat \ {0} /\ Cardinality(Users(loc, n)') <= live[n] - 1
  BY <1>0, <1>1, Dropped
<1>5. \A m : /\ RefersTo(table, m)' <=> RefersTo(table, m)
             /\ RefersTo(ck.snap, m)' <=> RefersTo(ck.snap, m)
  BY <1>1 DEF RefersTo
<1>6. Numbered'
  BY <1>1, <1>3, <1>4, <1>5 DEF Numbered
<1>7. Backed'
  <2>1. \A c \in Blobs : loc'[c] # None <=> op'[c] \in {"kept", "put"}
    BY <1>3, <1>4 DEF Backed
  <2>2. \A c \in Blobs : (loc'[c] # None => Found(loc[c], c)') /\ op'[c] # "put"
    BY <1>1, <1>3, <1>4 DEF Backed, Found, InOpen, Bytes, Reads
  <2>3. Settled(table)' /\ (Snapped' => Settled(ck.snap)')
    BY <1>1, <1>3 DEF Settled, InOpen, Bytes, Reads, Backed
  <2>4. \A m \in Segs : Cardinality(Users(loc, m)') <= live'[m]
    <3> TAKE m \in Segs
    <3>1. CASE m # n
      BY <1>1, <1>4, <3>1
    <3>2. CASE m = n
      <4>1. \A v : IsFiniteSet(Users(loc', v)) /\ Cardinality(Users(loc', v)) \in Nat
        BY <1>4, Counted
      <4>2. \A u, k \in Nat : u <= k - 1 => u <= k
        OBVIOUS
      <4>3. Users(loc, m)' = Users(loc', m)
        BY <1>1, <1>4, <3>2 DEF Users
      <4> QED
        BY <1>1, <1>4, <3>2, <4>1, <4>2, <4>3
    <3> QED
      BY <3>1, <3>2
  <2>5. \A m \in dead' : ~RefersTo(loc, m)' /\ (QuietCommit /\ Snapped' => ~RefersTo(ck.snap, m)') /\ (open'.buf # <<>> => open'.seq # m)
    BY <1>1, <1>3, <1>4, <1>5 DEF Backed
  <2>6. (op'[Ck] \in {"sweep", "remove"} => table' = ck'.snap) /\ (op'[Ck] = "remove" => ck'.left \subseteq dead')
    BY <1>1, <1>3 DEF Backed
  <2> QED
    BY <2>1, <2>2, <2>3, <2>4, <2>5, <2>6 DEF Backed
<1>8. Named'
  BY <1>1, <1>3 DEF Named, OpenSegs, SegsOf
<1>9. TypeOK'
  <2>1. used' \in Counters
    BY <1>1, Counting DEF TypeOK, Counters
  <2>2. open.seq \in Segs
    BY <1>0 DEF InOpen, TypeOK, Numbered, Segs
  <2> QED
    BY <1>1, <1>2, <1>3, <1>4, <2>1, <2>2 DEF TypeOK, Coros, Places, Counters
<1> QED
  BY <1>2, <1>6, <1>7, <1>8, <1>9

LEMMA DerefStep ==
  ASSUME Inv, NEW b \in Blobs, Deref(b)
  PROVE  Inv'
<1> USE DEF Inv
<1> PICK n : n = loc[b].seg
  OBVIOUS
<1> DEFINE inUse == n = open.seq /\ open.buf # <<>>
<1>0. b \in Coros /\ b # Ck /\ op \in [Coros -> Places] /\ op[b] = "kept" /\ loc[b] # None
  BY SpillStoreAssumption DEF Coros, TypeOK, Places, Deref, Backed
<1>1. /\ live' = [live EXCEPT ![n] = live[n] - 1]
      /\ dead' = IF live[n] = 1 /\ ~inUse THEN dead \cup {n} ELSE dead
      /\ excused' \in {excused, excused \cup {n}}
      /\ loc' = [loc EXCEPT ![b] = None] /\ op' = [op EXCEPT ![b] = "gone"] /\ gate' = gate
      /\ UNCHANGED <<bucket, journal, open, next, undurable, ck, used, table, known>>
  BY DEF Deref, external
<1>2. Gate' /\ gate' \in Seq(Coros)
  BY <1>0, <1>1, StayGate DEF InGate, Inside
<1>3. /\ op'[Ck] = op[Ck] /\ (Snapped' <=> Snapped) /\ (QuietCommit => ~Snapped) /\ op' \in [Coros -> Places] /\ op'[b] = "gone"
      /\ \A c \in Blobs : c # b => op'[c] = op[c]
  <2>1. QuietCommit => op[Ck] \notin {"commit", "sweep", "remove"}
    BY DEF Deref, Committing
  <2>2. Ck \in Coros /\ Blobs \subseteq Coros
    BY DEF Coros
  <2> QED
    BY <1>0, <1>1, <2>1, <2>2 DEF Snapped, Places
<1>4. /\ loc' \in Locs /\ loc'[b] = None /\ (\A c \in Blobs : c # b => loc'[c] = loc[c])
      /\ n \in Segs /\ RefersTo(loc, n)
      /\ \A m : RefersTo(loc, m)' => RefersTo(loc, m)
      /\ \A m \in Segs : m # n => Cardinality(Users(loc, m)') <= live[m]
      /\ live[n] \in Nat \ {0} /\ Cardinality(Users(loc, n)') <= live[n] - 1
      /\ live[n] = 1 => ~RefersTo(loc, n)'
  BY <1>0, <1>1, Dropped
<1>5. \A m : /\ RefersTo(table, m)' <=> RefersTo(table, m)
             /\ RefersTo(ck.snap, m)' <=> RefersTo(ck.snap, m)
  BY <1>1 DEF RefersTo
<1>6. Numbered'
  <2>1. \A c \in Blobs : op'[c] = "journal" =>
          /\ open'.buf = <<>> /\ open'.seq \in 1 .. (next' - 1)
          /\ ~RefersTo(loc, open.seq)' /\ ~RefersTo(table, open.seq)' /\ open'.seq \notin dead'
          /\ Snapped' => ~RefersTo(ck.snap, open.seq)'
    <3> SUFFICES ASSUME NEW c \in Blobs, op'[c] = "journal"
                 PROVE  /\ open.buf = <<>> /\ open.seq \in 1 .. (next - 1)
                        /\ ~RefersTo(loc, open.seq)' /\ ~RefersTo(table, open.seq)' /\ open.seq \notin dead'
                        /\ Snapped' => ~RefersTo(ck.snap, open.seq)'
      BY <1>1
    <3>1. c # b /\ op[c] = "journal"
      BY <1>3
    <3>2. open.buf = <<>> /\ open.seq \in 1 .. (next - 1) /\ ~RefersTo(loc, open.seq) /\ ~RefersTo(table, open.seq) /\ open.seq \notin dead
          /\ (Snapped => ~RefersTo(ck.snap, open.seq))
      BY <3>1 DEF Numbered
    <3>3. ~RefersTo(loc, open.seq)' /\ ~RefersTo(table, open.seq)' /\ (Snapped' => ~RefersTo(ck.snap, open.seq)')
      BY <1>1, <1>3, <1>4, <1>5, <3>2 DEF RefersTo
    <3> QED
      BY <1>1, <1>4, <3>2, <3>3
  <2>2. \A m \in Segs : RefersTo(loc, m)' \/ RefersTo(table, m)' \/ m \in dead' \/ (Snapped' /\ RefersTo(ck.snap, m)') => m < next'
    BY <1>1, <1>3, <1>4, <1>5 DEF Numbered
  <2>3. open'.buf # <<>> => open'.seq \in 1 .. (next' - 1)
    BY <1>1 DEF Numbered
  <2> QED
    BY <2>1, <2>2, <2>3 DEF Numbered
<1>7. Backed'
  <2>1. \A c \in Blobs : loc'[c] # None <=> op'[c] \in {"kept", "put"}
    BY <1>3, <1>4 DEF Backed
  <2>2. \A c \in Blobs : (loc'[c] # None => Found(loc[c], c)') /\ (op'[c] = "put" => InOpen(loc[c])')
    BY <1>1, <1>3, <1>4 DEF Backed, Found, InOpen, Bytes, Reads
  <2>3. Settled(table)' /\ (Snapped' => Settled(ck.snap)')
    BY <1>1, <1>3 DEF Settled, InOpen, Bytes, Reads, Backed
  <2>4. \A m \in Segs : Cardinality(Users(loc, m)') <= live'[m]
    <3> TAKE m \in Segs
    <3>1. live'[m] = IF m = n THEN live[n] - 1 ELSE live[m]
      BY <1>1, <1>4 DEF TypeOK
    <3> QED
      BY <1>4, <3>1
  <2>5. \A m \in dead' : ~RefersTo(loc, m)' /\ (open'.buf # <<>> => open'.seq # m)
    <3> TAKE m \in dead'
    <3>1. CASE m \in dead
      BY <1>1, <1>4, <3>1 DEF Backed
    <3>2. CASE m \notin dead
      BY <1>1, <1>4, <3>2
    <3> QED
      BY <3>1, <3>2
  <2>6. (op'[Ck] \in {"sweep", "remove"} => table' = ck'.snap) /\ (op'[Ck] = "remove" => ck'.left \subseteq dead')
    BY <1>1, <1>3 DEF Backed
  <2>7. QuietCommit => ~Snapped'
    BY <1>3
  <2> QED
    BY <2>1, <2>2, <2>3, <2>4, <2>5, <2>6, <2>7 DEF Backed
<1>8. Named'
  BY <1>1, <1>3 DEF Named, OpenSegs, SegsOf
<1>9. TypeOK'
  <2>1. live' \in [Segs -> Nat]
    <3>1. live[n] - 1 \in Nat
      BY <1>4
    <3> QED
      BY <1>1, <3>1 DEF TypeOK
  <2> QED
    BY <1>1, <1>2, <1>3, <1>4, <2>1 DEF TypeOK, Coros, Places
<1> QED
  BY <1>2, <1>6, <1>7, <1>8, <1>9

-----------------------------------------------------------------------------
(* The sweep. *)

LEMMA SweepFrame ==
  ASSUME Inv, UNCHANGED <<open, next, live, loc, table>>, dead' \subseteq dead,
         \A c \in Blobs : op'[c] = op[c],
         \A m \in Segs : \/ bucket'[m] = bucket[m]
                         \/ /\ ~RefersTo(loc, m) /\ bucket'[m] = None
                            /\ QuietCommit => ~RefersTo(table, m) /\ (Snapped' => ~RefersTo(ck.snap, m)),
         Snapped' => Snapped /\ ck'.snap = ck.snap,
         op'[Ck] \in {"sweep", "remove"} => op[Ck] \in {"sweep", "remove"},
         op'[Ck] = "remove" => ck'.left \subseteq dead'
  PROVE  Numbered' /\ Backed'
<1> USE DEF Inv
<1>1. \A m : /\ RefersTo(loc, m)' <=> RefersTo(loc, m)
             /\ RefersTo(table, m)' <=> RefersTo(table, m)
             /\ Snapped' => (RefersTo(ck.snap, m)' <=> RefersTo(ck.snap, m))
  BY DEF RefersTo
<1>2. Numbered'
  <2>1. \A c \in Blobs : op'[c] = "journal" =>
          /\ open'.buf = <<>> /\ open'.seq \in 1 .. (next' - 1)
          /\ ~RefersTo(loc, open.seq)' /\ ~RefersTo(table, open.seq)' /\ open'.seq \notin dead'
          /\ Snapped' => ~RefersTo(ck.snap, open.seq)'
    BY DEF Numbered, RefersTo
  <2>2. \A m \in Segs : RefersTo(loc, m)' \/ RefersTo(table, m)' \/ m \in dead' \/ (Snapped' /\ RefersTo(ck.snap, m)') => m < next'
    BY <1>1 DEF Numbered
  <2> QED
    BY <2>1, <2>2 DEF Numbered
<1>3. Backed'
  <2>1. \A c \in Blobs : loc'[c] # None <=> op'[c] \in {"kept", "put"}
    BY DEF Backed
  <2>2. \A c \in Blobs : (loc'[c] # None => Found(loc[c], c)') /\ (op'[c] = "put" => InOpen(loc[c])')
    <3> TAKE c \in Blobs
    <3>1. loc[c] # None => loc[c].seg \in Segs /\ RefersTo(loc, loc[c].seg)
      BY DEF TypeOK, Locs, RefersTo
    <3> QED
      BY <3>1 DEF Backed, Found, InOpen
  <2>3. Settled(table)'
    <3> SUFFICES ASSUME NEW c \in Blobs, table[c] # None
                 PROVE  ~InOpen(table[c]) /\ Reads(bucket'[table[c].seg], table[c].at, c)
      BY DEF Settled, InOpen
    <3>1. table[c].seg \in Segs /\ RefersTo(table, table[c].seg)
      BY DEF TypeOK, Locs, RefersTo
    <3> QED
      BY <3>1 DEF Backed, Settled, Reads
  <2>4. Snapped' => Settled(ck.snap)'
    <3> SUFFICES ASSUME Snapped', NEW c \in Blobs, ck.snap[c] # None
                 PROVE  ~InOpen(ck.snap[c]) /\ Reads(bucket'[ck.snap[c].seg], ck.snap[c].at, c)
      BY DEF Settled, InOpen
    <3>1. ck.snap[c].seg \in Segs /\ RefersTo(ck.snap, ck.snap[c].seg)
      BY DEF TypeOK, Locs, RefersTo
    <3> QED
      BY <3>1 DEF Backed, Settled, Reads
  <2>5. \A m \in Segs : Cardinality(Users(loc, m)') <= live'[m]
    BY DEF Users, Backed
  <2>6. \A m \in dead' : ~RefersTo(loc, m)' /\ (QuietCommit /\ Snapped' => ~RefersTo(ck.snap, m)') /\ (open'.buf # <<>> => open'.seq # m)
    BY <1>1 DEF Backed
  <2>7. op'[Ck] \in {"sweep", "remove"} => table' = ck'.snap
    BY DEF Backed, Snapped
  <2> QED
    BY <2>1, <2>2, <2>3, <2>4, <2>5, <2>6, <2>7 DEF Backed
<1> QED
  BY <1>2, <1>3

LEMMA CkMoves ==
  ASSUME TypeOK, Gate, NEW pc \in {"remove", "shrink", "off"}, op' = [op EXCEPT ![Ck] = pc]
  PROVE  op'[Ck] = pc /\ (\A c \in Blobs : op'[c] = op[c]) /\ op' \in [Coros -> Places]
BY SpillStoreAssumption DEF TypeOK, Coros, Places

LEMMA SweepStartStep ==
  ASSUME Inv, SweepStart
  PROVE  Inv'
<1> USE DEF Inv
<1>0. Ck \in Coros /\ op[Ck] = "sweep" /\ Head(gate) = Ck /\ op[Ck] \in InGate /\ Snapped
  BY DEF Coros, SweepStart, Runs, InGate, Snapped
<1>1. /\ excused' = excused \cup (undurable \ known) /\ undurable' = {} /\ ck' = [ck EXCEPT !.left = dead]
      /\ op' = [op EXCEPT ![Ck] = "remove"]
      /\ UNCHANGED <<bucket, journal, open, next, live, dead, gate, loc, used, table, known>>
  BY DEF SweepStart, external
<1>2. Gate' /\ gate' \in Seq(Coros)
  BY <1>0, <1>1, StayGate DEF InGate, Inside
<1>3. op'[Ck] = "remove" /\ (\A c \in Blobs : op'[c] = op[c]) /\ op' \in [Coros -> Places]
  BY <1>1, CkMoves
<1>4. ck'.snap = ck.snap /\ ck'.left = dead /\ ck' \in [snap : Locs, left : SUBSET Segs]
  BY <1>1 DEF TypeOK
<1>5. Numbered' /\ Backed'
  BY <1>0, <1>1, <1>3, <1>4, SweepFrame
<1>6. Named'
  BY <1>1 DEF Named, OpenSegs, SegsOf
<1>7. TypeOK'
  BY <1>1, <1>2, <1>3, <1>4 DEF TypeOK, Coros, Places, Locs
<1> QED
  BY <1>2, <1>5, <1>6, <1>7

LEMMA SweepRemoveStep ==
  ASSUME Inv, NEW n \in Segs, SweepRemove(n)
  PROVE  Inv'
<1> USE DEF Inv
<1>0. op[Ck] = "remove" /\ n \in ck.left /\ n \in dead /\ Snapped
  BY DEF SweepRemove, Backed, Snapped
<1>1. /\ ck' = [ck EXCEPT !.left = ck.left \ {n}]
      /\ \/ bucket' = [bucket EXCEPT ![n] = None] /\ UNCHANGED <<excused, used>>
         \/ Fails /\ excused' = excused \cup {n} /\ UNCHANGED bucket
      /\ UNCHANGED <<journal, open, next, undurable, live, dead, gate, op, loc, table, known>>
  BY DEF SweepRemove, external
<1>2. Gate' /\ op' \in [Coros -> Places]
  BY <1>1 DEF Gate, TypeOK, Coros, Places
<1>3. ck'.snap = ck.snap /\ ck'.left = ck.left \ {n} /\ ck' \in [snap : Locs, left : SUBSET Segs]
  BY <1>1 DEF TypeOK
<1>4. \A m \in Segs : \/ bucket'[m] = bucket[m]
                      \/ /\ ~RefersTo(loc, m) /\ (QuietCommit => ~RefersTo(table, m) /\ ~RefersTo(ck.snap, m))
                         /\ bucket'[m] = None
  BY <1>0, <1>1 DEF Backed, TypeOK
<1>5. Numbered' /\ Backed'
  <2>1. Snapped' <=> Snapped
    BY <1>1 DEF Snapped
  <2>2. ck'.left \subseteq dead'
    BY <1>0, <1>1, <1>3 DEF Backed
  <2> QED
    BY <1>1, <1>3, <1>4, <2>1, <2>2, SweepFrame
<1>6. Named'
  BY <1>1, <1>4 DEF Named, OpenSegs, SegsOf
<1>7. TypeOK'
  <2>1. used' \in Counters
    BY <1>1, Counting DEF TypeOK, Counters
  <2>2. bucket' \in [Segs -> Seq(Blobs) \cup {None}]
    BY <1>1 DEF TypeOK
  <2> QED
    BY <1>1, <1>2, <1>3, <2>1, <2>2 DEF TypeOK, Coros, Counters
<1> QED
  BY <1>2, <1>5, <1>6, <1>7

LEMMA SweepClearStep ==
  ASSUME Inv, SweepClear
  PROVE  Inv'
<1> USE DEF Inv
<1>0. Ck \in Coros /\ op[Ck] = "remove" /\ op[Ck] \in InGate /\ op[Ck] \in Inside
  BY DEF Coros, SweepClear, InGate, Inside
<1>1. /\ dead' = {} /\ op' = [op EXCEPT ![Ck] = "shrink"]
      /\ UNCHANGED <<bucket, journal, open, next, undurable, live, gate, loc, ck, excused, used, table, known>>
  BY DEF SweepClear, external
<1>2. Gate' /\ gate' \in Seq(Coros)
  <2>1. Head(gate) = Ck
    BY <1>0, InGateHolds DEF Gate
  <2> QED
    BY <1>0, <1>1, <2>1, StayGate DEF InGate, Inside
<1>3. op'[Ck] = "shrink" /\ (\A c \in Blobs : op'[c] = op[c]) /\ op' \in [Coros -> Places]
  BY <1>1, CkMoves
<1>5. Numbered' /\ Backed'
  <2>1. ~Snapped'
    BY <1>3 DEF Snapped
  <2> QED
    BY <1>1, <1>3, <2>1, SweepFrame
<1>6. Named'
  BY <1>0, <1>1 DEF Named, OpenSegs, SegsOf
<1>7. TypeOK'
  BY <1>1, <1>2, <1>3 DEF TypeOK, Coros, Places, Locs
<1> QED
  BY <1>2, <1>5, <1>6, <1>7

LEMMA SweepShrinkStep ==
  ASSUME Inv, SweepShrink
  PROVE  Inv'
<1> USE DEF Inv
<1>0. Ck \in Coros /\ op[Ck] = "shrink" /\ op[Ck] \in InGate /\ op[Ck] \in Inside
  BY DEF Coros, SweepShrink, InGate, Inside
<1>1. /\ \/ journal' = (IF open.buf = <<>> THEN {} ELSE Journalled) /\ UNCHANGED used
         \/ Fails /\ UNCHANGED journal
      /\ Leave(Ck, "off") /\ op' = [op EXCEPT ![Ck] = "off"] /\ ck' = NoCk
      /\ UNCHANGED <<bucket, open, next, undurable, live, dead, loc, excused, table, known>>
  BY DEF SweepShrink, external, Leave
<1>2. Gate' /\ gate' \in Seq(Coros)
  <2>1. Head(gate) = Ck
    BY <1>0, InGateHolds DEF Gate
  <2> QED
    BY <1>0, <1>1, <2>1, LeaveGate DEF InGate
<1>3. op'[Ck] = "off" /\ (\A c \in Blobs : op'[c] = op[c]) /\ op' \in [Coros -> Places]
  BY <1>1, CkMoves
<1>5. Numbered' /\ Backed'
  <2>1. ~Snapped'
    BY <1>3 DEF Snapped
  <2> QED
    BY <1>1, <1>3, <2>1, SweepFrame
<1>6. Named' /\ journal' \subseteq Segs
  <2>1. undurable = {} /\ journal \subseteq Segs
    BY <1>0 DEF Named, TypeOK
  <2>2. OpenSegs \subseteq journal' /\ journal' \subseteq Segs
    <3>1. open.buf # <<>> => open.seq \in Segs
      BY DEF Numbered, TypeOK, Segs
    <3> QED
      BY <1>1, <2>1, <3>1 DEF Named, OpenSegs, Journalled
  <2> QED
    BY <1>1, <1>3, <2>1, <2>2 DEF Named, OpenSegs, SegsOf
<1>7. TypeOK'
  <2>1. used' \in Counters
    BY <1>1, Counting DEF TypeOK, Counters
  <2>2. NoCk \in [snap : Locs, left : SUBSET Segs]
    BY DEF NoCk, NoLocs, Locs
  <2> QED
    BY <1>1, <1>2, <1>3, <1>6, <2>1, <2>2 DEF TypeOK, Coros, Places, Locs, Counters
<1> QED
  BY <1>2, <1>5, <1>6, <1>7

-----------------------------------------------------------------------------
(* The crash and the reopen. *)

Less == OpToRel(<, Nat)

LEMMA LessIsWellFounded == IsWellFoundedOn(Less, Nat)
BY NatLessThanWellFounded DEF Less

LEMMA LessIsLess == \A x, y \in Nat : x < y => <<x, y>> \in Less
BY DEF OpToRel, Less

LEMMA Maximum ==
  ASSUME NEW n \in Nat, NEW S \in SUBSET (1 .. n), S # {}
  PROVE  \E k \in S : \A m \in S : m <= k
<1> DEFINE U == {k \in Nat : \A m \in S : m <= k}
<1>1. n \in U /\ U \subseteq Nat
  OBVIOUS
<1>2. PICK k \in U : \A i \in U : ~(<<i, k>> \in Less)
  <2>1. \E k \in U : \A i \in U : ~(<<i, k>> \in Less)
    <3> HIDE DEF U
    <3> QED
      BY <1>1, LessIsWellFounded, WFMin
  <2> QED
    BY <2>1
<1>3. \A i \in U : ~(i < k)
  BY <1>1, <1>2, LessIsLess
<1>4. k \in S
  <2> SUFFICES ASSUME k \notin S PROVE FALSE
    OBVIOUS
  <2>1. PICK m : m \in S
    OBVIOUS
  <2>2. k \in Nat \ {0}
    <3>1. m \in Nat \ {0} /\ m <= k /\ k \in Nat
      BY <2>1
    <3> QED
      BY <3>1
  <2>3. \A i \in S : i <= k - 1
    <3> TAKE i \in S
    <3>1. i \in Nat /\ i <= k /\ i # k
      OBVIOUS
    <3> QED
      BY <2>2, <3>1
  <2>4. k - 1 \in U /\ k - 1 < k
    BY <2>2, <2>3
  <2> QED
    BY <1>3, <2>4
<1> QED
  BY <1>4

LEMMA NextSeqAbove ==
  ASSUME TypeOK, NEW j \in SUBSET Segs
  PROVE  NextSeq(j) \in 1 .. MaxSegs + 1 /\ \A m \in SegsOf(table) \cup j : m < NextSeq(j)
<1> DEFINE seen == SegsOf(table) \cup j
<1>1. seen \subseteq 1 .. MaxSegs /\ MaxSegs \in Nat
  <2>1. MaxSegs \in Nat
    BY SpillStoreAssumption
  <2>2. \A c \in Blobs : table[c] # None => table[c].seg \in Segs
    BY DEF TypeOK, Locs
  <2>3. SegsOf(table) \subseteq Segs
    BY <2>2 DEF SegsOf
  <2> QED
    BY <2>1, <2>3 DEF Segs
<1>2. NextSeq(j) = IF seen = {} THEN 1 ELSE (CHOOSE n \in seen : \A m \in seen : m <= n) + 1
  BY DEF NextSeq
<1> HIDE DEF seen
<1>3. CASE seen = {}
  BY <1>1, <1>2, <1>3 DEF seen
<1>4. CASE seen # {}
  <2>1. \E k \in seen : \A m \in seen : m <= k
    BY <1>1, <1>4, Maximum
  <2>2. PICK k \in seen : k = (CHOOSE n \in seen : \A m \in seen : m <= n) /\ \A m \in seen : m <= k
    BY <2>1
  <2>3. NextSeq(j) = k + 1
    BY <1>2, <1>4, <2>2
  <2>4. k + 1 \in 1 .. MaxSegs + 1 /\ \A m \in seen : m < k + 1
    <3>1. \A x, y \in Nat \ {0} : (x <= MaxSegs => x + 1 \in 1 .. MaxSegs + 1) /\ (x <= y => x < y + 1)
      BY <1>1
    <3>2. \A m \in seen : m \in Nat \ {0} /\ m <= MaxSegs
      BY <1>1
    <3> QED
      BY <2>2, <3>1, <3>2
  <2> QED
    BY <2>3, <2>4 DEF seen
<1> QED
  BY <1>3, <1>4

\* What may be in the bucket and in the journal when the process dies.
LEMMA AtDeath ==
  ASSUME Inv, NEW objects \in IF gate = <<>> THEN {bucket} ELSE Landed,
         NEW j \in IF gate = <<>> THEN {journal} ELSE JournalLanded
  PROVE  /\ objects \in [Segs -> Seq(Blobs) \cup {None}] /\ j \subseteq Segs
         /\ \A c \in Blobs : table[c] # None => Reads(objects[table[c].seg], table[c].at, c)
         /\ \A m \in Segs : objects[m] # None => m \in j \cup known \cup excused
<1> USE DEF Inv
<1> DEFINE h == Head(gate)
<1>0. gate # <<>> => h \in Coros
  BY DEF TypeOK, Coros
<1>1. bucket \in [Segs -> Seq(Blobs) \cup {None}] /\ journal \subseteq Segs /\ undurable \cup OpenSegs \subseteq journal
  BY DEF TypeOK, Named
<1>2. \A c \in Blobs : table[c] # None => Reads(bucket[table[c].seg], table[c].at, c) /\ table[c].seg \in Segs /\ ~InOpen(table[c])
  BY DEF Backed, Settled, TypeOK, Locs
<1>3. \A m \in Segs : bucket[m] # None => m \in undurable \cup OpenSegs \cup known \cup excused
  BY DEF Named
<1>4. open.buf # <<>> => open.seq \in Segs /\ open.buf \in Seq(Blobs) /\ open.buf # None
  BY NoneIsNoValue DEF Numbered, TypeOK, Segs
<1>5. CASE objects = bucket /\ j = journal
  BY <1>1, <1>2, <1>3, <1>5
<1>6. CASE objects = [bucket EXCEPT ![open.seq] = open.buf] /\ open.buf # <<>> /\ j = journal
  <2>1. \A m \in Segs : objects[m] = IF m = open.seq THEN open.buf ELSE bucket[m]
    BY <1>1, <1>6
  <2>2. \A c \in Blobs : table[c] # None => Reads(objects[table[c].seg], table[c].at, c)
    BY <1>2, <1>6, <2>1 DEF InOpen
  <2>3. open.seq \in journal
    BY <1>1, <1>6 DEF OpenSegs
  <2> QED
    BY <1>1, <1>3, <1>4, <1>6, <2>1, <2>2, <2>3
<1>7. CASE objects = bucket /\ gate # <<>> /\ op[h] = "journal" /\ j = Journalled
  <2>1. h \in Blobs
    BY <1>0, <1>7 DEF Gate, Coros
  <2>2. open.buf = <<>> /\ open.seq \in Segs
    BY <1>7, <2>1 DEF Numbered, TypeOK, Segs
  <2> QED
    BY <1>1, <1>2, <1>3, <1>7, <2>2 DEF Journalled, OpenSegs
<1>8. CASE objects = bucket /\ gate # <<>> /\ op[h] = "shrink" /\ j \in {journal, IF open.buf = <<>> THEN {} ELSE Journalled}
  <2>1. h = Ck
    BY <1>0, <1>8 DEF Gate, Coros
  <2>2. undurable = {}
    BY <1>8, <2>1 DEF Named
  <2> QED
    BY <1>1, <1>2, <1>3, <1>4, <1>8, <2>2 DEF Journalled, OpenSegs
<1>9. ASSUME gate # <<>>
      PROVE  /\ \/ objects = bucket
                \/ /\ objects = [bucket EXCEPT ![open.seq] = open.buf]
                   /\ op[h] = "put" \/ (op[h] = "flush" /\ open.buf # <<>>)
             /\ \/ j = journal
                \/ op[h] = "journal" /\ j = Journalled
                \/ op[h] = "shrink" /\ j \in {journal, IF open.buf = <<>> THEN {} ELSE Journalled}
  BY <1>9 DEF Landed, JournalLanded
<1>10. gate # <<>> /\ op[h] = "put" => open.buf # <<>>
  <2>1. gate # <<>> /\ op[h] = "put" => h \in Blobs
    BY <1>0 DEF Gate, Coros
  <2> QED
    BY <2>1 DEF Backed, InOpen
<1>11. gate = <<>> => objects = bucket /\ j = journal
  OBVIOUS
<1> HIDE DEF h
<1>12. CASE gate # <<>> /\ objects # bucket
  <2>1. objects = [bucket EXCEPT ![open.seq] = open.buf] /\ open.buf # <<>> /\ op[h] \in {"put", "flush"}
    <3> DEFINE put == [bucket EXCEPT ![open.seq] = open.buf]
    <3>1. objects = put /\ (op[h] = "put" \/ (op[h] = "flush" /\ open.buf # <<>>))
      BY <1>9, <1>12
    <3> HIDE DEF put
    <3>2. open.buf # <<>> /\ op[h] \in {"put", "flush"}
      BY <1>10, <1>12, <3>1
    <3> QED
      BY <3>1, <3>2 DEF put
  <2>2. j = journal
    BY <1>9, <1>12, <2>1
  <2> QED
    BY <1>6, <2>1, <2>2
<1>13. CASE gate # <<>> /\ objects = bucket
  BY <1>5, <1>7, <1>8, <1>9, <1>13
<1> QED
  BY <1>5, <1>11, <1>12, <1>13

LEMMA CrashStep ==
  ASSUME Inv, Crash
  PROVE  Inv'
<1> USE DEF Inv
<1>1. PICK objects \in IF gate = <<>> THEN {bucket} ELSE Landed, j \in IF gate = <<>> THEN {journal} ELSE JournalLanded :
        \E failed \in IF MayFail THEN SUBSET Orphans(j) ELSE {{}} :
          /\ bucket' = [n \in Segs |-> IF n \in Orphans(j) \ failed THEN None ELSE objects[n]]
          /\ excused' = excused \cup failed
          /\ next' = NextSeq(j)
  BY DEF Crash
<1>2. PICK failed \in SUBSET Orphans(j) :
          /\ bucket' = [n \in Segs |-> IF n \in Orphans(j) \ failed THEN None ELSE objects[n]]
          /\ excused' = excused \cup failed
          /\ next' = NextSeq(j)
  BY <1>1
<1>3. /\ used' = [used EXCEPT !.crashes = used.crashes + 1]
      /\ journal' = {} /\ open' = ClosedSeg /\ undurable' = {} /\ dead' = {}
      /\ live' = Lives(table) /\ loc' = table /\ ck' = NoCk /\ gate' = <<>>
      /\ op' = [p \in Blobs \cup {Ck} |-> IF p # Ck /\ table[p] # None THEN "kept" ELSE "off"]
      /\ table' = table /\ known' = known
  BY DEF Crash, external
<1>4. /\ objects \in [Segs -> Seq(Blobs) \cup {None}] /\ j \subseteq Segs
      /\ \A c \in Blobs : table[c] # None => Reads(objects[table[c].seg], table[c].at, c)
      /\ \A m \in Segs : objects[m] # None => m \in j \cup known \cup excused
  BY AtDeath
<1>5. /\ open'.buf = <<>> /\ open' \in [seq : Segs \cup {0}, buf : Seq(Blobs), journaled : BOOLEAN]
  BY <1>3 DEF ClosedSeg
<1>6. /\ op'[Ck] = "off" /\ ~Snapped' /\ op' \in [Coros -> Places]
      /\ \A c \in Blobs : op'[c] = IF table[c] # None THEN "kept" ELSE "off"
  BY <1>3, SpillStoreAssumption DEF Snapped, Coros, Places
<1>7. Gate' /\ gate' \in Seq(Coros)
  <2>1. DOMAIN gate' = {} /\ gate' \in Seq(Coros)
    BY <1>3
  <2>2. \A p \in Coros : op'[p] \notin InGate /\ op'[p] \notin Inside
    BY <1>6, SpillStoreAssumption DEF Coros, InGate, Inside
  <2> QED
    BY <1>6, <2>1, <2>2 DEF Gate
<1>8. next' \in 1 .. MaxSegs + 1 /\ \A m \in SegsOf(table) : m < next'
  BY <1>2, <1>4, NextSeqAbove
<1>9. \A m : RefersTo(table, m) => m \in SegsOf(table)
  BY DEF RefersTo, SegsOf
<1>10. Numbered'
  <2>1. \A m \in Segs : (RefersTo(loc, m)' \/ RefersTo(table, m)' => RefersTo(table, m))
    BY <1>3 DEF RefersTo
  <2>2. \A c \in Blobs : op'[c] # "journal"
    BY <1>6
  <2>3. dead' = {}
    BY <1>3
  <2> QED
    BY <1>5, <1>6, <1>8, <1>9, <2>1, <2>2, <2>3 DEF Numbered
<1>11. \A c \in Blobs : table[c] # None => Reads(bucket'[table[c].seg], table[c].at, c)
  <2> SUFFICES ASSUME NEW c \in Blobs, table[c] # None PROVE Reads(bucket'[table[c].seg], table[c].at, c)
    OBVIOUS
  <2>1. table[c].seg \in Segs /\ table[c].seg \in SegsOf(table)
    BY DEF TypeOK, Locs, SegsOf
  <2>2. bucket'[table[c].seg] = objects[table[c].seg]
    BY <1>2, <2>1 DEF Orphans
  <2> QED
    BY <1>4, <2>2
<1>12. live' \in [Segs -> Nat] /\ \A m \in Segs : live'[m] = Cardinality(Users(table, m))
  <2>1. table \in Locs
    BY DEF TypeOK
  <2>2. \A m \in Segs : Cardinality(Users(table, m)) \in Nat
    BY <2>1, Counted
  <2>3. live' = [m \in Segs |-> Cardinality(Users(table, m))]
    BY <1>3 DEF Lives, Users
  <2> QED
    BY <2>2, <2>3
<1>13. Backed'
  <2>1. \A c \in Blobs : loc'[c] # None <=> op'[c] \in {"kept", "put"}
    BY <1>3, <1>6
  <2>2. \A c \in Blobs : (loc'[c] # None => Found(loc[c], c)') /\ op'[c] # "put"
    BY <1>3, <1>5, <1>6, <1>11 DEF Found, InOpen
  <2>3. Settled(table)'
    BY <1>3, <1>5, <1>11 DEF Settled, InOpen
  <2>4. \A m \in Segs : Cardinality(Users(loc, m)') <= live'[m]
    <3> TAKE m \in Segs
    <3>1. Users(loc, m)' = Users(table, m) /\ live'[m] \in Nat
      BY <1>3, <1>12 DEF Users
    <3> QED
      BY <1>12, <3>1
  <2>5. dead' = {}
    BY <1>3
  <2> QED
    BY <1>6, <2>1, <2>2, <2>3, <2>4, <2>5 DEF Backed
<1>14. Named'
  <2>1. OpenSegs' = {} /\ undurable' = {}
    BY <1>3, <1>5 DEF OpenSegs
  <2>2. \A m \in Segs : bucket'[m] # None => m \in known' \cup excused'
    <3> SUFFICES ASSUME NEW m \in Segs, bucket'[m] # None PROVE m \in known' \cup excused'
      OBVIOUS
    <3>1. objects[m] # None /\ (m \notin j \ SegsOf(table) \/ m \in failed)
      BY <1>2 DEF Orphans
    <3>2. SegsOf(table) \subseteq known
      BY DEF Named
    <3> QED
      BY <1>2, <1>3, <1>4, <3>1, <3>2
  <2>3. SegsOf(table') \subseteq known'
    BY <1>3 DEF Named
  <2> QED
    BY <1>6, <2>1, <2>2, <2>3 DEF Named, SegsOf
<1>15. TypeOK'
  <2>1. used' \in Counters
    BY <1>3, Counting DEF TypeOK, Counters
  <2>2. NoCk \in [snap : Locs, left : SUBSET Segs]
    BY DEF NoCk, NoLocs, Locs
  <2>3. bucket' \in [Segs -> Seq(Blobs) \cup {None}] /\ excused' \subseteq Segs
    BY <1>2, <1>4 DEF TypeOK, Orphans
  <2> QED
    BY <1>3, <1>5, <1>6, <1>7, <1>8, <1>12, <2>1, <2>2, <2>3 DEF TypeOK, Coros, Places, Counters
<1> QED
  BY <1>7, <1>10, <1>13, <1>14, <1>15

-----------------------------------------------------------------------------
(* The invariant. *)

LEMMA InvInit ==
  ASSUME Init
  PROVE  Inv
<1>1. TypeOK
  <2>1. NoCk \in [snap : Locs, left : SUBSET Segs] /\ NoLocs \in Locs
    BY DEF NoCk, NoLocs, Locs
  <2>2. ClosedSeg \in [seq : Segs \cup {0}, buf : Seq(Blobs), journaled : BOOLEAN]
    BY DEF ClosedSeg
  <2>3. 1 \in 1 .. MaxSegs + 1
    BY SpillStoreAssumption
  <2> QED
    BY <2>1, <2>2, <2>3 DEF Init, TypeOK
<1>2. /\ \A c \in Blobs : loc[c] = None /\ table[c] = None /\ op[c] = "off"
      /\ op[Ck] = "off" /\ ~Snapped /\ open.buf = <<>> /\ dead = {}
  BY DEF Init, NoLocs, Snapped, ClosedSeg
<1>3. Gate
  <2>1. DOMAIN gate = {} /\ \A p \in Coros : op[p] = "off"
    BY DEF Init, Coros
  <2> QED
    BY <1>2, <2>1 DEF Gate, InGate, Inside
<1>4. Numbered
  BY <1>2 DEF Numbered, RefersTo
<1>5. Backed
  <2>1. \A m : Users(loc, m) = {}
    BY <1>2 DEF Users
  <2>2. \A m \in Segs : Cardinality(Users(loc, m)) <= live[m]
    <3>1. \A m \in Segs : live[m] = 0
      BY DEF Init
    <3> QED
      BY <2>1, <3>1, FS_EmptySet
  <2> QED
    BY <1>2, <2>2 DEF Backed, Settled
<1>6. Named
  <2>1. SegsOf(table) = {}
    BY <1>2 DEF SegsOf
  <2> QED
    BY <1>2, <2>1 DEF Named, OpenSegs, Init
<1> QED
  BY <1>1, <1>3, <1>4, <1>5, <1>6 DEF Inv

LEMMA InvNext ==
  ASSUME Inv, [Next]_vars
  PROVE  Inv'
<1>1. ASSUME NEW b \in Blobs, Spill(b) \/ SpillStart(b) \/ SpillJournaled(b) \/ SpillJournalFails(b)
                              \/ SpillPut(b) \/ SpillPutFails(b) \/ Deref(b)
      PROVE  Inv'
  BY <1>1, IdleSteps, AppendSteps, OpeningStep, PutStep, PutFailsStep, DerefStep
<1>2. ASSUME StartCheckpoint \/ FlushFails \/ CommitFails PROVE Inv'
  BY <1>2, CkIdleSteps
<1>3. ASSUME Flush \/ Commit \/ SweepStart \/ SweepClear \/ SweepShrink \/ Crash PROVE Inv'
  BY <1>3, FlushStep, CommitStep, SweepStartStep, SweepClearStep, SweepShrinkStep, CrashStep
<1>4. ASSUME NEW n \in Segs, SweepRemove(n) PROVE Inv'
  BY <1>4, SweepRemoveStep
<1>5. CASE UNCHANGED vars
  BY <1>5 DEF vars, Inv, TypeOK, Gate, Numbered, Backed, Named, RefersTo, Snapped, InOpen, Found, Settled, Users,
     OpenSegs, SegsOf, Bytes, Reads
<1> QED
  BY <1>1, <1>2, <1>3, <1>4, <1>5 DEF Next


(***************************************************************************)
(* Every variable of the spill store ranges over the values its code can   *)
(* hold, in every reachable state.                                         *)
(***************************************************************************)
THEOREM TypeCorrect == Spec => []TypeOK
<1>1. Init => Inv
  BY InvInit
<1>2. Inv /\ [Next]_vars => Inv'
  BY InvNext
<1>3. Inv => TypeOK
  BY DEF Inv
<1> QED
  BY <1>1, <1>2, <1>3, PTL DEF Spec

(***************************************************************************)
(* A locator in the residency table leads to the bytes of its blob, and    *)
(* what the committed table references is in the bucket at every moment a  *)
(* crash may strike, provided no reference dies between the snapshot of a  *)
(* checkpoint and the end of its sweep.                                    *)
(***************************************************************************)
THEOREM SpilledIsReadable == ASSUME QuietCommit PROVE Spec => []BytesReachable
<1>1. Init => Inv
  BY InvInit
<1>2. Inv /\ [Next]_vars => Inv'
  BY InvNext
<1>3. Inv => BytesReachable
  <2> SUFFICES ASSUME Inv PROVE BytesReachable
    OBVIOUS
  <2>1. \A b \in Blobs : op[b] = "kept" => Read(loc[b]) = b
    <3> SUFFICES ASSUME NEW b \in Blobs, op[b] = "kept" PROVE Read(loc[b]) = b
      OBVIOUS
    <3>1. Found(loc[b], b)
      BY DEF Inv, Backed
    <3>2. open.buf # None
      BY NoneIsNoValue DEF Inv, TypeOK
    <3> QED
      BY <3>1, <3>2 DEF Found, InOpen, Read, Bytes, Reads
  <2>2. \A b \in Blobs : table[b] # None => Bytes(bucket[table[b].seg], table[b].at) = b
    BY DEF Inv, Backed, Settled, Reads
  <2> QED
    BY <2>1, <2>2 DEF BytesReachable, LocatorReads, CommittedInBucket
<1> QED
  BY <1>1, <1>2, <1>3, PTL DEF Spec

(***************************************************************************)
(* Whatever step a crash comes after, an object of the bucket is named by  *)
(* the journal or was known to a committed table, or one of the four       *)
(* listed things happened to it, also when references die under a          *)
(* checkpoint.                                                             *)
(***************************************************************************)
THEOREM OrphansAreNamed == Spec => []NoLostOrphan
<1>1. Init => Inv
  BY InvInit
<1>2. Inv /\ [Next]_vars => Inv'
  BY InvNext
<1>3. Inv => NoLostOrphan
  BY DEF Inv, Named, NoLostOrphan
<1> QED
  BY <1>1, <1>2, <1>3, PTL DEF Spec

=============================================================================
