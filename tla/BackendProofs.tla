--------------------------- MODULE BackendProofs ---------------------------
(***************************************************************************)
(* Theorems about the two backends: PackedFile, for every set of blobs and *)
(* slots, with and without a spill area, and for any number of checkpoints *)
(* and crashes; and ObjectBackend, for any trees, blobs, checkpoints,      *)
(* sessions and failures.                                                  *)
(***************************************************************************)
EXTENDS PackedFile, ObjectBackend, FiniteSetTheorems, TLAPS

LEMMA ContentType == Hole \in Content /\ Meta \in Content /\ Blobs \subseteq Content
BY DEF Content

(***************************************************************************)
(* The operators of BlobResidency map tables to tables.                    *)
(***************************************************************************)
LEMMA NoEntryType == NoEntry \in Entry(Content)
BY ContentType DEF NoEntry, Entry, NoRemote, Remote, States

LEMMA RemoteType ==
  /\ \A x \in Content : Object(x) \in Remote(Content)
  /\ \A n \in Nat, x \in Content : Locator(n, x) \in Remote(Content)
BY ContentType DEF Remote, Object, Locator

LEMMA MarkType ==
  ASSUME NEW t \in Tables, NEW s, NEW g \in Nat, NEW r \in Remote(Content)
  PROVE  /\ MarkUploaded(t, s, g, r) \in Tables
         /\ MarkSpilled(t, s, g, r) \in Tables
         /\ MarkSpilledRemote(t, s, g, r) \in Tables
<1>1. \A st \in States : Fact(st, g, r) \in Entry(Content)
  BY DEF Fact, Entry
<1>2. {"local_uploaded", "remote_uploaded", "local_spilled", "remote_spilled"} \subseteq States
  BY DEF States
<1> QED
  BY <1>1, <1>2 DEF Tables, MarkUploaded, MarkSpilled, MarkSpilledRemote

LEMMA DestructiveType ==
  ASSUME NEW t \in Tables, NEW V
  PROVE  /\ Evict(t, V) \in Tables
         /\ DropSpilledLocal(t, V) \in Tables
         /\ Forget(t, V) \in Tables
<1>1. \A s \in Slots, st \in States : [t[s] EXCEPT !.state = st] \in Entry(Content)
  BY DEF Tables, Entry
<1>2. {"remote_uploaded", "remote_spilled"} \subseteq States
  BY DEF States
<1> QED
  BY <1>1, <1>2, NoEntryType DEF Tables, Evict, DropSpilledLocal, Forget

LEMMA CommitDurableType ==
  ASSUME NEW t \in Tables, NEW g \in Nat
  PROVE  CommitDurable(t, g) \in Tables
<1>1. \A s \in Slots, d \in BOOLEAN : [t[s] EXCEPT !.durable = d] \in Entry(Content)
  BY DEF Tables, Entry
<1>2. \A s \in Slots : (Tracked(t[s]) /\ (t[s].durable \/ t[s].gen <= g)) \in BOOLEAN
  BY DEF Tracked
<1> QED
  BY <1>1, <1>2 DEF Tables, CommitDurable

LEMMA DeserializeType ==
  ASSUME NEW t \in Tables, NEW clean
  PROVE  Deserialize(t, clean) \in Tables
<1>1. \A s \in Slots : /\ t[s].state \in States
                       /\ Demoted(t[s].state) \in States
                       /\ t[s].remote \in Remote(Content)
  BY DEF Tables, Entry, Demoted, States
<1> QED
  BY <1>1, NoEntryType DEF Tables, Deserialize, Entry

(***************************************************************************)
(* So do the operators of the spill store, and those of the passes.        *)
(***************************************************************************)
LEMMA FreeOfSpillType ==
  ASSUME NEW sp \in SpillStates
  PROVE  /\ Flushed(sp) \in SpillStates
         /\ \A n : Deref(sp, n) \in SpillStates
<1>1. Flushed(sp) \in SpillStates
  BY DEF SpillStates, Flushed, Segs
<1>2. ASSUME NEW n, n \in Segs
      PROVE  [sp EXCEPT !.live[n] = @ - 1,
                        !.dead    = IF sp.live[n] = 1 /\ n # sp.open THEN @ \cup {n} ELSE @]
               \in SpillStates
  <2>1. [sp.live EXCEPT ![n] = @ - 1] \in [Segs -> Int]
    BY <1>2 DEF SpillStates
  <2> QED
    BY <1>2, <2>1 DEF SpillStates
<1>3. \A n : Deref(sp, n) \in SpillStates
  BY <1>2 DEF Deref
<1> QED
  BY <1>1, <1>3

LEMMA AppendType ==
  ASSUME spill \in SpillStates, SegmentCapacityLeft
  PROVE  OpenSeg \in Segs /\ Appended \in SpillStates
<1>1. OpenSeg \in Segs
  BY DEF OpenSeg, SegmentCapacityLeft, SpillStates
<1>2. [spill.live EXCEPT ![OpenSeg] = @ + 1] \in [Segs -> Int]
  BY <1>1 DEF SpillStates
<1>3. (IF spill.open = 0 THEN spill.next + 1 ELSE spill.next) \in Nat
  BY DEF SpillStates
<1> QED
  BY <1>1, <1>2, <1>3 DEF Appended, SpillStates

LEMMA CountIsNat ==
  ASSUME NEW S \in SUBSET Slots
  PROVE  Cardinality(S) \in Nat
BY PackedFileAssumption, FS_CardinalityType, FS_Subset DEF PackedFileAssumption

LEMMA DerefAllType ==
  ASSUME NEW sp \in SpillStates, NEW F \in SUBSET Slots
  PROVE  DerefAll(sp, F) \in SpillStates
<1> DEFINE lost(n) == Cardinality({s \in F : SegOf(table[s]) = n})
<1>1. \A n : lost(n) \in Int
  BY CountIsNat
<1> HIDE DEF lost
<1>2. [n \in Segs |-> sp.live[n] - lost(n)] \in [Segs -> Int]
  BY <1>1 DEF SpillStates
<1>3. sp.dead \cup {n \in Segs : lost(n) > 0 /\ sp.live[n] = lost(n) /\ n # sp.open} \in SUBSET Segs
  BY DEF SpillStates
<1>4. DerefAll(sp, F)
        = [sp EXCEPT !.live = [n \in Segs |-> @[n] - lost(n)],
                     !.dead = @ \cup {n \in Segs : lost(n) > 0 /\ sp.live[n] = lost(n) /\ n # sp.open}]
  BY DEF DerefAll, lost
<1> QED
  BY <1>2, <1>3, <1>4 DEF SpillStates

LEMMA ReopenedType ==
  ASSUME NEW sp \in SpillStates, NEW t
  PROVE  Reopened(sp, t) \in SpillStates
<1>1. \A n : Cardinality({s \in Slots : SegOf(t[s]) = n}) \in Int
  BY CountIsNat
<1> QED
  BY <1>1 DEF Reopened, SpillStates

LEMMA ScanType ==
  ASSUME NEW data \in Seq(Slots), NEW i \in 0 .. Len(data), NEW reclaim \in Nat, NEW t, NEW r,
         NEW pending, NEW p \in Scan(data, i, reclaim, t, r, pending)
  PROVE  /\ p \in PassStates
         /\ p.pc # "off" => p.i \in DOMAIN data
BY ContentType DEF Scan, PassStates, PassOff

LEMMA SettleType == \A r \in Nat, n \in Nat : Settle(r, n) \in Nat
BY DEF Settle
LEMMA PunchedType ==
  ASSUME file \in [Slots -> Content], NEW V
  PROVE  Punched(V) \in [Slots -> Content]
BY ContentType DEF Punched

LEMMA VictimsType ==
  ASSUME NEW t, NEW r, NEW V \in Victims(t, r)
  PROVE  V \in SUBSET Slots /\ Cardinality(V) \in Nat
<1>1. V \in SUBSET Slots
  BY DEF Victims, Evictable
<1> QED
  BY <1>1, CountIsNat

LEMMA MaybeEvictType ==
  ASSUME TypeOK, NEW t \in Tables, NEW r \in Nat, NEW data \in Seq(Slots), NEW pending,
         DOMAIN dataBlobs \subseteq DOMAIN data,
         MaybeEvict(t, r, data, pending)
  PROVE  /\ table' \in Tables
         /\ file' \in [Slots -> Content]
         /\ resident' \in Nat
         /\ pass' \in PassStates
         /\ pass'.pc # "off" => pass'.i \in DOMAIN data
<1>1. PICK V \in IF OverSoft(r) THEN Victims(t, r) ELSE {{}} :
        /\ table' = Evict(t, V)
        /\ file' = Punched(V)
        /\ resident' = Settle(r, Cardinality(V))
        /\ pass' \in IF HasSpill /\ OverSoft(Settle(r, Cardinality(V))) /\ pass.pc = "off"
                     THEN Scan(data, Len(data), 0, table', Settle(r, Cardinality(V)), pending)
                     ELSE {pass}
  BY DEF MaybeEvict
<1>2. Cardinality(V) \in Nat
  BY <1>1, VictimsType, CountIsNat
<1>3. table' \in Tables /\ file' \in [Slots -> Content] /\ resident' \in Nat
  BY <1>1, <1>2, DestructiveType, PunchedType, SettleType DEF TypeOK
<1>4. pass' \in PassStates /\ (pass'.pc # "off" => pass'.i \in DOMAIN data)
  <2>1. CASE pass' = pass
    BY <2>1 DEF TypeOK
  <2>2. CASE pass' \in Scan(data, Len(data), 0, table', Settle(r, Cardinality(V)), pending)
    <3>1. Len(data) \in 0 .. Len(data) /\ 0 \in Nat
      OBVIOUS
    <3> HIDE DEF PassStates
    <3> QED
      BY <2>2, <3>1, ScanType
  <2> QED
    BY <1>1, <2>1, <2>2
<1> QED
  BY <1>3, <1>4
-----------------------------------------------------------------------------
LEMMA InitType == Init => TypeOK
<1> SUFFICES ASSUME Init PROVE TypeOK
  OBVIOUS
<1>1. [s \in Slots |-> NoEntry] \in Tables
  BY NoEntryType DEF Tables
<1>2. NoSpill \in SpillStates
  BY DEF NoSpill, SpillStates
<1>3. PassOff \in PassStates
  BY ContentType DEF PassOff, PassStates
<1>4. NoLocations \in [Blobs -> Location]
  BY DEF NoLocations, Location
<1>5. IdleCk \in CkStates /\ IdleCk.pc = "idle"
  BY <1>1, <1>4 DEF IdleCk, CkStates, Location
<1>6. NoDisk \in Disks
  BY <1>1, <1>4 DEF NoDisk, Disks, Location
<1>7. [s \in Slots |-> Hole] \in [Slots -> Content]
  BY ContentType
<1>8. phase \in [Blobs -> Phases] /\ \A b \in Blobs : phase[b] = "new"
  BY DEF Init, Phases
<1>9. 0 \in 0 .. MaxCheckpoints /\ 0 \in 0 .. MaxCrashes
  BY PackedFileAssumption DEF PackedFileAssumption
<1>10. pass.pc = "off"
  BY DEF Init, PassOff
<1>11. metaSlot \in Location /\ dataBlobs \in Seq(Slots)
  BY DEF Init, Location
<1> QED
  BY <1>1, <1>2, <1>3, <1>4, <1>5, <1>6, <1>7, <1>8, <1>9, <1>10, <1>11 DEF Init, TypeOK

LEMMA OwnType == \A b \in Blobs : Own(b) \in Content
BY ContentType DEF Own

LEMMA BlobStepType ==
  ASSUME TypeOK, NEW b \in Blobs,
         \/ Allocate(b) \/ WriteDone(b) \/ HandOn(b) \/ SpillWrite(b) \/ SpillWriteFills(b)
         \/ SpillWriteDone(b) \/ SpillWriteFails(b) \/ WriteFails(b)
         \/ Discard(b) \/ StartRead(b) \/ EndRead(b) \/ NoteUploaded(b)
  PROVE  TypeOK'
<1> USE DEF Phases
<1>1. CASE Allocate(b)
  <2>1. PICK s \in free :
          /\ free' = free \ {s}
          /\ where' = [where EXCEPT ![b] = s]
          /\ phase' = [phase EXCEPT ![b] = IF HasSpill /\ OverHard(resident)
                                          THEN "diverted" ELSE "allocated"]
          /\ dataBlobs' = Append(dataBlobs, s)
          /\ resident' = IF HasSpill /\ OverHard(resident) THEN resident ELSE resident + 1
    BY <1>1 DEF Allocate
  <2>2. dataBlobs' \in Seq(Slots) /\ DOMAIN dataBlobs \subseteq DOMAIN dataBlobs'
    BY <2>1 DEF TypeOK
  <2>3. resident' \in Nat
    BY <2>1 DEF TypeOK
  <2>4. pass' \in PassStates /\ (pass'.pc # "off" => pass'.i \in DOMAIN dataBlobs')
    BY <1>1, <2>2 DEF Allocate, TypeOK
  <2>5. \A c \in Blobs : phase'[c] # "new" => where'[c] \in Slots
    BY <2>1 DEF TypeOK
  <2> QED
    BY <1>1, <2>1, <2>2, <2>3, <2>4, <2>5 DEF Allocate, TypeOK, Location
<1>2. CASE WriteDone(b)
  BY <1>2, ContentType DEF WriteDone, TypeOK
<1>3. ASSUME NEW charged, NEW sp \in SpillStates, OpenSeg \in Nat, BornRemote(b, charged, sp)
      PROVE  /\ table' \in Tables /\ resident' \in Nat /\ spill' \in SpillStates
             /\ phase' = [phase EXCEPT ![b] = "written"]
  <2>1. table \in Tables /\ gen \in Nat /\ resident \in Nat /\ Locator(OpenSeg, b) \in Remote(Content)
    BY <1>3, RemoteType, ContentType DEF TypeOK
  <2> QED
    BY <1>3, <2>1, MarkType, SettleType DEF BornRemote
<1>4. CASE SpillWrite(b)
  <2>1. OpenSeg \in Segs /\ Appended \in SpillStates
    BY <1>4, AppendType DEF SpillWrite, TypeOK, SpillStates
  <2>2. OpenSeg \in Nat
    BY <2>1 DEF Segs
  <2>3. phase[b] # "new" /\ \E charged \in BOOLEAN : BornRemote(b, charged, Appended)
    BY <1>4 DEF SpillWrite
  <2>4. /\ table' \in Tables /\ resident' \in Nat /\ spill' \in SpillStates
        /\ phase' = [phase EXCEPT ![b] = "written"]
    BY <1>3, <2>1, <2>2, <2>3
  <2> QED
    BY <1>4, <2>3, <2>4 DEF SpillWrite, TypeOK
<1>5. CASE SpillWriteFills(b)
  <2>1. Appended \in SpillStates
    BY <1>5, AppendType DEF SpillWriteFills, TypeOK, SpillStates
  <2> QED
    BY <1>5, <2>1 DEF SpillWriteFills, TypeOK, SpillStates
<1>6. CASE SpillWriteDone(b)
  <2>1. Flushed(spill) \in SpillStates
    BY FreeOfSpillType DEF TypeOK, SpillStates
  <2>2. OpenSeg \in Nat
    BY DEF OpenSeg, TypeOK, Segs, SpillStates
  <2>3. phase[b] # "new" /\ BornRemote(b, phase[b] = "nospace", Flushed(spill))
    BY <1>6 DEF SpillWriteDone
  <2>4. /\ table' \in Tables /\ resident' \in Nat /\ spill' \in SpillStates
        /\ phase' = [phase EXCEPT ![b] = "written"]
    BY <1>3, <2>1, <2>2, <2>3
  <2> QED
    BY <1>6, <2>3, <2>4 DEF SpillWriteDone, TypeOK
<1>7. CASE SpillWriteFails(b) \/ WriteFails(b)
  <2>1. Lost(b) /\ phase[b] # "new"
    BY <1>7 DEF SpillWriteFails, WriteFails
  <2>2. file' \in [Slots -> Content]
    BY <2>1, ContentType DEF Lost, TypeOK
  <2> QED
    BY <2>1, <2>2 DEF Lost, TypeOK
<1>8. CASE Discard(b)
  BY <1>8 DEF Discard, TypeOK
<1>9. CASE StartRead(b) \/ EndRead(b)
  BY <1>9 DEF StartRead, EndRead, TypeOK
<1>10. CASE NoteUploaded(b)
  <2>1. MarkUploaded(table, where[b], gen, Object(Own(b))) \in Tables
    BY MarkType, RemoteType, OwnType DEF TypeOK
  <2>2. spill' \in SpillStates
    BY <1>10, FreeOfSpillType DEF NoteUploaded, TypeOK, SpillStates
  <2>3. /\ table' \in Tables /\ file' \in [Slots -> Content] /\ resident' \in Nat
        /\ pass' \in PassStates
        /\ pass'.pc # "off" => pass'.i \in DOMAIN dataBlobs
    <3>1. dataBlobs \in Seq(Slots) /\ resident \in Nat
      BY DEF TypeOK
    <3>2. MaybeEvict(MarkUploaded(table, where[b], gen, Object(Own(b))), resident, dataBlobs, Pending)
      BY <1>10 DEF NoteUploaded
    <3> QED
      BY <2>1, <3>1, <3>2, MaybeEvictType
  <2> QED
    BY <1>10, <2>2, <2>3 DEF NoteUploaded, TypeOK
<1>11. CASE HandOn(b)
  <2>1. table \in Tables /\ dataBlobs \in Seq(Slots) /\ resident \in Nat
    BY DEF TypeOK
  <2>2. /\ table' \in Tables /\ file' \in [Slots -> Content] /\ resident' \in Nat
        /\ pass' \in PassStates
        /\ pass'.pc # "off" => pass'.i \in DOMAIN dataBlobs
    BY <1>11, <2>1, MaybeEvictType DEF HandOn
  <2> QED
    BY <1>11, <2>2 DEF HandOn, TypeOK
<1> QED
  BY <1>1, <1>2, <1>4, <1>5, <1>6, <1>7, <1>8, <1>9, <1>10, <1>11

LEMMA PassMarkType ==
  ASSUME TypeOK, NEW sp \in SpillStates, OpenSeg \in Nat, pass.pc # "off", PassMark(sp)
  PROVE  /\ table' \in Tables /\ spill' \in SpillStates
         /\ pass' \in PassStates /\ (pass'.pc # "off" => pass'.i \in DOMAIN dataBlobs)
<1>1. /\ pass.i - 1 \in 0 .. Len(dataBlobs) /\ pass.reclaim \in Nat /\ pass.bytes \in Content
      /\ dataBlobs \in Seq(Slots)
  BY DEF TypeOK, PassStates
<1>2. CASE /\ spill' = Deref(sp, OpenSeg)
           /\ pass' \in Scan(dataBlobs, pass.i - 1, pass.reclaim, table, resident, Pending)
           /\ UNCHANGED table
  BY <1>1, <1>2, FreeOfSpillType, ScanType DEF TypeOK
<1>3. CASE /\ table' = MarkSpilled(table, dataBlobs[pass.i], gen, Locator(OpenSeg, pass.bytes))
           /\ pass' \in Scan(dataBlobs, pass.i - 1, pass.reclaim + 1, table', resident, Pending)
           /\ spill' = sp
  <2>1. Locator(OpenSeg, pass.bytes) \in Remote(Content)
    BY <1>1, RemoteType
  <2>2. table' \in Tables
    BY <1>3, <2>1, MarkType DEF TypeOK
  <2>3. pass' \in PassStates /\ (pass'.pc # "off" => pass'.i \in DOMAIN dataBlobs)
    <3>1. pass.reclaim + 1 \in Nat
      BY <1>1
    <3> QED
      BY <1>1, <1>3, <3>1, ScanType
  <2> QED
    BY <1>3, <2>2, <2>3
<1> QED
  BY <1>2, <1>3 DEF PassMark

LEMMA PassStepType ==
  ASSUME TypeOK, PassRead \/ PassPut \/ PassPutFills \/ PassPutDone \/ PassFails
  PROVE  TypeOK'
<1>1. CASE PassRead
  <2>1. dataBlobs[pass.i] \in Slots
    BY <1>1 DEF PassRead, TypeOK
  <2>2. file[dataBlobs[pass.i]] \in Content
    BY <2>1 DEF TypeOK
  <2>3. pass' \in PassStates /\ pass'.i = pass.i
    BY <1>1, <2>2 DEF PassRead, TypeOK, PassStates
  <2> QED
    BY <1>1, <2>3 DEF PassRead, TypeOK
<1>2. CASE PassPut
  <2>1. OpenSeg \in Segs /\ Appended \in SpillStates
    BY <1>2, AppendType DEF PassPut, TypeOK
  <2>2. OpenSeg \in Nat
    BY <2>1 DEF Segs
  <2>3. pass.pc # "off" /\ PassMark(Appended)
    BY <1>2 DEF PassPut
  <2>4. /\ table' \in Tables /\ spill' \in SpillStates
        /\ pass' \in PassStates /\ (pass'.pc # "off" => pass'.i \in DOMAIN dataBlobs)
    BY <2>1, <2>2, <2>3, PassMarkType
  <2> QED
    BY <1>2, <2>4 DEF PassPut, TypeOK
<1>3. CASE PassPutFills
  <2>1. Appended \in SpillStates
    BY <1>3, AppendType DEF PassPutFills, TypeOK
  <2>2. pass' \in PassStates /\ pass'.i = pass.i
    BY <1>3 DEF PassPutFills, TypeOK, PassStates
  <2> QED
    BY <1>3, <2>1, <2>2 DEF PassPutFills, TypeOK
<1>4. CASE PassPutDone
  <2>1. OpenSeg \in Nat /\ Flushed(spill) \in SpillStates
    BY FreeOfSpillType DEF OpenSeg, TypeOK, SpillStates, Segs
  <2>2. pass.pc # "off" /\ PassMark(Flushed(spill))
    BY <1>4 DEF PassPutDone
  <2>3. /\ table' \in Tables /\ spill' \in SpillStates
        /\ pass' \in PassStates /\ (pass'.pc # "off" => pass'.i \in DOMAIN dataBlobs)
    BY <2>1, <2>2, PassMarkType
  <2> QED
    BY <1>4, <2>3 DEF PassPutDone, TypeOK
<1>5. CASE PassFails
  <2>1. PassOff \in PassStates /\ PassOff.pc = "off"
    BY ContentType DEF PassOff, PassStates
  <2> QED
    BY <1>5, <2>1 DEF PassFails, TypeOK
<1> QED
  BY <1>1, <1>2, <1>3, <1>4, <1>5
-----------------------------------------------------------------------------
LEMMA IdleCkType == IdleCk \in CkStates /\ IdleCk.pc = "idle"
<1>1. [s \in Slots |-> NoEntry] \in Tables
  BY NoEntryType DEF Tables
<1> QED
  BY <1>1 DEF IdleCk, CkStates, NoLocations, Location

LEMMA SnapshotType ==
  ASSUME TypeOK, Snapshot
  PROVE  TypeOK'
<1> DEFINE tracked  == {s \in ck.freed : Tracked(table[s])}
           deferred == (ck.freed \ tracked) \cup Superseded
           left     == Settle(resident, Cardinality(ForgetLocal(table, tracked)))
<1>1. ck.freed \in SUBSET Slots /\ metaSlot \in Location /\ gen \in Nat /\ resident \in Nat
  BY DEF TypeOK, CkStates
<1>2. tracked \in SUBSET Slots /\ deferred \in SUBSET Slots
  BY <1>1 DEF Superseded, Location
<1>3. Forget(table, tracked) \in Tables
  BY DestructiveType DEF TypeOK
<1>4. left \in Nat
  <2>1. ForgetLocal(table, tracked) \in SUBSET Slots
    BY <1>2 DEF ForgetLocal
  <2> QED
    BY <1>1, <2>1, CountIsNat, SettleType
<1>5. ForgetPunchable(table, tracked, Busy) \in SUBSET Slots
  BY <1>2 DEF ForgetPunchable
<1>6. DerefAll(Flushed(spill), tracked) \in SpillStates
  BY <1>2, FreeOfSpillType, DerefAllType DEF TypeOK
<1>7. PICK m \in free :
        /\ free' = free \ {m}
        /\ ck' = [ck EXCEPT
             !.pc = "write", !.gen = gen, !.clean = cleanNext,
             !.table = Forget(table, tracked), !.resident = left,
             !.meta = m, !.free = free' \cup deferred, !.deferred = deferred,
             !.punch = ForgetPunchable(table, tracked, Busy)]
  BY DEF Snapshot
<1> HIDE DEF tracked, deferred, left
<1>8. m \in Slots /\ m \in Location /\ free' \in SUBSET Slots
  BY <1>7 DEF TypeOK, Location
<1>9. ck' \in CkStates /\ ck'.meta \in Slots
  BY <1>1, <1>2, <1>3, <1>4, <1>5, <1>7, <1>8 DEF TypeOK, CkStates
<1>10. /\ spill' \in SpillStates /\ table' \in Tables /\ resident' \in Nat /\ gen' \in Nat
       /\ cleanNext' = FALSE
  BY <1>1, <1>3, <1>4, <1>6 DEF Snapshot, tracked, left
<1> QED
  BY <1>8, <1>9, <1>10 DEF Snapshot, TypeOK

LEMMA CommitType ==
  ASSUME TypeOK, Commit
  PROVE  TypeOK'
<1> DEFINE durable == CommitDurable(table, ck.gen)
           settled == Settle(resident, Cardinality(ck.deferred))
<1>1. durable \in Tables
  BY CommitDurableType DEF TypeOK, CkStates
<1>2. settled \in Nat
  BY CountIsNat, SettleType DEF TypeOK, CkStates
<1>3. ck.pc = "committed" /\ ck.deferred \in SUBSET Slots /\ ck.meta \in Slots
  BY DEF Commit, TypeOK, CkStates
<1>4. PICK P \in SUBSET ck.punch :
        IF HasSpill
        THEN /\ table' = durable /\ resident' = settled /\ file' = Punched(P)
             /\ ck' = [ck EXCEPT !.pc = "sweep"]
        ELSE \E V \in IF ck.clean THEN {{}} ELSE Victims(durable, settled) :
               /\ table' = Evict(durable, V)
               /\ resident' = Settle(settled, Cardinality(V))
               /\ file' = Punched(P \cup V)
               /\ ck' = IdleCk
  BY DEF Commit
<1> HIDE DEF durable, settled
<1>5. ck' \in CkStates /\ (ck'.pc \notin {"idle", "flush"} => ck'.meta \in Slots)
  BY <1>3, <1>4, IdleCkType DEF TypeOK, CkStates
<1>6. table' \in Tables /\ resident' \in Nat /\ file' \in [Slots -> Content]
  <2>0. file \in [Slots -> Content]
    BY DEF TypeOK
  <2>1. CASE HasSpill
    BY <1>1, <1>2, <1>4, <2>0, <2>1, PunchedType
  <2>2. CASE ~HasSpill
    <3>1. PICK V \in IF ck.clean THEN {{}} ELSE Victims(durable, settled) :
            /\ table' = Evict(durable, V)
            /\ resident' = Settle(settled, Cardinality(V))
            /\ file' = Punched(P \cup V)
      BY <1>4, <2>2
    <3>2. Cardinality(V) \in Nat
      BY <3>1, VictimsType, CountIsNat
    <3> QED
      BY <1>1, <1>2, <2>0, <3>1, <3>2, DestructiveType, SettleType, PunchedType
  <2> QED
    BY <2>1, <2>2
<1>7. free' \subseteq Slots /\ metaSlot' \in Location
  BY <1>3 DEF Commit, TypeOK, Location
<1> QED
  BY <1>5, <1>6, <1>7 DEF Commit, TypeOK

LEMMA ReclaimType ==
  ASSUME TypeOK, Reclaim
  PROVE  TypeOK'
<1>1. PICK D \in IF ~ck.clean /\ OverSoft(resident) THEN SUBSET Droppable(table, Busy) ELSE {{}} :
        \E V \in IF ck.clean THEN {{}}
                 ELSE Victims(DropSpilledLocal(table, D), Settle(resident, Cardinality(D))) :
          /\ table' = Evict(DropSpilledLocal(table, D), V)
          /\ resident' = Settle(Settle(resident, Cardinality(D)), Cardinality(V))
          /\ file' = Punched(D \cup V)
  BY DEF Reclaim
<1>2. PICK V \in IF ck.clean THEN {{}}
                ELSE Victims(DropSpilledLocal(table, D), Settle(resident, Cardinality(D))) :
          /\ table' = Evict(DropSpilledLocal(table, D), V)
          /\ resident' = Settle(Settle(resident, Cardinality(D)), Cardinality(V))
          /\ file' = Punched(D \cup V)
  BY <1>1
<1>3. Cardinality(V) \in Nat
  BY VictimsType, CountIsNat
<1>4. Cardinality(D) \in Nat
  <2>1. D \in SUBSET Slots
    BY DEF Droppable
  <2> QED
    BY <2>1, CountIsNat
<1>5. table' \in Tables /\ file' \in [Slots -> Content]
  BY <1>2, DestructiveType, PunchedType DEF TypeOK
<1>6. resident' \in Nat
  BY <1>2, <1>3, <1>4, SettleType DEF TypeOK
<1> QED
  BY <1>5, <1>6, IdleCkType DEF Reclaim, TypeOK
LEMMA CheckpointStepType ==
  ASSUME TypeOK,
         \/ StartCheckpoint \/ FlushFails \/ Snapshot \/ WriteMetadata \/ CheckpointFails
         \/ WriteSuperblock \/ Commit \/ Sweep \/ Reclaim \/ SetCleanShutdown
  PROVE  TypeOK'
<1>1. CASE StartCheckpoint
  <2>1. phase' \in [Blobs -> Phases] /\ \A b \in Blobs : phase'[b] # "new" => phase[b] # "new"
    BY <1>1 DEF StartCheckpoint, TypeOK, Phases
  <2>2. [b \in Blobs |-> IF phase[b] = "tree" THEN where[b] ELSE NoSlot] \in [Blobs -> Location]
    BY DEF TypeOK, Location
  <2>3. {where[b] : b \in {c \in Blobs : phase[c] = "discard"}} \in SUBSET Slots
    BY DEF TypeOK
  <2>4. ck' \in CkStates /\ ck'.pc = "flush"
    BY <1>1, <2>2, <2>3, IdleCkType DEF StartCheckpoint, CkStates
  <2>5. checkpoints' \in 0 .. MaxCheckpoints
    BY <1>1, PackedFileAssumption DEF StartCheckpoint, TypeOK, PackedFileAssumption
  <2> QED
    BY <1>1, <2>1, <2>4, <2>5 DEF StartCheckpoint, TypeOK
<1>2. CASE FlushFails
  BY <1>2, IdleCkType DEF FlushFails, TypeOK
<1>3. CASE WriteMetadata
  <2>1. ck' \in CkStates /\ ck'.meta = ck.meta /\ ck.meta \in Slots
    BY <1>3 DEF WriteMetadata, TypeOK, CkStates
  <2> QED
    BY <1>3, <2>1, ContentType DEF WriteMetadata, TypeOK
<1>4. CASE CheckpointFails
  <2>1. ck.meta \in Slots /\ resident' \in Nat
    BY <1>4, SettleType DEF CheckpointFails, TypeOK
  <2> QED
    BY <1>4, <2>1, IdleCkType DEF CheckpointFails, TypeOK
<1>5. CASE WriteSuperblock
  <2>1. disk' \in Disks
    BY <1>5 DEF WriteSuperblock, TypeOK, CkStates, Disks
  <2>2. ck' \in CkStates /\ ck'.meta = ck.meta /\ ck.meta \in Slots
    BY <1>5 DEF WriteSuperblock, TypeOK, CkStates
  <2> QED
    BY <1>5, <2>1, <2>2 DEF WriteSuperblock, TypeOK
<1>6. CASE Sweep
  <2>1. spill' \in SpillStates
    BY <1>6 DEF Sweep, TypeOK, SpillStates
  <2>2. ck' \in CkStates /\ ck'.meta = ck.meta /\ ck.meta \in Slots
    BY <1>6 DEF Sweep, TypeOK, CkStates
  <2> QED
    BY <1>6, <2>1, <2>2 DEF Sweep, TypeOK
<1>7. CASE SetCleanShutdown
  BY <1>7 DEF SetCleanShutdown, TypeOK
<1> QED
  BY <1>1, <1>2, <1>3, <1>4, <1>5, <1>6, <1>7, SnapshotType, CommitType, ReclaimType

LEMMA CrashType ==
  ASSUME TypeOK, Crash
  PROVE  TypeOK'
<1>1. disk \in Disks
  BY DEF TypeOK
<1>2. Deserialize(disk.table, disk.clean) \in Tables
  BY <1>1, DeserializeType DEF Disks
<1>3. resident' \in Nat
  <2>1. DemotedLocal(disk.table, disk.clean) \in SUBSET Slots
    BY DEF DemotedLocal
  <2> QED
    BY <1>1, <2>1, CountIsNat, SettleType DEF Crash, Disks
<1>4. spill' \in SpillStates
  BY ReopenedType DEF Crash, TypeOK
<1>5. pass' \in PassStates /\ pass'.pc = "off"
  BY ContentType DEF Crash, PassOff, PassStates
<1>6. crashes' \in 0 .. MaxCrashes
  BY PackedFileAssumption DEF Crash, TypeOK, PackedFileAssumption
<1>7. /\ phase' \in [Blobs -> Phases] /\ where' \in [Blobs -> Location]
      /\ \A b \in Blobs : phase'[b] # "new" => where'[b] \in Slots
  BY <1>1 DEF Crash, Disks, Phases, Location
<1>8. /\ free' \in SUBSET Slots /\ metaSlot' \in Location /\ gen' \in Nat
      /\ cleanNext' \in BOOLEAN
  BY <1>1 DEF Crash, Disks
<1>9. dataBlobs' \in Seq(Slots) /\ reading' \subseteq Blobs /\ unwritten' \subseteq Blobs
  BY DEF Crash, TypeOK
<1> QED
  BY <1>1, <1>2, <1>3, <1>4, <1>5, <1>6, <1>7, <1>8, <1>9, IdleCkType DEF Crash, TypeOK

LEMMA TypeStep == TypeOK /\ [Next]_vars => TypeOK'
<1> SUFFICES ASSUME TypeOK, [Next]_vars PROVE TypeOK'
  OBVIOUS
<1>1. CASE UNCHANGED vars
  BY <1>1 DEF TypeOK, vars
<1>2. CASE Next
  BY <1>2, BlobStepType, PassStepType, CheckpointStepType, CrashType DEF Next
<1> QED
  BY <1>1, <1>2

(***************************************************************************)
(* Type correctness, and with it the bookkeeping every other invariant     *)
(* relies on: whatever has been allocated has a slot, a spill pass that is *)
(* under way has a candidate in _data_blobs, and a checkpoint past its     *)
(* synchronous block has a place for its metadata.                         *)
(***************************************************************************)
THEOREM TypeCorrect == Spec => []TypeOK
<1> QED
  BY InitType, TypeStep, PTL DEF Spec
-----------------------------------------------------------------------------
(***************************************************************************)
(* The two-phase rule.  DurableIsCommitted alone is not inductive: Commit  *)
(* makes facts durable on the strength of the snapshot taken three steps   *)
(* earlier.  What carries it over those steps is the generation: a fact    *)
(* the open checkpoint will make durable is in its snapshot with the same  *)
(* remote copy, because anything noted since then is of a later one.       *)
(***************************************************************************)
Building == ck.pc \in {"write", "superblock"}

Backed(s, t) == Tracked(t[s]) /\ t[s].remote = table[s].remote

SnapshotCovers ==
  /\ ck.gen < gen
  /\ \A s \in Slots :
       Tracked(table[s]) /\ (table[s].durable \/ table[s].gen <= ck.gen) => Backed(s, ck.table)

DurableInv ==
  /\ \A s \in Slots : table[s].durable => Backed(s, disk.table)
  /\ \A s \in Slots : ~Tracked(table[s]) => ~table[s].durable
  /\ \A s \in Slots : table[s].gen <= gen
  /\ Building => SnapshotCovers
  /\ ck.pc = "committed" => SnapshotCovers /\ disk.table = ck.table
(***************************************************************************)
(* Dropping local bytes leaves the remote facts alone; noting a remote     *)
(* copy records a fact of the current generation.                          *)
(***************************************************************************)
SameFacts(t, u) ==
  \A s \in Slots : /\ Tracked(u[s]) <=> Tracked(t[s])
                   /\ u[s].durable = t[s].durable /\ u[s].gen = t[s].gen
                   /\ u[s].remote = t[s].remote

LEMMA DropsKeepFacts ==
  ASSUME NEW t \in Tables, NEW B
  PROVE  /\ \A V \in SUBSET Evictable(t, B) : SameFacts(t, Evict(t, V))
         /\ \A V \in SUBSET Droppable(t, B) : SameFacts(t, DropSpilledLocal(t, V))
<1>1. \A s \in Slots : t[s] \in Entry(Content)
  BY DEF Tables
<1>2. ASSUME NEW V \in SUBSET Evictable(t, B) PROVE SameFacts(t, Evict(t, V))
  BY <1>1 DEF SameFacts, Evict, Evictable, Tracked, Entry
<1>3. ASSUME NEW V \in SUBSET Droppable(t, B) PROVE SameFacts(t, DropSpilledLocal(t, V))
  BY <1>1 DEF SameFacts, DropSpilledLocal, Droppable, Tracked, Entry
<1> QED
  BY <1>2, <1>3

LEMMA VictimsEvictable ==
  \A t, r, V : V \in Victims(t, r) => V \in SUBSET Evictable(t, Busy)
BY DEF Victims

LEMMA MaybeEvictKeepsFacts ==
  ASSUME NEW t \in Tables, NEW r, NEW data, NEW pending, MaybeEvict(t, r, data, pending)
  PROVE  SameFacts(t, table')
<1>1. PICK V : V \in SUBSET Evictable(t, Busy) /\ table' = Evict(t, V)
  <2>1. PICK V \in IF OverSoft(r) THEN Victims(t, r) ELSE {{}} : table' = Evict(t, V)
    BY DEF MaybeEvict
  <2>2. V \in SUBSET Evictable(t, Busy)
    BY VictimsEvictable
  <2> QED
    BY <2>1, <2>2
<1> QED
  BY <1>1, DropsKeepFacts

\* What DurableInv knows of ck survives every step that leaves its snapshot alone.
CkKept == /\ ck'.gen = ck.gen /\ ck'.table = ck.table
          /\ Building' => Building
          /\ ck'.pc = "committed" => ck.pc = "committed"

LEMMA FactsKept ==
  ASSUME TypeOK, DurableInv, SameFacts(table, table'), UNCHANGED <<gen, disk>>,
         CkKept \/ ck'.pc \in {"idle", "flush", "sweep", "reclaim"}
  PROVE  DurableInv'
<1>1. CASE CkKept
  BY <1>1 DEF CkKept, DurableInv, SnapshotCovers, Backed, SameFacts
<1>2. CASE ck'.pc \in {"idle", "flush", "sweep", "reclaim"}
  BY <1>2 DEF DurableInv, Backed, SameFacts, Building
<1> QED
  BY <1>1, <1>2

LEMMA FactNoted ==
  ASSUME TypeOK, DurableInv, NEW s, NEW st, st # "local", NEW r,
         SameFacts([table EXCEPT ![s] = Fact(st, gen, r)], table'), UNCHANGED <<gen, disk, ck>>
  PROVE  DurableInv'
<1>1. ASSUME NEW x \in Slots
      PROVE  \/ /\ Tracked(table'[x]) /\ ~table'[x].durable /\ table'[x].gen = gen
             \/ /\ Tracked(table'[x]) <=> Tracked(table[x])
                /\ table'[x].durable = table[x].durable /\ table'[x].gen = table[x].gen
                /\ table'[x].remote = table[x].remote
  <2>1. table \in [Slots -> Entry(Content)]
    BY DEF TypeOK, Tables
  <2>2. CASE x = s
    BY <2>1, <2>2 DEF SameFacts, Fact, Tracked
  <2>3. CASE x # s
    BY <2>1, <2>3 DEF SameFacts
  <2> QED
    BY <2>2, <2>3
<1>2. gen \in Nat /\ ck.gen \in Nat /\ \A x \in Slots : table[x].gen \in Nat /\ table[x].durable \in BOOLEAN
  BY DEF TypeOK, CkStates, Tables, Entry
<1>3. SnapshotCovers => SnapshotCovers'
  BY <1>1, <1>2 DEF SnapshotCovers, Backed
<1> QED
  BY <1>1, <1>2, <1>3 DEF DurableInv, Building, Backed

LEMMA DurableInit == Init => DurableInv
BY DEF Init, DurableInv, Building, IdleCk, NoEntry, Tracked

LEMMA DurableStep == TypeOK /\ DurableInv /\ [Next]_vars => DurableInv'
<1> SUFFICES ASSUME TypeOK, DurableInv, [Next]_vars PROVE DurableInv'
  OBVIOUS
<1>0. table \in Tables
  BY DEF TypeOK
<1>1. CASE UNCHANGED <<table, gen, disk, ck>>
  BY <1>1 DEF DurableInv, SnapshotCovers, Backed, Building
<1>2. ASSUME NEW b \in Blobs, HandOn(b)
      PROVE  DurableInv'
  <2>1. SameFacts(table, table')
    BY <1>0, <1>2, MaybeEvictKeepsFacts DEF HandOn
  <2>2. UNCHANGED <<gen, disk, ck>>
    BY <1>2 DEF HandOn
  <2> QED
    BY <2>1, <2>2, FactsKept DEF CkKept, Building
<1>3. ASSUME NEW b \in Blobs, NoteUploaded(b)
      PROVE  DurableInv'
  <2>1. MarkUploaded(table, where[b], gen, Object(Own(b))) \in Tables
    BY <1>0, MarkType, RemoteType, OwnType DEF TypeOK
  <2>2. SameFacts(MarkUploaded(table, where[b], gen, Object(Own(b))), table')
    BY <1>3, <2>1, MaybeEvictKeepsFacts DEF NoteUploaded
  <2>3. PICK st \in {"local_uploaded", "remote_uploaded"} :
          MarkUploaded(table, where[b], gen, Object(Own(b)))
            = [table EXCEPT ![where[b]] = Fact(st, gen, Object(Own(b)))]
    BY DEF MarkUploaded
  <2>4. UNCHANGED <<gen, disk, ck>>
    BY <1>3 DEF NoteUploaded
  <2>5. st # "local" /\ SameFacts([table EXCEPT ![where[b]] = Fact(st, gen, Object(Own(b)))], table')
    BY <2>2, <2>3
  <2> QED
    BY <2>4, <2>5, FactNoted
<1>4. ASSUME NEW b \in Blobs, SpillWrite(b) \/ SpillWriteDone(b)
      PROVE  DurableInv'
  <2>1. table' = [table EXCEPT ![where[b]] = Fact("remote_spilled", gen, Locator(OpenSeg, b))]
    BY <1>4 DEF SpillWrite, SpillWriteDone, BornRemote, MarkSpilledRemote
  <2>2. SameFacts(table', table') /\ UNCHANGED <<gen, disk, ck>>
    BY <1>4 DEF SameFacts, SpillWrite, SpillWriteDone
  <2> QED
    BY <2>1, <2>2, FactNoted
<1>5. CASE PassPut \/ PassPutDone
  <2>1. \/ UNCHANGED table
        \/ table' = [table EXCEPT ![dataBlobs[pass.i]]
                        = Fact("local_spilled", gen, Locator(OpenSeg, pass.bytes))]
    BY <1>5 DEF PassPut, PassPutDone, PassMark, MarkSpilled
  <2>2. SameFacts(table', table') /\ UNCHANGED <<gen, disk, ck>>
    BY <1>5 DEF SameFacts, PassPut, PassPutDone
  <2>3. CASE UNCHANGED table
    BY <1>1, <2>2, <2>3
  <2> QED
    BY <2>1, <2>2, <2>3, FactNoted
<1>6. CASE StartCheckpoint \/ FlushFails \/ CheckpointFails
  <2>1. SameFacts(table, table') /\ UNCHANGED <<gen, disk>>
    BY <1>6 DEF StartCheckpoint, FlushFails, CheckpointFails, SameFacts
  <2>2. ck'.pc \in {"idle", "flush"}
    <3>1. CASE StartCheckpoint
      <4>1. \E l, f : ck' = [IdleCk EXCEPT !.pc = "flush", !.loc = l, !.freed = f]
        BY <3>1 DEF StartCheckpoint
      <4> QED
        BY <4>1, IdleCkType DEF CkStates
    <3>2. CASE FlushFails \/ CheckpointFails
      BY <3>2, IdleCkType DEF FlushFails, CheckpointFails
    <3> QED
      BY <1>6, <3>1, <3>2
  <2> QED
    BY <2>1, <2>2, FactsKept
<1>7. CASE WriteMetadata
  <2>1. SameFacts(table, table') /\ UNCHANGED <<gen, disk>>
    BY <1>7 DEF WriteMetadata, SameFacts
  <2>2. CkKept
    BY <1>7 DEF WriteMetadata, CkKept, Building, TypeOK, CkStates
  <2> QED
    BY <2>1, <2>2, FactsKept
<1>8. CASE Sweep
  <2>1. SameFacts(table, table') /\ UNCHANGED <<gen, disk>> /\ ck'.pc = "reclaim"
    BY <1>8 DEF Sweep, SameFacts, TypeOK, CkStates
  <2> QED
    BY <2>1, FactsKept
<1>9. CASE Snapshot
  <2>1. PICK F : ck'.table = Forget(table, F) /\ table' = Forget(table, F) /\ ck'.pc = "write"
    <3>1. PICK F : table' = Forget(table, F) /\ \E m \in free : \E d, p, l, f :
                     ck' = [ck EXCEPT !.pc = "write", !.gen = gen, !.clean = cleanNext,
                              !.table = Forget(table, F), !.resident = l, !.meta = m, !.free = f,
                              !.deferred = d, !.punch = p]
      BY <1>9 DEF Snapshot
    <3> QED
      BY <3>1 DEF TypeOK, CkStates
  <2>2. ck'.gen = gen /\ gen' = gen + 1 /\ UNCHANGED disk
    BY <1>9 DEF Snapshot, TypeOK, CkStates
  <2>3. \A s \in Slots : table'[s] = table[s] \/ table'[s] = NoEntry
    BY <2>1 DEF Forget
  <2>4. gen \in Nat /\ \A s \in Slots : table[s].gen \in Nat
    BY DEF TypeOK, Tables, Entry
  <2>5. SnapshotCovers'
    BY <2>1, <2>2, <2>4 DEF SnapshotCovers, Backed
  <2>6. ~NoEntry.durable /\ NoEntry.gen = 0 /\ ~Tracked(NoEntry)
    BY DEF NoEntry, Tracked
  <2> QED
    BY <2>1, <2>2, <2>3, <2>4, <2>5, <2>6 DEF DurableInv, Backed
<1>10. CASE WriteSuperblock
  <2>1. /\ disk'.table = ck.table /\ ck'.table = ck.table /\ ck'.gen = ck.gen
        /\ ck'.pc = "committed" /\ UNCHANGED <<table, gen>> /\ Building
    BY <1>10 DEF WriteSuperblock, TypeOK, CkStates, Building
  <2>2. SnapshotCovers'
    BY <2>1 DEF DurableInv, SnapshotCovers, Backed
  <2> QED
    BY <2>1, <2>2 DEF DurableInv, SnapshotCovers, Backed, Building
<1>11. CASE Commit
  <2> DEFINE durable == CommitDurable(table, ck.gen)
  <2>1. durable \in Tables
    BY <1>0, CommitDurableType DEF TypeOK, CkStates
  <2>2. SameFacts(durable, table')
    <3>1. table' = durable \/ \E V \in SUBSET Evictable(durable, Busy) : table' = Evict(durable, V)
      BY <1>11, VictimsEvictable DEF Commit
    <3> QED
      BY <2>1, <3>1, DropsKeepFacts DEF SameFacts
  <2>3. \A s \in Slots : /\ durable[s].durable = (Tracked(table[s]) /\ (table[s].durable \/ table[s].gen <= ck.gen))
                         /\ Tracked(durable[s]) <=> Tracked(table[s])
                         /\ durable[s].gen = table[s].gen /\ durable[s].remote = table[s].remote
    BY <1>0 DEF CommitDurable, Tables, Entry, Tracked
  <2>4. SnapshotCovers /\ disk.table = ck.table /\ UNCHANGED <<gen, disk>>
    BY <1>11 DEF Commit, DurableInv
  <2>5. ck'.pc \in {"idle", "sweep"}
    <3>1. ck' = IdleCk \/ ck' = [ck EXCEPT !.pc = "sweep"]
      BY <1>11 DEF Commit
    <3> QED
      BY <3>1, IdleCkType DEF TypeOK, CkStates
  <2> HIDE DEF durable
  <2>6. \A s \in Slots : /\ table'[s].durable = (Tracked(table[s]) /\ (table[s].durable \/ table[s].gen <= ck.gen))
                         /\ Tracked(table'[s]) <=> Tracked(table[s])
                         /\ table'[s].gen = table[s].gen /\ table'[s].remote = table[s].remote
    BY <2>2, <2>3 DEF SameFacts
  <2>7. \A s \in Slots : table'[s].durable => Backed(s, disk.table)'
    BY <2>4, <2>6 DEF SnapshotCovers, Backed
  <2> QED
    BY <2>4, <2>5, <2>6, <2>7 DEF DurableInv, Building
<1>12. CASE Reclaim
  <2>1. PICK D \in SUBSET Droppable(table, Busy) :
          \E V \in SUBSET Evictable(DropSpilledLocal(table, D), Busy) :
            table' = Evict(DropSpilledLocal(table, D), V)
    BY <1>12, VictimsEvictable DEF Reclaim
  <2>2. SameFacts(table, DropSpilledLocal(table, D)) /\ DropSpilledLocal(table, D) \in Tables
    BY <1>0, DropsKeepFacts, DestructiveType
  <2>3. SameFacts(DropSpilledLocal(table, D), table')
    BY <2>1, <2>2, DropsKeepFacts
  <2>4. SameFacts(table, table')
    BY <2>2, <2>3 DEF SameFacts
  <2>5. UNCHANGED <<gen, disk>> /\ ck'.pc = "idle"
    BY <1>12 DEF Reclaim, IdleCk
  <2> QED
    BY <2>4, <2>5, FactsKept
<1>13. CASE Crash
  <2>1. \A s \in Slots : table'[s] = NoEntry
                         \/ /\ Tracked(disk.table[s])
                            /\ table'[s].remote = disk.table[s].remote /\ table'[s].gen = 0
                            /\ Tracked(table'[s])
    BY <1>13 DEF Crash, Deserialize, Tracked, Demoted
  <2>2. ~NoEntry.durable /\ NoEntry.gen = 0
    BY DEF NoEntry
  <2>3. gen' \in Nat /\ ck'.pc = "idle" /\ UNCHANGED disk
    BY <1>13 DEF Crash, TypeOK, Disks, IdleCk
  <2> QED
    BY <2>1, <2>2, <2>3 DEF DurableInv, Backed, Building
<1> QED
  <2>1. CASE UNCHANGED vars
    BY <1>1, <2>1 DEF vars
  <2>2. CASE \E b \in Blobs : \/ Allocate(b) \/ WriteDone(b) \/ SpillWriteFills(b)
                             \/ SpillWriteFails(b) \/ WriteFails(b)
                             \/ Discard(b) \/ StartRead(b) \/ EndRead(b)
    BY <1>1, <2>2 DEF Allocate, WriteDone, SpillWriteFills, SpillWriteFails, WriteFails, Lost,
                      Discard, StartRead, EndRead
  <2>3. CASE PassRead \/ PassPutFills \/ PassFails \/ SetCleanShutdown
    BY <1>1, <2>3 DEF PassRead, PassPutFills, PassFails, SetCleanShutdown
  <2> QED
    BY <1>2, <1>3, <1>4, <1>5, <1>6, <1>7, <1>8, <1>9, <1>10, <1>11, <1>12, <1>13, <2>1, <2>2, <2>3
    DEF Next

(***************************************************************************)
(* The two-phase durability rule of blob_residency.hpp, for any number of  *)
(* blobs, slots, checkpoints and crashes, with and without a spill area:   *)
(* whenever an entry counts as durable, and its local bytes may be         *)
(* destroyed, the committed table holds it with the same remote copy.      *)
(***************************************************************************)
THEOREM DurableFactsCommitted == Spec => []DurableIsCommitted
<1>1. DurableInv => DurableIsCommitted
  BY DEF DurableInv, DurableIsCommitted, Backed
<1> QED
  BY <1>1, InitType, TypeStep, DurableInit, DurableStep, PTL DEF Spec

(***************************************************************************)
(* CommittedNotFree is not inductive: it says nothing of the slots that a  *)
(* checkpoint under way is about to free, to take and to commit.  What     *)
(* carries it is that every slot has one owner: a blob that is live (its   *)
(* location was handed out and has not been given back), the metadata of   *)
(* the last checkpoint, or that of the next one.                           *)
(***************************************************************************)
Live == {b \in Blobs : phase[b] \notin {"new", "gone"}}
Distinct(loc, S) == \A b, c \in S : b # c => loc[b] # loc[c]

LiveOwn ==
  /\ Distinct(where, Live)
  /\ \A b \in Live : where[b] \notin free \cup {metaSlot}
  /\ metaSlot \notin free

\* The same of the state a crash falls back to, and of the live free list against it.
DiskNames == {b \in Blobs : disk.loc[b] # NoSlot}
DiskOwn ==
  /\ Distinct(disk.loc, DiskNames)
  /\ \A b \in DiskNames : disk.loc[b] # disk.meta
  /\ CommittedSlots \cap disk.free = {}
  /\ CommittedSlots \cap free = {}
  /\ disk.meta = NoSlot => \A b \in Blobs : disk.loc[b] = NoSlot

(***************************************************************************)
(* A checkpoint under way.  What it took is still where it was, freed      *)
(* slots belong to no live blob, and the slots its free list gives back    *)
(* are neither in use nor free yet (rules 1 to 3 of write_index).          *)
(***************************************************************************)
Taking == ck.pc \in {"flush", "write", "superblock", "committed"}
AfterSnapshot == ck.pc \in {"write", "superblock", "committed"}
TakenNames == {b \in Blobs : ck.loc[b] # NoSlot}

TakenInPlace ==
  Taking => \A b \in TakenNames : ck.loc[b] = where[b] /\ phase[b] \in {"tree", "discard"}

FreedUnused ==
  ck.pc = "flush" => /\ ck.freed \cap (free \cup {metaSlot}) = {}
                     /\ \A b \in Live : where[b] \notin ck.freed

NextOwn ==
  AfterSnapshot =>
    /\ ck.meta \notin free \cup ck.deferred \cup ck.free \cup {metaSlot}
    /\ ck.deferred \cap free = {}
    /\ \A b \in Live : where[b] # ck.meta /\ where[b] \notin ck.deferred
    /\ \A b \in TakenNames : ck.loc[b] \notin ck.free

CommitPoint ==
  /\ Building => ck.meta \notin CommittedSlots
  /\ ck.pc = "committed" => disk.loc = ck.loc /\ disk.meta = ck.meta
  /\ ck.pc # "committed" => disk.meta = metaSlot

SlotsInv == LiveOwn /\ DiskOwn /\ TakenInPlace /\ FreedUnused /\ NextOwn /\ CommitPoint

LEMMA SlotsInit == Init => SlotsInv
<1> SUFFICES ASSUME Init PROVE SlotsInv
  OBVIOUS
<1>1. ck.pc = "idle"
  BY DEF Init, IdleCk
<1>2. Live = {} /\ metaSlot = NoSlot /\ disk = NoDisk /\ free = Slots
  BY DEF Init, Live
<1>3. disk.loc = NoLocations /\ disk.meta = NoSlot /\ disk.free = Slots
  BY <1>2 DEF NoDisk
<1>4. DiskNames = {} /\ CommittedSlots \subseteq {NoSlot}
  BY <1>3 DEF DiskNames, NoLocations, CommittedSlots
<1>5. NoSlot \notin Slots
  BY PackedFileAssumption DEF PackedFileAssumption
<1> QED
  BY <1>1, <1>2, <1>3, <1>4, <1>5
  DEF SlotsInv, LiveOwn, Distinct, DiskOwn, NoLocations, TakenInPlace, Taking, FreedUnused,
      NextOwn, AfterSnapshot, CommitPoint, Building

(***************************************************************************)
(* Most steps hand out no slot and give none back: what is live stays      *)
(* live, and a checkpoint in progress keeps what it took.                  *)
(***************************************************************************)
SlotsSame ==
  /\ UNCHANGED <<free, where, metaSlot, disk>>
  /\ Live' = Live
  /\ \A b \in Blobs : phase[b] \in {"tree", "discard"} => phase'[b] \in {"tree", "discard"}

CkSame ==
  \/ ck' = ck
  \/ ck' = [ck EXCEPT !.pc = "superblock"] /\ ck.pc = "write"
  \/ ck' \in CkStates /\ ck'.pc \in {"idle", "sweep", "reclaim"} /\ ck.pc # "committed"

LEMMA SlotsKept ==
  ASSUME TypeOK, SlotsInv, SlotsSame, CkSame
  PROVE  SlotsInv'
<1>1. LiveOwn' /\ DiskOwn'
  BY DEF SlotsInv, SlotsSame, LiveOwn, DiskOwn, DiskNames, CommittedSlots, Distinct
<1>2. CASE ck' = ck
  BY <1>1, <1>2
  DEF SlotsInv, SlotsSame, TakenInPlace, Taking, TakenNames, FreedUnused, NextOwn, AfterSnapshot,
      CommitPoint, Building, CommittedSlots
<1>3. CASE ck' = [ck EXCEPT !.pc = "superblock"] /\ ck.pc = "write"
  <2>1. /\ ck'.pc = "superblock" /\ ck'.loc = ck.loc /\ ck'.meta = ck.meta
        /\ ck'.free = ck.free /\ ck'.deferred = ck.deferred
    BY <1>3 DEF TypeOK, CkStates
  <2> QED
    BY <1>1, <1>3, <2>1
    DEF SlotsInv, SlotsSame, TakenInPlace, Taking, TakenNames, FreedUnused, NextOwn, AfterSnapshot,
        CommitPoint, Building, CommittedSlots
<1>4. CASE ck' \in CkStates /\ ck'.pc \in {"idle", "sweep", "reclaim"} /\ ck.pc # "committed"
  BY <1>1, <1>4
  DEF SlotsInv, SlotsSame, TakenInPlace, Taking, FreedUnused, NextOwn, AfterSnapshot, CommitPoint,
      Building
<1> QED
  BY <1>2, <1>3, <1>4 DEF CkSame

LEMMA AllocateKeepsSlots ==
  ASSUME TypeOK, SlotsInv, NEW b \in Blobs, Allocate(b)
  PROVE  SlotsInv'
<1>1. PICK s \in free : free' = free \ {s} /\ where' = [where EXCEPT ![b] = s]
  BY DEF Allocate
<1>2. /\ phase[b] = "new" /\ phase'[b] \notin {"new", "gone", "tree", "discard"}
      /\ \A c \in Blobs \ {b} : phase'[c] = phase[c] /\ where'[c] = where[c]
      /\ where'[b] = s
  BY <1>1 DEF Allocate, TypeOK
<1>3. Live' = Live \cup {b} /\ b \notin Live
  BY <1>2 DEF Live
<1>4. UNCHANGED <<metaSlot, disk, ck>>
  BY DEF Allocate
<1>5. s \notin CommittedSlots /\ s # metaSlot
  BY DEF SlotsInv, DiskOwn, LiveOwn
<1>6. \A c \in Live : where'[c] = where[c] /\ where[c] # s
  BY <1>2, <1>3 DEF SlotsInv, LiveOwn, Live
<1>7. LiveOwn'
  BY <1>1, <1>2, <1>3, <1>4, <1>5, <1>6 DEF SlotsInv, LiveOwn, Distinct
<1>8. DiskOwn'
  BY <1>1, <1>4 DEF SlotsInv, DiskOwn, DiskNames, CommittedSlots, Distinct
<1>9. TakenInPlace'
  BY <1>2, <1>4 DEF SlotsInv, TakenInPlace, Taking, TakenNames
<1>10. FreedUnused'
  BY <1>1, <1>2, <1>3, <1>4, <1>6 DEF SlotsInv, FreedUnused
<1>11. NextOwn'
  BY <1>1, <1>2, <1>3, <1>4, <1>6 DEF SlotsInv, NextOwn, AfterSnapshot, TakenNames
<1>12. CommitPoint'
  BY <1>4 DEF SlotsInv, CommitPoint, Building, CommittedSlots
<1> QED
  BY <1>7, <1>8, <1>9, <1>10, <1>11, <1>12 DEF SlotsInv

\* The blobs a checkpoint frees are live until it takes them over.
LEMMA StartKeepsSlots ==
  ASSUME TypeOK, SlotsInv, StartCheckpoint
  PROVE  SlotsInv'
<1>1. /\ ck.pc = "idle" /\ ck'.pc = "flush"
      /\ ck'.loc = [b \in Blobs |-> IF phase[b] = "tree" THEN where[b] ELSE NoSlot]
      /\ ck'.freed = {where[b] : b \in {c \in Blobs : phase[c] = "discard"}}
  BY IdleCkType DEF StartCheckpoint, CkStates
<1>2. \A b \in Blobs : phase'[b] = IF phase[b] = "discard" THEN "gone" ELSE phase[b]
  BY DEF StartCheckpoint
<1>3. UNCHANGED <<free, where, metaSlot, disk>>
  BY DEF StartCheckpoint
<1>4. Live' \subseteq Live /\ \A b \in Live' : phase[b] # "discard"
  BY <1>2 DEF Live
<1>5. LiveOwn' /\ DiskOwn'
  BY <1>3, <1>4 DEF SlotsInv, LiveOwn, DiskOwn, DiskNames, CommittedSlots, Distinct
<1>6. TakenInPlace'
  BY <1>1, <1>2, <1>3 DEF TakenInPlace, TakenNames
<1>7. FreedUnused'
  <2>1. \A b \in Blobs : phase[b] = "discard" => b \in Live
    BY DEF Live
  <2>2. ck'.freed \cap (free \cup {metaSlot}) = {}
    BY <1>1, <2>1 DEF SlotsInv, LiveOwn
  <2>3. ASSUME NEW c \in Live' PROVE where[c] \notin ck'.freed
    <3>1. \A b \in Blobs : phase[b] = "discard" => b # c /\ b \in Live /\ c \in Live
      BY <1>4, <2>1
    <3>2. \A b \in Blobs : phase[b] = "discard" => where[b] # where[c]
      BY <3>1 DEF SlotsInv, LiveOwn, Distinct
    <3> QED
      BY <1>1, <3>2
  <2> QED
    BY <1>3, <2>2, <2>3 DEF FreedUnused
<1>8. NextOwn' /\ CommitPoint'
  BY <1>1, <1>3 DEF SlotsInv, NextOwn, AfterSnapshot, CommitPoint, Building
<1> QED
  BY <1>5, <1>6, <1>7, <1>8 DEF SlotsInv

(***************************************************************************)
(* The synchronous allocator block.  The slots it defers are those freed   *)
(* and the superseded metadata: none is live, free or taken, so the free   *)
(* list it persists and the one it keeps both stay clear of everything     *)
(* that the old and the new checkpoint lead to.                            *)
(***************************************************************************)
LEMMA SnapshotKeepsSlots ==
  ASSUME TypeOK, SlotsInv, Snapshot
  PROVE  SlotsInv'
<1> DEFINE tracked  == {s \in ck.freed : Tracked(table[s])}
           deferred == (ck.freed \ tracked) \cup Superseded
<1>1. PICK m \in free :
        /\ free' = free \ {m}
        /\ ck'.pc = "write" /\ ck'.meta = m /\ ck'.free = (free \ {m}) \cup deferred
        /\ ck'.deferred = deferred /\ ck'.loc = ck.loc
  <2>1. PICK m \in free :
          /\ free' = free \ {m}
          /\ ck' = [ck EXCEPT
               !.pc = "write", !.gen = gen, !.clean = cleanNext,
               !.table = Forget(table, tracked),
               !.resident = Settle(resident, Cardinality(ForgetLocal(table, tracked))),
               !.meta = m, !.free = free' \cup deferred, !.deferred = deferred,
               !.punch = ForgetPunchable(table, tracked, Busy)]
    BY DEF Snapshot
  <2> QED
    BY <2>1 DEF TypeOK, CkStates
<1>2. deferred \subseteq ck.freed \cup ({metaSlot} \ {NoSlot})
  BY DEF Superseded
<1> HIDE DEF deferred
<1>3. ck.pc = "flush" /\ UNCHANGED <<where, phase, metaSlot, disk>>
  BY DEF Snapshot
<1>4. disk.meta = metaSlot
  BY <1>3 DEF SlotsInv, CommitPoint
<1>5. m \notin CommittedSlots /\ m # metaSlot /\ metaSlot \notin free
  BY DEF SlotsInv, DiskOwn, LiveOwn
<1>6. ck.freed \cap (free \cup {metaSlot}) = {} /\ \A b \in Live : where[b] \notin ck.freed
  BY <1>3 DEF SlotsInv, FreedUnused
<1>7. deferred \cap free = {} /\ \A b \in Live : where[b] \notin deferred
  BY <1>2, <1>5, <1>6 DEF SlotsInv, LiveOwn
<1>8. \A b \in TakenNames : ck.loc[b] = where[b] /\ phase[b] \in {"tree", "discard"} /\ b \in Live
  BY <1>3 DEF SlotsInv, TakenInPlace, Taking, TakenNames, Live
<1>9. Live' = Live /\ TakenNames' = TakenNames
  BY <1>1, <1>3 DEF Live, TakenNames
<1>10. LiveOwn' /\ DiskOwn'
  BY <1>1, <1>3, <1>9 DEF SlotsInv, LiveOwn, DiskOwn, DiskNames, CommittedSlots, Distinct
<1>11. TakenInPlace' /\ FreedUnused'
  BY <1>1, <1>3, <1>8, <1>9 DEF TakenInPlace, FreedUnused
<1>12. NextOwn'
  <2>1. m \notin deferred
    BY <1>7
  <2>2. \A b \in Live : where[b] # m /\ where[b] \notin free
    BY DEF SlotsInv, LiveOwn
  <2> QED
    BY <1>1, <1>3, <1>5, <1>7, <1>8, <1>9, <2>1, <2>2 DEF NextOwn
<1>13. CommitPoint'
  BY <1>1, <1>3, <1>4, <1>5 DEF CommitPoint, CommittedSlots
<1> QED
  BY <1>10, <1>11, <1>12, <1>13 DEF SlotsInv

LEMMA RollbackKeepsSlots ==
  ASSUME TypeOK, SlotsInv, CheckpointFails
  PROVE  SlotsInv'
<1>1. /\ Building /\ AfterSnapshot /\ free' = free \cup {ck.meta} /\ ck'.pc = "idle"
      /\ UNCHANGED <<where, phase, metaSlot, disk>>
  BY IdleCkType DEF CheckpointFails, Building, AfterSnapshot
<1>2. Live' = Live
  BY <1>1 DEF Live
<1>3. LiveOwn'
  BY <1>1, <1>2 DEF SlotsInv, LiveOwn, NextOwn, Distinct
<1>4. DiskOwn'
  BY <1>1 DEF SlotsInv, DiskOwn, DiskNames, CommitPoint, CommittedSlots, Distinct
<1>5. TakenInPlace' /\ FreedUnused' /\ NextOwn' /\ CommitPoint'
  BY <1>1 DEF SlotsInv, TakenInPlace, Taking, FreedUnused, NextOwn, AfterSnapshot, CommitPoint, Building
<1> QED
  BY <1>3, <1>4, <1>5 DEF SlotsInv

\* The commit point: the slots the new superblock leads to are live ones and the new metadata.
LEMMA SuperblockKeepsSlots ==
  ASSUME TypeOK, SlotsInv, WriteSuperblock
  PROVE  SlotsInv'
<1>1. /\ ck.pc = "superblock" /\ ck'.pc = "committed"
      /\ ck'.loc = ck.loc /\ ck'.meta = ck.meta /\ ck'.free = ck.free /\ ck'.deferred = ck.deferred
      /\ disk'.loc = ck.loc /\ disk'.meta = ck.meta /\ disk'.free = ck.free
      /\ UNCHANGED <<free, where, phase, metaSlot>>
  BY DEF WriteSuperblock, TypeOK, CkStates
<1>2. Live' = Live /\ TakenNames' = TakenNames /\ DiskNames' = TakenNames
  BY <1>1 DEF Live, TakenNames, DiskNames
<1>3. \A b \in TakenNames : ck.loc[b] = where[b] /\ b \in Live
  BY <1>1 DEF SlotsInv, TakenInPlace, Taking, TakenNames, Live
<1>4. /\ ck.meta \notin free \cup ck.deferred \cup ck.free \cup {metaSlot}
      /\ ck.deferred \cap free = {}
      /\ \A b \in Live : where[b] # ck.meta /\ where[b] \notin ck.deferred
      /\ \A b \in TakenNames : ck.loc[b] \notin ck.free
  BY <1>1 DEF SlotsInv, NextOwn, AfterSnapshot
<1>5. ck.meta \in Slots /\ ck.meta # NoSlot /\ ck.free \in SUBSET Slots /\ NoSlot \notin Slots
  BY <1>1, PackedFileAssumption DEF TypeOK, CkStates, PackedFileAssumption
<1>6. LiveOwn'
  BY <1>1, <1>2 DEF SlotsInv, LiveOwn, Distinct
<1>7. DiskOwn'
  <2>1. Distinct(ck.loc, TakenNames)
    BY <1>3 DEF SlotsInv, LiveOwn, Distinct
  <2>2. \A b \in TakenNames : ck.loc[b] # ck.meta /\ ck.loc[b] \notin free
    BY <1>3, <1>4 DEF SlotsInv, LiveOwn
  <2>3. \A b \in Blobs : ck.loc[b] \notin ck.free /\ ck.loc[b] \notin free
    <3>1. free \subseteq Slots
      BY DEF TypeOK
    <3> QED
      BY <1>4, <1>5, <2>2, <3>1 DEF TakenNames
  <2>4. CommittedSlots' = {ck.meta} \cup {ck.loc[b] : b \in Blobs}
    BY <1>1 DEF CommittedSlots
  <2> QED
    BY <1>1, <1>2, <1>4, <1>5, <2>1, <2>2, <2>3, <2>4 DEF DiskOwn, Distinct
<1>8. TakenInPlace' /\ FreedUnused' /\ NextOwn' /\ CommitPoint'
  BY <1>1, <1>2, <1>4
  DEF SlotsInv, TakenInPlace, Taking, FreedUnused, NextOwn, AfterSnapshot, CommitPoint, Building
<1> QED
  BY <1>6, <1>7, <1>8 DEF SlotsInv

\* After the commit, what it supersedes belongs to nothing that is live or committed.
LEMMA CommitKeepsSlots ==
  ASSUME TypeOK, SlotsInv, Commit
  PROVE  SlotsInv'
<1>1. /\ ck.pc = "committed" /\ free' = free \cup ck.deferred /\ metaSlot' = ck.meta
      /\ UNCHANGED <<where, phase, disk>>
  BY DEF Commit
<1>2. ck'.pc \in {"idle", "sweep"}
  <2>1. ck' = IdleCk \/ ck' = [ck EXCEPT !.pc = "sweep"]
    BY DEF Commit
  <2> QED
    BY <2>1, IdleCkType DEF TypeOK, CkStates
<1>3. Live' = Live
  BY <1>1 DEF Live
<1>4. /\ ck.meta \notin free \cup ck.deferred
      /\ \A b \in Live : where[b] # ck.meta /\ where[b] \notin ck.deferred
  BY <1>1 DEF SlotsInv, NextOwn, AfterSnapshot
<1>5. LiveOwn'
  BY <1>1, <1>3, <1>4 DEF SlotsInv, LiveOwn, Distinct
<1>6. DiskOwn'
  <2>1. disk.loc = ck.loc /\ disk.meta = ck.meta
    BY <1>1 DEF SlotsInv, CommitPoint
  <2>2. \A b \in TakenNames : ck.loc[b] = where[b] /\ b \in Live
    BY <1>1 DEF SlotsInv, TakenInPlace, Taking, TakenNames, Live
  <2>3. ck.deferred \subseteq Slots /\ NoSlot \notin Slots
    BY PackedFileAssumption DEF TypeOK, CkStates, PackedFileAssumption
  <2>4. \A b \in Blobs : ck.loc[b] \notin ck.deferred
    BY <1>4, <2>2, <2>3 DEF TakenNames
  <2>5. CommittedSlots \cap ck.deferred = {}
    BY <1>4, <2>1, <2>4 DEF CommittedSlots
  <2> QED
    BY <1>1, <2>5 DEF SlotsInv, DiskOwn, DiskNames, CommittedSlots, Distinct
<1>7. TakenInPlace' /\ FreedUnused' /\ NextOwn' /\ CommitPoint'
  BY <1>1, <1>2
  DEF SlotsInv, TakenInPlace, Taking, FreedUnused, NextOwn, AfterSnapshot, CommitPoint, Building
<1> QED
  BY <1>5, <1>6, <1>7 DEF SlotsInv

\* A crash makes the committed state the live one.
LEMMA CrashKeepsSlots ==
  ASSUME TypeOK, SlotsInv, Crash
  PROVE  SlotsInv'
<1>1. /\ where' = disk.loc /\ free' = disk.free /\ metaSlot' = disk.meta /\ UNCHANGED disk
      /\ ck'.pc = "idle"
      /\ phase' = [b \in Blobs |-> IF disk.loc[b] = NoSlot THEN "new" ELSE "tree"]
  BY IdleCkType DEF Crash
<1>2. Live' = DiskNames
  BY <1>1 DEF Live, DiskNames
<1>3. \A b \in DiskNames : disk.loc[b] \in CommittedSlots
  BY DEF DiskNames, CommittedSlots
<1>4. disk.meta \in CommittedSlots
  BY DEF CommittedSlots
<1>5. LiveOwn'
  BY <1>1, <1>2, <1>3, <1>4 DEF SlotsInv, LiveOwn, DiskOwn, Distinct
<1>6. DiskOwn'
  BY <1>1 DEF SlotsInv, DiskOwn, DiskNames, CommittedSlots, Distinct
<1>7. TakenInPlace' /\ FreedUnused' /\ NextOwn' /\ CommitPoint'
  BY <1>1 DEF SlotsInv, TakenInPlace, Taking, FreedUnused, NextOwn, AfterSnapshot, CommitPoint, Building
<1> QED
  BY <1>5, <1>6, <1>7 DEF SlotsInv

LEMMA SlotsStep == TypeOK /\ SlotsInv /\ [Next]_vars => SlotsInv'
<1> SUFFICES ASSUME TypeOK, SlotsInv, [Next]_vars PROVE SlotsInv'
  OBVIOUS
<1>1. CASE UNCHANGED <<free, where, phase, metaSlot, disk, ck>>
  BY <1>1, SlotsKept DEF SlotsSame, CkSame, Live
<1>2. ASSUME NEW b \in Blobs,
             \/ WriteDone(b) \/ SpillWrite(b) \/ SpillWriteFills(b) \/ SpillWriteDone(b)
             \/ SpillWriteFails(b) \/ WriteFails(b) \/ HandOn(b) \/ Discard(b)
      PROVE  SlotsInv'
  <2>1. UNCHANGED <<free, where, metaSlot, disk, ck>>
    BY <1>2 DEF WriteDone, SpillWrite, SpillWriteFills, SpillWriteDone, SpillWriteFails, WriteFails,
                Lost, HandOn, Discard
  <2>2. /\ phase[b] \notin {"new", "gone"}
        /\ phase'[b] \notin {"new", "gone"}
        /\ phase[b] \in {"tree", "discard"} => phase'[b] \in {"tree", "discard"}
        /\ \A c \in Blobs \ {b} : phase'[c] = phase[c]
    BY <1>2 DEF WriteDone, SpillWrite, SpillWriteFills, SpillWriteDone, SpillWriteFails, WriteFails,
                Lost, HandOn, Discard, BornRemote, TypeOK
  <2>3. Live' = Live
    BY <2>2 DEF Live
  <2>4. SlotsSame /\ CkSame
    BY <2>1, <2>2, <2>3 DEF SlotsSame, CkSame
  <2> QED
    BY <2>4, SlotsKept
<1>3. CASE FlushFails \/ WriteMetadata \/ Sweep \/ Reclaim
  <2>1. SlotsSame
    BY <1>3 DEF FlushFails, WriteMetadata, Sweep, Reclaim, SlotsSame, Live
  <2>2. CkSame
    BY <1>3, IdleCkType DEF FlushFails, WriteMetadata, Sweep, Reclaim, CkSame, TypeOK, CkStates
  <2> QED
    BY <2>1, <2>2, SlotsKept
<1>4. CASE UNCHANGED vars
  BY <1>1, <1>4 DEF vars
<1>5. CASE \E b \in Blobs : StartRead(b) \/ EndRead(b) \/ NoteUploaded(b)
  BY <1>1, <1>5 DEF StartRead, EndRead, NoteUploaded
<1>6. CASE PassRead \/ PassPut \/ PassPutFills \/ PassPutDone \/ PassFails \/ SetCleanShutdown
  BY <1>1, <1>6 DEF PassRead, PassPut, PassPutFills, PassPutDone, PassFails, SetCleanShutdown
<1> QED
  BY <1>2, <1>3, <1>4, <1>5, <1>6, AllocateKeepsSlots, StartKeepsSlots, SnapshotKeepsSlots,
     RollbackKeepsSlots, SuperblockKeepsSlots, CommitKeepsSlots, CrashKeepsSlots
  DEF Next

(***************************************************************************)
(* Rule 2 of write_index, for any number of blobs, slots, checkpoints and  *)
(* crashes and with every failure of a checkpoint: no write can destroy    *)
(* what a crash would fall back to, because no slot that the committed     *)
(* superblock leads to is ever in the live free list.                      *)
(***************************************************************************)
THEOREM CommittedNeverFree == Spec => []CommittedNotFree
<1>1. SlotsInv => CommittedNotFree
  BY DEF SlotsInv, DiskOwn, CommittedNotFree
<1> QED
  BY <1>1, InitType, TypeStep, SlotsInit, SlotsStep, PTL DEF Spec

-----------------------------------------------------------------------------
(***************************************************************************)
(* What lies at a slot: the bytes somebody relies on stay in place through *)
(* every write, eviction, punch and checkpoint.                            *)
(***************************************************************************)

(***************************************************************************)
(* The regime of these theorems.  Outside it the code does otherwise: with *)
(* a spill area, a tree that frees blobs with no entry lets the pass mark  *)
(* a recycled offset; and where blobs are uploaded, a table believed after *)
(* a clean shutdown claims local bytes that an eviction has punched since. *)
(***************************************************************************)
Disciplined == (HasSpill => ~FreeUntracked) /\ (CleanShutdown => Uploadable = {})

(***************************************************************************)
(* Without a spill area nothing is ever spilled, and where nothing is      *)
(* uploaded there is nothing to evict; a clean snapshot needs an orderly   *)
(* teardown, and the superblock says of itself what the snapshot said.     *)
(***************************************************************************)
NoUploads(t) == \A s \in Slots : t[s].state \notin {"local_uploaded", "remote_uploaded"}
NoSpills(t) == \A s \in Slots : t[s].state \notin {"local_spilled", "remote_spilled"}

StatesInv ==
  /\ Uploadable = {} => NoUploads(table) /\ NoUploads(ck.table) /\ NoUploads(disk.table)
  /\ ~HasSpill => /\ NoSpills(table) /\ NoSpills(ck.table) /\ NoSpills(disk.table)
                  /\ pass.pc = "off"
                  /\ \A b \in Blobs : phase[b] \notin {"diverting", "nospace"}
  /\ cleanNext \/ ck.clean \/ disk.clean => CleanShutdown
  /\ ck.pc \in {"committed", "sweep", "reclaim"} => disk.clean = ck.clean

LEMMA StatesInit == Init => StatesInv
BY DEF Init, StatesInv, NoUploads, NoSpills, NoDisk, IdleCk, NoEntry, PassOff

\* An eviction makes no spilled entry, and no uploaded one where there was none.
Evicted(t, u) == (NoUploads(t) => NoUploads(u)) /\ (NoSpills(t) => NoSpills(u))

LEMMA EvictStates ==
  \A t \in Tables : \A V \in SUBSET Evictable(t, Busy) : Evicted(t, Evict(t, V))
BY DEF Evicted, Evict, Evictable, NoUploads, NoSpills, Tables, Entry

LEMMA StatesStep == TypeOK /\ StatesInv /\ [Next]_vars => StatesInv'
<1> SUFFICES ASSUME TypeOK, StatesInv, [Next]_vars PROVE StatesInv'
  OBVIOUS
<1>0. table \in Tables /\ \A s \in Slots : table[s] \in Entry(Content)
  BY DEF TypeOK, Tables
<1>1. CASE /\ UNCHANGED <<table, ck, disk>> /\ (cleanNext' => cleanNext \/ CleanShutdown)
           /\ pass.pc = "off" => pass'.pc = "off"
           /\ ~HasSpill => \A b \in Blobs : phase'[b] \in {"diverting", "nospace"} => phase'[b] = phase[b]
  BY <1>1 DEF StatesInv
<1>2. ASSUME NEW t \in Tables, NEW r, NEW data, NEW pending, MaybeEvict(t, r, data, pending)
      PROVE  Evicted(t, table') /\ (~HasSpill => pass' = pass)
  <2>1. PICK V \in IF OverSoft(r) THEN Victims(t, r) ELSE {{}} :
          table' = Evict(t, V) /\ (~HasSpill => pass' = pass)
    BY <1>2 DEF MaybeEvict
  <2>2. V \in SUBSET Evictable(t, Busy)
    BY VictimsEvictable
  <2> QED
    BY <2>1, <2>2, EvictStates
<1>3. ASSUME NEW b \in Blobs, HandOn(b)
      PROVE  StatesInv'
  <2>1. \E r, d, p : MaybeEvict(table, r, d, p)
    BY <1>3 DEF HandOn
  <2>2. Evicted(table, table') /\ (~HasSpill => pass' = pass)
    BY <1>0, <1>2, <2>1
  <2>3. \A c \in Blobs : phase'[c] \in {"diverting", "nospace"} => phase'[c] = phase[c]
    BY <1>3 DEF HandOn, TypeOK
  <2>4. UNCHANGED <<ck, cleanNext, disk>>
    BY <1>3 DEF HandOn
  <2> QED
    BY <2>2, <2>3, <2>4 DEF StatesInv, Evicted
<1>4. ASSUME NEW b \in Blobs, NoteUploaded(b)
      PROVE  StatesInv'
  <2> DEFINE t == MarkUploaded(table, where[b], gen, Object(Own(b)))
  <2>1. t \in Tables
    BY MarkType, RemoteType, OwnType DEF TypeOK
  <2>2. NoSpills(table) => NoSpills(t)
    BY <1>0 DEF NoSpills, MarkUploaded, Fact, TypeOK, Tables
  <2>3. \E r, d, p : MaybeEvict(t, r, d, p)
    BY <1>4 DEF NoteUploaded
  <2> HIDE DEF t
  <2>4. Evicted(t, table') /\ (~HasSpill => pass' = pass)
    BY <1>2, <2>1, <2>3
  <2>5. Uploadable # {} /\ UNCHANGED <<phase, ck, cleanNext, disk>>
    BY <1>4 DEF NoteUploaded
  <2> QED
    BY <2>2, <2>4, <2>5 DEF StatesInv, Evicted
<1>5. ASSUME NEW b \in Blobs, SpillWrite(b) \/ SpillWriteDone(b)
      PROVE  StatesInv'
  <2>1. HasSpill
    BY <1>5 DEF SpillWrite, SpillWriteDone, StatesInv
  <2>2. NoUploads(table) => NoUploads(table')
    BY <1>0, <1>5 DEF SpillWrite, SpillWriteDone, BornRemote, MarkSpilledRemote, Fact, NoUploads, TypeOK, Tables
  <2>3. UNCHANGED <<ck, cleanNext, disk>>
    BY <1>5 DEF SpillWrite, SpillWriteDone
  <2> QED
    BY <2>1, <2>2, <2>3 DEF StatesInv
<1>6. CASE PassPut \/ PassPutDone
  <2>1. HasSpill
    BY <1>6 DEF PassPut, PassPutDone, StatesInv
  <2>2. NoUploads(table) => NoUploads(table')
    BY <1>0, <1>6 DEF PassPut, PassPutDone, PassMark, MarkSpilled, Fact, NoUploads, TypeOK, Tables
  <2>3. UNCHANGED <<ck, cleanNext, disk>>
    BY <1>6 DEF PassPut, PassPutDone
  <2> QED
    BY <2>1, <2>2, <2>3 DEF StatesInv
<1>7. CASE StartCheckpoint \/ FlushFails \/ CheckpointFails
  <2>1. UNCHANGED <<table, pass, cleanNext, disk>>
    BY <1>7 DEF StartCheckpoint, FlushFails, CheckpointFails
  <2>2. ck'.pc \in {"idle", "flush"} /\ ck'.table = [s \in Slots |-> NoEntry] /\ ~ck'.clean
    <3>1. ck' = IdleCk \/ \E l, f : ck' = [IdleCk EXCEPT !.pc = "flush", !.loc = l, !.freed = f]
      BY <1>7 DEF StartCheckpoint, FlushFails, CheckpointFails
    <3>2. IdleCk.table = [s \in Slots |-> NoEntry] /\ ~IdleCk.clean /\ IdleCk.pc = "idle"
      BY DEF IdleCk
    <3> QED
      BY <3>1, <3>2, IdleCkType DEF CkStates
  <2>3. NoUploads(ck'.table) /\ NoSpills(ck'.table)
    BY <2>2 DEF NoUploads, NoSpills, NoEntry
  <2>4. \A b \in Blobs : phase'[b] \in {"diverting", "nospace"} => phase'[b] = phase[b]
    BY <1>7 DEF StartCheckpoint, FlushFails, CheckpointFails
  <2> QED
    BY <2>1, <2>2, <2>3, <2>4 DEF StatesInv
<1>8. CASE Snapshot
  <2>1. PICK F : /\ ck'.table = Forget(table, F) /\ table' = Forget(table, F)
                 /\ ck'.pc = "write" /\ ck'.clean = cleanNext
    <3>1. PICK F : table' = Forget(table, F) /\ \E m \in free : \E d, p, l, f :
                     ck' = [ck EXCEPT !.pc = "write", !.gen = gen, !.clean = cleanNext,
                              !.table = Forget(table, F), !.resident = l, !.meta = m, !.free = f,
                              !.deferred = d, !.punch = p]
      BY <1>8 DEF Snapshot
    <3> QED
      BY <3>1 DEF TypeOK, CkStates
  <2>2. (NoUploads(table) => NoUploads(table')) /\ (NoSpills(table) => NoSpills(table'))
    BY <2>1 DEF Forget, NoUploads, NoSpills, NoEntry
  <2>3. UNCHANGED <<phase, pass, disk>> /\ ~cleanNext'
    BY <1>8 DEF Snapshot
  <2> QED
    BY <2>1, <2>2, <2>3 DEF StatesInv
<1>9. CASE WriteMetadata \/ Sweep
  <2>1. /\ ck'.table = ck.table /\ ck'.clean = ck.clean
        /\ ck'.pc \in {"superblock", "reclaim"} /\ (ck'.pc = "reclaim" => ck.pc = "sweep")
        /\ UNCHANGED <<phase, table, pass, cleanNext, disk>>
    BY <1>9 DEF WriteMetadata, Sweep, TypeOK, CkStates
  <2> QED
    BY <2>1 DEF StatesInv
<1>10. CASE WriteSuperblock
  <2>1. /\ ck'.table = ck.table /\ ck'.clean = ck.clean /\ ck'.pc = "committed"
        /\ disk'.table = ck.table /\ disk'.clean = ck.clean
        /\ UNCHANGED <<phase, table, pass, cleanNext>>
    BY <1>10 DEF WriteSuperblock, TypeOK, CkStates
  <2> QED
    BY <2>1 DEF StatesInv
<1>11. CASE Commit
  <2> DEFINE durable == CommitDurable(table, ck.gen)
  <2>1. durable \in Tables /\ Evicted(table, durable)
    <3>1. durable \in Tables
      BY <1>0, CommitDurableType DEF TypeOK, CkStates
    <3> QED
      BY <1>0, <3>1 DEF CommitDurable, Evicted, NoUploads, NoSpills, Entry
  <2>2. table' = durable \/ \E V \in SUBSET Evictable(durable, Busy) : table' = Evict(durable, V)
    BY <1>11, VictimsEvictable DEF Commit
  <2> HIDE DEF durable
  <2>3. Evicted(table, table')
    BY <2>1, <2>2, EvictStates DEF Evicted
  <2>4. ck' = IdleCk \/ ck' = [ck EXCEPT !.pc = "sweep"]
    BY <1>11 DEF Commit
  <2>5. ck.pc = "committed" /\ UNCHANGED <<phase, pass, cleanNext, disk>>
    BY <1>11 DEF Commit
  <2>6. CASE ck' = IdleCk
    <3>1. ck'.pc = "idle" /\ ~ck'.clean /\ NoUploads(ck'.table) /\ NoSpills(ck'.table)
      BY <2>6 DEF IdleCk, NoUploads, NoSpills, NoEntry
    <3> QED
      BY <2>3, <2>5, <3>1 DEF StatesInv, Evicted
  <2>7. CASE ck' = [ck EXCEPT !.pc = "sweep"]
    <3>1. ck'.pc = "sweep" /\ ck'.clean = ck.clean /\ ck'.table = ck.table
      BY <2>7 DEF TypeOK, CkStates
    <3> QED
      BY <2>3, <2>5, <3>1 DEF StatesInv, Evicted
  <2> QED
    BY <2>4, <2>6, <2>7
<1>12. CASE Reclaim
  <2>1. PICK D \in SUBSET Droppable(table, Busy) :
          \E V \in SUBSET Evictable(DropSpilledLocal(table, D), Busy) :
            table' = Evict(DropSpilledLocal(table, D), V)
    BY <1>12, VictimsEvictable DEF Reclaim
  <2> DEFINE u == DropSpilledLocal(table, D)
  <2>2. u \in Tables /\ Evicted(table, u)
    <3>1. u \in Tables
      BY <1>0, DestructiveType
    <3> QED
      BY <1>0, <3>1 DEF DropSpilledLocal, Droppable, Evicted, NoUploads, NoSpills, Entry
  <2>3. PICK V \in SUBSET Evictable(u, Busy) : table' = Evict(u, V)
    BY <2>1
  <2> HIDE DEF u
  <2>4. Evicted(table, table')
    BY <2>2, <2>3, EvictStates DEF Evicted
  <2>5. /\ ck'.pc = "idle" /\ ~ck'.clean /\ NoUploads(ck'.table) /\ NoSpills(ck'.table)
        /\ UNCHANGED <<phase, pass, cleanNext, disk>>
    BY <1>12 DEF Reclaim, IdleCk, NoUploads, NoSpills, NoEntry
  <2> QED
    BY <2>4, <2>5 DEF StatesInv, Evicted
<1>13. CASE Crash
  <2>1. disk.table \in Tables /\ table' = Deserialize(disk.table, disk.clean) /\ UNCHANGED disk
    BY <1>13 DEF Crash, TypeOK, Disks
  <2>2. (NoUploads(disk.table) => NoUploads(table')) /\ (NoSpills(disk.table) => NoSpills(table'))
    BY <2>1 DEF Deserialize, Demoted, NoUploads, NoSpills, NoEntry, Tables, Entry, Tracked
  <2>3. ck'.pc = "idle" /\ ~ck'.clean /\ NoUploads(ck'.table) /\ NoSpills(ck'.table)
    BY <1>13 DEF Crash, IdleCk, NoUploads, NoSpills, NoEntry
  <2>4. ~cleanNext' /\ pass'.pc = "off" /\ \A b \in Blobs : phase'[b] \in {"new", "tree"}
    BY <1>13 DEF Crash, PassOff
  <2> QED
    BY <2>1, <2>2, <2>3, <2>4 DEF StatesInv
<1> QED
  <2>1. CASE UNCHANGED vars
    BY <1>1, <2>1 DEF vars
  <2>2. CASE \E b \in Blobs : \/ Allocate(b) \/ WriteDone(b) \/ SpillWriteFills(b) \/ SpillWriteFails(b)
                             \/ WriteFails(b) \/ Discard(b) \/ StartRead(b) \/ EndRead(b)
    <3>1. ~HasSpill => \A b \in Blobs : phase'[b] \in {"diverting", "nospace"} => phase'[b] = phase[b]
      BY <2>2 DEF Allocate, WriteDone, SpillWriteFills, SpillWriteFails, WriteFails, Lost, Discard,
                  StartRead, EndRead, TypeOK
    <3>2. UNCHANGED <<table, pass, ck, cleanNext, disk>>
      BY <2>2 DEF Allocate, WriteDone, SpillWriteFills, SpillWriteFails, WriteFails, Lost, Discard,
                  StartRead, EndRead
    <3> QED
      BY <1>1, <3>1, <3>2
  <2>3. CASE PassRead \/ PassPutFills \/ PassFails \/ SetCleanShutdown
    <3>1. UNCHANGED <<phase, table, ck, disk>> /\ (cleanNext' => cleanNext \/ CleanShutdown)
      BY <2>3 DEF PassRead, PassPutFills, PassFails, SetCleanShutdown
    <3>2. pass.pc = "off" => pass'.pc = "off"
      BY <2>3 DEF PassRead, PassPutFills, PassFails, SetCleanShutdown, PassOff
    <3> QED
      BY <1>1, <3>1, <3>2
  <2> QED
    BY <1>3, <1>4, <1>5, <1>6, <1>7, <1>8, <1>9, <1>10, <1>11, <1>12, <1>13, <2>1, <2>2, <2>3
    DEF Next
-----------------------------------------------------------------------------
\* What has its bytes, or whatever its failed write left: the blobs whose write has returned.
Published == {b \in Blobs : phase[b] \in {"written", "tree", "discard"}}

\* What a reopened file serves for a blob at slot s, when the table it reads back is t.
Holds(t, clean, s, b) ==
  /\ Tracked(t[s]) => t[s].remote.bytes = b
  /\ ~Tracked(t[s]) \/ (clean /\ HasLocalBytes(t[s])) => file[s] = b

(***************************************************************************)
(* An entry keeps its slot out of the allocator and away from metadata:    *)
(* what TrackedNotFree says, of the live table and of the two persisted.   *)
(***************************************************************************)
TrackedOwn ==
  /\ \A s \in Slots : Tracked(table[s]) =>
       /\ s \notin free \cup {metaSlot}
       /\ AfterSnapshot => s # ck.meta /\ s \notin ck.deferred
  /\ AfterSnapshot => \A s \in Slots : Tracked(ck.table[s]) => s \notin ck.free \cup {ck.meta}
  /\ \A s \in Slots : Tracked(disk.table[s]) => s \notin disk.free \cup {disk.meta}

\* Where only tracked blobs are freed, a checkpoint defers no slot but the superseded metadata.
FreedTracked ==
  ~FreeUntracked =>
    /\ \A b \in Blobs : phase[b] = "discard" => Tracked(table[where[b]])
    /\ ck.pc = "flush" => \A s \in ck.freed : Tracked(table[s])
    /\ AfterSnapshot => ck.deferred \subseteq {metaSlot}

\* ... so with a spill area no slot of _data_blobs, which the pass walks, is ever recycled.
DataOwn ==
  HasSpill => \A i \in DOMAIN dataBlobs :
     /\ dataBlobs[i] \notin free \cup {metaSlot}
     /\ AfterSnapshot => dataBlobs[i] # ck.meta

WritingFresh ==
  \A b \in Blobs : phase[b] \in Writing =>
    where[b] \notin CommittedSlots /\ ~Tracked(table[where[b]])

\* The pass holds the bytes of the blob that its candidate slot still belongs to.
PassOwn ==
  /\ ~HasSpill => pass.pc = "off"
  /\ pass.pc # "off" => \A b \in Live : where[b] = dataBlobs[pass.i] =>
       /\ phase[b] \notin Writing
       /\ pass.pc # "read" /\ b \in Published \ unwritten /\ ~Tracked(table[where[b]]) => pass.bytes = b

\* What a checkpoint punches after it commits belongs to nobody.
PunchOwn ==
  AfterSnapshot =>
    /\ ck.punch \cap (free \cup {metaSlot, ck.meta} \cup Busy) = {}
    /\ \A b \in Live : where[b] \notin ck.punch

(***************************************************************************)
(* The bytes: of a written blob, of one the checkpoint under way took, of  *)
(* a committed one, of metadata, and under a read in flight.               *)
(***************************************************************************)
LiveBytes ==
  \A b \in Published \ unwritten :
    /\ HasLocalBytes(table[where[b]]) => file[where[b]] = b
    /\ Tracked(table[where[b]]) => table[where[b]].remote.bytes = b

TakenBytes ==
  AfterSnapshot => \A b \in TakenNames \ unwritten : Holds(ck.table, ck.clean, ck.loc[b], b)
DiskBytes == \A b \in DiskNames \ unwritten : Holds(disk.table, disk.clean, disk.loc[b], b)

MetaBytes ==
  /\ MetadataInPlace
  /\ ck.pc \in {"superblock", "committed"} => file[ck.meta] = Meta

\* A slot under a read is nobody else's, and it is not forgotten without an entry to say so.
ReadOwn ==
  \A b \in reading :
    /\ b \notin unwritten => file[where[b]] = b
    /\ phase[b] \in {"tree", "discard", "gone"}
    /\ where[b] \notin free \cup {metaSlot}
    /\ AfterSnapshot => where[b] # ck.meta /\ where[b] \notin ck.deferred
    /\ \A c \in Live : c # b => where[c] # where[b]
    /\ b \in Published \/ (ck.pc = "flush" /\ where[b] \in ck.freed) => Tracked(table[where[b]])

BytesInv ==
  /\ TrackedOwn /\ FreedTracked /\ DataOwn /\ WritingFresh /\ PassOwn /\ PunchOwn
  /\ LiveBytes /\ TakenBytes /\ DiskBytes /\ MetaBytes /\ ReadOwn

\* What the earlier theorems establish of every state.
Known == TypeOK /\ DurableInv /\ SlotsInv /\ StatesInv

LEMMA KnownInit == Init => Known
BY InitType, DurableInit, SlotsInit, StatesInit DEF Known

LEMMA KnownStep == Known /\ [Next]_vars => Known'
BY TypeStep, DurableStep, SlotsStep, StatesStep DEF Known

LEMMA BytesInit == Init => BytesInv
<1> SUFFICES ASSUME Init PROVE BytesInv
  OBVIOUS
<1>1. ck.pc = "idle" /\ ~ck.clean
  BY DEF Init, IdleCk
<1>2. /\ Live = {} /\ Published = {} /\ reading = {} /\ dataBlobs = <<>> /\ pass.pc = "off"
      /\ \A b \in Blobs : phase[b] = "new"
  BY DEF Init, Live, Published, PassOff
<1>3. /\ \A s \in Slots : ~Tracked(table[s]) /\ ~Tracked(disk.table[s])
      /\ disk.meta = NoSlot /\ DiskNames = {} /\ ~disk.clean /\ ~cleanNext
  BY DEF Init, NoDisk, NoEntry, Tracked, DiskNames, NoLocations
<1>4. DOMAIN dataBlobs = {}
  BY <1>2
<1>5. TrackedOwn /\ FreedTracked /\ DataOwn /\ WritingFresh /\ PassOwn /\ PunchOwn
  BY <1>1, <1>2, <1>3, <1>4
  DEF TrackedOwn, FreedTracked, DataOwn, WritingFresh, Writing, PassOwn, PunchOwn, AfterSnapshot
<1>6. LiveBytes /\ TakenBytes /\ DiskBytes
  BY <1>1, <1>2, <1>3 DEF LiveBytes, TakenBytes, DiskBytes, AfterSnapshot
<1>7. MetaBytes
  BY <1>1, <1>3 DEF MetaBytes, MetadataInPlace
<1>8. ReadOwn
  BY <1>2 DEF ReadOwn
<1> QED
  BY <1>5, <1>6, <1>7, <1>8 DEF BytesInv
-----------------------------------------------------------------------------
(***************************************************************************)
(* Steps of the tree: a blob's write ends, or it is discarded.             *)
(***************************************************************************)
LEMMA LandsKeepsBytes ==
  ASSUME Known, BytesInv, NEW b \in Blobs, NEW x, phase[b] \in Writing,
         phase' = [phase EXCEPT ![b] = "written"], file' = [file EXCEPT ![where[b]] = x],
         unwritten \subseteq unwritten', x = b \/ b \in unwritten',
         UNCHANGED <<free, where, table, dataBlobs, reading, pass, ck, metaSlot, cleanNext, disk>>
  PROVE  BytesInv'
<1>1. /\ phase[b] \in Writing /\ phase'[b] = "written"
      /\ \A c \in Blobs \ {b} : phase'[c] = phase[c]
      /\ UNCHANGED <<free, where, table, dataBlobs, reading, pass, ck, metaSlot, cleanNext, disk>>
  BY DEF Known, TypeOK
<1>2. /\ where[b] \in Slots /\ file'[where[b]] = x
      /\ \A s \in Slots \ {where[b]} : file'[s] = file[s]
  BY <1>1 DEF Writing, Known, TypeOK
<1>3. b \in Live /\ Live' = Live /\ Published' = Published \cup {b} /\ b \notin Published
  BY <1>1 DEF Live, Published, Writing
<1>4. where[b] \notin CommittedSlots /\ ~Tracked(table[where[b]])
  BY <1>1 DEF BytesInv, WritingFresh, Writing
<1>5. /\ \A c \in Live : c # b => where[c] # where[b]
      /\ where[b] # metaSlot
      /\ AfterSnapshot => where[b] # ck.meta
  BY <1>3 DEF Known, SlotsInv, LiveOwn, Distinct, NextOwn
<1>6. \A c \in TakenNames : AfterSnapshot => ck.loc[c] \in Slots /\ ck.loc[c] # where[b]
  <2>1. \A c \in TakenNames : AfterSnapshot => ck.loc[c] = where[c] /\ c \in Live /\ c # b
    BY <1>1 DEF Known, SlotsInv, TakenInPlace, Taking, AfterSnapshot, TakenNames, Live, Writing
  <2> QED
    BY <1>5, <2>1 DEF Known, TypeOK, Live
<1>7. TrackedOwn' /\ FreedTracked' /\ DataOwn'
  BY <1>1 DEF BytesInv, TrackedOwn, FreedTracked, DataOwn, AfterSnapshot
<1>8. WritingFresh' /\ PunchOwn'
  BY <1>1, <1>3 DEF BytesInv, WritingFresh, PunchOwn, Writing, CommittedSlots, AfterSnapshot, Busy
<1>9. PassOwn'
  <2>1. Live \subseteq Blobs
    BY DEF Live
  <2>2. pass.pc # "off" => where[b] # dataBlobs[pass.i]
    BY <1>1, <1>3, <2>1 DEF BytesInv, PassOwn
  <2> QED
    BY <1>1, <1>3, <2>1, <2>2 DEF BytesInv, PassOwn, Writing
<1>10. LiveBytes'
  <2>1. \A c \in Published : where[c] \in Slots /\ where[c] # where[b]
    BY <1>3, <1>5 DEF Known, TypeOK, Published, Live
  <2> QED
    BY <1>1, <1>2, <1>3, <1>4, <2>1 DEF BytesInv, LiveBytes
<1>11. TakenBytes'
  BY <1>1, <1>2, <1>6 DEF BytesInv, TakenBytes, Holds, AfterSnapshot, TakenNames
<1>12. DiskBytes'
  <2>1. \A c \in DiskNames : disk.loc[c] \in Slots /\ disk.loc[c] # where[b]
    BY <1>4 DEF Known, TypeOK, Disks, Location, DiskNames, CommittedSlots
  <2> QED
    BY <1>1, <1>2, <2>1 DEF BytesInv, DiskBytes, Holds, DiskNames
<1>13. MetaBytes'
  <2>1. disk.meta # where[b] /\ (disk.meta # NoSlot => disk.meta \in Slots)
    BY <1>4 DEF CommittedSlots, Known, TypeOK, Disks, Location
  <2>2. ck.pc \in {"superblock", "committed"} => ck.meta \in Slots /\ ck.meta # where[b]
    BY <1>5 DEF Known, TypeOK, AfterSnapshot
  <2> QED
    BY <1>1, <1>2, <2>1, <2>2 DEF BytesInv, MetaBytes, MetadataInPlace
<1>14. ReadOwn'
  <2>1. \A c \in reading : /\ c # b /\ where[c] \in Slots /\ where[c] # where[b]
    BY <1>1, <1>3 DEF BytesInv, ReadOwn, Writing, Known, TypeOK
  <2> QED
    BY <1>1, <1>2, <1>3, <2>1 DEF BytesInv, ReadOwn, AfterSnapshot, Published, Known, TypeOK
<1> QED
  BY <1>7, <1>8, <1>9, <1>10, <1>11, <1>12, <1>13, <1>14 DEF BytesInv

LEMMA WriteDoneKeepsBytes ==
  ASSUME Known, BytesInv, NEW b \in Blobs, WriteDone(b)
  PROVE  BytesInv'
<1>1. phase[b] \in Writing
  BY DEF WriteDone, Writing
<1> QED
  BY <1>1, LandsKeepsBytes DEF WriteDone

\* A failed write leaves in its slot whatever it leaves, and no other slot is touched.
LEMMA LostKeepsBytes ==
  ASSUME Known, BytesInv, NEW b \in Blobs, WriteFails(b) \/ SpillWriteFails(b)
  PROVE  BytesInv'
<1>1. phase[b] \in Writing /\ Lost(b)
  BY DEF WriteFails, SpillWriteFails, Writing
<1>2. PICK x : file' = [file EXCEPT ![where[b]] = x]
  BY <1>1 DEF Lost
<1>3. b \in unwritten' /\ unwritten \subseteq unwritten'
  BY <1>1 DEF Lost
<1> QED
  BY <1>1, <1>2, <1>3, LandsKeepsBytes DEF Lost

\* A step that only moves blobs between the phases of a write, or on to being discarded.
PhasesMove ==
  /\ UNCHANGED <<file, free, where, table, dataBlobs, reading, pass, ck, metaSlot, disk, unwritten>>
  /\ Live' = Live /\ Published' = Published
  /\ \A c \in Blobs :
       /\ phase'[c] \in Writing => phase[c] \in Writing
       /\ phase[c] \in {"tree", "discard", "gone"} => phase'[c] \in {"tree", "discard", "gone"}
       /\ phase'[c] = "discard" /\ ~FreeUntracked => phase[c] = "discard" \/ Tracked(table[where[c]])

LEMMA PhasesMoveKeepsBytes ==
  ASSUME Known, BytesInv, PhasesMove
  PROVE  BytesInv'
<1>1. TrackedOwn' /\ FreedTracked' /\ DataOwn' /\ WritingFresh'
  BY DEF PhasesMove, BytesInv, TrackedOwn, FreedTracked, DataOwn, WritingFresh, AfterSnapshot, CommittedSlots,
         Writing
<1>2. PassOwn' /\ PunchOwn'
  BY DEF PhasesMove, BytesInv, PassOwn, PunchOwn, AfterSnapshot, Writing, Busy, Live
<1>3. LiveBytes' /\ TakenBytes' /\ DiskBytes' /\ MetaBytes'
  BY DEF PhasesMove, BytesInv, LiveBytes, TakenBytes, DiskBytes, MetaBytes, MetadataInPlace,
         AfterSnapshot, Holds, TakenNames, DiskNames
<1>4. ReadOwn'
  <2>1. reading' = reading /\ reading \subseteq Blobs
    BY DEF PhasesMove, Known, TypeOK
  <2>2. AfterSnapshot' = AfterSnapshot
    BY DEF PhasesMove, AfterSnapshot
  <2> QED
    BY <2>1, <2>2 DEF PhasesMove, BytesInv, ReadOwn
<1> QED
  BY <1>1, <1>2, <1>3, <1>4 DEF BytesInv

LEMMA ReadKeepsBytes ==
  ASSUME Known, BytesInv, NEW b \in Blobs, StartRead(b) \/ EndRead(b)
  PROVE  BytesInv'
<1>1. UNCHANGED <<file, free, where, phase, table, dataBlobs, pass, ck, metaSlot, cleanNext, disk, unwritten>>
  BY DEF StartRead, EndRead
<1>2. Live' = Live /\ Published' = Published /\ AfterSnapshot' = AfterSnapshot
  BY <1>1 DEF Live, Published, AfterSnapshot
<1>3. /\ TrackedOwn' /\ FreedTracked' /\ DataOwn' /\ WritingFresh' /\ PassOwn'
  BY <1>1, <1>2 DEF BytesInv, TrackedOwn, FreedTracked, DataOwn, WritingFresh, Writing, PassOwn,
                    CommittedSlots
<1>4. LiveBytes' /\ TakenBytes' /\ DiskBytes' /\ MetaBytes'
  BY <1>1, <1>2 DEF BytesInv, LiveBytes, TakenBytes, DiskBytes, MetaBytes, MetadataInPlace, Holds,
                    TakenNames, DiskNames
<1>5. CASE StartRead(b)
  <2>1. /\ reading' = reading \cup {b} /\ b \in Live /\ b \in Published /\ phase[b] = "tree"
        /\ HasLocalBytes(table[where[b]]) /\ Tracked(table[where[b]])
    BY <1>5 DEF StartRead, Live, Published
  <2>2. /\ where[b] \notin free \cup {metaSlot}
        /\ AfterSnapshot => where[b] # ck.meta /\ where[b] \notin ck.deferred
        /\ \A c \in Live : c # b => where[c] # where[b]
    BY <2>1 DEF Known, SlotsInv, LiveOwn, Distinct, NextOwn
  <2>3. PunchOwn'
    <3>1. Busy' = Busy \cup {where[b]}
      BY <1>1, <2>1 DEF Busy
    <3> QED
      BY <1>1, <1>2, <2>1, <3>1 DEF BytesInv, PunchOwn
  <2>4. b \notin unwritten => file[where[b]] = b
    BY <2>1 DEF BytesInv, LiveBytes
  <2>5. ReadOwn'
    BY <1>1, <1>2, <2>1, <2>2, <2>4 DEF BytesInv, ReadOwn
  <2> QED
    BY <1>3, <1>4, <2>3, <2>5 DEF BytesInv
<1>6. CASE EndRead(b)
  <2>1. reading' \subseteq reading
    BY <1>6 DEF EndRead
  <2>2. Busy' \subseteq Busy
    BY <1>1, <2>1 DEF Busy
  <2>3. PunchOwn'
    BY <1>1, <1>2, <2>2 DEF BytesInv, PunchOwn
  <2>4. ReadOwn'
    BY <1>1, <1>2, <2>1 DEF BytesInv, ReadOwn
  <2> QED
    BY <1>3, <1>4, <2>3, <2>4 DEF BytesInv
<1> QED
  BY <1>5, <1>6

\* A blob born remote has its bytes in a segment, and its slot holds nothing anyone reads.
LEMMA BornRemoteKeepsBytes ==
  ASSUME Known, BytesInv, NEW b \in Blobs, SpillWrite(b) \/ SpillWriteDone(b)
  PROVE  BytesInv'
<1>1. /\ UNCHANGED <<file, free, where, dataBlobs, reading, pass, ck, metaSlot, cleanNext, disk, unwritten>>
      /\ table' = MarkSpilledRemote(table, where[b], gen, Locator(OpenSeg, b))
      /\ phase' = [phase EXCEPT ![b] = "written"]
      /\ phase[b] \in Writing
  BY DEF SpillWrite, SpillWriteDone, BornRemote, Writing
<1>2. /\ phase'[b] = "written" /\ \A c \in Blobs \ {b} : phase'[c] = phase[c]
      /\ b \in Live /\ Live' = Live /\ Published' = Published \cup {b} /\ b \notin Published
      /\ AfterSnapshot' = AfterSnapshot /\ Live \subseteq Blobs /\ Published \subseteq Live
  BY <1>1 DEF Known, TypeOK, Live, Published, Writing, AfterSnapshot
<1>3. /\ where[b] \in Slots
      /\ \A s \in Slots \ {where[b]} : table'[s] = table[s]
      /\ Tracked(table'[where[b]]) /\ ~HasLocalBytes(table'[where[b]])
      /\ table'[where[b]].remote.bytes = b
  <2>1. where[b] \in Slots /\ table \in [Slots -> Entry(Content)]
    BY <1>2 DEF Known, TypeOK, Tables, Live
  <2> QED
    BY <1>1, <2>1 DEF MarkSpilledRemote, Fact, Locator, Tracked, HasLocalBytes
<1>4. /\ \A c \in Live : where[c] \in Slots /\ (c # b => where[c] # where[b])
      /\ where[b] \notin free \cup {metaSlot}
      /\ AfterSnapshot => where[b] # ck.meta /\ where[b] \notin ck.deferred
  BY <1>2 DEF Known, TypeOK, SlotsInv, LiveOwn, Distinct, NextOwn, Live
<1>5. TrackedOwn'
  BY <1>1, <1>2, <1>3, <1>4 DEF BytesInv, TrackedOwn
<1>6. FreedTracked'
  <2>1. \A s \in Slots : Tracked(table[s]) => Tracked(table'[s])
    BY <1>3
  <2>2. ck.freed \subseteq Slots
    BY DEF Known, TypeOK, CkStates
  <2>3. \A c \in Blobs : phase'[c] = "discard" => phase[c] = "discard" /\ where[c] \in Slots
    BY <1>2, <1>4 DEF Live
  <2> QED
    BY <1>1, <1>2, <2>1, <2>2, <2>3 DEF BytesInv, FreedTracked
<1>7. DataOwn' /\ PunchOwn'
  BY <1>1, <1>2 DEF BytesInv, DataOwn, PunchOwn, Busy
<1>8. WritingFresh'
  <2>1. \A c \in Blobs : phase'[c] \in Writing => c # b /\ phase[c] \in Writing /\ c \in Live
    BY <1>2 DEF Writing, Live
  <2> QED
    BY <1>1, <1>3, <1>4, <2>1 DEF BytesInv, WritingFresh, CommittedSlots, Writing
<1>9. PassOwn'
  <2>1. pass.pc # "off" => where[b] # dataBlobs[pass.i]
    BY <1>1, <1>2 DEF BytesInv, PassOwn
  <2>2. \A c \in Live : c # b => table'[where[c]] = table[where[c]]
    BY <1>3, <1>4
  <2> QED
    BY <1>1, <1>2, <2>1, <2>2 DEF BytesInv, PassOwn, Writing
<1>10. LiveBytes'
  BY <1>1, <1>2, <1>3, <1>4 DEF BytesInv, LiveBytes
<1>11. TakenBytes' /\ DiskBytes' /\ MetaBytes'
  BY <1>1, <1>2 DEF BytesInv, TakenBytes, DiskBytes, MetaBytes, MetadataInPlace, Holds, TakenNames, DiskNames
<1>12. ReadOwn'
  <2>1. \A c \in reading : c # b /\ where[c] # where[b] /\ c \in Blobs
    BY <1>1, <1>2 DEF BytesInv, ReadOwn, Writing, Known, TypeOK
  <2>2. \A c \in reading : where[c] \in Slots
    BY DEF BytesInv, ReadOwn, Known, TypeOK
  <2> QED
    BY <1>1, <1>2, <1>3, <2>1, <2>2 DEF BytesInv, ReadOwn
<1> QED
  BY <1>5, <1>6, <1>7, <1>8, <1>9, <1>10, <1>11, <1>12 DEF BytesInv
-----------------------------------------------------------------------------
(***************************************************************************)
(* The spill pass.  Its candidates are never blobs being written.          *)
(***************************************************************************)
LEMMA ScanCandidate ==
  ASSUME NEW data, NEW i, NEW reclaim, NEW t, NEW r, NEW pending,
         NEW p \in Scan(data, i, reclaim, t, r, pending), p.pc # "off"
  PROVE  p.pc = "read" /\ data[p.i] \notin pending
BY DEF Scan, PassOff

LEMMA PassMarkKeepsBytes ==
  ASSUME Disciplined, Known, Known', BytesInv, NEW sp, pass.pc \in {"put", "flush"}, PassMark(sp),
         UNCHANGED <<file, free, where, phase, gen, resident, dataBlobs, reading, ck, metaSlot,
                     cleanNext, disk, unwritten>>
  PROVE  BytesInv'
<1> DEFINE s == dataBlobs[pass.i]
<1>1. HasSpill /\ ~FreeUntracked /\ pass.i \in DOMAIN dataBlobs /\ s \in Slots
  BY DEF Disciplined, BytesInv, PassOwn, Known, TypeOK
<1>2. /\ Live' = Live /\ Published' = Published /\ AfterSnapshot' = AfterSnapshot
      /\ Live \subseteq Blobs /\ Published \subseteq Live /\ Pending' = Pending /\ Busy' = Busy
  BY DEF Live, Published, AfterSnapshot, Pending, Busy, Writing
<1>3. /\ s \notin free \cup {metaSlot}
      /\ AfterSnapshot => s # ck.meta /\ s \notin ck.deferred
  BY <1>1 DEF BytesInv, DataOwn, FreedTracked
<1>4. \A x \in Slots : \/ table'[x] = table[x]
                       \/ /\ x = s /\ ~Tracked(table[x]) /\ Tracked(table'[x])
                          /\ HasLocalBytes(table[x]) /\ table'[x].remote.bytes = pass.bytes
  <2>1. table \in [Slots -> Entry(Content)]
    BY DEF Known, TypeOK, Tables
  <2>2. table' = table \/ (~Tracked(table[s]) /\ table' = MarkSpilled(table, s, gen, Locator(OpenSeg, pass.bytes)))
    BY DEF PassMark
  <2> QED
    BY <1>1, <2>1, <2>2 DEF MarkSpilled, Fact, Locator, Tracked, HasLocalBytes
<1>5. pass'.pc # "off" => pass'.pc = "read" /\ dataBlobs[pass'.i] \notin Pending
  BY ScanCandidate DEF PassMark
<1>6. \A b \in Live : where[b] = s => phase[b] \notin Writing
                         /\ (b \in Published \ unwritten /\ ~Tracked(table[s]) => pass.bytes = b)
  BY DEF BytesInv, PassOwn
<1> HIDE DEF s
<1>7. TrackedOwn'
  BY <1>2, <1>3, <1>4 DEF BytesInv, TrackedOwn
<1>8. FreedTracked'
  <2>1. \A x \in Slots : Tracked(table[x]) => Tracked(table'[x])
    BY <1>4
  <2>2. ck.freed \subseteq Slots /\ \A c \in Blobs : phase[c] = "discard" => where[c] \in Slots
    BY DEF Known, TypeOK, CkStates
  <2> QED
    BY <1>2, <2>1, <2>2 DEF BytesInv, FreedTracked
<1>9. DataOwn' /\ PunchOwn'
  BY <1>2 DEF BytesInv, DataOwn, PunchOwn
<1>10. WritingFresh'
  <2>1. \A c \in Blobs : phase[c] \in Writing => c \in Live /\ where[c] \in Slots
    BY DEF Writing, Live, Known, TypeOK
  <2> QED
    BY <1>4, <1>6, <2>1 DEF BytesInv, WritingFresh, CommittedSlots, Writing
<1>11. PassOwn'
  <2>1. \A b \in Live : phase[b] \in Writing => where[b] \in Pending
    BY <1>2 DEF Pending
  <2> QED
    BY <1>1, <1>2, <1>5, <2>1 DEF PassOwn, Writing
<1>12. LiveBytes'
  <2>1. \A b \in Published : where[b] \in Slots /\ b \in Live
    BY <1>2 DEF Known, TypeOK, Published
  <2> QED
    BY <1>2, <1>4, <1>6, <2>1 DEF BytesInv, LiveBytes
<1>13. TakenBytes' /\ DiskBytes' /\ MetaBytes'
  BY <1>2 DEF BytesInv, TakenBytes, DiskBytes, MetaBytes, MetadataInPlace, Holds, TakenNames, DiskNames
<1>14. ReadOwn'
  <2>1. \A b \in reading : where[b] \in Slots
    BY DEF BytesInv, ReadOwn, Known, TypeOK
  <2> QED
    BY <1>2, <1>4, <2>1 DEF BytesInv, ReadOwn
<1> QED
  BY <1>7, <1>8, <1>9, <1>10, <1>11, <1>12, <1>13, <1>14 DEF BytesInv

\* The other steps of the pass touch nothing but the pass itself.
LEMMA PassMoveKeepsBytes ==
  ASSUME Known, BytesInv, PassRead \/ PassPutFills \/ PassFails
  PROVE  BytesInv'
<1>1. UNCHANGED <<file, free, where, phase, table, dataBlobs, reading, ck, metaSlot, cleanNext, disk, unwritten>>
  BY DEF PassRead, PassPutFills, PassFails
<1>2. Live' = Live /\ Published' = Published /\ AfterSnapshot' = AfterSnapshot /\ Busy' = Busy
  BY <1>1 DEF Live, Published, AfterSnapshot, Busy
<1>3. /\ TrackedOwn' /\ FreedTracked' /\ DataOwn' /\ WritingFresh' /\ PunchOwn'
  BY <1>1, <1>2 DEF BytesInv, TrackedOwn, FreedTracked, DataOwn, WritingFresh, Writing, PunchOwn,
                    CommittedSlots
<1>4. LiveBytes' /\ TakenBytes' /\ DiskBytes' /\ MetaBytes' /\ ReadOwn'
  BY <1>1, <1>2 DEF BytesInv, LiveBytes, TakenBytes, DiskBytes, MetaBytes, MetadataInPlace, Holds,
                    TakenNames, DiskNames, ReadOwn
<1>5. PassOwn'
  <2>1. CASE PassRead
    <3>1. /\ pass.pc = "read" /\ pass'.pc = "put" /\ pass'.i = pass.i
          /\ pass'.bytes = file[dataBlobs[pass.i]]
      BY <2>1 DEF PassRead, Known, TypeOK, PassStates
    <3>2. \A b \in Published \ unwritten : ~Tracked(table[where[b]]) => file[where[b]] = b
      BY DEF BytesInv, LiveBytes, Tracked, HasLocalBytes
    <3> QED
      BY <1>1, <1>2, <3>1, <3>2 DEF BytesInv, PassOwn, Writing
  <2>2. CASE PassPutFills
    <3>1. pass.pc = "put" /\ pass'.pc = "flush" /\ pass'.i = pass.i /\ pass'.bytes = pass.bytes
      BY <2>2 DEF PassPutFills, Known, TypeOK, PassStates
    <3> QED
      BY <1>1, <1>2, <3>1 DEF BytesInv, PassOwn, Writing
  <2>3. CASE PassFails
    BY <2>3 DEF PassFails, PassOff, PassOwn
  <2> QED
    BY <2>1, <2>2, <2>3
<1> QED
  BY <1>3, <1>4, <1>5 DEF BytesInv
-----------------------------------------------------------------------------
(***************************************************************************)
(* Evictions.  They take no fact from the table and clear only slots whose *)
(* entry says, durably, that the bytes are elsewhere; by the two-phase     *)
(* rule the committed table and the snapshot say so too.                   *)
(***************************************************************************)
Dropped(t, u) ==
  SameFacts(t, u) /\ \A s \in Slots : HasLocalBytes(u[s]) => HasLocalBytes(t[s])

RemoteOnly(s) ==
  Tracked(table[s]) /\ table[s].durable /\ ~HasLocalBytes(table[s]) /\ s \notin Busy

OnlyPunched(P) == \A s \in Slots : file'[s] = file[s] \/ s \in P \/ RemoteOnly(s)'

Cleared(u, V) ==
  \A s \in V : s \notin Busy /\ Tracked(u[s]) /\ u[s].durable /\ ~HasLocalBytes(u[s])

LEMMA DropEffect ==
  ASSUME NEW t \in Tables
  PROVE  /\ \A V \in SUBSET Evictable(t, Busy) : Dropped(t, Evict(t, V)) /\ Cleared(Evict(t, V), V)
         /\ \A V \in SUBSET Droppable(t, Busy) :
              Dropped(t, DropSpilledLocal(t, V)) /\ Cleared(DropSpilledLocal(t, V), V)
<1>0. \A s \in Slots : t[s] \in Entry(Content)
  BY DEF Tables
<1>1. ASSUME NEW V \in SUBSET Evictable(t, Busy)
      PROVE  Dropped(t, Evict(t, V)) /\ Cleared(Evict(t, V), V)
  <2>1. Dropped(t, Evict(t, V))
    BY <1>0, DropsKeepFacts DEF Dropped, Evict, HasLocalBytes, Entry
  <2>2. \A s \in V : /\ s \notin Busy /\ Evict(t, V)[s].state = "remote_uploaded"
                     /\ Evict(t, V)[s].durable
    BY <1>0 DEF Evict, Evictable, Entry
  <2> QED
    BY <2>1, <2>2 DEF Cleared, Tracked, HasLocalBytes
<1>2. ASSUME NEW V \in SUBSET Droppable(t, Busy)
      PROVE  Dropped(t, DropSpilledLocal(t, V)) /\ Cleared(DropSpilledLocal(t, V), V)
  <2>1. Dropped(t, DropSpilledLocal(t, V))
    BY <1>0, DropsKeepFacts DEF Dropped, DropSpilledLocal, HasLocalBytes, Entry
  <2>2. \A s \in V : /\ s \notin Busy /\ DropSpilledLocal(t, V)[s].state = "remote_spilled"
                     /\ DropSpilledLocal(t, V)[s].durable
    BY <1>0 DEF DropSpilledLocal, Droppable, Entry
  <2> QED
    BY <2>1, <2>2 DEF Cleared, Tracked, HasLocalBytes
<1> QED
  BY <1>1, <1>2

LEMMA MaybeEvictEffect ==
  ASSUME TypeOK, NEW t \in Tables, NEW r, NEW data, NEW pending, MaybeEvict(t, r, data, pending),
         Busy' = Busy
  PROVE  /\ Dropped(t, table') /\ OnlyPunched({})
         /\ NoUploads(t) => \A s \in Slots : file'[s] = file[s]
         /\ \/ pass' = pass
            \/ HasSpill /\ (pass'.pc # "off" => pass'.pc = "read" /\ data[pass'.i] \notin pending)
<1>1. PICK V \in IF OverSoft(r) THEN Victims(t, r) ELSE {{}} :
        /\ table' = Evict(t, V)
        /\ file' = Punched(V)
        /\ \/ pass' = pass
           \/ HasSpill /\ pass' \in Scan(data, Len(data), 0, table', Settle(r, Cardinality(V)), pending)
  BY DEF MaybeEvict
<1>2. V \in SUBSET Evictable(t, Busy)
  BY <1>1, VictimsEvictable
<1>3. Dropped(t, table') /\ Cleared(table', V)
  BY <1>1, <1>2, DropEffect
<1>4. OnlyPunched({})
  BY <1>1, <1>3 DEF OnlyPunched, RemoteOnly, Punched, Cleared
<1>5. NoUploads(t) => \A s \in Slots : file'[s] = file[s]
  <2>1. NoUploads(t) => V = {}
    BY <1>2 DEF Evictable, NoUploads
  <2> QED
    BY <1>1, <2>1 DEF Punched
<1> QED
  BY <1>1, <1>3, <1>4, <1>5, ScanCandidate

\* What a punch leaves alone: anything that some table still leads to, and what is being read.
LEMMA PunchSpares ==
  ASSUME DurableInv', NEW P, OnlyPunched(P), NEW s \in Slots, s \notin P,
         \/ HasLocalBytes(table'[s]) \/ ~Tracked(disk'.table[s])
         \/ AfterSnapshot' /\ ~Tracked(ck'.table[s])
         \/ s \in Busy'
  PROVE  file'[s] = file[s]
<1>1. SUFFICES ASSUME RemoteOnly(s)' PROVE FALSE
  BY DEF OnlyPunched
<1>2. Tracked(table'[s]) /\ table'[s].durable /\ ~HasLocalBytes(table'[s]) /\ s \notin Busy'
  BY <1>1 DEF RemoteOnly
<1>3. Tracked(disk'.table[s])
  BY <1>2 DEF DurableInv, Backed
<1>4. AfterSnapshot' => Tracked(ck'.table[s])
  BY <1>2 DEF DurableInv, AfterSnapshot, Building, SnapshotCovers, Backed
<1> QED
  BY <1>2, <1>3, <1>4

LEMMA AllocateKeepsBytes ==
  ASSUME Known, BytesInv, NEW b \in Blobs, Allocate(b)
  PROVE  BytesInv'
<1>1. PICK s \in free :
        /\ free' = free \ {s} /\ where' = [where EXCEPT ![b] = s]
        /\ phase' = [phase EXCEPT ![b] = IF HasSpill /\ OverHard(resident)
                                        THEN "diverted" ELSE "allocated"]
        /\ dataBlobs' = Append(dataBlobs, s)
  BY DEF Allocate
<1>2. /\ phase[b] = "new" /\ phase'[b] \in Writing /\ phase'[b] \notin {"written", "tree", "discard"}
      /\ \A c \in Blobs \ {b} : phase'[c] = phase[c] /\ where'[c] = where[c]
      /\ where'[b] = s /\ s \in Slots
  BY <1>1 DEF Allocate, Known, TypeOK, Writing
<1>3. UNCHANGED <<file, table, reading, pass, ck, metaSlot, cleanNext, disk, unwritten>>
  BY DEF Allocate
<1>4. /\ Live' = Live \cup {b} /\ b \notin Live /\ Live \subseteq Blobs
      /\ Published' = Published /\ Published \subseteq Live /\ b \notin reading /\ reading \subseteq Blobs
      /\ AfterSnapshot' = AfterSnapshot
  BY <1>2, <1>3 DEF Live, Published, Writing, AfterSnapshot, BytesInv, ReadOwn, Known, TypeOK
<1>5. Busy' = Busy /\ \A c \in reading : where'[c] = where[c] /\ where[c] \in Slots
  BY <1>2, <1>3, <1>4 DEF Busy, BytesInv, ReadOwn, Known, TypeOK
<1>9. /\ s \notin CommittedSlots \cup {metaSlot} /\ ~Tracked(table[s])
      /\ \A c \in Live : where[c] # s /\ where[c] \in Slots
      /\ \A c \in reading : where[c] # s
      /\ AfterSnapshot => s # ck.meta /\ s \notin ck.deferred
  BY <1>1, <1>2 DEF Known, SlotsInv, DiskOwn, LiveOwn, NextOwn, BytesInv, TrackedOwn, ReadOwn, TypeOK, Live
<1>10. TrackedOwn'
  BY <1>1, <1>3, <1>4 DEF BytesInv, TrackedOwn
<1>11. FreedTracked'
  <2>1. \A c \in Blobs : phase'[c] = "discard" => phase[c] = "discard" /\ where'[c] = where[c] /\ where[c] \in Slots
    BY <1>2, <1>9 DEF Writing, Live
  <2>2. ck.freed \subseteq Slots
    BY DEF Known, TypeOK, CkStates
  <2> QED
    BY <1>3, <1>4, <2>1, <2>2 DEF BytesInv, FreedTracked
<1>12. DataOwn'
  <2>1. ASSUME NEW i \in DOMAIN dataBlobs'
        PROVE  (i \in DOMAIN dataBlobs /\ dataBlobs'[i] = dataBlobs[i]) \/ dataBlobs'[i] = s
    BY <1>1, <1>2, <2>1 DEF Known, TypeOK
  <2> QED
    BY <1>1, <1>3, <1>4, <1>9, <2>1 DEF BytesInv, DataOwn
<1>13. WritingFresh'
  <2>1. \A c \in Blobs \ {b} : phase'[c] \in Writing => phase[c] \in Writing /\ where'[c] = where[c] /\ where[c] \in Slots
    BY <1>2, <1>9 DEF Writing, Live
  <2> QED
    BY <1>2, <1>3, <1>9, <2>1 DEF BytesInv, WritingFresh, CommittedSlots, Writing
<1>14. PassOwn'
  <2>1. CASE pass.pc = "off"
    BY <1>3, <2>1 DEF PassOwn
  <2>2. CASE pass.pc # "off"
    <3>1. HasSpill /\ pass.i \in DOMAIN dataBlobs /\ dataBlobs'[pass.i] = dataBlobs[pass.i]
      BY <1>1, <1>2, <2>2 DEF BytesInv, PassOwn, Known, TypeOK
    <3>2. dataBlobs[pass.i] # s
      BY <1>1, <3>1 DEF BytesInv, DataOwn
    <3>3. \A c \in Live : where'[c] = where[c] /\ phase'[c] = phase[c] /\ where[c] \in Slots
      BY <1>2, <1>4, <1>9
    <3> QED
      BY <1>2, <1>3, <1>4, <3>1, <3>2, <3>3 DEF BytesInv, PassOwn, Writing
  <2> QED
    BY <2>1, <2>2
<1>15. PunchOwn'
  BY <1>1, <1>2, <1>3, <1>4, <1>5, <1>9 DEF BytesInv, PunchOwn
<1>16. LiveBytes'
  <2>1. \A c \in Published : where'[c] = where[c] /\ where[c] \in Slots
    BY <1>2, <1>4, <1>9
  <2> QED
    BY <1>3, <1>4, <2>1 DEF BytesInv, LiveBytes
<1>17. TakenBytes' /\ DiskBytes' /\ MetaBytes'
  BY <1>3, <1>4 DEF BytesInv, TakenBytes, TakenNames, DiskBytes, DiskNames, Holds, MetaBytes,
                    MetadataInPlace
<1>18. ReadOwn'
  <2>1. \A c \in reading : phase'[c] = phase[c]
    BY <1>2, <1>4
  <2> QED
    BY <1>1, <1>2, <1>3, <1>4, <1>5, <1>9, <2>1 DEF BytesInv, ReadOwn
<1> QED
  BY <1>10, <1>11, <1>12, <1>13, <1>14, <1>15, <1>16, <1>17, <1>18 DEF BytesInv

LEMMA HandOnKeepsBytes ==
  ASSUME Disciplined, Known, Known', BytesInv, NEW b \in Blobs, HandOn(b)
  PROVE  BytesInv'
<1>1. /\ phase[b] = "written" /\ phase'[b] = "tree" /\ \A c \in Blobs \ {b} : phase'[c] = phase[c]
      /\ \E r : MaybeEvict(table, r, dataBlobs, Pending)
      /\ UNCHANGED <<free, where, dataBlobs, reading, ck, metaSlot, cleanNext, disk, unwritten>>
  BY DEF HandOn, Known, TypeOK
<1>2. /\ Live' = Live /\ Published' = Published /\ AfterSnapshot' = AfterSnapshot /\ Busy' = Busy
      /\ Live \subseteq Blobs /\ Published \subseteq Live /\ b \in Live /\ b \in Published
  BY <1>1 DEF Live, Published, AfterSnapshot, Busy
<1>3. \A c \in Live : where[c] \in Slots
  BY DEF Live, Known, TypeOK
<1>4. /\ Dropped(table, table') /\ OnlyPunched({})
      /\ NoUploads(table) => \A x \in Slots : file'[x] = file[x]
      /\ \/ pass' = pass
         \/ HasSpill /\ (pass'.pc # "off" => pass'.pc = "read" /\ dataBlobs[pass'.i] \notin Pending)
  <2>1. TypeOK /\ table \in Tables
    BY DEF Known, TypeOK
  <2> QED
    BY <1>1, <1>2, <2>1, MaybeEvictEffect
<1>5. \A x \in Slots : /\ Tracked(table'[x]) <=> Tracked(table[x])
                       /\ table'[x].remote = table[x].remote
                       /\ HasLocalBytes(table'[x]) => HasLocalBytes(table[x])
  BY <1>4 DEF Dropped, SameFacts
<1>6. \A x \in Slots :
        \/ HasLocalBytes(table'[x]) \/ ~Tracked(disk.table[x])
        \/ (AfterSnapshot /\ ~Tracked(ck.table[x])) \/ x \in Busy
        \/ disk.clean \/ ck.clean
        => file'[x] = file[x]
  <2>1. DurableInv'
    BY DEF Known
  <2>2. disk.clean \/ ck.clean => \A x \in Slots : file'[x] = file[x]
    BY <1>4 DEF Disciplined, Known, StatesInv
  <2> QED
    BY <1>1, <1>2, <1>4, <2>1, <2>2, PunchSpares
<1>7. \A c \in Blobs : phase'[c] \in Writing <=> phase[c] \in Writing
  BY <1>1 DEF Writing
<1>8. TrackedOwn'
  BY <1>1, <1>2, <1>5 DEF BytesInv, TrackedOwn
<1>9. FreedTracked'
  <2>1. ck.freed \subseteq Slots /\ \A c \in Blobs : phase'[c] = "discard" => phase[c] = "discard" /\ where[c] \in Slots
    BY <1>1 DEF Known, TypeOK, CkStates
  <2> QED
    BY <1>1, <1>2, <1>5, <2>1 DEF BytesInv, FreedTracked
<1>10. DataOwn' /\ PunchOwn'
  BY <1>1, <1>2 DEF BytesInv, DataOwn, PunchOwn
<1>11. WritingFresh'
  <2>1. \A c \in Blobs : phase[c] \in Writing => where[c] \in Slots
    BY DEF Writing, Known, TypeOK
  <2> QED
    BY <1>1, <1>5, <1>7, <2>1 DEF BytesInv, WritingFresh, CommittedSlots, Writing
<1>12. PassOwn'
  <2>1. CASE pass' = pass
    BY <1>1, <1>2, <1>3, <1>5, <1>7, <2>1 DEF BytesInv, PassOwn
  <2>2. CASE HasSpill /\ (pass'.pc # "off" => pass'.pc = "read" /\ dataBlobs[pass'.i] \notin Pending)
    <3>1. \A c \in Live : phase[c] \in Writing => where[c] \in Pending
      BY <1>2 DEF Pending
    <3> QED
      BY <1>1, <1>2, <1>7, <2>2, <3>1 DEF PassOwn
  <2> QED
    BY <1>4, <2>1, <2>2
<1>13. LiveBytes'
  BY <1>1, <1>2, <1>3, <1>5, <1>6 DEF BytesInv, LiveBytes
<1>14. TakenBytes'
  <2>1. AfterSnapshot => \A c \in TakenNames : ck.loc[c] \in Slots
    BY DEF TakenNames, Known, TypeOK, CkStates, Location
  <2> QED
    BY <1>1, <1>2, <1>6, <2>1 DEF BytesInv, TakenBytes, TakenNames, Holds
<1>15. DiskBytes'
  <2>1. \A c \in DiskNames : disk.loc[c] \in Slots
    BY DEF DiskNames, Known, TypeOK, Disks, Location
  <2> QED
    BY <1>1, <1>6, <2>1 DEF BytesInv, DiskBytes, DiskNames, Holds
<1>16. MetaBytes'
  <2>1. disk.meta # NoSlot => disk.meta \in Slots /\ ~Tracked(disk.table[disk.meta])
    BY DEF Known, TypeOK, Disks, Location, BytesInv, TrackedOwn
  <2>2. AfterSnapshot => ck.meta \in Slots /\ ~Tracked(ck.table[ck.meta])
    BY DEF Known, TypeOK, BytesInv, TrackedOwn, AfterSnapshot
  <2>3. disk.meta # NoSlot => file'[disk.meta] = file[disk.meta]
    BY <1>6, <2>1
  <2>4. AfterSnapshot => file'[ck.meta] = file[ck.meta]
    BY <1>6, <2>2
  <2> QED
    BY <1>1, <2>3, <2>4 DEF BytesInv, MetaBytes, MetadataInPlace, AfterSnapshot
<1>17. ReadOwn'
  <2>1. \A c \in reading : where[c] \in Slots /\ file'[where[c]] = file[where[c]]
    BY <1>6 DEF Busy, BytesInv, ReadOwn, Known, TypeOK
  <2>2. \A c \in reading : c \in Blobs /\ phase[c] # "written"
    BY DEF BytesInv, ReadOwn, Known, TypeOK
  <2>3. \A c \in reading : phase'[c] = phase[c]
    BY <1>1, <2>2
  <2> QED
    BY <1>1, <1>2, <1>5, <2>1, <2>3 DEF BytesInv, ReadOwn
<1> QED
  BY <1>8, <1>9, <1>10, <1>11, <1>12, <1>13, <1>14, <1>15, <1>16, <1>17 DEF BytesInv
LEMMA NoteUploadedKeepsBytes ==
  ASSUME Disciplined, Known, Known', BytesInv, NEW b \in Blobs, NoteUploaded(b)
  PROVE  BytesInv'
<1> DEFINE t == MarkUploaded(table, where[b], gen, Object(Own(b)))
<1>1. /\ phase[b] = "tree" /\ \E r : MaybeEvict(t, r, dataBlobs, Pending)
      /\ UNCHANGED <<free, where, phase, dataBlobs, reading, ck, metaSlot, cleanNext, disk, unwritten>>
  BY DEF NoteUploaded
<1>2. /\ Live' = Live /\ Published' = Published /\ AfterSnapshot' = AfterSnapshot /\ Busy' = Busy
      /\ Live \subseteq Blobs /\ Published \subseteq Live /\ b \in Live /\ b \in Published
  BY <1>1 DEF Live, Published, AfterSnapshot, Busy
<1>3. /\ where[b] \in Slots /\ t \in Tables
      /\ \A s \in Slots \ {where[b]} : t[s] = table[s]
      /\ Tracked(t[where[b]]) /\ t[where[b]].remote.bytes = Own(b)
      /\ HasLocalBytes(t[where[b]]) => HasLocalBytes(table[where[b]])
  <2>1. where[b] \in Slots /\ table \in [Slots -> Entry(Content)]
    BY <1>2 DEF Known, TypeOK, Tables, Live
  <2>2. t \in Tables
    BY MarkType, RemoteType, OwnType DEF Known, TypeOK
  <2> QED
    BY <2>1, <2>2 DEF MarkUploaded, Fact, Object, Tracked, HasLocalBytes
<1> HIDE DEF t
<1>4. /\ Dropped(t, table') /\ OnlyPunched({})
      /\ \/ pass' = pass
         \/ HasSpill /\ (pass'.pc # "off" => pass'.pc = "read" /\ dataBlobs[pass'.i] \notin Pending)
  BY <1>1, <1>2, <1>3, MaybeEvictEffect DEF Known
<1>5. /\ \A s \in Slots : /\ Tracked(table[s]) => Tracked(table'[s])
                          /\ HasLocalBytes(table'[s]) => HasLocalBytes(table[s])
      /\ \A s \in Slots \ {where[b]} : /\ Tracked(table'[s]) <=> Tracked(table[s])
                                       /\ table'[s].remote = table[s].remote
      /\ Tracked(table'[where[b]]) /\ table'[where[b]].remote.bytes = Own(b)
  BY <1>3, <1>4 DEF Dropped, SameFacts
<1>6. \A x \in Slots :
        \/ HasLocalBytes(table'[x]) \/ ~Tracked(disk.table[x])
        \/ (AfterSnapshot /\ ~Tracked(ck.table[x])) \/ x \in Busy
        => file'[x] = file[x]
  <2>1. DurableInv'
    BY DEF Known
  <2> QED
    BY <1>1, <1>2, <1>4, <2>1, PunchSpares
<1>7. /\ \A c \in Live : where[c] \in Slots /\ (c # b => where[c] # where[b])
      /\ where[b] \notin free \cup {metaSlot}
      /\ AfterSnapshot => where[b] # ck.meta /\ where[b] \notin ck.deferred
  BY <1>2 DEF Known, TypeOK, SlotsInv, LiveOwn, Distinct, NextOwn, Live
<1>8. TrackedOwn'
  BY <1>1, <1>2, <1>5, <1>7 DEF BytesInv, TrackedOwn
<1>9. FreedTracked'
  <2>1. ck.freed \subseteq Slots /\ \A c \in Blobs : phase[c] = "discard" => where[c] \in Slots
    BY DEF Known, TypeOK, CkStates
  <2> QED
    BY <1>1, <1>2, <1>5, <2>1 DEF BytesInv, FreedTracked
<1>10. DataOwn' /\ PunchOwn'
  BY <1>1, <1>2 DEF BytesInv, DataOwn, PunchOwn
<1>11. WritingFresh'
  <2>1. \A c \in Blobs : phase[c] \in Writing => c # b /\ c \in Live
    BY <1>1 DEF Writing, Live
  <2> QED
    BY <1>1, <1>5, <1>7, <2>1 DEF BytesInv, WritingFresh, CommittedSlots, Writing
<1>12. PassOwn'
  <2>1. CASE pass' = pass
    BY <1>1, <1>2, <1>5, <1>7, <2>1 DEF BytesInv, PassOwn, Writing
  <2>2. CASE HasSpill /\ (pass'.pc # "off" => pass'.pc = "read" /\ dataBlobs[pass'.i] \notin Pending)
    <3>1. \A c \in Live : phase[c] \in Writing => where[c] \in Pending
      BY <1>2 DEF Pending
    <3> QED
      BY <1>1, <1>2, <2>2, <3>1 DEF PassOwn, Writing
  <2> QED
    BY <1>4, <2>1, <2>2
<1>13. LiveBytes'
  BY <1>1, <1>2, <1>5, <1>6, <1>7 DEF BytesInv, LiveBytes, Own
<1>14. TakenBytes'
  <2>1. AfterSnapshot => \A c \in TakenNames : ck.loc[c] \in Slots
    BY DEF TakenNames, Known, TypeOK, CkStates, Location
  <2>2. ~ck.clean
    BY DEF NoteUploaded, Disciplined, Known, StatesInv
  <2> QED
    BY <1>1, <1>2, <1>6, <2>1, <2>2 DEF BytesInv, TakenBytes, TakenNames, Holds
<1>15. DiskBytes'
  <2>1. \A c \in DiskNames : disk.loc[c] \in Slots
    BY DEF DiskNames, Known, TypeOK, Disks, Location
  <2>2. ~disk.clean
    BY DEF NoteUploaded, Disciplined, Known, StatesInv
  <2> QED
    BY <1>1, <1>6, <2>1, <2>2 DEF BytesInv, DiskBytes, DiskNames, Holds
<1>16. MetaBytes'
  <2>1. disk.meta # NoSlot => disk.meta \in Slots /\ ~Tracked(disk.table[disk.meta])
    BY DEF Known, TypeOK, Disks, Location, BytesInv, TrackedOwn
  <2>2. AfterSnapshot => ck.meta \in Slots /\ ~Tracked(ck.table[ck.meta])
    BY DEF Known, TypeOK, BytesInv, TrackedOwn, AfterSnapshot
  <2>3. disk.meta # NoSlot => file'[disk.meta] = file[disk.meta]
    BY <1>6, <2>1
  <2>4. AfterSnapshot => file'[ck.meta] = file[ck.meta]
    BY <1>6, <2>2
  <2> QED
    BY <1>1, <2>3, <2>4 DEF BytesInv, MetaBytes, MetadataInPlace, AfterSnapshot
<1>17. ReadOwn'
  <2>1. \A c \in reading : where[c] \in Slots /\ file'[where[c]] = file[where[c]]
    BY <1>6 DEF Busy, BytesInv, ReadOwn, Known, TypeOK
  <2> QED
    BY <1>1, <1>2, <1>5, <2>1 DEF BytesInv, ReadOwn
<1> QED
  BY <1>8, <1>9, <1>10, <1>11, <1>12, <1>13, <1>14, <1>15, <1>16, <1>17 DEF BytesInv
-----------------------------------------------------------------------------
(***************************************************************************)
(* The checkpoint, up to its commit point.                                 *)
(***************************************************************************)
LEMMA StartKeepsBytes ==
  ASSUME Known, BytesInv, StartCheckpoint
  PROVE  BytesInv'
<1>1. /\ ck.pc = "idle" /\ ck'.pc = "flush"
      /\ ck'.freed = {where[b] : b \in {c \in Blobs : phase[c] = "discard"}}
  BY IdleCkType DEF StartCheckpoint, CkStates, IdleCk
<1>2. \A b \in Blobs : phase'[b] = IF phase[b] = "discard" THEN "gone" ELSE phase[b]
  BY DEF StartCheckpoint
<1>3. UNCHANGED <<file, free, where, table, dataBlobs, reading, pass, metaSlot, cleanNext, disk, unwritten>>
  BY DEF StartCheckpoint
<1>4. /\ Live' \subseteq Live /\ Published' \subseteq Published /\ ~AfterSnapshot'
      /\ \A b \in Blobs : phase'[b] \in Writing => phase[b] \in Writing
  BY <1>1, <1>2 DEF Live, Published, AfterSnapshot, Writing
<1>5. TrackedOwn' /\ DataOwn' /\ WritingFresh' /\ PunchOwn'
  BY <1>3, <1>4 DEF BytesInv, TrackedOwn, DataOwn, WritingFresh, PunchOwn, CommittedSlots, Writing
<1>6. FreedTracked'
  BY <1>1, <1>2, <1>3, <1>4 DEF BytesInv, FreedTracked
<1>7. PassOwn'
  <2>1. \A b \in Live' : b \in Blobs
    BY <1>4 DEF Live
  <2> QED
    BY <1>3, <1>4, <2>1 DEF BytesInv, PassOwn, Writing
<1>8. LiveBytes' /\ TakenBytes' /\ DiskBytes'
  BY <1>3, <1>4 DEF BytesInv, LiveBytes, TakenBytes, DiskBytes, Holds, DiskNames
<1>9. MetaBytes'
  BY <1>1, <1>3 DEF BytesInv, MetaBytes, MetadataInPlace
<1>10. ReadOwn'
  <2>1. ASSUME NEW b \in reading, where[b] \in ck'.freed
        PROVE  Tracked(table[where[b]])
    <3>1. PICK c \in Blobs : phase[c] = "discard" /\ where[c] = where[b]
      BY <1>1, <2>1
    <3>2. c \in Live /\ c \in Published
      BY <3>1 DEF Live, Published
    <3> QED
      BY <2>1, <3>1, <3>2 DEF BytesInv, ReadOwn
  <2>2. \A b \in reading : b \in Blobs
    BY DEF Known, TypeOK
  <2> QED
    BY <1>1, <1>2, <1>3, <1>4, <2>1, <2>2 DEF BytesInv, ReadOwn
<1> QED
  BY <1>5, <1>6, <1>7, <1>8, <1>9, <1>10 DEF BytesInv

\* The metadata goes to a slot that is neither in use nor committed.
LEMMA MetadataKeepsBytes ==
  ASSUME Known, BytesInv, WriteMetadata
  PROVE  BytesInv'
<1>1. /\ ck.pc = "write" /\ ck'.pc = "superblock" /\ ck.meta \in Slots
      /\ ck'.loc = ck.loc /\ ck'.meta = ck.meta /\ ck'.free = ck.free /\ ck'.table = ck.table
      /\ ck'.deferred = ck.deferred /\ ck'.punch = ck.punch /\ ck'.clean = ck.clean
      /\ UNCHANGED <<free, where, phase, table, dataBlobs, reading, pass, metaSlot, cleanNext, disk, unwritten>>
  BY DEF WriteMetadata, Known, TypeOK, CkStates
<1>2. file'[ck.meta] = Meta /\ \A s \in Slots \ {ck.meta} : file'[s] = file[s]
  BY <1>1 DEF WriteMetadata, Known, TypeOK
<1>3. /\ Live' = Live /\ Published' = Published /\ AfterSnapshot /\ AfterSnapshot'
      /\ TakenNames' = TakenNames /\ DiskNames' = DiskNames /\ Busy' = Busy
      /\ Published \subseteq Live
  BY <1>1 DEF Live, Published, AfterSnapshot, TakenNames, DiskNames, Busy
<1>4. /\ ck.meta \notin CommittedSlots
      /\ \A b \in Live : where[b] # ck.meta /\ where[b] \in Slots
      /\ \A b \in TakenNames : ck.loc[b] \in Slots /\ ck.loc[b] # ck.meta
      /\ \A b \in reading : where[b] \in Slots /\ where[b] # ck.meta
      /\ \A b \in DiskNames : disk.loc[b] \in Slots /\ disk.loc[b] # ck.meta
      /\ disk.meta # ck.meta /\ (disk.meta # NoSlot => disk.meta \in Slots)
  <2>1. ck.meta \notin CommittedSlots /\ \A b \in Live : where[b] # ck.meta /\ where[b] \in Slots
    BY <1>1, <1>3 DEF Known, SlotsInv, CommitPoint, Building, NextOwn, TypeOK, Live
  <2>2. \A b \in TakenNames : ck.loc[b] = where[b] /\ b \in Live
    BY <1>1 DEF Known, SlotsInv, TakenInPlace, Taking, TakenNames, Live
  <2>3. \A b \in reading : where[b] \in Slots /\ where[b] # ck.meta
    BY <1>3 DEF BytesInv, ReadOwn, Known, TypeOK
  <2>4. disk.meta \in CommittedSlots /\ \A b \in DiskNames : disk.loc[b] \in CommittedSlots
    BY DEF CommittedSlots, DiskNames
  <2>5. (disk.meta # NoSlot => disk.meta \in Slots) /\ \A b \in DiskNames : disk.loc[b] \in Slots
    BY DEF Known, TypeOK, Disks, Location, DiskNames
  <2> QED
    BY <2>1, <2>2, <2>3, <2>4, <2>5
<1>5. TrackedOwn' /\ FreedTracked' /\ DataOwn' /\ WritingFresh'
  BY <1>1, <1>3 DEF BytesInv, TrackedOwn, FreedTracked, DataOwn, WritingFresh, CommittedSlots, Writing
<1>6. PassOwn' /\ PunchOwn'
  BY <1>1, <1>3 DEF BytesInv, PassOwn, PunchOwn, Writing
<1>7. LiveBytes'
  BY <1>1, <1>2, <1>3, <1>4 DEF BytesInv, LiveBytes
<1>8. TakenBytes' /\ DiskBytes'
  BY <1>1, <1>2, <1>3, <1>4 DEF BytesInv, TakenBytes, DiskBytes, Holds
<1>9. MetaBytes'
  BY <1>1, <1>2, <1>4 DEF BytesInv, MetaBytes, MetadataInPlace
<1>10. ReadOwn'
  BY <1>1, <1>2, <1>3, <1>4 DEF BytesInv, ReadOwn
<1> QED
  BY <1>5, <1>6, <1>7, <1>8, <1>9, <1>10 DEF BytesInv

\* A checkpoint that is given up, or is past its commit, stands in nobody's way.
LEMMA CkEndsKeepsBytes ==
  ASSUME Known, BytesInv, FlushFails \/ CheckpointFails \/ Sweep
  PROVE  BytesInv'
<1>1. /\ ck'.pc \in {"idle", "reclaim"}
      /\ UNCHANGED <<file, where, phase, table, dataBlobs, reading, pass, metaSlot, cleanNext, disk, unwritten>>
  BY IdleCkType DEF FlushFails, CheckpointFails, Sweep, Known, TypeOK, CkStates, BytesInv, IdleCk
<1>2. \/ free' = free
      \/ AfterSnapshot /\ free' = free \cup {ck.meta}
  BY DEF FlushFails, CheckpointFails, Sweep, AfterSnapshot
<1>3. ~AfterSnapshot' /\ Live' = Live /\ Published' = Published
  BY <1>1 DEF AfterSnapshot, Live, Published
<1>4. TrackedOwn' /\ FreedTracked' /\ DataOwn' /\ WritingFresh'
  BY <1>1, <1>2, <1>3 DEF BytesInv, TrackedOwn, FreedTracked, DataOwn, WritingFresh, CommittedSlots, Writing
<1>5. PassOwn' /\ PunchOwn'
  BY <1>1, <1>3 DEF BytesInv, PassOwn, PunchOwn, Writing
<1>6. LiveBytes' /\ TakenBytes' /\ DiskBytes'
  BY <1>1, <1>3 DEF BytesInv, LiveBytes, TakenBytes, DiskBytes, Holds, DiskNames
<1>7. MetaBytes'
  BY <1>1 DEF BytesInv, MetaBytes, MetadataInPlace
<1>8. ReadOwn'
  BY <1>1, <1>2, <1>3 DEF BytesInv, ReadOwn
<1> QED
  BY <1>4, <1>5, <1>6, <1>7, <1>8 DEF BytesInv

\* The commit point: what the checkpoint took is what a crash falls back to from here on.
LEMMA SuperblockKeepsBytes ==
  ASSUME Known, BytesInv, WriteSuperblock
  PROVE  BytesInv'
<1>1. /\ ck.pc = "superblock" /\ ck'.pc = "committed"
      /\ ck'.loc = ck.loc /\ ck'.meta = ck.meta /\ ck'.free = ck.free /\ ck'.table = ck.table
      /\ ck'.deferred = ck.deferred /\ ck'.punch = ck.punch /\ ck'.clean = ck.clean
      /\ disk'.loc = ck.loc /\ disk'.meta = ck.meta /\ disk'.free = ck.free
      /\ disk'.table = ck.table /\ disk'.clean = ck.clean
      /\ UNCHANGED <<file, free, where, phase, table, dataBlobs, reading, pass, metaSlot, cleanNext, unwritten>>
  BY DEF WriteSuperblock, Known, TypeOK, CkStates
<1>2. /\ Live' = Live /\ Published' = Published /\ AfterSnapshot /\ AfterSnapshot'
      /\ TakenNames' = TakenNames /\ DiskNames' = TakenNames /\ Busy' = Busy
  BY <1>1 DEF Live, Published, AfterSnapshot, TakenNames, DiskNames, Busy
<1>3. TrackedOwn' /\ FreedTracked' /\ DataOwn'
  BY <1>1, <1>2 DEF BytesInv, TrackedOwn, FreedTracked, DataOwn
<1>4. WritingFresh'
  <2>1. ASSUME NEW b \in Blobs, phase[b] \in Writing
        PROVE  where[b] \notin CommittedSlots'
    <3>1. b \in Live /\ b \notin Published /\ where[b] \in Slots /\ where[b] # ck.meta
      BY <1>2, <2>1 DEF Writing, Live, Published, Known, TypeOK, SlotsInv, NextOwn
    <3>2. ASSUME NEW c \in Blobs PROVE ck.loc[c] # where[b]
      <4>1. CASE c \in TakenNames
        <5>1. ck.loc[c] = where[c] /\ c \in Live /\ c \in Published
          BY <1>1, <4>1 DEF Known, SlotsInv, TakenInPlace, Taking, Live, Published
        <5> QED
          BY <3>1, <5>1 DEF Known, SlotsInv, LiveOwn, Distinct
      <4>2. CASE c \notin TakenNames
        BY <3>1, <4>2, PackedFileAssumption DEF TakenNames, PackedFileAssumption
      <4> QED
        BY <4>1, <4>2
    <3> QED
      BY <1>1, <3>1, <3>2 DEF CommittedSlots
  <2> QED
    BY <1>1, <2>1 DEF BytesInv, WritingFresh, Writing
<1>5. PassOwn' /\ PunchOwn'
  BY <1>1, <1>2 DEF BytesInv, PassOwn, PunchOwn, Writing
<1>6. LiveBytes' /\ TakenBytes' /\ DiskBytes'
  BY <1>1, <1>2 DEF BytesInv, LiveBytes, TakenBytes, DiskBytes, Holds
<1>7. MetaBytes'
  BY <1>1 DEF BytesInv, MetaBytes, MetadataInPlace
<1>8. ReadOwn'
  BY <1>1, <1>2 DEF BytesInv, ReadOwn
<1> QED
  BY <1>3, <1>4, <1>5, <1>6, <1>7, <1>8 DEF BytesInv

LEMMA SnapshotKeepsBytes ==
  ASSUME Known, BytesInv, Snapshot
  PROVE  BytesInv'
<1> DEFINE tracked  == {s \in ck.freed : Tracked(table[s])}
           deferred == (ck.freed \ tracked) \cup Superseded
           punch    == ForgetPunchable(table, tracked, Busy)
<1>1. PICK m \in free :
        /\ free' = free \ {m} /\ m \in Slots
        /\ ck'.pc = "write" /\ ck'.meta = m /\ ck'.free = (free \ {m}) \cup deferred
        /\ ck'.deferred = deferred /\ ck'.loc = ck.loc /\ ck'.punch = punch
        /\ ck'.table = Forget(table, tracked) /\ ck'.clean = cleanNext
  <2>1. PICK m \in free :
          /\ free' = free \ {m}
          /\ ck' = [ck EXCEPT
               !.pc = "write", !.gen = gen, !.clean = cleanNext,
               !.table = Forget(table, tracked),
               !.resident = Settle(resident, Cardinality(ForgetLocal(table, tracked))),
               !.meta = m, !.free = free' \cup deferred, !.deferred = deferred, !.punch = punch]
    BY DEF Snapshot
  <2>2. ck \in CkStates /\ m \in Slots
    BY DEF Known, TypeOK
  <2> HIDE DEF tracked, deferred, punch
  <2> QED
    BY <2>1, <2>2 DEF CkStates
<1>2. /\ ck.pc = "flush" /\ table' = Forget(table, tracked) /\ ~cleanNext'
      /\ UNCHANGED <<file, where, phase, dataBlobs, reading, pass, metaSlot, disk, unwritten>>
  BY DEF Snapshot
<1>3. /\ ck.freed \subseteq Slots /\ ck.freed \cap (free \cup {metaSlot}) = {}
      /\ \A b \in Live : where[b] \notin ck.freed /\ where[b] \in Slots
  BY <1>2 DEF Known, SlotsInv, FreedUnused, TypeOK, CkStates, Live
<1>4. \A s \in Slots : table'[s] = IF s \in tracked THEN NoEntry ELSE table[s]
  BY <1>2 DEF Forget
<1>5. /\ \A s \in Slots : Tracked(table'[s]) => Tracked(table[s]) /\ s \notin tracked
      /\ \A s \in Slots \ ck.freed : table'[s] = table[s]
  BY <1>4 DEF NoEntry, Tracked
<1>6. /\ tracked \subseteq ck.freed /\ punch \subseteq tracked /\ punch \cap Busy = {}
      /\ \A s \in deferred : s = metaSlot \/ (s \in ck.freed /\ ~Tracked(table[s]))
  BY DEF Superseded, ForgetPunchable
<1>7. /\ Live' = Live /\ Published' = Published /\ AfterSnapshot' /\ ~AfterSnapshot /\ Busy' = Busy
      /\ Published \subseteq Live /\ TakenNames' = TakenNames
  BY <1>1, <1>2 DEF Live, Published, AfterSnapshot, TakenNames, Busy
<1>8. FreedTracked'
  <2>1. ASSUME ~FreeUntracked PROVE deferred \subseteq {metaSlot}
    BY <1>2, <2>1 DEF BytesInv, FreedTracked, Superseded
  <2>2. \A b \in Blobs : phase[b] = "discard" => b \in Live
    BY DEF Live
  <2> QED
    BY <1>1, <1>2, <1>3, <1>5, <2>1, <2>2 DEF BytesInv, FreedTracked
<1> HIDE DEF tracked, deferred, punch
<1>9. TrackedOwn'
  BY <1>1, <1>2, <1>5, <1>6, <1>7 DEF BytesInv, TrackedOwn, tracked
<1>10. DataOwn'
  BY <1>1, <1>2 DEF BytesInv, DataOwn
<1>11. WritingFresh'
  <2>1. \A b \in Blobs : phase[b] \in Writing => where[b] \in Slots
    BY DEF Writing, Known, TypeOK
  <2> QED
    BY <1>2, <1>5, <2>1 DEF BytesInv, WritingFresh, CommittedSlots, Writing
<1>12. PassOwn'
  BY <1>2, <1>3, <1>5, <1>7 DEF BytesInv, PassOwn, Writing
<1>13. PunchOwn'
  BY <1>1, <1>2, <1>3, <1>6, <1>7 DEF BytesInv, PunchOwn
<1>14. LiveBytes'
  BY <1>2, <1>3, <1>5, <1>7 DEF BytesInv, LiveBytes
<1>15. TakenBytes'
  <2>1. \A b \in TakenNames : ck.loc[b] = where[b] /\ b \in Published
    BY <1>2 DEF Known, SlotsInv, TakenInPlace, Taking, TakenNames, Published
  <2>2. \A s \in Slots : ~Tracked(table[s]) => HasLocalBytes(table[s])
    BY DEF Tracked, HasLocalBytes
  <2> QED
    BY <1>1, <1>2, <1>3, <1>5, <1>7, <2>1, <2>2 DEF BytesInv, LiveBytes, TakenBytes, Holds
<1>16. DiskBytes' /\ MetaBytes'
  BY <1>1, <1>2 DEF BytesInv, DiskBytes, DiskNames, Holds, MetaBytes, MetadataInPlace
<1>17. ReadOwn'
  <2>1. ASSUME NEW b \in reading
        PROVE  where[b] \in Slots /\ where[b] \notin deferred
    <3>1. where[b] \in Slots /\ where[b] # metaSlot /\ (where[b] \in ck.freed => Tracked(table[where[b]]))
      BY <1>2, <2>1 DEF BytesInv, ReadOwn, Known, TypeOK
    <3> QED
      BY <1>6, <3>1
  <2> QED
    BY <1>1, <1>2, <1>3, <1>5, <1>7, <2>1 DEF BytesInv, ReadOwn
<1> QED
  BY <1>8, <1>9, <1>10, <1>11, <1>12, <1>13, <1>14, <1>15, <1>16, <1>17 DEF BytesInv

(***************************************************************************)
(* After the commit point: what was superseded is recycled and evictions   *)
(* clear slots, but none that the committed tables lead to.                *)
(***************************************************************************)
LEMMA CommitEffect ==
  ASSUME Known, Commit
  PROVE  /\ \A s \in Slots : /\ Tracked(table'[s]) <=> Tracked(table[s])
                             /\ table'[s].remote = table[s].remote
                             /\ HasLocalBytes(table'[s]) => HasLocalBytes(table[s])
         /\ OnlyPunched(ck.punch)
         /\ NoUploads(table) => \A s \in Slots \ ck.punch : file'[s] = file[s]
         /\ ck'.pc \in {"idle", "sweep"}
<1> DEFINE durable == CommitDurable(table, ck.gen)
<1>1. UNCHANGED <<where, reading>> /\ Busy' = Busy
  BY DEF Commit, Busy
<1>2. durable \in Tables /\ \A s \in Slots : durable[s].state = table[s].state /\ durable[s].remote = table[s].remote
  <2>1. durable \in Tables
    BY CommitDurableType DEF Known, TypeOK, CkStates
  <2> QED
    BY <2>1 DEF CommitDurable, Known, TypeOK, Tables, Entry
<1>3. ck'.pc \in {"idle", "sweep"}
  <2>1. ck' = IdleCk \/ ck' = [ck EXCEPT !.pc = "sweep"]
    BY DEF Commit
  <2> QED
    BY <2>1, IdleCkType DEF Known, TypeOK, CkStates, IdleCk
<1>4. PICK P \in SUBSET ck.punch :
        \E V \in SUBSET Evictable(durable, Busy) : table' = Evict(durable, V) /\ file' = Punched(P \cup V)
  <2>1. PICK P \in SUBSET ck.punch :
          \/ table' = durable /\ file' = Punched(P)
          \/ \E V \in SUBSET Evictable(durable, Busy) : table' = Evict(durable, V) /\ file' = Punched(P \cup V)
    BY VictimsEvictable DEF Commit
  <2>2. CASE table' = durable /\ file' = Punched(P)
    <3>1. durable = Evict(durable, {})
      BY <1>2 DEF Evict, Tables
    <3>2. {} \in SUBSET Evictable(durable, Busy) /\ P \cup {} = P
      OBVIOUS
    <3> QED
      BY <2>2, <3>1, <3>2
  <2> QED
    BY <2>1, <2>2
<1> HIDE DEF durable
<1>5. PICK V \in SUBSET Evictable(durable, Busy) : table' = Evict(durable, V) /\ file' = Punched(P \cup V)
  BY <1>4
<1>6. Dropped(durable, table') /\ Cleared(table', V)
  BY <1>2, <1>5, DropEffect
<1>7. OnlyPunched(ck.punch)
  BY <1>1, <1>4, <1>5, <1>6 DEF OnlyPunched, RemoteOnly, Punched, Cleared
<1>8. \A s \in Slots : /\ Tracked(table'[s]) <=> Tracked(table[s])
                       /\ table'[s].remote = table[s].remote
                       /\ HasLocalBytes(table'[s]) => HasLocalBytes(table[s])
  BY <1>2, <1>6 DEF Dropped, SameFacts, Tracked, HasLocalBytes
<1>9. NoUploads(table) => \A s \in Slots \ ck.punch : file'[s] = file[s]
  <2>1. NoUploads(table) => V = {}
    BY <1>2, <1>5 DEF Evictable, NoUploads
  <2> QED
    BY <1>4, <1>5, <2>1 DEF Punched
<1> QED
  BY <1>3, <1>7, <1>8, <1>9

LEMMA ReclaimEffect ==
  ASSUME Known, Reclaim
  PROVE  /\ Dropped(table, table') /\ OnlyPunched({})
         /\ ck.clean => \A s \in Slots : file'[s] = file[s]
<1>1. PICK D \in SUBSET Droppable(table, Busy) :
        \E V \in SUBSET Evictable(DropSpilledLocal(table, D), Busy) :
          /\ table' = Evict(DropSpilledLocal(table, D), V)
          /\ file' = Punched(D \cup V)
  BY VictimsEvictable DEF Reclaim
<1> DEFINE u == DropSpilledLocal(table, D)
<1>2. PICK V \in SUBSET Evictable(u, Busy) : table' = Evict(u, V) /\ file' = Punched(D \cup V)
  BY <1>1
<1>3. table \in Tables /\ u \in Tables /\ Busy' = Busy
  BY DestructiveType DEF Known, TypeOK, Reclaim, Busy
<1>4. Dropped(table, u) /\ Cleared(u, D)
  BY <1>1, <1>3, DropEffect
<1> HIDE DEF u
<1>5. Dropped(u, table') /\ Cleared(table', V)
  BY <1>2, <1>3, DropEffect
<1>6. Dropped(table, table')
  BY <1>4, <1>5 DEF Dropped, SameFacts
<1>7. Cleared(table', D)
  BY <1>1, <1>4, <1>5 DEF Dropped, SameFacts, Droppable, Cleared
<1>8. OnlyPunched({})
  BY <1>2, <1>3, <1>5, <1>7 DEF OnlyPunched, RemoteOnly, Punched, Cleared
<1>9. ck.clean => \A s \in Slots : file'[s] = file[s]
  BY DEF Reclaim, Punched
<1> QED
  BY <1>6, <1>8, <1>9

LEMMA CommitKeepsBytes ==
  ASSUME Disciplined, Known, Known', BytesInv, Commit
  PROVE  BytesInv'
<1>1. /\ ck.pc = "committed" /\ free' = free \cup ck.deferred /\ metaSlot' = ck.meta
      /\ UNCHANGED <<where, phase, dataBlobs, reading, pass, cleanNext, disk, unwritten>>
  BY DEF Commit
<1>2. /\ \A s \in Slots : /\ Tracked(table'[s]) <=> Tracked(table[s])
                          /\ table'[s].remote = table[s].remote
                          /\ HasLocalBytes(table'[s]) => HasLocalBytes(table[s])
      /\ OnlyPunched(ck.punch) /\ ck'.pc \in {"idle", "sweep"}
      /\ NoUploads(table) => \A s \in Slots \ ck.punch : file'[s] = file[s]
  BY CommitEffect
<1>3. /\ Live' = Live /\ Published' = Published /\ AfterSnapshot /\ ~AfterSnapshot' /\ Busy' = Busy
      /\ Published \subseteq Live /\ DiskNames' = DiskNames /\ ck'.pc # "flush"
  BY <1>1, <1>2 DEF Live, Published, AfterSnapshot, DiskNames, Busy
<1>4. \A x \in Slots \ ck.punch :
        HasLocalBytes(table'[x]) \/ ~Tracked(disk.table[x]) \/ x \in Busy \/ disk.clean
        => file'[x] = file[x]
  <2>1. DurableInv'
    BY DEF Known
  <2>2. disk.clean => \A x \in Slots \ ck.punch : file'[x] = file[x]
    BY <1>2 DEF Disciplined, Known, StatesInv
  <2> QED
    BY <1>1, <1>2, <1>3, <2>1, <2>2, PunchSpares
<1>5. TrackedOwn'
  BY <1>1, <1>2, <1>3 DEF BytesInv, TrackedOwn
<1>6. FreedTracked'
  <2>1. \A b \in Blobs : phase[b] = "discard" => where[b] \in Slots
    BY DEF Known, TypeOK
  <2> QED
    BY <1>1, <1>2, <1>3, <2>1 DEF BytesInv, FreedTracked
<1>7. DataOwn'
  BY <1>1, <1>3 DEF Disciplined, BytesInv, DataOwn, FreedTracked
<1>8. WritingFresh'
  <2>1. \A b \in Blobs : phase[b] \in Writing => where[b] \in Slots
    BY DEF Writing, Known, TypeOK
  <2> QED
    BY <1>1, <1>2, <2>1 DEF BytesInv, WritingFresh, CommittedSlots, Writing
<1>9. PassOwn'
  <2>1. \A b \in Live : where[b] \in Slots
    BY DEF Live, Known, TypeOK
  <2> QED
    BY <1>1, <1>2, <1>3, <2>1 DEF BytesInv, PassOwn, Writing
<1>10. PunchOwn' /\ TakenBytes'
  BY <1>1, <1>2, <1>3 DEF BytesInv, PunchOwn, TakenBytes
<1>11. \A b \in Live : where[b] \in Slots \ ck.punch
  BY <1>3 DEF BytesInv, PunchOwn, Live, Known, TypeOK
<1>12. LiveBytes'
  BY <1>1, <1>2, <1>3, <1>4, <1>11 DEF BytesInv, LiveBytes
<1>13. DiskBytes'
  <2>1. \A b \in DiskNames : disk.loc[b] = where[b] /\ b \in Live
    BY <1>1 DEF Known, SlotsInv, CommitPoint, TakenInPlace, Taking, TakenNames, DiskNames, Live
  <2>2. \A b \in DiskNames : disk.loc[b] \in Slots \ ck.punch
    BY <1>11, <2>1
  <2> QED
    BY <1>1, <1>3, <1>4, <2>2 DEF BytesInv, DiskBytes, Holds
<1>14. MetaBytes'
  <2>1. disk.meta = ck.meta /\ ck.meta \in Slots /\ ck.meta \notin ck.punch
    BY <1>1, <1>3 DEF Known, SlotsInv, CommitPoint, TypeOK, BytesInv, PunchOwn
  <2>2. ~Tracked(disk.table[ck.meta])
    BY <2>1 DEF BytesInv, TrackedOwn
  <2> QED
    BY <1>1, <1>2, <1>4, <2>1, <2>2 DEF BytesInv, MetaBytes, MetadataInPlace
<1>15. ReadOwn'
  <2>1. \A b \in reading : where[b] \in Slots /\ where[b] \in Busy /\ where[b] \notin ck.punch
    <3>1. \A b \in reading : where[b] \in Slots /\ where[b] \in Busy
      BY DEF Busy, BytesInv, ReadOwn, Known, TypeOK
    <3>2. ck.punch \cap Busy = {}
      BY <1>3 DEF BytesInv, PunchOwn
    <3> QED
      BY <3>1, <3>2
  <2>2. \A b \in reading : file'[where[b]] = file[where[b]]
    BY <1>4, <2>1
  <2> QED
    BY <1>1, <1>2, <1>3, <2>1, <2>2 DEF BytesInv, ReadOwn
<1> QED
  BY <1>5, <1>6, <1>7, <1>8, <1>9, <1>10, <1>12, <1>13, <1>14, <1>15 DEF BytesInv

LEMMA ReclaimKeepsBytes ==
  ASSUME Known, Known', BytesInv, Reclaim
  PROVE  BytesInv'
<1>1. /\ ck.pc = "reclaim" /\ ck'.pc = "idle"
      /\ UNCHANGED <<free, where, phase, dataBlobs, reading, pass, metaSlot, cleanNext, disk, unwritten>>
  BY DEF Reclaim, IdleCk
<1>2. /\ \A s \in Slots : /\ Tracked(table'[s]) <=> Tracked(table[s])
                          /\ table'[s].remote = table[s].remote
                          /\ HasLocalBytes(table'[s]) => HasLocalBytes(table[s])
      /\ OnlyPunched({}) /\ (ck.clean => \A s \in Slots : file'[s] = file[s])
  BY ReclaimEffect DEF Dropped, SameFacts
<1>3. /\ Live' = Live /\ Published' = Published /\ ~AfterSnapshot' /\ Busy' = Busy
      /\ DiskNames' = DiskNames
  BY <1>1 DEF Live, Published, AfterSnapshot, DiskNames, Busy
<1>4. \A x \in Slots :
        HasLocalBytes(table'[x]) \/ ~Tracked(disk.table[x]) \/ x \in Busy \/ disk.clean
        => file'[x] = file[x]
  <2>1. DurableInv'
    BY DEF Known
  <2>2. disk.clean => ck.clean
    BY <1>1 DEF Known, StatesInv
  <2> QED
    BY <1>1, <1>2, <1>3, <2>1, <2>2, PunchSpares
<1>5. \A b \in Blobs : phase[b] # "new" => where[b] \in Slots
  BY DEF Known, TypeOK
<1>6. TrackedOwn' /\ FreedTracked' /\ DataOwn' /\ WritingFresh'
  BY <1>1, <1>2, <1>3, <1>5
  DEF BytesInv, TrackedOwn, FreedTracked, DataOwn, WritingFresh, CommittedSlots, Writing
<1>7. PassOwn' /\ PunchOwn' /\ TakenBytes'
  BY <1>1, <1>2, <1>3, <1>5 DEF BytesInv, PassOwn, PunchOwn, TakenBytes, Writing, Live
<1>8. LiveBytes'
  BY <1>1, <1>2, <1>3, <1>4, <1>5 DEF BytesInv, LiveBytes, Published
<1>9. DiskBytes'
  <2>1. \A b \in DiskNames : disk.loc[b] \in Slots
    BY DEF DiskNames, Known, TypeOK, Disks, Location
  <2> QED
    BY <1>1, <1>3, <1>4, <2>1 DEF BytesInv, DiskBytes, Holds
<1>10. MetaBytes'
  <2>1. disk.meta # NoSlot => disk.meta \in Slots /\ ~Tracked(disk.table[disk.meta])
    BY DEF Known, TypeOK, Disks, Location, BytesInv, TrackedOwn
  <2> QED
    BY <1>1, <1>4, <2>1 DEF BytesInv, MetaBytes, MetadataInPlace
<1>11. ReadOwn'
  <2>1. \A b \in reading : where[b] \in Slots /\ where[b] \in Busy
    BY DEF Busy, BytesInv, ReadOwn, Known, TypeOK
  <2> QED
    BY <1>1, <1>2, <1>3, <1>4, <2>1 DEF BytesInv, ReadOwn
<1> QED
  BY <1>6, <1>7, <1>8, <1>9, <1>10, <1>11 DEF BytesInv

(***************************************************************************)
(* A crash: the table that was not marked clean is demoted to its remote   *)
(* copies, and what has no entry is where the superblock says.             *)
(***************************************************************************)
LEMMA CrashKeepsBytes ==
  ASSUME Known, BytesInv, Crash
  PROVE  BytesInv'
<1>1. /\ where' = disk.loc /\ free' = disk.free /\ metaSlot' = disk.meta /\ UNCHANGED <<file, disk>>
      /\ phase' = [b \in Blobs |-> IF disk.loc[b] = NoSlot THEN "new" ELSE "tree"]
      /\ dataBlobs' = <<>> /\ reading' = {} /\ pass'.pc = "off" /\ ck'.pc = "idle"
      /\ unwritten' = {b \in unwritten : disk.loc[b] # NoSlot}
  BY DEF Crash, IdleCk, PassOff
<1>2. \A s \in Slots : /\ Tracked(table'[s]) <=> Tracked(disk.table[s])
                       /\ Tracked(disk.table[s]) => table'[s].remote = disk.table[s].remote
                       /\ HasLocalBytes(table'[s]) =>
                            ~Tracked(disk.table[s]) \/ (disk.clean /\ HasLocalBytes(disk.table[s]))
  <2>1. table' = Deserialize(disk.table, disk.clean)
    BY DEF Crash
  <2>2. \A s \in Slots : disk.table[s] \in Entry(Content)
    BY DEF Known, TypeOK, Disks, Tables
  <2> QED
    BY <2>1, <2>2 DEF Deserialize, Demoted, Tracked, HasLocalBytes, Entry, States, NoEntry
<1>3. /\ Published' = DiskNames /\ ~AfterSnapshot' /\ DiskNames' = DiskNames
      /\ DiskNames \ unwritten' = DiskNames \ unwritten
      /\ \A b \in DiskNames : disk.loc[b] \in Slots
  BY <1>1 DEF Published, DiskNames, AfterSnapshot, Known, TypeOK, Disks, Location
<1>4. TrackedOwn'
  BY <1>1, <1>2, <1>3 DEF BytesInv, TrackedOwn, NoEntry, Tracked
<1>5. FreedTracked' /\ WritingFresh' /\ PassOwn' /\ PunchOwn' /\ TakenBytes' /\ ReadOwn'
  BY <1>1, <1>3 DEF BytesInv, FreedTracked, WritingFresh, Writing, PassOwn, PunchOwn, TakenBytes, ReadOwn
<1>6. DataOwn'
  <2>1. DOMAIN dataBlobs' = {}
    BY <1>1
  <2> QED
    BY <2>1 DEF DataOwn
<1>7. LiveBytes' /\ DiskBytes'
  BY <1>1, <1>2, <1>3 DEF BytesInv, LiveBytes, DiskBytes, Holds, NoEntry, Tracked
<1>8. MetaBytes'
  BY <1>1 DEF BytesInv, MetaBytes, MetadataInPlace
<1> QED
  BY <1>4, <1>5, <1>6, <1>7, <1>8 DEF BytesInv

LEMMA BytesStep == Disciplined /\ Known /\ BytesInv /\ [Next]_vars => BytesInv'
<1> SUFFICES ASSUME Disciplined, Known, BytesInv, [Next]_vars PROVE BytesInv'
  OBVIOUS
<1>1. Known'
  BY KnownStep
<1>2. ASSUME NEW b \in Blobs,
             SpillWriteFills(b) \/ Discard(b)
      PROVE  PhasesMove
  <2>1. /\ UNCHANGED <<file, free, where, table, dataBlobs, reading, pass, ck, metaSlot, cleanNext, disk,
                       unwritten>>
        /\ \A c \in Blobs \ {b} : phase'[c] = phase[c]
        /\ \/ phase[b] \in Writing /\ phase'[b] \in Writing
           \/ /\ phase[b] = "tree" /\ phase'[b] = "discard"
              /\ FreeUntracked \/ Tracked(table[where[b]])
    BY <1>2 DEF SpillWriteFills, Discard, Writing, Known, TypeOK
  <2>2. Live' = Live /\ Published' = Published
    BY <2>1 DEF Live, Published, Writing
  <2> QED
    BY <2>1, <2>2 DEF PhasesMove, Writing
<1>3. CASE PassPut \/ PassPutDone
  <2>1. pass.pc \in {"put", "flush"} /\ \E sp : PassMark(sp)
    BY <1>3 DEF PassPut, PassPutDone
  <2>2. UNCHANGED <<file, free, where, phase, gen, resident, dataBlobs, reading, ck, metaSlot,
                    cleanNext, disk, unwritten>>
    BY <1>3 DEF PassPut, PassPutDone
  <2> QED
    BY <1>1, <2>1, <2>2, PassMarkKeepsBytes
<1>4. CASE SetCleanShutdown
  <2>1. PhasesMove
    BY <1>4 DEF SetCleanShutdown, PhasesMove, Live, Published, Writing
  <2> QED
    BY <2>1, PhasesMoveKeepsBytes
<1>5. CASE UNCHANGED vars
  <2>1. PhasesMove
    BY <1>5 DEF vars, PhasesMove, Live, Published, Writing
  <2> QED
    BY <2>1, PhasesMoveKeepsBytes
<1>6. CASE Commit
  BY <1>1, <1>6, CommitKeepsBytes
<1> QED
  BY <1>1, <1>2, <1>3, <1>4, <1>5, <1>6, WriteDoneKeepsBytes, LostKeepsBytes, HandOnKeepsBytes,
     PhasesMoveKeepsBytes, ReadKeepsBytes,
     BornRemoteKeepsBytes, PassMoveKeepsBytes, AllocateKeepsBytes, NoteUploadedKeepsBytes,
     StartKeepsBytes, MetadataKeepsBytes, CkEndsKeepsBytes, SuperblockKeepsBytes,
     SnapshotKeepsBytes, ReclaimKeepsBytes, CrashKeepsBytes
  DEF Next

(***************************************************************************)
(* For any number of blobs, slots, checkpoints and crashes: the metadata   *)
(* the superblock leads to is in place from the moment the superblock is,  *)
(* and no eviction or punch touches the bytes under a read in flight.  The *)
(* read of a blob whose write failed, which the tree refers to like any    *)
(* other, is the only exception: what lies there was never its own.        *)
(***************************************************************************)
THEOREM BytesStayInPlace == ASSUME Disciplined PROVE Spec => []BytesInPlace
<1>1. Init => Known /\ BytesInv
  BY KnownInit, BytesInit
<1>2. Known /\ BytesInv /\ [Next]_vars => Known' /\ BytesInv'
  BY KnownStep, BytesStep
<1>3. BytesInv => BytesInPlace
  BY DEF BytesInv, MetaBytes, ReadOwn, BytesInPlace, TrackedReadIntact
<1> QED
  BY <1>1, <1>2, <1>3, PTL DEF Spec

-----------------------------------------------------------------------------
(***************************************************************************)
(* The spill area and the whole.  A locator that the table or a persisted  *)
(* table holds leads to a segment that is there, whatever is appended,     *)
(* dereferenced, swept and collected; and with that the backend implements *)
(* the store its user sees (DurableStore).                                 *)
(***************************************************************************)

(***************************************************************************)
(* The regime.  Where blobs are uploaded too, an upload noted between the  *)
(* snapshot and the sweep gives up a segment that the committed table      *)
(* still leads to; a tree that frees untracked blobs lets a stale entry be *)
(* overwritten, and its reference with it.                                 *)
(***************************************************************************)
SpillsAlone == HasSpill => ~FreeUntracked /\ Uploadable = {}

Refs(t, n) == {s \in Slots : SegOf(t[s]) = n}

\* Live counts cover the references of t, and one more of segment k (0: of none).
Covers(sp, t, k) ==
  \A n \in Segs : sp.live[n] >= Cardinality(Refs(t, n)) + (IF n = k THEN 1 ELSE 0)

\* Segments are numbered as they are opened; one queued for the sweep is out of use.
Ordered(sp) ==
  /\ sp.open # 0 => sp.open < sp.next
  /\ \A n \in sp.put : n < sp.next
  /\ \A n \in sp.dead : sp.live[n] = 0 /\ n # sp.open /\ n < sp.next

Backs(sp, t) ==
  \A s \in Slots : Spilled(t[s]) => SegOf(t[s]) \in Segs /\ SegReadable(sp, SegOf(t[s]))

\* At most one append has its segment's PUT in flight, and the segment is the open one.
InFlight(b) == phase[b] \in {"diverting", "nospace"}
OneAppend ==
  /\ ~GateFree => spill.open # 0
  /\ pass.pc = "flush" => \A b \in Blobs : ~InFlight(b)
  /\ \A b, c \in Blobs : InFlight(b) /\ InFlight(c) => b = c

(***************************************************************************)
(* LocatorsBacked is not inductive: a checkpoint commits the table it took *)
(* steps earlier, and the sweep that follows deletes what nothing counts.  *)
(* What carries it is that the live table keeps every locator of the       *)
(* snapshot until the sweep is over, and that the counts cover the table.  *)
(***************************************************************************)
HoldsTable == ck.pc \in {"write", "superblock", "committed", "sweep"}
TakenBacked ==
  /\ HoldsTable => \A s \in Slots : Spilled(ck.table[s]) =>
       /\ SegOf(ck.table[s]) \in spill.put
       /\ Spilled(table[s]) /\ SegOf(table[s]) = SegOf(ck.table[s])
  /\ ck.pc \in {"committed", "sweep"} => disk.table = ck.table

Pinned == IF GateFree THEN 0 ELSE spill.open

SpillInv ==
  /\ Covers(spill, table, Pinned)
  /\ Ordered(spill) /\ Backs(spill, table) /\ OneAppend /\ TakenBacked /\ LocatorsBacked
-----------------------------------------------------------------------------
(***************************************************************************)
(* What the operators of the spill store do to the counts and the queue.   *)
(***************************************************************************)
LEMMA RefsCount ==
  /\ \A t, n : IsFiniteSet(Refs(t, n)) /\ Cardinality(Refs(t, n)) \in Nat
  /\ \A t, u, n : Refs(t, n) \subseteq Refs(u, n) => Cardinality(Refs(t, n)) <= Cardinality(Refs(u, n))
  /\ \A t, u, n : (\A s \in Slots : SegOf(t[s]) = SegOf(u[s])) => Refs(t, n) = Refs(u, n)
<1>1. \A t, n : Refs(t, n) \subseteq Slots
  BY DEF Refs
<1>2. IsFiniteSet(Slots)
  BY PackedFileAssumption DEF PackedFileAssumption
<1>3. \A t, n : IsFiniteSet(Refs(t, n))
  BY <1>1, <1>2, FS_Subset
<1>4. \A t, n : Cardinality(Refs(t, n)) \in Nat
  BY <1>3, FS_CardinalityType
<1>5. ASSUME NEW t, NEW u, NEW n, Refs(t, n) \subseteq Refs(u, n)
      PROVE  Cardinality(Refs(t, n)) <= Cardinality(Refs(u, n))
  BY <1>3, <1>5, FS_Subset
<1>6. \A t, u, n : (\A s \in Slots : SegOf(t[s]) = SegOf(u[s])) => Refs(t, n) = Refs(u, n)
  BY DEF Refs
<1> QED
  BY <1>3, <1>4, <1>5, <1>6

LEMMA SegsPositive == \A n \in Segs : n \in Nat /\ n # 0
BY PackedFileAssumption DEF PackedFileAssumption, Segs

LEMMA SegType ==
  \A e : /\ Spilled(e) => SegOf(e) = e.remote.seg
         /\ ~Spilled(e) => SegOf(e) = 0
BY DEF SegOf

\* Appending counts one more reference into the open segment, which is never queued.
LEMMA AppendKeeps ==
  ASSUME spill \in SpillStates, SegmentCapacityLeft, Ordered(spill), NEW t, Covers(spill, t, 0),
         Backs(spill, t)
  PROVE  /\ Covers(Appended, t, OpenSeg) /\ Ordered(Appended) /\ Backs(Appended, t)
         /\ Appended.open = OpenSeg /\ Appended.put = spill.put
         /\ OpenSeg \in Segs /\ OpenSeg # 0
<1>1. OpenSeg \in Segs /\ OpenSeg # 0 /\ Appended \in SpillStates
  BY AppendType DEF Segs
<1>2. /\ Appended.open = OpenSeg /\ Appended.put = spill.put /\ Appended.dead = spill.dead
      /\ Appended.next = IF spill.open = 0 THEN spill.next + 1 ELSE spill.next
      /\ \A n \in Segs : Appended.live[n] = IF n = OpenSeg THEN spill.live[n] + 1 ELSE spill.live[n]
  BY <1>1 DEF Appended, SpillStates
<1>3. /\ spill.next \in Nat /\ spill.open \in Segs \cup {0} /\ spill.put \subseteq Segs /\ spill.dead \subseteq Segs
      /\ \A n \in Segs : spill.live[n] \in Int /\ n \in Nat /\ n # 0
  BY SegsPositive DEF SpillStates
<1>4. Covers(Appended, t, OpenSeg)
  BY <1>1, <1>2, <1>3, RefsCount DEF Covers
<1>5. Ordered(Appended)
  BY <1>1, <1>2, <1>3 DEF Ordered, OpenSeg
<1>6. Backs(Appended, t)
  BY <1>1, <1>2, <1>3 DEF Backs, SegReadable, OpenSeg
<1> QED
  BY <1>1, <1>2, <1>4, <1>5, <1>6

\* A flush moves the open segment into the bucket.
LEMMA FlushKeeps ==
  ASSUME NEW sp \in SpillStates, Ordered(sp), NEW t, NEW k, Covers(sp, t, k), Backs(sp, t)
  PROVE  /\ Covers(Flushed(sp), t, k) /\ Ordered(Flushed(sp)) /\ Backs(Flushed(sp), t)
         /\ sp.put \subseteq Flushed(sp).put
         /\ Flushed(sp).open = 0 /\ Flushed(sp).next = sp.next
         /\ sp.open # 0 => sp.open \in Flushed(sp).put
<1>1. /\ Flushed(sp).open = 0 /\ Flushed(sp).next = sp.next /\ Flushed(sp).dead = sp.dead
      /\ Flushed(sp).put = IF sp.open = 0 THEN sp.put ELSE sp.put \cup {sp.open}
      /\ Flushed(sp).live = sp.live
  BY DEF Flushed, SpillStates
<1>2. sp.dead \subseteq Segs /\ \A n \in Segs : n # 0
  BY DEF SpillStates, Segs
<1> QED
  BY <1>1, <1>2 DEF Covers, Ordered, Backs, SegReadable

\* The reference that was counted ahead is recorded in the table ...
LEMMA MarkKeeps ==
  ASSUME NEW sp, NEW k \in Segs, NEW t, Covers(sp, t, k), Backs(sp, t), SegReadable(sp, k),
         sp \in SpillStates, NEW u, NEW s \in Slots, SegOf(u[s]) = k,
         \A x \in Slots \ {s} : u[x] = t[x]
  PROVE  Covers(sp, u, 0) /\ Backs(sp, u)
<1>1. ASSUME NEW n \in Segs PROVE sp.live[n] >= Cardinality(Refs(u, n))
  <2>1. sp.live[n] \in Int /\ Cardinality(Refs(u, n)) \in Nat /\ Cardinality(Refs(t, n)) \in Nat
    BY RefsCount DEF SpillStates
  <2>2. CASE n # k
    <3>1. Refs(u, n) \subseteq Refs(t, n)
      BY <2>2 DEF Refs
    <3> QED
      BY <2>1, <2>2, <3>1, RefsCount DEF Covers
  <2>3. CASE n = k
    <3>1. Refs(u, n) \subseteq Refs(t, n) \cup {s}
      BY DEF Refs
    <3>0. IsFiniteSet(Refs(t, n))
      BY RefsCount
    <3>2. /\ IsFiniteSet(Refs(t, n) \cup {s})
          /\ Cardinality(Refs(t, n) \cup {s}) <= Cardinality(Refs(t, n)) + 1
      <4>1. /\ IsFiniteSet(Refs(t, n) \cup {s})
            /\ Cardinality(Refs(t, n) \cup {s})
                 = IF s \in Refs(t, n) THEN Cardinality(Refs(t, n)) ELSE Cardinality(Refs(t, n)) + 1
        BY <3>0, FS_AddElement
      <4> QED
        BY <2>1, <4>1
    <3>3. Cardinality(Refs(u, n)) <= Cardinality(Refs(t, n) \cup {s})
      BY <3>1, <3>2, FS_Subset
    <3>4. sp.live[n] >= Cardinality(Refs(t, n)) + 1
      BY <2>3 DEF Covers
    <3>5. Cardinality(Refs(t, n) \cup {s}) \in Nat
      BY <3>2, FS_CardinalityType
    <3> QED
      BY <2>1, <3>2, <3>3, <3>4, <3>5
  <2> QED
    BY <2>2, <2>3
<1>2. Covers(sp, u, 0)
  BY <1>1, RefsCount DEF Covers, Segs, SpillStates
<1>3. Backs(sp, u)
  BY DEF Backs
<1> QED
  BY <1>2, <1>3

\* ... or given up again.
LEMMA DerefKeeps ==
  ASSUME NEW sp \in SpillStates, NEW k \in Segs, NEW t, Covers(sp, t, k), Backs(sp, t), Ordered(sp),
         k < sp.next
  PROVE  /\ Covers(Deref(sp, k), t, 0) /\ Backs(Deref(sp, k), t) /\ Ordered(Deref(sp, k))
         /\ Deref(sp, k).put = sp.put /\ Deref(sp, k).open = sp.open
<1>1. /\ sp.live[k] \in Int /\ sp.live[k] >= 1 /\ \A n \in Segs : sp.live[n] \in Int /\ n # 0
      /\ sp.dead \subseteq Segs
  <2>1. sp.dead \subseteq Segs /\ \A n \in Segs : sp.live[n] \in Int /\ n # 0
    BY SegsPositive DEF SpillStates
  <2>2. Cardinality(Refs(t, k)) \in Nat /\ sp.live[k] >= Cardinality(Refs(t, k)) + 1
    BY RefsCount DEF Covers
  <2> QED
    BY <2>1, <2>2
<1>2. /\ Deref(sp, k).put = sp.put /\ Deref(sp, k).open = sp.open /\ Deref(sp, k).next = sp.next
      /\ \A n \in Segs : Deref(sp, k).live[n] = IF n = k THEN sp.live[n] - 1 ELSE sp.live[n]
      /\ \A n \in Deref(sp, k).dead : n \in sp.dead \/ (n = k /\ sp.live[k] = 1 /\ k # sp.open)
  BY <1>1 DEF Deref, SpillStates
<1>3. Covers(Deref(sp, k), t, 0)
  BY <1>1, <1>2, RefsCount DEF Covers
<1>4. k \notin sp.dead
  BY <1>1 DEF Ordered
<1>5. Ordered(Deref(sp, k))
  BY <1>1, <1>2, <1>4 DEF Ordered
<1> QED
  BY <1>2, <1>3, <1>5 DEF Backs, SegReadable

\* Forgetting entries takes their references from the counts, one each.
LEMMA ForgetKeeps ==
  ASSUME NEW sp \in SpillStates, NEW F \in SUBSET Slots, Covers(sp, table, 0), Backs(sp, table),
         Ordered(sp)
  PROVE  /\ Covers(DerefAll(sp, F), Forget(table, F), 0)
         /\ Backs(DerefAll(sp, F), Forget(table, F)) /\ Ordered(DerefAll(sp, F))
         /\ DerefAll(sp, F).put = sp.put /\ DerefAll(sp, F).open = sp.open
<1> DEFINE R(n) == {s \in F : SegOf(table[s]) = n}
           lost(n) == Cardinality(R(n))
           t == Forget(table, F)
<1>1. \A n \in Segs : /\ IsFiniteSet(R(n)) /\ lost(n) \in Nat /\ Refs(t, n) = Refs(table, n) \ R(n)
                      /\ R(n) \subseteq Refs(table, n)
                      /\ Cardinality(Refs(t, n)) = Cardinality(Refs(table, n)) - lost(n)
  <2> SUFFICES ASSUME NEW n \in Segs
               PROVE  /\ IsFiniteSet(R(n)) /\ lost(n) \in Nat /\ Refs(t, n) = Refs(table, n) \ R(n)
                      /\ R(n) \subseteq Refs(table, n)
                      /\ Cardinality(Refs(t, n)) = Cardinality(Refs(table, n)) - lost(n)
    OBVIOUS
  <2>1. R(n) \subseteq Refs(table, n)
    BY DEF Refs
  <2>2. Refs(t, n) = Refs(table, n) \ R(n)
    <3>1. SegOf(NoEntry) = 0 /\ n # 0
      BY DEF SegOf, Spilled, NoEntry, Segs
    <3> QED
      BY <3>1 DEF Refs, Forget
  <2>3. IsFiniteSet(R(n)) /\ IsFiniteSet(Refs(t, n)) /\ lost(n) \in Nat
    BY <2>1, RefsCount, FS_Subset, FS_CardinalityType
  <2> HIDE DEF R, t
  <2>4. Refs(table, n) = R(n) \cup Refs(t, n) /\ R(n) \cap Refs(t, n) = {}
    BY <2>1, <2>2
  <2>5. Cardinality(Refs(table, n)) = lost(n) + Cardinality(Refs(t, n)) - Cardinality({})
    BY <2>3, <2>4, FS_Union
  <2>6. Cardinality({}) = 0 /\ Cardinality(Refs(t, n)) \in Nat
    BY RefsCount, FS_EmptySet
  <2> QED
    BY <2>1, <2>2, <2>3, <2>5, <2>6
<1>2. /\ DerefAll(sp, F).put = sp.put /\ DerefAll(sp, F).open = sp.open
      /\ DerefAll(sp, F).next = sp.next
      /\ \A n \in Segs : DerefAll(sp, F).live[n] = sp.live[n] - lost(n)
      /\ \A n \in DerefAll(sp, F).dead :
           n \in sp.dead \/ (n \in Segs /\ lost(n) > 0 /\ sp.live[n] = lost(n) /\ n # sp.open)
  BY DEF DerefAll, SpillStates
<1>3. \A n \in Segs : sp.live[n] \in Int /\ n # 0 /\ sp.live[n] >= Cardinality(Refs(table, n))
                      /\ Cardinality(Refs(table, n)) \in Nat
  <2>1. \A n \in Segs : sp.live[n] \in Int /\ n # 0 /\ Cardinality(Refs(table, n)) \in Nat
    BY RefsCount, SegsPositive DEF SpillStates
  <2>2. \A n \in Segs : sp.live[n] >= Cardinality(Refs(table, n)) + 0
    BY <2>1 DEF Covers
  <2> QED
    BY <2>1, <2>2
<1> HIDE DEF lost, R
<1>4. Covers(DerefAll(sp, F), t, 0)
  BY <1>1, <1>2, <1>3 DEF Covers
<1>5. Backs(DerefAll(sp, F), t)
  BY <1>2 DEF Backs, SegReadable, Forget, NoEntry, Spilled
<1>6. Ordered(DerefAll(sp, F))
  <2>1. ASSUME NEW n \in DerefAll(sp, F).dead
        PROVE  DerefAll(sp, F).live[n] = 0 /\ n # sp.open /\ n < sp.next
    <3>1. CASE n \in sp.dead
      <4>1. n \in Segs /\ sp.live[n] = 0 /\ n # sp.open /\ n < sp.next
        BY <3>1 DEF Ordered, SpillStates
      <4>2. Cardinality(Refs(table, n)) = 0 /\ lost(n) = 0
        BY <1>1, <1>3, <4>1, RefsCount
      <4> QED
        BY <1>2, <4>1, <4>2
    <3>2. CASE n \in Segs /\ lost(n) > 0 /\ sp.live[n] = lost(n) /\ n # sp.open
      <4>1. R(n) # {}
        BY <3>2, FS_EmptySet DEF lost
      <4>2. PICK s \in Slots : SegOf(table[s]) = n
        BY <4>1 DEF R
      <4>3. SegReadable(sp, n)
        BY <1>3, <3>2, <4>2, SegType DEF Backs
      <4>4. n < sp.next
        BY <1>3, <3>2, <4>3 DEF Ordered, SegReadable
      <4> QED
        BY <1>1, <1>2, <1>3, <3>2, <4>4
    <3> QED
      BY <1>2, <2>1, <3>1, <3>2
  <2> QED
    BY <1>2, <2>1 DEF Ordered
<1> QED
  BY <1>2, <1>4, <1>5, <1>6
-----------------------------------------------------------------------------
(***************************************************************************)
(* Steps that leave the spill store alone.                                 *)
(***************************************************************************)
SegsSame(t, u) ==
  \A s \in Slots : (Spilled(u[s]) <=> Spilled(t[s])) /\ SegOf(u[s]) = SegOf(t[s])

LEMMA EvictSegs ==
  ASSUME NEW t \in Tables
  PROVE  /\ \A V \in SUBSET Evictable(t, Busy) : SegsSame(t, Evict(t, V))
         /\ \A V \in SUBSET Droppable(t, Busy) : SegsSame(t, DropSpilledLocal(t, V))
         /\ \A g : SegsSame(t, CommitDurable(t, g))
<1>0. \A s \in Slots : t[s] \in Entry(Content)
  BY DEF Tables
<1>1. \A V \in SUBSET Evictable(t, Busy) : SegsSame(t, Evict(t, V))
  BY <1>0 DEF SegsSame, Evict, Evictable, Spilled, SegOf, Entry
<1>2. \A V \in SUBSET Droppable(t, Busy) : SegsSame(t, DropSpilledLocal(t, V))
  BY <1>0 DEF SegsSame, DropSpilledLocal, Droppable, Spilled, SegOf, Entry
<1>3. \A g : SegsSame(t, CommitDurable(t, g))
  BY <1>0 DEF SegsSame, CommitDurable, Spilled, SegOf, Entry
<1> QED
  BY <1>1, <1>2, <1>3

LEMMA MaybeEvictSegs ==
  ASSUME NEW t \in Tables, NEW r, NEW data, NEW pending, MaybeEvict(t, r, data, pending)
  PROVE  SegsSame(t, table') /\ (pass'.pc = "flush" => pass.pc = "flush")
<1>1. PICK V : /\ V \in SUBSET Evictable(t, Busy) /\ table' = Evict(t, V)
               /\ pass' = pass \/ \E i, u, q : pass' \in Scan(data, i, 0, u, q, pending)
  <2>1. PICK V \in IF OverSoft(r) THEN Victims(t, r) ELSE {{}} :
          /\ table' = Evict(t, V)
          /\ pass' = pass \/ \E i, u, q : pass' \in Scan(data, i, 0, u, q, pending)
    BY DEF MaybeEvict
  <2>2. V \in SUBSET Evictable(t, Busy)
    BY VictimsEvictable
  <2> QED
    BY <2>1, <2>2
<1>2. SegsSame(t, table')
  BY <1>1, EvictSegs
<1>3. pass' = pass \/ pass'.pc \in {"off", "read"}
  BY <1>1, ScanCandidate
<1> QED
  BY <1>2, <1>3

GateKept ==
  /\ pass'.pc = "flush" => pass.pc = "flush"
  /\ \A b \in Blobs : InFlight(b)' => InFlight(b)

CkSteps ==
  /\ HoldsTable' => HoldsTable /\ ck'.table = ck.table
  /\ ck'.pc \in {"committed", "sweep"} => disk'.table = ck'.table
  /\ disk'.table = disk.table \/ (HoldsTable /\ disk'.table = ck.table)

LEMMA QuietKeeps ==
  ASSUME TypeOK, SpillInv, spill' = spill, GateKept, SegsSame(table, table'), CkSteps
  PROVE  SpillInv'
<1>1. ~GateFree' => ~GateFree
  BY DEF GateFree, GateKept, InFlight
<1>2. \A n \in Segs : spill.live[n] \in Int
  BY DEF TypeOK, SpillStates
<1>3. \A n : Refs(table', n) = Refs(table, n) /\ Cardinality(Refs(table, n)) \in Nat
  BY RefsCount DEF SegsSame
<1>4. Covers(spill, table, Pinned)'
  <2>1. Pinned' = 0 \/ Pinned' = Pinned
    BY <1>1 DEF Pinned
  <2>2. \A n \in Segs : n # 0
    BY SegsPositive
  <2> QED
    BY <1>2, <1>3, <2>1, <2>2 DEF SpillInv, Covers
<1>5. Ordered(spill)' /\ Backs(spill, table)'
  BY DEF SpillInv, Ordered, Backs, SegsSame, SegReadable
<1>6. OneAppend'
  BY <1>1 DEF SpillInv, OneAppend, GateKept
<1>7. TakenBacked'
  BY DEF SpillInv, TakenBacked, CkSteps, SegsSame
<1>8. LocatorsBacked'
  <2>1. HoldsTable => \A s \in Slots : Spilled(ck.table[s]) => ck.table[s].remote.seg \in spill.put
    BY SegType DEF SpillInv, TakenBacked
  <2> QED
    BY <2>1 DEF SpillInv, LocatorsBacked, CkSteps
<1> QED
  BY <1>4, <1>5, <1>6, <1>7, <1>8 DEF SpillInv

LEMMA QuietSteps ==
  ASSUME Known, Known', SpillInv, HasSpill => Uploadable = {},
         \/ \E b \in Blobs : \/ Allocate(b) \/ WriteDone(b) \/ SpillWriteFails(b) \/ WriteFails(b)
                             \/ HandOn(b) \/ Discard(b) \/ StartRead(b) \/ EndRead(b) \/ NoteUploaded(b)
         \/ PassRead \/ PassFails \/ StartCheckpoint \/ FlushFails \/ WriteMetadata
         \/ CheckpointFails \/ WriteSuperblock \/ Commit \/ Reclaim \/ SetCleanShutdown
         \/ UNCHANGED vars
  PROVE  SpillInv'
<1>0. TypeOK /\ table \in Tables
  BY DEF Known, TypeOK
<1>1. ASSUME spill' = spill, GateKept, SegsSame(table, table'), CkSteps PROVE SpillInv'
  BY <1>0, <1>1, QuietKeeps
<1>2. ck' = ck /\ disk' = disk => CkSteps
  BY DEF SpillInv, TakenBacked, CkSteps, HoldsTable
<1>3. table' = table => SegsSame(table, table')
  BY DEF SegsSame
<1>4. ASSUME NEW b \in Blobs, HandOn(b)
      PROVE  SpillInv'
  <2>1. SegsSame(table, table') /\ (pass'.pc = "flush" => pass.pc = "flush")
    BY <1>0, <1>4, MaybeEvictSegs DEF HandOn
  <2>2. spill' = spill /\ ck' = ck /\ disk' = disk /\ \A c \in Blobs : InFlight(c)' => InFlight(c)
    BY <1>0, <1>4 DEF HandOn, InFlight, TypeOK
  <2> QED
    BY <1>1, <1>2, <2>1, <2>2 DEF GateKept
<1>5. ASSUME NEW b \in Blobs,
             \/ Allocate(b) \/ WriteDone(b) \/ SpillWriteFails(b) \/ WriteFails(b)
             \/ Discard(b) \/ StartRead(b) \/ EndRead(b)
      PROVE  SpillInv'
  <2>1. UNCHANGED <<table, spill, pass, ck, disk>>
    BY <1>5 DEF Allocate, WriteDone, SpillWriteFails, WriteFails, Lost, Discard, StartRead, EndRead
  <2>2. \A c \in Blobs : InFlight(c)' => InFlight(c)
    BY <1>0, <1>5
    DEF Allocate, WriteDone, SpillWriteFails, WriteFails, Lost, Discard, StartRead, EndRead, InFlight, TypeOK
  <2> QED
    BY <1>1, <1>2, <1>3, <2>1, <2>2 DEF GateKept
<1>6. ASSUME NEW b \in Blobs, NoteUploaded(b)
      PROVE  SpillInv'
  <2> DEFINE t == MarkUploaded(table, where[b], gen, Object(Own(b)))
  <2>1. NoSpills(table) /\ NoSpills(table') /\ UNCHANGED <<phase, ck, disk>>
    BY <1>6 DEF NoteUploaded, Known, StatesInv
  <2>2. SegsSame(table, table')
    BY <2>1 DEF NoSpills, SegsSame, SegOf, Spilled
  <2>3. spill' = spill
    <3>1. where[b] \in Slots
      BY <1>0, <1>6 DEF NoteUploaded, TypeOK
    <3>2. SegOf(table[where[b]]) = 0
      BY <2>1, <3>1 DEF NoSpills, SegOf, Spilled
    <3> QED
      BY <1>6, <3>2, SegsPositive DEF NoteUploaded, Deref
  <2>4. pass'.pc = "flush" => pass.pc = "flush"
    <3>1. t \in Tables
      BY MarkType, RemoteType, OwnType, <1>0 DEF TypeOK
    <3>2. \E r : MaybeEvict(t, r, dataBlobs, Pending)
      BY <1>6 DEF NoteUploaded
    <3> QED
      BY <3>1, <3>2, MaybeEvictSegs
  <2> QED
    BY <1>1, <1>2, <2>1, <2>2, <2>3, <2>4 DEF GateKept, InFlight
<1>7. CASE PassRead \/ PassFails \/ SetCleanShutdown \/ UNCHANGED vars
  <2>1. UNCHANGED <<phase, table, spill, ck, disk>>
    BY <1>7 DEF PassRead, PassFails, SetCleanShutdown, vars
  <2>2. pass' = pass \/ pass'.pc \in {"put", "off"}
    <3>1. pass \in PassStates
      BY <1>0 DEF TypeOK
    <3>2. CASE PassRead
      BY <3>1, <3>2 DEF PassRead, PassStates
    <3>3. CASE PassFails \/ SetCleanShutdown \/ UNCHANGED vars
      BY <3>3 DEF PassFails, PassOff, SetCleanShutdown, vars
    <3> QED
      BY <1>7, <3>2, <3>3
  <2> QED
    BY <1>1, <1>2, <1>3, <2>1, <2>2 DEF GateKept, InFlight
<1>8. CASE StartCheckpoint \/ FlushFails \/ CheckpointFails
  <2>1. UNCHANGED <<table, spill, pass, disk>> /\ \A b \in Blobs : InFlight(b)' => InFlight(b)
    BY <1>8 DEF StartCheckpoint, FlushFails, CheckpointFails, InFlight
  <2>2. ck'.pc \in {"idle", "flush"}
    BY <1>8, IdleCkType DEF StartCheckpoint, FlushFails, CheckpointFails, CkStates
  <2> QED
    BY <1>1, <1>3, <2>1, <2>2 DEF GateKept, CkSteps, HoldsTable
<1>9. CASE WriteMetadata \/ WriteSuperblock
  <2>1. UNCHANGED <<phase, table, spill, pass>>
    BY <1>9 DEF WriteMetadata, WriteSuperblock
  <2>2. CkSteps
    BY <1>0, <1>9 DEF WriteMetadata, WriteSuperblock, CkSteps, HoldsTable, TypeOK, CkStates
  <2> QED
    BY <1>1, <1>3, <2>1, <2>2 DEF GateKept, InFlight
<1>10. CASE Commit
  <2> DEFINE durable == CommitDurable(table, ck.gen)
  <2>1. durable \in Tables /\ SegsSame(table, durable)
    BY <1>0, CommitDurableType, EvictSegs DEF TypeOK, CkStates
  <2>2. table' = durable \/ \E V \in SUBSET Evictable(durable, Busy) : table' = Evict(durable, V)
    BY <1>10, VictimsEvictable DEF Commit
  <2> HIDE DEF durable
  <2>3. SegsSame(table, table')
    BY <2>1, <2>2, EvictSegs DEF SegsSame
  <2>4. UNCHANGED <<phase, spill, pass, disk>> /\ ck.pc = "committed"
    BY <1>10 DEF Commit
  <2>5. CkSteps
    <3>1. \/ ck'.pc = "idle"
          \/ ck'.pc = "sweep" /\ ck'.table = ck.table
      BY <1>0, <1>10, IdleCkType DEF Commit, TypeOK, CkStates
    <3> QED
      BY <2>4, <3>1 DEF SpillInv, TakenBacked, CkSteps, HoldsTable
  <2> QED
    BY <1>1, <2>3, <2>4, <2>5 DEF GateKept, InFlight
<1>11. CASE Reclaim
  <2>1. PICK D \in SUBSET Droppable(table, Busy) :
          \E V \in SUBSET Evictable(DropSpilledLocal(table, D), Busy) :
            table' = Evict(DropSpilledLocal(table, D), V)
    BY <1>11, VictimsEvictable DEF Reclaim
  <2> DEFINE u == DropSpilledLocal(table, D)
  <2>2. u \in Tables /\ SegsSame(table, u)
    BY <1>0, DestructiveType, EvictSegs
  <2>3. PICK V \in SUBSET Evictable(u, Busy) : table' = Evict(u, V)
    BY <2>1
  <2> HIDE DEF u
  <2>4. SegsSame(table, table')
    BY <2>2, <2>3, EvictSegs DEF SegsSame
  <2>5. UNCHANGED <<phase, spill, pass, disk>> /\ ck'.pc = "idle"
    BY <1>11, IdleCkType DEF Reclaim
  <2> QED
    BY <1>1, <2>4, <2>5 DEF GateKept, InFlight, CkSteps, HoldsTable
<1> QED
  BY <1>4, <1>5, <1>6, <1>7, <1>8, <1>9, <1>10, <1>11
-----------------------------------------------------------------------------
(***************************************************************************)
(* Steps that append to the spill store: the append counts its reference   *)
(* ahead; when its segment is in place the entry is recorded, or, where    *)
(* somebody else recorded the blob meanwhile, the count is given back.     *)
(***************************************************************************)
PersistedKept ==
  /\ UNCHANGED <<ck, disk>> /\ spill.put \subseteq spill'.put
  /\ \A s \in Slots : Spilled(table[s]) => Spilled(table'[s]) /\ SegOf(table'[s]) = SegOf(table[s])

LEMMA PersistedKeeps ==
  ASSUME SpillInv, PersistedKept
  PROVE  TakenBacked' /\ LocatorsBacked'
BY DEF SpillInv, PersistedKept, TakenBacked, LocatorsBacked, HoldsTable

Ready(sp) ==
  /\ sp \in SpillStates /\ Covers(sp, table, OpenSeg) /\ Backs(sp, table) /\ Ordered(sp)
  /\ OpenSeg \in Segs /\ SegReadable(sp, OpenSeg) /\ OpenSeg < sp.next
  /\ spill.put \subseteq sp.put

LEMMA AppendReady ==
  ASSUME TypeOK, SpillInv, GateFree, SegmentCapacityLeft
  PROVE  Ready(Appended) /\ Appended.open = OpenSeg /\ OpenSeg # 0
<1>1. spill \in SpillStates /\ Covers(spill, table, 0)
  BY DEF TypeOK, SpillInv, Pinned
<1>2. Ordered(spill) /\ Backs(spill, table)
  BY DEF SpillInv
<1>3. Appended \in SpillStates
  BY <1>1, AppendType
<1> QED
  BY <1>1, <1>2, <1>3, AppendKeeps DEF Ready, SegReadable, Ordered

LEMMA FlushReady ==
  ASSUME TypeOK, SpillInv, ~GateFree
  PROVE  Ready(Flushed(spill))
<1>1. /\ spill \in SpillStates /\ spill.open # 0 /\ Covers(spill, table, spill.open)
      /\ Ordered(spill) /\ Backs(spill, table)
  BY DEF TypeOK, SpillInv, Pinned, OneAppend
<1>2. OpenSeg = spill.open /\ spill.open \in Segs
  BY <1>1 DEF OpenSeg, SpillStates
<1>3. Flushed(spill) \in SpillStates
  BY <1>1, FreeOfSpillType
<1> QED
  BY <1>1, <1>2, <1>3, FlushKeeps DEF Ready, SegReadable, Ordered

LEMMA GateFreed == GateFree' => OneAppend' /\ Pinned' = 0
BY DEF GateFree, OneAppend, InFlight, Pinned

LEMMA RecordKeeps ==
  ASSUME SpillInv, NEW sp, Ready(sp), spill' = sp, GateFree', UNCHANGED <<ck, disk>>,
         NEW s \in Slots, ~Tracked(table[s]), SegOf(table'[s]) = OpenSeg,
         \A x \in Slots \ {s} : table'[x] = table[x]
  PROVE  SpillInv'
<1>1. Covers(sp, table', 0) /\ Backs(sp, table')
  BY MarkKeeps DEF Ready
<1>2. PersistedKept
  BY DEF PersistedKept, Ready, Spilled, Tracked
<1>3. Ordered(spill)' /\ Backs(spill, table)'
  BY <1>1 DEF Ready, Ordered, Backs, SegReadable
<1>4. Covers(spill, table, Pinned)'
  BY <1>1, GateFreed DEF Covers
<1> QED
  BY <1>2, <1>3, <1>4, GateFreed, PersistedKeeps DEF SpillInv

LEMMA BornRemoteKeeps ==
  ASSUME Known, BytesInv, SpillInv, NEW b \in Blobs, SpillWrite(b) \/ SpillWriteDone(b)
  PROVE  SpillInv'
<1>1. /\ table' = MarkSpilledRemote(table, where[b], gen, Locator(OpenSeg, b))
      /\ phase' = [phase EXCEPT ![b] = "written"] /\ UNCHANGED <<pass, ck, disk>>
      /\ phase[b] \in Writing
  BY DEF SpillWrite, SpillWriteDone, BornRemote, Writing
<1>2. where[b] \in Slots /\ ~Tracked(table[where[b]])
  BY <1>1 DEF BytesInv, WritingFresh, Writing, Known, TypeOK
<1>3. /\ SegOf(table'[where[b]]) = OpenSeg
      /\ \A x \in Slots \ {where[b]} : table'[x] = table[x]
  BY <1>1, <1>2 DEF MarkSpilledRemote, Fact, Locator, SegOf, Spilled, Known, TypeOK, Tables
<1>4. Ready(spill')
  BY AppendReady, FlushReady DEF SpillWrite, SpillWriteDone, BornRemote, GateFree, Known
<1>5. GateFree'
  <2>1. \A c \in Blobs \ {b} : ~InFlight(c)
    BY DEF SpillInv, OneAppend, InFlight, SpillWrite, SpillWriteDone, GateFree
  <2>2. pass.pc # "flush"
    BY DEF SpillInv, OneAppend, InFlight, SpillWrite, SpillWriteDone, GateFree
  <2> QED
    BY <1>1, <2>1, <2>2 DEF GateFree, InFlight, Known, TypeOK
<1> QED
  BY <1>1, <1>2, <1>3, <1>4, <1>5, RecordKeeps

LEMMA PassMarkKeeps ==
  ASSUME Known, SpillInv, PassPut \/ PassPutDone
  PROVE  SpillInv'
<1> DEFINE s == dataBlobs[pass.i]
<1>1. s \in Slots /\ UNCHANGED <<phase, ck, disk>>
  BY DEF PassPut, PassPutDone, Known, TypeOK
<1>2. PICK sp : PassMark(sp) /\ Ready(sp)
  BY AppendReady, FlushReady DEF PassPut, PassPutDone, GateFree, Known
<1>3. GateFree'
  <2>1. \A b \in Blobs : ~InFlight(b)
    BY DEF SpillInv, OneAppend, InFlight, PassPut, PassPutDone, GateFree
  <2>2. pass'.pc # "flush"
    BY <1>2, ScanCandidate DEF PassMark
  <2> QED
    BY <1>1, <2>1, <2>2 DEF GateFree, InFlight
<1>4. CASE Tracked(table[s])
  <2>1. spill' = Deref(sp, OpenSeg) /\ table' = table
    BY <1>2, <1>4 DEF PassMark
  <2>2. /\ Covers(spill', table, 0) /\ Backs(spill', table) /\ Ordered(spill')
        /\ spill'.put = sp.put
    BY <1>2, <2>1, DerefKeeps DEF Ready
  <2>3. PersistedKept
    BY <1>1, <1>2, <2>1, <2>2 DEF PersistedKept, Ready
  <2>4. Covers(spill, table, Pinned)' /\ Ordered(spill)' /\ Backs(spill, table)'
    BY <1>3, <2>1, <2>2, GateFreed DEF Covers, Ordered, Backs, SegReadable
  <2> QED
    BY <1>3, <2>3, <2>4, GateFreed, PersistedKeeps DEF SpillInv
<1>5. CASE ~Tracked(table[s])
  <2>1. spill' = sp /\ table' = MarkSpilled(table, s, gen, Locator(OpenSeg, pass.bytes))
    BY <1>2, <1>5 DEF PassMark
  <2>2. SegOf(table'[s]) = OpenSeg /\ \A x \in Slots \ {s} : table'[x] = table[x]
    BY <1>1, <2>1 DEF MarkSpilled, Fact, Locator, SegOf, Spilled, Known, TypeOK, Tables
  <2> HIDE DEF s
  <2> QED
    BY <1>1, <1>2, <1>3, <1>5, <2>1, <2>2, RecordKeeps
<1> QED
  BY <1>4, <1>5

\* An append that fills its segment: the gate is held until the PUT returns.
LEMMA AppendFillsKeeps ==
  ASSUME Known, SpillInv, PassPutFills \/ \E b \in Blobs : SpillWriteFills(b)
  PROVE  SpillInv'
<1>1. GateFree /\ spill' = Appended /\ UNCHANGED <<table, ck, disk>>
  BY DEF PassPutFills, SpillWriteFills
<1>2. Ready(Appended) /\ Appended.open = OpenSeg /\ OpenSeg # 0
  BY AppendReady DEF PassPutFills, SpillWriteFills, Known
<1>3. PersistedKept
  BY <1>1, <1>2 DEF PersistedKept, Ready
<1>4. OneAppend' /\ ~GateFree'
  <2>1. pass.pc # "flush" /\ \A b \in Blobs : ~InFlight(b)
    BY <1>1 DEF GateFree, InFlight
  <2>2. CASE PassPutFills
    <3>1. pass'.pc = "flush" /\ phase' = phase
      BY <2>2 DEF PassPutFills, Known, TypeOK, PassStates
    <3> QED
      BY <1>1, <1>2, <2>1, <3>1 DEF OneAppend, InFlight, GateFree
  <2>3. ASSUME NEW b \in Blobs, SpillWriteFills(b) PROVE OneAppend' /\ ~GateFree'
    <3>1. pass' = pass /\ InFlight(b)' /\ \A c \in Blobs \ {b} : phase'[c] = phase[c]
      BY <2>3 DEF SpillWriteFills, Known, TypeOK, InFlight
    <3> QED
      BY <1>1, <1>2, <2>1, <3>1 DEF OneAppend, InFlight, GateFree
  <2> QED
    BY <2>2, <2>3
<1>5. Covers(spill, table, Pinned)'
  BY <1>1, <1>2, <1>4 DEF Pinned, Ready, Covers
<1>6. Ordered(spill)' /\ Backs(spill, table)'
  BY <1>1, <1>2 DEF Ready, Ordered, Backs, SegReadable
<1> QED
  BY <1>3, <1>4, <1>5, <1>6, PersistedKeeps DEF SpillInv
-----------------------------------------------------------------------------
(***************************************************************************)
(* The snapshot flushes the open segment first, so that every locator it   *)
(* takes is in the bucket; the sweep deletes only what no entry counts;    *)
(* after a crash the counts are replayed from the table that is read back. *)
(***************************************************************************)
LEMMA SnapshotKeeps ==
  ASSUME Known, SpillInv, Snapshot
  PROVE  SpillInv'
<1> DEFINE tracked == {s \in ck.freed : Tracked(table[s])}
           sp == Flushed(spill)
<1>1. /\ GateFree /\ spill' = DerefAll(sp, tracked) /\ table' = Forget(table, tracked)
      /\ UNCHANGED <<phase, pass, disk>>
  BY DEF Snapshot
<1>2. tracked \in SUBSET Slots /\ spill \in SpillStates /\ sp \in SpillStates
  BY FreeOfSpillType DEF Known, TypeOK, CkStates
<1>3. ck'.table = table' /\ ck'.pc = "write"
  <2>1. \E m \in free : \E d, p, l, f : ck' = [ck EXCEPT !.pc = "write", !.gen = gen, !.clean = cleanNext,
          !.table = Forget(table, tracked), !.resident = l, !.meta = m, !.free = f,
          !.deferred = d, !.punch = p]
    BY DEF Snapshot
  <2>2. ck \in CkStates
    BY DEF Known, TypeOK
  <2> HIDE DEF tracked
  <2> QED
    BY <1>1, <2>1, <2>2 DEF CkStates
<1> HIDE DEF tracked, sp
<1>4. Covers(spill, table, 0) /\ Ordered(spill) /\ Backs(spill, table)
  BY <1>1 DEF SpillInv, Pinned
<1>5. /\ Covers(sp, table, 0) /\ Ordered(sp) /\ Backs(sp, table)
      /\ spill.put \subseteq sp.put /\ sp.open = 0
  BY <1>2, <1>4, FlushKeeps DEF sp
<1>6. /\ Covers(spill', table', 0) /\ Ordered(spill') /\ Backs(spill', table')
      /\ spill'.put = sp.put /\ spill'.open = 0
  BY <1>1, <1>2, <1>5, ForgetKeeps
<1>7. GateFree'
  BY <1>1 DEF GateFree
<1>8. TakenBacked'
  BY <1>3, <1>6, SegsPositive DEF TakenBacked, HoldsTable, Backs, SegReadable
<1>9. LocatorsBacked'
  BY <1>1, <1>5, <1>6 DEF SpillInv, LocatorsBacked
<1> QED
  BY <1>6, <1>7, <1>8, <1>9, GateFreed DEF SpillInv, Covers, Ordered, Backs, SegReadable

LEMMA SweepKeeps ==
  ASSUME Known, SpillInv, Sweep
  PROVE  SpillInv'
<1>1. /\ GateFree /\ ck.pc = "sweep" /\ UNCHANGED <<phase, pass, table, disk>>
      /\ spill'.put = spill.put \ spill.dead /\ spill'.dead = {} /\ spill'.live = spill.live
      /\ spill'.open = spill.open /\ spill'.next = spill.next /\ ck'.pc = "reclaim"
  BY DEF Sweep, Known, TypeOK, SpillStates, CkStates
<1>2. Covers(spill, table, 0) /\ Ordered(spill) /\ Backs(spill, table)
  BY <1>1 DEF SpillInv, Pinned
<1>3. ASSUME NEW s \in Slots, Spilled(table[s]) PROVE SegOf(table[s]) \notin spill.dead
  <2> DEFINE n == SegOf(table[s])
  <2>1. n \in Segs /\ Refs(table, n) # {}
    BY <1>2, <1>3 DEF Backs, Refs
  <2>2. Cardinality(Refs(table, n)) # 0 /\ Cardinality(Refs(table, n)) \in Nat
    BY <2>1, RefsCount, FS_EmptySet
  <2>3. spill.live[n] >= Cardinality(Refs(table, n)) /\ spill.live[n] \in Int
    <3>1. n # 0 /\ spill.live[n] \in Int
      BY <2>1, SegsPositive DEF Known, TypeOK, SpillStates
    <3> HIDE DEF n
    <3> QED
      BY <1>2, <2>1, <2>2, <3>1 DEF Covers
  <2> QED
    BY <1>2, <2>2, <2>3 DEF Ordered
<1>4. GateFree'
  BY <1>1 DEF GateFree
<1>5. Covers(spill', table', 0) /\ Ordered(spill') /\ Backs(spill', table')
  BY <1>1, <1>2, <1>3 DEF Covers, Ordered, Backs, SegReadable
<1>6. TakenBacked' /\ LocatorsBacked'
  <2>1. ASSUME NEW s \in Slots, Spilled(disk.table[s])
        PROVE  disk.table[s].remote.seg \in spill'.put
    <3>1. disk.table = ck.table /\ Spilled(table[s]) /\ SegOf(table[s]) = SegOf(ck.table[s])
      BY <1>1, <2>1 DEF SpillInv, TakenBacked, HoldsTable
    <3> QED
      BY <1>1, <1>3, <2>1, <3>1, SegType DEF SpillInv, LocatorsBacked
  <2> QED
    BY <1>1, <2>1 DEF TakenBacked, HoldsTable, LocatorsBacked
<1> QED
  BY <1>4, <1>5, <1>6, GateFreed DEF SpillInv, Covers, Ordered, Backs, SegReadable

LEMMA CrashKeeps ==
  ASSUME Known, SpillInv, Crash
  PROVE  SpillInv'
<1>1. /\ table' = Deserialize(disk.table, disk.clean) /\ disk' = disk /\ ck'.pc = "idle" /\ pass'.pc = "off"
      /\ \A b \in Blobs : phase'[b] \in {"new", "tree"}
  BY IdleCkType DEF Crash, PassOff
<1>2. /\ spill'.open = 0 /\ spill'.dead = {} /\ spill'.next = spill.next
      /\ spill'.live = [n \in Segs |-> Cardinality(Refs(table', n))]
      /\ spill'.put = spill.put \cap {n \in Segs : Cardinality(Refs(table', n)) > 0}
  BY DEF Crash, Reopened, Refs
<1>3. \A s \in Slots : /\ Spilled(table'[s]) <=> Spilled(disk.table[s])
                       /\ SegOf(table'[s]) = SegOf(disk.table[s])
  <2>1. \A s \in Slots : disk.table[s] \in Entry(Content)
    BY DEF Known, TypeOK, Disks, Tables
  <2> QED
    BY <1>1, <2>1 DEF Deserialize, Demoted, Spilled, SegOf, Tracked, NoEntry, Entry, States
<1>4. ASSUME NEW s \in Slots, Spilled(table'[s])
      PROVE  SegOf(table'[s]) \in Segs \cap spill'.put
  <2> DEFINE n == SegOf(table'[s])
  <2>1. n \in spill.put /\ n \in Segs
    BY <1>3, <1>4, SegType DEF SpillInv, LocatorsBacked, Known, TypeOK, SpillStates
  <2>2. Refs(table', n) # {}
    BY DEF Refs
  <2>3. Cardinality(Refs(table', n)) > 0
    BY <2>2, RefsCount, FS_EmptySet
  <2> QED
    BY <1>2, <2>1, <2>3
<1>5. GateFree'
  BY <1>1 DEF GateFree
<1>6. Covers(spill', table', 0)
  <2>1. \A n \in Segs : n # 0 /\ Cardinality(Refs(table', n)) \in Nat
    BY RefsCount, SegsPositive
  <2> QED
    BY <1>2, <2>1 DEF Covers
<1>7. Ordered(spill') /\ Backs(spill', table')
  BY <1>2, <1>4 DEF SpillInv, Ordered, Backs, SegReadable
<1>8. TakenBacked'
  BY <1>1 DEF TakenBacked, HoldsTable
<1>9. LocatorsBacked'
  BY <1>1, <1>3, <1>4, SegType DEF LocatorsBacked
<1> QED
  BY <1>5, <1>6, <1>7, <1>8, <1>9, GateFreed DEF SpillInv, Covers, Ordered, Backs, SegReadable

LEMMA SpillInit == Init => SpillInv
<1> SUFFICES ASSUME Init PROVE SpillInv
  OBVIOUS
<1>1. /\ spill = NoSpill /\ pass.pc = "off" /\ ck.pc = "idle" /\ \A b \in Blobs : phase[b] = "new"
      /\ \A s \in Slots : ~Spilled(table[s]) /\ ~Spilled(disk.table[s])
  BY IdleCkType DEF Init, PassOff, NoDisk, NoEntry, Spilled
<1>2. \A n \in Segs : n # 0 /\ Refs(table, n) = {}
  BY <1>1, SegsPositive DEF Refs, SegOf
<1>3. Covers(spill, table, 0)
  <2>1. \A n \in Segs : spill.live[n] = 0 /\ Cardinality(Refs(table, n)) = 0 /\ n # 0
    BY <1>1, <1>2, FS_EmptySet DEF NoSpill
  <2> QED
    BY <2>1 DEF Covers
<1>4. GateFree
  BY <1>1 DEF GateFree
<1> QED
  BY <1>1, <1>3, <1>4
  DEF SpillInv, Pinned, Ordered, NoSpill, Backs, OneAppend, InFlight, TakenBacked, HoldsTable, LocatorsBacked

LEMMA SpillStep ==
  ASSUME SpillsAlone, Known, Known', HasSpill => BytesInv, SpillInv, [Next]_vars
  PROVE  SpillInv'
<1>1. ASSUME NEW b \in Blobs, SpillWrite(b) \/ SpillWriteDone(b) PROVE SpillInv'
  <2>1. HasSpill
    BY <1>1 DEF SpillWrite, SpillWriteDone, Known, StatesInv
  <2> QED
    BY <1>1, <2>1, BornRemoteKeeps
<1> QED
  BY <1>1, QuietSteps, PassMarkKeeps, AppendFillsKeeps, SnapshotKeeps, SweepKeeps, CrashKeeps
  DEF Next, SpillsAlone

(***************************************************************************)
(* For any number of blobs, slots, segments, checkpoints and crashes:      *)
(* every locator a committed table persists lies in a segment of the       *)
(* bucket, and the live counts cover what the table and the append in      *)
(* flight refer to.                                                        *)
(***************************************************************************)
THEOREM SpilledStaysBacked == ASSUME SpillsAlone PROVE Spec => []SpillBacked
<1> DEFINE Inv == Known /\ SpillInv /\ (HasSpill => BytesInv)
<1>1. Init => Inv
  BY KnownInit, BytesInit, SpillInit
<1>2. Inv /\ [Next]_vars => Inv'
  <2> SUFFICES ASSUME Inv, [Next]_vars PROVE Inv'
    OBVIOUS
  <2>1. Known'
    BY KnownStep
  <2>2. HasSpill => BytesInv'
    BY BytesStep DEF SpillsAlone, Disciplined
  <2> QED
    BY <2>1, <2>2, SpillStep
<1>3. Inv => SpillBacked
  <2> SUFFICES ASSUME Inv PROVE LiveCountsCover
    BY DEF SpillInv, SpillBacked
  <2>1. \A n \in Segs : n # 0
    BY SegsPositive
  <2> QED
    BY <2>1 DEF SpillInv, Covers, Pinned, Refs, LiveCountsCover
<1> QED
  BY <1>1, <1>2, <1>3, PTL DEF Spec

(***************************************************************************)
(* What a checkpoint or the committed table names has been handed on: no   *)
(* write of it is in flight any more, so none of them fails later.         *)
(***************************************************************************)
HandedOn == {"tree", "discard", "gone"}
NamedHandedOn ==
  \A b \in Blobs : ck.loc[b] # NoSlot \/ disk.loc[b] # NoSlot => phase[b] \in HandedOn

LEMMA NamedInit == Init => NamedHandedOn
BY DEF Init, NamedHandedOn, IdleCk, NoDisk, NoLocations

LEMMA NamedStep == TypeOK /\ NamedHandedOn /\ [Next]_vars => NamedHandedOn'
<1> SUFFICES ASSUME TypeOK, NamedHandedOn, [Next]_vars PROVE NamedHandedOn'
  OBVIOUS
<1>0. phase \in [Blobs -> Phases] /\ ck \in CkStates /\ IdleCk.loc = NoLocations
  BY DEF TypeOK, IdleCk
<1>1. ASSUME \A b \in Blobs : phase[b] \in HandedOn => phase'[b] \in HandedOn,
             ck'.loc = ck.loc \/ ck'.loc = NoLocations, disk'.loc = disk.loc \/ disk'.loc = ck.loc
      PROVE  NamedHandedOn'
  BY <1>1 DEF NamedHandedOn, NoLocations
<1>2. ASSUME NEW b \in Blobs,
             \/ Allocate(b) \/ WriteDone(b) \/ HandOn(b) \/ SpillWrite(b) \/ SpillWriteFills(b)
             \/ SpillWriteDone(b) \/ SpillWriteFails(b) \/ WriteFails(b) \/ Discard(b) \/ StartRead(b)
             \/ EndRead(b) \/ NoteUploaded(b)
      PROVE  NamedHandedOn'
  <2>1. ck' = ck /\ disk' = disk
    BY <1>2 DEF Allocate, WriteDone, HandOn, SpillWrite, SpillWriteFills, SpillWriteDone,
                SpillWriteFails, WriteFails, Lost, Discard, StartRead, EndRead, NoteUploaded
  <2>2. \/ phase' = phase
        \/ \E p : phase' = [phase EXCEPT ![b] = p] /\ (phase[b] \in HandedOn => p \in HandedOn)
    BY <1>2 DEF Allocate, WriteDone, HandOn, SpillWrite, SpillWriteFills, SpillWriteDone, BornRemote,
                SpillWriteFails, WriteFails, Lost, Discard, StartRead, EndRead, NoteUploaded, HandedOn
  <2> QED
    BY <1>0, <1>1, <2>1, <2>2
<1>3. CASE PassRead \/ PassPut \/ PassPutFills \/ PassPutDone \/ PassFails \/ SetCleanShutdown \/ UNCHANGED vars
  <2>1. UNCHANGED <<phase, ck, disk>>
    BY <1>3 DEF PassRead, PassPut, PassPutFills, PassPutDone, PassFails, SetCleanShutdown, vars
  <2> QED
    BY <1>1, <2>1
<1>4. CASE StartCheckpoint
  <2>1. /\ ck'.loc = [b \in Blobs |-> IF phase[b] = "tree" THEN where[b] ELSE NoSlot] /\ disk' = disk
        /\ phase' = [b \in Blobs |-> IF phase[b] = "discard" THEN "gone" ELSE phase[b]]
    BY <1>4, IdleCkType DEF StartCheckpoint, CkStates
  <2> QED
    BY <2>1 DEF NamedHandedOn, HandedOn
<1>5. CASE FlushFails \/ CheckpointFails \/ Commit \/ Reclaim \/ WriteMetadata \/ Sweep
  <2>1. phase' = phase /\ disk' = disk
    BY <1>5 DEF FlushFails, CheckpointFails, Commit, Reclaim, WriteMetadata, Sweep
  <2>2. ck' = IdleCk \/ \E p : ck' = [ck EXCEPT !.pc = p]
    BY <1>5 DEF FlushFails, CheckpointFails, Commit, Reclaim, WriteMetadata, Sweep
  <2>3. ck'.loc = ck.loc \/ ck'.loc = NoLocations
    BY <1>0, <2>2 DEF CkStates
  <2> QED
    BY <1>1, <2>1, <2>3
<1>6. CASE Snapshot
  <2> DEFINE tracked == {s \in ck.freed : Tracked(table[s])}
  <2>1. \E m \in free : \E d, p, l, f : ck' = [ck EXCEPT
          !.pc = "write", !.gen = gen, !.clean = cleanNext, !.table = Forget(table, tracked),
          !.resident = l, !.meta = m, !.free = f, !.deferred = d, !.punch = p]
    BY <1>6 DEF Snapshot
  <2> HIDE DEF tracked
  <2>2. ck'.loc = ck.loc
    BY <1>0, <2>1 DEF CkStates
  <2>3. phase' = phase /\ disk' = disk
    BY <1>6 DEF Snapshot
  <2> QED
    BY <1>1, <2>2, <2>3
<1>7. CASE WriteSuperblock
  <2>1. phase' = phase /\ disk'.loc = ck.loc /\ ck' = [ck EXCEPT !.pc = "committed"]
    BY <1>7 DEF WriteSuperblock
  <2>2. ck'.loc = ck.loc
    BY <1>0, <2>1 DEF CkStates
  <2> QED
    BY <1>1, <2>1, <2>2
<1>8. CASE Crash
  <2>1. /\ phase' = [b \in Blobs |-> IF disk.loc[b] = NoSlot THEN "new" ELSE "tree"]
        /\ ck' = IdleCk /\ disk' = disk
    BY <1>8 DEF Crash
  <2> QED
    BY <1>0, <2>1 DEF NamedHandedOn, HandedOn, NoLocations
<1> QED
  BY <1>2, <1>3, <1>4, <1>5, <1>6, <1>7, <1>8 DEF Next

RefInv == Known /\ BytesInv /\ SpillInv /\ NamedHandedOn

(***************************************************************************)
(* The refinement mapping reads through the cache, the table and the spill *)
(* area; by the invariants what it reads is always the blob's own bytes,   *)
(* where they were written.                                                *)
(***************************************************************************)
Views ==
  /\ StoreValue = [b \in Blobs |-> IF phase[b] = "tree" THEN Own(b) ELSE NoSlot]
  /\ StoreSaved = [b \in Blobs |-> IF disk.loc[b] = NoSlot THEN NoSlot ELSE Own(b)]

LEMMA StoreViews == RefInv => Views
<1> SUFFICES ASSUME RefInv PROVE Views
  OBVIOUS
<1>1. ASSUME NEW b \in Blobs \ unwritten, phase[b] = "tree"
      PROVE  ReadBytes(b) = b
  <2> DEFINE e == table[where[b]]
  <2>1. where[b] \in Slots /\ e \in Entry(Content) /\ b \in Published \ unwritten
    BY <1>1 DEF RefInv, Known, TypeOK, Tables, Published
  <2>2. (HasLocalBytes(e) => file[where[b]] = b) /\ (Tracked(e) => e.remote.bytes = b)
    BY <2>1 DEF RefInv, BytesInv, LiveBytes
  <2>3. Spilled(e) => SegReadable(spill, SegOf(e))
    BY <2>1 DEF RefInv, SpillInv, Backs
  <2>4. e.state \in States
    BY <2>1 DEF Entry
  <2> HIDE DEF e
  <2>5. Dispatch(e, where[b], SegReadable(spill, SegOf(e))) = b
    <3>1. CASE HasLocalBytes(e)
      BY <2>2, <2>4, <3>1 DEF Dispatch, HasLocalBytes
    <3>2. CASE e.state = "remote_uploaded"
      BY <2>2, <3>2 DEF Dispatch, HasLocalBytes, Tracked
    <3>3. CASE e.state = "remote_spilled"
      BY <2>2, <2>3, <3>3 DEF Dispatch, HasLocalBytes, Tracked, Spilled
    <3> QED
      BY <2>4, <3>1, <3>2, <3>3 DEF States, HasLocalBytes
  <2> QED
    BY <2>5 DEF ReadBytes, e
<1>2. ASSUME NEW b \in Blobs \ unwritten, disk.loc[b] # NoSlot
      PROVE  RecoveredBytes(b) = b
  <2> DEFINE s == disk.loc[b]
             old == disk.table[s]
             e == Deserialize(disk.table, disk.clean)[s]
  <2>1. s \in Slots /\ old \in Entry(Content) /\ b \in DiskNames \ unwritten
    BY <1>2 DEF RefInv, Known, TypeOK, Disks, Location, Tables, DiskNames
  <2>2. Holds(disk.table, disk.clean, s, b)
    BY <2>1 DEF RefInv, BytesInv, DiskBytes
  <2>3. /\ e.state \in States
        /\ Tracked(e) <=> Tracked(old)
        /\ Tracked(e) => e.remote = old.remote
        /\ HasLocalBytes(e) => ~Tracked(old) \/ (disk.clean /\ HasLocalBytes(old))
        /\ Spilled(e) => Spilled(old)
    BY <2>1 DEF Deserialize, Demoted, Tracked, HasLocalBytes, Spilled, Entry, States, NoEntry
  <2>4. (HasLocalBytes(e) => file[s] = b) /\ (Tracked(e) => e.remote.bytes = b)
    BY <2>2, <2>3 DEF Holds
  <2>5. Spilled(e) => SegOf(e) \in spill.put
    BY <2>1, <2>3, SegType DEF RefInv, SpillInv, LocatorsBacked, Spilled, Tracked
  <2> HIDE DEF s, e
  <2>6. Dispatch(e, s, SegOf(e) \in spill.put) = b
    <3>1. CASE HasLocalBytes(e)
      BY <2>3, <2>4, <3>1 DEF Dispatch, HasLocalBytes
    <3>2. CASE e.state = "remote_uploaded"
      BY <2>4, <3>2 DEF Dispatch, HasLocalBytes, Tracked
    <3>3. CASE e.state = "remote_spilled"
      BY <2>4, <2>5, <3>3 DEF Dispatch, HasLocalBytes, Tracked, Spilled
    <3> QED
      BY <2>3, <3>1, <3>2, <3>3 DEF States, HasLocalBytes
  <2> QED
    BY <2>6 DEF RecoveredBytes, s, e
<1> QED
  BY <1>1, <1>2 DEF Views, StoreValue, StoreSaved, Served, Own

LEMMA StoreViewsNext == RefInv' => Views'
BY StoreViews, PTL
-----------------------------------------------------------------------------
(***************************************************************************)
(* Each step of the backend is a step of the store, or none.               *)
(***************************************************************************)
SameOwn(b) == (b \in unwritten') <=> (b \in unwritten)
SameValue ==
  \A b \in Blobs : (phase'[b] = "tree" <=> phase[b] = "tree") /\ (phase[b] = "tree" => SameOwn(b))
SameTaken == ck'.loc = ck.loc /\ \A b \in Blobs : ck.loc[b] # NoSlot => SameOwn(b)
SameSaved == disk'.loc = disk.loc /\ \A b \in Blobs : disk.loc[b] # NoSlot => SameOwn(b)

LEMMA SameViews ==
  ASSUME Views, Views'
  PROVE  /\ SameValue => StoreValue' = StoreValue
         /\ SameTaken => StoreTaken' = StoreTaken
         /\ SameSaved => StoreSaved' = StoreSaved
         /\ ck'.loc = NoLocations => StoreTaken' = Store!Nothing
<1>1. SameValue => StoreValue' = StoreValue
  BY DEF Views, SameValue, SameOwn, Own
<1>2. SameTaken => StoreTaken' = StoreTaken
  BY DEF SameTaken, SameOwn, StoreTaken, Own
<1>3. SameSaved => StoreSaved' = StoreSaved
  BY DEF Views, SameSaved, SameOwn, Own
<1>4. ck'.loc = NoLocations => StoreTaken' = Store!Nothing
  BY DEF StoreTaken, NoLocations, Store!Nothing
<1> QED
  BY <1>1, <1>2, <1>3, <1>4

LEMMA PublishStep ==
  ASSUME RefInv, Views, Views', NEW b \in Blobs, HandOn(b)
  PROVE  Store!StoreNext
<1>1. /\ phase[b] # "tree" /\ phase' = [phase EXCEPT ![b] = "tree"]
      /\ UNCHANGED <<ck, disk, unwritten>> /\ phase \in [Blobs -> Phases]
  BY DEF HandOn, RefInv, Known, TypeOK
<1>2. StoreTaken' = StoreTaken /\ StoreSaved' = StoreSaved
  BY <1>1, SameViews DEF SameTaken, SameSaved, SameOwn
<1>3. StoreValue[b] = NoSlot /\ StoreValue' = [StoreValue EXCEPT ![b] = Own(b)]
  BY <1>1 DEF Views, Own
<1>4. CASE b \notin unwritten
  <2>1. Store!Publish(b)
    BY <1>2, <1>3, <1>4 DEF Store!Publish, Own
  <2> QED
    BY <2>1 DEF Store!StoreNext
<1>5. CASE b \in unwritten
  <2>1. Store!PublishBroken(b)
    BY <1>2, <1>3, <1>5 DEF Store!PublishBroken, Own
  <2> QED
    BY <2>1 DEF Store!StoreNext
<1> QED
  BY <1>4, <1>5

LEMMA DropStep ==
  ASSUME RefInv, Views, Views', NEW b \in Blobs, Discard(b)
  PROVE  Store!StoreNext
<1>1. /\ phase[b] = "tree" /\ phase' = [phase EXCEPT ![b] = "discard"]
      /\ UNCHANGED <<ck, disk, unwritten>> /\ phase \in [Blobs -> Phases]
  BY DEF Discard, RefInv, Known, TypeOK
<1>2. StoreTaken' = StoreTaken /\ StoreSaved' = StoreSaved
  BY <1>1, SameViews DEF SameTaken, SameSaved, SameOwn
<1>3. StoreValue' = [StoreValue EXCEPT ![b] = NoSlot]
  BY <1>1 DEF Views, Own
<1>4. StoreValue[b] # NoSlot
  BY <1>1, PackedFileAssumption DEF Views, Own, PackedFileAssumption
<1>5. Store!Drop(b)
  BY <1>2, <1>3, <1>4 DEF Store!Drop
<1> QED
  BY <1>5 DEF Store!StoreNext

LEMMA CheckpointStep ==
  ASSUME RefInv, Views, Views',
         \/ StartCheckpoint \/ WriteSuperblock \/ FlushFails \/ CheckpointFails
         \/ Commit \/ Reclaim \/ Crash
  PROVE  [Store!StoreNext]_(Store!storeVars)
<1>0. IdleCk.loc = NoLocations
  BY DEF IdleCk
<1>1. CASE StartCheckpoint
  <2>1. ck'.loc = [b \in Blobs |-> IF phase[b] = "tree" THEN where[b] ELSE NoSlot]
    BY <1>1, IdleCkType DEF StartCheckpoint, CkStates
  <2>2. \A b \in Blobs : phase[b] = "tree" => where[b] # NoSlot
    BY PackedFileAssumption DEF RefInv, Known, TypeOK, PackedFileAssumption
  <2>3. StoreTaken' = StoreValue
    BY <1>1, <2>1, <2>2 DEF StoreTaken, Views, Own, StartCheckpoint
  <2>4. SameValue /\ SameSaved
    BY <1>1 DEF StartCheckpoint, SameValue, SameSaved, SameOwn
  <2>5. Store!BeginCheckpoint
    BY <2>3, <2>4, SameViews DEF Store!BeginCheckpoint
  <2> QED
    BY <2>5 DEF Store!StoreNext
<1>2. CASE WriteSuperblock
  <2>1. SameValue /\ SameTaken /\ disk'.loc = ck.loc /\ unwritten' = unwritten
    BY <1>2 DEF WriteSuperblock, SameValue, SameTaken, SameOwn, RefInv, Known, TypeOK, CkStates
  <2>2. StoreSaved' = StoreTaken
    BY <2>1 DEF StoreTaken, Views, Own
  <2>3. Store!CommitCheckpoint
    BY <2>1, <2>2, SameViews DEF Store!CommitCheckpoint
  <2> QED
    BY <2>3 DEF Store!StoreNext
<1>3. CASE FlushFails \/ CheckpointFails \/ Commit \/ Reclaim
  <2>1. SameValue /\ SameSaved
    BY <1>3 DEF FlushFails, CheckpointFails, Commit, Reclaim, SameValue, SameSaved, SameOwn
  <2>2. CASE ck'.loc = NoLocations
    <3>1. Store!AbandonCheckpoint
      BY <2>1, <2>2, SameViews DEF Store!AbandonCheckpoint
    <3> QED
      BY <3>1 DEF Store!StoreNext
  <2>3. CASE ck'.loc = ck.loc
    <3>1. unwritten' = unwritten
      BY <1>3 DEF FlushFails, CheckpointFails, Commit, Reclaim
    <3> QED
      BY <2>1, <2>3, <3>1, SameViews DEF SameTaken, SameOwn, Store!storeVars
  <2>4. ck' = IdleCk \/ ck' = [ck EXCEPT !.pc = "sweep"]
    BY <1>3 DEF FlushFails, CheckpointFails, Commit, Reclaim
  <2> QED
    BY <1>0, <2>2, <2>3, <2>4 DEF RefInv, Known, TypeOK, CkStates
<1>4. CASE Crash
  <2>1. /\ phase' = [b \in Blobs |-> IF disk.loc[b] = NoSlot THEN "new" ELSE "tree"]
        /\ ck'.loc = NoLocations /\ SameSaved
        /\ \A b \in Blobs : disk.loc[b] # NoSlot => SameOwn(b)
    BY <1>0, <1>4 DEF Crash, SameSaved, SameOwn
  <2>2. StoreValue' = StoreSaved
    BY <2>1 DEF Views, SameOwn, Own
  <2>3. Store!CrashAndReopen
    BY <2>1, <2>2, SameViews DEF Store!CrashAndReopen
  <2> QED
    BY <2>3 DEF Store!StoreNext
<1> QED
  BY <1>1, <1>2, <1>3, <1>4

LEMMA StutterStep ==
  ASSUME RefInv, Views, Views',
         \/ \E b \in Blobs : \/ Allocate(b) \/ WriteDone(b) \/ SpillWrite(b) \/ SpillWriteFills(b)
                             \/ SpillWriteDone(b) \/ SpillWriteFails(b) \/ WriteFails(b)
                             \/ StartRead(b) \/ EndRead(b) \/ NoteUploaded(b)
         \/ PassRead \/ PassPut \/ PassPutFills \/ PassPutDone \/ PassFails
         \/ Snapshot \/ WriteMetadata \/ Sweep \/ SetCleanShutdown \/ UNCHANGED vars
  PROVE  UNCHANGED Store!storeVars
<1>0. ASSUME NEW b \in Blobs, phase[b] = "tree" \/ ck.loc[b] # NoSlot \/ disk.loc[b] # NoSlot
      PROVE  SameOwn(b)
  <2>1. phase[b] \in HandedOn
    BY <1>0 DEF RefInv, NamedHandedOn, HandedOn
  <2>2. \A c \in Blobs : SpillWriteFails(c) \/ WriteFails(c) => c # b /\ unwritten' = unwritten \cup {c}
    BY <2>1 DEF SpillWriteFails, WriteFails, Lost, HandedOn
  <2>3. CASE unwritten' = unwritten
    BY <2>3 DEF SameOwn
  <2>4. CASE \E c \in Blobs : SpillWriteFails(c) \/ WriteFails(c)
    BY <2>2, <2>4 DEF SameOwn
  <2> QED
    BY <2>3, <2>4
    DEF Allocate, WriteDone, SpillWrite, SpillWriteFills, SpillWriteDone, StartRead, EndRead, NoteUploaded,
        PassRead, PassPut, PassPutFills, PassPutDone, PassFails, Snapshot, WriteMetadata, Sweep,
        SetCleanShutdown, vars
<1>1. SameSaved
  <2>1. disk' = disk
    BY DEF Allocate, WriteDone, SpillWrite, SpillWriteFills, SpillWriteDone, SpillWriteFails, WriteFails,
           Lost, StartRead, EndRead, NoteUploaded, PassRead, PassPut, PassPutFills, PassPutDone, PassFails,
           Snapshot, WriteMetadata, Sweep, SetCleanShutdown, vars
  <2> QED
    BY <1>0, <2>1 DEF SameSaved
<1>2. SameTaken
  <2>1. CASE Snapshot
    <3> DEFINE tracked == {s \in ck.freed : Tracked(table[s])}
    <3>1. \E m \in free : \E d, p, l, f : ck' = [ck EXCEPT
            !.pc = "write", !.gen = gen, !.clean = cleanNext, !.table = Forget(table, tracked),
            !.resident = l, !.meta = m, !.free = f, !.deferred = d, !.punch = p]
      BY <2>1 DEF Snapshot
    <3> HIDE DEF tracked
    <3> QED
      BY <1>0, <3>1 DEF SameTaken, RefInv, Known, TypeOK, CkStates
  <2>2. CASE WriteMetadata \/ Sweep
    BY <1>0, <2>2 DEF WriteMetadata, Sweep, SameTaken, RefInv, Known, TypeOK, CkStates
  <2>3. CASE ck' = ck
    BY <1>0, <2>3 DEF SameTaken
  <2> QED
    BY <2>1, <2>2, <2>3
    DEF Allocate, WriteDone, SpillWrite, SpillWriteFills, SpillWriteDone, SpillWriteFails, WriteFails,
        Lost, StartRead, EndRead, NoteUploaded, PassRead, PassPut, PassPutFills, PassPutDone, PassFails, SetCleanShutdown, vars
<1>3. SameValue
  <2>1. ASSUME NEW b \in Blobs,
               \/ Allocate(b) \/ WriteDone(b) \/ SpillWrite(b) \/ SpillWriteFills(b) \/ SpillWriteDone(b)
               \/ SpillWriteFails(b) \/ WriteFails(b)
        PROVE  SameValue
    <3>1. phase[b] # "tree" /\ \E p : p # "tree" /\ phase' = [phase EXCEPT ![b] = p]
      BY <2>1 DEF Allocate, WriteDone, SpillWrite, SpillWriteFills, SpillWriteDone, BornRemote,
                  SpillWriteFails, WriteFails, Lost
    <3> QED
      BY <1>0, <3>1 DEF SameValue, RefInv, Known, TypeOK
  <2>2. CASE phase' = phase
    BY <1>0, <2>2 DEF SameValue
  <2> QED
    BY <2>1, <2>2
    DEF StartRead, EndRead, NoteUploaded, PassRead, PassPut, PassPutFills, PassPutDone, PassFails,
        Snapshot, WriteMetadata, Sweep, SetCleanShutdown, vars
<1> QED
  BY <1>1, <1>2, <1>3, SameViews DEF Store!storeVars

LEMMA StoreStart == Init => Store!StoreInit
<1> SUFFICES ASSUME Init PROVE Store!StoreInit
  OBVIOUS
<1>1. /\ \A b \in Blobs : phase[b] # "tree"
      /\ ck.loc = NoLocations /\ disk.loc = NoLocations
  BY DEF Init, IdleCk, NoDisk
<1> QED
  BY <1>1 DEF Store!StoreInit, Store!Nothing, StoreValue, StoreTaken, StoreSaved, NoLocations

(***************************************************************************)
(* Where only tracked blobs are freed beside a spill area, and nothing is  *)
(* uploaded beside a spill area or an orderly teardown: what the tree      *)
(* refers to reads back as itself, unless its own write failed; a          *)
(* checkpoint commits exactly the blobs it took, those whose write failed  *)
(* included; and a crash at any step falls back to the last that           *)
(* committed.  A failed write, or any number of them, costs no other blob  *)
(* its bytes.                                                              *)
(***************************************************************************)
THEOREM BackendImplementsStore == ASSUME Disciplined, SpillsAlone PROVE Spec => Implements
<1>1. Init => RefInv /\ Store!StoreInit
  BY KnownInit, BytesInit, SpillInit, NamedInit, StoreStart DEF RefInv
<1>2. RefInv /\ [Next]_vars => RefInv'
  <2> SUFFICES ASSUME RefInv, [Next]_vars PROVE RefInv'
    OBVIOUS
  <2>1. Known' /\ BytesInv'
    BY KnownStep, BytesStep DEF RefInv
  <2>2. SpillInv'
    BY <2>1, SpillStep DEF RefInv
  <2>3. NamedHandedOn'
    BY NamedStep DEF RefInv, Known
  <2> QED
    BY <2>1, <2>2, <2>3 DEF RefInv
<1>3. RefInv /\ RefInv' /\ [Next]_vars => [Store!StoreNext]_(Store!storeVars)
  <2> SUFFICES ASSUME RefInv, RefInv', [Next]_vars PROVE [Store!StoreNext]_(Store!storeVars)
    OBVIOUS
  <2>1. Views /\ Views'
    BY StoreViews, StoreViewsNext
  <2> QED
    BY <2>1, PublishStep, DropStep, CheckpointStep, StutterStep DEF Next
<1> QED
  BY <1>1, <1>2, <1>3, PTL DEF Spec, Implements, Store!StoreSpec

-----------------------------------------------------------------------------
(***************************************************************************)
(* The bucket.  What each id was given for is a function "given" of the    *)
(* proof: the object to be put there and, for data, the tree it is of.     *)
(***************************************************************************)
\* The failures the theorem allows: not of data or of the registry, whose errors
\* the chain does not look at; no session that begins over what is there; and no
\* copy over a copy.
Steady == /\ FailingPuts \cap {"data", "registry"} = {}
          /\ Restarts = {}
          /\ CopyOver \subseteq {"DEW0"}

ObjectId == [id : Nat, by : Nat \ {0}]
Blob(i) == <<"blob", i>>
Kinds == {"attributes", "stats", "perf", "registry"}
Metas == [Kinds -> ObjectId \cup {NoLocation}]

IsObject(g, l, kind) == l \in ObjectId /\ g[l.id].object.by = l.by /\ g[l.id].object.kind = kind
Filled(g, b, l) == Blob(l.id) \in DOMAIN b /\ b[Blob(l.id)] = g[l.id].object
Kept(g, b, D, l, kind) == IsObject(g, l, kind) /\ Filled(g, b, l) /\ l \notin D
UnitKept(g, b, D, t, u) == Kept(g, b, D, u, "data") /\ g[u.id].tree = t
TreeKept(g, b, D, t, l) ==
  /\ Kept(g, b, D, l, "tree")
  /\ \A u \in g[l.id].object.units : u.id < l.id /\ UnitKept(g, b, D, t, u)
IndexKept(g, b, D, trees, n) ==
  \A t \in DOMAIN trees : t \in Trees /\ trees[t].id < n /\ TreeKept(g, b, D, t, trees[t])
ManifestKept(g, b, D, m) ==
  /\ m.kind = "DEW0" /\ m.next \in Nat /\ m.by \in Nat /\ m.meta \in Metas
  /\ \A k \in Kinds : Kept(g, b, D, m.meta[k], k) /\ m.meta[k].id < m.next
  /\ IndexKept(g, b, D, g[m.meta["registry"].id].object.trees, m.meta["registry"].id)

DurableOK(g, b, D) == Exists(b) => ManifestKept(g, b, D, b[Manifest])
NamedOK(g, b, N) ==
  /\ ~Exists(b) => N = {}
  /\ \A o \in N : \E i \in Nat : /\ i < b[Manifest].next /\ o.name = Blob(i) /\ o.by = g[i].object.by
                                 /\ o.name \in DOMAIN b => b[o.name].by = o.by

\* What the chain holds back, frees and removes.
TakenOf(c, t) == IF c.at = "trees" /\ t \in DOMAIN c.discards THEN c.discards[t] ELSE {}
LatePhases == {"registry", "attributes", "stats", "perf", "manifest"}
FreedOf(c) == IF c.at \in LatePhases THEN c.freed ELSE {}
DoomedOf(c) == IF c.at = "reclaim" THEN ToSet(c.todo) ELSE {}
KeepsOf(mem, c, t) == mem[t].units \cup mem[t].discards \cup TakenOf(c, t)

MemoryOK(g, b, mem, c, n) ==
  /\ mem \in [Trees -> [units : SUBSET ObjectId, dirty : BOOLEAN, discards : SUBSET ObjectId]]
  /\ \A t \in Trees :
       /\ \A u \in KeepsOf(mem, c, t) : UnitKept(g, b, DoomedOf(c), t, u) /\ u.id < n /\ u \notin FreedOf(c)
       /\ mem[t].units \cap mem[t].discards = {} /\ (mem[t].dirty \/ mem[t].discards = {})
       /\ TakenOf(c, t) \cap (mem[t].units \cup mem[t].discards) = {}
       /\ IsFiniteSet(mem[t].discards) /\ IsFiniteSet(TakenOf(c, t))
WritesOK(g, mem, W, c, n, s) ==
  \A w \in W :
    /\ w = [tree |-> g[w.location.id].tree, location |-> w.location]
    /\ w.tree \in Trees /\ w.location \in ObjectId /\ w.location.id < n /\ w.location.by = s
    /\ g[w.location.id].object = DataObject(s)
    /\ w.location \notin FreedOf(c) \cup DoomedOf(c)
    /\ \A t \in Trees : w.location \notin KeepsOf(mem, c, t)
RegistryOK(g, b, mem, c, reg, n) ==
  /\ IndexKept(g, b, DoomedOf(c), reg, n)
  /\ \A t \in DOMAIN reg : g[reg[t].id].object.units \subseteq KeepsOf(mem, c, t)
MetaOK(g, meta, n) ==
  /\ meta \in Metas
  /\ \A k \in Kinds : meta[k] = NoLocation \/ (IsObject(g, meta[k], k) /\ meta[k].id < n)
DoomedOK(g, c, n) ==
  /\ \A x \in FreedOf(c) \cup DoomedOf(c) : x \in ObjectId /\ g[x.id].object.by = x.by /\ x.id < n
  /\ \A x \in FreedOf(c) : g[x.id].object.kind = "data"
  /\ IsFiniteSet(FreedOf(c))
  /\ c.at = "reclaim" => DOMAIN c = {"at", "todo"} /\ c.todo \in Seq(ObjectId)

Tasks == [tree : Trees, location : ObjectId, object : {TreeObject(U, by) : U \in SUBSET ObjectId, by \in Nat}]
TreesOK(g, b, mem, c, n, s) == c.at = "trees" =>
  /\ DOMAIN c = {"at", "failed", "todo", "written", "discards"}
  /\ c.failed \in BOOLEAN /\ c.todo \in Seq(Tasks)
  /\ \A k \in DOMAIN c.todo : /\ c.todo[k].location.by = s /\ c.todo[k].location.id < n
                              /\ g[c.todo[k].location.id].object = c.todo[k].object
  /\ DOMAIN c.written = DOMAIN c.discards /\ DOMAIN c.written \subseteq Trees
  /\ \A t \in DOMAIN c.written :
       /\ IsObject(g, c.written[t], "tree") /\ c.written[t].id < n
       /\ \A u \in g[c.written[t].id].object.units : u.id < c.written[t].id /\ UnitKept(g, b, {}, t, u)
       /\ g[c.written[t].id].object.units \subseteq mem[t].units \cup mem[t].discards
       /\ c.failed \/ Filled(g, b, c.written[t]) \/ \E k \in DOMAIN c.todo : c.todo[k].location = c.written[t]
DoneOf(at) == IF at = "attributes" THEN {"registry"}
              ELSE IF at = "stats" THEN {"registry", "attributes"}
              ELSE IF at = "perf" THEN {"registry", "attributes", "stats"}
              ELSE IF at = "manifest" THEN Kinds ELSE {}
MetasOK(g, b, c, reg, meta, n, s) == c.at \in LatePhases =>
  /\ c.meta \in Metas
  /\ IsObject(g, c.meta["registry"], "registry") /\ c.meta["registry"].id < n
  /\ g[c.meta["registry"].id].object = RegistryObject(reg, s)
  /\ \A t \in DOMAIN reg : reg[t].id < c.meta["registry"].id
  /\ \A k \in Kinds : meta[k] = NoLocation \/ meta[k].id < c.meta["registry"].id
  /\ c.at = "registry" => c.object = RegistryObject(reg, s)
  /\ \A k \in DoneOf(c.at) : /\ Kept(g, b, {}, c.meta[k], k)
                             /\ c.meta["registry"].id <= c.meta[k].id /\ c.meta[k].id < n
  /\ c.at \in {"stats", "perf", "manifest"} =>
       /\ c.next \in Nat /\ c.next <= n /\ (Exists(b) => b[Manifest].next <= c.next)
       /\ \A k \in DoneOf(c.at) : c.meta[k].id < c.next

\* A session that writes, with n the next id.
WorkOK(g, b, mem, W, c, reg, meta, n, s) ==
  /\ n \in Nat /\ s \in Nat \ {0}
  /\ c.at \in {"idle", "trees", "reclaim"} \cup LatePhases
  /\ Exists(b) => b[Manifest].next <= n
  /\ DurableOK(g, b, DoomedOf(c))
  /\ MemoryOK(g, b, mem, c, n) /\ WritesOK(g, mem, W, c, n, s) /\ RegistryOK(g, b, mem, c, reg, n)
  /\ MetaOK(g, meta, n) /\ DoomedOK(g, c, n)
  /\ TreesOK(g, b, mem, c, n, s) /\ MetasOK(g, b, c, reg, meta, n, s)

\* The names are told apart.
LEMMA Names ==
  /\ \A l \in ObjectId : Name("DEW0", l) = Blob(l.id)
  /\ \A i \in Nat : Blob(i) # Manifest
  /\ \A i, j \in Nat : Blob(i) = Blob(j) => i = j
BY DEF Name, Blob, Manifest, ObjectId

LEMMA KindsAre == Kinds = DOMAIN NoMeta /\ ToSet(MetaKinds) = {"attributes", "stats", "perf"}
<1>1. DOMAIN MetaKinds = 1 .. 3 /\ MetaKinds[1] = "attributes" /\ MetaKinds[2] = "stats" /\ MetaKinds[3] = "perf"
  BY DEF MetaKinds
<1>2. ToSet(MetaKinds) = {MetaKinds[1], MetaKinds[2], MetaKinds[3]}
  BY <1>1 DEF ToSet
<1> QED
  BY <1>1, <1>2 DEF Kinds, NoMeta

\* What is kept in one bucket is kept in another that fills the same ids.
Carried(g, b, D, h, d, E, n) ==
  /\ n \in Nat
  /\ \A i \in Nat : i < n => h[i] = g[i]
  /\ \A l \in ObjectId : l.id < n /\ g[l.id].object.by = l.by /\ Filled(g, b, l) /\ l \notin D
                           => Filled(h, d, l) /\ l \notin E

LEMMA KeptCarried ==
  ASSUME NEW g, NEW b, NEW D, NEW h, NEW d, NEW E, NEW n, Carried(g, b, D, h, d, E, n)
  PROVE  /\ \A l, kind : IsObject(g, l, kind) /\ l.id < n => IsObject(h, l, kind)
         /\ \A l, kind : Kept(g, b, D, l, kind) /\ l.id < n => Kept(h, d, E, l, kind)
         /\ \A t, u : UnitKept(g, b, D, t, u) /\ u.id < n => UnitKept(h, d, E, t, u)
<1>1. \A l : l \in ObjectId => l.id \in Nat
  BY DEF ObjectId
<1> QED
  BY <1>1 DEF Carried, IsObject, Kept, UnitKept

LEMMA TreeCarried ==
  ASSUME NEW g, NEW b, NEW D, NEW h, NEW d, NEW E, NEW n, Carried(g, b, D, h, d, E, n),
         NEW t, NEW l, TreeKept(g, b, D, t, l), l.id < n
  PROVE  TreeKept(h, d, E, t, l) /\ h[l.id] = g[l.id]
<1>1. l \in ObjectId /\ l.id \in Nat /\ n \in Nat
  BY DEF TreeKept, Kept, IsObject, ObjectId, Carried
<1>2. h[l.id] = g[l.id]
  BY <1>1 DEF Carried
<1>3. Kept(h, d, E, l, "tree")
  BY KeptCarried DEF TreeKept
<1>4. ASSUME NEW u \in g[l.id].object.units PROVE u.id < l.id /\ UnitKept(h, d, E, t, u)
  <2>1. u.id < l.id /\ UnitKept(g, b, D, t, u)
    BY DEF TreeKept
  <2>2. u.id \in Nat
    BY <2>1 DEF UnitKept, Kept, IsObject, ObjectId
  <2>3. u.id < n
    BY <1>1, <2>1, <2>2
  <2> QED
    BY <2>1, <2>3, KeptCarried
<1> QED
  BY <1>2, <1>3, <1>4 DEF TreeKept

LEMMA IndexCarried ==
  ASSUME NEW g, NEW b, NEW D, NEW h, NEW d, NEW E, NEW n, Carried(g, b, D, h, d, E, n),
         NEW trees, NEW m \in Nat, m <= n, IndexKept(g, b, D, trees, m)
  PROVE  IndexKept(h, d, E, trees, m)
<1> SUFFICES ASSUME NEW t \in DOMAIN trees
             PROVE  t \in Trees /\ trees[t].id < m /\ TreeKept(h, d, E, t, trees[t])
  BY DEF IndexKept
<1>1. t \in Trees /\ trees[t].id < m /\ TreeKept(g, b, D, t, trees[t])
  BY DEF IndexKept
<1>2. trees[t].id \in Nat /\ n \in Nat
  BY <1>1 DEF TreeKept, Kept, IsObject, ObjectId, Carried
<1>3. trees[t].id < n
  BY <1>1, <1>2
<1> QED
  BY <1>1, <1>3, TreeCarried

LEMMA ManifestCarried ==
  ASSUME NEW g, NEW b, NEW D, NEW h, NEW d, NEW E, NEW n, Carried(g, b, D, h, d, E, n),
         NEW m, ManifestKept(g, b, D, m), m.next <= n
  PROVE  ManifestKept(h, d, E, m)
<1>1. n \in Nat /\ m.next \in Nat
  BY DEF Carried, ManifestKept
<1>2. \A k \in Kinds : m.meta[k].id \in Nat /\ m.meta[k].id < n /\ m.meta[k].id < m.next
  BY <1>1 DEF ManifestKept, Kept, IsObject, ObjectId
<1>3. \A k \in Kinds : Kept(h, d, E, m.meta[k], k)
  BY <1>2, KeptCarried DEF ManifestKept
<1> DEFINE r == m.meta["registry"].id
<1>4. r \in Nat /\ r < n /\ h[r] = g[r]
  BY <1>2 DEF Kinds, Carried
<1>5. IndexKept(g, b, D, g[r].object.trees, r)
  BY DEF ManifestKept
<1> HIDE DEF r
<1>6. IndexKept(h, d, E, g[r].object.trees, r)
  BY <1>1, <1>4, <1>5, IndexCarried
<1> QED
  BY <1>2, <1>3, <1>4, <1>6 DEF ManifestKept, r

\* A session goes on as it did, in a bucket that keeps what it has below n, whose manifest may be a
\* new one, and with more ids given.
LEMMA WorkOver ==
  ASSUME NEW g, NEW b, NEW h, NEW d, NEW mem, NEW W, NEW c, NEW reg, NEW meta, NEW n, NEW m \in Nat, NEW s,
         WorkOK(g, b, mem, W, c, reg, meta, n, s), n <= m,
         Carried(g, b, DoomedOf(c), h, d, DoomedOf(c), n),
         DurableOK(h, d, DoomedOf(c)), Exists(d) => d[Manifest].next <= m,
         c.at \in {"stats", "perf", "manifest"} => (Exists(d) => d[Manifest].next <= c.next)
  PROVE  WorkOK(h, d, mem, W, c, reg, meta, m, s)
<1> DEFINE D == DoomedOf(c)
<1>1. n \in Nat /\ m \in Nat /\ \A i \in Nat : i < n => i < m /\ h[i] = g[i]
  BY DEF WorkOK, Carried
<1>2. Carried(g, b, D, h, d, D, n)
  OBVIOUS
<1>3. \A l : l \in ObjectId => l.id \in Nat
  BY DEF ObjectId
<1> HIDE DEF D
<1>4. /\ \A l, kind : IsObject(g, l, kind) /\ l.id < n => IsObject(h, l, kind) /\ l.id < m /\ h[l.id] = g[l.id]
      /\ \A l, kind : Kept(g, b, D, l, kind) /\ l.id < n => Kept(h, d, D, l, kind) /\ l.id < m
      /\ \A t, u : UnitKept(g, b, D, t, u) /\ u.id < n => UnitKept(h, d, D, t, u) /\ u.id < m
  BY <1>1, <1>2, <1>3, KeptCarried DEF IsObject, Kept, UnitKept
<1>5. DurableOK(h, d, D)
  BY DEF D
<1>6. Exists(d) => d[Manifest].next <= m
  OBVIOUS
<1>7. MemoryOK(h, d, mem, c, m)
  BY <1>4 DEF MemoryOK, WorkOK, D
<1>8. WritesOK(h, mem, W, c, m, s)
  BY <1>1, <1>3 DEF WritesOK, WorkOK
<1>9. RegistryOK(h, d, mem, c, reg, m)
  <2>1. IndexKept(g, b, D, reg, n)
    BY DEF WorkOK, RegistryOK, D
  <2>2. IndexKept(h, d, D, reg, n)
    BY <1>1, <1>2, <2>1, IndexCarried
  <2>3. \A t \in DOMAIN reg : reg[t].id \in Nat /\ reg[t].id < n
    BY <1>3, <2>1 DEF IndexKept, TreeKept, Kept, IsObject
  <2>4. IndexKept(h, d, D, reg, m)
    BY <1>1, <2>2, <2>3 DEF IndexKept
  <2> QED
    BY <1>1, <2>3, <2>4 DEF WorkOK, RegistryOK, D
<1>10. MetaOK(h, meta, m)
  BY <1>4 DEF WorkOK, MetaOK
<1>11. DoomedOK(h, c, m)
  BY <1>1, <1>3 DEF WorkOK, DoomedOK
<1>12. TreesOK(h, d, mem, c, m, s)
  <2> SUFFICES ASSUME c.at = "trees" PROVE TreesOK(h, d, mem, c, m, s)
    BY DEF TreesOK
  <2>1. TreesOK(g, b, mem, c, n, s) /\ D = {}
    BY DEF WorkOK, DoomedOf, D
  <2>2. \A k \in DOMAIN c.todo : c.todo[k].location \in ObjectId
    <3>1. c.todo \in Seq(Tasks)
      BY <2>1 DEF TreesOK
    <3>2. \A k \in DOMAIN c.todo : c.todo[k] \in Tasks
      BY <3>1
    <3> QED
      BY <3>2 DEF Tasks
  <2>3. \A k \in DOMAIN c.todo : /\ c.todo[k].location.by = s /\ c.todo[k].location.id < m
                                 /\ h[c.todo[k].location.id].object = c.todo[k].object
    BY <1>1, <1>3, <2>1, <2>2 DEF TreesOK
  <2>4. ASSUME NEW t \in DOMAIN c.written
        PROVE  /\ IsObject(h, c.written[t], "tree") /\ c.written[t].id < m
               /\ \A u \in h[c.written[t].id].object.units : u.id < c.written[t].id /\ UnitKept(h, d, {}, t, u)
               /\ h[c.written[t].id].object.units \subseteq mem[t].units \cup mem[t].discards
               /\ c.failed \/ Filled(h, d, c.written[t]) \/ \E k \in DOMAIN c.todo : c.todo[k].location = c.written[t]
    <3> DEFINE l == c.written[t]
    <3>1. /\ IsObject(g, l, "tree") /\ l.id < n
          /\ \A u \in g[l.id].object.units : u.id < l.id /\ UnitKept(g, b, D, t, u)
          /\ g[l.id].object.units \subseteq mem[t].units \cup mem[t].discards
          /\ c.failed \/ Filled(g, b, l) \/ \E k \in DOMAIN c.todo : c.todo[k].location = l
      BY <2>1 DEF TreesOK
    <3> HIDE DEF l
    <3>2. IsObject(h, l, "tree") /\ l.id < m /\ h[l.id] = g[l.id] /\ l.id \in Nat
      BY <1>3, <1>4, <3>1 DEF IsObject
    <3>3. \A u \in g[l.id].object.units : u.id \in Nat
      BY <1>3, <3>1 DEF UnitKept, Kept, IsObject
    <3>4. \A u \in g[l.id].object.units : u.id < n
      BY <1>1, <3>1, <3>2, <3>3
    <3>5. \A u \in g[l.id].object.units : UnitKept(h, d, D, t, u)
      BY <1>4, <3>1, <3>4
    <3>6. Filled(g, b, l) => Filled(h, d, l)
      BY <1>2, <2>1, <3>1 DEF Carried, IsObject
    <3> QED
      BY <2>1, <3>1, <3>2, <3>5, <3>6 DEF l
  <2> QED
    BY <2>1, <2>3, <2>4 DEF TreesOK
<1>13. MetasOK(h, d, c, reg, meta, m, s)
  <2> SUFFICES ASSUME c.at \in LatePhases PROVE MetasOK(h, d, c, reg, meta, m, s)
    BY DEF MetasOK
  <2>1. MetasOK(g, b, c, reg, meta, n, s) /\ D = {}
    BY DEF WorkOK, DoomedOf, D, LatePhases
  <2>2. \A k \in DoneOf(c.at) : Kept(h, d, {}, c.meta[k], k) /\ c.meta[k].id < m
    BY <1>4, <2>1 DEF MetasOK
  <2>3. c.at \in {"stats", "perf", "manifest"} => c.next \in Nat /\ c.next <= m
    BY <1>1, <2>1 DEF MetasOK
  <2> QED
    BY <1>4, <2>1, <2>2, <2>3 DEF MetasOK
<1> QED
  BY <1>1, <1>5, <1>6, <1>7, <1>8, <1>9, <1>10, <1>11, <1>12, <1>13 DEF WorkOK, D

LEMMA WorkCarried ==
  ASSUME NEW g, NEW b, NEW h, NEW d, NEW mem, NEW W, NEW c, NEW reg, NEW meta, NEW n, NEW m \in Nat, NEW s,
         WorkOK(g, b, mem, W, c, reg, meta, n, s), n <= m,
         Carried(g, b, DoomedOf(c), h, d, DoomedOf(c), n),
         Exists(d) <=> Exists(b), Exists(b) => d[Manifest] = b[Manifest]
  PROVE  WorkOK(h, d, mem, W, c, reg, meta, m, s)
<1> DEFINE D == DoomedOf(c)
<1>1. /\ n \in Nat /\ m \in Nat
      /\ Exists(b) => b[Manifest].next \in Nat /\ b[Manifest].next <= n /\ ManifestKept(g, b, D, b[Manifest])
      /\ c.at \in {"stats", "perf", "manifest"} => (Exists(b) => b[Manifest].next <= c.next)
  BY DEF WorkOK, DurableOK, ManifestKept, MetasOK, LatePhases
<1>2. Exists(d) => d[Manifest].next <= m
  BY <1>1
<1>3. DurableOK(h, d, D)
  BY <1>1, ManifestCarried DEF DurableOK
<1>4. c.at \in {"stats", "perf", "manifest"} => (Exists(d) => d[Manifest].next <= c.next)
  BY <1>1
<1> QED
  BY <1>2, <1>3, <1>4, WorkOver

-----------------------------------------------------------------------------
(***************************************************************************)
(* What a manifest leads to.                                               *)
(***************************************************************************)
LEMMA ReachableKept ==
  ASSUME NEW g, NEW b, NEW D, Exists(b), ManifestKept(g, b, D, b[Manifest])
  PROVE  /\ Layout(b) = "DEW0"
         /\ LocationsOf(b) = g[b[Manifest].meta["registry"].id].object.trees
         /\ \A t \in DOMAIN LocationsOf(b) : UnitsOf(b, LocationsOf(b)[t]) = g[LocationsOf(b)[t].id].object.units
         /\ \A o \in Reachable(b) : \E l \in ObjectId :
              /\ o = [name |-> Blob(l.id), by |-> l.by] /\ l.id < b[Manifest].next
              /\ Filled(g, b, l) /\ g[l.id].object.by = l.by
<1> DEFINE m == b[Manifest]
           r == m.meta["registry"]
           trees == g[r.id].object.trees
           Met(l) == l \in ObjectId /\ l.id < m.next /\ Filled(g, b, l) /\ g[l.id].object.by = l.by
<1>1. Layout(b) = "DEW0"
  BY DEF Layout, ManifestKept
<1>2. m.next \in Nat /\ \A k \in Kinds : Met(m.meta[k])
  BY DEF ManifestKept, Kept, IsObject
<1>3. Kept(g, b, D, r, "registry") /\ r \in ObjectId /\ r.id \in Nat /\ r.id < m.next
  BY DEF ManifestKept, Kinds, Kept, IsObject, ObjectId
<1>4. LocationsOf(b) = trees
  <2>1. RegistryName(b) = Blob(r.id)
    BY <1>1, <1>3, Names DEF RegistryName
  <2>2. HoldsKind(b, RegistryName(b), "registry") /\ b[RegistryName(b)] = g[r.id].object
    BY <1>3, <2>1 DEF HoldsKind, Kept, IsObject, Filled
  <2> QED
    BY <2>2 DEF LocationsOf
<1>5. ASSUME NEW t \in DOMAIN trees
      PROVE  /\ Met(trees[t]) /\ UnitsOf(b, trees[t]) = g[trees[t].id].object.units
             /\ \A u \in UnitsOf(b, trees[t]) : Met(u)
  <2> DEFINE l == trees[t]
  <2>1. l.id < r.id /\ TreeKept(g, b, D, t, l)
    BY DEF ManifestKept, IndexKept
  <2> HIDE DEF l, trees
  <2>2. Kept(g, b, D, l, "tree") /\ l \in ObjectId /\ l.id \in Nat
    BY <2>1 DEF TreeKept, Kept, IsObject, ObjectId
  <2>3. Met(l)
    BY <1>2, <1>3, <2>1, <2>2 DEF Kept, IsObject
  <2>4. UnitsOf(b, l) = g[l.id].object.units
    <3>1. Name(Layout(b), l) = Blob(l.id)
      BY <1>1, <2>2, Names
    <3> QED
      BY <2>2, <3>1 DEF UnitsOf, HoldsKind, Kept, IsObject, Filled
  <2>5. ASSUME NEW u \in g[l.id].object.units PROVE Met(u)
    <3>1. u.id < l.id /\ u \in ObjectId /\ Filled(g, b, u) /\ g[u.id].object.by = u.by
      BY <2>1 DEF TreeKept, UnitKept, Kept, IsObject
    <3>2. u.id \in Nat
      BY <3>1 DEF ObjectId
    <3> QED
      BY <1>2, <1>3, <2>1, <2>2, <3>1, <3>2
  <2> QED
    BY <2>3, <2>4, <2>5 DEF l
<1>6. ASSUME NEW o \in Reachable(b) PROVE \E l \in ObjectId : Met(l) /\ o = [name |-> Blob(l.id), by |-> l.by]
  <2> HIDE DEF trees
  <2> DEFINE T == {LocationsOf(b)[t] : t \in DOMAIN LocationsOf(b)}
             A == {m.meta[k] : k \in DOMAIN NoMeta} \cup T \cup UNION {UnitsOf(b, l) : l \in T}
  <2>1. Reachable(b) = {[name |-> Name(Layout(b), l), by |-> l.by] : l \in A \ {NoLocation}}
    BY DEF Reachable
  <2>2. \A l \in A : Met(l)
    BY <1>2, <1>4, <1>5, KindsAre
  <2> HIDE DEF A, m
  <2>3. PICK l \in A : o = [name |-> Name(Layout(b), l), by |-> l.by]
    BY <2>1
  <2> QED
    BY <1>1, <2>2, <2>3, Names
<1> QED
  BY <1>1, <1>4, <1>5, <1>6

LEMMA DurableIntact ==
  ASSUME NEW g, NEW b, NEW D, DurableOK(g, b, D)
  PROVE  Intact(b)
<1> SUFFICES ASSUME NEW o \in Reachable(b) PROVE o.name \in DOMAIN b /\ b[o.name].by = o.by
  BY DEF Intact
<1>1. Exists(b)
  BY DEF Reachable
<1>2. ManifestKept(g, b, D, b[Manifest])
  BY <1>1 DEF DurableOK
<1>3. PICK l \in ObjectId : /\ o = [name |-> Blob(l.id), by |-> l.by]
                            /\ Filled(g, b, l) /\ g[l.id].object.by = l.by
  BY <1>1, <1>2, ReachableKept
<1> QED
  BY <1>3 DEF Filled

-----------------------------------------------------------------------------
(***************************************************************************)
(* The invariant.                                                          *)
(***************************************************************************)
\* A location that the copy with m objects gives.
Within(l, by, m) == l.id \in Nat /\ l.id < m /\ l.by = by
\* The objects by their ids, then the band, then a manifest that leads to them.
PlanOK(P, by, m, meta, trees) ==
  /\ m \in Nat /\ (\E X : P \in Seq(X)) /\ DOMAIN P = 1 .. (m + 2) /\ Len(P) = m + 2
  /\ \A j \in 1 .. m : P[j].name = <<"data", j - 1>> /\ P[j].object.by = by
  /\ P[m + 1].name = <<"bands", 0>>
  /\ P[m + 2].name = Manifest /\ P[m + 2].object = ManifestObject("DEW2", m, meta, by)
  /\ \A k \in Kinds : Within(meta[k], by, m)
  /\ P[meta["registry"].id + 1].object = RegistryObject(trees, by)
  /\ \A t \in DOMAIN trees :
       /\ Within(trees[t], by, m) /\ P[trees[t].id + 1].object.kind = "tree"
       /\ \A u \in P[trees[t].id + 1].object.units : Within(u, by, m)

\* A copy: what it has put, the first k, is there.
CopyGoes(P, k, m, meta, trees) ==
  /\ PlanOK(P, session, m, meta, trees) /\ k \in Nat /\ k < m + 2
  /\ DOMAIN chain = {"at", "todo"} /\ chain.at = "copy"
  /\ (\E X : chain.todo \in Seq(X)) /\ Len(chain.todo) = m + 2 - k
  /\ \A j \in 1 .. (m + 2 - k) : chain.todo[j] = P[k + j]
  /\ \A j \in 1 .. k : P[j].name \in DOMAIN bucket /\ bucket[P[j].name] = P[j].object
CopyOK == session \in Nat \ {0} /\ \E P, k, m, meta, trees : CopyGoes(P, k, m, meta, trees)

SessionOK(g) ==
  /\ backend = [next |-> backend.next, meta |-> backend.meta, born |-> backend.born] /\ backend.born \in Nat
  /\ WorkOK(g, bucket, memory, writes, chain, registry, backend.meta, backend.next, session)

Usable(g) ==
  /\ session \in Nat /\ mode \in {"closed", "writing", "copying"}
  /\ NamedOK(g, bucket, named)
  /\ mode = "writing" => SessionOK(g)
  /\ mode # "writing" => DurableOK(g, bucket, {}) /\ writes = {}
  /\ mode = "closed" => chain = NoChain
  /\ mode = "copying" => CopyOK

\* A copy that is there stays as it is.
Copied == mode = "closed" /\ Exists(bucket) /\ Layout(bucket) = "DEW2" /\ BucketSound

BucketInv == Copied \/ \E g : Usable(g)

LEMMA UsableSound ==
  ASSUME NEW g, Usable(g)
  PROVE  BucketSound
<1>1. Intact(bucket)
  BY DurableIntact DEF Usable, SessionOK, WorkOK
<1>2. StaleReadsFail
  BY DEF Usable, NamedOK, StaleReadsFail
<1> QED
  BY <1>1, <1>2 DEF BucketSound, DatasetIntact

\* Ids given from n on are not yet named.
LEMMA NamedCarried ==
  ASSUME NEW g, NEW h, NEW n \in Nat, NamedOK(g, bucket, named), \A i \in Nat : i < n => h[i] = g[i],
         Exists(bucket) => bucket[Manifest].next \in Nat /\ bucket[Manifest].next <= n
  PROVE  NamedOK(h, bucket, named)
<1>1. CASE ~Exists(bucket)
  BY <1>1 DEF NamedOK
<1>2. CASE Exists(bucket)
  <2>1. \A i \in Nat : i < bucket[Manifest].next => i < n
    BY <1>2
  <2> QED
    BY <1>2, <2>1 DEF NamedOK
<1> QED
  BY <1>1, <1>2

\* A PUT of what an id was given for.
LEMMA PutKeeps ==
  ASSUME NEW g, NEW l \in ObjectId, NEW kind, NEW ok, NEW n \in Nat, NEW D,
         Put(Name("DEW0", l), g[l.id].object, kind, ok)
  PROVE  /\ Carried(g, bucket, D, g, bucket', D, n)
         /\ Exists(bucket') <=> Exists(bucket)
         /\ Exists(bucket) => bucket'[Manifest] = bucket[Manifest]
         /\ ok => Filled(g, bucket', l)
         /\ NamedOK(g, bucket, named) => NamedOK(g, bucket', named)
<1>1. l.id \in Nat /\ Name("DEW0", l) = Blob(l.id)
  BY Names DEF ObjectId
<1> DEFINE x == Blob(l.id)
           filled == Stored(x, g[l.id].object)
<1>2. bucket' = filled \/ (~ok /\ bucket' = bucket)
  BY <1>1 DEF Put
<1>3. /\ DOMAIN filled = DOMAIN bucket \cup {x} /\ filled[x] = g[l.id].object
      /\ \A y \in DOMAIN bucket : y # x => filled[y] = bucket[y]
  BY DEF Stored
<1>4. x # Manifest
  BY <1>1, Names
<1> HIDE DEF filled, x
<1>5. \A k \in ObjectId : Filled(g, bucket, k) => Filled(g, filled, k)
  <2> SUFFICES ASSUME NEW k \in ObjectId, Filled(g, bucket, k) PROVE Filled(g, filled, k)
    OBVIOUS
  <2>1. k.id \in Nat
    BY DEF ObjectId
  <2>2. Blob(k.id) = x => k.id = l.id
    BY <1>1, <2>1, Names DEF x
  <2> QED
    BY <1>3, <2>2 DEF Filled
<1>6. Carried(g, bucket, D, g, bucket', D, n)
  BY <1>2, <1>5 DEF Carried
<1>7. (Exists(bucket') <=> Exists(bucket)) /\ (Exists(bucket) => bucket'[Manifest] = bucket[Manifest])
  BY <1>2, <1>3, <1>4 DEF Exists
<1>8. ok => Filled(g, bucket', l)
  BY <1>2, <1>3 DEF Filled, x
<1>9. ASSUME NamedOK(g, bucket, named) PROVE NamedOK(g, bucket', named)
  <2>1. CASE ~Exists(bucket)
    BY <1>7, <1>9, <2>1 DEF NamedOK
  <2>2. CASE Exists(bucket)
    <3> SUFFICES ASSUME NEW o \in named
                 PROVE  \E i \in Nat : /\ i < bucket'[Manifest].next /\ o.name = Blob(i) /\ o.by = g[i].object.by
                                       /\ o.name \in DOMAIN bucket' => bucket'[o.name].by = o.by
      BY <1>7, <2>2 DEF NamedOK
    <3>1. PICK i \in Nat : /\ i < bucket[Manifest].next /\ o.name = Blob(i) /\ o.by = g[i].object.by
                           /\ o.name \in DOMAIN bucket => bucket[o.name].by = o.by
      BY <1>9 DEF NamedOK
    <3>2. o.name = x => i = l.id
      BY <1>1, <3>1, Names DEF x
    <3> QED
      BY <1>2, <1>3, <1>7, <2>2, <3>1, <3>2
  <2> QED
    BY <2>1, <2>2
<1> QED
  BY <1>6, <1>7, <1>8, <1>9

-----------------------------------------------------------------------------
(***************************************************************************)
(* A session begins and ends.                                              *)
(***************************************************************************)
LEMMA InitBucket == ObjectsInit => BucketInv
<1> SUFFICES ASSUME ObjectsInit PROVE Usable([i \in Nat |-> 0])
  BY DEF BucketInv
<1>1. ~Exists(bucket)
  BY DEF ObjectsInit, Exists, Empty
<1> QED
  BY <1>1 DEF ObjectsInit, Usable, NamedOK, DurableOK

LEMMA SessionBegins ==
  ASSUME NEW g, NEW next \in Nat, NEW meta, NEW born \in Nat, NEW restored,
         Usable(g), mode = "closed", BeginSession(next, meta, born, restored),
         MetaOK(g, meta, next), IndexKept(g, bucket, {}, restored, next),
         Exists(bucket) => bucket[Manifest].next <= next,
         \A t \in DOMAIN restored : UnitsOf(bucket, restored[t]) = g[restored[t].id].object.units
  PROVE  Usable(g)'
<1>1. /\ session \in Nat /\ NamedOK(g, bucket, named) /\ DurableOK(g, bucket, {})
      /\ writes = {} /\ chain = NoChain
  BY DEF Usable
<1>2. /\ session' = session + 1 /\ mode' = "writing" /\ registry' = restored
      /\ backend' = [next |-> next, meta |-> meta, born |-> born]
      /\ UNCHANGED <<bucket, writes, chain, named>>
  BY DEF BeginSession
<1>3. chain' = NoChain /\ chain'.at = "idle" /\ writes' = {}
  BY <1>1, <1>2 DEF NoChain
<1>4. DoomedOf(chain') = {} /\ FreedOf(chain') = {} /\ \A t : TakenOf(chain', t) = {}
  BY <1>3 DEF DoomedOf, FreedOf, TakenOf, LatePhases
<1> DEFINE U(t) == IF t \in DOMAIN restored THEN UnitsOf(bucket, restored[t]) ELSE {}
<1>5. ASSUME NEW t \in Trees, NEW u \in U(t)
      PROVE  UnitKept(g, bucket, {}, t, u) /\ u \in ObjectId /\ u.id < next
  <2>1. t \in DOMAIN restored /\ u \in g[restored[t].id].object.units
    OBVIOUS
  <2> DEFINE l == restored[t]
  <2>2. l.id < next /\ TreeKept(g, bucket, {}, t, l)
    BY <2>1 DEF IndexKept
  <2>3. u.id < l.id /\ UnitKept(g, bucket, {}, t, u) /\ l \in ObjectId /\ u \in ObjectId
    BY <2>1, <2>2 DEF TreeKept, UnitKept, Kept, IsObject
  <2>4. u.id \in Nat /\ l.id \in Nat
    BY <2>3 DEF ObjectId
  <2> HIDE DEF l
  <2> QED
    BY <2>2, <2>3, <2>4
<1>6. /\ memory' \in [Trees -> [units : SUBSET ObjectId, dirty : BOOLEAN, discards : SUBSET ObjectId]]
      /\ \A t \in Trees : memory'[t].units = U(t) /\ memory'[t].discards = {}
  <2> DEFINE X(V) == [Clean EXCEPT !.units = V]
  <2>1. ASSUME NEW V PROVE X(V) \in [units : {V}, dirty : {FALSE}, discards : {{}}]
    <3>1. Clean \in [units : {{}}, dirty : {FALSE}, discards : {{}}]
      BY DEF Clean
    <3> QED
      BY <3>1
  <2>2. memory' = [t \in Trees |-> X(U(t))]
    BY DEF BeginSession
  <2> HIDE DEF U, X
  <2>3. ASSUME NEW t \in Trees
        PROVE  /\ X(U(t)) \in [units : SUBSET ObjectId, dirty : BOOLEAN, discards : SUBSET ObjectId]
               /\ X(U(t)).units = U(t) /\ X(U(t)).discards = {}
    <3>1. X(U(t)) \in [units : {U(t)}, dirty : {FALSE}, discards : {{}}]
      BY <2>1
    <3>2. U(t) \in SUBSET ObjectId
      BY <1>5
    <3> QED
      BY <3>1, <3>2
  <2> QED
    BY <2>2, <2>3
<1> HIDE DEF U
<1>7. MemoryOK(g, bucket, memory', chain', next)
  <2>1. IsFiniteSet({})
    BY FS_EmptySet
  <2>2. ASSUME NEW t \in Trees PROVE KeepsOf(memory', chain', t) = U(t)
    <3>1. TakenOf(chain', t) = {}
      BY <1>4
    <3> QED
      BY <1>6, <3>1 DEF KeepsOf
  <2>3. ASSUME NEW t \in Trees
        PROVE  /\ \A u \in KeepsOf(memory', chain', t) :
                    UnitKept(g, bucket, DoomedOf(chain'), t, u) /\ u.id < next /\ u \notin FreedOf(chain')
               /\ memory'[t].units \cap memory'[t].discards = {} /\ memory'[t].discards = {}
               /\ TakenOf(chain', t) = {}
    BY <1>4, <1>5, <1>6, <2>2
  <2> QED
    BY <1>6, <2>1, <2>3 DEF MemoryOK
<1>8. RegistryOK(g, bucket, memory', chain', registry', next)
  <2>1. \A t \in DOMAIN restored : t \in Trees /\ U(t) = g[restored[t].id].object.units
    BY DEF IndexKept, U
  <2>2. \A t \in Trees : U(t) \subseteq KeepsOf(memory', chain', t)
    BY <1>6 DEF KeepsOf
  <2> QED
    BY <1>2, <1>4, <2>1, <2>2 DEF RegistryOK
<1>9. WritesOK(g, memory', writes', chain', next, session')
  BY <1>3 DEF WritesOK
<1>10. DoomedOK(g, chain', next)
  BY <1>3, <1>4, FS_EmptySet DEF DoomedOK
<1>11. TreesOK(g, bucket, memory', chain', next, session') /\ MetasOK(g, bucket, chain', registry', meta, next, session')
  BY <1>3 DEF TreesOK, MetasOK, LatePhases
<1>12. session' \in Nat /\ session' # 0
  BY <1>1, <1>2
<1>13. WorkOK(g, bucket, memory', writes', chain', registry', meta, next, session')
  BY <1>1, <1>3, <1>4, <1>7, <1>8, <1>9, <1>10, <1>11, <1>12 DEF WorkOK
<1>14. SessionOK(g)'
  BY <1>2, <1>13 DEF SessionOK
<1> QED
  BY <1>1, <1>2, <1>12, <1>14 DEF Usable

LEMMA CreateKeeps ==
  ASSUME NEW g, Usable(g), Create, Steady
  PROVE  Usable(g)'
<1>1. mode = "closed" /\ ~Exists(bucket) /\ BeginSession(0, NoMeta, session + 1, Empty)
  BY DEF Create, Steady
<1>2. MetaOK(g, NoMeta, 0)
  BY KindsAre DEF MetaOK, Metas, NoMeta
<1>3. DOMAIN Empty = {}
  BY DEF Empty
<1>4. session + 1 \in Nat
  BY DEF Usable
<1>5. IndexKept(g, bucket, {}, Empty, 0)
  BY <1>3 DEF IndexKept
<1> QED
  BY <1>1, <1>2, <1>3, <1>4, <1>5, SessionBegins

LEMMA OpenKeeps ==
  ASSUME NEW g, Usable(g), OpenExisting, Steady
  PROVE  Usable(g)'
<1> DEFINE m == bucket[Manifest]
<1>1. mode = "closed" /\ Exists(bucket) /\ BeginSession(m.next, m.meta, m.by, LocationsOf(bucket))
  BY DEF OpenExisting, Steady
<1>2. ManifestKept(g, bucket, {}, m)
  BY <1>1 DEF Usable, DurableOK
<1>3. m.next \in Nat /\ m.by \in Nat
  BY <1>2 DEF ManifestKept
<1>4. MetaOK(g, m.meta, m.next)
  BY <1>2 DEF MetaOK, ManifestKept, Kept
<1>5. /\ LocationsOf(bucket) = g[m.meta["registry"].id].object.trees
      /\ \A t \in DOMAIN LocationsOf(bucket) : UnitsOf(bucket, LocationsOf(bucket)[t]) = g[LocationsOf(bucket)[t].id].object.units
  BY <1>1, <1>2, ReachableKept
<1>6. IndexKept(g, bucket, {}, LocationsOf(bucket), m.next)
  <2> DEFINE r == m.meta["registry"].id
  <2>1. r \in Nat /\ r < m.next
    BY <1>2 DEF ManifestKept, Kinds, Kept, IsObject, ObjectId
  <2>2. IndexKept(g, bucket, {}, LocationsOf(bucket), r)
    BY <1>2, <1>5 DEF ManifestKept
  <2> HIDE DEF r, m
  <2> QED
    BY <1>3, <2>1, <2>2 DEF IndexKept, TreeKept, Kept, IsObject, ObjectId
<1> HIDE DEF m
<1>7. m.next <= m.next
  BY <1>3
<1> QED
  BY <1>1, <1>3, <1>4, <1>5, <1>6, <1>7, SessionBegins DEF m

LEMMA SessionCrashKeeps ==
  ASSUME NEW g, Usable(g), SessionCrash
  PROVE  Usable(g)'
<1>1. DurableOK(g, bucket, {})
  <2>1. CASE mode # "writing"
    BY <2>1 DEF Usable
  <2>2. CASE mode = "writing"
    <3>1. DurableOK(g, bucket, DoomedOf(chain))
      BY <2>2 DEF Usable, SessionOK, WorkOK
    <3>2. \A D, l, kind : Kept(g, bucket, D, l, kind) => Kept(g, bucket, {}, l, kind)
      BY DEF Kept
    <3>3. \A D, t, u : UnitKept(g, bucket, D, t, u) => UnitKept(g, bucket, {}, t, u)
      BY <3>2 DEF UnitKept
    <3>4. \A D, t, l : TreeKept(g, bucket, D, t, l) => TreeKept(g, bucket, {}, t, l)
      BY <3>2, <3>3 DEF TreeKept
    <3>5. \A D, trees, n : IndexKept(g, bucket, D, trees, n) => IndexKept(g, bucket, {}, trees, n)
      BY <3>4 DEF IndexKept
    <3> QED
      BY <3>1, <3>2, <3>5 DEF DurableOK, ManifestKept
  <2> QED
    BY <2>1, <2>2
<1>2. mode' = "closed" /\ writes' = {} /\ chain' = NoChain /\ UNCHANGED <<bucket, session, named>>
  BY DEF SessionCrash, Forgotten
<1> QED
  BY <1>1, <1>2 DEF Usable

-----------------------------------------------------------------------------
(***************************************************************************)
(* A session writes.                                                       *)
(***************************************************************************)
LEMMA WorkGiven ==
  ASSUME NEW g, NEW h, NEW b, NEW mem, NEW W, NEW c, NEW reg, NEW meta, NEW n, NEW m \in Nat, NEW s,
         WorkOK(g, b, mem, W, c, reg, meta, n, s), n <= m, \A i \in Nat : i < n => h[i] = g[i]
  PROVE  WorkOK(h, b, mem, W, c, reg, meta, m, s)
<1> DEFINE D == DoomedOf(c)
<1>1. n \in Nat
  BY DEF WorkOK
<1>2. ASSUME NEW l \in ObjectId, l.id < n, Filled(g, b, l) PROVE Filled(h, b, l)
  BY <1>2 DEF ObjectId, Filled
<1>3. Carried(g, b, D, h, b, D, n)
  BY <1>1, <1>2 DEF Carried
<1> QED
  BY <1>3, WorkCarried

LEMMA WorkPut ==
  ASSUME NEW g, NEW mem, NEW W, NEW c, NEW reg, NEW meta, NEW n, NEW s,
         WorkOK(g, bucket, mem, W, c, reg, meta, n, s), NEW l \in ObjectId, NEW kind, NEW ok,
         Put(Name("DEW0", l), g[l.id].object, kind, ok)
  PROVE  WorkOK(g, bucket', mem, W, c, reg, meta, n, s)
<1> DEFINE D == DoomedOf(c)
<1>1. n \in Nat /\ n <= n
  BY DEF WorkOK
<1> HIDE DEF D
<1>2. /\ Carried(g, bucket, D, g, bucket', D, n)
      /\ Exists(bucket') <=> Exists(bucket)
      /\ Exists(bucket) => bucket'[Manifest] = bucket[Manifest]
  BY <1>1, PutKeeps
<1> USE DEF D
<1> QED
  BY <1>1, <1>2, WorkCarried

\* What a step of a session has to show.
LEMMA SessionGoesOn ==
  ASSUME NEW g, NEW h, Usable(g), mode = "writing", mode' = mode, session' = session,
         backend' \in [next : Nat, meta : {backend'.meta}, born : Nat],
         NamedOK(h, bucket', named'),
         WorkOK(h, bucket', memory', writes', chain', registry', backend'.meta, backend'.next, session)
  PROVE  Usable(h)'
<1>1. backend' = [next |-> backend'.next, meta |-> backend'.meta, born |-> backend'.born] /\ backend'.born \in Nat
  OBVIOUS
<1> QED
  BY <1>1 DEF Usable, SessionOK

LEMMA AllocatedIs ==
  ASSUME NEW g, SessionOK(g), NEW k \in Nat
  PROVE  /\ Allocated(k) \in [next : Nat, meta : {backend.meta}, born : Nat]
         /\ Allocated(k).next = backend.next + k /\ Allocated(k).meta = backend.meta
         /\ backend \in [next : Nat, meta : {backend.meta}, born : Nat]
<1>1. backend \in [next : Nat, meta : {backend.meta}, born : Nat]
  BY DEF SessionOK, WorkOK
<1> QED
  BY <1>1 DEF Allocated

LEMMA NextLocationIs ==
  ASSUME NEW g, SessionOK(g), NEW k \in Nat \ {0}
  PROVE  /\ NextLocation(k) \in ObjectId
         /\ NextLocation(k).id = backend.next + k - 1 /\ NextLocation(k).by = session
         /\ backend.next <= NextLocation(k).id
<1>1. backend.next \in Nat /\ session \in Nat \ {0}
  BY DEF SessionOK, WorkOK
<1> QED
  BY <1>1 DEF NextLocation, ObjectId

LEMMA StartWriteKeeps ==
  ASSUME NEW g, Usable(g), NEW t \in Trees, StartWrite(t)
  PROVE  \E h : Usable(h)'
<1> DEFINE n == backend.next
           l == NextLocation(1)
           w == [tree |-> t, location |-> l]
<1>0. PICK h : h = [i \in Nat |-> IF i < n THEN g[i] ELSE [object |-> DataObject(session), tree |-> t]]
  OBVIOUS
<1>1. SessionOK(g) /\ mode = "writing" /\ NamedOK(g, bucket, named)
  BY DEF StartWrite, Usable
<1>2. WorkOK(g, bucket, memory, writes, chain, registry, backend.meta, n, session)
  BY <1>1 DEF SessionOK
<1>3. n \in Nat /\ n + 1 \in Nat /\ n <= n + 1 /\ n < n + 1 /\ ~(n < n)
  BY <1>2 DEF WorkOK
<1>4. l \in ObjectId /\ l.id = n /\ l.by = session
  BY <1>1, <1>3, NextLocationIs
<1>5. backend' \in [next : Nat, meta : {backend.meta}, born : Nat] /\ backend'.next = n + 1 /\ backend'.meta = backend.meta
  BY <1>1, AllocatedIs DEF StartWrite
<1>6. /\ UNCHANGED <<bucket, mode, session, registry, memory, chain, named>>
      /\ writes' = writes \cup {w}
  BY DEF StartWrite
<1> HIDE DEF n, l
<1>7. (\A i \in Nat : i < n => h[i] = g[i]) /\ h[n].object = DataObject(session) /\ h[n].tree = t
  BY <1>0, <1>3
<1>8. WorkOK(h, bucket, memory, writes, chain, registry, backend.meta, n + 1, session)
  BY <1>2, <1>3, <1>7, WorkGiven
<1>9. NamedOK(h, bucket, named)
  BY <1>1, <1>2, <1>3, <1>7, NamedCarried DEF WorkOK, DurableOK, ManifestKept
<1>10. WritesOK(h, memory, writes \cup {w}, chain, n + 1, session)
  <2>1. WritesOK(h, memory, writes, chain, n + 1, session)
    BY <1>8 DEF WorkOK
  <2>2. l \notin FreedOf(chain) \cup DoomedOf(chain)
    BY <1>2, <1>3, <1>4 DEF WorkOK, DoomedOK
  <2>3. \A x \in Trees : l \notin KeepsOf(memory, chain, x)
    BY <1>2, <1>3, <1>4 DEF WorkOK, MemoryOK
  <2>4. w.tree = t /\ w.location = l /\ w = [tree |-> h[l.id].tree, location |-> l]
    BY <1>4, <1>7
  <2> HIDE DEF w
  <2>5. /\ w = [tree |-> h[w.location.id].tree, location |-> w.location]
        /\ w.tree \in Trees /\ w.location \in ObjectId /\ w.location.id < n + 1 /\ w.location.by = session
        /\ h[w.location.id].object = DataObject(session)
    BY <1>3, <1>4, <1>7, <2>4
  <2> QED
    BY <2>1, <2>2, <2>3, <2>4, <2>5 DEF WritesOK
<1>11. WorkOK(h, bucket, memory, writes \cup {w}, chain, registry, backend.meta, n + 1, session)
  BY <1>8, <1>10 DEF WorkOK
<1>12. /\ NamedOK(h, bucket', named') /\ backend' \in [next : Nat, meta : {backend'.meta}, born : Nat]
       /\ WorkOK(h, bucket', memory', writes', chain', registry', backend'.meta, backend'.next, session)
  BY <1>5, <1>6, <1>9, <1>11
<1>13. Usable(h)'
  BY <1>1, <1>6, <1>12, SessionGoesOn
<1> QED
  BY <1>13

LEMMA FinishWriteKeeps ==
  ASSUME NEW g, Usable(g), NEW w \in writes, FinishWrite(w), Steady
  PROVE  Usable(g)'
<1> DEFINE n == backend.next
           l == w.location
<1>1. SessionOK(g) /\ mode = "writing" /\ NamedOK(g, bucket, named)
  BY DEF FinishWrite, Usable
<1>2. WorkOK(g, bucket, memory, writes, chain, registry, backend.meta, n, session)
  BY <1>1 DEF SessionOK
<1>3. WritesOK(g, memory, writes, chain, n, session) /\ MemoryOK(g, bucket, memory, chain, n)
  BY <1>2 DEF WorkOK
<1>4. /\ w = [tree |-> g[l.id].tree, location |-> l] /\ w.tree \in Trees
      /\ l \in ObjectId /\ l.id < n /\ l.by = session /\ g[l.id].object = DataObject(session)
      /\ l \notin FreedOf(chain) \cup DoomedOf(chain)
      /\ \A t \in Trees : l \notin KeepsOf(memory, chain, t)
  BY <1>3 DEF WritesOK
<1>5. PICK ok \in BOOLEAN : Put(Name("DEW0", l), DataObject(session), "data", ok)
  BY DEF FinishWrite
<1>6. ok
  BY <1>5 DEF Put, Steady
<1>7. PICK dropped \in {{}} \cup {{u} : u \in memory[w.tree].units} :
        memory' = [memory EXCEPT ![w.tree] = [units |-> (@.units \ dropped) \cup {l},
                                              dirty |-> TRUE, discards |-> @.discards \cup dropped]]
  BY DEF FinishWrite
<1>8. writes' = writes \ {w} /\ UNCHANGED <<mode, session, backend, registry, chain, named>>
  BY DEF FinishWrite
<1>9. WorkOK(g, bucket', memory, writes, chain, registry, backend.meta, n, session)
  BY <1>2, <1>4, <1>5, WorkPut
<1>10. NamedOK(g, bucket', named) /\ Filled(g, bucket', l)
  <2>1. n \in Nat
    BY <1>2 DEF WorkOK
  <2>2. Put(Name("DEW0", l), g[l.id].object, "data", ok) /\ l \in ObjectId
    BY <1>4, <1>5
  <2> HIDE DEF n, l
  <2> QED
    BY <1>1, <1>6, <2>1, <2>2, PutKeeps
<1> HIDE DEF n, l
<1>11. /\ dropped \subseteq memory[w.tree].units /\ IsFiniteSet(dropped)
  BY <1>7, FS_EmptySet, FS_Singleton
<1>12. /\ memory \in [Trees -> [units : SUBSET ObjectId, dirty : BOOLEAN, discards : SUBSET ObjectId]]
       /\ memory[w.tree].units \in SUBSET ObjectId /\ memory[w.tree].discards \in SUBSET ObjectId
  BY <1>3, <1>4 DEF MemoryOK
<1>13. /\ memory' \in [Trees -> [units : SUBSET ObjectId, dirty : BOOLEAN, discards : SUBSET ObjectId]]
       /\ \A t \in Trees : t # w.tree => memory'[t] = memory[t]
       /\ memory'[w.tree].units = (memory[w.tree].units \ dropped) \cup {l}
       /\ memory'[w.tree].discards = memory[w.tree].discards \cup dropped
       /\ memory'[w.tree].dirty
  <2> DEFINE r == [units |-> (memory[w.tree].units \ dropped) \cup {l}, dirty |-> TRUE,
                   discards |-> memory[w.tree].discards \cup dropped]
  <2>1. memory' = [memory EXCEPT ![w.tree] = r]
    BY <1>7
  <2>2. r \in [units : SUBSET ObjectId, dirty : BOOLEAN, discards : SUBSET ObjectId]
    BY <1>4, <1>11, <1>12
  <2>3. r.units = (memory[w.tree].units \ dropped) \cup {l} /\ r.dirty /\ r.discards = memory[w.tree].discards \cup dropped
    OBVIOUS
  <2> HIDE DEF r
  <2> QED
    BY <1>4, <1>12, <2>1, <2>2, <2>3
<1>14. /\ \A t \in Trees : t # w.tree => KeepsOf(memory', chain, t) = KeepsOf(memory, chain, t)
       /\ KeepsOf(memory', chain, w.tree) = KeepsOf(memory, chain, w.tree) \cup {l}
  <2>1. \A t \in Trees : t # w.tree => KeepsOf(memory', chain, t) = KeepsOf(memory, chain, t)
    BY <1>13 DEF KeepsOf
  <2>2. KeepsOf(memory', chain, w.tree) = memory'[w.tree].units \cup memory'[w.tree].discards \cup TakenOf(chain, w.tree)
    BY DEF KeepsOf
  <2>3. KeepsOf(memory, chain, w.tree) = memory[w.tree].units \cup memory[w.tree].discards \cup TakenOf(chain, w.tree)
    BY DEF KeepsOf
  <2> QED
    BY <1>11, <1>13, <2>1, <2>2, <2>3
<1>15. MemoryOK(g, bucket', memory', chain, n)
  <2>1. MemoryOK(g, bucket', memory, chain, n)
    BY <1>9 DEF WorkOK
  <2>2. UnitKept(g, bucket', DoomedOf(chain), w.tree, l) /\ l.id < n /\ l \notin FreedOf(chain)
    <3>1. IsObject(g, l, "data") /\ w.tree = g[l.id].tree
      BY <1>4 DEF IsObject, DataObject, l
    <3> QED
      BY <1>4, <1>10, <3>1 DEF UnitKept, Kept
  <2>3. ASSUME NEW t \in Trees
        PROVE  \A u \in KeepsOf(memory', chain, t) : UnitKept(g, bucket', DoomedOf(chain), t, u) /\ u.id < n /\ u \notin FreedOf(chain)
    BY <1>14, <2>1, <2>2 DEF MemoryOK
  <2>4. ASSUME NEW t \in Trees
        PROVE  /\ memory'[t].units \cap memory'[t].discards = {} /\ (memory'[t].dirty \/ memory'[t].discards = {})
               /\ TakenOf(chain, t) \cap (memory'[t].units \cup memory'[t].discards) = {}
               /\ IsFiniteSet(memory'[t].discards) /\ IsFiniteSet(TakenOf(chain, t))
    <3>1. /\ memory[t].units \cap memory[t].discards = {} /\ (memory[t].dirty \/ memory[t].discards = {})
          /\ TakenOf(chain, t) \cap (memory[t].units \cup memory[t].discards) = {}
          /\ IsFiniteSet(memory[t].discards) /\ IsFiniteSet(TakenOf(chain, t))
      BY <2>1 DEF MemoryOK
    <3>2. CASE t # w.tree
      BY <1>13, <3>1, <3>2
    <3>3. CASE t = w.tree
      <4>1. l \notin memory[t].units /\ l \notin memory[t].discards /\ l \notin TakenOf(chain, t)
        BY <1>4 DEF KeepsOf
      <4>2. IsFiniteSet(memory'[t].discards)
        <5>1. IsFiniteSet(memory[t].discards) /\ IsFiniteSet(dropped)
          BY <1>11, <3>1
        <5>2. IsFiniteSet(memory[t].discards \cup dropped)
          BY <5>1, FS_Union
        <5> QED
          BY <1>13, <3>3, <5>2
      <4>3. memory'[t].units \cap memory'[t].discards = {}
        BY <1>11, <1>13, <3>1, <3>3, <4>1
      <4>4. TakenOf(chain, t) \cap (memory'[t].units \cup memory'[t].discards) = {}
        BY <1>11, <1>13, <3>1, <3>3, <4>1
      <4> QED
        BY <1>13, <3>1, <3>3, <4>2, <4>3, <4>4
    <3> QED
      BY <3>2, <3>3
  <2> QED
    BY <1>13, <2>3, <2>4 DEF MemoryOK
<1>16. WritesOK(g, memory', writes', chain, n, session)
  <2>1. \A v \in writes' : v \in writes /\ v.location # l
    BY <1>3, <1>4, <1>8 DEF WritesOK
  <2>2. \A t \in Trees : KeepsOf(memory', chain, t) \subseteq KeepsOf(memory, chain, t) \cup {l}
    BY <1>14
  <2> QED
    BY <1>3, <2>1, <2>2 DEF WritesOK
<1>17. RegistryOK(g, bucket', memory', chain, registry, n)
  <2>1. RegistryOK(g, bucket', memory, chain, registry, n)
    BY <1>9 DEF WorkOK
  <2>2. \A t \in DOMAIN registry : t \in Trees
    BY <2>1 DEF RegistryOK, IndexKept
  <2>3. \A t \in Trees : KeepsOf(memory, chain, t) \subseteq KeepsOf(memory', chain, t)
    BY <1>14
  <2> QED
    BY <2>1, <2>2, <2>3 DEF RegistryOK
<1>18. TreesOK(g, bucket', memory', chain, n, session)
  <2>1. TreesOK(g, bucket', memory, chain, n, session)
    BY <1>9 DEF WorkOK
  <2>2. \A t \in Trees : memory[t].units \cup memory[t].discards \subseteq memory'[t].units \cup memory'[t].discards
    BY <1>13
  <2> HIDE DEF TreesOK
  <2> SUFFICES ASSUME chain.at = "trees" PROVE TreesOK(g, bucket', memory', chain, n, session)
    BY DEF TreesOK
  <2>3. \A t \in DOMAIN chain.written : t \in Trees /\ g[chain.written[t].id].object.units \subseteq memory'[t].units \cup memory'[t].discards
    BY <2>1, <2>2 DEF TreesOK
  <2> QED
    BY <2>1, <2>3 DEF TreesOK
<1>19. WorkOK(g, bucket', memory', writes', chain, registry, backend.meta, n, session)
  BY <1>9, <1>15, <1>16, <1>17, <1>18 DEF WorkOK
<1>20. backend \in [next : Nat, meta : {backend.meta}, born : Nat]
  BY <1>1, AllocatedIs
<1> QED
  BY <1>1, <1>8, <1>10, <1>19, <1>20, SessionGoesOn DEF n

-----------------------------------------------------------------------------
(***************************************************************************)
(* Lists of finite sets.                                                   *)
(***************************************************************************)
\* By rank: every member has its place.
LEMMA InOrderIs ==
  ASSUME NEW S, IsFiniteSet(S), S \subseteq Nat
  PROVE  /\ Len(InOrder(S)) \in Nat /\ DOMAIN InOrder(S) = 1 .. Len(InOrder(S))
         /\ \A k \in DOMAIN InOrder(S) : InOrder(S)[k] \in S
         /\ \A t \in S : \E k \in DOMAIN InOrder(S) : InOrder(S)[k] = t
<1> DEFINE N == Cardinality(S)
           Lower(t) == {s \in S : s < t}
           rank == [t \in S |-> Cardinality(Lower(t))]
           f == InOrder(S)
<1>1. N \in Nat
  BY FS_CardinalityType
<1>2. ASSUME NEW x \in S
      PROVE  IsFiniteSet(Lower(x)) /\ rank[x] \in 0 .. (N - 1)
  <2>1. Lower(x) \in SUBSET (S \ {x})
    OBVIOUS
  <2>2. IsFiniteSet(S \ {x}) /\ Cardinality(S \ {x}) = N - 1
    BY FS_RemoveElement
  <2>3. IsFiniteSet(Lower(x)) /\ Cardinality(Lower(x)) <= N - 1
    BY <2>1, <2>2, FS_Subset
  <2>4. Cardinality(Lower(x)) \in Nat
    BY <2>3, FS_CardinalityType
  <2> QED
    BY <1>1, <2>3, <2>4
<1>3. ASSUME NEW x \in S, NEW y \in S, x < y PROVE rank[x] < rank[y]
  <2>1. Lower(x) \in SUBSET Lower(y) /\ x \in Lower(y) /\ x \notin Lower(x)
    <3> HIDE DEF rank, N
    <3>1. ASSUME NEW s \in S, s < x PROVE s < y
      <4>1. s \in Nat /\ x \in Nat /\ y \in Nat
        OBVIOUS
      <4> QED
        BY <1>3, <3>1, <4>1
    <3>2. ~(x < x)
      <4>1. x \in Nat
        OBVIOUS
      <4> QED
        BY <4>1
    <3> QED
      BY <1>3, <3>1, <3>2
  <2>2. Cardinality(Lower(x)) <= Cardinality(Lower(y)) /\ Cardinality(Lower(x)) # Cardinality(Lower(y))
    BY <1>2, <2>1, FS_Subset
  <2>3. rank[x] \in Nat /\ rank[y] \in Nat
    BY <1>2
  <2> QED
    BY <2>2, <2>3
<1>4. \A x, y \in S : rank[x] = rank[y] => x = y
  <2> HIDE DEF rank
  <2> SUFFICES ASSUME NEW x \in S, NEW y \in S, x # y PROVE rank[x] # rank[y]
    OBVIOUS
  <2>0. x \in Nat /\ y \in Nat
    OBVIOUS
  <2>1. (x < y \/ y < x) /\ rank[x] \in Nat /\ rank[y] \in Nat
    <3>1. x < y \/ y < x
      BY <2>0
    <3>2. rank[x] \in Nat /\ rank[y] \in Nat
      <4>1. \A z \in S : rank[z] \in 0 .. (N - 1)
        BY <1>2
      <4> HIDE DEF N
      <4> QED
        BY <1>1, <4>1
    <3> QED
      BY <3>1, <3>2
  <2> QED
    BY <1>3, <2>1
<1>5. ASSUME NEW k \in 1 .. N PROVE \E x \in S : rank[x] = k - 1
  <2> SUFFICES ASSUME \A x \in S : rank[x] # k - 1 PROVE FALSE
    OBVIOUS
  <2> DEFINE All == 0 .. (N - 1)
             T == All \ {k - 1}
  <2>1. IsFiniteSet(All) /\ Cardinality(All) = N
    <3> HIDE DEF N, rank
    <3>1. 0 \in Int /\ N - 1 \in Int /\ (IF 0 > N - 1 THEN 0 ELSE N - 1 - 0 + 1) = N
      BY <1>1
    <3>2. IsFiniteSet(0 .. (N - 1)) /\ Cardinality(0 .. (N - 1)) = IF 0 > N - 1 THEN 0 ELSE N - 1 - 0 + 1
      BY <3>1, FS_Interval
    <3> QED
      BY <3>1, <3>2
  <2>2. k - 1 \in All
    BY <1>1
  <2>3. IsFiniteSet(T) /\ Cardinality(T) = N - 1
    <3> HIDE DEF All, N, rank
    <3> QED
      BY <2>1, <2>2, FS_RemoveElement
  <2>4. rank \in [S -> T]
    BY <1>2
  <2>5. N - 1 < N
    BY <1>1
  <2> HIDE DEF T, rank
  <2>6. \E x, y \in S : x # y /\ rank[x] = rank[y]
    BY <2>3, <2>4, <2>5, FS_PigeonHole
  <2> QED
    BY <1>4, <2>6
<1>6. DOMAIN f = 1 .. N /\ \A k \in 1 .. N : f[k] \in S /\ rank[f[k]] = k - 1
  <2> DEFINE At(k) == CHOOSE t \in S : Cardinality({s \in S : s < t}) = k - 1
  <2>1. f = [k \in 1 .. Cardinality(S) |-> At(k)]
    BY DEF InOrder
  <2>2. ASSUME NEW k \in 1 .. N PROVE At(k) \in S /\ rank[At(k)] = k - 1
    <3>1. \E t \in S : Cardinality({s \in S : s < t}) = k - 1
      BY <1>5
    <3>2. At(k) \in S /\ Cardinality({s \in S : s < At(k)}) = k - 1
      BY <3>1
    <3> HIDE DEF At
    <3> QED
      BY <3>2
  <2> HIDE DEF At, rank, f
  <2> QED
    BY <2>1, <2>2
<1> HIDE DEF rank, N, f
<1>7. f = [k \in 1 .. N |-> f[k]]
  <2> DEFINE At(k) == CHOOSE t \in S : Cardinality({s \in S : s < t}) = k - 1
  <2>1. f = [k \in 1 .. N |-> At(k)]
    BY DEF InOrder, f, N
  <2> HIDE DEF At
  <2> QED
    BY <2>1
<1>8. f \in Seq(S) /\ Len(f) = N
  BY <1>1, <1>6, <1>7
<1>9. ASSUME NEW t \in S PROVE \E k \in 1 .. N : f[k] = t
  <2>1. rank[t] \in 0 .. (N - 1)
    BY <1>2
  <2>2. rank[t] + 1 \in 1 .. N /\ (rank[t] + 1) - 1 = rank[t]
    BY <1>1, <2>1
  <2>3. f[rank[t] + 1] \in S /\ rank[f[rank[t] + 1]] = rank[t]
    BY <1>6, <2>2
  <2>4. f[rank[t] + 1] = t
    BY <1>4, <2>3
  <2> QED
    BY <2>2, <2>4
<1> QED
  BY <1>1, <1>6, <1>8, <1>9 DEF f

LEMMA SetToSeqIs ==
  ASSUME NEW S, IsFiniteSet(S)
  PROVE  /\ SetToSeq(S) \in Seq(S) /\ Len(SetToSeq(S)) \in Nat
         /\ DOMAIN SetToSeq(S) = 1 .. Len(SetToSeq(S))
         /\ \A x \in S : \E k \in DOMAIN SetToSeq(S) : SetToSeq(S)[k] = x
<1> DEFINE N == Cardinality(S)
           f == SetToSeq(S)
<1>1. N \in Nat /\ ExistsBijection(1 .. N, S)
  BY FS_CardinalityType
<1>2. \E p \in [1 .. N -> S] : IsInjective(p)
  BY <1>1 DEF ExistsBijection, Bijection, Injection, IsInjective
<1>3. f \in [1 .. N -> S] /\ IsInjective(f)
  BY <1>2 DEF SetToSeq
<1> HIDE DEF N, f
<1>4. f \in Seq(S) /\ Len(f) = N /\ DOMAIN f = 1 .. N
  BY <1>1, <1>3
<1>5. f \in Surjection(1 .. N, S)
  <2>1. f \in Injection(1 .. N, S)
    BY <1>3 DEF Injection, IsInjective
  <2>2. 1 \in Int /\ N \in Int /\ (IF 1 > N THEN 0 ELSE N - 1 + 1) = N
    BY <1>1
  <2>3. Cardinality(1 .. N) = N
    BY <2>2, FS_Interval
  <2>4. Cardinality(1 .. N) = Cardinality(S)
    BY <2>3 DEF N
  <2> QED
    BY <2>1, <2>4, FS_Injection
<1>6. \A x \in S : \E k \in 1 .. N : f[k] = x
  BY <1>5 DEF Surjection
<1> QED
  BY <1>1, <1>4, <1>6 DEF f

-----------------------------------------------------------------------------
(***************************************************************************)
(* The checkpoint.                                                         *)
(***************************************************************************)
LEMMA StartChainKeeps ==
  ASSUME NEW g, Usable(g), StartChain
  PROVE  \E h : Usable(h)'
<1> DEFINE n == backend.next
           U == {t \in Trees : memory[t].dirty}
           dirty == InOrder(U)
           L == Len(dirty)
<1>0. PICK h : h = [i \in Nat |-> IF i < n THEN g[i]
                                  ELSE [object |-> TreeObject(memory[dirty[i - n + 1]].units, session), tree |-> 0]]
  OBVIOUS
<1>1. SessionOK(g) /\ mode = "writing" /\ NamedOK(g, bucket, named) /\ chain.at = "idle"
  BY DEF StartChain, AtPhase, Usable
<1>2. WorkOK(g, bucket, memory, writes, chain, registry, backend.meta, n, session)
  BY <1>1 DEF SessionOK
<1>3. n \in Nat /\ session \in Nat \ {0} /\ MemoryOK(g, bucket, memory, chain, n)
  BY <1>2 DEF WorkOK
<1>4. DoomedOf(chain) = {} /\ FreedOf(chain) = {} /\ \A t : TakenOf(chain, t) = {}
  BY <1>1 DEF DoomedOf, FreedOf, TakenOf, LatePhases
<1>5. /\ L \in Nat /\ DOMAIN dirty = 1 .. L
      /\ \A k \in 1 .. L : dirty[k] \in U
      /\ \A t \in U : \E k \in 1 .. L : dirty[k] = t
  <2>1. IsFiniteSet(U) /\ U \subseteq Nat
    <3>1. U \in SUBSET Trees /\ IsFiniteSet(Trees) /\ Trees \subseteq Nat
      BY ObjectBackendAssumption
    <3> HIDE DEF U
    <3> QED
      BY <3>1, FS_Subset
  <2> HIDE DEF U
  <2> QED
    BY <2>1, InOrderIs
<1>6. n + L \in Nat /\ n <= n + L
  BY <1>3, <1>5
<1>7. /\ \A t : memory[t].units \cup memory[t].discards = KeepsOf(memory, chain, t)
      /\ memory \in [Trees -> [units : SUBSET ObjectId, dirty : BOOLEAN, discards : SUBSET ObjectId]]
  BY <1>3, <1>4 DEF KeepsOf, MemoryOK
<1>8. backend' \in [next : Nat, meta : {backend.meta}, born : Nat] /\ backend'.next = n + L /\ backend'.meta = backend.meta
  BY <1>1, <1>5, AllocatedIs DEF StartChain
<1> DEFINE loc(k) == NextLocation(k)
           object(k) == TreeObject(memory[dirty[k]].units, session)
           task(k) == [tree |-> dirty[k], location |-> loc(k), object |-> object(k)]
           place(t) == CHOOSE k \in DOMAIN dirty : dirty[k] = t
           todo == [k \in DOMAIN dirty |-> task(k)]
           written == [t \in U |-> loc(place(t))]
           discards == [t \in U |-> memory[t].discards]
           c == [at |-> "trees", failed |-> FALSE, todo |-> todo, written |-> written, discards |-> discards]
           mem == [t \in Trees |-> [memory[t] EXCEPT !.dirty = FALSE, !.discards = {}]]
<1>9. chain' = c
  <2>1. ToSet(dirty) = U
    BY <1>5 DEF ToSet
  <2>2. chain' = [at |-> "trees", failed |-> FALSE, todo |-> todo,
                  written |-> [t \in ToSet(dirty) |-> loc(place(t))],
                  discards |-> [t \in ToSet(dirty) |-> memory[t].discards]]
    BY DEF StartChain
  <2> QED
    BY <2>1, <2>2
<1>10. memory' = mem /\ UNCHANGED <<bucket, mode, session, registry, writes, named>>
  BY DEF StartChain
<1>11. \A k \in 1 .. L : /\ loc(k) \in ObjectId /\ loc(k).id = n + k - 1 /\ loc(k).by = session
                         /\ n <= loc(k).id /\ loc(k).id < n + L
  <2> SUFFICES ASSUME NEW k \in 1 .. L
               PROVE  /\ loc(k) \in ObjectId /\ loc(k).id = n + k - 1 /\ loc(k).by = session
                      /\ n <= loc(k).id /\ loc(k).id < n + L
    OBVIOUS
  <2>1. k \in Nat \ {0}
    BY <1>5
  <2>2. loc(k) \in ObjectId /\ loc(k).id = n + k - 1 /\ loc(k).by = session
    BY <1>1, <2>1, NextLocationIs
  <2> HIDE DEF loc, n, L
  <2> QED
    BY <1>3, <1>5, <2>1, <2>2
<1> HIDE DEF loc
<1>12. /\ \A i \in Nat : i < n => h[i] = g[i]
       /\ \A k \in 1 .. L : h[loc(k).id].object = object(k)
  <2> HIDE DEF dirty, n, L
  <2>1. \A i \in Nat : i < n => h[i] = g[i]
    BY <1>0
  <2>2. \A i \in Nat : ~(i < n) => h[i].object = object(i - n + 1)
    BY <1>0
  <2> HIDE DEF object
  <2>3. ASSUME NEW k \in 1 .. L PROVE h[loc(k).id].object = object(k)
    <3>1. k \in Nat /\ loc(k).id = n + k - 1 /\ n <= n + k - 1
      BY <1>3, <1>5, <1>11
    <3>2. n + k - 1 \in Nat /\ ~(n + k - 1 < n) /\ (n + k - 1) - n + 1 = k
      BY <1>3, <3>1
    <3> QED
      BY <2>2, <3>1, <3>2
  <2> QED
    BY <2>1, <2>3
<1>13. WorkOK(h, bucket, memory, writes, chain, registry, backend.meta, n + L, session)
  <2> HIDE DEF n, L
  <2> QED
    BY <1>2, <1>6, <1>12, WorkGiven
<1>14. NamedOK(h, bucket, named)
  <2> HIDE DEF n
  <2> QED
    BY <1>1, <1>2, <1>3, <1>12, NamedCarried DEF WorkOK, DurableOK, ManifestKept
<1>15. \A k \in 1 .. L : dirty[k] \in Trees
  BY <1>5
<1>16. \A t \in U : place(t) \in 1 .. L /\ dirty[place(t)] = t /\ t \in Trees
  BY <1>5
<1> HIDE DEF dirty, L, n, place
<1>17. todo \in Seq(Tasks) /\ DOMAIN todo = 1 .. L
  <2>1. \A k \in 1 .. L : task(k) \in Tasks
    <3> SUFFICES ASSUME NEW k \in 1 .. L PROVE task(k) \in Tasks
      OBVIOUS
    <3>1. memory[dirty[k]].units \in SUBSET ObjectId /\ dirty[k] \in Trees
      BY <1>7, <1>15
    <3>2. object(k) \in {TreeObject(V, by) : V \in SUBSET ObjectId, by \in Nat}
      BY <1>3, <3>1
    <3> HIDE DEF object
    <3> QED
      BY <1>11, <3>1, <3>2 DEF Tasks
  <2> HIDE DEF task
  <2> QED
    BY <1>5, <2>1
<1>18. \A k \in 1 .. L : todo[k].location = loc(k) /\ todo[k].object = object(k)
  <2> HIDE DEF object
  <2> QED
    BY <1>5
<1>19. DOMAIN written = U /\ DOMAIN discards = U /\ \A t \in U : written[t] = loc(place(t)) /\ discards[t] = memory[t].discards
  OBVIOUS
<1> HIDE DEF todo, written, discards
<1>20. /\ c.at = "trees" /\ c.failed = FALSE /\ c.todo = todo /\ c.written = written /\ c.discards = discards
       /\ DOMAIN c = {"at", "failed", "todo", "written", "discards"}
  OBVIOUS
<1> HIDE DEF c
<1>21. /\ DoomedOf(c) = {} /\ FreedOf(c) = {}
       /\ \A t : TakenOf(c, t) = IF t \in U THEN memory[t].discards ELSE {}
  BY <1>19, <1>20 DEF DoomedOf, FreedOf, TakenOf, LatePhases
<1>22. /\ mem \in [Trees -> [units : SUBSET ObjectId, dirty : BOOLEAN, discards : SUBSET ObjectId]]
       /\ \A t \in Trees : mem[t].units = memory[t].units /\ mem[t].discards = {}
  <2> SUFFICES ASSUME NEW t \in Trees
               PROVE  /\ mem[t] \in [units : SUBSET ObjectId, dirty : BOOLEAN, discards : SUBSET ObjectId]
                      /\ mem[t].units = memory[t].units /\ mem[t].discards = {}
    OBVIOUS
  <2>1. memory[t] \in [units : SUBSET ObjectId, dirty : BOOLEAN, discards : SUBSET ObjectId]
    BY <1>7
  <2> QED
    BY <2>1
<1> HIDE DEF mem
<1>23. \A t \in Trees : t \notin U => memory[t].discards = {}
  BY <1>3 DEF MemoryOK
<1>24. \A t \in Trees : KeepsOf(mem, c, t) = KeepsOf(memory, chain, t)
  <2> HIDE DEF U
  <2> SUFFICES ASSUME NEW t \in Trees PROVE KeepsOf(mem, c, t) = KeepsOf(memory, chain, t)
    OBVIOUS
  <2>1. KeepsOf(memory, chain, t) = memory[t].units \cup memory[t].discards
    BY <1>7
  <2>2. KeepsOf(mem, c, t) = memory[t].units \cup TakenOf(c, t)
    BY <1>22 DEF KeepsOf
  <2>3. TakenOf(c, t) = memory[t].discards
    BY <1>21, <1>23
  <2> QED
    BY <2>1, <2>2, <2>3
<1>25. MemoryOK(h, bucket, mem, c, n + L)
  <2>1. MemoryOK(h, bucket, memory, chain, n + L)
    BY <1>13 DEF WorkOK
  <2>2. ASSUME NEW t \in Trees
        PROVE  /\ \A u \in KeepsOf(mem, c, t) : UnitKept(h, bucket, DoomedOf(c), t, u) /\ u.id < n + L /\ u \notin FreedOf(c)
               /\ mem[t].units \cap mem[t].discards = {} /\ (mem[t].dirty \/ mem[t].discards = {})
               /\ TakenOf(c, t) \cap (mem[t].units \cup mem[t].discards) = {}
               /\ IsFiniteSet(mem[t].discards) /\ IsFiniteSet(TakenOf(c, t))
    <3>1. \A u \in KeepsOf(mem, c, t) : UnitKept(h, bucket, DoomedOf(c), t, u) /\ u.id < n + L /\ u \notin FreedOf(c)
      BY <1>4, <1>21, <1>24, <2>1 DEF MemoryOK
    <3>2. TakenOf(c, t) \subseteq memory[t].discards /\ (TakenOf(c, t) = {} \/ TakenOf(c, t) = memory[t].discards)
      BY <1>21
    <3>3. memory[t].units \cap memory[t].discards = {} /\ IsFiniteSet(memory[t].discards) /\ IsFiniteSet({})
      BY <2>1, FS_EmptySet DEF MemoryOK
    <3>4. IsFiniteSet(TakenOf(c, t)) /\ IsFiniteSet(mem[t].discards)
      BY <1>22, <3>2, <3>3
    <3> QED
      BY <1>22, <3>1, <3>2, <3>3, <3>4
  <2> QED
    BY <1>22, <2>2 DEF MemoryOK
<1>26. WritesOK(h, mem, writes, c, n + L, session)
  BY <1>4, <1>13, <1>21, <1>24 DEF WorkOK, WritesOK
<1>27. RegistryOK(h, bucket, mem, c, registry, n + L)
  <2>1. RegistryOK(h, bucket, memory, chain, registry, n + L)
    BY <1>13 DEF WorkOK
  <2>2. \A t \in DOMAIN registry : t \in Trees
    BY <2>1 DEF RegistryOK, IndexKept
  <2>3. IndexKept(h, bucket, DoomedOf(c), registry, n + L)
    BY <1>4, <1>21, <2>1 DEF RegistryOK
  <2> QED
    BY <1>24, <2>1, <2>2, <2>3 DEF RegistryOK
<1>28. DoomedOK(h, c, n + L)
  BY <1>20, <1>21, FS_EmptySet DEF DoomedOK
<1>29. TreesOK(h, bucket, mem, c, n + L, session)
  <2>1. \A k \in DOMAIN c.todo : /\ c.todo[k].location.by = session /\ c.todo[k].location.id < n + L
                                 /\ h[c.todo[k].location.id].object = c.todo[k].object
    BY <1>11, <1>12, <1>17, <1>18, <1>20
  <2>2. ASSUME NEW t \in DOMAIN c.written
        PROVE  /\ IsObject(h, c.written[t], "tree") /\ c.written[t].id < n + L
               /\ \A u \in h[c.written[t].id].object.units : u.id < c.written[t].id /\ UnitKept(h, bucket, {}, t, u)
               /\ h[c.written[t].id].object.units \subseteq mem[t].units \cup mem[t].discards
               /\ \E k \in DOMAIN c.todo : c.todo[k].location = c.written[t]
    <3> DEFINE k == place(t)
    <3>1. t \in U /\ k \in 1 .. L /\ dirty[k] = t /\ t \in Trees /\ c.written[t] = loc(k)
      BY <1>16, <1>19, <1>20
    <3> HIDE DEF k
    <3>2. h[loc(k).id].object = TreeObject(memory[t].units, session) /\ loc(k).by = session /\ loc(k) \in ObjectId
          /\ n <= loc(k).id /\ loc(k).id < n + L
      BY <1>11, <1>12, <3>1
    <3>3. IsObject(h, loc(k), "tree") /\ h[loc(k).id].object.units = memory[t].units
      BY <3>2 DEF IsObject, TreeObject
    <3>4. \A u \in memory[t].units : u \in KeepsOf(memory, chain, t)
      BY DEF KeepsOf
    <3>5. MemoryOK(h, bucket, memory, chain, n + L)
      BY <1>13 DEF WorkOK
    <3>6. \A u \in memory[t].units : UnitKept(h, bucket, {}, t, u)
      BY <1>4, <3>1, <3>4, <3>5 DEF MemoryOK
    <3>7. \A u \in memory[t].units : u.id < n /\ u.id \in Nat
      BY <1>3, <3>1, <3>4 DEF MemoryOK, UnitKept, Kept, IsObject, ObjectId
    <3>8. loc(k).id \in Nat
      BY <3>2 DEF ObjectId
    <3>9. \A u \in memory[t].units : u.id < loc(k).id
      BY <1>3, <3>2, <3>7, <3>8
    <3>10. k \in DOMAIN c.todo /\ c.todo[k].location = loc(k)
      BY <1>17, <1>18, <1>20, <3>1
    <3> QED
      BY <1>22, <3>1, <3>2, <3>3, <3>6, <3>9, <3>10
  <2>3. DOMAIN c.written = DOMAIN c.discards /\ DOMAIN c.written \subseteq Trees
    BY <1>16, <1>19, <1>20
  <2>4. c.failed \in BOOLEAN /\ c.todo \in Seq(Tasks)
    BY <1>17, <1>20
  <2> QED
    BY <1>20, <2>1, <2>2, <2>3, <2>4 DEF TreesOK
<1>30. MetasOK(h, bucket, c, registry, backend.meta, n + L, session) /\ c.at \in {"idle", "trees", "reclaim"} \cup LatePhases
  BY <1>20 DEF MetasOK, LatePhases
<1>31. WorkOK(h, bucket, mem, writes, c, registry, backend.meta, n + L, session)
  BY <1>4, <1>13, <1>21, <1>25, <1>26, <1>27, <1>28, <1>29, <1>30 DEF WorkOK
<1>32. /\ NamedOK(h, bucket', named') /\ backend' \in [next : Nat, meta : {backend'.meta}, born : Nat]
       /\ WorkOK(h, bucket', memory', writes', chain', registry', backend'.meta, backend'.next, session)
  BY <1>8, <1>9, <1>10, <1>14, <1>31
<1>33. Usable(h)'
  BY <1>1, <1>10, <1>32, SessionGoesOn
<1> QED
  BY <1>33

LEMMA WriteTreeKeeps ==
  ASSUME NEW g, Usable(g), WriteTree
  PROVE  Usable(g)'
<1> DEFINE n == backend.next
           x == Head(chain.todo)
           l == x.location
<1>1. SessionOK(g) /\ mode = "writing" /\ NamedOK(g, bucket, named) /\ chain.at = "trees" /\ chain.todo # <<>>
  BY DEF WriteTree, AtPhase, Usable
<1>2. WorkOK(g, bucket, memory, writes, chain, registry, backend.meta, n, session)
  BY <1>1 DEF SessionOK
<1>3. n \in Nat /\ TreesOK(g, bucket, memory, chain, n, session)
  BY <1>2 DEF WorkOK
<1>4. /\ DOMAIN chain = {"at", "failed", "todo", "written", "discards"}
      /\ chain.failed \in BOOLEAN /\ chain.todo \in Seq(Tasks)
  BY <1>1, <1>3 DEF TreesOK
<1>5. /\ x \in Tasks /\ 1 \in DOMAIN chain.todo /\ x = chain.todo[1]
      /\ Tail(chain.todo) \in Seq(Tasks)
      /\ \A k \in DOMAIN chain.todo : k = 1 \/ (k - 1 \in DOMAIN Tail(chain.todo) /\ Tail(chain.todo)[k - 1] = chain.todo[k])
      /\ \A k \in DOMAIN Tail(chain.todo) : k + 1 \in DOMAIN chain.todo /\ Tail(chain.todo)[k] = chain.todo[k + 1]
  BY <1>1, <1>4
<1>6. l \in ObjectId /\ g[l.id].object = x.object
  BY <1>1, <1>3, <1>5 DEF TreesOK, Tasks
<1>7. PICK ok \in BOOLEAN : /\ Put(Name("DEW0", l), x.object, "tree", ok)
                            /\ chain' = [chain EXCEPT !.todo = Tail(@), !.failed = @ \/ ~ok]
  BY DEF WriteTree
<1>8. UNCHANGED <<mode, session, backend, registry, memory, writes, named>>
  BY DEF WriteTree
<1>9. PICK c : c = [chain EXCEPT !.todo = Tail(@), !.failed = @ \/ ~ok] /\ chain' = c
  BY <1>7
<1>10. /\ c.at = "trees" /\ c.failed = (chain.failed \/ ~ok) /\ c.todo = Tail(chain.todo)
       /\ c.written = chain.written /\ c.discards = chain.discards
       /\ DOMAIN c = {"at", "failed", "todo", "written", "discards"}
       /\ c.failed \in BOOLEAN
  <2> HIDE DEF x, l
  <2> QED
    BY <1>1, <1>4, <1>9
<1> HIDE DEF x, l, n
<1>11. Put(Name("DEW0", l), g[l.id].object, "tree", ok)
  BY <1>6, <1>7
<1>12. WorkOK(g, bucket', memory, writes, chain, registry, backend.meta, n, session)
  BY <1>2, <1>6, <1>11, WorkPut
<1>13. NamedOK(g, bucket', named) /\ (ok => Filled(g, bucket', l))
  BY <1>1, <1>3, <1>6, <1>11, PutKeeps
<1>14. /\ DoomedOf(c) = DoomedOf(chain) /\ FreedOf(c) = FreedOf(chain)
       /\ \A t : TakenOf(c, t) = TakenOf(chain, t)
  <2>1. DoomedOf(c) = DoomedOf(chain) /\ FreedOf(c) = FreedOf(chain)
    BY <1>1, <1>10 DEF DoomedOf, FreedOf, LatePhases
  <2>2. ASSUME NEW t PROVE TakenOf(c, t) = TakenOf(chain, t)
    BY <1>1, <1>10 DEF TakenOf
  <2> QED
    BY <2>1, <2>2
<1>15. \A t : KeepsOf(memory, c, t) = KeepsOf(memory, chain, t)
  BY <1>14 DEF KeepsOf
<1>16. TreesOK(g, bucket', memory, c, n, session)
  <2>1. TreesOK(g, bucket', memory, chain, n, session)
    BY <1>12 DEF WorkOK
  <2>2. \A k \in DOMAIN c.todo : /\ c.todo[k].location.by = session /\ c.todo[k].location.id < n
                                 /\ g[c.todo[k].location.id].object = c.todo[k].object
    BY <1>1, <1>5, <1>10, <2>1 DEF TreesOK
  <2>3. ASSUME NEW t \in DOMAIN c.written
        PROVE  c.failed \/ Filled(g, bucket', c.written[t]) \/ \E k \in DOMAIN c.todo : c.todo[k].location = c.written[t]
    <3>1. chain.failed \/ Filled(g, bucket', c.written[t]) \/ \E k \in DOMAIN chain.todo : chain.todo[k].location = c.written[t]
      BY <1>1, <1>10, <2>1 DEF TreesOK
    <3>2. CASE \E k \in DOMAIN chain.todo : chain.todo[k].location = c.written[t]
      <4>1. PICK k \in DOMAIN chain.todo : chain.todo[k].location = c.written[t]
        BY <3>2
      <4>2. CASE k = 1
        <5>1. c.written[t] = l
          BY <1>5, <4>1, <4>2 DEF l
        <5> QED
          BY <1>10, <1>13, <5>1
      <4>3. CASE k # 1
        <5>1. k - 1 \in DOMAIN c.todo /\ c.todo[k - 1] = chain.todo[k]
          BY <1>5, <1>10, <4>3
        <5> QED
          BY <4>1, <5>1
      <4> QED
        BY <4>2, <4>3
    <3> QED
      BY <1>10, <3>1, <3>2
  <2>4. ASSUME NEW t \in DOMAIN c.written
        PROVE  /\ IsObject(g, c.written[t], "tree") /\ c.written[t].id < n
               /\ \A u \in g[c.written[t].id].object.units : u.id < c.written[t].id /\ UnitKept(g, bucket', {}, t, u)
               /\ g[c.written[t].id].object.units \subseteq memory[t].units \cup memory[t].discards
    BY <1>1, <1>10, <2>1 DEF TreesOK
  <2>5. DOMAIN c.written = DOMAIN c.discards /\ DOMAIN c.written \subseteq Trees
    BY <1>1, <1>10, <2>1 DEF TreesOK
  <2>6. c.todo \in Seq(Tasks)
    BY <1>5, <1>10
  <2> QED
    BY <1>10, <2>2, <2>3, <2>4, <2>5, <2>6 DEF TreesOK
<1>17. MemoryOK(g, bucket', memory, c, n)
  BY <1>12, <1>14, <1>15 DEF WorkOK, MemoryOK
<1>18. WritesOK(g, memory, writes, c, n, session)
  BY <1>12, <1>14, <1>15 DEF WorkOK, WritesOK
<1>19. RegistryOK(g, bucket', memory, c, registry, n)
  BY <1>12, <1>14, <1>15 DEF WorkOK, RegistryOK
<1>20. DoomedOK(g, c, n)
  BY <1>10, <1>12, <1>14 DEF WorkOK, DoomedOK
<1>21. MetasOK(g, bucket', c, registry, backend.meta, n, session) /\ c.at \in {"idle", "trees", "reclaim"} \cup LatePhases
  BY <1>10 DEF MetasOK, LatePhases
<1>22. WorkOK(g, bucket', memory, writes, c, registry, backend.meta, n, session)
  BY <1>12, <1>14, <1>16, <1>17, <1>18, <1>19, <1>20, <1>21 DEF WorkOK
<1>23. backend \in [next : Nat, meta : {backend.meta}, born : Nat]
  BY <1>1, AllocatedIs
<1>24. /\ NamedOK(g, bucket', named') /\ backend' \in [next : Nat, meta : {backend'.meta}, born : Nat]
       /\ WorkOK(g, bucket', memory', writes', chain', registry', backend'.meta, backend'.next, session)
  BY <1>8, <1>9, <1>13, <1>22, <1>23 DEF n
<1> QED
  BY <1>1, <1>8, <1>24, SessionGoesOn

\* A chain that ends, after its trees are written, leaves what the session has.
LEMMA ChainEnds ==
  ASSUME NEW g, NEW b, NEW mem, NEW W, NEW c, NEW reg, NEW meta, NEW n, NEW s,
         WorkOK(g, b, mem, W, c, reg, meta, n, s), c.at # "trees"
  PROVE  WorkOK(g, b, mem, W, NoChain, reg, meta, n, s)
<1>1. NoChain.at = "idle"
  BY DEF NoChain
<1>2. DoomedOf(NoChain) = {} /\ FreedOf(NoChain) = {} /\ \A t : TakenOf(NoChain, t) = {} /\ TakenOf(c, t) = {}
  BY <1>1 DEF DoomedOf, FreedOf, TakenOf, LatePhases
<1>3. \A t : KeepsOf(mem, NoChain, t) = KeepsOf(mem, c, t)
  BY <1>2 DEF KeepsOf
<1> DEFINE D == DoomedOf(c)
<1>4. n \in Nat
  BY DEF WorkOK
<1> HIDE DEF D
<1>5. Carried(g, b, D, g, b, {}, n)
  BY <1>4 DEF Carried
<1>6. \A t, u : UnitKept(g, b, D, t, u) => UnitKept(g, b, {}, t, u)
  BY DEF UnitKept, Kept
<1>7. DurableOK(g, b, {})
  <2>1. Exists(b) => ManifestKept(g, b, D, b[Manifest]) /\ b[Manifest].next <= n
    BY DEF WorkOK, DurableOK, D
  <2> QED
    BY <1>5, <2>1, ManifestCarried DEF DurableOK
<1>8. MemoryOK(g, b, mem, NoChain, n)
  <2>1. MemoryOK(g, b, mem, c, n)
    BY DEF WorkOK
  <2> QED
    <3>1. ASSUME NEW t \in Trees
          PROVE  \A u \in KeepsOf(mem, NoChain, t) :
                   UnitKept(g, b, DoomedOf(NoChain), t, u) /\ u.id < n /\ u \notin FreedOf(NoChain)
      BY <1>2, <1>3, <1>6, <2>1 DEF MemoryOK, D
    <3>2. ASSUME NEW t \in Trees PROVE TakenOf(NoChain, t) = TakenOf(c, t)
      BY <1>2
    <3> QED
      BY <2>1, <3>1, <3>2 DEF MemoryOK
<1>9. WritesOK(g, mem, W, NoChain, n, s)
  <2>1. WritesOK(g, mem, W, c, n, s)
    BY DEF WorkOK
  <2> QED
    BY <1>2, <1>3, <2>1 DEF WritesOK
<1>10. RegistryOK(g, b, mem, NoChain, reg, n)
  <2>1. RegistryOK(g, b, mem, c, reg, n)
    BY DEF WorkOK
  <2>2. IndexKept(g, b, D, reg, n) /\ n <= n
    BY <1>4, <2>1 DEF RegistryOK, D
  <2>3. IndexKept(g, b, {}, reg, n)
    BY <1>4, <1>5, <2>2, IndexCarried
  <2> QED
    BY <1>2, <1>3, <2>1, <2>3 DEF RegistryOK
<1>11. DoomedOK(g, NoChain, n)
  BY <1>1, <1>2, FS_EmptySet DEF DoomedOK
<1>12. /\ TreesOK(g, b, mem, NoChain, n, s) /\ MetasOK(g, b, NoChain, reg, meta, n, s)
       /\ NoChain.at \in {"idle", "trees", "reclaim"} \cup LatePhases
  BY <1>1 DEF TreesOK, MetasOK, LatePhases
<1>13. MetaOK(g, meta, n) /\ s \in Nat \ {0} /\ (Exists(b) => b[Manifest].next <= n)
  BY DEF WorkOK
<1> QED
  BY <1>2, <1>4, <1>7, <1>8, <1>9, <1>10, <1>11, <1>12, <1>13 DEF WorkOK

LEMMA TreesFailedKeeps ==
  ASSUME NEW g, Usable(g), TreesFailed
  PROVE  Usable(g)'
<1> DEFINE n == backend.next
           mem == [t \in Trees |-> IF t \in DOMAIN chain.discards
                                     THEN [memory[t] EXCEPT !.dirty = TRUE, !.discards = @ \cup chain.discards[t]]
                                     ELSE memory[t]]
<1>1. SessionOK(g) /\ mode = "writing" /\ NamedOK(g, bucket, named) /\ chain.at = "trees"
  BY DEF TreesFailed, AtPhase, Usable
<1>2. WorkOK(g, bucket, memory, writes, chain, registry, backend.meta, n, session)
  BY <1>1 DEF SessionOK
<1>3. n \in Nat /\ MemoryOK(g, bucket, memory, chain, n) /\ TreesOK(g, bucket, memory, chain, n, session)
  BY <1>2 DEF WorkOK
<1>4. /\ chain' = NoChain /\ memory' = mem
      /\ UNCHANGED <<bucket, mode, session, backend, registry, writes, named>>
  BY DEF TreesFailed
<1>5. NoChain.at = "idle"
  BY DEF NoChain
<1>6. /\ DoomedOf(NoChain) = {} /\ FreedOf(NoChain) = {} /\ \A t : TakenOf(NoChain, t) = {}
      /\ DoomedOf(chain) = {} /\ FreedOf(chain) = {}
      /\ \A t : TakenOf(chain, t) = IF t \in DOMAIN chain.discards THEN chain.discards[t] ELSE {}
  BY <1>1, <1>5 DEF DoomedOf, FreedOf, TakenOf, LatePhases
<1>7. \A t \in Trees : \A u \in TakenOf(chain, t) : u \in ObjectId
  BY <1>3 DEF MemoryOK, KeepsOf, UnitKept, Kept, IsObject
<1>8. /\ mem \in [Trees -> [units : SUBSET ObjectId, dirty : BOOLEAN, discards : SUBSET ObjectId]]
      /\ \A t \in Trees : /\ mem[t].units = memory[t].units
                          /\ mem[t].discards = memory[t].discards \cup TakenOf(chain, t)
                          /\ mem[t].dirty \/ mem[t].discards = {}
  <2> SUFFICES ASSUME NEW t \in Trees
               PROVE  /\ mem[t] \in [units : SUBSET ObjectId, dirty : BOOLEAN, discards : SUBSET ObjectId]
                      /\ mem[t].units = memory[t].units
                      /\ mem[t].discards = memory[t].discards \cup TakenOf(chain, t)
                      /\ mem[t].dirty \/ mem[t].discards = {}
    OBVIOUS
  <2>1. memory[t] \in [units : SUBSET ObjectId, dirty : BOOLEAN, discards : SUBSET ObjectId]
    BY <1>3 DEF MemoryOK
  <2>2. CASE t \in DOMAIN chain.discards
    <3>1. mem[t] = [memory[t] EXCEPT !.dirty = TRUE, !.discards = memory[t].discards \cup chain.discards[t]]
      BY <2>2
    <3>2. TakenOf(chain, t) = chain.discards[t] /\ chain.discards[t] \in SUBSET ObjectId
      BY <1>6, <1>7, <2>2
    <3> HIDE DEF mem
    <3> QED
      BY <2>1, <3>1, <3>2
  <2>3. CASE t \notin DOMAIN chain.discards
    <3>1. mem[t] = memory[t] /\ TakenOf(chain, t) = {}
      BY <1>6, <2>3
    <3>2. memory[t].dirty \/ memory[t].discards = {}
      BY <1>3 DEF MemoryOK
    <3> HIDE DEF mem
    <3> QED
      BY <2>1, <3>1, <3>2
  <2> QED
    BY <2>2, <2>3
<1> HIDE DEF mem, n
<1>9. ASSUME NEW t \in Trees PROVE KeepsOf(mem, NoChain, t) = KeepsOf(memory, chain, t)
  <2>1. KeepsOf(mem, NoChain, t) = mem[t].units \cup mem[t].discards
    BY <1>6 DEF KeepsOf
  <2> QED
    BY <1>8, <2>1 DEF KeepsOf
<1>10. MemoryOK(g, bucket, mem, NoChain, n)
  <2>1. ASSUME NEW t \in Trees
        PROVE  /\ \A u \in KeepsOf(mem, NoChain, t) : UnitKept(g, bucket, {}, t, u) /\ u.id < n
               /\ mem[t].units \cap mem[t].discards = {}
               /\ IsFiniteSet(mem[t].discards) /\ IsFiniteSet({})
    <3>1. /\ \A u \in KeepsOf(memory, chain, t) : UnitKept(g, bucket, {}, t, u) /\ u.id < n
          /\ memory[t].units \cap memory[t].discards = {}
          /\ TakenOf(chain, t) \cap (memory[t].units \cup memory[t].discards) = {}
          /\ IsFiniteSet(memory[t].discards) /\ IsFiniteSet(TakenOf(chain, t))
      BY <1>3, <1>6 DEF MemoryOK
    <3>2. IsFiniteSet(memory[t].discards \cup TakenOf(chain, t))
      BY <3>1, FS_Union
    <3>3. mem[t].units = memory[t].units /\ mem[t].discards = memory[t].discards \cup TakenOf(chain, t)
      BY <1>8
    <3>4. mem[t].units \cap mem[t].discards = {}
      BY <3>1, <3>3
    <3> QED
      BY <1>9, <3>1, <3>2, <3>3, <3>4, FS_EmptySet
  <2>2. ASSUME NEW t \in Trees PROVE TakenOf(NoChain, t) = {}
    BY <1>6
  <2>3. ASSUME NEW t \in Trees
        PROVE  /\ \A u \in KeepsOf(mem, NoChain, t) :
                    UnitKept(g, bucket, DoomedOf(NoChain), t, u) /\ u.id < n /\ u \notin FreedOf(NoChain)
               /\ TakenOf(NoChain, t) \cap (mem[t].units \cup mem[t].discards) = {}
               /\ IsFiniteSet(TakenOf(NoChain, t))
    BY <1>6, <2>1, <2>2
  <2> QED
    BY <1>8, <2>1, <2>3 DEF MemoryOK
<1>11. WritesOK(g, mem, writes, NoChain, n, session)
  BY <1>2, <1>6, <1>9 DEF WorkOK, WritesOK
<1>12. RegistryOK(g, bucket, mem, NoChain, registry, n)
  <2>1. RegistryOK(g, bucket, memory, chain, registry, n)
    BY <1>2 DEF WorkOK
  <2>2. \A t \in DOMAIN registry : t \in Trees
    BY <2>1 DEF RegistryOK, IndexKept
  <2> QED
    BY <1>6, <1>9, <2>1, <2>2 DEF RegistryOK
<1>13. DoomedOK(g, NoChain, n)
  BY <1>5, <1>6, FS_EmptySet DEF DoomedOK
<1>14. /\ TreesOK(g, bucket, mem, NoChain, n, session) /\ MetasOK(g, bucket, NoChain, registry, backend.meta, n, session)
       /\ NoChain.at \in {"idle", "trees", "reclaim"} \cup LatePhases
  BY <1>5 DEF TreesOK, MetasOK, LatePhases
<1>15. WorkOK(g, bucket, mem, writes, NoChain, registry, backend.meta, n, session)
  BY <1>2, <1>6, <1>10, <1>11, <1>12, <1>13, <1>14 DEF WorkOK
<1>16. backend \in [next : Nat, meta : {backend.meta}, born : Nat]
  BY <1>1, AllocatedIs
<1>17. /\ NamedOK(g, bucket', named') /\ backend' \in [next : Nat, meta : {backend'.meta}, born : Nat]
       /\ WorkOK(g, bucket', memory', writes', chain', registry', backend'.meta, backend'.next, session)
  BY <1>1, <1>4, <1>15, <1>16 DEF n
<1> QED
  BY <1>1, <1>4, <1>17, SessionGoesOn

LEMMA TreesWrittenKeeps ==
  ASSUME NEW g, Usable(g), TreesWritten
  PROVE  \E h : Usable(h)'
<1> DEFINE n == backend.next
           locations == [t \in DOMAIN registry \cup DOMAIN chain.written |->
                          IF t \in DOMAIN chain.written THEN chain.written[t] ELSE registry[t]]
           l == NextLocation(1)
           freed == UNION {chain.discards[t] : t \in DOMAIN chain.discards}
           meta == [NoMeta EXCEPT !["registry"] = l]
           c == [at |-> "registry", object |-> RegistryObject(locations, session), freed |-> freed, meta |-> meta]
<1>0. PICK h : h = [i \in Nat |-> IF i < n THEN g[i] ELSE [object |-> RegistryObject(locations, session), tree |-> 0]]
  OBVIOUS
<1>1. /\ SessionOK(g) /\ mode = "writing" /\ NamedOK(g, bucket, named)
      /\ chain.at = "trees" /\ chain.todo = <<>> /\ ~chain.failed
  BY DEF TreesWritten, AtPhase, Usable
<1>2. WorkOK(g, bucket, memory, writes, chain, registry, backend.meta, n, session)
  BY <1>1 DEF SessionOK
<1>3. n \in Nat /\ n + 1 \in Nat /\ n <= n + 1 /\ n < n + 1 /\ ~(n < n)
  BY <1>2 DEF WorkOK
<1>4. l \in ObjectId /\ l.id = n /\ l.by = session
  BY <1>1, <1>3, NextLocationIs
<1>5. backend' \in [next : Nat, meta : {backend.meta}, born : Nat] /\ backend'.next = n + 1 /\ backend'.meta = backend.meta
  BY <1>1, AllocatedIs DEF TreesWritten
<1>6. /\ UNCHANGED <<bucket, mode, session, memory, writes, named>>
      /\ registry' = locations /\ chain' = c
  BY DEF TreesWritten
<1>7. /\ c.at = "registry" /\ c.object = RegistryObject(locations, session)
      /\ c.freed = freed /\ c.meta = meta
  OBVIOUS
<1> HIDE DEF n, l, c
<1>8. (\A i \in Nat : i < n => h[i] = g[i]) /\ h[n].object = RegistryObject(locations, session)
  BY <1>0, <1>3
<1>9. WorkOK(h, bucket, memory, writes, chain, registry, backend.meta, n + 1, session)
  BY <1>2, <1>3, <1>8, WorkGiven
<1>10. NamedOK(h, bucket, named)
  BY <1>1, <1>2, <1>3, <1>8, NamedCarried DEF WorkOK, DurableOK, ManifestKept
<1>11. /\ DoomedOf(c) = {} /\ FreedOf(c) = freed /\ \A t : TakenOf(c, t) = {}
       /\ DoomedOf(chain) = {} /\ FreedOf(chain) = {}
       /\ \A t : TakenOf(chain, t) = IF t \in DOMAIN chain.discards THEN chain.discards[t] ELSE {}
  BY <1>1, <1>7 DEF DoomedOf, FreedOf, TakenOf, LatePhases
<1>12. /\ DOMAIN chain.written = DOMAIN chain.discards /\ DOMAIN chain.written \subseteq Trees
       /\ MemoryOK(h, bucket, memory, chain, n + 1)
  BY <1>1, <1>9 DEF WorkOK, TreesOK
<1>13. \A u \in freed : \E t \in Trees : t \in DOMAIN chain.discards /\ u \in TakenOf(chain, t) /\ u \in KeepsOf(memory, chain, t)
  BY <1>11, <1>12 DEF KeepsOf
<1>14. IsFiniteSet(freed)
  <2> DEFINE T == DOMAIN chain.discards
             F == {chain.discards[t] : t \in T}
             f == [t \in T |-> chain.discards[t]]
  <2>1. IsFiniteSet(T)
    <3>1. T \in SUBSET Trees /\ IsFiniteSet(Trees)
      BY <1>12, ObjectBackendAssumption
    <3> HIDE DEF T
    <3> QED
      BY <3>1, FS_Subset
  <2>2. \A S \in F : IsFiniteSet(S)
    BY <1>11, <1>12 DEF MemoryOK
  <2>3. f \in Surjection(T, F)
    BY DEF Surjection
  <2> HIDE DEF f, F, T
  <2>4. IsFiniteSet(F)
    BY <2>1, <2>3, FS_Surjection
  <2>5. IsFiniteSet(UNION F)
    BY <2>2, <2>4, FS_UNION
  <2> QED
    BY <2>5 DEF F, T
<1> HIDE DEF freed
<1>15. \A t : KeepsOf(memory, c, t) = memory[t].units \cup memory[t].discards
  BY <1>11 DEF KeepsOf
<1>16. \A t : KeepsOf(memory, c, t) \subseteq KeepsOf(memory, chain, t)
  BY <1>15 DEF KeepsOf
<1>17. MemoryOK(h, bucket, memory, c, n + 1)
  <2>1. ASSUME NEW t \in Trees, NEW u \in KeepsOf(memory, c, t)
        PROVE  UnitKept(h, bucket, {}, t, u) /\ u.id < n + 1 /\ u \notin freed
    <3>1. u \in KeepsOf(memory, chain, t) /\ u \in memory[t].units \cup memory[t].discards
      BY <1>15, <1>16
    <3>2. UnitKept(h, bucket, {}, t, u) /\ u.id < n + 1
      BY <1>11, <1>12, <3>1 DEF MemoryOK
    <3>3. ASSUME u \in freed PROVE FALSE
      <4>1. PICK x \in Trees : u \in TakenOf(chain, x) /\ u \in KeepsOf(memory, chain, x)
        BY <1>13, <3>3
      <4>2. UnitKept(h, bucket, {}, x, u)
        BY <1>11, <1>12, <4>1 DEF MemoryOK
      <4>3. x = t
        BY <3>2, <4>2 DEF UnitKept
      <4> QED
        BY <1>12, <3>1, <4>1, <4>3 DEF MemoryOK
    <3> QED
      BY <3>2, <3>3
  <2>2. ASSUME NEW t \in Trees PROVE TakenOf(c, t) = {}
    BY <1>11
  <2>3. ASSUME NEW t \in Trees
        PROVE  /\ \A u \in KeepsOf(memory, c, t) : UnitKept(h, bucket, DoomedOf(c), t, u) /\ u.id < n + 1 /\ u \notin FreedOf(c)
               /\ TakenOf(c, t) \cap (memory[t].units \cup memory[t].discards) = {}
               /\ IsFiniteSet(TakenOf(c, t))
    BY <1>11, <2>1, <2>2, FS_EmptySet
  <2> QED
    BY <1>12, <2>3 DEF MemoryOK
<1>18. WritesOK(h, memory, writes, c, n + 1, session)
  <2>1. WritesOK(h, memory, writes, chain, n + 1, session)
    BY <1>9 DEF WorkOK
  <2>2. \A w \in writes : w.location \notin freed
    BY <1>13, <2>1 DEF WritesOK
  <2> QED
    BY <1>11, <1>16, <2>1, <2>2 DEF WritesOK
<1>19. ASSUME NEW t \in DOMAIN locations
       PROVE  /\ t \in Trees /\ locations[t].id < n /\ TreeKept(h, bucket, {}, t, locations[t])
              /\ h[locations[t].id].object.units \subseteq KeepsOf(memory, c, t)
  <2>1. CASE t \in DOMAIN chain.written
    <3> DEFINE w == chain.written[t]
    <3>1. locations[t] = w
      BY <2>1
    <3>2. /\ IsObject(h, w, "tree")
          /\ \A u \in h[w.id].object.units : u.id < w.id /\ UnitKept(h, bucket, {}, t, u)
          /\ h[w.id].object.units \subseteq memory[t].units \cup memory[t].discards
          /\ chain.failed \/ Filled(h, bucket, w) \/ \E k \in DOMAIN chain.todo : chain.todo[k].location = w
      BY <1>1, <1>9, <2>1 DEF WorkOK, TreesOK
    <3>3. w.id < n
      BY <1>1, <1>2, <2>1 DEF WorkOK, TreesOK
    <3>4. DOMAIN chain.todo = {}
      BY <1>1
    <3> HIDE DEF w, locations
    <3>5. TreeKept(h, bucket, {}, t, w)
      BY <1>1, <3>2, <3>4 DEF TreeKept, Kept
    <3> QED
      BY <1>12, <1>15, <2>1, <3>1, <3>2, <3>3, <3>5
  <2>2. CASE t \notin DOMAIN chain.written
    <3>1. t \in DOMAIN registry /\ locations[t] = registry[t]
      BY <2>2
    <3> HIDE DEF locations
    <3>2. RegistryOK(h, bucket, memory, chain, registry, n + 1) /\ RegistryOK(g, bucket, memory, chain, registry, n)
      BY <1>2, <1>9 DEF WorkOK
    <3>3. /\ t \in Trees /\ registry[t].id < n /\ TreeKept(h, bucket, {}, t, registry[t])
          /\ h[registry[t].id].object.units \subseteq KeepsOf(memory, chain, t)
      BY <1>11, <3>1, <3>2 DEF RegistryOK, IndexKept
    <3>4. TakenOf(chain, t) = {}
      BY <1>11, <1>12, <2>2
    <3>5. KeepsOf(memory, chain, t) = memory[t].units \cup memory[t].discards
      BY <3>4 DEF KeepsOf
    <3> QED
      BY <1>15, <3>1, <3>3, <3>5
  <2> QED
    BY <2>1, <2>2
<1> HIDE DEF locations
<1>20. RegistryOK(h, bucket, memory, c, locations, n + 1)
  <2>1. \A t \in DOMAIN locations : locations[t].id \in Nat /\ locations[t].id < n
    BY <1>19 DEF TreeKept, Kept, IsObject, ObjectId
  <2>2. \A t \in DOMAIN locations : locations[t].id < n + 1
    BY <1>3, <2>1
  <2> QED
    BY <1>11, <1>19, <2>2 DEF RegistryOK, IndexKept
<1>21. DoomedOK(h, c, n + 1)
  <2>1. ASSUME NEW u \in freed
        PROVE  u \in ObjectId /\ h[u.id].object.by = u.by /\ u.id < n + 1 /\ h[u.id].object.kind = "data"
    <3>1. PICK t \in Trees : u \in KeepsOf(memory, chain, t)
      BY <1>13
    <3>2. UnitKept(h, bucket, {}, t, u) /\ u.id < n + 1
      BY <1>11, <1>12, <3>1 DEF MemoryOK
    <3> QED
      BY <3>2 DEF UnitKept, Kept, IsObject
  <2> QED
    BY <1>7, <1>11, <1>14, <2>1 DEF DoomedOK
<1>22. MetasOK(h, bucket, c, locations, backend.meta, n + 1, session)
  <2>1. meta \in Metas /\ meta["registry"] = l
    <3>1. NoMeta \in Metas /\ DOMAIN NoMeta = Kinds /\ "registry" \in Kinds
      BY DEF NoMeta, Metas, Kinds
    <3> QED
      BY <1>4, <3>1 DEF Metas
  <2>2. IsObject(h, l, "registry") /\ l.id < n + 1 /\ h[l.id].object = RegistryObject(locations, session)
    BY <1>3, <1>4, <1>8 DEF IsObject, RegistryObject
  <2>3. \A k \in Kinds : backend.meta[k] = NoLocation \/ backend.meta[k].id < n
    BY <1>2 DEF WorkOK, MetaOK
  <2>4. DoneOf("registry") = {}
    BY DEF DoneOf
  <2> QED
    BY <1>4, <1>7, <1>19, <2>1, <2>2, <2>3, <2>4 DEF MetasOK
<1>23. /\ TreesOK(h, bucket, memory, c, n + 1, session)
       /\ c.at \in {"idle", "trees", "reclaim"} \cup LatePhases
  BY <1>7 DEF TreesOK, LatePhases
<1>24. WorkOK(h, bucket, memory, writes, c, locations, backend.meta, n + 1, session)
  BY <1>9, <1>11, <1>17, <1>18, <1>20, <1>21, <1>22, <1>23 DEF WorkOK
<1>25. /\ NamedOK(h, bucket', named') /\ backend' \in [next : Nat, meta : {backend'.meta}, born : Nat]
       /\ WorkOK(h, bucket', memory', writes', chain', registry', backend'.meta, backend'.next, session)
  BY <1>5, <1>6, <1>10, <1>24
<1>26. Usable(h)'
  BY <1>1, <1>6, <1>25, SessionGoesOn
<1> QED
  BY <1>26

\* From the registry to the manifest only the chain's own record changes.
LEMMA ChainMoves ==
  ASSUME NEW g, NEW b, NEW mem, NEW W, NEW c, NEW e, NEW reg, NEW meta, NEW n, NEW s,
         WorkOK(g, b, mem, W, c, reg, meta, n, s), c.at \in LatePhases, e.at \in LatePhases, e.freed = c.freed,
         MetasOK(g, b, e, reg, meta, n, s)
  PROVE  WorkOK(g, b, mem, W, e, reg, meta, n, s)
<1>1. c.at # "trees" /\ c.at # "reclaim" /\ e.at # "trees" /\ e.at # "reclaim"
  BY DEF LatePhases
<1>2. /\ DoomedOf(e) = DoomedOf(c) /\ FreedOf(e) = FreedOf(c)
      /\ \A t : TakenOf(e, t) = {} /\ TakenOf(c, t) = {}
  BY <1>1 DEF DoomedOf, FreedOf, TakenOf
<1>3. \A t : KeepsOf(mem, e, t) = KeepsOf(mem, c, t) /\ TakenOf(e, t) = TakenOf(c, t)
  BY <1>2 DEF KeepsOf
<1>4. MemoryOK(g, b, mem, e, n)
  <2>1. MemoryOK(g, b, mem, c, n)
    BY DEF WorkOK
  <2> QED
    BY <1>2, <1>3, <2>1 DEF MemoryOK
<1>5. WritesOK(g, mem, W, e, n, s)
  BY <1>2, <1>3 DEF WorkOK, WritesOK
<1>6. RegistryOK(g, b, mem, e, reg, n)
  BY <1>2, <1>3 DEF WorkOK, RegistryOK
<1>7. DoomedOK(g, e, n)
  BY <1>1, <1>2 DEF WorkOK, DoomedOK
<1>8. TreesOK(g, b, mem, e, n, s)
  BY <1>1 DEF TreesOK
<1> QED
  BY <1>2, <1>4, <1>5, <1>6, <1>7, <1>8 DEF WorkOK

LEMMA WriteRegistryKeeps ==
  ASSUME NEW g, Usable(g), WriteRegistry, Steady
  PROVE  Usable(g)'
<1> DEFINE n == backend.next
           l == chain.meta["registry"]
           c == [at |-> "attributes", freed |-> chain.freed, meta |-> chain.meta]
<1>1. SessionOK(g) /\ mode = "writing" /\ NamedOK(g, bucket, named) /\ chain.at = "registry"
  BY DEF WriteRegistry, AtPhase, Usable
<1>2. WorkOK(g, bucket, memory, writes, chain, registry, backend.meta, n, session)
  BY <1>1 DEF SessionOK
<1>3. n \in Nat /\ chain.at \in LatePhases /\ MetasOK(g, bucket, chain, registry, backend.meta, n, session)
  BY <1>1, <1>2 DEF WorkOK, LatePhases
<1>4. /\ IsObject(g, l, "registry") /\ l \in ObjectId /\ l.id \in Nat /\ l.id < n
      /\ g[l.id].object = RegistryObject(registry, session) /\ chain.object = RegistryObject(registry, session)
  BY <1>1, <1>3 DEF MetasOK, IsObject, ObjectId
<1>5. PICK ok \in BOOLEAN : Put(Name("DEW0", l), chain.object, "registry", ok)
  BY DEF WriteRegistry
<1>6. ok
  BY <1>5 DEF Put, Steady
<1>7. chain' = c /\ UNCHANGED <<mode, session, backend, registry, memory, writes, named>>
  BY DEF WriteRegistry
<1>8. c.at = "attributes" /\ c.freed = chain.freed /\ c.meta = chain.meta /\ c.at \in LatePhases
  BY DEF LatePhases
<1> HIDE DEF n, l, c
<1>9. Put(Name("DEW0", l), g[l.id].object, "registry", ok)
  BY <1>4, <1>5
<1>10. WorkOK(g, bucket', memory, writes, chain, registry, backend.meta, n, session)
  BY <1>2, <1>4, <1>9, WorkPut
<1>11. NamedOK(g, bucket', named) /\ Filled(g, bucket', l)
  BY <1>1, <1>3, <1>4, <1>6, <1>9, PutKeeps
<1>12. MetasOK(g, bucket', c, registry, backend.meta, n, session)
  <2>1. DoneOf("attributes") = {"registry"}
    BY DEF DoneOf
  <2>2. Kept(g, bucket', {}, l, "registry") /\ l.id <= l.id
    BY <1>4, <1>11 DEF Kept
  <2> QED
    BY <1>3, <1>4, <1>8, <2>1, <2>2 DEF MetasOK, l
<1>13. WorkOK(g, bucket', memory, writes, c, registry, backend.meta, n, session)
  BY <1>3, <1>8, <1>10, <1>12, ChainMoves
<1>14. backend \in [next : Nat, meta : {backend.meta}, born : Nat]
  BY <1>1, AllocatedIs
<1>15. /\ NamedOK(g, bucket', named') /\ backend' \in [next : Nat, meta : {backend'.meta}, born : Nat]
       /\ WorkOK(g, bucket', memory', writes', chain', registry', backend'.meta, backend'.next, session)
  BY <1>7, <1>11, <1>13, <1>14 DEF n
<1> QED
  BY <1>1, <1>7, <1>15, SessionGoesOn

LEMMA WriteMetaKeeps ==
  ASSUME NEW g, Usable(g), WriteMeta
  PROVE  \E h : Usable(h)'
<1> DEFINE n == backend.next
           k == chain.at
           l == NextLocation(1)
           object == MetaObject(k, session)
           meta == [chain.meta EXCEPT ![k] = l]
           c == [at |-> After(k), freed |-> chain.freed, next |-> backend'.next, meta |-> meta]
<1>0. PICK h : h = [i \in Nat |-> IF i < n THEN g[i] ELSE [object |-> object, tree |-> 0]]
  OBVIOUS
<1>1. SessionOK(g) /\ mode = "writing" /\ NamedOK(g, bucket, named) /\ k \in {"attributes", "stats", "perf"}
  BY KindsAre DEF WriteMeta, AtPhase, Usable
<1>2. WorkOK(g, bucket, memory, writes, chain, registry, backend.meta, n, session)
  BY <1>1 DEF SessionOK
<1>3. n \in Nat /\ n + 1 \in Nat /\ n <= n + 1 /\ n < n + 1 /\ ~(n < n) /\ k \in LatePhases /\ k # "trees"
  BY <1>1, <1>2 DEF WorkOK, LatePhases
<1>4. l \in ObjectId /\ l.id = n /\ l.by = session
  BY <1>1, <1>3, NextLocationIs
<1>5. backend' \in [next : Nat, meta : {backend.meta}, born : Nat] /\ backend'.next = n + 1 /\ backend'.meta = backend.meta
  BY <1>1, AllocatedIs DEF WriteMeta
<1>6. PICK ok \in BOOLEAN : Put(Name("DEW0", l), object, k, ok) /\ chain' = IF ~ok THEN NoChain ELSE c
  BY DEF WriteMeta
<1>7. UNCHANGED <<mode, session, registry, memory, writes, named>>
  BY DEF WriteMeta
<1>8. c.at = After(k) /\ c.freed = chain.freed /\ c.next = n + 1 /\ c.meta = meta
  BY <1>5
<1>9. object.kind = k /\ object.by = session
  BY DEF MetaObject
<1> HIDE DEF n, l, c, object
<1>10. (\A i \in Nat : i < n => h[i] = g[i]) /\ h[n].object = object
  BY <1>0, <1>3
<1>11. WorkOK(h, bucket, memory, writes, chain, registry, backend.meta, n + 1, session)
  BY <1>2, <1>3, <1>10, WorkGiven
<1>12. NamedOK(h, bucket, named)
  BY <1>1, <1>2, <1>3, <1>10, NamedCarried DEF WorkOK, DurableOK, ManifestKept
<1>13. Put(Name("DEW0", l), h[l.id].object, k, ok)
  BY <1>4, <1>6, <1>10
<1>14. WorkOK(h, bucket', memory, writes, chain, registry, backend.meta, n + 1, session)
  BY <1>4, <1>11, <1>13, WorkPut
<1>15. NamedOK(h, bucket', named) /\ (ok => Filled(h, bucket', l))
  BY <1>3, <1>4, <1>12, <1>13, PutKeeps
<1>16. CASE ~ok
  <2>1. WorkOK(h, bucket', memory, writes, NoChain, registry, backend.meta, n + 1, session)
    BY <1>3, <1>14, ChainEnds
  <2>2. /\ NamedOK(h, bucket', named') /\ backend' \in [next : Nat, meta : {backend'.meta}, born : Nat]
        /\ WorkOK(h, bucket', memory', writes', chain', registry', backend'.meta, backend'.next, session)
    BY <1>5, <1>6, <1>7, <1>15, <1>16, <2>1
  <2> QED
    BY <1>1, <1>7, <2>2, SessionGoesOn
<1>17. CASE ok
  <2>1. MetasOK(h, bucket', chain, registry, backend.meta, n + 1, session)
    BY <1>14 DEF WorkOK
  <2> DEFINE r == chain.meta["registry"]
  <2>2. chain.meta \in Metas /\ r \in ObjectId /\ r.id \in Nat
    BY <1>3, <2>1 DEF MetasOK, IsObject, ObjectId
  <2>3. meta \in Metas /\ meta[k] = l /\ (\A j \in Kinds : j # k => meta[j] = chain.meta[j]) /\ meta["registry"] = r
    BY <1>1, <1>4, <2>2 DEF Metas, Kinds
  <2>4. r.id < n
    BY <1>2, <1>3 DEF WorkOK, MetasOK
  <2>5. Kept(h, bucket', {}, l, k) /\ r.id <= l.id /\ l.id < n + 1
    <3>1. IsObject(h, l, k)
      BY <1>4, <1>9, <1>10 DEF IsObject
    <3>2. r.id <= l.id
      BY <1>3, <1>4, <2>2, <2>4
    <3> QED
      BY <1>3, <1>4, <1>15, <1>17, <3>1, <3>2 DEF Kept
  <2>6. After(k) \in {"stats", "perf", "manifest"} /\ DoneOf(After(k)) = DoneOf(k) \cup {k} /\ k \notin DoneOf(k)
        /\ DoneOf(k) \subseteq Kinds /\ After(k) \in LatePhases /\ After(k) # "registry"
    BY <1>1 DEF After, DoneOf, Kinds, LatePhases
  <2>7. MetasOK(h, bucket', c, registry, backend.meta, n + 1, session)
    <3>1. \A j \in DoneOf(c.at) : /\ Kept(h, bucket', {}, c.meta[j], j)
                                  /\ r.id <= c.meta[j].id /\ c.meta[j].id < n + 1
      <4> SUFFICES ASSUME NEW j \in DoneOf(c.at)
                   PROVE  Kept(h, bucket', {}, c.meta[j], j) /\ r.id <= c.meta[j].id /\ c.meta[j].id < n + 1
        OBVIOUS
      <4>1. CASE j = k
        BY <1>8, <2>3, <2>5, <4>1
      <4>2. CASE j # k
        <5>1. j \in DoneOf(k) /\ j \in Kinds
          BY <1>8, <2>6, <4>2
        <5>2. c.meta[j] = chain.meta[j]
          BY <1>8, <2>3, <4>2, <5>1
        <5> QED
          BY <1>3, <2>1, <5>1, <5>2 DEF MetasOK
      <4> QED
        BY <4>1, <4>2
    <3>2. c.next \in Nat /\ c.next <= n + 1 /\ (Exists(bucket') => bucket'[Manifest].next <= c.next)
      BY <1>3, <1>8, <1>14 DEF WorkOK
    <3>3. \A j \in DoneOf(c.at) : c.meta[j].id < c.next
      BY <1>8, <3>1
    <3> QED
      BY <1>3, <1>8, <2>1, <2>3, <2>6, <3>1, <3>2, <3>3 DEF MetasOK
  <2>8. WorkOK(h, bucket', memory, writes, c, registry, backend.meta, n + 1, session)
    BY <1>3, <1>8, <1>14, <2>6, <2>7, ChainMoves
  <2>9. /\ NamedOK(h, bucket', named') /\ backend' \in [next : Nat, meta : {backend'.meta}, born : Nat]
        /\ WorkOK(h, bucket', memory', writes', chain', registry', backend'.meta, backend'.next, session)
    BY <1>5, <1>6, <1>7, <1>15, <1>17, <2>8
  <2> QED
    BY <1>1, <1>7, <2>9, SessionGoesOn
<1> QED
  BY <1>16, <1>17

\* What a manifest put anew names.
LEMMA NamedMore ==
  ASSUME NEW g, NEW b, NEW D, NEW N, NamedOK(g, b, N), DurableOK(g, b, D)
  PROVE  NamedOK(g, b, IF Exists(b) THEN N \cup Reachable(b) ELSE N)
<1>1. CASE ~Exists(b)
  BY <1>1
<1>2. CASE Exists(b)
  <2>1. \A o \in Reachable(b) : \E l \in ObjectId :
          /\ o = [name |-> Blob(l.id), by |-> l.by] /\ l.id < b[Manifest].next
          /\ Filled(g, b, l) /\ g[l.id].object.by = l.by
    BY <1>2, ReachableKept DEF DurableOK
  <2>2. ASSUME NEW o \in Reachable(b)
        PROVE  \E i \in Nat : /\ i < b[Manifest].next /\ o.name = Blob(i) /\ o.by = g[i].object.by
                              /\ o.name \in DOMAIN b => b[o.name].by = o.by
    <3>1. PICK l \in ObjectId : /\ o = [name |-> Blob(l.id), by |-> l.by] /\ l.id < b[Manifest].next
                                /\ Filled(g, b, l) /\ g[l.id].object.by = l.by
      BY <2>1
    <3>2. l.id \in Nat /\ o.name = Blob(l.id) /\ o.by = l.by
      BY <3>1 DEF ObjectId
    <3> QED
      BY <3>1, <3>2 DEF Filled
  <2> QED
    BY <1>2, <2>2 DEF NamedOK
<1> QED
  BY <1>1, <1>2

LEMMA WriteManifestKeeps ==
  ASSUME NEW g, Usable(g), WriteManifest
  PROVE  Usable(g)'
<1> DEFINE n == backend.next
           object == ManifestObject("DEW0", chain.next, chain.meta, backend.born)
           old == {backend.meta[k] : k \in DOMAIN NoMeta} \ {NoLocation}
           c == [at |-> "reclaim", todo |-> SetToSeq(chain.freed) \o SetToSeq(old)]
           r == chain.meta["registry"]
           filled == Stored(Manifest, object)
<1>1. SessionOK(g) /\ mode = "writing" /\ NamedOK(g, bucket, named) /\ chain.at = "manifest"
  BY DEF WriteManifest, AtPhase, Usable
<1>2. WorkOK(g, bucket, memory, writes, chain, registry, backend.meta, n, session)
  BY <1>1 DEF SessionOK
<1>3. /\ n \in Nat /\ chain.at \in LatePhases /\ MetasOK(g, bucket, chain, registry, backend.meta, n, session)
      /\ n <= n /\ DoneOf(chain.at) = Kinds
  BY <1>1, <1>2 DEF WorkOK, LatePhases, DoneOf
<1>4. backend \in [next : Nat, meta : {backend.meta}, born : Nat]
  BY <1>1, AllocatedIs
<1>5. PICK ok \in BOOLEAN :
        /\ Put(Manifest, object, "manifest", ok)
        /\ named' = IF Exists(bucket') THEN named \cup Reachable(bucket') ELSE named
        /\ IF ok THEN backend' = [backend EXCEPT !.meta = chain.meta] /\ chain' = c
                 ELSE chain' = NoChain /\ UNCHANGED backend
  BY DEF WriteManifest
<1>6. bucket' = filled \/ (~ok /\ bucket' = bucket)
  BY <1>5 DEF Put
<1>7. UNCHANGED <<mode, session, registry, memory, writes>>
  BY DEF WriteManifest
<1>8. /\ object.kind = "DEW0" /\ object.next = chain.next /\ object.meta = chain.meta /\ object.by = backend.born
  BY DEF ManifestObject
<1>9. /\ DOMAIN filled = DOMAIN bucket \cup {Manifest} /\ filled[Manifest] = object
      /\ \A y \in DOMAIN bucket : y # Manifest => filled[y] = bucket[y]
  BY DEF Stored
<1>10. /\ DoomedOf(chain) = {} /\ FreedOf(chain) = chain.freed /\ \A t : TakenOf(chain, t) = {}
  BY <1>1 DEF DoomedOf, FreedOf, TakenOf, LatePhases
<1>11. /\ chain.meta \in Metas
       /\ IsObject(g, r, "registry") /\ r.id \in Nat /\ r.id < n
       /\ g[r.id].object = RegistryObject(registry, session)
       /\ \A t \in DOMAIN registry : registry[t].id < r.id
       /\ \A k \in Kinds : backend.meta[k] = NoLocation \/ backend.meta[k].id < r.id
       /\ \A k \in Kinds : /\ Kept(g, bucket, {}, chain.meta[k], k)
                           /\ r.id <= chain.meta[k].id /\ chain.meta[k].id < chain.next
       /\ chain.next \in Nat /\ chain.next <= n /\ (Exists(bucket) => bucket[Manifest].next <= chain.next)
  BY <1>1, <1>3 DEF MetasOK, IsObject, ObjectId
<1>12. g[r.id].object.trees = registry
  BY <1>11 DEF RegistryObject
<1> HIDE DEF n, object, old, c, r, filled
\* The bucket with the new manifest.
<1>13. Carried(g, bucket, {}, g, filled, {}, n)
  <2>1. ASSUME NEW l \in ObjectId, Filled(g, bucket, l) PROVE Filled(g, filled, l)
    <3>1. Blob(l.id) # Manifest
      BY Names DEF ObjectId
    <3> QED
      BY <1>9, <2>1, <3>1 DEF Filled
  <2> QED
    BY <1>3, <2>1 DEF Carried
<1>14. ManifestKept(g, filled, {}, object)
  <2>1. \A k \in Kinds : chain.meta[k].id \in Nat /\ chain.meta[k].id < n
    BY <1>3, <1>11 DEF Kept, IsObject, ObjectId
  <2>2. \A k \in Kinds : Kept(g, filled, {}, chain.meta[k], k)
    BY <1>11, <1>13, <2>1, KeptCarried
  <2>3. IndexKept(g, bucket, {}, registry, r.id)
    BY <1>2, <1>10, <1>11 DEF WorkOK, RegistryOK, IndexKept
  <2>4. r.id <= n
    BY <1>3, <1>11
  <2>5. IndexKept(g, filled, {}, registry, r.id)
    BY <1>11, <1>13, <2>3, <2>4, IndexCarried
  <2>6. backend.born \in Nat
    BY <1>4
  <2> QED
    BY <1>8, <1>11, <1>12, <2>2, <2>5, <2>6 DEF ManifestKept, r
<1>15. Exists(filled) /\ DurableOK(g, filled, {}) /\ filled[Manifest].next = chain.next
  BY <1>8, <1>9, <1>14 DEF Exists, DurableOK
<1>16. WorkOK(g, filled, memory, writes, chain, registry, backend.meta, n, session)
  <2>1. filled[Manifest].next <= n /\ filled[Manifest].next <= chain.next
    BY <1>11, <1>15
  <2> QED
    BY <1>2, <1>3, <1>10, <1>13, <1>15, <2>1, WorkOver
<1>17. NamedOK(g, filled, named)
  <2>1. ASSUME NEW o \in named
        PROVE  \E i \in Nat : /\ i < filled[Manifest].next /\ o.name = Blob(i) /\ o.by = g[i].object.by
                              /\ o.name \in DOMAIN filled => filled[o.name].by = o.by
    <3>1. Exists(bucket)
      BY <1>1 DEF NamedOK
    <3>2. PICK i \in Nat : /\ i < bucket[Manifest].next /\ o.name = Blob(i) /\ o.by = g[i].object.by
                           /\ o.name \in DOMAIN bucket => bucket[o.name].by = o.by
      BY <1>1 DEF NamedOK
    <3>3. bucket[Manifest].next \in Nat
      BY <1>2, <3>1 DEF WorkOK, DurableOK, ManifestKept
    <3>4. i < chain.next
      BY <1>11, <3>1, <3>2, <3>3
    <3>5. o.name # Manifest
      BY <3>2, Names
    <3> QED
      BY <1>9, <1>15, <3>2, <3>4, <3>5
  <2> QED
    BY <1>15, <2>1 DEF NamedOK
<1>18. NamedOK(g, bucket', named')
  <2>1. DurableOK(g, bucket, {})
    BY <1>2, <1>10 DEF WorkOK
  <2>2. CASE bucket' = bucket
    BY <1>1, <1>5, <2>1, <2>2, NamedMore
  <2>3. CASE bucket' = filled
    BY <1>5, <1>15, <1>17, <2>3, NamedMore
  <2> QED
    BY <1>6, <2>2, <2>3
<1>19. WorkOK(g, bucket', memory, writes, chain, registry, backend.meta, n, session)
  BY <1>2, <1>6, <1>16
<1>20. CASE ~ok
  <2>1. chain.at # "trees"
    BY <1>1
  <2>2. WorkOK(g, bucket', memory, writes, NoChain, registry, backend.meta, n, session)
    BY <1>19, <2>1, ChainEnds
  <2>3. backend' \in [next : Nat, meta : {backend'.meta}, born : Nat]
        /\ WorkOK(g, bucket', memory', writes', chain', registry', backend'.meta, backend'.next, session)
    BY <1>4, <1>5, <1>7, <1>20, <2>2 DEF n
  <2> QED
    BY <1>1, <1>7, <1>18, <2>3, SessionGoesOn
<1>21. CASE ok
  <2>1. bucket' = filled /\ chain' = c /\ backend' = [backend EXCEPT !.meta = chain.meta]
    BY <1>5, <1>6, <1>21
  <2>2. backend' \in [next : Nat, meta : {chain.meta}, born : Nat] /\ backend'.next = n /\ backend'.meta = chain.meta
    BY <1>4, <2>1 DEF n
  <2> DEFINE D == DoomedOf(c)
  \* What is removed: freed data, and metadata older than the registry.
  <2>3. MetaOK(g, backend.meta, n) /\ DoomedOK(g, chain, n)
    BY <1>2 DEF WorkOK
  <2>4. \A x \in old : \E k \in Kinds : x = backend.meta[k] /\ IsObject(g, x, k) /\ x.id < n /\ x.id < r.id
    BY <1>11, <2>3, KindsAre DEF old, MetaOK
  <2>5. IsFiniteSet(old) /\ IsFiniteSet(chain.freed)
    <3>1. IsFiniteSet(Kinds)
      <4>1. IsFiniteSet({"attributes"})
        BY FS_Singleton
      <4>2. IsFiniteSet({"attributes"} \cup {"stats"})
        BY <4>1, FS_AddElement
      <4>3. IsFiniteSet(({"attributes"} \cup {"stats"}) \cup {"perf"})
        BY <4>2, FS_AddElement
      <4>4. IsFiniteSet((({"attributes"} \cup {"stats"}) \cup {"perf"}) \cup {"registry"})
        BY <4>3, FS_AddElement
      <4>5. Kinds = (({"attributes"} \cup {"stats"}) \cup {"perf"}) \cup {"registry"}
        BY DEF Kinds
      <4> QED
        BY <4>4, <4>5
    <3> DEFINE all == {backend.meta[k] : k \in Kinds}
               f == [k \in Kinds |-> backend.meta[k]]
    <3>2. f \in Surjection(Kinds, all)
      BY DEF Surjection
    <3> HIDE DEF f
    <3>3. IsFiniteSet(all)
      <4> HIDE DEF all
      <4> QED
        BY <3>1, <3>2, FS_Surjection
    <3>4. old \in SUBSET all
      BY KindsAre DEF old
    <3> HIDE DEF all
    <3>5. IsFiniteSet(old)
      BY <3>3, <3>4, FS_Subset
    <3> QED
      BY <1>10, <2>3, <3>5 DEF DoomedOK
  <2>6. chain.freed \subseteq ObjectId /\ old \subseteq ObjectId
    BY <1>10, <2>3, <2>4 DEF DoomedOK, IsObject
  <2>7. c.at = "reclaim" /\ DOMAIN c = {"at", "todo"} /\ c.todo \in Seq(ObjectId) /\ D \subseteq chain.freed \cup old
    <3> DEFINE p == SetToSeq(chain.freed)
               q == SetToSeq(old)
    <3>1. p \in Seq(chain.freed) /\ q \in Seq(old)
      BY <2>5, SetToSeqIs
    <3>2. c.at = "reclaim" /\ DOMAIN c = {"at", "todo"} /\ c.todo = p \o q
      BY DEF c
    <3> HIDE DEF p, q
    <3>3. p \in Seq(chain.freed \cup old) /\ q \in Seq(chain.freed \cup old)
      BY <3>1
    <3>4. p \o q \in Seq(chain.freed \cup old)
      BY <3>3
    <3>5. p \o q \in Seq(ObjectId)
      BY <2>6, <3>4
    <3>6. ToSet(p \o q) \subseteq chain.freed \cup old
      BY <3>4 DEF ToSet
    <3> QED
      BY <3>2, <3>5, <3>6 DEF DoomedOf
  <2> HIDE DEF D
  <2>8. ASSUME NEW l, NEW kind, IsObject(g, l, kind), kind \notin Kinds, l \notin chain.freed
        PROVE  l \notin D
    BY <2>4, <2>7, <2>8 DEF IsObject
  <2>9. ASSUME NEW l, IsObject(g, l, "tree") PROVE l \notin D
    <3>1. \A x \in chain.freed : g[x.id].object.kind = "data"
      BY <1>10, <2>3 DEF DoomedOK
    <3>2. l \notin chain.freed
      BY <2>9, <3>1 DEF IsObject
    <3> QED
      BY <2>8, <2>9, <3>2 DEF Kinds
  <2>10. ASSUME NEW k \in Kinds PROVE chain.meta[k] \notin D
    <3>1. \A x \in chain.freed : g[x.id].object.kind = "data"
      BY <1>10, <2>3 DEF DoomedOK
    <3>2. chain.meta[k] \notin chain.freed
      BY <1>11, <3>1 DEF Kept, IsObject, Kinds
    <3>3. ASSUME chain.meta[k] \in old PROVE FALSE
      <4>1. chain.meta[k].id < r.id /\ r.id <= chain.meta[k].id /\ chain.meta[k].id \in Nat
        BY <1>11, <2>4, <3>3 DEF Kept, IsObject, ObjectId
      <4> QED
        BY <1>11, <4>1
    <3> QED
      BY <2>7, <3>2, <3>3
  <2>11. \A t : KeepsOf(memory, c, t) = KeepsOf(memory, chain, t) /\ TakenOf(c, t) = {} /\ TakenOf(chain, t) = {}
    <3>1. \A t : TakenOf(c, t) = {} /\ TakenOf(chain, t) = {}
      BY <1>10, <2>7 DEF TakenOf
    <3> QED
      BY <3>1 DEF KeepsOf
  <2>12. FreedOf(c) = {}
    BY <2>7 DEF FreedOf, LatePhases
  <2>13. MemoryOK(g, filled, memory, chain, n) /\ RegistryOK(g, filled, memory, chain, registry, n)
         /\ WritesOK(g, memory, writes, chain, n, session)
    BY <1>16 DEF WorkOK
  <2>14. ASSUME NEW t \in Trees, NEW u \in KeepsOf(memory, chain, t) PROVE UnitKept(g, filled, D, t, u) /\ u.id < n
    <3>1. UnitKept(g, filled, {}, t, u) /\ u.id < n /\ u \notin chain.freed
      BY <1>10, <2>13 DEF MemoryOK
    <3>2. u \notin D
      BY <2>8, <3>1 DEF UnitKept, Kept, Kinds
    <3> QED
      BY <3>1, <3>2 DEF UnitKept, Kept
  <2>15. MemoryOK(g, filled, memory, c, n)
    <3>1. ASSUME NEW t \in Trees
          PROVE  /\ \A u \in KeepsOf(memory, c, t) : UnitKept(g, filled, DoomedOf(c), t, u) /\ u.id < n /\ u \notin FreedOf(c)
                 /\ TakenOf(c, t) = TakenOf(chain, t)
      BY <2>11, <2>12, <2>14 DEF D
    <3> QED
      BY <2>13, <3>1 DEF MemoryOK
  <2>16. ASSUME NEW t \in DOMAIN registry
         PROVE  t \in Trees /\ TreeKept(g, filled, D, t, registry[t])
    <3> DEFINE l == registry[t]
    <3>1. t \in Trees /\ TreeKept(g, filled, {}, t, l) /\ g[l.id].object.units \subseteq KeepsOf(memory, chain, t)
      BY <1>10, <2>13 DEF RegistryOK, IndexKept
    <3> HIDE DEF l
    <3>2. Kept(g, filled, D, l, "tree")
      BY <2>9, <3>1 DEF TreeKept, Kept
    <3>3. \A u \in g[l.id].object.units : u.id < l.id /\ UnitKept(g, filled, D, t, u)
      BY <2>14, <3>1 DEF TreeKept
    <3> QED
      BY <3>1, <3>2, <3>3 DEF TreeKept, l
  <2>17. RegistryOK(g, filled, memory, c, registry, n)
    BY <2>11, <2>13, <2>16 DEF RegistryOK, IndexKept, D
  <2>18. WritesOK(g, memory, writes, c, n, session)
    <3>1. ASSUME NEW w \in writes
          PROVE  w.location \notin D /\ \A t \in Trees : w.location \notin KeepsOf(memory, c, t)
      <4>1. /\ w.location \in ObjectId /\ g[w.location.id].object = DataObject(session) /\ w.location.by = session
            /\ w.location \notin chain.freed /\ \A t \in Trees : w.location \notin KeepsOf(memory, chain, t)
        BY <1>10, <2>13 DEF WritesOK
      <4>2. IsObject(g, w.location, "data")
        BY <4>1 DEF IsObject, DataObject
      <4>3. w.location \notin D
        BY <2>8, <4>1, <4>2 DEF Kinds
      <4> QED
        BY <2>11, <4>1, <4>3
    <3> QED
      BY <2>12, <2>13, <3>1 DEF WritesOK, D
  <2>19. MetaOK(g, chain.meta, n)
    <3>1. \A k \in Kinds : IsObject(g, chain.meta[k], k) /\ chain.meta[k].id \in Nat
      BY <1>11 DEF Kept, IsObject, ObjectId
    <3>2. \A k \in Kinds : chain.meta[k].id < n
      BY <1>3, <1>11, <3>1
    <3> QED
      BY <1>11, <3>1, <3>2 DEF MetaOK
  <2>20. DoomedOK(g, c, n)
    <3>1. ASSUME NEW x \in D PROVE x \in ObjectId /\ g[x.id].object.by = x.by /\ x.id < n
      <4>1. CASE x \in chain.freed
        BY <1>10, <2>3, <4>1 DEF DoomedOK
      <4>2. CASE x \in old
        BY <2>4, <4>2 DEF IsObject
      <4> QED
        BY <2>7, <4>1, <4>2
    <3> QED
      BY <2>7, <2>12, <3>1, FS_EmptySet DEF DoomedOK, D
  <2>21. DurableOK(g, filled, D)
    <3>1. \A k \in Kinds : Kept(g, filled, D, chain.meta[k], k)
      BY <1>8, <1>14, <2>10 DEF ManifestKept, Kept
    <3>2. IndexKept(g, filled, D, registry, r.id)
      BY <1>11, <2>16 DEF IndexKept
    <3>3. ManifestKept(g, filled, D, object)
      BY <1>8, <1>12, <1>14, <3>1, <3>2 DEF ManifestKept, r
    <3> QED
      BY <1>9, <3>3 DEF DurableOK
  <2>22. /\ TreesOK(g, filled, memory, c, n, session) /\ MetasOK(g, filled, c, registry, chain.meta, n, session)
         /\ c.at \in {"idle", "trees", "reclaim"} \cup LatePhases
    BY <2>7 DEF TreesOK, MetasOK, LatePhases
  <2>23. WorkOK(g, filled, memory, writes, c, registry, chain.meta, n, session)
    BY <1>16, <2>15, <2>17, <2>18, <2>19, <2>20, <2>21, <2>22 DEF WorkOK, D
  <2>24. backend' \in [next : Nat, meta : {backend'.meta}, born : Nat]
         /\ WorkOK(g, bucket', memory', writes', chain', registry', backend'.meta, backend'.next, session)
    BY <1>7, <2>1, <2>2, <2>23
  <2> QED
    BY <1>1, <1>7, <1>18, <2>24, SessionGoesOn
<1> QED
  BY <1>20, <1>21

LEMMA RemoveOldKeeps ==
  ASSUME NEW g, Usable(g), RemoveOld
  PROVE  Usable(g)'
<1> DEFINE n == backend.next
<1>1. SessionOK(g) /\ mode = "writing" /\ NamedOK(g, bucket, named) /\ chain.at = "reclaim"
  BY DEF RemoveOld, AtPhase, Usable
<1>2. WorkOK(g, bucket, memory, writes, chain, registry, backend.meta, n, session)
  BY <1>1 DEF SessionOK
<1>3. UNCHANGED <<mode, session, backend, registry, memory, writes, named>>
  BY DEF RemoveOld
<1>4. backend' \in [next : Nat, meta : {backend'.meta}, born : Nat]
  BY <1>1, <1>3, AllocatedIs
<1>5. CASE chain.todo = <<>>
  <2>1. chain' = NoChain /\ bucket' = bucket
    BY <1>5 DEF RemoveOld
  <2>2. WorkOK(g, bucket, memory, writes, NoChain, registry, backend.meta, n, session)
    BY <1>1, <1>2, ChainEnds
  <2>3. /\ NamedOK(g, bucket', named')
        /\ WorkOK(g, bucket', memory', writes', chain', registry', backend'.meta, backend'.next, session)
    BY <1>1, <1>3, <2>1, <2>2 DEF n
  <2> QED
    BY <1>1, <1>3, <1>4, <2>3, SessionGoesOn
<1>6. CASE chain.todo # <<>>
  <2> DEFINE x == Head(chain.todo)
             name == Blob(x.id)
             D == DoomedOf(chain)
  <2>1. DoomedOK(g, chain, n) /\ DOMAIN chain = {"at", "todo"} /\ chain.todo \in Seq(ObjectId) /\ n \in Nat /\ n <= n
    BY <1>1, <1>2 DEF WorkOK, DoomedOK
  <2>2. /\ x \in ObjectId /\ 1 \in DOMAIN chain.todo /\ x = chain.todo[1]
        /\ Tail(chain.todo) \in Seq(ObjectId)
        /\ \A k \in DOMAIN Tail(chain.todo) : k + 1 \in DOMAIN chain.todo /\ Tail(chain.todo)[k] = chain.todo[k + 1]
    BY <1>6, <2>1
  <2>3. PICK c : c = [chain EXCEPT !.todo = Tail(@)] /\ chain' = c
    BY <1>6 DEF RemoveOld
  <2>4. c.at = "reclaim" /\ c.todo = Tail(chain.todo) /\ DOMAIN c = {"at", "todo"}
    <3> HIDE DEF x, D
    <3> QED
      BY <1>1, <2>1, <2>3
  <2>5. Name("DEW0", x) = name /\ x.id \in Nat
    BY <2>2, Names DEF ObjectId
  <2>6. bucket' = [y \in DOMAIN bucket \ {name} |-> bucket[y]]
    BY <1>6, <2>5 DEF RemoveOld
  <2> DEFINE E == DoomedOf(c)
  <2>7. /\ x \in D /\ E \subseteq D
        /\ FreedOf(c) = {} /\ FreedOf(chain) = {} /\ \A t : TakenOf(c, t) = {} /\ TakenOf(chain, t) = {}
    <3>1. D = ToSet(chain.todo) /\ E = ToSet(Tail(chain.todo))
      BY <1>1, <2>4 DEF DoomedOf
    <3>2. x \in D /\ E \subseteq D
      BY <2>2, <3>1 DEF ToSet
    <3>3. FreedOf(c) = {} /\ FreedOf(chain) = {} /\ \A t : TakenOf(c, t) = {} /\ TakenOf(chain, t) = {}
      BY <1>1, <2>4 DEF FreedOf, TakenOf, LatePhases
    <3> QED
      BY <3>2, <3>3
  <2> HIDE DEF x, name, D, E, n
  <2>8. Carried(g, bucket, D, g, bucket', E, n)
    <3>1. ASSUME NEW l \in ObjectId, g[l.id].object.by = l.by, Filled(g, bucket, l), l \notin D
          PROVE  Filled(g, bucket', l) /\ l \notin E
      <4>1. x \in ObjectId /\ g[x.id].object.by = x.by /\ l # x
        BY <2>1, <2>7, <3>1 DEF DoomedOK, D
      <4>2. l.id # x.id
        BY <3>1, <4>1 DEF ObjectId
      <4>3. l.id \in Nat /\ x.id \in Nat
        BY <2>5 DEF ObjectId
      <4>4. Blob(l.id) # name
        BY <4>2, <4>3, Names DEF name
      <4> QED
        BY <2>6, <2>7, <3>1, <4>4 DEF Filled
    <3> QED
      BY <2>1, <3>1 DEF Carried
  <2>9. /\ Exists(bucket') <=> Exists(bucket)
        /\ Exists(bucket) => bucket'[Manifest] = bucket[Manifest]
    <3>1. name # Manifest
      BY <2>5, Names DEF name
    <3> QED
      BY <2>6, <3>1 DEF Exists
  <2>10. NamedOK(g, bucket', named)
    <3>1. CASE ~Exists(bucket)
      BY <1>1, <2>9, <3>1 DEF NamedOK
    <3>2. CASE Exists(bucket)
      BY <1>1, <2>6, <2>9, <3>2 DEF NamedOK
    <3> QED
      BY <3>1, <3>2
  <2>11. \A t : KeepsOf(memory, c, t) = KeepsOf(memory, chain, t) /\ TakenOf(c, t) = TakenOf(chain, t)
    BY <2>7 DEF KeepsOf
  <2>12. /\ MemoryOK(g, bucket, memory, chain, n) /\ RegistryOK(g, bucket, memory, chain, registry, n)
         /\ WritesOK(g, memory, writes, chain, n, session)
         /\ DurableOK(g, bucket, D) /\ (Exists(bucket) => bucket[Manifest].next <= n)
    BY <1>2 DEF WorkOK, D
  <2>13. MemoryOK(g, bucket', memory, c, n)
    <3>1. ASSUME NEW t \in Trees
          PROVE  /\ \A u \in KeepsOf(memory, c, t) : UnitKept(g, bucket', E, t, u) /\ u.id < n /\ u \notin FreedOf(c)
                 /\ TakenOf(c, t) = TakenOf(chain, t)
      BY <2>7, <2>8, <2>11, <2>12, KeptCarried DEF MemoryOK, D
    <3> QED
      BY <2>12, <3>1 DEF MemoryOK, E
  <2>14. RegistryOK(g, bucket', memory, c, registry, n)
    <3>1. IndexKept(g, bucket, D, registry, n)
      BY <2>12 DEF RegistryOK, D
    <3>2. IndexKept(g, bucket', E, registry, n)
      BY <2>1, <2>8, <3>1, IndexCarried
    <3> QED
      BY <2>11, <2>12, <3>2 DEF RegistryOK, E
  <2>15. WritesOK(g, memory, writes, c, n, session)
    BY <2>7, <2>11, <2>12 DEF WritesOK, D, E
  <2>16. DurableOK(g, bucket', E)
    <3> SUFFICES ASSUME Exists(bucket') PROVE ManifestKept(g, bucket', E, bucket'[Manifest])
      BY DEF DurableOK
    <3>1. Exists(bucket) /\ bucket'[Manifest] = bucket[Manifest]
      BY <2>9
    <3>2. ManifestKept(g, bucket, D, bucket[Manifest]) /\ bucket[Manifest].next <= n
      BY <2>12, <3>1 DEF DurableOK
    <3>3. ManifestKept(g, bucket', E, bucket[Manifest])
      BY <2>8, <3>2, ManifestCarried
    <3> QED
      BY <3>1, <3>3
  <2>17. DoomedOK(g, c, n)
    <3>1. \A y \in E : y \in ObjectId /\ g[y.id].object.by = y.by /\ y.id < n
      BY <2>1, <2>7 DEF DoomedOK, D
    <3>2. c.todo \in Seq(ObjectId)
      BY <2>2, <2>4
    <3> QED
      BY <2>4, <2>7, <3>1, <3>2, FS_EmptySet DEF DoomedOK, E
  <2>18. /\ TreesOK(g, bucket', memory, c, n, session) /\ MetasOK(g, bucket', c, registry, backend.meta, n, session)
         /\ c.at \in {"idle", "trees", "reclaim"} \cup LatePhases
    BY <2>4 DEF TreesOK, MetasOK, LatePhases
  <2>19. WorkOK(g, bucket', memory, writes, c, registry, backend.meta, n, session)
    BY <1>2, <2>9, <2>12, <2>13, <2>14, <2>15, <2>16, <2>17, <2>18 DEF WorkOK, E
  <2>20. /\ NamedOK(g, bucket', named')
         /\ WorkOK(g, bucket', memory', writes', chain', registry', backend'.meta, backend'.next, session)
    BY <1>3, <2>3, <2>10, <2>19 DEF n
  <2> QED
    BY <1>1, <1>3, <1>4, <2>20, SessionGoesOn
<1> QED
  BY <1>5, <1>6

-----------------------------------------------------------------------------
(***************************************************************************)
(* The copy.                                                               *)
(***************************************************************************)
\* Concatenation, its operators kept closed.
Joined(q, s, t) == q = s \o t
Length(s) == Len(s)
Lists(X) == Seq(X)

LEMMA JoinedLength ==
  ASSUME NEW X, NEW s \in Lists(X), NEW t \in Lists(X), NEW q, Joined(q, s, t)
  PROVE  q \in Lists(X) /\ Length(q) = Length(s) + Length(t)
BY DEF Joined, Length, Lists

LEMMA JoinedLeft ==
  ASSUME NEW X, NEW s \in Lists(X), NEW t \in Lists(X), NEW q, Joined(q, s, t), NEW k \in 1 .. Length(s)
  PROVE  q[k] = s[k]
BY DEF Joined, Length, Lists

LEMMA JoinedRight ==
  ASSUME NEW X, NEW s \in Lists(X), NEW t \in Lists(X), NEW q, Joined(q, s, t), NEW k \in 1 .. Length(t)
  PROVE  q[Length(s) + k] = t[k]
BY DEF Joined, Length, Lists

LEMMA JoinedIs ==
  ASSUME NEW X, NEW s \in Lists(X), NEW t \in Lists(X), NEW q, Joined(q, s, t),
         NEW i \in Nat, NEW j \in Nat, Length(s) = i, Length(t) = j
  PROVE  /\ q \in Lists(X) /\ Length(q) = i + j
         /\ \A k \in 1 .. i : q[k] = s[k]
         /\ \A k \in 1 .. j : q[i + k] = t[k]
BY JoinedLength, JoinedLeft, JoinedRight

LEMMA CopyPlanIs ==
  ASSUME NEW by
  PROVE  \E m, meta, trees : PlanOK(CopyPlan(by), by, m, meta, trees)
<1> DEFINE all == UNION {Source[t] : t \in DOMAIN Source}
           blobs == SetToSeq(all)
           trees == InOrder(DOMAIN Source)
           at(k) == [id |-> k - 1, by |-> by]
           remap(b) == at(CHOOSE k \in DOMAIN blobs : blobs[k] = b)
           treeAt(t) == at(Len(blobs) + (CHOOSE k \in DOMAIN trees : trees[k] = t))
           rest == Len(blobs) + Len(trees)
           s1 == [k \in DOMAIN blobs |-> DataObject(by)]
           s2 == [k \in DOMAIN trees |-> TreeObject({remap(b) : b \in Source[trees[k]]}, by)]
           index == [t \in DOMAIN Source |-> treeAt(t)]
           s3 == <<RegistryObject(index, by)>>
           s4 == [k \in DOMAIN MetaKinds |-> MetaObject(MetaKinds[k], by)]
           objects == s1 \o s2 \o s3 \o s4
           meta == [k \in DOMAIN NoMeta |->
                     IF k = "registry" THEN at(rest + 1)
                     ELSE at(rest + 1 + (CHOOSE i \in DOMAIN MetaKinds : MetaKinds[i] = k))]
           p1 == [k \in DOMAIN objects |-> [name |-> Name("DEW2", at(k)), object |-> objects[k]]]
           p2 == <<[name |-> <<"bands", 0>>, object |-> MetaObject("band", by)],
                   [name |-> Manifest, object |-> ManifestObject("DEW2", Len(objects), meta, by)]>>
<1>1. CopyPlan(by) = p1 \o p2
  BY DEF CopyPlan
<1>2. /\ Len(blobs) \in Nat /\ DOMAIN blobs = 1 .. Len(blobs)
      /\ \A b \in all : \E k \in DOMAIN blobs : blobs[k] = b
  <2>1. IsFiniteSet(all)
    <3> DEFINE D == DOMAIN Source
               F == {Source[t] : t \in D}
               f == [t \in D |-> Source[t]]
    <3>1. IsFiniteSet(D)
      <4>1. D \in SUBSET Trees /\ IsFiniteSet(Trees)
        BY ObjectBackendAssumption
      <4> HIDE DEF D
      <4> QED
        BY <4>1, FS_Subset
    <3>2. \A S \in F : IsFiniteSet(S)
      BY ObjectBackendAssumption
    <3>3. f \in Surjection(D, F)
      BY DEF Surjection
    <3> HIDE DEF f, F, D
    <3>4. IsFiniteSet(F)
      BY <3>1, <3>3, FS_Surjection
    <3>5. IsFiniteSet(UNION F)
      BY <3>2, <3>4, FS_UNION
    <3> QED
      BY <3>5 DEF F, D
  <2> HIDE DEF all
  <2> QED
    BY <2>1, SetToSeqIs
<1>3. /\ Len(trees) \in Nat /\ DOMAIN trees = 1 .. Len(trees)
      /\ \A k \in DOMAIN trees : trees[k] \in DOMAIN Source
      /\ \A t \in DOMAIN Source : \E k \in DOMAIN trees : trees[k] = t
  <2> DEFINE D == DOMAIN Source
  <2>1. D \in SUBSET Trees /\ IsFiniteSet(Trees) /\ Trees \subseteq Nat
    BY ObjectBackendAssumption
  <2> HIDE DEF D
  <2>2. IsFiniteSet(D) /\ D \subseteq Nat
    BY <2>1, FS_Subset
  <2>3. /\ Len(InOrder(D)) \in Nat /\ DOMAIN InOrder(D) = 1 .. Len(InOrder(D))
        /\ \A k \in DOMAIN InOrder(D) : InOrder(D)[k] \in D
        /\ \A t \in D : \E k \in DOMAIN InOrder(D) : InOrder(D)[k] = t
    BY <2>2, InOrderIs
  <2> QED
    BY <2>3 DEF D
<1>4. /\ DOMAIN MetaKinds = 1 .. 3
      /\ MetaKinds[1] = "attributes" /\ MetaKinds[2] = "stats" /\ MetaKinds[3] = "perf"
  BY DEF MetaKinds
<1> DEFINE B == Len(blobs)
           T == Len(trees)
           place(b) == CHOOSE k \in DOMAIN blobs : blobs[k] = b
           seat(t) == CHOOSE k \in DOMAIN trees : trees[k] = t
           part(k) == CHOOSE i \in DOMAIN MetaKinds : MetaKinds[i] = k
<1>5. \A b \in all : place(b) \in 1 .. B
  BY <1>2
<1>6. \A t \in DOMAIN Source : seat(t) \in 1 .. T /\ trees[seat(t)] = t
  BY <1>3
<1>7. \A k \in {"attributes", "stats", "perf"} : part(k) \in 1 .. 3
  BY <1>4
<1>8. \A t \in DOMAIN Source : \A b \in Source[t] : b \in all
  OBVIOUS
<1>9. /\ \A b : remap(b) = at(place(b))
      /\ \A t : treeAt(t) = at(B + seat(t))
  OBVIOUS
<1>10. /\ s1 = [k \in 1 .. B |-> DataObject(by)]
       /\ s2 = [k \in 1 .. T |-> TreeObject({remap(b) : b \in Source[trees[k]]}, by)]
       /\ s4 = [k \in 1 .. 3 |-> MetaObject(MetaKinds[k], by)]
  BY <1>2, <1>3, <1>4
<1>11. B \in Nat /\ T \in Nat
  BY <1>2, <1>3
<1> HIDE DEF place, seat, part, remap, treeAt, all, blobs, trees, B, T
<1> DEFINE X == {s1[k] : k \in 1 .. B} \cup {s2[k] : k \in 1 .. T} \cup {s3[1]} \cup {s4[k] : k \in 1 .. 3}
<1>12. /\ s1 \in Lists(X) /\ Length(s1) = B
       /\ s2 \in Lists(X) /\ Length(s2) = T
       /\ s3 \in Lists(X) /\ Length(s3) = 1 /\ s3[1] = RegistryObject(index, by)
       /\ s4 \in Lists(X) /\ Length(s4) = 3
  <2>1. \A k \in 1 .. B : s1[k] \in X
    OBVIOUS
  <2>2. \A k \in 1 .. T : s2[k] \in X
    OBVIOUS
  <2>3. \A k \in 1 .. 3 : s4[k] \in X
    OBVIOUS
  <2>4. s3[1] \in X
    OBVIOUS
  <2> HIDE DEF X
  <2>5. s1 \in Lists(X) /\ Length(s1) = B
    BY <1>10, <1>11, <2>1 DEF Length, Lists
  <2>6. s2 \in Lists(X) /\ Length(s2) = T
    BY <1>10, <1>11, <2>2 DEF Length, Lists
  <2>7. s4 \in Lists(X) /\ Length(s4) = 3
    BY <1>10, <2>3 DEF Length, Lists
  <2>8. s3 \in Lists(X) /\ Length(s3) = 1 /\ s3[1] = RegistryObject(index, by)
    BY <2>4 DEF Length, Lists
  <2> QED
    BY <2>5, <2>6, <2>7, <2>8
<1>13. /\ \A k \in 1 .. B : s1[k] = DataObject(by)
       /\ \A k \in 1 .. T : s2[k] = TreeObject({remap(b) : b \in Source[trees[k]]}, by)
       /\ \A k \in 1 .. 3 : s4[k] = MetaObject(MetaKinds[k], by)
  BY <1>10
<1> HIDE DEF s1, s2, s3, s4, X
<1> DEFINE m == B + T + 4
<1>14. /\ objects \in Seq(X) /\ Len(objects) = m
       /\ \A k \in 1 .. B : objects[k] = s1[k]
       /\ \A k \in 1 .. T : objects[B + k] = s2[k]
       /\ objects[B + T + 1] = s3[1]
       /\ \A k \in 1 .. 3 : objects[B + T + 1 + k] = s4[k]
  <2>1. PICK q1, q2, q3 : Joined(q1, s1, s2) /\ Joined(q2, q1, s3) /\ Joined(q3, q2, s4) /\ q3 = objects
    BY DEF Joined
  <2> HIDE DEF objects
  <2>2. /\ q1 \in Lists(X) /\ Length(q1) = B + T
        /\ \A k \in 1 .. B : q1[k] = s1[k]
        /\ \A k \in 1 .. T : q1[B + k] = s2[k]
    BY <1>11, <1>12, <2>1, JoinedIs
  <2>3. /\ q2 \in Lists(X) /\ Length(q2) = B + T + 1
        /\ \A k \in 1 .. (B + T) : q2[k] = q1[k]
        /\ \A k \in 1 .. 1 : q2[B + T + k] = s3[k]
    BY <1>11, <1>12, <2>1, <2>2, JoinedIs
  <2>4. /\ q3 \in Lists(X) /\ Length(q3) = B + T + 1 + 3
        /\ \A k \in 1 .. (B + T + 1) : q3[k] = q2[k]
        /\ \A k \in 1 .. 3 : q3[B + T + 1 + k] = s4[k]
    BY <1>11, <1>12, <2>1, <2>3, JoinedIs
  <2>5. \A k \in 1 .. B : k \in 1 .. (B + T) /\ k \in 1 .. (B + T + 1)
    BY <1>11
  <2>6. \A k \in 1 .. T : B + k \in 1 .. (B + T) /\ B + k \in 1 .. (B + T + 1)
    BY <1>11
  <2>7. B + T + 1 \in 1 .. (B + T + 1) /\ B + T + 1 + 3 = m /\ 1 \in 1 .. 1
    BY <1>11
  <2> HIDE DEF m
  <2>8. objects \in Seq(X) /\ Len(objects) = m
    BY <2>1, <2>4, <2>7 DEF Length, Lists
  <2> QED
    BY <2>1, <2>2, <2>3, <2>4, <2>5, <2>6, <2>7, <2>8
<1>15. m \in Nat /\ DOMAIN objects = 1 .. m /\ Len(objects) = m
  <2>1. m \in Nat
    BY <1>11
  <2>2. objects \in Seq(X) /\ Len(objects) = m
    BY <1>14
  <2> HIDE DEF objects, m
  <2> QED
    BY <2>1, <2>2
<1>16. p2 = <<[name |-> <<"bands", 0>>, object |-> MetaObject("band", by)],
              [name |-> Manifest, object |-> ManifestObject("DEW2", m, meta, by)]>>
  BY <1>15
<1> HIDE DEF objects
<1>17. \A k \in 1 .. m : p1[k].name = <<"data", k - 1>> /\ p1[k].object = objects[k]
  <2>1. \A k \in 1 .. m : Name("DEW2", at(k)) = <<"data", k - 1>>
    BY DEF Name
  <2> HIDE DEF m
  <2> QED
    BY <1>15, <2>1
<1> DEFINE Y == {p1[k] : k \in 1 .. m} \cup {p2[1], p2[2]}
           P == p1 \o p2
<1>18. /\ p1 \in Lists(Y) /\ Length(p1) = m /\ p2 \in Lists(Y) /\ Length(p2) = 2
       /\ p2[1].name = <<"bands", 0>>
       /\ p2[2].name = Manifest /\ p2[2].object = ManifestObject("DEW2", m, meta, by)
  <2> HIDE DEF m, meta
  <2>1. p1 = [k \in 1 .. m |-> p1[k]]
    BY <1>15
  <2>2. \A k \in 1 .. m : p1[k] \in Y
    OBVIOUS
  <2>3. p2[1] \in Y /\ p2[2] \in Y
    OBVIOUS
  <2> HIDE DEF Y
  <2>4. /\ p2 \in Lists(Y) /\ Length(p2) = 2
        /\ p2[1].name = <<"bands", 0>>
        /\ p2[2].name = Manifest /\ p2[2].object = ManifestObject("DEW2", m, meta, by)
    BY <1>16, <2>3 DEF Length, Lists
  <2> HIDE DEF p1, p2
  <2>5. p1 \in Lists(Y) /\ Length(p1) = m
    BY <1>15, <2>1, <2>2 DEF Length, Lists
  <2> QED
    BY <2>4, <2>5
<1> HIDE DEF p1, p2, Y
<1>19. /\ Len(P) = m + 2 /\ DOMAIN P = 1 .. (m + 2) /\ P \in Seq(Y)
       /\ \A k \in 1 .. m : P[k] = p1[k]
       /\ P[m + 1] = p2[1] /\ P[m + 2] = p2[2]
  <2>1. Joined(P, p1, p2)
    BY DEF Joined
  <2> HIDE DEF m, P
  <2>2. /\ P \in Lists(Y) /\ Length(P) = m + 2
        /\ \A k \in 1 .. m : P[k] = p1[k]
        /\ \A k \in 1 .. 2 : P[m + k] = p2[k]
    BY <1>15, <1>18, <2>1, JoinedIs
  <2>3. 1 \in 1 .. 2 /\ 2 \in 1 .. 2 /\ m \in Nat
    BY <1>15
  <2>4. Len(P) = m + 2 /\ DOMAIN P = 1 .. (m + 2) /\ P \in Seq(Y)
    BY <2>2, <2>3 DEF Length, Lists
  <2> QED
    BY <2>2, <2>3, <2>4
<1> HIDE DEF P
<1>20. \A k \in 1 .. m : /\ P[k].name = <<"data", k - 1>> /\ P[k].object = objects[k]
                         /\ Within(at(k), by, m) /\ at(k).id + 1 = k
  <2>1. \A k \in 1 .. m : k - 1 \in Nat /\ k - 1 < m /\ k - 1 + 1 = k
    BY <1>15
  <2> HIDE DEF m
  <2> QED
    BY <1>17, <1>19, <2>1 DEF Within
<1>21. \A k \in 1 .. m : k \in 1 .. B \/ (\E j \in 1 .. T : k = B + j) \/ k = B + T + 1 \/ (\E j \in 1 .. 3 : k = B + T + 1 + j)
  <2> SUFFICES ASSUME NEW k \in 1 .. m
               PROVE  k \in 1 .. B \/ (\E j \in 1 .. T : k = B + j) \/ k = B + T + 1 \/ (\E j \in 1 .. 3 : k = B + T + 1 + j)
    OBVIOUS
  <2>1. CASE k <= B
    BY <1>11, <2>1
  <2>2. CASE B < k /\ k <= B + T
    <3>1. k - B \in 1 .. T /\ k = B + (k - B)
      BY <1>11, <2>2
    <3> QED
      BY <3>1
  <2>3. CASE k = B + T + 1
    BY <2>3
  <2>4. CASE B + T + 1 < k
    <3>1. k - (B + T + 1) \in 1 .. 3 /\ k = B + T + 1 + (k - (B + T + 1))
      BY <1>11, <2>4
    <3> QED
      BY <3>1
  <2> QED
    BY <1>11, <2>1, <2>2, <2>3, <2>4
<1>22. \A k \in 1 .. m : objects[k].by = by
  <2>1. /\ \A k \in 1 .. B : s1[k].by = by
        /\ \A k \in 1 .. T : s2[k].by = by
        /\ s3[1].by = by
        /\ \A k \in 1 .. 3 : s4[k].by = by
    <3>1. \A U, kind, trs : /\ DataObject(by).by = by /\ TreeObject(U, by).by = by
                             /\ RegistryObject(trs, by).by = by /\ MetaObject(kind, by).by = by
      BY DEF DataObject, TreeObject, RegistryObject, MetaObject
    <3> HIDE DEF at, index, meta
    <3>2. \A k \in 1 .. B : s1[k].by = by
      BY <1>13, <3>1
    <3>3. \A k \in 1 .. T : s2[k].by = by
      BY <1>13, <3>1
    <3>4. s3[1].by = by
      BY <1>12, <3>1
    <3>5. \A k \in 1 .. 3 : s4[k].by = by
      BY <1>13, <3>1
    <3> QED
      BY <3>2, <3>3, <3>4, <3>5
  <2> HIDE DEF m
  <2> QED
    BY <1>14, <1>21, <2>1
<1>23. /\ \A k \in 1 .. B : k \in 1 .. m
       /\ \A k \in 1 .. T : B + k \in 1 .. m
       /\ B + T + 1 \in 1 .. m /\ \A k \in 1 .. 3 : B + T + 1 + k \in 1 .. m
  BY <1>11
<1> HIDE DEF m, at
<1>24. ASSUME NEW k \in Kinds PROVE Within(meta[k], by, m)
  <2>1. k \in DOMAIN NoMeta /\ (k = "registry" \/ k \in {"attributes", "stats", "perf"})
    BY KindsAre DEF Kinds
  <2>2. meta[k] = IF k = "registry" THEN at(rest + 1) ELSE at(rest + 1 + part(k))
    BY <2>1 DEF part
  <2>3. rest = B + T
    BY DEF B, T
  <2> HIDE DEF meta, rest
  <2>4. CASE k = "registry"
    BY <1>20, <1>23, <2>2, <2>3, <2>4
  <2>5. CASE k \in {"attributes", "stats", "perf"}
    <3>1. part(k) \in 1 .. 3 /\ k # "registry"
      BY <1>7, <2>5
    <3>2. B + T + 1 + part(k) \in 1 .. m
      BY <1>23, <3>1
    <3> QED
      BY <1>20, <2>2, <2>3, <3>1, <3>2
  <2> QED
    BY <2>1, <2>4, <2>5
<1>25. P[meta["registry"].id + 1].object = RegistryObject(index, by)
  <2>1. "registry" \in DOMAIN NoMeta
    BY DEF NoMeta
  <2>2. meta["registry"] = at(rest + 1)
    BY <2>1
  <2>3. rest = B + T
    BY DEF B, T
  <2> HIDE DEF meta, rest, index
  <2>4. B + T + 1 \in 1 .. m
    BY <1>23
  <2>5. at(B + T + 1).id + 1 = B + T + 1 /\ P[B + T + 1].object = objects[B + T + 1]
    BY <1>20, <2>4
  <2> QED
    BY <1>12, <1>14, <2>2, <2>3, <2>5
<1>26. ASSUME NEW t \in DOMAIN index
       PROVE  /\ Within(index[t], by, m) /\ P[index[t].id + 1].object.kind = "tree"
              /\ \A u \in P[index[t].id + 1].object.units : Within(u, by, m)
  <2>1. t \in DOMAIN Source /\ index[t] = at(B + seat(t))
    BY <1>9
  <2> HIDE DEF index
  <2>2. seat(t) \in 1 .. T /\ trees[seat(t)] = t
    BY <1>6, <2>1
  <2>3. B + seat(t) \in 1 .. m
    BY <1>23, <2>2
  <2>4. Within(index[t], by, m) /\ P[index[t].id + 1].object = objects[B + seat(t)]
    BY <1>20, <2>1, <2>3
  <2>5. objects[B + seat(t)] = TreeObject({remap(b) : b \in Source[t]}, by)
    BY <1>13, <1>14, <2>2
  <2>6. ASSUME NEW b \in Source[t] PROVE Within(remap(b), by, m)
    <3>1. place(b) \in 1 .. B
      BY <1>5, <1>8, <2>1
    <3>2. place(b) \in 1 .. m
      BY <1>23, <3>1
    <3> QED
      BY <1>9, <1>20, <3>2
  <2> QED
    BY <2>4, <2>5, <2>6 DEF TreeObject
<1>27. CopyPlan(by) = P
  BY <1>1 DEF P, p1, p2, objects, s1, s2, s3, s4, remap, treeAt, all, blobs, trees, at
<1> HIDE DEF meta, index
<1>28. PlanOK(P, by, m, meta, index)
  <2>1. \A j \in 1 .. m : P[j].name = <<"data", j - 1>> /\ P[j].object.by = by
    BY <1>20, <1>22
  <2>2. P[m + 1].name = <<"bands", 0>> /\ P[m + 2].name = Manifest /\ P[m + 2].object = ManifestObject("DEW2", m, meta, by)
    BY <1>18, <1>19
  <2> QED
    BY <1>15, <1>19, <1>24, <1>25, <1>26, <2>1, <2>2 DEF PlanOK
<1> QED
  BY <1>27, <1>28

\* What a reader finds behind the manifest of a copy.
LEMMA CopyLands ==
  ASSUME NEW b, NEW P, NEW by, NEW m, NEW meta, NEW trees, PlanOK(P, by, m, meta, trees),
         \A j \in 1 .. m : P[j].name \in DOMAIN b /\ b[P[j].name] = P[j].object,
         Manifest \in DOMAIN b, b[Manifest] = P[m + 2].object
  PROVE  Exists(b) /\ Layout(b) = "DEW2" /\ Intact(b)
<1> DEFINE N(l) == <<"data", l.id>>
<1>1. /\ Exists(b) /\ Layout(b) = "DEW2" /\ b[Manifest].meta = meta
      /\ \A l : Name(Layout(b), l) = N(l)
  <2>1. b[Manifest] = ManifestObject("DEW2", m, meta, by)
    BY DEF PlanOK
  <2>2. Layout(b) = "DEW2" /\ b[Manifest].meta = meta
    BY <2>1 DEF Layout, ManifestObject
  <2> QED
    BY <2>2 DEF Exists, Name
<1>2. ASSUME NEW l, Within(l, by, m)
      PROVE  N(l) \in DOMAIN b /\ b[N(l)] = P[l.id + 1].object /\ b[N(l)].by = l.by
  <2>1. PICK j : j = l.id + 1
    OBVIOUS
  <2>2. j \in 1 .. m /\ j - 1 = l.id /\ l.by = by
    <3>1. m \in Nat
      BY DEF PlanOK
    <3>2. l.id \in Nat /\ l.id < m /\ l.by = by
      BY <1>2 DEF Within
    <3> QED
      BY <2>1, <3>1, <3>2
  <2>3. P[j].name = <<"data", j - 1>> /\ P[j].object.by = by
    BY <2>2 DEF PlanOK
  <2>4. P[j].name \in DOMAIN b /\ b[P[j].name] = P[j].object
    BY <2>2
  <2> QED
    BY <2>1, <2>2, <2>3, <2>4
<1> HIDE DEF N
<1> DEFINE r == meta["registry"]
<1>3. LocationsOf(b) = trees
  <2>1. Within(r, by, m) /\ P[r.id + 1].object = RegistryObject(trees, by)
    BY DEF PlanOK, Kinds
  <2> HIDE DEF r
  <2>2. N(r) \in DOMAIN b /\ b[N(r)] = RegistryObject(trees, by)
    BY <1>2, <2>1
  <2>3. RegistryName(b) = N(r)
    BY <1>1 DEF RegistryName, r
  <2>4. HoldsKind(b, RegistryName(b), "registry") /\ b[RegistryName(b)].trees = trees
    BY <2>2, <2>3 DEF HoldsKind, RegistryObject
  <2> QED
    BY <2>4 DEF LocationsOf
<1> DEFINE T == {LocationsOf(b)[t] : t \in DOMAIN LocationsOf(b)}
           A == {b[Manifest].meta[k] : k \in DOMAIN NoMeta} \cup T \cup UNION {UnitsOf(b, l) : l \in T}
<1>4. ASSUME NEW l \in T
      PROVE  Within(l, by, m) /\ \A u \in UnitsOf(b, l) : Within(u, by, m)
  <2>1. PICK t \in DOMAIN trees : l = trees[t]
    BY <1>3
  <2>2. Within(l, by, m) /\ \A u \in P[l.id + 1].object.units : Within(u, by, m)
    BY <2>1 DEF PlanOK
  <2>3. Name(Layout(b), l) = N(l) /\ b[N(l)] = P[l.id + 1].object
    BY <1>1, <1>2, <2>2
  <2> QED
    BY <2>2, <2>3 DEF UnitsOf
<1>5. \A l \in A : Within(l, by, m)
  <2>1. \A k \in DOMAIN NoMeta : Within(b[Manifest].meta[k], by, m)
    BY <1>1, KindsAre DEF PlanOK
  <2> HIDE DEF T
  <2> QED
    BY <1>4, <2>1
<1>6. Reachable(b) = {[name |-> Name(Layout(b), l), by |-> l.by] : l \in A \ {NoLocation}}
  BY <1>1 DEF Reachable
<1> HIDE DEF A
<1>7. ASSUME NEW o \in Reachable(b) PROVE o.name \in DOMAIN b /\ b[o.name].by = o.by
  <2>1. PICK l \in A : o = [name |-> Name(Layout(b), l), by |-> l.by]
    BY <1>6
  <2>2. o.name = N(l) /\ o.by = l.by
    BY <1>1, <2>1
  <2> QED
    BY <1>2, <1>5, <2>2
<1> QED
  BY <1>1, <1>7 DEF Intact

LEMMA CopyStartKeeps ==
  ASSUME NEW g, Usable(g), CopyStart
  PROVE  Usable(g)'
<1>1. /\ mode = "closed" /\ session' = session + 1 /\ mode' = "copying"
      /\ UNCHANGED <<bucket, writes, named>>
  BY DEF CopyStart
<1>2. PICK P : P = CopyPlan(session + 1) /\ chain' = [at |-> "copy", todo |-> P]
  BY DEF CopyStart
<1>3. PICK m, meta, trees : PlanOK(P, session + 1, m, meta, trees)
  BY <1>2, CopyPlanIs
<1>4. DOMAIN chain' = {"at", "todo"} /\ chain'.at = "copy" /\ chain'.todo = P
  BY <1>2
<1>5. CopyGoes(P, 0, m, meta, trees)'
  <2>1. /\ m \in Nat /\ (\E X : P \in Seq(X)) /\ Len(P) = m + 2
        /\ m + 2 - 0 = m + 2 /\ 0 < m + 2 /\ 1 .. 0 = {}
    BY <1>3 DEF PlanOK
  <2>2. \A j \in 1 .. (m + 2 - 0) : P[j] = P[0 + j]
    OBVIOUS
  <2> QED
    BY <1>1, <1>3, <1>4, <2>1, <2>2 DEF CopyGoes
<1>6. CopyOK'
  BY <1>1, <1>5 DEF CopyOK, Usable
<1> QED
  BY <1>1, <1>6 DEF Usable

\* A PUT of another name than those a session of this layout reads.
LEMMA OtherPut ==
  ASSUME NEW g, NEW name, NEW object, name # Manifest, \A i \in Nat : name # Blob(i),
         bucket' \in {bucket, Stored(name, object)}
  PROVE  /\ NamedOK(g, bucket, named) => NamedOK(g, bucket', named)
         /\ DurableOK(g, bucket, {}) => DurableOK(g, bucket', {})
<1> DEFINE filled == Stored(name, object)
<1>1. /\ DOMAIN filled = DOMAIN bucket \cup {name}
      /\ \A y \in DOMAIN bucket : y # name => filled[y] = bucket[y]
  BY DEF Stored
<1>2. bucket' = bucket \/ bucket' = filled
  OBVIOUS
<1> HIDE DEF filled
<1>3. (Exists(bucket') <=> Exists(bucket)) /\ (Exists(bucket) => bucket'[Manifest] = bucket[Manifest])
  BY <1>1, <1>2 DEF Exists
<1>4. \A i \in Nat : (Blob(i) \in DOMAIN bucket' <=> Blob(i) \in DOMAIN bucket)
                     /\ (Blob(i) \in DOMAIN bucket => bucket'[Blob(i)] = bucket[Blob(i)])
  BY <1>1, <1>2
<1>5. ASSUME NamedOK(g, bucket, named) PROVE NamedOK(g, bucket', named)
  <2>1. CASE ~Exists(bucket)
    BY <1>3, <1>5, <2>1 DEF NamedOK
  <2>2. CASE Exists(bucket)
    BY <1>3, <1>4, <1>5, <2>2 DEF NamedOK
  <2> QED
    BY <2>1, <2>2
<1>6. ASSUME DurableOK(g, bucket, {}), Exists(bucket') PROVE ManifestKept(g, bucket', {}, bucket'[Manifest])
  <2> DEFINE n == bucket[Manifest].next
  <2>1. ManifestKept(g, bucket, {}, bucket[Manifest]) /\ n \in Nat /\ n <= n
    BY <1>3, <1>6 DEF DurableOK, ManifestKept
  <2> HIDE DEF n
  <2>2. Carried(g, bucket, {}, g, bucket', {}, n)
    BY <1>4, <2>1 DEF Carried, Filled, ObjectId
  <2>3. ManifestKept(g, bucket', {}, bucket[Manifest])
    BY <2>1, <2>2, ManifestCarried DEF n
  <2> QED
    BY <1>3, <1>6, <2>3
<1> QED
  BY <1>5, <1>6 DEF DurableOK

LEMMA CopyPutKeeps ==
  ASSUME NEW g, Usable(g), CopyPut
  PROVE  Copied' \/ Usable(g)'
<1>1. /\ mode = "copying" /\ session \in Nat /\ writes = {} /\ CopyOK
      /\ NamedOK(g, bucket, named) /\ DurableOK(g, bucket, {})
      /\ UNCHANGED <<session, writes>>
  BY DEF CopyPut, Usable
<1>2. PICK P, k, m, meta, trees : CopyGoes(P, k, m, meta, trees)
  BY <1>1 DEF CopyOK
<1>3. /\ PlanOK(P, session, m, meta, trees) /\ k \in Nat /\ m \in Nat /\ k < m + 2
      /\ DOMAIN chain = {"at", "todo"} /\ chain.at = "copy"
      /\ \A j \in 1 .. (m + 2 - k) : chain.todo[j] = P[k + j]
      /\ \A j \in 1 .. k : P[j].name \in DOMAIN bucket /\ bucket[P[j].name] = P[j].object
  BY <1>2 DEF CopyGoes, PlanOK
<1>4. PICK X : chain.todo \in Seq(X) /\ Len(chain.todo) = m + 2 - k
  BY <1>2 DEF CopyGoes
<1> DEFINE rest == Tail(chain.todo)
<1>5. PICK i, name, object : i = k + 1 /\ name = P[i].name /\ object = P[i].object
  OBVIOUS
<1>6. /\ Head(chain.todo).name = name /\ Head(chain.todo).object = object
      /\ rest \in Seq(X) /\ Len(rest) = m + 1 - k
      /\ \A j \in 1 .. (m + 1 - k) : rest[j] = P[i + j]
  <2>1. Head(chain.todo) = chain.todo[1] /\ chain.todo[1] = P[i]
    BY <1>3, <1>4, <1>5
  <2>2. rest \in Seq(X) /\ Len(rest) = m + 1 - k
    BY <1>3, <1>4
  <2>3. ASSUME NEW j \in 1 .. (m + 1 - k) PROVE rest[j] = P[i + j]
    <3>1. rest[j] = chain.todo[j + 1]
      BY <1>3, <1>4
    <3>2. j + 1 \in 1 .. (m + 2 - k) /\ k + (j + 1) = i + j
      BY <1>3, <1>5
    <3> QED
      BY <1>3, <3>1, <3>2
  <2> QED
    BY <1>5, <2>1, <2>2, <2>3
<1>7. i \in 1 .. (m + 2)
  BY <1>3, <1>5
<1>8. PICK ok \in BOOLEAN :
        LET todo == IF ok THEN rest ELSE <<>>
        IN  /\ Put(name, object, "copy", ok)
            /\ IF todo = <<>> THEN mode' = "closed" /\ chain' = NoChain
                              ELSE mode' = mode /\ chain' = [chain EXCEPT !.todo = todo]
  BY <1>6 DEF CopyPut
<1>9. named' = IF name = Manifest /\ Exists(bucket') THEN named \cup Reachable(bucket') ELSE named
  BY <1>6 DEF CopyPut
<1> DEFINE filled == Stored(name, object)
<1>10. bucket' = filled \/ (~ok /\ bucket' = bucket)
  BY <1>8 DEF Put
<1>11. /\ DOMAIN filled = DOMAIN bucket \cup {name} /\ filled[name] = object
       /\ \A y \in DOMAIN bucket : y # name => filled[y] = bucket[y]
  BY DEF Stored
<1>12. \A j \in 1 .. m : P[j].name = <<"data", j - 1>> /\ P[j].name # Manifest
  BY <1>3 DEF PlanOK, Manifest
<1>13. P[m + 1].name = <<"bands", 0>> /\ P[m + 1].name # Manifest /\ P[m + 2].name = Manifest
  BY <1>3 DEF PlanOK, Manifest
\* An object before the manifest.
<1>14. CASE i < m + 2
  <2>1. name # Manifest /\ \A j \in Nat : name # Blob(j)
    <3>1. i \in 1 .. m \/ i = m + 1
      BY <1>3, <1>7, <1>14
    <3>2. CASE i \in 1 .. m
      BY <1>5, <1>12, <3>2 DEF Blob
    <3>3. CASE i = m + 1
      BY <1>5, <1>13, <3>3 DEF Blob
    <3> QED
      BY <3>1, <3>2, <3>3
  <2>2. NamedOK(g, bucket', named') /\ DurableOK(g, bucket', {})
    BY <1>1, <1>9, <1>10, <2>1, OtherPut
  <2>3. CASE mode' = "closed"
    <3>1. chain' = NoChain
      BY <1>1, <1>8, <2>3
    <3> QED
      BY <1>1, <2>2, <2>3, <3>1 DEF Usable
  <2>4. CASE mode' # "closed"
    <3>1. ok /\ mode' = "copying" /\ bucket' = filled /\ chain' = [chain EXCEPT !.todo = rest]
      BY <1>1, <1>8, <1>10, <2>4
    <3>2. DOMAIN chain' = {"at", "todo"} /\ chain'.at = "copy" /\ chain'.todo = rest
      <4> HIDE DEF rest, filled
      <4> QED
        BY <1>3, <3>1
    <3>3. ASSUME NEW j \in 1 .. i PROVE P[j].name \in DOMAIN filled /\ filled[P[j].name] = P[j].object
      <4>1. CASE j = i
        BY <1>5, <1>11, <4>1
      <4>2. CASE j # i
        <5>1. j \in 1 .. k /\ j \in 1 .. m
          BY <1>3, <1>5, <1>14, <4>2
        <5>2. P[j].name # name
          <6>1. i \in 1 .. m \/ i = m + 1
            BY <1>3, <1>7, <1>14
          <6>2. CASE i \in 1 .. m
            <7>1. P[j].name = <<"data", j - 1>> /\ name = <<"data", i - 1>>
              BY <1>5, <1>12, <5>1, <6>2
            <7>2. j - 1 # i - 1
              BY <1>3, <4>2, <5>1, <6>2
            <7> QED
              BY <7>1, <7>2
          <6>3. CASE i = m + 1
            BY <1>5, <1>12, <1>13, <5>1, <6>3
          <6> QED
            BY <6>1, <6>2, <6>3
        <5> QED
          BY <1>3, <1>11, <5>1, <5>2
      <4> QED
        BY <4>1, <4>2
    <3>4. /\ i \in Nat /\ i < m + 2 /\ m + 2 - i = m + 1 - k
      BY <1>3, <1>5, <1>14
    <3>5. CopyGoes(P, i, m, meta, trees)'
      <4> HIDE DEF rest, filled
      <4> QED
        BY <1>1, <1>3, <1>6, <3>1, <3>2, <3>3, <3>4 DEF CopyGoes
    <3>6. CopyOK'
      BY <1>1, <3>5 DEF CopyOK
    <3> QED
      BY <1>1, <2>2, <3>1, <3>6 DEF Usable
  <2> QED
    BY <2>3, <2>4
\* The manifest.
<1>15. CASE i = m + 2
  <2>1. rest = <<>> /\ name = Manifest
    BY <1>3, <1>5, <1>6, <1>13, <1>15
  <2>2. mode' = "closed" /\ chain' = NoChain
    BY <1>8, <2>1
  <2>3. CASE bucket' = bucket
    <3>1. NamedOK(g, bucket, IF Exists(bucket) THEN named \cup Reachable(bucket) ELSE named)
      BY <1>1, NamedMore
    <3>2. named' = IF Exists(bucket) THEN named \cup Reachable(bucket) ELSE named
      BY <1>9, <2>1, <2>3
    <3> QED
      BY <1>1, <2>2, <2>3, <3>1, <3>2 DEF Usable
  <2>4. CASE bucket' = filled
    <3>1. ASSUME NEW j \in 1 .. m PROVE P[j].name \in DOMAIN filled /\ filled[P[j].name] = P[j].object
      <4>1. j \in 1 .. k
        BY <1>3, <1>5, <1>15
      <4> QED
        BY <1>3, <1>11, <1>12, <2>1, <4>1
    <3>2. Manifest \in DOMAIN filled /\ filled[Manifest] = P[m + 2].object
      BY <1>5, <1>11, <1>15, <2>1
    <3> HIDE DEF filled
    <3>3. Exists(filled) /\ Layout(filled) = "DEW2" /\ Intact(filled)
      BY <1>3, <3>1, <3>2, CopyLands
    <3>4. named' = named \cup Reachable(filled)
      BY <1>9, <2>1, <2>4, <3>3
    <3>5. ASSUME NEW o \in named', o.name \in DOMAIN filled PROVE filled[o.name].by = o.by
      <4>1. CASE o \in Reachable(filled)
        BY <3>3, <4>1 DEF Intact
      <4>2. CASE o \in named
        <5>1. /\ o.name # Manifest
              /\ o.name \in DOMAIN bucket => bucket[o.name].by = o.by
          BY <1>1, <4>2, Names DEF NamedOK
        <5> QED
          BY <1>11, <2>1, <3>5, <5>1
      <4> QED
        BY <3>4, <4>1, <4>2
    <3>6. BucketSound'
      BY <2>4, <3>3, <3>5 DEF BucketSound, DatasetIntact, StaleReadsFail
    <3> QED
      BY <2>2, <2>4, <3>3, <3>6 DEF Copied
  <2> QED
    BY <1>10, <2>3, <2>4
<1> QED
  BY <1>3, <1>7, <1>14, <1>15

\* A copy is the last there is, in that bucket.
LEMMA CopiedStays ==
  ASSUME Steady, Copied, [ObjectsNext]_objectVars
  PROVE  Copied'
<1>1. mode = "closed" /\ Exists(bucket) /\ Layout(bucket) = "DEW2"
  BY DEF Copied
<1>2. CASE UNCHANGED objectVars
  BY <1>2 DEF Copied, objectVars, BucketSound, DatasetIntact, StaleReadsFail
<1>3. CASE ObjectsNext
  <2>1. ~Create
    BY <1>1 DEF Create, Steady
  <2>2. ~OpenExisting
    BY <1>1 DEF OpenExisting
  <2>3. ~CopyStart
    BY <1>1 DEF CopyStart, Steady
  <2>4. ~SessionCrash /\ ~CopyPut
    BY <1>1 DEF SessionCrash, CopyPut
  <2>5. /\ \A t \in Trees : ~StartWrite(t)
        /\ \A w \in writes : ~FinishWrite(w)
        /\ ~StartChain
    BY <1>1 DEF StartWrite, FinishWrite, StartChain, AtPhase
  <2>6. ~WriteTree /\ ~TreesFailed /\ ~TreesWritten /\ ~WriteRegistry
    BY <1>1 DEF WriteTree, TreesFailed, TreesWritten, WriteRegistry, AtPhase
  <2>7. ~WriteMeta /\ ~WriteManifest /\ ~RemoveOld
    BY <1>1 DEF WriteMeta, WriteManifest, RemoveOld, AtPhase
  <2> QED
    BY <1>3, <2>1, <2>2, <2>3, <2>4, <2>5, <2>6, <2>7 DEF ObjectsNext
<1> QED
  BY <1>2, <1>3

LEMMA BucketStep ==
  ASSUME Steady, BucketInv, [ObjectsNext]_objectVars
  PROVE  BucketInv'
<1>1. CASE Copied
  BY <1>1, CopiedStays DEF BucketInv
<1>2. CASE \E g : Usable(g)
  <2>1. PICK g : Usable(g)
    BY <1>2
  <2>2. CASE UNCHANGED objectVars
    <3>1. Usable(g)'
      BY <2>1, <2>2 DEF objectVars, Usable, SessionOK, CopyOK, CopyGoes
    <3> QED
      BY <3>1 DEF BucketInv
  <2>3. CASE ObjectsNext
    <3>1. CASE Create
      BY <2>1, <3>1, CreateKeeps DEF BucketInv
    <3>2. CASE OpenExisting
      BY <2>1, <3>2, OpenKeeps DEF BucketInv
    <3>3. CASE SessionCrash
      BY <2>1, <3>3, SessionCrashKeeps DEF BucketInv
    <3>4. CASE \E t \in Trees : StartWrite(t)
      BY <2>1, <3>4, StartWriteKeeps DEF BucketInv
    <3>5. CASE \E w \in writes : FinishWrite(w)
      BY <2>1, <3>5, FinishWriteKeeps DEF BucketInv
    <3>6. CASE StartChain
      BY <2>1, <3>6, StartChainKeeps DEF BucketInv
    <3>7. CASE WriteTree
      BY <2>1, <3>7, WriteTreeKeeps DEF BucketInv
    <3>8. CASE TreesFailed
      BY <2>1, <3>8, TreesFailedKeeps DEF BucketInv
    <3>9. CASE TreesWritten
      BY <2>1, <3>9, TreesWrittenKeeps DEF BucketInv
    <3>10. CASE WriteRegistry
      BY <2>1, <3>10, WriteRegistryKeeps DEF BucketInv
    <3>11. CASE WriteMeta
      BY <2>1, <3>11, WriteMetaKeeps DEF BucketInv
    <3>12. CASE WriteManifest
      BY <2>1, <3>12, WriteManifestKeeps DEF BucketInv
    <3>13. CASE RemoveOld
      BY <2>1, <3>13, RemoveOldKeeps DEF BucketInv
    <3>14. CASE CopyStart
      BY <2>1, <3>14, CopyStartKeeps DEF BucketInv
    <3>15. CASE CopyPut
      BY <2>1, <3>15, CopyPutKeeps DEF BucketInv
    <3> QED
      BY <2>3, <3>1, <3>2, <3>3, <3>4, <3>5, <3>6, <3>7, <3>8, <3>9, <3>10, <3>11, <3>12, <3>13, <3>14, <3>15
      DEF ObjectsNext
  <2> QED
    BY <2>2, <2>3
<1> QED
  BY <1>1, <1>2 DEF BucketInv

\* Whatever fails of the trees, the metadata, the manifest and a copy, applied or not, and wherever
\* the program stops: what the manifest leads to is there and is what each location was given for
\* (object_backend_t::write_index, do_copy_dew2), and a reader of an earlier manifest finds under
\* the names it has what they named, or nothing, though ids are handed out again.  Of any number of
\* trees, blobs, checkpoints, sessions and failures, where no PUT of data or of the registry fails
\* (the chain does not look at their errors), and no session or copy begins over what is there anew.
THEOREM BucketStaysSound ==
  ASSUME Steady
  PROVE  ObjectsSpec => []BucketSound
<1>1. ObjectsInit => BucketInv
  BY InitBucket
<1>2. BucketInv /\ [ObjectsNext]_objectVars => BucketInv'
  BY BucketStep
<1>3. BucketInv => BucketSound
  BY UsableSound DEF BucketInv, Copied
<1> QED
  BY <1>1, <1>2, <1>3, PTL DEF ObjectsSpec

=============================================================================
