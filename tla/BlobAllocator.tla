--------------------------- MODULE BlobAllocator ---------------------------
(***************************************************************************)
(* The free-list allocator of the cache file (free_blob_manager_t) and the *)
(* use write_index makes of it: metadata is registered on the live         *)
(* manager, the free list that goes to disk is serialized from a copy in   *)
(* which the superseded ranges are free, and these return to the live      *)
(* manager only once the superblock has landed.                            *)
(*                                                                         *)
(* A manager is a record: next, the end of the file, and pages, the map    *)
(* from page numbers to free sections.  That map is a dense hash map: it   *)
(* is walked in insertion order and an erased entry is replaced by the     *)
(* last one, so it is a sequence here.  Sections never span pages.         *)
(***************************************************************************)
EXTENDS Integers, SequencesExt

CONSTANTS
  PageSize,     \* FREE_BLOB_MANAGER_PAGE_SIZE
  Sizes,        \* sizes requested
  MaxFile,      \* bound on the file size
  MaxBlobs,     \* bound on the blobs allocated at a time
  MaxCheckpoints

ASSUME BlobAllocatorAssumption ==
  /\ PageSize \in Nat \ {0} /\ Sizes \subseteq Nat \ {0}
  /\ MaxFile \in Nat /\ MaxBlobs \in Nat /\ MaxCheckpoints \in Nat

VARIABLES
  mgr,          \* the live _blob_manager
  live,         \* ghost: the ranges handed out and not returned
  metas,        \* metadata ranges of the last checkpoint, freed by the next
  ck,           \* write_index between its allocator block and its outcome
  disk,         \* what the committed superblock leads to
  checkpoints

vars == <<mgr, live, metas, ck, disk, checkpoints>>

EmptyManager == [next |-> 0, pages |-> <<>>]

Section(at, size) == [at |-> at, size |-> size]
End(r) == r.at + r.size
Bytes(r) == r.at .. End(r) - 1
AllBytes(ranges) == UNION {Bytes(r) : r \in ranges}
PageStart(page) == page * PageSize

FreeSections(m) == UNION {ToSet(m.pages[i].sections) : i \in DOMAIN m.pages}
FreeBytes(m) == AllBytes(FreeSections(m))

\* erase of a dense map: the last entry moves into the hole.
EraseAt(s, i) == IF i = Len(s) THEN Front(s) ELSE [Front(s) EXCEPT ![i] = Last(s)]
IndexOf(pages, page) == CHOOSE i \in DOMAIN pages : pages[i].page = page
HasPage(pages, page) == \E i \in DOMAIN pages : pages[i].page = page

\* Replace the sections of page i; a page without sections leaves the map.
WithSections(pages, i, sections) ==
  IF sections = <<>> THEN EraseAt(pages, i) ELSE [pages EXCEPT ![i].sections = sections]
-----------------------------------------------------------------------------
(***************************************************************************)
(* register_blob, first part: walk the pages in map order for the first    *)
(* section that is large enough together with the free tail of the page    *)
(* before it (spill).  Result: [page index, section index, spill] or none. *)
(***************************************************************************)
NoHit == [page |-> 0, section |-> 0, spill |-> 0]

Look(m, size) ==
  LET step(acc, i) ==
        LET p        == m.pages[i]
            start    == PageStart(p.page)
            adjacent == acc.page + 1 = p.page /\ p.sections[1].at = start
            spill    == IF adjacent THEN acc.spill ELSE 0
            fits     == {k \in DOMAIN p.sections : p.sections[k].size + spill >= size}
            back     == Last(p.sections)
        IN  IF acc.hit # NoHit THEN acc
            ELSE IF fits # {}
            THEN [acc EXCEPT !.hit = [page |-> i, spill |-> spill,
                    section |-> CHOOSE k \in fits : \A j \in fits : k <= j]]
            ELSE IF End(back) = start + PageSize
            THEN [acc EXCEPT !.spill = spill + back.size, !.page = p.page]
            ELSE [acc EXCEPT !.spill = 0]
  IN  FoldLeft(step, [spill |-> 0, page |-> 0, hit |-> NoHit], [i \in DOMAIN m.pages |-> i]).hit

\* Mutant: the tail of the preceding pages stays in the free list.
MutConsumeTail(pages, from, spill) == pages

(***************************************************************************)
(* The walk back over the pages before page number from: whole trailing    *)
(* sections leave the free list until spill bytes are accounted for.       *)
(***************************************************************************)
ConsumeTail(pages, from, spill) ==
  LET step(acc, page) ==
        LET i    == IndexOf(acc.pages, page)
            back == Last(acc.pages[i].sections)
        IN  IF acc.left = 0 \/ acc.stop THEN acc
            ELSE IF ~HasPage(acc.pages, page) \/ back.size > acc.left
            THEN [acc EXCEPT !.stop = TRUE]
            ELSE [acc EXCEPT !.left = @ - back.size,
                             !.pages = WithSections(@, i, Front(@[i].sections))]
  IN  FoldLeft(step, [pages |-> pages, left |-> spill, stop |-> FALSE],
               [j \in 1 .. from |-> from - j]).pages

(***************************************************************************)
(* register_blob.  The number of the hit page is read through a reference  *)
(* into the map after the page may have been erased: if it was, the entry  *)
(* there is now the one that was last (or, for the last, its dead self).   *)
(***************************************************************************)
\* Mutant: hands out the start of the page, not of the section.
MutGranted(p, s, spill) == PageStart(p.page) - spill

Granted(p, s, spill) == s.at - spill

Register(m, size) ==
  LET hit  == Look(m, size)
      p    == m.pages[hit.page]
      s    == p.sections[hit.section]
      need == size - hit.spill
      kept == IF s.size = need
              THEN RemoveAt(p.sections, hit.section)
              ELSE [p.sections EXCEPT ![hit.section] = Section(s.at + need, s.size - need)]
      walk == IF kept = <<>> THEN Last(m.pages).page ELSE p.page
  IN  IF hit = NoHit
      THEN [range |-> Section(m.next, size), m |-> [m EXCEPT !.next = @ + size]]
      ELSE [range |-> Section(Granted(p, s, hit.spill), size),
            m |-> [m EXCEPT !.pages = ConsumeTail(WithSections(@, hit.page, kept), walk, hit.spill)]]

\* What register_blob may hand out, over the sizes requested.
Handouts(m) == {Register(m, size) : size \in Sizes}
-----------------------------------------------------------------------------
(***************************************************************************)
(* unregister_blob: cut the range at page boundaries, insert each piece in *)
(* place, coalescing with its neighbours; then, if the range was the last  *)
(* of the file, give free sections at the end of the file back.            *)
(***************************************************************************)
Pieces(at, size) ==
  LET first == at \div PageSize
      last  == (at + size - 1) \div PageSize
  IN  [k \in 1 .. last - first + 1 |->
         LET page == first + k - 1
             from == IF k = 1 THEN at ELSE PageStart(page)
             to   == IF page = last THEN at + size ELSE PageStart(page + 1)
         IN  [page |-> page, at |-> from, size |-> to - from]]

\* The number of sections that start below at (lower_bound).
Below(sections, at) == Cardinality({j \in DOMAIN sections : sections[j].at < at})

InsertSection(sections, r) ==
  LET k      == Below(sections, r.at)
      joinsL == k > 0 /\ End(sections[k]) = r.at
      joinsR == k < Len(sections) /\ sections[k + 1].at = End(r)
      left   == SubSeq(sections, 1, IF joinsL THEN k - 1 ELSE k)
      right  == SubSeq(sections, IF joinsR THEN k + 2 ELSE k + 1, Len(sections))
      from   == IF joinsL THEN sections[k].at ELSE r.at
      to     == IF joinsR THEN End(sections[k + 1]) ELSE End(r)
  IN  left \o <<Section(from, to - from)>> \o right

InsertPiece(pages, piece) ==
  LET r == Section(piece.at, piece.size)
  IN  IF HasPage(pages, piece.page)
      THEN LET i == IndexOf(pages, piece.page)
           IN  [pages EXCEPT ![i].sections = InsertSection(@, r)]
      ELSE Append(pages, [page |-> piece.page, sections |-> <<r>>])

\* Give back the end of the file: the last entry of the map, while it ends there.
Trim(m) ==
  LET step(acc, i) ==
        LET sections == Last(acc.m.pages).sections
            back     == Last(sections)
        IN  IF acc.stop \/ acc.m.pages = <<>> \/ End(back) # acc.m.next
            THEN [acc EXCEPT !.stop = TRUE]
            ELSE [m    |-> [next  |-> acc.m.next - back.size,
                            pages |-> WithSections(acc.m.pages, Len(acc.m.pages), Front(sections))],
                  stop |-> Len(sections) > 1]
  IN  FoldLeft(step, [m |-> m, stop |-> FALSE], [i \in DOMAIN m.pages |-> i]).m

\* The range may be freed: inside the file and clear of every free section.
CanUnregister(m, r) == End(r) <= m.next /\ Bytes(r) \cap FreeBytes(m) = {}

Unregister(m, r) ==
  LET freed == [m EXCEPT !.pages = FoldLeft(InsertPiece, @, Pieces(r.at, r.size))]
  IN  IF End(r) = m.next THEN Trim(freed) ELSE freed

UnregisterAll(m, ranges) == FoldLeft(Unregister, m, ranges)
-----------------------------------------------------------------------------
(***************************************************************************)
(* claim_blob: mark an exact range allocated.  At or past the end of the   *)
(* file the gap before it becomes free; inside, it is carved out of the    *)
(* sections page by page and fails unless each piece lies in one section.  *)
(***************************************************************************)
Holding(pages, piece) ==
  {<<i, k>> \in UNION {{j} \X DOMAIN pages[j].sections : j \in DOMAIN pages} :
     LET s == pages[i].sections[k] IN s.at <= piece.at /\ piece.at + piece.size <= End(s)}

Carve(pages, piece) ==
  LET where == CHOOSE w \in Holding(pages, piece) : TRUE
      i     == where[1]
      k     == where[2]
      s     == pages[i].sections[k]
      head  == IF s.at < piece.at THEN <<Section(s.at, piece.at - s.at)>> ELSE <<>>
      end   == piece.at + piece.size
      tail  == IF end < End(s) THEN <<Section(end, End(s) - end)>> ELSE <<>>
  IN  WithSections(pages, i, SubSeq(pages[i].sections, 1, k - 1) \o head \o tail
                             \o SubSeq(pages[i].sections, k + 1, Len(pages[i].sections)))

CanClaim(m, r) ==
  \/ r.at >= m.next
  \/ /\ End(r) <= m.next
     /\ \A i \in DOMAIN Pieces(r.at, r.size) : Holding(m.pages, Pieces(r.at, r.size)[i]) # {}

Claim(m, r) ==
  IF r.at >= m.next
  THEN LET grown == [m EXCEPT !.next = End(r)]
       IN  IF r.at = m.next THEN grown
           ELSE FoldLeft(LAMBDA g, piece : Unregister(g, Section(piece.at, piece.size)),
                         grown, Pieces(m.next, r.at - m.next))
  ELSE [m EXCEPT !.pages = FoldLeft(Carve, @, Pieces(r.at, r.size))]
-----------------------------------------------------------------------------
(***************************************************************************)
(* The allocator block of write_index.  Two metadata ranges stand for the  *)
(* six: one of a kind whose location is restored on open, and the free     *)
(* list itself, whose location is not.  The free-list blob is placed on    *)
(* the live manager and claimed in the copy; if the claim makes the list   *)
(* outgrow it, both give it back and a larger one is placed.               *)
(***************************************************************************)
Idle == [pc |-> "idle", deferred |-> <<>>, metas |-> <<>>,
         snapshot |-> [mgr |-> EmptyManager, live |-> {}, metas |-> <<>>]]

Superblock == Section(0, 1)

Init ==
  /\ mgr = Register(EmptyManager, 1).m
  /\ live = {Superblock} /\ metas = <<>> /\ ck = Idle /\ checkpoints = 0
  /\ disk = [mgr |-> mgr, live |-> live, metas |-> <<>>]

Fits(m) == m.next <= MaxFile

\* allocate_blob
Allocate ==
  \E got \in Handouts(mgr) :
    /\ Cardinality(live) < MaxBlobs /\ Fits(got.m)
    /\ mgr' = got.m
    /\ live' = live \cup {got.range}
    /\ UNCHANGED <<metas, ck, disk, checkpoints>>

\* Data blobs the tree layer may hand over as freed.
Freeable == live \ ({Superblock} \cup ToSet(metas))
FreedLists == {<<>>} \cup {<<r>> : r \in Freeable}
                \cup {<<q[1], q[2]>> : q \in {p \in Freeable \X Freeable : p[1] # p[2]}}

\* The ranges can be returned to m one after the other.
CanUnregisterAll(m, ranges) ==
  \A i \in DOMAIN ranges : CanUnregister(UnregisterAll(m, SubSeq(ranges, 1, i - 1)), ranges[i])

\* One attempt to place a list: got from the live manager, claimed in the copy.
Place(got, copy) ==
  [ok |-> CanClaim(copy, got.range), range |-> got.range, m |-> got.m,
   copy |-> IF CanClaim(copy, got.range) THEN Claim(copy, got.range) ELSE copy]

\* The attempt is taken back: the live manager and the copy return the range.
Displaced(placed) ==
  [placed EXCEPT !.ok = /\ placed.ok /\ CanUnregister(placed.copy, placed.range)
                        /\ CanUnregister(placed.m, placed.range),
                 !.copy = Unregister(@, placed.range), !.m = Unregister(@, placed.range)]

(***************************************************************************)
(* The placement loop: the list has its place unless the claim made the    *)
(* copy's serialized form (page headers and sections) grow, which it does  *)
(* when it splits a section; then a larger list is placed.                 *)
(***************************************************************************)
SerializedSize(m) == 8 * Len(m.pages) + 16 * Cardinality(FreeSections(m))

Placements(m, copy) ==
  LET outgrown(placed) ==
        placed.ok /\ SerializedSize(placed.copy) > SerializedSize(copy)
      larger(placed) == {got \in Handouts(placed.m) : got.range.size > placed.range.size}
      retries(undone) ==
        IF undone.ok THEN {Place(got, undone.copy) : got \in larger(undone)} ELSE {undone}
  IN  UNION {IF outgrown(placed) THEN retries(Displaced(placed)) ELSE {placed} :
               placed \in {Place(got, copy) : got \in Handouts(m)}}

Begin ==
  /\ ck.pc \in {"idle", "refused"} /\ checkpoints < MaxCheckpoints
  /\ checkpoints' = checkpoints + 1
  /\ \E freed \in FreedLists, meta \in Handouts(mgr) :
       LET deferred == freed \o metas
           copy     == UnregisterAll(meta.m, deferred)
       IN
       IF ~CanUnregisterAll(meta.m, deferred)
       THEN /\ mgr' = meta.m /\ live' = live \cup {meta.range}
            /\ ck' = [Idle EXCEPT !.pc = "refused"]
       ELSE \E list \in Placements(meta.m, copy) :
            /\ Fits(list.m)
            /\ mgr' = list.m
            /\ live' = live \cup {meta.range, list.range}
            /\ ck' = IF ~list.ok THEN [Idle EXCEPT !.pc = "refused"]
                     ELSE [pc |-> "write", deferred |-> deferred,
                           metas |-> <<meta.range, list.range>>,
                           snapshot |-> [mgr   |-> list.copy,
                                         live  |-> live' \ ToSet(deferred),
                                         metas |-> <<meta.range>>]]
  /\ UNCHANGED <<metas, disk>>

\* The superblock has landed: the superseded ranges return to the live manager.
Commit ==
  /\ ck.pc = "write"
  /\ mgr' = UnregisterAll(mgr, ck.deferred)
  /\ live' = live \ ToSet(ck.deferred)
  /\ metas' = ck.metas
  /\ disk' = ck.snapshot
  /\ ck' = IF CanUnregisterAll(mgr, ck.deferred) THEN Idle ELSE [Idle EXCEPT !.pc = "refused"]
  /\ UNCHANGED checkpoints

\* A write before it failed: rollback_metadata.
Rollback ==
  /\ ck.pc = "write"
  /\ mgr' = UnregisterAll(mgr, ck.metas)
  /\ live' = live \ ToSet(ck.metas)
  /\ ck' = IF CanUnregisterAll(mgr, ck.metas) THEN Idle ELSE [Idle EXCEPT !.pc = "refused"]
  /\ UNCHANGED <<metas, disk, checkpoints>>

\* The process dies; the free list is deserialized, with its pages in the order written.
Reopen ==
  /\ checkpoints > 0 /\ disk.live # {Superblock}
  /\ mgr' = disk.mgr /\ live' = disk.live /\ metas' = disk.metas
  /\ ck' = Idle
  /\ UNCHANGED <<disk, checkpoints>>

Next == Allocate \/ Begin \/ Commit \/ Rollback \/ Reopen

Spec == Init /\ [][Next]_vars
-----------------------------------------------------------------------------
(***************************************************************************)
(* Properties.                                                             *)
(***************************************************************************)

\* A page's sections are sorted, apart, inside the page, and never none; pages are distinct.
Sound(m) ==
  /\ m.next \in Nat
  /\ \A i, j \in DOMAIN m.pages : m.pages[i].page = m.pages[j].page => i = j
  /\ \A i \in DOMAIN m.pages :
       LET page == m.pages[i].page
           s    == m.pages[i].sections
       IN  /\ page \in Nat /\ s # <<>>
           /\ s[1].at >= PageStart(page) /\ End(Last(s)) <= PageStart(page + 1)
           /\ \A k \in DOMAIN s : s[k].size > 0
           /\ \A k \in 1 .. Len(s) - 1 : End(s[k]) < s[k + 1].at

\* The representation invariant of both managers, on which lower_bound and the coalescing rely.
TypeOK ==
  /\ Sound(mgr) /\ Sound(disk.mgr) /\ Sound(ck.snapshot.mgr)
  /\ ck.pc \in {"idle", "write", "refused"} /\ checkpoints \in 0 .. MaxCheckpoints

Disjoint(ranges) == \A r, s \in ranges : r # s => Bytes(r) \cap Bytes(s) = {}

\* No two blobs share a byte: register_blob never hands out what is in use.
NoOverlap == Disjoint(live)

Exact(m, ranges) == FreeBytes(m) = (0 .. m.next - 1) \ AllBytes(ranges)

\* The free list is exactly what is not in use: nothing leaks, nothing in use is on offer.
FreeListExact == Exact(mgr, live)

(***************************************************************************)
(* A crash restores an allocator that agrees with the checkpoint it        *)
(* restores: the committed free list is exact for the blobs the committed  *)
(* index refers to, and its superseded ranges are free (rule 3).           *)
(***************************************************************************)
CommittedListExact == Exact(disk.mgr, disk.live) /\ Disjoint(disk.live)

\* No allocator operation of a checkpoint fails: every superseded range can be returned, and
\* the copy always has the range free that the live manager gave the free list.
NeverRefused == ck.pc # "refused"

\* Both lists stay exact and agree, through every series of calls, commits, rollbacks and
\* crashes, and so no checkpoint is refused (register_blob, unregister_blob, write_index).
ListsExact == FreeListExact /\ CommittedListExact /\ NeverRefused

\* Each byte of the file belongs to one blob or to the free list, live and as committed,
\* whatever the allocator and the checkpoints did before (free_blob_manager_t).
BytesAccounted == NoOverlap /\ ListsExact
=============================================================================
