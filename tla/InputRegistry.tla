--------------------------- MODULE InputRegistry ---------------------------
(***************************************************************************)
(* The registry of input files of a conversion                             *)
(* (input_data_source_registry.cpp), as operators on its value, a function *)
(* from files to items.  The dispatch order (_sorted_input_sources) is the *)
(* rank of each item in it.                                                *)
(*                                                                         *)
(* A morton code is a natural number below Terminal, the all-0xFF code.    *)
(* The counters that the source keeps beside the items (files done,        *)
(* parts added, parts inserted, the done prefix) are derived from them.    *)
(***************************************************************************)
EXTENDS Integers, FiniteSets, FiniteSetsExt

CONSTANTS
  Files,      \* the input files, by name
  Corner,     \* Corner[f]: code of the corner pre-init reports, 0 for none
  Terminal    \* the greatest morton code

ASSUME TerminalIsGreatest ==
  Terminal \in Nat \ {0} /\ IsFiniteSet(Files) /\ Corner \in [Files -> 0..(Terminal - 1)]

\* An item of a file that was never registered, and one just registered. The
\* rank is 0 while the file has no place in the dispatch order.
NoItem ==
  [known |-> FALSE, settled |-> FALSE, order |-> 0, started |-> FALSE, finished |-> FALSE,
   subs |-> 0, inserted |-> 0, lo |-> Terminal, rank |-> 0]
NewItem == [NoItem EXCEPT !.known = TRUE]

Empty == [f \in Files |-> NoItem]

Registered(reg) == {f \in Files : reg[f].known}

\* Read to its end, and every part of it is in the tree.
Done(item) == item.finished /\ item.inserted = item.subs

\* A file already registered keeps its item: it is matched by name.
RegisterFiles(reg, fs) ==
  [f \in Files |-> IF f \in fs /\ ~reg[f].known THEN NewItem ELSE reg[f]]

RegisterPreInit(reg, fs) ==
  [f \in Files |-> IF f \in fs THEN [reg[f] EXCEPT !.order = Corner[f], !.settled = TRUE]
                               ELSE reg[f]]

\* Never dispatched, and retired.
FilesFailed(reg, fs) ==
  [f \in Files |-> IF f \in fs THEN [reg[f] EXCEPT !.settled = TRUE, !.started = TRUE,
                                                   !.finished = TRUE]
                               ELSE reg[f]]

SubAdded(reg, f) == [reg EXCEPT ![f].subs = @ + 1]
SortedPoints(reg, f, key) == [reg EXCEPT ![f].lo = IF key < @ THEN key ELSE @]
ReadingDone(reg, f) == [reg EXCEPT ![f].finished = TRUE]
TreeDone(reg, f) == [reg EXCEPT ![f].inserted = @ + 1]

\* No file has more parts inserted than added, so the totals the source
\* compares agree when those of every file do.
AllInserted(reg) == \A f \in Registered(reg) : Done(reg[f])

\* The files that may be dispatched next: a least order among those settled
\* and not yet started (the heap breaks a tie either way).
NextInputs(reg) ==
  LET ready == {f \in Registered(reg) : reg[f].settled /\ ~reg[f].started}
  IN  {f \in ready : \A g \in ready : reg[f].order <= reg[g].order}

InOrder(reg) == {f \in Files : reg[f].rank > 0}

Dispatched(reg, f) ==
  [reg EXCEPT ![f].started = TRUE, ![f].rank = Cardinality(InOrder(reg)) + 1]

\* The files of the dispatch order that are not done, and the first of them.
Open(reg) == {f \in InOrder(reg) : ~Done(reg[f])}
FirstOpen(reg) == {f \in Open(reg) : \A g \in Open(reg) : reg[f].rank <= reg[g].rank}

\* The done prefix of the dispatch order is not empty.
HasDonePrefix(reg) ==
  \E f \in InOrder(reg) \ Open(reg) : \A g \in Open(reg) : reg[f].rank < reg[g].rank

HeadBounds(reg) ==
  {Terminal} \cup {reg[f].lo : f \in FirstOpen(reg)} \cup {reg[f].order : f \in FirstOpen(reg)}

\* Mutant: files not yet dispatched do not clamp the boundary.
MutDoneMorton(reg) == IF HasDonePrefix(reg) THEN Min(HeadBounds(reg)) ELSE 0

\* The boundary below which every point is final; 0 when there is none. The
\* first file still open bounds it by its own lower bound, and every file not
\* yet dispatched by the corner it reported (0 as long as it has not).
Clamp(reg) == {reg[f].order : f \in {g \in Registered(reg) : ~reg[g].started}}

DoneMorton(reg) ==
  IF HasDonePrefix(reg) THEN Min(HeadBounds(reg) \cup Clamp(reg)) ELSE 0

\* What a snapshot restores: a file dispatched and not done leaves the dispatch
\* order, may be dispatched again and keeps its counters; all are settled.
Restored(reg) ==
  [f \in Files |->
     IF ~reg[f].known THEN NoItem
     ELSE [reg[f] EXCEPT
             !.settled = TRUE,
             !.started = @ /\ f \notin Open(reg),
             !.rank = IF f \in Open(reg) THEN 0
                      ELSE Cardinality({g \in InOrder(reg) \ Open(reg) : reg[g].rank <= @})]]
=============================================================================
