----------------------------- MODULE AmendJoin -----------------------------
(***************************************************************************)
(* The join of an attribute amend (attribute_amend_t::commit): the values  *)
(* a host gave under their keys are brought into key order, by an external *)
(* sort when they are not in it already, and merged in one scan with the   *)
(* addresses of the points that carry those keys, a slice of the units of  *)
(* the dataset at a time.                                                  *)
(*                                                                         *)
(* A record is a key and a value; keys are the integers they are widened   *)
(* to.  The last value given under a key is the one that counts, although  *)
(* no record holds its place in the input.                                 *)
(***************************************************************************)
EXTENDS Integers, SequencesExt

CONSTANTS
  RunLength,    \* records of one sorted run (amend_memory_budget / record_size)
  PassPoints    \* points at which a slice is full (amend_memory_budget)

ASSUME AmendJoinAssumption == RunLength \in Nat \ {0} /\ PassPoints \in Nat \ {0}

\* The elements of S in a strict total order: each at the place of its rank.
Ordered(S, Before(_, _)) ==
  [k \in 1 .. Cardinality(S) |-> CHOOSE x \in S : Cardinality({y \in S : Before(y, x)}) = k - 1]

Record(key, val) == [key |-> key, val |-> val]
Zero == 0       \* what a point without a value reads as
-----------------------------------------------------------------------------
(***************************************************************************)
(* sort_spill_by_key                                                       *)
(***************************************************************************)
\* std::stable_sort of a block by key.
StablySorted(block) ==
  LET Before(i, j) == block[i].key < block[j].key \/ (block[i].key = block[j].key /\ i < j)
      order == Ordered(DOMAIN block, Before)
  IN  [i \in DOMAIN block |-> block[order[i]]]

\* Run formation: stretches of the input, each sorted.
Runs(records) ==
  LET count == (Len(records) + RunLength - 1) \div RunLength
      Upto(b) == IF b * RunLength < Len(records) THEN b * RunLength ELSE Len(records)
  IN  [b \in 1 .. count |-> StablySorted(SubSeq(records, (b - 1) * RunLength + 1, Upto(b)))]

\* Mutant: among equal keys the run that came last is popped first.
MutMerged(runs) ==
  LET places == UNION {{<<r, i>> : i \in DOMAIN runs[r]} : r \in DOMAIN runs}
      At(x) == runs[x[1]][x[2]]
      Before(x, y) == \/ At(x).key < At(y).key
                      \/ At(x).key = At(y).key /\ (x[1] > y[1] \/ (x[1] = y[1] /\ x[2] < y[2]))
      order == Ordered(places, Before)
  IN  [i \in DOMAIN order |-> At(order[i])]

\* The k-way merge: the heap pops the least key, of equal ones the earliest run.
Merged(runs) ==
  LET places == UNION {{<<r, i>> : i \in DOMAIN runs[r]} : r \in DOMAIN runs}
      At(x) == runs[x[1]][x[2]]
      Before(x, y) == \/ At(x).key < At(y).key
                      \/ At(x).key = At(y).key /\ (x[1] < y[1] \/ (x[1] = y[1] /\ x[2] < y[2]))
      order == Ordered(places, Before)
  IN  [i \in DOMAIN order |-> At(order[i])]

\* add_data follows whether the keys ever fell; if not, the file is merged as it is.
Ascending(records) == \A i \in 2 .. Len(records) : records[i - 1].key <= records[i].key
InKeyOrder(records) == IF Ascending(records) THEN records ELSE Merged(Runs(records))
-----------------------------------------------------------------------------
(***************************************************************************)
(* The merge of commit: two cursors, one scan.                             *)
(***************************************************************************)
\* The last record of each stretch of equal keys.
LastOfEach(records) ==
  LET ends == {i \in DOMAIN records : i = Len(records) \/ records[i + 1].key # records[i].key}
  IN  [i \in 1 .. Cardinality(ends) |-> records[Ordered(ends, <)[i]]]

\* The value a point with the given key gets. The records and the addresses of
\* the points are both in key order and each cursor only moves on: a record
\* passes the addresses with lower keys and takes all those with its own, for a
\* point is in its leaf and in each LOD node above it. Zero where none lands.
Landed(records, key) ==
  LET last == LastOfEach(records)
      here == {i \in DOMAIN last : last[i].key = key /\ \A j \in 1 .. i - 1 : last[j].key < key}
  IN  IF here = {} THEN Zero ELSE last[Min(here)].val
-----------------------------------------------------------------------------
(***************************************************************************)
(* What add_data documents, for the properties: a repeated key overwrites  *)
(* its earlier value.                                                      *)
(***************************************************************************)
Given(records, keys) ==
  [p \in DOMAIN keys |->
     LET under == {i \in DOMAIN records : records[i].key = keys[p]}
     IN  IF under = {} THEN Zero ELSE records[Max(under)].val]
=============================================================================
