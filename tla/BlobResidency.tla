--------------------------- MODULE BlobResidency ---------------------------
(***************************************************************************)
(* The residency table of the cached-file backend (blob_residency_t): for  *)
(* every offset of the cache file, whether its blob also exists remotely,  *)
(* whether the local bytes are still there, and whether the remote fact is *)
(* part of a committed checkpoint.                                         *)
(*                                                                         *)
(* The table is a function from slots (blob offsets) to entries.  The code *)
(* keeps no entry at all for a local-only blob; here that is NoEntry, so   *)
(* "find() returned null" is table[s] = NoEntry.  LRU order, byte sizes    *)
(* and the slab are left out: every blob has size one and any evictable    *)
(* entry may be the LRU victim.                                            *)
(***************************************************************************)
EXTENDS Naturals, FiniteSets

CONSTANTS
  Slots,  \* offsets the allocator can hand out
  Hole    \* the bytes of a punched (or never written) range

(***************************************************************************)
(* A remote copy.  seg = 0 is an object of the destination's final layout; *)
(* seg > 0 a spill segment (segment numbers start at 1, which is what      *)
(* makes the locator 0 "no spill reference").  bytes is what lies there.   *)
(***************************************************************************)
Remote(Content) == [seg : Nat, bytes : Content]
NoRemote == [seg |-> 0, bytes |-> Hole]
Object(bytes) == [seg |-> 0, bytes |-> bytes]
Locator(seg, bytes) == [seg |-> seg, bytes |-> bytes]

States == {"local", "local_uploaded", "remote_uploaded", "local_spilled", "remote_spilled"}
Entry(Content) ==
  [state : States, durable : BOOLEAN, gen : Nat, remote : Remote(Content)]
NoEntry == [state |-> "local", durable |-> FALSE, gen |-> 0, remote |-> NoRemote]

Tracked(e) == e.state # "local"
HasLocalBytes(e) == e.state \in {"local", "local_uploaded", "local_spilled"}
Spilled(e) == e.state \in {"local_spilled", "remote_spilled"}

Fact(state, gen, remote) ==
  [state |-> state, durable |-> FALSE, gen |-> gen, remote |-> remote]

(***************************************************************************)
(* mark_uploaded: a fresh or local entry becomes local_uploaded, a remote  *)
(* one remote_uploaded; the fact belongs to the generation being built.    *)
(***************************************************************************)
MarkUploaded(table, s, gen, remote) ==
  [table EXCEPT ![s] =
     Fact(IF HasLocalBytes(table[s]) THEN "local_uploaded" ELSE "remote_uploaded", gen, remote)]

MarkSpilled(table, s, gen, remote) ==
  [table EXCEPT ![s] = Fact("local_spilled", gen, remote)]

MarkSpilledRemote(table, s, gen, remote) ==
  [table EXCEPT ![s] = Fact("remote_spilled", gen, remote)]

\* Mutant: every tracked fact becomes durable, the ones noted after the snapshot included.
MutCommitDurableAll(table, gen) ==
  [s \in Slots |-> [table[s] EXCEPT !.durable = Tracked(table[s])]]

(***************************************************************************)
(* commit_durable: exactly the facts of generation <= gen, the ones the    *)
(* committed checkpoint contains, become durable.                          *)
(***************************************************************************)
CommitDurable(table, gen) ==
  [s \in Slots |->
     [table[s] EXCEPT !.durable = Tracked(table[s]) /\ (table[s].durable \/ table[s].gen <= gen)]]

(***************************************************************************)
(* The destructive transitions.  Busy is the set of slots with a local     *)
(* read in flight (inflight_local_reads > 0).                              *)
(***************************************************************************)
\* Mutant: a victim with a read in flight.
MutEvictable(table, Busy) ==
  {s \in Slots : table[s].state = "local_uploaded" /\ table[s].durable}

Evictable(table, Busy) ==
  {s \in Slots : table[s].state = "local_uploaded" /\ table[s].durable /\ s \notin Busy}

Droppable(table, Busy) ==
  {s \in Slots : table[s].state = "local_spilled" /\ table[s].durable /\ s \notin Busy}

Evict(table, V) ==
  [s \in Slots |-> IF s \in V THEN [table[s] EXCEPT !.state = "remote_uploaded"] ELSE table[s]]

DropSpilledLocal(table, V) ==
  [s \in Slots |-> IF s \in V THEN [table[s] EXCEPT !.state = "remote_spilled"] ELSE table[s]]

(***************************************************************************)
(* forget, for every slot of F: the entry goes; what it was decides the    *)
(* segment dereferences and the post-commit punch.                         *)
(***************************************************************************)
Forget(table, F) == [s \in Slots |-> IF s \in F THEN NoEntry ELSE table[s]]
ForgetPunchable(table, F, Busy) == {s \in F : HasLocalBytes(table[s]) /\ s \notin Busy}
ForgetLocal(table, F) == {s \in F : HasLocalBytes(table[s])}

(***************************************************************************)
(* deserialize: every persisted fact is durable, its generation is not     *)
(* persisted (a restored entry has generation 0), and a table not marked   *)
(* clean is demoted to its remote copies, which are authoritative.         *)
(***************************************************************************)
\* Mutant: a table that is not clean is believed.
MutDemoted(state) == state

Demoted(state) ==
  CASE state = "local_uploaded" -> "remote_uploaded"
    [] state = "local_spilled"  -> "remote_spilled"
    [] OTHER                    -> state

Deserialize(table, clean) ==
  [s \in Slots |->
     IF ~Tracked(table[s]) THEN NoEntry
     ELSE [state   |-> IF clean THEN table[s].state ELSE Demoted(table[s].state),
           durable |-> TRUE,
           gen     |-> 0,
           remote  |-> table[s].remote]]

DemotedLocal(table, clean) ==
  IF clean THEN {} ELSE {s \in Slots : Tracked(table[s]) /\ HasLocalBytes(table[s])}
=============================================================================
