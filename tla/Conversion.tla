----------------------------- MODULE Conversion -----------------------------
(***************************************************************************)
(* A conversion: the processor (processor.cpp), which feeds input files to *)
(* the reader and decides when a LOD pass runs, and the checkpoint chain   *)
(* of the tree handler (tree_handler.cpp), which commits what they did.    *)
(*                                                                         *)
(* A file is a sequence of chunks and a chunk is its morton code. A chunk  *)
(* is read, sorted, written and inserted into the tree, and then counted   *)
(* by the processor; each is an event another loop handles later. A LOD    *)
(* pass covers everything below its target, the done-morton of the         *)
(* registry; when it ends, the chain commits trees, registry, index in     *)
(* this order, and the processor learns of it from an event. Cache         *)
(* pressure starts the same chain at any moment. A crash goes back to the  *)
(* last commit, and the client adds its files again.                       *)
(*                                                                         *)
(* Not modelled: a mutable dataset, and the contents of trees and of LOD.  *)
(***************************************************************************)
EXTENDS InputRegistry, Sequences, FiniteSets

CONSTANTS
  Batches,      \* the calls of add_files, a sequence of sets of files
  Chunks,       \* Chunks[f]: the codes of the chunks of f, in file order
  MayFail,      \* the files whose pre-init or read may fail
  Budget,       \* files read at a time (the read-sort budget)
  MaxRequests,  \* bound: checkpoints asked for by cache pressure
  MaxFailures,  \* bound: checkpoint steps that fail (none in a session resumed)
  MaxCrashes    \* bound: crashes

ASSUME InputsAreFiles ==
  /\ Batches \in Seq(SUBSET Files) /\ MayFail \subseteq Files
  /\ Chunks \in [Files -> Seq(0..(Terminal - 1))]
  /\ \A f \in Files : \A i \in DOMAIN Chunks[f] : Corner[f] <= Chunks[f][i]
  /\ {MaxRequests, MaxFailures, MaxCrashes} \subseteq Nat

VARIABLES
  reg,        \* the registry
  preinit,    \* the batches whose pre-init runs, each the files it waits for
  reading,    \* where the reader is with each file: "no", "yes", "stopped"
  stage,      \* where each chunk is in this session
  proc,       \* the processor: its batches, idle flag and LOD pass
  tree,       \* the tree handler: copies of chunks per file, pass, watermarks
  chain,      \* the checkpoint chain
  committed,  \* what the last committed index refers to
  requests, failures, crashes  \* how often each happened

vars == <<reg, preinit, reading, stage, proc, tree, chain, committed,
          requests, failures, crashes>>

Parts == UNION {{f} \X DOMAIN Chunks[f] : f \in Files}
Key(c) == Chunks[c[1]][c[2]]
Stages == {"unread", "read", "sorted", "inTree", "counted"}
Unread == [c \in Parts |-> "unread"]
Larger(a, b) == Max({a, b})

-----------------------------------------------------------------------------
\* A session starts from a committed state; so does the first one, from none.

NoCommit == [exists |-> FALSE, ok |-> TRUE, reg |-> Empty,
             copies |-> [f \in Files |-> 0], watermark |-> 0]

NewProc(at) == [added |-> 0, handled |-> 0, idle |-> TRUE,
                generating |-> FALSE, lodDone |-> at, target |-> at,
                written |-> 0, asked |-> FALSE]
NewTree(at, copies) == [copies |-> copies, lod |-> "none", pass |-> at,
                        watermark |-> at, last |-> 0]
NoChain == [step |-> "off", reg |-> Empty, copies |-> NoCommit.copies,
            ok |-> TRUE, rerun |-> FALSE]

Init ==
  /\ reg = Empty
  /\ preinit = {}
  /\ reading = [f \in Files |-> "no"]
  /\ stage = Unread
  /\ proc = NewProc(0)
  /\ tree = NewTree(0, NoCommit.copies)
  /\ chain = NoChain
  /\ committed = NoCommit
  /\ requests = 0 /\ failures = 0 /\ crashes = 0

-----------------------------------------------------------------------------
\* Starting a LOD pass: asked for by p, with the registry at r.
MaybeStartLod(p, r) ==
  LET done == DoneMorton(r)
      go   == ~p.generating /\ done > p.lodDone
  IN  /\ proc' = IF go THEN [p EXCEPT !.generating = TRUE, !.target = done]
                 ELSE p
      /\ tree' = IF go THEN [tree EXCEPT !.lod = "running"] ELSE tree

\* Mutant: a trigger that meets a chain in flight is dropped.
MutLaunchChain(t, c) ==
  IF c.step # "off"
  THEN tree' = t /\ chain' = c
  ELSE /\ tree' = [t EXCEPT !.watermark = Larger(t.watermark, t.pass)]
       /\ chain' = [step |-> "trees", reg |-> reg, copies |-> t.copies,
                    ok |-> TRUE, rerun |-> FALSE]

\* Starting a chain on the tree t. The watermark, the dirty trees and the
\* registry of inputs are taken in one step, before the first suspension. A
\* chain in flight only notes that it has to run again.
LaunchChain(t, c) ==
  IF c.step # "off"
  THEN tree' = t /\ chain' = [c EXCEPT !.rerun = TRUE]
  ELSE /\ tree' = [t EXCEPT !.watermark = Larger(t.watermark, t.pass)]
       /\ chain' = [step |-> "trees", reg |-> reg, copies |-> t.copies,
                    ok |-> TRUE, rerun |-> FALSE]

-----------------------------------------------------------------------------
\* The client and the registration of its files

AddFiles ==
  /\ proc.added < Len(Batches)
  /\ proc' = [proc EXCEPT !.added = @ + 1, !.idle = FALSE]
  /\ UNCHANGED <<reg, preinit, reading, stage, tree, chain, committed,
                 requests, failures, crashes>>

\* Files are registered; those done in an earlier session are left out.
HandleNewFiles ==
  LET batch == Batches[proc.handled + 1]
      refs  == {f \in batch : ~(reg[f].known /\ Done(reg[f]))}
  IN  /\ proc.handled < proc.added
      /\ proc' = [proc EXCEPT !.handled = @ + 1]
      /\ reg' = RegisterFiles(reg, batch)
      /\ preinit' = preinit \cup {refs}
      /\ UNCHANGED <<reading, stage, tree, chain, committed, requests, failures, crashes>>

\* The pre-init of a batch has answered for every file of it: with bounds, with
\* an error of the callback, or ("lost") with no result for the file at all.
SettleBatch ==
  \E refs \in preinit :
  \E answer \in [refs -> {"bounds", "error", "lost"}] :
    LET failed  == {f \in refs : answer[f] # "bounds"}
        settled == {f \in refs : answer[f] # "lost"}
        next    == FilesFailed(RegisterPreInit(reg, refs \ failed), failed)
    IN  /\ failed \subseteq MayFail /\ (crashes = 0 \/ failed = {})
        /\ reg' = next
        /\ preinit' = preinit \ {refs}
        /\ IF refs # {} /\ settled = {} THEN MaybeStartLod(proc, next)
                                        ELSE UNCHANGED <<proc, tree>>
        /\ UNCHANGED <<reading, stage, chain, committed, requests, failures, crashes>>

-----------------------------------------------------------------------------
\* The loop of the processor, about to block: dispatch while the budget lasts,
\* then see whether all is done. A file just dispatched is not done, so the
\* second part does nothing after the first.
Dispatch ==
  /\ Cardinality({f \in Files : reading[f] # "no"}) < Budget
  /\ \E f \in NextInputs(reg) :
       /\ reg' = Dispatched(reg, f)
       /\ reading' = [reading EXCEPT ![f] = "yes"]
  /\ UNCHANGED <<preinit, stage, proc, tree, chain, committed, requests,
                 failures, crashes>>

BecomeIdle ==
  /\ NextInputs(reg) = {}
  /\ AllInserted(reg) /\ proc.added = proc.handled /\ ~proc.generating
  /\ ~proc.idle
  /\ proc' = [proc EXCEPT !.idle = TRUE]
  /\ UNCHANGED <<reg, preinit, reading, stage, tree, chain, committed,
                 requests, failures, crashes>>

-----------------------------------------------------------------------------
\* The reader and the way of a chunk into the tree

NextUnread(f) == {c \in Parts : c[1] = f /\ stage[c] = "unread"}

ReadChunk ==
  \E f \in Files :
    /\ reading[f] = "yes" /\ NextUnread(f) # {}
    /\ LET i == Min({c[2] : c \in NextUnread(f)})
       IN  stage' = [stage EXCEPT ![<<f, i>>] = "read"]
    /\ reg' = SubAdded(reg, f)
    /\ UNCHANGED <<preinit, reading, proc, tree, chain, committed, requests,
                   failures, crashes>>

ReadError ==
  \E f \in MayFail :
    /\ reading[f] = "yes" /\ NextUnread(f) # {} /\ crashes = 0
    /\ reading' = [reading EXCEPT ![f] = "stopped"]
    /\ UNCHANGED <<reg, preinit, stage, proc, tree, chain, committed, requests,
                   failures, crashes>>

\* Sorted chunks arrive in any order: each is sorted by a task of the pool.
SortedChunk ==
  \E c \in Parts :
    /\ stage[c] = "read"
    /\ stage' = [stage EXCEPT ![c] = "sorted"]
    /\ reg' = SortedPoints(reg, c[1], Key(c))
    /\ UNCHANGED <<preinit, reading, proc, tree, chain, committed, requests,
                   failures, crashes>>

InsertChunk ==
  \E c \in Parts :
    /\ stage[c] = "sorted"
    /\ stage' = [stage EXCEPT ![c] = "inTree"]
    /\ tree' = [tree EXCEPT !.copies[c[1]] = @ + 1]
    /\ UNCHANGED <<reg, preinit, reading, proc, chain, committed, requests,
                   failures, crashes>>

TreeDoneWithInput ==
  \E c \in Parts :
    /\ stage[c] = "inTree"
    /\ stage' = [stage EXCEPT ![c] = "counted"]
    /\ reg' = TreeDone(reg, c[1])
    /\ MaybeStartLod(proc, reg')
    /\ UNCHANGED <<preinit, reading, chain, committed, requests, failures, crashes>>

\* Mutant: the end of a read does not ask for a LOD pass.
MutFileReadingDone ==
  \E f \in Files :
    /\ reading[f] = "stopped" \/ (reading[f] = "yes" /\ NextUnread(f) = {})
    /\ \A c \in Parts : c[1] = f => stage[c] # "read"
    /\ reading' = [reading EXCEPT ![f] = "no"]
    /\ reg' = ReadingDone(reg, f)
    /\ UNCHANGED <<preinit, stage, proc, tree, chain, committed, requests,
                   failures, crashes>>

\* All that was read of the file is sorted.
FileReadingDone ==
  \E f \in Files :
    /\ reading[f] = "stopped" \/ (reading[f] = "yes" /\ NextUnread(f) = {})
    /\ \A c \in Parts : c[1] = f => stage[c] # "read"
    /\ reading' = [reading EXCEPT ![f] = "no"]
    /\ reg' = ReadingDone(reg, f)
    /\ MaybeStartLod(proc, reg')
    /\ UNCHANGED <<preinit, stage, chain, committed, requests, failures, crashes>>

-----------------------------------------------------------------------------
\* The LOD pass and the checkpoint chain

LodPassDone ==
  /\ tree.lod = "running"
  /\ LaunchChain([tree EXCEPT !.lod = "none",
                              !.pass = Larger(@, proc.target)], chain)
  /\ UNCHANGED <<reg, preinit, reading, stage, proc, committed, requests,
                 failures, crashes>>

\* The storage can be relieved by a checkpoint only; it asks once per commit.
CachePressure ==
  /\ ~proc.asked /\ requests < MaxRequests
  /\ requests' = requests + 1
  /\ proc' = [proc EXCEPT !.asked = TRUE]
  /\ LaunchChain(tree, chain)
  /\ UNCHANGED <<reg, preinit, reading, stage, committed, failures, crashes>>

\* Mutant: the registry of inputs is taken when the trees are written.
MutTreesWritten ==
  /\ chain.step = "trees"
  /\ chain' = [chain EXCEPT !.step = "registry", !.reg = reg]
  /\ UNCHANGED <<reg, preinit, reading, stage, proc, tree, committed, requests,
                 failures, crashes>>

TreesWritten ==
  /\ chain.step = "trees"
  /\ chain' = [chain EXCEPT !.step = "registry"]
  /\ UNCHANGED <<reg, preinit, reading, stage, proc, tree, committed, requests,
                 failures, crashes>>

\* A failed write of the registry blob goes unnoticed: its location is used.
RegistryWritten ==
  \E ok \in BOOLEAN :
    /\ chain.step = "registry"
    /\ ok \/ failures + crashes < MaxFailures
    /\ failures' = IF ok THEN failures ELSE failures + 1
    /\ chain' = [chain EXCEPT !.step = "index", !.ok = ok]
    /\ UNCHANGED <<reg, preinit, reading, stage, proc, tree, committed, requests, crashes>>

IndexCommitted ==
  /\ chain.step = "index"
  /\ committed' = [exists |-> TRUE, ok |-> chain.ok, reg |-> chain.reg,
                   copies |-> chain.copies, watermark |-> tree.watermark]
  /\ tree' = [tree EXCEPT !.last = tree.watermark]
  /\ proc' = [proc EXCEPT !.written = @ + 1]
  /\ chain' = [chain EXCEPT !.step = "end"]
  /\ UNCHANGED <<reg, preinit, reading, stage, requests, failures, crashes>>

\* The trees, or the index, could not be written. The trees turn dirty again.
StepFails ==
  /\ chain.step \in {"trees", "index"}
  /\ failures + crashes < MaxFailures
  /\ failures' = failures + 1
  /\ chain' = [chain EXCEPT !.step = "end"]
  /\ UNCHANGED <<reg, preinit, reading, stage, proc, tree, committed, requests, crashes>>

\* The chain is over; a trigger that came meanwhile starts it again.
ChainEnds ==
  /\ chain.step = "end"
  /\ IF chain.rerun THEN LaunchChain(tree, NoChain)
                    ELSE chain' = NoChain /\ UNCHANGED tree
  /\ UNCHANGED <<reg, preinit, reading, stage, proc, committed, requests,
                 failures, crashes>>

\* Mutant: every commit concludes the pass under way.
MutIndexWriteDone ==
  LET rearmed == [proc EXCEPT !.written = @ - 1, !.asked = FALSE]
  IN  /\ proc.written > 0
      /\ MaybeStartLod([rearmed EXCEPT !.lodDone = proc.target,
                                       !.generating = FALSE], reg)
      /\ UNCHANGED <<reg, preinit, reading, stage, chain, committed, requests,
                     failures, crashes>>

\* The commit of a checkpoint that carries an older watermark does not conclude
\* the pass under way.
IndexWriteDone ==
  LET rearmed   == [proc EXCEPT !.written = @ - 1, !.asked = FALSE]
      concludes == ~proc.generating \/ tree.last >= proc.target
  IN  /\ proc.written > 0
      /\ IF concludes
         THEN MaybeStartLod([rearmed EXCEPT !.lodDone = proc.target,
                                            !.generating = FALSE], reg)
         ELSE proc' = rearmed /\ UNCHANGED tree
      /\ UNCHANGED <<reg, preinit, reading, stage, chain, committed, requests,
                     failures, crashes>>

-----------------------------------------------------------------------------
\* A crash, and the constructor of the next session. A commit that refers to a
\* registry never written cannot be opened any more. Before the first commit a
\* crash only starts over. Bound: no fault follows a crash, none of a
\* checkpoint precedes it.
Crash ==
  /\ crashes < MaxCrashes /\ failures = 0
  /\ committed.exists /\ committed.ok
  /\ crashes' = crashes + 1
  /\ reg' = Restored(committed.reg)
  /\ preinit' = {}
  /\ reading' = [f \in Files |-> "no"]
  /\ stage' = Unread
  /\ proc' = NewProc(committed.watermark)
  /\ tree' = NewTree(committed.watermark, committed.copies)
  /\ chain' = NoChain
  /\ UNCHANGED <<committed, requests, failures>>

-----------------------------------------------------------------------------
Reader == ReadChunk \/ SortedChunk \/ InsertChunk \/ TreeDoneWithInput
            \/ FileReadingDone
Chain == TreesWritten \/ RegistryWritten \/ IndexCommitted \/ ChainEnds
Processor == HandleNewFiles \/ SettleBatch \/ Dispatch
Next == \/ AddFiles \/ Processor \/ BecomeIdle \/ Reader \/ ReadError
        \/ LodPassDone \/ CachePressure \/ Chain \/ StepFails
        \/ IndexWriteDone \/ Crash

Spec == Init /\ [][Next]_vars

\* Every loop runs its handlers, every task of the pool ends. Nothing obliges
\* the client to add files, the cache to fill, or anything to fail.
FairSpec ==
  /\ Spec
  /\ WF_vars(Processor) /\ WF_vars(BecomeIdle) /\ WF_vars(Reader)
  /\ WF_vars(LodPassDone) /\ WF_vars(Chain) /\ WF_vars(IndexWriteDone)

-----------------------------------------------------------------------------
\* Properties

\* The shape of the state.
Items == [known : BOOLEAN, settled : BOOLEAN, order : 0..Terminal, started : BOOLEAN,
          finished : BOOLEAN, subs : Nat, inserted : Nat, lo : 0..Terminal, rank : Nat]
Registries == [Files -> Items]
Copies == [Files -> Nat]
Procs == [added : 0..Len(Batches), handled : 0..Len(Batches), idle : BOOLEAN,
          generating : BOOLEAN, lodDone : 0..Terminal, target : 0..Terminal,
          written : Nat, asked : BOOLEAN]
Trees == [copies : Copies, lod : {"none", "running"}, pass : 0..Terminal,
          watermark : 0..Terminal, last : 0..Terminal]
Chains == [step : {"off", "trees", "registry", "index", "end"}, reg : Registries,
           copies : Copies, ok : BOOLEAN, rerun : BOOLEAN]
Commits == [exists : BOOLEAN, ok : BOOLEAN, reg : Registries, copies : Copies,
            watermark : 0..Terminal]
TypeOK ==
  /\ reg \in Registries
  /\ preinit \subseteq SUBSET Files
  /\ reading \in [Files -> {"no", "yes", "stopped"}]
  /\ stage \in [Parts -> Stages]
  /\ proc \in Procs /\ proc.handled <= proc.added
  /\ tree \in Trees
  /\ chain \in Chains
  /\ committed \in Commits
  /\ requests \in 0..MaxRequests /\ failures \in 0..MaxFailures
  /\ crashes \in 0..MaxCrashes
  \* one chain at a time, and a pass only while the processor waits for one
  /\ tree.lod = "running" => proc.generating
  /\ chain.rerun => chain.step # "off"

\* The chunks that registered files have yet to bring into the tree: on their
\* way, or not read of a file that is being read or may still be dispatched.
Outstanding ==
  {c \in Parts :
     \/ stage[c] \in {"read", "sorted"}
     \/ /\ stage[c] = "unread" /\ reg[c[1]].known
        /\ reading[c[1]] = "yes" \/ ~reg[c[1]].started}

\* The target of a LOD pass is a lower bound of every point that a registered
\* file has yet to bring (get_done_morton): below it all is final.
PassTargetSound ==
  [][(tree.lod = "none" /\ tree'.lod = "running") =>
       \A c \in Outstanding' : proc'.target <= Key(c)]_vars

\* When the processor says it is idle (wait_idle returns) after all files were
\* handed in, the terminal LOD pass is committed, and so is every chunk.
IdleMeansComplete ==
  (proc.idle /\ proc.added = Len(Batches) /\ \E f \in Files : tree.copies[f] > 0)
    => committed.watermark = Terminal /\ committed.copies = tree.copies

\* The same of a session that starts with an empty dataset.
FirstSessionComplete == crashes = 0 => IdleMeansComplete

\* A committed registry counts no insertion whose chunk is missing from the
\* trees committed with it, so an input that a resumed session skips is there.
CountedIsCommitted == \A f \in Files : committed.copies[f] >= committed.reg[f].inserted

\* No pass counts as done past what is committed, although checkpoints of cache
\* pressure commit in between (handle_index_write_done).
LodDoneIsCommitted == proc.lodDone <= committed.watermark

\* Inputs read in part when the snapshot was taken leave parts counted as added
\* and never as inserted; with them no session becomes idle.
Wedged ==
  /\ crashes > 0
  /\ preinit = {} /\ ~AllInserted(reg)
  /\ \A f \in Registered(reg) : reg[f].finished /\ reading[f] = "no"
  /\ \A c \in Parts : stage[c] \in {"unread", "counted"}

\* Files handed in are eventually done: the processor becomes idle, unless a
\* checkpoint failed or it resumed from inputs read in part.
BecomesIdle ==
  proc.added > 0 ~> (proc.idle \/ failures > 0 \/ Wedged)
=============================================================================
