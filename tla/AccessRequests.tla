--------------------------- MODULE AccessRequests ---------------------------
(***************************************************************************)
(* Reading a converted dataset: a dataset opens, region requests run as    *)
(* coroutines on its loop, and what they end with reaches the host through *)
(* the pump or dew_request_wait (access/, pump.cpp, tree_set.cpp).         *)
(*                                                                         *)
(* Threads: the host, which owns the handles and runs every callback; any  *)
(* thread, for cancel; the dataset loop, one callback at a time; the       *)
(* reader's loop under it (Land).  The decode jobs of a batch block the    *)
(* loop until they are done and are part of its step.                      *)
(*                                                                         *)
(* Abstractions.  A tree has one node in a query's frontier, so nodes are  *)
(* named by their trees, in the order of the walk.  A batch's reads land   *)
(* together, with the outcome the decoding will find; the values of        *)
(* attributes, zero where one can't be read, are left out.  The bound of   *)
(* 64 walks is out of reach: a walk is 8 trees deep at most.               *)
(***************************************************************************)
EXTENDS Naturals, Sequences, FiniteSets, SequencesExt

CONSTANTS
  Requests,     \* calls of dew_dataset_request_region
  Root,         \* the root tree
  Parent,       \* the tree above each, the root's being itself
  Wanted,       \* per request, the trees its box meets, in the order of the walk
  BatchNodes,   \* nodes read at once
  QuietClose,   \* the host closes only when no request is running
  Failing,      \* requests whose reads may fail
  OpenFails     \* whether a read of the opening may fail

Trees == DOMAIN Parent

ASSUME AccessAssumption ==
  /\ Root \in Trees /\ Parent \in [Trees -> Trees] /\ Parent[Root] = Root
  /\ Wanted \in [Requests -> Seq(Trees)]
  /\ \A r \in Requests : Root \in ToSet(Wanted[r]) /\ \A t \in ToSet(Wanted[r]) : Parent[t] \in ToSet(Wanted[r])
  /\ BatchNodes \in Nat \ {0} /\ Failing \subseteq Requests /\ {QuietClose, OpenFails} \subseteq BOOLEAN

VARIABLES
  state,      \* dew_dataset_state_t, the atomic
  announced,  \* announced_state
  open,       \* where co_open stands
  resident,   \* trees with tree_id_initialized
  status,     \* of each request, "none" before it is made
  run,        \* its coroutine
  io,         \* what that awaits from the reader
  result,     \* the nodes appended to its buffers
  held,       \* requests: the handles not released
  queue,      \* awaiting_dispatch
  told,       \* the status its callback was called with
  armed,      \* _armed
  woken,      \* the host was woken and has not polled since
  host,       \* what the host's thread is in
  close,      \* where ~dataset_impl_t stands
  aborted     \* a job was queued on the joined pool

vars == <<state, announced, open, resident, status, run, io, result, held, queue, told, armed,
          woken, host, close, aborted>>

datasetVars == <<state, announced, open, resident>>
workVars == <<status, run, io, result>>
wakeVars == <<queue, told, armed, woken>>

-----------------------------------------------------------------------------
(* The dataset loop. *)

Unsuspended == {"batch", "cas", "notify", "push", "fire", "wake"}
Announcing == {"store", "fire", "wake", "announce"}
LoopFree == close # "closed" /\ open.at \notin Announcing /\ \A r \in Requests : run[r].at \notin Unsuspended

\* Mutant: a walk that found trees to load takes what it has.
MutWalked(r, res) ==
  [at |-> "batch", ok |-> FALSE, todo |-> {},
   left |-> SelectSeq(Wanted[r], LAMBDA t : t \in res)]

\* co_walk_to_convergence, one walk: the missing trees it comes upon are to
\* be loaded; when there are none the frontier is read.
Walked(r, res) ==
  LET missing == {t \in ToSet(Wanted[r]) \ res : Parent[t] \in res}
  IN  [at |-> IF missing = {} THEN "batch" ELSE "trees", ok |-> FALSE, todo |-> missing,
       left |-> IF missing = {} THEN Wanted[r] ELSE <<>>]

Ended(r, ok) == [at |-> "cas", ok |-> ok, todo |-> {}, left |-> <<>>]

\* The loads of one walk go one by one, in its order; what another request has
\* brought in is not loaded again, and tree_set_t::load starts none while it
\* shuts down.
Loading(r) == Wanted[r][Min({i \in DOMAIN Wanted[r] : Wanted[r][i] \in run[r].todo})]

NextLoad(r, res) ==
  LET rest == run[r].todo \ res
      next == IF rest = {} THEN Walked(r, res) ELSE [run[r] EXCEPT !.todo = rest]
  IN  IF next.at = "trees" /\ close # "no" THEN Ended(r, FALSE) ELSE next

Goes(r, next) ==
  /\ run' = [run EXCEPT ![r] = next]
  /\ io' = [io EXCEPT ![r] = IF next.at \in {"trees", "read"} THEN "flying" ELSE "none"]

RunOnly == UNCHANGED <<state, announced, open, held, wakeVars, host, close>>

\* The posted callback starts run_region_request.
Start(r) ==
  /\ LoopFree /\ run[r].at = "posted"
  /\ LET next == Walked(r, resident)
     IN  Goes(r, IF next.at = "trees" /\ close # "no" THEN Ended(r, FALSE) ELSE next)
  /\ RunOnly /\ UNCHANGED <<resident, status, result, aborted>>

\* The reader finishes a read, or the reads of a batch; "bad" is a tree or a
\* position that can't be read or decoded.
Land(r) ==
  /\ io[r] = "flying" /\ close # "closed"
  /\ \E found \in {"ok"} \cup (IF r \in Failing THEN {"bad"} ELSE {}) : io' = [io EXCEPT ![r] = found]
  /\ RunOnly /\ UNCHANGED <<resident, status, run, result, aborted>>

\* tree_set_t::load goes on: the first to arrive installs the tree.
Loaded(r) ==
  /\ LoopFree /\ run[r].at = "trees" /\ io[r] \notin {"none", "flying"}
  /\ resident' = IF io[r] = "ok" THEN resident \cup {Loading(r)} ELSE resident
  /\ Goes(r, IF io[r] = "ok" THEN NextLoad(r, resident') ELSE Ended(r, FALSE))
  /\ RunOnly /\ UNCHANGED <<status, result, aborted>>

\* A batch begins: only here a cancel is noticed.
Batch(r) ==
  /\ run[r].at = "batch" /\ close # "closed"
  /\ Goes(r, CASE run[r].left = <<>> -> Ended(r, TRUE)
               [] run[r].left # <<>> /\ status[r] = "canceled" -> Ended(r, FALSE)
               [] OTHER -> [run[r] EXCEPT !.at = "read"])
  /\ RunOnly /\ UNCHANGED <<resident, status, result, aborted>>

Size(r) == IF Len(run[r].left) < BatchNodes THEN Len(run[r].left) ELSE BatchNodes
Joined == close \in {"stop", "barrier"}

\* All reads of the batch are in: its nodes are decoded by the pool and
\* appended in the order of the walk, up to the first that is bad (here the
\* last of the batch).
Decode(r) ==
  /\ LoopFree /\ run[r].at = "read" /\ io[r] \notin {"none", "flying"}
  /\ LET n == IF io[r] = "bad" THEN Size(r) - 1 ELSE Size(r)
     IN  result' = [result EXCEPT ![r] = @ \o SubSeq(run[r].left, 1, n)]
  /\ Goes(r, IF io[r] = "bad" THEN Ended(r, FALSE)
             ELSE [run[r] EXCEPT !.at = "batch", !.left = SubSeq(@, Size(r) + 1, Len(@))])
  /\ aborted' = (aborted \/ Joined)
  /\ RunOnly /\ UNCHANGED <<resident, status>>

-----------------------------------------------------------------------------
(* Ending a request: finish(), publish(). *)

\* Mutant: the coroutine's own end is stored over a cancel.
MutFinalStatus(r) == IF run[r].ok THEN "completed" ELSE "failed"

\* finish: a cancel that got in first stays.
FinalStatus(r) == IF status[r] # "pending" THEN status[r] ELSE IF run[r].ok THEN "completed" ELSE "failed"

Step(r, from, to) ==
  /\ run[r].at = from
  /\ run' = [run EXCEPT ![r].at = to]

Cas(r) ==
  /\ Step(r, "cas", "notify")
  /\ status' = [status EXCEPT ![r] = FinalStatus(r)]
  /\ UNCHANGED <<datasetVars, io, result, held, wakeVars, host, close, aborted>>

\* Mutant: nothing waits for wait_mutex.
MutMutexFree(r) == TRUE

\* wait_mutex is held from the look at the status to the sleep.
MutexFree(r) == ~(host.r = r /\ host.at \in {"wait", "about"})

\* Whoever sleeps on the request looks again.
Notified(r) == IF host.at = "asleep" /\ host.r = r THEN [host EXCEPT !.at = "wait"] ELSE host

\* wait_mutex is taken and given back before the notification.
Notify(r) ==
  /\ Step(r, "notify", "push") /\ MutexFree(r)
  /\ host' = Notified(r)
  /\ UNCHANGED <<datasetVars, status, io, result, held, wakeVars, close, aborted>>

Push(r) ==
  /\ Step(r, "push", "fire")
  /\ queue' = Append(queue, r)
  /\ UNCHANGED <<datasetVars, status, io, result, held, told, armed, woken, host, close, aborted>>

\* waker_t::fire: one exchange, then the callback unless it was raised.
Fire(r) ==
  /\ Step(r, "fire", IF armed THEN "gone" ELSE "wake")
  /\ armed' = TRUE
  /\ UNCHANGED <<datasetVars, status, io, result, held, queue, told, woken, host, close, aborted>>

Wake(r) ==
  /\ Step(r, "wake", "gone")
  /\ woken' = TRUE
  /\ UNCHANGED <<datasetVars, status, io, result, held, queue, told, armed, host, close, aborted>>

-----------------------------------------------------------------------------
(* Opening: co_open and set_state. *)

OpenOnly == UNCHANGED <<workVars, held, queue, told, host, close, aborted>>

\* One await of co_open: the probe, the index with its registry, the root.
NextAwait(at) == CASE at = "probe" -> "index" [] at = "index" -> "root" [] OTHER -> "store"

OpenStep ==
  /\ LoopFree /\ open.at \in {"probe", "index", "root"}
  /\ \E ok \in BOOLEAN :
       /\ ok \/ OpenFails
       /\ LET good == ok /\ ~(open.at = "index" /\ close # "no")
          IN  open' = IF good /\ open.at # "root" THEN [open EXCEPT !.at = NextAwait(@)]
                      ELSE [at |-> "store", to |-> IF good THEN "ready" ELSE "error"]
       /\ resident' = IF ok /\ open.at = "root" THEN {Root} ELSE resident
  /\ UNCHANGED <<state, announced, armed, woken>> /\ OpenOnly

\* set_state: the state, then the wake, then what dew_dataset_wait_ready sees.
SetState ==
  /\ open.at = "store" /\ close # "closed"
  /\ state' = open.to /\ open' = [open EXCEPT !.at = "fire"]
  /\ UNCHANGED <<announced, resident, armed, woken>> /\ OpenOnly

FireState ==
  /\ open.at = "fire"
  /\ open' = [open EXCEPT !.at = IF armed THEN "announce" ELSE "wake"] /\ armed' = TRUE
  /\ UNCHANGED <<state, announced, resident, woken>> /\ OpenOnly

WakeState ==
  /\ open.at = "wake"
  /\ open' = [open EXCEPT !.at = "announce"] /\ woken' = TRUE
  /\ UNCHANGED <<state, announced, resident, armed>> /\ OpenOnly

Announce ==
  /\ open.at = "announce"
  /\ open' = [open EXCEPT !.at = "done"] /\ announced' = state
  /\ UNCHANGED <<state, resident, armed, woken>> /\ OpenOnly

-----------------------------------------------------------------------------
(* The host. *)

\* Between calls, or inside a done callback.
HostCode == host.at \in {"idle", "callback"} /\ close = "no"
Canceled(S) == [r \in Requests |-> IF r \in S /\ status[r] = "pending" THEN "canceled" ELSE status[r]]

RequestRegion(r) ==
  /\ HostCode /\ status[r] = "none" /\ state = "ready"
  /\ status' = [status EXCEPT ![r] = "pending"]
  /\ run' = [run EXCEPT ![r].at = "posted"]
  /\ held' = held \cup {r}
  /\ UNCHANGED <<datasetVars, io, result, wakeVars, host, close, aborted>>

\* dew_request_cancel, from any thread: what sleeps on the request is
\* notified, but wait_mutex is not taken.
Cancel(r) ==
  /\ r \in held /\ status[r] = "pending" /\ close = "no"
  /\ status' = Canceled({r})
  /\ host' = Notified(r)
  /\ UNCHANGED <<datasetVars, run, io, result, held, wakeVars, close, aborted>>

\* dew_request_release: canceled, and out of both lists of the dataset.
Release(r) ==
  /\ HostCode /\ r \in held
  /\ status' = Canceled({r})
  /\ held' = held \ {r}
  /\ queue' = RemoveFirst(queue, r)
  /\ UNCHANGED <<datasetVars, run, io, result, told, armed, woken, host, close, aborted>>

\* What its thread is in: a call, the request it is about, what is to be called back.
Free == [at |-> "idle", r |-> CHOOSE r \in Requests : TRUE, batch |-> <<>>]
In(at, batch) == [Free EXCEPT !.at = at, !.batch = batch]

HostOnly == UNCHANGED <<datasetVars, workVars, held, close, aborted>>

\* Mutant: the poll does not rearm the wake.
MutRearmed == armed
Rearmed == FALSE

\* dew_pump_poll, when the host was woken or, driven by a timer, found
\* something pending: the wake is rearmed first.
Poll ==
  /\ host.at = "idle" /\ close = "no" /\ (woken \/ queue # <<>>)
  /\ armed' = Rearmed /\ woken' = FALSE
  /\ host' = In("swap", <<>>)
  /\ UNCHANGED <<queue, told>> /\ HostOnly

\* drain_fn takes the queue, then calls back for one request after another.
Swap ==
  /\ host.at = "swap"
  /\ host' = In("drain", queue) /\ queue' = <<>>
  /\ UNCHANGED <<told, armed, woken>> /\ HostOnly

\* claim_callback lets the callback of a request be called only once.
Claimed(r, batch) ==
  IF told[r] = "none"
  THEN told' = [told EXCEPT ![r] = status[r]] /\ host' = In("callback", batch)
  ELSE told' = told /\ host' = In("drain", batch)

Drain ==
  /\ host.at = "drain"
  /\ IF host.batch = <<>> THEN host' = Free /\ told' = told
     ELSE Claimed(Head(host.batch), Tail(host.batch))
  /\ UNCHANGED <<queue, armed, woken>> /\ HostOnly

CallbackReturns ==
  /\ host.at = "callback"
  /\ host' = [host EXCEPT !.at = "drain"]
  /\ UNCHANGED wakeVars /\ HostOnly

\* dew_request_wait: under wait_mutex the status is looked at, then slept on.
StartWait(r) ==
  /\ host.at = "idle" /\ close = "no" /\ r \in held /\ told[r] = "none"
  /\ host' = [Free EXCEPT !.at = "wait", !.r = r]
  /\ UNCHANGED wakeVars /\ HostOnly

Look ==
  /\ host.at = "wait"
  /\ host' = [host EXCEPT !.at = IF status[host.r] = "pending" THEN "about" ELSE "waited"]
  /\ UNCHANGED wakeVars /\ HostOnly

Sleep ==
  /\ host.at = "about"
  /\ host' = [host EXCEPT !.at = "asleep"]
  /\ UNCHANGED wakeVars /\ HostOnly

TimesOut ==
  /\ host.at = "asleep"
  /\ host' = [host EXCEPT !.at = "waited"]
  /\ UNCHANGED wakeVars /\ HostOnly

\* A terminal request is called back here, unless a poll has done it.
Waited ==
  /\ host.at = "waited"
  /\ IF status[host.r] = "pending" THEN host' = Free /\ told' = told
     ELSE Claimed(host.r, <<>>)
  /\ UNCHANGED <<queue, armed, woken>> /\ HostOnly

-----------------------------------------------------------------------------
(* dew_dataset_close: ~dataset_impl_t on the host's thread. *)

CloseOnly == UNCHANGED <<datasetVars, run, io, result, told, armed, woken, host, aborted>>
Running(r) == run[r].at \notin {"none", "gone"}

\* Out of the pump's sources, and no tree load starts any more.
Close ==
  /\ host.at = "idle" /\ close = "no"
  /\ QuietClose => \A r \in Requests : ~Running(r)
  /\ close' = "cancel"
  /\ UNCHANGED <<status, held, queue>> /\ CloseOnly

CancelAll ==
  /\ close = "cancel" /\ close' = "join"
  /\ status' = Canceled(held) /\ held' = {} /\ queue' = <<>>
  /\ CloseOnly

JoinPool ==
  /\ close = "join" /\ close' = "stop"
  /\ UNCHANGED <<status, held, queue>> /\ CloseOnly

\* stop_loop waits for the reads in flight.
StopReader ==
  /\ close = "stop" /\ close' = "barrier"
  /\ \A r \in Requests : io[r] # "flying"
  /\ UNCHANGED <<status, held, queue>> /\ CloseOnly

\* run_on_loop_and_wait: what was posted before it has run.
Barrier ==
  /\ close = "barrier" /\ close' = "closed"
  /\ LoopFree /\ \A r \in Requests : run[r].at # "posted" /\ io[r] \in {"none", "flying"}
  /\ UNCHANGED <<status, held, queue>> /\ CloseOnly

-----------------------------------------------------------------------------
Init ==
  /\ state = "opening" /\ announced = "opening"
  /\ open = [at |-> "probe", to |-> "opening"] /\ resident = {}
  /\ status = [r \in Requests |-> "none"]
  /\ run = [r \in Requests |-> [at |-> "none", ok |-> FALSE, todo |-> {}, left |-> <<>>]]
  /\ io = [r \in Requests |-> "none"] /\ result = [r \in Requests |-> <<>>]
  /\ held = {} /\ queue = <<>> /\ told = [r \in Requests |-> "none"]
  /\ armed = FALSE /\ woken = FALSE
  /\ host = Free
  /\ close = "no" /\ aborted = FALSE

Finish(r) == Cas(r) \/ Notify(r) \/ Push(r) \/ Fire(r) \/ Wake(r)
Coroutine(r) == Start(r) \/ Loaded(r) \/ Batch(r) \/ Decode(r) \/ Finish(r)
Opening == OpenStep \/ SetState \/ FireState \/ WakeState \/ Announce
InCall == Swap \/ Drain \/ CallbackReturns \/ Look \/ Sleep \/ Waited
Closing == CancelAll \/ JoinPool \/ StopReader \/ Barrier

Next ==
  \/ \E r \in Requests : Land(r) \/ Coroutine(r)
  \/ Opening \/ InCall \/ Closing
  \/ Poll \/ TimesOut \/ Close
  \/ \E r \in Requests : RequestRegion(r) \/ Cancel(r) \/ Release(r) \/ StartWait(r)

\* The loops run, reads end, the host's calls return, and it polls when it
\* was woken.  Nothing says that it cancels, releases, waits, or closes.
Fairness ==
  /\ \A r \in Requests : WF_vars(Land(r) \/ Coroutine(r))
  /\ WF_vars(Opening) /\ WF_vars(InCall \/ Closing) /\ WF_vars(woken /\ Poll)

Spec == Init /\ [][Next]_vars /\ Fairness

-----------------------------------------------------------------------------
(* Properties. *)

Statuses == {"none", "pending", "completed", "canceled", "failed"}
TypeOK ==
  /\ {state, announced} \subseteq {"opening", "ready", "error"} /\ resident \subseteq Trees
  /\ status \in [Requests -> Statuses] /\ told \in [Requests -> Statuses]
  /\ io \in [Requests -> {"none", "flying", "ok", "bad"}]
  /\ held \subseteq Requests /\ ToSet(queue) \subseteq Requests
  /\ {armed, woken, aborted} \subseteq BOOLEAN

\* The status a callback was told is the request's for good: dew_request_status
\* is idempotent, whatever cancel, the coroutine's end and the two ways of
\* delivery make of each other (cancel, finish, claim_callback).
ToldIsFinal ==
  \A r \in Requests : told[r] # "none" => told[r] = status[r] /\ told[r] # "pending"

\* A completed request has the nodes of its region, each one and in the order
\* of the walk, whatever was resident when it began, whoever loaded the trees
\* and however its reads were batched (co_walk_to_convergence,
\* run_region_request).
ResultWhole ==
  \A r \in Requests : status[r] = "completed" => result[r] = Wanted[r]

\* Every request is called back, by the poll its wake asks for or by a wait,
\* unless the host released it or closes the dataset (publish, waker_t::fire,
\* dew_pump_poll).
Delivered ==
  \A r \in Requests : status[r] # "none" ~> (told[r] # "none" \/ r \notin held \/ close # "no")

\* dew_request_wait does not sleep through the end of its request.
WaitReturns == host.at = "asleep" ~> host.at # "asleep"

\* No job is queued on the pool once it was joined, for that aborts
\* (loop_quiesce.hpp:20-28).
NoEnqueueAfterJoin == ~aborted

\* "A release means no callback is wanted" (query_api.cpp:231).
ReleasedIsSilent == [][\A r \in Requests : told'[r] # told[r] => r \in held]_vars
=============================================================================
