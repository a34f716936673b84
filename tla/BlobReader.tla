----------------------------- MODULE BlobReader -----------------------------
(***************************************************************************)
(* The read side of the storage (blob_reader_t): the two LRU caches, the   *)
(* pipe to the storage loop, the reads in flight there, the decompression  *)
(* jobs on the shared thread pool, the four ways of waiting for a read,    *)
(* the writer that reuses freed offsets, and the teardown of the loop.     *)
(*                                                                         *)
(* Threads: the storage loop (Dispatch, Land, StartWrite, EndWrite), the   *)
(* file system or the network under it (Fetch), the pool workers, and the  *)
(* callers of read().  A request is owned by one of                        *)
(*   Lod    a pool job that reads inline and blocks in wait_for_read;      *)
(*   Trees  the tree loop, which parks a pool job on the read;             *)
(*   Awaits a coroutine that co_awaits it (co_read);                       *)
(*   Polls  the render thread, which polls is_done and may cancel.         *)
(*                                                                         *)
(* Abstractions.  Blobs have size one, so a cache holds as many entries as *)
(* its size.  Every blob is compressed (an uncompressed hit is an inline   *)
(* hit without the decoded cache).  The bytes at an offset are a version   *)
(* number.  The completion hook, which runs before the request is          *)
(* published and only enqueues, is left out, as are the counters.          *)
(***************************************************************************)
EXTENDS Integers, Sequences, FiniteSets, SequencesExt

CONSTANTS
  Keys,         \* (file_id, offset) of a blob
  Recycled,     \* those the allocator hands out again
  Lod, Trees, Awaits, Polls,
  Workers,      \* threads of the pool
  CacheSizes,   \* the sizes the two caches may be given
  MayFail,      \* whether a backend read may fail
  NoBytes,      \* the result of a read that failed or was cancelled
  MaxVersion    \* bound on the writes per offset

Requests == Lod \cup Trees \cup Awaits \cup Polls

ASSUME BlobReaderAssumption ==
  /\ Keys # {} /\ Recycled \subseteq Keys /\ Workers \in Nat \ {0} /\ CacheSizes \subseteq Nat /\ CacheSizes # {}
  /\ MayFail \in BOOLEAN /\ MaxVersion \in Nat /\ NoBytes \notin Int
  /\ \A A, B \in {Lod, Trees, Awaits, Polls} : A # B => A \cap B = {}

VARIABLES
  store,    \* the version at each offset
  writing,  \* offsets whose write_allocated has not returned
  overtaken, \* offsets whose last rewrite began while a read of them was left
  cached,   \* _read_cache, most recently used first
  decoded,  \* _decompressed_cache
  cacheMax, decodedMax, \* their sizes
  req,      \* the requests
  pipe,     \* _read_request_pipe
  pool,     \* the queue of the thread pool
  running,  \* the jobs its workers are in
  wait,     \* the co_await of each request
  stop      \* stop_loop

vars == <<store, writing, overtaken, cached, decoded, cacheMax, decodedMax, req, pipe, pool,
          running, wait, stop>>

Job == [kind : {"lod", "decode", "wait"}, req : Requests]
Idle == [pc |-> "new", key |-> CHOOSE k \in Keys : TRUE, want |-> 0, got |-> 0, stale |-> FALSE]

Init ==
  /\ store = [k \in Keys |-> 0] /\ writing = {} /\ overtaken = {}
  /\ cached = <<>> /\ decoded = <<>> /\ cacheMax \in CacheSizes /\ decodedMax \in CacheSizes
  /\ req = [r \in Requests |-> Idle] /\ pipe = <<>>
  /\ pool = <<>> /\ running = {}
  /\ wait = [r \in Requests |-> "no"] /\ stop = "no"

-----------------------------------------------------------------------------
(***************************************************************************)
(* lru_cache_t: entries [key, val], the front the most recently used.      *)
(***************************************************************************)
Has(cache, k) == \E i \in DOMAIN cache : cache[i].key = k
Place(cache, k) == CHOOSE i \in DOMAIN cache : cache[i].key = k
Val(cache, k) == cache[Place(cache, k)].val
Erase(cache, k) == IF Has(cache, k) THEN RemoveAt(cache, Place(cache, k)) ELSE cache

\* get: a hit is promoted to the front unless the blob was read to be used once.
Promote(cache, k, hot) ==
  IF hot THEN <<[key |-> k, val |-> Val(cache, k)]>> \o Erase(cache, k) ELSE cache

\* evict
Shrink(cache, max) == SubSeq(cache, 1, IF Len(cache) < max THEN Len(cache) ELSE max)

(***************************************************************************)
(* put: a new entry goes to the front, or to the back when it is not hot,  *)
(* where it is the first to be evicted; a known one is updated in place.   *)
(***************************************************************************)
Put(cache, k, v, hot, max) ==
  LET new == [key |-> k, val |-> v]
      all == IF hot THEN <<new>> \o Erase(cache, k)
             ELSE IF Has(cache, k) THEN [cache EXCEPT ![Place(cache, k)] = new]
             ELSE Append(cache, new)
  IN  Shrink(all, max)

(***************************************************************************)
(* The oldest version a read issued now may return.  A read that lands     *)
(* after the offset was written again puts the old bytes back into the     *)
(* cache; until a rewrite of the offset finds no read of it left, nothing  *)
(* is promised of what it holds.                                           *)
(***************************************************************************)
Promised(k) == IF k \in overtaken THEN 0 ELSE store[k]

\* LOD jobs consume a unit whole, or take a subset of it.
HotChoices(r) == IF r \in Lod THEN BOOLEAN ELSE {TRUE}
-----------------------------------------------------------------------------
(***************************************************************************)
(* complete_read_request: publishes _done and takes the continuation.  Of  *)
(* a request that is done, only whether its bytes were stale is kept.      *)
(***************************************************************************)
Completed(q, r, v) ==
  [q EXCEPT ![r] = [Idle EXCEPT !.pc = "done", !.stale = v # NoBytes /\ v < q[r].want]]

\* A suspended awaiter is resumed on its own loop.
Resumed(r) == [wait EXCEPT ![r] = IF @ = "suspended" THEN "resumed" ELSE @]

Inline(r) == r \in Lod \cup Awaits

(***************************************************************************)
(* read(): a decoded hit completes; a hit of compressed bytes is           *)
(* decompressed by the caller when it asked for that, else by a pool job;  *)
(* a miss goes to the storage loop.  more is what the caller queues on the *)
(* pool right after.                                                       *)
(***************************************************************************)
ReadFrom(r, k, more) ==
  LET q == [req EXCEPT ![r] = [@ EXCEPT !.key = k, !.want = Promised(k)]] IN
  /\ stop = "no" /\ k \notin writing
  /\ \/ /\ Inline(r) /\ Has(decoded, k)
        /\ decoded' = Promote(decoded, k, TRUE)
        /\ req' = Completed(q, r, Val(decoded, k))
        /\ pool' = pool \o more
        /\ UNCHANGED <<cached, pipe>>
     \/ /\ ~(Inline(r) /\ Has(decoded, k)) /\ Has(cached, k)
        /\ \E hot \in HotChoices(r) : cached' = Promote(cached, k, hot)
        /\ req' = [q EXCEPT ![r].pc = IF Inline(r) THEN "inline" ELSE "decode",
                            ![r].got = Val(cached, k)]
        /\ pool' = (IF Inline(r) THEN pool ELSE Append(pool, [kind |-> "decode", req |-> r])) \o more
        /\ UNCHANGED <<decoded, pipe>>
     \/ /\ ~(Inline(r) /\ Has(decoded, k)) /\ ~Has(cached, k)
        /\ req' = [q EXCEPT ![r].pc = "queued"]
        /\ pipe' = Append(pipe, r)
        /\ pool' = pool \o more
        /\ UNCHANGED <<cached, decoded>>
  /\ UNCHANGED <<store, writing, overtaken, cacheMax, decodedMax, wait, stop>>

\* The inline decompression: the decoded bytes are put, and the request completes.
InlineDecode(r) ==
  /\ req[r].pc = "inline"
  /\ \E hot \in HotChoices(r) :
       decoded' = Put(decoded, req[r].key, req[r].got, hot, decodedMax)
  /\ req' = Completed(req, r, req[r].got)
  /\ UNCHANGED <<store, writing, overtaken, cached, cacheMax, decodedMax, pipe, pool, running, wait, stop>>

EnqueueLod(r) ==
  /\ req[r].pc = "new" /\ stop = "no"
  /\ req' = [req EXCEPT ![r].pc = "pooled"]
  /\ pool' = Append(pool, [kind |-> "lod", req |-> r])
  /\ UNCHANGED <<store, writing, overtaken, cached, decoded, cacheMax, decodedMax, pipe, running, wait, stop>>

\* request_trees_batch: the read is issued, then a job that waits for it is queued.
ReadTree(r) ==
  /\ req[r].pc = "new"
  /\ \E k \in Keys : ReadFrom(r, k, <<[kind |-> "wait", req |-> r]>>)
  /\ UNCHANGED running

ReadOther(r) ==
  /\ req[r].pc = "new"
  /\ \E k \in Keys : ReadFrom(r, k, <<>>)
  /\ UNCHANGED running

-----------------------------------------------------------------------------
(***************************************************************************)
(* The pool: a free worker takes the job at the head of the queue.         *)
(***************************************************************************)
Free == Cardinality(running) < Workers /\ pool # <<>>

StartLod ==
  /\ Free /\ Head(pool).kind = "lod"
  /\ running' = running \cup {Head(pool)}
  /\ pool' = Tail(pool)
  /\ UNCHANGED <<store, writing, overtaken, cached, decoded, cacheMax, decodedMax, req, pipe, wait, stop>>

\* The job of a Lod request runs read() on its worker.
ReadLod(r) ==
  /\ [kind |-> "lod", req |-> r] \in running /\ req[r].pc = "pooled"
  /\ \E k \in Keys : ReadFrom(r, k, <<>>)
  /\ UNCHANGED running

StartJob ==
  /\ Free /\ Head(pool).kind # "lod"
  /\ running' = running \cup {Head(pool)}
  /\ pool' = Tail(pool)
  /\ UNCHANGED <<store, writing, overtaken, cached, decoded, cacheMax, decodedMax, req, pipe, wait, stop>>

Decode(r) ==
  /\ [kind |-> "decode", req |-> r] \in running
  /\ running' = running \ {[kind |-> "decode", req |-> r]}
  /\ req' = Completed(req, r, req[r].got)
  /\ UNCHANGED <<store, writing, overtaken, cached, decoded, cacheMax, decodedMax, pipe, pool, wait, stop>>

\* wait_for_read returns.
Unblock(j) ==
  /\ j \in running /\ j.kind # "decode" /\ req[j.req].pc = "done"
  /\ running' = running \ {j}
  /\ UNCHANGED <<store, writing, overtaken, cached, decoded, cacheMax, decodedMax, req, pipe, pool, wait, stop>>
-----------------------------------------------------------------------------
(***************************************************************************)
(* The awaiter: await_ready and await_suspend each look at _done under the *)
(* mutex of the request.                                                   *)
(***************************************************************************)
AwaitReady(r) ==
  /\ wait[r] = "no" /\ req[r].pc \notin {"new", "inline"}
  /\ wait' = [wait EXCEPT ![r] = IF req[r].pc = "done" THEN "released" ELSE "ready"]
  /\ UNCHANGED <<store, writing, overtaken, cached, decoded, cacheMax, decodedMax, req, pipe, pool, running, stop>>

\* Mutant: await_suspend always suspends.
MutAwaitSuspend(r) ==
  /\ wait[r] = "ready"
  /\ wait' = [wait EXCEPT ![r] = "suspended"]
  /\ UNCHANGED <<store, writing, overtaken, cached, decoded, cacheMax, decodedMax, req, pipe, pool, running, stop>>

AwaitSuspend(r) ==
  /\ wait[r] = "ready"
  /\ wait' = [wait EXCEPT ![r] = IF req[r].pc = "done" THEN "released" ELSE "suspended"]
  /\ UNCHANGED <<store, writing, overtaken, cached, decoded, cacheMax, decodedMax, req, pipe, pool, running, stop>>

AwaitResume(r) ==
  /\ wait[r] = "resumed"
  /\ wait' = [wait EXCEPT ![r] = "released"]
  /\ UNCHANGED <<store, writing, overtaken, cached, decoded, cacheMax, decodedMax, req, pipe, pool, running, stop>>
-----------------------------------------------------------------------------
(***************************************************************************)
(* do_read_request on the storage loop: it counts itself in flight and     *)
(* awaits the backend; back on the loop the bytes go into the cache, also  *)
(* for a cancelled request, which is not decompressed.                     *)
(***************************************************************************)
Dispatch ==
  /\ pipe # <<>>
  /\ req' = [req EXCEPT ![Head(pipe)].pc = "reading"]
  /\ pipe' = Tail(pipe)
  /\ UNCHANGED <<store, writing, overtaken, cached, decoded, cacheMax, decodedMax, pool, running, wait, stop>>

Fetch(r) ==
  /\ req[r].pc = "reading"
  /\ req' = [req EXCEPT ![r].pc = "fetched", ![r].got = store[req[r].key]]
  /\ UNCHANGED <<store, writing, overtaken, cached, decoded, cacheMax, decodedMax, pipe, pool, running, wait, stop>>

FetchFails(r) ==
  /\ MayFail /\ req[r].pc = "reading"
  /\ req' = Completed(req, r, NoBytes)
  /\ wait' = Resumed(r)
  /\ UNCHANGED <<store, writing, overtaken, cached, decoded, cacheMax, decodedMax, pipe, pool, running, stop>>

Land(r) ==
  /\ req[r].pc = "fetched"
  /\ \E hot \in HotChoices(r) : cached' = Put(cached, req[r].key, req[r].got, hot, cacheMax)
  /\ \E cancelled \in IF r \in Polls THEN BOOLEAN ELSE {FALSE} :
       req' = Completed(req, r, IF cancelled THEN NoBytes ELSE req[r].got)
  /\ wait' = Resumed(r)
  /\ UNCHANGED <<store, writing, overtaken, decoded, cacheMax, decodedMax, pipe, pool, running, stop>>

InFlight == {r \in Requests : req[r].pc \in {"reading", "fetched"}}

\* set_read_cache_size: a smaller cache is evicted down to its new size.
SetCacheSize(n) ==
  /\ cacheMax # n
  /\ cacheMax' = n /\ cached' = Shrink(cached, n)
  /\ UNCHANGED <<store, writing, overtaken, decoded, decodedMax, req, pipe, pool, running, wait, stop>>

\* set_decompressed_cache_size
SetDecodedSize(n) ==
  /\ decodedMax # n
  /\ decodedMax' = n /\ decoded' = Shrink(decoded, n)
  /\ UNCHANGED <<store, writing, overtaken, cached, cacheMax, req, pipe, pool, running, wait, stop>>
-----------------------------------------------------------------------------
(***************************************************************************)
(* do_write of a recycled offset, on the storage loop: invalidate, then    *)
(* write, whether or not reads of the offset are still under way.  The     *)
(* tree that reads the new blob learns of it when the write has returned.  *)
(***************************************************************************)
Outstanding(k) == \E r \in Requests : req[r].key = k /\ req[r].pc \notin {"new", "pooled", "done"}

\* Mutant: the decoded cache keeps its entry.
MutInvalidated(cache, k) == cache

Invalidated(cache, k) == Erase(cache, k)

StartWrite(k) ==
  /\ k \notin writing /\ store[k] < MaxVersion /\ stop = "no"
  /\ writing' = writing \cup {k}
  /\ overtaken' = IF Outstanding(k) THEN overtaken \cup {k} ELSE overtaken \ {k}
  /\ cached' = Erase(cached, k) /\ decoded' = Invalidated(decoded, k)
  /\ UNCHANGED <<store, cacheMax, decodedMax, req, pipe, pool, running, wait, stop>>

EndWrite(k) ==
  /\ k \in writing
  /\ store' = [store EXCEPT ![k] = @ + 1]
  /\ writing' = writing \ {k}
  /\ UNCHANGED <<overtaken, cached, decoded, cacheMax, decodedMax, req, pipe, pool, running, wait, stop>>
-----------------------------------------------------------------------------
(***************************************************************************)
(* stop_loop, after the pool was joined and the waiting coroutines were    *)
(* served: a barrier behind the queued requests, a wait until no read is   *)
(* in flight, and only then the backend is destroyed.                      *)
(***************************************************************************)
StopLoop ==
  /\ stop = "no" /\ pool = <<>> /\ running = {} /\ writing = {}
  /\ \A r \in Requests : req[r].pc \in {"new", "done"} \/ r \in Polls
  /\ \A r \in Awaits : wait[r] \in {"no", "released"}
  /\ stop' = "barrier"
  /\ UNCHANGED <<store, writing, overtaken, cached, decoded, cacheMax, decodedMax, req, pipe, pool, running, wait>>

\* Mutant: the count is read without the barrier.
MutBarrier ==
  /\ stop = "barrier"
  /\ stop' = "draining"
  /\ UNCHANGED <<store, writing, overtaken, cached, decoded, cacheMax, decodedMax, req, pipe, pool, running, wait>>

Barrier ==
  /\ stop = "barrier" /\ pipe = <<>>
  /\ stop' = "draining"
  /\ UNCHANGED <<store, writing, overtaken, cached, decoded, cacheMax, decodedMax, req, pipe, pool, running, wait>>

DestroyBackend ==
  /\ stop = "draining" /\ InFlight = {}
  /\ stop' = "gone"
  /\ UNCHANGED <<store, writing, overtaken, cached, decoded, cacheMax, decodedMax, req, pipe, pool, running, wait>>

\* What the loops, the backend and the workers do of themselves.
Progress ==
  \/ \E r \in Lod : ReadLod(r)
  \/ \E r \in Requests : InlineDecode(r) \/ Decode(r) \/ Fetch(r) \/ FetchFails(r) \/ Land(r)
  \/ \E r \in Awaits : AwaitReady(r) \/ AwaitSuspend(r) \/ AwaitResume(r)
  \/ StartLod \/ StartJob \/ \E j \in Job : Unblock(j)
  \/ Dispatch \/ \E k \in Recycled : EndWrite(k)
  \/ Barrier \/ DestroyBackend

Next ==
  \/ Progress
  \/ \E r \in Lod : EnqueueLod(r)
  \/ \E r \in Trees : ReadTree(r)
  \/ \E r \in Awaits \cup Polls : ReadOther(r)
  \/ \E n \in CacheSizes : SetCacheSize(n) \/ SetDecodedSize(n)
  \/ \E k \in Recycled : StartWrite(k)
  \/ StopLoop

(***************************************************************************)
(* The threads run: as long as one of them has something to do, one of     *)
(* them does it.  Nobody has to issue a read, write, resize or stop.       *)
(***************************************************************************)
Fairness == WF_vars(Progress)

Spec == Init /\ [][Next]_vars /\ Fairness
-----------------------------------------------------------------------------
(***************************************************************************)
(* Properties.                                                             *)
(***************************************************************************)
Entry == [key : Keys, val : 0 .. MaxVersion]

Reading == [pc : {"new", "pooled", "queued", "reading", "fetched", "inline", "decode", "done"},
            key : Keys, want : 0 .. MaxVersion, got : 0 .. MaxVersion, stale : BOOLEAN]

\* Every variable ranges over the values the code's fields can hold.
TypeOK ==
  /\ store \in [Keys -> 0 .. MaxVersion]
  /\ writing \subseteq {k \in Keys : store[k] < MaxVersion} /\ overtaken \subseteq Keys
  /\ cached \in Seq(Entry) /\ decoded \in Seq(Entry)
  /\ {cacheMax, decodedMax} \subseteq CacheSizes
  /\ req \in [Requests -> Reading]
  /\ pipe \in Seq(Requests) /\ pool \in Seq(Job) /\ running \subseteq Job
  /\ wait \in [Requests -> {"no", "ready", "suspended", "resumed", "released"}]
  /\ stop \in {"no", "barrier", "draining", "gone"}

(***************************************************************************)
(* No read returns bytes older than what the offset held when it was       *)
(* issued, whatever reads were under way when the offset was written       *)
(* again; excepted are the reads of an offset that was itself being read   *)
(* then, until a rewrite that finds no read of it left.                    *)
(* (invalidate and do_write, which waits for nobody)                       *)
(***************************************************************************)
FreshRead == \A r \in Requests : ~req[r].stale

(***************************************************************************)
(* The backend is destroyed only when no read holds it or may still come   *)
(* to hold it, with requests queued and cancelled ones in flight.          *)
(* (stop_loop: the barrier and the wait)                                   *)
(***************************************************************************)
BackendOutlivesReads == stop = "gone" => InFlight = {} /\ pipe = <<>>

Served(r) ==
  /\ req[r].pc = "done"
  /\ r \in Awaits => wait[r] = "released"
  /\ \A j \in running \cup {pool[i] : i \in DOMAIN pool} : j.req # r

(***************************************************************************)
(* Every read that was asked for ends, whoever waits for it is released,   *)
(* and the pool never fills up with jobs that wait for each other: a       *)
(* completion that races the suspension of its awaiter is not lost.  (Each *)
(* request is issued once, so it is enough that again and again nobody is  *)
(* left waiting; await_suspend, decompress_inline, the FIFO pool.)         *)
(***************************************************************************)
ReadersReleased == []<>(\A r \in Requests : req[r].pc = "new" \/ Served(r))
=============================================================================
