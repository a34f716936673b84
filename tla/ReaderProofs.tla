---------------------------- MODULE ReaderProofs ----------------------------
(***************************************************************************)
(* Theorems about BlobReader, for any number of blobs, readers, workers    *)
(* and sizes of the caches, with or without failing reads.                 *)
(***************************************************************************)
EXTENDS BlobReader, SequenceTheorems, TLAPS

-----------------------------------------------------------------------------
(***************************************************************************)
(* The caches: what erasing, shrinking, promoting and putting leave.       *)
(***************************************************************************)
\* No two entries of a cache have the same key.
Single(cache) == \A i, j \in DOMAIN cache : cache[i].key = cache[j].key => i = j

\* Every entry of new is one of old.
Within(new, old) == \A i \in DOMAIN new : \E j \in DOMAIN old : new[i] = old[j]

\* No entry is about k.
Without(cache, k) == \A i \in DOMAIN cache : cache[i].key # k

LEMMA PlaceFacts ==
  ASSUME NEW cache \in Seq(Entry), NEW k, Has(cache, k)
  PROVE  /\ Place(cache, k) \in 1 .. Len(cache)
         /\ cache[Place(cache, k)].key = k
<1>1. PICK i \in 1 .. Len(cache) : cache[i].key = k
  BY LenProperties DEF Has
<1>2. DOMAIN cache = 1 .. Len(cache)
  BY LenProperties
<1> QED
  BY <1>1, <1>2, Zenon DEF Place

LEMMA EraseFacts ==
  ASSUME NEW cache \in Seq(Entry), NEW k
  PROVE  /\ Erase(cache, k) \in Seq(Entry)
         /\ Within(Erase(cache, k), cache)
         /\ Single(cache) => Single(Erase(cache, k)) /\ Without(Erase(cache, k), k)
<1>1. CASE ~Has(cache, k)
  <2>1. Erase(cache, k) = cache
    BY <1>1, Zenon DEF Erase
  <2>2. Without(cache, k)
    BY <1>1, Zenon DEF Has, Without
  <2> QED
    BY <2>1, <2>2, Zenon DEF Within
<1>2. CASE Has(cache, k)
  <2> DEFINE p == Place(cache, k)
             a == SubSeq(cache, 1, p - 1)
             b == SubSeq(cache, p + 1, Len(cache))
             e == Erase(cache, k)
  <2>1. p \in 1 .. Len(cache) /\ cache[p].key = k /\ Len(cache) \in Nat
    BY <1>2, PlaceFacts, LenProperties
  <2>2. e = a \o b
    BY <1>2, Zenon DEF Erase, RemoveAt
  <2> HIDE DEF p
  <2>3. \A i \in 1 .. Len(cache) : cache[i] \in Entry
    BY ElementOfSeq
  <2>4. /\ a \in Seq(Entry) /\ Len(a) = p - 1
        /\ \A i \in 1 .. (p - 1) : a[i] = cache[i]
    <3>1. \A i \in 1 .. (p - 1) : cache[i] \in Entry
      BY <2>1, <2>3
    <3> QED
      BY <2>1, <3>1, SubSeqProperties, SMTT(30)
  <2>5. /\ b \in Seq(Entry) /\ Len(b) = Len(cache) - p
        /\ \A i \in 1 .. (Len(cache) - p) : b[i] = cache[p + i]
    <3>1. \A i \in (p + 1) .. Len(cache) : cache[i] \in Entry
      BY <2>1, <2>3
    <3> QED
      BY <2>1, <3>1, SubSeqProperties, SMTT(30)
  <2> HIDE DEF a, b, e
  <2>6. /\ e \in Seq(Entry) /\ Len(e) = Len(cache) - 1
        /\ \A i \in 1 .. (Len(cache) - 1) : e[i] = IF i =< p - 1 THEN a[i] ELSE b[i - (p - 1)]
    <3>1. /\ a \o b \in Seq(Entry)
          /\ Len(a \o b) = Len(a) + Len(b)
          /\ \A i \in 1 .. Len(a) + Len(b) : (a \o b)[i] = IF i =< Len(a) THEN a[i] ELSE b[i - Len(a)]
      BY <2>4, <2>5, ConcatProperties, Zenon
    <3>2. e = a \o b
      BY <2>2 DEF a, b, e
    <3>3. Len(a) + Len(b) = Len(cache) - 1
      BY <2>1, <2>4, <2>5
    <3> QED
      BY <2>4, <3>1, <3>2, <3>3, Zenon
  <2>7. \A i \in 1 .. (Len(cache) - 1) : e[i] = IF i < p THEN cache[i] ELSE cache[i + 1]
    BY <2>1, <2>4, <2>5, <2>6
  <2>8. DOMAIN e = 1 .. (Len(cache) - 1) /\ DOMAIN cache = 1 .. Len(cache)
    BY <2>1, <2>6, LenProperties
  <2>9. Within(e, cache)
    BY <2>1, <2>7, <2>8 DEF Within
  <2>10. Single(cache) => Single(e)
    <3>1. SUFFICES ASSUME Single(cache), NEW i \in DOMAIN e, NEW j \in DOMAIN e, e[i].key = e[j].key
                   PROVE  i = j
      BY DEF Single
    <3> DEFINE at(n) == IF n < p THEN n ELSE n + 1
    <3>2. at(i) \in DOMAIN cache /\ at(j) \in DOMAIN cache /\ e[i] = cache[at(i)] /\ e[j] = cache[at(j)]
      BY <2>1, <2>7, <2>8, <3>1
    <3>3. at(i) = at(j)
      <4> HIDE DEF at
      <4> QED BY <3>1, <3>2, Zenon DEF Single
    <3> QED
      BY <2>1, <2>8, <3>1, <3>3
  <2>11. Single(cache) => Without(e, k)
    BY <2>1, <2>7, <2>8 DEF Single, Without
  <2> QED
    BY <2>6, <2>9, <2>10, <2>11 DEF e
<1> QED
  BY <1>1, <1>2

LEMMA ShrinkFacts ==
  ASSUME NEW cache \in Seq(Entry), NEW max \in Nat
  PROVE  /\ Shrink(cache, max) \in Seq(Entry)
         /\ Within(Shrink(cache, max), cache)
         /\ Single(cache) => Single(Shrink(cache, max))
<1> DEFINE n == IF Len(cache) < max THEN Len(cache) ELSE max
           s == SubSeq(cache, 1, n)
<1>1. n \in 0 .. Len(cache) /\ Len(cache) \in Nat /\ DOMAIN cache = 1 .. Len(cache)
  BY LenProperties
<1>2. Shrink(cache, max) = s
  BY Zenon DEF Shrink
<1> HIDE DEF n
<1>3. \A i \in 1 .. n : cache[i] \in Entry
  BY <1>1, ElementOfSeq
<1>4. s \in Seq(Entry) /\ Len(s) = n /\ \A i \in 1 .. n : s[i] = cache[i]
  BY <1>1, <1>3, SubSeqProperties, SMTT(30)
<1> HIDE DEF s
<1>5. DOMAIN s = 1 .. n
  BY <1>4, LenProperties
<1>6. Within(s, cache)
  BY <1>1, <1>4, <1>5 DEF Within
<1>7. Single(cache) => Single(s)
  BY <1>1, <1>4, <1>5 DEF Single
<1> QED
  BY <1>2, <1>4, <1>6, <1>7

LEMMA FrontFacts ==
  ASSUME NEW rest \in Seq(Entry), NEW x \in Entry
  PROVE  /\ <<x>> \o rest \in Seq(Entry)
         /\ \A i \in DOMAIN (<<x>> \o rest) :
              (<<x>> \o rest)[i] = x \/ \E j \in DOMAIN rest : (<<x>> \o rest)[i] = rest[j]
         /\ Single(rest) /\ Without(rest, x.key) => Single(<<x>> \o rest)
<1> DEFINE s == <<x>> \o rest
<1>1. <<x>> \in Seq(Entry) /\ Len(<<x>>) = 1 /\ <<x>>[1] = x
  OBVIOUS
<1>2. Len(rest) \in Nat /\ DOMAIN rest = 1 .. Len(rest)
  BY LenProperties
<1>3. /\ s \in Seq(Entry) /\ Len(s) = 1 + Len(rest)
      /\ \A i \in 1 .. 1 + Len(rest) : s[i] = IF i =< 1 THEN <<x>>[i] ELSE rest[i - 1]
  BY <1>1, <1>2, ConcatProperties, SMTT(30)
<1> HIDE DEF s
<1>4. DOMAIN s = 1 .. 1 + Len(rest)
  BY <1>3, LenProperties
<1>5. \A i \in DOMAIN s : s[i] = IF i = 1 THEN x ELSE rest[i - 1]
  BY <1>1, <1>2, <1>3, <1>4
<1>6. \A i \in DOMAIN s : s[i] = x \/ \E j \in DOMAIN rest : s[i] = rest[j]
  BY <1>2, <1>4, <1>5
<1>7. Single(rest) /\ Without(rest, x.key) => Single(s)
  BY <1>2, <1>4, <1>5 DEF Single, Without
<1> QED
  BY <1>3, <1>6, <1>7 DEF s

\* Every entry of new is x or one of old.
Gains(new, old, x) == \A i \in DOMAIN new : new[i] = x \/ \E j \in DOMAIN old : new[i] = old[j]

LEMMA PromoteFacts ==
  ASSUME NEW cache \in Seq(Entry), NEW k \in Keys, Has(cache, k), NEW hot \in BOOLEAN
  PROVE  /\ Promote(cache, k, hot) \in Seq(Entry)
         /\ Within(Promote(cache, k, hot), cache)
         /\ Single(cache) => Single(Promote(cache, k, hot))
         /\ Val(cache, k) \in 0 .. MaxVersion
         /\ \E i \in DOMAIN cache : cache[i].key = k /\ cache[i].val = Val(cache, k)
<1> DEFINE p == Place(cache, k)
           x == [key |-> k, val |-> Val(cache, k)]
           rest == Erase(cache, k)
<1>1. p \in DOMAIN cache /\ cache[p].key = k /\ cache[p] \in Entry
  BY PlaceFacts, LenProperties, ElementOfSeq
<1>2. Val(cache, k) = cache[p].val
  BY Zenon DEF Val
<1>3. x \in Entry /\ x = cache[p] /\ Val(cache, k) \in 0 .. MaxVersion
  BY <1>1, <1>2 DEF Entry
<1>4. /\ rest \in Seq(Entry) /\ Within(rest, cache)
      /\ Single(cache) => Single(rest) /\ Without(rest, x.key)
  BY EraseFacts
<1>5. CASE hot
  <2>1. Promote(cache, k, hot) = <<x>> \o rest
    BY <1>5, Zenon DEF Promote
  <2> HIDE DEF x, rest, p
  <2>2. /\ <<x>> \o rest \in Seq(Entry)
        /\ \A i \in DOMAIN (<<x>> \o rest) :
              (<<x>> \o rest)[i] = x \/ \E j \in DOMAIN rest : (<<x>> \o rest)[i] = rest[j]
        /\ Single(rest) /\ Without(rest, x.key) => Single(<<x>> \o rest)
    BY <1>3, <1>4, FrontFacts, Zenon
  <2>3. Within(<<x>> \o rest, cache)
    <3>1. SUFFICES ASSUME NEW i \in DOMAIN (<<x>> \o rest)
                   PROVE  \E j \in DOMAIN cache : (<<x>> \o rest)[i] = cache[j]
      BY Zenon DEF Within
    <3>2. CASE (<<x>> \o rest)[i] = x
      BY <1>1, <1>3, <3>2, Zenon
    <3>3. CASE \E j \in DOMAIN rest : (<<x>> \o rest)[i] = rest[j]
      BY <1>4, <3>3, Zenon DEF Within
    <3> QED
      BY <2>2, <3>2, <3>3, Zenon
  <2> QED
    BY <1>1, <1>2, <1>3, <1>4, <2>1, <2>2, <2>3, Zenon
<1>6. CASE ~hot
  <2>1. Promote(cache, k, hot) = cache
    BY <1>6, Zenon DEF Promote
  <2> QED
    BY <1>1, <1>2, <1>3, <2>1, Zenon DEF Within
<1> QED
  BY <1>5, <1>6

LEMMA PutFacts ==
  ASSUME NEW cache \in Seq(Entry), NEW k \in Keys, NEW v \in 0 .. MaxVersion,
         NEW hot \in BOOLEAN, NEW max \in Nat
  PROVE  /\ Put(cache, k, v, hot, max) \in Seq(Entry)
         /\ Gains(Put(cache, k, v, hot, max), cache, [key |-> k, val |-> v])
         /\ Single(cache) => Single(Put(cache, k, v, hot, max))
<1> DEFINE x == [key |-> k, val |-> v]
           all == IF hot THEN <<x>> \o Erase(cache, k)
                  ELSE IF Has(cache, k) THEN [cache EXCEPT ![Place(cache, k)] = x]
                  ELSE Append(cache, x)
<1>1. Put(cache, k, v, hot, max) = Shrink(all, max)
  BY Zenon DEF Put
<1>2. x \in Entry /\ x.key = k
  BY DEF Entry
<1>3. Len(cache) \in Nat /\ DOMAIN cache = 1 .. Len(cache)
  BY LenProperties
<1>4. /\ all \in Seq(Entry) /\ Gains(all, cache, x)
      /\ Single(cache) => Single(all)
  <2>1. CASE hot
    <3> DEFINE rest == Erase(cache, k)
    <3>1. all = <<x>> \o rest
      BY <2>1, Zenon
    <3>2. /\ rest \in Seq(Entry) /\ Within(rest, cache)
          /\ Single(cache) => Single(rest) /\ Without(rest, x.key)
      BY <1>2, EraseFacts
    <3> HIDE DEF x, rest, all
    <3>3. /\ <<x>> \o rest \in Seq(Entry)
          /\ \A i \in DOMAIN (<<x>> \o rest) :
                (<<x>> \o rest)[i] = x \/ \E j \in DOMAIN rest : (<<x>> \o rest)[i] = rest[j]
          /\ Single(rest) /\ Without(rest, x.key) => Single(<<x>> \o rest)
      BY <1>2, <3>2, FrontFacts, Zenon
    <3>4. Gains(<<x>> \o rest, cache, x)
      BY <3>2, <3>3, Zenon DEF Within, Gains
    <3> QED
      BY <3>1, <3>2, <3>3, <3>4, Zenon
  <2>2. CASE ~hot /\ Has(cache, k)
    <3> DEFINE p == Place(cache, k)
    <3>1. all = [cache EXCEPT ![p] = x]
      BY <2>2, Zenon
    <3>2. p \in 1 .. Len(cache) /\ cache[p].key = k
      BY <2>2, PlaceFacts
    <3> HIDE DEF x, p, all
    <3>3. /\ all \in Seq(Entry) /\ Len(all) = Len(cache)
          /\ \A j \in 1 .. Len(cache) : all[j] = IF j = p THEN x ELSE cache[j]
      BY <1>2, <3>1, <3>2, ExceptSeq
    <3>4. DOMAIN all = 1 .. Len(cache)
      BY <3>3, LenProperties
    <3>5. Gains(all, cache, x)
      BY <1>3, <3>3, <3>4, Zenon DEF Gains
    <3>6. \A j \in DOMAIN all : all[j].key = cache[j].key
      BY <1>2, <3>2, <3>3, <3>4, Zenon
    <3>7. Single(cache) => Single(all)
      BY <1>3, <3>4, <3>6, Zenon DEF Single
    <3> QED
      BY <3>3, <3>5, <3>7
  <2>3. CASE ~hot /\ ~Has(cache, k)
    <3>1. all = Append(cache, x)
      BY <2>3, Zenon
    <3> HIDE DEF x, all
    <3>2. /\ all \in Seq(Entry) /\ Len(all) = Len(cache) + 1
          /\ \A i \in 1 .. Len(cache) : all[i] = cache[i]
          /\ all[Len(cache) + 1] = x
      BY <1>2, <3>1, AppendProperties
    <3>3. DOMAIN all = 1 .. Len(cache) + 1
      BY <3>2, LenProperties
    <3>4. Gains(all, cache, x)
      BY <1>3, <3>2, <3>3 DEF Gains
    <3>5. \A i \in 1 .. Len(cache) : cache[i].key # k
      BY <1>3, <2>3 DEF Has
    <3>6. Single(cache) => Single(all)
      <4>1. SUFFICES ASSUME Single(cache), NEW i \in DOMAIN all, NEW j \in DOMAIN all,
                            all[i].key = all[j].key
                     PROVE  i = j
        BY DEF Single
      <4>2. \A n \in DOMAIN all : n = Len(cache) + 1 \/ n \in 1 .. Len(cache)
        BY <1>3, <3>3
      <4>3. \A n \in 1 .. Len(cache) : all[n].key # all[Len(cache) + 1].key
        BY <1>2, <3>2, <3>5, Zenon
      <4>4. CASE i \in 1 .. Len(cache) /\ j \in 1 .. Len(cache)
        BY <1>3, <3>2, <4>1, <4>4, Zenon DEF Single
      <4> QED
        BY <4>1, <4>2, <4>3, <4>4, Zenon
    <3> QED
      BY <3>2, <3>4, <3>6
  <2> QED
    BY <2>1, <2>2, <2>3
<1> HIDE DEF x, all
<1>5. /\ Shrink(all, max) \in Seq(Entry) /\ Within(Shrink(all, max), all)
      /\ Single(all) => Single(Shrink(all, max))
  BY <1>4, ShrinkFacts
<1>6. Gains(Shrink(all, max), cache, x)
  BY <1>4, <1>5, Zenon DEF Gains, Within
<1> QED
  BY <1>1, <1>4, <1>5, <1>6, Zenon DEF x

-----------------------------------------------------------------------------
(***************************************************************************)
(* The queues, and what a completed request keeps.                         *)
(***************************************************************************)
In(x, queue) == \E i \in DOMAIN queue : queue[i] = x

LEMMA ConcatIn ==
  ASSUME NEW S, NEW a \in Seq(S), NEW b \in Seq(S)
  PROVE  a \o b \in Seq(S) /\ \A x : In(x, a \o b) => In(x, a) \/ In(x, b)
<1> DEFINE c == a \o b
<1>1. Len(a) \in Nat /\ DOMAIN a = 1 .. Len(a) /\ Len(b) \in Nat /\ DOMAIN b = 1 .. Len(b)
  BY LenProperties
<1>2. /\ c \in Seq(S) /\ Len(c) = Len(a) + Len(b)
      /\ \A i \in 1 .. Len(a) + Len(b) : c[i] = IF i =< Len(a) THEN a[i] ELSE b[i - Len(a)]
  BY ConcatProperties, Zenon
<1> HIDE DEF c
<1>3. DOMAIN c = 1 .. Len(a) + Len(b)
  BY <1>2, LenProperties
<1>4. \A i \in DOMAIN c : In(c[i], a) \/ In(c[i], b)
  <2>1. TAKE i \in DOMAIN c
  <2>2. CASE i =< Len(a)
    BY <1>1, <1>2, <1>3, <2>2 DEF In
  <2>3. CASE ~(i =< Len(a))
    <3>1. i - Len(a) \in DOMAIN b /\ c[i] = b[i - Len(a)]
      BY <1>1, <1>2, <1>3, <2>3
    <3> QED
      BY <3>1, Zenon DEF In
  <2> QED
    BY <2>2, <2>3
<1>5. \A x : In(x, c) => In(x, a) \/ In(x, b)
  BY <1>4, Zenon DEF In
<1> QED
  BY <1>2, <1>5 DEF c

LEMMA AppendIn ==
  ASSUME NEW S, NEW a \in Seq(S), NEW e \in S
  PROVE  Append(a, e) \in Seq(S) /\ \A x : In(x, Append(a, e)) => In(x, a) \/ x = e
<1> DEFINE c == Append(a, e)
<1>1. Len(a) \in Nat /\ DOMAIN a = 1 .. Len(a)
  BY LenProperties
<1>2. /\ c \in Seq(S) /\ Len(c) = Len(a) + 1
      /\ \A i \in 1 .. Len(a) : c[i] = a[i]
      /\ c[Len(a) + 1] = e
  BY AppendProperties
<1> HIDE DEF c
<1>3. \A i \in DOMAIN c : i \in DOMAIN a \/ i = Len(a) + 1
  BY <1>1, <1>2, LenProperties
<1>4. \A x : In(x, c) => In(x, a) \/ x = e
  BY <1>1, <1>2, <1>3, Zenon DEF In
<1> QED
  BY <1>2, <1>4 DEF c

LEMMA TailIn ==
  ASSUME NEW S, NEW a \in Seq(S), a # <<>>
  PROVE  /\ Head(a) \in S /\ In(Head(a), a)
         /\ Tail(a) \in Seq(S) /\ \A x : In(x, Tail(a)) => In(x, a)
<1>1. /\ Head(a) \in S /\ Tail(a) \in Seq(S) /\ Len(Tail(a)) = Len(a) - 1
      /\ \A i \in 1 .. Len(Tail(a)) : Tail(a)[i] = a[i + 1]
  BY HeadTailProperties
<1>2. Len(a) \in Nat \ {0} /\ DOMAIN a = 1 .. Len(a)
  BY EmptySeq, LenProperties
<1>3. \A i \in DOMAIN Tail(a) : i + 1 \in DOMAIN a /\ Tail(a)[i] = a[i + 1]
  BY <1>1, <1>2, LenProperties
<1>4. \A x : In(x, Tail(a)) => In(x, a)
  BY <1>3, Zenon DEF In
<1>5. Head(a) = a[1] /\ 1 \in DOMAIN a
  BY <1>2
<1> QED
  BY <1>1, <1>4, <1>5 DEF In

LEMMA IdleType == Idle \in Reading /\ Idle.want = 0 /\ Idle.got = 0 /\ Idle.pc = "new" /\ ~Idle.stale
<1>1. (CHOOSE k \in Keys : TRUE) \in Keys /\ 0 \in 0 .. MaxVersion
  BY BlobReaderAssumption
<1> QED
  BY <1>1 DEF Idle, Reading

LEMMA CompletedFacts ==
  ASSUME NEW q \in [Requests -> Reading], NEW r \in Requests, NEW v
  PROVE  /\ Completed(q, r, v) \in [Requests -> Reading]
         /\ \A s \in Requests \ {r} : Completed(q, r, v)[s] = q[s]
         /\ Completed(q, r, v)[r].pc = "done"
         /\ Completed(q, r, v)[r].want = 0 /\ Completed(q, r, v)[r].got = 0
         /\ Completed(q, r, v)[r].stale <=> v # NoBytes /\ v < q[r].want
<1> DEFINE stale == v # NoBytes /\ v < q[r].want
           done == [Idle EXCEPT !.pc = "done", !.stale = stale]
<1>1. Completed(q, r, v) = [q EXCEPT ![r] = done]
  BY Zenon DEF Completed
<1>2. stale \in BOOLEAN
  OBVIOUS
<1> HIDE DEF stale
<1>3. done \in Reading /\ done.pc = "done" /\ done.want = 0 /\ done.got = 0 /\ done.stale = stale
  BY <1>2, IdleType DEF Reading
<1> HIDE DEF done
<1>4. /\ [q EXCEPT ![r] = done] \in [Requests -> Reading]
      /\ [q EXCEPT ![r] = done][r] = done
      /\ \A s \in Requests \ {r} : [q EXCEPT ![r] = done][s] = q[s]
  BY <1>3, Zenon
<1> QED
  BY <1>1, <1>3, <1>4, Zenon DEF stale

-----------------------------------------------------------------------------
(***************************************************************************)
(* read(): it ends with a decoded hit, has the bytes of a cached one in    *)
(* hand, or stands in the pipe; the caches only lose or move entries.      *)
(***************************************************************************)
Hit(r, k) ==
  /\ req'[r].pc = "done" /\ req'[r].want = 0 /\ req'[r].got = 0 /\ pipe' = pipe
  /\ \E i \in DOMAIN decoded : decoded[i].key = k /\ (req'[r].stale <=> decoded[i].val < Promised(k))

Issued(r, k) == req'[r].key = k /\ req'[r].want = Promised(k) /\ req'[r].stale = req[r].stale

InHand(r, k) ==
  /\ req'[r].pc \in {"inline", "decode"} /\ Issued(r, k) /\ pipe' = pipe
  /\ \E i \in DOMAIN cached : cached[i].key = k /\ cached[i].val = req'[r].got

Missed(r, k) == req'[r].pc = "queued" /\ Issued(r, k) /\ pipe' = Append(pipe, r)

LEMMA ReadFromFacts ==
  ASSUME TypeOK, NEW r \in Requests, NEW k \in Keys, NEW more \in Seq(Job), ReadFrom(r, k, more)
  PROVE  /\ req' \in [Requests -> Reading] /\ \A s \in Requests \ {r} : req'[s] = req[s]
         /\ cached' \in Seq(Entry) /\ Within(cached', cached) /\ (Single(cached) => Single(cached'))
         /\ decoded' \in Seq(Entry) /\ Within(decoded', decoded) /\ (Single(decoded) => Single(decoded'))
         /\ pool' \in Seq(Job)
         /\ \A j : In(j, pool') => \/ In(j, pool)
                                   \/ In(j, more)
                                   \/ j = [kind |-> "decode", req |-> r] /\ req'[r].pc = "decode"
         /\ Hit(r, k) \/ InHand(r, k) \/ Missed(r, k)
<1> DEFINE asked == [req[r] EXCEPT !.key = k, !.want = Promised(k)]
           q == [req EXCEPT ![r] = asked]
<1>1. /\ store \in [Keys -> 0 .. MaxVersion] /\ req \in [Requests -> Reading] /\ req[r] \in Reading
      /\ cached \in Seq(Entry) /\ decoded \in Seq(Entry) /\ pool \in Seq(Job) /\ pipe \in Seq(Requests)
  BY Zenon DEF TypeOK
<1>2. /\ asked \in Reading /\ asked.key = k /\ asked.want = Promised(k) /\ asked.stale = req[r].stale
      /\ Promised(k) \in 0 .. MaxVersion /\ MaxVersion \in Nat
  <2>1. Promised(k) \in 0 .. MaxVersion /\ MaxVersion \in Nat
    BY <1>1, BlobReaderAssumption DEF Promised
  <2> HIDE DEF Promised
  <2> QED
    BY <1>1, <2>1 DEF Reading
<1> HIDE DEF asked
<1>3. q \in [Requests -> Reading] /\ q[r] = asked /\ \A s \in Requests \ {r} : q[s] = req[s]
  BY <1>1, <1>2, Zenon
<1> HIDE DEF q
<1>4. \A c \in Seq(Entry) : Within(c, c)
  BY Zenon DEF Within
<1>5. pool \o more \in Seq(Job) /\ \A j : In(j, pool \o more) => In(j, pool) \/ In(j, more)
  BY <1>1, ConcatIn, Zenon
<1>6. CASE /\ Has(decoded, k)
           /\ decoded' = Promote(decoded, k, TRUE)
           /\ req' = Completed(q, r, Val(decoded, k))
           /\ pool' = pool \o more
           /\ UNCHANGED <<cached, pipe>>
  <2>1. /\ decoded' \in Seq(Entry) /\ Within(decoded', decoded)
        /\ Single(decoded) => Single(decoded')
        /\ Val(decoded, k) \in 0 .. MaxVersion
        /\ \E i \in DOMAIN decoded : decoded[i].key = k /\ decoded[i].val = Val(decoded, k)
    BY <1>1, <1>6, PromoteFacts
  <2>2. Val(decoded, k) # NoBytes
    BY <2>1, BlobReaderAssumption
  <2>3. /\ req' \in [Requests -> Reading] /\ \A s \in Requests \ {r} : req'[s] = q[s]
        /\ req'[r].pc = "done" /\ req'[r].want = 0 /\ req'[r].got = 0
        /\ req'[r].stale <=> Val(decoded, k) < Promised(k)
    <3> DEFINE v == Val(decoded, k)
    <3>1. q[r].want = Promised(k)
      BY <1>2, <1>3, Zenon
    <3>2. req' = Completed(q, r, v)
      BY <1>6, Zenon
    <3> HIDE DEF v
    <3>3. /\ Completed(q, r, v) \in [Requests -> Reading]
          /\ \A s \in Requests \ {r} : Completed(q, r, v)[s] = q[s]
          /\ Completed(q, r, v)[r].pc = "done"
          /\ Completed(q, r, v)[r].want = 0 /\ Completed(q, r, v)[r].got = 0
          /\ Completed(q, r, v)[r].stale <=> v # NoBytes /\ v < q[r].want
      BY <1>3, CompletedFacts, Zenon
    <3> QED
      BY <2>2, <3>1, <3>2, <3>3, Zenon DEF v
  <2>4. cached' = cached /\ pipe' = pipe
    BY <1>6
  <2>5. Hit(r, k)
    BY <2>1, <2>3, <2>4, Zenon DEF Hit
  <2>6. pool' \in Seq(Job) /\ \A j : In(j, pool') => In(j, pool) \/ In(j, more)
    BY <1>5, <1>6, Zenon
  <2>7. cached' \in Seq(Entry) /\ Within(cached', cached) /\ (Single(cached) => Single(cached'))
    BY <1>1, <1>4, <2>4, Zenon
  <2>8. \A s \in Requests \ {r} : req'[s] = req[s]
    BY <1>3, <2>3, Zenon
  <2>9. \A j : In(j, pool') => \/ In(j, pool)
                               \/ In(j, more)
                               \/ j = [kind |-> "decode", req |-> r] /\ req'[r].pc = "decode"
    BY <2>6
  <2> QED
    BY <2>1, <2>3, <2>5, <2>6, <2>7, <2>8, <2>9
<1>7. CASE /\ Has(cached, k)
           /\ \E hot \in HotChoices(r) : cached' = Promote(cached, k, hot)
           /\ req' = [q EXCEPT ![r].pc = IF Inline(r) THEN "inline" ELSE "decode",
                               ![r].got = Val(cached, k)]
           /\ pool' = (IF Inline(r) THEN pool ELSE Append(pool, [kind |-> "decode", req |-> r])) \o more
           /\ UNCHANGED <<decoded, pipe>>
  <2>1. PICK hot \in BOOLEAN : cached' = Promote(cached, k, hot)
    BY <1>7 DEF HotChoices
  <2>2. /\ cached' \in Seq(Entry) /\ Within(cached', cached)
        /\ Single(cached) => Single(cached')
        /\ Val(cached, k) \in 0 .. MaxVersion
        /\ \E i \in DOMAIN cached : cached[i].key = k /\ cached[i].val = Val(cached, k)
    BY <1>1, <1>7, <2>1, PromoteFacts
  <2> DEFINE v == Val(cached, k)
             pc == IF Inline(r) THEN "inline" ELSE "decode"
             now == [asked EXCEPT !.pc = pc, !.got = v]
  <2>3. req' = [q EXCEPT ![r] = now]
    BY <1>3, <1>7
  <2>4. v \in 0 .. MaxVersion /\ pc \in {"inline", "decode"} /\ (pc = "decode" <=> ~Inline(r))
    BY <2>2
  <2> HIDE DEF v, pc
  <2>5. /\ now \in Reading /\ now.pc = pc /\ now.got = v /\ now.key = k /\ now.want = Promised(k)
        /\ now.stale = req[r].stale
    BY <1>2, <2>4 DEF Reading
  <2> HIDE DEF now
  <2>6. /\ req' \in [Requests -> Reading] /\ req'[r] = now
        /\ \A s \in Requests \ {r} : req'[s] = q[s]
    BY <1>3, <2>3, <2>5, Zenon
  <2>7. InHand(r, k)
    BY <1>7, <2>2, <2>4, <2>5, <2>6, Zenon DEF InHand, Issued, v
  <2> DEFINE job == [kind |-> "decode", req |-> r]
             queue == IF Inline(r) THEN pool ELSE Append(pool, job)
  <2>8. job \in Job
    BY DEF Job
  <2> HIDE DEF job
  <2>9. queue \in Seq(Job) /\ \A j : In(j, queue) => In(j, pool) \/ (j = job /\ ~Inline(r))
    BY <1>1, <2>8, AppendIn, Zenon
  <2>10. pool' = queue \o more
    BY <1>7, Zenon DEF job
  <2> HIDE DEF queue
  <2>11. pool' \in Seq(Job) /\ \A j : In(j, pool') => In(j, queue) \/ In(j, more)
    BY <2>9, <2>10, ConcatIn, Zenon
  <2>12. \A j : In(j, pool') => In(j, pool) \/ In(j, more) \/ (j = job /\ req'[r].pc = "decode")
    <3>1. ~Inline(r) => req'[r].pc = "decode"
      BY <2>4, <2>5, <2>6
    <3> QED
      BY <2>9, <2>11, <3>1
  <2> QED
    BY <1>1, <1>3, <1>4, <1>7, <2>2, <2>6, <2>7, <2>11, <2>12, Zenon DEF job
<1>8. CASE /\ req' = [q EXCEPT ![r].pc = "queued"]
           /\ pipe' = Append(pipe, r)
           /\ pool' = pool \o more
           /\ UNCHANGED <<cached, decoded>>
  <2> DEFINE now == [asked EXCEPT !.pc = "queued"]
  <2>1. req' = [q EXCEPT ![r] = now]
    BY <1>3, <1>8
  <2>2. /\ now \in Reading /\ now.pc = "queued" /\ now.key = k /\ now.want = Promised(k)
        /\ now.stale = req[r].stale
    BY <1>2 DEF Reading
  <2> HIDE DEF now
  <2>3. /\ req' \in [Requests -> Reading] /\ req'[r] = now
        /\ \A s \in Requests \ {r} : req'[s] = q[s]
    BY <1>3, <2>1, <2>2, Zenon
  <2>4. Missed(r, k)
    BY <1>8, <2>2, <2>3, Zenon DEF Missed, Issued
  <2>5. pool' \in Seq(Job) /\ \A j : In(j, pool') => In(j, pool) \/ In(j, more)
    BY <1>5, <1>8, Zenon
  <2>6. cached' = cached /\ decoded' = decoded
    BY <1>8
  <2>7. /\ cached' \in Seq(Entry) /\ Within(cached', cached) /\ (Single(cached) => Single(cached'))
        /\ decoded' \in Seq(Entry) /\ Within(decoded', decoded) /\ (Single(decoded) => Single(decoded'))
    BY <1>1, <1>4, <2>6, Zenon
  <2>8. \A s \in Requests \ {r} : req'[s] = req[s]
    BY <1>3, <2>3, Zenon
  <2>9. \A j : In(j, pool') => \/ In(j, pool)
                               \/ In(j, more)
                               \/ j = [kind |-> "decode", req |-> r] /\ req'[r].pc = "decode"
    BY <2>5
  <2> QED
    BY <2>3, <2>4, <2>5, <2>7, <2>8, <2>9
<1>9. q = [req EXCEPT ![r] = [@ EXCEPT !.key = k, !.want = Promised(k)]]
  BY Zenon DEF q, asked
<1> QED
  BY <1>6, <1>7, <1>8, <1>9, Zenon DEF ReadFrom

-----------------------------------------------------------------------------
(***************************************************************************)
(* Types.                                                                  *)
(***************************************************************************)
LEMMA ReadTypes ==
  ASSUME TypeOK, NEW r \in Requests, NEW k \in Keys, NEW more \in Seq(Job), ReadFrom(r, k, more),
         UNCHANGED running
  PROVE  TypeOK'
<1>1. /\ req' \in [Requests -> Reading] /\ cached' \in Seq(Entry) /\ decoded' \in Seq(Entry)
      /\ pool' \in Seq(Job) /\ (pipe' = pipe \/ pipe' = Append(pipe, r))
  BY ReadFromFacts, Zenon DEF Hit, InHand, Missed
<1>2. pipe' \in Seq(Requests)
  <2>1. pipe \in Seq(Requests)
    BY Zenon DEF TypeOK
  <2>2. Append(pipe, r) \in Seq(Requests)
    BY <2>1, AppendProperties, Zenon
  <2> QED
    BY <1>1, <2>1, <2>2, Zenon
<1>3. /\ store' = store /\ writing' = writing /\ overtaken' = overtaken /\ cacheMax' = cacheMax /\ decodedMax' = decodedMax
      /\ running' = running /\ wait' = wait /\ stop' = stop
  BY DEF ReadFrom
<1> QED
  BY <1>1, <1>2, <1>3 DEF TypeOK

LEMMA TypeStep == TypeOK /\ [Next]_vars => TypeOK'
<1> SUFFICES ASSUME TypeOK, [Next]_vars PROVE TypeOK'
  OBVIOUS
<1> USE DEF TypeOK
<1>1. \A r \in Requests : req[r] \in Reading
  OBVIOUS
<1>2. CacheSizes \subseteq Nat /\ MaxVersion \in Nat
  BY BlobReaderAssumption
<1>3. Lod \subseteq Requests /\ Trees \subseteq Requests /\ Awaits \subseteq Requests /\ Polls \subseteq Requests
  BY DEF Requests
<1>4. \A r \in Requests : \A v : Completed(req, r, v) \in [Requests -> Reading]
  BY CompletedFacts
<1>5. \A c \in Seq(Entry), k \in Keys, v \in 0 .. MaxVersion, hot \in BOOLEAN, max \in Nat :
        Put(c, k, v, hot, max) \in Seq(Entry)
  BY PutFacts, Zenon
<1>6. \A r : HotChoices(r) \subseteq BOOLEAN
  BY DEF HotChoices
<1>7. \A r : Resumed(r) \in [Requests -> {"no", "ready", "suspended", "resumed", "released"}]
  BY DEF Resumed
<1>8. \A r \in Requests : /\ [kind |-> "lod", req |-> r] \in Job
                          /\ <<>> \in Seq(Job)
                          /\ <<[kind |-> "wait", req |-> r]>> \in Seq(Job)
  BY DEF Job
<1>9. pool # <<>> => Head(pool) \in Job /\ Tail(pool) \in Seq(Job)
  BY HeadTailProperties
<1>10. \A c \in Seq(Entry) : \A k : Erase(c, k) \in Seq(Entry)
  BY EraseFacts
<1>11. ASSUME NEW r \in Lod, ReadLod(r) PROVE TypeOK'
  BY <1>3, <1>8, <1>11, ReadTypes, Zenon DEF ReadLod
<1>12. ASSUME NEW r \in Requests, InlineDecode(r) PROVE TypeOK'
  <2>1. decoded' \in Seq(Entry)
    <3>1. PICK hot \in BOOLEAN : decoded' = Put(decoded, req[r].key, req[r].got, hot, decodedMax)
      BY <1>6, <1>12, Zenon DEF InlineDecode
    <3>2. req[r].key \in Keys /\ req[r].got \in 0 .. MaxVersion /\ decodedMax \in Nat
      BY <1>1, <1>2 DEF Reading
    <3> QED
      BY <1>5, <3>1, <3>2, Zenon
  <2> QED
    BY <1>4, <1>12, <2>1 DEF InlineDecode
<1>13. ASSUME NEW r \in Requests, Decode(r) PROVE TypeOK'
  BY <1>4, <1>13 DEF Decode
<1>14. ASSUME NEW r \in Requests, Fetch(r) PROVE TypeOK'
  <2>1. store[req[r].key] \in 0 .. MaxVersion
    BY <1>1 DEF Reading
  <2>2. req' \in [Requests -> Reading]
    BY <1>1, <1>14, <2>1 DEF Fetch, Reading
  <2> QED
    BY <1>14, <2>2 DEF Fetch
<1>15. ASSUME NEW r \in Requests, FetchFails(r) PROVE TypeOK'
  BY <1>4, <1>7, <1>15 DEF FetchFails
<1>16. ASSUME NEW r \in Requests, Land(r) PROVE TypeOK'
  <2>1. cached' \in Seq(Entry)
    <3>1. PICK hot \in BOOLEAN : cached' = Put(cached, req[r].key, req[r].got, hot, cacheMax)
      BY <1>6, <1>16, Zenon DEF Land
    <3>2. req[r].key \in Keys /\ req[r].got \in 0 .. MaxVersion /\ cacheMax \in Nat
      BY <1>1, <1>2 DEF Reading
    <3> QED
      BY <1>5, <3>1, <3>2, Zenon
  <2>2. req' \in [Requests -> Reading]
    <3>1. PICK cancelled : req' = Completed(req, r, IF cancelled THEN NoBytes ELSE req[r].got)
      BY <1>16, Zenon DEF Land
    <3> QED
      BY <1>4, <3>1, Zenon
  <2> QED
    BY <1>7, <1>16, <2>1, <2>2 DEF Land
<1>17. ASSUME NEW r \in Awaits, AwaitReady(r) \/ AwaitSuspend(r) \/ AwaitResume(r) PROVE TypeOK'
  BY <1>3, <1>17 DEF AwaitReady, AwaitSuspend, AwaitResume
<1>18. ASSUME StartLod \/ StartJob PROVE TypeOK'
  BY <1>9, <1>18 DEF StartLod, StartJob, Free
<1>19. ASSUME NEW j \in Job, Unblock(j) PROVE TypeOK'
  BY <1>19 DEF Unblock
<1>20. ASSUME Dispatch PROVE TypeOK'
  <2>1. Head(pipe) \in Requests /\ Tail(pipe) \in Seq(Requests)
    BY <1>20, HeadTailProperties DEF Dispatch
  <2>2. req' \in [Requests -> Reading]
    BY <1>1, <1>20, <2>1 DEF Dispatch, Reading
  <2> QED
    BY <1>20, <2>1, <2>2 DEF Dispatch
<1>21. ASSUME NEW k \in Recycled, EndWrite(k) PROVE TypeOK'
  <2>1. k \in Keys /\ store[k] \in 0 .. MaxVersion /\ store[k] < MaxVersion
    BY <1>21 DEF EndWrite
  <2> QED
    BY <1>2, <1>21, <2>1 DEF EndWrite
<1>22. ASSUME Barrier \/ DestroyBackend \/ StopLoop PROVE TypeOK'
  BY <1>22 DEF Barrier, DestroyBackend, StopLoop
<1>23. ASSUME NEW r \in Lod, EnqueueLod(r) PROVE TypeOK'
  <2>1. req' \in [Requests -> Reading]
    BY <1>1, <1>3, <1>23 DEF EnqueueLod, Reading
  <2>2. pool' \in Seq(Job)
    BY <1>3, <1>8, <1>23, AppendProperties, Zenon DEF EnqueueLod
  <2> QED
    BY <1>23, <2>1, <2>2 DEF EnqueueLod
<1>24. ASSUME NEW r \in Trees, ReadTree(r) PROVE TypeOK'
  BY <1>3, <1>8, <1>24, ReadTypes, Zenon DEF ReadTree
<1>25. ASSUME NEW r \in Awaits \cup Polls, ReadOther(r) PROVE TypeOK'
  BY <1>3, <1>8, <1>25, ReadTypes, Zenon DEF ReadOther
<1>26. ASSUME NEW n \in CacheSizes, SetCacheSize(n) \/ SetDecodedSize(n) PROVE TypeOK'
  <2>1. \A c \in Seq(Entry) : Shrink(c, n) \in Seq(Entry)
    BY <1>2, ShrinkFacts
  <2> QED
    BY <1>26, <2>1 DEF SetCacheSize, SetDecodedSize
<1>27. ASSUME NEW k \in Recycled, StartWrite(k) PROVE TypeOK'
  <2>1. k \in Keys
    BY BlobReaderAssumption
  <2> QED
    BY <1>10, <1>27, <2>1 DEF StartWrite, Invalidated
<1>28. CASE UNCHANGED vars
  BY <1>28 DEF vars
<1> QED
  BY <1>11, <1>12, <1>13, <1>14, <1>15, <1>16, <1>17, <1>18, <1>19, <1>20, <1>21, <1>22, <1>23,
     <1>24, <1>25, <1>26, <1>27, <1>28 DEF Next, Progress

LEMMA TypeInit == Init => TypeOK
<1> SUFFICES ASSUME Init PROVE TypeOK
  OBVIOUS
<1>1. MaxVersion \in Nat
  BY BlobReaderAssumption
<1>2. Idle \in Reading
  BY IdleType
<1> QED
  BY <1>1, <1>2 DEF Init, TypeOK

(***************************************************************************)
(* Every variable stays in its range; in particular no version counts past *)
(* its bound, and a cache holds only entries of blobs there are.           *)
(***************************************************************************)
THEOREM TypeCorrect == Spec => []TypeOK
<1> QED
  BY TypeInit, TypeStep, PTL DEF Spec

-----------------------------------------------------------------------------
(***************************************************************************)
(* The backend outlives its reads: behind the barrier the pipe is empty    *)
(* and stays so, and then the reads in flight only become fewer.           *)
(***************************************************************************)
EndInv ==
  /\ stop \in {"draining", "gone"} => pipe = <<>>
  /\ stop = "gone" => InFlight = {}

LEMMA EndStep == TypeOK /\ EndInv /\ [Next]_vars => EndInv'
<1> SUFFICES ASSUME TypeOK, EndInv, [Next]_vars PROVE EndInv'
  OBVIOUS
<1>1. \A q \in Requests : \A v : \A r \in Requests :
        Completed(req, q, v)[r].pc \in {"reading", "fetched"} => req[r].pc \in {"reading", "fetched"}
  <2>1. req \in [Requests -> Reading]
    BY DEF TypeOK
  <2>2. \A q \in Requests : \A v : /\ \A r \in Requests \ {q} : Completed(req, q, v)[r] = req[r]
                                   /\ Completed(req, q, v)[q].pc = "done"
    <3>1. SUFFICES ASSUME NEW q \in Requests, NEW v
                   PROVE  /\ \A r \in Requests \ {q} : Completed(req, q, v)[r] = req[r]
                          /\ Completed(req, q, v)[q].pc = "done"
      BY Zenon
    <3> QED
      BY <2>1, CompletedFacts
  <2> QED
    BY <2>2
<1>2. Lod \subseteq Requests /\ Trees \subseteq Requests /\ Awaits \subseteq Requests /\ Polls \subseteq Requests
  BY DEF Requests
<1>3. ASSUME stop' = stop, stop \notin {"draining", "gone"} PROVE EndInv'
  BY <1>3 DEF EndInv
<1>4. ASSUME stop' = stop, pipe' = pipe,
             \A r \in Requests : req'[r].pc \in {"reading", "fetched"} => req[r].pc \in {"reading", "fetched"}
      PROVE  EndInv'
  BY <1>4 DEF EndInv, InFlight
<1>5. ASSUME NEW r \in Requests, NEW k, NEW more, ReadFrom(r, k, more) PROVE EndInv'
  BY <1>3, <1>5 DEF ReadFrom
<1>6. ASSUME NEW r \in Requests, InlineDecode(r) \/ Decode(r) \/ FetchFails(r) \/ Land(r) PROVE EndInv'
  <2>1. stop' = stop /\ pipe' = pipe /\ \E v : req' = Completed(req, r, v)
    BY <1>6, Zenon DEF InlineDecode, Decode, FetchFails, Land
  <2> QED
    BY <1>1, <1>4, <2>1, Zenon
<1>7. ASSUME NEW r \in Requests, Fetch(r) PROVE EndInv'
  <2>1. req \in [Requests -> Reading]
    BY DEF TypeOK
  <2> QED
    BY <1>4, <1>7, <2>1 DEF Fetch, Reading
<1>8. ASSUME NEW r \in Lod, ReadLod(r) PROVE EndInv'
  BY <1>2, <1>5, <1>8 DEF ReadLod
<1>9. ASSUME NEW r \in Trees, ReadTree(r) PROVE EndInv'
  BY <1>2, <1>5, <1>9 DEF ReadTree
<1>10. ASSUME NEW r \in Awaits \cup Polls, ReadOther(r) PROVE EndInv'
  BY <1>2, <1>5, <1>10 DEF ReadOther
<1>11. ASSUME NEW r \in Awaits, AwaitReady(r) \/ AwaitSuspend(r) \/ AwaitResume(r) PROVE EndInv'
  BY <1>4, <1>11 DEF AwaitReady, AwaitSuspend, AwaitResume
<1>12. ASSUME StartLod \/ StartJob PROVE EndInv'
  BY <1>4, <1>12 DEF StartLod, StartJob
<1>13. ASSUME NEW j \in Job, Unblock(j) PROVE EndInv'
  BY <1>4, <1>13 DEF Unblock
<1>14. ASSUME Dispatch PROVE EndInv'
  BY <1>3, <1>14 DEF Dispatch, EndInv, TypeOK
<1>15. ASSUME NEW k \in Recycled, EndWrite(k) \/ StartWrite(k) PROVE EndInv'
  BY <1>4, <1>15 DEF EndWrite, StartWrite
<1>16. ASSUME Barrier PROVE EndInv'
  BY <1>16 DEF Barrier, EndInv
<1>17. ASSUME DestroyBackend PROVE EndInv'
  BY <1>17 DEF DestroyBackend, EndInv, InFlight
<1>18. ASSUME StopLoop PROVE EndInv'
  BY <1>18 DEF StopLoop, EndInv
<1>19. ASSUME NEW r \in Lod, EnqueueLod(r) PROVE EndInv'
  BY <1>3, <1>19 DEF EnqueueLod
<1>20. ASSUME NEW n \in CacheSizes, SetCacheSize(n) \/ SetDecodedSize(n) PROVE EndInv'
  BY <1>4, <1>20 DEF SetCacheSize, SetDecodedSize
<1>21. CASE UNCHANGED vars
  BY <1>4, <1>21 DEF vars
<1> QED
  BY <1>6, <1>7, <1>8, <1>9, <1>10, <1>11, <1>12, <1>13, <1>14, <1>15, <1>16, <1>17, <1>18, <1>19,
     <1>20, <1>21 DEF Next, Progress

(***************************************************************************)
(* The backend is destroyed only when no read is in flight there and none  *)
(* is in the pipe, whatever was queued, cancelled or failed before.        *)
(* (blob_reader_t::stop_loop)                                              *)
(***************************************************************************)
THEOREM BackendOutlives == Spec => []BackendOutlivesReads
<1>1. Init => EndInv
  BY DEF Init, EndInv
<1>2. EndInv => BackendOutlivesReads
  BY DEF EndInv, BackendOutlivesReads
<1> QED
  BY <1>1, <1>2, EndStep, TypeCorrect, PTL DEF Spec

-----------------------------------------------------------------------------
(***************************************************************************)
(* Freshness.  Of an offset that was not overtaken both caches hold what   *)
(* is there, and nothing while it is being written, and a read under way   *)
(* asks for what is there.  A read of one that was overtaken still returns *)
(* what it was promised when it was issued.                                *)
(***************************************************************************)
Fresh(cache, w, s, o) ==
  \A i \in DOMAIN cache : cache[i].key \notin o => cache[i].key \notin w /\ cache[i].val = s[cache[i].key]

CachesFresh ==
  /\ Single(cached) /\ Single(decoded)
  /\ Fresh(cached, writing, store, overtaken) /\ Fresh(decoded, writing, store, overtaken)

UnderWay == {"queued", "reading", "fetched", "inline", "decode"}
WithBytes == {"fetched", "inline", "decode"}

Flies(x, w, s, o) ==
  /\ ~x.stale
  /\ x.pc = "done" => x.want = x.got
  /\ x.pc \in UnderWay => x.want <= s[x.key] /\ (x.key \notin o => x.key \notin w)
  /\ x.pc \in WithBytes => x.want <= x.got /\ (x.key \notin o => x.got = s[x.key])

Flying == \A r \in Requests : Flies(req[r], writing, store, overtaken)

\* The pipe holds the queued requests, each once.
Lined ==
  /\ \A i \in DOMAIN pipe : req[pipe[i]].pc = "queued"
  /\ \A i, j \in DOMAIN pipe : pipe[i] = pipe[j] => i = j

\* A decode job has a request with bytes, or one that is done.
JobsKnown ==
  \A j \in Job : (j \in running \/ In(j, pool)) /\ j.kind = "decode" =>
    req[j.req].pc \in {"decode", "done"}

FreshInv == CachesFresh /\ Flying /\ Lined /\ JobsKnown

LEMMA FreshWithin ==
  ASSUME NEW new, NEW old, NEW w, NEW s, NEW o, Within(new, old), Fresh(old, w, s, o)
  PROVE  Fresh(new, w, s, o)
BY Zenon DEF Within, Fresh

LEMMA FreshGains ==
  ASSUME NEW new, NEW old, NEW w, NEW s, NEW o, NEW k, NEW v, Gains(new, old, [key |-> k, val |-> v]),
         Fresh(old, w, s, o), k \notin o => k \notin w /\ v = s[k]
  PROVE  Fresh(new, w, s, o)
<1>1. SUFFICES ASSUME NEW i \in DOMAIN new PROVE new[i].key \notin o => new[i].key \notin w /\ new[i].val = s[new[i].key]
  BY Zenon DEF Fresh
<1>2. CASE new[i] = [key |-> k, val |-> v]
  BY <1>2
<1>3. CASE \E j \in DOMAIN old : new[i] = old[j]
  BY <1>3 DEF Fresh
<1> QED
  BY <1>2, <1>3, Zenon DEF Gains

\* A step that moves the request r only, one that is not in the pipe.
LEMMA OneRequest ==
  ASSUME TypeOK, FreshInv, NEW r \in Requests, req[r].pc # "queued",
         \A s \in Requests \ {r} : req'[s] = req[s],
         store' = store, writing' = writing, overtaken' = overtaken, pipe' = pipe,
         Flies(req'[r], writing, store, overtaken),
         req[r].pc \in {"decode", "done"} => req'[r].pc \in {"decode", "done"},
         \A j \in Job : \/ ~(j \in running' \/ In(j, pool'))
                        \/ j \in running \/ In(j, pool)
                        \/ j.kind # "decode" \/ req'[j.req].pc \in {"decode", "done"}
  PROVE  Flying' /\ Lined' /\ JobsKnown'
<1>1. Flying'
  BY Zenon DEF Flying, FreshInv
<1>2. Lined'
  <2>1. \A i \in DOMAIN pipe : pipe[i] \in Requests /\ req[pipe[i]].pc = "queued"
    BY LenProperties DEF TypeOK, FreshInv, Lined
  <2>2. \A i \in DOMAIN pipe : req'[pipe[i]].pc = "queued"
    BY <2>1
  <2> QED
    BY <2>2 DEF FreshInv, Lined
<1>3. JobsKnown'
  <2>1. \A j \in Job : j.req \in Requests
    BY DEF Job
  <2>2. SUFFICES ASSUME NEW j \in Job, j \in running' \/ In(j, pool'), j.kind = "decode"
                 PROVE  req'[j.req].pc \in {"decode", "done"}
    BY Zenon DEF JobsKnown
  <2>3. CASE j \in running \/ In(j, pool)
    <3>1. req[j.req].pc \in {"decode", "done"}
      BY <2>2, <2>3, Zenon DEF FreshInv, JobsKnown
    <3> QED
      BY <2>1, <3>1
  <2> QED
    BY <2>2, <2>3
<1> QED
  BY <1>1, <1>2, <1>3

LEMMA ReadFresh ==
  ASSUME TypeOK, FreshInv, NEW r \in Requests, NEW k \in Keys, NEW more \in Seq(Job),
         \A j : In(j, more) => j.kind # "decode",
         req[r].pc \in {"new", "pooled"}, ReadFrom(r, k, more), UNCHANGED running
  PROVE  FreshInv'
<1>1. /\ \A s \in Requests \ {r} : req'[s] = req[s]
      /\ Within(cached', cached) /\ (Single(cached) => Single(cached'))
      /\ Within(decoded', decoded) /\ (Single(decoded) => Single(decoded'))
      /\ \A j : In(j, pool') => \/ In(j, pool)
                                \/ In(j, more)
                                \/ j = [kind |-> "decode", req |-> r] /\ req'[r].pc = "decode"
      /\ Hit(r, k) \/ InHand(r, k) \/ Missed(r, k)
  BY ReadFromFacts
<1>2. /\ store' = store /\ writing' = writing /\ overtaken' = overtaken /\ running' = running
      /\ k \notin writing
  BY DEF ReadFrom
<1>3. CachesFresh'
  <2>1. Fresh(cached', writing, store, overtaken) /\ Fresh(decoded', writing, store, overtaken)
    BY <1>1, FreshWithin, Zenon DEF FreshInv, CachesFresh
  <2> QED
    BY <1>1, <1>2, <2>1 DEF FreshInv, CachesFresh
<1>4. /\ ~req[r].stale /\ store[k] \in Nat /\ Promised(k) \in Nat /\ Promised(k) <= store[k]
      /\ k \notin overtaken => Promised(k) = store[k]
      /\ k \in overtaken => Promised(k) = 0
      /\ \A i \in DOMAIN cached : cached[i].val \in Nat
      /\ \A i \in DOMAIN decoded : decoded[i].val \in Nat
  <2>1. ~req[r].stale /\ store[k] \in 0 .. MaxVersion /\ MaxVersion \in Nat
    BY BlobReaderAssumption DEF FreshInv, Flying, Flies, TypeOK
  <2>2. \A c \in Seq(Entry) : \A i \in DOMAIN c : c[i].val \in Nat
    <3>1. \A c \in Seq(Entry) : \A i \in DOMAIN c : c[i] \in Entry
      BY LenProperties, ElementOfSeq
    <3> QED
      BY <2>1, <3>1 DEF Entry
  <2> QED
    BY <2>1, <2>2 DEF Promised, TypeOK
<1>5. Flies(req'[r], writing, store, overtaken)
  <2>1. CASE Hit(r, k)
    <3>1. ~req'[r].stale
      <4>1. PICK i \in DOMAIN decoded :
              decoded[i].key = k /\ (req'[r].stale <=> decoded[i].val < Promised(k))
        BY <2>1 DEF Hit
      <4>2. k \notin overtaken => decoded[i].val = store[k]
        BY <4>1 DEF FreshInv, CachesFresh, Fresh
      <4> QED
        BY <1>4, <4>1, <4>2
    <3> QED
      BY <2>1, <3>1 DEF Hit, Flies, UnderWay, WithBytes
  <2>2. CASE InHand(r, k)
    <3>1. PICK i \in DOMAIN cached : cached[i].key = k /\ cached[i].val = req'[r].got
      BY <2>2 DEF InHand
    <3>2. k \notin overtaken => req'[r].got = store[k]
      BY <3>1 DEF FreshInv, CachesFresh, Fresh
    <3>3. Promised(k) <= req'[r].got
      BY <1>4, <3>1, <3>2
    <3> QED
      BY <1>2, <1>4, <2>2, <3>2, <3>3 DEF InHand, Issued, Flies, UnderWay, WithBytes
  <2>3. CASE Missed(r, k)
    BY <1>2, <1>4, <2>3 DEF Missed, Issued, Flies, UnderWay, WithBytes
  <2> QED
    BY <1>1, <2>1, <2>2, <2>3
<1>6. \A j \in Job : \/ ~(j \in running' \/ In(j, pool'))
                     \/ j \in running \/ In(j, pool)
                     \/ j.kind # "decode" \/ req'[j.req].pc \in {"decode", "done"}
  BY <1>1, <1>2
<1>7. CASE pipe' = pipe
  <2>1. Flying' /\ Lined' /\ JobsKnown'
    BY <1>1, <1>2, <1>5, <1>6, <1>7, OneRequest
  <2> QED
    BY <1>3, <2>1 DEF FreshInv
<1>8. CASE Missed(r, k)
  <2>1. pipe \in Seq(Requests) /\ pipe' = Append(pipe, r) /\ req'[r].pc = "queued"
    BY <1>8 DEF Missed, TypeOK
  <2>2. Flying'
    BY <1>1, <1>2, <1>5, Zenon DEF Flying, FreshInv
  <2>3. /\ Len(pipe) \in Nat /\ DOMAIN pipe = 1 .. Len(pipe)
        /\ pipe' \in Seq(Requests) /\ Len(pipe') = Len(pipe) + 1
        /\ \A i \in 1 .. Len(pipe) : pipe'[i] = pipe[i]
        /\ pipe'[Len(pipe) + 1] = r
    BY <2>1, LenProperties, AppendProperties
  <2>4. DOMAIN pipe' = 1 .. Len(pipe) + 1
    BY <2>3, LenProperties
  <2>5. \A i \in 1 .. Len(pipe) : pipe[i] \in Requests \ {r} /\ req[pipe[i]].pc = "queued"
    BY <2>1, <2>3, ElementOfSeq DEF FreshInv, Lined
  <2>6. \A i \in DOMAIN pipe' : req'[pipe'[i]].pc = "queued"
    <3>1. \A i \in 1 .. Len(pipe) : req'[pipe[i]].pc = "queued"
      BY <1>1, <2>5
    <3> QED
      BY <2>1, <2>3, <2>4, <3>1
  <2>7. \A i, j \in DOMAIN pipe' : pipe'[i] = pipe'[j] => i = j
    <3>1. \A i, j \in 1 .. Len(pipe) : pipe[i] = pipe[j] => i = j
      BY <2>3, Zenon DEF FreshInv, Lined
    <3>2. \A i \in DOMAIN pipe' : i \in 1 .. Len(pipe) \/ i = Len(pipe) + 1
      BY <2>3, <2>4
    <3>3. \A i \in 1 .. Len(pipe) : pipe'[i] # r
      BY <2>3, <2>5
    <3> QED
      BY <2>3, <3>1, <3>2, <3>3
  <2>8. Lined'
    BY <2>6, <2>7, Zenon DEF Lined
  <2>9. JobsKnown'
    <3>1. SUFFICES ASSUME NEW j \in Job, j \in running' \/ In(j, pool'), j.kind = "decode"
                   PROVE  req'[j.req].pc \in {"decode", "done"}
      BY Zenon DEF JobsKnown
    <3>2. CASE j \in running \/ In(j, pool)
      <4>1. req[j.req].pc \in {"decode", "done"} /\ j.req \in Requests
        BY <3>1, <3>2 DEF FreshInv, JobsKnown, Job
      <4> QED
        BY <1>1, <4>1
    <3> QED
      BY <1>6, <3>1, <3>2
  <2> QED
    BY <1>3, <2>2, <2>8, <2>9 DEF FreshInv
<1> QED
  BY <1>1, <1>7, <1>8, Zenon DEF Hit, InHand

LEMMA FreshStep == TypeOK /\ FreshInv /\ [Next]_vars => FreshInv'
<1> SUFFICES ASSUME TypeOK, FreshInv, [Next]_vars PROVE FreshInv'
  OBVIOUS
<1>1. /\ req \in [Requests -> Reading] /\ store \in [Keys -> 0 .. MaxVersion]
      /\ cached \in Seq(Entry) /\ decoded \in Seq(Entry) /\ pool \in Seq(Job) /\ pipe \in Seq(Requests)
      /\ cacheMax \in Nat /\ decodedMax \in Nat
  BY BlobReaderAssumption DEF TypeOK
<1>2. \A r \in Requests :
        /\ req[r].key \in Keys /\ req[r].got \in 0 .. MaxVersion
        /\ req[r].want \in 0 .. MaxVersion /\ Flies(req[r], writing, store, overtaken)
  BY <1>1, Zenon DEF Reading, FreshInv, Flying
<1>3. Lod \subseteq Requests /\ Trees \subseteq Requests /\ Awaits \subseteq Requests /\ Polls \subseteq Requests
  BY DEF Requests
<1>4. \A r : HotChoices(r) \subseteq BOOLEAN
  BY DEF HotChoices
<1>5. \A r \in Requests :
        /\ <<>> \in Seq(Job) /\ \A j : ~In(j, <<>>)
        /\ <<[kind |-> "wait", req |-> r]>> \in Seq(Job)
        /\ \A j : In(j, <<[kind |-> "wait", req |-> r]>>) => j.kind # "decode"
  BY DEF Job, In
<1>6. ASSUME NEW r \in Requests, NEW v, req' = Completed(req, r, v), req[r].pc # "queued",
             v = NoBytes \/ v = req[r].got, req[r].want <= req[r].got \/ v = NoBytes,
             store' = store, writing' = writing, overtaken' = overtaken, pipe' = pipe, pool' = pool, running' \subseteq running
      PROVE  Flying' /\ Lined' /\ JobsKnown'
  <2>1. /\ \A s \in Requests \ {r} : Completed(req, r, v)[s] = req[s]
        /\ Completed(req, r, v)[r].pc = "done"
        /\ Completed(req, r, v)[r].want = 0 /\ Completed(req, r, v)[r].got = 0
        /\ Completed(req, r, v)[r].stale <=> v # NoBytes /\ v < req[r].want
    BY <1>1, CompletedFacts
  <2>2. ~(v # NoBytes /\ v < req[r].want)
    BY <1>2, <1>6
  <2>3. Flies(req'[r], writing, store, overtaken)
    BY <1>6, <2>1, <2>2 DEF Flies, UnderWay, WithBytes
  <2> QED
    BY <1>6, <2>1, <2>3, OneRequest
<1>7. ASSUME UNCHANGED <<store, writing, overtaken, cached, decoded>> PROVE CachesFresh'
  BY <1>7 DEF FreshInv, CachesFresh
<1>8. ASSUME UNCHANGED <<store, writing, overtaken, req, pipe>>,
             \A j \in Job : j \in running' \/ In(j, pool') => \/ j \in running \/ In(j, pool)
                                                              \/ j.kind # "decode"
      PROVE  Flying' /\ Lined' /\ JobsKnown'
  BY <1>8 DEF FreshInv, Flying, Lined, JobsKnown
<1>9. ASSUME NEW r \in Lod, ReadLod(r) PROVE FreshInv'
  BY <1>3, <1>5, <1>9, ReadFresh DEF ReadLod
<1>10. ASSUME NEW r \in Trees, ReadTree(r) PROVE FreshInv'
  BY <1>3, <1>5, <1>10, ReadFresh DEF ReadTree
<1>11. ASSUME NEW r \in Awaits \cup Polls, ReadOther(r) PROVE FreshInv'
  BY <1>3, <1>5, <1>11, ReadFresh DEF ReadOther
<1>12. ASSUME NEW r \in Requests, InlineDecode(r) PROVE FreshInv'
  <2>1. /\ req[r].pc = "inline" /\ req' = Completed(req, r, req[r].got)
        /\ UNCHANGED <<store, writing, overtaken, cached, pipe, pool, running>>
    BY <1>12 DEF InlineDecode
  <2>2. /\ req[r].want <= req[r].got
        /\ req[r].key \notin overtaken => req[r].key \notin writing /\ req[r].got = store[req[r].key]
    BY <1>2, <2>1 DEF Flies, UnderWay, WithBytes
  <2>3. Flying' /\ Lined' /\ JobsKnown'
    BY <1>6, <2>1, <2>2
  <2>4. PICK hot \in BOOLEAN : decoded' = Put(decoded, req[r].key, req[r].got, hot, decodedMax)
    BY <1>4, <1>12, Zenon DEF InlineDecode
  <2>5. Gains(decoded', decoded, [key |-> req[r].key, val |-> req[r].got]) /\ Single(decoded')
    BY <1>1, <1>2, <2>4, PutFacts, Zenon DEF FreshInv, CachesFresh
  <2>6. Fresh(decoded', writing, store, overtaken)
    BY <2>2, <2>5, FreshGains, Zenon DEF FreshInv, CachesFresh
  <2> QED
    BY <2>1, <2>3, <2>5, <2>6 DEF FreshInv, CachesFresh
<1>13. ASSUME NEW r \in Requests, Decode(r) PROVE FreshInv'
  <2>1. /\ [kind |-> "decode", req |-> r] \in running /\ req' = Completed(req, r, req[r].got)
        /\ UNCHANGED <<store, writing, overtaken, cached, decoded, pipe, pool>> /\ running' \subseteq running
    BY <1>13 DEF Decode
  <2>2. req[r].pc \in {"decode", "done"}
    BY <2>1 DEF FreshInv, JobsKnown, Job
  <2>3. req[r].want <= req[r].got
    BY <1>2, <2>2 DEF Flies, UnderWay, WithBytes
  <2> QED
    BY <1>6, <1>7, <2>1, <2>2, <2>3 DEF FreshInv
<1>14. ASSUME NEW r \in Requests, Fetch(r) PROVE FreshInv'
  <2>1. /\ req[r].pc = "reading"
        /\ req'[r].pc = "fetched" /\ req'[r].got = store[req[r].key]
        /\ req'[r].key = req[r].key /\ req'[r].want = req[r].want /\ req'[r].stale = req[r].stale
        /\ \A s \in Requests \ {r} : req'[s] = req[s]
        /\ UNCHANGED <<store, writing, overtaken, cached, decoded, pipe, pool, running>>
    BY <1>1, <1>14 DEF Fetch, Reading
  <2>2. Flies(req'[r], writing, store, overtaken)
    BY <1>2, <2>1 DEF Flies, UnderWay, WithBytes
  <2> QED
    BY <1>7, <2>1, <2>2, OneRequest DEF FreshInv
<1>15. ASSUME NEW r \in Requests, FetchFails(r) PROVE FreshInv'
  BY <1>6, <1>7, <1>15 DEF FetchFails, FreshInv
<1>16. ASSUME NEW r \in Requests, Land(r) PROVE FreshInv'
  <2>1. /\ req[r].pc = "fetched"
        /\ \E v : req' = Completed(req, r, v) /\ (v = NoBytes \/ v = req[r].got)
        /\ UNCHANGED <<store, writing, overtaken, decoded, pipe, pool, running>>
    BY <1>16 DEF Land
  <2>2. /\ req[r].want <= req[r].got
        /\ req[r].key \notin overtaken => req[r].key \notin writing /\ req[r].got = store[req[r].key]
    BY <1>2, <2>1 DEF Flies, UnderWay, WithBytes
  <2>3. Flying' /\ Lined' /\ JobsKnown'
    BY <1>6, <2>1, <2>2
  <2>4. PICK hot \in BOOLEAN : cached' = Put(cached, req[r].key, req[r].got, hot, cacheMax)
    BY <1>4, <1>16, Zenon DEF Land
  <2>5. Gains(cached', cached, [key |-> req[r].key, val |-> req[r].got]) /\ Single(cached')
    BY <1>1, <1>2, <2>4, PutFacts, Zenon DEF FreshInv, CachesFresh
  <2>6. Fresh(cached', writing, store, overtaken)
    BY <2>2, <2>5, FreshGains, Zenon DEF FreshInv, CachesFresh
  <2> QED
    BY <2>1, <2>3, <2>5, <2>6 DEF FreshInv, CachesFresh
<1>17. ASSUME NEW r \in Awaits, AwaitReady(r) \/ AwaitSuspend(r) \/ AwaitResume(r) PROVE FreshInv'
  BY <1>7, <1>8, <1>17 DEF AwaitReady, AwaitSuspend, AwaitResume, FreshInv
<1>18. ASSUME StartLod \/ StartJob PROVE FreshInv'
  <2>1. In(Head(pool), pool) /\ \A x : In(x, Tail(pool)) => In(x, pool)
    BY <1>1, <1>18, TailIn DEF StartLod, StartJob, Free
  <2> QED
    BY <1>7, <1>8, <1>18, <2>1 DEF StartLod, StartJob, FreshInv
<1>19. ASSUME NEW j \in Job, Unblock(j) PROVE FreshInv'
  BY <1>7, <1>8, <1>19 DEF Unblock, FreshInv
<1>20. ASSUME Dispatch PROVE FreshInv'
  <2>1. /\ pipe # <<>> /\ req' = [req EXCEPT ![Head(pipe)].pc = "reading"] /\ pipe' = Tail(pipe)
        /\ UNCHANGED <<store, writing, overtaken, cached, decoded, pool, running>>
    BY <1>20 DEF Dispatch
  <2> DEFINE h == Head(pipe)
  <2>2. /\ Len(pipe) \in Nat /\ Len(pipe) > 0 /\ DOMAIN pipe = 1 .. Len(pipe)
        /\ h = pipe[1] /\ h \in Requests
        /\ pipe' \in Seq(Requests) /\ Len(pipe') = Len(pipe) - 1
        /\ \A i \in 1 .. Len(pipe') : pipe'[i] = pipe[i + 1]
    BY <1>1, <2>1, EmptySeq, LenProperties, HeadTailProperties
  <2>3. DOMAIN pipe' = 1 .. Len(pipe) - 1
    BY <2>2, LenProperties
  <2> HIDE DEF h
  <2>4. req[h].pc = "queued"
    BY <2>2 DEF FreshInv, Lined
  <2>5. /\ req'[h].pc = "reading" /\ req'[h].key = req[h].key /\ req'[h].want = req[h].want
        /\ req'[h].got = req[h].got /\ req'[h].stale = req[h].stale
        /\ \A s \in Requests \ {h} : req'[s] = req[s]
    BY <1>1, <2>1, <2>2 DEF Reading, h
  <2>6. Flies(req'[h], writing, store, overtaken)
    BY <1>2, <2>2, <2>4, <2>5 DEF Flies, UnderWay, WithBytes
  <2>7. Flying'
    BY <1>2, <2>1, <2>5, <2>6 DEF Flying
  <2>8. Lined'
    <3>1. \A i \in DOMAIN pipe' : i + 1 \in DOMAIN pipe /\ i + 1 # 1 /\ pipe'[i] = pipe[i + 1]
      BY <2>2, <2>3
    <3>2. \A i \in DOMAIN pipe' : pipe'[i] \in Requests \ {h} /\ req[pipe'[i]].pc = "queued"
      <4>1. \A i \in DOMAIN pipe : pipe[i] \in Requests /\ req[pipe[i]].pc = "queued"
        BY <1>1, <2>2, ElementOfSeq DEF FreshInv, Lined
      <4>2. \A i \in DOMAIN pipe : i # 1 => pipe[i] # h
        BY <2>2 DEF FreshInv, Lined
      <4> QED
        BY <3>1, <4>1, <4>2
    <3>3. \A i \in DOMAIN pipe' : req'[pipe'[i]].pc = "queued"
      BY <2>5, <3>2
    <3>4. \A i, j \in DOMAIN pipe' : pipe'[i] = pipe'[j] => i = j
      <4>1. \A i, j \in DOMAIN pipe' : pipe'[i] = pipe'[j] => i + 1 = j + 1
        BY <3>1, Zenon DEF FreshInv, Lined
      <4> QED
        BY <2>2, <2>3, <4>1
    <3> QED
      BY <3>3, <3>4, Zenon DEF Lined
  <2>9. JobsKnown'
    <3>1. \A j \in Job : j.req \in Requests
      BY DEF Job
    <3> QED
      BY <2>1, <2>4, <2>5, <3>1 DEF FreshInv, JobsKnown
  <2> QED
    BY <1>7, <2>1, <2>7, <2>8, <2>9 DEF FreshInv
<1>21. ASSUME NEW k \in Recycled, EndWrite(k) PROVE FreshInv'
  <2>1. /\ k \in writing /\ store' = [store EXCEPT ![k] = @ + 1] /\ writing' = writing \ {k}
        /\ UNCHANGED <<overtaken, cached, decoded, req, pipe, pool, running>>
    BY <1>21 DEF EndWrite
  <2>2. \A c \in Seq(Entry) : Fresh(c, writing, store, overtaken) => Fresh(c, writing', store', overtaken')
    <3>1. SUFFICES ASSUME NEW c \in Seq(Entry), Fresh(c, writing, store, overtaken)
                   PROVE  \A i \in DOMAIN c : c[i].key \notin overtaken =>
                            c[i].key \notin writing' /\ c[i].val = store'[c[i].key]
      BY <2>1 DEF Fresh
    <3> TAKE i \in DOMAIN c
    <3> HAVE c[i].key \notin overtaken
    <3>2. c[i].key \in Keys
      <4>1. c[i] \in Entry
        BY LenProperties, ElementOfSeq
      <4> QED
        BY <4>1 DEF Entry
    <3>3. c[i].key # k /\ c[i].key \notin writing /\ c[i].val = store[c[i].key]
      BY <2>1, <3>1, Zenon DEF Fresh
    <3> QED
      BY <1>1, <2>1, <3>2, <3>3
  <2>3. CachesFresh'
    BY <1>1, <2>1, <2>2 DEF FreshInv, CachesFresh
  <2>4. \A r \in Requests : Flies(req[r], writing', store', overtaken')
    <3>1. SUFFICES ASSUME NEW r \in Requests PROVE Flies(req[r], writing', store', overtaken')
      OBVIOUS
    <3>0. store[k] \in Nat /\ req[r].want \in Nat /\ req[r].key \in Keys /\ store[req[r].key] \in Nat
      BY <1>1, <1>2, BlobReaderAssumption
    <3>2. store'[req[r].key] = IF req[r].key = k THEN store[k] + 1 ELSE store[req[r].key]
      BY <1>1, <1>2, <2>1
    <3>3. req[r].pc \in UnderWay /\ req[r].key \notin overtaken => req[r].key # k
      BY <1>2, <2>1 DEF Flies
    <3>4. req[r].pc \in UnderWay => req[r].want <= store'[req[r].key]
      BY <1>2, <3>0, <3>2 DEF Flies
    <3>5. req[r].pc \in WithBytes => req[r].pc \in UnderWay
      BY DEF UnderWay, WithBytes
    <3> QED
      BY <1>2, <2>1, <3>2, <3>3, <3>4, <3>5 DEF Flies
  <2> QED
    BY <2>1, <2>3, <2>4 DEF FreshInv, Flying, Lined, JobsKnown
<1>22. ASSUME Barrier \/ DestroyBackend \/ StopLoop PROVE FreshInv'
  BY <1>7, <1>8, <1>22 DEF Barrier, DestroyBackend, StopLoop, FreshInv
<1>23. ASSUME NEW r \in Lod, EnqueueLod(r) PROVE FreshInv'
  <2>1. /\ r \in Requests /\ req[r].pc = "new" /\ req'[r].pc = "pooled"
        /\ req'[r].stale = req[r].stale
        /\ \A s \in Requests \ {r} : req'[s] = req[s]
        /\ UNCHANGED <<store, writing, overtaken, cached, decoded, pipe, running>>
        /\ pool' = Append(pool, [kind |-> "lod", req |-> r])
    BY <1>1, <1>3, <1>23 DEF EnqueueLod, Reading
  <2>2. Flies(req'[r], writing, store, overtaken)
    BY <1>2, <2>1 DEF Flies, UnderWay, WithBytes
  <2>3. \A j : In(j, pool') => In(j, pool) \/ j.kind # "decode"
    <3>1. [kind |-> "lod", req |-> r] \in Job
      BY <2>1 DEF Job
    <3>2. \A j : In(j, pool') => In(j, pool) \/ j = [kind |-> "lod", req |-> r]
      BY <1>1, <2>1, <3>1, AppendIn, Zenon
    <3> QED
      BY <3>2
  <2> QED
    BY <1>7, <2>1, <2>2, <2>3, OneRequest DEF FreshInv
<1>24. ASSUME NEW n \in CacheSizes, SetCacheSize(n) \/ SetDecodedSize(n) PROVE FreshInv'
  <2>1. n \in Nat
    BY BlobReaderAssumption
  <2>2. \A c \in Seq(Entry) : Within(Shrink(c, n), c) /\ (Single(c) => Single(Shrink(c, n)))
    <3>1. SUFFICES ASSUME NEW c \in Seq(Entry)
                   PROVE  Within(Shrink(c, n), c) /\ (Single(c) => Single(Shrink(c, n)))
      BY Zenon
    <3> QED
      BY <2>1, ShrinkFacts
  <2>3. \A c \in Seq(Entry) : Fresh(c, writing, store, overtaken) => Fresh(Shrink(c, n), writing, store, overtaken)
    <3>1. SUFFICES ASSUME NEW c \in Seq(Entry), Fresh(c, writing, store, overtaken)
                   PROVE  Fresh(Shrink(c, n), writing, store, overtaken)
      OBVIOUS
    <3>2. Within(Shrink(c, n), c)
      BY <2>2, Zenon
    <3> QED
      BY <3>1, <3>2, FreshWithin, Zenon
  <2>4. CachesFresh'
    BY <1>1, <1>24, <2>2, <2>3 DEF SetCacheSize, SetDecodedSize, FreshInv, CachesFresh
  <2> QED
    BY <1>8, <1>24, <2>4 DEF SetCacheSize, SetDecodedSize, FreshInv
<1>25. ASSUME NEW k \in Recycled, StartWrite(k) PROVE FreshInv'
  <2>1. /\ overtaken' = (IF Outstanding(k) THEN overtaken \cup {k} ELSE overtaken \ {k})
        /\ writing' = writing \cup {k}
        /\ cached' = Erase(cached, k) /\ decoded' = Erase(decoded, k)
        /\ UNCHANGED <<store, req, pipe, pool, running>>
    BY <1>25 DEF StartWrite, Invalidated
  <2>2. \A c \in Seq(Entry) : Single(c) /\ Fresh(c, writing, store, overtaken) =>
          Single(Erase(c, k)) /\ Fresh(Erase(c, k), writing', store, overtaken')
    <3>1. SUFFICES ASSUME NEW c \in Seq(Entry), Single(c), Fresh(c, writing, store, overtaken)
                   PROVE  Single(Erase(c, k)) /\ Fresh(Erase(c, k), writing', store, overtaken')
      BY Zenon
    <3>2. Within(Erase(c, k), c) /\ Single(Erase(c, k)) /\ Without(Erase(c, k), k)
      BY <3>1, EraseFacts, Zenon
    <3>3. Fresh(Erase(c, k), writing, store, overtaken)
      BY <3>1, <3>2, FreshWithin, Zenon
    <3> QED
      BY <2>1, <3>2, <3>3 DEF Fresh, Without
  <2>3. CachesFresh'
    BY <1>1, <2>1, <2>2 DEF FreshInv, CachesFresh
  <2>4. \A r \in Requests : Flies(req[r], writing', store, overtaken')
    <3>1. \A r \in Requests : req[r].pc \in UnderWay /\ req[r].key \notin overtaken' =>
                               req[r].key # k /\ req[r].key \notin overtaken
      BY <2>1 DEF Outstanding, UnderWay
    <3>2. \A r \in Requests : req[r].pc \in WithBytes => req[r].pc \in UnderWay
      BY DEF UnderWay, WithBytes
    <3> QED
      BY <1>2, <2>1, <3>1, <3>2 DEF Flies
  <2> QED
    BY <2>1, <2>3, <2>4 DEF FreshInv, Flying, Lined, JobsKnown
<1>26. CASE UNCHANGED vars
  BY <1>7, <1>8, <1>26 DEF vars, FreshInv
<1> QED
  BY <1>9, <1>10, <1>11, <1>12, <1>13, <1>14, <1>15, <1>16, <1>17, <1>18, <1>19, <1>20, <1>21, <1>22,
     <1>23, <1>24, <1>25, <1>26 DEF Next, Progress

LEMMA FreshInit == Init => FreshInv
<1> SUFFICES ASSUME Init PROVE FreshInv
  OBVIOUS
<1>1. CachesFresh /\ Lined /\ JobsKnown
  BY DEF Init, CachesFresh, Single, Fresh, Lined, JobsKnown, In
<1>2. Flying
  BY IdleType DEF Init, Flying, Flies, UnderWay, WithBytes
<1> QED
  BY <1>1, <1>2 DEF FreshInv

(***************************************************************************)
(* For any number of offsets, readers, workers and rewrites, at any time:  *)
(* no read returns bytes older than what its offset held when it was       *)
(* issued, unless the offset was overtaken, that is, last rewritten while  *)
(* a read of it was left.  Reads of other offsets may be under way then,   *)
(* and a rewrite that finds none of its own left makes the offset good.    *)
(* (blob_reader_t::invalidate, storage_handler_t::do_write)                *)
(***************************************************************************)
THEOREM ReadsAreFresh == Spec => []FreshRead
<1>1. FreshInv => FreshRead
  BY DEF FreshInv, Flying, Flies, FreshRead
<1>2. TypeOK /\ FreshInv /\ [Next]_vars => FreshInv'
  BY FreshStep
<1> QED
  BY <1>1, <1>2, FreshInit, TypeCorrect, PTL DEF Spec
=============================================================================
