---------------------------- MODULE AccessProofs ----------------------------
(***************************************************************************)
(* Theorems about AccessRequests, for any number of requests over any tree *)
(* of trees, any batch size, whatever fails, and with or without a close   *)
(* while requests run.                                                     *)
(***************************************************************************)
EXTENDS AccessRequests, SequenceTheorems, WellFoundedInduction, NaturalsInduction, TLAPS

-----------------------------------------------------------------------------
(***************************************************************************)
(* Sequences: what an erased entry leaves, and the two parts of a batch.   *)
(***************************************************************************)
Less == OpToRel(<, Nat)

LEMMA LessIsWellFounded == IsWellFoundedOn(Less, Nat)
BY NatLessThanWellFounded DEF Less

LEMMA LessIsLess == \A x, y \in Nat : x < y => <<x, y>> \in Less
BY DEF OpToRel, Less

LEMMA LeastOfNat == ASSUME NEW I \in SUBSET Nat, I # {} PROVE Min(I) \in I
<1>1. PICK x \in I : \A y \in I : ~(<<y, x>> \in Less)
  <2>1. I \subseteq Nat
    OBVIOUS
  <2> QED
    BY <2>1, LessIsWellFounded, WFMin
<1>2. \A y \in I : ~(y < x)
  BY <1>1, LessIsLess
<1>3. \A y \in I : x =< y
  BY <1>2
<1> QED
  BY <1>3 DEF Min

LEMMA RemovedFrom ==
  ASSUME NEW S, NEW q \in Seq(S), NEW e
  PROVE  /\ RemoveFirst(q, e) \in Seq(S)
         /\ \A i \in 1..Len(RemoveFirst(q, e)) :
              \E j \in 1..Len(q) : RemoveFirst(q, e)[i] = q[j]
<1> DEFINE I == {i \in 1..Len(q) : q[i] = e}
<1>1. CASE I = {}
  BY <1>1 DEF RemoveFirst
<1>2. CASE I # {}
  <2>1. I \in SUBSET Nat /\ I \subseteq 1..Len(q)
    OBVIOUS
  <2>2. Min(I) \in 1..Len(q)
    BY <1>2, <2>1, LeastOfNat
  <2>3. RemoveFirst(q, e) = RemoveAt(q, SelectInSeq(q, LAMBDA v : v = e))
    BY <1>2, Zenon DEF RemoveFirst
  <2>4. SelectInSeq(q, LAMBDA v : v = e) = Min(I)
    BY <1>2, Zenon DEF SelectInSeq
  <2>5. RemoveFirst(q, e) = SubSeq(q, 1, Min(I) - 1) \o SubSeq(q, Min(I) + 1, Len(q))
    BY <2>3, <2>4, Zenon DEF RemoveAt
  <2> DEFINE m == Min(I)
  <2> HIDE DEF m, I
  <2>6. m \in 1..Len(q) /\ Len(q) \in Nat
    BY <2>2 DEF m
  <2>7. /\ SubSeq(q, 1, m - 1) \in Seq(S) /\ SubSeq(q, m + 1, Len(q)) \in Seq(S)
        /\ \A i \in 1..(m - 1) : SubSeq(q, 1, m - 1)[i] = q[i]
        /\ \A i \in 1..(Len(q) - m) : SubSeq(q, m + 1, Len(q))[i] = q[m + i]
        /\ Len(SubSeq(q, 1, m - 1)) = m - 1 /\ Len(SubSeq(q, m + 1, Len(q))) = Len(q) - m
    BY <2>6
  <2> DEFINE u == SubSeq(q, 1, m - 1)
             v == SubSeq(q, m + 1, Len(q))
  <2>8. RemoveFirst(q, e) = u \o v
    BY <2>5 DEF m
  <2>9. /\ u \in Seq(S) /\ v \in Seq(S) /\ Len(u) = m - 1 /\ Len(v) = Len(q) - m
        /\ \A i \in 1..(m - 1) : u[i] = q[i]
        /\ \A i \in 1..(Len(q) - m) : v[i] = q[m + i]
    BY <2>7
  <2> HIDE DEF u, v
  <2>10. /\ u \o v \in Seq(S)
         /\ \A i \in 1..Len(u \o v) : \E j \in 1..Len(q) : (u \o v)[i] = q[j]
    <3>1. /\ u \o v \in Seq(S) /\ Len(u \o v) = Len(u) + Len(v)
          /\ \A i \in 1..(Len(u) + Len(v)) : (u \o v)[i] = IF i <= Len(u) THEN u[i] ELSE v[i - Len(u)]
      BY <2>9, ConcatProperties
    <3>2. ASSUME NEW i \in 1..Len(u \o v)
          PROVE  \E j \in 1..Len(q) : (u \o v)[i] = q[j]
      <4>1. CASE i <= m - 1
        BY <2>6, <2>9, <3>1, <4>1
      <4>2. CASE ~(i <= m - 1)
        <5>1. (u \o v)[i] = v[i - (m - 1)] /\ i - (m - 1) \in 1..(Len(q) - m)
          BY <2>6, <2>9, <3>1, <4>2
        <5>2. v[i - (m - 1)] = q[m + (i - (m - 1))] /\ m + (i - (m - 1)) \in 1..Len(q)
          BY <2>6, <2>9, <5>1
        <5> QED
          BY <5>1, <5>2
      <4> QED
        BY <4>1, <4>2
    <3> QED
      BY <3>1, <3>2
  <2> QED
    BY <2>8, <2>10
<1> QED
  BY <1>1, <1>2

LEMMA TakeAndLeave ==
  ASSUME NEW S, NEW done \in Seq(S), NEW left \in Seq(S), NEW n \in 0..Len(left)
  PROVE  (done \o SubSeq(left, 1, n)) \o SubSeq(left, n + 1, Len(left)) = done \o left
<1>1. SubSeq(left, 1, n) \in Seq(S) /\ SubSeq(left, n + 1, Len(left)) \in Seq(S)
  OBVIOUS
<1>2. SubSeq(left, 1, n) \o SubSeq(left, n + 1, Len(left)) = left
  <2>1. Len(left) \in Nat /\ 1 \in 1..(Len(left) + 1) /\ n \in (1 - 1)..Len(left) /\ Len(left) \in n..Len(left)
    OBVIOUS
  <2>2. SubSeq(left, 1, n) \o SubSeq(left, n + 1, Len(left)) = SubSeq(left, 1, Len(left))
    BY <2>1, ConcatAdjacentSubSeq
  <2> QED
    BY <2>2, SubSeqFull
<1> DEFINE u == SubSeq(left, 1, n)
           v == SubSeq(left, n + 1, Len(left))
<1> HIDE DEF u, v
<1>3. (done \o u) \o v = done \o (u \o v)
  <2>1. u \in Seq(S) /\ v \in Seq(S)
    BY <1>1 DEF u, v
  <2> QED
    BY <2>1, ConcatAssociative
<1> QED
  BY <1>2, <1>3 DEF u, v

-----------------------------------------------------------------------------
(***************************************************************************)
(* A result once told is final.  The status is a race of three writers; it *)
(* is over when the coroutine has passed its exchange, and only then does  *)
(* the request come to where a callback can be made for it.                *)
(***************************************************************************)
Terminal(r) == status[r] \notin {"none", "pending"}

RunAt == {"none", "posted", "trees", "batch", "read", "cas", "notify", "push", "fire", "wake", "gone"}
HostAt == {"idle", "swap", "drain", "callback", "wait", "about", "asleep", "waited"}

RunForm(x) == x \in [at : RunAt, ok : BOOLEAN, todo : SUBSET Trees, left : Seq(Trees)]
HostForm == host \in [at : HostAt, r : Requests \cup {Free.r}, batch : Seq(Requests)]

Forms ==
  /\ status \in [Requests -> Statuses] /\ told \in [Requests -> Statuses]
  /\ DOMAIN run = Requests /\ \A r \in Requests : RunForm(run[r])
  /\ result \in [Requests -> Seq(Trees)]
  /\ HostForm /\ queue \in Seq(Requests)

Ending == {"notify", "push", "fire", "wake", "gone"}

ToldInv ==
  /\ \A r \in Requests : /\ told[r] # "none" => told[r] = status[r] /\ Terminal(r)
                         /\ run[r].at # "none" => status[r] # "none"
                         /\ run[r].at \in Ending => Terminal(r)
  /\ \A i \in 1..Len(queue) : Terminal(queue[i])
  /\ \A i \in 1..Len(host.batch) : Terminal(host.batch[i])


LEMMA WalkForm ==
  \A r \in Requests : \A res : RunForm(Walked(r, res)) /\ ~Walked(r, res).ok
<1> SUFFICES ASSUME NEW r \in Requests, NEW res
             PROVE  RunForm(Walked(r, res)) /\ ~Walked(r, res).ok
  OBVIOUS
<1> DEFINE missing == {t \in ToSet(Wanted[r]) \ res : Parent[t] \in res}
<1>1. Wanted[r] \in Seq(Trees)
  BY AccessAssumption
<1>2. missing \in SUBSET Trees
  BY <1>1 DEF ToSet
<1>3. Walked(r, res) = [at |-> IF missing = {} THEN "batch" ELSE "trees", ok |-> FALSE,
                        todo |-> missing, left |-> IF missing = {} THEN Wanted[r] ELSE <<>>]
  BY DEF Walked
<1> HIDE DEF missing
<1> QED
  BY <1>1, <1>2, <1>3, EmptySeq DEF RunForm, RunAt

LEMMA EndedForm == \A r : \A ok \in BOOLEAN : RunForm(Ended(r, ok)) /\ Ended(r, ok).at = "cas" /\ Ended(r, ok).ok = ok
BY DEF RunForm, RunAt, Ended

LEMMA NextForm ==
  ASSUME Forms, NEW r \in Requests, NEW res
  PROVE  RunForm(NextLoad(r, res))
<1>1. RunForm(run[r])
  BY DEF Forms
<1>2. \A x \in SUBSET Trees : RunForm([run[r] EXCEPT !.todo = x])
  BY <1>1 DEF RunForm, RunAt
<1>3. RunForm(Walked(r, res)) /\ RunForm(Ended(r, FALSE))
  BY WalkForm, EndedForm
<1>4. RunForm([run[r] EXCEPT !.todo = run[r].todo \ res])
  BY <1>1, <1>2 DEF RunForm
<1> QED
  BY <1>3, <1>4, Zenon DEF NextLoad

LEMMA GoesForm ==
  ASSUME Forms, NEW r \in Requests, NEW next, RunForm(next), Goes(r, next)
  PROVE  DOMAIN run' = Requests /\ \A q \in Requests : RunForm(run'[q])
BY DEF Forms, Goes

LEMMA RunAtForm == \A x : \A at \in RunAt : RunForm(x) => RunForm([x EXCEPT !.at = at])
BY DEF RunForm, RunAt

LEMMA AtForm ==
  ASSUME Forms, NEW r \in Requests, NEW at \in RunAt, run' = [run EXCEPT ![r].at = at]
  PROVE  DOMAIN run' = Requests /\ \A q \in Requests : RunForm(run'[q])
<1>1. ASSUME NEW q \in Requests
      PROVE  RunForm(run'[q])
  <2>1. RunForm(run[q]) /\ run'[q] = IF q = r THEN [run[r] EXCEPT !.at = at] ELSE run[q]
    BY DEF Forms
  <2> QED
    BY <2>1, RunAtForm
<1> QED
  BY <1>1 DEF Forms

LEMMA FormsInit == Init => Forms
<1> SUFFICES ASSUME Init PROVE Forms
  OBVIOUS
<1>1. \A S : <<>> \in Seq(S)
  BY EmptySeq
<1>2. HostForm /\ queue \in Seq(Requests)
  BY <1>1 DEF Init, HostForm, HostAt, Free
<1>3. DOMAIN run = Requests /\ \A r \in Requests : RunForm(run[r])
  BY <1>1 DEF Init, RunForm, RunAt
<1>4. result \in [Requests -> Seq(Trees)]
  BY <1>1 DEF Init
<1> QED
  BY <1>2, <1>3, <1>4 DEF Init, Forms, Statuses

LEMMA CoroutineForms ==
  ASSUME Forms, NEW r \in Requests, Coroutine(r)
  PROVE  Forms'
<1> USE DEF HostForm, RunAt, HostAt
<1>1. CASE Start(r)
  BY <1>1, WalkForm, EndedForm, GoesForm DEF Start, RunOnly, wakeVars, Forms
<1>2. CASE Loaded(r)
  BY <1>2, NextForm, EndedForm, GoesForm DEF Loaded, RunOnly, wakeVars, Forms
<1>3. CASE Batch(r)
  <2>1. PICK next \in {[run[r] EXCEPT !.at = "read"], Ended(r, TRUE), Ended(r, FALSE)} : Goes(r, next)
    <3>1. CASE run[r].left = <<>>
      BY <1>3, <3>1 DEF Batch
    <3>2. CASE run[r].left # <<>> /\ status[r] = "canceled"
      BY <1>3, <3>2 DEF Batch
    <3>3. CASE run[r].left # <<>> /\ status[r] # "canceled"
      BY <1>3, <3>3 DEF Batch
    <3> QED
      BY <3>1, <3>2, <3>3
  <2>2. RunForm(next)
    <3>1. RunForm(run[r])
      BY DEF Forms
    <3>2. RunForm([run[r] EXCEPT !.at = "read"])
      BY <3>1, RunAtForm
    <3>3. RunForm(Ended(r, TRUE)) /\ RunForm(Ended(r, FALSE))
      BY EmptySeq DEF RunForm, RunAt, Ended
    <3> QED
      BY <2>1, <3>2, <3>3
  <2> QED
    BY <1>3, <2>1, <2>2, GoesForm DEF Batch, RunOnly, wakeVars, Forms
<1>4. CASE Decode(r)
  <2> DEFINE left == run[r].left
             n == IF io[r] = "bad" THEN Size(r) - 1 ELSE Size(r)
             rest == [run[r] EXCEPT !.at = "batch", !.left = SubSeq(@, Size(r) + 1, Len(@))]
  <2>1. left \in Seq(Trees) /\ RunForm(run[r]) /\ result[r] \in Seq(Trees)
    BY DEF Forms, RunForm
  <2>2. Size(r) \in 0..Len(left)
    BY <2>1, AccessAssumption DEF Size
  <2>3. SubSeq(left, 1, n) \in Seq(Trees) /\ SubSeq(left, Size(r) + 1, Len(left)) \in Seq(Trees)
    <3> DEFINE k == Size(r)
    <3> HIDE DEF left, k
    <3>1. k \in 0..Len(left) /\ left \in Seq(Trees) /\ Len(left) \in Nat
      BY <2>1, <2>2 DEF k
    <3>2. \A m \in {k, k - 1} : m \in Int /\ \A i \in 1..m : left[i] \in Trees
      BY <3>1
    <3>3. \A m \in {k, k - 1} : SubSeq(left, 1, m) \in Seq(Trees)
      BY <3>2, SubSeqProperties
    <3>4. SubSeq(left, k + 1, Len(left)) \in Seq(Trees)
      BY <3>1
    <3> QED
      BY <3>3, <3>4 DEF k
  <2>4. RunForm(rest)
    <3>1. \A x : \A l \in Seq(Trees) : RunForm(x) => RunForm([x EXCEPT !.at = "batch", !.left = l])
      BY DEF RunForm, RunAt
    <3> QED
      BY <2>1, <2>3, <3>1
  <2>5. result[r] \o SubSeq(left, 1, n) \in Seq(Trees)
    BY <2>1, <2>3, ConcatProperties
  <2>6. result' = [result EXCEPT ![r] = @ \o SubSeq(left, 1, n)]
    BY <1>4, Zenon DEF Decode
  <2>7. result' \in [Requests -> Seq(Trees)]
    BY <2>5, <2>6 DEF Forms
  <2>8. PICK next : Goes(r, next) /\ next \in {rest, Ended(r, FALSE)}
    BY <1>4 DEF Decode
  <2> HIDE DEF n, left, rest
  <2>9. RunForm(next)
    BY <2>4, <2>8, EndedForm
  <2> QED
    BY <1>4, <2>7, <2>8, <2>9, GoesForm DEF Decode, RunOnly, wakeVars, Forms
<1>5. CASE Cas(r)
  BY <1>5, AtForm DEF Cas, Step, FinalStatus, datasetVars, wakeVars, Forms, Statuses
<1>6. CASE Notify(r)
  BY <1>6, AtForm DEF Notify, Step, Notified, datasetVars, wakeVars, Forms
<1>7. CASE Push(r)
  <2>1. queue' \in Seq(Requests)
    BY <1>7, AppendProperties DEF Push, Forms
  <2> QED
    BY <1>7, <2>1, AtForm DEF Push, Step, datasetVars, Forms
<1>8. CASE Fire(r)
  BY <1>8, AtForm DEF Fire, Step, datasetVars, Forms
<1>9. CASE Wake(r)
  BY <1>9, AtForm DEF Wake, Step, datasetVars, Forms
<1> QED
  BY <1>1, <1>2, <1>3, <1>4, <1>5, <1>6, <1>7, <1>8, <1>9 DEF Coroutine, Finish

LEMMA HostForms ==
  ASSUME Forms, InCall \/ Poll \/ TimesOut \/ \E r \in Requests : StartWait(r)
  PROVE  Forms'
<1> USE DEF HostAt, HostOnly, datasetVars, workVars, wakeVars
<1>1. Free \in [at : HostAt, r : {Free.r}, batch : {<<>>}]
  BY DEF Free
<1>2. \A at \in HostAt : \A batch \in Seq(Requests) :
        In(at, batch) \in [at : {at}, r : {Free.r}, batch : {batch}]
  BY <1>1 DEF In
<1>3. <<>> \in Seq(Requests)
  BY EmptySeq
<1>4. Free \in [at : HostAt, r : Requests \cup {Free.r}, batch : Seq(Requests)]
  BY <1>1, <1>3
<1>5. CASE Swap
  BY <1>2, <1>3, <1>5 DEF Swap, Forms, HostForm
<1>6. ASSUME NEW r, NEW batch \in Seq(Requests), Claimed(r, batch),
             UNCHANGED <<datasetVars, status, run, result, queue>>
      PROVE  Forms'
  <2>1. HostForm'
    BY <1>2, <1>6 DEF Claimed, HostForm
  <2>2. told' \in [Requests -> Statuses]
    <3>1. CASE r \in Requests
      BY <1>6, <3>1 DEF Claimed, Forms
    <3>2. CASE r \notin Requests
      BY <1>6, <3>2 DEF Claimed, Forms
    <3> QED
      BY <3>1, <3>2
  <2> QED
    BY <1>6, <2>1, <2>2 DEF Forms
<1>7. CASE Drain
  <2>1. CASE host.batch = <<>>
    BY <1>4, <1>7, <2>1 DEF Drain, Forms, HostForm
  <2>2. CASE host.batch # <<>>
    <3>1. Tail(host.batch) \in Seq(Requests)
      BY <2>2, HeadTailProperties DEF Forms, HostForm
    <3>2. Claimed(Head(host.batch), Tail(host.batch))
      BY <1>7, <2>2 DEF Drain
    <3> QED
      BY <1>6, <1>7, <3>1, <3>2 DEF Drain
  <2> QED
    BY <2>1, <2>2
<1>8. CASE Waited
  <2>1. CASE status[host.r] = "pending"
    BY <1>4, <1>8, <2>1 DEF Waited, Forms, HostForm
  <2>2. CASE status[host.r] # "pending"
    BY <1>3, <1>6, <1>8, <2>2 DEF Waited
  <2> QED
    BY <2>1, <2>2
<1>9. CASE CallbackReturns \/ Look \/ Sleep \/ TimesOut
  BY <1>9 DEF CallbackReturns, Look, Sleep, TimesOut, Forms, HostForm
<1>10. CASE Poll
  <2>1. HostForm'
    <3>1. host' = In("swap", <<>>) /\ In("swap", <<>>) \in [at : {"swap"}, r : {Free.r}, batch : {<<>>}]
      BY <1>2, <1>3, <1>10 DEF Poll
    <3> QED
      BY <1>3, <3>1 DEF HostForm
  <2> QED
    BY <1>10, <2>1 DEF Poll, Forms
<1>11. CASE \E r \in Requests : StartWait(r)
  BY <1>1, <1>3, <1>11 DEF StartWait, Forms, HostForm
<1> QED
  BY <1>5, <1>7, <1>8, <1>9, <1>10, <1>11 DEF InCall

LEMMA FormsStep == Forms /\ [Next]_vars => Forms'
<1> SUFFICES ASSUME Forms, [Next]_vars PROVE Forms'
  OBVIOUS
<1> USE DEF HostForm, RunAt, HostAt
<1>1. CASE UNCHANGED vars
  BY <1>1 DEF vars, Forms
<1>2. CASE \E r \in Requests : Land(r)
  BY <1>2 DEF Land, RunOnly, wakeVars, Forms
<1>3. CASE \E r \in Requests : Coroutine(r)
  BY <1>3, CoroutineForms
<1>4. CASE Opening
  BY <1>4 DEF Opening, OpenStep, SetState, FireState, WakeState, Announce, OpenOnly, workVars, Forms
<1>5. CASE InCall \/ Poll \/ TimesOut \/ \E r \in Requests : StartWait(r)
  BY <1>5, HostForms
<1>6. \A S : Canceled(S) \in [Requests -> Statuses]
  BY DEF Canceled, Forms, Statuses
<1>7. CASE Closing \/ Close
  BY <1>6, <1>7, EmptySeq
     DEF Closing, CancelAll, JoinPool, StopReader, Barrier, Close, CloseOnly, datasetVars, Forms
<1>8. ASSUME NEW r \in Requests, RequestRegion(r)
      PROVE  Forms'
  <2>1. status' \in [Requests -> Statuses]
    BY <1>8 DEF RequestRegion, Forms, Statuses
  <2> QED
    BY <1>8, <2>1, AtForm DEF RequestRegion, datasetVars, wakeVars, Forms
<1>9. ASSUME NEW r \in Requests, Cancel(r)
      PROVE  Forms'
  BY <1>6, <1>9 DEF Cancel, Notified, datasetVars, wakeVars, Forms
<1>10. ASSUME NEW r \in Requests, Release(r)
       PROVE  Forms'
  <2>1. queue' \in Seq(Requests)
    BY <1>10, RemovedFrom DEF Release, Forms
  <2> QED
    BY <1>6, <1>10, <2>1 DEF Release, datasetVars, Forms
<1> QED
  BY <1>1, <1>2, <1>3, <1>4, <1>5, <1>7, <1>8, <1>9, <1>10 DEF Next

LEMMA ToldInit == Init => ToldInv
BY DEF Init, ToldInv, Terminal, Free, Ending

\* A status other than pending is overwritten by nobody.
LEMMA StatusStays ==
  ASSUME Forms, ToldInv, [Next]_vars, NEW r \in Requests, status[r] # "none"
  PROVE  /\ Terminal(r) => status'[r] = status[r]
         /\ status'[r] # "none"
<1>1. CASE UNCHANGED status
  BY <1>1
<1>2. ASSUME NEW q \in Requests, Cas(q)
      PROVE  status' = [status EXCEPT ![q] = FinalStatus(q)] /\ FinalStatus(q) # "none"
  BY <1>2 DEF Cas, Step, FinalStatus, ToldInv
<1>3. ASSUME NEW S, status' = Canceled(S)
      PROVE  status'[r] = status[r] \/ (status[r] = "pending" /\ status'[r] = "canceled")
  BY <1>3 DEF Canceled
<1>4. ASSUME NEW q \in Requests, RequestRegion(q)
      PROVE  status'[r] = status[r]
  BY <1>4 DEF RequestRegion, Forms
<1>5. \/ UNCHANGED status
      \/ \E q \in Requests : Cas(q) \/ RequestRegion(q)
      \/ \E S : status' = Canceled(S)
  <2>1. CASE \E q \in Requests : Land(q) \/ Start(q) \/ Loaded(q) \/ Batch(q) \/ Decode(q)
    BY <2>1 DEF Land, Start, Loaded, Batch, Decode
  <2>2. CASE \E q \in Requests : Notify(q) \/ Push(q) \/ Fire(q) \/ Wake(q)
    BY <2>2 DEF Notify, Push, Fire, Wake
  <2>3. CASE Opening
    BY <2>3 DEF Opening, OpenStep, SetState, FireState, WakeState, Announce, OpenOnly, workVars
  <2>4. CASE InCall \/ Poll \/ TimesOut \/ \E q \in Requests : StartWait(q)
    BY <2>4 DEF InCall, Swap, Drain, CallbackReturns, Look, Sleep, Waited, Poll, TimesOut, StartWait,
                HostOnly, workVars
  <2>5. CASE Closing \/ Close
    BY <2>5 DEF Closing, CancelAll, JoinPool, StopReader, Barrier, Close
  <2>6. CASE \E q \in Requests : Cancel(q) \/ Release(q)
    BY <2>6 DEF Cancel, Release
  <2> QED
    BY <2>1, <2>2, <2>3, <2>4, <2>5, <2>6 DEF Next, Coroutine, Finish, vars
<1>6. ASSUME NEW q \in Requests, Cas(q)
      PROVE  Terminal(r) => status'[r] = status[r]
  BY <1>6 DEF Cas, FinalStatus, Terminal, Forms
<1> QED
  BY <1>1, <1>2, <1>3, <1>4, <1>5, <1>6 DEF Terminal, Forms

LEMMA GoesOn ==
  ASSUME Forms, NEW r \in Requests, Start(r) \/ Loaded(r) \/ Batch(r) \/ Decode(r)
  PROVE  \E next : Goes(r, next) /\ next.at \in {"trees", "batch", "read", "cas"}
<1>1. \A res : Walked(r, res).at \in {"trees", "batch"}
  BY DEF Walked
<1>2. Ended(r, TRUE).at = "cas" /\ Ended(r, FALSE).at = "cas"
  BY DEF Ended
<1>3. RunForm(run[r])
  BY DEF Forms
<1>4. CASE Start(r)
  BY <1>1, <1>2, <1>4 DEF Start
<1>5. CASE Loaded(r)
  <2>1. ASSUME NEW res
        PROVE  NextLoad(r, res).at \in {"trees", "batch", "read", "cas"}
    <3>1. [run[r] EXCEPT !.todo = run[r].todo \ res].at = run[r].at /\ run[r].at = "trees"
      BY <1>3, <1>5 DEF Loaded, RunForm
    <3> QED
      BY <1>1, <1>2, <3>1 DEF NextLoad
  <2> QED
    BY <1>2, <1>5, <2>1 DEF Loaded
<1>6. CASE Batch(r)
  <2>1. [run[r] EXCEPT !.at = "read"].at = "read"
    BY <1>3 DEF RunForm
  <2>2. CASE run[r].left = <<>>
    BY <1>2, <1>6, <2>2 DEF Batch
  <2>3. CASE run[r].left # <<>> /\ status[r] = "canceled"
    BY <1>2, <1>6, <2>3 DEF Batch
  <2>4. CASE run[r].left # <<>> /\ status[r] # "canceled"
    BY <1>6, <2>1, <2>4 DEF Batch
  <2> QED
    BY <2>2, <2>3, <2>4
<1>7. CASE Decode(r)
  <2>1. \A l : [run[r] EXCEPT !.at = "batch", !.left = l].at = "batch"
    BY <1>3 DEF RunForm
  <2> QED
    BY <1>2, <1>7, <2>1 DEF Decode
<1> QED
  BY <1>4, <1>5, <1>6, <1>7

LEMMA BatchComes ==
  ASSUME Forms, [Next]_vars
  PROVE  \/ host'.batch = host.batch \/ host'.batch = queue \/ host'.batch = <<>>
         \/ host.batch # <<>> /\ host'.batch = Tail(host.batch)
<1> USE DEF HostForm, HostAt
<1>1. Free \in [at : HostAt, r : {Free.r}, batch : {<<>>}] /\ <<>> \in Seq(Requests)
  BY EmptySeq DEF Free
<1>2. \A at \in HostAt : \A batch \in Seq(Requests) : In(at, batch).batch = batch
  BY <1>1 DEF In
<1>3. \A at \in HostAt : \A r \in Requests : [Free EXCEPT !.at = at, !.r = r].batch = <<>>
  BY <1>1
<1>4. \A at \in HostAt : [host EXCEPT !.at = at].batch = host.batch
  BY DEF Forms
<1>5. ASSUME NEW r, NEW batch \in Seq(Requests), Claimed(r, batch)
      PROVE  host'.batch = batch
  BY <1>2, <1>5 DEF Claimed
<1>6. CASE Swap
  BY <1>2, <1>6 DEF Swap, Forms
<1>7. CASE Drain
  <2>1. CASE host.batch = <<>>
    BY <1>1, <1>7, <2>1 DEF Drain
  <2>2. CASE host.batch # <<>>
    <3>1. Tail(host.batch) \in Seq(Requests)
      BY <2>2, HeadTailProperties DEF Forms
    <3>2. Claimed(Head(host.batch), Tail(host.batch))
      BY <1>7, <2>2 DEF Drain
    <3> QED
      BY <1>5, <2>2, <3>1, <3>2
  <2> QED
    BY <2>1, <2>2
<1>8. CASE Waited
  BY <1>1, <1>5, <1>8 DEF Waited
<1>9. CASE CallbackReturns \/ Look \/ Sleep \/ TimesOut
  BY <1>4, <1>9 DEF CallbackReturns, Look, Sleep, TimesOut
<1>10. CASE Poll
  <2>1. host' = In("swap", <<>>)
    BY <1>10 DEF Poll
  <2> QED
    BY <1>1, <1>2, <2>1
<1>11. CASE \E r \in Requests : StartWait(r)
  BY <1>3, <1>11 DEF StartWait
<1>12. CASE \E r \in Requests : Notify(r) \/ Cancel(r)
  BY <1>4, <1>12 DEF Notify, Cancel, Notified
<1>13. CASE UNCHANGED host
  BY <1>13
<1> QED
  BY <1>6, <1>7, <1>8, <1>9, <1>10, <1>11, <1>12, <1>13
  DEF Next, vars, Land, Coroutine, Finish, Start, Loaded, Batch, Decode, Cas, Push, Fire, Wake, RunOnly, Opening,
      OpenStep, SetState, FireState, WakeState, Announce, OpenOnly, InCall, Closing, CancelAll, JoinPool, StopReader,
      Barrier, Close, CloseOnly, RequestRegion, Release

LEMMA ToldStep == Forms /\ ToldInv /\ [Next]_vars => ToldInv'
<1> SUFFICES ASSUME Forms, ToldInv, [Next]_vars PROVE ToldInv'
  OBVIOUS
<1> DEFINE Done(r) == status'[r] \notin {"none", "pending"}
           Ran(r) == /\ run'[r].at # "none" => status'[r] # "none"
                     /\ run'[r].at \in Ending => Done(r)
           Told(r) == told'[r] # "none" => told'[r] = status'[r] /\ Done(r)
<1>1. \A r \in Requests : Terminal(r) => status'[r] = status[r] /\ Done(r)
  BY StatusStays DEF Terminal
<1>2. \A r \in Requests : status[r] # "none" => status'[r] # "none"
  BY StatusStays
<1>3. \A r \in Requests : run'[r].at = run[r].at => Ran(r)
  BY <1>1, <1>2 DEF ToldInv
<1>4. ASSUME NEW r \in Requests, Coroutine(r)
      PROVE  \A q \in Requests : Ran(q)
  <2>1. \A q \in Requests : q # r => run'[q] = run[q]
    BY <1>4 DEF Coroutine, Finish, Start, Loaded, Batch, Decode, Cas, Notify, Push, Fire, Wake, Goes, Step, Forms
  <2>2. run[r].at # "none"
    BY <1>4 DEF Coroutine, Finish, Start, Loaded, Batch, Decode, Cas, Notify, Push, Fire, Wake, Step
  <2>3. CASE Cas(r)
    <3>1. Done(r)
      BY <2>3 DEF Cas, Step, FinalStatus, ToldInv, Forms
    <3> QED
      BY <1>3, <2>1, <3>1
  <2>4. CASE Notify(r) \/ Push(r) \/ Fire(r) \/ Wake(r)
    <3>1. Done(r)
      BY <1>1, <2>4 DEF Notify, Push, Fire, Wake, Step, ToldInv, Ending
    <3> QED
      BY <1>3, <2>1, <3>1
  <2>5. CASE Start(r) \/ Loaded(r) \/ Batch(r) \/ Decode(r)
    <3>1. PICK next : run' = [run EXCEPT ![r] = next] /\ next.at \notin Ending
      BY <2>5, GoesOn DEF Goes, Ending
    <3>2. Ran(r)
      BY <1>2, <2>2, <3>1 DEF ToldInv, Forms
    <3> QED
      BY <1>3, <2>1, <3>2
  <2> QED
    BY <1>4, <2>3, <2>4, <2>5 DEF Coroutine, Finish
<1>5. ASSUME NEW r \in Requests, RequestRegion(r)
      PROVE  \A q \in Requests : Ran(q)
  <2>1. run' = [run EXCEPT ![r].at = "posted"] /\ status'[r] = "pending"
    BY <1>5 DEF RequestRegion, Forms
  <2>2. Ran(r)
    BY <2>1 DEF Ending, Forms, RunForm, RunAt
  <2> QED
    BY <1>3, <2>1, <2>2 DEF Forms
<1>6. \A r \in Requests : Ran(r)
  <2>1. CASE UNCHANGED run
    BY <1>3, <2>1
  <2> QED
    BY <1>4, <1>5, <2>1
    DEF Next, vars, Land, RunOnly, Opening, OpenStep, SetState, FireState, WakeState, Announce, OpenOnly,
        InCall, Swap, Drain, CallbackReturns, Look, Sleep, Waited, Poll, TimesOut, StartWait, HostOnly,
        workVars, Closing, CancelAll, JoinPool, StopReader, Barrier, Close, CloseOnly, Cancel, Release
<1>7. ASSUME NEW r, NEW batch, Claimed(r, batch), UNCHANGED status, status[r] # "pending"
      PROVE  \A q \in Requests : Told(q)
  <2>1. CASE r \in Requests /\ status[r] # "none"
    BY <1>1, <1>7, <2>1 DEF Claimed, ToldInv, Terminal, Forms
  <2>2. CASE ~(r \in Requests /\ status[r] # "none")
    BY <1>1, <1>7, <2>2 DEF Claimed, ToldInv, Terminal, Forms
  <2> QED
    BY <2>1, <2>2
<1>8. \A r \in Requests : Told(r)
  <2>1. CASE UNCHANGED told
    BY <1>1, <2>1 DEF ToldInv
  <2>2. CASE Drain /\ host.batch # <<>>
    <3>1. Head(host.batch) = host.batch[1] /\ 1 \in 1..Len(host.batch)
      BY <2>2, EmptySeq, HeadTailProperties DEF Forms, HostForm
    <3>2. status[Head(host.batch)] # "pending"
      BY <3>1 DEF ToldInv, Terminal
    <3> QED
      BY <1>7, <2>2, <3>2 DEF Drain, HostOnly, workVars
  <2>3. CASE Waited /\ status[host.r] # "pending"
    BY <1>7, <2>3 DEF Waited, HostOnly, workVars
  <2> QED
    BY <2>1, <2>2, <2>3
    DEF Next, vars, Land, Coroutine, Finish, Start, Loaded, Batch, Decode, Cas, Notify, Push, Fire, Wake, RunOnly,
        wakeVars, Opening, OpenStep, SetState, FireState, WakeState, Announce, OpenOnly, InCall, Swap, Drain,
        CallbackReturns, Look, Sleep, Waited, Poll, TimesOut, StartWait, Closing, CancelAll, JoinPool, StopReader,
        Barrier, Close, CloseOnly, RequestRegion, Cancel, Release
<1>9. \A i \in 1..Len(queue') : Done(queue'[i])
  <2>1. CASE UNCHANGED queue
    BY <1>1, <2>1, ElementOfSeq DEF ToldInv, Forms
  <2>2. CASE queue' = <<>>
    BY <2>2
  <2>3. ASSUME NEW r \in Requests, Push(r)
        PROVE  \A i \in 1..Len(queue') : Done(queue'[i])
    <3>1. Done(r)
      BY <1>1, <2>3 DEF Push, Step, ToldInv, Ending
    <3>2. \A i \in 1..Len(queue) : queue[i] \in Requests /\ Done(queue[i])
      BY <1>1, ElementOfSeq DEF ToldInv, Forms
    <3>3. Len(queue') = Len(queue) + 1 /\ queue'[Len(queue) + 1] = r /\ Len(queue) \in Nat
          /\ \A i \in 1..Len(queue) : queue'[i] = queue[i]
      BY <2>3, AppendProperties DEF Push, Forms
    <3> QED
      BY <3>1, <3>2, <3>3
  <2>4. ASSUME NEW r \in Requests, Release(r)
        PROVE  \A i \in 1..Len(queue') : Done(queue'[i])
    <3>1. \A i \in 1..Len(queue') : \E k \in 1..Len(queue) : queue'[i] = queue[k]
      <4>1. queue \in Seq(Requests) /\ queue' = RemoveFirst(queue, r)
        BY <2>4 DEF Release, Forms
      <4> QED
        BY <4>1, RemovedFrom
    <3>2. \A i \in 1..Len(queue) : Done(queue[i])
      BY <1>1, ElementOfSeq DEF ToldInv, Forms
    <3> QED
      BY <3>1, <3>2
  <2> QED
    BY <2>1, <2>2, <2>3, <2>4
    DEF Next, vars, Land, Coroutine, Finish, Start, Loaded, Batch, Decode, Cas, Notify, Fire, Wake, RunOnly,
        wakeVars, Opening, OpenStep, SetState, FireState, WakeState, Announce, OpenOnly, InCall, Swap, Drain,
        CallbackReturns, Look, Sleep, Waited, Poll, TimesOut, StartWait, Closing, CancelAll, JoinPool, StopReader,
        Barrier, Close, CloseOnly, RequestRegion, Cancel
<1>10. \A i \in 1..Len(host'.batch) : Done(host'.batch[i])
  <2>1. host.batch \in Seq(Requests) /\ queue \in Seq(Requests)
    BY DEF Forms, HostForm
  <2>2. \A s \in {host.batch, queue} : \A i \in 1..Len(s) : Done(s[i])
    BY <1>1, <2>1, ElementOfSeq DEF ToldInv
  <2>3. CASE host'.batch \in {host.batch, queue}
    BY <2>2, <2>3
  <2>4. CASE host'.batch = <<>>
    BY <2>4
  <2>5. CASE host.batch # <<>> /\ host'.batch = Tail(host.batch)
    BY <2>1, <2>2, <2>5, HeadTailProperties
  <2> QED
    BY <2>3, <2>4, <2>5, BatchComes
<1> QED
  BY <1>6, <1>8, <1>9, <1>10 DEF ToldInv, Terminal

(***************************************************************************)
(* dew_request_status is idempotent: the status a callback was told stays, *)
(* whatever cancel, the end of the coroutine, a poll and a wait make of    *)
(* each other, and also when the dataset closes under running requests.    *)
(***************************************************************************)
THEOREM ResultsAreFinal == Spec => []ToldIsFinal
<1> DEFINE Inv == Forms /\ ToldInv
<1>1. Init => Inv
  BY FormsInit, ToldInit
<1>2. Inv /\ [Next]_vars => Inv'
  BY FormsStep, ToldStep
<1>3. Inv => ToldIsFinal
  BY DEF ToldInv, Terminal, ToldIsFinal
<1> QED
  BY <1>1, <1>2, <1>3, PTL DEF Spec

-----------------------------------------------------------------------------
(***************************************************************************)
(* A completed request is whole.  What a request has and what it is yet to *)
(* read make up its region from the end of the walk on; ok is set where    *)
(* nothing is left, and only an ok coroutine completes its request.        *)
(***************************************************************************)
Whole(r) ==
  /\ run[r].at \in {"none", "posted", "trees"} => result[r] = <<>>
  /\ run[r].at \in {"batch", "read"} => result[r] \o run[r].left = Wanted[r]
  /\ run[r].ok => run[r].at \in {"cas"} \cup Ending /\ result[r] = Wanted[r]
  /\ status[r] = "completed" => run[r].ok
  /\ status[r] = "none" => run[r].at = "none"

WholeInv == \A r \in Requests : Whole(r)

LEMMA WholeInit == Init => WholeInv
BY DEF Init, WholeInv, Whole

\* A coroutine under way goes on to one of three places.
LEMMA WholeGoes ==
  ASSUME Forms, NEW r \in Requests, Whole(r), run[r].at \in {"posted", "trees", "batch", "read"},
         NEW next, Goes(r, next), status' = status,
         \/ next.at = "trees" /\ ~next.ok /\ result'[r] = <<>>
         \/ next.at \in {"batch", "read"} /\ ~next.ok /\ result'[r] \o next.left = Wanted[r]
         \/ next.at = "cas" /\ (next.ok => result'[r] = Wanted[r])
  PROVE  Whole(r)'
<1>1. run'[r] = next
  BY DEF Goes, Forms
<1>2. ~run[r].ok /\ status[r] \notin {"none", "completed"}
  BY DEF Whole, Ending
<1> QED
  BY <1>1, <1>2 DEF Whole, Ending

LEMMA CoroutineWhole ==
  ASSUME Forms, NEW r \in Requests, Whole(r), Coroutine(r)
  PROVE  Whole(r)'
<1>1. RunForm(run[r]) /\ Wanted[r] \in Seq(Trees) /\ result[r] \in Seq(Trees)
  BY AccessAssumption DEF Forms
<1>2. ~Ended(r, FALSE).ok /\ Ended(r, FALSE).at = "cas" /\ Ended(r, TRUE).ok /\ Ended(r, TRUE).at = "cas"
  BY DEF Ended
<1>3. ASSUME NEW res
      PROVE  LET w == Walked(r, res)
             IN  ~w.ok /\ (w.at = "trees" \/ (w.at = "batch" /\ w.left = Wanted[r]))
  <2> DEFINE missing == {t \in ToSet(Wanted[r]) \ res : Parent[t] \in res}
  <2>1. Walked(r, res) = [at |-> IF missing = {} THEN "batch" ELSE "trees", ok |-> FALSE,
                          todo |-> missing, left |-> IF missing = {} THEN Wanted[r] ELSE <<>>]
    BY DEF Walked
  <2> HIDE DEF missing
  <2> QED
    BY <2>1
<1>4. <<>> \o Wanted[r] = Wanted[r] /\ result[r] \o <<>> = result[r]
  BY <1>1, ConcatEmptySeq
<1>5. CASE Start(r)
  <2>1. run[r].at = "posted" /\ result[r] = <<>> /\ UNCHANGED <<status, result>>
    BY <1>5 DEF Start, Whole
  <2>2. Goes(r, Walked(r, resident)) \/ Goes(r, Ended(r, FALSE))
    BY <1>5 DEF Start
  <2> QED
    BY <1>2, <1>3, <1>4, <2>1, <2>2, WholeGoes
<1>6. CASE Loaded(r)
  <2>1. run[r].at = "trees" /\ result[r] = <<>> /\ UNCHANGED <<status, result>> /\ ~run[r].ok
    BY <1>6 DEF Loaded, Whole, Ending
  <2>2. \A l : LET n == [run[r] EXCEPT !.todo = l] IN n.at = "trees" /\ ~n.ok
    BY <1>1, <2>1 DEF RunForm
  <2>3. \A res : LET n == NextLoad(r, res)
                 IN  \/ n.at = "trees" /\ ~n.ok
                     \/ n.at = "batch" /\ ~n.ok /\ n.left = Wanted[r]
                     \/ n.at = "cas" /\ ~n.ok
    BY <1>2, <1>3, <2>2 DEF NextLoad
  <2>4. PICK res : Goes(r, NextLoad(r, res)) \/ Goes(r, Ended(r, FALSE))
    BY <1>6 DEF Loaded
  <2> QED
    BY <1>2, <1>4, <2>1, <2>3, <2>4, WholeGoes
<1>7. CASE Batch(r)
  <2>1. run[r].at = "batch" /\ result[r] \o run[r].left = Wanted[r] /\ UNCHANGED <<status, result>> /\ ~run[r].ok
    BY <1>7 DEF Batch, Whole, Ending
  <2>2. CASE run[r].left = <<>>
    <3>1. Goes(r, Ended(r, TRUE))
      BY <1>7, <2>2 DEF Batch
    <3> QED
      BY <1>2, <1>4, <2>1, <2>2, <3>1, WholeGoes
  <2>3. CASE run[r].left # <<>> /\ status[r] = "canceled"
    <3>1. Goes(r, Ended(r, FALSE))
      BY <1>7, <2>3 DEF Batch
    <3> QED
      BY <1>2, <2>1, <3>1, WholeGoes
  <2>4. CASE run[r].left # <<>> /\ status[r] # "canceled"
    <3> DEFINE n == [run[r] EXCEPT !.at = "read"]
    <3>1. Goes(r, n)
      BY <1>7, <2>4 DEF Batch
    <3>2. n.at = "read" /\ ~n.ok /\ n.left = run[r].left
      BY <1>1, <2>1 DEF RunForm
    <3> HIDE DEF n
    <3> QED
      BY <2>1, <3>1, <3>2, WholeGoes
  <2> QED
    BY <2>2, <2>3, <2>4
<1>8. CASE Decode(r)
  <2>1. run[r].at = "read" /\ result[r] \o run[r].left = Wanted[r] /\ UNCHANGED status /\ ~run[r].ok
    BY <1>8 DEF Decode, RunOnly, Whole, Ending
  <2>2. CASE io[r] = "bad"
    <3>1. Goes(r, Ended(r, FALSE))
      BY <1>8, <2>2 DEF Decode
    <3> QED
      BY <1>2, <2>1, <3>1, WholeGoes
  <2>3. CASE io[r] # "bad"
    <3> DEFINE rest == run[r].left
               next == [run[r] EXCEPT !.at = "batch", !.left = SubSeq(@, Size(r) + 1, Len(@))]
    <3>1. Goes(r, next) /\ result'[r] = result[r] \o SubSeq(rest, 1, Size(r))
      BY <1>8, <2>3 DEF Decode, Forms
    <3>2. rest \in Seq(Trees) /\ Size(r) \in 0..Len(rest)
      BY <1>1, AccessAssumption DEF RunForm, Size
    <3>3. next.at = "batch" /\ ~next.ok /\ next.left = SubSeq(rest, Size(r) + 1, Len(rest))
      BY <1>1, <2>1 DEF RunForm
    <3>4. result'[r] \o next.left = Wanted[r]
      <4> HIDE DEF next, rest
      <4>1. (result[r] \o SubSeq(rest, 1, Size(r))) \o SubSeq(rest, Size(r) + 1, Len(rest)) = result[r] \o rest
        BY <1>1, <3>2, TakeAndLeave
      <4> QED
        BY <2>1, <3>1, <3>3, <4>1 DEF rest
    <3> HIDE DEF next, rest
    <3> QED
      BY <2>1, <3>1, <3>3, <3>4, WholeGoes
  <2> QED
    BY <2>2, <2>3
<1>9. CASE Cas(r)
  <2>1. run' = [run EXCEPT ![r].at = "notify"] /\ run[r].at = "cas" /\ result' = result /\ status'[r] = FinalStatus(r)
    BY <1>9 DEF Cas, Step, Forms
  <2>2. run'[r].at = "notify" /\ run'[r].ok = run[r].ok
    BY <1>1, <2>1 DEF Forms, RunForm
  <2> QED
    BY <2>1, <2>2 DEF FinalStatus, Whole, Ending
<1>10. CASE Notify(r) \/ Push(r) \/ Fire(r) \/ Wake(r)
  <2>1. PICK at \in Ending : run' = [run EXCEPT ![r].at = at]
    BY <1>10 DEF Notify, Push, Fire, Wake, Step, Ending
  <2>2. run'[r].at = at /\ run'[r].ok = run[r].ok
    BY <1>1, <2>1 DEF Forms, RunForm
  <2>3. run[r].at \in Ending /\ UNCHANGED <<status, result>>
    BY <1>10 DEF Notify, Push, Fire, Wake, Step, Ending
  <2> QED
    BY <2>1, <2>2, <2>3 DEF Whole, Ending
<1> QED
  BY <1>5, <1>6, <1>7, <1>8, <1>9, <1>10 DEF Coroutine, Finish

LEMMA WholeStep == Forms /\ WholeInv /\ [Next]_vars => WholeInv'
<1> SUFFICES ASSUME Forms, WholeInv, [Next]_vars PROVE WholeInv'
  OBVIOUS
<1>1. ASSUME NEW r \in Requests, UNCHANGED <<run, result>>,
             UNCHANGED status \/ \E S : status' = Canceled(S)
      PROVE  Whole(r)'
  <2>1. Whole(r) /\ run'[r] = run[r] /\ result'[r] = result[r]
    BY <1>1 DEF WholeInv
  <2>2. status'[r] = status[r] \/ (status[r] = "pending" /\ status'[r] = "canceled")
    <3>1. CASE UNCHANGED status
      BY <3>1
    <3>2. ASSUME NEW S, status' = Canceled(S)
          PROVE  status'[r] = status[r] \/ (status[r] = "pending" /\ status'[r] = "canceled")
      BY <3>2 DEF Canceled
    <3> QED
      BY <1>1, <3>1, <3>2
  <2> QED
    BY <2>1, <2>2 DEF Whole
<1>2. ASSUME NEW r \in Requests, Coroutine(r)
      PROVE  \A q \in Requests : q # r => Whole(q)'
  <2>1. \A q \in Requests : q # r => run'[q] = run[q] /\ result'[q] = result[q] /\ status'[q] = status[q]
    BY <1>2
    DEF Coroutine, Finish, Start, Loaded, Batch, Decode, Cas, Notify, Push, Fire, Wake, Goes, Step, RunOnly, Forms
  <2> QED
    BY <2>1 DEF WholeInv, Whole
<1>3. ASSUME NEW r \in Requests, Coroutine(r)
      PROVE  Whole(r)'
  BY <1>3, CoroutineWhole DEF WholeInv
<1>4. ASSUME NEW r \in Requests, RequestRegion(r)
      PROVE  \A q \in Requests : Whole(q)'
  BY <1>4 DEF RequestRegion, Whole, WholeInv, Forms, RunForm, Ending
<1> QED
  BY <1>1, <1>2, <1>3, <1>4
  DEF Next, vars, Land, RunOnly, Opening, OpenStep, SetState, FireState, WakeState, Announce, OpenOnly, workVars,
      InCall, Swap, Drain, CallbackReturns, Look, Sleep, Waited, Poll, TimesOut, StartWait, HostOnly, Closing,
      CancelAll, JoinPool, StopReader, Barrier, Close, CloseOnly, Cancel, Release, WholeInv

(***************************************************************************)
(* A completed request has the nodes of its region, all of them and in the *)
(* order of the walk, whatever was resident when it began, whoever loaded  *)
(* the trees, and however its reads were batched.                          *)
(***************************************************************************)
THEOREM CompletedIsWhole == Spec => []ResultWhole
<1> DEFINE Inv == Forms /\ WholeInv
<1>1. Init => Inv
  BY FormsInit, WholeInit
<1>2. Inv /\ [Next]_vars => Inv'
  BY FormsStep, WholeStep
<1>3. Inv => ResultWhole
  BY DEF WholeInv, Whole, ResultWhole
<1> QED
  BY <1>1, <1>2, <1>3, PTL DEF Spec
=============================================================================
