-------------------------- MODULE MlxGatewayProofs --------------------------
(***************************************************************************)
(* Proofs about MlxGateway for any set of requests and any slot limit.     *)
(*                                                                         *)
(* SlotsExact and the other invariants are not inductive on their own: a   *)
(* slot is freed by a callback of the job that holds it, so the proof must *)
(* know which jobs can still have callbacks.  IInv relates the stage, the  *)
(* upstream request and the client of every request to queue, running,     *)
(* finished and record.                                                    *)
(***************************************************************************)
EXTENDS MlxGateway, FiniteSetTheorems, SequenceTheorems, TLAPS

\* Stages follow the kind of the request, the response object exists from the
\* moment the request has arrived, and a request that is not yet a job
\* has no upstream request and is not finished.
StageInv ==
  /\ \A r \in Requests : /\ stage[r] = "job" => r \in Inference
                         /\ stage[r] = "proxied" => r \in Others
  /\ \A r \in Requests : client[r] = "none" <=> stage[r] = "idle"
  /\ \A r \in Inference : stage[r] # "job" =>
                            upstream[r] = "none" /\ r \notin finished
  /\ cancelled \subseteq finished

\* Who holds a slot, and who may.
RunningInv ==
  /\ \A r \in running : /\ stage[r] = "job"
                        /\ upstream[r] \in Live
                        /\ client[r] = "open"
                        /\ r \notin finished
  /\ \A r \in Inference : stage[r] = "job" /\ upstream[r] \in Live
                            => r \in running

\* A terminal line is written only by a step after which no further one is
\* possible, and a proxied answer is in progress only for a connected client.
RecordInv ==
  /\ \A r \in Requests :
       record[r] # <<>> => \/ r \in finished
                           \/ stage[r] = "refused"
                           \/ stage[r] = "proxied" /\ upstream[r] = "over"
  /\ RecordedOnce
  /\ \A r \in Others : stage[r] = "proxied" /\ upstream[r] \in Live
                         => client[r] = "open"

IInv == /\ TypeOK
        /\ StageInv
        /\ RunningInv
        /\ SlotsExact
        /\ QueueSound
        /\ RecordInv
        /\ RecordTruthful

-----------------------------------------------------------------------------
(* drainQueue and splice, as set facts about the queue.                    *)

Firsts(q, n) == {q[i] : i \in 1..n}

\* The elements of a prefix of a queue form a finite set.
LEMMA PrefixFinite ==
  ASSUME NEW q, NEW n \in Nat
  PROVE  IsFiniteSet(Firsts(q, n))
<1> DEFINE T == Firsts(q, n)
           f == [i \in 1..n |-> q[i]]
<1>1. f \in Surjection(1..n, T)
  BY DEF Surjection, Firsts
<1>2. IsFiniteSet(1..n)
  BY FS_Interval
<1> QED  BY <1>1, <1>2, FS_Surjection

\* The state after drainQueue: some set S of the jobs of q has moved to the
\* slots, the rest is still queued, the limit is kept, and jobs are still
\* queued only if the slots are full.
Drained(q, slots, conns) ==
  /\ queue' \in Seq(Inference)
  /\ Distinct(queue')
  /\ IsFiniteSet(running')
  /\ Cardinality(running') <= parallelLimit
  /\ queue' # <<>> => Cardinality(running') = parallelLimit
  /\ \E S \in SUBSET Elems(q) :
       /\ Elems(queue') = Elems(q) \ S
       /\ running' = slots \cup S
       /\ upstream' = [r \in Requests |-> IF r \in S THEN "sent" ELSE conns[r]]

\* drainQueue reaches such a state from a queue without duplicates none of
\* whose jobs is running, cancelled or finished.
LEMMA DrainResult ==
  ASSUME NEW q \in Seq(Inference), NEW slots \in SUBSET Inference, NEW gone,
         NEW conns, IsFiniteSet(slots), Distinct(q),
         Elems(q) \cap (slots \cup gone) = {},
         Cardinality(slots) <= parallelLimit,
         DrainQueue(q, slots, gone, conns)
  PROVE  Drained(q, slots, conns)
<1>1. PICK n \in 0..Len(q) :
        /\ DrainStops(q, slots, gone, n)
        /\ queue' = SubSeq(q, n + 1, Len(q))
        /\ running' = slots \cup Started(q, n, gone)
        /\ upstream' = [r \in Requests |->
                         IF r \in Started(q, n, gone) THEN "sent" ELSE conns[r]]
  BY DEF DrainQueue
<1> DEFINE S == Started(q, n, gone)
<1>2. Len(q) \in Nat /\ n \in Nat /\ n <= Len(q)
  OBVIOUS
<1>3. /\ queue' \in Seq(Inference)
      /\ Len(queue') = Len(q) - n
      /\ \A i \in 1..Len(queue') : queue'[i] = q[n + i]
  BY <1>1, <1>2
<1>4. S \in SUBSET Elems(q) /\ S = Firsts(q, n)
  BY <1>2 DEF Started, Elems, Firsts
<1>5. Distinct(queue')
  <2> SUFFICES ASSUME NEW i \in 1..Len(queue'), NEW k \in 1..Len(queue'),
                      queue'[i] = queue'[k]
               PROVE  i = k
    BY DEF Distinct
  <2>1. n + i \in 1..Len(q) /\ n + k \in 1..Len(q)
    BY <1>2, <1>3
  <2>2. q[n + i] = q[n + k]
    BY <1>3
  <2>3. n + i = n + k
    BY <2>1, <2>2 DEF Distinct
  <2> QED  BY <1>2, <2>3
<1>6. Elems(queue') = Elems(q) \ S
  <2>1. ASSUME NEW i \in 1..Len(queue')
        PROVE  queue'[i] \in Elems(q) \ S
    BY <1>2, <1>3, <1>4 DEF Distinct, Elems, Firsts
  <2>2. ASSUME NEW i \in 1..Len(q), q[i] \notin S
        PROVE  q[i] \in Elems(queue')
    <3>1. i > n
      BY <1>2, <1>4, <2>2 DEF Firsts
    <3>2. i - n \in 1..Len(queue') /\ queue'[i - n] = q[i]
      BY <1>2, <1>3, <3>1
    <3> QED  BY <3>2 DEF Elems
  <2> QED  BY <2>1, <2>2 DEF Elems
<1>7. IsFiniteSet(S)
  BY <1>2, <1>4, PrefixFinite
<1>8. IsFiniteSet(running')
  BY <1>1, <1>7, FS_Union
<1>9. Cardinality(running') <= parallelLimit
  <2>1. CASE n = 0
    <3>1. S = {}
      BY <1>4, <2>1 DEF Firsts
    <3> QED  BY <1>1, <3>1
  <2>2. CASE n > 0
    <3> DEFINE A == slots \cup Started(q, n - 1, gone)
    <3>1. Cardinality(A) < parallelLimit
      BY <1>1, <1>2, <2>2 DEF DrainStops
    <3>2. IsFiniteSet(A)
      <4>1. A \subseteq running'
        BY <1>1, <1>2 DEF Started
      <4> QED  BY <1>8, <4>1, FS_Subset
    <3>3. running' = A \cup {q[n]}
      BY <1>1, <1>2, <1>4, <2>2 DEF Started, Elems, Firsts
    <3>4. Cardinality(A) \in Nat
      BY <3>2, FS_CardinalityType
    <3>5. Cardinality(running') =
            IF q[n] \in A THEN Cardinality(A) ELSE Cardinality(A) + 1
      BY <3>2, <3>3, FS_AddElement
    <3> HIDE DEF A
    <3> QED  BY <3>1, <3>4, <3>5, LimitAssumption
  <2> QED  BY <1>2, <2>1, <2>2
<1>10. queue' # <<>> => Cardinality(running') = parallelLimit
  <2> SUFFICES ASSUME queue' # <<>>
               PROVE  Cardinality(running') = parallelLimit
    OBVIOUS
  <2>1. n < Len(q)
    BY <1>2, <1>3
  <2>2. Cardinality(running') >= parallelLimit
    BY <1>1, <2>1 DEF DrainStops
  <2>3. Cardinality(running') \in Nat
    BY <1>8, FS_CardinalityType
  <2> QED  BY <1>9, <2>2, <2>3, LimitAssumption
<1> QED  BY <1>1, <1>3, <1>4, <1>5, <1>6, <1>8, <1>9, <1>10 DEF Drained

\* Splicing a job out of a queue without duplicates removes it and nothing
\* else.
LEMMA WithoutResult ==
  ASSUME NEW q \in Seq(Inference), NEW r, Distinct(q)
  PROVE  /\ Without(q, r) \in Seq(Inference)
         /\ Distinct(Without(q, r))
         /\ Elems(Without(q, r)) = Elems(q) \ {r}
<1>1. CASE ~ \E i \in 1..Len(q) : q[i] = r
  BY <1>1 DEF Without, Elems
<1>2. CASE \E i \in 1..Len(q) : q[i] = r
  <2> DEFINE P(k) == q[k] = r /\ \A m \in 1..(k - 1) : q[m] # r
             i == CHOOSE k \in 1..Len(q) : P(k)
             w == SubSeq(q, 1, i - 1) \o SubSeq(q, i + 1, Len(q))
  <2>1. \E k \in 1..Len(q) : P(k)
    BY <1>2 DEF Distinct
  <2>2. i \in 1..Len(q) /\ q[i] = r
    BY <2>1
  <2>3. Without(q, r) = w
    BY <1>2 DEF Without
  <2> HIDE DEF i
  <2>4. /\ w \in Seq(Inference)
        /\ Len(w) = Len(q) - 1
        /\ \A k \in 1..Len(w) : w[k] = IF k < i THEN q[k] ELSE q[k + 1]
    <3> DEFINE a == SubSeq(q, 1, i - 1)
               b == SubSeq(q, i + 1, Len(q))
    <3>1. Len(q) \in Nat /\ i \in Nat /\ 1 <= i /\ i <= Len(q)
      BY <2>2
    <3>2. /\ a \in Seq(Inference)
          /\ Len(a) = i - 1
          /\ \A k \in 1..(i - 1) : a[k] = q[k]
      BY <3>1
    <3>3. /\ b \in Seq(Inference)
          /\ Len(b) = Len(q) - i
          /\ \A k \in 1..(Len(q) - i) : b[k] = q[i + k]
      BY <3>1
    <3>4. w = a \o b
      OBVIOUS
    <3> HIDE DEF a, b, w
    <3>5. /\ w \in Seq(Inference)
          /\ Len(w) = Len(a) + Len(b)
          /\ \A k \in 1..Len(w) :
               w[k] = IF k <= Len(a) THEN a[k] ELSE b[k - Len(a)]
      <4>1. /\ a \o b \in Seq(Inference)
            /\ Len(a \o b) = Len(a) + Len(b)
            /\ \A k \in 1..(Len(a) + Len(b)) :
                 (a \o b)[k] = IF k <= Len(a) THEN a[k] ELSE b[k - Len(a)]
        BY <3>2, <3>3, ConcatProperties, Zenon
      <4> QED  BY <3>4, <4>1, Zenon
    <3>6. ASSUME NEW k \in 1..Len(w)
          PROVE  w[k] = IF k < i THEN q[k] ELSE q[k + 1]
      <4>1. CASE k < i
        <5>1. k \in 1..(i - 1) /\ k <= Len(a)
          BY <3>1, <3>2, <3>3, <3>5, <4>1
        <5>2. w[k] = a[k]
          BY <3>5, <5>1
        <5>3. a[k] = q[k]
          BY <3>2, <5>1
        <5> QED  BY <4>1, <5>2, <5>3
      <4>2. CASE k >= i
        <5>1. k - Len(a) \in 1..(Len(q) - i) /\ i + (k - Len(a)) = k + 1
          BY <3>1, <3>2, <3>3, <3>5, <4>2
        <5>2. w[k] = b[k - Len(a)]
          BY <3>1, <3>2, <3>5, <4>2
        <5>3. b[k - Len(a)] = q[k + 1]
          BY <3>3, <5>1
        <5>4. ~(k < i)
          BY <3>1, <4>2
        <5> QED  BY <5>2, <5>3, <5>4
      <4> QED  BY <3>1, <4>1, <4>2
    <3> QED  BY <3>1, <3>2, <3>3, <3>5, <3>6
  <2> HIDE DEF w
  <2>5. Distinct(w)
    BY <2>2, <2>4 DEF Distinct
  <2>6. ASSUME NEW k \in 1..Len(w)
        PROVE  w[k] \in Elems(q) \ {r}
    BY <2>2, <2>4 DEF Distinct, Elems
  <2>7. ASSUME NEW k \in 1..Len(q), q[k] # r
        PROVE  q[k] \in Elems(w)
    <3>1. CASE k < i
      <4>1. k \in 1..Len(w) /\ w[k] = q[k]
        BY <2>2, <2>4, <3>1
      <4> QED  BY <4>1 DEF Elems
    <3>2. CASE k > i
      <4>1. k - 1 \in 1..Len(w) /\ w[k - 1] = q[k]
        BY <2>2, <2>4, <3>2
      <4> QED  BY <4>1 DEF Elems
    <3> QED  BY <2>2, <2>7, <3>1, <3>2
  <2>8. Elems(w) = Elems(q) \ {r}
    BY <2>6, <2>7 DEF Elems
  <2> QED  BY <2>3, <2>4, <2>5, <2>8
<1> QED  BY <1>1, <1>2
-----------------------------------------------------------------------------
(* The inductive invariant.                                                *)

\* A job that is finished for the first time: finishJob frees its slot if it
\* had one, records it and drains.  Common to JobEnd, JobAborted, JobError and
\* JobClientClose, which differ in the connection state u, the response state
\* c and the event they leave.
LEMMA SettleStep ==
  ASSUME IInv, NEW r \in Inference, stage[r] = "job", r \notin finished,
         NEW q \in Seq(Inference), Distinct(q), Elems(q) = Elems(queue) \ {r},
         NEW u \in Upstreams, u \notin Live, NEW event \in Events,
         NEW c \in {"open", "ended", "closed"},
         process' \in {"up", "draining", "down"},
         stage' = stage,
         client' = [client EXCEPT ![r] = c],
         head' \in [Requests -> {"none", "ok", "error", "gateway"}],
         metrics' \in SUBSET WantsMetrics,
         cancelled' \subseteq finished \cup {r},
         FinishJob(r, event, q, [upstream EXCEPT ![r] = u])
  PROVE  /\ TypeOK' /\ StageInv' /\ RunningInv' /\ SlotsExact'
         /\ QueueSound' /\ RecordInv'
         /\ record' = [record EXCEPT ![r] = <<event>>]
<1> DEFINE conns == [upstream EXCEPT ![r] = u]
           slots == running \ {r}
           gone == cancelled' \cup finished'
<1>1. /\ finished' = finished \cup {r}
      /\ record' = [record EXCEPT ![r] = Append(@, event)]
      /\ DrainQueue(q, slots, gone, conns)
  BY DEF FinishJob
<1>2. IsFiniteSet(slots) /\ Cardinality(slots) <= parallelLimit
  <2>1. IsFiniteSet(running) /\ Cardinality(running) <= parallelLimit
    BY DEF IInv, TypeOK, SlotsExact
  <2>2. Cardinality(running) \in Nat
    BY <2>1, FS_CardinalityType
  <2>3. /\ IsFiniteSet(slots)
        /\ Cardinality(slots) = IF r \in running THEN Cardinality(running) - 1
                                               ELSE Cardinality(running)
    BY <2>1, FS_RemoveElement
  <2> QED  BY <2>1, <2>2, <2>3, LimitAssumption
<1>3. Elems(q) \cap (slots \cup gone) = {}
  BY <1>1 DEF IInv, QueueSound, StageInv
<1>4. slots \in SUBSET Inference
  BY DEF IInv, TypeOK
<1> HIDE DEF conns, slots, gone
<1>5. Drained(q, slots, conns)
  BY <1>1, <1>2, <1>3, <1>4, DrainResult
<1>6. PICK S \in SUBSET Elems(q) :
        /\ Elems(queue') = Elems(q) \ S
        /\ running' = slots \cup S
        /\ upstream' = [x \in Requests |-> IF x \in S THEN "sent" ELSE conns[x]]
  BY <1>5 DEF Drained
<1> USE DEF conns, slots
<1>7. \A x \in S : /\ x \in Inference /\ x # r
                   /\ stage[x] = "job" /\ client[x] = "open"
                   /\ x \notin finished /\ record[x] = <<>>
  <2> SUFFICES ASSUME NEW x \in S
               PROVE  /\ x \in Inference /\ x # r
                      /\ stage[x] = "job" /\ client[x] = "open"
                      /\ x \notin finished /\ record[x] = <<>>
    OBVIOUS
  <2>1. x \in Elems(queue) /\ x # r
    OBVIOUS
  <2>2. x \in Inference
    BY <2>1 DEF IInv, TypeOK, Elems
  <2>3. stage[x] = "job" /\ client[x] = "open" /\ x \notin finished
    BY <2>1 DEF IInv, QueueSound
  <2>4. record[x] = <<>>
    BY <2>2, <2>3 DEF IInv, RecordInv, Requests
  <2> QED  BY <2>1, <2>2, <2>3, <2>4
<1>8. record[r] = <<>> /\ record' = [record EXCEPT ![r] = <<event>>]
  <2>1. record[r] = <<>>
    BY DEF IInv, RecordInv, Requests
  <2>2. Append(record[r], event) = <<event>>
    BY <2>1
  <2> QED  BY <1>1, <2>1, <2>2
<1>9. TypeOK'
  <2>1. client' \in [Requests -> {"none", "open", "ended", "closed"}]
    BY DEF IInv, TypeOK, Requests
  <2>2. upstream' \in [Requests -> Upstreams]
    BY <1>6 DEF IInv, TypeOK, Requests, Upstreams
  <2>3. record' \in [Requests -> Seq(Events)]
    BY <1>8 DEF IInv, TypeOK, Requests
  <2>4. /\ running' \in SUBSET Inference
        /\ finished' \in SUBSET Inference
        /\ cancelled' \in SUBSET Inference
    BY <1>1, <1>6, <1>7 DEF IInv, TypeOK
  <2> QED  BY <1>5, <2>1, <2>2, <2>3, <2>4 DEF IInv, TypeOK, Drained
<1>10. StageInv'
  BY <1>1, <1>6, <1>7 DEF IInv, StageInv, TypeOK, Requests
<1>11. RunningInv'
  BY <1>1, <1>6, <1>7 DEF IInv, RunningInv, TypeOK, Requests, Live
<1>12. SlotsExact'
  BY <1>5 DEF SlotsExact, Drained
<1>13. QueueSound'
  <2>1. \A x \in Elems(queue') : /\ stage'[x] = "job"
                                /\ client'[x] = "open"
                                /\ upstream'[x] = "none"
                                /\ x \notin finished' \cup running'
    <3> SUFFICES ASSUME NEW x \in Elems(queue')
                 PROVE  /\ stage'[x] = "job"
                        /\ client'[x] = "open"
                        /\ upstream'[x] = "none"
                        /\ x \notin finished' \cup running'
      OBVIOUS
    <3>1. x \in Elems(queue) /\ x # r /\ x \notin S
      BY <1>6
    <3>2. x \in Requests
      BY <3>1 DEF IInv, TypeOK, Elems, Requests
    <3>3. /\ stage[x] = "job" /\ client[x] = "open"
          /\ upstream[x] = "none" /\ x \notin finished \cup running
      BY <3>1 DEF IInv, QueueSound
    <3> QED  BY <1>1, <1>6, <3>1, <3>2, <3>3 DEF IInv, TypeOK
  <2>2. \A x \in Inference :
          stage'[x] = "job" /\ client'[x] = "open" /\ x \notin finished'
            => x \in running' \cup Elems(queue')
    BY <1>1, <1>6, <1>7 DEF IInv, QueueSound, TypeOK, Requests
  <2> QED  BY <1>5, <2>1, <2>2 DEF QueueSound, Elems, Distinct, Drained
<1>14. RecordInv'
  <2>1. RecordedOnce'
    BY <1>1, <1>8 DEF IInv, RecordInv, RecordedOnce, TypeOK, Requests
  <2>2. \A x \in Requests :
          record'[x] # <<>> => \/ x \in finished'
                               \/ stage'[x] = "refused"
                               \/ stage'[x] = "proxied" /\ upstream'[x] = "over"
    BY <1>1, <1>6, <1>7, <1>8, RequestsAssumption
    DEF IInv, RecordInv, TypeOK, Requests
  <2>3. \A x \in Others : stage'[x] = "proxied" /\ upstream'[x] \in Live
                            => client'[x] = "open"
    BY <1>6, <1>7, RequestsAssumption DEF IInv, RecordInv, TypeOK, Requests
  <2> QED  BY <2>1, <2>2, <2>3 DEF RecordInv
<1> QED  BY <1>8, <1>9, <1>10, <1>11, <1>12, <1>13, <1>14

\* enqueue: the new job goes behind the others, then the queue is drained.
LEMMA EnqueueStep ==
  ASSUME IInv, NEW r \in Requests, Enqueue(r)
  PROVE  IInv'
<1> DEFINE q == Append(queue, r)
           gone == cancelled \cup finished
<1> USE DEF IInv
<1>1. r \in Inference /\ stage[r] = "body" /\ client[r] = "open"
  BY DEF Enqueue, ReadingBody
<1>2. r \notin finished /\ r \notin running /\ upstream[r] = "none"
  BY <1>1 DEF StageInv, RunningInv
<1>3. /\ q \in Seq(Inference)
      /\ Len(q) = Len(queue) + 1
      /\ \A i \in 1..Len(queue) : q[i] = queue[i]
      /\ q[Len(queue) + 1] = r
  BY <1>1 DEF TypeOK
<1>4. \A i \in 1..Len(queue) : queue[i] \in Inference /\ queue[i] # r
  <2>1. r \notin Elems(queue)
    BY <1>1 DEF QueueSound
  <2> QED  BY <2>1 DEF TypeOK, Elems
<1>5. Distinct(q) /\ Elems(q) = Elems(queue) \cup {r}
  <2>1. Len(queue) \in Nat
    BY DEF TypeOK
  <2>2. Distinct(q)
    BY <1>3, <1>4, <2>1 DEF QueueSound, Distinct
  <2>3. Elems(q) = Elems(queue) \cup {r}
    <3> HIDE DEF q
    <3>1. ASSUME NEW i \in 1..Len(q)
          PROVE  q[i] \in Elems(queue) \cup {r}
      BY <1>3, <2>1 DEF Elems
    <3>2. ASSUME NEW i \in 1..Len(queue)
          PROVE  queue[i] \in Elems(q)
      BY <1>3, <2>1 DEF Elems
    <3>3. r \in Elems(q)
      BY <1>3, <2>1 DEF Elems
    <3> QED  BY <3>1, <3>2, <3>3 DEF Elems
  <2> QED  BY <2>2, <2>3
<1>6. Elems(q) \cap (running \cup gone) = {}
  BY <1>2, <1>5 DEF QueueSound, StageInv
<1>7. DrainQueue(q, running, gone, upstream)
  BY DEF Enqueue
<1> HIDE DEF q, gone
<1>8. Drained(q, running, upstream)
  BY <1>3, <1>5, <1>6, <1>7, DrainResult DEF TypeOK, SlotsExact
<1>9. PICK S \in SUBSET Elems(q) :
        /\ Elems(queue') = Elems(q) \ S
        /\ running' = running \cup S
        /\ upstream' = [x \in Requests |->
                          IF x \in S THEN "sent" ELSE upstream[x]]
  BY <1>8 DEF Drained
<1>10. /\ stage' = [stage EXCEPT ![r] = "job"]
       /\ UNCHANGED <<process, client, head, finished, cancelled, record,
                      metrics>>
  BY DEF Enqueue
<1>11. \A x \in Elems(q) : /\ x \in Inference
                           /\ stage'[x] = "job" /\ client[x] = "open"
                           /\ upstream[x] = "none"
                           /\ x \notin finished \cup running
  <2> SUFFICES ASSUME NEW x \in Elems(q)
               PROVE  /\ x \in Inference
                      /\ stage'[x] = "job" /\ client[x] = "open"
                      /\ upstream[x] = "none"
                      /\ x \notin finished \cup running
    OBVIOUS
  <2>1. CASE x = r
    BY <1>1, <1>2, <1>10, <2>1 DEF TypeOK, Requests
  <2>2. CASE x # r
    <3>1. x \in Elems(queue) /\ x \in Inference
      BY <1>4, <1>5, <2>2 DEF Elems
    <3> QED  BY <1>10, <2>2, <3>1 DEF TypeOK, QueueSound, Requests
  <2> QED  BY <2>1, <2>2
<1>12. TypeOK'
  <2>1. upstream' \in [Requests -> Upstreams]
    BY <1>9 DEF TypeOK, Upstreams
  <2>2. running' \in SUBSET Inference
    BY <1>9, <1>11 DEF TypeOK
  <2>3. stage' \in [Requests -> Stages]
    BY <1>10 DEF TypeOK, Stages
  <2> QED  BY <1>8, <1>10, <2>1, <2>2, <2>3 DEF TypeOK, Drained
<1>13. StageInv'
  BY <1>1, <1>9, <1>10, <1>11 DEF StageInv, TypeOK, Requests
<1>14. RunningInv'
  BY <1>1, <1>2, <1>9, <1>10, <1>11 DEF RunningInv, TypeOK, Requests, Live
<1>15. SlotsExact'
  BY <1>8 DEF SlotsExact, Drained
<1>16. QueueSound'
  <2>1. \A x \in Elems(queue') : /\ stage'[x] = "job"
                                /\ client'[x] = "open"
                                /\ upstream'[x] = "none"
                                /\ x \notin finished' \cup running'
    BY <1>9, <1>10, <1>11 DEF TypeOK, Requests
  <2>2. \A x \in Inference :
          stage'[x] = "job" /\ client'[x] = "open" /\ x \notin finished'
            => x \in running' \cup Elems(queue')
    BY <1>5, <1>9, <1>10 DEF QueueSound, TypeOK, Requests
  <2> QED  BY <1>8, <2>1, <2>2 DEF QueueSound, Elems, Distinct, Drained
<1>17. RecordInv'
  <2>1. \A x \in Requests :
          record'[x] # <<>> => \/ x \in finished'
                               \/ stage'[x] = "refused"
                               \/ stage'[x] = "proxied" /\ upstream'[x] = "over"
    BY <1>1, <1>9, <1>10, <1>11, RequestsAssumption
    DEF RecordInv, StageInv, TypeOK, Requests
  <2>2. \A x \in Others : stage'[x] = "proxied" /\ upstream'[x] \in Live
                            => client'[x] = "open"
    BY <1>1, <1>9, <1>10, <1>11, RequestsAssumption
    DEF RecordInv, TypeOK, Requests
  <2> QED  BY <1>10, <2>1, <2>2 DEF RecordInv, RecordedOnce
<1>18. RecordTruthful'
  BY <1>10 DEF RecordTruthful
<1> QED  BY <1>12, <1>13, <1>14, <1>15, <1>16, <1>17, <1>18

\* The upstream events and the close handler of a job.
LEMMA JobSteps ==
  ASSUME IInv, NEW r \in Requests,
         JobEnd(r) \/ JobAborted(r) \/ JobError(r) \/ JobClientClose(r)
  PROVE  IInv'
<1> USE DEF IInv
<1>1. r \in Inference /\ stage[r] = "job"
  BY DEF JobEnd, JobAborted, JobError, JobClientClose, StageInv
<1>2. /\ queue \in Seq(Inference) /\ Distinct(queue)
      /\ r \notin Elems(queue) => Elems(queue) = Elems(queue) \ {r}
  BY DEF TypeOK, QueueSound
<1>3. upstream[r] # "none" => r \notin Elems(queue)
  BY DEF QueueSound
<1>4. upstream[r] \in Live => r \in running /\ r \notin finished
                             /\ client[r] = "open"
  BY <1>1 DEF RunningInv
<1>5. client[r] \in {"none", "open", "ended", "closed"}
  BY DEF TypeOK
<1>6. CASE JobEnd(r)
  <2>1. r \notin finished /\ client[r] = "open" /\ r \notin Elems(queue)
    BY <1>3, <1>4, <1>6 DEF JobEnd, Live
  <2>2. /\ FinishJob(r, EndOf(r), queue, [upstream EXCEPT ![r] = "over"])
        /\ client' = [client EXCEPT ![r] = "ended"]
        /\ metrics' \in SUBSET WantsMetrics
        /\ cancelled' = cancelled /\ stage' = stage /\ head' = head
        /\ process' = process
    BY <1>6, <2>1 DEF JobEnd, Ended, TypeOK
  <2>3. cancelled' \subseteq finished \cup {r}
    BY <2>2 DEF StageInv
  <2>4. "over" \in Upstreams /\ "over" \notin Live /\ EndOf(r) \in Events
    BY DEF Upstreams, Live, EndOf, Events
  <2>5. /\ TypeOK' /\ StageInv' /\ RunningInv' /\ SlotsExact'
        /\ QueueSound' /\ RecordInv'
        /\ record' = [record EXCEPT ![r] = <<EndOf(r)>>]
    <3> DEFINE q == queue
    <3>1. q \in Seq(Inference) /\ Distinct(q) /\ Elems(q) = Elems(queue) \ {r}
      BY <1>2, <2>1
    <3>2. FinishJob(r, EndOf(r), q, [upstream EXCEPT ![r] = "over"])
      BY <2>2
    <3>3. /\ process' \in {"up", "draining", "down"}
          /\ head' \in [Requests -> {"none", "ok", "error", "gateway"}]
          /\ metrics' \in SUBSET WantsMetrics
      BY <2>2 DEF TypeOK
    <3> HIDE DEF q, IInv
    <3> QED  BY <1>1, <2>1, <2>2, <2>3, <2>4, <3>1, <3>2, <3>3, SettleStep
  <2>6. RecordTruthful'
    BY <1>1, <2>1, <2>2, <2>5 DEF RecordTruthful, EndOf, TypeOK, Requests
  <2> QED  BY <2>5, <2>6
<1>7. CASE JobAborted(r)
  <2>1. r \notin finished /\ client[r] = "open" /\ r \notin Elems(queue)
    BY <1>3, <1>4, <1>7 DEF JobAborted, Live
  <2>2. /\ FinishJob(r, "failed", queue, [upstream EXCEPT ![r] = "aborted"])
        /\ client' = [client EXCEPT ![r] = "open"]
        /\ UNCHANGED <<cancelled, stage, head, process, metrics>>
    BY <1>7, <2>1 DEF JobAborted, TypeOK
  <2>3. cancelled' \subseteq finished \cup {r}
    BY <2>2 DEF StageInv
  <2>4. "aborted" \in Upstreams /\ "aborted" \notin Live /\ "failed" \in Events
    BY DEF Upstreams, Live, Events
  <2>5. /\ TypeOK' /\ StageInv' /\ RunningInv' /\ SlotsExact'
        /\ QueueSound' /\ RecordInv'
        /\ record' = [record EXCEPT ![r] = <<"failed">>]
    <3> DEFINE q == queue
    <3>1. q \in Seq(Inference) /\ Distinct(q) /\ Elems(q) = Elems(queue) \ {r}
      BY <1>2, <2>1
    <3>2. FinishJob(r, "failed", q, [upstream EXCEPT ![r] = "aborted"])
      BY <2>2
    <3>3. /\ process' \in {"up", "draining", "down"}
          /\ head' \in [Requests -> {"none", "ok", "error", "gateway"}]
          /\ metrics' \in SUBSET WantsMetrics
      BY <2>2 DEF TypeOK
    <3> HIDE DEF q, IInv
    <3> QED  BY <1>1, <2>1, <2>2, <2>3, <2>4, <3>1, <3>2, <3>3, SettleStep
  <2>6. RecordTruthful'
    BY <1>1, <2>1, <2>2, <2>5 DEF RecordTruthful, TypeOK, Requests
  <2> QED  BY <2>5, <2>6
<1>8. CASE JobError(r) /\ r \notin finished
  <2> DEFINE c == IF client[r] = "open" THEN "ended" ELSE client[r]
  <2>1. r \notin Elems(queue)
    BY <1>3, <1>8 DEF JobError, Live
  <2>2. /\ FinishJob(r, "failed", queue, [upstream EXCEPT ![r] = "over"])
        /\ client' = [client EXCEPT ![r] = c]
        /\ UNCHANGED <<cancelled, stage, process, metrics>>
    BY <1>8 DEF JobError, Ended
  <2>3. head' \in [Requests -> {"none", "ok", "error", "gateway"}]
    BY <1>8 DEF JobError, TypeOK
  <2>4. cancelled' \subseteq finished \cup {r}
    BY <2>2 DEF StageInv
  <2>5. "over" \in Upstreams /\ "over" \notin Live /\ "failed" \in Events
    BY DEF Upstreams, Live, Events
  <2>6. c \in {"open", "ended", "closed"}
    BY <1>1, <1>5 DEF StageInv, Requests
  <2>7. /\ TypeOK' /\ StageInv' /\ RunningInv' /\ SlotsExact'
        /\ QueueSound' /\ RecordInv'
        /\ record' = [record EXCEPT ![r] = <<"failed">>]
    <3> DEFINE q == queue
    <3>1. q \in Seq(Inference) /\ Distinct(q) /\ Elems(q) = Elems(queue) \ {r}
      BY <1>2, <2>1
    <3>2. FinishJob(r, "failed", q, [upstream EXCEPT ![r] = "over"])
      BY <2>2
    <3>3. /\ process' \in {"up", "draining", "down"}
          /\ metrics' \in SUBSET WantsMetrics
      BY <2>2 DEF TypeOK
    <3> HIDE DEF c, q, IInv
    <3> QED  BY <1>1, <1>8, <2>2, <2>3, <2>4, <2>5, <2>6, <3>1, <3>2, <3>3,
                SettleStep
  <2>8. RecordTruthful'
    BY <1>1, <1>8, <2>2, <2>7 DEF RecordTruthful, JobError, TypeOK, Requests
  <2> QED  BY <2>7, <2>8
<1>9. CASE JobError(r) /\ r \in finished
  <2>1. /\ upstream' = [upstream EXCEPT ![r] = "over"]
        /\ UNCHANGED <<process, stage, metrics, cancelled, queue, running,
                       finished, record>>
        /\ client' = Ended(r)
        /\ head' = [head EXCEPT ![r] =
                      IF @ = "none" /\ client[r] = "open" THEN "gateway" ELSE @]
    BY <1>9 DEF JobError, FinishJob
  <2>2. r \notin running /\ r \notin Elems(queue)
    BY <1>9 DEF RunningInv, QueueSound
  <2>3. TypeOK'
    BY <2>1 DEF TypeOK, Ended, Upstreams
  <2>4. StageInv' /\ RunningInv'
    BY <1>1, <1>9, <2>1, <2>2
    DEF StageInv, RunningInv, TypeOK, Ended, Live, Requests
  <2>5. SlotsExact'
    BY <2>1 DEF SlotsExact
  <2>6. QueueSound'
    <3>1. \A x \in Requests : x # r => /\ client'[x] = client[x]
                                      /\ upstream'[x] = upstream[x]
      BY <2>1 DEF TypeOK, Ended
    <3>2. Elems(queue') = Elems(queue) /\ (Distinct(queue') <=> Distinct(queue))
      BY <2>1 DEF Elems, Distinct
    <3>3. Elems(queue) \subseteq Requests
      BY DEF TypeOK, Elems, Requests
    <3>4. /\ Distinct(queue')
          /\ \A x \in Elems(queue') : /\ stage'[x] = "job"
                                      /\ client'[x] = "open"
                                      /\ upstream'[x] = "none"
                                      /\ x \notin finished' \cup running'
      BY <2>1, <2>2, <3>1, <3>2, <3>3 DEF QueueSound
    <3>5. ASSUME NEW x \in Inference, stage'[x] = "job", client'[x] = "open",
                 x \notin finished'
          PROVE  x \in running' \cup Elems(queue')
      BY <1>9, <2>1, <3>1, <3>2, <3>5 DEF QueueSound, Requests
    <3> QED  BY <3>4, <3>5 DEF QueueSound
  <2>7. RecordInv'
    BY <1>1, <2>1, RequestsAssumption
    DEF RecordInv, RecordedOnce, TypeOK, Ended, Requests, Live
  <2>8. RecordTruthful'
    BY <2>1 DEF RecordTruthful, TypeOK, Ended
  <2> QED  BY <2>3, <2>4, <2>5, <2>6, <2>7, <2>8
<1>10. CASE JobClientClose(r) /\ r \notin finished
  <2> DEFINE u == CASE upstream[r] = "sent" -> "hangup"
                    [] upstream[r] \in {"streaming", "paused"} -> "destroyed"
                    [] OTHER -> upstream[r]
             q == Without(queue, r)
  <2>1. /\ FinishJob(r, "cancelled", q, [upstream EXCEPT ![r] = u])
        /\ client' = [client EXCEPT ![r] = "closed"]
        /\ cancelled' = cancelled \cup {r}
        /\ UNCHANGED <<stage, head, process, metrics>>
    BY <1>10 DEF JobClientClose, Destroyed
  <2>2. q \in Seq(Inference) /\ Distinct(q) /\ Elems(q) = Elems(queue) \ {r}
    BY <1>2, WithoutResult
  <2>3. u \in Upstreams /\ u \notin Live
    BY DEF TypeOK, Upstreams, Live
  <2>4. cancelled' \subseteq finished \cup {r} /\ "cancelled" \in Events
    BY <2>1 DEF StageInv, Events
  <2>5. /\ TypeOK' /\ StageInv' /\ RunningInv' /\ SlotsExact'
        /\ QueueSound' /\ RecordInv'
        /\ record' = [record EXCEPT ![r] = <<"cancelled">>]
    <3> HIDE DEF u, q
    <3> QED  BY <1>1, <1>10, <2>1, <2>2, <2>3, <2>4, SettleStep DEF TypeOK
  <2>6. RecordTruthful'
    BY <1>1, <1>10, <2>1, <2>5
    DEF RecordTruthful, JobClientClose, TypeOK, Requests
  <2> QED  BY <2>5, <2>6
<1>11. CASE JobClientClose(r) /\ r \in finished
  <2>1. /\ UNCHANGED <<process, stage, head, metrics, cancelled, queue, running,
                       finished, record, upstream>>
        /\ client' = [client EXCEPT ![r] = "closed"]
        /\ client[r] = "open"
    BY <1>11 DEF JobClientClose
  <2>2. r \notin running /\ r \notin Elems(queue)
    BY <1>11 DEF RunningInv, QueueSound
  <2>3. TypeOK' /\ StageInv' /\ RunningInv' /\ SlotsExact'
    BY <2>1, <2>2 DEF TypeOK, StageInv, RunningInv, SlotsExact, Requests
  <2>4. QueueSound'
    BY <1>1, <1>11, <2>1, <2>2 DEF QueueSound, TypeOK, Requests, Elems, Distinct
  <2>5. RecordInv' /\ RecordTruthful'
    BY <1>1, <2>1, RequestsAssumption
    DEF RecordInv, RecordedOnce, RecordTruthful, TypeOK, Requests
  <2> QED  BY <2>3, <2>4, <2>5
<1> QED  BY <1>6, <1>7, <1>8, <1>9, <1>10, <1>11

LEMMA SingletonEvents == \A e \in Events : <<e>> \in Seq(Events)
OBVIOUS

\* The request-handler and upstream callbacks that touch neither the queue nor
\* the slots nor job.finished.
LEMMA OtherRequestSteps ==
  ASSUME IInv, NEW r \in Requests,
         \/ Arrive(r) \/ BodyRejected(r) \/ SignatureRefused(r)
         \/ ProxyUnqueued(r) \/ UpstreamResponse(r) \/ UpstreamPaused(r)
         \/ ClientDrain(r) \/ ProxiedEnd(r) \/ ProxiedAborted(r)
         \/ ProxiedError(r) \/ ProxiedClientClose(r)
  PROVE  IInv'
<1> USE DEF IInv
<1>1. /\ queue' = queue /\ running' = running
      /\ finished' = finished /\ cancelled' = cancelled
      /\ metrics' = metrics /\ process' = process
  BY DEF Arrive, BodyRejected, SignatureRefused, ProxyUnqueued,
         UpstreamResponse, UpstreamPaused, ClientDrain, ProxiedEnd,
         ProxiedAborted, ProxiedError, ProxiedClientClose
<1>2. SlotsExact' /\ Distinct(queue)' /\ Elems(queue)' = Elems(queue)
  BY <1>1 DEF SlotsExact, QueueSound, Distinct, Elems
<1>3. \A x \in Elems(queue) : x \in Inference
  BY DEF TypeOK, Elems
<1>4. CASE Arrive(r) \/ BodyRejected(r) \/ SignatureRefused(r)
  <2> USE <1>4 DEF Arrive, BodyRejected, SignatureRefused, ReadingBody
  <2>1. /\ r \notin running /\ r \notin Elems(queue) /\ r \notin finished
        /\ upstream' = upstream
        /\ record[r] = <<>>
        /\ stage[r] \in {"idle", "body"}
    BY DEF RunningInv, QueueSound, StageInv, RecordInv, TypeOK, Requests
  <2>2. \/ record' = record
        \/ record' = [record EXCEPT ![r] = <<"failed">>] /\ client'[r] = "ended"
        \/ record' = [record EXCEPT ![r] = <<"cancelled">>]
             /\ client'[r] = "closed"
    <3>1. \A e : Append(record[r], e) = <<e>>
      BY <2>1
    <3> QED  BY <3>1 DEF TypeOK
  <2>3. /\ \A x \in Requests : x # r =>
             /\ stage'[x] = stage[x] /\ client'[x] = client[x]
             /\ head'[x] = head[x] /\ record'[x] = record[x]
        /\ stage'[r] \in {"body", "refused"}
        /\ client'[r] \in {"open", "ended", "closed"}
        /\ record'[r] # <<>> => stage'[r] = "refused"
    BY <2>1, <2>2 DEF TypeOK
  <2>4. TypeOK'
    <3>1. record' \in [Requests -> Seq(Events)]
      <4>1. /\ <<"failed">> \in Seq(Events) /\ <<"cancelled">> \in Seq(Events)
            /\ record \in [Requests -> Seq(Events)]
        BY SingletonEvents DEF TypeOK, Events
      <4> QED  BY <2>2, <4>1, Zenon
    <3>2. stage' \in [Requests -> Stages]
      BY DEF TypeOK, Stages
    <3>3. client' \in [Requests -> {"none", "open", "ended", "closed"}]
      BY DEF TypeOK
    <3>4. head' \in [Requests -> {"none", "ok", "error", "gateway"}]
      BY DEF TypeOK
    <3> QED  BY <1>1, <2>1, <3>1, <3>2, <3>3, <3>4 DEF TypeOK
  <2>5. StageInv'
    BY <1>1, <2>1, <2>3 DEF StageInv, Requests
  <2>6. RunningInv'
    <3>1. \A x \in running : x \in Requests /\ x # r
      BY <2>1 DEF TypeOK, Requests
    <3> QED  BY <1>1, <2>1, <2>3, <3>1 DEF RunningInv, Requests
  <2>7. QueueSound'
    BY <1>1, <1>2, <1>3, <2>1, <2>3 DEF QueueSound, Requests
  <2>8. RecordInv'
    <3>1. Len(record'[r]) <= 1
      <4>1. \/ record'[r] = <<>>
            \/ record'[r] = <<"failed">>
            \/ record'[r] = <<"cancelled">>
        BY <2>1, <2>2, Zenon DEF TypeOK
      <4>2. /\ Len(<<>>) = 0
            /\ Len(<<"failed">>) = 1
            /\ Len(<<"cancelled">>) = 1
        OBVIOUS
      <4>3. Len(record'[r]) \in {0, 1}
        BY <4>1, <4>2, Zenon
      <4>4. 0 <= 1 /\ 1 <= 1
        OBVIOUS
      <4> QED  BY <4>3, <4>4, Zenon
    <3> QED  BY <1>1, <2>1, <2>3, <3>1 DEF RecordInv, RecordedOnce, Requests
  <2>9. RecordTruthful'
    <3>1. \/ record'[r] = <<>>
          \/ record'[r] = <<"failed">>
          \/ record'[r] = <<"cancelled">> /\ client'[r] = "closed"
      BY <2>1, <2>2, Zenon DEF TypeOK
    <3>2. /\ <<>> # <<"cancelled">> /\ <<>> # <<"completed">>
          /\ <<"failed">> # <<"cancelled">> /\ <<"failed">> # <<"completed">>
          /\ <<"cancelled">> # <<"completed">>
      OBVIOUS
    <3> QED  BY <2>3, <3>1, <3>2 DEF RecordTruthful
  <2> QED  BY <1>2, <2>4, <2>5, <2>6, <2>7, <2>8, <2>9
<1>5. CASE ProxyUnqueued(r) \/ ProxiedEnd(r) \/ ProxiedAborted(r)
             \/ ProxiedError(r) \/ ProxiedClientClose(r)
  <2> USE <1>5 DEF ProxyUnqueued, ProxiedEnd, ProxiedAborted, ProxiedError,
                   ProxiedClientClose, ReadingBody
  <2>1. /\ r \in Others /\ r \notin Inference
        /\ r \notin running /\ r \notin Elems(queue) /\ r \notin finished
        /\ stage[r] \in {"body", "proxied"} /\ stage'[r] = "proxied"
    BY <1>3, RequestsAssumption DEF StageInv, TypeOK, Requests
  <2>2. \/ record' = record
        \/ /\ record[r] = <<>>
           /\ upstream'[r] = "over"
           /\ \/ record' = [record EXCEPT ![r] = <<"failed">>]
              \/ record' = [record EXCEPT ![r] = <<EndOf(r)>>]
                   /\ client[r] = "open" /\ client'[r] = "ended"
                   /\ head' = head
    <3>1. CASE ProxiedEnd(r)
      <4>1. record[r] = <<>> /\ client[r] = "open"
        BY <2>1, <3>1 DEF RecordInv, Live, Requests
      <4>2. Append(record[r], EndOf(r)) = <<EndOf(r)>>
        BY <4>1
      <4> QED  BY <3>1, <4>1, <4>2 DEF TypeOK, Ended
    <3>2. CASE ProxiedError(r)
      <4>1. record[r] = <<>>
        BY <2>1, <3>2 DEF RecordInv, Live, Requests
      <4>2. Append(record[r], "failed") = <<"failed">>
        BY <4>1
      <4> QED  BY <3>2, <4>1, <4>2 DEF TypeOK
    <3> QED  BY <3>1, <3>2
  <2>3. upstream' \in [Requests -> Upstreams]
    BY DEF TypeOK, Upstreams, Destroyed
  <2>4. client' \in [Requests -> {"none", "open", "ended", "closed"}]
    BY DEF TypeOK, Ended
  <2>5. TypeOK'
    <3>1. record' \in [Requests -> Seq(Events)]
      <4>1. EndOf(r) \in Events /\ "failed" \in Events
        BY DEF EndOf, Events
      <4>2. \/ record' = record
            \/ record' = [record EXCEPT ![r] = <<"failed">>]
            \/ record' = [record EXCEPT ![r] = <<EndOf(r)>>]
        BY <2>2, Zenon
      <4>3. /\ <<"failed">> \in Seq(Events) /\ <<EndOf(r)>> \in Seq(Events)
            /\ record \in [Requests -> Seq(Events)]
        BY <4>1, SingletonEvents DEF TypeOK
      <4> QED  BY <4>2, <4>3, Zenon
    <3>2. stage' \in [Requests -> Stages]
      BY DEF TypeOK, Stages
    <3>3. head' \in [Requests -> {"none", "ok", "error", "gateway"}]
      BY DEF TypeOK
    <3> QED  BY <1>1, <2>3, <2>4, <3>1, <3>2, <3>3 DEF TypeOK
  <2>6. \A x \in Requests : x # r =>
          /\ stage'[x] = stage[x] /\ client'[x] = client[x]
          /\ head'[x] = head[x] /\ upstream'[x] = upstream[x]
          /\ record'[x] = record[x]
    BY <2>2 DEF TypeOK, Ended, Destroyed
  <2>7. StageInv'
    <3>1. client'[r] # "none" /\ client[r] # "none"
      BY <2>1 DEF StageInv, TypeOK, Ended, Requests
    <3> QED  BY <1>1, <2>1, <2>6, <3>1 DEF StageInv, Requests
  <2>8. RunningInv'
    <3>1. \A x \in running : x \in Requests /\ x # r
      BY <2>1 DEF TypeOK, Requests
    <3> QED  BY <1>1, <2>1, <2>6, <3>1 DEF RunningInv, Requests
  <2>9. QueueSound'
    BY <1>1, <1>2, <1>3, <2>1, <2>6 DEF QueueSound, Requests
  <2>10. RecordInv'
    <3>1. \A x \in Requests : Len(record'[x]) <= 1
      BY <2>1, <2>2, <2>6 DEF RecordInv, RecordedOnce, TypeOK
    <3>2. record[r] # <<>> => upstream[r] = "over" /\ stage[r] = "proxied"
      BY <2>1 DEF RecordInv, Requests
    <3>3. record'[r] # <<>> => upstream'[r] = "over"
      BY <2>1, <2>2, <3>2 DEF TypeOK, Live, Destroyed
    <3>4. upstream'[r] \in Live => client'[r] = "open"
      BY <2>1 DEF RecordInv, TypeOK, Live, Ended, Destroyed, Requests
    <3> QED  BY <1>1, <2>1, <2>6, <3>1, <3>3, <3>4, RequestsAssumption
             DEF RecordInv, RecordedOnce, Requests
  <2>11. RecordTruthful'
    <3>1. record' = record =>
            /\ record[r] = <<"completed">> => head'[r] = "ok" /\ client'[r] = "ended"
            /\ record[r] = <<"cancelled">> => client'[r] = "closed"
      BY <2>1 DEF RecordTruthful, TypeOK, Ended, Requests
    <3>2. record'[r] = <<"completed">> => head'[r] = "ok" /\ client'[r] = "ended"
      BY <2>1, <2>2, <3>1 DEF EndOf, TypeOK
    <3>3. record'[r] = <<"cancelled">> => client'[r] = "closed"
      BY <2>1, <2>2, <3>1 DEF EndOf, TypeOK
    <3> QED  BY <2>6, <3>2, <3>3 DEF RecordTruthful
  <2> QED  BY <1>2, <2>5, <2>7, <2>8, <2>9, <2>10, <2>11
<1>6. CASE UpstreamResponse(r) \/ UpstreamPaused(r) \/ ClientDrain(r)
  <2> USE <1>6 DEF UpstreamResponse, UpstreamPaused, ClientDrain
  <2>1. /\ UNCHANGED <<stage, client, record>>
        /\ \A x \in Requests : x # r => /\ upstream'[x] = upstream[x]
                                       /\ head'[x] = head[x]
        /\ upstream[r] \in Live /\ upstream'[r] \in Live
        /\ head[r] = "ok" => head'[r] = "ok"
    BY DEF TypeOK, Live
  <2>2. TypeOK'
    BY <1>1 DEF TypeOK, Upstreams
  <2>3. StageInv' /\ RunningInv'
    <3>1. StageInv'
      BY <1>1, <2>1 DEF StageInv, Requests, Live
    <3>2. \A x \in running : x \in Requests
      BY DEF TypeOK, Requests
    <3>3. RunningInv'
      BY <1>1, <2>1, <3>2 DEF RunningInv, Requests
    <3> QED  BY <3>1, <3>3
  <2>4. QueueSound'
    BY <1>1, <1>2, <1>3, <2>1 DEF QueueSound, Requests, Live
  <2>5. RecordInv'
    BY <1>1, <2>1 DEF RecordInv, RecordedOnce, Requests, Live
  <2>6. RecordTruthful'
    BY <2>1 DEF RecordTruthful
  <2> QED  BY <1>2, <2>2, <2>3, <2>4, <2>5, <2>6
<1> QED  BY <1>4, <1>5, <1>6

\* Signals, exit, crash and restart.
LEMMA ProcessSteps ==
  ASSUME IInv, Shutdown \/ Exit \/ Crash \/ Restart
  PROVE  IInv'
<1> USE DEF IInv
<1>1. CASE Shutdown \/ Restart
  <2>1. /\ process' \in {"up", "draining", "down"}
        /\ UNCHANGED <<stage, client, head, upstream, queue, running, finished,
                       cancelled, record, metrics>>
    BY <1>1 DEF Shutdown, Restart
  <2>2. TypeOK' /\ StageInv' /\ RunningInv' /\ SlotsExact'
    BY <2>1 DEF TypeOK, StageInv, RunningInv, SlotsExact
  <2>3. QueueSound'
    BY <2>1 DEF QueueSound, Elems, Distinct
  <2>4. RecordInv' /\ RecordTruthful'
    BY <2>1 DEF RecordInv, RecordedOnce, RecordTruthful
  <2> QED  BY <2>2, <2>3, <2>4
<1>2. CASE Exit \/ Crash
  <2> USE <1>2 DEF Exit, Crash, ProcessGone
  <2>1. Elems(<<>>) = {} /\ Distinct(<<>>)
    BY DEF Elems, Distinct
  <2>2. /\ queue' = <<>> /\ running' = {}
        /\ UNCHANGED <<stage, head, finished, cancelled, record, metrics>>
        /\ \A x \in Requests :
             /\ client'[x] # "open"
             /\ client[x] # "open" => client'[x] = client[x]
             /\ client[x] = "open" => client'[x] = "closed"
             /\ upstream[x] = "none" => upstream'[x] = "none"
             /\ upstream[x] # "none" => upstream'[x] \in {"over", "gone"}
             /\ upstream[x] = "over" => upstream'[x] = "over"
    OBVIOUS
  <2>3. TypeOK'
    BY <2>2, FS_EmptySet DEF TypeOK, Upstreams
  <2>4. StageInv' /\ RunningInv'
    BY <2>2 DEF StageInv, RunningInv, Live, Requests
  <2>5. SlotsExact'
    BY <2>2, FS_EmptySet, LimitAssumption DEF SlotsExact
  <2>6. QueueSound'
    <3>1. Distinct(queue') /\ Elems(queue') = {}
      BY <2>1, <2>2
    <3>2. \A x \in Inference : client'[x] # "open"
      BY <2>2 DEF Requests
    <3> QED  BY <3>1, <3>2 DEF QueueSound, Distinct, Elems
  <2>7. RecordInv'
    BY <2>2 DEF RecordInv, RecordedOnce, Requests, Live
  <2>8. RecordTruthful'
    BY <2>2 DEF RecordTruthful
  <2> QED  BY <2>3, <2>4, <2>5, <2>6, <2>7, <2>8
<1> QED  BY <1>1, <1>2

\* No step of the gateway leaves the inductive invariant.
LEMMA Inductive == IInv /\ [Next]_vars => IInv'
<1> SUFFICES ASSUME IInv, [Next]_vars
             PROVE  IInv'
  OBVIOUS
<1>1. CASE UNCHANGED vars
  BY <1>1 DEF vars, IInv, TypeOK, StageInv, RunningInv, SlotsExact, QueueSound,
              RecordInv, RecordedOnce, RecordTruthful, Elems, Distinct
<1>2. CASE \E r \in Requests : RequestStep(r)
  <2> SUFFICES ASSUME NEW r \in Requests, RequestStep(r)
               PROVE  IInv'
    BY <1>2
  <2>1. CASE Enqueue(r)
    BY <2>1, EnqueueStep
  <2>2. CASE JobEnd(r) \/ JobAborted(r) \/ JobError(r) \/ JobClientClose(r)
    BY <2>2, JobSteps
  <2>3. CASE \/ Arrive(r) \/ BodyRejected(r) \/ SignatureRefused(r)
             \/ ProxyUnqueued(r) \/ UpstreamResponse(r) \/ UpstreamPaused(r)
             \/ ClientDrain(r) \/ ProxiedEnd(r) \/ ProxiedAborted(r)
             \/ ProxiedError(r) \/ ProxiedClientClose(r)
    BY <2>3, OtherRequestSteps
  <2> QED  BY <2>1, <2>2, <2>3 DEF RequestStep
<1>3. CASE Shutdown \/ Exit \/ Crash \/ Restart
  BY <1>3, ProcessSteps
<1> QED  BY <1>1, <1>2, <1>3 DEF Next

LEMMA Initially == Init => IInv
<1> SUFFICES ASSUME Init PROVE IInv
  OBVIOUS
<1>1. Elems(<<>>) = {} /\ Distinct(<<>>) /\ Len(<<>>) = 0
  BY DEF Elems, Distinct
<1>2. TypeOK
  BY FS_EmptySet DEF Init, TypeOK, Stages, Upstreams
<1>3. StageInv /\ RunningInv
  BY DEF Init, StageInv, RunningInv, Requests, Live
<1>4. SlotsExact
  BY FS_EmptySet, LimitAssumption DEF Init, SlotsExact
<1>5. QueueSound
  BY <1>1 DEF Init, QueueSound, Requests
<1>6. RecordInv
  BY <1>1 DEF Init, RecordInv, RecordedOnce, Requests
<1>7. RecordTruthful
  BY DEF Init, RecordTruthful
<1> QED  BY <1>2, <1>3, <1>4, <1>5, <1>6, <1>7 DEF IInv

\* Every reachable state satisfies the inductive invariant.
THEOREM Invariance == Spec => []IInv
BY Initially, Inductive, PTL DEF Spec

\* Type correctness of the gateway's state, for any requests and any limit.
THEOREM GatewayTypeCorrect == Spec => []TypeOK
<1>1. IInv => TypeOK
  BY DEF IInv
<1> QED  BY <1>1, Invariance, PTL

\* At most parallelLimit jobs run, and exactly that many while a job waits,
\* whatever callbacks of clients and SwiftLM come in whatever order.
THEOREM GatewaySlotsExact == Spec => []SlotsExact
<1>1. IInv => SlotsExact
  BY DEF IInv
<1> QED  BY <1>1, Invariance, PTL

\* A slot is held exactly by the jobs with a live upstream request, a connected
\* client and no terminal record: slots neither leak nor are bypassed.
THEOREM GatewaySlotsBacked == Spec => []SlotsBacked
<1>1. IInv => SlotsBacked
  BY DEF IInv, TypeOK, RunningInv, SlotsBacked
<1> QED  BY <1>1, Invariance, PTL

\* No job is lost, duplicated or left in the queue after its client has gone.
THEOREM GatewayQueueSound == Spec => []QueueSound
<1>1. IInv => QueueSound
  BY DEF IInv
<1> QED  BY <1>1, Invariance, PTL

\* A request has at most one terminal record, a finished job exactly one.
THEOREM GatewayRecordedOnce == Spec => []RecordedOnce
<1>1. IInv => RecordedOnce
  BY DEF IInv, RecordInv
<1> QED  BY <1>1, Invariance, PTL

\* "completed" was said only of an answer that went out whole, "cancelled" only
\* of a client that left.
THEOREM GatewayRecordTruthful == Spec => []RecordTruthful
<1>1. IInv => RecordTruthful
  BY DEF IInv
<1> QED  BY <1>1, Invariance, PTL

-----------------------------------------------------------------------------
(* What a finished job leaves behind.  LeftInv is preserved by the steps   *)
(* between states that satisfy IInv.                                       *)

\* An upstream request that can no longer answer belongs to a finished job, so
\* that its late error events find nothing to do.
LeftInv ==
  /\ OnlyAbortLeavesOpen
  /\ MetricsOnlyAtEnd
  /\ metrics \subseteq finished
  /\ \A r \in Inference :
       stage[r] = "job" /\ upstream[r] \in {"hangup", "destroyed", "aborted"}
         => r \in finished

\* drainQueue changes the connection only of jobs it takes from the queue.
LEMMA DrainConnections ==
  ASSUME NEW q, NEW slots, NEW gone, NEW conns, Len(q) \in Nat,
         DrainQueue(q, slots, gone, conns)
  PROVE  \A x \in Requests : \/ upstream'[x] = conns[x]
                             \/ upstream'[x] = "sent" /\ x \in Elems(q) \ gone
<1>1. PICK n \in 0..Len(q) :
        upstream' = [x \in Requests |->
                       IF x \in Started(q, n, gone) THEN "sent" ELSE conns[x]]
  BY DEF DrainQueue
<1>2. Started(q, n, gone) \subseteq Elems(q) \ gone
  BY DEF Started, Elems
<1> QED  BY <1>1, <1>2

\* What a callback of job r that calls finishJob does to the history.
Settled(r, event, u) ==
  /\ finished' = finished \cup {r}
  /\ \A x \in Requests : x # r => record'[x] = record[x]
  /\ r \in finished => record'[r] = record[r]
  /\ r \notin finished => record'[r] = <<event>>
  /\ \A x \in Requests : x # r =>
       \/ upstream'[x] = upstream[x]
       \/ upstream'[x] = "sent" /\ x \notin finished' /\ x \in Inference
  /\ upstream'[r] = u

LEMMA FinishJobFacts ==
  ASSUME IInv, NEW r \in Inference, stage[r] = "job", NEW event, NEW q, NEW u,
         q \in Seq(Inference), FinishJob(r, event, q, [upstream EXCEPT ![r] = u])
  PROVE  Settled(r, event, u)
<1> DEFINE conns == [upstream EXCEPT ![r] = u]
<1>1. /\ r \in Requests /\ upstream \in [Requests -> Upstreams]
      /\ record \in [Requests -> Seq(Events)] /\ finished \subseteq Inference
  BY DEF IInv, TypeOK, Requests
<1>2. conns[r] = u /\ \A x \in Requests : x # r => conns[x] = upstream[x]
  BY <1>1
<1>3. CASE r \in finished
  <2>1. upstream' = conns /\ UNCHANGED <<finished, record>>
    BY <1>3 DEF FinishJob
  <2>2. finished' = finished \cup {r}
    BY <1>3, <2>1
  <2> HIDE DEF conns
  <2>3. \A x \in Requests : x # r => upstream'[x] = upstream[x]
    BY <1>2, <2>1
  <2>4. upstream'[r] = u
    BY <1>2, <2>1
  <2>5. record' = record
    BY <2>1
  <2> QED  BY <1>3, <2>2, <2>3, <2>4, <2>5 DEF Settled
<1>4. CASE r \notin finished
  <2> DEFINE slots == running \ {r}
             gone == cancelled' \cup finished'
  <2>1. /\ finished' = finished \cup {r}
        /\ record' = [record EXCEPT ![r] = Append(@, event)]
        /\ DrainQueue(q, slots, gone, conns)
    BY <1>4 DEF FinishJob
  <2>2. record[r] = <<>>
    BY <1>1, <1>4 DEF IInv, RecordInv
  <2>3. Append(record[r], event) = <<event>>
    BY <2>2
  <2>4. record'[r] = <<event>> /\ \A x \in Requests : x # r => record'[x] = record[x]
    BY <1>1, <2>1, <2>3
  <2> HIDE DEF slots, gone, conns
  <2>5. \A x \in Requests : \/ upstream'[x] = conns[x]
                            \/ upstream'[x] = "sent" /\ x \in Elems(q) \ gone
    <3>1. Len(q) \in Nat
      OBVIOUS
    <3> QED  BY <2>1, <3>1, DrainConnections
  <2>6. \A x \in Requests :
          \/ upstream'[x] = conns[x]
          \/ upstream'[x] = "sent" /\ x \notin finished' /\ x \in Inference
    <3>1. Elems(q) \subseteq Inference
      BY DEF Elems
    <3> QED  BY <2>5, <3>1 DEF gone
  <2>7. \A x \in Requests : x # r =>
          \/ upstream'[x] = upstream[x]
          \/ upstream'[x] = "sent" /\ x \notin finished' /\ x \in Inference
    BY <1>2, <2>6
  <2>8. upstream'[r] = u
    BY <1>1, <1>2, <2>1, <2>6
  <2> QED  BY <1>4, <2>1, <2>4, <2>7, <2>8 DEF Settled
<1> QED  BY <1>3, <1>4

\* Destroyed changes nothing but the connection of its request.
LEMMA DestroyedConnection ==
  ASSUME IInv, NEW r \in Requests
  PROVE  \E u : Destroyed(r) = [upstream EXCEPT ![r] = u]
BY DEF Destroyed

LEMMA LeftJobSteps ==
  ASSUME IInv, LeftInv, NEW r \in Requests,
         JobEnd(r) \/ JobAborted(r) \/ JobError(r) \/ JobClientClose(r)
  PROVE  LeftInv'
<1>1. r \in Inference /\ stage[r] = "job" /\ stage' = stage
  BY DEF JobEnd, JobAborted, JobError, JobClientClose, StageInv, IInv
<1>2. /\ client \in [Requests -> {"none", "open", "ended", "closed"}]
      /\ head \in [Requests -> {"none", "ok", "error", "gateway"}]
      /\ queue \in Seq(Inference) /\ finished \subseteq Inference
      /\ Inference \subseteq Requests
      /\ Len(queue) \in Nat
  BY DEF IInv, TypeOK, Requests
<1>3. /\ \A x \in finished : client[x] = "open" => upstream[x] = "aborted"
      /\ \A x \in metrics : client[x] = "ended" /\ record[x] = <<EndOf(x)>>
      /\ metrics \subseteq finished
      /\ \A x \in Inference :
           stage[x] = "job" /\ upstream[x] \in {"hangup", "destroyed", "aborted"}
             => x \in finished
  BY DEF LeftInv, OnlyAbortLeavesOpen, MetricsOnlyAtEnd
<1>4. ASSUME NEW event, NEW u, Settled(r, event, u),
             \A x \in Requests : x # r => client'[x] = client[x] /\ head'[x] = head[x],
             client'[r] = "open" => u = "aborted",
             \A x \in metrics' : x # r => x \in metrics,
             r \in metrics' => /\ client'[r] = "ended"
                               /\ record'[r] = <<EndOf(r)'>>
      PROVE  LeftInv'
  <2>1. OnlyAbortLeavesOpen'
    BY <1>2, <1>3, <1>4 DEF OnlyAbortLeavesOpen, Settled
  <2>2. MetricsOnlyAtEnd'
    <3>1. \A x \in Requests : x # r => EndOf(x)' = EndOf(x)
      BY <1>4 DEF EndOf
    <3> QED  BY <1>2, <1>3, <1>4, <3>1 DEF MetricsOnlyAtEnd, Settled
  <2>3. metrics' \subseteq finished'
    BY <1>3, <1>4 DEF Settled
  <2>4. \A x \in Inference :
          stage'[x] = "job" /\ upstream'[x] \in {"hangup", "destroyed", "aborted"}
            => x \in finished'
    BY <1>1, <1>2, <1>3, <1>4 DEF Settled
  <2> QED  BY <2>1, <2>2, <2>3, <2>4 DEF LeftInv
<1>5. CASE JobEnd(r)
  <2>1. Settled(r, EndOf(r), "over")
    <3>1. FinishJob(r, EndOf(r), queue, [upstream EXCEPT ![r] = "over"])
      BY <1>5 DEF JobEnd
    <3> QED  BY <1>1, <1>2, <3>1, FinishJobFacts
  <2>2. /\ client' = Ended(r) /\ head' = head
        /\ \/ metrics' = metrics
           \/ metrics' = metrics \cup {r} /\ r \notin finished /\ client[r] = "open"
    BY <1>5 DEF JobEnd
  <2>3. /\ client'[r] # "open"
        /\ client[r] \in {"open", "ended"} => client'[r] = "ended"
        /\ \A x \in Requests : x # r => client'[x] = client[x]
    BY <1>2, <2>2 DEF Ended
  <2>4. r \in metrics' => /\ client'[r] = "ended"
                          /\ record'[r] = <<EndOf(r)'>>
    <3>1. EndOf(r)' = EndOf(r)
      BY <2>2 DEF EndOf
    <3>2. CASE r \in metrics
      BY <1>3, <2>1, <2>3, <3>1, <3>2 DEF Settled
    <3>3. CASE r \notin metrics
      BY <2>1, <2>2, <2>3, <3>1, <3>3 DEF Settled
    <3> QED  BY <3>2, <3>3
  <2> QED  BY <1>4, <2>1, <2>2, <2>3, <2>4
<1>6. CASE JobAborted(r)
  <2>1. Settled(r, "failed", "aborted")
    BY <1>1, <1>2, <1>6, FinishJobFacts DEF JobAborted
  <2>2. UNCHANGED <<client, head, metrics>>
    BY <1>6 DEF JobAborted
  <2>3. r \in metrics' => /\ client'[r] = "ended"
                          /\ record'[r] = <<EndOf(r)'>>
    BY <1>3, <2>1, <2>2 DEF EndOf, Settled
  <2> QED  BY <1>4, <2>1, <2>2, <2>3
<1>7. CASE JobError(r)
  <2>1. Settled(r, "failed", "over")
    <3>1. FinishJob(r, "failed", queue, [upstream EXCEPT ![r] = "over"])
      BY <1>7 DEF JobError
    <3> QED  BY <1>1, <1>2, <3>1, FinishJobFacts
  <2>2. /\ client' = Ended(r) /\ metrics' = metrics
        /\ head' = [head EXCEPT ![r] =
                      IF @ = "none" /\ client[r] = "open" THEN "gateway" ELSE @]
    BY <1>7 DEF JobError
  <2>3. /\ client'[r] # "open"
        /\ client[r] = "ended" => client'[r] = "ended"
        /\ client[r] = "ended" => head'[r] = head[r]
        /\ \A x \in Requests : x # r => client'[x] = client[x] /\ head'[x] = head[x]
    BY <1>2, <2>2 DEF Ended
  <2>4. r \in metrics' => /\ client'[r] = "ended"
                          /\ record'[r] = <<EndOf(r)'>>
    BY <1>3, <2>1, <2>2, <2>3 DEF EndOf, Settled
  <2> QED  BY <1>4, <2>1, <2>2, <2>3, <2>4
<1>8. CASE JobClientClose(r)
  <2>1. /\ client' = [client EXCEPT ![r] = "closed"] /\ client[r] = "open"
        /\ UNCHANGED <<head, metrics>>
    BY <1>8 DEF JobClientClose
  <2>2. r \notin metrics /\ client'[r] = "closed"
        /\ \A x \in Requests : x # r => client'[x] = client[x]
    BY <1>2, <1>3, <2>1
  <2>3. CASE r \in finished
    <3>1. UNCHANGED <<finished, record, upstream>>
      BY <1>8, <2>3 DEF JobClientClose
    <3> QED  BY <1>1, <1>2, <1>3, <2>1, <2>2, <3>1
             DEF LeftInv, OnlyAbortLeavesOpen, MetricsOnlyAtEnd, EndOf
  <2>4. CASE r \notin finished
    <3>1. PICK u : Destroyed(r) = [upstream EXCEPT ![r] = u]
      BY DestroyedConnection
    <3>2. FinishJob(r, "cancelled", Without(queue, r), [upstream EXCEPT ![r] = u])
      BY <1>8, <2>4, <3>1 DEF JobClientClose
    <3>3. Without(queue, r) \in Seq(Inference)
      BY <1>2, WithoutResult DEF IInv, QueueSound
    <3>4. Settled(r, "cancelled", u)
      BY <1>1, <3>2, <3>3, FinishJobFacts
    <3> QED  BY <1>4, <2>1, <2>2, <3>4
  <2> QED  BY <2>3, <2>4
<1> QED  BY <1>5, <1>6, <1>7, <1>8

LEMMA LeftOtherSteps ==
  ASSUME IInv, LeftInv, NEW r \in Requests,
         \/ Arrive(r) \/ BodyRejected(r) \/ SignatureRefused(r) \/ Enqueue(r)
         \/ ProxyUnqueued(r) \/ UpstreamResponse(r) \/ UpstreamPaused(r)
         \/ ClientDrain(r) \/ ProxiedEnd(r) \/ ProxiedAborted(r)
         \/ ProxiedError(r) \/ ProxiedClientClose(r)
  PROVE  LeftInv'
<1>1. UNCHANGED <<finished, metrics>>
  BY DEF Arrive, BodyRejected, SignatureRefused, Enqueue, ProxyUnqueued,
         UpstreamResponse, UpstreamPaused, ClientDrain, ProxiedEnd,
         ProxiedAborted, ProxiedError, ProxiedClientClose
<1>2. /\ stage \in [Requests -> Stages]
      /\ client \in [Requests -> {"none", "open", "ended", "closed"}]
      /\ head \in [Requests -> {"none", "ok", "error", "gateway"}]
      /\ upstream \in [Requests -> Upstreams]
      /\ record \in [Requests -> Seq(Events)]
      /\ queue \in Seq(Inference) /\ Len(queue) \in Nat
      /\ finished \subseteq Inference /\ Inference \subseteq Requests
  BY DEF IInv, TypeOK, Requests
<1>3. /\ \A x \in finished : client[x] = "open" => upstream[x] = "aborted"
      /\ \A x \in metrics : client[x] = "ended" /\ record[x] = <<EndOf(x)>>
      /\ metrics \subseteq finished
      /\ \A x \in Inference :
           stage[x] = "job" /\ upstream[x] \in {"hangup", "destroyed", "aborted"}
             => x \in finished
  BY DEF LeftInv, OnlyAbortLeavesOpen, MetricsOnlyAtEnd
<1>4. ASSUME \A x \in Inference : x # r =>
               /\ stage'[x] = stage[x] /\ client'[x] = client[x]
               /\ head'[x] = head[x] /\ record'[x] = record[x]
               /\ \/ upstream'[x] = upstream[x]
                  \/ upstream'[x] = "sent" /\ x \notin finished,
             r \in Inference => r \notin finished,
             r \in Inference => upstream'[r] \notin {"hangup", "destroyed", "aborted"}
      PROVE  LeftInv'
  <2>1. OnlyAbortLeavesOpen'
    <3>1. finished' = finished /\ \A x \in finished : x \in Inference /\ x # r
      BY <1>1, <1>2, <1>4
    <3> QED  BY <1>3, <1>4, <3>1 DEF OnlyAbortLeavesOpen
  <2>2. MetricsOnlyAtEnd'
    <3>1. \A x \in metrics : x \in Inference /\ x # r
      BY <1>2, <1>3, <1>4
    <3>2. \A x \in metrics : EndOf(x)' = EndOf(x)
      BY <1>4, <3>1 DEF EndOf
    <3> QED  BY <1>1, <1>3, <1>4, <3>1, <3>2 DEF MetricsOnlyAtEnd
  <2> QED  BY <1>1, <1>2, <1>3, <1>4, <2>1, <2>2 DEF LeftInv
<1>5. CASE Arrive(r) \/ BodyRejected(r) \/ SignatureRefused(r)
  <2>1. r \in Inference => r \notin finished /\ upstream[r] = "none"
    BY <1>5 DEF Arrive, BodyRejected, SignatureRefused, ReadingBody, IInv, StageInv
  <2> QED  BY <1>2, <1>4, <1>5, <2>1
           DEF Arrive, BodyRejected, SignatureRefused
<1>6. CASE Enqueue(r)
  <2>1. r \notin finished /\ upstream[r] = "none" /\ r \in Inference
    BY <1>6 DEF Enqueue, ReadingBody, IInv, StageInv
  <2>2. Len(Append(queue, r)) \in Nat
    BY <1>2, <2>1
  <2>3. /\ UNCHANGED <<client, head, finished, record>>
        /\ stage' = [stage EXCEPT ![r] = "job"]
        /\ DrainQueue(Append(queue, r), running, cancelled \cup finished, upstream)
    BY <1>6 DEF Enqueue
  <2>4. \A x \in Requests : \/ upstream'[x] = upstream[x]
                            \/ upstream'[x] = "sent" /\ x \notin finished
    BY <2>2, <2>3, DrainConnections
  <2> QED  BY <1>2, <1>4, <2>1, <2>3, <2>4
<1>7. CASE \/ ProxyUnqueued(r) \/ ProxiedEnd(r) \/ ProxiedAborted(r)
           \/ ProxiedError(r) \/ ProxiedClientClose(r)
  <2>1. r \notin Inference
    BY <1>7, RequestsAssumption
       DEF ProxyUnqueued, ProxiedEnd, ProxiedAborted, ProxiedError,
           ProxiedClientClose, IInv, StageInv
  <2> QED  BY <1>2, <1>4, <1>7, <2>1
           DEF ProxyUnqueued, ProxiedEnd, ProxiedAborted, ProxiedError,
               ProxiedClientClose, Ended, Destroyed
<1>8. CASE UpstreamResponse(r) \/ UpstreamPaused(r) \/ ClientDrain(r)
  <2>1. /\ upstream[r] \in Live /\ upstream'[r] \notin {"hangup", "destroyed", "aborted"}
        /\ UNCHANGED <<stage, client, record>>
        /\ \A x \in Requests : x # r => upstream'[x] = upstream[x] /\ head'[x] = head[x]
    BY <1>2, <1>8 DEF UpstreamResponse, UpstreamPaused, ClientDrain, Live
  <2>2. r \in Inference => r \notin finished
    BY <2>1 DEF IInv, StageInv, RunningInv, Live
  <2> QED  BY <1>2, <1>4, <2>1, <2>2
<1> QED  BY <1>5, <1>6, <1>7, <1>8

LEMMA LeftStep == IInv /\ LeftInv /\ [Next]_vars => LeftInv'
<1> SUFFICES ASSUME IInv, LeftInv, [Next]_vars
             PROVE  LeftInv'
  OBVIOUS
<1>1. CASE UNCHANGED vars \/ Shutdown \/ Restart
  <2>1. UNCHANGED <<stage, client, head, upstream, finished, record, metrics>>
    BY <1>1 DEF vars, Shutdown, Restart
  <2> QED  BY <2>1 DEF LeftInv, OnlyAbortLeavesOpen, MetricsOnlyAtEnd, EndOf
<1>2. CASE Exit \/ Crash
  <2>1. /\ UNCHANGED <<stage, head, finished, record, metrics>>
        /\ \A x \in Requests :
             /\ client'[x] # "open"
             /\ client[x] = "ended" => client'[x] = "ended"
             /\ upstream'[x] \in {"none", "over", "gone"}
    BY <1>2 DEF Exit, Crash, ProcessGone
  <2>2. finished \subseteq Requests /\ Inference \subseteq Requests
    BY DEF IInv, TypeOK, Requests
  <2> QED  BY <2>1, <2>2 DEF LeftInv, OnlyAbortLeavesOpen, MetricsOnlyAtEnd, EndOf
<1>3. CASE \E r \in Requests : RequestStep(r)
  BY <1>3, LeftJobSteps, LeftOtherSteps DEF RequestStep
<1> QED  BY <1>1, <1>2, <1>3 DEF Next

LEMMA LeftInitially == Init => LeftInv
<1> SUFFICES ASSUME Init PROVE LeftInv
  OBVIOUS
<1>1. Inference \subseteq Requests
  BY DEF Requests
<1> QED  BY <1>1 DEF Init, LeftInv, OnlyAbortLeavesOpen, MetricsOnlyAtEnd

\* LeftInv holds in every reachable state.
THEOREM LeftInvariance == Spec => []LeftInv
BY LeftInitially, LeftStep, Invariance, PTL DEF Spec

\* A finished job whose client still waits had its answer broken off by
\* SwiftLM: every other end of a job ends the response, too.
THEOREM GatewayAnswers == Spec => []OnlyAbortLeavesOpen
<1>1. LeftInv => OnlyAbortLeavesOpen
  BY DEF LeftInv
<1> QED  BY <1>1, LeftInvariance, PTL

\* The metrics event is sent at most to a client whose answer ended normally
\* and was recorded as what it was.
THEOREM GatewayMetrics == Spec => []MetricsOnlyAtEnd
<1>1. LeftInv => MetricsOnlyAtEnd
  BY DEF LeftInv
<1> QED  BY <1>1, LeftInvariance, PTL

-----------------------------------------------------------------------------
(* The records of the requests outside the queue.                          *)

\* Behind the head of its answer an unqueued request has sent one.
HeadInv ==
  \A r \in Others :
    stage[r] = "proxied"
      /\ upstream[r] \in {"streaming", "paused", "destroyed", "aborted"}
    => head[r] # "none"

OthersInv == HeadInv /\ ProxiedRecorded

\* What all callbacks of other requests leave of r.
SameOther(r) ==
  /\ stage'[r] = stage[r] /\ client'[r] = client[r] /\ head'[r] = head[r]
  /\ upstream'[r] = upstream[r] /\ record'[r] = record[r]

\* The callbacks of jobs leave the other requests alone.
LEMMA JobsLeaveOthers ==
  ASSUME IInv, NEW q \in Requests, NEW r \in Others,
         Enqueue(q) \/ JobEnd(q) \/ JobAborted(q) \/ JobError(q)
           \/ JobClientClose(q)
  PROVE  SameOther(r)
<1>1. q \in Inference /\ q # r /\ r \in Requests /\ r \notin Inference
  BY RequestsAssumption
     DEF Enqueue, JobEnd, JobAborted, JobError, JobClientClose, IInv, StageInv,
         Requests
<1>2. /\ queue \in Seq(Inference) /\ Distinct(queue)
      /\ stage \in [Requests -> Stages] /\ record \in [Requests -> Seq(Events)]
      /\ client \in [Requests -> {"none", "open", "ended", "closed"}]
      /\ head \in [Requests -> {"none", "ok", "error", "gateway"}]
  BY DEF IInv, TypeOK, QueueSound
<1>3. stage'[r] = stage[r] /\ client'[r] = client[r] /\ head'[r] = head[r]
  BY <1>1, <1>2
     DEF Enqueue, JobEnd, JobAborted, JobError, JobClientClose, Ended
<1>4. ASSUME NEW event, NEW u, Settled(q, event, u)
      PROVE  upstream'[r] = upstream[r] /\ record'[r] = record[r]
  BY <1>1, <1>4 DEF Settled
<1>5. CASE Enqueue(q)
  <2>1. /\ DrainQueue(Append(queue, q), running, cancelled \cup finished,
                      upstream)
        /\ record' = record
    BY <1>5 DEF Enqueue
  <2>2. Append(queue, q) \in Seq(Inference)
    BY <1>1, <1>2
  <2>3. Elems(Append(queue, q)) \subseteq Inference /\ Len(Append(queue, q)) \in Nat
    BY <2>2 DEF Elems
  <2>4. upstream'[r] = upstream[r]
    BY <1>1, <2>1, <2>3, DrainConnections
  <2> QED  BY <1>3, <2>1, <2>4 DEF SameOther
<1>6. CASE JobEnd(q) \/ JobAborted(q) \/ JobError(q)
  <2>1. \E event, u : FinishJob(q, event, queue, [upstream EXCEPT ![q] = u])
    BY <1>6 DEF JobEnd, JobAborted, JobError
  <2>2. stage[q] = "job"
    BY <1>6 DEF JobEnd, JobAborted, JobError
  <2>3. \E event, u : Settled(q, event, u)
    BY <1>1, <1>2, <2>1, <2>2, FinishJobFacts
  <2> QED  BY <1>3, <1>4, <2>3 DEF SameOther
<1>7. CASE JobClientClose(q)
  <2>1. CASE q \in finished
    BY <1>3, <1>7, <2>1 DEF JobClientClose, SameOther
  <2>2. CASE q \notin finished
    <3>1. PICK u : Destroyed(q) = [upstream EXCEPT ![q] = u]
      BY DestroyedConnection
    <3>2. /\ FinishJob(q, "cancelled", Without(queue, q),
                       [upstream EXCEPT ![q] = u])
          /\ stage[q] = "job"
      BY <1>7, <2>2, <3>1 DEF JobClientClose
    <3>3. Without(queue, q) \in Seq(Inference)
      BY <1>2, WithoutResult
    <3>4. Settled(q, "cancelled", u)
      BY <1>1, <3>2, <3>3, FinishJobFacts
    <3> QED  BY <1>3, <1>4, <3>4 DEF SameOther
  <2> QED  BY <2>1, <2>2
<1> QED  BY <1>5, <1>6, <1>7

LEMMA OthersStep == IInv /\ OthersInv /\ [Next]_vars => OthersInv'
<1> SUFFICES ASSUME IInv, OthersInv, [Next]_vars, NEW r \in Others
             PROVE  /\ stage'[r] = "proxied"
                         /\ upstream'[r] \in {"streaming", "paused",
                                              "destroyed", "aborted"}
                       => head'[r] # "none"
                    /\ stage'[r] = "proxied" /\ record'[r] = <<>> =>
                         \/ upstream'[r] \in Live /\ client'[r] = "open"
                         \/ /\ upstream'[r] \in {"hangup", "gone"}
                            /\ client'[r] = "closed"
                         \/ /\ upstream'[r] \in {"destroyed", "aborted"}
                            /\ head'[r] # "none" /\ client'[r] # "ended"
  BY DEF OthersInv, HeadInv, ProxiedRecorded
<1>1. /\ stage[r] = "proxied"
           /\ upstream[r] \in {"streaming", "paused", "destroyed", "aborted"}
         => head[r] # "none"
      /\ stage[r] = "proxied" /\ record[r] = <<>> =>
           \/ upstream[r] \in Live /\ client[r] = "open"
           \/ upstream[r] \in {"hangup", "gone"} /\ client[r] = "closed"
           \/ /\ upstream[r] \in {"destroyed", "aborted"}
              /\ head[r] # "none" /\ client[r] # "ended"
  BY DEF OthersInv, HeadInv, ProxiedRecorded
<1>2. /\ r \in Requests /\ r \notin Inference
      /\ stage \in [Requests -> Stages]
      /\ client \in [Requests -> {"none", "open", "ended", "closed"}]
      /\ head \in [Requests -> {"none", "ok", "error", "gateway"}]
      /\ upstream \in [Requests -> Upstreams]
      /\ record \in [Requests -> Seq(Events)]
      /\ stage[r] = "proxied" /\ upstream[r] \in Live => client[r] = "open"
  BY RequestsAssumption DEF IInv, TypeOK, RecordInv, Requests
<1>3. CASE SameOther(r)
  BY <1>1, <1>3 DEF SameOther
<1>4. CASE UNCHANGED vars \/ Shutdown \/ Restart
  BY <1>3, <1>4 DEF vars, Shutdown, Restart, SameOther
<1>5. CASE Exit \/ Crash
  <2>1. /\ stage'[r] = stage[r] /\ head'[r] = head[r]
        /\ record'[r] = record[r]
        /\ client[r] = "open" => client'[r] = "closed"
        /\ client[r] # "open" => client'[r] = client[r]
        /\ upstream[r] \in {"none", "over"} => upstream'[r] = upstream[r]
        /\ upstream[r] \notin {"none", "over"} => upstream'[r] = "gone"
    BY <1>2, <1>5 DEF Exit, Crash, ProcessGone
  <2>2. stage[r] = "proxied" => client[r] \in {"open", "ended", "closed"}
    BY <1>2 DEF IInv, StageInv
  <2> QED  BY <1>1, <2>1, <2>2 DEF Live
<1>6. ASSUME NEW q \in Requests, q # r, RequestStep(q)
      PROVE  SameOther(r)
  <2>1. CASE Enqueue(q) \/ JobEnd(q) \/ JobAborted(q) \/ JobError(q)
               \/ JobClientClose(q)
    BY <2>1, JobsLeaveOthers
  <2>2. CASE \/ Arrive(q) \/ BodyRejected(q) \/ SignatureRefused(q)
             \/ ProxyUnqueued(q) \/ UpstreamResponse(q) \/ UpstreamPaused(q)
             \/ ClientDrain(q) \/ ProxiedEnd(q) \/ ProxiedAborted(q)
             \/ ProxiedError(q) \/ ProxiedClientClose(q)
    BY <1>2, <1>6, <2>2
       DEF SameOther, Arrive, BodyRejected, SignatureRefused, ProxyUnqueued,
           UpstreamResponse, UpstreamPaused, ClientDrain, ProxiedEnd,
           ProxiedAborted, ProxiedError, ProxiedClientClose, Ended, Destroyed
  <2> QED  BY <1>6, <2>1, <2>2 DEF RequestStep
<1>7. CASE RequestStep(r)
  <2>1. CASE Enqueue(r) \/ JobEnd(r) \/ JobAborted(r) \/ JobError(r)
               \/ JobClientClose(r)
    BY <1>2, <1>3, <2>1, JobsLeaveOthers
  <2>2. CASE Arrive(r) \/ BodyRejected(r) \/ SignatureRefused(r)
    BY <1>2, <2>2 DEF Arrive, BodyRejected, SignatureRefused
  <2>3. CASE ProxyUnqueued(r)
    BY <1>2, <2>3 DEF ProxyUnqueued, ReadingBody, Live
  <2>4. CASE UpstreamResponse(r) \/ UpstreamPaused(r) \/ ClientDrain(r)
    BY <1>1, <1>2, <2>4
       DEF UpstreamResponse, UpstreamPaused, ClientDrain, Live
  <2>5. CASE ProxiedEnd(r) \/ ProxiedError(r)
    <3>1. \E event \in Events : record'[r] = Append(record[r], event)
      BY <1>2, <2>5 DEF ProxiedEnd, ProxiedError, EndOf, Events
    <3>2. ASSUME NEW event \in Events
          PROVE  Append(record[r], event) # <<>>
      <4>1. record[r] \in Seq(Events)
        BY <1>2
      <4>2. Len(Append(record[r], event)) = Len(record[r]) + 1
        BY <4>1
      <4>3. Len(record[r]) \in Nat /\ Len(<<>>) = 0
        BY <4>1
      <4> QED  BY <4>2, <4>3
    <3>3. upstream'[r] = "over"
      BY <1>2, <2>5 DEF ProxiedEnd, ProxiedError
    <3> QED  BY <3>1, <3>2, <3>3
  <2>6. CASE ProxiedAborted(r)
    BY <1>1, <1>2, <2>6 DEF ProxiedAborted, Live
  <2>7. CASE ProxiedClientClose(r)
    <3>1. /\ client'[r] = "closed" /\ head'[r] = head[r]
          /\ stage'[r] = stage[r] /\ record'[r] = record[r]
          /\ upstream[r] = "sent" => upstream'[r] = "hangup"
          /\ upstream[r] \in {"streaming", "paused"} =>
               upstream'[r] = "destroyed"
          /\ upstream[r] \notin Live => upstream'[r] = upstream[r]
      BY <1>2, <2>7 DEF ProxiedClientClose, Destroyed, Live
    <3> QED  BY <1>1, <2>7, <3>1 DEF Live, ProxiedClientClose
  <2> QED
    BY <1>7, <2>1, <2>2, <2>3, <2>4, <2>5, <2>6, <2>7 DEF RequestStep
<1> QED  BY <1>3, <1>4, <1>5, <1>6, <1>7 DEF Next

LEMMA OthersInitially == Init => OthersInv
<1> SUFFICES ASSUME Init PROVE OthersInv
  OBVIOUS
<1>1. Others \subseteq Requests
  BY DEF Requests
<1> QED  BY <1>1 DEF Init, OthersInv, HeadInv, ProxiedRecorded

\* proxyUnqueued accounts for every request that is not queued: one without a
\* record is not over yet, died with its process, or had its answer broken
\* off behind the head, and its client was given no end of an answer.
THEOREM GatewayProxiedRecorded == Spec => []ProxiedRecorded
<1>1. OthersInv => ProxiedRecorded
  BY DEF OthersInv
<1>2. Spec => []OthersInv
  BY OthersInitially, OthersStep, Invariance, PTL DEF Spec
<1> QED  BY <1>1, <1>2, PTL
=============================================================================
