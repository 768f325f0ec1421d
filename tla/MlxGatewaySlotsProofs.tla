------------------------ MODULE MlxGatewaySlotsProofs ------------------------
(***************************************************************************)
(* MlxGateway implements InferenceSlots, for any requests and any limit.   *)
(*                                                                         *)
(* Every callback maps to a step of InferenceSlots or to none.  What needs *)
(* proof is that the loop of drainQueue, which counts running jobs after   *)
(* each shift, hands out exactly the free slots, in the order of the line; *)
(* and that the handlers find a job where the abstract line has it.        *)
(***************************************************************************)
EXTENDS MlxGatewayProofs

-----------------------------------------------------------------------------
(* The state InferenceSlots sees.                                          *)

Entered == {r \in Inference : stage[r] = "job"}
Outcome == [r \in Inference |->
              IF record[r] = <<>> THEN "none" ELSE record[r][1]]

LEMMA SlotsInit == Init => Slots!Init
<1>1. Inference \subseteq Requests
  BY DEF Requests
<1> QED  BY <1>1 DEF Init, Slots!Init

LEMMA MinOfTwo ==
  ASSUME NEW a \in Int, NEW b \in Int
  PROVE  Slots!Min({a, b}) = IF a <= b THEN a ELSE b
<1>1. \E x \in {a, b} : \A y \in {a, b} : x <= y
  OBVIOUS
<1> QED  BY <1>1 DEF Slots!Min

-----------------------------------------------------------------------------
(* drainQueue grants slots as the abstract line does.                      *)

\* The first n jobs of a line without repetition are n jobs.
LEMMA FirstsCount ==
  ASSUME NEW q \in Seq(Inference), Distinct(q), NEW n \in Nat, n <= Len(q)
  PROVE  /\ IsFiniteSet(Firsts(q, n))
         /\ Cardinality(Firsts(q, n)) = n
         /\ Firsts(q, n) \subseteq Elems(q)
<1>1. Len(q) \in Nat /\ \A i \in 1..n : i \in 1..Len(q)
  OBVIOUS
<1> DEFINE f == [i \in 1..n |-> q[i]]
<1>2. f \in Surjection(1..n, Firsts(q, n))
  BY DEF Surjection, Firsts
<1>3. \A i, k \in 1..n : q[i] = q[k] => i = k
  BY <1>1 DEF Distinct
<1>4. f \in Injection(1..n, Firsts(q, n))
  BY <1>3 DEF Injection, IsInjective, Firsts
<1>5. ExistsBijection(1..n, Firsts(q, n))
  BY <1>2, <1>4 DEF ExistsBijection, Bijection
<1>6. Firsts(q, n) \subseteq Elems(q)
  BY <1>1 DEF Firsts, Elems
<1> QED  BY <1>5, <1>6, FS_CountingElements, PrefixFinite

\* InferenceSlots has FiniteSets through INSTANCE, under a name of its own.
LEMMA SameCardinality == \A S : Slots!Cardinality(S) = Cardinality(S)
BY Zenon DEF Slots!Cardinality, Cardinality

\* The loop of drainQueue, from a line none of whose jobs is running or gone:
\* it stops when Min({free slots, jobs in line}) jobs have been shifted.
LEMMA DrainGrants ==
  ASSUME NEW q \in Seq(Inference), Distinct(q), NEW slots, IsFiniteSet(slots),
         Cardinality(slots) <= parallelLimit, NEW gone, NEW conns,
         Elems(q) \cap (slots \cup gone) = {},
         DrainQueue(q, slots, gone, conns)
  PROVE  Slots!Grant(q, slots)
<1>1. PICK n \in 0..Len(q) :
        /\ DrainStops(q, slots, gone, n)
        /\ queue' = SubSeq(q, n + 1, Len(q))
        /\ running' = slots \cup Started(q, n, gone)
  BY DEF DrainQueue
<1> DEFINE c == Cardinality(slots)
<1>2. /\ c \in Nat /\ parallelLimit \in Nat /\ c <= parallelLimit
      /\ Len(q) \in Nat /\ n \in Nat /\ n <= Len(q)
  BY FS_CardinalityType, LimitAssumption
<1>3. ASSUME NEW k \in Nat, k <= Len(q)
      PROVE  /\ Started(q, k, gone) = Firsts(q, k)
             /\ Cardinality(slots \cup Started(q, k, gone)) = c + k
  <2>1. /\ IsFiniteSet(Firsts(q, k)) /\ Cardinality(Firsts(q, k)) = k
        /\ Firsts(q, k) \subseteq Elems(q)
    BY <1>3, FirstsCount
  <2>2. Started(q, k, gone) = Firsts(q, k)
    BY <2>1 DEF Started, Firsts
  <2>3. slots \cap Firsts(q, k) = {}
    BY <2>1
  <2>4. Cardinality(slots \cup Firsts(q, k))
          = c + Cardinality(Firsts(q, k)) - Cardinality(slots \cap Firsts(q, k))
    BY <2>1, FS_Union
  <2>5. Cardinality({}) = 0
    BY FS_EmptySet
  <2>6. Cardinality(slots \cup Firsts(q, k)) = c + k - 0
    BY <2>1, <2>3, <2>4, <2>5
  <2> HIDE DEF c
  <2> QED  BY <1>2, <2>2, <2>6
<1> HIDE DEF c
<1>4. n > 0 => c + (n - 1) < parallelLimit
  <2> SUFFICES ASSUME n > 0 PROVE c + (n - 1) < parallelLimit
    OBVIOUS
  <2>1. n - 1 \in Nat /\ n - 1 <= Len(q) /\ n - 1 \in 0..(n - 1)
    BY <1>2
  <2>2. Cardinality(slots \cup Started(q, n - 1, gone)) < parallelLimit
    BY <1>1, <2>1 DEF DrainStops
  <2> QED  BY <1>3, <2>1, <2>2
<1>5. n < Len(q) => c + n >= parallelLimit
  BY <1>1, <1>2, <1>3 DEF DrainStops
<1>6. n = Slots!Min({parallelLimit - c, Len(q)})
  <2>1. Slots!Min({parallelLimit - c, Len(q)})
          = IF parallelLimit - c <= Len(q) THEN parallelLimit - c ELSE Len(q)
    BY <1>2, MinOfTwo
  <2> QED  BY <1>2, <1>4, <1>5, <2>1
<1>7. running' = slots \cup {q[i] : i \in 1..n}
  BY <1>1, <1>2, <1>3 DEF Firsts
<1>8. queue' = SubSeq(q, n + 1, Len(q))
  BY <1>1
<1>9. n = Slots!Min({parallelLimit - Slots!Cardinality(slots), Len(q)})
  BY <1>6, SameCardinality DEF c
<1> HIDE DEF Slots!Min
<1> QED  BY <1>7, <1>8, <1>9, Zenon DEF Slots!Grant

-----------------------------------------------------------------------------
(* Each callback as a step of the line.                                    *)

\* How the end of one job is seen.
LEMMA OutcomeStep ==
  ASSUME TypeOK, NEW r \in Inference, NEW e, record' = [record EXCEPT ![r] = <<e>>]
  PROVE  Outcome' = [Outcome EXCEPT ![r] = e]
<1>1. Inference \subseteq Requests /\ record \in [Requests -> Seq(Events)]
  BY DEF TypeOK, Requests
<1>2. record'[r] = <<e>> /\ \A x \in Inference : x # r => record'[x] = record[x]
  BY <1>1
<1>3. <<e>> # <<>> /\ <<e>>[1] = e
  OBVIOUS
<1>4. Outcome'[r] = e /\ \A x \in Inference : x # r => Outcome'[x] = Outcome[x]
  BY <1>2, <1>3 DEF Outcome
<1>5. /\ Outcome = [x \in Inference |-> Outcome[x]]
      /\ Outcome' = [x \in Inference |-> Outcome'[x]]
  BY DEF Outcome
<1> HIDE DEF Outcome
<1> QED  BY <1>4, <1>5

\* A job put behind the others.
LEMMA AppendResult ==
  ASSUME NEW q \in Seq(Inference), Distinct(q), NEW r \in Inference,
         r \notin Elems(q)
  PROVE  /\ Append(q, r) \in Seq(Inference)
         /\ Distinct(Append(q, r))
         /\ Elems(Append(q, r)) = Elems(q) \cup {r}
<1> PICK a : a = Append(q, r)
  OBVIOUS
<1>1. /\ a \in Seq(Inference) /\ Len(a) = Len(q) + 1 /\ Len(q) \in Nat
      /\ \A i \in 1..Len(q) : a[i] = q[i] /\ q[i] # r
      /\ a[Len(q) + 1] = r
  BY DEF Elems
<1>2. \A i \in 1..Len(a) : i \in 1..Len(q) \/ i = Len(q) + 1
  BY <1>1
<1>3. Distinct(a)
  BY <1>1, <1>2 DEF Distinct
<1>4. 1..Len(q) \subseteq 1..Len(a) /\ Len(q) + 1 \in 1..Len(a)
  BY <1>1
<1>5. Elems(a) = Elems(q) \cup {r}
  BY <1>1, <1>2, <1>4 DEF Elems
<1> QED  BY <1>1, <1>3, <1>5

LEMMA OutcomeNone ==
  ASSUME NEW r \in Inference, record[r] = <<>>
  PROVE  Outcome[r] = "none"
BY DEF Outcome

\* A step that InferenceSlots does not see.
LEMMA SlotsStutter ==
  ASSUME UNCHANGED <<queue, running>>, Entered' = Entered,
         \A x \in Inference : record'[x] = record[x]
  PROVE  UNCHANGED Slots!vars
<1>1. Outcome' = Outcome
  BY DEF Outcome
<1> QED  BY <1>1 DEF Slots!vars, Entered, Outcome

\* A job that holds a slot and is settled: Serve.
LEMMA ServeStep ==
  ASSUME IInv, NEW r \in running, NEW e \in Events, stage' = stage,
         NEW q, q = queue, NEW conns,
         cancelled' \subseteq finished \cup {r},
         FinishJob(r, e, q, conns)
  PROVE  Slots!Serve(r)
<1>1. r \in Inference /\ r \notin finished /\ record[r] = <<>>
  <2>1. r \in Inference /\ r \notin finished /\ stage[r] = "job"
    BY DEF IInv, TypeOK, RunningInv
  <2> QED  BY <2>1 DEF IInv, RecordInv, Requests
<1> DEFINE slots == running \ {r}
           gone == cancelled' \cup finished'
<1>2. /\ finished' = finished \cup {r}
      /\ record' = [record EXCEPT ![r] = Append(@, e)]
      /\ DrainQueue(q, slots, gone, conns)
  BY <1>1 DEF FinishJob
<1>3. q \in Seq(Inference) /\ Distinct(q) /\ Elems(q) \cap (slots \cup gone) = {}
  <2>1. queue \in Seq(Inference) /\ Distinct(queue)
    BY DEF IInv, TypeOK, QueueSound
  <2>2. \A x \in Elems(queue) : x \notin finished \cup running /\ x # r
    BY DEF IInv, QueueSound
  <2> QED  BY <1>2, <2>1, <2>2
<1>4. IsFiniteSet(slots) /\ Cardinality(slots) <= parallelLimit
  <2>1. IsFiniteSet(running) /\ Cardinality(running) <= parallelLimit
    BY DEF IInv, TypeOK, SlotsExact
  <2>2. Cardinality(running) \in Nat
    BY <2>1, FS_CardinalityType
  <2>3. /\ IsFiniteSet(slots)
        /\ Cardinality(slots) = Cardinality(running) - 1
    BY <2>1, FS_RemoveElement
  <2> HIDE DEF slots
  <2> QED  BY <2>1, <2>2, <2>3, LimitAssumption
<1> HIDE DEF slots, gone
<1>5. Slots!Grant(q, slots)
  BY <1>2, <1>3, <1>4, DrainGrants
<1>6. Slots!Grant(queue, running \ {r})
  BY <1>5 DEF slots
<1>7. Append(record[r], e) = <<e>>
  BY <1>1
<1>8. Outcome' = [Outcome EXCEPT ![r] = e]
  BY <1>1, <1>2, <1>7, OutcomeStep DEF IInv
<1>9. Outcome[r] = "none" /\ Entered' = Entered /\ e \in Slots!Outcomes
  BY <1>1, OutcomeNone DEF Entered, Slots!Outcomes, Events
<1> QED  BY <1>6, <1>8, <1>9 DEF Slots!Serve, Entered, Outcome

\* The close handler of a job that waits: Leave, which grants no slot because
\* a line exists only while there is none free.
LEMMA LeaveStep ==
  ASSUME IInv, NEW r \in Elems(queue), stage' = stage, NEW conns,
         cancelled' = cancelled \cup {r},
         FinishJob(r, "cancelled", Without(queue, r), conns)
  PROVE  Slots!Leave(r)
<1>1. /\ queue \in Seq(Inference) /\ Distinct(queue) /\ Len(queue) \in Nat
      /\ IsFiniteSet(running)
      /\ r \in Inference /\ r \notin finished /\ r \notin running
      /\ \A x \in Elems(queue) : x \notin finished \cup running
  BY DEF IInv, TypeOK, QueueSound, Elems
<1>2. stage[r] = "job" /\ record[r] = <<>>
  <2>1. stage[r] = "job"
    BY DEF IInv, QueueSound
  <2> QED  BY <1>1, <2>1 DEF IInv, RecordInv, Requests
<1>3. PICK i \in 1..Len(queue) : /\ queue[i] = r
                                 /\ Without(queue, r)
                                      = SubSeq(queue, 1, i - 1)
                                          \o SubSeq(queue, i + 1, Len(queue))
  <2> DEFINE P(k) == queue[k] = r /\ \A m \in 1..(k - 1) : queue[m] # r
             j == CHOOSE k \in 1..Len(queue) : P(k)
  <2>1. PICK k \in 1..Len(queue) : queue[k] = r
    BY DEF Elems
  <2>2. P(k)
    BY <1>1, <2>1 DEF Distinct
  <2>3. j \in 1..Len(queue) /\ P(j)
    BY <2>2
  <2>4. Without(queue, r) = SubSeq(queue, 1, j - 1)
                              \o SubSeq(queue, j + 1, Len(queue))
    BY <2>1 DEF Without
  <2> HIDE DEF j
  <2> QED  BY <2>3, <2>4
<1>4. PICK w : w = Without(queue, r)
  OBVIOUS
<1>5. w \in Seq(Inference) /\ Distinct(w) /\ Elems(w) = Elems(queue) \ {r}
  BY <1>1, <1>4, WithoutResult
<1> DEFINE slots == running \ {r}
           gone == cancelled' \cup finished'
<1>6. /\ finished' = finished \cup {r}
      /\ record' = [record EXCEPT ![r] = Append(@, "cancelled")]
      /\ DrainQueue(w, slots, gone, conns)
  BY <1>1, <1>4 DEF FinishJob
<1>7. Elems(w) \cap (slots \cup gone) = {}
  BY <1>1, <1>5, <1>6 DEF IInv, StageInv
<1>8. slots = running /\ Cardinality(running) = parallelLimit
  <2>1. queue # <<>>
    BY <1>1, <1>3
  <2> QED  BY <1>1, <2>1 DEF IInv, SlotsExact
<1> HIDE DEF slots, gone
<1>9. Slots!Grant(w, slots)
  <2>1. Cardinality(slots) <= parallelLimit
    BY <1>8, LimitAssumption
  <2> QED  BY <1>1, <1>5, <1>6, <1>7, <1>8, <2>1, DrainGrants
<1>10. queue' = w /\ running' = running
  <2>1. Slots!Min({parallelLimit - Slots!Cardinality(slots), Len(w)}) = 0
    <3>1. Len(w) \in Nat /\ parallelLimit - Slots!Cardinality(slots) = 0
      BY <1>5, <1>8, SameCardinality, LimitAssumption
    <3> QED  BY <3>1, MinOfTwo
  <2>2. queue' = SubSeq(w, 0 + 1, Len(w)) /\ running' = slots \cup {w[k] : k \in 1..0}
    BY <1>9, <2>1, Zenon DEF Slots!Grant
  <2>3. SubSeq(w, 0 + 1, Len(w)) = w /\ {w[k] : k \in 1..0} = {}
    BY <1>5
  <2> QED  BY <1>8, <2>2, <2>3
<1>11. Append(record[r], "cancelled") = <<"cancelled">>
  BY <1>2
<1>12. Outcome' = [Outcome EXCEPT ![r] = "cancelled"]
  BY <1>1, <1>6, <1>11, OutcomeStep DEF IInv
<1>13. Outcome[r] = "none" /\ Entered' = Entered
  BY <1>1, <1>2, OutcomeNone DEF Entered
<1>14. \E k \in 1..Len(queue) :
         /\ queue[k] = r
         /\ queue' = SubSeq(queue, 1, k - 1) \o SubSeq(queue, k + 1, Len(queue))
  BY <1>3, <1>4, <1>10
<1> QED  BY <1>10, <1>12, <1>13, <1>14 DEF Slots!Leave, Entered, Outcome

\* A request that becomes a job joins the line.
LEMMA JoinStep ==
  ASSUME IInv, NEW r \in Requests, Enqueue(r)
  PROVE  Slots!Join(r)
<1>1. /\ r \in Inference /\ stage[r] = "body" /\ client[r] = "open"
      /\ stage' = [stage EXCEPT ![r] = "job"] /\ record' = record
  BY DEF Enqueue, ReadingBody
<1>2. /\ queue \in Seq(Inference) /\ Distinct(queue)
      /\ IsFiniteSet(running) /\ Cardinality(running) <= parallelLimit
      /\ stage \in [Requests -> Stages] /\ Inference \subseteq Requests
  BY DEF IInv, TypeOK, QueueSound, SlotsExact, Requests
<1>3. /\ r \notin finished /\ r \notin running /\ r \notin Elems(queue)
      /\ cancelled \subseteq finished /\ record[r] = <<>>
  BY <1>1 DEF IInv, StageInv, RunningInv, QueueSound, RecordInv, Requests
<1> DEFINE q == Append(queue, r)
           gone == cancelled \cup finished
<1>4. q \in Seq(Inference) /\ Distinct(q) /\ Elems(q) = Elems(queue) \cup {r}
  BY <1>1, <1>2, <1>3, AppendResult
<1>5. Elems(q) \cap (running \cup gone) = {}
  <2> HIDE DEF q
  <2> QED  BY <1>3, <1>4 DEF IInv, QueueSound
<1>6. DrainQueue(q, running, gone, upstream)
  BY DEF Enqueue
<1> HIDE DEF q, gone
<1>7. Slots!Grant(q, running)
  BY <1>2, <1>4, <1>5, <1>6, DrainGrants
<1>8. Entered' = Entered \cup {r} /\ r \notin Entered
  BY <1>1, <1>2 DEF Entered
<1>9. Outcome' = Outcome /\ Outcome[r] = "none"
  BY <1>1, <1>3, OutcomeNone DEF Outcome
<1> QED  BY <1>7, <1>8, <1>9 DEF Slots!Join, q, Entered, Outcome

\* A body that is refused before its request becomes a job.
LEMMA TurnAwayStep ==
  ASSUME IInv, NEW r \in Inference, BodyRejected(r)
  PROVE  Slots!TurnAway(r)
<1>1. /\ stage[r] = "body" /\ client[r] = "open" /\ r \in Requests
      /\ stage' = [stage EXCEPT ![r] = "refused"]
      /\ UNCHANGED <<queue, running>>
  BY DEF BodyRejected, ReadingBody, Requests
<1>2. record[r] = <<>> /\ stage \in [Requests -> Stages]
  BY <1>1 DEF IInv, StageInv, RecordInv, TypeOK
<1>3. PICK e \in {"failed", "cancelled"} : record' = [record EXCEPT ![r] = <<e>>]
  <2>1. Append(record[r], "failed") = <<"failed">>
        /\ Append(record[r], "cancelled") = <<"cancelled">>
    BY <1>2
  <2> QED  BY <2>1 DEF BodyRejected
<1>4. Outcome' = [Outcome EXCEPT ![r] = e] /\ Outcome[r] = "none"
  BY <1>2, <1>3, OutcomeStep, OutcomeNone DEF IInv
<1>5. r \notin Entered /\ Entered' = Entered
  BY <1>1, <1>2 DEF Entered, Requests
<1>6. e \in Slots!Outcomes \ {"completed"}
  BY DEF Slots!Outcomes
<1> QED  BY <1>1, <1>4, <1>5, <1>6 DEF Slots!TurnAway, Entered, Outcome

\* The callbacks of a job: a first report serves or removes it, a later one
\* is not seen.
LEMMA SlotsJobSteps ==
  ASSUME IInv, LeftInv, NEW r \in Requests,
         JobEnd(r) \/ JobAborted(r) \/ JobError(r) \/ JobClientClose(r)
  PROVE  \/ r \in Inference /\ (Slots!Serve(r) \/ Slots!Leave(r))
         \/ UNCHANGED Slots!vars
<1>1. r \in Inference /\ stage[r] = "job" /\ stage' = stage
  BY DEF JobEnd, JobAborted, JobError, JobClientClose, StageInv, IInv
<1>2. upstream[r] \in Live => r \in running
  BY <1>1 DEF IInv, RunningInv
<1>3. cancelled \subseteq finished
  BY DEF IInv, StageInv
<1>4. CASE r \in finished
  <2>1. UNCHANGED <<queue, running, record>>
    BY <1>4 DEF JobEnd, JobAborted, JobError, JobClientClose, FinishJob
  <2>2. Entered' = Entered
    BY <1>1 DEF Entered
  <2> QED  BY <2>1, <2>2, SlotsStutter
<1>5. CASE r \notin finished /\ ~ JobClientClose(r)
  <2>1. r \in running
    BY <1>1, <1>2, <1>5
       DEF JobEnd, JobAborted, JobError, LeftInv, Live
  <2>2. PICK e \in Events, u \in Upstreams :
           FinishJob(r, e, queue, [upstream EXCEPT ![r] = u])
    <3>1. EndOf(r) \in Events /\ "failed" \in Events
          /\ "over" \in Upstreams /\ "aborted" \in Upstreams
      BY DEF EndOf, Events, Upstreams
    <3>2. CASE JobEnd(r)
      <4>1. FinishJob(r, EndOf(r), queue, [upstream EXCEPT ![r] = "over"])
        BY <3>2 DEF JobEnd
      <4> QED  BY <3>1, <4>1
    <3>3. CASE JobAborted(r)
      <4>1. FinishJob(r, "failed", queue, [upstream EXCEPT ![r] = "aborted"])
        BY <3>3 DEF JobAborted
      <4> QED  BY <3>1, <4>1
    <3>4. CASE JobError(r)
      <4>1. FinishJob(r, "failed", queue, [upstream EXCEPT ![r] = "over"])
        BY <3>4 DEF JobError
      <4> QED  BY <3>1, <4>1
    <3> QED  BY <1>5, <3>2, <3>3, <3>4
  <2>3. PICK conns : conns = [upstream EXCEPT ![r] = u]
    OBVIOUS
  <2>4. PICK q : q = queue
    OBVIOUS
  <2>5. cancelled' \subseteq finished \cup {r}
    BY <1>3, <1>5 DEF JobEnd, JobAborted, JobError
  <2>6. FinishJob(r, e, q, conns)
    BY <2>2, <2>3, <2>4
  <2> QED  BY <1>1, <2>1, <2>4, <2>5, <2>6, ServeStep
<1>6. CASE r \notin finished /\ JobClientClose(r)
  <2>1. /\ client[r] = "open"
        /\ cancelled' = cancelled \cup {r}
        /\ FinishJob(r, "cancelled", Without(queue, r), Destroyed(r))
    BY <1>6 DEF JobClientClose
  <2>2. PICK conns : conns = Destroyed(r)
    OBVIOUS
  <2>3. r \in running \/ r \in Elems(queue)
    BY <1>1, <1>6, <2>1 DEF IInv, QueueSound
  <2>4. CASE r \in Elems(queue)
    BY <1>1, <2>1, <2>2, <2>4, LeaveStep
  <2>5. CASE r \in running
    <3>1. r \notin Elems(queue)
      BY <2>5 DEF IInv, QueueSound
    <3>2. PICK q : q = Without(queue, r)
      OBVIOUS
    <3>3. q = queue
      BY <3>1, <3>2 DEF Without, Elems
    <3>4. FinishJob(r, "cancelled", q, conns)
      BY <2>1, <2>2, <3>2
    <3>5. "cancelled" \in Events /\ cancelled' \subseteq finished \cup {r}
      BY <1>3, <2>1 DEF Events
    <3> QED  BY <1>1, <2>5, <3>3, <3>4, <3>5, ServeStep
  <2> QED  BY <2>3, <2>4, <2>5
<1> QED  BY <1>4, <1>5, <1>6

\* Callbacks before a request is a job, and those of requests that never are.
LEMMA SlotsOtherSteps ==
  ASSUME IInv, NEW r \in Requests,
         \/ Arrive(r) \/ BodyRejected(r) \/ SignatureRefused(r)
         \/ ProxyUnqueued(r) \/ UpstreamResponse(r) \/ UpstreamPaused(r)
         \/ ClientDrain(r) \/ ProxiedEnd(r) \/ ProxiedAborted(r)
         \/ ProxiedError(r) \/ ProxiedClientClose(r),
         ~ (r \in Inference /\ BodyRejected(r))
  PROVE  UNCHANGED Slots!vars
<1>1. UNCHANGED <<queue, running>>
  BY DEF Arrive, BodyRejected, SignatureRefused, ProxyUnqueued,
         UpstreamResponse, UpstreamPaused, ClientDrain, ProxiedEnd,
         ProxiedAborted, ProxiedError, ProxiedClientClose
<1>2. /\ stage \in [Requests -> Stages] /\ record \in [Requests -> Seq(Events)]
      /\ Inference \subseteq Requests
      /\ stage[r] = "proxied" => r \notin Inference
  BY RequestsAssumption DEF IInv, TypeOK, StageInv, Requests
<1>3. /\ \A x \in Inference : x # r => stage'[x] = stage[x]
      /\ r \in Inference => (stage'[r] = "job" <=> stage[r] = "job")
  BY <1>2, RequestsAssumption
     DEF Arrive, BodyRejected, SignatureRefused, ProxyUnqueued, ReadingBody,
         UpstreamResponse, UpstreamPaused, ClientDrain, ProxiedEnd,
         ProxiedAborted, ProxiedError, ProxiedClientClose
<1>4. Entered' = Entered
  BY <1>3 DEF Entered
<1>5. \A x \in Inference : record'[x] = record[x]
  BY <1>2, RequestsAssumption
     DEF Arrive, BodyRejected, SignatureRefused, ProxyUnqueued,
         UpstreamResponse, UpstreamPaused, ClientDrain, ProxiedEnd,
         ProxiedAborted, ProxiedError, ProxiedClientClose
<1> QED  BY <1>1, <1>4, <1>5, SlotsStutter

LEMMA SlotsStep ==
  ASSUME IInv, LeftInv, [Next]_vars
  PROVE  [Slots!Next]_(Slots!vars)
<1>1. CASE UNCHANGED vars \/ Shutdown \/ Restart
  <2>1. UNCHANGED <<queue, running, stage, record>>
    BY <1>1 DEF vars, Shutdown, Restart
  <2>2. Entered' = Entered
    BY <2>1 DEF Entered
  <2> QED  BY <2>1, <2>2, SlotsStutter
<1>2. CASE Exit \/ Crash
  <2>1. queue' = <<>> /\ running' = {} /\ UNCHANGED <<stage, record>>
    BY <1>2 DEF Exit, Crash, ProcessGone
  <2>2. Entered' = Entered /\ Outcome' = Outcome
    BY <2>1 DEF Entered, Outcome
  <2>3. Slots!Lose
    BY <2>1, <2>2 DEF Slots!Lose, Entered, Outcome
  <2> QED  BY <2>3 DEF Slots!Next
<1>3. ASSUME NEW r \in Requests, RequestStep(r)
      PROVE  [Slots!Next]_(Slots!vars)
  <2>1. CASE Enqueue(r)
    <3>1. Slots!Join(r) /\ r \in Inference
      BY <2>1, JoinStep DEF Enqueue
    <3> QED  BY <3>1 DEF Slots!Next
  <2>2. CASE JobEnd(r) \/ JobAborted(r) \/ JobError(r) \/ JobClientClose(r)
    BY <2>2, SlotsJobSteps DEF Slots!Next
  <2>3. CASE r \in Inference /\ BodyRejected(r)
    <3>1. Slots!TurnAway(r)
      BY <2>3, TurnAwayStep
    <3> QED  BY <2>3, <3>1 DEF Slots!Next
  <2>4. CASE /\ \/ Arrive(r) \/ BodyRejected(r) \/ SignatureRefused(r)
                \/ ProxyUnqueued(r) \/ UpstreamResponse(r) \/ UpstreamPaused(r)
                \/ ClientDrain(r) \/ ProxiedEnd(r) \/ ProxiedAborted(r)
                \/ ProxiedError(r) \/ ProxiedClientClose(r)
             /\ ~ (r \in Inference /\ BodyRejected(r))
    BY <2>4, SlotsOtherSteps
  <2> QED  BY <1>3, <2>1, <2>2, <2>3, <2>4 DEF RequestStep
<1> QED  BY <1>1, <1>2, <1>3 DEF Next

-----------------------------------------------------------------------------
\* The request path implements InferenceSlots: free slots go to the head of
\* the line at once, jobs are served in arrival order, and a job that settles
\* does so once, whatever callbacks come in whatever order.
THEOREM GatewayImplementsSlots == Spec => ImplementsSlots
<1>1. Init => Slots!Init
  BY SlotsInit
<1>2. IInv /\ LeftInv /\ [Next]_vars => [Slots!Next]_(Slots!vars)
  BY SlotsStep
<1> QED  BY <1>1, <1>2, Invariance, LeftInvariance, PTL
         DEF Spec, ImplementsSlots, Slots!Spec
==============================================================================
